--------------------------- MODULE LinkCacheProofs ---------------------------
(***************************************************************************)
(* Proofs about LinkCache for any instances, links, paths and hosts, any    *)
(* number of mutations, lost messages and subscriptions, failed loads and   *)
(* crashes.                                                                *)
(***************************************************************************)
EXTENDS LinkCache, FiniteSetTheorems, TLAPS

\* What the constants are given: links and hosts have names of their own, and the
\* bounds are naturals.
Setting == KeysAssumption /\ BoundsAssumption

Entries == [held : BOOLEAN, value : Values, capped : BOOLEAN, fresh : BOOLEAN,
            long : BOOLEAN, missed : Reasons]
Flights == [phase : {"none", "loading", "loaded"}, value : Values, capped : BOOLEAN,
            past : BOOLEAN, missed : Reasons]
Caches == entry \in [Instances -> [Keys -> Entries]] /\ flight \in [Instances -> [Keys -> Flights]]
Bus == /\ live \in [Instances -> BOOLEAN] /\ connected \in [Instances -> BOOLEAN]
       /\ wire \in [Instances -> Seq(Links \cup Hosts)]
       /\ ops \subseteq [at : Instances, what : Links \cup Hosts,
                         step : {"evict", "publish", "publishEarly", "commit"}]
Database ==
    /\ version \in [Links -> Nat] /\ alive \in [Links -> BOOLEAN]
    /\ revision \in [Links -> Nat] /\ scheduled \in [Links -> BOOLEAN]
    /\ target \in [Paths -> Links \cup {Nobody}]

(***************************************************************************)
(* The invariant.                                                          *)
(***************************************************************************)
\* An invalidation of the link of k that has not run at instance i.
Awaited(i, k) ==
    \/ \E op \in ops : /\ op.what = k[2]
                       /\ op.step = "evict" \/ (op.step = "publish" /\ op.at # i)
    \/ \E n \in 1..Len(wire[i]) : wire[i][n] = k[2]

\* What was loaded for k is outdated, or will be when the scheduled revision
\* takes effect and nothing cuts it off.
Doomed(k, loaded) == loaded.value # Truth(k) \/ (Capped(k) /\ ~loaded.capped)
Excused(i, k, loaded) == loaded.missed # "no" \/ Awaited(i, k)

Storable(i, k) == flight[i][k].phase = "loaded" /\ ~flight[i][k].past

\* Entries and the flights that will become entries alike.
EntriesAwaited == \A i \in Instances : \A k \in LinkKeys :
    Hit(i, k) /\ Doomed(k, entry[i][k]) => Excused(i, k, entry[i][k])
FlightsAwaited == \A i \in Instances : \A k \in LinkKeys :
    Storable(i, k) /\ Doomed(k, flight[i][k]) => Excused(i, k, flight[i][k])

\* The long TTL is for the time between two flushes.
LongWhileConnected == \A i \in Instances : \A k \in Keys :
    entry[i][k].held /\ entry[i][k].long =>
        connected[i] /\ (entry[i][k].missed = "subscription" => ~live[i])
MissedOffBus == \A i \in Instances : \A k \in Keys :
    flight[i][k].phase = "loaded" /\ flight[i][k].missed = "subscription" =>
        ~connected[i] \/ ~live[i]

\* Room is made before an entry is stored.
RoomKept == \A i \in Instances :
    IsFiniteSet(HeldKeys(i)) /\ Cardinality(HeldKeys(i)) <= MaxEntries

Inv == /\ TypeOK /\ EntriesAwaited /\ FlightsAwaited
       /\ LongWhileConnected /\ MissedOffBus /\ RoomKept

(***************************************************************************)
(* Keys, values and what a step does to one place of the cache.            *)
(***************************************************************************)
LEMMA TypeParts ==
    /\ TypeOK <=> Database /\ Caches /\ Bus /\ writes \in 0..MaxWrites /\ faults \in 0..MaxFaults
    /\ TypeOK' <=> Database' /\ Caches' /\ Bus' /\ writes' \in 0..MaxWrites /\ faults' \in 0..MaxFaults
BY DEF TypeOK, Database, Caches, Bus, Entries, Flights

\* The keys of a link are those an eviction of it deletes.
LEMMA KeyFacts ==
    ASSUME Setting, NEW k \in LinkKeys
    PROVE  /\ k \in Keys /\ k[2] \in Links /\ k[1] \in {"code", "rev"} /\ k = <<k[1], k[2]>>
           /\ k \notin PathKeys
           /\ \A what \in Links \cup Hosts : k \in Covers(what) <=> what = k[2]
           /\ \A i : k \in EvictedKeys(i, k[2])
<1>1. k \in Keys /\ k[2] \in Links /\ k[1] \in LinkKinds /\ k = <<k[1], k[2]>>
  BY DEF Keys, LinkKeys
<1>2. k[1] \in {"code", "rev"} /\ k[2] \notin Hosts
  BY <1>1 DEF Setting, KeysAssumption
<1>3. \A p : PathKey(p)[1] = "path" /\ k # PathKey(p)
  BY <1>2 DEF PathKey
<1>4. \A what : k \in KeysOf(what) <=> what = k[2]
  BY <1>1 DEF KeysOf
<1>5. \A what \in Links \cup Hosts : k \in Covers(what) <=> what = k[2]
  BY <1>1, <1>2, <1>3, <1>4 DEF Covers
<1>6. \A i : k \in EvictedKeys(i, k[2])
  BY <1>1, <1>4 DEF EvictedKeys
<1> QED BY <1>1, <1>2, <1>3, <1>5, <1>6 DEF PathKeys

LEMMA EmptyPlaces ==
    /\ NoEntry \in Entries /\ ~NoEntry.held /\ ~NoEntry.fresh
    /\ NoFlight \in Flights /\ NoFlight.phase = "none" /\ ~NoFlight.past /\ NoFlight.missed = "no"
    /\ NoValue \in Values
BY DEF NoEntry, NoFlight, NoValue, Entries, Flights, Values, Reasons

LEMMA TruthType ==
    ASSUME Setting, Database, NEW k \in Keys
    PROVE  Truth(k) \in Values /\ Capped(k) \in BOOLEAN
<1>1. \A l : Row(l) \in Values
  BY DEF Row, Database, Values, NoValue
<1>2. CASE k \in LinkKeys
  BY <1>1, <1>2, KeyFacts DEF Truth, Capped, Database, Values
<1>3. CASE k \in PathKeys
  <2>1. k[1] = "path"
    BY <1>3 DEF PathKeys, PathKey
  <2> QED BY <1>1, <2>1 DEF Truth, Capped
<1> QED BY <1>2, <1>3 DEF Keys

LEMMA EntryPut ==
    ASSUME Caches, NEW i \in Instances, NEW k \in Keys, NEW x \in Entries,
           entry' = [entry EXCEPT ![i][k] = x]
    PROVE  /\ entry' \in [Instances -> [Keys -> Entries]] /\ entry'[i][k] = x
           /\ \A j \in Instances : \A y \in Keys : j # i \/ y # k => entry'[j][y] = entry[j][y]
BY DEF Caches

LEMMA FlightPut ==
    ASSUME Caches, NEW i \in Instances, NEW k \in Keys, NEW x \in Flights,
           flight' = [flight EXCEPT ![i][k] = x]
    PROVE  /\ flight' \in [Instances -> [Keys -> Flights]] /\ flight'[i][k] = x
           /\ \A j \in Instances : \A y \in Keys : j # i \/ y # k => flight'[j][y] = flight[j][y]
BY DEF Caches

\* What becomes of one place: it stays, it is emptied, or its loss is noted.
Kept(i, k) == entry'[i][k] = entry[i][k] /\ flight'[i][k] = flight[i][k]
Emptied(i, k) == entry'[i][k] = NoEntry /\ flight'[i][k] = NoFlight
Noted(i, k, reason) ==
    /\ entry'[i][k] = IF entry[i][k].held THEN [entry[i][k] EXCEPT !.missed = reason] ELSE entry[i][k]
    /\ flight'[i][k] = IF flight[i][k].phase = "loaded"
                       THEN [flight[i][k] EXCEPT !.missed = reason] ELSE flight[i][k]

LEMMA EvictEffect ==
    ASSUME Caches, NEW i \in Instances, NEW keys,
           entry' = WithoutEntries(i, keys), flight' = WithoutFlights(i, keys)
    PROVE  /\ Caches'
           /\ \A j \in Instances : \A k \in Keys :
                IF j = i /\ k \in keys THEN Emptied(j, k) ELSE Kept(j, k)
BY EmptyPlaces DEF Caches, WithoutEntries, WithoutFlights, Kept, Emptied

LEMMA MarkEffect ==
    ASSUME Caches, NEW who, NEW whats, NEW reason \in Reasons, MarkMissed(who, whats, reason)
    PROVE  /\ Caches'
           /\ \A j \in Instances : \A k \in Keys :
                IF j \in who /\ \E w \in whats : k \in Covers(w) THEN Noted(j, k, reason) ELSE Kept(j, k)
<1>1. /\ \A x \in Entries : [x EXCEPT !.missed = reason] \in Entries
      /\ \A x \in Flights : [x EXCEPT !.missed = reason] \in Flights
  BY DEF Entries, Flights
<1>2. Caches'
  BY <1>1 DEF Caches, MarkMissed
<1>3. ASSUME NEW j \in Instances, NEW k \in Keys
      PROVE  IF j \in who /\ \E w \in whats : k \in Covers(w) THEN Noted(j, k, reason) ELSE Kept(j, k)
  BY DEF MarkMissed, Noted, Kept
<1> QED BY <1>2, <1>3

(***************************************************************************)
(* Steps that load nothing: each place stays, is emptied or is noted.      *)
(***************************************************************************)
\* What keeps a place short-lived off the bus.
Harmless(i, k) ==
    \/ Emptied(i, k)
    \/ /\ connected'[i] = connected[i]
       /\ \/ Kept(i, k) /\ (live'[i] => live[i] \/ ~connected[i])
          \/ Noted(i, k, "subscription") /\ ~live'[i]
          \/ (Noted(i, k, "publish") \/ Noted(i, k, "early")) /\ live'[i] = live[i]

\* What keeps a place of a link awaited.
Followed(i, k) ==
    \/ Emptied(i, k)
    \/ \E reason \in Reasons \ {"no"} : Noted(i, k, reason)
    \/ Kept(i, k) /\ Awaited(i, k)'
    \/ Kept(i, k) /\ Truth(k)' = Truth(k) /\ Capped(k)' = Capped(k) /\ (Awaited(i, k) => Awaited(i, k)')

LEMMA AwaitedKept ==
    ASSUME Setting, Caches, EntriesAwaited, FlightsAwaited, Caches',
           \A i \in Instances : \A k \in LinkKeys : Followed(i, k)
    PROVE  EntriesAwaited' /\ FlightsAwaited'
<1> SUFFICES ASSUME NEW i \in Instances, NEW k \in LinkKeys
             PROVE  /\ (Hit(i, k) /\ Doomed(k, entry[i][k]) => Excused(i, k, entry[i][k]))'
                    /\ (Storable(i, k) /\ Doomed(k, flight[i][k]) => Excused(i, k, flight[i][k]))'
  BY DEF EntriesAwaited, FlightsAwaited
<1> USE DEF Hit, Storable
<1>1. k \in Keys /\ entry[i][k] \in Entries /\ flight[i][k] \in Flights
  BY KeyFacts DEF Caches
<1>2. CASE Emptied(i, k)
  BY <1>2, EmptyPlaces DEF Emptied
<1>3. ASSUME NEW reason \in Reasons \ {"no"}, Noted(i, k, reason)
      PROVE  /\ (Hit(i, k) => entry[i][k].missed # "no")'
             /\ (Storable(i, k) => flight[i][k].missed # "no")'
  BY <1>1, <1>3 DEF Noted, Entries, Flights
<1>4. CASE Kept(i, k) /\ Awaited(i, k)'
  BY <1>4 DEF Excused
<1>5. CASE Kept(i, k) /\ Truth(k)' = Truth(k) /\ Capped(k)' = Capped(k) /\ (Awaited(i, k) => Awaited(i, k)')
  <2>1. /\ Doomed(k, entry[i][k])' <=> Doomed(k, entry[i][k])
        /\ Doomed(k, flight[i][k])' <=> Doomed(k, flight[i][k])
    BY <1>5 DEF Doomed, Kept
  <2>2. /\ Excused(i, k, entry[i][k]) => Excused(i, k, entry[i][k])'
        /\ Excused(i, k, flight[i][k]) => Excused(i, k, flight[i][k])'
    BY <1>5 DEF Excused, Kept
  <2>3. /\ Hit(i, k) /\ Doomed(k, entry[i][k]) => Excused(i, k, entry[i][k])
        /\ Storable(i, k) /\ Doomed(k, flight[i][k]) => Excused(i, k, flight[i][k])
    BY DEF EntriesAwaited, FlightsAwaited
  <2> QED BY <1>5, <2>1, <2>2, <2>3 DEF Kept
<1> QED BY <1>2, <1>3, <1>4, <1>5 DEF Followed, Excused

LEMMA ShortLivedKept ==
    ASSUME Caches, LongWhileConnected, MissedOffBus, Caches',
           \A i \in Instances : \A k \in Keys : Harmless(i, k)
    PROVE  LongWhileConnected' /\ MissedOffBus'
<1> SUFFICES ASSUME NEW i \in Instances, NEW k \in Keys
             PROVE  /\ (entry[i][k].held /\ entry[i][k].long =>
                          connected[i] /\ (entry[i][k].missed = "subscription" => ~live[i]))'
                    /\ (flight[i][k].phase = "loaded" /\ flight[i][k].missed = "subscription" =>
                          ~connected[i] \/ ~live[i])'
  BY DEF LongWhileConnected, MissedOffBus
<1>1. /\ entry[i][k] \in Entries /\ flight[i][k] \in Flights
      /\ entry[i][k].held /\ entry[i][k].long =>
            connected[i] /\ (entry[i][k].missed = "subscription" => ~live[i])
      /\ flight[i][k].phase = "loaded" /\ flight[i][k].missed = "subscription" =>
            ~connected[i] \/ ~live[i]
  BY DEF Caches, LongWhileConnected, MissedOffBus
<1>2. CASE Emptied(i, k)
  BY <1>2, EmptyPlaces DEF Emptied
<1>3. CASE Kept(i, k) /\ connected'[i] = connected[i] /\ (live'[i] => live[i] \/ ~connected[i])
  BY <1>1, <1>3 DEF Kept
<1>4. ASSUME NEW reason \in {"subscription", "publish", "early"}, Noted(i, k, reason),
             connected'[i] = connected[i],
             IF reason = "subscription" THEN ~live'[i] ELSE live'[i] = live[i]
      PROVE  /\ (entry[i][k].held /\ entry[i][k].long =>
                   connected[i] /\ (entry[i][k].missed = "subscription" => ~live[i]))'
             /\ (flight[i][k].phase = "loaded" /\ flight[i][k].missed = "subscription" =>
                   ~connected[i] \/ ~live[i])'
  BY <1>1, <1>4 DEF Noted, Entries, Flights
<1> QED BY <1>2, <1>3, <1>4 DEF Harmless

LEMMA NoNewEntries ==
    ASSUME Setting, Caches, RoomKept, \A i \in Instances : HeldKeys(i)' \subseteq HeldKeys(i)
    PROVE  RoomKept'
<1> SUFFICES ASSUME NEW i \in Instances
             PROVE  IsFiniteSet(HeldKeys(i)') /\ Cardinality(HeldKeys(i)') <= MaxEntries
  BY DEF RoomKept
<1>1. /\ IsFiniteSet(HeldKeys(i)) /\ Cardinality(HeldKeys(i)) <= MaxEntries
      /\ HeldKeys(i)' \subseteq HeldKeys(i) /\ MaxEntries \in Nat
  BY DEF RoomKept, Setting, BoundsAssumption
<1>2. /\ IsFiniteSet(HeldKeys(i)') /\ Cardinality(HeldKeys(i)') <= Cardinality(HeldKeys(i))
      /\ Cardinality(HeldKeys(i)) \in Nat /\ Cardinality(HeldKeys(i)') \in Nat
  BY <1>1, FS_Subset, FS_CardinalityType
<1> QED BY <1>1, <1>2

LEMMA HarmlessKeepsRoom ==
    ASSUME Setting, Caches, RoomKept, \A i \in Instances : \A k \in Keys : Harmless(i, k)
    PROVE  RoomKept'
<1>1. ASSUME NEW i \in Instances, NEW k \in Keys, entry'[i][k].held
      PROVE  entry[i][k].held
  <2>1. entry[i][k] \in Entries
    BY DEF Caches
  <2> QED BY <1>1, <2>1, EmptyPlaces DEF Harmless, Emptied, Kept, Noted, Entries
<1> QED BY <1>1, NoNewEntries DEF HeldKeys

\* A step that loads nothing keeps the invariant.
Settles ==
    /\ TypeOK'
    /\ \A i \in Instances : \A k \in Keys : Harmless(i, k)
    /\ \A i \in Instances : \A k \in LinkKeys : Followed(i, k)

LEMMA SettlesKeepsInv ==
    ASSUME Setting, Inv, Settles
    PROVE  Inv'
<1>1. Caches /\ Caches' /\ TypeOK'
  BY TypeParts DEF Inv, Settles
<1>2. EntriesAwaited' /\ FlightsAwaited'
  BY <1>1, AwaitedKept DEF Inv, Settles
<1>3. LongWhileConnected' /\ MissedOffBus'
  BY <1>1, ShortLivedKept DEF Inv, Settles
<1>4. RoomKept'
  BY <1>1, HarmlessKeepsRoom DEF Inv, Settles
<1> QED BY <1>1, <1>2, <1>3, <1>4 DEF Inv

(***************************************************************************)
(* Mutations that commit: what is outdated now is what they will evict.    *)
(***************************************************************************)
\* Nothing that is on its way to an instance is lost when ops only grows.
LEMMA AwaitedGrows ==
    ASSUME NEW i, NEW k, ops \subseteq ops', wire' = wire, Awaited(i, k)
    PROVE  Awaited(i, k)'
BY DEF Awaited

LEMMA CommittedKept ==
    ASSUME NEW j, NEW what, Committed(j, what)
    PROVE  \A i \in Instances : \A k \in Keys : Kept(i, k) /\ Harmless(i, k)
BY DEF Committed, cacheVars, busVars, Kept, Harmless

\* The mutation of a link concerns the keys of the link only.
LEMMA CommittedFollowed ==
    ASSUME Setting, NEW j \in Instances, NEW what \in Links \cup Hosts, Committed(j, what),
           \A k \in LinkKeys : k[2] # what => Truth(k)' = Truth(k) /\ Capped(k)' = Capped(k)
    PROVE  \A i \in Instances : \A k \in LinkKeys : Followed(i, k)
<1> SUFFICES ASSUME NEW i \in Instances, NEW k \in LinkKeys
             PROVE  Followed(i, k)
  OBVIOUS
<1>1. Kept(i, k) /\ wire' = wire /\ ops' = ops \cup {[at |-> j, what |-> what, step |-> "evict"]}
  <2>1. Kept(i, k)
    BY CommittedKept, KeyFacts
  <2>2. wire' = wire /\ ops' = ops \cup {[at |-> j, what |-> what, step |-> "evict"]}
    BY DEF Committed, busVars
  <2> QED BY <2>1, <2>2
<1>2. CASE k[2] = what
  <2> DEFINE op == [at |-> j, what |-> what, step |-> "evict"]
  <2>1. op \in ops' /\ op.what = k[2] /\ op.step = "evict"
    BY <1>1, <1>2
  <2>2. Awaited(i, k)'
    BY <2>1 DEF Awaited
  <2> QED BY <1>1, <2>2 DEF Followed
<1>3. CASE k[2] # what
  BY <1>1, <1>3, AwaitedGrows DEF Followed
<1> QED BY <1>2, <1>3

LEMMA CommittedBus ==
    ASSUME Setting, TypeOK, NEW j \in Instances, NEW what \in Links \cup Hosts, Committed(j, what)
    PROVE  Caches' /\ Bus' /\ writes' \in 0..MaxWrites /\ faults' \in 0..MaxFaults
<1>1. Caches /\ Bus /\ writes \in 0..MaxWrites /\ faults \in 0..MaxFaults /\ MaxWrites \in Nat
  BY TypeParts DEF Setting, BoundsAssumption
<1>2. Caches' /\ Bus'
  BY <1>1 DEF Committed, Caches, Bus, cacheVars, busVars
<1>3. writes' \in 0..MaxWrites /\ faults' \in 0..MaxFaults
  BY <1>1 DEF Committed
<1> QED BY <1>2, <1>3

\* What the rows of other links say does not change.
Mutation(i, what) ==
    \/ what \in Links /\ (\/ Update(i, what) \/ Trash(i, what) \/ Restore(i, what)
                          \/ Release(i, what) \/ ScheduleRelease(i, what))
    \/ \E p \in Paths : what = HostOf[p] /\ Retarget(i, p)

LEMMA MutationSettles ==
    ASSUME Setting, Inv, NEW j \in Instances, NEW what \in Links \cup Hosts, Mutation(j, what)
    PROVE  Settles
<1>1. Committed(j, what)
  BY DEF Mutation, Update, Trash, Restore, Release, ScheduleRelease, Retarget
<1>2. TypeOK /\ Database
  BY TypeParts DEF Inv
<1>3. Database'
  <2>1. CASE what \in Links
    <3>1. /\ version' = version \/ version' = [version EXCEPT ![what] = @ + 1]
          /\ revision' = revision \/ revision' = [revision EXCEPT ![what] = @ + 1]
          /\ alive' = alive \/ \E b \in BOOLEAN : alive' = [alive EXCEPT ![what] = b]
          /\ scheduled' = scheduled \/ scheduled' = [scheduled EXCEPT ![what] = TRUE]
          /\ target' = target
      BY <2>1 DEF Mutation, Update, Trash, Restore, Release, ScheduleRelease, Retarget, Setting,
         KeysAssumption
    <3>2. version' \in [Links -> Nat] /\ revision' \in [Links -> Nat]
      BY <1>2, <2>1, <3>1 DEF Database
    <3>3. alive' \in [Links -> BOOLEAN] /\ scheduled' \in [Links -> BOOLEAN]
      BY <1>2, <2>1, <3>1 DEF Database
    <3> QED BY <1>2, <3>1, <3>2, <3>3 DEF Database
  <2>2. CASE \E p \in Paths : Retarget(j, p)
    BY <1>2, <2>2 DEF Database, Retarget
  <2> QED BY <2>1, <2>2 DEF Mutation
<1>4. ASSUME NEW k \in LinkKeys, k[2] # what
      PROVE  Truth(k)' = Truth(k) /\ Capped(k)' = Capped(k)
  <2>1. k[2] \in Links /\ k[1] \in {"code", "rev"}
    BY KeyFacts
  <2>2. /\ version'[k[2]] = version[k[2]] /\ alive'[k[2]] = alive[k[2]]
        /\ revision'[k[2]] = revision[k[2]] /\ scheduled'[k[2]] = scheduled[k[2]]
    BY <1>2, <1>4, <2>1 DEF Mutation, Update, Trash, Restore, Release, ScheduleRelease, Retarget,
       Database
  <2>3. Row(k[2])' = Row(k[2])
    BY <2>2 DEF Row
  <2> QED BY <2>1, <2>2, <2>3 DEF Truth, Capped
<1>5. TypeOK'
  BY <1>1, <1>2, <1>3, CommittedBus, TypeParts
<1> QED BY <1>1, <1>4, <1>5, CommittedKept, CommittedFollowed DEF Settles

(***************************************************************************)
(* Evictions, flushes and messages.                                        *)
(***************************************************************************)
LEMMA WorldKept ==
    ASSUME UNCHANGED dbVars
    PROVE  \A k : Truth(k)' = Truth(k) /\ Capped(k)' = Capped(k)
BY DEF dbVars, Truth, Row, Capped

\* An eviction at one instance follows what was awaited there for the link it evicts.
LEMMA EvictionFollows ==
    ASSUME Setting, Caches, UNCHANGED dbVars, NEW j \in Instances, NEW what \in Links \cup Hosts,
           EvictLocal(j, what), NEW i \in Instances, NEW k \in LinkKeys,
           Awaited(i, k) => Awaited(i, k)' \/ (i = j /\ k[2] = what)
    PROVE  Followed(i, k)
<1>1. IF i = j /\ k \in EvictedKeys(j, what) THEN Emptied(i, k) ELSE Kept(i, k)
  BY EvictEffect, KeyFacts DEF EvictLocal
<1>2. i = j /\ k[2] = what => k \in EvictedKeys(j, what)
  BY KeyFacts
<1>3. Truth(k)' = Truth(k) /\ Capped(k)' = Capped(k)
  BY WorldKept
<1> QED BY <1>1, <1>2, <1>3 DEF Followed

LEMMA EvictionHarmless ==
    ASSUME Caches, UNCHANGED <<live, connected>>, NEW j \in Instances, NEW what, EvictLocal(j, what)
    PROVE  Caches' /\ \A i \in Instances : \A k \in Keys : Harmless(i, k)
<1>1. /\ Caches'
      /\ \A i \in Instances : \A k \in Keys : Emptied(i, k) \/ Kept(i, k)
  BY EvictEffect DEF EvictLocal
<1> QED BY <1>1 DEF Harmless

LEMMA InvalidateSettles ==
    ASSUME Setting, Inv, NEW op \in ops, Invalidate(op)
    PROVE  Settles
<1>1. /\ Caches /\ Bus /\ Database /\ writes \in 0..MaxWrites /\ faults \in 0..MaxFaults
      /\ op \in [at : Instances, what : Links \cup Hosts,
                 step : {"evict", "publish", "publishEarly", "commit"}]
  BY TypeParts DEF Inv, Bus
<1> DEFINE next == [op EXCEPT !.step = "publish"]
<1>2. /\ op.step = "evict" /\ EvictLocal(op.at, op.what) /\ UNCHANGED dbVars
      /\ ops' = (ops \ {op}) \cup {next} /\ UNCHANGED <<live, connected, wire, writes, faults>>
  BY DEF Invalidate, busVars
<1>3. /\ next \in [at : Instances, what : Links \cup Hosts,
                   step : {"evict", "publish", "publishEarly", "commit"}]
      /\ next.at = op.at /\ next.what = op.what /\ next.step = "publish"
  BY <1>1
<1>4. TypeOK'
  <2>1. Caches'
    BY <1>1, <1>2, EvictionHarmless
  <2>2. Database' /\ Bus'
    BY <1>1, <1>2, <1>3 DEF Database, Bus, dbVars
  <2> QED BY <1>1, <1>2, <2>1, <2>2, TypeParts
<1>5. ASSUME NEW i \in Instances, NEW k \in LinkKeys
      PROVE  Followed(i, k)
  <2>1. Awaited(i, k) => Awaited(i, k)' \/ (i = op.at /\ k[2] = op.what)
    BY <1>2, <1>3 DEF Awaited
  <2> QED BY <1>1, <1>2, <2>1, EvictionFollows
<1> QED BY <1>1, <1>2, <1>4, <1>5, EvictionHarmless DEF Settles

LEMMA CapReachedSettles ==
    ASSUME Setting, Inv, NEW j \in Instances, NEW l \in Links, CapReached(j, l)
    PROVE  Settles
<1>1. /\ Caches /\ Bus /\ Database /\ writes \in 0..MaxWrites /\ faults \in 0..MaxFaults
      /\ MaxWrites \in Nat
  BY TypeParts DEF Inv, Setting, BoundsAssumption
<1>2. /\ EvictLocal(j, l) /\ UNCHANGED dbVars /\ UNCHANGED <<live, connected, wire, faults>>
      /\ ops' = ops \cup {[at |-> j, what |-> l, step |-> "publishEarly"]}
      /\ writes < MaxWrites /\ writes' = writes + 1
  BY DEF CapReached, busVars
<1>3. TypeOK'
  <2>1. Caches'
    BY <1>1, <1>2, EvictionHarmless
  <2>2. Database' /\ Bus'
    BY <1>1, <1>2 DEF Database, Bus, dbVars
  <2>3. writes' \in 0..MaxWrites /\ faults' \in 0..MaxFaults
    BY <1>1, <1>2
  <2> QED BY <2>1, <2>2, <2>3, TypeParts
<1>4. ASSUME NEW i \in Instances, NEW k \in LinkKeys
      PROVE  Followed(i, k)
  <2>1. Awaited(i, k) => Awaited(i, k)'
    BY <1>2, AwaitedGrows
  <2> QED BY <1>1, <1>2, <2>1, EvictionFollows
<1> QED BY <1>1, <1>2, <1>3, <1>4, EvictionHarmless DEF Settles

LEMMA DeliverSettles ==
    ASSUME Setting, Inv, NEW j \in Instances, Deliver(j)
    PROVE  Settles
<1>1. Caches /\ Bus /\ Database /\ writes \in 0..MaxWrites /\ faults \in 0..MaxFaults
  BY TypeParts DEF Inv
<1> DEFINE what == Head(wire[j])
<1>2. /\ wire[j] # <<>> /\ EvictLocal(j, what) /\ UNCHANGED dbVars
      /\ wire' = [wire EXCEPT ![j] = Tail(wire[j])]
      /\ UNCHANGED <<live, connected, ops, writes, faults>>
  BY DEF Deliver
<1>3. /\ wire[j] \in Seq(Links \cup Hosts) /\ what \in Links \cup Hosts /\ what = wire[j][1]
      /\ Tail(wire[j]) \in Seq(Links \cup Hosts)
      /\ Len(Tail(wire[j])) = Len(wire[j]) - 1 /\ Len(wire[j]) \in Nat
      /\ \A n \in 1..Len(wire[j]) - 1 : Tail(wire[j])[n] = wire[j][n + 1]
  BY <1>1, <1>2 DEF Bus
<1>4. wire'[j] = Tail(wire[j]) /\ \A i \in Instances \ {j} : wire'[i] = wire[i]
  BY <1>1, <1>2 DEF Bus
<1>5. TypeOK'
  <2>1. Caches'
    BY <1>1, <1>2, EvictionHarmless
  <2>2. Database' /\ Bus'
    BY <1>1, <1>2, <1>3 DEF Database, Bus, dbVars
  <2> QED BY <1>1, <1>2, <2>1, <2>2, TypeParts
<1>6. ASSUME NEW i \in Instances, NEW k \in LinkKeys
      PROVE  Followed(i, k)
  <2>1. Awaited(i, k) => Awaited(i, k)' \/ (i = j /\ k[2] = what)
    <3>1. CASE \E op \in ops : /\ op.what = k[2]
                               /\ op.step = "evict" \/ (op.step = "publish" /\ op.at # i)
      BY <1>2, <3>1 DEF Awaited
    <3>2. ASSUME NEW n \in 1..Len(wire[i]), wire[i][n] = k[2], i = j, n # 1
          PROVE  \E m \in 1..Len(wire'[i]) : wire'[i][m] = k[2]
      <4>1. n - 1 \in 1..Len(wire[j]) - 1 /\ (n - 1) + 1 = n
        BY <1>3, <3>2
      <4>2. wire'[i][n - 1] = wire[i][n] /\ n - 1 \in 1..Len(wire'[i])
        BY <1>3, <1>4, <3>2, <4>1
      <4> QED BY <3>2, <4>2
    <3>3. ASSUME NEW n \in 1..Len(wire[i]), wire[i][n] = k[2], i # j
          PROVE  \E m \in 1..Len(wire'[i]) : wire'[i][m] = k[2]
      BY <1>4, <3>3
    <3> QED BY <1>3, <3>1, <3>2, <3>3 DEF Awaited
  <2> QED BY <1>1, <1>2, <1>3, <2>1, EvictionFollows
<1> QED BY <1>1, <1>2, <1>5, <1>6, EvictionHarmless DEF Settles

\* What an instance will not be told of is noted with what it holds.
LEMMA NotedFollows ==
    ASSUME Setting, Caches, UNCHANGED <<version, alive, revision, scheduled>>,
           NEW who, NEW whats \in SUBSET (Links \cup Hosts), NEW reason \in Reasons \ {"no"},
           MarkMissed(who, whats, reason), NEW i \in Instances, NEW k \in LinkKeys,
           Awaited(i, k) => Awaited(i, k)' \/ (i \in who /\ k[2] \in whats)
    PROVE  Followed(i, k)
<1>1. k \in Keys /\ \A w \in whats : k \in Covers(w) <=> w = k[2]
  BY KeyFacts
<1>2. IF i \in who /\ k[2] \in whats THEN Noted(i, k, reason) ELSE Kept(i, k)
  BY <1>1, MarkEffect
<1>3. Truth(k)' = Truth(k) /\ Capped(k)' = Capped(k)
  <2>1. k[1] \in {"code", "rev"}
    BY KeyFacts
  <2> QED BY <2>1 DEF Truth, Row, Capped
<1> QED BY <1>2, <1>3 DEF Followed

OpType == [at : Instances, what : Links \cup Hosts,
           step : {"evict", "publish", "publishEarly", "commit"}]

LEMMA AfterPublishType ==
    ASSUME NEW op \in OpType
    PROVE  AfterPublish(op) \subseteq OpType
BY DEF AfterPublish, OpType

\* Taking an invalidation off the list loses only what it still had to tell others.
LEMMA OpDone ==
    ASSUME NEW op \in ops, NEW more, (ops \ {op}) \cup more \subseteq ops', wire' = wire,
           op.step # "evict", NEW i, NEW k, Awaited(i, k)
    PROVE  Awaited(i, k)' \/ (op.step = "publish" /\ i # op.at /\ k[2] = op.what)
<1>1. CASE \E o \in ops \ {op} : /\ o.what = k[2]
                                 /\ o.step = "evict" \/ (o.step = "publish" /\ o.at # i)
  BY <1>1 DEF Awaited
<1>2. CASE \E n \in 1..Len(wire[i]) : wire[i][n] = k[2]
  BY <1>2 DEF Awaited
<1> QED BY <1>1, <1>2 DEF Awaited

LEMMA PublishFailsSettles ==
    ASSUME Setting, Inv, NEW op \in ops, PublishFails(op)
    PROVE  Settles
<1>1. /\ Caches /\ Bus /\ Database /\ writes \in 0..MaxWrites /\ faults \in 0..MaxFaults
      /\ op \in OpType /\ ops \subseteq OpType /\ MaxFaults \in Nat
  BY TypeParts DEF Inv, Bus, OpType, Setting, BoundsAssumption
<1>2. /\ op.step # "evict" /\ MarkMissed(Instances \ {op.at}, {op.what}, "publish")
      /\ ops' = (ops \ {op}) \cup AfterPublish(op)
      /\ faults < MaxFaults /\ faults' = faults + 1
      /\ UNCHANGED dbVars /\ UNCHANGED <<live, connected, wire, writes>>
  BY DEF PublishFails, Fault, busVars
<1>3. /\ Caches'
      /\ \A j \in Instances : \A k \in Keys : Noted(j, k, "publish") \/ Kept(j, k)
  BY <1>1, <1>2, MarkEffect DEF Reasons
<1>4. TypeOK'
  <2>1. Database' /\ Bus'
    BY <1>1, <1>2, AfterPublishType DEF Database, Bus, dbVars, OpType
  <2>2. writes' \in 0..MaxWrites /\ faults' \in 0..MaxFaults
    BY <1>1, <1>2
  <2> QED BY <1>3, <2>1, <2>2, TypeParts
<1>5. ASSUME NEW i \in Instances, NEW k \in LinkKeys
      PROVE  Followed(i, k)
  <2>1. Awaited(i, k) => Awaited(i, k)' \/ (i \in Instances \ {op.at} /\ k[2] \in {op.what})
    BY <1>2, OpDone
  <2>2. "publish" \in Reasons \ {"no"} /\ {op.what} \subseteq Links \cup Hosts
    BY <1>1 DEF Reasons, OpType
  <2>3. UNCHANGED <<version, alive, revision, scheduled>>
    BY <1>2 DEF dbVars
  <2> QED BY <1>1, <1>2, <2>1, <2>2, <2>3, NotedFollows
<1>6. \A i \in Instances : \A k \in Keys : Harmless(i, k)
  BY <1>2, <1>3 DEF Harmless
<1> QED BY <1>4, <1>5, <1>6 DEF Settles

LEMMA PublishSettles ==
    ASSUME Setting, Inv, NEW op \in ops, PublishInvalidation(op)
    PROVE  Settles
<1>1. /\ Caches /\ Bus /\ Database /\ writes \in 0..MaxWrites /\ faults \in 0..MaxFaults
      /\ op \in OpType /\ ops \subseteq OpType
  BY TypeParts DEF Inv, Bus, OpType
<1> DEFINE off == {i \in Instances : ~live[i] /\ i # op.at}
<1>2. /\ op.step \in {"publish", "publishEarly"} /\ MarkMissed(off, {op.what}, "subscription")
      /\ ops' = (ops \ {op}) \cup AfterPublish(op)
      /\ wire' = [i \in Instances |->
            IF live[i] /\ i # op.at THEN Append(wire[i], op.what) ELSE wire[i]]
      /\ UNCHANGED dbVars /\ UNCHANGED <<live, connected, writes, faults>>
  BY DEF PublishInvalidation
<1>3. /\ Caches'
      /\ \A j \in Instances : \A k \in Keys :
            \/ Kept(j, k)
            \/ j \in off /\ Noted(j, k, "subscription")
  BY <1>1, <1>2, MarkEffect DEF Reasons
<1>4. \A i \in Instances : /\ wire[i] \in Seq(Links \cup Hosts) /\ Len(wire[i]) \in Nat
                           /\ op.what \in Links \cup Hosts
  BY <1>1 DEF Bus, OpType
<1>5. TypeOK'
  <2>1. \A i \in Instances : wire'[i] \in Seq(Links \cup Hosts)
    BY <1>2, <1>4
  <2>2. wire' \in [Instances -> Seq(Links \cup Hosts)]
    BY <1>2, <2>1
  <2>3. Database' /\ Bus'
    BY <1>1, <1>2, <2>2, AfterPublishType DEF Database, Bus, dbVars, OpType
  <2> QED BY <1>1, <1>2, <1>3, <2>3, TypeParts
<1>6. ASSUME NEW i \in Instances, NEW k \in LinkKeys
      PROVE  Followed(i, k)
  <2>1. Awaited(i, k) => Awaited(i, k)' \/ (i \in off /\ k[2] \in {op.what})
    <3> SUFFICES ASSUME Awaited(i, k), ~(i \in off /\ k[2] = op.what)
                 PROVE  Awaited(i, k)'
      OBVIOUS
    <3>1. CASE \E o \in ops \ {op} : /\ o.what = k[2]
                                     /\ o.step = "evict" \/ (o.step = "publish" /\ o.at # i)
      BY <1>2, <3>1 DEF Awaited
    <3>2. ASSUME op.what = k[2], op.step = "publish", op.at # i
          PROVE  Awaited(i, k)'
      <4>1. wire'[i] = Append(wire[i], op.what)
        BY <1>2, <3>2
      <4>2. Len(wire[i]) + 1 \in 1..Len(wire'[i]) /\ wire'[i][Len(wire[i]) + 1] = k[2]
        BY <1>4, <3>2, <4>1
      <4> QED BY <4>2 DEF Awaited
    <3>3. ASSUME NEW n \in 1..Len(wire[i]), wire[i][n] = k[2]
          PROVE  Awaited(i, k)'
      <4>1. wire'[i] = wire[i] \/ wire'[i] = Append(wire[i], op.what)
        BY <1>2
      <4>2. n \in 1..Len(wire'[i]) /\ wire'[i][n] = k[2]
        BY <1>4, <3>3, <4>1
      <4> QED BY <4>2 DEF Awaited
    <3> QED BY <1>2, <3>1, <3>2, <3>3 DEF Awaited
  <2>2. "subscription" \in Reasons \ {"no"} /\ {op.what} \subseteq Links \cup Hosts
    BY <1>4 DEF Reasons
  <2>3. UNCHANGED <<version, alive, revision, scheduled>>
    BY <1>2 DEF dbVars
  <2> QED BY <1>1, <1>2, <2>1, <2>2, <2>3, NotedFollows
<1>7. \A i \in Instances : \A k \in Keys : Harmless(i, k)
  BY <1>2, <1>3 DEF Harmless
<1> QED BY <1>5, <1>6, <1>7 DEF Settles

\* The commit that comes after its own invalidation: noted as early everywhere.
LEMMA CapCommitsSettles ==
    ASSUME Setting, Inv, NEW op \in ops, CapCommits(op)
    PROVE  Settles
<1>1. /\ Caches /\ Bus /\ Database /\ writes \in 0..MaxWrites /\ faults \in 0..MaxFaults
      /\ op \in OpType /\ ops \subseteq OpType
  BY TypeParts DEF Inv, Bus, OpType
<1>2. /\ op.step = "commit" /\ MarkMissed(Instances, {op.what}, "early")
      /\ ops' = ops \ {op} /\ version' = [version EXCEPT ![op.what] = @ + 1]
      /\ UNCHANGED <<alive, revision, scheduled, target, live, connected, wire, writes, faults>>
  BY DEF CapCommits, busVars
<1>3. /\ Caches'
      /\ \A j \in Instances : \A k \in Keys : Noted(j, k, "early") \/ Kept(j, k)
      /\ \A j \in Instances : \A k \in Keys :
            IF k \in Covers(op.what) THEN Noted(j, k, "early") ELSE Kept(j, k)
  BY <1>1, <1>2, MarkEffect DEF Reasons
<1>4. TypeOK'
  <2>1. version \in [Links -> Nat] /\ version' = [version EXCEPT ![op.what] = version[op.what] + 1]
    BY <1>1, <1>2 DEF Database
  <2>2. version' \in [Links -> Nat]
    <3>1. CASE op.what \in Links
      BY <2>1, <3>1
    <3>2. CASE op.what \notin Links
      BY <2>1, <3>2
    <3> QED BY <3>1, <3>2
  <2>3. Database' /\ Bus'
    BY <1>1, <1>2, <2>2 DEF Database, Bus
  <2> QED BY <1>1, <1>2, <1>3, <2>3, TypeParts
<1>5. ASSUME NEW i \in Instances, NEW k \in LinkKeys
      PROVE  Followed(i, k)
  <2>1. /\ k \in Keys /\ k[2] \in Links /\ k[1] \in {"code", "rev"}
        /\ k \in Covers(op.what) <=> op.what = k[2]
    BY <1>1, KeyFacts DEF OpType
  <2>2. CASE op.what = k[2]
    BY <1>3, <2>1, <2>2 DEF Followed, Reasons
  <2>3. CASE op.what # k[2]
    <3>1. version'[k[2]] = version[k[2]]
      BY <1>1, <1>2, <2>1, <2>3 DEF Database
    <3>2. Truth(k)' = Truth(k) /\ Capped(k)' = Capped(k)
      BY <1>2, <2>1, <3>1 DEF Truth, Row, Capped
    <3>3. Awaited(i, k) => Awaited(i, k)'
      BY <1>2, OpDone
    <3> QED BY <1>3, <2>1, <2>3, <3>2, <3>3 DEF Followed
  <2> QED BY <2>2, <2>3
<1>6. \A i \in Instances : \A k \in Keys : Harmless(i, k)
  BY <1>2, <1>3 DEF Harmless
<1> QED BY <1>4, <1>5, <1>6 DEF Settles

(***************************************************************************)
(* The bus goes up and down, and instances die.                            *)
(***************************************************************************)
LEMMA FlushEffect ==
    ASSUME Caches, NEW j \in Instances, FlushAll(j)
    PROVE  /\ Caches'
           /\ \A i \in Instances : \A k \in Keys : IF i = j THEN Emptied(i, k) ELSE Kept(i, k)
BY EvictEffect DEF FlushAll

\* Up and Down flush; Subscribe only makes an instance short of its flush.
LEMMA SocketSettles ==
    ASSUME Setting, Inv, NEW j \in Instances, Subscribe(j) \/ Up(j) \/ Down(j)
    PROVE  Settles
<1>1. /\ Caches /\ Bus /\ Database /\ writes \in 0..MaxWrites /\ faults \in 0..MaxFaults
      /\ live \in [Instances -> BOOLEAN] /\ connected \in [Instances -> BOOLEAN]
  BY TypeParts DEF Inv, Bus
<1>2. /\ UNCHANGED dbVars /\ UNCHANGED <<wire, ops, writes, faults>>
      /\ \/ /\ ~connected[j] /\ live' = [live EXCEPT ![j] = TRUE]
            /\ connected' = connected /\ UNCHANGED cacheVars
         \/ /\ live' = live /\ FlushAll(j)
            /\ connected' = [connected EXCEPT ![j] = TRUE] \/ connected' = [connected EXCEPT ![j] = FALSE]
  BY DEF Subscribe, Up, Down, FlushDown
<1>3. /\ Caches' /\ live' \in [Instances -> BOOLEAN] /\ connected' \in [Instances -> BOOLEAN]
      /\ \A i \in Instances : \A k \in Keys :
            \/ Emptied(i, k)
            \/ /\ Kept(i, k) /\ connected'[i] = connected[i]
               /\ live'[i] => live[i] \/ ~connected[i]
  <2>1. CASE UNCHANGED cacheVars /\ ~connected[j] /\ live' = [live EXCEPT ![j] = TRUE] /\ connected' = connected
    BY <1>1, <2>1 DEF Caches, cacheVars, Kept
  <2>2. CASE /\ FlushAll(j) /\ live' = live
             /\ connected' = [connected EXCEPT ![j] = TRUE] \/ connected' = [connected EXCEPT ![j] = FALSE]
    <3>1. \A i \in Instances \ {j} : connected'[i] = connected[i]
      BY <1>1, <2>2
    <3> QED BY <1>1, <2>2, <3>1, FlushEffect
  <2> QED BY <1>2, <2>1, <2>2
<1>4. TypeOK'
  <2>1. Database' /\ Bus'
    BY <1>1, <1>2, <1>3 DEF Database, Bus, dbVars
  <2> QED BY <1>1, <1>2, <1>3, <2>1, TypeParts
<1>5. \A i \in Instances : \A k \in LinkKeys : Followed(i, k)
  <2>1. \A i, k : Awaited(i, k) => Awaited(i, k)'
    BY <1>2 DEF Awaited
  <2> QED BY <1>2, <1>3, <2>1, WorldKept, KeyFacts DEF Followed
<1> QED BY <1>3, <1>4, <1>5 DEF Settles, Harmless

LEMMA DropSettles ==
    ASSUME Setting, Inv, NEW j \in Instances, Drop(j)
    PROVE  Settles
<1>1. /\ Caches /\ Bus /\ Database /\ writes \in 0..MaxWrites /\ faults \in 0..MaxFaults
      /\ MaxFaults \in Nat
  BY TypeParts DEF Inv, Setting, BoundsAssumption
<1> DEFINE lost == {wire[j][n] : n \in 1..Len(wire[j])}
<1>2. /\ MarkMissed({j}, lost, "subscription")
      /\ live' = [live EXCEPT ![j] = FALSE] /\ wire' = [wire EXCEPT ![j] = <<>>]
      /\ faults < MaxFaults /\ faults' = faults + 1
      /\ UNCHANGED dbVars /\ UNCHANGED <<connected, ops, writes>>
  BY DEF Drop, Fault
<1>3. /\ wire[j] \in Seq(Links \cup Hosts) /\ lost \subseteq Links \cup Hosts
      /\ live'[j] = FALSE /\ \A i \in Instances \ {j} : live'[i] = live[i] /\ wire'[i] = wire[i]
  BY <1>1, <1>2 DEF Bus
<1>4. /\ Caches'
      /\ \A i \in Instances : \A k \in Keys :
            Kept(i, k) \/ (i = j /\ Noted(i, k, "subscription"))
  BY <1>1, <1>2, MarkEffect DEF Reasons
<1>5. TypeOK'
  <2>1. Database' /\ Bus'
    BY <1>1, <1>2 DEF Database, Bus, dbVars
  <2>2. writes' \in 0..MaxWrites /\ faults' \in 0..MaxFaults
    BY <1>1, <1>2
  <2> QED BY <1>4, <2>1, <2>2, TypeParts
<1>6. ASSUME NEW i \in Instances, NEW k \in LinkKeys
      PROVE  Followed(i, k)
  <2>1. Awaited(i, k) => Awaited(i, k)' \/ (i \in {j} /\ k[2] \in lost)
    BY <1>2, <1>3 DEF Awaited
  <2>2. "subscription" \in Reasons \ {"no"}
    BY DEF Reasons
  <2>3. UNCHANGED <<version, alive, revision, scheduled>>
    BY <1>2 DEF dbVars
  <2> QED BY <1>1, <1>2, <1>3, <2>1, <2>2, <2>3, NotedFollows
<1>7. \A i \in Instances : \A k \in Keys : Harmless(i, k)
  BY <1>2, <1>3, <1>4 DEF Harmless
<1> QED BY <1>5, <1>6, <1>7 DEF Settles

\* What the dead process had not published yet is noted with the others.
LEMMA CrashSettles ==
    ASSUME Setting, Inv, NEW j \in Instances, Crash(j)
    PROVE  Settles
<1>1. /\ Caches /\ Bus /\ Database /\ writes \in 0..MaxWrites /\ faults \in 0..MaxFaults
      /\ MaxFaults \in Nat /\ ops \subseteq OpType
  BY TypeParts DEF Inv, Setting, BoundsAssumption, Bus, OpType
<1> DEFINE lost == {op \in ops : op.at = j /\ op.step \in {"evict", "publish"}}
<1> DEFINE keys == UNION {Covers(op.what) : op \in lost}
<1>2. /\ entry' = [i \in Instances |-> [k \in Keys |->
            IF i = j THEN NoEntry
            ELSE IF k \in keys /\ entry[i][k].held
            THEN [entry[i][k] EXCEPT !.missed = "publish"] ELSE entry[i][k]]]
      /\ flight' = [i \in Instances |-> [k \in Keys |->
            IF i = j THEN NoFlight
            ELSE IF k \in keys /\ flight[i][k].phase = "loaded"
            THEN [flight[i][k] EXCEPT !.missed = "publish"] ELSE flight[i][k]]]
  BY DEF Crash
<1>3. /\ live' = [live EXCEPT ![j] = FALSE] /\ connected' = [connected EXCEPT ![j] = FALSE]
      /\ wire' = [wire EXCEPT ![j] = <<>>] /\ ops' = {op \in ops : op.at # j}
      /\ faults < MaxFaults /\ faults' = faults + 1
      /\ UNCHANGED dbVars /\ UNCHANGED writes
  BY DEF Crash, Fault
<1>4. \A i \in Instances \ {j} :
         live'[i] = live[i] /\ connected'[i] = connected[i] /\ wire'[i] = wire[i]
  BY <1>1, <1>3 DEF Bus
<1>5. Caches'
  <2>1. /\ \A x \in Entries : [x EXCEPT !.missed = "publish"] \in Entries
        /\ \A x \in Flights : [x EXCEPT !.missed = "publish"] \in Flights
    BY DEF Entries, Flights, Reasons
  <2> QED BY <1>1, <1>2, <2>1, EmptyPlaces DEF Caches
<1>6. \A i \in Instances : \A k \in Keys :
         IF i = j THEN Emptied(i, k) ELSE IF k \in keys THEN Noted(i, k, "publish") ELSE Kept(i, k)
  <2>1. ASSUME NEW i \in Instances, NEW k \in Keys, i = j PROVE Emptied(i, k)
    BY <1>2, <2>1 DEF Emptied
  <2>2. ASSUME NEW i \in Instances, NEW k \in Keys, i # j, k \in keys PROVE Noted(i, k, "publish")
    BY <1>2, <2>2 DEF Noted
  <2>3. ASSUME NEW i \in Instances, NEW k \in Keys, i # j, k \notin keys PROVE Kept(i, k)
    BY <1>2, <2>3 DEF Kept
  <2> QED BY <2>1, <2>2, <2>3
<1>7. TypeOK'
  <2>1. Database' /\ Bus'
    BY <1>1, <1>3 DEF Database, Bus, dbVars
  <2>2. writes' \in 0..MaxWrites /\ faults' \in 0..MaxFaults
    BY <1>1, <1>3
  <2> QED BY <1>5, <2>1, <2>2, TypeParts
<1>8. ASSUME NEW i \in Instances, NEW k \in LinkKeys
      PROVE  Followed(i, k)
  <2>1. CASE i = j
    BY <1>6, <2>1, KeyFacts DEF Followed
  <2>2. CASE i # j /\ k \in keys
    BY <1>6, <2>2, KeyFacts DEF Followed, Reasons
  <2>3. CASE i # j /\ k \notin keys
    <3>1. \A op \in lost : op.what # k[2]
      <4>1. \A op \in lost : op.what \in Links \cup Hosts /\ k \notin Covers(op.what)
        BY <1>1, <2>3 DEF OpType
      <4> QED BY <4>1, KeyFacts
    <3>2. Awaited(i, k) => Awaited(i, k)'
      BY <1>3, <1>4, <2>3, <3>1 DEF Awaited
    <3> QED BY <1>3, <1>6, <2>3, <3>2, WorldKept, KeyFacts DEF Followed
  <2> QED BY <2>1, <2>2, <2>3
<1>9. \A i \in Instances : \A k \in Keys : Harmless(i, k)
  BY <1>4, <1>6 DEF Harmless
<1> QED BY <1>7, <1>8, <1>9 DEF Settles

(***************************************************************************)
(* A scheduled revision takes effect: what is cut off has run out with it,  *)
(* and what is not was doomed since the revision was scheduled.            *)
(***************************************************************************)
LEMMA ReleaseTakesEffectKeepsInv ==
    ASSUME Setting, Inv, NEW l \in Links, ReleaseTakesEffect(l)
    PROVE  Inv'
<1> DEFINE rev == <<"rev", l>>
<1>1. /\ Caches /\ Bus /\ Database /\ writes \in 0..MaxWrites /\ faults \in 0..MaxFaults
  BY TypeParts DEF Inv
<1>2. /\ scheduled[l] /\ scheduled' = [scheduled EXCEPT ![l] = FALSE]
      /\ revision' = [revision EXCEPT ![l] = @ + 1]
      /\ UNCHANGED <<version, alive, target, live, connected, wire, ops, writes, faults>>
      /\ entry' = [i \in Instances |-> [k \in Keys |->
            IF k = rev /\ entry[i][k].capped
            THEN [entry[i][k] EXCEPT !.fresh = FALSE] ELSE entry[i][k]]]
      /\ flight' = [i \in Instances |-> [k \in Keys |->
            IF k = rev /\ flight[i][k].capped
            THEN [flight[i][k] EXCEPT !.past = TRUE] ELSE flight[i][k]]]
  BY DEF ReleaseTakesEffect, busVars
<1>3. ASSUME NEW i \in Instances, NEW k \in Keys
      PROVE  /\ entry[i][k] \in Entries /\ flight[i][k] \in Flights
             /\ entry'[i][k] \in Entries /\ flight'[i][k] \in Flights
             /\ entry'[i][k].held = entry[i][k].held /\ entry'[i][k].long = entry[i][k].long
             /\ entry'[i][k].missed = entry[i][k].missed
             /\ entry'[i][k].value = entry[i][k].value /\ entry'[i][k].capped = entry[i][k].capped
             /\ flight'[i][k].phase = flight[i][k].phase /\ flight'[i][k].missed = flight[i][k].missed
             /\ flight'[i][k].value = flight[i][k].value /\ flight'[i][k].capped = flight[i][k].capped
             /\ k = rev /\ entry[i][k].capped => ~entry'[i][k].fresh
             /\ k = rev /\ flight[i][k].capped => flight'[i][k].past
             /\ entry'[i][k].fresh => entry[i][k].fresh
             /\ flight[i][k].past => flight'[i][k].past
  <2>1. entry[i][k] \in Entries /\ flight[i][k] \in Flights
    BY <1>1 DEF Caches
  <2>2. /\ entry'[i][k] = IF k = rev /\ entry[i][k].capped
                          THEN [entry[i][k] EXCEPT !.fresh = FALSE] ELSE entry[i][k]
        /\ flight'[i][k] = IF k = rev /\ flight[i][k].capped
                           THEN [flight[i][k] EXCEPT !.past = TRUE] ELSE flight[i][k]
    BY <1>2
  <2> QED BY <2>1, <2>2 DEF Entries, Flights
<1>4. Caches'
  <2>1. /\ entry' = [i \in Instances |-> [k \in Keys |-> entry'[i][k]]]
        /\ flight' = [i \in Instances |-> [k \in Keys |-> flight'[i][k]]]
    BY <1>2
  <2> QED BY <1>3, <2>1 DEF Caches
<1>5. TypeOK'
  <2>1. revision' \in [Links -> Nat] /\ scheduled' \in [Links -> BOOLEAN]
    BY <1>1, <1>2 DEF Database
  <2>2. Database' /\ Bus'
    BY <1>1, <1>2, <2>1 DEF Database, Bus
  <2> QED BY <1>1, <1>2, <1>4, <2>2, TypeParts
<1>6. ASSUME NEW i \in Instances, NEW k \in LinkKeys
      PROVE  /\ (Hit(i, k) /\ Doomed(k, entry[i][k]) => Excused(i, k, entry[i][k]))'
             /\ (Storable(i, k) /\ Doomed(k, flight[i][k]) => Excused(i, k, flight[i][k]))'
  <2>1. /\ Hit(i, k) /\ Doomed(k, entry[i][k]) => Excused(i, k, entry[i][k])
        /\ Storable(i, k) /\ Doomed(k, flight[i][k]) => Excused(i, k, flight[i][k])
    BY DEF Inv, EntriesAwaited, FlightsAwaited
  <2>2. k \in Keys /\ k[2] \in Links /\ k[1] \in {"code", "rev"} /\ k = <<k[1], k[2]>>
    BY KeyFacts
  <2>3. Awaited(i, k)' <=> Awaited(i, k)
    BY <1>2 DEF Awaited
  <2>4. /\ Hit(i, k)' => Hit(i, k) /\ (k = rev => ~entry[i][k].capped)
        /\ Storable(i, k)' => Storable(i, k) /\ (k = rev => ~flight[i][k].capped)
    BY <1>3, <2>2 DEF Hit, Storable
  <2>5. /\ Excused(i, k, entry[i][k])' <=> Excused(i, k, entry[i][k])
        /\ Excused(i, k, flight[i][k])' <=> Excused(i, k, flight[i][k])
    BY <1>3, <2>2, <2>3 DEF Excused
  <2>6. CASE k = rev
    <3>1. Capped(k)
      BY <1>2, <2>6 DEF Capped
    <3> QED BY <2>1, <2>4, <2>5, <2>6, <3>1 DEF Doomed
  <2>7. CASE k # rev
    <3>1. Truth(k)' = Truth(k) /\ Capped(k)' = Capped(k)
      <4>1. k[1] = "rev" => revision'[k[2]] = revision[k[2]] /\ scheduled'[k[2]] = scheduled[k[2]]
        BY <1>1, <1>2, <2>2, <2>7 DEF Database
      <4> QED BY <1>2, <2>2, <4>1 DEF Truth, Row, Capped
    <3>2. /\ Doomed(k, entry[i][k])' <=> Doomed(k, entry[i][k])
          /\ Doomed(k, flight[i][k])' <=> Doomed(k, flight[i][k])
      BY <1>3, <2>2, <3>1 DEF Doomed
    <3> QED BY <2>1, <2>4, <2>5, <3>2
  <2> QED BY <2>6, <2>7
<1>7. LongWhileConnected' /\ MissedOffBus'
  BY <1>2, <1>3 DEF Inv, LongWhileConnected, MissedOffBus
<1>8. RoomKept'
  <2>1. \A i \in Instances : HeldKeys(i)' \subseteq HeldKeys(i)
    BY <1>3 DEF HeldKeys
  <2> QED BY <1>1, <2>1, NoNewEntries DEF Inv
<1> QED BY <1>5, <1>6, <1>7, <1>8 DEF Inv, EntriesAwaited, FlightsAwaited

(***************************************************************************)
(* Reads: misses, loads and what they store.                               *)
(***************************************************************************)
EntrySound(i, k) ==
    /\ k \in LinkKeys /\ Hit(i, k) /\ Doomed(k, entry[i][k]) => Excused(i, k, entry[i][k])
    /\ entry[i][k].held /\ entry[i][k].long =>
            connected[i] /\ (entry[i][k].missed = "subscription" => ~live[i])
FlightSound(i, k) ==
    /\ k \in LinkKeys /\ Storable(i, k) /\ Doomed(k, flight[i][k]) => Excused(i, k, flight[i][k])
    /\ flight[i][k].phase = "loaded" /\ flight[i][k].missed = "subscription" =>
            ~connected[i] \/ ~live[i]
PlacesSound == \A i \in Instances : \A k \in Keys : EntrySound(i, k) /\ FlightSound(i, k)

LEMMA SoundParts ==
    ASSUME Setting
    PROVE  /\ PlacesSound <=> EntriesAwaited /\ FlightsAwaited /\ LongWhileConnected /\ MissedOffBus
           /\ PlacesSound' <=> EntriesAwaited' /\ FlightsAwaited' /\ LongWhileConnected' /\ MissedOffBus'
<1>1. \A k \in LinkKeys : k \in Keys
  BY KeyFacts
<1> QED BY <1>1 DEF PlacesSound, EntrySound, FlightSound, EntriesAwaited, FlightsAwaited,
   LongWhileConnected, MissedOffBus

\* A read changes nothing that a place is judged by but the place itself.
LEMMA ReadFrame ==
    ASSUME UNCHANGED <<dbVars, busVars, ops>>, NEW i, NEW k
    PROVE  /\ entry'[i][k] = entry[i][k] => (EntrySound(i, k)' <=> EntrySound(i, k))
           /\ flight'[i][k] = flight[i][k] => (FlightSound(i, k)' <=> FlightSound(i, k))
           /\ Truth(k)' = Truth(k) /\ Capped(k)' = Capped(k)
           /\ Awaited(i, k)' <=> Awaited(i, k)
<1>1. Truth(k)' = Truth(k) /\ Capped(k)' = Capped(k)
  BY WorldKept
<1>2. Awaited(i, k)' <=> Awaited(i, k)
  BY DEF Awaited, busVars
<1>3. live' = live /\ connected' = connected /\ LinkKeys' = LinkKeys
  BY DEF busVars, LinkKeys
<1>4. entry'[i][k] = entry[i][k] => (EntrySound(i, k)' <=> EntrySound(i, k))
  BY <1>1, <1>2, <1>3 DEF EntrySound, Hit, Doomed, Excused
<1>5. flight'[i][k] = flight[i][k] => (FlightSound(i, k)' <=> FlightSound(i, k))
  BY <1>1, <1>2, <1>3 DEF FlightSound, Storable, Doomed, Excused
<1> QED BY <1>1, <1>2, <1>4, <1>5

LEMMA EmptySound ==
    ASSUME NEW i, NEW k
    PROVE  /\ (entry[i][k] = NoEntry => EntrySound(i, k)) /\ (flight[i][k] = NoFlight => FlightSound(i, k))
           /\ (entry'[i][k] = NoEntry => EntrySound(i, k)') /\ (flight'[i][k] = NoFlight => FlightSound(i, k)')
BY EmptyPlaces DEF EntrySound, FlightSound, Hit, Storable

ReadUnchanged == UNCHANGED <<dbVars, busVars, ops, writes>>

LEMMA ReadType ==
    ASSUME TypeOK, ReadUnchanged, Caches', faults' \in 0..MaxFaults
    PROVE  TypeOK'
<1>1. Database /\ Bus /\ writes \in 0..MaxWrites
  BY TypeParts
<1>2. Database' /\ Bus' /\ writes' \in 0..MaxWrites
  BY <1>1 DEF Database, Bus, ReadUnchanged, dbVars, busVars
<1> QED BY <1>2, TypeParts

\* A miss, an answer or a failure of the database changes one flight.
LEMMA FlightStepKeepsInv ==
    ASSUME Setting, Inv, NEW i \in Instances, NEW k \in Keys, Miss(i, k) \/ Load(i, k) \/ LoadFails(i, k)
    PROVE  Inv'
<1>1. /\ Caches /\ Database /\ faults \in 0..MaxFaults /\ MaxFaults \in Nat
      /\ flight[i][k] \in Flights /\ PlacesSound /\ TypeOK /\ RoomKept
  BY TypeParts, SoundParts DEF Inv, Setting, BoundsAssumption, Caches
<1>2. ReadUnchanged /\ entry' = entry /\ faults' \in 0..MaxFaults
  BY <1>1 DEF Miss, Load, LoadFails, Fault, ReadUnchanged
<1> DEFINE loaded == [NoFlight EXCEPT !.phase = "loaded", !.value = Truth(k), !.capped = Capped(k)]
<1>3. loaded \in Flights
  BY <1>1, TruthType DEF NoFlight, Flights, Reasons
<1>4. PICK f \in Flights : /\ flight' = [flight EXCEPT ![i][k] = f]
                           /\ f.phase # "loaded" \/ f = loaded
  <2>1. CASE Miss(i, k)
    <3> DEFINE f == [flight[i][k] EXCEPT !.phase = "loading"]
    <3>1. f \in Flights /\ f.phase = "loading"
      BY <1>1 DEF Flights
    <3>2. flight' = [flight EXCEPT ![i][k] = f]
      BY <2>1 DEF Miss
    <3> QED BY <3>1, <3>2
  <2>2. CASE Load(i, k)
    BY <1>3, <2>2 DEF Load
  <2>3. CASE LoadFails(i, k)
    BY <2>3, EmptyPlaces DEF LoadFails
  <2> QED BY <2>1, <2>2, <2>3
<1>5. /\ flight'[i][k] = f /\ Caches'
      /\ \A j \in Instances : \A y \in Keys : j # i \/ y # k => flight'[j][y] = flight[j][y]
  BY <1>1, <1>2, <1>4, FlightPut DEF Caches
<1>6. FlightSound(i, k)'
  <2>1. f = loaded => f.value = Truth(k) /\ f.capped = Capped(k) /\ f.missed = "no"
    BY DEF NoFlight
  <2>2. Truth(k)' = Truth(k) /\ Capped(k)' = Capped(k) /\ Capped(k) \in BOOLEAN
    BY <1>1, <1>2, ReadFrame, TruthType DEF ReadUnchanged
  <2> QED BY <1>4, <1>5, <2>1, <2>2 DEF FlightSound, Storable, Doomed
<1>7. PlacesSound'
  <2>1. ASSUME NEW j \in Instances, NEW y \in Keys
        PROVE  EntrySound(j, y)' /\ FlightSound(j, y)'
    <3>1. EntrySound(j, y) /\ FlightSound(j, y) /\ entry'[j][y] = entry[j][y]
      BY <1>1, <1>2 DEF PlacesSound
    <3> QED BY <1>2, <1>5, <1>6, <3>1, ReadFrame DEF ReadUnchanged
  <2>2. Keys' = Keys
    BY DEF Keys, LinkKeys, PathKeys
  <2> QED BY <2>1, <2>2 DEF PlacesSound
<1>8. RoomKept'
  BY <1>1, <1>2, NoNewEntries DEF HeldKeys
<1> QED BY <1>1, <1>2, <1>5, <1>7, <1>8, ReadType, SoundParts DEF Inv

LEMMA ExpireKeepsInv ==
    ASSUME Setting, Inv, NEW i \in Instances, NEW k \in Keys, Expire(i, k)
    PROVE  Inv'
<1>1. /\ Caches /\ faults \in 0..MaxFaults
      /\ entry[i][k] \in Entries /\ PlacesSound /\ TypeOK /\ RoomKept
  BY TypeParts, SoundParts DEF Inv, Caches
<1>2. ReadUnchanged /\ flight' = flight /\ faults' = faults
  BY DEF Expire, ReadUnchanged
<1>3. PICK x \in Entries : /\ entry' = [entry EXCEPT ![i][k] = x] /\ ~x.fresh
                           /\ x.held = entry[i][k].held /\ x.long = entry[i][k].long
                           /\ x.missed = entry[i][k].missed
  <2> DEFINE x == [entry[i][k] EXCEPT !.fresh = FALSE]
  <2>1. x \in Entries /\ ~x.fresh /\ x.held = entry[i][k].held /\ x.long = entry[i][k].long
        /\ x.missed = entry[i][k].missed
    BY <1>1 DEF Entries
  <2>2. entry' = [entry EXCEPT ![i][k] = x]
    BY DEF Expire
  <2> QED BY <2>1, <2>2
<1>4. /\ entry'[i][k] = x /\ Caches'
      /\ \A j \in Instances : \A y \in Keys : j # i \/ y # k => entry'[j][y] = entry[j][y]
  <2>1. /\ entry' \in [Instances -> [Keys -> Entries]] /\ entry'[i][k] = x
        /\ \A j \in Instances : \A y \in Keys : j # i \/ y # k => entry'[j][y] = entry[j][y]
    BY <1>1, <1>3, EntryPut
  <2> QED BY <1>1, <1>2, <2>1 DEF Caches
<1>5. EntrySound(i, k)'
  BY <1>1, <1>2, <1>3, <1>4 DEF PlacesSound, EntrySound, Hit, ReadUnchanged, busVars
<1>6. PlacesSound'
  <2>1. ASSUME NEW j \in Instances, NEW y \in Keys
        PROVE  EntrySound(j, y)' /\ FlightSound(j, y)'
    <3>1. EntrySound(j, y) /\ FlightSound(j, y) /\ flight'[j][y] = flight[j][y]
      BY <1>1, <1>2 DEF PlacesSound
    <3> QED BY <1>2, <1>4, <1>5, <3>1, ReadFrame DEF ReadUnchanged
  <2>2. Keys' = Keys
    BY DEF Keys, LinkKeys, PathKeys
  <2> QED BY <2>1, <2>2 DEF PlacesSound
<1>7. RoomKept'
  <2>1. \A j \in Instances : HeldKeys(j)' \subseteq HeldKeys(j)
    BY <1>3, <1>4 DEF HeldKeys
  <2> QED BY <1>1, <2>1, NoNewEntries
<1> QED BY <1>1, <1>2, <1>4, <1>6, <1>7, ReadType, SoundParts DEF Inv

\* Storing evicts enough for one more entry, unless the key has one already.
LEMMA RoomMade ==
    ASSUME Setting, Caches, NEW i \in Instances, NEW k \in Keys, NEW out \in RoomFor(i, k),
           IsFiniteSet(HeldKeys(i)), Cardinality(HeldKeys(i)) <= MaxEntries
    PROVE  LET held == (HeldKeys(i) \ out) \cup {k}
           IN IsFiniteSet(held) /\ Cardinality(held) <= MaxEntries
<1> DEFINE H == HeldKeys(i)
           E == ExpiredKeys(i)
           held == (H \ out) \cup {k}
<1>1. /\ IsFiniteSet(H) /\ Cardinality(H) \in Nat /\ Cardinality(H) <= MaxEntries
      /\ MaxEntries \in Nat \ {0} /\ (entry[i][k].held <=> k \in H)
  BY FS_CardinalityType DEF Setting, BoundsAssumption, HeldKeys
<1>2. \A S : S \subseteq H => /\ IsFiniteSet(S) /\ Cardinality(S) \in Nat
                              /\ Cardinality(S) <= Cardinality(H)
  BY <1>1, FS_Subset, FS_CardinalityType
<1>3. ASSUME NEW S, S \subseteq H, Cardinality(S) < MaxEntries
      PROVE  IsFiniteSet(S \cup {k}) /\ Cardinality(S \cup {k}) <= MaxEntries
  <2>1. IsFiniteSet(S) /\ Cardinality(S) \in Nat
    BY <1>2, <1>3
  <2>2. /\ IsFiniteSet(S \cup {k})
        /\ Cardinality(S \cup {k}) = IF k \in S THEN Cardinality(S) ELSE Cardinality(S) + 1
    BY <2>1, FS_AddElement
  <2> QED BY <1>1, <1>3, <2>1, <2>2
<1>4. CASE entry[i][k].held \/ Cardinality(H) < MaxEntries
  <2>1. out = {}
    BY <1>4 DEF RoomFor
  <2>2. CASE k \in H
    <3>1. held = H
      BY <2>1, <2>2
    <3> QED BY <1>1, <3>1
  <2>3. CASE k \notin H
    <3>1. held = H \cup {k} /\ Cardinality(H) < MaxEntries
      BY <1>1, <1>4, <2>1, <2>3
    <3> QED BY <1>3, <3>1
  <2> QED BY <2>2, <2>3
<1>5. CASE /\ ~(entry[i][k].held \/ Cardinality(H) < MaxEntries)
           /\ Cardinality(H \ E) < MaxEntries
  <2>1. out = E
    BY <1>5 DEF RoomFor
  <2> QED BY <1>3, <1>5, <2>1
<1>6. CASE /\ ~(entry[i][k].held \/ Cardinality(H) < MaxEntries)
           /\ ~(Cardinality(H \ E) < MaxEntries)
  <2>1. PICK v \in H \ E : out = E \cup {v}
    BY <1>6 DEF RoomFor
  <2>2. H \ out = (H \ E) \ {v}
    BY <2>1
  <2>3. IsFiniteSet(H \ E) /\ Cardinality(H \ E) \in Nat /\ Cardinality(H \ E) <= Cardinality(H)
    BY <1>2
  <2>4. Cardinality((H \ E) \ {v}) = Cardinality(H \ E) - 1
    BY <2>1, <2>3, FS_RemoveElement
  <2>5. Cardinality(H \ out) < MaxEntries
    <3>1. Cardinality(H \ out) = Cardinality(H \ E) - 1
      BY <2>2, <2>4
    <3> QED BY <1>1, <2>3, <3>1
  <2> QED BY <1>3, <2>5
<1> QED BY <1>4, <1>5, <1>6

LEMMA StoreKeepsInv ==
    ASSUME Setting, Inv, NEW i \in Instances, NEW k \in Keys, Store(i, k)
    PROVE  Inv'
<1>1. /\ Caches /\ faults \in 0..MaxFaults /\ Bus
      /\ flight[i][k] \in Flights /\ PlacesSound /\ TypeOK /\ RoomKept
  BY TypeParts, SoundParts DEF Inv, Caches
<1>2. ReadUnchanged /\ faults' = faults /\ flight[i][k].phase = "loaded"
  BY DEF Store, ReadUnchanged
<1>3. PICK out \in RoomFor(i, k) :
        /\ entry' = [entry EXCEPT ![i] = [x \in Keys |->
                IF x = k THEN Cached(i, k) ELSE IF x \in out THEN NoEntry ELSE entry[i][x]]]
        /\ flight' = [flight EXCEPT ![i] = [x \in Keys |->
                IF x = k \/ x \in out THEN NoFlight ELSE flight[i][x]]]
  BY DEF Store
<1>4. Cached(i, k) \in Entries
  BY <1>1 DEF Cached, Entries, Flights, Bus
<1>5. /\ Caches' /\ entry'[i][k] = Cached(i, k) /\ flight'[i][k] = NoFlight
      /\ \A j \in Instances : \A x \in Keys : j # i \/ x # k =>
            /\ entry'[j][x] = entry[j][x] \/ (entry'[j][x] = NoEntry /\ j = i /\ x \in out)
            /\ flight'[j][x] = flight[j][x] \/ flight'[j][x] = NoFlight
      /\ \A x \in Keys : x # k /\ x \in out => entry'[i][x] = NoEntry
  BY <1>1, <1>3, <1>4, EmptyPlaces DEF Caches
<1>6. EntrySound(i, k)'
  <2>1. /\ Cached(i, k).held /\ Cached(i, k).fresh = ~flight[i][k].past
        /\ Cached(i, k).value = flight[i][k].value /\ Cached(i, k).capped = flight[i][k].capped
        /\ Cached(i, k).missed = flight[i][k].missed /\ Cached(i, k).long = connected[i]
    BY DEF Cached
  <2>2. live' = live /\ connected' = connected /\ LinkKeys' = LinkKeys
    BY <1>2 DEF ReadUnchanged, busVars, LinkKeys
  <2>3. /\ Truth(k)' = Truth(k) /\ Capped(k)' = Capped(k) /\ (Awaited(i, k)' <=> Awaited(i, k))
    BY <1>2, ReadFrame DEF ReadUnchanged
  <2>4. FlightSound(i, k)
    BY <1>1 DEF PlacesSound
  <2> QED BY <1>2, <1>5, <2>1, <2>2, <2>3, <2>4 DEF EntrySound, FlightSound, Hit, Storable, Doomed, Excused
<1>7. PlacesSound'
  <2>1. ASSUME NEW j \in Instances, NEW x \in Keys
        PROVE  EntrySound(j, x)' /\ FlightSound(j, x)'
    <3>1. EntrySound(j, x) /\ FlightSound(j, x)
      BY <1>1 DEF PlacesSound
    <3>2. EntrySound(j, x)'
      BY <1>2, <1>5, <1>6, <3>1, ReadFrame, EmptySound DEF ReadUnchanged
    <3>3. FlightSound(j, x)'
      BY <1>2, <1>5, <3>1, ReadFrame, EmptySound DEF ReadUnchanged
    <3> QED BY <3>2, <3>3
  <2>2. Keys' = Keys
    BY DEF Keys, LinkKeys, PathKeys
  <2> QED BY <2>1, <2>2 DEF PlacesSound
<1>8. RoomKept'
  <2>1. ASSUME NEW j \in Instances
        PROVE  IsFiniteSet(HeldKeys(j)') /\ Cardinality(HeldKeys(j)') <= MaxEntries
    <3>1. IsFiniteSet(HeldKeys(j)) /\ Cardinality(HeldKeys(j)) <= MaxEntries
      BY <1>1 DEF RoomKept
    <3>2. CASE j # i
      <4>1. HeldKeys(j)' = HeldKeys(j)
        BY <1>5, <3>2 DEF HeldKeys
      <4> QED BY <3>1, <4>1
    <3>3. CASE j = i
      <4>1. HeldKeys(i)' \subseteq (HeldKeys(i) \ out) \cup {k}
        BY <1>5, EmptyPlaces DEF HeldKeys
      <4>2. /\ IsFiniteSet((HeldKeys(i) \ out) \cup {k})
            /\ Cardinality((HeldKeys(i) \ out) \cup {k}) <= MaxEntries
        BY <1>1, <1>3, <3>1, <3>3, RoomMade
      <4>3. /\ IsFiniteSet(HeldKeys(i)')
            /\ Cardinality(HeldKeys(i)') <= Cardinality((HeldKeys(i) \ out) \cup {k})
            /\ Cardinality(HeldKeys(i)') \in Nat
            /\ Cardinality((HeldKeys(i) \ out) \cup {k}) \in Nat
        BY <4>1, <4>2, FS_Subset, FS_CardinalityType
      <4>4. MaxEntries \in Nat
        BY DEF Setting, BoundsAssumption
      <4> QED BY <3>3, <4>2, <4>3, <4>4
    <3> QED BY <3>2, <3>3
  <2> QED BY <2>1 DEF RoomKept
<1> QED BY <1>1, <1>2, <1>5, <1>7, <1>8, ReadType, SoundParts DEF Inv

(***************************************************************************)
(* The invariant holds, and with it what readers are promised.             *)
(***************************************************************************)
LEMMA InitInv ==
    ASSUME Setting, Init
    PROVE  Inv
<1>1. \A i \in Instances : \A k \in Keys : entry[i][k] = NoEntry /\ flight[i][k] = NoFlight
  BY DEF Init
<1>2. TypeOK
  <2>1. Caches /\ Bus
    BY EmptyPlaces DEF Init, Caches, Bus
  <2>2. Database
    BY DEF Init, Database
  <2>3. writes \in 0..MaxWrites /\ faults \in 0..MaxFaults
    BY DEF Init, Setting, BoundsAssumption
  <2> QED BY <2>1, <2>2, <2>3, TypeParts
<1>3. PlacesSound
  BY <1>1, EmptySound DEF PlacesSound
<1>4. RoomKept
  <2>1. \A i \in Instances : HeldKeys(i) = {}
    BY <1>1, EmptyPlaces DEF HeldKeys
  <2>2. IsFiniteSet({}) /\ Cardinality({}) = 0
    BY FS_EmptySet
  <2> QED BY <2>1, <2>2 DEF RoomKept, Setting, BoundsAssumption
<1> QED BY <1>2, <1>3, <1>4, SoundParts DEF Inv

LEMMA NextInv ==
    ASSUME Setting, Inv, [Next]_vars
    PROVE  Inv'
<1>1. ASSUME NEW i \in Instances, NEW k \in Keys,
             Miss(i, k) \/ Load(i, k) \/ LoadFails(i, k) \/ Store(i, k) \/ Expire(i, k)
      PROVE  Inv'
  BY <1>1, FlightStepKeepsInv, ExpireKeepsInv, StoreKeepsInv
<1>2. ASSUME NEW i \in Instances, NEW what \in Links \cup Hosts, Mutation(i, what)
      PROVE  Inv'
  BY <1>2, MutationSettles, SettlesKeepsInv
<1>3. ASSUME NEW i \in Instances, NEW l \in Links, CapReached(i, l)
      PROVE  Inv'
  BY <1>3, CapReachedSettles, SettlesKeepsInv
<1>4. ASSUME NEW l \in Links, ReleaseTakesEffect(l)
      PROVE  Inv'
  BY <1>4, ReleaseTakesEffectKeepsInv
<1>5. ASSUME NEW op \in ops,
             Invalidate(op) \/ PublishInvalidation(op) \/ PublishFails(op) \/ CapCommits(op)
      PROVE  Inv'
  BY <1>5, InvalidateSettles, PublishSettles, PublishFailsSettles, CapCommitsSettles, SettlesKeepsInv
<1>6. ASSUME NEW i \in Instances,
             Deliver(i) \/ Subscribe(i) \/ Up(i) \/ Drop(i) \/ Down(i) \/ Crash(i)
      PROVE  Inv'
  BY <1>6, DeliverSettles, SocketSettles, DropSettles, CrashSettles, SettlesKeepsInv
<1>7. ASSUME UNCHANGED vars
      PROVE  Inv'
  <2>1. \A i \in Instances : \A k \in Keys : Kept(i, k) /\ Harmless(i, k)
    BY <1>7 DEF vars, cacheVars, busVars, Kept, Harmless
  <2>2. \A i, k : Truth(k)' = Truth(k) /\ Capped(k)' = Capped(k) /\ (Awaited(i, k)' <=> Awaited(i, k))
    BY <1>7, ReadFrame DEF vars
  <2>3. TypeOK'
    BY <1>7 DEF Inv, TypeOK, vars, dbVars, cacheVars, busVars
  <2> QED BY <2>1, <2>2, <2>3, KeyFacts, SettlesKeepsInv DEF Settles, Followed
<1>8. ASSUME NEW i \in Instances, NEW p \in Paths, Retarget(i, p)
      PROVE  Inv'
  <2>1. HostOf[p] \in Links \cup Hosts /\ Mutation(i, HostOf[p])
    BY <1>8 DEF Mutation, Setting, KeysAssumption
  <2> QED BY <1>2, <2>1
<1>9. ASSUME NEW i \in Instances, NEW l \in Links,
             Update(i, l) \/ Trash(i, l) \/ Restore(i, l) \/ Release(i, l) \/ ScheduleRelease(i, l)
      PROVE  Inv'
  BY <1>2, <1>9 DEF Mutation
<1> QED BY <1>1, <1>3, <1>4, <1>5, <1>6, <1>7, <1>8, <1>9 DEF Next

\* What the invariant says of the links' entries, in the terms of the properties.
LEMMA InvCoherent ==
    ASSUME Setting, Inv
    PROVE  Coherent /\ CacheBounded
<1>1. ASSUME NEW i \in Instances, NEW k \in LinkKeys, Stale(i, k), entry[i][k].missed = "no"
      PROVE  Coming(i, k)
  <2>1. Awaited(i, k)
    BY <1>1 DEF Inv, EntriesAwaited, Stale, Doomed, Excused
  <2>2. \A what \in Links \cup Hosts : k \in Covers(what) <=> what = k[2]
    BY KeyFacts
  <2>3. k[2] \in Links
    BY KeyFacts
  <2> QED BY <2>1, <2>2, <2>3 DEF Awaited, Coming
<1>2. OutdatedIsAwaited
  BY <1>1 DEF OutdatedIsAwaited
<1>3. MissedAreShortLived
  BY DEF Inv, LongWhileConnected, MissedAreShortLived, Hit
<1> QED BY <1>2, <1>3 DEF Coherent, Inv, RoomKept, CacheBounded

\* link-cache.ts:24 "Generation-safe single-flight" and link-cache-bus.ts:15: a short
\* code or revision is served from an outdated entry only while the invalidation
\* is on its way or was lost or early, and an entry that missed a message for
\* want of a subscription is short-lived once the close event is handled.
THEOREM CachesCoherent ==
    ASSUME Setting
    PROVE  Spec => []Coherent
<1>1. Init => Inv
  BY InitInv
<1>2. Inv /\ [Next]_vars => Inv'
  BY NextInv
<1>3. Inv => Coherent
  BY InvCoherent
<1> QED BY <1>1, <1>2, <1>3, PTL DEF Spec

\* link-cache.ts setCache: the cache never holds more than MAX_ENTRIES.
THEOREM CachesBounded ==
    ASSUME Setting
    PROVE  Spec => []CacheBounded
<1>1. Init => Inv
  BY InitInv
<1>2. Inv /\ [Next]_vars => Inv'
  BY NextInv
<1>3. Inv => CacheBounded
  BY InvCoherent
<1> QED BY <1>1, <1>2, <1>3, PTL DEF Spec
=============================================================================
