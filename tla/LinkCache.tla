------------------------------ MODULE LinkCache ------------------------------
(***************************************************************************)
(* The read cache of the redirect path and its invalidation bus:           *)
(* src/src/lib/link-cache.ts and link-cache-bus.ts.                        *)
(*                                                                         *)
(* Every instance keeps entries for short codes, custom-domain paths and   *)
(* revisions; misses of one key share one load.  A mutation commits, evicts *)
(* what its instance holds for the link or host it changed, and publishes  *)
(* the eviction over Redis to the instances that are subscribed.           *)
(***************************************************************************)
EXTENDS Naturals, Sequences, FiniteSets

CONSTANTS
    Instances,
    Links,         \* urls rows; the short code of a link never changes here
    Paths, Hosts,  \* domain_links rows and the hosts they are on
    HostOf,
    LinkKinds,     \* the keys of a link that are read: "code", "rev" (without it, none is released)
    Nobody,        \* what a code or path without a live link resolves to
    MaxEntries,    \* MAX_ENTRIES
    MaxWrites,     \* bound: mutations
    MaxFaults      \* bound: lost publishes and subscriptions, failed loads, crashes

\* What the constants are given, for the modules that instantiate this one to assume.
KeysAssumption ==
    /\ HostOf \in [Paths -> Hosts] /\ LinkKinds \subseteq {"code", "rev"}
    /\ Links \cap Hosts = {} /\ Nobody \notin Links \cup Hosts
BoundsAssumption ==
    /\ MaxEntries \in Nat \ {0} /\ MaxWrites \in Nat /\ MaxFaults \in Nat

KeysOf(l) == LinkKinds \X {l}     \* codeKey and revisionKey
PathKey(p) == <<"path", p>>       \* domainKey
LinkKeys == LinkKinds \X Links
PathKeys == {PathKey(p) : p \in Paths}
Keys == LinkKeys \cup PathKeys

VARIABLES
    version, alive,   \* per link: generation of its row, deletedAt is null
    revision,         \* per link: generation of its latest effective revision
    scheduled,        \* per link: a revision with a future effectiveAt exists
    target,           \* per path: the link it points at
    entry,            \* cache, per instance and key
    flight,           \* inflight, per instance and key
    live,             \* Redis delivers messages to the instance
    connected,        \* BusState.connected: what the instance believes
    wire,             \* per instance: messages on their way to it
    ops,              \* mutations that have not finished invalidating
    writes, faults

dbVars    == <<version, alive, revision, scheduled, target>>
cacheVars == <<entry, flight>>
busVars   == <<live, connected, wire>>
vars == <<dbVars, cacheVars, busVars, ops, writes, faults>>

NoValue  == [to |-> Nobody, gen |-> 0]
NoEntry  == [held |-> FALSE, value |-> NoValue, capped |-> FALSE, fresh |-> FALSE,
             long |-> FALSE, missed |-> "no"]
NoFlight == [phase |-> "none", value |-> NoValue, capped |-> FALSE, past |-> FALSE, missed |-> "no"]

Init ==
    /\ version = [l \in Links |-> 0] /\ alive \in [Links -> BOOLEAN]
    /\ revision = [l \in Links |-> 0] /\ scheduled = [l \in Links |-> FALSE]
    /\ target \in [Paths -> Links \cup {Nobody}]
    /\ entry = [i \in Instances |-> [k \in Keys |-> NoEntry]]
    /\ flight = [i \in Instances |-> [k \in Keys |-> NoFlight]]
    /\ live = [i \in Instances |-> FALSE] /\ connected = [i \in Instances |-> FALSE]
    /\ wire = [i \in Instances |-> <<>>]
    /\ ops = {} /\ writes = 0 /\ faults = 0

\* What the loader of a key reads from the database now.
Row(l) == IF l \in Links /\ alive[l] THEN [to |-> l, gen |-> version[l]] ELSE NoValue
Truth(k) ==
    CASE k[1] = "code" -> Row(k[2])
      [] k[1] = "rev"  -> [to |-> k[2], gen |-> revision[k[2]]]
      [] k[1] = "path" -> Row(target[k[2]])

Fault == faults < MaxFaults /\ faults' = faults + 1

(***************************************************************************)
(* readThrough and setCache.  A hit and a coalesced miss change nothing.   *)
(***************************************************************************)
Hit(i, k) == entry[i][k].held /\ entry[i][k].fresh

\* Whether the loaded value is cut off at the next revision's effectiveAt.
Capped(k) == k[1] = "rev" /\ scheduled[k[2]]

Miss(i, k) ==
    /\ ~Hit(i, k) /\ flight[i][k].phase = "none"
    /\ flight' = [flight EXCEPT ![i][k].phase = "loading"]
    /\ UNCHANGED <<dbVars, entry, busVars, ops, writes, faults>>

Load(i, k) ==
    /\ flight[i][k].phase = "loading"
    /\ flight' = [flight EXCEPT ![i][k] =
            [NoFlight EXCEPT !.phase = "loaded", !.value = Truth(k), !.capped = Capped(k)]]
    /\ UNCHANGED <<dbVars, entry, busVars, ops, writes, faults>>

LoadFails(i, k) ==
    /\ flight[i][k].phase # "none"
    /\ Fault
    /\ flight' = [flight EXCEPT ![i][k] = NoFlight]
    /\ UNCHANGED <<dbVars, entry, busVars, ops, writes>>

HeldKeys(i) == {k \in Keys : entry[i][k].held}
ExpiredKeys(i) == {k \in HeldKeys(i) : ~entry[i][k].fresh}

MakeNoRoom(i, k) == {{}}
\* What setCache evicts to make room for k: the expired entries, then one more
\* (the code takes the oldest; here, any).
RoomFor(i, k) ==
    IF entry[i][k].held \/ Cardinality(HeldKeys(i)) < MaxEntries THEN {{}}
    ELSE IF Cardinality(HeldKeys(i) \ ExpiredKeys(i)) < MaxEntries THEN {ExpiredKeys(i)}
    ELSE {ExpiredKeys(i) \cup {v} : v \in HeldKeys(i) \ ExpiredKeys(i)}

Cached(i, k) ==
    LET f == flight[i][k] IN
    [held |-> TRUE, value |-> f.value, capped |-> f.capped, fresh |-> ~f.past,
     long |-> connected[i], missed |-> f.missed]

\* A flight marked stale has left the map, so what it loads is never stored.
Store(i, k) ==
    /\ flight[i][k].phase = "loaded"
    /\ \E out \in RoomFor(i, k) :
        /\ entry' = [entry EXCEPT ![i] = [x \in Keys |->
                IF x = k THEN Cached(i, k) ELSE IF x \in out THEN NoEntry ELSE entry[i][x]]]
        /\ flight' = [flight EXCEPT ![i] = [x \in Keys |->
                IF x = k \/ x \in out THEN NoFlight ELSE flight[i][x]]]
    /\ UNCHANGED <<dbVars, busVars, ops, writes, faults>>

ShortLived(i, k) == Hit(i, k) /\ ~entry[i][k].long
Expirable(i, k) == Hit(i, k)

Expire(i, k) ==
    /\ Expirable(i, k)
    /\ entry' = [entry EXCEPT ![i][k].fresh = FALSE]
    /\ UNCHANGED <<dbVars, flight, busVars, ops, writes, faults>>

(***************************************************************************)
(* evictLocal, flushAll and what an invalidation is meant to reach.        *)
(***************************************************************************)
\* The keys deleteKey is called with: the reverse indexes hold cached entries.
EvictedKeys(i, what) ==
    IF what \in Links
    THEN KeysOf(what) \cup {k \in HeldKeys(i) : entry[i][k].value.to = what}
    ELSE {k \in HeldKeys(i) \cap PathKeys : HostOf[k[2]] = what}

WithoutEntries(i, keys) ==
    [entry EXCEPT ![i] = [k \in Keys |-> IF k \in keys THEN NoEntry ELSE entry[i][k]]]
WithoutFlights(i, keys) ==
    [flight EXCEPT ![i] = [k \in Keys |-> IF k \in keys THEN NoFlight ELSE flight[i][k]]]

EvictLocalKeepingFlights(i, what) ==
    /\ entry' = WithoutEntries(i, EvictedKeys(i, what))
    /\ UNCHANGED flight
EvictLocal(i, what) ==
    /\ entry' = WithoutEntries(i, EvictedKeys(i, what))
    /\ flight' = WithoutFlights(i, EvictedKeys(i, what))

FlushAll(i) ==
    /\ entry' = WithoutEntries(i, Keys)
    /\ flight' = WithoutFlights(i, Keys)

\* The keys whose value depends on a link or on the paths of a host.
Covers(what) ==
    IF what \in Links
    THEN KeysOf(what) \cup {PathKey(p) : p \in {x \in Paths : target[x] = what}}
    ELSE {PathKey(p) : p \in {x \in Paths : HostOf[x] = what}}

\* History: what the instances in `who` hold outlives the invalidations of
\* `whats`, for this reason.
MarkMissed(who, whats, reason) ==
    LET keys == UNION {Covers(w) : w \in whats} IN
    /\ entry' = [i \in Instances |-> [k \in Keys |->
            IF i \in who /\ k \in keys /\ entry[i][k].held
            THEN [entry[i][k] EXCEPT !.missed = reason] ELSE entry[i][k]]]
    /\ flight' = [i \in Instances |-> [k \in Keys |->
            IF i \in who /\ k \in keys /\ flight[i][k].phase = "loaded"
            THEN [flight[i][k] EXCEPT !.missed = reason] ELSE flight[i][k]]]

(***************************************************************************)
(* Mutations: commit, then invalidateLink, invalidateLinks or              *)
(* invalidateDomain: evict locally, then publish.                          *)
(***************************************************************************)
Committed(i, what) ==
    /\ writes < MaxWrites /\ writes' = writes + 1
    /\ \A op \in ops : ~(op.at = i /\ op.what = what)
    /\ ops' = ops \cup {[at |-> i, what |-> what, step |-> "evict"]}
    /\ UNCHANGED <<cacheVars, busVars, faults>>

Update(i, l) ==
    /\ alive[l] /\ version' = [version EXCEPT ![l] = @ + 1]
    /\ UNCHANGED <<alive, revision, scheduled, target>>
    /\ Committed(i, l)

Trash(i, l) ==
    /\ alive[l] /\ alive' = [alive EXCEPT ![l] = FALSE]
    /\ UNCHANGED <<version, revision, scheduled, target>>
    /\ Committed(i, l)

Restore(i, l) ==
    /\ ~alive[l] /\ alive' = [alive EXCEPT ![l] = TRUE]
    /\ UNCHANGED <<version, revision, scheduled, target>>
    /\ Committed(i, l)

Release(i, l) ==
    /\ revision' = [revision EXCEPT ![l] = @ + 1]
    /\ UNCHANGED <<version, alive, scheduled, target>>
    /\ Committed(i, l)

ScheduleRelease(i, l) ==
    /\ ~scheduled[l] /\ scheduled' = [scheduled EXCEPT ![l] = TRUE]
    /\ UNCHANGED <<version, alive, revision, target>>
    /\ Committed(i, l)

Retarget(i, p) ==
    /\ \E l \in (Links \cup {Nobody}) \ {target[p]} : target' = [target EXCEPT ![p] = l]
    /\ UNCHANGED <<version, alive, revision, scheduled>>
    /\ Committed(i, HostOf[p])

\* Nothing runs: entries cut off at effectiveAt expire by themselves.
ReleaseTakesEffect(l) ==
    /\ scheduled[l]
    /\ scheduled' = [scheduled EXCEPT ![l] = FALSE]
    /\ revision' = [revision EXCEPT ![l] = @ + 1]
    /\ entry' = [i \in Instances |-> [k \in Keys |->
            IF k = <<"rev", l>> /\ entry[i][k].capped
            THEN [entry[i][k] EXCEPT !.fresh = FALSE] ELSE entry[i][k]]]
    /\ flight' = [i \in Instances |-> [k \in Keys |->
            IF k = <<"rev", l>> /\ flight[i][k].capped
            THEN [flight[i][k] EXCEPT !.past = TRUE] ELSE flight[i][k]]]
    /\ UNCHANGED <<version, alive, target, busVars, ops, writes, faults>>

Invalidate(op) ==
    /\ op \in ops /\ op.step = "evict"
    /\ EvictLocal(op.at, op.what)
    /\ ops' = (ops \ {op}) \cup {[op EXCEPT !.step = "publish"]}
    /\ UNCHANGED <<dbVars, busVars, writes, faults>>

AfterPublish(op) == IF op.step = "publishEarly" THEN {[op EXCEPT !.step = "commit"]} ELSE {}

\* Redis hands the message to the instances subscribed at this moment; the
\* origin drops its own.
PublishInvalidation(op) ==
    /\ op \in ops /\ op.step \in {"publish", "publishEarly"}
    /\ wire' = [i \in Instances |->
            IF live[i] /\ i # op.at THEN Append(wire[i], op.what) ELSE wire[i]]
    /\ MarkMissed({i \in Instances : ~live[i] /\ i # op.at}, {op.what}, "subscription")
    /\ ops' = (ops \ {op}) \cup AfterPublish(op)
    /\ UNCHANGED <<dbVars, live, connected, writes, faults>>

PublishFails(op) ==
    /\ op \in ops /\ op.step \in {"publish", "publishEarly"}
    /\ Fault
    /\ MarkMissed(Instances \ {op.at}, {op.what}, "publish")
    /\ ops' = (ops \ {op}) \cup AfterPublish(op)
    /\ UNCHANGED <<dbVars, busVars, writes>>

\* persistBatch evicts a link that reached maxClicks inside its transaction,
\* and the new row is visible only once that commits: too late for an eviction.
CapReached(i, l) ==
    /\ alive[l]
    /\ writes < MaxWrites /\ writes' = writes + 1
    /\ \A op \in ops : ~(op.at = i /\ op.what = l)
    /\ EvictLocal(i, l)
    /\ ops' = ops \cup {[at |-> i, what |-> l, step |-> "publishEarly"]}
    /\ UNCHANGED <<dbVars, busVars, faults>>

CapCommits(op) ==
    /\ op \in ops /\ op.step = "commit"
    /\ version' = [version EXCEPT ![op.what] = @ + 1]
    /\ ops' = ops \ {op}
    /\ MarkMissed(Instances, {op.what}, "early")
    /\ UNCHANGED <<alive, revision, scheduled, target, busVars, writes, faults>>

(***************************************************************************)
(* The bus: ensureBusListener and its handlers.                            *)
(***************************************************************************)
Deliver(i) ==
    /\ wire[i] # <<>>
    /\ EvictLocal(i, Head(wire[i]))
    /\ wire' = [wire EXCEPT ![i] = Tail(@)]
    /\ UNCHANGED <<dbVars, live, connected, ops, writes, faults>>

Subscribe(i) ==
    /\ ~live[i] /\ ~connected[i]
    /\ live' = [live EXCEPT ![i] = TRUE]
    /\ UNCHANGED <<dbVars, cacheVars, connected, wire, ops, writes, faults>>

Up(i) ==
    /\ live[i] /\ ~connected[i]
    /\ connected' = [connected EXCEPT ![i] = TRUE]
    /\ FlushAll(i)
    /\ UNCHANGED <<dbVars, live, wire, ops, writes, faults>>

\* The connection breaks, and the messages on it are gone.
Drop(i) ==
    /\ live[i]
    /\ Fault
    /\ live' = [live EXCEPT ![i] = FALSE]
    /\ wire' = [wire EXCEPT ![i] = <<>>]
    /\ MarkMissed({i}, {wire[i][n] : n \in 1..Len(wire[i])}, "subscription")
    /\ UNCHANGED <<dbVars, connected, ops, writes>>

FlushDown(i) == FlushAll(i)

\* The close event reaches the process.
Down(i) ==
    /\ connected[i] /\ ~live[i]
    /\ connected' = [connected EXCEPT ![i] = FALSE]
    /\ FlushDown(i)
    /\ UNCHANGED <<dbVars, live, wire, ops, writes, faults>>

\* The process dies, with the invalidations it still had to publish.
Crash(i) ==
    LET lost == {op \in ops : op.at = i /\ op.step \in {"evict", "publish"}}
        others == Instances \ {i}
        keys == UNION {Covers(op.what) : op \in lost}
    IN
    /\ Fault
    /\ entry' = [j \in Instances |-> [k \in Keys |->
            IF j = i THEN NoEntry
            ELSE IF k \in keys /\ entry[j][k].held
            THEN [entry[j][k] EXCEPT !.missed = "publish"] ELSE entry[j][k]]]
    /\ flight' = [j \in Instances |-> [k \in Keys |->
            IF j = i THEN NoFlight
            ELSE IF k \in keys /\ flight[j][k].phase = "loaded"
            THEN [flight[j][k] EXCEPT !.missed = "publish"] ELSE flight[j][k]]]
    /\ live' = [live EXCEPT ![i] = FALSE]
    /\ connected' = [connected EXCEPT ![i] = FALSE]
    /\ wire' = [wire EXCEPT ![i] = <<>>]
    /\ ops' = {op \in ops : op.at # i}
    /\ UNCHANGED <<dbVars, writes>>

Next ==
    \/ \E i \in Instances, k \in Keys :
        Miss(i, k) \/ Load(i, k) \/ LoadFails(i, k) \/ Store(i, k) \/ Expire(i, k)
    \/ \E i \in Instances, l \in Links :
        \/ Update(i, l) \/ Trash(i, l) \/ Restore(i, l) \/ CapReached(i, l)
        \/ "rev" \in LinkKinds /\ (Release(i, l) \/ ScheduleRelease(i, l))
    \/ \E i \in Instances, p \in Paths : Retarget(i, p)
    \/ \E l \in Links : ReleaseTakesEffect(l)
    \/ \E op \in ops : Invalidate(op) \/ PublishInvalidation(op) \/ PublishFails(op) \/ CapCommits(op)
    \/ \E i \in Instances : Deliver(i) \/ Subscribe(i) \/ Up(i) \/ Drop(i) \/ Down(i) \/ Crash(i)

Spec == Init /\ [][Next]_vars

\* Loads answer, TTLs run out, mutations run on and the sockets report.
Progress ==
    /\ \A i \in Instances : \A k \in Keys :
        WF_vars(Load(i, k)) /\ WF_vars(Store(i, k)) /\ WF_vars(Expire(i, k))
    /\ \A i \in Instances : WF_vars(Deliver(i)) /\ WF_vars(Up(i)) /\ WF_vars(Down(i))
    /\ WF_vars(\E op \in ops : Invalidate(op) \/ PublishInvalidation(op) \/ CapCommits(op))

FairSpec == Spec /\ Progress

(***************************************************************************)
(* Properties.                                                             *)
(***************************************************************************)
Values == [to : Links \cup {Nobody}, gen : Nat]
Reasons == {"no", "publish", "subscription", "early"}

\* The variables stay in their types.
TypeOK ==
    /\ version \in [Links -> Nat] /\ alive \in [Links -> BOOLEAN]
    /\ revision \in [Links -> Nat] /\ scheduled \in [Links -> BOOLEAN]
    /\ target \in [Paths -> Links \cup {Nobody}]
    /\ entry \in [Instances -> [Keys -> [held : BOOLEAN, value : Values, capped : BOOLEAN,
                                         fresh : BOOLEAN, long : BOOLEAN, missed : Reasons]]]
    /\ flight \in [Instances -> [Keys -> [phase : {"none", "loading", "loaded"}, value : Values,
                                          capped : BOOLEAN, past : BOOLEAN, missed : Reasons]]]
    /\ live \in [Instances -> BOOLEAN] /\ connected \in [Instances -> BOOLEAN]
    /\ wire \in [Instances -> Seq(Links \cup Hosts)]
    /\ ops \subseteq [at : Instances, what : Links \cup Hosts,
                      step : {"evict", "publish", "publishEarly", "commit"}]
    /\ writes \in 0..MaxWrites /\ faults \in 0..MaxFaults

Stale(i, k) == Hit(i, k) /\ entry[i][k].value # Truth(k)

\* An invalidation that concerns k is still on its way to instance i.
Coming(i, k) ==
    \/ \E op \in ops : /\ k \in Covers(op.what)
                       /\ op.step = "evict" \/ (op.step = "publish" /\ op.at # i)
    \/ \E n \in 1..Len(wire[i]) : k \in Covers(wire[i][n])

\* link-cache.ts:24 "Generation-safe single-flight": a short code or a revision
\* is served from an outdated entry only while the invalidation is on its way
\* to the instance, or was lost or sent too early and left to the TTL; never
\* because a load that began before the mutation stored its row afterwards.
OutdatedIsAwaited == \A i \in Instances : \A k \in LinkKeys :
    Stale(i, k) => entry[i][k].missed # "no" \/ Coming(i, k)

\* link-cache.ts:29 "when it drops the cache flushes and returns to the short
\* TTL, since missed messages are unknown": an entry that missed a message for
\* want of a subscription is long-lived only until the close event is handled.
MissedAreShortLived == \A i \in Instances : \A k \in Keys :
    Hit(i, k) /\ entry[i][k].long /\ entry[i][k].missed = "subscription"
        => connected[i] /\ ~live[i]

\* Both: a short code is never answered from an outdated entry for longer than
\* an invalidation takes, or the short TTL of an instance off the bus.
Coherent == TypeOK /\ OutdatedIsAwaited /\ MissedAreShortLived

\* The cache stays within MAX_ENTRIES, whatever expired, was evicted or was
\* loaded meanwhile.
CacheBounded == \A i \in Instances : Cardinality(HeldKeys(i)) <= MaxEntries

\* link-cache-bus.ts:15 "a failed publish leaves the TTL as the bound": when the
\* mutations stop, every outdated entry goes, whatever was lost.
StaleNeverLasts == \A i \in Instances : \A k \in Keys : <>[]~Stale(i, k)

(***************************************************************************)
(* Stronger claims, which the code does not keep.  No run checks them; the  *)
(* README names, for each, the constants under which TLC refutes it.       *)
(***************************************************************************)
\* link-cache.ts:21 "evicts the short-code entry, every custom-domain path
\* pointing at the link", so a path is never served from an outdated entry once
\* the invalidation of its link or host has run.
PathsCoherent == \A i \in Instances : \A k \in PathKeys :
    Stale(i, k) => entry[i][k].missed # "no" \/ Coming(i, k)

\* link-cache.ts:25 "the pre-mutation row it read is returned to its own waiters
\* but never written into the cache", of the rows paths resolve to.
NoPreMutationRowOfPath == \A i \in Instances : \A k \in PathKeys :
    Stale(i, k) /\ entry[i][k].value.to \in Links
        => entry[i][k].missed # "no" \/ Coming(i, k)

\* link-cache.ts:390 "Call after any mutation that changes resolution state": no
\* invalidation runs ahead of the commit it is for.
NeverEarly == \A i \in Instances : \A k \in Keys :
    Stale(i, k) => entry[i][k].missed # "early"
================================================================================
