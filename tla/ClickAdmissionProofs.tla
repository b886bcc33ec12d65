------------------------- MODULE ClickAdmissionProofs -------------------------
(***************************************************************************)
(* Proofs about ClickAdmission for any instances, clicks, months, quotas   *)
(* and lease sizes, any number of quota edits and of faults.               *)
(***************************************************************************)
EXTENDS ClickAdmission, FiniteSetTheorems, TLAPS

(***************************************************************************)
(* The sum of a function's values: what one changed, added or removed      *)
(* value does to it.                                                       *)
(***************************************************************************)
UnitsOf(f) == UNION {{x} \X (1..f[x]) : x \in DOMAIN f}

LEMMA UnitsFinite ==
    ASSUME NEW S, IsFiniteSet(S), NEW f \in [S -> Nat]
    PROVE  /\ IsFiniteSet(UnitsOf(f))
           /\ Total(f) = Cardinality(UnitsOf(f)) /\ Total(f) \in Nat
<1> DEFINE parts == {{x} \X (1..f[x]) : x \in S}
           part == [x \in S |-> {x} \X (1..f[x])]
<1>1. part \in Surjection(S, parts)
  BY DEF Surjection
<1>2. IsFiniteSet(parts)
  BY <1>1, FS_Surjection
<1>3. ASSUME NEW x \in S PROVE IsFiniteSet({x} \X (1..f[x]))
  <2>1. f[x] \in Int /\ 1 \in Int
    OBVIOUS
  <2>2. IsFiniteSet(1..f[x]) /\ IsFiniteSet({x})
    BY <2>1, FS_Interval, FS_Singleton
  <2> QED BY <2>2, FS_Product
<1>4. IsFiniteSet(UNION parts)
  <2>1. \A T \in parts : IsFiniteSet(T)
    BY <1>3
  <2> QED BY <1>2, <2>1, FS_UNION
<1>5. UnitsOf(f) = UNION parts
  BY DEF UnitsOf
<1> QED BY <1>4, <1>5, FS_CardinalityType DEF Total, UnitsOf

LEMMA TotalSplit ==
    ASSUME NEW S, IsFiniteSet(S), NEW f \in [S -> Nat], NEW x \in S
    PROVE  /\ Total([y \in S \ {x} |-> f[y]]) \in Nat
           /\ Total(f) = f[x] + Total([y \in S \ {x} |-> f[y]])
<1> DEFINE rest == [y \in S \ {x} |-> f[y]]
           mine == {x} \X (1..f[x])
<1>1. IsFiniteSet(S \ {x}) /\ rest \in [S \ {x} -> Nat]
  BY FS_RemoveElement
<1>2. IsFiniteSet(UnitsOf(rest)) /\ Total(rest) = Cardinality(UnitsOf(rest)) /\ Total(rest) \in Nat
  BY <1>1, UnitsFinite
<1>3. IsFiniteSet(mine) /\ Cardinality(mine) = f[x]
  <2>1. f[x] \in Nat /\ f[x] \in Int /\ 1 \in Int
    OBVIOUS
  <2>2. IsFiniteSet(1..f[x]) /\ Cardinality(1..f[x]) = f[x]
    BY <2>1, FS_Interval
  <2>3. IsFiniteSet({x}) /\ Cardinality({x}) = 1
    BY FS_Singleton
  <2>4. IsFiniteSet(mine) /\ Cardinality(mine) = Cardinality({x}) * Cardinality(1..f[x])
    BY <2>2, <2>3, FS_Product
  <2> QED BY <2>1, <2>2, <2>3, <2>4
<1>4. UnitsOf(f) = mine \cup UnitsOf(rest) /\ mine \cap UnitsOf(rest) = {}
  <2>1. DOMAIN f = S /\ DOMAIN rest = S \ {x} /\ \A y \in S \ {x} : rest[y] = f[y]
    OBVIOUS
  <2> HIDE DEF rest
  <2>2. \A u : u \in UnitsOf(f) <=> \E y \in S : u \in {y} \X (1..f[y])
    BY <2>1 DEF UnitsOf
  <2>3. \A u : u \in UnitsOf(rest) <=> \E y \in S \ {x} : u \in {y} \X (1..f[y])
    BY <2>1 DEF UnitsOf
  <2>4. mine \cap UnitsOf(rest) = {}
    BY <2>3
  <2>5. \A u : u \in UnitsOf(f) <=> u \in mine \/ u \in UnitsOf(rest)
    BY <2>2, <2>3
  <2> QED BY <2>4, <2>5
<1>5. Cardinality(UnitsOf(f)) = f[x] + Total(rest)
  <2>1. Cardinality(mine \cap UnitsOf(rest)) = 0
    BY <1>4, FS_EmptySet
  <2>2. Cardinality(UnitsOf(f)) = Cardinality(mine) + Cardinality(UnitsOf(rest))
                                      - Cardinality(mine \cap UnitsOf(rest))
    BY <1>2, <1>3, <1>4, FS_Union
  <2>3. f[x] \in Nat
    OBVIOUS
  <2> HIDE DEF rest, mine
  <2> QED BY <1>2, <1>3, <2>1, <2>2, <2>3
<1> QED BY <1>2, <1>5, UnitsFinite

\* One holder's amount changes.
LEMMA TotalChange ==
    ASSUME NEW S, IsFiniteSet(S), NEW f \in [S -> Nat], NEW g \in [S -> Nat], NEW x \in S,
           \A y \in S \ {x} : g[y] = f[y]
    PROVE  /\ Total(f) \in Nat /\ Total(g) \in Nat /\ f[x] <= Total(f)
           /\ Total(g) = Total(f) - f[x] + g[x]
<1> DEFINE r == [y \in S \ {x} |-> f[y]]
<1>1. r = [y \in S \ {x} |-> g[y]]
  OBVIOUS
<1>2. Total(r) \in Nat /\ Total(f) = f[x] + Total(r)
  BY TotalSplit
<1>4. Total(g) = g[x] + Total(r)
  <2>1. Total(g) = g[x] + Total([y \in S \ {x} |-> g[y]])
    BY TotalSplit
  <2> QED BY <1>1, <2>1, Zenon
<1>3. f[x] \in Nat /\ g[x] \in Nat
  OBVIOUS
<1> HIDE DEF r
<1> QED BY <1>2, <1>4, <1>3

\* A holder leaves, or joins.
LEMMA TotalLeave ==
    ASSUME NEW S, IsFiniteSet(S), NEW f \in [S -> Nat], NEW x \in S, NEW g,
           g = [y \in S \ {x} |-> f[y]]
    PROVE  /\ Total(f) \in Nat /\ Total(g) \in Nat /\ f[x] <= Total(f)
           /\ Total(g) = Total(f) - f[x]
<1>1. Total(g) \in Nat /\ Total(f) = f[x] + Total(g)
  <2> DEFINE rest == [y \in S \ {x} |-> f[y]]
  <2>1. Total(rest) \in Nat /\ Total(f) = f[x] + Total(rest)
    BY TotalSplit
  <2>2. g = rest
    OBVIOUS
  <2> HIDE DEF rest
  <2> QED BY <2>1, <2>2
<1>2. f[x] \in Nat
  OBVIOUS
<1> QED BY <1>1, <1>2

-----------------------------------------------------------------------------
(***************************************************************************)
(* Types, and who may hold units.                                          *)
(***************************************************************************)
Typed == TypeOK /\ IsFiniteSet(releases)

\* What a request has at each place.
RequestInv == \A r \in Requests :
    /\ pc[r] = "idle" => attempt[r] = 0
    /\ pc[r] \in {"idle", "waiting", "resumed", "unreserved", "rejected"} => unitOf[r] = 0

\* An acquisition under way has detached the lease, and grants when it answers.
FlightInv == \A i \in Instances :
    /\ lease[i].key = 0 => lease[i].left = 0
    /\ flight[i].previous.key = 0 => flight[i].previous.left = 0
    /\ flight[i].phase # "none" => lease[i] = NoLease
    /\ flight[i].phase = "asked" => flight[i].granted = 0 /\ ~flight[i].unlimited
    /\ flight[i].phase = "answered" /\ flight[i].unlimited => flight[i].granted = 0

\* A request gives its unit back to the database once.
ReleaseInv == \A x \in releases : x.by \in Requests => pc[x.by] = "returned"

HolderInv == Typed /\ RequestInv /\ FlightInv /\ ReleaseInv

LEMMA GrantType ==
    ASSUME NEW h \in Int, NEW d \in Nat
    PROVE  Grant(h, d) \in Nat /\ Grant(h, d) <= Larger(h, 0)
<1>1. h \div Divisor \in Int
  BY LeaseAssumption
<1> QED BY <1>1, LeaseAssumption DEF Grant, Smaller, Larger

LEMMA LeaseType ==
    /\ NoLease \in Leases /\ NoFlight \in Flights
    /\ \A l \in Leases : /\ l.key \in 0..Periods /\ l.left \in Nat
                         /\ l.fresh \in BOOLEAN /\ l.exhausted \in BOOLEAN
                         /\ \A n \in Nat : [l EXCEPT !.left = n] \in Leases
                         /\ [l EXCEPT !.fresh = FALSE] \in Leases
    /\ \A f \in Flights : /\ f.previous \in Leases /\ f.demand \in Nat
                          /\ f.granted \in Nat /\ f.key \in 0..Periods
<1>1. 0 \in 0..Periods
  BY BoundsAssumption
<1> QED BY <1>1 DEF NoLease, NoFlight, Leases, Flights

LEMMA HandedType ==
    ASSUME NEW b \in [Months -> Nat], NEW key, NEW n \in Nat
    PROVE  Handed(b, key, n) \in [Months -> Nat]
<1>1. CASE key \in Months /\ b[key] >= n
  <2>1. b[key] - n \in Nat
    BY <1>1
  <2> QED BY <1>1, <2>1 DEF Handed
<1>2. CASE key \notin Months
  <2>1. [b EXCEPT ![key] = @ - n] = b
    BY <1>2
  <2> QED BY <2>1 DEF Handed
<1>3. CASE ~(b[key] >= n)
  BY <1>3 DEF Handed
<1> QED BY <1>1, <1>2, <1>3

LEMMA InMemoryType ==
    ASSUME TypeOK, NEW i \in Instances, NEW p \in Months
    PROVE  InMemory(i, p) \in Nat
<1>1. lease[i] \in Leases /\ flight[i] \in Flights
  BY DEF TypeOK
<1>2. lease[i].left \in Nat /\ flight[i].previous.left \in Nat /\ flight[i].granted \in Nat
  BY <1>1, LeaseType
<1> QED BY <1>2 DEF InMemory

LEMMA FiniteRequests ==
    ASSUME NEW S, S \subseteq Requests
    PROVE  IsFiniteSet(S) /\ Cardinality(S) \in Nat
BY SetsAssumption, FS_Subset, FS_CardinalityType

\* The steps of admitBillableClick.
LEMMA AskType ==
    ASSUME HolderInv, NEW r \in Requests, Ask(r) \/ Retry(r)
    PROVE  HolderInv'
<1> DEFINE i == Home[r]
<1> USE DEF Typed
<1>0. /\ TypeOK /\ i \in Instances /\ month \in Months /\ month \in 0..Periods /\ month # 0
      /\ lease[i] \in Leases /\ flight[i] \in Flights /\ attempt[r] \in 0..MaxAttempts
      /\ 1 <= MaxAttempts /\ MaxAttempts \in Nat
  BY SetsAssumption, LeaseAssumption, BoundsAssumption DEF HolderInv, TypeOK, Months
<1>1. UNCHANGED <<month, dbVars, releases, boundVars, historyVars>>
  BY DEF Ask, Retry
<1>2. pc[r] \in {"idle", "resumed"} /\ (pc[r] = "idle" => attempt[r] = 0)
  BY DEF Ask, Retry, HolderInv, RequestInv
<1>3. ReleaseInv' /\ IsFiniteSet(releases')
  <2>1. \A q \in Requests : pc[q] = "returned" => pc'[q] = "returned"
    BY <1>0, <1>2 DEF Ask, Retry, Answer, Take, Acquire, TypeOK
  <2> QED BY <1>1, <2>1 DEF HolderInv, ReleaseInv
\* What the step has to leave of the rest.
<1>4. ASSUME lease' \in [Instances -> Leases], flight' \in [Instances -> Flights],
             pc' \in [Requests -> Places], attempt' \in [Requests -> 0..MaxAttempts],
             unitOf' \in [Requests -> 0..Periods], unlimited' = unlimited,
             RequestInv', FlightInv'
      PROVE  HolderInv'
  BY <1>0, <1>1, <1>3, <1>4 DEF HolderInv, TypeOK, dbVars, boundVars, historyVars
<1>5. CASE \E verdict \in {"unreserved", "rejected"} : Answer(r, verdict)
  <2>1. FlightInv' /\ UNCHANGED <<lease, flight, unlimited, attempt, unitOf>>
    BY <1>5 DEF Answer, instanceVars, HolderInv, FlightInv
  <2>2. pc' \in [Requests -> Places] /\ RequestInv'
    BY <1>0, <1>2, <1>5 DEF Answer, instanceVars, TypeOK, Places, HolderInv, RequestInv
  <2> QED BY <1>0, <1>4, <2>1, <2>2 DEF TypeOK
<1>6. CASE CanTake(i) /\ Take(r, i)
  <2>0. lease[i].left - 1 \in Nat
    <3>1. lease[i].left \in Nat /\ lease[i].left > 0
      BY <1>0, <1>6, LeaseType DEF CanTake
    <3> QED BY <3>1
  <2>1. lease' = [lease EXCEPT ![i] = [lease[i] EXCEPT !.left = lease[i].left - 1]]
    BY <1>0, <1>6, Zenon DEF Take, TypeOK
  <2>2. lease' \in [Instances -> Leases]
    BY <1>0, <2>0, <2>1, LeaseType DEF TypeOK
  <2>3. FlightInv'
    <3>1. lease[i] # NoLease /\ lease[i].key = month
      BY <1>0, <1>6 DEF CanTake, NoLease
    <3>2. lease'[i].key = month /\ flight' = flight /\ \A j \in Instances \ {i} : lease'[j] = lease[j]
      BY <1>0, <1>6, <2>1, <3>1 DEF TypeOK, Leases, Take
    <3> QED BY <1>0, <3>1, <3>2 DEF HolderInv, FlightInv
  <2>4. pc' \in [Requests -> Places] /\ unitOf' \in [Requests -> 0..Periods] /\ RequestInv'
    BY <1>0, <1>2, <1>6 DEF Take, TypeOK, Places, HolderInv, RequestInv
  <2> QED BY <1>0, <1>4, <1>6, <2>2, <2>3, <2>4 DEF Take, TypeOK
<1>7. CASE Acquire(r, i) /\ attempt[r] < MaxAttempts
  <2>1. /\ pc' \in [Requests -> Places] /\ attempt' \in [Requests -> 0..MaxAttempts]
        /\ RequestInv' /\ unlimited' = unlimited /\ unitOf' = unitOf
    BY <1>0, <1>2, <1>7 DEF Acquire, TypeOK, Places, HolderInv, RequestInv
  <2>2. CASE UNCHANGED <<lease, flight>>
    <3>1. FlightInv'
      BY <2>2 DEF HolderInv, FlightInv
    <3> QED BY <1>0, <1>4, <2>1, <2>2, <3>1 DEF TypeOK
  <2>3. CASE /\ flight[i].phase = "none" /\ lease' = Detach(i)
             /\ flight' = [flight EXCEPT ![i] =
                   [NoFlight EXCEPT !.phase = "asked", !.previous = lease[i],
                                    !.demand = Cardinality(Waiters(i) \cup {r})]]
    <3> DEFINE new == [NoFlight EXCEPT !.phase = "asked", !.previous = lease[i],
                                       !.demand = Cardinality(Waiters(i) \cup {r})]
    <3>1. Cardinality(Waiters(i) \cup {r}) \in Nat
      BY FiniteRequests DEF Waiters
    <3>2. new \in Flights /\ new.phase = "asked" /\ new.previous = lease[i] /\ new.granted = 0
             /\ ~new.unlimited
      BY <1>0, <3>1, LeaseType DEF NoFlight, Flights
    <3> HIDE DEF new
    <3>3. /\ lease' = [lease EXCEPT ![i] = NoLease] /\ flight' = [flight EXCEPT ![i] = new]
      BY <2>3 DEF Detach, new
    <3>4. lease' \in [Instances -> Leases] /\ flight' \in [Instances -> Flights]
      BY <1>0, <3>2, <3>3, LeaseType DEF TypeOK
    <3>5. FlightInv'
      <4>1. lease'[i] = NoLease /\ flight'[i] = new /\ NoLease.key = 0 /\ NoLease.left = 0
        BY <1>0, <3>3 DEF TypeOK, NoLease
      <4>2. \A j \in Instances \ {i} : lease'[j] = lease[j] /\ flight'[j] = flight[j]
        BY <1>0, <3>3 DEF TypeOK
      <4> QED BY <1>0, <3>2, <4>1, <4>2 DEF HolderInv, FlightInv
    <3> QED BY <1>0, <1>4, <2>1, <3>4, <3>5 DEF TypeOK
  <2> QED BY <1>7, <2>2, <2>3 DEF Acquire
<1> QED BY <1>0, <1>2, <1>5, <1>6, <1>7 DEF Ask, Retry

Freed(i) == Handed(bucket, flight[i].previous.key, flight[i].previous.left)

\* What a reservation does to the bucket and to the acquisition.
LEMMA ReserveEffect ==
    ASSUME HolderInv, NEW i \in Instances, ReserveLease(i)
    PROVE  /\ flight[i].phase = "asked" /\ lease[i] = NoLease
           /\ UNCHANGED <<month, limit, lease, unlimited, requestVars, releases, boundVars, historyVars>>
           /\ Freed(i) \in [Months -> Nat] /\ flight' \in [Instances -> Flights]
           /\ \A j \in Instances \ {i} : flight'[j] = flight[j]
           /\ flight'[i].previous = flight[i].previous /\ flight'[i].phase = "answered"
           /\ \/ flight'[i].unlimited /\ flight'[i].granted = 0 /\ bucket' = Freed(i)
              \/ /\ ~flight'[i].unlimited /\ flight'[i].key = month
                 /\ flight'[i].granted <= Larger(limit - Freed(i)[month], 0)
                 /\ bucket' = [Freed(i) EXCEPT ![month] = Freed(i)[month] + flight'[i].granted]
<1> DEFINE grant == Grant(limit - Freed(i)[month], flight[i].demand)
<1>0. /\ TypeOK /\ month \in Months /\ month \in 0..Periods /\ flight[i] \in Flights
      /\ limit \in Int
  <2>1. TypeOK
    BY DEF HolderInv, Typed
  <2>2. limit \in Quotas /\ month \in 1..Periods /\ flight[i] \in Flights
    BY <2>1 DEF TypeOK, Months
  <2>3. limit \in Int
    BY <2>2, LeaseAssumption DEF NoQuota
  <2> QED BY <2>1, <2>2, <2>3, BoundsAssumption DEF Months
<1>1. flight[i].previous.left \in Nat /\ flight[i].demand \in Nat
  BY <1>0, LeaseType
<1>2. Freed(i) \in [Months -> Nat]
  BY <1>0, <1>1, HandedType DEF TypeOK, Freed
<1>3. grant \in Nat /\ grant <= Larger(limit - Freed(i)[month], 0)
  <2>1. limit - Freed(i)[month] \in Int
    BY <1>0, <1>2
  <2> QED BY <1>1, <2>1, GrantType
<1>4. /\ flight[i].phase = "asked" /\ lease[i] = NoLease /\ flight[i].granted = 0 /\ ~flight[i].unlimited
      /\ UNCHANGED <<month, limit, lease, unlimited, requestVars, releases, boundVars, historyVars>>
  BY DEF ReserveLease, HolderInv, FlightInv
<1>5. \/ /\ bucket' = Freed(i)
         /\ flight' = [flight EXCEPT ![i] = [flight[i] EXCEPT !.phase = "answered", !.unlimited = TRUE]]
      \/ /\ bucket' = [Freed(i) EXCEPT ![month] = Freed(i)[month] + grant]
         /\ flight' = [flight EXCEPT ![i] = [flight[i] EXCEPT !.phase = "answered", !.granted = grant,
                                                              !.key = month]]
  <2> HIDE DEF grant
  <2>1. flight \in [Instances -> Flights]
    BY <1>0 DEF TypeOK
  <2>2. \/ /\ bucket' = Freed(i)
           /\ flight' = [flight EXCEPT ![i].phase = "answered", ![i].unlimited = TRUE]
        \/ /\ bucket' = [Freed(i) EXCEPT ![month] = @ + grant]
           /\ flight' = [flight EXCEPT ![i].phase = "answered", ![i].granted = grant, ![i].key = month]
    BY Zenon DEF ReserveLease, grant, Freed
  <2> QED BY <1>2, <2>1, <2>2
<1> HIDE DEF grant
<1>6. PICK new : /\ flight' = [flight EXCEPT ![i] = new]
                 /\ \/ /\ new = [flight[i] EXCEPT !.phase = "answered", !.unlimited = TRUE]
                       /\ bucket' = Freed(i)
                    \/ /\ new = [flight[i] EXCEPT !.phase = "answered", !.granted = grant, !.key = month]
                       /\ bucket' = [Freed(i) EXCEPT ![month] = Freed(i)[month] + grant]
  BY <1>5
<1>7. /\ new \in Flights /\ new.previous = flight[i].previous /\ new.phase = "answered"
      /\ \/ new.unlimited /\ new.granted = 0 /\ bucket' = Freed(i)
         \/ /\ ~new.unlimited /\ new.granted = grant /\ new.key = month
            /\ bucket' = [Freed(i) EXCEPT ![month] = Freed(i)[month] + grant]
  BY <1>0, <1>3, <1>4, <1>6 DEF Flights
<1>8. /\ flight' \in [Instances -> Flights] /\ flight'[i] = new
      /\ \A j \in Instances \ {i} : flight'[j] = flight[j]
  BY <1>0, <1>6, <1>7 DEF TypeOK
<1> QED BY <1>2, <1>3, <1>4, <1>7, <1>8

LEMMA ReserveType ==
    ASSUME HolderInv, NEW i \in Instances, ReserveLease(i)
    PROVE  HolderInv'
<1>1. TypeOK /\ month \in Months /\ month \in 0..Periods
  <2>1. TypeOK /\ month \in 1..Periods
    BY DEF HolderInv, Typed, TypeOK, Months
  <2> QED BY <2>1, BoundsAssumption DEF Months
<1>2. /\ flight[i].phase = "asked" /\ lease[i] = NoLease /\ lease' = lease
      /\ \A j \in Instances \ {i} : flight'[j] = flight[j]
      /\ flight'[i].previous = flight[i].previous /\ flight'[i].phase = "answered"
      /\ (flight'[i].unlimited => flight'[i].granted = 0)
  BY ReserveEffect
<1>3. flight' \in [Instances -> Flights] /\ flight'[i].granted \in Nat
  <2>1. flight' \in [Instances -> Flights]
    BY ReserveEffect
  <2> QED BY <2>1, LeaseType
<1>4. bucket' \in [Months -> Nat]
  <2>1. /\ Freed(i) \in [Months -> Nat]
        /\ \/ bucket' = Freed(i)
           \/ bucket' = [Freed(i) EXCEPT ![month] = Freed(i)[month] + flight'[i].granted]
    BY ReserveEffect
  <2> QED BY <1>1, <1>3, <2>1
<1>5. FlightInv'
  BY <1>2 DEF HolderInv, FlightInv
<1>6. UNCHANGED <<month, limit, lease, unlimited, requestVars, releases, boundVars, historyVars>>
  BY ReserveEffect
<1> QED BY <1>1, <1>3, <1>4, <1>5, <1>6 DEF HolderInv, Typed, RequestInv, ReleaseInv, TypeOK,
           requestVars, boundVars, historyVars

\* What waking the requests of an acquisition leaves as it was.
LEMMA WakeKeeps ==
    ASSUME HolderInv, NEW i \in Instances, NEW where \in {"resumed", "failed"}, Wake(i, where),
           UNCHANGED <<attempt, unitOf, releases>>
    PROVE  /\ pc' \in [Requests -> Places] /\ RequestInv' /\ ReleaseInv'
           /\ \A r \in Requests : (pc'[r] = "admitted" <=> pc[r] = "admitted")
<1>0. pc \in [Requests -> Places]
  BY DEF HolderInv, Typed, TypeOK
<1>1. ASSUME NEW r \in Requests
      PROVE  pc'[r] = pc[r] \/ (pc[r] = "waiting" /\ pc'[r] = where)
  <2>1. pc'[r] = IF Home[r] = i /\ pc[r] = "waiting" THEN where ELSE pc[r]
    BY DEF Wake
  <2> QED BY <2>1
<1>2. pc' \in [Requests -> Places]
  BY <1>0 DEF Wake, Places
<1>3. RequestInv'
  BY <1>1 DEF HolderInv, RequestInv
<1>4. ReleaseInv'
  BY <1>1 DEF HolderInv, ReleaseInv
<1> QED BY <1>1, <1>2, <1>3, <1>4

LEMMA SettleType ==
    ASSUME HolderInv, NEW i \in Instances, Settle(i)
    PROVE  HolderInv'
<1>0. /\ TypeOK /\ month \in 0..Periods /\ month # 0 /\ flight[i] \in Flights
      /\ lease[i] = NoLease /\ flight[i].phase = "answered" /\ Wake(i, "resumed")
      /\ UNCHANGED <<month, dbVars, attempt, unitOf, releases, boundVars, historyVars>>
  <2>1. TypeOK /\ FlightInv
    BY DEF HolderInv, Typed
  <2>2. month \in 1..Periods /\ flight[i] \in Flights
    BY <2>1 DEF TypeOK, Months
  <2> QED BY <2>1, <2>2, BoundsAssumption DEF FlightInv, Settle
<1> DEFINE new == [key |-> month, left |-> flight[i].granted, fresh |-> TRUE,
                   exhausted |-> flight[i].granted = 0]
<1>1. new \in Leases /\ new.key # 0
  BY <1>0, LeaseType DEF Leases
<1>2. flight[i].unlimited \in BOOLEAN
  BY <1>0 DEF Flights
<1>3. /\ flight' = [flight EXCEPT ![i] = NoFlight]
      /\ unlimited' = [unlimited EXCEPT ![i] = flight[i].unlimited]
      /\ lease' = lease \/ lease' = [lease EXCEPT ![i] = new]
  BY DEF Settle
<1> HIDE DEF new
<1>4. /\ lease' \in [Instances -> Leases] /\ flight' \in [Instances -> Flights]
      /\ unlimited' \in [Instances -> BOOLEAN]
  BY <1>0, <1>1, <1>2, <1>3, LeaseType DEF TypeOK
<1>5. FlightInv'
  <2>1. /\ flight'[i] = NoFlight /\ (lease'[i] = NoLease \/ lease'[i].key # 0)
        /\ \A j \in Instances \ {i} : lease'[j] = lease[j] /\ flight'[j] = flight[j]
    BY <1>0, <1>1, <1>3 DEF TypeOK
  <2> QED BY <2>1 DEF HolderInv, FlightInv, NoFlight, NoLease
<1>6. pc' \in [Requests -> Places] /\ RequestInv' /\ ReleaseInv'
  BY <1>0, WakeKeeps
<1> QED BY <1>0, <1>4, <1>5, <1>6 DEF HolderInv, Typed, TypeOK, dbVars, boundVars, historyVars

LEMMA ReserveFailsType ==
    ASSUME HolderInv, NEW i \in Instances, ReserveFails(i)
    PROVE  HolderInv'
<1>0. /\ TypeOK /\ flight[i] \in Flights /\ Wake(i, "failed") /\ Fault
      /\ flight' = [flight EXCEPT ![i] = NoFlight]
      /\ lease' = [lease EXCEPT ![i] = Restored(i)]
      /\ UNCHANGED <<month, dbVars, unlimited, attempt, unitOf, releases, ceiling, spent, metered>>
  BY DEF HolderInv, Typed, TypeOK, ReserveFails
<1>1. flight[i].previous \in Leases /\ flight[i].granted \in Nat
  BY <1>0, LeaseType
<1>2. Restored(i) \in Leases /\ Restored(i).key = flight[i].previous.key
      /\ Restored(i).left = flight[i].previous.left
  BY <1>1, LeaseType DEF Restored, Leases
<1>3. lease' \in [Instances -> Leases] /\ flight' \in [Instances -> Flights]
  BY <1>0, <1>2, LeaseType DEF TypeOK
<1>4. stranded' \in [Months -> Nat]
  <2>1. \/ stranded' = stranded
        \/ stranded' = [stranded EXCEPT ![flight[i].key] = @ + flight[i].granted]
    BY DEF ReserveFails
  <2> QED BY <1>0, <1>1, <2>1 DEF TypeOK
<1>5. FlightInv'
  <2>1. /\ lease'[i] = Restored(i) /\ flight'[i] = NoFlight
        /\ \A j \in Instances \ {i} : lease'[j] = lease[j] /\ flight'[j] = flight[j]
    BY <1>0 DEF TypeOK
  <2>2. NoFlight.phase = "none" /\ NoFlight.previous = NoLease /\ NoLease.key = 0 /\ NoLease.left = 0
    BY DEF NoFlight, NoLease
  <2>3. Restored(i).key = 0 => Restored(i).left = 0
    BY <1>2 DEF HolderInv, FlightInv
  <2> QED BY <2>1, <2>2, <2>3 DEF HolderInv, FlightInv
<1>6. pc' \in [Requests -> Places] /\ RequestInv' /\ ReleaseInv'
  BY <1>0, WakeKeeps
<1>7. edits' = edits /\ faults' \in 0..MaxFaults
  BY <1>0, BoundsAssumption DEF Fault, TypeOK
<1> QED BY <1>0, <1>3, <1>4, <1>5, <1>6, <1>7 DEF HolderInv, Typed, TypeOK, dbVars

\* What becomes of an admitted or an unreserved click.
LEMMA ClickType ==
    ASSUME HolderInv, NEW r \in Requests, GoThrough(r) \/ Abandon(r) \/ Meter(r)
    PROVE  HolderInv'
<1>0. /\ TypeOK /\ month \in Months /\ unitOf[r] \in 0..Periods /\ pc[r] \in {"admitted", "unreserved"}
      /\ UNCHANGED <<month, limit, instanceVars, attempt, unitOf, releases, ceiling>>
  BY DEF HolderInv, Typed, TypeOK, GoThrough, Abandon, Meter, dbVars
<1>1. PICK where \in {"recorded", "failed"} : pc' = [pc EXCEPT ![r] = where]
  BY DEF GoThrough, Abandon, Meter
<1>2. pc' \in [Requests -> Places] /\ RequestInv' /\ ReleaseInv'
  <2>1. pc' \in [Requests -> Places]
    BY <1>0, <1>1 DEF TypeOK, Places
  <2>2. RequestInv'
    BY <1>0, <1>1 DEF HolderInv, RequestInv, TypeOK
  <2>3. ReleaseInv'
    BY <1>0, <1>1 DEF HolderInv, ReleaseInv, TypeOK
  <2> QED BY <2>1, <2>2, <2>3
<1>3. bucket' \in [Months -> Nat] /\ spent' \in [Months -> Nat]
      /\ metered' \in [Months -> Nat] /\ stranded' \in [Months -> Nat]
  <2>1. \/ UNCHANGED <<bucket, metered, stranded>> /\ spent' = [spent EXCEPT ![unitOf[r]] = @ + 1]
        \/ UNCHANGED <<bucket, metered, spent>> /\ stranded' = [stranded EXCEPT ![unitOf[r]] = @ + 1]
        \/ /\ bucket' = [bucket EXCEPT ![month] = @ + 1] /\ metered' = [metered EXCEPT ![month] = @ + 1]
           /\ UNCHANGED <<spent, stranded>>
    BY DEF GoThrough, Abandon, Meter, dbVars, historyVars
  <2> QED BY <1>0, <2>1 DEF TypeOK
<1>4. edits' \in 0..MaxEdits /\ faults' \in 0..MaxFaults
  BY <1>0, BoundsAssumption DEF GoThrough, Abandon, Meter, Fault, boundVars, TypeOK
<1>5. FlightInv'
  BY <1>0 DEF instanceVars, HolderInv, FlightInv
<1> QED BY <1>0, <1>2, <1>3, <1>4, <1>5 DEF HolderInv, Typed, TypeOK, instanceVars

LEMMA ReturnType ==
    ASSUME HolderInv, NEW r \in Requests, ReturnAdmittedClick(r)
    PROVE  HolderInv'
<1> DEFINE i == Home[r]
<1>0. /\ TypeOK /\ i \in Instances /\ month \in Months /\ month # 0 /\ lease[i] \in Leases
      /\ pc[r] = "admitted" /\ pc' = [pc EXCEPT ![r] = "returned"]
      /\ UNCHANGED <<month, dbVars, unlimited, flight, attempt, unitOf, boundVars, historyVars>>
  <2>1. TypeOK /\ i \in Instances
    BY SetsAssumption DEF HolderInv, Typed
  <2>2. month \in 1..Periods /\ lease[i] \in Leases
    BY <2>1 DEF TypeOK, Months
  <2> QED BY <2>1, <2>2, BoundsAssumption DEF ReturnAdmittedClick, Months
<1>1. pc' \in [Requests -> Places] /\ RequestInv'
  <2>1. pc' \in [Requests -> Places]
    BY <1>0 DEF TypeOK, Places
  <2> QED BY <1>0, <2>1 DEF HolderInv, RequestInv, TypeOK
<1>2. CASE lease[i].key = month /\ lease' = [lease EXCEPT ![i].left = @ + 1] /\ releases' = releases
  <2>1. lease[i].left + 1 \in Nat
    <3>1. lease[i].left \in Nat
      BY <1>0, LeaseType
    <3> QED BY <3>1
  <2>2. lease' = [lease EXCEPT ![i] = [lease[i] EXCEPT !.left = lease[i].left + 1]]
    BY <1>0, <1>2, Zenon DEF TypeOK
  <2>3. lease' \in [Instances -> Leases]
    BY <1>0, <2>1, <2>2, LeaseType DEF TypeOK
  <2>4. FlightInv'
    <3>1. lease[i] # NoLease
      BY <1>0, <1>2 DEF NoLease
    <3>2. lease'[i].key = month /\ flight' = flight /\ \A j \in Instances \ {i} : lease'[j] = lease[j]
      BY <1>0, <1>2, <2>2 DEF TypeOK, Leases
    <3> QED BY <1>0, <3>1, <3>2 DEF HolderInv, FlightInv
  <2>5. ReleaseInv'
    BY <1>0, <1>2 DEF HolderInv, ReleaseInv, TypeOK
  <2> QED BY <1>0, <1>1, <1>2, <2>3, <2>4, <2>5 DEF HolderInv, Typed, TypeOK, dbVars, boundVars, historyVars
<1>3. CASE lease' = lease /\ releases' = releases \cup {[by |-> r, key |-> month, amount |-> 1]}
  <2>1. IsFiniteSet(releases')
    BY <1>3, FS_AddElement DEF HolderInv, Typed
  <2>2. releases' \subseteq [by : Instances \cup Requests, key : Months, amount : Nat \ {0}]
    BY <1>0, <1>3 DEF TypeOK
  <2>3. ReleaseInv'
    <3>1. \A q \in Requests : pc[q] = "returned" \/ q = r => pc'[q] = "returned"
      BY <1>0 DEF TypeOK
    <3> QED BY <1>3, <3>1 DEF HolderInv, ReleaseInv
  <2>4. FlightInv'
    BY <1>0, <1>3 DEF HolderInv, FlightInv
  <2> QED BY <1>0, <1>1, <1>3, <2>1, <2>2, <2>3, <2>4 DEF HolderInv, Typed, TypeOK, dbVars, boundVars, historyVars
<1> QED BY <1>2, <1>3 DEF ReturnAdmittedClick

LEMMA SweepType ==
    ASSUME HolderInv, NEW i \in Instances, Sweep(i)
    PROVE  HolderInv'
<1>0. /\ TypeOK /\ lease[i] \in Leases /\ lease[i].key \in Months /\ lease[i].left \in Nat
      /\ lease' = [lease EXCEPT ![i] = NoLease]
      /\ UNCHANGED <<month, dbVars, unlimited, flight, requestVars, boundVars, historyVars>>
  <2>1. TypeOK
    BY DEF HolderInv, Typed
  <2>2. lease[i] \in Leases
    BY <2>1 DEF TypeOK
  <2>3. lease[i].key \in 0..Periods /\ lease[i].left \in Nat /\ lease[i].key # 0
    BY <2>2, LeaseType DEF Sweep, Expired
  <2> QED BY <2>1, <2>2, <2>3, BoundsAssumption DEF Sweep, Months
<1>1. lease' \in [Instances -> Leases]
  BY <1>0, LeaseType DEF TypeOK
<1>2. \/ releases' = releases
      \/ /\ lease[i].left # 0
         /\ releases' = releases \cup {[by |-> i, key |-> lease[i].key, amount |-> lease[i].left]}
  BY DEF Sweep
<1>3. IsFiniteSet(releases')
  BY <1>2, FS_AddElement DEF HolderInv, Typed
<1>4. releases' \subseteq [by : Instances \cup Requests, key : Months, amount : Nat \ {0}]
  BY <1>0, <1>2 DEF TypeOK
<1>5. ReleaseInv'
  BY <1>0, <1>2, SetsAssumption DEF HolderInv, ReleaseInv, requestVars
<1>6. FlightInv'
  <2>1. lease'[i] = NoLease /\ flight' = flight /\ \A j \in Instances \ {i} : lease'[j] = lease[j]
    BY <1>0 DEF TypeOK
  <2> QED BY <2>1 DEF HolderInv, FlightInv, NoLease
<1> QED BY <1>0, <1>1, <1>3, <1>4, <1>5, <1>6
        DEF HolderInv, Typed, TypeOK, RequestInv, dbVars, requestVars, boundVars, historyVars

LEMMA ReleaseType ==
    ASSUME HolderInv, NEW x \in releases, ReleaseUsage(x) \/ ReleaseFails(x)
    PROVE  HolderInv'
<1>0. /\ TypeOK /\ x.key \in Months /\ x.amount \in Nat /\ releases' = releases \ {x}
      /\ UNCHANGED <<month, limit, instanceVars, requestVars, ceiling, spent, metered>>
  <2>1. TypeOK /\ releases \subseteq [by : Instances \cup Requests, key : Months, amount : Nat \ {0}]
    BY DEF HolderInv, Typed, TypeOK
  <2> QED BY <2>1 DEF ReleaseUsage, ReleaseFails, dbVars, historyVars
<1>1. bucket' \in [Months -> Nat] /\ stranded' \in [Months -> Nat]
  <2>1. \/ bucket' = Handed(bucket, x.key, x.amount) /\ stranded' = stranded
        \/ bucket' = bucket /\ stranded' = [stranded EXCEPT ![x.key] = @ + x.amount]
    BY DEF ReleaseUsage, ReleaseFails, dbVars, historyVars
  <2>2. bucket \in [Months -> Nat] /\ stranded \in [Months -> Nat]
    BY <1>0 DEF TypeOK
  <2> QED BY <1>0, <2>1, <2>2, HandedType
<1>2. IsFiniteSet(releases')
  BY <1>0, FS_RemoveElement DEF HolderInv, Typed
<1>3. edits' \in 0..MaxEdits /\ faults' \in 0..MaxFaults
  BY <1>0, BoundsAssumption DEF ReleaseUsage, ReleaseFails, Fault, boundVars, TypeOK
<1>4. ReleaseInv' /\ FlightInv' /\ RequestInv'
  BY <1>0 DEF HolderInv, ReleaseInv, FlightInv, RequestInv, instanceVars, requestVars
<1> QED BY <1>0, <1>1, <1>2, <1>3, <1>4 DEF HolderInv, Typed, TypeOK, instanceVars, requestVars

LEMMA ClockType ==
    ASSUME HolderInv,
           \/ \E i \in Instances : LeaseExpires(i) \/ UnlimitedExpires(i)
           \/ MonthEnds
           \/ \E n \in Quotas : SetQuota(n)
    PROVE  HolderInv'
<1>0. TypeOK
  BY DEF HolderInv, Typed
<1>1. ASSUME NEW i \in Instances, LeaseExpires(i)
      PROVE  HolderInv'
  <2>1. lease[i] \in Leases /\ lease' = [lease EXCEPT ![i] = [lease[i] EXCEPT !.fresh = FALSE]]
    <3>1. lease \in [Instances -> Leases] /\ lease' = [lease EXCEPT ![i].fresh = FALSE]
      BY <1>0, <1>1 DEF TypeOK, LeaseExpires
    <3> QED BY <3>1, Zenon
  <2>2. lease' \in [Instances -> Leases]
    BY <1>0, <2>1, LeaseType DEF TypeOK
  <2>3. FlightInv'
    <3>1. /\ lease'[i].key = lease[i].key /\ lease'[i].left = lease[i].left /\ flight' = flight
          /\ \A j \in Instances \ {i} : lease'[j] = lease[j]
      BY <1>0, <1>1, <2>1 DEF TypeOK, Leases, LeaseExpires
    <3>2. lease[i] # NoLease
      BY <1>1 DEF LeaseExpires, NoLease
    <3> QED BY <3>1, <3>2 DEF HolderInv, FlightInv
  <2> QED BY <1>0, <1>1, <2>2, <2>3
          DEF HolderInv, Typed, TypeOK, RequestInv, ReleaseInv, LeaseExpires,
              dbVars, requestVars, boundVars, historyVars
<1>2. ASSUME NEW i \in Instances, UnlimitedExpires(i)
      PROVE  HolderInv'
  BY <1>0, <1>2 DEF HolderInv, Typed, TypeOK, RequestInv, ReleaseInv, FlightInv, UnlimitedExpires,
                    dbVars, requestVars, boundVars, historyVars
<1>3. ASSUME MonthEnds
      PROVE  HolderInv'
  <2>1. month' \in Months
    BY <1>0, <1>3, BoundsAssumption DEF TypeOK, MonthEnds, Months
  <2> QED BY <1>0, <1>3, <2>1 DEF HolderInv, Typed, TypeOK, RequestInv, ReleaseInv, FlightInv, MonthEnds,
                    dbVars, instanceVars, requestVars, boundVars, historyVars
<1>4. ASSUME NEW n \in Quotas, SetQuota(n)
      PROVE  HolderInv'
  <2>1. n \in Nat \cup {NoQuota} /\ edits' \in 0..MaxEdits
    BY <1>0, <1>4, LeaseAssumption, BoundsAssumption DEF TypeOK, SetQuota
  <2>2. ceiling' \in Nat
    BY <1>0, <1>4, <2>1 DEF TypeOK, SetQuota, Larger, NoQuota
  <2> QED BY <1>0, <1>4, <2>1, <2>2 DEF HolderInv, Typed, TypeOK, RequestInv, ReleaseInv, FlightInv,
                    SetQuota, instanceVars, requestVars
<1> QED BY <1>1, <1>2, <1>3, <1>4

LEMMA CrashType ==
    ASSUME HolderInv, NEW i \in Instances, Crash(i)
    PROVE  HolderInv'
<1>0. /\ TypeOK /\ Fault
      /\ lease' = [lease EXCEPT ![i] = NoLease] /\ flight' = [flight EXCEPT ![i] = NoFlight]
      /\ unlimited' = [unlimited EXCEPT ![i] = FALSE]
      /\ UNCHANGED <<month, dbVars, attempt, unitOf, releases, ceiling, spent, metered>>
  BY DEF HolderInv, Typed, Crash
<1>1. /\ lease' \in [Instances -> Leases] /\ flight' \in [Instances -> Flights]
      /\ unlimited' \in [Instances -> BOOLEAN]
  BY <1>0, LeaseType DEF TypeOK
<1>2. FlightInv'
  <2>1. /\ lease'[i] = NoLease /\ flight'[i] = NoFlight
        /\ \A j \in Instances \ {i} : lease'[j] = lease[j] /\ flight'[j] = flight[j]
    BY <1>0 DEF TypeOK
  <2> QED BY <2>1 DEF HolderInv, FlightInv, NoLease, NoFlight
<1>3. ASSUME NEW r \in Requests
      PROVE  pc'[r] = pc[r] \/ (pc[r] \in {"waiting", "resumed", "admitted"} /\ pc'[r] = "failed")
  <2>1. pc'[r] = IF Home[r] = i /\ pc[r] \in {"waiting", "resumed", "admitted"} THEN "failed" ELSE pc[r]
    BY DEF Crash
  <2> QED BY <2>1
<1>4. pc' \in [Requests -> Places] /\ RequestInv' /\ ReleaseInv'
  <2>1. pc' \in [Requests -> Places]
    BY <1>0 DEF Crash, Places, TypeOK
  <2>2. RequestInv'
    BY <1>0, <1>3 DEF HolderInv, RequestInv
  <2>3. ReleaseInv'
    BY <1>0, <1>3 DEF HolderInv, ReleaseInv
  <2> QED BY <2>1, <2>2, <2>3
<1>5. stranded' \in [Months -> Nat]
  <2>1. \A p \in Months : Cardinality(Admitted(i, p)) \in Nat
    BY FiniteRequests DEF Admitted
  <2>2. \A p \in Months : InMemory(i, p) \in Nat /\ stranded[p] \in Nat
    BY <1>0, InMemoryType DEF TypeOK
  <2>3. \A p \in Months : stranded[p] + InMemory(i, p) + Cardinality(Admitted(i, p)) \in Nat
    BY <2>1, <2>2
  <2> QED BY <2>3 DEF Crash
<1>6. edits' \in 0..MaxEdits /\ faults' \in 0..MaxFaults
  BY <1>0, BoundsAssumption DEF Fault, TypeOK
<1> QED BY <1>0, <1>1, <1>2, <1>4, <1>5, <1>6 DEF HolderInv, Typed, TypeOK, dbVars

LEMMA HolderInit == Init => HolderInv
<1> SUFFICES ASSUME Init PROVE HolderInv
  OBVIOUS
<1>1. /\ month \in Months /\ 0 \in 0..Periods /\ 0 \in 0..MaxAttempts /\ 0 \in 0..MaxEdits
      /\ 0 \in 0..MaxFaults /\ limit \in Quotas
  BY LeaseAssumption, BoundsAssumption DEF Init, Months
<1>2. ceiling \in Nat
  <2>1. limit \in Nat \cup {NoQuota} /\ ceiling = Larger(limit, 0)
    BY LeaseAssumption DEF Init
  <2> QED BY <2>1 DEF Larger, NoQuota
<1>3. TypeOK
  BY <1>1, <1>2, LeaseType DEF Init, TypeOK, Places
<1>4. IsFiniteSet(releases)
  BY FS_EmptySet DEF Init
<1> QED BY <1>3, <1>4 DEF Init, HolderInv, Typed, RequestInv, FlightInv, ReleaseInv, NoLease, NoFlight

LEMMA HolderStep == HolderInv /\ [Next]_vars => HolderInv'
<1> SUFFICES ASSUME HolderInv, [Next]_vars PROVE HolderInv'
  OBVIOUS
<1>1. CASE UNCHANGED vars
  BY <1>1 DEF HolderInv, Typed, TypeOK, RequestInv, FlightInv, ReleaseInv, vars, dbVars, instanceVars,
              requestVars, boundVars, historyVars
<1>2. ASSUME NEW r \in Requests,
             Ask(r) \/ Retry(r) \/ GoThrough(r) \/ ReturnAdmittedClick(r) \/ Abandon(r) \/ Meter(r)
      PROVE  HolderInv'
  BY <1>2, AskType, ClickType, ReturnType
<1>3. ASSUME NEW i \in Instances,
             \/ ReserveLease(i) \/ Settle(i) \/ ReserveFails(i)
             \/ Sweep(i) \/ LeaseExpires(i) \/ UnlimitedExpires(i) \/ Crash(i)
      PROVE  HolderInv'
  BY <1>3, ReserveType, SettleType, ReserveFailsType, SweepType, ClockType, CrashType
<1>4. ASSUME NEW x \in releases, ReleaseUsage(x) \/ ReleaseFails(x)
      PROVE  HolderInv'
  BY <1>4, ReleaseType
<1>5. CASE MonthEnds \/ \E n \in Quotas : SetQuota(n)
  BY <1>5, ClockType
<1> QED BY <1>1, <1>2, <1>3, <1>4, <1>5 DEF Next

\* Whatever the faults, the lost replies and the month ends, the amounts in the
\* usage buckets, the leases and the releases are never below zero: every
\* subtraction of click-admission.ts and tenant-usage.ts has its guard.
THEOREM QuantitiesStayTyped == Spec => []TypeOK
<1>1. HolderInv => TypeOK
  BY DEF HolderInv, Typed
<1> QED BY <1>1, HolderInit, HolderStep, PTL DEF Spec

-----------------------------------------------------------------------------
(***************************************************************************)
(* Where the units of a month are.                                         *)
(***************************************************************************)
Units(l, f, p) ==
      (IF l.key = p THEN l.left ELSE 0)
    + (IF f.phase = "asked" /\ f.previous.key = p THEN f.previous.left ELSE 0)
    + (IF f.phase = "answered" /\ f.key = p THEN f.granted ELSE 0)

LEMMA UnitsType ==
    ASSUME NEW l \in Leases, NEW f \in Flights, NEW p
    PROVE  Units(l, f, p) \in Nat
<1>1. l.left \in Nat /\ f.previous.left \in Nat /\ f.granted \in Nat
  BY LeaseType
<1> QED BY <1>1 DEF Units

LEMMA InMemoryIsUnits ==
    ASSUME NEW i, NEW p
    PROVE  /\ InMemory(i, p) = Units(lease[i], flight[i], p)
           /\ InMemory(i, p)' = Units(lease'[i], flight'[i], p)
BY DEF InMemory, Units

LEMMA HeldParts ==
    ASSUME HolderInv, NEW p \in Months
    PROVE  /\ InLeases(p) \in [Instances -> Nat] /\ OnTheWay(p) \in [releases -> Nat]
           /\ IsFiniteSet(WithRequests(p))
           /\ Total(InLeases(p)) \in Nat /\ Total(OnTheWay(p)) \in Nat
           /\ Cardinality(WithRequests(p)) \in Nat
<1>1. TypeOK /\ IsFiniteSet(releases) /\ IsFiniteSet(Instances)
  BY SetsAssumption DEF HolderInv, Typed
<1>2. InLeases(p) \in [Instances -> Nat]
  BY <1>1, InMemoryType DEF InLeases
<1>3. OnTheWay(p) \in [releases -> Nat]
  BY <1>1 DEF OnTheWay, TypeOK
<1>4. Total(InLeases(p)) \in Nat /\ Total(OnTheWay(p)) \in Nat
  <2> HIDE DEF Total
  <2>1. Total(InLeases(p)) \in Nat
    BY <1>1, <1>2, UnitsFinite
  <2>2. Total(OnTheWay(p)) \in Nat
    BY <1>1, <1>3, UnitsFinite
  <2> QED BY <2>1, <2>2
<1>5. IsFiniteSet(WithRequests(p)) /\ Cardinality(WithRequests(p)) \in Nat
  BY FiniteRequests DEF WithRequests
<1> QED BY <1>2, <1>3, <1>4, <1>5

\* One instance's lease and acquisition change.
LEMMA LeaseSum ==
    ASSUME HolderInv, HolderInv', NEW p \in Months, NEW i \in Instances,
           \A j \in Instances \ {i} : lease'[j] = lease[j] /\ flight'[j] = flight[j]
    PROVE  /\ InMemory(i, p) \in Nat /\ InMemory(i, p)' \in Nat
           /\ InMemory(i, p) <= Total(InLeases(p))
           /\ Total(InLeases(p))' = Total(InLeases(p)) - InMemory(i, p) + InMemory(i, p)'
<1> DEFINE f == [j \in Instances |-> Units(lease[j], flight[j], p)]
           g == [j \in Instances |-> Units(lease'[j], flight'[j], p)]
<1>1. TypeOK /\ TypeOK' /\ IsFiniteSet(Instances)
  BY SetsAssumption DEF HolderInv, Typed
<1>2. f \in [Instances -> Nat] /\ g \in [Instances -> Nat]
  BY <1>1, UnitsType DEF TypeOK
<1>3. \A j \in Instances \ {i} : g[j] = f[j]
  OBVIOUS
<1>4. InLeases(p) = f /\ InLeases(p)' = g
  BY InMemoryIsUnits DEF InLeases
<1>5. /\ Total(f) \in Nat /\ Total(g) \in Nat /\ f[i] <= Total(f)
      /\ Total(g) = Total(f) - f[i] + g[i]
  <2> HIDE DEF f, g
  <2> QED BY <1>1, <1>2, <1>3, TotalChange
<1>6. InMemory(i, p) = f[i] /\ InMemory(i, p)' = g[i]
  BY InMemoryIsUnits
<1>7. Total(InLeases(p)) = Total(f) /\ Total(InLeases(p))' = Total(g)
  BY <1>4 DEF Total
<1> HIDE DEF f, g
<1> QED BY <1>2, <1>5, <1>6, <1>7

LEMMA LeaseSame ==
    ASSUME UNCHANGED <<lease, flight>>, NEW p
    PROVE  Total(InLeases(p))' = Total(InLeases(p))
BY DEF Total, InLeases, InMemory

\* A release starts, or ends.
Way(R, p) == [x \in R |-> IF x.key = p THEN x.amount ELSE 0]

LEMMA WayWithout ==
    ASSUME NEW R, IsFiniteSet(R), \A y \in R : y.amount \in Nat, NEW x \in R, NEW p
    PROVE  /\ Total(Way(R, p)) \in Nat /\ Way(R, p)[x] \in Nat
           /\ Way(R, p)[x] = (IF x.key = p THEN x.amount ELSE 0)
           /\ Way(R, p)[x] <= Total(Way(R, p))
           /\ Total(Way(R \ {x}, p)) = Total(Way(R, p)) - Way(R, p)[x]
<1>1. Way(R, p) \in [R -> Nat] /\ Way(R, p)[x] = (IF x.key = p THEN x.amount ELSE 0)
  BY DEF Way
<1>2. Way(R \ {x}, p) = [y \in R \ {x} |-> Way(R, p)[y]]
  BY DEF Way
<1>3. Way(R, p)[x] \in Nat
  BY <1>1
<1>4. ASSUME NEW f \in [R -> Nat], NEW g, g = [y \in R \ {x} |-> f[y]]
      PROVE  Total(f) \in Nat /\ f[x] <= Total(f) /\ Total(g) = Total(f) - f[x]
  BY <1>4, TotalLeave
<1> QED BY <1>1, <1>2, <1>3, <1>4

LEMMA OnTheWayIsWay ==
    ASSUME NEW p
    PROVE  Total(OnTheWay(p)) = Total(Way(releases, p)) /\ Total(OnTheWay(p))' = Total(Way(releases', p))
BY DEF Total, OnTheWay, Way

LEMMA ReleaseSum ==
    ASSUME HolderInv', NEW p \in Months, NEW x,
           x \notin releases, releases' = releases \cup {x}
    PROVE  Total(OnTheWay(p))' = Total(OnTheWay(p)) + (IF x.key = p THEN x.amount ELSE 0)
<1>1. IsFiniteSet(releases') /\ \A y \in releases' : y.amount \in Nat
  BY DEF HolderInv, Typed, TypeOK
<1>2. x \in releases' /\ releases = releases' \ {x}
  OBVIOUS
<1>3. /\ Total(Way(releases', p)) \in Nat /\ Way(releases', p)[x] \in Nat
      /\ Way(releases', p)[x] = (IF x.key = p THEN x.amount ELSE 0)
      /\ Total(Way(releases' \ {x}, p)) = Total(Way(releases', p)) - Way(releases', p)[x]
  BY <1>1, <1>2, WayWithout
<1>4. Total(Way(releases, p)) = Total(Way(releases', p)) - Way(releases', p)[x]
  BY <1>2, <1>3, Zenon
<1> QED BY <1>3, <1>4, OnTheWayIsWay

LEMMA ReleaseEndSum ==
    ASSUME HolderInv, NEW p \in Months, NEW x \in releases, releases' = releases \ {x}
    PROVE  /\ (IF x.key = p THEN x.amount ELSE 0) <= Total(OnTheWay(p))
           /\ Total(OnTheWay(p))' = Total(OnTheWay(p)) - (IF x.key = p THEN x.amount ELSE 0)
<1>1. IsFiniteSet(releases) /\ \A y \in releases : y.amount \in Nat
  BY DEF HolderInv, Typed, TypeOK
<1>2. /\ Way(releases, p)[x] = (IF x.key = p THEN x.amount ELSE 0)
      /\ Way(releases, p)[x] <= Total(Way(releases, p))
      /\ Total(Way(releases \ {x}, p)) = Total(Way(releases, p)) - Way(releases, p)[x]
  BY <1>1, WayWithout
<1> QED BY <1>2, OnTheWayIsWay

LEMMA ReleaseSame ==
    ASSUME UNCHANGED releases, NEW p
    PROVE  Total(OnTheWay(p))' = Total(OnTheWay(p))
BY DEF Total, OnTheWay

\* Admitted requests hold a unit each.
LEMMA RequestsSame ==
    ASSUME NEW p, \A r \in Requests : pc'[r] = "admitted" <=> pc[r] = "admitted",
           UNCHANGED unitOf
    PROVE  Cardinality(WithRequests(p))' = Cardinality(WithRequests(p))
<1>1. WithRequests(p)' = WithRequests(p)
  BY DEF WithRequests
<1> QED BY <1>1

LEMMA RequestLeaves ==
    ASSUME HolderInv, NEW p \in Months, NEW r \in Requests, pc[r] = "admitted",
           pc'[r] # "admitted", \A q \in Requests \ {r} : pc'[q] = pc[q], UNCHANGED unitOf
    PROVE  Cardinality(WithRequests(p))' = Cardinality(WithRequests(p)) - (IF unitOf[r] = p THEN 1 ELSE 0)
<1>1. IsFiniteSet(WithRequests(p)) /\ Cardinality(WithRequests(p)) \in Nat
  BY HeldParts
<1>2. CASE unitOf[r] = p
  <2>1. WithRequests(p)' = WithRequests(p) \ {r} /\ r \in WithRequests(p)
    BY <1>2 DEF WithRequests
  <2>2. Cardinality(WithRequests(p) \ {r}) = Cardinality(WithRequests(p)) - 1
    BY <1>1, <2>1, FS_RemoveElement
  <2> QED BY <1>2, <2>1, <2>2
<1>3. CASE unitOf[r] # p
  <2>1. WithRequests(p)' = WithRequests(p)
    BY <1>3 DEF WithRequests
  <2> QED BY <1>1, <1>3, <2>1
<1> QED BY <1>2, <1>3

LEMMA RequestTakes ==
    ASSUME HolderInv, NEW p \in Months, NEW r \in Requests, pc[r] # "admitted",
           pc' = [pc EXCEPT ![r] = "admitted"], unitOf' = [unitOf EXCEPT ![r] = month]
    PROVE  Cardinality(WithRequests(p))' = Cardinality(WithRequests(p)) + (IF month = p THEN 1 ELSE 0)
<1>1. IsFiniteSet(WithRequests(p)) /\ Cardinality(WithRequests(p)) \in Nat
  BY HeldParts
<1>2. /\ pc'[r] = "admitted" /\ unitOf'[r] = month
      /\ \A q \in Requests \ {r} : pc'[q] = pc[q] /\ unitOf'[q] = unitOf[q]
  BY DEF HolderInv, Typed, TypeOK
<1>3. CASE month = p
  <2>1. WithRequests(p)' = WithRequests(p) \cup {r} /\ r \notin WithRequests(p)
    BY <1>2, <1>3 DEF WithRequests
  <2>2. Cardinality(WithRequests(p) \cup {r}) = Cardinality(WithRequests(p)) + 1
    BY <1>1, <2>1, FS_AddElement
  <2> QED BY <1>3, <2>1, <2>2
<1>4. CASE month # p
  <2>1. WithRequests(p)' = WithRequests(p)
    BY <1>2, <1>4 DEF WithRequests
  <2> QED BY <1>1, <1>4, <2>1
<1> QED BY <1>3, <1>4

\* What an instance holds at each phase of an acquisition.
LEMMA UnitsAt ==
    ASSUME NEW l \in Leases, NEW f \in Flights, NEW p \in Months
    PROVE  /\ f.phase = "none" => Units(l, f, p) = IF l.key = p THEN l.left ELSE 0
           /\ f.phase = "asked" /\ l = NoLease
                => Units(l, f, p) = IF f.previous.key = p THEN f.previous.left ELSE 0
           /\ f.phase = "answered" /\ l = NoLease
                => Units(l, f, p) = IF f.key = p THEN f.granted ELSE 0
<1>1. l.left \in Nat /\ f.previous.left \in Nat /\ f.granted \in Nat
  BY LeaseType
<1>2. p # 0 /\ (l = NoLease => l.key = 0)
  BY DEF Months, NoLease
<1> QED BY <1>1, <1>2 DEF Units

-----------------------------------------------------------------------------
(***************************************************************************)
(* Every unit is in one place (CalmMonthEnd and no lost replies).          *)
(***************************************************************************)
\* An admitted click and an answered acquisition are of the current month.
Current ==
    /\ \A r \in Requests : pc[r] = "admitted" => unitOf[r] = month
    /\ \A i \in Instances :
        flight[i].phase = "answered" /\ ~flight[i].unlimited => flight[i].key = month

Account(p) == bucket[p] = spent[p] + metered[p] + stranded[p] + Held(p)
AccountInv == \A p \in Months : Account(p)

LEMMA Amounts ==
    ASSUME HolderInv, NEW p \in Months
    PROVE  bucket[p] \in Nat /\ spent[p] \in Nat /\ metered[p] \in Nat /\ stranded[p] \in Nat
BY DEF HolderInv, Typed, TypeOK

\* Only the sum of the three holders matters to a step that moves no charge.
LEMMA Moved ==
    ASSUME HolderInv, HolderInv', AccountInv,
           UNCHANGED <<bucket, spent, metered, stranded>>,
           \A p \in Months : Held(p)' = Held(p)
    PROVE  AccountInv'
BY DEF AccountInv, Account

LEMMA AskAccount ==
    ASSUME HolderInv, HolderInv', AccountInv, NEW r \in Requests, Ask(r) \/ Retry(r)
    PROVE  AccountInv'
<1> DEFINE i == Home[r]
<1>0. /\ i \in Instances /\ UNCHANGED <<month, bucket, spent, metered, stranded, releases>>
      /\ pc[r] \in {"idle", "resumed"} /\ month \in Months
  BY SetsAssumption DEF Ask, Retry, dbVars, historyVars, HolderInv, Typed, TypeOK
<1>1. /\ lease \in [Instances -> Leases] /\ flight \in [Instances -> Flights]
      /\ pc \in [Requests -> Places]
  BY DEF HolderInv, Typed, TypeOK
<1>2. lease[i] \in Leases /\ flight[i] \in Flights /\ lease'[i] \in Leases /\ flight'[i] \in Flights
  <2>1. TypeOK'
    BY DEF HolderInv, Typed
  <2> QED BY <1>0, <1>1, <2>1 DEF TypeOK
<1>3. \A p \in Months : Total(OnTheWay(p))' = Total(OnTheWay(p))
  BY <1>0, ReleaseSame
<1>4. CASE \E verdict \in {"unreserved", "rejected"} : Answer(r, verdict)
  <2>1. UNCHANGED <<lease, flight, unitOf>> /\ \A q \in Requests : pc'[q] = "admitted" <=> pc[q] = "admitted"
    BY <1>0, <1>1, <1>4 DEF Answer, instanceVars
  <2>2. \A p \in Months : Held(p)' = Held(p)
    BY <1>3, <2>1, LeaseSame, RequestsSame DEF Held
  <2> QED BY <1>0, <2>2, Moved
<1>5. CASE CanTake(i) /\ Take(r, i)
  <2>1. /\ flight' = flight /\ \A j \in Instances \ {i} : lease'[j] = lease[j]
        /\ lease'[i] = [lease[i] EXCEPT !.left = lease[i].left - 1]
        /\ lease[i].key = month /\ lease[i].left \in Nat /\ lease[i].left > 0
    <3>1. lease[i].left \in Nat
      BY <1>2, LeaseType
    <3> QED BY <1>0, <1>1, <1>5, <3>1 DEF Take, CanTake
  <2>2. flight[i].phase = "none"
    <3>1. lease[i] # NoLease
      BY <2>1 DEF NoLease
    <3> QED BY <1>0, <3>1 DEF HolderInv, FlightInv
  <2>3. lease'[i].key = month /\ lease'[i].left = lease[i].left - 1
    BY <1>2, <2>1 DEF Leases
  <2>4. ASSUME NEW p \in Months PROVE Held(p)' = Held(p)
    <3>1. InMemory(i, p)' = InMemory(i, p) - (IF month = p THEN 1 ELSE 0)
      <4>1. Units(lease[i], flight[i], p) = IF lease[i].key = p THEN lease[i].left ELSE 0
        BY <1>2, <2>2, UnitsAt
      <4>2. flight'[i].phase = "none"
        BY <2>1, <2>2
      <4>3. Units(lease'[i], flight'[i], p) = IF lease'[i].key = p THEN lease'[i].left ELSE 0
        BY <1>2, <4>2, UnitsAt
      <4> QED BY <2>1, <2>3, <4>1, <4>3, InMemoryIsUnits
    <3>2. /\ Total(InLeases(p))' = Total(InLeases(p)) - InMemory(i, p) + InMemory(i, p)'
          /\ InMemory(i, p) \in Nat
      BY <1>0, <2>1, LeaseSum
    <3>3. Cardinality(WithRequests(p))' = Cardinality(WithRequests(p)) + (IF month = p THEN 1 ELSE 0)
      BY <1>0, <1>5, RequestTakes DEF Take
    <3>4. Total(InLeases(p)) \in Nat /\ Total(OnTheWay(p)) \in Nat /\ Cardinality(WithRequests(p)) \in Nat
      BY HeldParts
    <3> QED BY <1>3, <3>1, <3>2, <3>3, <3>4 DEF Held
  <2> QED BY <1>0, <2>4, Moved
<1>6. CASE Acquire(r, i)
  <2>1. unitOf' = unitOf /\ \A q \in Requests : pc'[q] = "admitted" <=> pc[q] = "admitted"
    BY <1>0, <1>1, <1>6 DEF Acquire
  <2>2. CASE UNCHANGED <<lease, flight>>
    <3>1. \A p \in Months : Held(p)' = Held(p)
      BY <1>3, <2>1, <2>2, LeaseSame, RequestsSame DEF Held
    <3> QED BY <1>0, <3>1, Moved
  <2>3. CASE /\ flight[i].phase = "none" /\ lease' = Detach(i)
             /\ flight' = [flight EXCEPT ![i] =
                   [NoFlight EXCEPT !.phase = "asked", !.previous = lease[i],
                                    !.demand = Cardinality(Waiters(i) \cup {r})]]
    <3>1. /\ \A j \in Instances \ {i} : lease'[j] = lease[j] /\ flight'[j] = flight[j]
          /\ lease'[i] = NoLease /\ flight'[i].phase = "asked" /\ flight'[i].previous = lease[i]
      BY <1>0, <1>1, <2>3 DEF Detach, NoFlight
    <3>2. ASSUME NEW p \in Months PROVE Held(p)' = Held(p)
      <4>1. InMemory(i, p)' = InMemory(i, p)
        <5>1. Units(lease[i], flight[i], p) = IF lease[i].key = p THEN lease[i].left ELSE 0
          BY <1>2, <2>3, UnitsAt
        <5>2. Units(lease'[i], flight'[i], p)
                = IF flight'[i].previous.key = p THEN flight'[i].previous.left ELSE 0
          BY <1>2, <3>1, UnitsAt
        <5> QED BY <3>1, <5>1, <5>2, InMemoryIsUnits
      <4>2. /\ Total(InLeases(p))' = Total(InLeases(p)) - InMemory(i, p) + InMemory(i, p)'
            /\ InMemory(i, p) \in Nat /\ Total(InLeases(p)) \in Nat
        BY <1>0, <3>1, LeaseSum, HeldParts
      <4>3. Cardinality(WithRequests(p))' = Cardinality(WithRequests(p))
        BY <2>1, RequestsSame
      <4> QED BY <1>3, <4>1, <4>2, <4>3 DEF Held
    <3> QED BY <1>0, <3>2, Moved
  <2> QED BY <1>6, <2>2, <2>3 DEF Acquire
<1> QED BY <1>4, <1>5, <1>6 DEF Ask, Retry

\* The bucket covers what is held of it, so what is handed back is there.
LEMMA HeldCovered ==
    ASSUME HolderInv, AccountInv, NEW p \in Months
    PROVE  Total(InLeases(p)) <= bucket[p] /\ Total(OnTheWay(p)) <= bucket[p]
<1>1. bucket[p] = spent[p] + metered[p] + stranded[p] + Held(p)
  BY DEF AccountInv, Account
<1>2. /\ bucket[p] \in Nat /\ spent[p] \in Nat /\ metered[p] \in Nat /\ stranded[p] \in Nat
      /\ Total(InLeases(p)) \in Nat /\ Total(OnTheWay(p)) \in Nat /\ Cardinality(WithRequests(p)) \in Nat
  BY Amounts, HeldParts
<1> QED BY <1>1, <1>2 DEF Held

LEMMA HandedTakes ==
    ASSUME NEW b \in [Months -> Nat], NEW key, NEW n \in Nat, n > 0 => key \in Months /\ b[key] >= n,
           NEW p \in Months
    PROVE  Handed(b, key, n)[p] = b[p] - (IF key = p THEN n ELSE 0)
BY DEF Handed

LEMMA ReserveAccount ==
    ASSUME HolderInv, HolderInv', AccountInv, NEW i \in Instances, ReserveLease(i)
    PROVE  AccountInv'
<1> DEFINE previous == flight[i].previous
<1>0. /\ flight[i].phase = "asked" /\ lease[i] = NoLease /\ lease' = lease
      /\ \A j \in Instances \ {i} : flight'[j] = flight[j]
      /\ flight'[i].phase = "answered"
      /\ UNCHANGED <<month, requestVars, releases, historyVars>>
  BY ReserveEffect
<1>1. /\ flight[i] \in Flights /\ flight'[i] \in Flights /\ lease[i] \in Leases /\ lease'[i] \in Leases
      /\ previous \in Leases
  <2>1. TypeOK /\ TypeOK'
    BY DEF HolderInv, Typed
  <2>2. flight[i] \in Flights /\ flight'[i] \in Flights /\ lease[i] \in Leases /\ lease'[i] \in Leases
    BY <2>1 DEF TypeOK
  <2> QED BY <2>2, LeaseType
<1>2. previous.left \in Nat /\ previous.key \in 0..Periods /\ flight'[i].granted \in Nat
  BY <1>1, LeaseType
<1>3. previous.left > 0 => previous.key \in Months /\ bucket[previous.key] >= previous.left
  <2> SUFFICES ASSUME previous.left > 0
               PROVE  previous.key \in Months /\ bucket[previous.key] >= previous.left
    OBVIOUS
  <2>1. previous.key \in Months
    BY <1>2, BoundsAssumption DEF HolderInv, FlightInv, Months
  <2>2. Units(lease[i], flight[i], previous.key) = previous.left
    BY <1>0, <1>1, <2>1, UnitsAt
  <2>3. InMemory(i, previous.key) <= Total(InLeases(previous.key))
    BY <1>0, <2>1, LeaseSum
  <2>4. Total(InLeases(previous.key)) <= bucket[previous.key]
        /\ Total(InLeases(previous.key)) \in Nat /\ bucket[previous.key] \in Nat
    BY <2>1, HeldCovered, HeldParts, Amounts
  <2>5. InMemory(i, previous.key) = previous.left
    BY <2>2, InMemoryIsUnits
  <2> QED BY <1>2, <2>1, <2>3, <2>4, <2>5
<1>4. ASSUME NEW p \in Months
      PROVE  Freed(i)[p] = bucket[p] - (IF previous.key = p THEN previous.left ELSE 0)
  <2>1. bucket \in [Months -> Nat]
    BY DEF HolderInv, Typed, TypeOK
  <2> QED BY <1>2, <1>3, <2>1, HandedTakes DEF Freed
<1>5. SUFFICES ASSUME NEW p \in Months PROVE Account(p)'
  BY DEF AccountInv
<1>6. InMemory(i, p) = IF previous.key = p THEN previous.left ELSE 0
  BY <1>0, <1>1, UnitsAt, InMemoryIsUnits
<1>7. InMemory(i, p)' = IF flight'[i].key = p THEN flight'[i].granted ELSE 0
  <2>1. lease'[i] = NoLease
    BY <1>0
  <2> QED BY <1>0, <1>1, <2>1, UnitsAt, InMemoryIsUnits
<1>8. bucket'[p] = bucket[p] - InMemory(i, p) + InMemory(i, p)'
  <2>1. /\ Freed(i) \in [Months -> Nat] /\ month \in Months
        /\ \/ flight'[i].granted = 0 /\ bucket' = Freed(i)
           \/ /\ flight'[i].key = month
              /\ bucket' = [Freed(i) EXCEPT ![month] = Freed(i)[month] + flight'[i].granted]
    BY ReserveEffect DEF HolderInv, Typed, TypeOK
  <2>2. bucket[p] \in Nat
    BY Amounts
  <2>3. Freed(i)[p] = bucket[p] - InMemory(i, p)
    BY <1>4, <1>6
  <2>4. bucket'[p] = Freed(i)[p] + InMemory(i, p)'
    BY <1>2, <1>7, <2>1
  <2> QED BY <2>3, <2>4
<1>9. /\ Total(InLeases(p))' = Total(InLeases(p)) - InMemory(i, p) + InMemory(i, p)'
      /\ InMemory(i, p) \in Nat /\ InMemory(i, p)' \in Nat
  BY <1>0, LeaseSum
<1>10. /\ Total(OnTheWay(p))' = Total(OnTheWay(p))
       /\ Cardinality(WithRequests(p))' = Cardinality(WithRequests(p))
       /\ spent'[p] = spent[p] /\ metered'[p] = metered[p] /\ stranded'[p] = stranded[p]
  BY <1>0, ReleaseSame, RequestsSame DEF requestVars, historyVars
<1>11. /\ bucket[p] \in Nat /\ spent[p] \in Nat /\ metered[p] \in Nat /\ stranded[p] \in Nat
       /\ Total(InLeases(p)) \in Nat /\ Total(OnTheWay(p)) \in Nat /\ Cardinality(WithRequests(p)) \in Nat
  BY Amounts, HeldParts
<1>12. bucket[p] = spent[p] + metered[p] + stranded[p] + Held(p)
  BY DEF AccountInv, Account
<1> QED BY <1>8, <1>9, <1>10, <1>11, <1>12 DEF Account, Held

\* A step of one instance that moves its units about and charges nothing.
LEMMA InstanceMoves ==
    ASSUME HolderInv, HolderInv', AccountInv, NEW i \in Instances,
           UNCHANGED <<bucket, spent, metered, stranded, releases, unitOf>>,
           \A r \in Requests : pc'[r] = "admitted" <=> pc[r] = "admitted",
           \A j \in Instances \ {i} : lease'[j] = lease[j] /\ flight'[j] = flight[j],
           \A p \in Months : Units(lease'[i], flight'[i], p) = Units(lease[i], flight[i], p)
    PROVE  AccountInv'
<1>1. ASSUME NEW p \in Months PROVE Held(p)' = Held(p)
  <2>1. /\ InMemory(i, p) \in Nat /\ InMemory(i, p)' = InMemory(i, p)
        /\ Total(InLeases(p))' = Total(InLeases(p)) - InMemory(i, p) + InMemory(i, p)'
    BY LeaseSum, InMemoryIsUnits
  <2>2. Total(InLeases(p)) \in Nat
    BY HeldParts
  <2>3. /\ Total(OnTheWay(p))' = Total(OnTheWay(p))
        /\ Cardinality(WithRequests(p))' = Cardinality(WithRequests(p))
    BY ReleaseSame, RequestsSame
  <2> QED BY <2>1, <2>2, <2>3 DEF Held
<1> QED BY <1>1, Moved

LEMMA InstanceTypes ==
    ASSUME HolderInv, NEW i \in Instances
    PROVE  /\ lease \in [Instances -> Leases] /\ flight \in [Instances -> Flights]
           /\ lease[i] \in Leases /\ flight[i] \in Flights
           /\ lease[i].left \in Nat /\ lease[i].key \in 0..Periods
           /\ flight[i].granted \in Nat /\ flight[i].previous \in Leases
<1>1. lease \in [Instances -> Leases] /\ flight \in [Instances -> Flights]
  BY DEF HolderInv, Typed, TypeOK
<1>2. lease[i] \in Leases /\ flight[i] \in Flights
  BY <1>1
<1> QED BY <1>1, <1>2, LeaseType

LEMMA SettleAccount ==
    ASSUME HolderInv, HolderInv', Current, AccountInv, NEW i \in Instances, Settle(i)
    PROVE  AccountInv'
<1>0. /\ lease[i] = NoLease /\ flight[i].phase = "answered" /\ Wake(i, "resumed")
      /\ flight' = [flight EXCEPT ![i] = NoFlight]
      /\ UNCHANGED <<bucket, spent, metered, stranded, attempt, unitOf, releases>>
  BY DEF HolderInv, FlightInv, Settle, dbVars, historyVars
<1>1. \A r \in Requests : pc'[r] = "admitted" <=> pc[r] = "admitted"
  BY <1>0, WakeKeeps
<1> DEFINE new == [key |-> month, left |-> flight[i].granted, fresh |-> TRUE,
                   exhausted |-> flight[i].granted = 0]
<1>2. \/ flight[i].unlimited /\ flight[i].granted = 0 /\ lease' = lease
      \/ ~flight[i].unlimited /\ flight[i].key = month /\ lease' = [lease EXCEPT ![i] = new]
  BY <1>0 DEF Settle, Current, HolderInv, FlightInv
<1>3. /\ flight'[i].phase = "none"
      /\ \A j \in Instances \ {i} : lease'[j] = lease[j] /\ flight'[j] = flight[j]
      /\ \/ flight[i].granted = 0 /\ lease'[i] = NoLease
         \/ flight[i].key = month /\ lease'[i].key = month /\ lease'[i].left = flight[i].granted
  BY <1>0, <1>2, InstanceTypes DEF NoFlight
<1>4. lease[i] \in Leases /\ flight[i] \in Flights /\ lease'[i] \in Leases /\ flight'[i] \in Flights
  <2>1. TypeOK'
    BY DEF HolderInv, Typed
  <2> QED BY <2>1, InstanceTypes DEF TypeOK
<1>5. ASSUME NEW p \in Months
      PROVE  Units(lease'[i], flight'[i], p) = Units(lease[i], flight[i], p)
  <2>1. Units(lease[i], flight[i], p) = IF flight[i].key = p THEN flight[i].granted ELSE 0
    BY <1>0, <1>4, UnitsAt
  <2>2. Units(lease'[i], flight'[i], p) = IF lease'[i].key = p THEN lease'[i].left ELSE 0
    BY <1>3, <1>4, UnitsAt
  <2>3. p # 0 /\ NoLease.key = 0
    BY DEF Months, NoLease
  <2> QED BY <1>3, <2>1, <2>2, <2>3
<1> QED BY <1>0, <1>1, <1>3, <1>5, InstanceMoves

LEMMA ReserveFailsAccount ==
    ASSUME ~LostReplies, HolderInv, HolderInv', AccountInv, NEW i \in Instances, ReserveFails(i)
    PROVE  AccountInv'
<1>0. /\ flight[i].phase = "asked" /\ lease[i] = NoLease /\ Wake(i, "failed")
      /\ flight' = [flight EXCEPT ![i] = NoFlight] /\ lease' = [lease EXCEPT ![i] = Restored(i)]
      /\ UNCHANGED <<bucket, spent, metered, stranded, attempt, unitOf, releases>>
  BY DEF HolderInv, FlightInv, ReserveFails, dbVars
<1>1. \A r \in Requests : pc'[r] = "admitted" <=> pc[r] = "admitted"
  BY <1>0, WakeKeeps
<1>2. Restored(i).key = flight[i].previous.key /\ Restored(i).left = flight[i].previous.left
  BY InstanceTypes DEF Restored, Leases
<1>3. /\ flight'[i].phase = "none" /\ lease'[i] = Restored(i)
      /\ \A j \in Instances \ {i} : lease'[j] = lease[j] /\ flight'[j] = flight[j]
  BY <1>0, InstanceTypes DEF NoFlight
<1>4. lease[i] \in Leases /\ flight[i] \in Flights /\ lease'[i] \in Leases /\ flight'[i] \in Flights
  <2>1. TypeOK'
    BY DEF HolderInv, Typed
  <2> QED BY <2>1, InstanceTypes DEF TypeOK
<1>5. ASSUME NEW p \in Months
      PROVE  Units(lease'[i], flight'[i], p) = Units(lease[i], flight[i], p)
  <2>1. Units(lease[i], flight[i], p) = IF flight[i].previous.key = p THEN flight[i].previous.left ELSE 0
    BY <1>0, <1>4, UnitsAt
  <2>2. Units(lease'[i], flight'[i], p) = IF lease'[i].key = p THEN lease'[i].left ELSE 0
    BY <1>3, <1>4, UnitsAt
  <2> QED BY <1>2, <1>3, <2>1, <2>2
<1> QED BY <1>0, <1>1, <1>3, <1>5, InstanceMoves

LEMMA ExpiryAccount ==
    ASSUME HolderInv, HolderInv', AccountInv, NEW i \in Instances, LeaseExpires(i)
    PROVE  AccountInv'
<1>0. /\ lease' = [lease EXCEPT ![i] = [lease[i] EXCEPT !.fresh = FALSE]] /\ flight' = flight
      /\ UNCHANGED <<bucket, spent, metered, stranded, pc, unitOf, releases>>
  <2>1. lease \in [Instances -> Leases] /\ lease' = [lease EXCEPT ![i].fresh = FALSE]
    BY InstanceTypes DEF LeaseExpires
  <2>2. lease' = [lease EXCEPT ![i] = [lease[i] EXCEPT !.fresh = FALSE]]
    BY <2>1, Zenon
  <2> QED BY <2>2 DEF LeaseExpires, dbVars, requestVars, historyVars
<1>1. /\ lease'[i].key = lease[i].key /\ lease'[i].left = lease[i].left
      /\ \A j \in Instances \ {i} : lease'[j] = lease[j] /\ flight'[j] = flight[j]
  BY <1>0, InstanceTypes DEF Leases
<1>2. \A p \in Months : Units(lease'[i], flight'[i], p) = Units(lease[i], flight[i], p)
  BY <1>0, <1>1 DEF Units
<1> QED BY <1>0, <1>1, <1>2, InstanceMoves

\* Expiry of the unlimited answer, month ends and quota edits move nothing.
LEMMA ClockAccount ==
    ASSUME HolderInv, HolderInv', AccountInv,
           UNCHANGED <<bucket, lease, flight, pc, unitOf, releases, spent, metered, stranded>>
    PROVE  AccountInv'
<1>1. \A p \in Months : Held(p)' = Held(p)
  BY LeaseSame, ReleaseSame, RequestsSame DEF Held
<1> QED BY <1>1, Moved

\* The figures of a month before a step, for the sums below.
LEMMA Before ==
    ASSUME HolderInv, AccountInv, NEW p \in Months
    PROVE  /\ bucket[p] \in Nat /\ spent[p] \in Nat /\ metered[p] \in Nat /\ stranded[p] \in Nat
           /\ Total(InLeases(p)) \in Nat /\ Total(OnTheWay(p)) \in Nat
           /\ Cardinality(WithRequests(p)) \in Nat
           /\ bucket[p] = spent[p] + metered[p] + stranded[p]
                + (Total(InLeases(p)) + Total(OnTheWay(p)) + Cardinality(WithRequests(p)))
BY Amounts, HeldParts DEF AccountInv, Account, Held

LEMMA After ==
    ASSUME NEW p,
           bucket'[p] = spent'[p] + metered'[p] + stranded'[p]
             + (Total(InLeases(p))' + Total(OnTheWay(p))' + Cardinality(WithRequests(p))')
    PROVE  Account(p)'
BY DEF Account, Held

LEMMA ClickAccount ==
    ASSUME HolderInv, AccountInv, NEW r \in Requests,
           GoThrough(r) \/ Abandon(r) \/ Meter(r)
    PROVE  AccountInv'
<1>0. UNCHANGED <<lease, flight, unitOf, releases>> /\ pc \in [Requests -> Places]
      /\ month \in Months
  BY DEF GoThrough, Abandon, Meter, instanceVars, HolderInv, Typed, TypeOK
<1>1. SUFFICES ASSUME NEW p \in Months PROVE Account(p)'
  BY DEF AccountInv
<1>2. Total(InLeases(p))' = Total(InLeases(p)) /\ Total(OnTheWay(p))' = Total(OnTheWay(p))
  BY <1>0, LeaseSame, ReleaseSame
<1>3. CASE GoThrough(r) \/ Abandon(r)
  <2>1. /\ pc[r] = "admitted" /\ pc'[r] # "admitted" /\ \A q \in Requests \ {r} : pc'[q] = pc[q]
    BY <1>0, <1>3 DEF GoThrough, Abandon
  <2>2. Cardinality(WithRequests(p))' = Cardinality(WithRequests(p)) - (IF unitOf[r] = p THEN 1 ELSE 0)
    BY <1>0, <2>1, RequestLeaves
  <2>3. /\ bucket'[p] = bucket[p] /\ metered'[p] = metered[p]
        /\ \/ /\ spent'[p] = spent[p] + (IF unitOf[r] = p THEN 1 ELSE 0)
              /\ stranded'[p] = stranded[p]
           \/ /\ stranded'[p] = stranded[p] + (IF unitOf[r] = p THEN 1 ELSE 0)
              /\ spent'[p] = spent[p]
    <3>1. spent \in [Months -> Nat] /\ stranded \in [Months -> Nat]
      BY DEF HolderInv, Typed, TypeOK
    <3> QED BY <1>3, <3>1 DEF GoThrough, Abandon, dbVars
  <2> QED BY <1>2, <2>2, <2>3, Before, After
<1>4. CASE Meter(r)
  <2>1. \A q \in Requests : pc'[q] = "admitted" <=> pc[q] = "admitted"
    BY <1>0, <1>4 DEF Meter
  <2>2. Cardinality(WithRequests(p))' = Cardinality(WithRequests(p))
    BY <1>0, <2>1, RequestsSame
  <2>3. /\ bucket'[p] = bucket[p] + (IF month = p THEN 1 ELSE 0)
        /\ metered'[p] = metered[p] + (IF month = p THEN 1 ELSE 0)
        /\ spent'[p] = spent[p] /\ stranded'[p] = stranded[p]
    <3>1. bucket \in [Months -> Nat] /\ metered \in [Months -> Nat]
      BY DEF HolderInv, Typed, TypeOK
    <3> QED BY <1>4, <3>1 DEF Meter
  <2> QED BY <1>2, <2>2, <2>3, Before, After
<1> QED BY <1>3, <1>4

LEMMA ReturnAccount ==
    ASSUME HolderInv, HolderInv', Current, AccountInv, NEW r \in Requests, ReturnAdmittedClick(r)
    PROVE  AccountInv'
<1> DEFINE i == Home[r]
<1>0. /\ i \in Instances /\ UNCHANGED <<month, bucket, spent, metered, stranded, flight, unitOf>>
      /\ pc[r] = "admitted" /\ pc'[r] # "admitted" /\ \A q \in Requests \ {r} : pc'[q] = pc[q]
      /\ unitOf[r] = month
  BY SetsAssumption DEF ReturnAdmittedClick, dbVars, historyVars, HolderInv, Typed, TypeOK, Current
<1>1. SUFFICES ASSUME NEW p \in Months PROVE Account(p)'
  BY DEF AccountInv
<1>2. Cardinality(WithRequests(p))' = Cardinality(WithRequests(p)) - (IF month = p THEN 1 ELSE 0)
  BY <1>0, RequestLeaves
<1>3. CASE lease[i].key = month /\ lease' = [lease EXCEPT ![i].left = @ + 1] /\ releases' = releases
  <2>1. lease' = [lease EXCEPT ![i] = [lease[i] EXCEPT !.left = lease[i].left + 1]]
    <3>1. lease \in [Instances -> Leases]
      BY <1>0, InstanceTypes
    <3> QED BY <1>0, <1>3, <3>1, Zenon
  <2>2. /\ lease'[i].key = lease[i].key /\ lease'[i].left = lease[i].left + 1
        /\ \A j \in Instances \ {i} : lease'[j] = lease[j] /\ flight'[j] = flight[j]
    BY <1>0, <2>1, InstanceTypes DEF Leases
  <2>3. InMemory(i, p)' = InMemory(i, p) + (IF month = p THEN 1 ELSE 0)
    <3>1. lease[i] # NoLease
      <4>1. month \in Months /\ 0 \notin Months /\ NoLease.key = 0
        BY DEF NoLease, HolderInv, Typed, TypeOK, Months
      <4> QED BY <1>3, <4>1
    <3>2. flight[i].phase = "none"
      BY <1>0, <3>1 DEF HolderInv, FlightInv
    <3>3. flight'[i].phase = "none"
      BY <1>0, <3>2
    <3>4. lease[i] \in Leases /\ flight[i] \in Flights /\ lease'[i] \in Leases /\ flight'[i] \in Flights
      <4>1. TypeOK'
        BY DEF HolderInv, Typed
      <4> QED BY <1>0, <4>1, InstanceTypes DEF TypeOK
    <3>5. Units(lease[i], flight[i], p) = IF lease[i].key = p THEN lease[i].left ELSE 0
      BY <3>2, <3>4, UnitsAt
    <3>6. Units(lease'[i], flight'[i], p) = IF lease'[i].key = p THEN lease'[i].left ELSE 0
      BY <3>3, <3>4, UnitsAt
    <3> QED BY <1>3, <2>2, <3>5, <3>6, InMemoryIsUnits
  <2>4. /\ Total(InLeases(p))' = Total(InLeases(p)) - InMemory(i, p) + InMemory(i, p)'
        /\ InMemory(i, p) \in Nat
    BY <1>0, <2>2, LeaseSum
  <2>5. Total(OnTheWay(p))' = Total(OnTheWay(p))
    BY <1>3, ReleaseSame
  <2> QED BY <1>0, <1>2, <2>3, <2>4, <2>5, Before, After
<1>4. CASE lease' = lease /\ releases' = releases \cup {[by |-> r, key |-> month, amount |-> 1]}
  <2>1. [by |-> r, key |-> month, amount |-> 1] \notin releases
    BY <1>0 DEF HolderInv, ReleaseInv
  <2>2. Total(OnTheWay(p))' = Total(OnTheWay(p)) + (IF month = p THEN 1 ELSE 0)
    <3> DEFINE x == [by |-> r, key |-> month, amount |-> 1]
    <3>1. x \notin releases /\ releases' = releases \cup {x} /\ x.key = month /\ x.amount = 1
      BY <1>4, <2>1
    <3> HIDE DEF x
    <3>2. Total(OnTheWay(p))' = Total(OnTheWay(p)) + (IF x.key = p THEN x.amount ELSE 0)
      BY <3>1, ReleaseSum
    <3> QED BY <3>1, <3>2
  <2>3. Total(InLeases(p))' = Total(InLeases(p))
    BY <1>0, <1>4, LeaseSame
  <2> QED BY <1>0, <1>2, <2>2, <2>3, Before, After
<1> QED BY <1>3, <1>4 DEF ReturnAdmittedClick

LEMMA SweepAccount ==
    ASSUME HolderInv, HolderInv', AccountInv, NEW i \in Instances, Sweep(i)
    PROVE  AccountInv'
<1> DEFINE x == [by |-> i, key |-> lease[i].key, amount |-> lease[i].left]
<1>0. /\ flight[i].phase = "none" /\ lease' = [lease EXCEPT ![i] = NoLease]
      /\ UNCHANGED <<bucket, spent, metered, stranded, flight, pc, unitOf>>
      /\ x \notin releases
      /\ releases' = IF lease[i].left = 0 THEN releases ELSE releases \cup {x}
  BY DEF Sweep, Expired, dbVars, requestVars, historyVars
<1>1. SUFFICES ASSUME NEW p \in Months PROVE Account(p)'
  BY DEF AccountInv
<1>2. /\ lease'[i] = NoLease
      /\ \A j \in Instances \ {i} : lease'[j] = lease[j] /\ flight'[j] = flight[j]
  BY <1>0, InstanceTypes
<1>3. InMemory(i, p)' = 0 /\ InMemory(i, p) = (IF lease[i].key = p THEN lease[i].left ELSE 0)
  <2>1. Units(lease[i], flight[i], p) = IF lease[i].key = p THEN lease[i].left ELSE 0
    BY <1>0, InstanceTypes, UnitsAt
  <2>2. flight'[i].phase = "none" /\ flight'[i] \in Flights /\ NoLease.key = 0 /\ p # 0
    BY <1>0, InstanceTypes DEF NoLease, Months
  <2>3. Units(NoLease, flight'[i], p) = 0
    BY <2>2, LeaseType, UnitsAt
  <2> QED BY <1>2, <2>1, <2>3, InMemoryIsUnits
<1>4. /\ Total(InLeases(p))' = Total(InLeases(p)) - InMemory(i, p) + InMemory(i, p)'
      /\ InMemory(i, p) \in Nat
  BY <1>2, LeaseSum
<1>5. Total(OnTheWay(p))' = Total(OnTheWay(p)) + InMemory(i, p)
  <2>1. CASE lease[i].left = 0
    <3>1. Total(OnTheWay(p))' = Total(OnTheWay(p)) /\ InMemory(i, p) = 0
      BY <1>0, <1>3, <2>1, ReleaseSame
    <3> QED BY <3>1, Before
  <2>2. CASE lease[i].left # 0
    <3>1. x \notin releases /\ releases' = releases \cup {x} /\ x.key = lease[i].key /\ x.amount = lease[i].left
      BY <1>0, <2>2
    <3> HIDE DEF x
    <3>2. Total(OnTheWay(p))' = Total(OnTheWay(p)) + (IF x.key = p THEN x.amount ELSE 0)
      BY <3>1, ReleaseSum
    <3> QED BY <1>3, <3>1, <3>2
  <2> QED BY <2>1, <2>2
<1>6. Cardinality(WithRequests(p))' = Cardinality(WithRequests(p))
  BY <1>0, RequestsSame
<1> QED BY <1>0, <1>3, <1>4, <1>5, <1>6, Before, After

LEMMA ReleaseAccount ==
    ASSUME HolderInv, AccountInv, NEW x \in releases, ReleaseUsage(x) \/ ReleaseFails(x)
    PROVE  AccountInv'
<1>0. /\ releases' = releases \ {x} /\ UNCHANGED <<lease, flight, pc, unitOf, spent, metered>>
      /\ \/ bucket' = Handed(bucket, x.key, x.amount) /\ stranded' = stranded
         \/ bucket' = bucket /\ stranded' = [stranded EXCEPT ![x.key] = @ + x.amount]
  BY DEF ReleaseUsage, ReleaseFails, dbVars, instanceVars, requestVars, historyVars
<1>1. x.key \in Months /\ x.amount \in Nat /\ bucket \in [Months -> Nat] /\ stranded \in [Months -> Nat]
  <2>1. TypeOK /\ releases \subseteq [by : Instances \cup Requests, key : Months, amount : Nat \ {0}]
    BY DEF HolderInv, Typed, TypeOK
  <2> QED BY <2>1 DEF TypeOK
<1>2. SUFFICES ASSUME NEW p \in Months PROVE Account(p)'
  BY DEF AccountInv
<1>3. Total(OnTheWay(p))' = Total(OnTheWay(p)) - (IF x.key = p THEN x.amount ELSE 0)
  BY <1>0, ReleaseEndSum
<1>4. /\ Total(InLeases(p))' = Total(InLeases(p))
      /\ Cardinality(WithRequests(p))' = Cardinality(WithRequests(p))
  BY <1>0, LeaseSame, RequestsSame
<1>5. bucket[x.key] >= x.amount
  <2>1. x.amount <= Total(OnTheWay(x.key))
    BY <1>0, <1>1, ReleaseEndSum
  <2>2. Total(OnTheWay(x.key)) <= bucket[x.key] /\ Total(OnTheWay(x.key)) \in Nat
    BY <1>1, HeldCovered, HeldParts
  <2> QED BY <1>1, <2>1, <2>2
<1>6. Handed(bucket, x.key, x.amount)[p] = bucket[p] - (IF x.key = p THEN x.amount ELSE 0)
  BY <1>1, <1>5, HandedTakes
<1>7. /\ spent'[p] = spent[p] /\ metered'[p] = metered[p]
      /\ \/ /\ bucket'[p] = bucket[p] - (IF x.key = p THEN x.amount ELSE 0)
            /\ stranded'[p] = stranded[p]
         \/ /\ stranded'[p] = stranded[p] + (IF x.key = p THEN x.amount ELSE 0)
            /\ bucket'[p] = bucket[p]
  BY <1>0, <1>1, <1>6
<1> DEFINE n == IF x.key = p THEN x.amount ELSE 0
<1>8. n \in Nat
  BY <1>1
<1>9. /\ Total(OnTheWay(p))' = Total(OnTheWay(p)) - n
      /\ spent'[p] = spent[p] /\ metered'[p] = metered[p]
      /\ \/ bucket'[p] = bucket[p] - n /\ stranded'[p] = stranded[p]
         \/ stranded'[p] = stranded[p] + n /\ bucket'[p] = bucket[p]
  BY <1>3, <1>7
<1> HIDE DEF n
<1> QED BY <1>4, <1>8, <1>9, Before, After

LEMMA CrashAccount ==
    ASSUME HolderInv, HolderInv', AccountInv, NEW i \in Instances, Crash(i)
    PROVE  AccountInv'
<1>0. /\ lease' = [lease EXCEPT ![i] = NoLease] /\ flight' = [flight EXCEPT ![i] = NoFlight]
      /\ UNCHANGED <<bucket, spent, metered, unitOf, releases>>
  BY DEF Crash, dbVars
<1>1. SUFFICES ASSUME NEW p \in Months PROVE Account(p)'
  BY DEF AccountInv
<1>2. /\ lease'[i] = NoLease /\ flight'[i] = NoFlight
      /\ \A j \in Instances \ {i} : lease'[j] = lease[j] /\ flight'[j] = flight[j]
  BY <1>0, InstanceTypes
<1>3. InMemory(i, p)' = 0
  <2>1. Units(NoLease, NoFlight, p) = 0
    BY DEF Units, NoLease, NoFlight, Months
  <2> QED BY <1>2, <2>1, InMemoryIsUnits
<1>4. /\ Total(InLeases(p))' = Total(InLeases(p)) - InMemory(i, p) + InMemory(i, p)'
      /\ InMemory(i, p) \in Nat
  BY <1>2, LeaseSum
<1>5. Total(OnTheWay(p))' = Total(OnTheWay(p))
  BY <1>0, ReleaseSame
<1>6. /\ Cardinality(WithRequests(p))' = Cardinality(WithRequests(p)) - Cardinality(Admitted(i, p))
      /\ Cardinality(Admitted(i, p)) \in Nat
  <2>1. IsFiniteSet(WithRequests(p)) /\ IsFiniteSet(Admitted(i, p))
    BY HeldParts, FiniteRequests DEF Admitted
  <2>2. WithRequests(p)' = WithRequests(p) \ Admitted(i, p)
    <3>1. \A r \in Requests : pc'[r] = "admitted" <=> pc[r] = "admitted" /\ Home[r] # i
      BY DEF Crash
    <3> QED BY <1>0, <3>1 DEF WithRequests, Admitted
  <2>3. WithRequests(p) \cap Admitted(i, p) = Admitted(i, p)
    BY DEF WithRequests, Admitted
  <2>4. Cardinality(WithRequests(p) \ Admitted(i, p))
          = Cardinality(WithRequests(p)) - Cardinality(Admitted(i, p))
    <3>1. Cardinality(WithRequests(p) \ Admitted(i, p))
            = Cardinality(WithRequests(p)) - Cardinality(WithRequests(p) \cap Admitted(i, p))
      BY <2>1, FS_Difference
    <3> QED BY <2>3, <3>1, Zenon
  <2> QED BY <2>1, <2>2, <2>4, FS_CardinalityType
<1>7. /\ bucket'[p] = bucket[p] /\ spent'[p] = spent[p] /\ metered'[p] = metered[p]
      /\ stranded'[p] = stranded[p] + InMemory(i, p) + Cardinality(Admitted(i, p))
  BY <1>0 DEF Crash
<1> QED BY <1>3, <1>4, <1>5, <1>6, <1>7, Before, After

\* With month ends between the acquisitions, what is in hand is of this month.
LEMMA CurrentStep ==
    ASSUME CalmMonthEnd, HolderInv, Current, [Next]_vars
    PROVE  Current'
<1>0. TypeOK
  BY DEF HolderInv, Typed
<1>1. CASE MonthEnds
  BY <1>1 DEF MonthEnds, Current, instanceVars, requestVars
<1>2. CASE month' = month /\ UNCHANGED <<flight, pc, unitOf>>
  BY <1>2 DEF Current
\* The flights or the requests that change.
<1>3. ASSUME month' = month,
             \A r \in Requests : pc'[r] = "admitted" => unitOf'[r] = month,
             \A i \in Instances : flight'[i].phase = "answered" =>
                 flight'[i] = flight[i] \/ flight'[i].unlimited \/ flight'[i].key = month
      PROVE  Current'
  BY <1>3 DEF Current
<1>4. ASSUME NEW r \in Requests, Ask(r) \/ Retry(r)
      PROVE  Current'
  <2> DEFINE h == Home[r]
  <2>1. month' = month /\ h \in Instances /\ month \in Months
    BY <1>4, <1>0, SetsAssumption DEF Ask, Retry, TypeOK
  <2>2. (\E v \in {"unreserved", "rejected"} : Answer(r, v)) \/ Take(r, h) \/ Acquire(r, h)
    BY <1>4 DEF Ask, Retry
  <2>3. \A q \in Requests : pc'[q] = "admitted" => unitOf'[q] = month
    BY <1>0, <2>1, <2>2 DEF Answer, Take, Acquire, Current, TypeOK
  <2>4. ASSUME NEW i \in Instances, flight'[i].phase = "answered"
        PROVE  flight'[i] = flight[i]
    <3>1. CASE flight' = flight
      BY <3>1
    <3>2. CASE flight' = [flight EXCEPT ![h] =
                   [NoFlight EXCEPT !.phase = "asked", !.previous = lease[h],
                                    !.demand = Cardinality(Waiters(h) \cup {r})]]
      BY <1>0, <2>1, <2>4, <3>2 DEF TypeOK, NoFlight
    <3> QED BY <2>2, <3>1, <3>2 DEF Answer, Take, Acquire, instanceVars
  <2> QED BY <1>3, <2>1, <2>3, <2>4
<1>5. ASSUME NEW r \in Requests, GoThrough(r) \/ ReturnAdmittedClick(r) \/ Abandon(r) \/ Meter(r)
      PROVE  Current'
  <2>1. month' = month /\ flight' = flight /\ unitOf' = unitOf
    BY <1>5 DEF GoThrough, ReturnAdmittedClick, Abandon, Meter, instanceVars
  <2>2. \A q \in Requests : pc'[q] = "admitted" => pc[q] = "admitted"
    BY <1>0, <1>5 DEF GoThrough, ReturnAdmittedClick, Abandon, Meter, TypeOK
  <2> QED BY <2>1, <2>2 DEF Current
<1>6. ASSUME NEW i \in Instances, ReserveLease(i)
      PROVE  Current'
  <2>1. /\ month' = month /\ UNCHANGED requestVars
        /\ \A j \in Instances \ {i} : flight'[j] = flight[j]
        /\ (flight'[i].unlimited \/ flight'[i].key = month)
    BY <1>6, ReserveEffect
  <2> QED BY <1>3, <2>1 DEF requestVars, Current
<1>7. ASSUME NEW i \in Instances, Settle(i) \/ ReserveFails(i)
      PROVE  Current'
  <2>1. /\ month' = month /\ unitOf' = unitOf /\ flight' = [flight EXCEPT ![i] = NoFlight]
        /\ UNCHANGED <<attempt, releases>>
        /\ (Wake(i, "resumed") \/ Wake(i, "failed"))
    BY <1>7 DEF Settle, ReserveFails
  <2>2. \A r \in Requests : pc'[r] = "admitted" <=> pc[r] = "admitted"
    BY <2>1, WakeKeeps
  <2>3. \A j \in Instances : flight'[j].phase = "answered" => flight'[j] = flight[j]
    BY <1>0, <2>1 DEF TypeOK, NoFlight
  <2> QED BY <1>3, <2>1, <2>2, <2>3 DEF Current
<1>8. ASSUME NEW i \in Instances, Crash(i)
      PROVE  Current'
  <2>1. month' = month /\ unitOf' = unitOf /\ flight' = [flight EXCEPT ![i] = NoFlight]
    BY <1>8 DEF Crash
  <2>2. \A r \in Requests : pc'[r] = "admitted" => pc[r] = "admitted"
    BY <1>8 DEF Crash
  <2>3. \A j \in Instances : flight'[j].phase = "answered" => flight'[j] = flight[j]
    BY <1>0, <2>1 DEF TypeOK, NoFlight
  <2> QED BY <1>3, <2>1, <2>2, <2>3 DEF Current
<1>9. ASSUME \/ \E i \in Instances : Sweep(i) \/ LeaseExpires(i) \/ UnlimitedExpires(i)
             \/ \E x \in releases : ReleaseUsage(x) \/ ReleaseFails(x)
             \/ \E n \in Quotas : SetQuota(n)
             \/ UNCHANGED vars
      PROVE  Current'
  BY <1>2, <1>9 DEF Sweep, LeaseExpires, UnlimitedExpires, ReleaseUsage, ReleaseFails, SetQuota,
                    vars, instanceVars, requestVars
<1> QED BY <1>1, <1>4, <1>5, <1>6, <1>7, <1>8, <1>9 DEF Next

LEMMA TotalOfNone ==
    ASSUME NEW S, NEW f, f = [x \in S |-> 0]
    PROVE  Total(f) = 0
<1>1. \A x \in DOMAIN f : {x} \X (1..f[x]) = {}
  OBVIOUS
<1>2. UNION {{x} \X (1..f[x]) : x \in DOMAIN f} = {}
  BY <1>1
<1> QED BY <1>2, FS_EmptySet DEF Total

LEMMA AccountInit == Init => Current /\ AccountInv
<1> SUFFICES ASSUME Init PROVE Current /\ AccountInv
  OBVIOUS
<1>1. Current
  BY DEF Init, Current, NoFlight
<1>2. ASSUME NEW p \in Months PROVE Account(p)
  <2>1. InLeases(p) = [i \in Instances |-> 0]
    <3>1. \A i \in Instances : InMemory(i, p) = 0
      BY DEF Init, InMemory, NoLease, NoFlight, Months
    <3> QED BY <3>1 DEF InLeases
  <2>2. OnTheWay(p) = [x \in {} |-> 0]
    BY DEF OnTheWay, Init
  <2>3. Total(InLeases(p)) = 0 /\ Total(OnTheWay(p)) = 0
    BY <2>1, <2>2, TotalOfNone
  <2>4. Cardinality(WithRequests(p)) = 0
    <3>1. WithRequests(p) = {}
      BY DEF WithRequests, Init
    <3> QED BY <3>1, FS_EmptySet
  <2>5. bucket[p] = 0 /\ spent[p] = 0 /\ metered[p] = 0 /\ stranded[p] = 0
    BY DEF Init
  <2> QED BY <2>3, <2>4, <2>5 DEF Account, Held
<1> QED BY <1>1, <1>2 DEF AccountInv

LEMMA AccountStep ==
    ASSUME ~LostReplies, HolderInv, HolderInv', Current, AccountInv, [Next]_vars
    PROVE  AccountInv'
<1>1. CASE UNCHANGED vars
  BY <1>1, ClockAccount DEF vars, dbVars, instanceVars, requestVars, historyVars
<1>2. ASSUME NEW r \in Requests,
             Ask(r) \/ Retry(r) \/ GoThrough(r) \/ ReturnAdmittedClick(r) \/ Abandon(r) \/ Meter(r)
      PROVE  AccountInv'
  BY <1>2, AskAccount, ClickAccount, ReturnAccount
<1>3. ASSUME NEW i \in Instances,
             ReserveLease(i) \/ Settle(i) \/ ReserveFails(i) \/ Sweep(i) \/ LeaseExpires(i) \/ Crash(i)
      PROVE  AccountInv'
  BY <1>3, ReserveAccount, SettleAccount, ReserveFailsAccount, SweepAccount, ExpiryAccount, CrashAccount
<1>4. ASSUME NEW x \in releases, ReleaseUsage(x) \/ ReleaseFails(x)
      PROVE  AccountInv'
  BY <1>4, ReleaseAccount
<1>5. ASSUME (\E i \in Instances : UnlimitedExpires(i)) \/ MonthEnds \/ \E n \in Quotas : SetQuota(n)
      PROVE  AccountInv'
  <2>1. UNCHANGED <<bucket, lease, flight, pc, unitOf, releases, spent, metered, stranded>>
    BY <1>5 DEF UnlimitedExpires, MonthEnds, SetQuota, dbVars, instanceVars, requestVars, historyVars
  <2> QED BY <2>1, ClockAccount
<1> QED BY <1>1, <1>2, <1>3, <1>4, <1>5 DEF Next

\* click-admission.ts:15 "every unit is reserved in the DB before it is spent":
\* with no month end under an acquisition or an admitted click, and no reply
\* lost after its commit, the bucket of each month is what was spent, charged
\* later or lost plus what leases, acquisitions, releases and requests hold.
\* Renewals, expiries, sweeps, failed releases and crashes keep it so.
THEOREM UnitsAccounted ==
    ASSUME CalmMonthEnd, ~LostReplies
    PROVE  Spec => []EveryUnitAccountedFor
<1> DEFINE IInv == HolderInv /\ Current /\ AccountInv
<1>1. Init => IInv
  BY HolderInit, AccountInit
<1>2. IInv /\ [Next]_vars => IInv'
  BY HolderStep, CurrentStep, AccountStep
<1>3. IInv => EveryUnitAccountedFor
  BY DEF HolderInv, Typed, AccountInv, Account, EveryUnitAccountedFor
<1> QED BY <1>1, <1>2, <1>3, PTL DEF Spec

-----------------------------------------------------------------------------
(***************************************************************************)
(* The bucket against the limit: it outgrows the largest limit so far only *)
(* by the clicks that were charged without a reservation.                  *)
(***************************************************************************)
CeilingInv == limit <= ceiling /\ \A p \in Months : bucket[p] <= ceiling + metered[p]

LEMMA HandedBelow ==
    ASSUME NEW b \in [Months -> Nat], NEW key, NEW n \in Nat, NEW p \in Months
    PROVE  Handed(b, key, n)[p] <= b[p] /\ Handed(b, key, n)[p] \in Nat
<1>1. Handed(b, key, n) \in [Months -> Nat]
  BY HandedType
<1>2. b[p] \in Nat /\ Handed(b, key, n)[p] \in Nat
  BY <1>1
<1>3. Handed(b, key, n)[p] = b[p] \/ Handed(b, key, n)[p] = b[p] - n
  BY DEF Handed
<1> QED BY <1>2, <1>3

LEMMA CeilingInit == Init => CeilingInv
<1> SUFFICES ASSUME Init PROVE CeilingInv
  OBVIOUS
<1>1. limit \in Nat \cup {NoQuota} /\ ceiling = Larger(limit, 0)
  BY LeaseAssumption DEF Init
<1>2. limit <= ceiling /\ ceiling \in Nat
  BY <1>1 DEF Larger, NoQuota
<1> QED BY <1>2 DEF Init, CeilingInv

LEMMA CeilingStep ==
    ASSUME HolderInv, HolderInv', CeilingInv, [Next]_vars
    PROVE  CeilingInv'
<1>0. /\ limit \in Int /\ ceiling \in Nat /\ bucket \in [Months -> Nat] /\ metered \in [Months -> Nat]
      /\ month \in Months
  <2>1. TypeOK
    BY DEF HolderInv, Typed
  <2>2. limit \in Quotas
    BY <2>1 DEF TypeOK
  <2> QED BY <2>1, <2>2, LeaseAssumption DEF TypeOK, NoQuota
<1>1. ASSUME NEW i \in Instances, ReserveLease(i) PROVE CeilingInv'
  <2>1. /\ UNCHANGED <<limit, ceiling, metered>> /\ Freed(i) \in [Months -> Nat]
        /\ \/ bucket' = Freed(i)
           \/ /\ flight'[i].granted <= Larger(limit - Freed(i)[month], 0)
              /\ bucket' = [Freed(i) EXCEPT ![month] = Freed(i)[month] + flight'[i].granted]
    BY <1>1, ReserveEffect DEF historyVars
  <2>2. flight'[i].granted \in Nat
    <3>1. flight'[i] \in Flights
      BY <1>1, ReserveEffect
    <3> QED BY <3>1, LeaseType
  <2>3. flight[i].previous.left \in Nat
    BY InstanceTypes, LeaseType
  <2>4. ASSUME NEW p \in Months PROVE bucket'[p] <= ceiling + metered[p]
    <3>1. Freed(i)[p] <= bucket[p] /\ bucket[p] <= ceiling + metered[p]
      BY <1>0, <2>3, HandedBelow DEF Freed, CeilingInv
    <3>2. Freed(i)[p] \in Nat /\ metered[p] \in Nat /\ bucket[p] \in Nat
      BY <1>0, <2>1
    <3>3. CASE bucket'[p] = Freed(i)[p]
      BY <1>0, <3>1, <3>2, <3>3
    <3>4. CASE /\ p = month /\ bucket'[p] = Freed(i)[p] + flight'[i].granted
               /\ flight'[i].granted <= Larger(limit - Freed(i)[p], 0)
      <4>1. flight'[i].granted <= limit - Freed(i)[p] \/ flight'[i].granted <= 0
        BY <1>0, <3>2, <3>4 DEF Larger
      <4> QED BY <1>0, <2>2, <3>1, <3>2, <3>4, <4>1 DEF CeilingInv
    <3> QED BY <1>0, <2>1, <3>3, <3>4
  <2> QED BY <2>1, <2>4 DEF CeilingInv
<1>2. ASSUME NEW x \in releases, ReleaseUsage(x) PROVE CeilingInv'
  <2>1. x.amount \in Nat
    BY DEF HolderInv, Typed, TypeOK
  <2>2. \A p \in Months : bucket'[p] <= bucket[p] /\ bucket'[p] \in Nat
    BY <1>0, <1>2, <2>1, HandedBelow DEF ReleaseUsage
  <2>3. UNCHANGED <<limit, ceiling, metered>>
    BY <1>2 DEF ReleaseUsage, historyVars
  <2>4. ASSUME NEW p \in Months PROVE bucket'[p] <= ceiling + metered[p]
    <3>1. bucket[p] <= ceiling + metered[p] /\ bucket[p] \in Nat /\ metered[p] \in Nat
      BY <1>0 DEF CeilingInv
    <3> QED BY <1>0, <2>2, <3>1
  <2> QED BY <2>3, <2>4 DEF CeilingInv
<1>3. ASSUME NEW r \in Requests, Meter(r) PROVE CeilingInv'
  <2>1. ASSUME NEW p \in Months PROVE bucket'[p] <= ceiling + metered'[p]
    <3>1. bucket[p] <= ceiling + metered[p] /\ bucket[p] \in Nat /\ metered[p] \in Nat
      BY <1>0 DEF CeilingInv
    <3>2. \/ bucket'[p] = bucket[p] /\ metered'[p] = metered[p]
          \/ bucket'[p] = bucket[p] + 1 /\ metered'[p] = metered[p] + 1
      BY <1>0, <1>3 DEF Meter
    <3> QED BY <1>0, <3>1, <3>2
  <2> QED BY <1>3, <2>1 DEF Meter, CeilingInv
<1>4. ASSUME NEW n \in Quotas, SetQuota(n) PROVE CeilingInv'
  <2>1. n \in Int
    BY LeaseAssumption DEF NoQuota
  <2>2. limit' = n /\ ceiling' = Larger(ceiling, n) /\ UNCHANGED <<bucket, metered>>
    BY <1>4 DEF SetQuota
  <2>3. limit' <= ceiling' /\ ceiling <= ceiling' /\ ceiling' \in Int
    BY <1>0, <2>1, <2>2 DEF Larger
  <2>4. ASSUME NEW p \in Months PROVE bucket'[p] <= ceiling' + metered'[p]
    <3>1. bucket[p] <= ceiling + metered[p] /\ bucket[p] \in Nat /\ metered[p] \in Nat
      BY <1>0 DEF CeilingInv
    <3> QED BY <1>0, <2>2, <2>3, <3>1
  <2> QED BY <2>3, <2>4 DEF CeilingInv
<1>5. CASE UNCHANGED <<limit, bucket, ceiling, metered>>
  BY <1>5 DEF CeilingInv
<1>6. \/ \E i \in Instances : ReserveLease(i)
      \/ \E x \in releases : ReleaseUsage(x)
      \/ \E r \in Requests : Meter(r)
      \/ \E n \in Quotas : SetQuota(n)
      \/ UNCHANGED <<limit, bucket, ceiling, metered>>
  BY DEF Next, vars, Ask, Retry, GoThrough, ReturnAdmittedClick, Abandon, Settle, ReserveFails, Sweep,
         LeaseExpires, UnlimitedExpires, Crash, ReleaseFails, MonthEnds, dbVars, historyVars
<1> QED BY <1>1, <1>2, <1>3, <1>4, <1>5, <1>6

\* click-admission.ts:15 "Never over-admits": whatever the renewals, retries,
\* expiries and crashes, the clicks that went through on the quota of a month
\* are at most the largest limit that was in force.
THEOREM QuotaKept ==
    ASSUME CalmMonthEnd, ~LostReplies
    PROVE  Spec => []NeverOverAdmits
<1> DEFINE IInv == HolderInv /\ Current /\ AccountInv /\ CeilingInv
<1>1. Init => IInv
  BY HolderInit, AccountInit, CeilingInit
<1>2. IInv /\ [Next]_vars => IInv'
  BY HolderStep, CurrentStep, AccountStep, CeilingStep
<1>3. IInv => NeverOverAdmits
  <2> SUFFICES ASSUME IInv, NEW p \in Months PROVE spent[p] <= ceiling
    BY DEF NeverOverAdmits
  <2>1. bucket[p] <= ceiling + metered[p] /\ ceiling \in Nat
    BY DEF CeilingInv, HolderInv, Typed, TypeOK
  <2> QED BY <2>1, Before
<1> QED BY <1>1, <1>2, <1>3, PTL DEF Spec

-----------------------------------------------------------------------------
(***************************************************************************)
(* Admission implements the quota: the clicks behind the counts.           *)
(***************************************************************************)
Ended(where, p) == {r \in Requests : pc[r] = where /\ unitOf[r] = p}

CountInv == \A p \in Months :
    /\ Cardinality(Ended("recorded", p)) = spent[p]
    /\ Cardinality(Ended("failed", p)) <= stranded[p]

\* A request that held no unit and takes none leaves the counts alone.
LEMMA CountSame ==
    ASSUME CountInv, HolderInv, HolderInv', spent' = spent,
           \A p \in Months : stranded'[p] >= stranded[p],
           \A r \in Requests, p \in Months, where \in {"recorded", "failed"} :
               pc'[r] = where /\ unitOf'[r] = p <=> pc[r] = where /\ unitOf[r] = p
    PROVE  CountInv'
<1> SUFFICES ASSUME NEW p \in Months
             PROVE  /\ Cardinality(Ended("recorded", p))' = spent'[p]
                    /\ Cardinality(Ended("failed", p))' <= stranded'[p]
  BY DEF CountInv
<1>1. Ended("recorded", p)' = Ended("recorded", p) /\ Ended("failed", p)' = Ended("failed", p)
  BY DEF Ended
<1>2. stranded[p] \in Nat /\ stranded'[p] \in Nat /\ Cardinality(Ended("failed", p)) \in Nat
  <2>1. TypeOK /\ TypeOK'
    BY DEF HolderInv, Typed
  <2>2. Cardinality(Ended("failed", p)) \in Nat
    BY FiniteRequests DEF Ended
  <2> QED BY <2>1, <2>2 DEF TypeOK
<1>3. Cardinality(Ended("recorded", p)) = spent[p] /\ Cardinality(Ended("failed", p)) <= stranded[p]
  BY DEF CountInv
<1>4. stranded'[p] >= stranded[p]
  OBVIOUS
<1> QED BY <1>1, <1>2, <1>3, <1>4

\* An admitted request ends with its unit.
LEMMA EndedGrows ==
    ASSUME HolderInv, NEW r \in Requests, NEW where, pc' = [pc EXCEPT ![r] = where],
           pc[r] = "admitted", unitOf' = unitOf, NEW w \in {"recorded", "failed"}, NEW p \in Months
    PROVE  Cardinality(Ended(w, p))'
             = Cardinality(Ended(w, p)) + (IF where = w /\ unitOf[r] = p THEN 1 ELSE 0)
<1>0. pc'[r] = where /\ \A q \in Requests \ {r} : pc'[q] = pc[q]
  BY DEF HolderInv, Typed, TypeOK
<1>1. IsFiniteSet(Ended(w, p)) /\ Cardinality(Ended(w, p)) \in Nat
  BY FiniteRequests DEF Ended
<1>2. CASE where = w /\ unitOf[r] = p
  <2>1. Ended(w, p)' = Ended(w, p) \cup {r} /\ r \notin Ended(w, p)
    BY <1>0, <1>2 DEF Ended
  <2>2. Cardinality(Ended(w, p) \cup {r}) = Cardinality(Ended(w, p)) + 1
    BY <1>1, <2>1, FS_AddElement
  <2> QED BY <1>2, <2>1, <2>2
<1>3. CASE ~(where = w /\ unitOf[r] = p)
  <2>1. Ended(w, p)' = Ended(w, p)
    BY <1>0, <1>3 DEF Ended
  <2> QED BY <1>1, <1>3, <2>1
<1> QED BY <1>2, <1>3

LEMMA CountCrash ==
    ASSUME CountInv, HolderInv, NEW i \in Instances, Crash(i)
    PROVE  CountInv'
<1> SUFFICES ASSUME NEW p \in Months
             PROVE  /\ Cardinality(Ended("recorded", p))' = spent'[p]
                    /\ Cardinality(Ended("failed", p))' <= stranded'[p]
  BY DEF CountInv
<1>0. unitOf' = unitOf /\ spent' = spent
      /\ stranded'[p] = stranded[p] + InMemory(i, p) + Cardinality(Admitted(i, p))
  BY DEF Crash
<1>1. \A r \in Requests : pc[r] \in {"waiting", "resumed"} => unitOf[r] # p
  BY DEF HolderInv, RequestInv, Months
<1>2. Ended("recorded", p)' = Ended("recorded", p)
      /\ Ended("failed", p)' = Ended("failed", p) \cup Admitted(i, p)
  <2>1. \A r \in Requests : pc'[r] = IF Home[r] = i /\ pc[r] \in {"waiting", "resumed", "admitted"}
                                     THEN "failed" ELSE pc[r]
    BY DEF Crash
  <2> QED BY <1>0, <1>1, <2>1 DEF Ended, Admitted
<1>3. /\ IsFiniteSet(Ended("failed", p)) /\ Cardinality(Ended("failed", p)) \in Nat
      /\ IsFiniteSet(Admitted(i, p)) /\ Cardinality(Admitted(i, p)) \in Nat
  BY FiniteRequests DEF Ended, Admitted
<1>4. Ended("failed", p) \cap Admitted(i, p) = {}
  BY DEF Ended, Admitted
<1>5. Cardinality(Ended("failed", p) \cup Admitted(i, p))
        = Cardinality(Ended("failed", p)) + Cardinality(Admitted(i, p))
  <2>1. Cardinality(Ended("failed", p) \cap Admitted(i, p)) = 0
    BY <1>4, FS_EmptySet
  <2>2. Cardinality(Ended("failed", p) \cup Admitted(i, p))
          = Cardinality(Ended("failed", p)) + Cardinality(Admitted(i, p))
            - Cardinality(Ended("failed", p) \cap Admitted(i, p))
    BY <1>3, FS_Union
  <2> QED BY <1>3, <2>1, <2>2
<1>6. InMemory(i, p) \in Nat /\ stranded[p] \in Nat
  BY InMemoryType, Amounts DEF HolderInv, Typed
<1>7. Cardinality(Ended("recorded", p)) = spent[p] /\ Cardinality(Ended("failed", p)) <= stranded[p]
  BY DEF CountInv
<1>8. /\ Cardinality(Ended("recorded", p))' = Cardinality(Ended("recorded", p))
      /\ Cardinality(Ended("failed", p))' = Cardinality(Ended("failed", p)) + Cardinality(Admitted(i, p))
  BY <1>2, <1>5
<1> QED BY <1>0, <1>3, <1>6, <1>7, <1>8

LEMMA CountStep ==
    ASSUME ~LostReplies, CountInv, HolderInv, HolderInv', [Next]_vars
    PROVE  CountInv'
<1>0. TypeOK /\ 0 \notin Months
  BY DEF HolderInv, Typed, Months
<1>1. \A p \in Months : stranded[p] \in Nat
  BY Amounts
<1>2. ASSUME NEW r \in Requests, Ask(r) \/ Retry(r) \/ Meter(r) PROVE CountInv'
  <2>1. /\ pc[r] \in {"idle", "resumed", "unreserved"} /\ unitOf[r] = 0
        /\ spent' = spent /\ stranded' = stranded
    BY <1>2 DEF Ask, Retry, Meter, HolderInv, RequestInv, historyVars
  <2>2. \/ unitOf' = unitOf /\ \E where \in Places : pc' = [pc EXCEPT ![r] = where]
        \/ pc' = [pc EXCEPT ![r] = "admitted"] /\ unitOf' = [unitOf EXCEPT ![r] = month]
    BY <1>2 DEF Ask, Retry, Meter, Answer, Take, Acquire, Places
  <2>3. \A q \in Requests, p \in Months, where \in {"recorded", "failed"} :
            pc'[q] = where /\ unitOf'[q] = p <=> pc[q] = where /\ unitOf[q] = p
    BY <1>0, <2>1, <2>2 DEF TypeOK
  <2> QED BY <1>1, <2>1, <2>3, CountSame
<1>3. ASSUME NEW r \in Requests, ReturnAdmittedClick(r) PROVE CountInv'
  <2>1. /\ pc[r] = "admitted" /\ pc' = [pc EXCEPT ![r] = "returned"] /\ unitOf' = unitOf
        /\ spent' = spent /\ stranded' = stranded
    BY <1>3 DEF ReturnAdmittedClick, historyVars
  <2>2. \A q \in Requests, p \in Months, where \in {"recorded", "failed"} :
            pc'[q] = where /\ unitOf'[q] = p <=> pc[q] = where /\ unitOf[q] = p
    BY <1>0, <2>1 DEF TypeOK
  <2> QED BY <1>1, <2>1, <2>2, CountSame
<1>4. ASSUME NEW r \in Requests, GoThrough(r) \/ Abandon(r) PROVE CountInv'
  <2> SUFFICES ASSUME NEW p \in Months
               PROVE  /\ Cardinality(Ended("recorded", p))' = spent'[p]
                      /\ Cardinality(Ended("failed", p))' <= stranded'[p]
    BY DEF CountInv
  <2>1. /\ pc[r] = "admitted" /\ unitOf' = unitOf
        /\ \/ /\ pc' = [pc EXCEPT ![r] = "recorded"]
              /\ spent'[p] = spent[p] + (IF unitOf[r] = p THEN 1 ELSE 0) /\ stranded'[p] = stranded[p]
           \/ /\ pc' = [pc EXCEPT ![r] = "failed"]
              /\ stranded'[p] = stranded[p] + (IF unitOf[r] = p THEN 1 ELSE 0) /\ spent'[p] = spent[p]
    <3>1. spent \in [Months -> Nat] /\ stranded \in [Months -> Nat]
      BY <1>0 DEF TypeOK
    <3> QED BY <1>4, <3>1 DEF GoThrough, Abandon
  <2>2. PICK where \in {"recorded", "failed"} :
            /\ pc' = [pc EXCEPT ![r] = where]
            /\ spent'[p] = spent[p] + (IF where = "recorded" /\ unitOf[r] = p THEN 1 ELSE 0)
            /\ stranded'[p] = stranded[p] + (IF where = "failed" /\ unitOf[r] = p THEN 1 ELSE 0)
    <3>1. spent[p] \in Nat /\ stranded[p] \in Nat
      BY Amounts
    <3> QED BY <2>1, <3>1
  <2>3. /\ Cardinality(Ended("recorded", p))'
             = Cardinality(Ended("recorded", p)) + (IF where = "recorded" /\ unitOf[r] = p THEN 1 ELSE 0)
        /\ Cardinality(Ended("failed", p))'
             = Cardinality(Ended("failed", p)) + (IF where = "failed" /\ unitOf[r] = p THEN 1 ELSE 0)
    BY <2>1, <2>2, EndedGrows
  <2>4. Cardinality(Ended("recorded", p)) = spent[p] /\ Cardinality(Ended("failed", p)) <= stranded[p]
    BY DEF CountInv
  <2>5. Cardinality(Ended("failed", p)) \in Nat
    BY FiniteRequests DEF Ended
  <2> QED BY <1>1, <2>2, <2>3, <2>4, <2>5
<1>5. ASSUME NEW i \in Instances, Settle(i) \/ ReserveFails(i) PROVE CountInv'
  <2>1. /\ unitOf' = unitOf /\ spent' = spent /\ stranded' = stranded
        /\ (Wake(i, "resumed") \/ Wake(i, "failed"))
    BY <1>5 DEF Settle, ReserveFails, historyVars
  <2>2. \A q \in Requests : pc'[q] = pc[q] \/ (unitOf[q] = 0 /\ unitOf'[q] = 0)
    BY <2>1 DEF Wake, HolderInv, RequestInv
  <2>3. \A q \in Requests, p \in Months, where \in {"recorded", "failed"} :
            pc'[q] = where /\ unitOf'[q] = p <=> pc[q] = where /\ unitOf[q] = p
    BY <1>0, <2>1, <2>2
  <2> QED BY <1>1, <2>1, <2>3, CountSame
<1>6. ASSUME NEW x \in releases, ReleaseFails(x) PROVE CountInv'
  <2>1. x.key \in Months /\ x.amount \in Nat
    <3>1. releases \subseteq [by : Instances \cup Requests, key : Months, amount : Nat \ {0}]
      BY <1>0 DEF TypeOK
    <3> QED BY <3>1
  <2>2. \A p \in Months : stranded'[p] >= stranded[p]
    BY <1>0, <1>6, <2>1 DEF ReleaseFails, TypeOK
  <2>3. pc' = pc /\ unitOf' = unitOf /\ spent' = spent
    BY <1>6 DEF ReleaseFails, requestVars
  <2> QED BY <2>2, <2>3, CountSame
<1>7. CASE UNCHANGED <<pc, unitOf, spent, stranded>>
  BY <1>1, <1>7, CountSame
<1>8. \/ \E r \in Requests : Ask(r) \/ Retry(r) \/ Meter(r) \/ ReturnAdmittedClick(r)
                             \/ GoThrough(r) \/ Abandon(r)
      \/ \E i \in Instances : Settle(i) \/ ReserveFails(i) \/ Crash(i)
      \/ \E x \in releases : ReleaseFails(x)
      \/ UNCHANGED <<pc, unitOf, spent, stranded>>
  BY DEF Next, vars, ReserveLease, Sweep, LeaseExpires, UnlimitedExpires, ReleaseUsage, MonthEnds, SetQuota,
         requestVars, historyVars
<1> QED BY <1>2, <1>3, <1>4, <1>5, <1>6, <1>7, <1>8, CountCrash

\* The unit of a request, by the place it is at.
LEMMA UnitStateIs ==
    ASSUME HolderInv, NEW r \in Requests
    PROVE  /\ unitOf[r] = 0 => UnitState[r] = "none"
           /\ unitOf[r] # 0 => pc[r] \in {"admitted", "recorded", "returned", "failed"}
           /\ unitOf[r] # 0 /\ pc[r] = "admitted" => UnitState[r] = "held"
           /\ unitOf[r] # 0 /\ pc[r] = "recorded" => UnitState[r] = "spent"
           /\ unitOf[r] # 0 /\ pc[r] = "returned" => UnitState[r] = "back"
           /\ unitOf[r] # 0 /\ pc[r] = "failed" => UnitState[r] = "lost"
<1>1. /\ pc[r] \in Places
      /\ pc[r] \in {"idle", "waiting", "resumed", "unreserved", "rejected"} => unitOf[r] = 0
  BY DEF HolderInv, Typed, TypeOK, RequestInv
<1> QED BY <1>1 DEF Places, UnitState

\* A unit in a lease is one nobody else counts, so there is room for it.
LEMMA Room ==
    ASSUME HolderInv, AccountInv, CeilingInv, CountInv, NEW i \in Instances, CanTake(i)
    PROVE  Cardinality(Quota!Out(month)) < ceiling
<1> DEFINE p == month
           out == Quota!Out(month)
           with == WithRequests(month)
           recorded == Ended("recorded", month)
           failed == Ended("failed", month)
<1>0. month \in Months /\ month # 0 /\ ceiling \in Nat
  BY DEF HolderInv, Typed, TypeOK, Months
<1>1. out \subseteq with \cup recorded \cup failed
  <2> SUFFICES ASSUME NEW r \in out PROVE r \in with \cup recorded \cup failed
    OBVIOUS
  <2>1. r \in Requests /\ UnitState[r] \in {"held", "spent", "lost"} /\ unitOf[r] = month
    BY DEF Quota!Out
  <2>2. pc[r] \in {"admitted", "recorded", "failed"}
    BY <1>0, <2>1, UnitStateIs
  <2> QED BY <2>1, <2>2 DEF WithRequests, Ended
<1>2. /\ IsFiniteSet(with) /\ IsFiniteSet(recorded) /\ IsFiniteSet(failed)
      /\ Cardinality(with) \in Nat /\ Cardinality(recorded) \in Nat /\ Cardinality(failed) \in Nat
  BY FiniteRequests DEF WithRequests, Ended
<1>3. Cardinality(out) <= Cardinality(with) + Cardinality(recorded) + Cardinality(failed)
      /\ Cardinality(out) \in Nat
  <2> HIDE DEF out, with, recorded, failed
  <2>1. /\ IsFiniteSet(with \cup recorded)
        /\ Cardinality(with \cup recorded) <= Cardinality(with) + Cardinality(recorded)
    <3>1. IsFiniteSet(with \cup recorded) /\ Cardinality(with \cup recorded)
            = Cardinality(with) + Cardinality(recorded) - Cardinality(with \cap recorded)
      BY <1>2, FS_Union
    <3>2. Cardinality(with \cap recorded) \in Nat
      BY <1>2, FS_Intersection, FS_CardinalityType
    <3> QED BY <1>2, <3>1, <3>2
  <2>2. /\ IsFiniteSet(with \cup recorded \cup failed)
        /\ Cardinality(with \cup recorded \cup failed) <= Cardinality(with \cup recorded) + Cardinality(failed)
    <3>1. IsFiniteSet(with \cup recorded \cup failed) /\ Cardinality(with \cup recorded \cup failed)
            = Cardinality(with \cup recorded) + Cardinality(failed)
              - Cardinality((with \cup recorded) \cap failed)
      BY <1>2, <2>1, FS_Union
    <3>2. Cardinality((with \cup recorded) \cap failed) \in Nat
      BY <1>2, <2>1, FS_Intersection, FS_CardinalityType
    <3>3. Cardinality(with \cup recorded) \in Nat
      BY <2>1, FS_CardinalityType
    <3> QED BY <1>2, <3>1, <3>2, <3>3
  <2>3. IsFiniteSet(out) /\ Cardinality(out) <= Cardinality(with \cup recorded \cup failed)
    BY <1>1, <2>2, FS_Subset
  <2>4. Cardinality(out) \in Nat /\ Cardinality(with \cup recorded) \in Nat
        /\ Cardinality(with \cup recorded \cup failed) \in Nat
    BY <2>1, <2>2, <2>3, FS_CardinalityType
  <2> QED BY <1>2, <2>1, <2>2, <2>3, <2>4
<1>4. Total(InLeases(month)) >= 1
  <2>1. lease[i].key = month /\ lease[i].left >= 1 /\ lease[i].left \in Nat
    BY InstanceTypes DEF CanTake
  <2>2. lease[i] # NoLease
    BY <1>0, <2>1 DEF NoLease
  <2>3. flight[i].phase = "none"
    BY <2>2 DEF HolderInv, FlightInv
  <2>4. InMemory(i, month) = lease[i].left
    BY <1>0, <2>1, <2>3, InstanceTypes, UnitsAt, InMemoryIsUnits
  <2>5. InMemory(i, month) <= Total(InLeases(month))
    <3> DEFINE f == InLeases(month)
    <3>1. f \in [Instances -> Nat] /\ f[i] = InMemory(i, month) /\ IsFiniteSet(Instances)
      BY <1>0, HeldParts, SetsAssumption DEF InLeases
    <3> HIDE DEF f
    <3>2. f[i] <= Total(f)
      <4>1. Total(f) = f[i] + Total([y \in Instances \ {i} |-> f[y]])
            /\ Total([y \in Instances \ {i} |-> f[y]]) \in Nat
        BY <3>1, TotalSplit
      <4> QED BY <3>1, <4>1
    <3> QED BY <3>1, <3>2 DEF f
  <2>6. Total(InLeases(month)) \in Nat
    BY <1>0, HeldParts
  <2> QED BY <2>1, <2>4, <2>5, <2>6
<1>5. Cardinality(recorded) = spent[month] /\ Cardinality(failed) <= stranded[month]
  BY <1>0 DEF CountInv
<1>6. bucket[month] <= ceiling + metered[month]
  BY <1>0 DEF CeilingInv
<1>7. /\ bucket[month] \in Nat /\ spent[month] \in Nat /\ metered[month] \in Nat /\ stranded[month] \in Nat
      /\ Total(InLeases(month)) \in Nat /\ Total(OnTheWay(month)) \in Nat
      /\ bucket[month] = spent[month] + metered[month] + stranded[month]
           + (Total(InLeases(month)) + Total(OnTheWay(month)) + Cardinality(with))
  BY <1>0, Before
<1> HIDE DEF out, with, recorded, failed
<1>8. Cardinality(out) < ceiling
  BY <1>0, <1>2, <1>3, <1>4, <1>5, <1>6, <1>7
<1> QED BY <1>8 DEF out

LEMMA SameCardinality == ASSUME NEW S PROVE Quota!Cardinality(S) = Cardinality(S)
BY DEF Quota!Cardinality, Cardinality

LEMMA QuotaInit == Init => Quota!Init
<1> SUFFICES ASSUME Init PROVE Quota!Init
  OBVIOUS
<1>1. HolderInv
  BY HolderInit
<1>2. UnitState = [r \in Requests |-> "none"]
  <2>1. \A r \in Requests : UnitState[r] = "none"
    BY <1>1, UnitStateIs DEF Init
  <2> QED BY <2>1 DEF UnitState
<1>3. ceiling \in Nat /\ unitOf = [r \in Requests |-> 0]
  BY <1>1 DEF Init, HolderInv, Typed, TypeOK
<1> QED BY <1>2, <1>3 DEF Quota!Init

\* Steps of requests that hold no unit do not show in the quota.
LEMMA QuotaStutter ==
    ASSUME HolderInv, HolderInv', UNCHANGED <<unitOf, ceiling>>,
           \A r \in Requests : pc'[r] = pc[r] \/ unitOf[r] = 0
    PROVE  UNCHANGED Quota!quotaVars
<1>1. \A r \in Requests : UnitState'[r] = UnitState[r]
  BY DEF UnitState
<1>2. UnitState' = UnitState
  BY <1>1 DEF UnitState
<1> QED BY <1>2 DEF Quota!quotaVars

\* A request moves from one unit state to another, the rest stays.
LEMMA UnitMoves ==
    ASSUME NEW r \in Requests,
           \A q \in Requests \ {r} : pc'[q] = pc[q] /\ unitOf'[q] = unitOf[q],
           NEW new, UnitState'[r] = new
    PROVE  UnitState' = [UnitState EXCEPT ![r] = new]
<1>1. \A q \in Requests \ {r} : UnitState'[q] = UnitState[q]
  BY DEF UnitState
<1>2. DOMAIN UnitState = Requests /\ UnitState' = [q \in Requests |-> UnitState'[q]]
  BY DEF UnitState
<1> HIDE DEF UnitState
<1>3. UnitState' = [q \in Requests |-> IF q = r THEN new ELSE UnitState[q]]
  BY <1>1, <1>2
<1> QED BY <1>2, <1>3

LEMMA TakeIsAdmit ==
    ASSUME HolderInv, HolderInv', AccountInv, CeilingInv, CountInv, NEW r \in Requests,
           Ask(r) \/ Retry(r), CanTake(Home[r]), Take(r, Home[r])
    PROVE  Quota!Next
<1>0. /\ pc[r] \in {"idle", "resumed"} /\ ceiling' = ceiling /\ month \in Months /\ month # 0
      /\ pc \in [Requests -> Places] /\ unitOf \in [Requests -> 0..Periods] /\ Home[r] \in Instances
  BY SetsAssumption DEF Ask, Retry, historyVars, HolderInv, Typed, TypeOK, Months
<1>1. unitOf[r] = 0 /\ UnitState[r] = "none"
  BY <1>0, UnitStateIs DEF HolderInv, RequestInv
<1>2. /\ pc'[r] = "admitted" /\ unitOf'[r] = month
      /\ \A q \in Requests \ {r} : pc'[q] = pc[q] /\ unitOf'[q] = unitOf[q]
      /\ unitOf' = [unitOf EXCEPT ![r] = month]
  BY <1>0 DEF Take
<1>3. UnitState'[r] = "held"
  BY <1>0, <1>2 DEF UnitState
<1>4. UnitState' = [UnitState EXCEPT ![r] = "held"] /\ UnitState' # UnitState
  BY <1>1, <1>2, <1>3, UnitMoves
<1>5. Quota!Cardinality(Quota!Out(month)) < ceiling
  BY <1>0, Room, SameCardinality
<1>6. Quota!Admit(r, month)
  BY <1>0, <1>1, <1>2, <1>4, <1>5 DEF Quota!Admit
<1> QED BY <1>0, <1>4, <1>6 DEF Quota!Next

LEMMA EndIsMove ==
    ASSUME HolderInv, HolderInv', Current, NEW r \in Requests,
           GoThrough(r) \/ ReturnAdmittedClick(r) \/ Abandon(r)
    PROVE  Quota!Next
<1>0. /\ pc[r] = "admitted" /\ unitOf' = unitOf /\ ceiling' = ceiling
      /\ month # 0 /\ unitOf[r] = month /\ pc \in [Requests -> Places]
      /\ \/ GoThrough(r) /\ pc' = [pc EXCEPT ![r] = "recorded"]
         \/ ReturnAdmittedClick(r) /\ pc' = [pc EXCEPT ![r] = "returned"]
         \/ Abandon(r) /\ pc' = [pc EXCEPT ![r] = "failed"]
  <2>1. pc[r] = "admitted" /\ unitOf' = unitOf /\ ceiling' = ceiling
    BY DEF GoThrough, ReturnAdmittedClick, Abandon, historyVars
  <2>2. month # 0 /\ pc \in [Requests -> Places]
    BY DEF HolderInv, Typed, TypeOK, Months
  <2> QED BY <2>1, <2>2 DEF GoThrough, ReturnAdmittedClick, Abandon, Current
<1>1. UnitState[r] = "held"
  BY <1>0, UnitStateIs
<1>2. \A q \in Requests \ {r} : pc'[q] = pc[q] /\ unitOf'[q] = unitOf[q]
  BY <1>0
<1>3. CASE GoThrough(r) /\ pc' = [pc EXCEPT ![r] = "recorded"]
  <2>1. UnitState'[r] = "spent"
    BY <1>0, <1>3 DEF UnitState
  <2>2. UnitState' = [UnitState EXCEPT ![r] = "spent"] /\ UnitState' # UnitState
    BY <1>1, <1>2, <2>1, UnitMoves
  <2>3. Quota!Spend(r)
    BY <1>0, <1>1, <2>2 DEF Quota!Spend
  <2> QED BY <2>2, <2>3 DEF Quota!Next
<1>4. CASE ReturnAdmittedClick(r) /\ pc' = [pc EXCEPT ![r] = "returned"]
  <2>1. UnitState'[r] = "back"
    BY <1>0, <1>4 DEF UnitState
  <2>2. UnitState' = [UnitState EXCEPT ![r] = "back"] /\ UnitState' # UnitState
    BY <1>1, <1>2, <2>1, UnitMoves
  <2>3. Quota!Return(r)
    BY <1>0, <1>1, <2>2 DEF Quota!Return
  <2> QED BY <2>2, <2>3 DEF Quota!Next
<1>5. CASE Abandon(r) /\ pc' = [pc EXCEPT ![r] = "failed"]
  <2>1. UnitState'[r] = "lost"
    BY <1>0, <1>5 DEF UnitState
  <2>2. UnitState' = [UnitState EXCEPT ![r] = "lost"] /\ UnitState' # UnitState
    BY <1>1, <1>2, <2>1, UnitMoves
  <2>3. UnitState' = [q \in Requests |-> IF q \in {r} THEN "lost" ELSE UnitState[q]]
    BY <2>2 DEF UnitState
  <2>4. Quota!Lose({r})
    BY <1>0, <1>1, <2>3 DEF Quota!Lose
  <2> QED BY <2>2, <2>4 DEF Quota!Next
<1> QED BY <1>0, <1>3, <1>4, <1>5

LEMMA CrashIsLose ==
    ASSUME HolderInv, HolderInv', Current, NEW i \in Instances, Crash(i)
    PROVE  Quota!Next \/ UNCHANGED Quota!quotaVars
<1> DEFINE S == {r \in Requests : Home[r] = i /\ pc[r] = "admitted"}
<1>0. /\ UNCHANGED <<unitOf, ceiling>> /\ month # 0
      /\ \A r \in Requests : pc'[r] = IF Home[r] = i /\ pc[r] \in {"waiting", "resumed", "admitted"}
                                      THEN "failed" ELSE pc[r]
  BY DEF Crash, HolderInv, Typed, TypeOK, Months
<1>1. \A r \in Requests \ S : pc'[r] = pc[r] \/ unitOf[r] = 0
  BY <1>0 DEF HolderInv, RequestInv
<1>2. \A r \in S : UnitState[r] = "held" /\ UnitState'[r] = "lost"
  <2> TAKE r \in S
  <2>1. unitOf[r] = month /\ unitOf'[r] = month /\ pc[r] = "admitted" /\ pc'[r] = "failed"
    BY <1>0 DEF Current
  <2>2. UnitState[r] = "held"
    BY <1>0, <2>1, UnitStateIs
  <2>3. UnitState'[r] = "lost"
    BY <1>0, <2>1 DEF UnitState
  <2> QED BY <2>2, <2>3
<1>3. \A r \in Requests \ S : UnitState'[r] = UnitState[r]
  BY <1>0, <1>1 DEF UnitState
<1>4. CASE S = {}
  BY <1>0, <1>1, <1>4, QuotaStutter
<1>5. CASE S # {}
  <2>1. UnitState' = [r \in Requests |-> IF r \in S THEN "lost" ELSE UnitState[r]]
    BY <1>2, <1>3 DEF UnitState
  <2>2. UnitState' # UnitState
    BY <1>2, <1>5
  <2>3. Quota!Lose(S)
    BY <1>0, <1>2, <1>5, <2>1 DEF Quota!Lose
  <2> QED BY <2>2, <2>3 DEF Quota!Next
<1> QED BY <1>4, <1>5

LEMMA QuotaStep ==
    ASSUME HolderInv, HolderInv', Current, AccountInv, CeilingInv, CountInv, [Next]_vars
    PROVE  Quota!Next \/ UNCHANGED Quota!quotaVars
<1>1. ASSUME NEW r \in Requests, Ask(r) \/ Retry(r)
      PROVE  Quota!Next \/ UNCHANGED Quota!quotaVars
  <2>1. unitOf[r] = 0 /\ ceiling' = ceiling /\ pc \in [Requests -> Places]
    BY <1>1 DEF Ask, Retry, HolderInv, RequestInv, Typed, TypeOK, historyVars
  <2>2. CASE CanTake(Home[r]) /\ Take(r, Home[r])
    BY <1>1, <2>2, TakeIsAdmit
  <2>3. CASE (\E v \in {"unreserved", "rejected"} : Answer(r, v)) \/ Acquire(r, Home[r])
    <3>1. unitOf' = unitOf /\ \A q \in Requests : pc'[q] = pc[q] \/ unitOf[q] = 0
      BY <2>1, <2>3 DEF Answer, Acquire
    <3> QED BY <2>1, <3>1, QuotaStutter
  <2> QED BY <1>1, <2>2, <2>3 DEF Ask, Retry
<1>2. ASSUME NEW r \in Requests, Meter(r)
      PROVE  UNCHANGED Quota!quotaVars
  <2>1. /\ unitOf[r] = 0 /\ UNCHANGED <<unitOf, ceiling>>
        /\ \A q \in Requests : pc'[q] = pc[q] \/ unitOf[q] = 0
    BY <1>2 DEF Meter, HolderInv, RequestInv, Typed, TypeOK
  <2> QED BY <2>1, QuotaStutter
<1>3. ASSUME NEW i \in Instances, Settle(i) \/ ReserveFails(i)
      PROVE  UNCHANGED Quota!quotaVars
  <2>1. /\ UNCHANGED <<unitOf, ceiling>>
        /\ \A q \in Requests : pc'[q] = pc[q] \/ unitOf[q] = 0
    BY <1>3 DEF Settle, ReserveFails, Wake, HolderInv, RequestInv, historyVars
  <2> QED BY <2>1, QuotaStutter
<1>4. ASSUME NEW n \in Quotas, SetQuota(n)
      PROVE  Quota!Next \/ UNCHANGED Quota!quotaVars
  <2>1. ceiling' = ceiling \/ ceiling' > ceiling
    <3>1. ceiling \in Nat /\ n \in Int /\ ceiling' = Larger(ceiling, n)
      BY <1>4, LeaseAssumption DEF SetQuota, HolderInv, Typed, TypeOK, NoQuota
    <3> QED BY <3>1 DEF Larger
  <2>2. UNCHANGED <<pc, unitOf>> /\ ceiling' \in Nat
    BY <1>4 DEF SetQuota, requestVars, HolderInv, Typed, TypeOK
  <2>3. UnitState' = UnitState
    BY <2>2 DEF UnitState
  <2> QED BY <2>1, <2>2, <2>3 DEF Quota!Next, Quota!Raise, Quota!quotaVars
<1>5. CASE UNCHANGED <<pc, unitOf, ceiling>>
  BY <1>5, QuotaStutter
<1>6. \/ \E r \in Requests : Ask(r) \/ Retry(r) \/ Meter(r) \/ ReturnAdmittedClick(r)
                             \/ GoThrough(r) \/ Abandon(r)
      \/ \E i \in Instances : Settle(i) \/ ReserveFails(i) \/ Crash(i)
      \/ \E n \in Quotas : SetQuota(n)
      \/ UNCHANGED <<pc, unitOf, ceiling>>
  BY DEF Next, vars, ReserveLease, Sweep, LeaseExpires, UnlimitedExpires, ReleaseUsage, ReleaseFails,
         MonthEnds, requestVars, historyVars
<1> QED BY <1>1, <1>2, <1>3, <1>4, <1>5, <1>6, EndIsMove, CrashIsLose

LEMMA CountInit == Init => CountInv
<1> SUFFICES ASSUME Init, NEW p \in Months
             PROVE  /\ Cardinality(Ended("recorded", p)) = spent[p]
                    /\ Cardinality(Ended("failed", p)) <= stranded[p]
  BY DEF CountInv
<1>1. Ended("recorded", p) = {} /\ Ended("failed", p) = {} /\ spent[p] = 0 /\ stranded[p] = 0
  BY DEF Init, Ended
<1> QED BY <1>1, FS_EmptySet

\* Whatever the instances lease, renew, hand back and lose, a click is admitted
\* on a unit of its month only while fewer units than the largest limit are out:
\* each step of click-admission.ts is a step of ClickQuota or does not show in it.
THEOREM QuotaImplemented ==
    ASSUME CalmMonthEnd, ~LostReplies
    PROVE  Spec => ImplementsQuota
<1> DEFINE IInv == HolderInv /\ Current /\ AccountInv /\ CeilingInv /\ CountInv
<1>1. Init => IInv /\ Quota!Init
  BY HolderInit, AccountInit, CeilingInit, CountInit, QuotaInit
<1>2. IInv /\ [Next]_vars => IInv'
  BY HolderStep, CurrentStep, AccountStep, CeilingStep, CountStep
<1>3. IInv /\ IInv' /\ [Next]_vars => [Quota!Next]_(Quota!quotaVars)
  BY QuotaStep
<1> QED BY <1>1, <1>2, <1>3, PTL DEF Spec, ImplementsQuota, Quota!Spec
===============================================================================
