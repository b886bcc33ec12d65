---------------------------- MODULE ClickAdmission ----------------------------
(***************************************************************************)
(* Tenant click quotas on the redirect path: src/src/lib/click-admission.ts *)
(* and the lease transactions of tenant-usage.ts.                          *)
(*                                                                         *)
(* Every instance of the application reserves blocks of units (leases) in  *)
(* the usage bucket of the month and admits clicks from memory.  Leases    *)
(* expire, are renewed by one acquisition at a time per instance, and what *)
(* is left of them is handed back.  One workspace.                         *)
(***************************************************************************)
EXTENDS Integers, FiniteSets

CONSTANTS
    Instances,     \* processes of the application
    Requests,      \* billable clicks on links of the workspace
    Home,          \* per request: the instance it is routed to
    Periods,       \* months 1..Periods, the bound on usagePeriodKey()
    Quotas,        \* click limits the tenant may have; NoQuota for no quota row
    MaxGrant,      \* MAX_LEASE_UNITS
    Divisor,       \* HEADROOM_DIVISOR
    MaxAttempts,   \* MAX_ACQUIRE_ATTEMPTS
    CalmMonthEnd,  \* no acquisition and no click straddles a month end
    LostReplies,   \* a transaction may commit and still report an error
    MaxEdits,      \* bound: changes of the quota
    MaxFaults      \* bound: failed transactions, crashes, abandoned requests

NoQuota == -1
Months == 1..Periods

ASSUME SetsAssumption ==
    /\ IsFiniteSet(Instances) /\ IsFiniteSet(Requests)
    /\ Instances \cap Requests = {} /\ Home \in [Requests -> Instances]
ASSUME LeaseAssumption ==
    /\ Quotas \subseteq Nat \cup {NoQuota} /\ Quotas # {}
    /\ MaxGrant \in Nat \ {0} /\ Divisor \in Nat \ {0} /\ MaxAttempts \in Nat \ {0}
ASSUME BoundsAssumption ==
    /\ Periods \in Nat \ {0} /\ MaxEdits \in Nat /\ MaxFaults \in Nat
    /\ CalmMonthEnd \in BOOLEAN /\ LostReplies \in BOOLEAN

VARIABLES
    month,        \* usagePeriodKey() now
    limit,        \* tenant_quotas.clicks, NoQuota without a row
    bucket,       \* usage_buckets.quantity, per month
    lease,        \* state.leases, per instance; key 0 when there is none
    unlimited,    \* state.unlimitedUntil still ahead, per instance
    flight,       \* state.inflight: the acquisition under way, per instance
    pc, attempt,  \* per request: where it is, how often it has acquired
    unitOf,       \* per request: the month of the unit it was admitted with
    releases,     \* releaseUsage calls whose UPDATE has not run yet
    edits, faults,
    ceiling,      \* history: the largest limit in force so far
    spent,        \* history: clicks that went through on a reserved unit
    metered,      \* history: unreserved clicks the click queue has charged
    stranded      \* history: reserved units nobody holds any more

dbVars       == <<limit, bucket>>
instanceVars == <<lease, unlimited, flight>>
requestVars  == <<pc, attempt, unitOf>>
boundVars    == <<edits, faults>>
historyVars  == <<ceiling, spent, metered, stranded>>
vars == <<month, dbVars, instanceVars, requestVars, releases, boundVars, historyVars>>

NoLease  == [key |-> 0, left |-> 0, fresh |-> FALSE, exhausted |-> FALSE]
NoFlight == [phase |-> "none", previous |-> NoLease, demand |-> 0,
             unlimited |-> FALSE, granted |-> 0, key |-> 0]

Smaller(a, b) == IF a <= b THEN a ELSE b
Larger(a, b) == IF a >= b THEN a ELSE b

Init ==
    /\ month = 1
    /\ limit \in Quotas
    /\ bucket = [p \in Months |-> 0]
    /\ lease = [i \in Instances |-> NoLease]
    /\ unlimited = [i \in Instances |-> FALSE]
    /\ flight = [i \in Instances |-> NoFlight]
    /\ pc = [r \in Requests |-> "idle"]
    /\ attempt = [r \in Requests |-> 0]
    /\ unitOf = [r \in Requests |-> 0]
    /\ releases = {}
    /\ edits = 0 /\ faults = 0
    /\ ceiling = Larger(limit, 0)
    /\ spent = [p \in Months |-> 0]
    /\ metered = [p \in Months |-> 0]
    /\ stranded = [p \in Months |-> 0]

Fault == faults < MaxFaults /\ faults' = faults + 1 /\ UNCHANGED edits

(***************************************************************************)
(* admitBillableClick: take, acquire and the loop around them.             *)
(***************************************************************************)
CanTake(i) == lease[i].left > 0 /\ lease[i].fresh /\ lease[i].key = month

Take(r, i) ==
    /\ lease' = [lease EXCEPT ![i].left = @ - 1]
    /\ pc' = [pc EXCEPT ![r] = "admitted"]
    /\ unitOf' = [unitOf EXCEPT ![r] = month]
    /\ UNCHANGED <<unlimited, flight, attempt>>

Answer(r, verdict) ==
    /\ pc' = [pc EXCEPT ![r] = verdict]
    /\ UNCHANGED <<instanceVars, attempt, unitOf>>

Waiters(i) == {r \in Requests : Home[r] = i /\ pc[r] \in {"waiting", "resumed"}}

\* The old lease leaves the map before the transaction is awaited.
DetachNothing(i) == lease
Detach(i) == [lease EXCEPT ![i] = NoLease]

\* acquire: join the acquisition under way or start one.
Acquire(r, i) ==
    /\ pc' = [pc EXCEPT ![r] = "waiting"]
    /\ attempt' = [attempt EXCEPT ![r] = @ + 1]
    /\ \/ flight[i].phase # "none" /\ UNCHANGED <<lease, flight>>
       \/ /\ flight[i].phase = "none"
          /\ flight' = [flight EXCEPT ![i] =
                [NoFlight EXCEPT !.phase = "asked", !.previous = lease[i],
                                 !.demand = Cardinality(Waiters(i) \cup {r})]]
          /\ lease' = Detach(i)
    /\ UNCHANGED <<unlimited, unitOf>>

\* The part of admitBillableClick before its first await.
Ask(r) ==
    LET i == Home[r] IN
    /\ pc[r] = "idle"
    /\ \/ unlimited[i] /\ Answer(r, "unreserved")
       \/ ~unlimited[i] /\ CanTake(i) /\ Take(r, i)
       \/ /\ ~unlimited[i] /\ ~CanTake(i)
          /\ lease[i].exhausted /\ lease[i].fresh /\ flight[i].phase = "none"
          /\ Answer(r, "rejected")
       \/ /\ ~unlimited[i] /\ ~CanTake(i)
          /\ ~(lease[i].exhausted /\ lease[i].fresh /\ flight[i].phase = "none")
          /\ Acquire(r, i)
    /\ UNCHANGED <<month, dbVars, releases, boundVars, historyVars>>

\* One turn of the loop, after the acquisition the request awaited.
Retry(r) ==
    LET i == Home[r] IN
    /\ pc[r] = "resumed"
    /\ \/ unlimited[i] /\ Answer(r, "unreserved")
       \/ ~unlimited[i] /\ CanTake(i) /\ Take(r, i)
       \/ /\ ~unlimited[i] /\ ~CanTake(i)
          /\ lease[i].exhausted \/ attempt[r] = MaxAttempts
          /\ Answer(r, "rejected")
       \/ /\ ~unlimited[i] /\ ~CanTake(i)
          /\ ~lease[i].exhausted /\ attempt[r] < MaxAttempts
          /\ Acquire(r, i)
    /\ UNCHANGED <<month, dbVars, releases, boundVars, historyVars>>

(***************************************************************************)
(* reserveUsageLeaseInTransaction and what acquire does with its result.   *)
(***************************************************************************)
\* UPDATE ... WHERE quantity >= amount.
Handed(b, key, amount) ==
    IF amount > 0 /\ b[key] >= amount THEN [b EXCEPT ![key] = @ - amount] ELSE b

GrantOverHeadroom(headroom, demand) ==
    IF headroom <= 0 THEN 0
    ELSE Smaller(MaxGrant, Larger(demand, headroom \div Divisor))
Grant(headroom, demand) ==
    IF headroom <= 0 THEN 0
    ELSE Smaller(headroom, Smaller(MaxGrant, Larger(demand, headroom \div Divisor)))

ReserveLease(i) ==
    LET previous == flight[i].previous
        freed == Handed(bucket, previous.key, previous.left)
        grant == Grant(limit - freed[month], flight[i].demand)
    IN
    /\ flight[i].phase = "asked"
    /\ \/ /\ limit = NoQuota
          /\ bucket' = freed
          /\ flight' = [flight EXCEPT ![i].phase = "answered", ![i].unlimited = TRUE]
       \/ /\ limit # NoQuota
          /\ bucket' = [freed EXCEPT ![month] = @ + grant]
          /\ flight' = [flight EXCEPT ![i].phase = "answered", ![i].granted = grant,
                                      ![i].key = month]
    /\ UNCHANGED <<month, limit, lease, unlimited, requestVars, releases, boundVars, historyVars>>

WakeFirst(i, where) ==
    pc' = [r \in Requests |->
        IF Home[r] = i /\ pc[r] = "waiting" /\ attempt[r] = 1 THEN where ELSE pc[r]]
\* Every request awaiting the acquisition goes on with what it came to.
Wake(i, where) ==
    pc' = [r \in Requests |-> IF Home[r] = i /\ pc[r] = "waiting" THEN where ELSE pc[r]]

\* The lease is labelled with the month it is when the reply arrives.
Settle(i) ==
    /\ flight[i].phase = "answered"
    /\ flight' = [flight EXCEPT ![i] = NoFlight]
    /\ unlimited' = [unlimited EXCEPT ![i] = flight[i].unlimited]
    /\ IF flight[i].unlimited
       THEN UNCHANGED lease
       ELSE lease' = [lease EXCEPT ![i] =
                [key |-> month, left |-> flight[i].granted, fresh |-> TRUE,
                 exhausted |-> flight[i].granted = 0]]
    /\ Wake(i, "resumed")
    /\ UNCHANGED <<month, dbVars, attempt, unitOf, releases, boundVars, historyVars>>

Restored(i) == [flight[i].previous EXCEPT !.fresh = FALSE]

\* The transaction reports an error: the previous lease is put back, expired,
\* and every request that awaited the acquisition fails.
ReserveFails(i) ==
    /\ \/ flight[i].phase = "asked" /\ UNCHANGED stranded
       \/ /\ LostReplies /\ flight[i].phase = "answered"
          /\ IF flight[i].unlimited THEN UNCHANGED stranded
             ELSE stranded' = [stranded EXCEPT ![flight[i].key] = @ + flight[i].granted]
    /\ Fault
    /\ flight' = [flight EXCEPT ![i] = NoFlight]
    /\ lease' = [lease EXCEPT ![i] = Restored(i)]
    /\ Wake(i, "failed")
    /\ UNCHANGED <<month, dbVars, unlimited, attempt, unitOf, releases,
                   ceiling, spent, metered>>

(***************************************************************************)
(* What becomes of an admitted click.                                      *)
(***************************************************************************)
\* The redirect goes through and its click is recorded with usageReserved.
GoThrough(r) ==
    /\ pc[r] = "admitted"
    /\ pc' = [pc EXCEPT ![r] = "recorded"]
    /\ spent' = [spent EXCEPT ![unitOf[r]] = @ + 1]
    /\ UNCHANGED <<month, dbVars, instanceVars, attempt, unitOf, releases, boundVars,
                   ceiling, metered, stranded>>

\* returnAdmittedClick: the link's own cap refused the click.
ReturnAdmittedClick(r) ==
    LET i == Home[r] IN
    /\ pc[r] = "admitted"
    /\ pc' = [pc EXCEPT ![r] = "returned"]
    /\ \/ /\ lease[i].key = month
          /\ lease' = [lease EXCEPT ![i].left = @ + 1]
          /\ UNCHANGED releases
       \/ /\ lease[i].key # month
          /\ releases' = releases \cup {[by |-> r, key |-> month, amount |-> 1]}
          /\ UNCHANGED lease
    /\ UNCHANGED <<month, dbVars, unlimited, flight, attempt, unitOf, boundVars, historyVars>>

\* A later reservation of the redirect throws, and the unit stays reserved.
Abandon(r) ==
    /\ pc[r] = "admitted"
    /\ Fault
    /\ pc' = [pc EXCEPT ![r] = "failed"]
    /\ stranded' = [stranded EXCEPT ![unitOf[r]] = @ + 1]
    /\ UNCHANGED <<month, dbVars, instanceVars, attempt, unitOf, releases,
                   ceiling, spent, metered>>

\* The click queue charges an unreserved click when it is persisted.
Meter(r) ==
    /\ pc[r] = "unreserved"
    /\ pc' = [pc EXCEPT ![r] = "recorded"]
    /\ bucket' = [bucket EXCEPT ![month] = @ + 1]
    /\ metered' = [metered EXCEPT ![month] = @ + 1]
    /\ UNCHANGED <<month, limit, instanceVars, attempt, unitOf, releases, boundVars,
                   ceiling, spent, stranded>>

(***************************************************************************)
(* The sweeper and releaseUsage.                                           *)
(***************************************************************************)
ExpiredUnexhausted(i) ==
    lease[i].key # 0 /\ ~lease[i].fresh /\ flight[i].phase = "none" /\ ~lease[i].exhausted
Expired(i) == lease[i].key # 0 /\ ~lease[i].fresh /\ flight[i].phase = "none"

\* One turn of sweepExpiredLeases, up to its await.
Sweep(i) ==
    /\ Expired(i)
    /\ \A x \in releases : x.by # i
    /\ lease' = [lease EXCEPT ![i] = NoLease]
    /\ releases' = IF lease[i].left = 0 THEN releases
                   ELSE releases \cup {[by |-> i, key |-> lease[i].key, amount |-> lease[i].left]}
    /\ UNCHANGED <<month, dbVars, unlimited, flight, requestVars, boundVars, historyVars>>

ReleaseUsage(x) ==
    /\ x \in releases
    /\ releases' = releases \ {x}
    /\ bucket' = Handed(bucket, x.key, x.amount)
    /\ UNCHANGED <<month, limit, instanceVars, requestVars, boundVars, historyVars>>

ReleaseFails(x) ==
    /\ x \in releases
    /\ Fault
    /\ releases' = releases \ {x}
    /\ stranded' = [stranded EXCEPT ![x.key] = @ + x.amount]
    /\ UNCHANGED <<month, dbVars, instanceVars, requestVars, ceiling, spent, metered>>

(***************************************************************************)
(* Time, administrators and crashes.                                       *)
(***************************************************************************)
LeaseExpires(i) ==
    /\ lease[i].fresh
    /\ lease' = [lease EXCEPT ![i].fresh = FALSE]
    /\ UNCHANGED <<month, dbVars, unlimited, flight, requestVars, releases, boundVars, historyVars>>

UnlimitedExpires(i) ==
    /\ unlimited[i]
    /\ unlimited' = [unlimited EXCEPT ![i] = FALSE]
    /\ UNCHANGED <<month, dbVars, lease, flight, requestVars, releases, boundVars, historyVars>>

MonthEnds ==
    /\ month < Periods
    /\ CalmMonthEnd => /\ \A i \in Instances : flight[i].phase # "answered"
                       /\ \A r \in Requests : pc[r] # "admitted"
    /\ month' = month + 1
    /\ UNCHANGED <<dbVars, instanceVars, requestVars, releases, boundVars, historyVars>>

SetQuota(n) ==
    /\ n # limit
    /\ edits < MaxEdits /\ edits' = edits + 1
    /\ limit' = n
    /\ ceiling' = Larger(ceiling, n)
    /\ UNCHANGED <<month, bucket, instanceVars, requestVars, releases, faults,
                   spent, metered, stranded>>

Admitted(i, p) == {r \in Requests : Home[r] = i /\ pc[r] = "admitted" /\ unitOf[r] = p}

\* Units of month p an instance has in its lease or in its acquisition.
InMemory(i, p) ==
      (IF lease[i].key = p THEN lease[i].left ELSE 0)
    + (IF flight[i].phase = "asked" /\ flight[i].previous.key = p THEN flight[i].previous.left ELSE 0)
    + (IF flight[i].phase = "answered" /\ flight[i].key = p THEN flight[i].granted ELSE 0)

Crash(i) ==
    /\ Fault
    /\ lease' = [lease EXCEPT ![i] = NoLease]
    /\ unlimited' = [unlimited EXCEPT ![i] = FALSE]
    /\ flight' = [flight EXCEPT ![i] = NoFlight]
    /\ pc' = [r \in Requests |->
                IF Home[r] = i /\ pc[r] \in {"waiting", "resumed", "admitted"} THEN "failed" ELSE pc[r]]
    /\ stranded' = [p \in Months |-> stranded[p] + InMemory(i, p) + Cardinality(Admitted(i, p))]
    /\ UNCHANGED <<month, dbVars, attempt, unitOf, releases, ceiling, spent, metered>>

Next ==
    \/ \E r \in Requests :
        Ask(r) \/ Retry(r) \/ GoThrough(r) \/ ReturnAdmittedClick(r) \/ Abandon(r) \/ Meter(r)
    \/ \E i \in Instances :
        \/ ReserveLease(i) \/ Settle(i) \/ ReserveFails(i)
        \/ Sweep(i) \/ LeaseExpires(i) \/ UnlimitedExpires(i) \/ Crash(i)
    \/ \E x \in releases : ReleaseUsage(x) \/ ReleaseFails(x)
    \/ MonthEnds
    \/ \E n \in Quotas : SetQuota(n)

Spec == Init /\ [][Next]_vars

\* The event loop runs every ready continuation, the database answers, the
\* sweeper's interval fires and leases run out.  No click need arrive, and no
\* fault, quota edit or month end need happen.
Progress ==
    /\ \A r \in Requests :
        /\ WF_vars(Retry(r)) /\ WF_vars(Meter(r))
        /\ WF_vars(GoThrough(r) \/ ReturnAdmittedClick(r))
    /\ \A i \in Instances :
        /\ WF_vars(ReserveLease(i)) /\ WF_vars(Settle(i)) /\ WF_vars(Sweep(i))
        /\ WF_vars(LeaseExpires(i)) /\ WF_vars(UnlimitedExpires(i))
    /\ \A x \in [by : Instances \cup Requests, key : Months, amount : 1..(2 * MaxGrant)] :
        WF_vars(ReleaseUsage(x))

FairSpec == Spec /\ Progress

(***************************************************************************)
(* Properties.                                                             *)
(***************************************************************************)
Leases == [key : 0..Periods, left : Nat, fresh : BOOLEAN, exhausted : BOOLEAN]
Flights == [phase : {"none", "asked", "answered"}, previous : Leases, demand : Nat,
            unlimited : BOOLEAN, granted : Nat, key : 0..Periods]
Places == {"idle", "waiting", "resumed", "admitted", "unreserved",
           "rejected", "returned", "recorded", "failed"}

\* The variables stay in their types; a quantity never goes below zero.
TypeOK ==
    /\ month \in Months
    /\ limit \in Quotas
    /\ bucket \in [Months -> Nat]
    /\ lease \in [Instances -> Leases]
    /\ unlimited \in [Instances -> BOOLEAN]
    /\ flight \in [Instances -> Flights]
    /\ pc \in [Requests -> Places]
    /\ attempt \in [Requests -> 0..MaxAttempts]
    /\ unitOf \in [Requests -> 0..Periods]
    /\ releases \subseteq [by : Instances \cup Requests, key : Months, amount : Nat \ {0}]
    /\ edits \in 0..MaxEdits /\ faults \in 0..MaxFaults
    /\ ceiling \in Nat
    /\ spent \in [Months -> Nat] /\ metered \in [Months -> Nat] /\ stranded \in [Months -> Nat]

\* The sum of the values of f, an element for each unit of them.
Total(f) == Cardinality(UNION {{x} \X (1..f[x]) : x \in DOMAIN f})

\* Units of month p that are in someone's hands: in a lease or an acquisition,
\* on their way back, or with an admitted request.
InLeases(p) == [i \in Instances |-> InMemory(i, p)]
OnTheWay(p) == [x \in releases |-> IF x.key = p THEN x.amount ELSE 0]
WithRequests(p) == {r \in Requests : pc[r] = "admitted" /\ unitOf[r] = p}

Held(p) == Total(InLeases(p)) + Total(OnTheWay(p)) + Cardinality(WithRequests(p))

\* click-admission.ts:15 "every unit is reserved in the DB before it is spent",
\* and handed back at most once: the bucket is the sum of what was spent, what
\* is held, what was charged afterwards and what was lost, at every moment.
EveryUnitAccountedFor ==
    /\ TypeOK
    /\ \A p \in Months : bucket[p] = spent[p] + metered[p] + stranded[p] + Held(p)

\* click-admission.ts:15 "Never over-admits": the clicks that went through on
\* the quota in one month never exceed the largest limit that was in force.
NeverOverAdmits == \A p \in Months : spent[p] <= ceiling

\* What became of the unit a request was admitted with.
UnitState == [r \in Requests |->
    IF unitOf[r] = 0 THEN "none"
    ELSE CASE pc[r] = "admitted" -> "held"
           [] pc[r] = "recorded" -> "spent"
           [] pc[r] = "returned" -> "back"
           [] OTHER              -> "lost"]

Quota == INSTANCE ClickQuota WITH Months <- Months, unit <- UnitState

\* Whatever the leases, renewals and releases of the instances do, a click is
\* admitted only while the units that are out leave room under the limit:
\* click-admission.ts implements the quota the redirect relies on.
ImplementsQuota == Quota!Spec

\* click-admission.ts:21 "Leftover units are handed back": once the clicks stop
\* coming, no unit stays in a lease, a flight or a request for good.
LeftoversComeBack == <>[](\A p \in Months : Held(p) = 0)

\* admitBillableClick always answers: no waiter is left behind by a renewal, a
\* failed transaction or another waiter draining the lease it waited for.
EveryClickAnswered ==
    \A r \in Requests : pc[r] = "waiting" ~> pc[r] \notin {"waiting", "resumed"}
=============================================================================
