----------------------------- MODULE RedirectGate -----------------------------
(***************************************************************************)
(* The gate a visit passes before it is redirected: the GET handler of     *)
(* src/src/app/[shortCode]/route.ts, with daily-click-cap.ts,              *)
(* link-lifetime.ts, the edits of app/api/links/[shortCode]/route.ts and   *)
(* the end of the click in the queue.                                      *)
(*                                                                         *)
(* A visit reserves a unit of the tenant's quota, one of the link's click  *)
(* cap and one of its daily cap, one after another, each by a call of its  *)
(* own, and hands back by hand what it has when a later one refuses.  One  *)
(* link; the quota is the one ClickQuota promises.                         *)
(***************************************************************************)
EXTENDS Integers, FiniteSets

CONSTANTS
    Requests,      \* visits of the link
    Humans,        \* the visits whose traffic is billable
    Editors,       \* PATCH requests of the link's owner
    Caps,          \* values maxClicks may have, 0 among them; None for no cap
    DailyCaps,     \* values dailyClickCap may have, at least 1; None for no cap
    Lifetimes,     \* values lifetimeMinutes may have; None for no lifetime
    QuotaLimit,    \* the tenant's quota
    DayLength,     \* moments in a UTC day
    MaxTime,       \* bound: moments 0..MaxTime
    CalmMidnight,  \* no visit stands between its timestamp and its daily cap at midnight
    LostReplies,   \* a statement may take effect and still be reported as failed
    MaxEdits,      \* bound: saved edits
    MaxFaults      \* bound: failed statements and deaths

None == -1
Closed == -2

ASSUME SetsAssumption ==
    IsFiniteSet(Requests) /\ Humans \subseteq Requests /\ Requests \cap Editors = {}
ASSUME ValuesAssumption ==
    /\ Caps \subseteq Nat \cup {None} /\ DailyCaps \subseteq (Nat \ {0}) \cup {None}
    /\ Lifetimes \subseteq Nat \cup {None}
    /\ QuotaLimit \in Nat /\ DayLength \in Nat \ {0}
ASSUME BoundsAssumption ==
    /\ MaxTime \in Nat /\ MaxEdits \in Nat /\ MaxFaults \in Nat
    /\ CalmMidnight \in BOOLEAN /\ LostReplies \in BOOLEAN

VARIABLES
    time,       \* the moment it is
    row,        \* the link's row in urls
    pc,         \* per visit: the call it awaits, or what became of it
    seen,       \* per visit: the row the link cache returned
    at,         \* per visit: `now`, taken once
    slot, daySlot,          \* per visit: its unit of maxClicks, of dailyClickCap
    unit, unitOf, ceiling,  \* per visit: its unit of the quota (ClickQuota)
    draft,      \* per editor: lifetimeMinutes of the row its PATCH has read
    edits, faults,
    topCap, topDaily,       \* history: the largest caps in force so far
    rearmed     \* history: lifetimeMinutes has been changed

visitVars  == <<pc, seen, at, slot, daySlot>>
quotaVars  == <<unit, unitOf, ceiling>>
boundVars  == <<edits, faults>>
topVars    == <<topCap, topDaily, rearmed>>
vars == <<time, row, visitVars, quotaVars, draft, boundVars, topVars>>

Quota == INSTANCE ClickQuota WITH Months <- {1}

Larger(a, b) == IF a >= b THEN a ELSE b
Day(t) == t \div DayLength

\* What the visit reads of the cached link before it decides.
Cached(link) == [active |-> link.active, maxClicks |-> link.maxClicks,
                 dailyCap |-> link.dailyCap, lifetime |-> link.lifetime]

Init ==
    /\ time = 0
    /\ row \in [active : {TRUE}, maxClicks : Caps, dailyCap : DailyCaps, lifetime : Lifetimes,
                reserved : {0}, dayOf : {None}, dayCount : {0}, startedAt : {None}, clicks : {0}]
    /\ pc = [r \in Requests |-> "idle"]
    /\ seen = [r \in Requests |-> Cached(row)]
    /\ at = [r \in Requests |-> 0]
    /\ slot = [r \in Requests |-> "none"] /\ daySlot = [r \in Requests |-> "none"]
    /\ unit = [r \in Requests |-> "none"] /\ unitOf = [r \in Requests |-> 0]
    /\ ceiling = QuotaLimit
    /\ draft = [e \in Editors |-> Closed]
    /\ edits = 0 /\ faults = 0
    /\ topCap = row.maxClicks /\ topDaily = row.dailyCap /\ rearmed = FALSE

Fault == faults < MaxFaults /\ faults' = faults + 1 /\ UNCHANGED edits

(***************************************************************************)
(* Which of its calls a visit makes, in their order.                       *)
(***************************************************************************)
NeedsClock(r) == r \in Humans /\ seen[r].lifetime # None
NeedsQuota(r) == r \in Humans
NeedsCap(r)   == r \in Humans /\ seen[r].maxClicks # None
NeedsDaily(r) == r \in Humans /\ seen[r].dailyCap # None

Calls == <<"clock", "quota", "cap", "daily">>
Needs(r, call) ==
    \/ call = "clock" /\ NeedsClock(r)
    \/ call = "quota" /\ NeedsQuota(r)
    \/ call = "cap" /\ NeedsCap(r)
    \/ call = "daily" /\ NeedsDaily(r)

\* The first call from the n-th on that the visit needs, or "through".
After(r, n) ==
    LET left == {k \in n..4 : Needs(r, Calls[k])} IN
    IF left = {} THEN "through" ELSE Calls[CHOOSE k \in left : \A j \in left : k <= j]

(***************************************************************************)
(* The visit.                                                              *)
(***************************************************************************)
\* The link cache answers; how old its answer may be is LinkCache's subject.
Look(r) ==
    /\ pc[r] = "idle"
    /\ seen' = [seen EXCEPT ![r] = Cached(row)]
    /\ pc' = [pc EXCEPT ![r] = "looked"]
    /\ UNCHANGED <<time, row, at, slot, daySlot, quotaVars, draft, boundVars, topVars>>

\* Lines 89-120: an inactive link, or a gate without state (risk, password,
\* window, country, visitor, hours, expiry) turns the visit away.
TurnAway(r) ==
    /\ pc[r] = "looked"
    /\ pc' = [pc EXCEPT ![r] = "away"]
    /\ UNCHANGED <<time, row, seen, at, slot, daySlot, quotaVars, draft, boundVars, topVars>>

Begin(r) ==
    /\ pc[r] = "looked" /\ seen[r].active
    /\ at' = [at EXCEPT ![r] = time]
    /\ pc' = [pc EXCEPT ![r] = After(r, 1)]
    /\ UNCHANGED <<time, row, seen, slot, daySlot, quotaVars, draft, boundVars, topVars>>

\* startLifetimeClock: COALESCE(firstClickAt, now), and the window it gives.
ClockRestarted(r) == at[r]
ClockStart(r) == IF row.startedAt = None THEN at[r] ELSE row.startedAt
Elapsed(r) == at[r] > ClockStart(r) + seen[r].lifetime

Clock(r) ==
    /\ pc[r] = "clock"
    /\ row' = [row EXCEPT !.startedAt = ClockStart(r)]
    /\ pc' = [pc EXCEPT ![r] = IF Elapsed(r) THEN "elapsed" ELSE After(r, 2)]
    /\ UNCHANGED <<time, seen, at, slot, daySlot, quotaVars, draft, boundVars, topVars>>

\* admitBillableClick: reserved, admitted without a unit, or refused.
AskQuota(r) ==
    /\ pc[r] = "quota"
    /\ \/ Quota!Admit(r, 1) /\ pc' = [pc EXCEPT ![r] = After(r, 3)]
       \/ UNCHANGED quotaVars /\ pc' = [pc EXCEPT ![r] = After(r, 3)]
       \/ UNCHANGED quotaVars /\ pc' = [pc EXCEPT ![r] = "refused"]
    /\ UNCHANGED <<time, row, seen, at, slot, daySlot, draft, boundVars, topVars>>

\* returnAdmittedClick does not wait: the unit is back in the lease, or on its way.
HandBack(r) == IF unit[r] = "held" THEN Quota!Return(r) ELSE UNCHANGED quotaVars

HasRoomOrNone(r) == row.reserved <= seen[r].maxClicks
HasRoom(r) == row.reserved < seen[r].maxClicks

AskCap(r) ==
    /\ pc[r] = "cap"
    /\ \/ /\ HasRoom(r)
          /\ row' = [row EXCEPT !.reserved = @ + 1]
          /\ slot' = [slot EXCEPT ![r] = "held"]
          /\ pc' = [pc EXCEPT ![r] = After(r, 4)]
          /\ UNCHANGED quotaVars
       \/ /\ ~HasRoom(r)
          /\ pc' = [pc EXCEPT ![r] = "refused"]
          /\ HandBack(r)
          /\ UNCHANGED <<row, slot>>
    /\ UNCHANGED <<time, seen, at, daySlot, draft, boundVars, topVars>>

\* reserveDailyClick: roll over to the visit's own day, or count up to the cap.
SameDay(r) == row.dayOf = Day(at[r])
DayHasRoom(r) == ~SameDay(r) \/ row.dayCount < seen[r].dailyCap

AskDaily(r) ==
    /\ pc[r] = "daily"
    /\ \/ /\ DayHasRoom(r)
          /\ row' = [row EXCEPT !.dayCount = IF SameDay(r) THEN @ + 1 ELSE 1,
                                !.dayOf = Day(at[r])]
          /\ daySlot' = [daySlot EXCEPT ![r] = "held"]
          /\ pc' = [pc EXCEPT ![r] = "through"]
          /\ UNCHANGED quotaVars
       \/ /\ ~DayHasRoom(r)
          /\ IF NeedsCap(r)
             THEN pc' = [pc EXCEPT ![r] = "uncap"] /\ UNCHANGED quotaVars
             ELSE pc' = [pc EXCEPT ![r] = "refused"] /\ HandBack(r)
          /\ UNCHANGED <<row, daySlot>>
    /\ UNCHANGED <<time, seen, at, slot, draft, boundVars, topVars>>

\* The daily cap has refused: the unit of maxClicks goes back first.
CapKeptAnyway == row
CapHandedBack == IF row.reserved > 0 THEN [row EXCEPT !.reserved = @ - 1] ELSE row
Uncap(r) ==
    /\ pc[r] = "uncap"
    /\ row' = CapHandedBack
    /\ slot' = [slot EXCEPT ![r] = "back"]
    /\ pc' = [pc EXCEPT ![r] = "refused"]
    /\ HandBack(r)
    /\ UNCHANGED <<time, seen, at, daySlot, draft, boundVars, topVars>>

(***************************************************************************)
(* After the redirect: the background task, the queue and its transaction. *)
(***************************************************************************)
\* after(...): clickQueue.push.  From here ClickQueue keeps the click.
Push(r) ==
    /\ pc[r] = "through"
    /\ pc' = [pc EXCEPT ![r] = "queued"]
    /\ IF unit[r] = "held" THEN Quota!Spend(r) ELSE UNCHANGED quotaVars
    /\ slot' = [slot EXCEPT ![r] = IF @ = "held" THEN "spent" ELSE @]
    /\ daySlot' = [daySlot EXCEPT ![r] = IF @ = "held" THEN "spent" ELSE @]
    /\ UNCHANGED <<time, row, seen, at, draft, boundVars, topVars>>

\* queue.ts: the click is counted, and the link deactivated at its cap.
Persist(r) ==
    /\ pc[r] = "queued"
    /\ pc' = [pc EXCEPT ![r] = "counted"]
    /\ row' = [row EXCEPT !.clicks = @ + 1,
                          !.active = @ /\ ~(row.maxClicks > 0 /\ row.clicks + 1 >= row.maxClicks)]
    /\ UNCHANGED <<time, seen, at, slot, daySlot, quotaVars, draft, boundVars, topVars>>

(***************************************************************************)
(* Failures: the outer catch answers 503 and hands nothing back.           *)
(***************************************************************************)
Forfeit(f, r) == [f EXCEPT ![r] = IF @ = "held" THEN "lost" ELSE @]
ForfeitUnit(r) == IF unit[r] = "held" THEN Quota!Lose({r}) ELSE UNCHANGED quotaVars

\* A statement fails, or the process dies while it awaits one, or between the
\* answer and the background task.
Fail(r) ==
    /\ pc[r] \in {"clock", "quota", "cap", "daily", "uncap", "through"}
    /\ Fault
    /\ pc' = [pc EXCEPT ![r] = IF @ = "through" THEN "unrecorded" ELSE "failed"]
    /\ slot' = Forfeit(slot, r) /\ daySlot' = Forfeit(daySlot, r)
    /\ ForfeitUnit(r)
    /\ UNCHANGED <<time, row, seen, at, draft, topVars>>

\* The statement took effect and its answer was lost.
FailAfter(r) ==
    /\ LostReplies /\ Fault
    /\ \/ /\ pc[r] = "clock"
          /\ row' = [row EXCEPT !.startedAt = ClockStart(r)]
          /\ UNCHANGED <<slot, daySlot>>
       \/ /\ pc[r] = "cap" /\ HasRoom(r)
          /\ row' = [row EXCEPT !.reserved = @ + 1]
          /\ slot' = [slot EXCEPT ![r] = "lost"]
          /\ UNCHANGED daySlot
       \/ /\ pc[r] = "daily" /\ DayHasRoom(r)
          /\ row' = [row EXCEPT !.dayCount = IF SameDay(r) THEN @ + 1 ELSE 1,
                                !.dayOf = Day(at[r])]
          /\ daySlot' = [daySlot EXCEPT ![r] = "lost"]
          /\ slot' = Forfeit(slot, r)
       \/ /\ pc[r] = "uncap"
          /\ row' = CapHandedBack
          /\ slot' = [slot EXCEPT ![r] = "back"]
          /\ UNCHANGED daySlot
    /\ pc' = [pc EXCEPT ![r] = "failed"]
    /\ ForfeitUnit(r)
    /\ UNCHANGED <<time, seen, at, draft, topVars>>

(***************************************************************************)
(* The owner's PATCH: it reads the row, and writes one field of it later.  *)
(***************************************************************************)
Open(e) ==
    /\ draft[e] = Closed /\ edits < MaxEdits
    /\ draft' = [draft EXCEPT ![e] = row.lifetime]
    /\ UNCHANGED <<time, row, visitVars, quotaVars, boundVars, topVars>>

Saved(e) ==
    /\ draft[e] # Closed
    /\ edits < MaxEdits /\ edits' = edits + 1
    /\ draft' = [draft EXCEPT ![e] = Closed]
    /\ UNCHANGED <<time, visitVars, quotaVars, faults>>

SaveCap(e, n) ==
    /\ Saved(e)
    /\ row' = [row EXCEPT !.maxClicks = n]
    /\ topCap' = Larger(topCap, n) /\ UNCHANGED <<topDaily, rearmed>>

SaveDaily(e, n) ==
    /\ Saved(e)
    /\ row' = [row EXCEPT !.dailyCap = n]
    /\ topDaily' = Larger(topDaily, n) /\ UNCHANGED <<topCap, rearmed>>

\* Lines 225-231: another lifetime than the one read restarts the clock.
Rearmed(e, m) == IF m # draft[e] THEN None ELSE row.startedAt
SaveLifetime(e, m) ==
    /\ Saved(e)
    /\ row' = [row EXCEPT !.lifetime = m, !.startedAt = Rearmed(e, m)]
    /\ rearmed' = (rearmed \/ m # draft[e]) /\ UNCHANGED <<topCap, topDaily>>

SaveActive(e) ==
    /\ Saved(e)
    /\ row' = [row EXCEPT !.active = ~@]
    /\ UNCHANGED topVars

Tick ==
    /\ time < MaxTime
    /\ CalmMidnight /\ Day(time) # Day(time + 1) =>
           \A r \in Requests : NeedsDaily(r) => pc[r] \notin {"clock", "quota", "cap", "daily"}
    /\ time' = time + 1
    /\ UNCHANGED <<row, visitVars, quotaVars, draft, boundVars, topVars>>

Next ==
    \/ \E r \in Requests :
        \/ Look(r) \/ TurnAway(r) \/ Begin(r)
        \/ Clock(r) \/ AskQuota(r) \/ AskCap(r) \/ AskDaily(r) \/ Uncap(r)
        \/ Push(r) \/ Persist(r) \/ Fail(r) \/ FailAfter(r)
    \/ \E e \in Editors :
        \/ Open(e) \/ SaveActive(e)
        \/ \E n \in Caps : SaveCap(e, n)
        \/ \E n \in DailyCaps : SaveDaily(e, n)
        \/ \E m \in Lifetimes : SaveLifetime(e, m)
    \/ Tick

Spec == Init /\ [][Next]_vars

(***************************************************************************)
(* Properties.                                                             *)
(***************************************************************************)
Rows == [active : BOOLEAN, maxClicks : Caps, dailyCap : DailyCaps, lifetime : Lifetimes,
         reserved : Nat, dayOf : Nat \cup {None}, dayCount : Nat,
         startedAt : Nat \cup {None}, clicks : Nat]
CachedLinks == [active : BOOLEAN, maxClicks : Caps, dailyCap : DailyCaps, lifetime : Lifetimes]
Places == {"idle", "looked", "away", "clock", "quota", "cap", "daily", "uncap", "elapsed",
           "refused", "through", "failed", "unrecorded", "queued", "counted"}
Holdings == {"none", "held", "back", "spent", "lost"}

TypeOK ==
    /\ time \in 0..MaxTime /\ row \in Rows
    /\ pc \in [Requests -> Places] /\ seen \in [Requests -> CachedLinks]
    /\ at \in [Requests -> 0..MaxTime]
    /\ slot \in [Requests -> Holdings] /\ daySlot \in [Requests -> Holdings]
    /\ unit \in [Requests -> Holdings] /\ unitOf \in [Requests -> {0, 1}] /\ ceiling \in Nat
    /\ draft \in [Editors -> Lifetimes \cup {Closed}]
    /\ edits \in 0..MaxEdits /\ faults \in 0..MaxFaults
    /\ topCap \in Caps /\ topDaily \in DailyCaps /\ rearmed \in BOOLEAN

\* The visits that were redirected.
Through == {r \in Requests : pc[r] \in {"through", "unrecorded", "queued", "counted"}}
Capped == {r \in Requests : slot[r] \in {"held", "spent", "lost"}}

\* route.ts:161-165 "a unit taken from the tenant lease is handed back if the
\* link cap then rejects": clicksReserved counts exactly the visits that hold a
\* unit of it, went through on one or lost one to a failure, and a visit that
\* was refused holds nothing of the cap, the day or the quota.
ReservationsAccounted ==
    /\ TypeOK
    /\ row.reserved = Cardinality(Capped)
    /\ \A r \in Requests : pc[r] \in {"refused", "elapsed", "away"} =>
           /\ slot[r] \in {"none", "back"} /\ daySlot[r] = "none" /\ unit[r] \in {"none", "back"}

\* Visits of day d redirected on a unit of the daily cap.
OfDay(d) == {r \in Through : daySlot[r] # "none" /\ Day(at[r]) = d}

\* daily-click-cap.ts:16 "reserve one click against the link's per-UTC-day
\* budget": no day redirects more visits on the daily cap than its largest value.
DailyBudgetKept == \A d \in 0..Day(MaxTime) : Cardinality(OfDay(d)) <= Larger(topDaily, 0)

\* route.ts:197 "exact per-link cap": whatever visits overlap and whatever fails,
\* no more of them are redirected on a cap of the link than its largest value.
CapsKept ==
    /\ Cardinality({r \in Through : slot[r] # "none"}) <= Larger(topCap, 0)
    /\ DailyBudgetKept

\* link-lifetime.ts:22-24 "first caller wins", "all observe the same
\* firstClickAt": while the lifetime stays as it is, a link that has told one
\* visitor it is over never redirects a visit that came later, and every visit
\* it redirected came within the lifetime of the start all of them share.
ExpiredStaysExpired ==
    ~rearmed =>
        \A r \in Through : NeedsClock(r) =>
            /\ row.startedAt # None /\ at[r] <= row.startedAt + seen[r].lifetime
            /\ \A q \in Requests : pc[q] = "elapsed" => at[r] < at[q]
===============================================================================
