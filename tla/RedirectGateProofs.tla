-------------------------- MODULE RedirectGateProofs --------------------------
(***************************************************************************)
(* Proofs about RedirectGate for any visits, editors, caps, lifetimes,     *)
(* quota and number of edits and faults.                                   *)
(***************************************************************************)
EXTENDS RedirectGate, FiniteSetTheorems, TLAPS

\* The first call a visit needs from the n-th on is the one After returns.
LEMMA AfterFirst ==
    ASSUME NEW r \in Requests, NEW n \in 1..4, NEW k \in n..4, Needs(r, Calls[k]),
           \A j \in n..4 : Needs(r, Calls[j]) => k <= j
    PROVE  After(r, n) = Calls[k]
<1> DEFINE left == {i \in n..4 : Needs(r, Calls[i])}
<1>1. k \in left /\ \A j \in left : k <= j
  OBVIOUS
<1>2. \A i \in left : (\A j \in left : i <= j) => i = k
  BY <1>1
<1>3. (CHOOSE i \in left : \A j \in left : i <= j) = k
  BY <1>1, <1>2
<1> QED BY <1>1, <1>3 DEF After

\* The calls of the GET handler in their order, for each visit: the clock of the
\* lifetime, the tenant's quota, the cap, the daily cap (route.ts 171-217).
LEMMA AfterPlaces ==
    ASSUME NEW r \in Requests
    PROVE  /\ After(r, 1) = IF NeedsClock(r) THEN "clock" ELSE
                            IF NeedsQuota(r) THEN "quota" ELSE "through"
           /\ After(r, 2) = IF NeedsQuota(r) THEN "quota" ELSE "through"
           /\ After(r, 3) = IF NeedsCap(r) THEN "cap" ELSE
                            IF NeedsDaily(r) THEN "daily" ELSE "through"
           /\ After(r, 4) = IF NeedsDaily(r) THEN "daily" ELSE "through"
<1>0. Calls[1] = "clock" /\ Calls[2] = "quota" /\ Calls[3] = "cap" /\ Calls[4] = "daily"
  BY DEF Calls
<1>1. /\ (Needs(r, Calls[1]) <=> NeedsClock(r)) /\ (Needs(r, Calls[2]) <=> NeedsQuota(r))
      /\ (Needs(r, Calls[3]) <=> NeedsCap(r))   /\ (Needs(r, Calls[4]) <=> NeedsDaily(r))
      /\ Calls[1] = "clock" /\ Calls[2] = "quota" /\ Calls[3] = "cap" /\ Calls[4] = "daily"
  BY <1>0 DEF Needs
<1>2. NeedsClock(r) \/ NeedsCap(r) \/ NeedsDaily(r) => NeedsQuota(r)
  BY DEF NeedsClock, NeedsCap, NeedsDaily, NeedsQuota
<1>3. ASSUME NEW n \in 1..4, \A j \in n..4 : ~Needs(r, Calls[j])
      PROVE  After(r, n) = "through"
  BY <1>3 DEF After
<1>4. \A j \in Nat : /\ j \in 1..4 <=> j \in {1, 2, 3, 4} 
                     /\ j \in 2..4 <=> j \in {2, 3, 4}
                     /\ j \in 3..4 <=> j \in {3, 4} 
                     /\ j \in 4..4 <=> j = 4
  OBVIOUS
<1>5. After(r, 4) = IF NeedsDaily(r) THEN "daily" ELSE "through"
  BY <1>1, <1>3, <1>4, AfterFirst
<1>6. After(r, 3) = IF NeedsCap(r) THEN "cap" ELSE IF NeedsDaily(r) THEN "daily" ELSE "through"
  <2>1. CASE NeedsCap(r)
    BY <2>1, <1>1, AfterFirst
  <2>2. CASE ~NeedsCap(r) /\ NeedsDaily(r)
    BY <2>2, <1>1, <1>4, AfterFirst
  <2>3. CASE ~NeedsCap(r) /\ ~NeedsDaily(r)
    BY <2>3, <1>1, <1>3, <1>4
  <2> QED BY <2>1, <2>2, <2>3
<1>7. After(r, 2) = IF NeedsQuota(r) THEN "quota" ELSE "through"
  <2>1. CASE NeedsQuota(r)
    BY <2>1, <1>1, AfterFirst
  <2>2. CASE ~NeedsQuota(r)
    BY <2>2, <1>1, <1>2, <1>3, <1>4
  <2> QED BY <2>1, <2>2
<1>8. After(r, 1) = IF NeedsClock(r) THEN "clock" ELSE IF NeedsQuota(r) THEN "quota" ELSE "through"
  <2>1. CASE NeedsClock(r)
    BY <2>1, <1>1, AfterFirst
  <2>2. CASE ~NeedsClock(r) /\ NeedsQuota(r)
    BY <2>2, <1>1, <1>4, AfterFirst
  <2>3. CASE ~NeedsClock(r) /\ ~NeedsQuota(r)
    BY <2>3, <1>1, <1>2, <1>3, <1>4
  <2> QED BY <2>1, <2>2, <2>3
<1> QED BY <1>5, <1>6, <1>7, <1>8

LEMMA AfterType ==
    ASSUME NEW r \in Requests
    PROVE  /\ After(r, 1) \in Places /\ After(r, 2) \in Places
           /\ After(r, 3) \in Places /\ After(r, 4) \in Places
BY AfterPlaces DEF Places

-----------------------------------------------------------------------------
LEMMA TypeInit == Init => TypeOK
<1> SUFFICES ASSUME Init PROVE TypeOK
  OBVIOUS
<1>1. row \in Rows
  <2>1. row \in [active : {TRUE}, maxClicks : Caps, dailyCap : DailyCaps, lifetime : Lifetimes,
                 reserved : {0}, dayOf : {None}, dayCount : {0}, startedAt : {None}, clicks : {0}]
    BY DEF Init
  <2>2. /\ {TRUE} \subseteq BOOLEAN /\ {0} \subseteq Nat
        /\ {None} \subseteq Nat \cup {None}
    OBVIOUS
  <2> QED BY <2>1, <2>2, Zenon DEF Rows
<1>2. Cached(row) \in CachedLinks
  BY <1>1 DEF Cached, CachedLinks, Rows
<1>3. row.maxClicks \in Caps /\ row.dailyCap \in DailyCaps
  BY <1>1 DEF Rows
<1>4. 0 \in 0..MaxTime /\ 0 \in 0..MaxEdits /\ 0 \in 0..MaxFaults
  BY BoundsAssumption
<1> QED BY <1>1, <1>2, <1>3, <1>4, ValuesAssumption DEF Init, TypeOK, Places, Holdings

\* What the statements on the link's row may write to its columns (urls).
LEMMA RowType ==
    ASSUME row \in Rows
    PROVE  /\ \A n \in Nat : [row EXCEPT !.reserved = n] \in Rows
           /\ \A n \in Nat, d \in Nat : [row EXCEPT !.dayCount = n, !.dayOf = d] \in Rows
           /\ \A d \in Nat \cup {None} : [row EXCEPT !.startedAt = d] \in Rows
           /\ \A n \in Nat, b \in BOOLEAN : [row EXCEPT !.clicks = n, !.active = b] \in Rows
           /\ \A b \in BOOLEAN : [row EXCEPT !.active = b] \in Rows
           /\ \A n \in Caps : [row EXCEPT !.maxClicks = n] \in Rows
           /\ \A n \in DailyCaps : [row EXCEPT !.dailyCap = n] \in Rows
           /\ \A m \in Lifetimes, d \in Nat \cup {None} :
                  [row EXCEPT !.lifetime = m, !.startedAt = d] \in Rows
BY DEF Rows

\* The quota a visit uses keeps to its types (ClickQuota).
LEMMA QuotaType ==
    ASSUME unit \in [Requests -> Holdings], unitOf \in [Requests -> {0, 1}], ceiling \in Nat,
           NEW r \in Requests,
           \/ Quota!Admit(r, 1) \/ Quota!Return(r) \/ Quota!Spend(r) \/ Quota!Lose({r})
           \/ HandBack(r) \/ ForfeitUnit(r) \/ UNCHANGED quotaVars
    PROVE  unit' \in [Requests -> Holdings] /\ unitOf' \in [Requests -> {0, 1}] /\ ceiling' \in Nat
BY DEF Holdings, HandBack, ForfeitUnit, quotaVars,
       Quota!Admit, Quota!Return, Quota!Spend, Quota!Lose

LEMMA CachedType == TypeOK => Cached(row) \in CachedLinks
BY DEF TypeOK, Cached, CachedLinks, Rows

\* The steps of one visit and of one editor.
Visit(r) ==
    \/ Look(r) \/ TurnAway(r) \/ Begin(r)
    \/ Clock(r) \/ AskQuota(r) \/ AskCap(r) \/ AskDaily(r) \/ Uncap(r)
    \/ Push(r) \/ Persist(r) \/ Fail(r) \/ FailAfter(r)
Edit(e) ==
    \/ Open(e) \/ SaveActive(e)
    \/ \E n \in Caps : SaveCap(e, n)
    \/ \E n \in DailyCaps : SaveDaily(e, n)
    \/ \E m \in Lifetimes : SaveLifetime(e, m)

LEMMA VisitType == ASSUME TypeOK, NEW r \in Requests, Visit(r) PROVE TypeOK'
<1> USE DEF TypeOK, visitVars, boundVars, topVars
<1>0. /\ After(r, 1) \in Places /\ After(r, 2) \in Places
      /\ After(r, 3) \in Places /\ After(r, 4) \in Places
  BY AfterType
<1>a. row.reserved \in Nat /\ row.dayCount \in Nat /\ row.clicks \in Nat /\ row.active \in BOOLEAN
  BY DEF Rows
<1>b. Day(at[r]) \in Nat /\ ClockStart(r) \in Nat \cup {None}
  BY ValuesAssumption DEF Day, ClockStart, Rows
<1>c. [row EXCEPT !.startedAt = ClockStart(r)] \in Rows
  BY <1>b, RowType
<1>d. [row EXCEPT !.reserved = @ + 1] \in Rows
  <2>1. row.reserved + 1 \in Nat
    BY <1>a
  <2> QED BY <2>1, RowType
<1>e. [row EXCEPT !.dayCount = IF SameDay(r) THEN @ + 1 ELSE 1, !.dayOf = Day(at[r])] \in Rows
  <2>1. (IF SameDay(r) THEN row.dayCount + 1 ELSE 1) \in Nat
    BY <1>a
  <2> QED BY <2>1, <1>b, RowType
<1>f. CapHandedBack \in Rows
  <2>1. row.reserved > 0 => row.reserved - 1 \in Nat
    BY <1>a
  <2> QED BY <2>1, RowType DEF CapHandedBack
<1>1. CASE Look(r)
  BY <1>1, CachedType DEF Look, Places, quotaVars
<1>2. CASE TurnAway(r)
  BY <1>2 DEF TurnAway, Places, quotaVars
<1>3. CASE Begin(r)
  BY <1>3, <1>0 DEF Begin, quotaVars
<1>4. CASE Clock(r)
  BY <1>4, <1>0, <1>c DEF Clock, quotaVars, Places
<1>5. CASE AskQuota(r)
  BY <1>5, <1>0, QuotaType DEF AskQuota, Places
<1>6. CASE AskCap(r)
  <2>1. row' \in Rows
    BY <1>6, <1>d DEF AskCap
  <2>2. slot' \in [Requests -> Holdings] /\ pc' \in [Requests -> Places]
    BY <1>6, <1>0 DEF AskCap, Places, Holdings
  <2>3. unit' \in [Requests -> Holdings] /\ unitOf' \in [Requests -> {0, 1}] /\ ceiling' \in Nat
    BY <1>6, QuotaType DEF AskCap
  <2> QED BY <1>6, <2>1, <2>2, <2>3 DEF AskCap
<1>7. CASE AskDaily(r)
  BY <1>7, <1>e, QuotaType DEF AskDaily, Places, Holdings
<1>8. CASE Uncap(r)
  BY <1>8, <1>f, QuotaType DEF Uncap, Places, Holdings
<1>9. CASE Push(r)
  BY <1>9, QuotaType DEF Push, Places, Holdings
<1>10. CASE Persist(r)
  <2>1. row' \in Rows
    <3> DEFINE live == row.active /\ ~(row.maxClicks > 0 /\ row.clicks + 1 >= row.maxClicks)
    <3>1. live \in BOOLEAN /\ row.clicks + 1 \in Nat
      BY <1>a
    <3>2. [row EXCEPT !.clicks = row.clicks + 1, !.active = live] \in Rows
      BY <3>1, RowType
    <3> QED BY <1>10, <3>2 DEF Persist
  <2> QED BY <1>10, <2>1 DEF Persist, Places, quotaVars
<1>11. CASE Fail(r)
  <2>1. slot' \in [Requests -> Holdings] /\ daySlot' \in [Requests -> Holdings]
    BY <1>11 DEF Fail, Forfeit, Holdings
  <2>2. faults' \in 0..MaxFaults /\ edits' = edits
    BY <1>11, BoundsAssumption DEF Fail, Fault
  <2> QED BY <1>11, <2>1, <2>2, QuotaType DEF Fail, Places
<1>12. CASE FailAfter(r)
  <2>1. slot' \in [Requests -> Holdings] /\ daySlot' \in [Requests -> Holdings]
    BY <1>12 DEF FailAfter, Forfeit, Holdings
  <2>2. faults' \in 0..MaxFaults /\ edits' = edits
    BY <1>12, BoundsAssumption DEF FailAfter, Fault
  <2>3. row' \in Rows
    BY <1>12, <1>c, <1>d, <1>e, <1>f DEF FailAfter
  <2> QED BY <1>12, <2>1, <2>2, <2>3, QuotaType DEF FailAfter, Places
<1> QED BY <1>1, <1>2, <1>3, <1>4, <1>5, <1>6, <1>7, <1>8, <1>9, <1>10, <1>11, <1>12 DEF Visit

LEMMA EditorType == ASSUME TypeOK, NEW e \in Editors, Edit(e) PROVE TypeOK'
<1> USE DEF TypeOK, visitVars, boundVars, topVars, quotaVars
<1>a. row.active \in BOOLEAN /\ row.lifetime \in Lifetimes /\ row.startedAt \in Nat \cup {None}
  BY DEF Rows
<1>b. Saved(e) => /\ edits' \in 0..MaxEdits /\ draft' \in [Editors -> Lifetimes \cup {Closed}]
                  /\ UNCHANGED <<time, visitVars, quotaVars, faults>>
  BY BoundsAssumption DEF Saved
<1>1. CASE Open(e)
  BY <1>1, <1>a DEF Open
<1>2. CASE SaveActive(e)
  BY <1>2, <1>a, <1>b, RowType DEF SaveActive
<1>3. ASSUME NEW n \in Caps, SaveCap(e, n) PROVE TypeOK'
  BY <1>3, <1>b, RowType DEF SaveCap, Larger
<1>4. ASSUME NEW n \in DailyCaps, SaveDaily(e, n) PROVE TypeOK'
  BY <1>4, <1>b, RowType DEF SaveDaily, Larger
<1>5. ASSUME NEW m \in Lifetimes, SaveLifetime(e, m) PROVE TypeOK'
  BY <1>5, <1>a, <1>b, RowType DEF SaveLifetime, Rearmed
<1> QED BY <1>1, <1>2, <1>3, <1>4, <1>5 DEF Edit

LEMMA TypeStep == TypeOK /\ [Next]_vars => TypeOK'
<1> SUFFICES ASSUME TypeOK, [Next]_vars PROVE TypeOK'
  OBVIOUS
<1>1. CASE Tick
  BY <1>1, BoundsAssumption DEF Tick, TypeOK, visitVars, quotaVars, boundVars, topVars
<1>2. CASE UNCHANGED vars
  BY <1>2 DEF vars, TypeOK, visitVars, quotaVars, boundVars, topVars
<1> QED BY <1>1, <1>2, VisitType, EditorType DEF Next, Visit, Edit

-----------------------------------------------------------------------------
(***************************************************************************)
(* What a visit holds at each of its calls.                                *)
(***************************************************************************)
Redirected == {"through", "unrecorded", "queued", "counted"}

Hold(r) ==
    /\ pc[r] = "clock" => NeedsClock(r)
    /\ pc[r] = "cap" => NeedsCap(r)
    /\ pc[r] = "daily" => NeedsDaily(r)
    /\ pc[r] \in {"idle", "looked", "away", "clock", "elapsed", "quota", "cap"} =>
           slot[r] = "none"
    /\ pc[r] = "daily" => slot[r] = IF NeedsCap(r) THEN "held" ELSE "none"
    /\ pc[r] = "uncap" => slot[r] = "held"
    /\ pc[r] = "refused" => slot[r] \in {"none", "back"}
    /\ pc[r] \in Redirected => slot[r] # "back"
    /\ pc[r] \notin Redirected \cup {"failed"} => daySlot[r] = "none"
    /\ pc[r] \in {"idle", "looked", "away", "clock", "elapsed", "quota"} => unit[r] = "none"
    /\ pc[r] \in {"cap", "daily", "uncap"} => unit[r] \in {"none", "held"}
    /\ pc[r] = "refused" => unit[r] \in {"none", "back"}

HoldInv == \A r \in Requests : Hold(r)

\* A step of a visit leaves what the other visits hold alone.
LEMMA OthersStay ==
    ASSUME TypeOK, NEW r \in Requests, Visit(r), NEW q \in Requests \ {r}
    PROVE  /\ pc'[q] = pc[q] /\ seen'[q] = seen[q] /\ at'[q] = at[q]
           /\ slot'[q] = slot[q] /\ daySlot'[q] = daySlot[q] /\ unit'[q] = unit[q]
<1> USE DEF TypeOK, visitVars, quotaVars
<1>1. HandBack(r) \/ ForfeitUnit(r) \/ Quota!Admit(r, 1) \/ Quota!Spend(r) => unit'[q] = unit[q]
  BY DEF HandBack, ForfeitUnit, Quota!Admit, Quota!Return, Quota!Spend, Quota!Lose
<1>2. CASE Look(r) \/ TurnAway(r) \/ Begin(r) \/ Clock(r) \/ Persist(r)
  BY <1>2 DEF Look, TurnAway, Begin, Clock, Persist
<1>3. CASE AskQuota(r) \/ AskCap(r) \/ AskDaily(r) \/ Uncap(r) \/ Push(r)
  BY <1>1, <1>3 DEF AskQuota, AskCap, AskDaily, Uncap, Push
<1>4. CASE Fail(r) \/ FailAfter(r)
  BY <1>1, <1>4 DEF Fail, FailAfter, Forfeit
<1> QED BY <1>2, <1>3, <1>4 DEF Visit

LEMMA HoldVisit == ASSUME TypeOK, HoldInv, NEW r \in Requests, Visit(r) PROVE Hold(r)'
<1> USE DEF TypeOK, visitVars, quotaVars, Hold, Redirected
<1>0. Hold(r)
  BY DEF HoldInv
<1>1. HandBack(r) /\ unit[r] \in {"none", "held"} => unit'[r] \in {"none", "back"}
  BY DEF HandBack, Quota!Return
<1>2. CASE Look(r)
  BY <1>0, <1>2 DEF Look
<1>3. CASE TurnAway(r)
  BY <1>0, <1>3 DEF TurnAway
<1>4. CASE Begin(r)
  <2>1. NeedsClock(r)' = NeedsClock(r)
    BY <1>4 DEF Begin, NeedsClock
  <2> QED BY <1>0, <1>4, <2>1, AfterPlaces DEF Begin
<1>5. CASE Clock(r)
  BY <1>0, <1>5, AfterPlaces DEF Clock
<1>6. CASE AskQuota(r)
  <2>1. NeedsCap(r)' = NeedsCap(r) /\ NeedsDaily(r)' = NeedsDaily(r)
    BY <1>6 DEF AskQuota, NeedsCap, NeedsDaily
  <2>2. unit'[r] \in {"none", "held"} /\ (pc'[r] = "refused" => unit'[r] = "none")
    BY <1>0, <1>6, AfterPlaces DEF AskQuota, Quota!Admit
  <2> QED BY <1>0, <1>6, <2>1, <2>2, AfterPlaces DEF AskQuota
<1>7. CASE AskCap(r)
  <2>1. NeedsCap(r)' = NeedsCap(r) /\ NeedsDaily(r)' = NeedsDaily(r)
    BY <1>7 DEF AskCap, NeedsCap, NeedsDaily
  <2> QED BY <1>0, <1>1, <1>7, <2>1, AfterPlaces DEF AskCap
<1>8. CASE AskDaily(r)
  BY <1>0, <1>1, <1>8 DEF AskDaily
<1>9. CASE Uncap(r)
  BY <1>0, <1>1, <1>9 DEF Uncap
<1>10. CASE Push(r)
  BY <1>0, <1>10 DEF Push
<1>11. CASE Persist(r)
  BY <1>0, <1>11 DEF Persist
<1>12. CASE Fail(r)
  BY <1>0, <1>12 DEF Fail, Forfeit
<1>13. CASE FailAfter(r)
  BY <1>0, <1>13 DEF FailAfter
<1> QED BY <1>2, <1>3, <1>4, <1>5, <1>6, <1>7, <1>8, <1>9, <1>10, <1>11, <1>12, <1>13 DEF Visit

\* Editors and the clock on the wall touch no visit.
LEMMA EditsAside ==
    ASSUME TypeOK, (\E e \in Editors : Edit(e)) \/ Tick \/ UNCHANGED vars
    PROVE  /\ UNCHANGED <<visitVars, quotaVars>>
           /\ row'.reserved = row.reserved
           /\ row'.dayOf = row.dayOf /\ row'.dayCount = row.dayCount
<1> USE DEF TypeOK, Rows
<1>1. ASSUME NEW e \in Editors, Saved(e) PROVE UNCHANGED <<visitVars, quotaVars>>
  BY <1>1 DEF Saved
<1>2. ASSUME NEW e \in Editors, Edit(e) PROVE UNCHANGED <<visitVars, quotaVars>>
  BY <1>1, <1>2 DEF Edit, Open, SaveActive, SaveCap, SaveDaily, SaveLifetime
<1>3. ASSUME NEW e \in Editors, Edit(e)
      PROVE  /\ row'.reserved = row.reserved
             /\ row'.dayOf = row.dayOf /\ row'.dayCount = row.dayCount
  BY <1>3 DEF Edit, Open, SaveActive, SaveCap, SaveDaily, SaveLifetime
<1> QED BY <1>2, <1>3 DEF Tick, vars

LEMMA HoldStep == TypeOK /\ HoldInv /\ [Next]_vars => HoldInv'
<1> SUFFICES ASSUME TypeOK, HoldInv, [Next]_vars, NEW q \in Requests PROVE Hold(q)'
  BY DEF HoldInv
<1>0. Hold(q)
  BY DEF HoldInv
<1>1. ASSUME NEW r \in Requests, Visit(r) PROVE Hold(q)'
  <2>1. CASE q = r
    BY <1>1, <2>1, HoldVisit
  <2>2. CASE q # r
    BY <1>0, <1>1, <2>2, OthersStay DEF Hold, NeedsClock, NeedsCap, NeedsDaily
  <2> QED BY <2>1, <2>2
<1>2. CASE (\E e \in Editors : Edit(e)) \/ Tick \/ UNCHANGED vars
  BY <1>0, <1>2, EditsAside DEF Hold, NeedsClock, NeedsCap, NeedsDaily, visitVars, quotaVars
<1> QED BY <1>1, <1>2 DEF Next, Visit, Edit

-----------------------------------------------------------------------------
(***************************************************************************)
(* clicksReserved counts the units of the cap.                             *)
(***************************************************************************)
CountInv == row.reserved = Cardinality(Capped)

LEMMA CappedFinite == IsFiniteSet(Capped) /\ Cardinality(Capped) \in Nat
BY SetsAssumption, FS_Subset, FS_CardinalityType DEF Capped

\* A step that moves the unit of one visit moves the count with it.
LEMMA CountMoves ==
    ASSUME TypeOK, CountInv, NEW r \in Requests,
           \A q \in Requests \ {r} : slot'[q] = slot[q],
           \/ /\ slot[r] \notin {"held", "spent", "lost"} /\ slot'[r] \in {"held", "spent", "lost"}
              /\ row'.reserved = row.reserved + 1
           \/ /\ slot[r] \in {"held", "spent", "lost"} /\ slot'[r] \notin {"held", "spent", "lost"}
              /\ row' = CapHandedBack
           \/ /\ slot[r] \in {"held", "spent", "lost"} <=> slot'[r] \in {"held", "spent", "lost"}
              /\ row'.reserved = row.reserved
    PROVE  CountInv'
<1>1. CASE /\ slot[r] \notin {"held", "spent", "lost"} /\ slot'[r] \in {"held", "spent", "lost"}
           /\ row'.reserved = row.reserved + 1
  <2>1. Capped' = Capped \cup {r} /\ r \notin Capped
    BY <1>1 DEF Capped
  <2>2. Cardinality(Capped \cup {r}) = Cardinality(Capped) + 1
    BY <2>1, CappedFinite, FS_AddElement
  <2> QED BY <1>1, <2>1, <2>2 DEF CountInv
<1>2. CASE /\ slot[r] \in {"held", "spent", "lost"} /\ slot'[r] \notin {"held", "spent", "lost"}
           /\ row' = CapHandedBack
  <2>1. Capped' = Capped \ {r} /\ r \in Capped
    BY <1>2 DEF Capped
  <2>2. Cardinality(Capped') = Cardinality(Capped) - 1
    BY <2>1, CappedFinite, FS_RemoveElement
  <2>3. Cardinality(Capped) > 0
    BY <2>1, CappedFinite, FS_EmptySet
  <2>4. row'.reserved = row.reserved - 1
    BY <1>2, <2>3 DEF CapHandedBack, CountInv, TypeOK, Rows
  <2> QED BY <2>2, <2>4 DEF CountInv
<1>3. CASE /\ slot[r] \in {"held", "spent", "lost"} <=> slot'[r] \in {"held", "spent", "lost"}
           /\ row'.reserved = row.reserved
  <2>1. Capped' = Capped
    BY <1>3 DEF Capped
  <2> QED BY <1>3, <2>1 DEF CountInv
<1> QED BY <1>1, <1>2, <1>3

LEMMA CountVisit ==
    ASSUME TypeOK, HoldInv, CountInv, NEW r \in Requests, Visit(r) PROVE CountInv'
<1> USE DEF TypeOK, Rows, visitVars
<1>0. Hold(r) /\ \A q \in Requests \ {r} : slot'[q] = slot[q]
  BY OthersStay DEF HoldInv
<1>1. CASE Look(r) \/ TurnAway(r) \/ Begin(r) \/ AskQuota(r)
  <2>1. slot' = slot /\ row' = row
    BY <1>1 DEF Look, TurnAway, Begin, AskQuota
  <2> QED BY <2>1 DEF CountInv, Capped
<1>2. CASE Clock(r) \/ Persist(r)
  <2>1. slot' = slot /\ row'.reserved = row.reserved
    BY <1>2 DEF Clock, Persist
  <2> QED BY <1>0, <2>1, CountMoves
<1>3. CASE AskCap(r)
  <2>1. slot[r] = "none"
    BY <1>0, <1>3 DEF AskCap, Hold
  <2>2. \/ slot'[r] = "held" /\ row'.reserved = row.reserved + 1
        \/ slot' = slot /\ row' = row
    BY <1>3 DEF AskCap
  <2> QED BY <1>0, <2>1, <2>2, CountMoves
<1>4. CASE AskDaily(r)
  <2>1. slot' = slot /\ row'.reserved = row.reserved
    BY <1>4 DEF AskDaily
  <2> QED BY <1>0, <2>1, CountMoves
<1>5. CASE Uncap(r)
  <2>1. slot[r] = "held" /\ slot'[r] = "back" /\ row' = CapHandedBack
    BY <1>0, <1>5 DEF Uncap, Hold
  <2> QED BY <1>0, <2>1, CountMoves
<1>6. CASE Push(r)
  <2>1. slot'[r] = (IF slot[r] = "held" THEN "spent" ELSE slot[r]) /\ row' = row
    BY <1>6 DEF Push
  <2> QED BY <1>0, <2>1, CountMoves
<1>7. CASE Fail(r)
  <2>1. slot'[r] = (IF slot[r] = "held" THEN "lost" ELSE slot[r]) /\ row' = row
    BY <1>7 DEF Fail, Forfeit
  <2> QED BY <1>0, <2>1, CountMoves
<1>8. CASE FailAfter(r)
  <2>1. CASE pc[r] = "clock" /\ slot' = slot /\ row' = [row EXCEPT !.startedAt = ClockStart(r)]
    <3>1. row'.reserved = row.reserved
      BY <2>1
    <3> QED BY <1>0, <2>1, <3>1, CountMoves
  <2>2. CASE pc[r] = "cap" /\ row' = [row EXCEPT !.reserved = @ + 1] /\ slot' = [slot EXCEPT ![r] = "lost"]
    <3>1. slot[r] = "none" /\ slot'[r] = "lost" /\ row'.reserved = row.reserved + 1
      BY <1>0, <2>2 DEF Hold
    <3> QED BY <1>0, <3>1, CountMoves
  <2>3. CASE /\ pc[r] = "daily" /\ slot' = Forfeit(slot, r)
             /\ row' = [row EXCEPT !.dayCount = IF SameDay(r) THEN @ + 1 ELSE 1,
                                   !.dayOf = Day(at[r])]
    <3>1. slot'[r] = (IF slot[r] = "held" THEN "lost" ELSE slot[r]) /\ row'.reserved = row.reserved
      BY <2>3 DEF Forfeit
    <3> QED BY <1>0, <3>1, CountMoves
  <2>4. CASE pc[r] = "uncap" /\ row' = CapHandedBack /\ slot' = [slot EXCEPT ![r] = "back"]
    <3>1. slot[r] = "held" /\ slot'[r] = "back"
      BY <1>0, <2>4 DEF Hold
    <3> QED BY <1>0, <2>4, <3>1, CountMoves
  <2> QED BY <1>8, <2>1, <2>2, <2>3, <2>4 DEF FailAfter
<1> QED BY <1>1, <1>2, <1>3, <1>4, <1>5, <1>6, <1>7, <1>8 DEF Visit

LEMMA CountStep == TypeOK /\ HoldInv /\ CountInv /\ [Next]_vars => CountInv'
<1> SUFFICES ASSUME TypeOK, HoldInv, CountInv, [Next]_vars PROVE CountInv'
  OBVIOUS
<1>1. CASE (\E e \in Editors : Edit(e)) \/ Tick \/ UNCHANGED vars
  BY <1>1, EditsAside DEF CountInv, Capped, visitVars
<1> QED BY <1>1, CountVisit DEF Next, Visit, Edit

\* The inductive invariant of the reservations.
BookInv == TypeOK /\ HoldInv /\ CountInv

LEMMA BookInit == Init => BookInv
<1> SUFFICES ASSUME Init PROVE BookInv
  OBVIOUS
<1>1. HoldInv
  BY DEF Init, HoldInv, Hold, Redirected
<1>2. row.reserved = 0
  BY TypeInit DEF Init, TypeOK, Rows
<1>3. Capped = {}
  BY DEF Init, Capped
<1> QED BY <1>1, <1>2, <1>3, TypeInit, FS_EmptySet DEF BookInv, CountInv

LEMMA BookStep == BookInv /\ [Next]_vars => BookInv'
BY TypeStep, HoldStep, CountStep DEF BookInv

\* clicksReserved is exact and a refused visit holds nothing, for any visits,
\* caps, editors and faults (route.ts 185-217, daily-click-cap.ts).
THEOREM ReservationsExact == Spec => []ReservationsAccounted
<1>1. BookInv => ReservationsAccounted
  BY DEF BookInv, CountInv, HoldInv, Hold, Redirected, ReservationsAccounted
<1> QED BY <1>1, BookInit, BookStep, PTL DEF Spec

-----------------------------------------------------------------------------
(***************************************************************************)
(* The caps: a cap a visit has read is at most the largest so far.         *)
(***************************************************************************)
KnownCaps ==
    /\ row.maxClicks <= topCap /\ row.dailyCap <= topDaily
    /\ \A r \in Requests : seen[r].maxClicks <= topCap /\ seen[r].dailyCap <= topDaily

ReservedInv == row.reserved <= Larger(topCap, 0)

LEMMA CapValues ==
    ASSUME TypeOK
    PROVE  /\ row.maxClicks \in Int /\ row.dailyCap \in Int /\ row.reserved \in Nat
           /\ topCap \in Int /\ topDaily \in Int
           /\ \A r \in Requests : seen[r].maxClicks \in Int /\ seen[r].dailyCap \in Int
           /\ \A n \in Caps \cup DailyCaps : n \in Int
<1>1. \A n \in Caps \cup DailyCaps : n \in Int
  BY ValuesAssumption DEF None
<1>2. row.maxClicks \in Caps /\ row.dailyCap \in DailyCaps /\ row.reserved \in Nat
  BY DEF TypeOK, Rows
<1>3. \A r \in Requests : seen[r].maxClicks \in Caps /\ seen[r].dailyCap \in DailyCaps
  BY DEF TypeOK, CachedLinks
<1>4. topCap \in Caps /\ topDaily \in DailyCaps
  BY DEF TypeOK
<1> QED BY <1>1, <1>2, <1>3, <1>4

LEMMA KnownStep == TypeOK /\ KnownCaps /\ [Next]_vars => KnownCaps'
<1> SUFFICES ASSUME TypeOK, KnownCaps, [Next]_vars PROVE KnownCaps'
  OBVIOUS
<1> USE DEF TypeOK, Rows, KnownCaps
<1>1. ASSUME NEW r \in Requests, Visit(r) PROVE KnownCaps'
  <2>1. row'.maxClicks = row.maxClicks /\ row'.dailyCap = row.dailyCap
    BY <1>1 DEF Visit, Look, TurnAway, Begin, Clock, AskQuota, AskCap, AskDaily, Uncap, Push,
                Persist, Fail, FailAfter, CapHandedBack
  <2>2. topCap' = topCap /\ topDaily' = topDaily
    BY <1>1 DEF Visit, Look, TurnAway, Begin, Clock, AskQuota, AskCap, AskDaily, Uncap, Push,
                Persist, Fail, FailAfter, topVars
  <2>3. seen' = seen \/ seen' = [seen EXCEPT ![r] = Cached(row)]
    BY <1>1 DEF Visit, Look, TurnAway, Begin, Clock, AskQuota, AskCap, AskDaily, Uncap, Push,
                Persist, Fail, FailAfter, visitVars
  <2> QED BY <2>1, <2>2, <2>3 DEF Cached
<1>2. ASSUME NEW e \in Editors, Edit(e) PROVE KnownCaps'
  <2>0. seen' = seen
    BY <1>2, EditsAside DEF visitVars
  <2>1. CASE Open(e) \/ SaveActive(e) \/ \E m \in Lifetimes : SaveLifetime(e, m)
    <3>1. row'.maxClicks = row.maxClicks /\ row'.dailyCap = row.dailyCap
      BY <2>1 DEF Open, SaveActive, SaveLifetime
    <3>2. topCap' = topCap /\ topDaily' = topDaily
      BY <2>1 DEF Open, SaveActive, SaveLifetime, topVars
    <3> QED BY <2>0, <3>1, <3>2
  <2>2. ASSUME NEW n \in Caps, SaveCap(e, n) PROVE KnownCaps'
    <3>1. row'.maxClicks = n /\ row'.dailyCap = row.dailyCap
      BY <2>2 DEF SaveCap
    <3>2. topCap' = Larger(topCap, n) /\ topDaily' = topDaily
      BY <2>2 DEF SaveCap
    <3> QED BY <2>0, <3>1, <3>2, CapValues DEF Larger
  <2>3. ASSUME NEW n \in DailyCaps, SaveDaily(e, n) PROVE KnownCaps'
    <3>1. row'.maxClicks = row.maxClicks /\ row'.dailyCap = n
      BY <2>3 DEF SaveDaily
    <3>2. topCap' = topCap /\ topDaily' = Larger(topDaily, n)
      BY <2>3 DEF SaveDaily
    <3> QED BY <2>0, <3>1, <3>2, CapValues DEF Larger
  <2> QED BY <1>2, <2>1, <2>2, <2>3 DEF Edit
<1>3. CASE Tick \/ UNCHANGED vars
  BY <1>3 DEF Tick, vars, visitVars, topVars
<1> QED BY <1>1, <1>2, <1>3 DEF Next, Visit, Edit

LEMMA ReservedStep ==
    BookInv /\ KnownCaps /\ ReservedInv /\ [Next]_vars => ReservedInv'
<1> SUFFICES ASSUME BookInv, KnownCaps, ReservedInv, [Next]_vars PROVE ReservedInv'
  OBVIOUS
<1> USE DEF BookInv, ReservedInv
<1>1. topCap <= topCap' /\ topCap' \in Int
  <2>1. topCap' \in Int
    BY TypeStep, CapValues DEF TypeOK
  <2>2. topCap' = topCap \/ \E n \in Caps : topCap' = Larger(topCap, n)
    BY DEF Next, Look, TurnAway, Begin, Clock, AskQuota, AskCap, AskDaily, Uncap, Push, Persist,
           Fail, FailAfter, Open, SaveActive, SaveCap, SaveDaily, SaveLifetime, Tick, topVars, vars
  <2> QED BY <2>1, <2>2, CapValues DEF Larger
<1>2. CASE row'.reserved <= row.reserved
  BY <1>1, <1>2, CapValues, TypeStep DEF Larger, TypeOK, Rows
<1>3. ASSUME NEW r \in Requests, HasRoom(r), NeedsCap(r), row'.reserved = row.reserved + 1
      PROVE  ReservedInv'
  BY <1>1, <1>3, CapValues DEF Larger, HasRoom, KnownCaps
<1>4. ASSUME NEW r \in Requests, Visit(r)
      PROVE  \/ row'.reserved <= row.reserved
             \/ HasRoom(r) /\ NeedsCap(r) /\ row'.reserved = row.reserved + 1
  <2> USE DEF TypeOK, Rows
  <2>0. Hold(r)
    BY DEF HoldInv
  <2>1. CASE Look(r) \/ TurnAway(r) \/ Begin(r) \/ AskQuota(r) \/ Push(r) \/ Fail(r)
    BY <2>1, CapValues DEF Look, TurnAway, Begin, AskQuota, Push, Fail
  <2>2. CASE Clock(r) \/ Persist(r) \/ AskDaily(r)
    <3>1. row'.reserved = row.reserved
      BY <2>2 DEF Clock, Persist, AskDaily
    <3> QED BY <3>1, CapValues
  <2>3. CASE AskCap(r)
    BY <2>0, <2>3, CapValues DEF AskCap, Hold
  <2>4. CASE Uncap(r)
    BY <2>4, CapValues DEF Uncap, CapHandedBack
  <2>5. CASE FailAfter(r)
    <3>1. \/ row'.reserved = row.reserved
          \/ pc[r] = "cap" /\ HasRoom(r) /\ row'.reserved = row.reserved + 1
          \/ row' = CapHandedBack
      BY <2>5 DEF FailAfter
    <3>2. row' = CapHandedBack => row'.reserved <= row.reserved
      BY CapValues DEF CapHandedBack
    <3> QED BY <2>0, <3>1, <3>2, CapValues DEF Hold
  <2> QED BY <1>4, <2>1, <2>2, <2>3, <2>4, <2>5 DEF Visit
<1>5. CASE (\E e \in Editors : Edit(e)) \/ Tick \/ UNCHANGED vars
  BY <1>2, <1>5, EditsAside, CapValues
<1> QED BY <1>2, <1>3, <1>4, <1>5 DEF Next, Visit, Edit

-----------------------------------------------------------------------------
(***************************************************************************)
(* The daily cap, as long as no visit stands before it at midnight.        *)
(***************************************************************************)
DayTaken(d) == {r \in Requests : daySlot[r] # "none" /\ Day(at[r]) = d}

DayInv ==
    /\ \A r \in Requests :
           pc[r] \in {"clock", "quota", "cap", "daily"} /\ NeedsDaily(r) => Day(at[r]) = Day(time)
    /\ row.dayOf <= Day(time)
    /\ \A d \in Nat :
           /\ d > row.dayOf => DayTaken(d) = {}
           /\ d = row.dayOf => Cardinality(DayTaken(d)) <= row.dayCount
           /\ Cardinality(DayTaken(d)) <= Larger(topDaily, 0)

LEMMA DayTakenFinite == \A d : IsFiniteSet(DayTaken(d)) /\ Cardinality(DayTaken(d)) \in Nat
BY SetsAssumption, FS_Subset, FS_CardinalityType DEF DayTaken

\* Days do not run backwards, and a stamp lies in one.
LEMMA DayGrows ==
    \A t \in Nat : Day(t) \in Nat /\ Day(t) <= Day(t + 1)
BY ValuesAssumption DEF Day

LEMMA DayValues ==
    ASSUME TypeOK
    PROVE  /\ row.dayOf \in Int /\ row.dayCount \in Nat
           /\ time \in Nat /\ Day(time) \in Nat
           /\ \A r \in Requests : at[r] \in Nat /\ Day(at[r]) \in Nat
           /\ topDaily \in Int
<1>1. row.dayOf \in Nat \cup {None} /\ row.dayCount \in Nat
  BY DEF TypeOK, Rows
<1>2. time \in Nat /\ \A r \in Requests : at[r] \in Nat
  BY BoundsAssumption DEF TypeOK
<1> QED BY <1>1, <1>2, DayGrows, CapValues DEF None

\* The largest daily cap so far only grows.
LEMMA TopGrows ==
    ASSUME TypeOK, [Next]_vars
    PROVE  topDaily <= topDaily' /\ topDaily' \in Int /\ (topDaily' >= 0 => Larger(topDaily', 0) = topDaily')
              /\ Larger(topDaily, 0) <= Larger(topDaily', 0)
<1>1. topDaily' \in Int
  BY TypeStep, CapValues DEF TypeOK
<1>2. topDaily' = topDaily \/ \E n \in DailyCaps : topDaily' = Larger(topDaily, n)
  BY DEF Next, Look, TurnAway, Begin, Clock, AskQuota, AskCap, AskDaily, Uncap, Push, Persist,
         Fail, FailAfter, Open, SaveActive, SaveCap, SaveDaily, SaveLifetime, Tick, topVars, vars
<1> QED BY <1>1, <1>2, CapValues DEF Larger

\* A step that takes no unit of a day and leaves the day's count.
LEMMA DayRests ==
    ASSUME TypeOK, DayInv, [Next]_vars, row'.dayOf = row.dayOf, row'.dayCount = row.dayCount,
           \A q \in Requests : /\ daySlot'[q] # "none" <=> daySlot[q] # "none"
                               /\ daySlot[q] # "none" => at'[q] = at[q],
           Day(time) <= Day(time'),
           \A q \in Requests : pc'[q] \in {"clock", "quota", "cap", "daily"} /\ NeedsDaily(q)'
                                   => Day(at'[q]) = Day(time')
    PROVE  DayInv'
<1>1. \A d : DayTaken(d)' = DayTaken(d)
  BY DEF DayTaken
<1>2. row'.dayOf <= Day(time')
  <2>1. time' \in Nat
    BY TypeStep, BoundsAssumption DEF TypeOK
  <2> QED BY <2>1, DayGrows, DayValues DEF DayInv
<1>3. ASSUME NEW d \in Nat PROVE Cardinality(DayTaken(d)) <= Larger(topDaily', 0)
  BY TopGrows, CapValues, DayTakenFinite DEF DayInv, Larger
<1>4. \A d \in Nat : /\ d > row'.dayOf => DayTaken(d)' = {}
                     /\ d = row'.dayOf => Cardinality(DayTaken(d)') <= row'.dayCount
                     /\ Cardinality(DayTaken(d)') <= Larger(topDaily', 0)
  BY <1>1, <1>3 DEF DayInv
<1> QED BY <1>2, <1>4 DEF DayInv, NeedsDaily

\* Taking a unit of the day of the visit, which is today.
LEMMA DayMoves ==
    ASSUME TypeOK, HoldInv, KnownCaps, DayInv, [Next]_vars, NEW r \in Requests,
           pc[r] = "daily", DayHasRoom(r), daySlot'[r] # "none",
           row' = [row EXCEPT !.dayCount = IF SameDay(r) THEN @ + 1 ELSE 1, !.dayOf = Day(at[r])],
           pc'[r] \notin {"clock", "quota", "cap", "daily"},
           at' = at, time' = time, seen' = seen,
           \A q \in Requests \ {r} : pc'[q] = pc[q] /\ daySlot'[q] = daySlot[q]
    PROVE  DayInv'
<1> DEFINE today == Day(at[r])
<1>0. Hold(r) /\ NeedsDaily(r) /\ daySlot[r] = "none" /\ today = Day(time) /\ today \in Nat
  BY DayValues DEF HoldInv, Hold, Redirected, DayInv
<1>1. /\ row'.dayOf = today
      /\ row'.dayCount = (IF SameDay(r) THEN row.dayCount + 1 ELSE 1)
  BY DEF TypeOK, Rows
<1>2. /\ \A d : d # today => DayTaken(d)' = DayTaken(d)
      /\ DayTaken(today)' = DayTaken(today) \cup {r} /\ r \notin DayTaken(today)
  BY <1>0 DEF DayTaken
<1>3. Cardinality(DayTaken(today) \cup {r}) = Cardinality(DayTaken(today)) + 1
  BY <1>2, DayTakenFinite, FS_AddElement
<1>4. seen[r].dailyCap <= topDaily /\ seen[r].dailyCap \in Nat \ {0}
  BY <1>0, ValuesAssumption DEF KnownCaps, NeedsDaily, TypeOK, CachedLinks
<1>5. Cardinality(DayTaken(today)) + 1 <= row'.dayCount /\ row'.dayCount <= topDaily
  <2>1. CASE SameDay(r)
    <3>1. row.dayOf = today /\ row.dayCount < seen[r].dailyCap
      BY <2>1 DEF SameDay, DayHasRoom
    <3>2. Cardinality(DayTaken(today)) <= row.dayCount
      BY <1>0, <3>1 DEF DayInv
    <3> QED BY <1>1, <1>4, <2>1, <3>1, <3>2, DayValues, DayTakenFinite
  <2>2. CASE ~SameDay(r)
    <3>1. today > row.dayOf
      BY <1>0, <2>2, DayValues DEF SameDay, DayInv
    <3>2. DayTaken(today) = {}
      BY <1>0, <3>1 DEF DayInv
    <3> QED BY <1>1, <1>4, <2>2, <3>2, FS_EmptySet, DayValues
  <2> QED BY <2>1, <2>2
<1>6. row.dayOf <= today
  BY <1>0 DEF DayInv
<1>7. ASSUME NEW d \in Nat
      PROVE  /\ d > row'.dayOf => DayTaken(d)' = {}
             /\ d = row'.dayOf => Cardinality(DayTaken(d)') <= row'.dayCount
             /\ Cardinality(DayTaken(d)') <= Larger(topDaily', 0)
  <2>1. CASE d = today
    <3>1. Cardinality(DayTaken(d)') <= row'.dayCount
      BY <1>2, <1>3, <1>5, <2>1
    <3>2. row'.dayCount <= Larger(topDaily', 0)
      BY <1>1, <1>5, TopGrows, DayValues DEF Larger
    <3>3. Cardinality(DayTaken(d)') \in Nat /\ row'.dayCount \in Nat /\ Larger(topDaily', 0) \in Int
      <4>1. Cardinality(DayTaken(d)') = Cardinality(DayTaken(today)) + 1
        BY <1>2, <1>3, <2>1
      <4> QED BY <1>1, <4>1, DayTakenFinite, TopGrows, DayValues DEF Larger
    <3> QED BY <1>1, <2>1, <3>1, <3>2, <3>3
  <2>2. CASE d # today
    <3>1. d > today => DayTaken(d) = {}
      BY <1>0, <1>6, DayValues DEF DayInv
    <3>2. Cardinality(DayTaken(d)) <= Larger(topDaily', 0)
      BY TopGrows, CapValues, DayTakenFinite DEF DayInv, Larger
    <3> QED BY <1>1, <1>2, <2>2, <3>1, <3>2
  <2> QED BY <2>1, <2>2
<1>8. \A q \in Requests : pc'[q] \in {"clock", "quota", "cap", "daily"} /\ NeedsDaily(q)'
                              => Day(at'[q]) = Day(time')
  BY DEF DayInv, NeedsDaily
<1> QED BY <1>0, <1>1, <1>7, <1>8, DayValues DEF DayInv, NeedsDaily


LEMMA DayVisit ==
    ASSUME TypeOK, HoldInv, KnownCaps, DayInv, NEW r \in Requests, Visit(r)
    PROVE  DayInv'
<1> USE DEF TypeOK, Rows, visitVars
<1>0. Hold(r) /\ [Next]_vars /\ time' = time /\ Day(time) <= Day(time')
  <2>1. time' = time
    BY DEF Visit, Look, TurnAway, Begin, Clock, AskQuota, AskCap, AskDaily, Uncap, Push, Persist,
           Fail, FailAfter
  <2> QED BY <2>1, DayValues DEF HoldInv, Next, Visit
<1>1. \A q \in Requests \ {r} :
          /\ pc'[q] = pc[q] /\ seen'[q] = seen[q] /\ at'[q] = at[q] /\ daySlot'[q] = daySlot[q]
  BY OthersStay
\* Every step of r but the taking of a unit of the day.
<1>2. ASSUME row'.dayOf = row.dayOf, row'.dayCount = row.dayCount,
             daySlot'[r] # "none" <=> daySlot[r] # "none",
             daySlot[r] # "none" => at'[r] = at[r],
             pc'[r] \in {"clock", "quota", "cap", "daily"} /\ NeedsDaily(r)' => Day(at'[r]) = Day(time)
      PROVE  DayInv'
  <2>1. \A q \in Requests : pc'[q] \in {"clock", "quota", "cap", "daily"} /\ NeedsDaily(q)'
                                => Day(at'[q]) = Day(time')
    BY <1>0, <1>1, <1>2 DEF DayInv, NeedsDaily
  <2>2. \A q \in Requests : /\ daySlot'[q] # "none" <=> daySlot[q] # "none"
                            /\ daySlot[q] # "none" => at'[q] = at[q]
    BY <1>1, <1>2
  <2> QED BY <1>0, <1>2, <2>1, <2>2, DayRests
<1>3. CASE Look(r) \/ TurnAway(r)
  BY <1>2, <1>3 DEF Look, TurnAway
<1>4. CASE Begin(r)
  <2>1. daySlot[r] = "none"
    BY <1>0, <1>4 DEF Begin, Hold, Redirected
  <2> QED BY <1>2, <1>4, <2>1 DEF Begin
<1>5. CASE pc[r] \in {"clock", "quota", "cap", "daily", "uncap", "through", "queued"}
           /\ seen' = seen /\ at' = at /\ row'.dayOf = row.dayOf /\ row'.dayCount = row.dayCount
           /\ (daySlot'[r] # "none" <=> daySlot[r] # "none")
           /\ (pc'[r] \in {"clock", "quota", "cap", "daily"} => pc[r] \in {"clock", "quota", "cap", "daily"})
  <2>1. NeedsDaily(r)' <=> NeedsDaily(r)
    BY <1>5 DEF NeedsDaily
  <2> QED BY <1>2, <1>5, <2>1 DEF DayInv
<1>6. CASE Clock(r) \/ AskQuota(r)
  BY <1>5, <1>6, AfterPlaces DEF Clock, AskQuota
<1>7. CASE AskCap(r)
  BY <1>5, <1>7, AfterPlaces DEF AskCap
<1>8. CASE AskDaily(r)
  <2>1. CASE DayHasRoom(r) /\ daySlot' = [daySlot EXCEPT ![r] = "held"]
    BY <1>0, <1>1, <1>8, <2>1, DayMoves DEF AskDaily
  <2>2. CASE daySlot' = daySlot /\ row' = row
    BY <1>5, <1>8, <2>2 DEF AskDaily
  <2> QED BY <1>8, <2>1, <2>2 DEF AskDaily
<1>9. CASE Uncap(r)
  BY <1>5, <1>9 DEF Uncap, CapHandedBack
<1>10. CASE Push(r) \/ Persist(r)
  BY <1>5, <1>10 DEF Push, Persist
<1>11. CASE Fail(r)
  BY <1>5, <1>11 DEF Fail, Forfeit
<1>12. CASE FailAfter(r)
  <2>1. CASE pc[r] # "daily"
    BY <1>5, <1>12, <2>1 DEF FailAfter, CapHandedBack
  <2>2. CASE pc[r] = "daily"
    BY <1>0, <1>1, <1>12, <2>2, DayMoves DEF FailAfter
  <2> QED BY <2>1, <2>2
<1> QED BY <1>3, <1>4, <1>6, <1>7, <1>8, <1>9, <1>10, <1>11, <1>12 DEF Visit

LEMMA DayStep ==
    ASSUME CalmMidnight, TypeOK, HoldInv, KnownCaps, DayInv, [Next]_vars PROVE DayInv'
<1>1. CASE Tick
  <2>1. UNCHANGED <<row, visitVars>> /\ time' = time + 1
    BY <1>1 DEF Tick
  <2>2. Day(time) <= Day(time')
    BY <2>1, DayGrows, DayValues
  <2>3. \A q \in Requests : pc'[q] \in {"clock", "quota", "cap", "daily"} /\ NeedsDaily(q)'
                                => Day(at'[q]) = Day(time')
    <3> SUFFICES ASSUME NEW q \in Requests,
                        pc[q] \in {"clock", "quota", "cap", "daily"}, NeedsDaily(q)
                 PROVE  Day(at[q]) = Day(time + 1)
      BY <2>1 DEF visitVars, NeedsDaily
    <3>1. Day(time) = Day(time + 1)
      BY <1>1, CalmMidnight DEF Tick
    <3> QED BY <3>1 DEF DayInv
  <2> QED BY <2>1, <2>2, <2>3, DayRests DEF visitVars
<1>2. CASE (\E e \in Editors : Edit(e)) \/ UNCHANGED vars
  <2>1. UNCHANGED visitVars /\ row'.dayOf = row.dayOf /\ row'.dayCount = row.dayCount
    BY <1>2, EditsAside
  <2>2. time' = time
    BY <1>2 DEF Edit, Open, SaveActive, SaveCap, SaveDaily, SaveLifetime, Saved, vars
  <2>3. \A q \in Requests : pc'[q] \in {"clock", "quota", "cap", "daily"} /\ NeedsDaily(q)'
                                => Day(at'[q]) = Day(time')
    BY <2>1, <2>2 DEF DayInv, visitVars, NeedsDaily
  <2> QED BY <2>1, <2>2, <2>3, DayRests, DayValues DEF visitVars
<1> QED BY <1>1, <1>2, DayVisit DEF Next, Visit, Edit

\* No more visits are redirected on the cap of a link than its largest value,
\* for any visits, caps, editors, days and faults (route.ts 196-207).
CapInv == BookInv /\ KnownCaps /\ ReservedInv

LEMMA CapInit == Init => CapInv
<1> SUFFICES ASSUME Init PROVE CapInv
  OBVIOUS
<1>1. BookInv /\ TypeOK
  BY BookInit, TypeInit
<1>2. \A r \in Requests : seen[r] = Cached(row)
  BY DEF Init
<1>3. topCap = row.maxClicks /\ topDaily = row.dailyCap
  BY DEF Init
<1>4. row.reserved = 0
  BY <1>1 DEF Init, TypeOK, Rows
<1>5. KnownCaps
  BY <1>1, <1>2, <1>3, CapValues DEF KnownCaps, Cached
<1> QED BY <1>1, <1>4, <1>5, CapValues DEF CapInv, ReservedInv, Larger

LEMMA CapStep == CapInv /\ [Next]_vars => CapInv'
BY BookStep, KnownStep, ReservedStep DEF CapInv, BookInv

LEMMA CapBound ==
    ASSUME CapInv
    PROVE  Cardinality({r \in Through : slot[r] # "none"}) <= Larger(topCap, 0)
<1>1. {r \in Through : slot[r] # "none"} \subseteq Capped
  BY DEF CapInv, BookInv, HoldInv, Hold, Redirected, Through, Capped, TypeOK, Holdings
<1>2. Cardinality({r \in Through : slot[r] # "none"}) <= Cardinality(Capped)
  BY <1>1, CappedFinite, FS_Subset
<1>3. Cardinality({r \in Through : slot[r] # "none"}) \in Nat
  BY <1>1, CappedFinite, FS_Subset, FS_CardinalityType
<1> QED BY <1>2, <1>3, CappedFinite, CapValues
        DEF CapInv, BookInv, CountInv, ReservedInv, Larger

\* The cap of the link alone, at midnight as well: no more visits are redirected
\* on clicksReserved than the largest maxClicks (route.ts 196-207).
THEOREM LinkCapNeverExceeded ==
    Spec => [](Cardinality({r \in Through : slot[r] # "none"}) <= Larger(topCap, 0))
BY CapInit, CapStep, CapBound, PTL DEF Spec

LEMMA DayInit == Init => DayInv
<1> SUFFICES ASSUME Init PROVE DayInv
  OBVIOUS
<1>1. TypeOK
  BY TypeInit
<1>2. row.dayOf = None
  BY DEF Init
<1>3. \A d : DayTaken(d) = {}
  BY DEF Init, DayTaken
<1>4. row.dayOf <= Day(time) /\ row.dayOf \notin Nat
  BY <1>1, <1>2, DayValues DEF None
<1> QED BY <1>1, <1>3, <1>4, FS_EmptySet, CapValues DEF Init, DayInv, Larger

\* However visits overlap and fail, no more are redirected on a cap or a day of
\* the link than its largest value, for any number of them (route.ts 196-217,
\* daily-click-cap.ts), while no visit stands before its daily cap at midnight.
THEOREM CapsNeverExceeded == ASSUME CalmMidnight PROVE Spec => []CapsKept
<1>1. Init => CapInv /\ DayInv
  BY CapInit, DayInit
<1>2. CapInv /\ DayInv /\ [Next]_vars => CapInv' /\ DayInv'
  BY CalmMidnight, CapStep, DayStep DEF CapInv, BookInv
<1>3. CapInv /\ DayInv => CapsKept
  <2> SUFFICES ASSUME CapInv, DayInv, NEW d \in 0..Day(MaxTime)
               PROVE  Cardinality(OfDay(d)) <= Larger(topDaily, 0)
    BY CapBound DEF CapsKept, DailyBudgetKept
  <2>1. OfDay(d) \subseteq DayTaken(d) /\ d \in Nat
    BY BoundsAssumption, DayGrows DEF OfDay, Through, DayTaken
  <2>2. Cardinality(OfDay(d)) <= Cardinality(DayTaken(d)) /\ Cardinality(OfDay(d)) \in Nat
    BY <2>1, DayTakenFinite, FS_Subset, FS_CardinalityType
  <2> QED BY <2>1, <2>2, DayTakenFinite, CapValues DEF DayInv, CapInv, BookInv, Larger
<1> QED BY <1>1, <1>2, <1>3, PTL DEF Spec

-----------------------------------------------------------------------------
(***************************************************************************)
(* The lifetime, as long as no PATCH has changed it.                       *)
(***************************************************************************)
PastClock == {"quota", "cap", "daily", "uncap"} \cup Redirected

InTime(r) == row.startedAt # None /\ at[r] <= row.startedAt + seen[r].lifetime
TooLate(r) == row.startedAt # None /\ at[r] > row.startedAt + seen[r].lifetime

\* Every draft and every cached row carries the one lifetime, and what each
\* visit was told of it still holds of the start they share.
LifeInv ==
    ~rearmed =>
        /\ \A e \in Editors : draft[e] \in {Closed, row.lifetime}
        /\ \A r \in Requests : /\ seen[r].lifetime = row.lifetime
                               /\ NeedsClock(r) /\ pc[r] \in PastClock => InTime(r)
                               /\ pc[r] = "elapsed" => TooLate(r)

LEMMA LifeValues ==
    ASSUME TypeOK
    PROVE  /\ row.lifetime \in Lifetimes /\ row.startedAt \in Nat \cup {None}
           /\ \A r \in Requests : /\ at[r] \in Nat /\ seen[r].lifetime \in Lifetimes
                                  /\ NeedsClock(r) => seen[r].lifetime \in Nat
           /\ Lifetimes \subseteq Nat \cup {None} /\ None \notin Nat
<1>1. row.lifetime \in Lifetimes /\ row.startedAt \in Nat \cup {None}
  BY DEF TypeOK, Rows
<1>2. \A r \in Requests : at[r] \in Nat /\ seen[r].lifetime \in Lifetimes
  BY BoundsAssumption DEF TypeOK, CachedLinks
<1>3. Lifetimes \subseteq Nat \cup {None} /\ None \notin Nat
  BY ValuesAssumption DEF None
<1>4. \A r \in Requests : NeedsClock(r) => seen[r].lifetime \in Nat
  BY <1>2, <1>3 DEF NeedsClock
<1> QED BY <1>1, <1>2, <1>3, <1>4

LEMMA LifeVisit ==
    ASSUME TypeOK, HoldInv, LifeInv, NEW r \in Requests, Visit(r)
    PROVE  LifeInv'
<1> SUFFICES ASSUME ~rearmed' PROVE LifeInv'
  BY DEF LifeInv
<1> USE DEF TypeOK, visitVars, Redirected, PastClock, NeedsClock, InTime, TooLate
<1>0. /\ Hold(r)
      /\ \A q \in Requests \ {r} : pc'[q] = pc[q] /\ seen'[q] = seen[q] /\ at'[q] = at[q]
  BY OthersStay DEF HoldInv
<1>1. rearmed' = rearmed /\ draft' = draft
  BY DEF Visit, Look, TurnAway, Begin, Clock, AskQuota, AskCap, AskDaily, Uncap, Push, Persist,
         Fail, FailAfter, topVars
<1>2. LifeInv /\ ~rearmed
  BY <1>1
\* What the step has to leave of the row, and what it tells r.
<1>3. ASSUME row'.lifetime = row.lifetime,
             row.startedAt # None => row'.startedAt = row.startedAt,
             seen'[r].lifetime = row.lifetime,
             NeedsClock(r)' /\ pc'[r] \in PastClock => InTime(r)',
             pc'[r] = "elapsed" => TooLate(r)'
      PROVE  LifeInv'
  <2>1. \A q \in Requests \ {r} : /\ seen'[q].lifetime = row'.lifetime
                                  /\ NeedsClock(q)' /\ pc'[q] \in PastClock => InTime(q)'
                                  /\ pc'[q] = "elapsed" => TooLate(q)'
    BY <1>0, <1>2, <1>3 DEF LifeInv
  <2> QED BY <1>1, <1>2, <1>3, <2>1 DEF LifeInv
<1>4. CASE Look(r)
  BY <1>2, <1>3, <1>4 DEF Look, Cached, LifeInv
<1>5. CASE TurnAway(r)
  BY <1>2, <1>3, <1>5 DEF TurnAway, LifeInv
<1>6. CASE Begin(r)
  <2>1. NeedsClock(r)' => pc'[r] = "clock"
    BY <1>6, AfterPlaces DEF Begin
  <2>2. pc'[r] # "elapsed"
    BY <1>6, AfterPlaces DEF Begin
  <2> QED BY <1>2, <1>3, <1>6, <2>1, <2>2 DEF Begin, LifeInv
\* The statement of the clock: the first caller's moment is the start.
<1>7. CASE (Clock(r) \/ FailAfter(r)) /\ pc[r] = "clock"
  <2>1. row' = [row EXCEPT !.startedAt = ClockStart(r)] /\ seen' = seen /\ at' = at
    BY <1>7 DEF Clock, FailAfter
  <2>2. row'.startedAt = ClockStart(r) /\ row'.lifetime = row.lifetime
    BY <2>1 DEF Rows
  <2>3. \/ pc'[r] = "failed"
        \/ pc'[r] = "elapsed" /\ Elapsed(r)
        \/ pc'[r] # "elapsed" /\ ~Elapsed(r)
    BY <1>7, AfterPlaces DEF Clock, FailAfter
  <2>4. ClockStart(r) \in Nat /\ seen[r].lifetime \in Nat
    BY <1>0, <1>7, LifeValues DEF ClockStart, Hold
  <2> QED BY <1>2, <1>3, <2>1, <2>2, <2>3, <2>4, LifeValues DEF Elapsed, LifeInv, ClockStart
\* Every other statement leaves the start alone, and passes on a visit in time.
<1>8. ASSUME row'.lifetime = row.lifetime, row'.startedAt = row.startedAt, seen' = seen, at' = at,
             pc'[r] # "elapsed", pc[r] \in PastClock \/ pc'[r] \notin PastClock
      PROVE  LifeInv'
  BY <1>2, <1>3, <1>8 DEF LifeInv
<1>9. CASE AskQuota(r)
  BY <1>8, <1>9, AfterPlaces DEF AskQuota
<1>10. CASE AskCap(r)
  BY <1>8, <1>10, AfterPlaces DEF AskCap, Rows
<1>11. CASE AskDaily(r)
  BY <1>8, <1>11 DEF AskDaily, Rows
<1>12. CASE Uncap(r)
  BY <1>8, <1>12 DEF Uncap, CapHandedBack, Rows
<1>13. CASE Push(r)
  BY <1>8, <1>13 DEF Push
<1>14. CASE Persist(r)
  BY <1>8, <1>14 DEF Persist, Rows
<1>15. CASE Fail(r)
  BY <1>8, <1>15 DEF Fail
<1>16. CASE FailAfter(r) /\ pc[r] # "clock"
  <2>1. row'.lifetime = row.lifetime /\ row'.startedAt = row.startedAt
    BY <1>16 DEF FailAfter, CapHandedBack, Rows
  <2> QED BY <1>8, <1>16, <2>1 DEF FailAfter
<1>17. Clock(r) => pc[r] = "clock"
  BY DEF Clock
<1> QED BY <1>4, <1>5, <1>6, <1>7, <1>9, <1>10, <1>11, <1>12, <1>13, <1>14, <1>15, <1>16, <1>17
        DEF Visit

\* The owner's PATCH: a save that keeps the lifetime it read keeps the start.
LEMMA LifeEdit ==
    ASSUME TypeOK, LifeInv, NEW e \in Editors, Edit(e) PROVE LifeInv'
<1> SUFFICES ASSUME ~rearmed' PROVE LifeInv'
  BY DEF LifeInv
<1> USE DEF TypeOK, visitVars, NeedsClock, InTime, TooLate
<1>1. ~rearmed /\ UNCHANGED visitVars
  BY EditsAside DEF Edit, Open, SaveActive, SaveCap, SaveDaily, SaveLifetime, topVars
<1>2. ASSUME row'.lifetime = row.lifetime, row'.startedAt = row.startedAt,
             \A f \in Editors : draft'[f] \in {draft[f], Closed, row.lifetime}
      PROVE  LifeInv'
  BY <1>1, <1>2 DEF LifeInv
<1>3. CASE Open(e)
  BY <1>2, <1>3 DEF Open
<1>4. Saved(e) => \A f \in Editors : draft'[f] \in {draft[f], Closed}
  BY DEF Saved
<1>5. CASE SaveActive(e)
  BY <1>2, <1>4, <1>5 DEF SaveActive, Rows
<1>6. ASSUME NEW n \in Caps, SaveCap(e, n) PROVE LifeInv'
  BY <1>2, <1>4, <1>6 DEF SaveCap, Rows
<1>7. ASSUME NEW n \in DailyCaps, SaveDaily(e, n) PROVE LifeInv'
  BY <1>2, <1>4, <1>7 DEF SaveDaily, Rows
<1>8. ASSUME NEW m \in Lifetimes, SaveLifetime(e, m) PROVE LifeInv'
  <2>1. m = draft[e] /\ draft[e] # Closed
    BY <1>8 DEF SaveLifetime, Saved
  <2>2. m = row.lifetime
    BY <1>1, <2>1 DEF LifeInv
  <2>3. row'.lifetime = row.lifetime /\ row'.startedAt = row.startedAt
    BY <1>8, <2>1, <2>2 DEF SaveLifetime, Rearmed, Rows
  <2> QED BY <1>2, <1>4, <1>8, <2>3 DEF SaveLifetime
<1> QED BY <1>3, <1>5, <1>6, <1>7, <1>8 DEF Edit

LEMMA LifeInit == Init => LifeInv
<1> SUFFICES ASSUME Init PROVE LifeInv
  OBVIOUS
<1> QED BY DEF Init, LifeInv, Cached, PastClock, Redirected

\* A visit that came after the lifetime is told so and one redirected came within
\* it, of the one start they share, while no PATCH changes the lifetime
\* (link-lifetime.ts 16-35, route.ts 174-183): for any visits, faults and edits.
THEOREM LifetimeKept == Spec => []ExpiredStaysExpired
<1>1. Init => BookInv /\ LifeInv
  BY BookInit, LifeInit
<1>2. BookInv /\ LifeInv /\ [Next]_vars => BookInv' /\ LifeInv'
  <2> SUFFICES ASSUME BookInv, LifeInv, [Next]_vars PROVE LifeInv'
    BY BookStep
  <2>1. CASE Tick \/ UNCHANGED vars
    <3>1. UNCHANGED <<row, visitVars, draft, rearmed>>
      BY <2>1 DEF Tick, vars, topVars
    <3> QED BY <3>1 DEF LifeInv, visitVars, NeedsClock, InTime, TooLate
  <2> QED BY <2>1, LifeVisit, LifeEdit DEF BookInv, Next, Visit, Edit
<1>3. BookInv /\ LifeInv => ExpiredStaysExpired
  <2> SUFFICES ASSUME TypeOK, LifeInv, ~rearmed, NEW r \in Through, NeedsClock(r)
               PROVE  /\ row.startedAt # None /\ at[r] <= row.startedAt + seen[r].lifetime
                      /\ \A q \in Requests : pc[q] = "elapsed" => at[r] < at[q]
    BY DEF ExpiredStaysExpired, BookInv
  <2>1. r \in Requests /\ InTime(r)
    BY DEF LifeInv, Through, PastClock, Redirected
  <2>2. \A q \in Requests : pc[q] = "elapsed" => TooLate(q) /\ seen[q].lifetime = seen[r].lifetime
    BY <2>1 DEF LifeInv
  <2> QED BY <2>1, <2>2, LifeValues DEF InTime, TooLate
<1> QED BY <1>1, <1>2, <1>3, PTL DEF Spec

===============================================================================
