--------------------------- MODULE ClickQueueProofs ---------------------------
(***************************************************************************)
(* Proofs about ClickQueue for any clicks, links, workers, batch size and  *)
(* number of faults.                                                       *)
(***************************************************************************)
EXTENDS ClickQueue, SequenceTheorems, FiniteSetTheorems, TLAPS

(***************************************************************************)
(* Redis list commands as operations on sequences: what LPUSH, RPOPLPUSH   *)
(* and LREM do to the set of entries a list holds.                         *)
(***************************************************************************)
\* LPUSH adds its argument and keeps every entry (queue.ts push).
LEMMA PushSet ==
    ASSUME NEW S, NEW s \in Seq(S), NEW e \in S
    PROVE  /\ LPush(e, s) \in Seq(S)
           /\ ToSet(LPush(e, s)) = {e} \cup ToSet(s)
<1>1. <<e>> \o s \in Seq(S) /\ Len(<<e>> \o s) = Len(s) + 1
  OBVIOUS
<1>2. ASSUME NEW x \in ToSet(<<e>> \o s) PROVE x \in {e} \cup ToSet(s)
  BY DEF ToSet
<1>3. e \in ToSet(<<e>> \o s)
  <2>1. (<<e>> \o s)[1] = e /\ 1 \in DOMAIN (<<e>> \o s)
    OBVIOUS
  <2> QED BY <2>1 DEF ToSet
<1>4. ASSUME NEW x \in ToSet(s) PROVE x \in ToSet(<<e>> \o s)
  <2>1. PICK i \in DOMAIN s : x = s[i]
    BY DEF ToSet
  <2>2. i + 1 \in DOMAIN (<<e>> \o s) /\ (<<e>> \o s)[i + 1] = x
    BY <2>1
  <2> QED BY <2>2 DEF ToSet
<1> QED BY <1>1, <1>2, <1>3, <1>4 DEF LPush

\* RPOPLPUSH takes the last entry and keeps the others (queue.ts processBatch).
LEMMA PopSet ==
    ASSUME NEW S, NEW s \in Seq(S), s # <<>>
    PROVE  /\ Front(s) \in Seq(S) /\ Last(s) \in S
           /\ ToSet(s) = {Last(s)} \cup ToSet(Front(s))
<1>1. Len(s) \in Nat \ {0} /\ DOMAIN s = 1..Len(s)
  OBVIOUS
<1>2. Front(s) \in Seq(S) /\ DOMAIN Front(s) = 1..(Len(s) - 1)
         /\ \A i \in 1..(Len(s) - 1) : Front(s)[i] = s[i]
  BY <1>1 DEF Front
<1>3. Last(s) \in S
  BY <1>1 DEF Last
<1>4. ToSet(s) = {Last(s)} \cup ToSet(Front(s))
  <2>1. ASSUME NEW x \in ToSet(s) PROVE x \in {Last(s)} \cup ToSet(Front(s))
    <3>1. PICK i \in 1..Len(s) : x = s[i]
      BY <1>1 DEF ToSet
    <3>2. CASE i = Len(s)
      BY <3>1, <3>2 DEF Last
    <3>3. CASE i # Len(s)
      <4> Len(s) \in Nat
        BY <1>1
      <4>1. i \in 1..(Len(s) - 1)
        BY <3>3
      <4> QED BY <4>1, <3>1, <1>2 DEF ToSet
    <3> QED BY <3>2, <3>3
  <2>2. Last(s) \in ToSet(s)
    BY <1>1 DEF Last, ToSet
  <2>3. ToSet(Front(s)) \subseteq ToSet(s)
    BY <1>1, <1>2 DEF ToSet
  <2> QED BY <2>1, <2>2, <2>3
<1> QED BY <1>2, <1>3, <1>4

\* RPOPLPUSH moves an entry: together the two lists hold what they held.
LEMMA MoveSet ==
    ASSUME NEW S, NEW s \in Seq(S), NEW t \in Seq(S), s # <<>>
    PROVE  ToSet(Front(s)) \cup ToSet(LPush(Last(s), t)) = ToSet(s) \cup ToSet(t)
<1>1. Last(s) \in S /\ ToSet(s) = {Last(s)} \cup ToSet(Front(s))
  BY PopSet
<1>2. ToSet(LPush(Last(s), t)) = {Last(s)} \cup ToSet(t)
  BY <1>1, PushSet
<1> QED BY <1>1, <1>2

\* Appending to a worker's batch adds the entry.
LEMMA AppendSet ==
    ASSUME NEW S, NEW s \in Seq(S), NEW e \in S
    PROVE  /\ Append(s, e) \in Seq(S)
           /\ ToSet(Append(s, e)) = {e} \cup ToSet(s)
<1>1. Append(s, e) \in Seq(S) /\ Len(Append(s, e)) = Len(s) + 1
         /\ \A i \in 1..Len(s) : Append(s, e)[i] = s[i]
         /\ Append(s, e)[Len(s) + 1] = e
  OBVIOUS
<1>2. DOMAIN Append(s, e) = 1..(Len(s) + 1) /\ DOMAIN s = 1..Len(s) /\ Len(s) \in Nat
  BY <1>1
<1>3. ASSUME NEW x \in ToSet(Append(s, e)) PROVE x \in {e} \cup ToSet(s)
  BY <1>1, <1>2 DEF ToSet
<1>4. e \in ToSet(Append(s, e))
  BY <1>1, <1>2 DEF ToSet
<1>5. ASSUME NEW x \in ToSet(s) PROVE x \in ToSet(Append(s, e))
  <2>1. PICK i \in 1..Len(s) : x = s[i]
    BY <1>2 DEF ToSet
  <2>2. i \in 1..(Len(s) + 1) /\ Append(s, e)[i] = x
    BY <2>1, <1>1, <1>2
  <2> QED BY <2>2, <1>2 DEF ToSet
<1> QED BY <1>1, <1>3, <1>4, <1>5

\* LREM key 1 entry removes no entry but that one (queue.ts processBatch).
LEMMA RemoveSet ==
    ASSUME NEW S, NEW s \in Seq(S), NEW e
    PROVE  /\ LRem(s, e) \in Seq(S)
           /\ ToSet(s) \ {e} \subseteq ToSet(LRem(s, e))
           /\ ToSet(LRem(s, e)) \subseteq ToSet(s)
<1> DEFINE t == [i \in 1..(Len(s) - 1) |->
                   IF \E j \in 1..i : s[j] = e THEN s[i + 1] ELSE s[i]]
<1>0. Len(s) \in Nat /\ DOMAIN s = 1..Len(s) /\ \A i \in 1..Len(s) : s[i] \in S
  OBVIOUS
<1>1. CASE e \notin ToSet(s)
  BY <1>1 DEF LRem
<1>2. CASE e \in ToSet(s)
  <2>1. Len(s) \in Nat \ {0}
    BY <1>0, <1>2 DEF ToSet
  <2>2. DOMAIN t = 1..(Len(s) - 1)
           /\ \A i \in 1..(Len(s) - 1) : t[i] = IF \E j \in 1..i : s[j] = e THEN s[i + 1] ELSE s[i]
    OBVIOUS
  <2> HIDE DEF t
  <2>3. \A i \in 1..(Len(s) - 1) : i \in 1..Len(s) /\ i + 1 \in 1..Len(s)
    BY <2>1
  <2>4. \A i \in 1..(Len(s) - 1) : t[i] \in S /\ \E j \in 1..Len(s) : t[i] = s[j]
    BY <2>2, <2>3, <1>0
  <2>5. t \in Seq(S)
    <3>1. t \in [1..(Len(s) - 1) -> S]
      BY <2>2, <2>4 DEF t
    <3> QED BY <3>1, <2>1
  <2>6. ToSet(t) \subseteq ToSet(s)
    BY <2>2, <2>4, <1>0 DEF ToSet
  <2>7. ASSUME NEW x \in ToSet(s), x # e PROVE x \in ToSet(t)
    <3>1. PICK i \in 1..Len(s) : x = s[i]
      BY <1>0 DEF ToSet
    <3>2. CASE \E j \in 1..(i - 1) : s[j] = e
      <4>1. i - 1 \in 1..(Len(s) - 1) /\ (i - 1) + 1 = i
        BY <3>2, <2>1
      <4>2. t[i - 1] = s[i]
        BY <4>1, <3>2, <2>2
      <4> QED BY <4>1, <4>2, <3>1, <2>2 DEF ToSet
    <3>3. CASE ~ \E j \in 1..(i - 1) : s[j] = e
      <4>1. ~ \E j \in 1..i : s[j] = e
        <5> SUFFICES ASSUME NEW j \in 1..i, s[j] = e PROVE FALSE
          OBVIOUS
        <5>1. j # i
          BY <3>1, <2>7
        <5>2. j \in 1..(i - 1)
          BY <5>1
        <5> QED BY <5>2, <3>3
      <4>2. i # Len(s)
        BY <4>1, <1>2, <1>0 DEF ToSet
      <4>3. i \in 1..(Len(s) - 1)
        BY <4>2, <2>1
      <4>4. t[i] = s[i]
        BY <4>1, <4>3, <2>2
      <4> QED BY <4>3, <4>4, <3>1, <2>2 DEF ToSet
    <3> QED BY <3>2, <3>3
  <2>8. LRem(s, e) = t
    BY <1>2 DEF LRem, t
  <2> QED BY <2>5, <2>6, <2>7, <2>8
<1> QED BY <1>1, <1>2

(***************************************************************************)
(* Types.                                                                  *)
(***************************************************************************)

\* Every counter of a batch is a number: batches are finite sets of clicks.
LEMMA CountIsNat ==
    ASSUME NEW S \in SUBSET Clicks
    PROVE  IsFiniteSet(S) /\ Cardinality(S) \in Nat
BY SetsAssumption, FS_Subset, FS_CardinalityType

LEMMA CommitType ==
    ASSUME TypeOK, NEW p \in Callers, Commit(p)
    PROVE  DbOK' /\ persisted' \subseteq Clicks
<1>1. Fresh(p) \subseteq Clicks
  BY DEF TypeOK, CallOK, Fresh
<1>2. \A l \in Links : Cardinality(On(Fresh(p), l)) \in Nat
  BY <1>1, CountIsNat DEF On
<1>3. \A l \in Links, d \in Days : Cardinality(OnDay(Fresh(p), l, d)) \in Nat
  BY <1>1, CountIsNat DEF On, OnDay
<1>4. \A l \in Links : Cardinality(On(CountedHuman(Fresh(p)), l)) \in Nat
  BY <1>1, CountIsNat DEF On, CountedHuman
<1>5. Cardinality(Charged(Fresh(p))) \in Nat
  BY <1>1, CountIsNat DEF Charged
<1>6. total' \in [Links -> Nat] /\ human' \in [Links -> Nat] /\ usage' \in Nat
  BY <1>2, <1>4, <1>5 DEF TypeOK, DbOK, Commit
<1>7. daily' \in [Links \X Days -> Nat]
  BY <1>3 DEF TypeOK, DbOK, Commit
<1>8. active' \in [Links -> BOOLEAN]
  BY Zenon DEF TypeOK, DbOK, Commit
<1> QED BY <1>1, <1>6, <1>7, <1>8 DEF TypeOK, DbOK, HistoryOK, Commit

\* A call that ends leaves the local variables of a caller that has not begun.
LEMMA ReturnType ==
    ASSUME CallOK, NEW p \in Callers, NEW step \in Steps, Return(p, step),
           faults' \in 0..MaxFaults
    PROVE  CallOK'
BY DEF CallOK, Return, Goto

LEMMA FaultType == CallOK /\ Fault => faults' \in 0..MaxFaults
BY BoundsAssumption DEF CallOK, Fault

LEMMA GotoType ==
    ASSUME CallOK, NEW p \in Callers, NEW step \in Steps, Goto(p, step),
           faults' \in 0..MaxFaults, UNCHANGED <<batch, prep, count>>
    PROVE  CallOK'
BY DEF CallOK, Goto

LEMMA AfterAckType ==
    ASSUME CallOK, NEW w \in Workers, AfterAck(w), faults' \in 0..MaxFaults
    PROVE  CallOK'
<1>1. w \in Callers /\ "idle" \in Steps /\ "quarantine" \in Steps
  BY DEF Callers, Steps
<1>2. CASE Return(w, "idle")
  BY <1>1, <1>2, ReturnType
<1>3. CASE /\ Goto(w, "quarantine") /\ count' = [count EXCEPT ![w] = 0]
           /\ UNCHANGED <<batch, prep>>
  BY <1>1, <1>3 DEF CallOK, Goto
<1> QED BY <1>2, <1>3 DEF AfterAck

LEMMA TypeStep == TypeOK /\ [Next]_vars => TypeOK'
<1> SUFFICES ASSUME TypeOK, [Next]_vars PROVE TypeOK'
  OBVIOUS
<1> USE DEF TypeOK, redisVars, pushVars, dbVars, callVars, historyVars
<1>0. CallOK /\ Clicks \subseteq Callers /\ Workers \subseteq Callers /\ Clicks \subseteq Raw /\ Malformed \subseteq Raw
  BY DEF Callers, Raw
<1>1. ASSUME NEW c \in Clicks, RequestNext(c) PROVE TypeOK'
  <2>1. CASE Push(c)
    <3>1. CallOK'
      BY <1>0, <2>1 DEF Push, CallOK, Goto, Steps
    <3> QED BY <2>1, <3>1 DEF Push, ListsOK, PushOK, DbOK, HistoryOK
  <2>2. CASE Land(c)
    <3>1. ListsOK'
      BY <1>0, <2>2, PushSet DEF Land, ListsOK
    <3>2. PushOK'
      BY <2>2, BoundsAssumption DEF Land, PushOK, MaySend
    <3> QED BY <2>2, <3>1, <3>2 DEF Land, DbOK, CallOK, HistoryOK
  <2>3. CASE Accepted(c)
    <3>1. CallOK'
      BY <1>0, <2>3 DEF Accepted, CallOK, Goto, Steps
    <3> QED BY <2>3, <3>1 DEF Accepted, ListsOK, PushOK, DbOK, HistoryOK
  <2>4. CASE PersistDirectly(c)
    <3>1. CallOK'
      BY <1>0, <2>4, FaultType DEF PersistDirectly, CallOK, Goto, Steps
    <3> QED BY <2>4, <3>1 DEF PersistDirectly, ListsOK, PushOK, DbOK, HistoryOK
  <2>5. CASE FanOutDirect(c)
    <3>1. CallOK'
      BY <1>0, <2>5, ReturnType DEF FanOutDirect, CallOK, Steps
    <3>2. HistoryOK'
      BY <1>0, <2>5 DEF FanOutDirect, HistoryOK, CallOK
    <3> QED BY <2>5, <3>1, <3>2 DEF FanOutDirect, ListsOK, PushOK, DbOK
  <2> QED BY <1>1, <2>1, <2>2, <2>3, <2>4, <2>5 DEF RequestNext
<1>2. ASSUME NEW w \in Workers, WorkerNext(w) PROVE TypeOK'
  <2>1. CASE StartBatch(w)
    <3>1. CallOK'
      BY <1>0, <2>1 DEF StartBatch, CallOK, Goto, Steps
    <3> QED BY <2>1, <3>1 DEF StartBatch, ListsOK, PushOK, DbOK, HistoryOK
  <2>2. CASE Recover(w)
    <3>1. ListsOK'
      BY <2>2, PopSet, PushSet DEF Recover, ListsOK
    <3>2. CallOK'
      BY <1>0, <2>2 DEF Recover, Step, CallOK
    <3> QED BY <2>2, <3>1, <3>2 DEF Recover, PushOK, DbOK, HistoryOK
  <2>3. CASE RecoverEnds(w)
    <3>1. CallOK'
      BY <1>0, <2>3 DEF RecoverEnds, CallOK, Goto, Steps
    <3> QED BY <2>3, <3>1 DEF RecoverEnds, ListsOK, PushOK, DbOK, HistoryOK
  <2>4. CASE Claim(w)
    <3>1. ListsOK' /\ Last(queue) \in Raw
      BY <2>4, PopSet, PushSet DEF Claim, ListsOK
    <3>2. CallOK'
      BY <1>0, <2>4, <3>1 DEF Claim, CallOK
    <3> QED BY <2>4, <3>1, <3>2 DEF Claim, PushOK, DbOK, HistoryOK
  <2>5. CASE ClaimUnseen(w)
    <3>1. ListsOK'
      BY <2>5, PopSet, PushSet DEF ClaimUnseen, ListsOK
    <3>2. CallOK'
      BY <1>0, <2>5, FaultType DEF ClaimUnseen, CallOK
    <3> QED BY <2>5, <3>1, <3>2 DEF ClaimUnseen, PushOK, DbOK, HistoryOK
  <2>6. CASE ClaimEnds(w)
    <3>1. CallOK'
      <4>1. \E step \in Steps : Goto(w, step)
        BY <2>6 DEF ClaimEnds, Steps
      <4> QED BY <1>0, <2>6, <4>1 DEF ClaimEnds, CallOK, Goto
    <3> QED BY <2>6, <3>1 DEF ClaimEnds, ListsOK, PushOK, DbOK, HistoryOK
  <2>7. CASE FanOut(w)
    <3>1. CallOK' /\ HistoryOK'
      BY <1>0, <2>7 DEF FanOut, CallOK, Goto, Steps, HistoryOK
    <3> QED BY <2>7, <3>1 DEF FanOut, ListsOK, PushOK, DbOK
  <2>8. CASE Ack(w)
    <3>1. ListsOK'
      BY <2>8, RemoveSet DEF Ack, ListsOK
    <3>2. CallOK'
      BY <1>0, <2>8 DEF Ack, Step, CallOK
    <3> QED BY <2>8, <3>1, <3>2 DEF Ack, PushOK, DbOK, HistoryOK
  <2>9. CASE AckEnds(w)
    <3>1. CallOK'
      BY <1>0, <2>9, AfterAckType DEF AckEnds, CallOK
    <3> QED BY <2>9, <3>1 DEF AckEnds, ListsOK, PushOK, DbOK, HistoryOK
  <2>10. CASE AckFails(w)
    <3>1. CallOK'
      BY <1>0, <2>10, AfterAckType, FaultType DEF AckFails
    <3> QED BY <2>10, <3>1 DEF AckFails, ListsOK, PushOK, DbOK, HistoryOK
  <2>11. CASE Quarantine(w)
    <3>1. Bad(w) \subseteq Raw
      BY <1>0 DEF Bad, CallOK, ToSet
    <3>2. CallOK'
      BY <1>0, <2>11 DEF Quarantine, CallOK, Goto, Steps
    <3> QED BY <2>11, <3>1, <3>2 DEF Quarantine, ListsOK, PushOK, DbOK, HistoryOK
  <2>12. CASE Unlist(w)
    <3>1. ListsOK'
      BY <2>12, RemoveSet DEF Unlist, ListsOK
    <3>2. CallOK'
      BY <1>0, <2>12 DEF Unlist, Step, CallOK
    <3> QED BY <2>12, <3>1, <3>2 DEF Unlist, PushOK, DbOK, HistoryOK
  <2>13. CASE UnlistEnds(w)
    <3>1. CallOK'
      BY <1>0, <2>13, ReturnType DEF UnlistEnds, CallOK, Steps
    <3> QED BY <2>13, <3>1 DEF UnlistEnds, ListsOK, PushOK, DbOK, HistoryOK
  <2> QED BY <1>2, <2>1, <2>2, <2>3, <2>4, <2>5, <2>6, <2>7, <2>8, <2>9, <2>10, <2>11,
             <2>12, <2>13 DEF WorkerNext
<1>3. ASSUME NEW p \in Callers, PersistNext(p) PROVE TypeOK'
  <2>0. StopStep(p) \in Steps /\ Good(p) \subseteq Clicks
    BY DEF StopStep, Steps, Good
  <2>1. CASE PrepareClicks(p)
    <3>1. CallOK'
      BY <1>0, <2>0, <2>1 DEF PrepareClicks, CallOK, Goto, Steps, Kept
    <3> QED BY <2>1, <3>1 DEF PrepareClicks, ListsOK, PushOK, DbOK, HistoryOK
  <2>2. CASE Persist(p)
    <3>1. CallOK'
      BY <1>0, <2>2 DEF Persist, CallOK, Goto, Steps, AfterCommit
    <3>2. DbOK' /\ persisted' \subseteq Clicks
      BY <2>2, CommitType DEF Persist
    <3> QED BY <2>0, <2>2, <3>1, <3>2 DEF Persist, ListsOK, PushOK, HistoryOK
  <2>3. CASE CommitUnseen(p)
    <3>1. CallOK'
      BY <1>0, <2>0, <2>3, ReturnType, FaultType DEF CommitUnseen
    <3>2. DbOK' /\ persisted' \subseteq Clicks
      BY <2>3, CommitType DEF CommitUnseen
    <3> QED BY <2>3, <3>1, <3>2 DEF CommitUnseen, ListsOK, PushOK, HistoryOK
  <2>4. CASE Rollback(p)
    <3>1. CallOK'
      BY <1>0, <2>0, <2>4, ReturnType DEF Rollback, CallOK
    <3> QED BY <2>4, <3>1 DEF Rollback, ListsOK, PushOK, DbOK, HistoryOK
  <2>5. CASE Abandon(p)
    <3>1. CallOK'
      BY <1>0, <2>0, <2>5, ReturnType, FaultType DEF Abandon
    <3> QED BY <2>5, <3>1 DEF Abandon, ListsOK, PushOK, DbOK, HistoryOK
  <2> QED BY <1>3, <2>1, <2>2, <2>3, <2>4, <2>5 DEF PersistNext
<1>4. ASSUME OutsideNext PROVE TypeOK'
  <2>1. ASSUME NEW m \in Malformed, ForeignPush(m) PROVE TypeOK'
    <3>1. ListsOK'
      BY <1>0, <2>1, PushSet DEF ForeignPush, ListsOK
    <3> QED BY <2>1, <3>1 DEF ForeignPush, PushOK, DbOK, CallOK, HistoryOK
  <2>2. ASSUME NEW l \in Deletable, MoveLink(l) PROVE TypeOK'
    BY <2>2 DEF MoveLink, ListsOK, PushOK, DbOK, CallOK, HistoryOK
  <2>3. ASSUME NEW l \in Deletable, DeleteLink(l) PROVE TypeOK'
    BY <2>3 DEF DeleteLink, ListsOK, PushOK, DbOK, CallOK, HistoryOK
  <2>4. ASSUME NEW r \in Refs, DeleteRef(r) PROVE TypeOK'
    BY <2>4 DEF DeleteRef, ListsOK, PushOK, DbOK, CallOK, HistoryOK
  <2>5. ASSUME NEW c \in Erasable, EraseVisitor(c) PROVE TypeOK'
    BY <2>5 DEF EraseVisitor, ListsOK, PushOK, DbOK, CallOK, HistoryOK
  <2> QED BY <1>4, <2>1, <2>2, <2>3, <2>4, <2>5 DEF OutsideNext
<1>5. CASE UNCHANGED vars
  BY <1>5 DEF vars, ListsOK, PushOK, DbOK, CallOK, HistoryOK
<1> QED BY <1>1, <1>2, <1>3, <1>4, <1>5 DEF Next

LEMMA TypeInit == Init => TypeOK
BY BoundsAssumption, SetsAssumption DEF Init, TypeOK, ListsOK, PushOK, DbOK, CallOK, HistoryOK, Steps

\* The state keeps its shape in every run of the queue (queue.ts).
THEOREM TypeCorrect == Spec => []TypeOK
BY TypeInit, TypeStep, PTL DEF Spec

-----------------------------------------------------------------------------
\* What has been persisted or rejected stays so: every step only adds.
LEMMA SettledGrows == [Next]_vars => persisted \subseteq persisted' /\ dropped \subseteq dropped'
<1> SUFFICES ASSUME [Next]_vars PROVE persisted \subseteq persisted' /\ dropped \subseteq dropped'
  OBVIOUS
<1> USE DEF historyVars
<1>1. ASSUME NEW c \in Clicks, RequestNext(c) PROVE UNCHANGED <<persisted, dropped>>
  BY <1>1 DEF RequestNext, Push, Land, Accepted, PersistDirectly, FanOutDirect
<1>2. ASSUME NEW w \in Workers, WorkerNext(w) PROVE UNCHANGED <<persisted, dropped>>
  BY <1>2 DEF WorkerNext, StartBatch, Recover, RecoverEnds, Claim, ClaimUnseen, ClaimEnds,
     FanOut, Ack, AckEnds, AckFails, Quarantine, Unlist, UnlistEnds
<1>3. ASSUME NEW p \in Callers, PersistNext(p)
      PROVE persisted \subseteq persisted' /\ dropped \subseteq dropped'
  BY <1>3 DEF PersistNext, PrepareClicks, Persist, CommitUnseen, Rollback, Abandon, Commit
<1>4. ASSUME OutsideNext PROVE UNCHANGED <<persisted, dropped>>
  BY <1>4 DEF OutsideNext, ForeignPush, MoveLink, DeleteLink, DeleteRef, EraseVisitor
<1>5. CASE UNCHANGED vars
  BY <1>5 DEF vars
<1> QED BY <1>1, <1>2, <1>3, <1>4, <1>5 DEF Next

\* An entry leaves the two lists only if it is settled or in the dead-letter
\* list: moves between the lists keep it, LREM comes after commit or LPUSH.
LEMMA ListedStays ==
    ASSUME TypeOK, QueueInv, [Next]_vars, NEW x \in Listed
    PROVE  x \in Listed' \/ x \in Settled \cap Clicks \/ x \in dlq \ Clicks
<1> USE DEF TypeOK, ListsOK, CallOK, Listed, redisVars
<1>1. ASSUME NEW c \in Clicks, RequestNext(c) PROVE x \in Listed'
  <2>1. CASE Land(c)
    <3>1. c \in Raw
      BY DEF Raw
    <3> QED BY <2>1, <3>1, PushSet DEF Land
  <2> QED BY <1>1, <2>1 DEF RequestNext, Push, Accepted, PersistDirectly, FanOutDirect
<1>2. ASSUME NEW w \in Workers, WorkerNext(w)
      PROVE x \in Listed' \/ x \in Settled \cap Clicks \/ x \in dlq \ Clicks
  <2>0. w \in Callers
    BY DEF Callers
  <2>1. CASE Recover(w)
    <3>1. processing' = Front(processing) /\ queue' = LPush(Last(processing), queue) /\ processing # <<>>
      BY <2>1 DEF Recover
    <3>2. ToSet(queue') \cup ToSet(processing') = ToSet(queue) \cup ToSet(processing)
      BY <3>1, MoveSet
    <3> QED BY <3>2
  <2>2. CASE Claim(w)
    <3>1. queue' = Front(queue) /\ processing' = LPush(Last(queue), processing) /\ queue # <<>>
      BY <2>2 DEF Claim
    <3>2. ToSet(queue') \cup ToSet(processing') = ToSet(queue) \cup ToSet(processing)
      BY <3>1, MoveSet
    <3> QED BY <3>2
  <2>3. CASE ClaimUnseen(w)
    <3>1. queue' = Front(queue) /\ processing' = LPush(Last(queue), processing) /\ queue # <<>>
      BY <2>3 DEF ClaimUnseen
    <3>2. ToSet(queue') \cup ToSet(processing') = ToSet(queue) \cup ToSet(processing)
      BY <3>1, MoveSet
    <3> QED BY <3>2
  <2>4. CASE Ack(w)
    <3> DEFINE entry == batch[w][count[w] + 1]
    <3>1. entry \in ToSet(batch[w])
      BY <2>0, <2>4 DEF Ack, ToSet
    <3>2. CASE entry \in Clicks
      <4>1. entry \in Settled \cap Clicks
        BY <2>0, <2>4, <3>1, <3>2 DEF Ack, QueueInv, AckAfterCommit, Good
      <4>2. ToSet(processing) \ {entry} \subseteq ToSet(processing') /\ queue' = queue
        BY <2>4, <3>2, RemoveSet DEF Ack, AckTargets
      <4> QED BY <4>1, <4>2
    <3>3. CASE entry \notin Clicks
      BY <2>4, <3>3 DEF Ack, AckTargets
    <3> QED BY <3>2, <3>3
  <2>5. CASE Unlist(w)
    <3> DEFINE entry == batch[w][count[w] + 1]
    <3>1. entry \in ToSet(batch[w])
      BY <2>0, <2>5 DEF Unlist, ToSet
    <3>2. CASE entry \in Clicks
      BY <2>5, <3>2 DEF Unlist
    <3>3. CASE entry \notin Clicks
      <4>1. entry \in dlq \ Clicks
        BY <2>0, <2>5, <3>1, <3>3 DEF Unlist, QueueInv, UnlistAfterQuarantine, Bad
      <4>2. ToSet(processing) \ {entry} \subseteq ToSet(processing') /\ queue' = queue
        BY <2>5, <3>3, RemoveSet DEF Unlist
      <4> QED BY <4>1, <4>2
    <3> QED BY <3>2, <3>3
  <2> QED BY <1>2, <2>1, <2>2, <2>3, <2>4, <2>5 DEF WorkerNext, StartBatch, RecoverEnds,
             ClaimEnds, FanOut, AckEnds, AckFails, Quarantine, UnlistEnds
<1>3. ASSUME NEW p \in Callers, PersistNext(p) PROVE x \in Listed'
  BY <1>3 DEF PersistNext, PrepareClicks, Persist, CommitUnseen, Rollback, Abandon
<1>4. ASSUME OutsideNext PROVE x \in Listed'
  <2>1. ASSUME NEW m \in Malformed, ForeignPush(m) PROVE x \in Listed'
    <3>1. m \in Raw
      BY DEF Raw
    <3> QED BY <2>1, <3>1, PushSet DEF ForeignPush
  <2> QED BY <1>4, <2>1 DEF OutsideNext, MoveLink, DeleteLink, DeleteRef, EraseVisitor
<1>5. CASE UNCHANGED vars
  BY <1>5 DEF vars
<1> QED BY <1>1, <1>2, <1>3, <1>4, <1>5 DEF Next

LEMMA KeptStep == TypeOK /\ QueueInv /\ [Next]_vars => LandedKept' /\ NothingDiscarded'
<1> SUFFICES ASSUME TypeOK, QueueInv, [Next]_vars PROVE LandedKept' /\ NothingDiscarded'
  OBVIOUS
<1>1. persisted \subseteq persisted' /\ dropped \subseteq dropped'
  BY SettledGrows
<1>2. dlq \subseteq dlq'
  <2> USE DEF redisVars
  <2>1. ASSUME NEW c \in Clicks, RequestNext(c) PROVE dlq' = dlq
    BY <2>1 DEF RequestNext, Push, Land, Accepted, PersistDirectly, FanOutDirect
  <2>2. ASSUME NEW w \in Workers, WorkerNext(w) PROVE dlq \subseteq dlq'
    BY <2>2 DEF WorkerNext, StartBatch, Recover, RecoverEnds, Claim, ClaimUnseen, ClaimEnds,
       FanOut, Ack, AckEnds, AckFails, Quarantine, Unlist, UnlistEnds
  <2>3. ASSUME NEW p \in Callers, PersistNext(p) PROVE dlq' = dlq
    BY <2>3 DEF PersistNext, PrepareClicks, Persist, CommitUnseen, Rollback, Abandon
  <2>4. ASSUME OutsideNext PROVE dlq' = dlq
    BY <2>4 DEF OutsideNext, ForeignPush, MoveLink, DeleteLink, DeleteRef, EraseVisitor
  <2>5. CASE UNCHANGED vars
    BY <2>5 DEF vars
  <2> QED BY <2>1, <2>2, <2>3, <2>4, <2>5 DEF Next
<1>3. ASSUME NEW x \in Listed PROVE x \in Listed' \/ x \in Settled' \cap Clicks \/ x \in dlq' \ Clicks
  BY <1>1, <1>2, <1>3, ListedStays DEF Settled
<1>4. ASSUME NEW c \in Clicks, sends'[c] > 0 PROVE sends[c] > 0 \/ c \in Listed'
  <2>1. CASE \E k \in Clicks : Land(k)
    <3>1. PICK k \in Clicks : Land(k)
      BY <2>1
    <3>2. k \in Raw /\ queue \in Seq(Raw) /\ queue' = LPush(k, queue)
      BY <3>1 DEF Land, TypeOK, ListsOK, Raw
    <3>3. k \in ToSet(queue')
      BY <3>2, PushSet
    <3> QED BY <1>4, <3>1, <3>3 DEF Land, Listed, TypeOK, PushOK
  <2>2. CASE ~ \E k \in Clicks : Land(k)
    <3>1. sends' = sends
      <4> USE DEF pushVars
      <4>1. ASSUME NEW k \in Clicks, RequestNext(k) PROVE sends' = sends
        BY <2>2, <4>1 DEF RequestNext, Push, Accepted, PersistDirectly, FanOutDirect
      <4>2. ASSUME NEW w \in Workers, WorkerNext(w) PROVE sends' = sends
        BY <4>2 DEF WorkerNext, StartBatch, Recover, RecoverEnds, Claim, ClaimUnseen, ClaimEnds,
           FanOut, Ack, AckEnds, AckFails, Quarantine, Unlist, UnlistEnds
      <4>3. ASSUME NEW p \in Callers, PersistNext(p) PROVE sends' = sends
        BY <4>3 DEF PersistNext, PrepareClicks, Persist, CommitUnseen, Rollback, Abandon
      <4>4. ASSUME OutsideNext PROVE sends' = sends
        BY <4>4 DEF OutsideNext, ForeignPush, MoveLink, DeleteLink, DeleteRef, EraseVisitor
      <4>5. CASE UNCHANGED vars
        BY <4>5 DEF vars
      <4> QED BY <4>1, <4>2, <4>3, <4>4, <4>5 DEF Next
    <3> QED BY <1>4, <3>1
  <2> QED BY <2>1, <2>2
<1>5. LandedKept'
  BY <1>1, <1>3, <1>4 DEF QueueInv, LandedKept, Settled, SetsAssumption
<1>6. ASSUME NEW m \in arrived' PROVE m \in arrived \/ m \in Listed'
  <2>1. CASE \E k \in Malformed : ForeignPush(k)
    <3>1. PICK k \in Malformed : ForeignPush(k)
      BY <2>1
    <3>2. k \in Raw /\ queue \in Seq(Raw) /\ queue' = LPush(k, queue)
      BY <3>1 DEF ForeignPush, TypeOK, ListsOK, Raw
    <3>3. k \in ToSet(queue')
      BY <3>2, PushSet
    <3> QED BY <1>6, <3>1, <3>3 DEF ForeignPush, Listed
  <2>2. CASE ~ \E k \in Malformed : ForeignPush(k)
    <3>1. arrived' = arrived
      <4> USE DEF pushVars
      <4>1. ASSUME NEW k \in Clicks, RequestNext(k) PROVE arrived' = arrived
        BY <4>1 DEF RequestNext, Push, Land, Accepted, PersistDirectly, FanOutDirect
      <4>2. ASSUME NEW w \in Workers, WorkerNext(w) PROVE arrived' = arrived
        BY <4>2 DEF WorkerNext, StartBatch, Recover, RecoverEnds, Claim, ClaimUnseen, ClaimEnds,
           FanOut, Ack, AckEnds, AckFails, Quarantine, Unlist, UnlistEnds
      <4>3. ASSUME NEW p \in Callers, PersistNext(p) PROVE arrived' = arrived
        BY <4>3 DEF PersistNext, PrepareClicks, Persist, CommitUnseen, Rollback, Abandon
      <4>4. ASSUME OutsideNext PROVE arrived' = arrived
        BY <2>2, <4>4 DEF OutsideNext, MoveLink, DeleteLink, DeleteRef, EraseVisitor
      <4>5. CASE UNCHANGED vars
        BY <4>5 DEF vars
      <4> QED BY <4>1, <4>2, <4>3, <4>4, <4>5 DEF Next
    <3> QED BY <1>6, <3>1
  <2> QED BY <2>1, <2>2
<1>7. arrived \cap Clicks = {}
  BY SetsAssumption DEF TypeOK, PushOK
<1>8. NothingDiscarded'
  BY <1>2, <1>3, <1>6, <1>7 DEF QueueInv, NothingDiscarded
<1> QED BY <1>5, <1>8

\* What the callers promise about their own step, one clause of QueueInv each.
CallersInv == ResolvedKept /\ AckAfterCommit /\ OwnBatch /\ UnlistAfterQuarantine

\* A step of caller p leaves the others' local state alone and only adds to what
\* the clauses compare it with.
OthersKeep(p) ==
    /\ \A q \in Callers \ {p} : pc'[q] = pc[q] /\ batch'[q] = batch[q]
    /\ persisted \subseteq persisted' /\ dropped \subseteq dropped' /\ dlq \subseteq dlq'
    /\ \A c \in Clicks : sends[c] > 0 => sends'[c] > 0

OwnClauses(p) ==
    /\ pc[p] \in {"fanout", "ack"} => Good(p) \subseteq Settled
    /\ p \in Clicks /\ pc[p] = "done" => sends[p] > 0 \/ p \in Settled
    /\ p \in Clicks /\ pc[p] \in {"prepare", "persist", "fanout"} => batch[p] = <<p>>
    /\ p \in Workers /\ pc[p] = "unlist" => Bad(p) \subseteq dlq

LEMMA OneCaller ==
    ASSUME CallersInv, NEW p \in Callers, OthersKeep(p), OwnClauses(p)'
    PROVE  CallersInv'
<1>1. \A q \in Callers \ {p} : Good(q)' = Good(q) /\ Bad(q)' = Bad(q)
  BY DEF OthersKeep, Good, Bad
<1>2. Settled \subseteq Settled'
  BY DEF OthersKeep, Settled
<1>3. AckAfterCommit'
  BY <1>1, <1>2 DEF CallersInv, AckAfterCommit, OthersKeep, OwnClauses
<1>4. ResolvedKept'
  BY <1>2 DEF CallersInv, ResolvedKept, OthersKeep, OwnClauses, Callers
<1>5. OwnBatch'
  BY DEF CallersInv, OwnBatch, OthersKeep, OwnClauses, Callers
<1>6. UnlistAfterQuarantine'
  BY <1>1 DEF CallersInv, UnlistAfterQuarantine, OthersKeep, OwnClauses, Callers
<1> QED BY <1>3, <1>4, <1>5, <1>6 DEF CallersInv

LEMMA CallersStep == TypeOK /\ QueueInv /\ [Next]_vars => CallersInv'
<1> SUFFICES ASSUME TypeOK, QueueInv, [Next]_vars PROVE CallersInv'
  OBVIOUS
<1> USE DEF TypeOK, CallOK, PushOK, redisVars, pushVars, historyVars, callVars
<1>0. CallersInv /\ Clicks \subseteq Callers /\ Workers \subseteq Callers
  BY DEF QueueInv, CallersInv, Callers
<1>1. ASSUME NEW c \in Clicks, RequestNext(c) PROVE CallersInv'
  <2>1. OthersKeep(c)
    <3>1. CASE Land(c)
      BY <3>1 DEF Land, OthersKeep
    <3> QED BY <1>0, <1>1, <3>1 DEF RequestNext, Push, Accepted, PersistDirectly, FanOutDirect,
               Goto, Return, OthersKeep
  <2>2. OwnClauses(c)'
    <3> c \in Callers /\ c \notin Workers
      BY <1>0, SetsAssumption
    <3>1. CASE Push(c)
      BY <3>1 DEF Push, Goto, OwnClauses
    <3>2. CASE Land(c)
      <4>1. sends'[c] > 0
        BY <3>2 DEF Land
      <4>2. Good(c)' = Good(c)
        BY <3>2 DEF Land, Good
      <4> QED BY <1>0, <3>2, <4>1, <4>2 DEF Land, OwnClauses, CallersInv, AckAfterCommit, OwnBatch, Settled
    <3>3. CASE Accepted(c)
      BY <3>3 DEF Accepted, Replied, Goto, OwnClauses
    <3>4. CASE PersistDirectly(c)
      BY <3>4 DEF PersistDirectly, Goto, OwnClauses
    <3>5. CASE FanOutDirect(c)
      <4>1. c \in Good(c)
        <5>1. batch[c] = <<c>>
          BY <1>0, <3>5 DEF FanOutDirect, CallersInv, OwnBatch
        <5>2. 1 \in DOMAIN <<c>> /\ <<c>>[1] = c
          OBVIOUS
        <5> QED BY <5>1, <5>2 DEF Good, ToSet
      <4>2. c \in Settled'
        BY <1>0, <3>5, <4>1 DEF FanOutDirect, CallersInv, AckAfterCommit, Settled
      <4> QED BY <3>5, <4>2 DEF FanOutDirect, Return, Goto, OwnClauses
    <3> QED BY <1>1, <3>1, <3>2, <3>3, <3>4, <3>5 DEF RequestNext
  <2> QED BY <1>0, <2>1, <2>2, OneCaller
<1>2. ASSUME NEW w \in Workers, WorkerNext(w) PROVE CallersInv'
  <2>0. w \in Callers /\ w \notin Clicks
    BY <1>0, SetsAssumption
  <2>1. OthersKeep(w)
    BY <1>2 DEF WorkerNext, StartBatch, Recover, RecoverEnds, Claim, ClaimUnseen, ClaimEnds,
       FanOut, Ack, AckEnds, AckFails, Quarantine, Unlist, UnlistEnds, AfterAck, Goto, Return,
       OthersKeep
  <2>2. OwnClauses(w)'
    <3>1. CASE FanOut(w)
      BY <1>0, <2>0, <3>1 DEF FanOut, Goto, OwnClauses, CallersInv, AckAfterCommit, Good, Settled
    <3>2. CASE Ack(w)
      BY <1>0, <2>0, <3>2 DEF Ack, OwnClauses, CallersInv, AckAfterCommit, Good, Settled
    <3>3. CASE Quarantine(w)
      BY <2>0, <3>3 DEF Quarantine, Goto, OwnClauses, Bad
    <3>4. CASE Unlist(w)
      BY <1>0, <2>0, <3>4 DEF Unlist, OwnClauses, CallersInv, UnlistAfterQuarantine, Bad
    <3>5. CASE ClaimEnds(w)
      BY <2>0, <3>5 DEF ClaimEnds, Goto, OwnClauses
    <3>6. CASE AckEnds(w) \/ AckFails(w)
      BY <2>0, <3>6 DEF AckEnds, AckFails, AfterAck, Goto, Return, OwnClauses
    <3>7. CASE StartBatch(w) \/ RecoverEnds(w) \/ UnlistEnds(w)
      BY <2>0, <3>7 DEF StartBatch, RecoverEnds, UnlistEnds, Goto, Return, OwnClauses
    <3>8. CASE Recover(w) \/ Claim(w) \/ ClaimUnseen(w)
      BY <2>0, <3>8 DEF Recover, Claim, ClaimUnseen, OwnClauses
    <3> QED BY <1>2, <3>1, <3>2, <3>3, <3>4, <3>5, <3>6, <3>7, <3>8 DEF WorkerNext
  <2> QED BY <1>0, <2>0, <2>1, <2>2, OneCaller
<1>3. ASSUME NEW p \in Callers, PersistNext(p) PROVE CallersInv'
  <2>1. OthersKeep(p)
    BY <1>3 DEF PersistNext, PrepareClicks, Persist, CommitUnseen, Rollback, Abandon, Commit,
       Goto, Return, OthersKeep
  <2>2. OwnClauses(p)'
    <3>1. CASE PrepareClicks(p)
      BY <1>0, <3>1 DEF PrepareClicks, Goto, OwnClauses, CallersInv, OwnBatch
    <3>2. CASE Persist(p)
      <4>1. Good(p)' = Good(p)
        BY <3>2 DEF Persist, Good
      <4>2. Good(p) \subseteq Settled'
        <5>1. ASSUME NEW c \in Good(p), c \in prep[p] PROVE c \in Settled'
          BY <3>2, <5>1 DEF Persist, Commit, Fresh, Settled, QueueInv, RowsPersisted
        <5> QED BY <3>2, <5>1 DEF Persist, Settled
      <4> QED BY <1>0, <3>2, <4>1, <4>2 DEF Persist, AfterCommit, Goto, OwnClauses, CallersInv, OwnBatch
    <3>3. CASE CommitUnseen(p) \/ Rollback(p) \/ Abandon(p)
      BY <3>3 DEF CommitUnseen, Rollback, Abandon, StopStep, Return, Goto, OwnClauses
    <3> QED BY <1>3, <3>1, <3>2, <3>3 DEF PersistNext
  <2> QED BY <1>0, <2>1, <2>2, OneCaller
<1>4. ASSUME OutsideNext PROVE CallersInv'
  BY <1>0, <1>4 DEF OutsideNext, ForeignPush, MoveLink, DeleteLink, DeleteRef, EraseVisitor,
     CallersInv, ResolvedKept, AckAfterCommit, OwnBatch, UnlistAfterQuarantine, Good, Bad, Settled
<1>5. CASE UNCHANGED vars
  BY <1>0, <1>5 DEF vars, CallersInv, ResolvedKept, AckAfterCommit, OwnBatch,
     UnlistAfterQuarantine, Good, Bad, Settled
<1> QED BY <1>1, <1>2, <1>3, <1>4, <1>5 DEF Next

LEMMA RowsStep == QueueInv /\ [Next]_vars => RowsPersisted'
<1> SUFFICES ASSUME QueueInv, [Next]_vars PROVE RowsPersisted'
  OBVIOUS
<1> USE DEF QueueInv, RowsPersisted, dbVars, historyVars
<1>1. ASSUME NEW c \in Clicks, RequestNext(c) PROVE UNCHANGED <<events, persisted>>
  BY <1>1 DEF RequestNext, Push, Land, Accepted, PersistDirectly, FanOutDirect
<1>2. ASSUME NEW w \in Workers, WorkerNext(w) PROVE UNCHANGED <<events, persisted>>
  BY <1>2 DEF WorkerNext, StartBatch, Recover, RecoverEnds, Claim, ClaimUnseen, ClaimEnds,
     FanOut, Ack, AckEnds, AckFails, Quarantine, Unlist, UnlistEnds
<1>3. ASSUME NEW p \in Callers, PersistNext(p) PROVE RowsPersisted'
  <2>1. ASSUME Commit(p) PROVE RowsPersisted'
    BY <2>1 DEF Commit
  <2> QED BY <1>3, <2>1 DEF PersistNext, PrepareClicks, Persist, CommitUnseen, Rollback, Abandon
<1>4. ASSUME OutsideNext PROVE events' \subseteq events /\ persisted' = persisted
  BY <1>4 DEF OutsideNext, ForeignPush, MoveLink, DeleteLink, DeleteRef, EraseVisitor
<1>5. CASE UNCHANGED vars
  BY <1>5 DEF vars
<1> QED BY <1>1, <1>2, <1>3, <1>4, <1>5 DEF Next

LEMMA QueueInit == Init => QueueInv
<1> SUFFICES ASSUME Init PROVE QueueInv
  OBVIOUS
<1>1. \A p \in Callers : pc[p] = "idle"
  BY DEF Init
<1>2. \A c \in Clicks : c \in Callers /\ sends[c] = 0
  BY DEF Init, Callers
<1>3. \A w \in Workers : w \in Callers
  BY DEF Callers
<1>4. arrived = {} /\ events = {}
  BY DEF Init
<1> QED BY <1>1, <1>2, <1>3, <1>4 DEF QueueInv, LandedKept, ResolvedKept, AckAfterCommit,
        OwnBatch, UnlistAfterQuarantine, RowsPersisted, NothingDiscarded

\* The invariant behind the guarantees is inductive.
THEOREM QueueInvariant == Spec => [](TypeOK /\ QueueInv)
<1>1. Init => TypeOK /\ QueueInv
  BY TypeInit, QueueInit
<1>2. TypeOK /\ QueueInv /\ [Next]_vars => TypeOK' /\ QueueInv'
  BY TypeStep, KeptStep, CallersStep, RowsStep DEF QueueInv, CallersInv
<1> QED BY <1>1, <1>2, PTL DEF Spec

\* A click that Redis took, or whose push() returned, is listed or settled at
\* every moment, for any number of workers, faults and lost replies (queue.ts).
THEOREM NoClickLost == Spec => []NoLoss
<1>1. QueueInv => NoLoss
  BY DEF QueueInv, LandedKept, ResolvedKept, NoLoss
<1> QED BY <1>1, QueueInvariant, PTL

\* No malformed entry disappears: it is listed until the dead-letter list has it
\* (queue.ts quarantineMalformed).
THEOREM NoEntryDiscarded == Spec => []NothingDiscarded
<1>1. QueueInv => NothingDiscarded
  BY DEF QueueInv
<1> QED BY <1>1, QueueInvariant, PTL

-----------------------------------------------------------------------------
\* A transaction adds to a counter what it adds to the rows counted: the rows it
\* inserts are new, so no click is counted again (persistBatch).
LEMMA CountGrows ==
    ASSUME NEW A \in SUBSET Clicks, NEW B \in SUBSET Clicks, A \cap B = {}
    PROVE  Cardinality(A \cup B) = Cardinality(A) + Cardinality(B)
<1>1. IsFiniteSet(A) /\ IsFiniteSet(B) /\ Cardinality(A) \in Nat /\ Cardinality(B) \in Nat
  BY CountIsNat
<1>2. Cardinality(A \cap B) = 0
  BY FS_EmptySet
<1>3. Cardinality(A \cup B) = Cardinality(A) + Cardinality(B) - Cardinality(A \cap B)
  BY <1>1, FS_Union
<1> QED BY <1>1, <1>2, <1>3

LEMMA RollupsStep == TypeOK /\ RollupsMatchEvents /\ [Next]_vars => RollupsMatchEvents'
<1> SUFFICES ASSUME TypeOK, RollupsMatchEvents, [Next]_vars PROVE RollupsMatchEvents'
  OBVIOUS
<1> USE DEF dbVars
<1>1. ASSUME UNCHANGED <<urlRow, events, total, daily, human>> PROVE RollupsMatchEvents'
  BY <1>1 DEF RollupsMatchEvents, Intact, On, OnDay, CountedHuman
<1>2. ASSUME NEW p \in Callers, Commit(p) PROVE RollupsMatchEvents'
  <2> DEFINE new == Fresh(p)
  <2>1. events \subseteq Clicks /\ new \subseteq Clicks /\ events \cap new = {}
    BY DEF TypeOK, DbOK, CallOK, Fresh
  <2>2. events' = events \cup new /\ urlRow' = urlRow
    BY <1>2 DEF Commit
  <2> SUFFICES ASSUME NEW l \in Links, Intact(l)'
               PROVE  /\ total'[l] = Cardinality(On(events', l))
                      /\ human'[l] = Cardinality(On(CountedHuman(events'), l))
                      /\ \A d \in Days : daily'[<<l, d>>] = Cardinality(OnDay(events', l, d))
    BY DEF RollupsMatchEvents, Intact, On, OnDay, CountedHuman
  <2>3. Intact(l)
    BY <2>2 DEF Intact
  <2> HIDE DEF new
  <2>4. total'[l] = Cardinality(On(events', l))
    <3>1. On(events', l) = On(events, l) \cup On(new, l)
      BY <2>2 DEF On
    <3>2. Cardinality(On(events', l)) = Cardinality(On(events, l)) + Cardinality(On(new, l))
      BY <2>1, <3>1, CountGrows DEF On
    <3> QED BY <1>2, <2>3, <3>2 DEF Commit, RollupsMatchEvents, new
  <2>5. human'[l] = Cardinality(On(CountedHuman(events'), l))
    <3>1. On(CountedHuman(events'), l) = On(CountedHuman(events), l) \cup On(CountedHuman(new), l)
      BY <2>2 DEF On, CountedHuman
    <3>2. Cardinality(On(CountedHuman(events'), l))
          = Cardinality(On(CountedHuman(events), l)) + Cardinality(On(CountedHuman(new), l))
      BY <2>1, <3>1, CountGrows DEF On, CountedHuman
    <3> QED BY <1>2, <2>3, <3>2 DEF Commit, RollupsMatchEvents, new
  <2>6. ASSUME NEW d \in Days PROVE daily'[<<l, d>>] = Cardinality(OnDay(events', l, d))
    <3>1. OnDay(events', l, d) = OnDay(events, l, d) \cup OnDay(new, l, d)
      BY <2>2 DEF On, OnDay
    <3>2. Cardinality(OnDay(events', l, d))
          = Cardinality(OnDay(events, l, d)) + Cardinality(OnDay(new, l, d))
      BY <2>1, <3>1, CountGrows DEF On, OnDay
    <3>3. daily'[<<l, d>>] = daily[<<l, d>>] + Cardinality(OnDay(new, l, d))
      BY <1>2 DEF Commit, new
    <3> QED BY <2>3, <3>2, <3>3 DEF RollupsMatchEvents
  <2> QED BY <2>4, <2>5, <2>6
<1>3. ASSUME NEW k \in Deletable, DeleteLink(k) PROVE RollupsMatchEvents'
  <2> SUFFICES ASSUME NEW l \in Links, Intact(l)'
               PROVE  /\ total'[l] = Cardinality(On(events', l))
                      /\ human'[l] = Cardinality(On(CountedHuman(events'), l))
                      /\ \A d \in Days : daily'[<<l, d>>] = Cardinality(OnDay(events', l, d))
    BY DEF RollupsMatchEvents, Intact, On, OnDay, CountedHuman
  <2>1. l # k /\ Intact(l)
    BY <1>3, ClickDataAssumption DEF DeleteLink, Intact, TypeOK, DbOK
  <2>2. /\ On(events', l) = On(events, l)
        /\ On(CountedHuman(events'), l) = On(CountedHuman(events), l)
        /\ \A d \in Days : OnDay(events', l, d) = OnDay(events, l, d)
    BY <1>3, <2>1 DEF DeleteLink, On, OnDay, CountedHuman
  <2>3. total'[l] = total[l] /\ human'[l] = human[l] /\ \A d \in Days : daily'[<<l, d>>] = daily[<<l, d>>]
    BY <1>3, <2>1 DEF DeleteLink, TypeOK, DbOK
  <2> QED BY <2>1, <2>2, <2>3 DEF RollupsMatchEvents
<1>4. ASSUME NEW c \in Erasable, EraseVisitor(c) PROVE RollupsMatchEvents'
  <2> SUFFICES ASSUME NEW l \in Links, Intact(l)'
               PROVE  /\ total'[l] = Cardinality(On(events', l))
                      /\ human'[l] = Cardinality(On(CountedHuman(events'), l))
                      /\ \A d \in Days : daily'[<<l, d>>] = Cardinality(OnDay(events', l, d))
    BY DEF RollupsMatchEvents, Intact, On, OnDay, CountedHuman
  <2>1. Intact(l) /\ LinkOf[c] # l
    BY <1>4 DEF EraseVisitor, Intact
  <2>2. /\ On(events', l) = On(events, l)
        /\ On(CountedHuman(events'), l) = On(CountedHuman(events), l)
        /\ \A d \in Days : OnDay(events', l, d) = OnDay(events, l, d)
    BY <1>4, <2>1 DEF EraseVisitor, On, OnDay, CountedHuman
  <2> QED BY <1>4, <2>1, <2>2 DEF EraseVisitor, RollupsMatchEvents
<1>5. ASSUME NEW k \in Deletable, MoveLink(k) PROVE RollupsMatchEvents'
  BY <1>5 DEF MoveLink, RollupsMatchEvents, Intact, On, OnDay, CountedHuman, TypeOK, DbOK
<1>6. ASSUME NEW c \in Clicks, RequestNext(c) PROVE UNCHANGED dbVars
  BY <1>6 DEF RequestNext, Push, Land, Accepted, PersistDirectly, FanOutDirect
<1>7. ASSUME NEW w \in Workers, WorkerNext(w) PROVE UNCHANGED dbVars
  BY <1>7 DEF WorkerNext, StartBatch, Recover, RecoverEnds, Claim, ClaimUnseen, ClaimEnds,
     FanOut, Ack, AckEnds, AckFails, Quarantine, Unlist, UnlistEnds
<1>8. ASSUME NEW p \in Callers, PersistNext(p) PROVE Commit(p) \/ UNCHANGED dbVars
  BY <1>8 DEF PersistNext, PrepareClicks, Persist, CommitUnseen, Rollback, Abandon
<1>9. ASSUME OutsideNext PROVE RollupsMatchEvents'
  <2>1. ASSUME NEW m \in Malformed, ForeignPush(m) PROVE RollupsMatchEvents'
    BY <1>1, <2>1 DEF ForeignPush
  <2>2. ASSUME NEW r \in Refs, DeleteRef(r) PROVE RollupsMatchEvents'
    BY <1>1, <2>2 DEF DeleteRef
  <2> QED BY <1>3, <1>4, <1>5, <1>9, <2>1, <2>2 DEF OutsideNext
<1>10. CASE UNCHANGED vars
  BY <1>1, <1>10 DEF vars
<1> QED BY <1>1, <1>2, <1>6, <1>7, <1>8, <1>9, <1>10 DEF Next

LEMMA RollupsInit == Init => RollupsMatchEvents
<1> SUFFICES ASSUME Init PROVE RollupsMatchEvents
  OBVIOUS
<1>1. events = {} /\ Cardinality({}) = 0
  BY FS_EmptySet DEF Init
<1>2. \A l \in Links : On(events, l) = {} /\ On(CountedHuman(events), l) = {}
         /\ \A d \in Days : OnDay(events, l, d) = {}
  BY <1>1 DEF On, OnDay, CountedHuman
<1> QED BY <1>1, <1>2 DEF Init, RollupsMatchEvents

\* The rollups agree with the rows on every link that is neither deleted nor
\* touched by an erasure, however often its clicks are delivered (persistBatch).
THEOREM RollupsAgree == Spec => []RollupsMatchEvents
<1>1. Init => TypeOK /\ RollupsMatchEvents
  BY TypeInit, RollupsInit
<1>2. TypeOK /\ RollupsMatchEvents /\ [Next]_vars => TypeOK' /\ RollupsMatchEvents'
  BY TypeStep, RollupsStep
<1> QED BY <1>1, <1>2, PTL DEF Spec

-----------------------------------------------------------------------------
Offered == offered \cup dropped

\* Where a call has a click of its batch: it commits only what it claimed, it
\* acknowledges only what it has fanned out or rejected, and what a worker holds is
\* listed unless some worker has got as far as acknowledging it.
FanOutClauses(p) ==
    /\ pc[p] \in {"persist", "fanout"} => prep[p] \subseteq Good(p)
    /\ pc[p] = "fanout" => Good(p) \ prep[p] \subseteq dropped
    /\ pc[p] = "ack" => Good(p) \subseteq Offered
    /\ p \in Workers => Good(p) \subseteq Listed \cup Offered

Tracked(c) == c \in Offered \cup Listed \/ c \in Good(c) \/ pc[c] = "lost"

FanOutInv == (\A p \in Callers : FanOutClauses(p)) /\ (\A c \in persisted : Tracked(c))

\* What was fanned out or rejected stays so.
LEMMA OfferedGrows ==
    [Next]_vars => offered \subseteq offered' /\ dropped \subseteq dropped'
<1> SUFFICES ASSUME [Next]_vars PROVE offered \subseteq offered' /\ dropped \subseteq dropped'
  OBVIOUS
<1> USE DEF historyVars
<1>1. ASSUME NEW c \in Clicks, RequestNext(c) PROVE offered \subseteq offered'
  BY <1>1 DEF RequestNext, Push, Land, Accepted, PersistDirectly, FanOutDirect
<1>2. ASSUME NEW w \in Workers, WorkerNext(w) PROVE offered \subseteq offered'
  BY <1>2 DEF WorkerNext, StartBatch, Recover, RecoverEnds, Claim, ClaimUnseen, ClaimEnds,
     FanOut, Ack, AckEnds, AckFails, Quarantine, Unlist, UnlistEnds
<1>3. ASSUME NEW p \in Callers, PersistNext(p) PROVE offered' = offered
  BY <1>3 DEF PersistNext, PrepareClicks, Persist, CommitUnseen, Rollback, Abandon
<1>4. CASE OutsideNext
  BY <1>4 DEF OutsideNext, ForeignPush, MoveLink, DeleteLink, DeleteRef, EraseVisitor
<1>5. CASE UNCHANGED vars
  BY <1>5 DEF vars
<1> QED BY <1>1, <1>2, <1>3, <1>4, <1>5, SettledGrows DEF Next

\* A click leaves the lists only by an acknowledgement, after its fan-out.
LEMMA ClicksStayListed ==
    ASSUME TypeOK, FanOutInv, [Next]_vars
    PROVE  Listed \cap Clicks \subseteq Listed' \cup Offered
<1> USE DEF TypeOK, ListsOK, CallOK, Listed, redisVars
<1>1. ASSUME NEW c \in Clicks, RequestNext(c) PROVE Listed \subseteq Listed'
  <2>1. CASE Land(c)
    <3>1. c \in Raw
      BY DEF Raw
    <3> QED BY <2>1, <3>1, PushSet DEF Land
  <2> QED BY <1>1, <2>1 DEF RequestNext, Push, Accepted, PersistDirectly, FanOutDirect
<1>2. ASSUME NEW w \in Workers, WorkerNext(w) PROVE Listed \cap Clicks \subseteq Listed' \cup Offered
  <2>0. w \in Callers
    BY DEF Callers
  <2>1. CASE Recover(w)
    BY <2>1, MoveSet DEF Recover
  <2>2. CASE Claim(w) \/ ClaimUnseen(w)
    <3>1. ToSet(Front(queue)) \cup ToSet(LPush(Last(queue), processing)) = Listed
      BY <2>2, MoveSet DEF Claim, ClaimUnseen
    <3> QED BY <2>2, <3>1 DEF Claim, ClaimUnseen
  <2>3. CASE Ack(w)
    <3> DEFINE entry == batch[w][count[w] + 1]
    <3>1. entry \in ToSet(batch[w])
      BY <2>0, <2>3 DEF Ack, ToSet
    <3>2. entry \in Clicks => entry \in Offered
      BY <2>0, <2>3, <3>1 DEF Ack, FanOutInv, FanOutClauses, Good
    <3>3. ToSet(processing) \ {entry} \subseteq ToSet(LRem(processing, entry)) /\ queue' = queue
      BY <2>3, RemoveSet DEF Ack
    <3> QED BY <2>3, <3>2, <3>3 DEF Ack, AckTargets
  <2>4. CASE Unlist(w)
    <3> DEFINE entry == batch[w][count[w] + 1]
    <3>1. ToSet(processing) \ {entry} \subseteq ToSet(LRem(processing, entry)) /\ queue' = queue
      BY <2>4, RemoveSet DEF Unlist
    <3> QED BY <2>4, <3>1 DEF Unlist
  <2> QED BY <1>2, <2>1, <2>2, <2>3, <2>4 DEF WorkerNext, StartBatch, RecoverEnds,
             ClaimEnds, FanOut, AckEnds, AckFails, Quarantine, UnlistEnds
<1>3. ASSUME NEW p \in Callers, PersistNext(p) PROVE Listed' = Listed
  BY <1>3 DEF PersistNext, PrepareClicks, Persist, CommitUnseen, Rollback, Abandon
<1>4. CASE OutsideNext
  <2>1. ASSUME NEW m \in Malformed, ForeignPush(m) PROVE Listed \subseteq Listed'
    <3>1. m \in Raw
      BY DEF Raw
    <3> QED BY <2>1, <3>1, PushSet DEF ForeignPush
  <2> QED BY <1>4, <2>1 DEF OutsideNext, MoveLink, DeleteLink, DeleteRef, EraseVisitor
<1>5. CASE UNCHANGED vars
  BY <1>5 DEF vars
<1> QED BY <1>1, <1>2, <1>3, <1>4, <1>5 DEF Next

OthersIdle(p) == \A q \in Callers \ {p} :
    pc'[q] = pc[q] /\ batch'[q] = batch[q] /\ prep'[q] = prep[q]

\* A step of one caller keeps the fan-out facts of all the others.
LEMMA OneFanOut ==
    ASSUME TypeOK, FanOutInv, [Next]_vars, NEW p \in Callers, OthersIdle(p),
           FanOutClauses(p)', \A c \in persisted' : c \in persisted \ {p} \/ Tracked(c)'
    PROVE  FanOutInv'
<1>1. \A q \in Callers \ {p} : Good(q)' = Good(q)
  BY DEF OthersIdle, Good
<1>2. Offered \subseteq Offered' /\ dropped \subseteq dropped'
  BY OfferedGrows DEF Offered
<1>3. Listed \cap Clicks \subseteq Listed' \cup Offered'
  BY <1>2, ClicksStayListed
<1>4. ASSUME NEW q \in Callers \ {p} PROVE FanOutClauses(q)'
  <2>1. Good(q) \subseteq Clicks
    BY DEF Good
  <2> QED BY <1>1, <1>2, <1>3, <2>1 DEF FanOutInv, FanOutClauses, OthersIdle
<1>5. ASSUME NEW c \in persisted \ {p} PROVE Tracked(c)'
  <2>1. c \in Clicks /\ c \in Callers \ {p}
    BY DEF TypeOK, HistoryOK, Callers
  <2> QED BY <1>1, <1>2, <1>3, <2>1 DEF FanOutInv, Tracked, OthersIdle
<1> QED BY <1>4, <1>5 DEF FanOutInv

\* A request fans out its own click before it forgets it.
LEMMA FanOutRequest ==
    ASSUME TypeOK, QueueInv, FanOutInv, NEW c \in Clicks, RequestNext(c), [Next]_vars
    PROVE  FanOutInv'
<1> USE DEF TypeOK, CallOK, historyVars
<1>0. c \in Callers /\ c \notin Workers
  BY SetsAssumption DEF Callers
<1>1. OthersIdle(c) /\ persisted' = persisted
  <2>1. CASE Land(c)
    BY <2>1 DEF Land, OthersIdle, callVars
  <2> QED BY <1>0, <2>1 DEF RequestNext, Push, Accepted, PersistDirectly, FanOutDirect,
             Goto, Return, OthersIdle
<1>2. FanOutClauses(c)'
  <2>1. CASE Land(c)
    BY <1>0, <2>1 DEF Land, callVars, FanOutInv, FanOutClauses, Good, Offered
  <2>2. pc'[c] \notin {"persist", "fanout", "ack"} \/ Land(c)
    BY <1>0 DEF RequestNext, Push, Accepted, PersistDirectly, FanOutDirect, Goto, Return
  <2> QED BY <1>0, <2>1, <2>2 DEF FanOutClauses
<1>3. Offered \subseteq Offered' /\ Listed \cap Clicks \subseteq Listed' \cup Offered
  BY OfferedGrows, ClicksStayListed DEF Offered
<1>4. ASSUME c \in persisted PROVE Tracked(c)'
  <2>1. Tracked(c)
    BY <1>4 DEF FanOutInv
  <2>2. CASE FanOutDirect(c)
    <3>1. Good(c) \subseteq Offered'
      BY <1>0, <2>2 DEF FanOutDirect, FanOutInv, FanOutClauses, Offered
    <3>2. c \in Good(c)
      <4>1. batch[c] = <<c>>
        BY <2>2 DEF FanOutDirect, QueueInv, OwnBatch
      <4>2. 1 \in DOMAIN <<c>> /\ <<c>>[1] = c
        OBVIOUS
      <4> QED BY <4>1, <4>2 DEF Good, ToSet
    <3> QED BY <3>1, <3>2 DEF Tracked
  <2>3. CASE PersistDirectly(c)
    <3>1. batch'[c] = <<c>>
      BY <1>0, <2>3 DEF PersistDirectly
    <3>2. 1 \in DOMAIN <<c>> /\ <<c>>[1] = c
      OBVIOUS
    <3> QED BY <3>1, <3>2 DEF Good, ToSet, Tracked
  <2>4. CASE Push(c) \/ Land(c) \/ Accepted(c)
    <3>1. batch' = batch /\ (pc[c] = "lost" => pc'[c] = "lost")
      BY <2>4 DEF Push, Land, Accepted, callVars
    <3>2. Good(c)' = Good(c)
      BY <3>1 DEF Good
    <3> QED BY <1>3, <2>1, <3>1, <3>2 DEF Tracked
  <2> QED BY <2>2, <2>3, <2>4 DEF RequestNext
<1> QED BY <1>0, <1>1, <1>2, <1>4, OneFanOut

\* A worker acknowledges only after its fan-out.
LEMMA FanOutWorker ==
    ASSUME TypeOK, FanOutInv, NEW w \in Workers, WorkerNext(w), [Next]_vars
    PROVE  FanOutInv'
<1> USE DEF TypeOK, CallOK, historyVars
<1>0. w \in Callers /\ w \notin Clicks
  BY SetsAssumption DEF Callers
<1>1. OthersIdle(w) /\ persisted' = persisted
  BY <1>0 DEF WorkerNext, StartBatch, Recover, RecoverEnds, Claim, ClaimUnseen, ClaimEnds,
       FanOut, Ack, AckEnds, AckFails, Quarantine, Unlist, UnlistEnds, AfterAck, Goto, Return,
       OthersIdle, callVars
<1>2. Offered \subseteq Offered' /\ dropped \subseteq dropped' /\ Listed \cap Clicks \subseteq Listed' \cup Offered
  BY OfferedGrows, ClicksStayListed DEF Offered
<1>3. Good(w) \subseteq Clicks /\ FanOutClauses(w)
  BY <1>0 DEF Good, FanOutInv
<1>4. FanOutClauses(w)'
  <2>1. CASE Claim(w)
    <3>1. queue \in Seq(Raw) /\ processing \in Seq(Raw) /\ queue # <<>>
      BY <2>1 DEF Claim, ListsOK
    <3>2. Last(queue) \in Raw
      BY <3>1, PopSet
    <3>3. ToSet(Append(batch[w], Last(queue))) = {Last(queue)} \cup ToSet(batch[w])
      BY <1>0, <3>2, AppendSet
    <3>4. batch'[w] = Append(batch[w], Last(queue)) /\ pc'[w] = "claim"
      BY <1>0, <2>1 DEF Claim
    <3>5. Last(queue) \in Listed'
      BY <2>1, <3>1, <3>2, PushSet DEF Claim, Listed
    <3>6. Good(w)' \subseteq Good(w) \cup Listed'
      BY <3>3, <3>4, <3>5 DEF Good
    <3> QED BY <1>2, <1>3, <3>4, <3>6 DEF FanOutClauses
  <2>2. CASE AckEnds(w) \/ AckFails(w) \/ UnlistEnds(w)
    <3>1. Good(w)' \subseteq Good(w) /\ pc'[w] \in {"idle", "quarantine"}
      <4>1. ToSet(<<>>) = {}
        BY DEF ToSet
      <4> QED BY <1>0, <2>2, <4>1 DEF AckEnds, AckFails, UnlistEnds, AfterAck, Goto, Return, Good
    <3> QED BY <1>2, <1>3, <3>1 DEF FanOutClauses
  <2>3. CASE FanOut(w)
    <3>1. Good(w)' = Good(w) /\ pc'[w] = "ack" /\ pc[w] = "fanout" /\ offered' = offered \cup prep[w]
      BY <1>0, <2>3 DEF FanOut, Goto, Good
    <3>2. Good(w) \subseteq Offered'
      BY <1>2, <1>3, <3>1 DEF FanOutClauses, Offered
    <3> QED BY <3>1, <3>2 DEF FanOutClauses
  <2>4. CASE ~Claim(w) /\ ~FanOut(w) /\ ~AckEnds(w) /\ ~AckFails(w) /\ ~UnlistEnds(w)
    <3>1. batch' = batch
      BY <2>4 DEF WorkerNext, StartBatch, Recover, RecoverEnds, ClaimUnseen, ClaimEnds,
         Ack, Quarantine, Unlist, callVars
    <3>2. pc'[w] \notin {"persist", "fanout"} /\ (pc'[w] = "ack" => pc[w] = "ack")
      BY <1>0, <2>4 DEF WorkerNext, StartBatch, Recover, RecoverEnds, ClaimUnseen, ClaimEnds,
         Ack, Quarantine, Unlist, Goto, callVars
    <3>3. Good(w)' = Good(w)
      BY <3>1 DEF Good
    <3> QED BY <1>2, <1>3, <3>2, <3>3 DEF FanOutClauses
  <2> QED BY <2>1, <2>2, <2>3, <2>4
<1> QED BY <1>0, <1>1, <1>4, OneFanOut DEF HistoryOK

\* A commit concerns only what its call holds, and what it rejects is dropped.
LEMMA FanOutPersist ==
    ASSUME TypeOK, QueueInv, FanOutInv, NEW p \in Callers, PersistNext(p), [Next]_vars
    PROVE  FanOutInv'
<1> USE DEF TypeOK, CallOK, historyVars
<1>0. p \in Workers \/ p \in Clicks
  BY DEF Callers
<1>1. OthersIdle(p)
  BY DEF PersistNext, PrepareClicks, Persist, CommitUnseen, Rollback, Abandon, Commit,
       Goto, Return, OthersIdle, callVars
<1>2. Offered \subseteq Offered' /\ dropped \subseteq dropped' /\ Listed' = Listed
  BY OfferedGrows DEF Offered, PersistNext, PrepareClicks, Persist, CommitUnseen, Rollback, Abandon, Listed, redisVars
<1>3. Good(p) \subseteq Clicks /\ FanOutClauses(p)
  BY DEF Good, FanOutInv
<1>o. p \in Clicks /\ batch[p] = <<p>> => Good(p) = {p}
  <2>1. ToSet(<<p>>) = {p}
    BY DEF ToSet
  <2> QED BY <2>1 DEF Good
<1>4. CASE PrepareClicks(p)
  <2>1. persisted' = persisted /\ pc'[p] = "persist" /\ Good(p)' = Good(p) /\ prep'[p] \subseteq Good(p)
    BY <1>4 DEF PrepareClicks, Goto, Good, Kept
  <2>2. FanOutClauses(p)'
    BY <1>2, <1>3, <2>1 DEF FanOutClauses
  <2>3. p \in persisted => Tracked(p)'
    BY <1>2, <1>4, <2>1 DEF FanOutInv, Tracked, PrepareClicks
  <2> QED BY <1>1, <2>1, <2>2, <2>3, OneFanOut
<1>5. ASSUME Commit(p), pc[p] = "persist", NEW c \in persisted'
      PROVE  c \in persisted \/ (c \in Good(p) /\ (p \in Workers => c \in Listed \cup Offered))
  BY <1>3, <1>5 DEF Commit, Fresh, FanOutClauses
<1>6. CASE Persist(p)
  <2>1. pc[p] = "persist" /\ pc'[p] = "fanout" /\ Good(p)' = Good(p) /\ prep'[p] = prep[p]
        /\ dropped' = dropped \cup (Good(p) \ prep[p]) /\ Commit(p)
    BY <1>6 DEF Persist, AfterCommit, Goto, Good
  <2>2. FanOutClauses(p)'
    BY <1>2, <1>3, <2>1 DEF FanOutClauses
  <2>3. p \in Clicks => p \in Good(p)
    BY <1>o, <2>1 DEF QueueInv, OwnBatch
  <2>4. ASSUME NEW c \in persisted' PROVE c \in persisted \ {p} \/ Tracked(c)'
    <3>1. CASE p \in Workers
      BY <1>2, <1>5, <2>1, <2>4, <3>1, SetsAssumption DEF Tracked, HistoryOK
    <3>2. CASE p \in Clicks
      BY <1>5, <1>o, <2>1, <2>3, <2>4, <3>2 DEF Tracked, QueueInv, OwnBatch
    <3> QED BY <1>0, <3>1, <3>2
  <2> QED BY <1>1, <2>2, <2>4, OneFanOut
<1>7. CASE CommitUnseen(p) \/ Rollback(p) \/ Abandon(p)
  <2>1. /\ pc'[p] = StopStep(p) /\ Good(p)' = {}
    <3>1. ToSet(<<>>) = {}
      BY DEF ToSet
    <3> QED BY <1>7, <3>1 DEF CommitUnseen, Rollback, Abandon, Return, Goto, Good
  <2>2. FanOutClauses(p)'
    BY <2>1 DEF FanOutClauses, StopStep
  <2>3. (Commit(p) /\ pc[p] = "persist") \/ persisted' = persisted
    BY <1>7 DEF CommitUnseen, Rollback, Abandon
  <2>4. ASSUME NEW c \in persisted' PROVE c \in persisted \ {p} \/ Tracked(c)'
    <3>1. CASE p \in Workers
      BY <1>2, <1>5, <2>3, <2>4, <3>1, SetsAssumption DEF Tracked, HistoryOK
    <3>2. CASE p \in Clicks
      <4>1. pc'[p] = "lost"
        BY <2>1, <3>2, SetsAssumption DEF StopStep
      <4>2. pc[p] = "persist" => Good(p) = {p}
        BY <1>o, <3>2 DEF QueueInv, OwnBatch
      <4> QED BY <1>5, <2>3, <2>4, <4>1, <4>2 DEF Tracked
    <3> QED BY <1>0, <3>1, <3>2
  <2> QED BY <1>1, <2>2, <2>4, OneFanOut
<1> QED BY <1>4, <1>6, <1>7 DEF PersistNext

\* Every step of Next keeps the fan-out invariant.
LEMMA FanOutStep == TypeOK /\ QueueInv /\ FanOutInv /\ [Next]_vars => FanOutInv'
<1> SUFFICES ASSUME TypeOK, QueueInv, FanOutInv, [Next]_vars PROVE FanOutInv'
  OBVIOUS
<1>1. CASE OutsideNext \/ UNCHANGED vars
  <2>1. UNCHANGED <<callVars, historyVars>>
    BY <1>1 DEF OutsideNext, ForeignPush, MoveLink, DeleteLink, DeleteRef, EraseVisitor, vars
  <2>2. Offered' = Offered /\ Listed \cap Clicks \subseteq Listed' \cup Offered'
    BY <2>1, ClicksStayListed DEF Offered, historyVars
  <2>3. \A p \in Callers : Good(p)' = Good(p) /\ Good(p) \subseteq Clicks
    BY <2>1 DEF Good, callVars
  <2>4. \A p \in Callers : FanOutClauses(p)'
    BY <2>1, <2>2, <2>3 DEF FanOutInv, FanOutClauses, callVars, historyVars
  <2>5. ASSUME NEW c \in persisted' PROVE Tracked(c)'
    <3>1. c \in persisted /\ c \in Clicks /\ c \in Callers
      BY <2>1 DEF historyVars, TypeOK, HistoryOK, Callers
    <3> QED BY <2>1, <2>2, <2>3, <3>1 DEF FanOutInv, Tracked, callVars
  <2> QED BY <2>4, <2>5 DEF FanOutInv
<1> QED BY <1>1, FanOutRequest, FanOutWorker, FanOutPersist DEF Next

\* A persisted click is gone from the lists and from every call only after its
\* fan-out was attempted, whatever workers take from each other (processBatch).
THEOREM NotSilenced == Spec => []FannedOutBeforeGone
<1>1. Init => FanOutInv
  <2> SUFFICES ASSUME Init PROVE FanOutInv
    OBVIOUS
  <2>1. persisted = {} /\ \A p \in Callers : ToSet(batch[p]) = {} /\ pc[p] = "idle"
    BY DEF Init, ToSet
  <2> QED BY <2>1 DEF FanOutInv, FanOutClauses, Good
<1>2. TypeOK /\ QueueInv /\ FanOutInv /\ [Next]_vars => FanOutInv'
  BY FanOutStep
<1>3. TypeOK /\ FanOutInv => FannedOutBeforeGone
  BY DEF TypeOK, HistoryOK, FanOutInv, Tracked, FannedOutBeforeGone, Offered, Held, Callers
<1> QED BY <1>1, <1>2, <1>3, QueueInvariant, PTL DEF Spec

(***************************************************************************)
(* The books: ClickQueue charges no click twice, and implements            *)
(* ClickLedger.  Both rest on a committed click keeping its row, which an  *)
(* erasure takes away (visitor-erasure.ts), and hold without it.           *)
(***************************************************************************)
ledgerRows == <<urlRow, events, total, usage, persisted>>

\* Which steps touch what is counted: one transaction, or a change of the rows
\* from outside.
LEMMA LedgerSteps ==
    [Next]_vars => \/ \E p \in Callers : CanCommit(p) /\ Commit(p)
                   \/ \E l \in Deletable : MoveLink(l) \/ DeleteLink(l)
                   \/ \E c \in Erasable : EraseVisitor(c)
                   \/ UNCHANGED ledgerRows
<1> SUFFICES ASSUME [Next]_vars
             PROVE \/ \E p \in Callers : CanCommit(p) /\ Commit(p)
                   \/ \E l \in Deletable : MoveLink(l) \/ DeleteLink(l)
                   \/ \E c \in Erasable : EraseVisitor(c)
                   \/ UNCHANGED ledgerRows
  OBVIOUS
<1> USE DEF dbVars, historyVars, ledgerRows
<1>1. ASSUME NEW c \in Clicks, RequestNext(c) PROVE UNCHANGED ledgerRows
  BY <1>1 DEF RequestNext, Push, Land, Accepted, PersistDirectly, FanOutDirect
<1>2. ASSUME NEW w \in Workers, WorkerNext(w) PROVE UNCHANGED ledgerRows
  BY <1>2 DEF WorkerNext, StartBatch, Recover, RecoverEnds, Claim, ClaimUnseen, ClaimEnds,
     FanOut, Ack, AckEnds, AckFails, Quarantine, Unlist, UnlistEnds
<1>3. ASSUME NEW p \in Callers, PersistNext(p)
      PROVE (CanCommit(p) /\ Commit(p)) \/ UNCHANGED ledgerRows
  BY <1>3 DEF PersistNext, PrepareClicks, Persist, CommitUnseen, Rollback, Abandon
<1>4. ASSUME NEW m \in Malformed, ForeignPush(m) PROVE UNCHANGED ledgerRows
  BY <1>4 DEF ForeignPush
<1>5. ASSUME NEW r \in Refs, DeleteRef(r) PROVE UNCHANGED ledgerRows
  BY <1>5 DEF DeleteRef
<1>6. CASE UNCHANGED vars
  BY <1>6 DEF vars
<1> QED BY <1>1, <1>2, <1>3, <1>4, <1>5, <1>6 DEF Next, OutsideNext

\* Without erasures a committed click keeps its row for as long as its link has
\* one, which is what makes the INSERT recognise a redelivery (persistBatch).
RowsStay == \A c \in persisted : c \in events \/ urlRow[LinkOf[c]] = "gone"

\* What the INSERT reports as new was never counted before.
LEMMA FreshIsNew ==
    ASSUME RowsStay, NEW p \in Callers, CanCommit(p)
    PROVE  Fresh(p) \cap persisted = {}
BY DEF RowsStay, CanCommit, Fresh

\* No step but an erasure takes the row of a link that is still there.
LEMMA RowsStayStep ==
    ASSUME TypeOK, RowsStay, [Next]_vars, Erasable = {} PROVE RowsStay'
<1> USE DEF RowsStay, TypeOK, DbOK, HistoryOK
<1>1. ASSUME NEW p \in Callers, Commit(p) PROVE RowsStay'
  BY <1>1 DEF Commit
<1>2. ASSUME NEW l \in Deletable, MoveLink(l) PROVE RowsStay'
  BY <1>2, ClickDataAssumption DEF MoveLink, historyVars
<1>3. ASSUME NEW l \in Deletable, DeleteLink(l) PROVE RowsStay'
  BY <1>3, ClickDataAssumption DEF DeleteLink, On, historyVars
<1>4. CASE UNCHANGED ledgerRows
  BY <1>4 DEF ledgerRows
<1> QED BY <1>1, <1>2, <1>3, <1>4, LedgerSteps

Payable(S) == (S \cap Humans) \ Reserved

\* A commit charges fresh clicks only, and of those only what was not reserved.
LEMMA ChargedStep ==
    ASSUME TypeOK, RowsStay, ChargedOnce, [Next]_vars, Erasable = {} PROVE ChargedOnce'
<1> USE DEF TypeOK, DbOK, HistoryOK
<1>1. ASSUME NEW p \in Callers, CanCommit(p), Commit(p) PROVE ChargedOnce'
  <2> DEFINE new == Fresh(p)
  <2>1. persisted \subseteq Clicks /\ new \subseteq Clicks /\ new \cap persisted = {}
    BY <1>1, FreshIsNew DEF CallOK, Fresh
  <2>2. persisted' = persisted \cup new /\ usage' = usage + Cardinality(Charged(new))
    BY <1>1 DEF Commit
  <2> HIDE DEF new
  <2>3. Payable(persisted') = Payable(persisted) \cup Payable(new)
    BY <2>2 DEF Payable
  <2>4. Cardinality(Payable(persisted')) = Cardinality(Payable(persisted)) + Cardinality(Payable(new))
    BY <2>1, <2>3, CountGrows DEF Payable
  <2>5. Cardinality(Charged(new)) <= Cardinality(Payable(new))
    <3>1. Charged(new) \subseteq Payable(new)
      BY DEF Charged, Payable
    <3>2. IsFiniteSet(Payable(new))
      BY <2>1, CountIsNat DEF Payable
    <3> QED BY <3>1, <3>2, FS_Subset
  <2>6. /\ Cardinality(Payable(persisted)) \in Nat /\ Cardinality(Payable(new)) \in Nat
        /\ Cardinality(Charged(new)) \in Nat
    BY <2>1, CountIsNat DEF Payable, Charged
  <2>7. usage <= Cardinality(Payable(persisted))
    BY DEF ChargedOnce, Payable
  <2>8. usage' <= Cardinality(Payable(persisted'))
    BY <2>2, <2>4, <2>5, <2>6, <2>7
  <2> QED BY <2>8 DEF ChargedOnce, Payable
<1>2. ASSUME UNCHANGED <<usage, persisted>> PROVE ChargedOnce'
  BY <1>2 DEF ChargedOnce
<1>3. ASSUME NEW l \in Deletable, MoveLink(l) \/ DeleteLink(l) PROVE UNCHANGED <<usage, persisted>>
  BY <1>3 DEF MoveLink, DeleteLink, historyVars
<1>4. CASE UNCHANGED ledgerRows
  BY <1>2, <1>4 DEF ledgerRows
<1> QED BY <1>1, <1>2, <1>3, <1>4, LedgerSteps

\* No billable click is charged twice and none that admission has paid for,
\* for any clicks, links, workers and faults (persistBatch, measuredCount).
THEOREM NoneChargedTwice == Spec => []ChargedOnce
<1>1. CASE Erasable = {}
  <2>1. Init => TypeOK /\ RowsStay /\ ChargedOnce
    <3> SUFFICES ASSUME Init PROVE RowsStay /\ ChargedOnce
      BY TypeInit
    <3>1. persisted = {} /\ usage = 0 /\ Cardinality({}) = 0
      BY FS_EmptySet DEF Init
    <3> QED BY <3>1 DEF RowsStay, ChargedOnce
  <2>2. TypeOK /\ RowsStay /\ ChargedOnce /\ [Next]_vars => TypeOK' /\ RowsStay' /\ ChargedOnce'
    BY <1>1, TypeStep, RowsStayStep, ChargedStep
  <2> QED BY <2>1, <2>2, PTL DEF Spec
<1>2. CASE Erasable # {}
  <2>1. ChargedOnce
    BY <1>2 DEF ChargedOnce
  <2> QED BY <2>1, PTL
<1> QED BY <1>1, <1>2

-----------------------------------------------------------------------------
Made == { c \in Clicks : pc[c] # "idle" }

\* Whatever the lists, the wire and the calls in flight hold was made by a request.
OnlyMade ==
    /\ wire \subseteq Made /\ Listed \cap Clicks \subseteq Made
    /\ \A p \in Callers : Good(p) \subseteq Made /\ prep[p] \subseteq Made

\* A click counts as made from the moment its request pushes it.
LEMMA MadeStep ==
    ASSUME TypeOK, [Next]_vars
    PROVE  Made' = Made \/ \E c \in Clicks : Push(c) /\ Made' = Made \cup {c}
<1> USE DEF TypeOK, CallOK, Made
<1>0. Clicks \subseteq Callers /\ Workers \subseteq Callers /\ Clicks \cap Workers = {}
  BY SetsAssumption DEF Callers
<1>1. ASSUME NEW c \in Clicks, RequestNext(c)
      PROVE Made' = Made \/ (Push(c) /\ Made' = Made \cup {c})
  <2>1. CASE Push(c)
    BY <1>0, <2>1 DEF Push, Goto
  <2>2. CASE Land(c)
    BY <2>2 DEF Land, callVars
  <2>3. CASE Accepted(c) \/ PersistDirectly(c) \/ FanOutDirect(c)
    BY <1>0, <2>3 DEF Accepted, PersistDirectly, FanOutDirect, Goto, Return
  <2> QED BY <1>1, <2>1, <2>2, <2>3 DEF RequestNext
<1>2. ASSUME NEW w \in Workers, WorkerNext(w) PROVE Made' = Made
  <2>1. \A c \in Clicks : pc'[c] = pc[c]
    BY <1>0, <1>2 DEF WorkerNext, StartBatch, Recover, RecoverEnds, Claim, ClaimUnseen, ClaimEnds,
       FanOut, Ack, AckEnds, AckFails, Quarantine, Unlist, UnlistEnds, AfterAck, Goto, Return, callVars
  <2> QED BY <2>1
<1>3. ASSUME NEW p \in Callers, PersistNext(p) PROVE Made' = Made
  <2>1. pc[p] # "idle" /\ \E step \in Steps : Goto(p, step) /\ (p \in Clicks => step # "idle")
    BY <1>0, <1>3 DEF PersistNext, PrepareClicks, Persist, CommitUnseen, Rollback, Abandon,
       StopStep, Return, AfterCommit, Steps
  <2> QED BY <1>0, <2>1 DEF Goto
<1>4. CASE OutsideNext
  BY <1>4 DEF OutsideNext, ForeignPush, MoveLink, DeleteLink, DeleteRef, EraseVisitor, callVars
<1>5. CASE UNCHANGED vars
  BY <1>5 DEF vars, callVars
<1> QED BY <1>1, <1>2, <1>3, <1>4, <1>5 DEF Next

\* No list command brings in a click that no request has pushed.
LEMMA ListedFromWire ==
    ASSUME TypeOK, [Next]_vars PROVE Listed' \cap Clicks \subseteq Listed \cup wire
<1> USE DEF TypeOK, ListsOK, Listed, redisVars
<1>1. ASSUME NEW c \in Clicks, RequestNext(c) PROVE Listed' \cap Clicks \subseteq Listed \cup wire
  <2>1. CASE Land(c)
    <3>1. c \in Raw
      BY DEF Raw
    <3> QED BY <2>1, <3>1, PushSet DEF Land
  <2> QED BY <1>1, <2>1 DEF RequestNext, Push, Accepted, PersistDirectly, FanOutDirect
<1>2. ASSUME NEW w \in Workers, WorkerNext(w) PROVE Listed' \subseteq Listed
  <2>1. CASE Recover(w)
    BY <2>1, MoveSet DEF Recover
  <2>2. CASE Claim(w) \/ ClaimUnseen(w)
    <3>1. ToSet(Front(queue)) \cup ToSet(LPush(Last(queue), processing)) = Listed
      BY <2>2, MoveSet DEF Claim, ClaimUnseen
    <3> QED BY <2>2, <3>1 DEF Claim, ClaimUnseen
  <2>3. CASE Ack(w)
    BY <2>3, RemoveSet DEF Ack
  <2>4. CASE Unlist(w)
    BY <2>4, RemoveSet DEF Unlist
  <2> QED BY <1>2, <2>1, <2>2, <2>3, <2>4 DEF WorkerNext, StartBatch, RecoverEnds,
             ClaimEnds, FanOut, AckEnds, AckFails, Quarantine, UnlistEnds
<1>3. ASSUME NEW p \in Callers, PersistNext(p) PROVE Listed' = Listed
  BY <1>3 DEF PersistNext, PrepareClicks, Persist, CommitUnseen, Rollback, Abandon
<1>4. ASSUME OutsideNext PROVE Listed' \cap Clicks \subseteq Listed
  <2>1. ASSUME NEW m \in Malformed, ForeignPush(m) PROVE Listed' \cap Clicks \subseteq Listed
    <3>1. m \in Raw /\ m \notin Clicks
      BY SetsAssumption DEF Raw
    <3> QED BY <2>1, <3>1, PushSet DEF ForeignPush
  <2> QED BY <1>4, <2>1 DEF OutsideNext, MoveLink, DeleteLink, DeleteRef, EraseVisitor
<1>5. CASE UNCHANGED vars
  BY <1>5 DEF vars
<1> QED BY <1>1, <1>2, <1>3, <1>4, <1>5 DEF Next

\* A call works only on clicks it claimed from a list, or on its own.
LEMMA CallsFromLists ==
    ASSUME TypeOK, [Next]_vars, NEW p \in Callers
    PROVE  /\ Good(p)' \subseteq Good(p) \cup Listed \cup {c \in Clicks : pc[c] = "sending"}
           /\ prep'[p] \subseteq prep[p] \cup Good(p)
<1> DEFINE Goal == /\ Good(p)' \subseteq Good(p) \cup Listed \cup {c \in Clicks : pc[c] = "sending"}
                   /\ prep'[p] \subseteq prep[p] \cup Good(p)
<1> USE DEF TypeOK, CallOK, Good, callVars
<1>0. Clicks \subseteq Callers /\ Workers \subseteq Callers
  BY DEF Callers
<1>e. ToSet(<<>>) = {}
  BY DEF ToSet
<1>1. ASSUME NEW c \in Clicks, RequestNext(c) PROVE Goal
  <2>1. CASE PersistDirectly(c)
    <3>1. ToSet(<<c>>) = {c}
      BY DEF ToSet
    <3>2. batch' = [batch EXCEPT ![c] = <<c>>] /\ prep' = prep /\ pc[c] = "sending"
      BY <2>1 DEF PersistDirectly
    <3> QED BY <1>0, <3>1, <3>2
  <2>2. CASE FanOutDirect(c)
    BY <1>0, <1>e, <2>2 DEF FanOutDirect, Return
  <2> QED BY <1>1, <2>1, <2>2 DEF RequestNext, Push, Land, Accepted
<1>2. ASSUME NEW w \in Workers, WorkerNext(w) PROVE Goal
  <2>1. CASE Claim(w)
    <3>1. Last(queue) \in Raw /\ Last(queue) \in Listed
      <4>1. queue \in Seq(Raw) /\ queue # <<>>
        BY <2>1 DEF Claim, ListsOK
      <4>2. Last(queue) \in Raw /\ ToSet(queue) = {Last(queue)} \cup ToSet(Front(queue))
        BY <4>1, PopSet
      <4> QED BY <4>2 DEF Listed
    <3>2. ToSet(Append(batch[w], Last(queue))) = {Last(queue)} \cup ToSet(batch[w])
      BY <1>0, <3>1, AppendSet
    <3>3. batch' = [batch EXCEPT ![w] = Append(@, Last(queue))] /\ prep' = prep
      BY <2>1 DEF Claim
    <3> QED BY <1>0, <3>1, <3>2, <3>3
  <2>2. CASE AckEnds(w) \/ AckFails(w) \/ UnlistEnds(w)
    BY <1>0, <1>e, <2>2 DEF AckEnds, AckFails, UnlistEnds, AfterAck, Return
  <2> QED BY <1>2, <2>1, <2>2 DEF WorkerNext, StartBatch, Recover, RecoverEnds, ClaimUnseen, ClaimEnds,
       FanOut, Ack, Quarantine, Unlist
<1>3. ASSUME NEW q \in Callers, PersistNext(q) PROVE Goal
  <2>1. CASE PrepareClicks(q)
    BY <2>1 DEF PrepareClicks, Kept
  <2>2. CASE Persist(q)
    BY <2>2 DEF Persist
  <2>3. CASE CommitUnseen(q) \/ Rollback(q) \/ Abandon(q)
    BY <1>e, <2>3 DEF CommitUnseen, Rollback, Abandon, Return
  <2> QED BY <1>3, <2>1, <2>2, <2>3 DEF PersistNext
<1>4. CASE OutsideNext
  BY <1>4 DEF OutsideNext, ForeignPush, MoveLink, DeleteLink, DeleteRef, EraseVisitor
<1>5. CASE UNCHANGED vars
  BY <1>5 DEF vars
<1> QED BY <1>1, <1>2, <1>3, <1>4, <1>5 DEF Next

\* Only a push puts a click on the wire to Redis.
LEMMA WireGrows ==
    ASSUME [Next]_vars PROVE wire' \subseteq wire \/ \E c \in Clicks : Push(c) /\ wire' = wire \cup {c}
<1> USE DEF pushVars
<1>1. ASSUME NEW c \in Clicks, RequestNext(c) PROVE wire' \subseteq wire \/ (Push(c) /\ wire' = wire \cup {c})
  BY <1>1 DEF RequestNext, Push, Land, Accepted, PersistDirectly, FanOutDirect
<1>2. ASSUME NEW w \in Workers, WorkerNext(w) PROVE wire' = wire
  BY <1>2 DEF WorkerNext, StartBatch, Recover, RecoverEnds, Claim, ClaimUnseen, ClaimEnds,
     FanOut, Ack, AckEnds, AckFails, Quarantine, Unlist, UnlistEnds
<1>3. ASSUME NEW p \in Callers, PersistNext(p) PROVE wire' = wire
  BY <1>3 DEF PersistNext, PrepareClicks, Persist, CommitUnseen, Rollback, Abandon
<1>4. ASSUME OutsideNext PROVE wire' = wire
  BY <1>4 DEF OutsideNext, ForeignPush, MoveLink, DeleteLink, DeleteRef, EraseVisitor
<1>5. CASE UNCHANGED vars
  BY <1>5 DEF vars
<1> QED BY <1>1, <1>2, <1>3, <1>4, <1>5 DEF Next

\* Lists, wire and calls never hold a click that no request made.
LEMMA OnlyMadeStep == ASSUME TypeOK, OnlyMade, [Next]_vars PROVE OnlyMade'
<1>1. Made \subseteq Made'
  BY MadeStep
<1>2. wire' \subseteq Made'
  <2>1. ASSUME NEW c \in Clicks, Push(c) PROVE c \in Made'
    BY <2>1 DEF Push, Goto, Made, TypeOK, CallOK, Callers
  <2> QED BY <1>1, <2>1, WireGrows DEF OnlyMade
<1>3. Listed' \cap Clicks \subseteq Made'
  BY <1>1, ListedFromWire DEF OnlyMade
<1>4. ASSUME NEW p \in Callers PROVE Good(p)' \subseteq Made' /\ prep'[p] \subseteq Made'
  <2>1. Good(p)' \subseteq Clicks
    BY DEF Good
  <2>2. {c \in Clicks : pc[c] = "sending"} \subseteq Made
    BY DEF Made
  <2> QED BY <1>1, <2>1, <2>2, CallsFromLists DEF OnlyMade
<1> QED BY <1>2, <1>3, <1>4 DEF OnlyMade

-----------------------------------------------------------------------------
\* An empty queue is an empty ledger.
LEMMA LedgerInit == Init => Ledger!Init
<1> SUFFICES ASSUME Init PROVE Ledger!Init
  OBVIOUS
<1>1. \A c \in Clicks : pc[c] = "idle"
  BY DEF Init, Callers
<1>2. \A l \in Links : urlRow[l] # "gone"
  BY DEF Init
<1> QED BY <1>1, <1>2 DEF Init, Ledger!Init

\* The ledger brings in FiniteSets once more; its Cardinality is the same.
LEMMA SameCardinality == ASSUME NEW S PROVE Ledger!Cardinality(S) = Cardinality(S)
BY DEF Ledger!Cardinality, Cardinality

\* Each step of ingestion makes a click, counts clicks that were not counted,
\* closes a deleted link, or leaves the ledger alone.
LEMMA LedgerStep ==
    ASSUME TypeOK, RowsStay, OnlyMade, [Next]_vars, Erasable = {}
    PROVE  Ledger!Next \/ UNCHANGED Ledger!vars
<1> DEFINE closed == { l \in Links : urlRow[l] = "gone" }
<1>0. Made = { c \in Clicks : pc[c] # "idle" } /\ Made' = { c \in Clicks : pc'[c] # "idle" }
  BY DEF Made
<1>1. ASSUME NEW c \in Clicks, Push(c), Made' = Made \cup {c} PROVE Ledger!Make(c)
  <2>1. c \notin Made
    BY <1>1 DEF Push, Made
  <2>2. UNCHANGED <<urlRow, persisted, total>>
    BY <1>1 DEF Push, dbVars, historyVars
  <2> QED BY <1>0, <1>1, <2>1, <2>2 DEF Ledger!Make
<1>2. ASSUME NEW p \in Callers, CanCommit(p), Commit(p), Made' = Made
      PROVE  \E S \in SUBSET (Made \ persisted) : Ledger!Count(S)
  <2>1. Fresh(p) \in SUBSET (Made \ persisted)
    BY <1>2, FreshIsNew DEF OnlyMade, Fresh
  <2>2. \A c \in Fresh(p) : LinkOf[c] \notin closed
    BY <1>2 DEF CanCommit
  <2>3. /\ persisted' = persisted \cup Fresh(p) /\ urlRow' = urlRow
        /\ total' = [l \in Links |-> total[l] + Cardinality(On(Fresh(p), l))]
    BY <1>2 DEF Commit
  <2>4. Ledger!Count(Fresh(p))
    BY <1>0, <1>2, <2>2, <2>3, SameCardinality DEF Ledger!Count, Ledger!On, On
  <2> QED BY <2>1, <2>4
<1>3. ASSUME NEW l \in Deletable, MoveLink(l), Made' = Made PROVE UNCHANGED Ledger!vars
  <2>1. closed' = closed
    BY <1>3, ClickDataAssumption DEF MoveLink, TypeOK, DbOK
  <2> QED BY <1>0, <1>3, <2>1 DEF MoveLink, historyVars, Ledger!vars
<1>4. ASSUME NEW l \in Deletable, DeleteLink(l), Made' = Made PROVE l \in Links /\ Ledger!Close(l)
  <2>1. l \in Links /\ l \notin closed /\ closed' = closed \cup {l}
    BY <1>4, ClickDataAssumption DEF DeleteLink, TypeOK, DbOK
  <2>2. total' = [total EXCEPT ![l] = 0] /\ persisted' = persisted
    BY <1>4 DEF DeleteLink, historyVars
  <2> QED BY <1>0, <1>4, <2>1, <2>2 DEF Ledger!Close
<1>5. ASSUME UNCHANGED ledgerRows, Made' = Made PROVE UNCHANGED Ledger!vars
  BY <1>0, <1>5 DEF ledgerRows, Ledger!vars
<1>6. CASE Made' = Made
  BY <1>0, <1>2, <1>3, <1>4, <1>5, <1>6, LedgerSteps DEF Ledger!Next
<1>7. CASE \E c \in Clicks : Push(c) /\ Made' = Made \cup {c}
  BY <1>1, <1>7 DEF Ledger!Next
<1> QED BY <1>6, <1>7, MadeStep

\* Ingestion implements the ledger as long as no visitor is erased: a total
\* moves only by counting each click that was made once, and a deleted link's by
\* going away, for any clicks, links, workers and faults (persistBatch).
THEOREM LedgerImplemented == ASSUME Erasable = {} PROVE Spec => ImplementsLedger
<1>1. Init => TypeOK /\ RowsStay /\ OnlyMade
  <2> SUFFICES ASSUME Init PROVE RowsStay /\ OnlyMade
    BY TypeInit
  <2>1. persisted = {} /\ wire = {} /\ ToSet(queue) = {} /\ ToSet(processing) = {}
        /\ \A p \in Callers : ToSet(batch[p]) = {} /\ prep[p] = {}
    BY DEF Init, ToSet
  <2> QED BY <2>1 DEF RowsStay, OnlyMade, Listed, Good
<1>2. TypeOK /\ RowsStay /\ OnlyMade /\ [Next]_vars => TypeOK' /\ RowsStay' /\ OnlyMade'
  BY TypeStep, RowsStayStep, OnlyMadeStep
<1>3. TypeOK /\ RowsStay /\ OnlyMade /\ [Next]_vars => [Ledger!Next]_(Ledger!vars)
  BY LedgerStep
<1> QED BY <1>1, <1>2, <1>3, LedgerInit, PTL DEF Spec, ImplementsLedger, Ledger!Spec
=============================================================================
