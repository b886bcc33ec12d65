---------------------------- MODULE ServiceProofs ----------------------------
(***************************************************************************)
(* Proofs about three services that stand on their own: Idempotency, for   *)
(* any requests and keys, any number of slow handlers, deaths and          *)
(* failures; and, each an instance with variables of its own, the rate     *)
(* limiter for any instances and requests and the provisioning of domains  *)
(* for any domains and registrations.                                      *)
(***************************************************************************)
EXTENDS Idempotency, FiniteSetTheorems, TLAPS

CONSTANTS
    Instances, Limit, Window, Delay, MaxTime, Crowded,
    Domains, Runs, Life, Horizon, Again, MaxDeaths
VARIABLES moment, memory, redis, cooling, asking, passed
VARIABLES now, dns, cert, asked, domain, prov, call, job, abandoned, deaths

Rate == INSTANCE RateLimit WITH now <- moment, job <- asking
Naming == INSTANCE DomainProvisioning

Marks == {"nobody", "none", "in progress", "reused"}

\* What the sets stand for: each request has one key.
Setting ==
    /\ KeyOf \in [Requests -> Keys] /\ Requests \cap Marks = {}
    /\ MaxSlow \in Nat /\ MaxFaults \in Nat

(***************************************************************************)
(* The invariant.                                                          *)
(***************************************************************************)
\* A row is taken over only if it was read when it had run out.
SeenOld == \A r \in Requests : step[r] = "take" => seen[r] # NoRow /\ ~seen[r].live

\* Only what took effect is stored.
StoredDone ==
    /\ \A k \in Keys : row[k].state = "stored" => row[k].by \in done
    /\ \A r \in Requests : step[r] = "store" => r \in done

\* The row of a key that never ran out under anybody bears the one at work.
InTime(k) == late = {} \/ k \notin expired
Own == \A r \in Requests : step[r] \in AtWork /\ InTime(Key(r)) =>
    /\ row[Key(r)].by = r /\ row[Key(r)].live
    /\ step[r] \in {"work", "store"} => row[Key(r)].state = "pending"

\* What took effect is what the row of its key tells, or is about to.
OneEffect == faults = 0 => \A r \in done : Key(r) \notin expired =>
    /\ row[Key(r)].by = r /\ row[Key(r)].live
    /\ row[Key(r)].state = "stored" \/ (row[Key(r)].state = "pending" /\ step[r] = "store")

Inv == TypeOK /\ SeenOld /\ StoredDone /\ Own /\ ReplayIsOwn /\ NoOrphanClaim /\ OneEffect

LEMMA RowType ==
    ASSUME Setting, TypeOK, NEW k \in Keys
    PROVE  /\ row[k] \in Rows
           /\ row[k] = NoRow \/ (row[k].by \in Requests /\ Key(row[k].by) = k
                                 /\ row[k].state \in {"pending", "stored"} /\ row[k].live \in BOOLEAN)
           /\ NoRow.by \notin Requests /\ NoRow.state = "absent" /\ ~NoRow.live
<1>1. row[k] \in Rows /\ (row[k] # NoRow => Key(row[k].by) = k)
  BY DEF TypeOK
<1>2. NoRow.by \notin Requests /\ NoRow.state = "absent" /\ ~NoRow.live
  BY DEF NoRow, Setting, Marks
<1>3. row[k] = NoRow \/ (row[k].by \in Requests /\ row[k].state \in {"pending", "stored"}
                         /\ row[k].live \in BOOLEAN)
  BY <1>1 DEF Rows
<1> QED BY <1>1, <1>2, <1>3

(***************************************************************************)
(* Types.                                                                  *)
(***************************************************************************)
LEMMA ClaimType ==
    ASSUME Setting, TypeOK, NEW r \in Requests, NEW state \in {"pending", "stored"},
           row' = [row EXCEPT ![Key(r)] = [by |-> r, state |-> state, live |-> TRUE]]
    PROVE  /\ row' \in [Keys -> Rows] /\ \A k \in Keys : row'[k] # NoRow => Key(row'[k].by) = k
           /\ row'[Key(r)] = [by |-> r, state |-> state, live |-> TRUE]
           /\ row'[Key(r)].by = r /\ row'[Key(r)].state = state /\ row'[Key(r)].live
           /\ \A k \in Keys \ {Key(r)} : row'[k] = row[k]
<1>1. Key(r) \in Keys /\ row \in [Keys -> Rows]
  BY DEF Setting, Key, TypeOK
<1>2. [by |-> r, state |-> state, live |-> TRUE] \in Rows
  BY DEF Rows
<1>3. /\ row'[Key(r)] = [by |-> r, state |-> state, live |-> TRUE]
      /\ \A k \in Keys \ {Key(r)} : row'[k] = row[k]
  BY <1>1
<1>4. row' \in [Keys -> Rows]
  BY <1>1, <1>2
<1>5. ASSUME NEW k \in Keys, row'[k] # NoRow PROVE Key(row'[k].by) = k
  <2>1. CASE k = Key(r)
    BY <1>3, <2>1
  <2>2. CASE k # Key(r)
    BY <1>3, <1>5, <2>2 DEF TypeOK
  <2> QED BY <2>1, <2>2
<1> QED BY <1>3, <1>4, <1>5

\* What each step of a request writes: at most its own step, row and answer.
LEMMA HandleFrame ==
    ASSUME Setting, TypeOK, NEW r \in Requests, Handle(r) \/ Die(r)
    PROVE  /\ \E next \in Steps : step' = [step EXCEPT ![r] = next] /\ step'[r] = next
           /\ \A q \in Requests \ {r} : step'[q] = step[q] /\ seen'[q] = seen[q] /\ reply'[q] = reply[q]
           /\ \A k \in Keys \ {Key(r)} : row'[k] = row[k]
           /\ late' = late /\ expired' = expired /\ slow' = slow
           /\ faults' \in 0..MaxFaults /\ (faults' = faults \/ faults' # 0)
           /\ done \subseteq done' /\ done' \subseteq done \cup {r}
<1>1. /\ step \in [Requests -> Steps] /\ row \in [Keys -> Rows] /\ Key(r) \in Keys
      /\ faults \in 0..MaxFaults /\ MaxFaults \in Nat
      /\ seen \in [Requests -> Rows] /\ reply \in [Requests -> Requests \cup {"none", "in progress", "reused"}]
  BY DEF TypeOK, Setting, Key
<1>2. \E next \in Steps : step' = [step EXCEPT ![r] = next] /\ step'[r] = next
  BY <1>1 DEF Handle, Die, Look, Create, TakeOver, Work, Store, Release, To, Refused, Steps, AtWork
<1>3. \A q \in Requests \ {r} : step'[q] = step[q]
  BY <1>1, <1>2
<1>4. \A q \in Requests \ {r} : seen'[q] = seen[q] /\ reply'[q] = reply[q]
  BY <1>1 DEF Handle, Die, Look, Create, TakeOver, Work, Store, Release, Answer, Refused
<1>5. \A k \in Keys \ {Key(r)} : row'[k] = row[k]
  BY <1>1 DEF Handle, Die, Look, Create, TakeOver, Work, Store, Release, Claimed, Refused
<1>6. /\ late' = late /\ expired' = expired /\ slow' = slow
      /\ faults' \in 0..MaxFaults /\ (faults' = faults \/ faults' # 0)
  <2>1. late' = late /\ expired' = expired /\ slow' = slow
    BY DEF Handle, Die, Look, Create, TakeOver, Work, Store, Release
  <2>2. faults' = faults \/ (faults < MaxFaults /\ faults' = faults + 1)
    BY DEF Handle, Die, Look, Create, TakeOver, Work, Store, Release
  <2>3. faults' \in 0..MaxFaults /\ (faults' = faults \/ faults' # 0)
    <3>1. faults \in 0..MaxFaults /\ MaxFaults \in Nat
      BY DEF TypeOK, Setting
    <3> QED BY <2>2, <3>1
  <2> QED BY <2>1, <2>3
<1>7. done \subseteq done' /\ done' \subseteq done \cup {r}
  BY DEF Handle, Die, Look, Create, TakeOver, Work, Store, Release
<1> QED BY <1>2, <1>3, <1>4, <1>5, <1>6, <1>7

LEMMA HandleType ==
    ASSUME Setting, TypeOK, NEW r \in Requests, Handle(r) \/ Die(r)
    PROVE  TypeOK'
<1>1. Key(r) \in Keys
  BY DEF Setting, Key
<1>2. /\ step' \in [Requests -> Steps] /\ slow' \in 0..MaxSlow /\ faults' \in 0..MaxFaults
      /\ late' \subseteq Requests /\ expired' \subseteq Keys /\ done' \subseteq Requests
  <2>1. PICK next \in Steps : step' = [step EXCEPT ![r] = next]
    BY HandleFrame
  <2>2. /\ late' = late /\ expired' = expired /\ slow' = slow /\ faults' \in 0..MaxFaults
        /\ done' \subseteq done \cup {r}
    BY HandleFrame
  <2> QED BY <2>1, <2>2 DEF TypeOK
<1>3. seen' \in [Requests -> Rows]
  BY <1>1 DEF Handle, Die, Look, Create, TakeOver, Work, Store, Release, TypeOK
<1>4. reply' \in [Requests -> Requests \cup {"none", "in progress", "reused"}]
  <2>1. CASE UNCHANGED reply
    BY <2>1 DEF TypeOK
  <2>2. CASE \E from \in Requests \cup {"in progress", "reused"} : Answer(r, from)
    BY <2>2 DEF Answer, TypeOK
  <2>3. row[Key(r)].state = "stored" => row[Key(r)].by \in Requests
    BY <1>1, RowType
  <2> QED BY <2>1, <2>2, <2>3 DEF Handle, Die, Look, Create, TakeOver, Work, Store, Release, Refused
<1>5. row' \in [Keys -> Rows] /\ \A k \in Keys : row'[k] # NoRow => Key(row'[k].by) = k
  <2>1. CASE row' = row
    BY <2>1 DEF TypeOK
  <2>2. CASE \E state \in {"pending", "stored"} :
               row' = [row EXCEPT ![Key(r)] = [by |-> r, state |-> state, live |-> TRUE]]
    BY <2>2, ClaimType
  <2>3. CASE row' = [row EXCEPT ![Key(r)] = NoRow]
    BY <1>1, <2>3 DEF TypeOK, Rows
  <2> QED BY <2>1, <2>2, <2>3 DEF Handle, Die, Look, Create, TakeOver, Work, Store, Release, Claimed, Refused
<1> QED BY <1>2, <1>3, <1>4, <1>5 DEF TypeOK

\* A row that runs out keeps what it says.
LEMMA ExpireFrame ==
    ASSUME Setting, TypeOK, NEW k \in Keys, Expire(k)
    PROVE  /\ row[k] # NoRow /\ row[k].live
           /\ row' \in [Keys -> Rows] /\ \A q \in Keys \ {k} : row'[q] = row[q]
           /\ row'[k] # NoRow /\ row'[k].by = row[k].by /\ row'[k].state = row[k].state
<1>1. row[k].live /\ row' = [row EXCEPT ![k].live = FALSE] /\ row \in [Keys -> Rows]
  BY DEF Expire, TypeOK
<1>2. row[k] # NoRow
  BY <1>1, RowType
<1>3. row[k] \in [by : Requests, state : {"pending", "stored"}, live : BOOLEAN]
  BY <1>2, RowType DEF Rows
<1>4. row' = [row EXCEPT ![k] = [row[k] EXCEPT !.live = FALSE]]
  BY <1>1, Zenon
<1>5. /\ [row[k] EXCEPT !.live = FALSE] \in Rows
      /\ [row[k] EXCEPT !.live = FALSE].by = row[k].by
      /\ [row[k] EXCEPT !.live = FALSE].state = row[k].state
      /\ [row[k] EXCEPT !.live = FALSE].by \in Requests
  BY <1>3 DEF Rows
<1>6. row'[k] # NoRow
  BY <1>1, <1>4, <1>5, RowType
<1> QED BY <1>1, <1>2, <1>4, <1>5, <1>6

LEMMA ExpireType ==
    ASSUME Setting, TypeOK, NEW k \in Keys, Expire(k)
    PROVE  TypeOK'
<1>1. /\ row[k].by \in Requests /\ row' \in [Keys -> Rows]
      /\ \A q \in Keys : row'[q].by = row[q].by /\ (row'[q] # NoRow => row[q] # NoRow)
  BY ExpireFrame, RowType
<1>2. slow' \in 0..MaxSlow /\ late' \subseteq Requests /\ expired' \subseteq Keys
      /\ UNCHANGED <<step, seen, faults, done, reply>>
  <2>1. /\ expired' = expired \cup {k} /\ UNCHANGED <<step, seen, faults, done, reply>>
        /\ \/ slow < MaxSlow /\ slow' = slow + 1 /\ late' = late \cup {row[k].by}
           \/ UNCHANGED <<slow, late>>
    BY DEF Expire
  <2>2. slow \in 0..MaxSlow /\ MaxSlow \in Nat /\ late \subseteq Requests /\ expired \subseteq Keys
    BY DEF TypeOK, Setting
  <2> QED BY <1>1, <2>1, <2>2
<1> QED BY <1>1, <1>2 DEF TypeOK

(***************************************************************************)
(* The steps of a request.                                                 *)
(***************************************************************************)
\* One request does what; the rest of its key is as the invariant says.
LEMMA Kinds ==
    ASSUME Setting, TypeOK, NEW r \in Requests, Handle(r) \/ Die(r)
    PROVE  \/ /\ row' = row /\ done' = done
              /\ step'[r] \notin AtWork /\ (step[r] \in AtWork => faults' # 0)
           \/ /\ step[r] \in {"create", "take"} /\ step'[r] = "work" /\ done' = done
              /\ row' = [row EXCEPT ![Key(r)] = [by |-> r, state |-> "pending", live |-> TRUE]]
              /\ step[r] = "create" => row[Key(r)] = NoRow
              /\ step[r] = "take" => row[Key(r)] = seen[r]
           \/ /\ step[r] = "work" /\ row' = row /\ faults' = faults
              /\ \/ step'[r] = "store" /\ done' = done \cup {r}
                 \/ step'[r] = "release" /\ done' = done
           \/ /\ step[r] = "store" /\ step'[r] = "release" /\ done' = done
              /\ \/ /\ row' = [row EXCEPT ![Key(r)] = [by |-> r, state |-> "stored", live |-> TRUE]]
                    /\ faults' = faults
                 \/ row' = row /\ faults' # 0
           \/ /\ step[r] = "release" /\ step'[r] = "end" /\ done' = done
              /\ \/ /\ row[Key(r)].state = "pending" /\ row' = [row EXCEPT ![Key(r)] = NoRow]
                    /\ faults' = faults
                 \/ row[Key(r)].state # "pending" /\ row' = row /\ faults' = faults
                 \/ row' = row /\ faults' # 0
<1>1. step \in [Requests -> Steps] /\ faults \in Nat
  <2>1. step \in [Requests -> Steps] /\ faults \in 0..MaxFaults /\ MaxFaults \in Nat
    BY DEF TypeOK, Setting
  <2> QED BY <2>1
<1>2. ASSUME NEW next, To(r, next) PROVE step'[r] = next
  BY <1>1, <1>2 DEF To
<1>3. CASE Look(r)
  <2>1. step[r] = "new" /\ row' = row /\ done' = done
        /\ (To(r, "create") \/ To(r, "take") \/ To(r, "end"))
    BY <1>3 DEF Look
  <2> QED BY <1>2, <2>1 DEF AtWork
<1>4. CASE Create(r)
  <2>1. /\ step[r] = "create" /\ done' = done
        /\ \/ Vacant(r) /\ Claimed(r) /\ To(r, "work")
           \/ row' = row /\ To(r, "end")
    BY <1>4 DEF Create, Refused
  <2> QED BY <1>2, <2>1 DEF AtWork, Vacant, Claimed
<1>5. CASE TakeOver(r)
  <2>1. /\ step[r] = "take" /\ done' = done
        /\ \/ Untouched(r) /\ Claimed(r) /\ To(r, "work")
           \/ row' = row /\ To(r, "end")
    BY <1>5 DEF TakeOver, Refused
  <2> QED BY <1>2, <2>1 DEF AtWork, Untouched, Claimed
<1>6. CASE Work(r)
  BY <1>2, <1>6 DEF Work
<1>7. CASE Store(r)
  BY <1>1, <1>2, <1>7 DEF Store
<1>8. CASE Release(r)
  <2>1. /\ step[r] = "release" /\ To(r, "end") /\ done' = done
        /\ \/ /\ row' = IF Releasable(Key(r)) THEN [row EXCEPT ![Key(r)] = NoRow] ELSE row
              /\ faults' = faults
           \/ faults' = faults + 1 /\ row' = row
    BY <1>8 DEF Release
  <2> QED BY <1>1, <1>2, <2>1 DEF Releasable
<1>9. CASE Die(r)
  <2>1. row' = row /\ done' = done /\ To(r, "dead") /\ faults' = faults + 1
    BY <1>9 DEF Die
  <2> QED BY <1>1, <1>2, <2>1 DEF AtWork
<1> QED BY <1>3, <1>4, <1>5, <1>6, <1>7, <1>8, <1>9 DEF Handle

(***************************************************************************)
(* The parts of the invariant, under the steps of a request.               *)
(***************************************************************************)
LEMMA HandleSeenOld ==
    ASSUME Setting, TypeOK, SeenOld, NEW r \in Requests, Handle(r) \/ Die(r)
    PROVE  SeenOld'
<1>1. \A q \in Requests \ {r} : step'[q] = step[q] /\ seen'[q] = seen[q]
  BY HandleFrame
<1>2. step'[r] = "take" => seen'[r] # NoRow /\ ~seen'[r].live
  <2>1. step \in [Requests -> Steps] /\ seen \in [Requests -> Rows]
    BY DEF TypeOK
  <2>2. CASE Look(r) /\ To(r, "take")
    <3>1. seen' = [seen EXCEPT ![r] = row[Key(r)]] /\ row[Key(r)] # NoRow /\ ~row[Key(r)].live
      BY <2>1, <2>2 DEF Look, To
    <3> QED BY <2>1, <3>1
  <2>3. CASE Look(r) /\ ~To(r, "take")
    BY <2>1, <2>3 DEF Look, To
  <2>4. CASE ~Look(r)
    BY <2>1, <2>4 DEF Handle, Die, Create, TakeOver, Work, Store, Release, To, Refused
  <2> QED BY <2>2, <2>3, <2>4
<1> QED BY <1>1, <1>2 DEF SeenOld

LEMMA HandleStoredDone ==
    ASSUME Setting, TypeOK, StoredDone, NEW r \in Requests, Handle(r) \/ Die(r)
    PROVE  StoredDone'
<1>1. /\ \A q \in Requests \ {r} : step'[q] = step[q]
      /\ \A k \in Keys \ {Key(r)} : row'[k] = row[k]
      /\ done \subseteq done' /\ Key(r) \in Keys
  BY HandleFrame DEF Setting, Key
<1>2. step'[r] = "store" => r \in done'
  BY Kinds DEF AtWork
<1>3. row'[Key(r)].state = "stored" => row'[Key(r)].by \in done'
  <2>1. CASE row' = row
    BY <1>1, <2>1 DEF StoredDone
  <2>2. CASE row' = [row EXCEPT ![Key(r)] = [by |-> r, state |-> "pending", live |-> TRUE]]
    BY <1>1, <2>2, ClaimType
  <2>3. CASE step[r] = "store" /\ row' = [row EXCEPT ![Key(r)] = [by |-> r, state |-> "stored", live |-> TRUE]]
    BY <1>1, <2>3, ClaimType DEF StoredDone
  <2>4. CASE row' = [row EXCEPT ![Key(r)] = NoRow]
    BY <1>1, <2>4, RowType DEF TypeOK
  <2> QED BY <2>1, <2>2, <2>3, <2>4, Kinds
<1> QED BY <1>1, <1>2, <1>3 DEF StoredDone

LEMMA HandleOwn ==
    ASSUME Setting, TypeOK, SeenOld, Own, NEW r \in Requests, Handle(r) \/ Die(r)
    PROVE  Own'
<1>1. /\ \A q \in Requests \ {r} : step'[q] = step[q]
      /\ \A k \in Keys \ {Key(r)} : row'[k] = row[k]
      /\ late' = late /\ expired' = expired
      /\ \A q \in Requests : Key(q) \in Keys
  BY HandleFrame DEF Setting, Key
<1> SUFFICES ASSUME NEW q \in Requests, step'[q] \in AtWork, InTime(Key(q))
             PROVE  /\ row'[Key(q)].by = q /\ row'[Key(q)].live
                    /\ step'[q] \in {"work", "store"} => row'[Key(q)].state = "pending"
  BY <1>1 DEF Own, InTime
<1>2. CASE Key(q) # Key(r)
  BY <1>1, <1>2 DEF Own
<1>3. CASE Key(q) = Key(r)
  <2>0. step[q] \in AtWork => /\ row[Key(q)].by = q /\ row[Key(q)].live
                              /\ step[q] \in {"work", "store"} => row[Key(q)].state = "pending"
    BY DEF Own
  <2>1. CASE row' = row /\ step'[r] \notin AtWork
    BY <1>1, <2>0, <2>1
  <2>2. CASE /\ step[r] \in {"create", "take"} /\ step'[r] = "work"
             /\ row' = [row EXCEPT ![Key(r)] = [by |-> r, state |-> "pending", live |-> TRUE]]
             /\ step[r] = "create" => row[Key(r)] = NoRow
             /\ step[r] = "take" => row[Key(r)] = seen[r]
    <3>1. ~row[Key(r)].live
      <4>1. step[r] = "take" => ~seen[r].live
        BY DEF SeenOld
      <4> QED BY <1>1, <2>2, <4>1, RowType
    <3>2. q = r
      BY <1>1, <1>3, <2>0, <3>1
    <3> QED BY <2>2, <3>2, ClaimType
  <2>3. CASE step[r] = "work" /\ row' = row /\ step'[r] \in {"store", "release"}
    <3>1. step[q] \in AtWork /\ (step'[q] \in {"work", "store"} => step[q] \in {"work", "store"})
      BY <1>1, <2>3 DEF AtWork
    <3> QED BY <2>0, <2>3, <3>1
  <2>4. CASE step[r] = "store" /\ step'[r] = "release" /\ row' = row
    <3>1. step[q] \in AtWork /\ (step'[q] \in {"work", "store"} => step[q] \in {"work", "store"})
      BY <1>1, <2>4 DEF AtWork
    <3> QED BY <2>0, <2>4, <3>1
  <2>5. CASE /\ step[r] = "store" /\ step'[r] = "release"
             /\ row' = [row EXCEPT ![Key(r)] = [by |-> r, state |-> "stored", live |-> TRUE]]
    <3>1. step[q] \in AtWork /\ step[r] \in AtWork
      BY <1>1, <2>5 DEF AtWork
    <3>2. q = r
      BY <1>3, <3>1 DEF Own
    <3> QED BY <2>5, <3>2, ClaimType
  <2>6. CASE step[r] = "release" /\ step'[r] = "end"
    <3>1. q # r /\ step[r] \in AtWork
      BY <2>6 DEF AtWork
    <3>2. step[q] \in AtWork
      BY <1>1, <3>1
    <3> QED BY <1>3, <3>1, <3>2 DEF Own
  <2> QED BY <2>1, <2>2, <2>3, <2>4, <2>5, <2>6, Kinds
<1> QED BY <1>2, <1>3

LEMMA HandleReplay ==
    ASSUME Setting, TypeOK, StoredDone, ReplayIsOwn, NEW r \in Requests, Handle(r) \/ Die(r)
    PROVE  ReplayIsOwn'
<1>1. done \subseteq done' /\ \A q \in Requests \ {r} : reply'[q] = reply[q]
  BY HandleFrame
<1>2. reply \in [Requests -> Requests \cup {"none", "in progress", "reused"}] /\ Key(r) \in Keys
  BY DEF TypeOK, Setting, Key
<1>3. reply'[r] \in Requests \ {r} => CallOf[reply'[r]] = CallOf[r] /\ reply'[r] \in done'
  <2>1. CASE UNCHANGED reply
    BY <1>1, <2>1 DEF ReplayIsOwn
  <2>2. CASE \E from \in {r, "in progress", "reused"} : Answer(r, from)
    <3>1. PICK from \in {r, "in progress", "reused"} : Answer(r, from)
      BY <2>2
    <3>2. reply'[r] = from
      BY <1>2, <3>1 DEF Answer
    <3>3. from \notin Requests \ {r}
      BY DEF Setting, Marks
    <3> QED BY <3>2, <3>3
  <2>3. CASE /\ row[Key(r)].state = "stored" /\ SameCall(r)
             /\ Answer(r, row[Key(r)].by)
    <3>1. reply'[r] = row[Key(r)].by
      BY <1>2, <2>3 DEF Answer
    <3> QED BY <1>1, <1>2, <2>3, <3>1 DEF StoredDone, SameCall
  <2>4. Look(r) => \/ UNCHANGED reply
                   \/ Answer(r, "in progress") \/ Answer(r, "reused")
                   \/ row[Key(r)].state = "stored" /\ SameCall(r) /\ Answer(r, row[Key(r)].by)
    BY DEF Look
  <2>5. ~Look(r) => UNCHANGED reply \/ Answer(r, "in progress") \/ Answer(r, r)
    BY DEF Handle, Die, Create, TakeOver, Work, Store, Release, Refused
  <2> QED BY <2>1, <2>2, <2>3, <2>4, <2>5
<1> QED BY <1>1, <1>3 DEF ReplayIsOwn

LEMMA HandleNoOrphan ==
    ASSUME Setting, TypeOK, NoOrphanClaim, NEW r \in Requests, Handle(r) \/ Die(r)
    PROVE  NoOrphanClaim'
<1>1. /\ \A q \in Requests \ {r} : step'[q] = step[q]
      /\ \A k \in Keys \ {Key(r)} : row'[k] = row[k]
      /\ (faults' = faults \/ faults' # 0) /\ Key(r) \in Keys
  BY HandleFrame DEF Setting, Key
<1> SUFFICES ASSUME NEW k \in Keys, row'[k].state = "pending", faults' = 0
             PROVE  step'[row'[k].by] \in AtWork
  BY DEF NoOrphanClaim
<1>2. faults = 0
  BY <1>1
<1>3. CASE row'[k] = row[k] /\ (step'[r] \in AtWork \/ step[r] \notin AtWork)
  BY <1>1, <1>2, <1>3, RowType DEF NoOrphanClaim
<1>4. CASE k # Key(r)
  BY <1>1, <1>2, <1>4, RowType DEF NoOrphanClaim
<1>5. CASE k = Key(r) /\ row' = [row EXCEPT ![Key(r)] = [by |-> r, state |-> "pending", live |-> TRUE]]
              /\ step'[r] = "work"
  BY <1>5, ClaimType DEF AtWork
<1>6. CASE k = Key(r) /\ row' = [row EXCEPT ![Key(r)] = [by |-> r, state |-> "stored", live |-> TRUE]]
  BY <1>6, ClaimType
<1>7. CASE k = Key(r) /\ row' = [row EXCEPT ![Key(r)] = NoRow]
  BY <1>1, <1>7, RowType DEF TypeOK
<1>8. \/ row' = row /\ (step'[r] \in AtWork \/ step[r] \notin AtWork)
      \/ row' = [row EXCEPT ![Key(r)] = [by |-> r, state |-> "pending", live |-> TRUE]] /\ step'[r] = "work"
      \/ row' = [row EXCEPT ![Key(r)] = [by |-> r, state |-> "stored", live |-> TRUE]]
      \/ row' = [row EXCEPT ![Key(r)] = NoRow]
      \/ row[Key(r)].state # "pending" /\ row' = row
  BY Kinds DEF AtWork
<1> QED BY <1>3, <1>4, <1>5, <1>6, <1>7, <1>8

LEMMA HandleOneEffect ==
    ASSUME Setting, TypeOK, SeenOld, Own, OneEffect, NEW r \in Requests, Handle(r) \/ Die(r)
    PROVE  OneEffect'
<1>1. /\ \A q \in Requests \ {r} : step'[q] = step[q]
      /\ \A k \in Keys \ {Key(r)} : row'[k] = row[k]
      /\ (faults' = faults \/ faults' # 0) /\ expired' = expired
      /\ done' \subseteq done \cup {r} /\ \A q \in Requests : Key(q) \in Keys
  BY HandleFrame DEF Setting, Key
<1>2. done \subseteq Requests
  BY DEF TypeOK
<1> SUFFICES ASSUME faults' = 0, NEW q \in done', Key(q) \notin expired
             PROVE  /\ row'[Key(q)].by = q /\ row'[Key(q)].live
                    /\ row'[Key(q)].state = "stored" \/ (row'[Key(q)].state = "pending" /\ step'[q] = "store")
  BY <1>1 DEF OneEffect
<1>3. faults = 0 /\ q \in Requests
  BY <1>1, <1>2
<1>4. q \in done => /\ row[Key(q)].by = q /\ row[Key(q)].live
                    /\ row[Key(q)].state = "stored" \/ (row[Key(q)].state = "pending" /\ step[q] = "store")
  BY <1>3 DEF OneEffect
<1>5. CASE Key(q) # Key(r)
  BY <1>1, <1>3, <1>4, <1>5
<1>6. CASE Key(q) = Key(r)
  <2>0. step[r] \in AtWork => /\ row[Key(q)].by = r /\ row[Key(q)].live
                              /\ step[r] \in {"work", "store"} => row[Key(q)].state = "pending"
    BY <1>6 DEF Own, InTime
  <2>1. CASE row' = row /\ done' = done /\ step[r] \notin AtWork
    <3>1. step[q] = "store" => step'[q] = "store"
      BY <1>1, <1>3, <2>1 DEF AtWork
    <3> QED BY <1>4, <2>1, <3>1
  <2>2. CASE /\ step[r] \in {"create", "take"} /\ done' = done
             /\ step[r] = "create" => row[Key(r)] = NoRow
             /\ step[r] = "take" => row[Key(r)] = seen[r]
    <3>1. ~row[Key(r)].live
      <4>1. step[r] = "take" => ~seen[r].live
        BY DEF SeenOld
      <4> QED BY <1>1, <2>2, <4>1, RowType
    <3> QED BY <1>4, <1>6, <2>2, <3>1
  <2>3. CASE step[r] = "work" /\ row' = row /\ step'[r] = "store" /\ done' = done \cup {r}
    <3>1. q = r
      BY <1>4, <2>0, <2>3 DEF AtWork
    <3> QED BY <2>0, <2>3, <3>1 DEF AtWork
  <2>4. CASE step[r] = "work" /\ row' = row /\ step'[r] = "release" /\ done' = done
    <3>1. q = r
      BY <1>4, <2>0, <2>4 DEF AtWork
    <3>2. row[Key(q)].state = "pending" /\ step[q] # "store"
      BY <2>0, <2>4, <3>1 DEF AtWork
    <3> QED BY <1>4, <2>4, <3>2
  <2>5. CASE /\ step[r] = "store" /\ done' = done
             /\ row' = [row EXCEPT ![Key(r)] = [by |-> r, state |-> "stored", live |-> TRUE]]
    <3>1. q = r
      BY <1>4, <2>0, <2>5 DEF AtWork
    <3> QED BY <2>5, <3>1, ClaimType
  <2>6. CASE step[r] = "release" /\ done' = done
             /\ \/ row[Key(r)].state = "pending"
                \/ row[Key(r)].state # "pending" /\ row' = row
    <3>1. q = r /\ step[q] # "store"
      BY <1>4, <2>0, <2>6 DEF AtWork
    <3>2. row[Key(r)].state = "stored" /\ row' = row
      BY <1>4, <1>6, <2>6, <3>1
    <3> QED BY <1>4, <1>6, <2>6, <3>1, <3>2
  <2> QED BY <2>1, <2>2, <2>3, <2>4, <2>5, <2>6, Kinds
<1> QED BY <1>5, <1>6

(***************************************************************************)
(* The parts of the invariant when a row runs out.                         *)
(***************************************************************************)
LEMMA ExpireKeeps ==
    ASSUME Setting, Inv, NEW k \in Keys, Expire(k)
    PROVE  Inv'
<1> USE DEF Inv
<1>1. /\ \A q \in Keys : row'[q].by = row[q].by /\ row'[q].state = row[q].state
      /\ \A q \in Keys \ {k} : row'[q] = row[q]
      /\ row[k].live /\ row[k].by \in Requests /\ Key(row[k].by) = k
  BY ExpireFrame, RowType
<1>2. /\ UNCHANGED <<step, seen, faults, done, reply>>
      /\ expired' = expired \cup {k}
      /\ \/ late' = late \cup {row[k].by}
         \/ step[row[k].by] \notin AtWork /\ late' = late
  BY DEF Expire
<1>3. \A q \in Requests : Key(q) \in Keys
  BY DEF Setting, Key
<1>4. Own'
  <2> SUFFICES ASSUME NEW q \in Requests, step[q] \in AtWork, InTime(Key(q))'
               PROVE  /\ row'[Key(q)].by = q /\ row'[Key(q)].live
                      /\ step[q] \in {"work", "store"} => row'[Key(q)].state = "pending"
    BY <1>2 DEF Own
  <2>1. late' = {} \/ Key(q) \notin expired'
    BY DEF InTime
  <2>2. InTime(Key(q)) /\ (Key(q) = k => step[row[k].by] \notin AtWork)
    BY <1>2, <2>1 DEF InTime
  <2>3. /\ row[Key(q)].by = q /\ row[Key(q)].live
        /\ step[q] \in {"work", "store"} => row[Key(q)].state = "pending"
    BY <2>2 DEF Own
  <2>4. Key(q) # k
    BY <2>2, <2>3
  <2> QED BY <1>1, <1>3, <2>3, <2>4
<1>5. SeenOld' /\ StoredDone' /\ ReplayIsOwn' /\ NoOrphanClaim'
  BY <1>1, <1>2 DEF SeenOld, StoredDone, ReplayIsOwn, NoOrphanClaim
<1>6. OneEffect'
  <2>1. \A q \in done : Key(q) \in Keys
    BY <1>3 DEF TypeOK
  <2> QED BY <1>1, <1>2, <2>1 DEF OneEffect
<1> QED BY <1>4, <1>5, <1>6, ExpireType

LEMMA InitInv ==
    ASSUME Setting, Init
    PROVE  Inv
<1>1. /\ \A k \in Keys : row[k] = NoRow
      /\ \A r \in Requests : step[r] = "new" /\ seen[r] = NoRow /\ reply[r] = "none"
      /\ done = {} /\ late = {} /\ expired = {} /\ slow = 0 /\ faults = 0
  BY DEF Init
<1>2. NoRow.state = "absent"
  BY DEF NoRow
<1>3. TypeOK
  BY <1>1 DEF Init, TypeOK, Rows, Steps, Setting
<1>4. SeenOld /\ StoredDone /\ Own /\ ReplayIsOwn /\ NoOrphanClaim /\ OneEffect
  BY <1>1, <1>2 DEF SeenOld, StoredDone, Own, ReplayIsOwn, NoOrphanClaim, OneEffect, AtWork, Setting, Marks
<1> QED BY <1>3, <1>4 DEF Inv

LEMMA InvStep ==
    ASSUME Setting, Inv, [Next]_vars
    PROVE  Inv'
<1>1. ASSUME NEW r \in Requests, Handle(r) \/ Die(r) PROVE Inv'
  BY <1>1, HandleType, HandleSeenOld, HandleStoredDone, HandleOwn, HandleReplay, HandleNoOrphan,
     HandleOneEffect DEF Inv
<1>2. CASE UNCHANGED vars
  BY <1>2 DEF vars, Inv, TypeOK, SeenOld, StoredDone, Own, InTime, ReplayIsOwn, NoOrphanClaim, OneEffect
<1> QED BY <1>1, <1>2, ExpireKeeps DEF Next

(***************************************************************************)
(* What the invariant says.                                                *)
(***************************************************************************)
LEMMA InvOneAtWork ==
    ASSUME Setting, Inv
    PROVE  OneAtWork
BY DEF Inv, Own, InTime, OneAtWork, AtWork

LEMMA InvEffectOnce ==
    ASSUME Setting, Inv
    PROVE  EffectOnce
<1> SUFFICES ASSUME faults = 0, NEW k \in Keys \ expired
             PROVE  Cardinality({r \in done : Key(r) = k}) <= 1
  BY DEF EffectOnce
<1>1. {r \in done : Key(r) = k} \subseteq {row[k].by}
  BY DEF Inv, OneEffect
<1>2. IsFiniteSet({row[k].by}) /\ Cardinality({row[k].by}) = 1
  BY FS_Singleton
<1> QED BY <1>1, <1>2, FS_Subset

\* Retries under one Idempotency-Key: however the requests of a key overlap, one
\* of them works at a time, a replay is the answer of the same call, and the
\* operation of a key takes effect once (getIdempotentResponse, storeIdempotentResponse
\* and withIdempotencyCleanup in idempotency.ts), under the conditions that
\* each part of RetriesAreSafe states.
THEOREM RetriesStaySafe ==
    ASSUME Setting
    PROVE  Spec => []RetriesAreSafe
<1>1. Init => Inv
  BY InitInv
<1>2. Inv /\ [Next]_vars => Inv'
  BY InvStep
<1>3. Inv => RetriesAreSafe
  BY InvOneAtWork, InvEffectOnce DEF Inv, RetriesAreSafe
<1> QED BY <1>1, <1>2, <1>3, PTL DEF Spec

(***************************************************************************)
(* The rate limiter.                                                       *)
(***************************************************************************)
RateSetting ==
    /\ Limit \in Nat /\ Window \in Nat /\ Delay \in Nat /\ MaxTime \in Nat \ {0}
    /\ IsFiniteSet(Requests)

HitCounts == [Rate!Times -> Nat]

\* What is in flight was stamped at most Delay ago.
RateTypes ==
    /\ moment \in Rate!Times
    /\ memory \in [Instances -> HitCounts] /\ redis \in HitCounts
    /\ asking = [r \in Requests |-> asking[r]]
    /\ \A r \in Rate!InFlight : /\ asking[r].at \in Rate!Times /\ asking[r].at <= moment
                                /\ asking[r].at + Delay >= moment
                                /\ asking[r].on \in Instances /\ asking[r].fallback \in BOOLEAN
    /\ passed \in [redis : HitCounts, memory : [Instances -> HitCounts]]

\* Hits that a script still has to count are in the set.
RedisHolds == \A u \in Rate!Times : u + Window > moment => passed.redis[u] <= redis[u]
RedisBudget == \A t \in Rate!Times : Rate!Count(passed.redis, Rate!From(t, Window - Delay)) <= Limit

\* What an instance has let through on its own, or will when Redis fails.
Promised(i, u) == {r \in Rate!InFlight : asking[r].on = i /\ asking[r].at = u /\ asking[r].fallback}
Granted(i) == [u \in Rate!Times |-> passed.memory[i][u] + Cardinality(Promised(i, u))]
MemoryHolds == \A i \in Instances, u \in Rate!Times : u + Window > moment => Granted(i)[u] <= memory[i][u]
MemoryBudget == \A i \in Instances, t \in Rate!Times : Rate!Count(Granted(i), Rate!From(t, Window)) <= Limit

RateInv == RateTypes /\ RedisHolds /\ RedisBudget /\ MemoryHolds /\ MemoryBudget

\* Hits as a set with an element for each.
EachHit(hits, T) == UNION {{t} \X (1..hits[t]) : t \in T}

\* The library's cardinality, as the instance sees it.
LEMMA RateCounts == \A S : Rate!Cardinality(S) = Cardinality(S)
BY DEF Rate!Cardinality, Cardinality, Rate!IsFiniteSet, IsFiniteSet

LEMMA HitsFinite ==
    ASSUME RateSetting, NEW hits \in HitCounts, NEW T \in SUBSET Rate!Times
    PROVE  IsFiniteSet(EachHit(hits, T)) /\ Rate!Count(hits, T) = Cardinality(EachHit(hits, T))
             /\ Rate!Count(hits, T) \in Nat
<1> DEFINE parts == {{t} \X (1..hits[t]) : t \in T}
           part == [t \in T |-> {t} \X (1..hits[t])]
<1>1. IsFiniteSet(T)
  <2>1. 1 \in Int /\ MaxTime \in Int
    BY DEF RateSetting
  <2>2. IsFiniteSet(Rate!Times)
    BY <2>1, FS_Interval DEF Rate!Times
  <2> QED BY <2>2, FS_Subset
<1>2. IsFiniteSet(parts)
  <2>1. part \in Surjection(T, parts)
    BY DEF Surjection
  <2> QED BY <1>1, <2>1, FS_Surjection
<1>3. ASSUME NEW t \in T
      PROVE  IsFiniteSet({t} \X (1..hits[t]))
  <2>1. hits[t] \in Int /\ 1 \in Int
    BY DEF HitCounts
  <2>2. IsFiniteSet(1..hits[t]) /\ IsFiniteSet({t})
    BY <2>1, FS_Interval, FS_Singleton
  <2> QED BY <2>2, FS_Product
<1>4. IsFiniteSet(UNION parts)
  <2>1. \A P \in parts : IsFiniteSet(P)
    BY <1>3
  <2> QED BY <1>2, <2>1, FS_UNION
<1>5. EachHit(hits, T) = UNION parts
  BY DEF EachHit
<1>6. Rate!Count(hits, T) = Cardinality(UNION parts)
  BY RateCounts DEF Rate!Count
<1>7. Cardinality(UNION parts) \in Nat
  BY <1>4, FS_CardinalityType
<1> QED BY <1>4, <1>5, <1>6, <1>7

LEMMA CountMonotone ==
    ASSUME RateSetting, NEW g \in HitCounts, NEW h \in HitCounts, NEW T \in SUBSET Rate!Times,
           NEW S \in SUBSET T,
           \A u \in S : g[u] <= h[u]
    PROVE  Rate!Count(g, S) <= Rate!Count(h, T)
<1>1. EachHit(g, S) \subseteq EachHit(h, T)
  <2> SUFFICES ASSUME NEW x \in EachHit(g, S)
               PROVE  x \in EachHit(h, T)
    OBVIOUS
  <2>1. PICK u \in S : x \in {u} \X (1..g[u])
    BY DEF EachHit
  <2>2. g[u] \in Nat /\ h[u] \in Nat /\ g[u] <= h[u]
    BY DEF HitCounts
  <2>3. 1..g[u] \subseteq 1..h[u]
    BY <2>2
  <2> QED BY <2>1, <2>3 DEF EachHit
<1>2. /\ IsFiniteSet(EachHit(h, T)) /\ Rate!Count(h, T) = Cardinality(EachHit(h, T))
      /\ Rate!Count(g, S) = Cardinality(EachHit(g, S))
  BY HitsFinite
<1> QED BY <1>1, <1>2, FS_Subset

LEMMA CountAdd ==
    ASSUME RateSetting, NEW h \in HitCounts, NEW at \in Rate!Times
    PROVE  Rate!Add(h, at) \in HitCounts
             /\ Rate!Count(Rate!Add(h, at), Rate!Times) = Rate!Count(h, Rate!Times) + 1
<1>1. /\ Rate!Add(h, at) \in HitCounts
      /\ \A u \in Rate!Times : Rate!Add(h, at)[u] = IF u = at THEN h[at] + 1 ELSE h[u]
  BY DEF Rate!Add, HitCounts
<1>2. h[at] \in Nat
  BY DEF HitCounts
<1>3. 1..(h[at] + 1) = (1..h[at]) \cup {h[at] + 1} /\ h[at] + 1 \notin 1..h[at]
  BY <1>2
<1>4. EachHit(Rate!Add(h, at), Rate!Times) = EachHit(h, Rate!Times) \cup {<<at, h[at] + 1>>}
  BY <1>1, <1>3 DEF EachHit
<1>5. <<at, h[at] + 1>> \notin EachHit(h, Rate!Times)
  <2> SUFFICES ASSUME NEW u \in Rate!Times, <<at, h[at] + 1>> \in {u} \X (1..h[u])
               PROVE  FALSE
    BY DEF EachHit
  <2>1. u = at /\ h[at] + 1 \in 1..h[u]
    OBVIOUS
  <2> QED BY <1>3, <2>1
<1>6. /\ IsFiniteSet(EachHit(h, Rate!Times)) /\ Rate!Count(h, Rate!Times) = Cardinality(EachHit(h, Rate!Times))
      /\ Rate!Count(Rate!Add(h, at), Rate!Times) = Cardinality(EachHit(Rate!Add(h, at), Rate!Times))
  BY <1>1, HitsFinite
<1>7. PICK x : x = <<at, h[at] + 1>>
  OBVIOUS
<1>8. x \notin EachHit(h, Rate!Times)
  BY <1>5, <1>7
<1>9. EachHit(Rate!Add(h, at), Rate!Times) = EachHit(h, Rate!Times) \cup {x}
  BY <1>4, <1>7
<1>10. Cardinality(EachHit(h, Rate!Times) \cup {x}) = Cardinality(EachHit(h, Rate!Times)) + 1
  BY <1>6, <1>8, FS_AddElement
<1>11. Rate!Count(Rate!Add(h, at), Rate!Times) = Rate!Count(h, Rate!Times) + 1
  BY <1>6, <1>9, <1>10
<1> QED BY <1>1, <1>11

LEMMA PrunedHits ==
    ASSUME NEW h \in HitCounts, NEW at
    PROVE  /\ Rate!Pruned(h, at) \in HitCounts
           /\ \A u \in Rate!Times : Rate!Pruned(h, at)[u] = IF u + Window > at THEN h[u] ELSE 0
BY DEF Rate!Pruned, Rate!InWindow, HitCounts

LEMMA AddedHits ==
    ASSUME NEW h \in HitCounts, NEW at \in Rate!Times
    PROVE  /\ Rate!Add(h, at) \in HitCounts
           /\ \A u \in Rate!Times : Rate!Add(h, at)[u] = IF u = at THEN h[u] + 1 ELSE h[u]
BY DEF Rate!Add, HitCounts

\* A hit that is added to counts no smaller than the window's, and fits there, fits the window.
LEMMA BudgetStep ==
    ASSUME RateSetting, NEW g \in HitCounts, NEW kept \in HitCounts, NEW at \in Rate!Times,
           NEW T \in SUBSET Rate!Times,
           at \in T => \A u \in T : g[u] <= kept[u],
           Rate!Count(Rate!Add(kept, at), Rate!Times) <= Limit, Rate!Count(g, T) <= Limit
    PROVE  Rate!Count(Rate!Add(g, at), T) <= Limit
<1>1. /\ Rate!Add(g, at) \in HitCounts /\ Rate!Add(kept, at) \in HitCounts
      /\ \A u \in Rate!Times : Rate!Add(g, at)[u] = IF u = at THEN g[u] + 1 ELSE g[u]
      /\ \A u \in Rate!Times : Rate!Add(kept, at)[u] = IF u = at THEN kept[u] + 1 ELSE kept[u]
  BY AddedHits
<1>2. \A u \in Rate!Times : g[u] \in Nat /\ kept[u] \in Nat
  BY DEF HitCounts
<1>3. /\ Rate!Count(Rate!Add(g, at), T) \in Nat /\ Rate!Count(Rate!Add(kept, at), Rate!Times) \in Nat
           /\ Rate!Count(g, T) \in Nat
      /\ Limit \in Nat
  BY <1>1, HitsFinite DEF RateSetting
<1>4. CASE at \in T
  <2>1. ASSUME NEW u \in T
        PROVE  Rate!Add(g, at)[u] <= Rate!Add(kept, at)[u]
    <3>1. u \in Rate!Times /\ g[u] <= kept[u] /\ g[u] \in Nat /\ kept[u] \in Nat
      BY <1>2, <1>4
    <3>2. g[u] + 1 <= kept[u] + 1
      BY <3>1
    <3> QED BY <1>1, <3>1, <3>2
  <2>2. Rate!Count(Rate!Add(g, at), T) <= Rate!Count(Rate!Add(kept, at), Rate!Times)
    BY <1>1, <2>1, CountMonotone
  <2> QED BY <1>3, <2>2
<1>5. CASE at \notin T
  <2>1. ASSUME NEW u \in T
        PROVE  Rate!Add(g, at)[u] <= g[u]
    <3>1. u \in Rate!Times /\ u # at
      BY <1>5
    <3>2. Rate!Add(g, at)[u] = g[u]
      BY <1>1, <3>1
    <3> QED BY <1>2, <3>1, <3>2
  <2>2. Rate!Count(Rate!Add(g, at), T) <= Rate!Count(g, T)
    BY <1>1, <2>1, CountMonotone
  <2> QED BY <1>3, <2>2
<1> QED BY <1>4, <1>5

\* A script leaves alone what later scripts still count, whatever order they run in.
LEMMA ScriptHolds ==
    ASSUME RateSetting, RateTypes, NEW at \in Rate!Times, at <= moment, Rate!RunScript(at)
    PROVE  /\ redis' \in HitCounts
           /\ \A u \in Rate!Times : u + Window > moment =>
                redis'[u] = IF Rate!ScriptAllows(at) /\ u = at THEN redis[u] + 1 ELSE redis[u]
<1>1. redis \in HitCounts /\ moment \in Nat /\ at \in Nat /\ Window \in Nat /\ \A u \in Rate!Times : u \in Nat
  BY DEF RateTypes, RateSetting, Rate!Times
<1>2. PICK pruned \in HitCounts :
        /\ pruned = Rate!Pruned(redis, at)
        /\ \A u \in Rate!Times : pruned[u] = IF u + Window > at THEN redis[u] ELSE 0
  BY <1>1, PrunedHits
<1>3. \A u \in Rate!Times : u + Window > moment => pruned[u] = redis[u]
  BY <1>1, <1>2
<1>4. /\ Rate!Add(pruned, at) \in HitCounts
      /\ \A u \in Rate!Times : Rate!Add(pruned, at)[u] = IF u = at THEN pruned[u] + 1 ELSE pruned[u]
  BY AddedHits
<1>5. CASE Rate!ScriptAllows(at)
  BY <1>2, <1>3, <1>4, <1>5 DEF Rate!RunScript
<1>6. CASE ~Rate!ScriptAllows(at)
  BY <1>2, <1>3, <1>6 DEF Rate!RunScript, Rate!AfterDenial
<1> QED BY <1>5, <1>6

\* And what it lets through keeps to the limit in every window shorter by Delay: all
\* of its hits were stamped late enough to be counted.
LEMMA ScriptBudget ==
    ASSUME RateSetting, RateTypes, RedisHolds, RedisBudget, NEW at \in Rate!Times, at <= moment,
           at + Delay >= moment,
           Rate!ScriptAllows(at), NEW t \in Rate!Times
    PROVE  Rate!Count(Rate!Add(passed.redis, at), Rate!From(t, Window - Delay)) <= Limit
<1> DEFINE T == Rate!From(t, Window - Delay)
           p == passed.redis
<1>1. /\ redis \in HitCounts /\ p \in HitCounts /\ moment \in Nat /\ at \in Nat /\ t \in Nat
      /\ Window \in Nat /\ Delay \in Nat /\ Limit \in Nat /\ \A u \in Rate!Times : u \in Nat
  BY DEF RateTypes, RateSetting, Rate!Times
<1>2. T \in SUBSET Rate!Times /\ Rate!Count(p, T) <= Limit
  BY DEF Rate!From, RedisBudget
<1>3. PICK pruned \in HitCounts :
        /\ pruned = Rate!Pruned(redis, at)
        /\ \A u \in Rate!Times : pruned[u] = IF u + Window > at THEN redis[u] ELSE 0
  BY <1>1, PrunedHits
<1>4. ASSUME at \in T, NEW u \in T
      PROVE  p[u] <= pruned[u]
  <2>1. u \in Rate!Times /\ u >= t /\ at < t + (Window - Delay)
    BY <1>4 DEF Rate!From
  <2>2. u + Window > moment /\ u + Window > at
    BY <1>1, <2>1
  <2> QED BY <1>1, <1>3, <2>1, <2>2 DEF RedisHolds
<1>5. Rate!Count(Rate!Add(pruned, at), Rate!Times) <= Limit
  BY <1>3 DEF Rate!ScriptAllows
<1>6. PICK g \in HitCounts : g = p
  BY <1>1
<1>7. (at \in T => \A u \in T : g[u] <= pruned[u]) /\ Rate!Count(g, T) <= Limit
  BY <1>2, <1>4, <1>6
<1> HIDE DEF T, p
<1>8. Rate!Count(Rate!Add(g, at), T) <= Limit
  BY <1>2, <1>5, <1>7, BudgetStep
<1> QED BY <1>6, <1>8 DEF T, p

LEMMA PromisedFinite ==
    ASSUME RateSetting, NEW i, NEW u
    PROVE  IsFiniteSet(Promised(i, u)) /\ Cardinality(Promised(i, u)) \in Nat
<1>1. Promised(i, u) \subseteq Requests
  BY DEF Promised, Rate!InFlight
<1>2. IsFiniteSet(Promised(i, u))
  BY <1>1, FS_Subset DEF RateSetting
<1> QED BY <1>2, FS_CardinalityType

LEMMA GrantedHits ==
    ASSUME RateSetting, RateTypes, NEW i \in Instances
    PROVE  /\ Granted(i) \in HitCounts /\ passed.memory[i] \in HitCounts
           /\ \A u \in Rate!Times : Granted(i)[u] = passed.memory[i][u] + Cardinality(Promised(i, u))
<1>1. passed.memory[i] \in HitCounts
  BY DEF RateTypes
<1>2. \A u \in Rate!Times : passed.memory[i][u] \in Nat /\ Cardinality(Promised(i, u)) \in Nat
  BY <1>1, PromisedFinite DEF HitCounts
<1> QED BY <1>1, <1>2 DEF Granted, HitCounts

\* What a step grants beyond what was granted, the bucket has counted at this moment.
GrantsOne(i) ==
    /\ Rate!MemoryAllows(i) /\ moment' = moment
    /\ memory'[i] = Rate!Add(Rate!Pruned(memory[i], moment), moment)
    /\ \A u \in Rate!Times : Granted(i)'[u] <= Granted(i)[u] + (IF u = moment THEN 1 ELSE 0)
GrantsNone(i) ==
    /\ \A u \in Rate!Times : Granted(i)'[u] <= Granted(i)[u]
    /\ \A u \in Rate!Times : u + Window > moment' => memory[i][u] <= memory'[i][u]

LEMMA GrantStep ==
    ASSUME RateSetting, RateTypes, RateTypes', MemoryHolds, MemoryBudget,
           moment' \in {moment, moment + 1}, \A i \in Instances : GrantsOne(i) \/ GrantsNone(i)
    PROVE  MemoryHolds' /\ MemoryBudget'
<1>1. /\ moment \in Rate!Times /\ moment \in Nat /\ moment' \in Nat /\ Window \in Nat /\ Limit \in Nat
      /\ \A u \in Rate!Times : u \in Nat
  BY DEF RateTypes, RateSetting, Rate!Times
<1>2. SUFFICES ASSUME NEW i \in Instances
               PROVE  /\ \A u \in Rate!Times : u + Window > moment' => Granted(i)'[u] <= memory'[i][u]
                      /\ \A t \in Rate!Times : Rate!Count(Granted(i)', Rate!From(t, Window)) <= Limit
  BY DEF MemoryHolds, MemoryBudget
<1>3. PICK g \in HitCounts, held \in HitCounts, next \in HitCounts, kept \in HitCounts :
        /\ g = Granted(i) /\ held = memory[i] /\ next = Granted(i)' /\ kept = memory'[i]
  <2>1. Granted(i) \in HitCounts /\ memory[i] \in HitCounts
    BY GrantedHits DEF RateTypes
  <2>2. Granted(i)' \in HitCounts
    <3>1. \A u \in Rate!Times : passed.memory'[i][u] \in Nat /\ Cardinality(Promised(i, u)') \in Nat
      <4>1. \A u \in Rate!Times : passed.memory'[i][u] \in Nat
        BY DEF RateTypes, HitCounts
      <4>2. ASSUME NEW u \in Rate!Times
            PROVE  Cardinality(Promised(i, u)') \in Nat
        <5>1. Promised(i, u)' \subseteq Requests
          BY DEF Promised, Rate!InFlight
        <5>2. IsFiniteSet(Promised(i, u)')
          BY <5>1, FS_Subset DEF RateSetting
        <5> QED BY <5>2, FS_CardinalityType
      <4> QED BY <4>1, <4>2
    <3> QED BY <3>1 DEF Granted, HitCounts
  <2>3. memory'[i] \in HitCounts
    BY DEF RateTypes
  <2> QED BY <2>1, <2>2, <2>3
<1>4. \A u \in Rate!Times : g[u] \in Nat /\ held[u] \in Nat /\ next[u] \in Nat /\ kept[u] \in Nat
  BY DEF HitCounts
<1>5. \A u \in Rate!Times : u + Window > moment => g[u] <= held[u]
  BY <1>3 DEF MemoryHolds
<1>6. \A t \in Rate!Times : Rate!Count(g, Rate!From(t, Window)) <= Limit
  BY <1>3 DEF MemoryBudget
<1>7. \A t \in Rate!Times : Rate!From(t, Window) \in SUBSET Rate!Times
  BY DEF Rate!From
<1>8. CASE GrantsNone(i)
  <2>1. \A u \in Rate!Times : next[u] <= g[u] /\ (u + Window > moment' => held[u] <= kept[u])
    BY <1>3, <1>8 DEF GrantsNone
  <2>2. \A u \in Rate!Times : u + Window > moment' => next[u] <= kept[u]
    BY <1>1, <1>4, <1>5, <2>1
  <2>3. ASSUME NEW t \in Rate!Times
        PROVE  Rate!Count(next, Rate!From(t, Window)) <= Limit
    <3>1. PICK T \in SUBSET Rate!Times : T = Rate!From(t, Window)
      BY <1>7
    <3>2. Rate!Count(next, T) <= Rate!Count(g, T)
      BY <2>1, CountMonotone
    <3>3. Rate!Count(next, T) \in Nat /\ Rate!Count(g, T) \in Nat /\ Rate!Count(g, T) <= Limit
      BY <1>6, <3>1, HitsFinite
    <3> QED BY <1>1, <3>1, <3>2, <3>3
  <2> QED BY <1>3, <2>2, <2>3
<1>9. CASE GrantsOne(i)
  <2>1. PICK pruned \in HitCounts :
          /\ pruned = Rate!Pruned(held, moment)
          /\ \A u \in Rate!Times : pruned[u] = IF u + Window > moment THEN held[u] ELSE 0
    BY <1>1, PrunedHits
  <2>2. kept = Rate!Add(pruned, moment) /\ Rate!Count(pruned, Rate!Times) < Limit /\ moment' = moment
    BY <1>3, <1>9, <2>1 DEF GrantsOne, Rate!MemoryAllows
  <2>3. Rate!Count(Rate!Add(pruned, moment), Rate!Times) <= Limit
    <3>1. Rate!Count(Rate!Add(pruned, moment), Rate!Times) = Rate!Count(pruned, Rate!Times) + 1
      BY <1>1, CountAdd
    <3>2. Rate!Count(pruned, Rate!Times) \in Nat
      BY HitsFinite
    <3> QED BY <1>1, <2>2, <3>1, <3>2
  <2>4. /\ Rate!Add(g, moment) \in HitCounts
        /\ \A u \in Rate!Times : Rate!Add(g, moment)[u] = IF u = moment THEN g[u] + 1 ELSE g[u]
        /\ \A u \in Rate!Times : kept[u] = IF u = moment THEN pruned[u] + 1 ELSE pruned[u]
    BY <1>1, <2>2, AddedHits
  <2>5. ASSUME NEW u \in Rate!Times
        PROVE  next[u] <= Rate!Add(g, moment)[u]
    <3>1. next[u] <= g[u] + (IF u = moment THEN 1 ELSE 0)
      BY <1>3, <1>9 DEF GrantsOne
    <3> QED BY <1>4, <2>4, <3>1
  <2>6. ASSUME NEW u \in Rate!Times, u + Window > moment'
        PROVE  next[u] <= kept[u]
    <3>1. g[u] <= pruned[u] /\ g[u] \in Nat /\ pruned[u] \in Nat /\ next[u] \in Nat /\ kept[u] \in Nat
      BY <1>4, <1>5, <2>1, <2>2, <2>6
    <3>2. CASE u = moment
      <4>1. next[u] <= g[u] + 1 /\ kept[u] = pruned[u] + 1
        BY <2>4, <2>5, <3>2
      <4> QED BY <3>1, <4>1
    <3>3. CASE u # moment
      <4>1. next[u] <= g[u] /\ kept[u] = pruned[u]
        BY <2>4, <2>5, <3>3
      <4> QED BY <3>1, <4>1
    <3> QED BY <3>2, <3>3
  <2>7. ASSUME NEW t \in Rate!Times
        PROVE  Rate!Count(next, Rate!From(t, Window)) <= Limit
    <3>1. PICK T \in SUBSET Rate!Times : T = Rate!From(t, Window)
      BY <1>7
    <3>2. ASSUME moment \in T, NEW u \in T
          PROVE  g[u] <= pruned[u]
      <4>1. u \in Rate!Times /\ u >= t /\ moment < t + Window /\ t \in Nat
        BY <1>1, <3>1, <3>2 DEF Rate!From
      <4>2. u + Window > moment
        BY <1>1, <4>1
      <4> QED BY <1>5, <2>1, <4>1, <4>2
    <3>3. Rate!Count(g, T) <= Limit
      BY <1>6, <3>1
    <3>4. Rate!Count(Rate!Add(g, moment), T) <= Limit
      BY <1>1, <2>3, <3>2, <3>3, BudgetStep
    <3>5. Rate!Count(next, T) <= Rate!Count(Rate!Add(g, moment), T)
      BY <2>4, <2>5, CountMonotone
    <3>6. Rate!Count(next, T) \in Nat /\ Rate!Count(Rate!Add(g, moment), T) \in Nat
      BY <2>4, HitsFinite
    <3> QED BY <1>1, <3>1, <3>4, <3>5, <3>6
  <2> QED BY <1>3, <2>6, <2>7
<1> QED BY <1>8, <1>9

LEMMA RateStarts == RateSetting /\ Rate!Init => RateInv
<1> SUFFICES ASSUME RateSetting, Rate!Init
             PROVE  RateInv
  OBVIOUS
<1>1. Rate!InFlight = {} /\ Rate!Empty \in HitCounts /\ moment \in Rate!Times
  BY DEF Rate!Init, Rate!InFlight, HitCounts, Rate!Empty, Rate!Times, RateSetting
<1>2. RateTypes
  BY <1>1 DEF Rate!Init, RateTypes
<1>3. \A u \in Rate!Times : Rate!Empty[u] = 0
  BY DEF Rate!Empty
<1>4. RedisHolds
  BY <1>3 DEF Rate!Init, RedisHolds
<1>5. ASSUME NEW i \in Instances, NEW u \in Rate!Times
      PROVE  Granted(i)[u] = 0
  <2>1. Promised(i, u) = {}
    BY <1>1 DEF Promised
  <2>2. Cardinality(Promised(i, u)) = 0
    BY <2>1, FS_EmptySet
  <2>3. passed.memory[i][u] = 0
    BY <1>3 DEF Rate!Init
  <2> QED BY <1>2, <2>2, <2>3, GrantedHits
<1>6. MemoryHolds
  BY <1>3, <1>5 DEF Rate!Init, MemoryHolds
<1>7. ASSUME NEW h \in HitCounts, \A u \in Rate!Times : h[u] = 0, NEW T \in SUBSET Rate!Times
      PROVE  Rate!Count(h, T) <= Limit
  <2>1. EachHit(h, T) = {}
    BY <1>7 DEF EachHit
  <2>2. Rate!Count(h, T) = 0
    BY <2>1, HitsFinite, FS_EmptySet
  <2> QED BY <2>2 DEF RateSetting
<1>8. RedisBudget
  BY <1>1, <1>3, <1>7 DEF Rate!Init, RedisBudget, Rate!From
<1>9. MemoryBudget
  <2> SUFFICES ASSUME NEW i \in Instances, NEW t \in Rate!Times
               PROVE  Rate!Count(Granted(i), Rate!From(t, Window)) <= Limit
    BY DEF MemoryBudget
  <2>1. PICK h \in HitCounts : h = Granted(i)
    BY <1>2, GrantedHits
  <2>2. \A u \in Rate!Times : h[u] = 0
    BY <1>5, <2>1
  <2>3. Rate!From(t, Window) \in SUBSET Rate!Times
    BY DEF Rate!From
  <2> QED BY <1>7, <2>1, <2>2, <2>3
<1> QED BY <1>2, <1>4, <1>6, <1>8, <1>9 DEF RateInv

\* Promises are taken of what is in flight, so what leaves takes its own along.
LEMMA PromisesKept ==
    ASSUME RateSetting, NEW i, NEW u, Promised(i, u)' \subseteq Promised(i, u)
    PROVE  Cardinality(Promised(i, u)') <= Cardinality(Promised(i, u)) /\ Cardinality(Promised(i, u)') \in Nat
<1>1. IsFiniteSet(Promised(i, u))
  BY PromisedFinite
<1>2. IsFiniteSet(Promised(i, u)') /\ Cardinality(Promised(i, u)') <= Cardinality(Promised(i, u))
  BY <1>1, FS_Subset
<1> QED BY <1>2, FS_CardinalityType

LEMMA GrantsNever ==
    ASSUME RateSetting, RateTypes, RateTypes', NEW i \in Instances, passed.memory'[i] = passed.memory[i],
           \A u \in Rate!Times : Promised(i, u)' \subseteq Promised(i, u)
    PROVE  \A u \in Rate!Times : Granted(i)'[u] <= Granted(i)[u]
<1> SUFFICES ASSUME NEW u \in Rate!Times
             PROVE  Granted(i)'[u] <= Granted(i)[u]
  OBVIOUS
<1>1. Granted(i)[u] = passed.memory[i][u] + Cardinality(Promised(i, u))
  BY GrantedHits
<1>2. Granted(i)'[u] = passed.memory'[i][u] + Cardinality(Promised(i, u)')
  BY DEF Granted
<1>3. passed.memory[i][u] \in Nat /\ Cardinality(Promised(i, u)) \in Nat
  BY GrantedHits, PromisedFinite DEF HitCounts
<1>4. Cardinality(Promised(i, u)') <= Cardinality(Promised(i, u)) /\ Cardinality(Promised(i, u)') \in Nat
  BY PromisesKept
<1> QED BY <1>1, <1>2, <1>3, <1>4

\* A hit on a bucket prunes only what no window counts any more.
LEMMA BucketHit ==
    ASSUME RateSetting, RateTypes, NEW i \in Instances, Rate!MemoryHit(i)
    PROVE  /\ memory' \in [Instances -> HitCounts]
           /\ \A k \in Instances : k # i => memory'[k] = memory[k]
           /\ Rate!MemoryAllows(i) => memory'[i] = Rate!Add(Rate!Pruned(memory[i], moment), moment)
           /\ ~Rate!MemoryAllows(i) => \A u \in Rate!Times : u + Window > moment => memory'[i][u] = memory[i][u]
<1>1. memory[i] \in HitCounts /\ moment \in Rate!Times
  BY DEF RateTypes
<1>2. PICK pruned \in HitCounts :
        /\ pruned = Rate!Pruned(memory[i], moment)
        /\ \A u \in Rate!Times : pruned[u] = IF u + Window > moment THEN memory[i][u] ELSE 0
  BY <1>1, PrunedHits
<1>3. Rate!Add(pruned, moment) \in HitCounts
  BY <1>1, AddedHits
<1>4. memory' = [memory EXCEPT ![i] = IF Rate!MemoryAllows(i) THEN Rate!Add(pruned, moment) ELSE pruned]
  BY <1>2 DEF Rate!MemoryHit
<1>5. memory \in [Instances -> HitCounts]
  BY DEF RateTypes
<1> QED BY <1>2, <1>3, <1>4, <1>5

LEMMA HitMemoryKeepsRate ==
    ASSUME RateSetting, RateInv, NEW i \in Instances, Rate!HitMemoryOnly(i)
    PROVE  RateInv'
<1>1. RateTypes /\ Rate!MemoryHit(i) /\ moment \in Rate!Times
  BY DEF Rate!HitMemoryOnly, RateInv, RateTypes
<1>2. PICK mine : mine = passed.memory[i]
  OBVIOUS
<1>3. mine \in HitCounts /\ Rate!Add(mine, moment) \in HitCounts
      /\ \A u \in Rate!Times : Rate!Add(mine, moment)[u] = IF u = moment THEN mine[u] + 1 ELSE mine[u]
  BY <1>1, <1>2, AddedHits DEF RateTypes
<1>4. /\ passed' \in [redis : HitCounts, memory : [Instances -> HitCounts]] /\ passed.redis' = passed.redis
      /\ \A k \in Instances : k # i => passed.memory'[k] = passed.memory[k]
      /\ passed.memory'[i] = IF Rate!MemoryAllows(i) THEN Rate!Add(mine, moment) ELSE mine
  BY <1>1, <1>2, <1>3 DEF Rate!HitMemoryOnly, Rate!PassMemory, RateTypes
<1>5. RateTypes'
  BY <1>1, <1>4, BucketHit DEF Rate!HitMemoryOnly, RateTypes, Rate!InFlight
<1>6. RedisHolds' /\ RedisBudget'
  BY <1>4 DEF Rate!HitMemoryOnly, RateInv, RedisHolds, RedisBudget
<1>7. \A k \in Instances, u \in Rate!Times : Promised(k, u)' = Promised(k, u)
  BY DEF Promised, Rate!InFlight, Rate!HitMemoryOnly
<1>8. ASSUME NEW k \in Instances
      PROVE  GrantsOne(k) \/ GrantsNone(k)
  <2>1. CASE passed.memory'[k] = passed.memory[k] /\ (k # i \/ ~Rate!MemoryAllows(i))
    <3>1. \A u \in Rate!Times : Granted(k)'[u] <= Granted(k)[u]
      BY <1>1, <1>5, <1>7, <2>1, GrantsNever
    <3>2. \A u \in Rate!Times : u + Window > moment' => memory[k][u] = memory'[k][u]
      BY <1>1, <2>1, BucketHit DEF Rate!HitMemoryOnly
    <3>3. \A u \in Rate!Times : memory[k][u] \in Nat
      BY <1>1 DEF RateTypes, HitCounts
    <3> QED BY <3>1, <3>2, <3>3 DEF GrantsNone
  <2>2. CASE k = i /\ Rate!MemoryAllows(i)
    <3>1. ASSUME NEW u \in Rate!Times
          PROVE  Granted(i)'[u] <= Granted(i)[u] + (IF u = moment THEN 1 ELSE 0)
      <4>1. Granted(i)[u] = mine[u] + Cardinality(Promised(i, u)) /\ Cardinality(Promised(i, u)) \in Nat
        BY <1>1, <1>2, GrantedHits, PromisedFinite
      <4>2. Granted(i)'[u] = passed.memory'[i][u] + Cardinality(Promised(i, u))
        BY <1>7 DEF Granted
      <4>3. passed.memory'[i][u] = mine[u] + (IF u = moment THEN 1 ELSE 0) /\ mine[u] \in Nat
        BY <1>3, <1>4, <2>2 DEF HitCounts
      <4> QED BY <4>1, <4>2, <4>3
    <3> QED BY <1>1, <2>2, <3>1, BucketHit DEF GrantsOne, Rate!HitMemoryOnly
  <2> QED BY <1>2, <1>4, <2>1, <2>2
<1>9. MemoryHolds' /\ MemoryBudget'
  BY <1>1, <1>5, <1>8, GrantStep DEF Rate!HitMemoryOnly, RateInv
<1> QED BY <1>5, <1>6, <1>9 DEF RateInv

LEMMA OneMore ==
    ASSUME NEW P, NEW x, IsFiniteSet(P)
    PROVE  IsFiniteSet(P \cup {x}) /\ Cardinality(P \cup {x}) <= Cardinality(P) + 1
<1>1. Cardinality(P) \in Nat /\ Cardinality(P) \in Int
  BY FS_CardinalityType
<1>2. IsFiniteSet(P \cup {x}) /\ Cardinality(P \cup {x}) \in {Cardinality(P), Cardinality(P) + 1}
  BY FS_AddElement
<1> QED BY <1>1, <1>2

LEMMA AskKeepsRate ==
    ASSUME RateSetting, RateInv, NEW r \in Requests, NEW i \in Instances, Rate!Ask(r, i)
    PROVE  RateInv'
<1>1. RateTypes /\ Rate!MemoryHit(i) /\ moment \in Rate!Times /\ moment \in Nat /\ Delay \in Nat
  BY DEF Rate!Ask, RateInv, RateTypes, Rate!Times, RateSetting
<1>2. /\ asking' = [q \in Requests |->
           IF q = r THEN [at |-> moment, on |-> i, fallback |-> Rate!MemoryAllows(i)] ELSE asking[q]]
      /\ r \notin Rate!InFlight
  BY DEF Rate!Ask, RateInv, RateTypes, Rate!InFlight
<1>3. \A q \in Rate!InFlight' : q = r \/ (q \in Rate!InFlight /\ asking'[q] = asking[q])
  BY <1>2 DEF Rate!InFlight
<1>4. Rate!MemoryAllows(i) \in BOOLEAN
  BY DEF Rate!MemoryAllows
<1>5. RateTypes'
  <2>1. asking'[r].at = moment /\ asking'[r].on = i /\ asking'[r].fallback \in BOOLEAN
    BY <1>2, <1>4
  <2>2. \A q \in Rate!InFlight' : /\ asking'[q].at \in Rate!Times /\ asking'[q].at <= moment
                                  /\ asking'[q].at + Delay >= moment
                                  /\ asking'[q].on \in Instances /\ asking'[q].fallback \in BOOLEAN
    BY <1>1, <1>3, <2>1 DEF RateTypes
  <2>3. asking' = [q \in Requests |-> asking'[q]]
    BY <1>2
  <2> QED BY <1>1, <2>2, <2>3, BucketHit DEF Rate!Ask, RateTypes
<1>6. RedisHolds' /\ RedisBudget'
  BY DEF Rate!Ask, RateInv, RedisHolds, RedisBudget
<1>7. ASSUME NEW k \in Instances, NEW u \in Rate!Times
      PROVE  /\ Promised(k, u)' \subseteq Promised(k, u) \cup {r}
             /\ k # i \/ u # moment \/ ~Rate!MemoryAllows(i) => Promised(k, u)' \subseteq Promised(k, u)
  <2>1. asking'[r].at = moment /\ asking'[r].on = i /\ asking'[r].fallback = Rate!MemoryAllows(i)
    BY <1>2
  <2> QED BY <1>3, <2>1 DEF Promised
<1>8. ASSUME NEW k \in Instances
      PROVE  GrantsOne(k) \/ GrantsNone(k)
  <2>1. CASE k # i \/ ~Rate!MemoryAllows(i)
    <3>1. \A u \in Rate!Times : Granted(k)'[u] <= Granted(k)[u]
      BY <1>1, <1>5, <1>7, <2>1, GrantsNever DEF Rate!Ask
    <3>2. \A u \in Rate!Times : u + Window > moment' => memory[k][u] = memory'[k][u]
      BY <1>1, <2>1, BucketHit DEF Rate!Ask
    <3>3. \A u \in Rate!Times : memory[k][u] \in Nat
      BY <1>1 DEF RateTypes, HitCounts
    <3> QED BY <3>1, <3>2, <3>3 DEF GrantsNone
  <2>2. CASE k = i /\ Rate!MemoryAllows(i)
    <3>1. ASSUME NEW u \in Rate!Times
          PROVE  Granted(i)'[u] <= Granted(i)[u] + (IF u = moment THEN 1 ELSE 0)
      <4>1. /\ Granted(i)[u] = passed.memory[i][u] + Cardinality(Promised(i, u))
            /\ Cardinality(Promised(i, u)) \in Nat /\ passed.memory[i][u] \in Nat
        BY <1>1, GrantedHits, PromisedFinite DEF HitCounts
      <4>2. Granted(i)'[u] = passed.memory[i][u] + Cardinality(Promised(i, u)')
        BY DEF Granted, Rate!Ask
      <4>3. CASE u # moment
        <5>1. Cardinality(Promised(i, u)') <= Cardinality(Promised(i, u))
                /\ Cardinality(Promised(i, u)') \in Nat
          BY <1>7, <4>3, PromisesKept
        <5> QED BY <4>1, <4>2, <4>3, <5>1
      <4>4. CASE u = moment
        <5>1. IsFiniteSet(Promised(i, u))
          BY PromisedFinite
        <5>2. /\ IsFiniteSet(Promised(i, u) \cup {r})
              /\ Cardinality(Promised(i, u) \cup {r}) <= Cardinality(Promised(i, u)) + 1
          BY <5>1, OneMore
        <5>3. /\ IsFiniteSet(Promised(i, u)')
              /\ Cardinality(Promised(i, u)') <= Cardinality(Promised(i, u) \cup {r})
          BY <1>7, <5>2, FS_Subset
        <5>4. Cardinality(Promised(i, u)') \in Nat /\ Cardinality(Promised(i, u) \cup {r}) \in Nat
          BY <5>2, <5>3, FS_CardinalityType
        <5> QED BY <4>1, <4>2, <4>4, <5>2, <5>3, <5>4
      <4> QED BY <4>3, <4>4
    <3> QED BY <1>1, <2>2, <3>1, BucketHit DEF GrantsOne, Rate!Ask
  <2> QED BY <2>1, <2>2
<1>9. MemoryHolds' /\ MemoryBudget'
  BY <1>1, <1>5, <1>8, GrantStep DEF Rate!Ask, RateInv
<1> QED BY <1>5, <1>6, <1>9 DEF RateInv

\* What a request in flight leaves behind: nothing that is in flight still, and its promise.
LEMMA LeavesFlight ==
    ASSUME RateSetting, RateTypes, NEW r \in Rate!InFlight, asking' = [asking EXCEPT ![r] = Rate!Idle],
           moment' = moment
    PROVE  /\ asking' = [q \in Requests |-> asking'[q]]
           /\ \A q \in Rate!InFlight' : q # r /\ q \in Rate!InFlight /\ asking'[q] = asking[q]
           /\ \A q \in Rate!InFlight' : /\ asking'[q].at \in Rate!Times /\ asking'[q].at <= moment'
                                        /\ asking'[q].at + Delay >= moment'
                                        /\ asking'[q].on \in Instances /\ asking'[q].fallback \in BOOLEAN
           /\ \A k, u : Promised(k, u)' \subseteq Promised(k, u) \ {r}
<1>1. /\ r \in Requests
      /\ asking' = [q \in Requests |-> IF q = r THEN Rate!Idle ELSE asking[q]]
  BY DEF RateTypes, Rate!InFlight
<1>2. \A q \in Rate!InFlight' : q # r /\ q \in Rate!InFlight /\ asking'[q] = asking[q]
  BY <1>1 DEF Rate!InFlight
<1>3. \A q \in Rate!InFlight' : /\ asking'[q].at \in Rate!Times /\ asking'[q].at <= moment'
                                /\ asking'[q].at + Delay >= moment'
                                /\ asking'[q].on \in Instances /\ asking'[q].fallback \in BOOLEAN
  BY <1>2 DEF RateTypes
<1>4. \A k, u : Promised(k, u)' \subseteq Promised(k, u) \ {r}
  BY <1>2 DEF Promised
<1> QED BY <1>1, <1>2, <1>3, <1>4

LEMMA AnswerKeepsRate ==
    ASSUME RateSetting, RateInv, NEW r \in Requests, Rate!Answer(r)
    PROVE  RateInv'
<1>1. RateTypes /\ RedisHolds /\ RedisBudget /\ moment' = moment /\ r \in Rate!InFlight
  BY DEF Rate!Answer, RateInv, Rate!InFlight
<1>2. PICK at \in Rate!Times : at = asking[r].at /\ at <= moment /\ at + Delay >= moment
  BY <1>1 DEF RateTypes
<1>3. /\ Rate!RunScript(at) /\ asking' = [asking EXCEPT ![r] = Rate!Idle]
      /\ passed' = IF Rate!ScriptAllows(at) THEN [passed EXCEPT !.redis = Rate!Add(@, at)] ELSE passed
  BY <1>2 DEF Rate!Answer
<1>4. PICK p \in HitCounts : p = passed.redis
  BY <1>1 DEF RateTypes
<1>5. Rate!Add(p, at) \in HitCounts
        /\ \A u \in Rate!Times : Rate!Add(p, at)[u] = IF u = at THEN p[u] + 1 ELSE p[u]
  BY AddedHits
<1>6. /\ passed' \in [redis : HitCounts, memory : [Instances -> HitCounts]]
      /\ passed.memory' = passed.memory
      /\ passed.redis' = IF Rate!ScriptAllows(at) THEN Rate!Add(p, at) ELSE p
  BY <1>1, <1>3, <1>4, <1>5 DEF RateTypes
<1>7. /\ redis' \in HitCounts
      /\ \A u \in Rate!Times : u + Window > moment =>
           redis'[u] = IF Rate!ScriptAllows(at) /\ u = at THEN redis[u] + 1 ELSE redis[u]
  BY <1>1, <1>2, <1>3, ScriptHolds
<1>8. RateTypes'
  BY <1>1, <1>3, <1>6, <1>7, LeavesFlight DEF Rate!Answer, RateTypes
<1>9. RedisHolds'
  <2> SUFFICES ASSUME NEW u \in Rate!Times, u + Window > moment
               PROVE  passed.redis'[u] <= redis'[u]
    BY <1>1 DEF RedisHolds
  <2>1. p[u] <= redis[u] /\ p[u] \in Nat /\ redis[u] \in Nat
    BY <1>1, <1>4 DEF RedisHolds, RateTypes, HitCounts
  <2> QED BY <1>5, <1>6, <1>7, <2>1
<1>10. RedisBudget'
  <2> SUFFICES ASSUME NEW t \in Rate!Times
               PROVE  Rate!Count(passed.redis', Rate!From(t, Window - Delay)) <= Limit
    BY DEF RedisBudget
  <2>1. CASE Rate!ScriptAllows(at)
    BY <1>1, <1>2, <1>4, <1>6, <2>1, ScriptBudget
  <2>2. CASE ~Rate!ScriptAllows(at)
    BY <1>1, <1>4, <1>6, <2>2 DEF RedisBudget
  <2> QED BY <2>1, <2>2
<1>11. ASSUME NEW k \in Instances
       PROVE  GrantsOne(k) \/ GrantsNone(k)
  <2>1. \A u \in Rate!Times : Granted(k)'[u] <= Granted(k)[u]
    BY <1>1, <1>3, <1>6, <1>8, LeavesFlight, GrantsNever
  <2>2. \A u \in Rate!Times : memory[k][u] \in Nat
    BY <1>1 DEF RateTypes, HitCounts
  <2> QED BY <2>1, <2>2 DEF GrantsNone, Rate!Answer
<1>12. MemoryHolds' /\ MemoryBudget'
  BY <1>1, <1>8, <1>11, GrantStep DEF RateInv
<1> QED BY <1>8, <1>9, <1>10, <1>12 DEF RateInv

LEMMA FailKeepsRate ==
    ASSUME RateSetting, RateInv, NEW r \in Requests, Rate!Fail(r)
    PROVE  RateInv'
<1>1. RateTypes /\ RedisHolds /\ RedisBudget /\ moment' = moment /\ r \in Rate!InFlight
  BY DEF Rate!Fail, RateInv, Rate!InFlight
<1>2. PICK at \in Rate!Times : at = asking[r].at /\ at <= moment /\ at + Delay >= moment
  BY <1>1 DEF RateTypes
<1>3. PICK i \in Instances : i = asking[r].on
  BY <1>1 DEF RateTypes
<1>4. /\ Rate!RunScript(at) \/ UNCHANGED redis
      /\ asking' = [asking EXCEPT ![r] = Rate!Idle]
      /\ passed' = IF asking[r].fallback THEN [passed EXCEPT !.memory[i] = Rate!Add(@, at)] ELSE passed
  BY <1>2, <1>3 DEF Rate!Fail, Rate!PassMemory
<1>5. PICK mine \in HitCounts : mine = passed.memory[i]
  BY <1>1 DEF RateTypes
<1>6. Rate!Add(mine, at) \in HitCounts
        /\ \A u \in Rate!Times : Rate!Add(mine, at)[u] = IF u = at THEN mine[u] + 1 ELSE mine[u]
  BY AddedHits
<1>7. /\ passed' \in [redis : HitCounts, memory : [Instances -> HitCounts]] /\ passed.redis' = passed.redis
      /\ \A k \in Instances : k # i => passed.memory'[k] = passed.memory[k]
      /\ passed.memory'[i] = IF asking[r].fallback THEN Rate!Add(mine, at) ELSE mine
  BY <1>1, <1>4, <1>5, <1>6 DEF RateTypes
<1>8. /\ redis' \in HitCounts
      /\ \A u \in Rate!Times : u + Window > moment => redis[u] <= redis'[u]
  <2>1. redis \in HitCounts /\ \A u \in Rate!Times : redis[u] \in Nat
    BY <1>1 DEF RateTypes, HitCounts
  <2>2. CASE Rate!RunScript(at)
    <3>1. /\ redis' \in HitCounts
          /\ \A u \in Rate!Times : u + Window > moment =>
               redis'[u] = IF Rate!ScriptAllows(at) /\ u = at THEN redis[u] + 1 ELSE redis[u]
      BY <1>1, <1>2, <2>2, ScriptHolds
    <3> QED BY <2>1, <3>1
  <2>3. CASE UNCHANGED redis
    BY <2>1, <2>3
  <2> QED BY <1>4, <2>2, <2>3
<1>9. RateTypes'
  BY <1>1, <1>4, <1>7, <1>8, LeavesFlight DEF Rate!Fail, RateTypes
<1>10. RedisHolds'
  <2> SUFFICES ASSUME NEW u \in Rate!Times, u + Window > moment
               PROVE  passed.redis[u] <= redis'[u]
    BY <1>1, <1>7 DEF RedisHolds
  <2>1. passed.redis[u] \in Nat /\ redis[u] \in Nat /\ redis'[u] \in Nat
    BY <1>1, <1>8 DEF RateTypes, HitCounts
  <2> QED BY <1>1, <1>8, <2>1 DEF RedisHolds
<1>11. RedisBudget'
  BY <1>1, <1>7 DEF RedisBudget
<1>12. ASSUME NEW k \in Instances, NEW u \in Rate!Times
       PROVE  Granted(k)'[u] <= Granted(k)[u]
  <2>1. CASE passed.memory'[k] = passed.memory[k]
    BY <1>1, <1>4, <1>9, <2>1, LeavesFlight, GrantsNever
  <2>2. CASE k = i /\ asking[r].fallback
    <3>1. /\ Granted(i)[u] = mine[u] + Cardinality(Promised(i, u))
          /\ Cardinality(Promised(i, u)) \in Nat /\ mine[u] \in Nat
      BY <1>1, <1>5, GrantedHits, PromisedFinite DEF HitCounts
    <3>2. Granted(i)'[u] = passed.memory'[i][u] + Cardinality(Promised(i, u)')
      BY DEF Granted
    <3>3. passed.memory'[i][u] = IF u = at THEN mine[u] + 1 ELSE mine[u]
      BY <1>6, <1>7, <2>2
    <3>4. Promised(i, u)' \subseteq Promised(i, u) \ {r}
      BY <1>1, <1>4, LeavesFlight
    <3>5. CASE u # at
      <4>1. Promised(i, u)' \subseteq Promised(i, u)
        BY <3>4
      <4>2. Cardinality(Promised(i, u)') <= Cardinality(Promised(i, u)) /\ Cardinality(Promised(i, u)') \in Nat
        BY <4>1, PromisesKept
      <4> QED BY <2>2, <3>1, <3>2, <3>3, <3>5, <4>2
    <3>6. CASE u = at
      <4>1. r \in Promised(i, u)
        BY <1>1, <1>2, <1>3, <2>2, <3>6 DEF Promised
      <4>2. IsFiniteSet(Promised(i, u))
        BY PromisedFinite
      <4>3. /\ IsFiniteSet(Promised(i, u) \ {r})
            /\ Cardinality(Promised(i, u) \ {r}) = Cardinality(Promised(i, u)) - 1
        BY <4>1, <4>2, FS_RemoveElement
      <4>4. /\ IsFiniteSet(Promised(i, u)')
            /\ Cardinality(Promised(i, u)') <= Cardinality(Promised(i, u) \ {r})
        BY <3>4, <4>3, FS_Subset
      <4>5. Cardinality(Promised(i, u)') \in Nat
        BY <4>4, FS_CardinalityType
      <4> QED BY <2>2, <3>1, <3>2, <3>3, <3>6, <4>3, <4>4, <4>5
    <3> QED BY <3>5, <3>6
  <2> QED BY <1>5, <1>7, <2>1, <2>2
<1>13. ASSUME NEW k \in Instances
       PROVE  GrantsOne(k) \/ GrantsNone(k)
  <2>1. \A u \in Rate!Times : memory[k][u] \in Nat
    BY <1>1 DEF RateTypes, HitCounts
  <2> QED BY <1>12, <2>1 DEF GrantsNone, Rate!Fail
<1>14. MemoryHolds' /\ MemoryBudget'
  BY <1>1, <1>9, <1>13, GrantStep DEF RateInv
<1> QED BY <1>9, <1>10, <1>11, <1>14 DEF RateInv

\* Time passes, a cooldown ends, a bucket that no window counts any more is evicted.
LEMMA QuietKeepsRate ==
    ASSUME RateSetting, RateInv, ~Crowded,
           Rate!Tick \/ \E i \in Instances : Rate!CooldownEnds(i) \/ Rate!Evict(i)
    PROVE  RateInv'
<1>1. RateTypes /\ UNCHANGED <<redis, asking, passed>> /\ moment' \in {moment, moment + 1}
  BY DEF RateInv, Rate!Tick, Rate!CooldownEnds, Rate!Evict
<1>2. moment \in Nat /\ moment' \in Nat /\ MaxTime \in Nat /\ Delay \in Nat /\ Window \in Nat
        /\ \A u \in Rate!Times : u \in Nat
  BY <1>1 DEF RateTypes, RateSetting, Rate!Times
<1>3. /\ memory' \in [Instances -> HitCounts]
      /\ \A i \in Instances, u \in Rate!Times : u + Window > moment => memory[i][u] = memory'[i][u]
  <2>1. CASE UNCHANGED memory
    BY <1>1, <2>1 DEF RateTypes
  <2>2. ASSUME NEW i \in Instances, Rate!Evict(i)
        PROVE  /\ memory' \in [Instances -> HitCounts]
               /\ \A k \in Instances, u \in Rate!Times : u + Window > moment => memory[k][u] = memory'[k][u]
    <3>1. memory' = [memory EXCEPT ![i] = Rate!Empty] /\ Rate!Pruned(memory[i], moment) = Rate!Empty
      BY <2>2 DEF Rate!Evict
    <3>2. Rate!Empty \in HitCounts /\ \A u \in Rate!Times : Rate!Empty[u] = 0
      BY DEF Rate!Empty, HitCounts
    <3>3. \A u \in Rate!Times : u + Window > moment => memory[i][u] = 0
      <4>1. memory[i] \in HitCounts
        BY <1>1 DEF RateTypes
      <4> QED BY <3>1, <3>2, <4>1, PrunedHits
    <3> QED BY <1>1, <3>1, <3>2, <3>3 DEF RateTypes
  <2> QED BY <2>1, <2>2 DEF Rate!Tick, Rate!CooldownEnds
<1>4. moment' \in Rate!Times /\ \A r \in Rate!InFlight : asking[r].at <= moment'
        /\ asking[r].at + Delay >= moment'
  <2>1. CASE moment' = moment
    BY <1>1, <2>1 DEF RateTypes
  <2>2. CASE Rate!Tick
    <3>1. moment' = moment + 1 /\ moment < MaxTime /\ \A r \in Rate!InFlight : asking[r].at + Delay > moment
      BY <2>2 DEF Rate!Tick
    <3>2. \A r \in Rate!InFlight : asking[r].at \in Nat /\ asking[r].at <= moment
      BY <1>1, <1>2 DEF RateTypes
    <3> QED BY <1>1, <1>2, <3>1, <3>2 DEF Rate!Times
  <2> QED BY <2>1, <2>2 DEF Rate!CooldownEnds, Rate!Evict
<1>5. RateTypes'
  BY <1>1, <1>3, <1>4 DEF RateTypes, Rate!InFlight
<1>6. RedisHolds'
  <2>1. \A u \in Rate!Times : u + Window > moment' => u + Window > moment
    BY <1>1, <1>2
  <2> QED BY <1>1, <2>1 DEF RateInv, RedisHolds
<1>7. RedisBudget'
  BY <1>1 DEF RateInv, RedisBudget
<1>8. ASSUME NEW k \in Instances
      PROVE  GrantsOne(k) \/ GrantsNone(k)
  <2>1. \A u \in Rate!Times : Promised(k, u)' \subseteq Promised(k, u)
    BY <1>1 DEF Promised, Rate!InFlight
  <2>2. \A u \in Rate!Times : Granted(k)'[u] <= Granted(k)[u]
    BY <1>1, <1>5, <2>1, GrantsNever
  <2>3. \A u \in Rate!Times : u + Window > moment' => u + Window > moment
    BY <1>1, <1>2
  <2>4. \A u \in Rate!Times : memory[k][u] \in Nat
    BY <1>1 DEF RateTypes, HitCounts
  <2>5. \A u \in Rate!Times : u + Window > moment' => memory[k][u] <= memory'[k][u]
    BY <1>3, <2>3, <2>4
  <2> QED BY <2>2, <2>5 DEF GrantsNone
<1>9. MemoryHolds' /\ MemoryBudget'
  BY <1>1, <1>5, <1>8, GrantStep DEF RateInv
<1> QED BY <1>5, <1>6, <1>7, <1>9 DEF RateInv

LEMMA RateStep == RateSetting /\ ~Crowded /\ RateInv /\ [Rate!Next]_Rate!vars => RateInv'
<1>1. ASSUME RateInv, UNCHANGED Rate!vars
      PROVE  RateInv'
  BY <1>1 DEF Rate!vars, RateInv, RateTypes, Rate!InFlight, RedisHolds, RedisBudget, MemoryHolds,
              MemoryBudget, Granted, Promised
<1> QED BY <1>1, HitMemoryKeepsRate, AskKeepsRate, AnswerKeepsRate, FailKeepsRate, QuietKeepsRate DEF Rate!Next

\* The instances share one budget: however late and out of order the scripts run, whatever
\* fails before or after its script and whenever an instance falls back to its own bucket,
\* no window shorter than the limiter's by the longest script call lets more through Redis
\* than the limit, and no full window more through one instance's memory, promises for
\* requests in flight included; an evicted bucket must have been out of its window.
THEOREM BudgetKept ==
    ASSUME RateSetting, ~Crowded
    PROVE  Rate!Spec => []Rate!BudgetKept
<1>1. Rate!Init => RateInv
  BY RateStarts
<1>2. RateInv /\ [Rate!Next]_Rate!vars => RateInv'
  BY RateStep
<1>3. RateInv => Rate!BudgetKept
  <2> SUFFICES ASSUME RateInv, NEW t \in Rate!Times, NEW i \in Instances
               PROVE  Rate!Count(passed.memory[i], Rate!From(t, Window)) <= Limit
    BY DEF RateInv, RedisBudget, Rate!BudgetKept
  <2>1. PICK T \in SUBSET Rate!Times : T = Rate!From(t, Window)
    BY DEF Rate!From
  <2>2. PICK p \in HitCounts, g \in HitCounts : p = passed.memory[i] /\ g = Granted(i)
    BY GrantedHits DEF RateInv
  <2>3. \A u \in T : p[u] <= g[u]
    <3>1. \A u \in Rate!Times : /\ g[u] = p[u] + Cardinality(Promised(i, u))
                                /\ Cardinality(Promised(i, u)) \in Nat /\ p[u] \in Nat
      BY <2>2, GrantedHits, PromisedFinite DEF RateInv, HitCounts
    <3> QED BY <3>1
  <2>4. Rate!Count(p, T) <= Rate!Count(g, T)
    BY <2>3, CountMonotone
  <2>5. Rate!Count(g, T) <= Limit
    BY <2>1, <2>2 DEF RateInv, MemoryBudget
  <2>6. Rate!Count(p, T) \in Nat /\ Rate!Count(g, T) \in Nat /\ Limit \in Nat
    BY HitsFinite DEF RateSetting
  <2> QED BY <2>1, <2>2, <2>4, <2>5, <2>6
<1> QED BY <1>1, <1>2, <1>3, PTL DEF Rate!Spec

LEMMA DenialStep ==
    ASSUME RateSetting, redis \in HitCounts, Rate!DenialsCostNothing, NEW at \in Rate!Times, Rate!RunScript(at)
    PROVE  redis' \in HitCounts /\ Rate!DenialsCostNothing'
<1>1. PICK pruned \in HitCounts, held \in HitCounts :
        /\ held = redis /\ pruned = Rate!Pruned(redis, at)
        /\ \A u \in Rate!Times : pruned[u] = IF u + Window > at THEN redis[u] ELSE 0
  BY PrunedHits
<1>2. CASE Rate!ScriptAllows(at)
  <2>1. Rate!Add(pruned, at) \in HitCounts
    BY AddedHits
  <2> QED BY <1>1, <1>2, <2>1 DEF Rate!RunScript, Rate!ScriptAllows, Rate!DenialsCostNothing
<1>3. CASE ~Rate!ScriptAllows(at)
  <2>1. \A u \in Rate!Times : pruned[u] <= held[u]
    BY <1>1 DEF HitCounts
  <2>2. Rate!Count(pruned, Rate!Times) <= Rate!Count(held, Rate!Times)
    BY <2>1, CountMonotone
  <2>3. Rate!Count(pruned, Rate!Times) \in Nat /\ Rate!Count(held, Rate!Times) \in Nat /\ Limit \in Nat
    BY HitsFinite DEF RateSetting
  <2> QED BY <1>1, <1>3, <2>2, <2>3 DEF Rate!RunScript, Rate!AfterDenial, Rate!DenialsCostNothing
<1> QED BY <1>2, <1>3

DenialInv ==
    /\ redis \in HitCounts /\ Rate!DenialsCostNothing /\ moment \in Rate!Times
    /\ asking = [r \in Requests |-> asking[r]]
    /\ \A r \in Rate!InFlight : asking[r].at \in Rate!Times

\* A denied hit is taken back: the set in Redis never holds more hits than the limit,
\* whatever order the scripts run in and whichever buckets are evicted meanwhile.
THEOREM DenialsCostNothing ==
    ASSUME RateSetting
    PROVE  Rate!Spec => []Rate!DenialsCostNothing
<1>1. Rate!Init => DenialInv
  <2> SUFFICES ASSUME Rate!Init
               PROVE  DenialInv
    OBVIOUS
  <2>1. RateInv
    BY RateStarts
  <2>2. PICK h \in HitCounts : h = redis
    BY <2>1 DEF RateInv, RateTypes
  <2>3. \A u \in Rate!Times : h[u] = 0
    BY <2>2 DEF Rate!Init, Rate!Empty
  <2>4. EachHit(h, Rate!Times) = {}
    BY <2>3 DEF EachHit
  <2>5. Rate!Count(h, Rate!Times) = 0
    BY <2>4, HitsFinite, FS_EmptySet
  <2> QED BY <2>1, <2>2, <2>5 DEF RateInv, RateTypes, DenialInv, Rate!DenialsCostNothing, RateSetting
<1>2. DenialInv /\ [Rate!Next]_Rate!vars => DenialInv'
  <2> SUFFICES ASSUME DenialInv, [Rate!Next]_Rate!vars
               PROVE  DenialInv'
    OBVIOUS
  <2>1. ASSUME UNCHANGED <<redis, asking>>, moment' \in Rate!Times
        PROVE  DenialInv'
    BY <2>1 DEF DenialInv, Rate!DenialsCostNothing, Rate!InFlight
  <2>2. CASE Rate!Tick
    <3>1. moment' \in Rate!Times
      BY <2>2 DEF Rate!Tick, DenialInv, Rate!Times, RateSetting
    <3> QED BY <2>1, <2>2, <3>1 DEF Rate!Tick
  <2>3. CASE UNCHANGED Rate!vars \/ \E i \in Instances : Rate!HitMemoryOnly(i) \/ Rate!CooldownEnds(i)
               \/ Rate!Evict(i)
    BY <2>1, <2>3 DEF Rate!vars, Rate!HitMemoryOnly, Rate!CooldownEnds, Rate!Evict, DenialInv
  <2>4. ASSUME NEW r \in Requests, Rate!Answer(r) \/ Rate!Fail(r)
        PROVE  DenialInv'
    <3>1. PICK at \in Rate!Times : at = asking[r].at
      BY <2>4 DEF DenialInv, Rate!InFlight, Rate!Answer, Rate!Fail
    <3>2. Rate!RunScript(at) \/ UNCHANGED redis
      BY <2>4, <3>1 DEF Rate!Answer, Rate!Fail
    <3>3. redis' \in HitCounts /\ Rate!DenialsCostNothing'
      BY <3>2, DenialStep DEF DenialInv, Rate!DenialsCostNothing
    <3>4. asking' = [q \in Requests |-> IF q = r THEN Rate!Idle ELSE asking[q]] /\ moment' = moment
      BY <2>4 DEF Rate!Answer, Rate!Fail, DenialInv
    <3> QED BY <3>3, <3>4 DEF DenialInv, Rate!InFlight
  <2>5. ASSUME NEW r \in Requests, NEW i \in Instances, Rate!Ask(r, i)
        PROVE  DenialInv'
    <3>1. /\ asking' = [q \in Requests |->
               IF q = r THEN [at |-> moment, on |-> i, fallback |-> Rate!MemoryAllows(i)] ELSE asking[q]]
          /\ UNCHANGED <<moment, redis>>
      BY <2>5 DEF Rate!Ask, DenialInv
    <3>2. \A q \in Rate!InFlight' : asking'[q].at \in Rate!Times
      BY <3>1 DEF Rate!InFlight, DenialInv
    <3> QED BY <3>1, <3>2 DEF DenialInv, Rate!DenialsCostNothing
  <2> QED BY <2>2, <2>3, <2>4, <2>5 DEF Rate!Next
<1>3. DenialInv => Rate!DenialsCostNothing
  BY DEF DenialInv
<1> QED BY <1>1, <1>2, <1>3, PTL DEF Rate!Spec

(***************************************************************************)
(* Branded domains and their certificates.                                 *)
(***************************************************************************)
Row(d) == [status |-> prov[d].status, next |-> prov[d].next]
DomainInv ==
    /\ prov = [d \in Domains |-> Row(d)]
    /\ job = [r \in Runs |-> job[r]]
    /\ Naming!ClaimComesBack

\* A domain is as safe as it was when its row, its mark and its claimer are.
AsItWas(d) ==
    /\ prov'[d] = prov[d]
    /\ d \in abandoned => d \in abandoned'
    /\ \A r \in Runs : Naming!Claims(r, d) => Naming!Claims(r, d)'
\* Or when the step itself accounts for it.
Settled(d) ==
    \/ prov'[d].status # "renewal_in_progress"
    \/ prov'[d].next # "none" \/ d \in abandoned' \/ \E r \in Runs : Naming!Claims(r, d)'

LEMMA SettledComesBack ==
    ASSUME Naming!ClaimComesBack, \A d \in Domains : AsItWas(d) \/ Settled(d)
    PROVE  Naming!ClaimComesBack'
BY DEF Naming!ClaimComesBack, AsItWas, Settled

LEMMA Provisioned ==
    ASSUME DomainInv, NEW d, NEW written, written = [status |-> written.status, next |-> written.next],
           Naming!Provision(d, written)
    PROVE  /\ prov' = [e \in Domains |-> Row(e)'] /\ (d \in Domains => prov'[d] = written)
           /\ \A e \in Domains : e # d => prov'[e] = prov[e] /\ (e \in abandoned => e \in abandoned')
<1>1. prov = [e \in Domains |-> Row(e)] /\ prov' = [prov EXCEPT ![d] = written] /\ abandoned' = abandoned \ {d}
  BY DEF DomainInv, Naming!Provision
<1>2. prov' = [e \in Domains |-> IF e = d THEN written ELSE Row(e)]
  BY <1>1
<1>3. ASSUME NEW e \in Domains
      PROVE  prov'[e] = Row(e)'
  <2>1. CASE e = d
    <3>1. prov'[e] = written
      BY <1>2, <2>1
    <3> QED BY <3>1 DEF Row
  <2>2. CASE e # d
    <3>1. prov'[e] = Row(e)
      BY <1>2, <2>2
    <3> QED BY <3>1 DEF Row
  <2> QED BY <2>1, <2>2
<1> QED BY <1>1, <1>2, <1>3

\* The row with another status.
LEMMA StatusRow ==
    ASSUME DomainInv, NEW d, NEW status, Naming!Provision(d, [prov[d] EXCEPT !.status = status])
    PROVE  /\ prov' = [e \in Domains |-> Row(e)'] /\ (d \in Domains => prov'[d].status = status)
           /\ \A e \in Domains : e # d => prov'[e] = prov[e] /\ (e \in abandoned => e \in abandoned')
<1>1. CASE d \in Domains
  <2>1. PICK written : written = [prov[d] EXCEPT !.status = status]
    OBVIOUS
  <2>2. prov[d] = Row(d)
    BY <1>1 DEF DomainInv
  <2>3. written = [status |-> status, next |-> prov[d].next]
    BY <2>1, <2>2 DEF Row
  <2>4. written = [status |-> written.status, next |-> written.next] /\ written.status = status
    BY <2>3
  <2> QED BY <2>1, <2>4, Provisioned
<1>2. CASE d \notin Domains
  <2>1. prov' = prov /\ abandoned' = abandoned \ {d}
    BY <1>2 DEF Naming!Provision, DomainInv
  <2> QED BY <1>2, <2>1 DEF DomainInv, Row
<1> QED BY <1>1, <1>2

\* What one run does leaves the claims of the others alone.
LEMMA OneRun ==
    ASSUME DomainInv, NEW r \in Runs, NEW next, job' = [job EXCEPT ![r] = next]
    PROVE  /\ job' = [q \in Runs |-> job'[q]] /\ job'[r] = next
           /\ \A q \in Runs : q # r => job'[q] = job[q]
<1>1. job' = [q \in Runs |-> IF q = r THEN next ELSE job[q]]
  BY DEF DomainInv
<1> QED BY <1>1

LEMMA OwnerKeepsDomains ==
    ASSUME DomainInv, NEW q \in Requests, Naming!UpsertProvision(q) \/ \E d \in Domains : Naming!Register(q, d)
    PROVE  DomainInv'
<1>1. CASE Naming!UpsertProvision(q)
  <2>1. PICK d, status : d = call[q].on /\ status = Naming!RegisteredAs(d, call[q].status)
    OBVIOUS
  <2>2. /\ status # "renewal_in_progress" /\ UNCHANGED job
        /\ Naming!Provision(d, [prov[d] EXCEPT !.status = status])
    BY <1>1, <2>1 DEF Naming!UpsertProvision, Naming!RegisteredAs
  <2>3. \A e \in Domains : AsItWas(e) \/ Settled(e)
    BY <2>2, StatusRow DEF AsItWas, Settled, Naming!Claims
  <2> QED BY <2>2, <2>3, StatusRow, SettledComesBack DEF DomainInv
<1>2. CASE \E d \in Domains : Naming!Register(q, d)
  BY <1>2 DEF Naming!Register, DomainInv, Naming!ClaimComesBack, Naming!Claims, Row
<1> QED BY <1>1, <1>2

LEMMA RunKeepsDomains ==
    ASSUME DomainInv, NEW r \in Runs,
           Naming!Run(r) \/ Naming!CutOff(r) \/ \E d \in Domains : Naming!Select(r, d)
    PROVE  DomainInv'
<1>1. ASSUME NEW next, job' = [job EXCEPT ![r] = next], UNCHANGED <<prov, abandoned>>,
             \A d \in Domains : Naming!Claims(r, d) => /\ next.pc \in {"provider", "probe", "save"}
                                                       /\ next.on = d /\ next.renewing
      PROVE  DomainInv'
  <2>1. \A d \in Domains : AsItWas(d)
    BY <1>1, OneRun DEF AsItWas, Naming!Claims
  <2> QED BY <1>1, <2>1, OneRun, SettledComesBack DEF DomainInv, Row
<1>2. CASE Naming!ReadDomain(r) \/ \E d \in Domains : Naming!Select(r, d)
  <2>1. PICK next : job' = [job EXCEPT ![r] = next] /\ UNCHANGED <<prov, abandoned>>
    BY <1>2 DEF Naming!ReadDomain, Naming!Select
  <2>2. \A d \in Domains : ~Naming!Claims(r, d)
    BY <1>2 DEF Naming!ReadDomain, Naming!Select, Naming!Claims, Naming!Quiet
  <2> QED BY <1>1, <2>1, <2>2
<1>3. CASE Naming!RecordMissing(r)
  <2>1. PICK d : /\ d = job[r].on /\ job[r].pc = "dns" /\ job' = [job EXCEPT ![r] = Naming!Quiet]
                 /\ Naming!Provision(d, [prov[d] EXCEPT !.status = "verifying"])
    BY <1>3 DEF Naming!RecordMissing
  <2>2. \A e : ~Naming!Claims(r, e)
    BY <2>1 DEF Naming!Claims
  <2>3. \A e \in Domains : AsItWas(e) \/ Settled(e)
    <3>1. /\ d \in Domains => prov'[d].status = "verifying"
          /\ \A e \in Domains : e # d => prov'[e] = prov[e] /\ (e \in abandoned => e \in abandoned')
      BY <2>1, StatusRow
    <3>2. \A q \in Runs : q # r => job'[q] = job[q]
      BY <2>1, OneRun
    <3> QED BY <2>2, <3>1, <3>2 DEF AsItWas, Settled, Naming!Claims
  <2> QED BY <2>1, <2>3, StatusRow, OneRun, SettledComesBack DEF DomainInv
<1>4. CASE Naming!ClaimRenewal(r)
  <2>1. PICK d, renewing, next :
          /\ d = job[r].on /\ job[r].pc = "dns"
          /\ next = [pc |-> "provider", on |-> d, previous |-> job[r].previous,
                      renewing |-> renewing]
          /\ job' = [job EXCEPT ![r] = next]
          /\ renewing => Naming!Provision(d, [prov[d] EXCEPT !.status = "renewal_in_progress"])
          /\ ~renewing => UNCHANGED <<prov, abandoned>>
    BY <1>4 DEF Naming!ClaimRenewal, Naming!RenewalWritten
  <2>2. \A e : ~Naming!Claims(r, e)
    BY <2>1 DEF Naming!Claims
  <2>3. CASE ~renewing
    BY <1>1, <2>1, <2>2, <2>3
  <2>4. CASE renewing
    <3>1. Naming!Claims(r, d)'
      BY <2>1, <2>4, OneRun DEF Naming!Claims
    <3>2. \A e \in Domains : AsItWas(e) \/ Settled(e)
      <4>1. \A e \in Domains : e # d => prov'[e] = prov[e] /\ (e \in abandoned => e \in abandoned')
        BY <2>1, <2>4, StatusRow
      <4>2. \A q \in Runs : q # r => job'[q] = job[q]
        BY <2>1, OneRun
      <4> QED BY <2>2, <3>1, <4>1, <4>2 DEF AsItWas, Settled, Naming!Claims
    <3> QED BY <2>1, <2>4, <3>2, StatusRow, OneRun, SettledComesBack DEF DomainInv
  <2> QED BY <2>3, <2>4
<1>5. CASE \E accepted \in BOOLEAN : Naming!AskProvider(r, accepted)
  <2>1. PICK accepted \in BOOLEAN : Naming!AskProvider(r, accepted)
    BY <1>5
  <2>2. PICK next :
          /\ next = [pc |-> "probe", on |-> job[r].on, previous |-> job[r].previous,
                     renewing |-> job[r].renewing, accepted |-> accepted]
          /\ job' = [job EXCEPT ![r] = next] /\ UNCHANGED <<prov, abandoned>>
    BY <2>1 DEF Naming!AskProvider, DomainInv
  <2>3. next.pc \in {"provider", "probe", "save"} /\ next.on = job[r].on /\ next.renewing = job[r].renewing
    BY <2>2
  <2>4. \A d \in Domains : Naming!Claims(r, d) => /\ next.pc \in {"provider", "probe", "save"}
                                                  /\ next.on = d /\ next.renewing
    BY <2>3, Zenon DEF Naming!Claims
  <2> QED BY <1>1, <2>2, <2>4
<1>6. CASE \E reached \in BOOLEAN : Naming!ProbeTls(r, reached)
  <2>1. PICK reached \in BOOLEAN : Naming!ProbeTls(r, reached)
    BY <1>6
  <2>2. PICK next :
          /\ next = [pc |-> "save", on |-> job[r].on, previous |-> job[r].previous,
                     renewing |-> job[r].renewing, accepted |-> job[r].accepted,
                     expires |-> Naming!Probed(job[r].on, reached)]
          /\ job' = [job EXCEPT ![r] = next] /\ UNCHANGED <<prov, abandoned>>
    BY <2>1 DEF Naming!ProbeTls, DomainInv
  <2>3. next.pc \in {"provider", "probe", "save"} /\ next.on = job[r].on /\ next.renewing = job[r].renewing
    BY <2>2
  <2>4. \A d \in Domains : Naming!Claims(r, d) => /\ next.pc \in {"provider", "probe", "save"}
                                                  /\ next.on = d /\ next.renewing
    BY <2>3, Zenon DEF Naming!Claims
  <2> QED BY <1>1, <2>2, <2>4
<1>7. CASE Naming!SaveState(r)
  <2>1. PICK d, state, written :
          /\ d = job[r].on /\ job' = [job EXCEPT ![r] = Naming!Quiet]
          /\ written = [status |-> state, next |-> Naming!NextRenewal(state)] /\ Naming!Provision(d, written)
    BY <1>7 DEF Naming!SaveState
  <2>2. written = [status |-> written.status, next |-> written.next]
        /\ (written.status = "renewal_in_progress" => written.next # "none")
    BY <2>1 DEF Naming!NextRenewal
  <2>3. \A e : e # d => ~Naming!Claims(r, e)
    BY <2>1 DEF Naming!Claims
  <2>4. \A e \in Domains : AsItWas(e) \/ Settled(e)
    BY <2>1, <2>2, <2>3, Provisioned, OneRun DEF AsItWas, Settled, Naming!Claims
  <2> QED BY <2>1, <2>2, <2>4, Provisioned, OneRun, SettledComesBack DEF DomainInv
<1>8. CASE Naming!CutOff(r)
  <2>1. /\ job' = [job EXCEPT ![r] = Naming!Quiet] /\ prov' = prov
        /\ abandoned' = abandoned \cup {d \in Domains : Naming!Claims(r, d)}
    BY <1>8 DEF Naming!CutOff
  <2>2. \A d \in Domains : AsItWas(d) \/ Settled(d)
    BY <2>1, OneRun DEF AsItWas, Settled, Naming!Claims
  <2> QED BY <2>1, <2>2, OneRun, SettledComesBack DEF DomainInv, Row
<1> QED BY <1>2, <1>3, <1>4, <1>5, <1>6, <1>7, <1>8 DEF Naming!Run

LEMMA DomainStep == DomainInv /\ [Naming!Next]_Naming!vars => DomainInv'
<1> SUFFICES ASSUME DomainInv, [Naming!Next]_Naming!vars
             PROVE  DomainInv'
  OBVIOUS
<1>1. CASE UNCHANGED <<prov, job, abandoned>>
  BY <1>1 DEF DomainInv, Naming!ClaimComesBack, Naming!Claims, Row
<1>2. ASSUME NEW d \in Domains, Naming!RetryComesDue(d)
      PROVE  DomainInv'
  <2>1. prov' = [prov EXCEPT ![d].next = "past"] /\ UNCHANGED <<job, abandoned>>
    BY <1>2 DEF Naming!RetryComesDue
  <2>2. prov = [e \in Domains |-> Row(e)]
    BY DEF DomainInv
  <2>3. prov' = [e \in Domains |-> IF e = d THEN [Row(d) EXCEPT !.next = "past"] ELSE Row(e)]
    BY <2>1, <2>2
  <2>4. [Row(d) EXCEPT !.next = "past"] = [status |-> prov[d].status, next |-> "past"]
    BY DEF Row
  <2>5. \A e \in Domains : prov'[e] = IF e = d THEN [status |-> prov[d].status, next |-> "past"] ELSE prov[e]
    BY <2>2, <2>3, <2>4
  <2>6. \A e \in Domains : prov'[e] = Row(e)'
    <3> SUFFICES ASSUME NEW e \in Domains
                 PROVE  prov'[e] = Row(e)'
      OBVIOUS
    <3>1. CASE e = d
      BY <2>5, <3>1 DEF Row
    <3>2. CASE e # d
      <4>1. prov'[e] = prov[e] /\ prov[e] = Row(e)
        BY <2>2, <2>5, <3>2
      <4> QED BY <4>1 DEF Row
    <3> QED BY <3>1, <3>2
  <2>7. \A e \in Domains : AsItWas(e) \/ Settled(e)
    BY <2>1, <2>5 DEF AsItWas, Settled, Naming!Claims
  <2>8. prov' = [e \in Domains |-> Row(e)']
    BY <2>3, <2>6
  <2> QED BY <2>1, <2>7, <2>8, SettledComesBack DEF DomainInv
<1>3. CASE (\E d \in Domains : Naming!VerifyNow(d) \/ Naming!DnsChanges(d) \/ Naming!Issued(d))
             \/ Naming!DayPasses \/ UNCHANGED Naming!vars
  BY <1>1, <1>3 DEF Naming!VerifyNow, Naming!DnsChanges, Naming!Issued, Naming!DayPasses, Naming!vars
<1> QED BY <1>2, <1>3, OwnerKeepsDomains, RunKeepsDomains DEF Naming!Next

\* A claim is given back (cron/domains), for any number of overlapping runs, registrations
\* and deaths: a row says that a renewal is in progress only while a run works on it, when
\* it will come up again, or when the last run that claimed it died.
THEOREM ClaimComesBack == Naming!Spec => []Naming!ClaimComesBack
<1>1. Naming!Init => DomainInv
  <2> SUFFICES ASSUME Naming!Init
               PROVE  DomainInv
    OBVIOUS
  <2>1. \A d \in Domains : prov[d] = Row(d) /\ prov[d].status = "absent"
    BY DEF Naming!Init, Naming!NoProvision, Row
  <2> QED BY <2>1 DEF Naming!Init, DomainInv, Naming!ClaimComesBack
<1>2. DomainInv /\ [Naming!Next]_Naming!vars => DomainInv'
  BY DomainStep
<1>3. DomainInv => Naming!ClaimComesBack
  BY DEF DomainInv
<1> QED BY <1>1, <1>2, <1>3, PTL DEF Naming!Spec

\* Of at most two runs, on domains registered once.
TwoRuns ==
    /\ Horizon \in Nat /\ Life \in Nat /\ ~Again
    /\ \A p, q, r \in Runs : p = q \/ q = r \/ p = r

ClaimsBy(j, d) == j.pc \in {"provider", "probe", "save"} /\ j.on = d /\ j.renewing

\* A domain is worked on once its provision is there, and no day passes meanwhile.
RunOK(j) ==
    \/ j = Naming!Quiet
    \/ /\ j.pc \in {"read", "dns", "provider", "probe", "save"} /\ j.on \in Domains
       /\ prov[j.on].status # "absent"
       /\ j.pc \in {"dns", "save"} => j.expires \in Nat
       /\ j.pc = "save" => j.expires = 0 \/ j.expires > now

DomainRow(d) == [status |-> domain[d].status, tls |-> domain[d].tls, expires |-> domain[d].expires]
DomainTypes ==
    /\ now \in Nat /\ cert \in [Domains -> Nat]
    /\ domain = [d \in Domains |-> DomainRow(d)]
    /\ \A d \in Domains : domain[d].expires \in Nat
    /\ \A d \in Domains : domain[d].status = "absent" => prov[d].status = "absent"

\* A registration under way is the only one of its domain, which has no provision yet.
RegistersOnce ==
    /\ call = [q \in Requests |-> call[q]]
    /\ \A q \in Requests : call[q] # Naming!Quiet =>
         /\ call[q].pc = "upsert" /\ call[q].on \in Domains
         /\ domain[call[q].on].status # "absent" /\ prov[call[q].on].status = "absent"
         /\ \A p \in Requests : call[p] # Naming!Quiet /\ call[p].on = call[q].on => p = q

NotDue(d) == prov[d].status # "renewal_due" /\ ~(domain[d].expires # 0 /\ domain[d].expires <= now + 1)

\* While a claim stands, no other run can take it: its condition fails, or the renewal
\* was seen to be done by whoever wrote the row since.
ClaimStands(d, r) ==
    ClaimsBy(job[r], d) /\ Naming!Claimable(d) =>
        /\ NotDue(d)
        /\ \A q \in Runs : q # r /\ job[q].pc = "dns" /\ job[q].on = d => ~Naming!Due(job[q])

ClaimedOnce(d) == \A r, q \in Runs : ClaimsBy(job[r], d) /\ ClaimsBy(job[q], d) => r = q

RenewInv ==
    /\ DomainInv /\ DomainTypes /\ RegistersOnce
    /\ \A r \in Runs : RunOK(job[r])
    /\ \A d \in Domains : ClaimedOnce(d) /\ \A r \in Runs : ClaimStands(d, r)

LEMMA NamingCounts == \A S : Naming!Cardinality(S) = Cardinality(S)
BY DEF Naming!Cardinality, Cardinality, Naming!IsFiniteSet, IsFiniteSet

\* What a run does without writing either row.
LEMMA RunMoves ==
    ASSUME RenewInv, DomainInv', NEW r \in Runs, NEW next, job' = [job EXCEPT ![r] = next],
           UNCHANGED <<now, cert, domain, prov, call>>,
           RunOK(next), \A d \in Domains : ClaimsBy(next, d) => ClaimsBy(job[r], d),
           next.pc = "dns" /\ Naming!Claimable(next.on) /\ NotDue(next.on) => ~Naming!Due(next)
    PROVE  RenewInv'
<1>1. \A q \in Runs : job'[q] = IF q = r THEN next ELSE job[q]
  BY DEF RenewInv, DomainInv
<1>2. \A d \in Domains : Naming!Claimable(d)' = Naming!Claimable(d) /\ NotDue(d)' = NotDue(d)
  BY DEF Naming!Claimable, NotDue
<1>3. \A q \in Runs : RunOK(job[q])'
  BY <1>1 DEF RenewInv, RunOK
<1>4. ASSUME NEW d \in Domains
      PROVE  ClaimedOnce(d)'
  BY <1>1 DEF RenewInv, ClaimedOnce
<1>5. ASSUME NEW d \in Domains, NEW q \in Runs, ClaimsBy(job'[q], d), Naming!Claimable(d)
      PROVE  NotDue(d) /\ \A p \in Runs : p # q /\ job'[p].pc = "dns" /\ job'[p].on = d => ~Naming!Due(job'[p])
  <2>1. ClaimsBy(job[q], d)
    BY <1>1, <1>5
  <2>2. NotDue(d) /\ \A p \in Runs : p # q /\ job[p].pc = "dns" /\ job[p].on = d => ~Naming!Due(job[p])
    BY <1>5, <2>1 DEF RenewInv, ClaimStands
  <2>3. ASSUME NEW p \in Runs, p # q, job'[p].pc = "dns", job'[p].on = d
        PROVE  ~Naming!Due(job'[p])
    <3>1. CASE p = r
      BY <1>1, <1>5, <2>2, <2>3, <3>1
    <3>2. CASE p # r
      BY <1>1, <2>2, <2>3, <3>2
    <3> QED BY <3>1, <3>2
  <2> QED BY <2>2, <2>3
<1>6. ASSUME NEW d \in Domains, NEW q \in Runs
      PROVE  ClaimStands(d, q)'
  BY <1>5 DEF ClaimStands, Naming!Claimable, NotDue, Naming!Due
<1>7. DomainTypes' /\ RegistersOnce'
  BY DEF RenewInv, DomainTypes, DomainRow, RegistersOnce
<1> QED BY <1>3, <1>4, <1>6, <1>7 DEF RenewInv

LEMMA ReadersKeepRenewals ==
    ASSUME RenewInv, DomainInv', NEW r \in Runs,
           \/ Naming!ReadDomain(r) \/ Naming!CutOff(r) \/ \E d \in Domains : Naming!Select(r, d)
           \/ \E answer \in BOOLEAN : Naming!AskProvider(r, answer) \/ Naming!ProbeTls(r, answer)
    PROVE  RenewInv'
<1>1. RunOK(job[r]) /\ DomainTypes
  BY DEF RenewInv
<1>2. CASE Naming!CutOff(r)
  <2>1. Naming!Quiet.pc = "idle" /\ RunOK(Naming!Quiet) /\ \A d : ~ClaimsBy(Naming!Quiet, d)
    BY DEF Naming!Quiet, RunOK, ClaimsBy
  <2> QED BY <1>2, <2>1, RunMoves DEF Naming!CutOff, Naming!envVars
<1>3. ASSUME NEW d \in Domains, Naming!Select(r, d)
      PROVE  RenewInv'
  <2>1. PICK next : next = [pc |-> "read", on |-> d]
    OBVIOUS
  <2>2. prov[d].status # "absent"
    BY <1>3 DEF Naming!Select, Naming!Selectable
  <2>3. next.pc = "read" /\ RunOK(next) /\ \A e : ~ClaimsBy(next, e)
    BY <2>1, <2>2 DEF RunOK, ClaimsBy
  <2> QED BY <1>3, <2>1, <2>3, RunMoves DEF Naming!Select, Naming!envVars
<1>4. CASE Naming!ReadDomain(r)
  <2>1. PICK d \in Domains : d = job[r].on /\ prov[d].status # "absent"
    BY <1>1, <1>4 DEF Naming!ReadDomain, RunOK, Naming!Quiet
  <2>2. PICK next : next = [pc |-> "dns", on |-> d, previous |-> prov[d].status, expires |-> domain[d].expires]
    OBVIOUS
  <2>3. next.pc = "dns" /\ RunOK(next) /\ \A e : ~ClaimsBy(next, e)
    BY <1>1, <2>1, <2>2 DEF RunOK, ClaimsBy, DomainTypes
  <2>4. NotDue(next.on) => ~Naming!Due(next)
    BY <2>2 DEF NotDue, Naming!Due
  <2>5. job' = [job EXCEPT ![r] = next] /\ UNCHANGED <<now, cert, domain, prov, call>>
    BY <1>4, <2>1, <2>2 DEF Naming!ReadDomain, Naming!envVars
  <2> QED BY <2>3, <2>4, <2>5, RunMoves
<1>5. ASSUME NEW answer \in BOOLEAN, Naming!AskProvider(r, answer)
      PROVE  RenewInv'
  <2>1. PICK next :
          /\ next = [pc |-> "probe", on |-> job[r].on, previous |-> job[r].previous,
                     renewing |-> job[r].renewing, accepted |-> answer]
          /\ job' = [job EXCEPT ![r] = next] /\ UNCHANGED <<now, cert, domain, prov, call>>
    BY <1>5 DEF Naming!AskProvider, RenewInv, DomainInv
  <2>2. next.pc = "probe" /\ next.on = job[r].on /\ next.renewing = job[r].renewing /\ job[r].pc = "provider"
    BY <1>5, <2>1 DEF Naming!AskProvider
  <2>3. RunOK(next)
    BY <1>1, <2>2 DEF RunOK, Naming!Quiet
  <2>4. \A d \in Domains : ClaimsBy(next, d) => ClaimsBy(job[r], d)
    BY <2>2, Zenon DEF ClaimsBy
  <2> QED BY <2>1, <2>2, <2>3, <2>4, RunMoves
<1>6. ASSUME NEW answer \in BOOLEAN, Naming!ProbeTls(r, answer)
      PROVE  RenewInv'
  <2>1. PICK next :
          /\ next = [pc |-> "save", on |-> job[r].on, previous |-> job[r].previous,
                     renewing |-> job[r].renewing, accepted |-> job[r].accepted,
                     expires |-> Naming!Probed(job[r].on, answer)]
          /\ job' = [job EXCEPT ![r] = next] /\ UNCHANGED <<now, cert, domain, prov, call>>
    BY <1>6 DEF Naming!ProbeTls, RenewInv, DomainInv, Naming!envVars
  <2>2. /\ next.pc = "save" /\ next.on = job[r].on /\ next.renewing = job[r].renewing /\ job[r].pc = "probe"
        /\ next.expires = Naming!Probed(job[r].on, answer)
    BY <1>6, <2>1 DEF Naming!ProbeTls
  <2>3. RunOK(next)
    BY <1>1, <2>2 DEF RunOK, Naming!Quiet, Naming!Probed, DomainTypes
  <2>4. \A d \in Domains : ClaimsBy(next, d) => ClaimsBy(job[r], d)
    BY <2>2, Zenon DEF ClaimsBy
  <2> QED BY <2>1, <2>2, <2>3, <2>4, RunMoves
<1> QED BY <1>2, <1>3, <1>4, <1>5, <1>6

\* A run that writes the row of its domain: others keep their claims on it only when the
\* row cannot be claimed, or nothing is due any more and the other run has read nothing yet.
LEMMA RunWrites ==
    ASSUME TwoRuns, RenewInv, DomainInv', NEW r \in Runs, NEW d \in Domains, NEW next,
           job[r].on = d, RunOK(job[r]), job[r] # Naming!Quiet,
           job' = [job EXCEPT ![r] = next], UNCHANGED <<now, cert, call>>,
           \A e \in Domains : e # d => prov'[e] = prov[e] /\ domain'[e] = domain[e],
           DomainTypes', prov'[d].status # "absent", domain'[d].status # "absent" \/ domain'[d] = domain[d],
           next.pc # "dns",
           next = Naming!Quiet \/ (next.pc = "provider" /\ next.on = d /\ ~Naming!Claimable(d)'),
           Naming!Claimable(d)' => NotDue(d)',
           \A e \in Domains : ClaimsBy(next, e) => \A q \in Runs : q # r => ~ClaimsBy(job[q], e)
    PROVE  RenewInv'
<1>1. \A q \in Runs : job'[q] = IF q = r THEN next ELSE job[q]
  BY DEF RenewInv, DomainInv
<1>2. \A q \in Runs : RunOK(job[q])'
  <2> SUFFICES ASSUME NEW q \in Runs
               PROVE  RunOK(job[q])'
    OBVIOUS
  <2>1. CASE q = r
    BY <1>1, <2>1 DEF RunOK
  <2>2. CASE q # r
    <3>1. job'[q] = job[q] /\ RunOK(job[q])
      BY <1>1, <2>2 DEF RenewInv
    <3> QED BY <3>1 DEF RunOK
  <2> QED BY <2>1, <2>2
<1>3. \A e \in Domains : ClaimedOnce(e)'
  <2> SUFFICES ASSUME NEW e \in Domains, NEW p \in Runs, NEW q \in Runs,
                      ClaimsBy(job'[p], e), ClaimsBy(job'[q], e)
               PROVE  p = q
    BY DEF ClaimedOnce
  <2>1. CASE p = r /\ q # r
    BY <1>1, <2>1
  <2>2. CASE p # r /\ q = r
    BY <1>1, <2>2
  <2>3. CASE p # r /\ q # r
    BY <1>1, <2>3 DEF RenewInv, ClaimedOnce
  <2> QED BY <2>1, <2>2, <2>3
<1>4. ASSUME NEW e \in Domains, NEW q \in Runs
      PROVE  ClaimStands(e, q)'
  <2>1. CASE e # d
    <3>1. prov'[e] = prov[e] /\ domain'[e] = domain[e]
      BY <2>1
    <3>2. ASSUME ClaimsBy(job'[q], e), Naming!Claimable(e)
          PROVE  /\ NotDue(e)
                 /\ \A p \in Runs : p # q /\ job'[p].pc = "dns" /\ job'[p].on = e => ~Naming!Due(job'[p])
      <4>1. q # r
        BY <1>1, <2>1, <3>2 DEF ClaimsBy, Naming!Quiet
      <4>2. job'[q] = job[q]
        BY <1>1, <4>1
      <4>3. NotDue(e) /\ \A p \in Runs : p # q /\ job[p].pc = "dns" /\ job[p].on = e => ~Naming!Due(job[p])
        BY <3>2, <4>2 DEF RenewInv, ClaimStands
      <4> QED BY <1>1, <4>3
    <3> QED BY <3>1, <3>2 DEF ClaimStands, Naming!Claimable, NotDue, Naming!Due
  <2>2. CASE e = d
    <3>1. ASSUME ClaimsBy(job'[q], d), NEW p \in Runs, p # q, job'[p].pc = "dns", job'[p].on = d,
                   Naming!Claimable(d)'
          PROVE  ~Naming!Due(job'[p])
      <4>1. p # r /\ job'[p] = job[p]
        BY <1>1, <3>1
      <4>2. q = r
        BY <3>1, <4>1 DEF TwoRuns
      <4>3. next.pc = "provider"
        BY <1>1, <3>1, <4>2 DEF ClaimsBy, Naming!Quiet
      <4>4. next # Naming!Quiet
        BY <4>3 DEF Naming!Quiet
      <4> QED BY <3>1, <4>4
    <3>2. ASSUME Naming!Claimable(d)', ClaimsBy(job'[q], d)
          PROVE  /\ NotDue(d)'
                 /\ \A p \in Runs : p # q /\ job'[p].pc = "dns" /\ job'[p].on = d => ~Naming!Due(job'[p])
      BY <3>1, <3>2
    <3>3. now' = now
      OBVIOUS
    <3> QED BY <2>2, <3>2, <3>3 DEF ClaimStands, Naming!Claimable, NotDue, Naming!Due
  <2> QED BY <2>1, <2>2
<1>5. RegistersOnce'
  BY DEF RenewInv, RegistersOnce, RunOK
<1> QED BY <1>2, <1>3, <1>4, <1>5 DEF RenewInv

LEMMA WritersKeepRenewals ==
    ASSUME TwoRuns, RenewInv, DomainInv', NEW r \in Runs,
           Naming!RecordMissing(r) \/ Naming!ClaimRenewal(r) \/ Naming!SaveState(r)
    PROVE  RenewInv'
<1>1. DomainInv /\ DomainTypes /\ RunOK(job[r]) /\ job[r] # Naming!Quiet /\ job[r].pc \in {"dns", "save"}
  BY DEF RenewInv, Naming!RecordMissing, Naming!ClaimRenewal, Naming!SaveState, Naming!Quiet
<1>2. PICK d \in Domains : d = job[r].on /\ prov[d].status # "absent"
  BY <1>1 DEF RunOK
<1>3. Naming!Quiet.pc = "idle" /\ \A e : ~ClaimsBy(Naming!Quiet, e)
  BY DEF Naming!Quiet, ClaimsBy
<1>4. CASE Naming!RecordMissing(r)
  <2>1. PICK status : status = "verifying"
    OBVIOUS
  <2>2. /\ job' = [job EXCEPT ![r] = Naming!Quiet] /\ UNCHANGED <<now, cert, call, domain>>
        /\ Naming!Provision(d, [prov[d] EXCEPT !.status = status])
    BY <1>2, <1>4, <2>1 DEF Naming!RecordMissing, Naming!envVars
  <2>3. prov'[d].status = "verifying" /\ \A e \in Domains : e # d => prov'[e] = prov[e]
    BY <1>1, <2>1, <2>2, StatusRow
  <2>4. DomainTypes' /\ ~Naming!Claimable(d)'
    <3>1. \A e \in Domains : domain[e].status = "absent" => prov'[e].status = "absent"
      BY <1>1, <1>2, <2>3 DEF DomainTypes
    <3> QED BY <1>1, <2>2, <2>3, <3>1 DEF DomainTypes, DomainRow, Naming!Claimable
  <2> QED BY <1>1, <1>2, <1>3, <2>2, <2>3, <2>4, RunWrites
<1>5. CASE Naming!ClaimRenewal(r)
  <2>1. PICK renewing, status, next :
          /\ renewing = (Naming!Due(job[r]) /\ Naming!Claimable(d)) /\ status = "renewal_in_progress"
          /\ next = [pc |-> "provider", on |-> d, previous |-> job[r].previous, renewing |-> renewing]
    OBVIOUS
  <2>2. /\ job' = [job EXCEPT ![r] = next] /\ UNCHANGED <<now, cert, call, domain>> /\ job[r].pc = "dns"
        /\ renewing => Naming!Provision(d, [prov[d] EXCEPT !.status = status])
        /\ ~renewing => UNCHANGED prov
    BY <1>2, <1>5, <2>1 DEF Naming!ClaimRenewal, Naming!RenewalWritten, Naming!envVars
  <2>3. next.pc = "provider" /\ next.on = d /\ next.renewing = renewing
    BY <2>1
  <2>4. CASE ~renewing
    <3>1. RunOK(next) /\ \A e : ~ClaimsBy(next, e)
      BY <1>2, <2>3, <2>4 DEF RunOK, ClaimsBy
    <3> QED BY <2>2, <2>3, <2>4, <3>1, RunMoves
  <2>5. CASE renewing
    <3>1. prov'[d].status = "renewal_in_progress" /\ \A e \in Domains : e # d => prov'[e] = prov[e]
      BY <1>1, <2>1, <2>2, <2>5, StatusRow
    <3>2. DomainTypes' /\ ~Naming!Claimable(d)'
      <4>1. \A e \in Domains : domain[e].status = "absent" => prov'[e].status = "absent"
        BY <1>1, <1>2, <3>1 DEF DomainTypes
      <4> QED BY <1>1, <2>2, <3>1, <4>1 DEF DomainTypes, DomainRow, Naming!Claimable
    <3>3. ASSUME NEW e \in Domains, ClaimsBy(next, e), NEW q \in Runs, q # r
          PROVE  ~ClaimsBy(job[q], e)
      <4>1. e = d
        BY <2>3, <3>3 DEF ClaimsBy
      <4>2. Naming!Due(job[r]) /\ Naming!Claimable(d)
        BY <2>1, <2>5
      <4> QED BY <1>2, <2>2, <3>3, <4>1, <4>2 DEF RenewInv, ClaimStands
    <3> QED BY <1>1, <1>2, <2>2, <2>3, <3>1, <3>2, <3>3, RunWrites
  <2> QED BY <2>4, <2>5
<1>6. CASE Naming!SaveState(r)
  <2>1. PICK j, state, written, saved :
          /\ j = job[r] /\ state = Naming!EffectiveState(j)
          /\ written = [status |-> state, next |-> Naming!NextRenewal(state)]
          /\ saved = [status |-> "verified", tls |-> state, expires |-> j.expires]
    OBVIOUS
  <2>2. /\ job' = [job EXCEPT ![r] = Naming!Quiet] /\ UNCHANGED <<now, cert, call>>
        /\ Naming!Provision(d, written) /\ domain' = [domain EXCEPT ![d] = saved]
    BY <1>2, <1>6, <2>1 DEF Naming!SaveState, Naming!envVars
  <2>3. written = [status |-> written.status, next |-> written.next]
    BY <2>1
  <2>4. prov'[d] = written /\ \A e \in Domains : e # d => prov'[e] = prov[e]
    BY <1>1, <2>2, <2>3, Provisioned
  <2>5. domain' = [e \in Domains |-> IF e = d THEN saved ELSE DomainRow(e)]
    BY <1>1, <2>2 DEF DomainTypes
  <2>6. /\ domain'[d] = saved /\ \A e \in Domains : e # d => domain'[e] = domain[e]
        /\ saved.status = "verified" /\ saved.expires = j.expires /\ j.expires \in Nat
        /\ written.status = state /\ written.next = Naming!NextRenewal(state)
    <3>1. \A e \in Domains : domain[e] = DomainRow(e)
      BY <1>1 DEF DomainTypes
    <3>2. j.expires \in Nat
      BY <1>1, <1>6, <2>1 DEF RunOK, Naming!SaveState
    <3> QED BY <2>1, <2>5, <3>1, <3>2
  <2>7. state \in {"renewal_in_progress", "renewal_due", "active", "failed"} /\ state # "absent"
    BY <2>1 DEF Naming!EffectiveState, Naming!NextTlsState
  <2>8. DomainTypes'
    <3>1. \A e \in Domains : domain'[e] = DomainRow(e)'
      <4> SUFFICES ASSUME NEW e \in Domains
                   PROVE  domain'[e] = DomainRow(e)'
        OBVIOUS
      <4>1. CASE e = d
        <5>1. domain'[e] = [status |-> saved.status, tls |-> saved.tls, expires |-> saved.expires]
          BY <2>1, <2>6, <4>1
        <5> QED BY <2>6, <4>1, <5>1 DEF DomainRow
      <4>2. CASE e # d
        <5>1. domain'[e] = domain[e] /\ domain[e] = DomainRow(e)
          BY <1>1, <2>6, <4>2 DEF DomainTypes
        <5> QED BY <5>1 DEF DomainRow
      <4> QED BY <4>1, <4>2
    <3>2. domain' = [e \in Domains |-> DomainRow(e)']
      BY <2>5, <3>1
    <3>3. ASSUME NEW e \in Domains
          PROVE  /\ domain'[e].expires \in Nat
                 /\ domain'[e].status = "absent" => prov'[e].status = "absent"
      BY <1>1, <2>4, <2>6 DEF DomainTypes
    <3> QED BY <1>1, <2>2, <3>2, <3>3 DEF DomainTypes
  <2>9. ASSUME Naming!Claimable(d)'
        PROVE  NotDue(d)'
    <3>1. written.status \in {"active", "renewal_due", "provisioning", "failed"} /\ written.next # "ahead"
      BY <2>4, <2>9 DEF Naming!Claimable
    <3>2. state \in {"active", "failed"}
      BY <2>6, <2>7, <3>1 DEF Naming!NextRenewal
    <3>3. j.expires > now + 1 \/ j.expires <= now
      BY <2>1, <3>2 DEF Naming!EffectiveState, Naming!NextTlsState
    <3>4. j.expires <= now => j.expires = 0
      BY <1>1, <1>6, <2>1, <2>6 DEF RunOK, Naming!SaveState, DomainTypes
    <3> QED BY <1>1, <2>2, <2>4, <2>6, <3>2, <3>3, <3>4 DEF NotDue, DomainTypes
  <2> QED BY <1>1, <1>2, <1>3, <2>2, <2>4, <2>6, <2>7, <2>8, <2>9, RunWrites
<1> QED BY <1>4, <1>5, <1>6

LEMMA OwnersKeepRenewals ==
    ASSUME TwoRuns, RenewInv, DomainInv', NEW q \in Requests,
           Naming!UpsertProvision(q) \/ \E d \in Domains : Naming!Register(q, d)
    PROVE  RenewInv'
<1>1. DomainInv /\ DomainTypes /\ RegistersOnce /\ UNCHANGED <<now, cert, job>>
  BY DEF RenewInv, Naming!UpsertProvision, Naming!Register, Naming!envVars
<1>2. CASE Naming!UpsertProvision(q)
  <2>1. PICK d, status :
          /\ d \in Domains /\ d = call[q].on /\ status = Naming!RegisteredAs(d, call[q].status)
          /\ prov[d].status = "absent" /\ call[q] # Naming!Quiet /\ domain[d].status # "absent"
    BY <1>1, <1>2 DEF Naming!UpsertProvision, RegistersOnce, Naming!Quiet
  <2>2. /\ status = "requested" /\ UNCHANGED domain /\ call' = [call EXCEPT ![q] = Naming!Quiet]
        /\ Naming!Provision(d, [prov[d] EXCEPT !.status = status])
    BY <1>2, <2>1 DEF Naming!UpsertProvision, Naming!RegisteredAs
  <2>3. prov'[d].status = "requested" /\ \A e \in Domains : e # d => prov'[e] = prov[e]
    BY <1>1, <2>1, <2>2, StatusRow
  <2>4. \A p \in Requests : call'[p] = IF p = q THEN Naming!Quiet ELSE call[p]
    BY <1>1, <2>2 DEF RegistersOnce
  <2>5. DomainTypes'
    BY <1>1, <2>1, <2>2, <2>3 DEF DomainTypes, DomainRow
  <2>6. RegistersOnce'
    <3>1. call' = [p \in Requests |-> call'[p]]
      BY <1>1, <2>2 DEF RegistersOnce
    <3>2. ASSUME NEW p \in Requests, call'[p] # Naming!Quiet
          PROVE  /\ call'[p].pc = "upsert" /\ call'[p].on \in Domains
                 /\ domain'[call'[p].on].status # "absent" /\ prov'[call'[p].on].status = "absent"
                 /\ \A s \in Requests : call'[s] # Naming!Quiet /\ call'[s].on = call'[p].on => s = p
      <4>1. p # q /\ call'[p] = call[p] /\ call[p].on # d
        BY <1>1, <2>1, <2>4, <3>2 DEF RegistersOnce
      <4> QED BY <1>1, <2>2, <2>3, <2>4, <3>2, <4>1 DEF RegistersOnce
    <3> QED BY <3>1, <3>2 DEF RegistersOnce
  <2>7. \A r \in Runs : job[r] # Naming!Quiet => job[r].on \in Domains /\ job[r].on # d
    BY <2>1 DEF RenewInv, RunOK
  <2>8. ASSUME NEW r \in Runs
        PROVE  RunOK(job[r])'
    BY <1>1, <2>3, <2>7 DEF RenewInv, RunOK
  <2>9. ASSUME NEW e \in Domains, NEW r \in Runs
        PROVE  ClaimedOnce(e)' /\ ClaimStands(e, r)'
    <3>1. ClaimedOnce(e)'
      BY <1>1 DEF RenewInv, ClaimedOnce
    <3>2. CASE e = d
      <4>1. ~ClaimsBy(job[r], d)
        BY <2>7 DEF ClaimsBy, Naming!Quiet
      <4> QED BY <1>1, <3>1, <3>2, <4>1 DEF ClaimStands
    <3>3. CASE e # d
      BY <1>1, <2>2, <2>3, <3>1, <3>3 DEF RenewInv, ClaimStands, Naming!Claimable, NotDue, Naming!Due
    <3> QED BY <3>2, <3>3
  <2>10. \A e \in Domains : ClaimedOnce(e)'
    BY <1>1 DEF RenewInv, ClaimedOnce
  <2> QED BY <2>5, <2>6, <2>8, <2>9, <2>10 DEF RenewInv
<1>3. ASSUME NEW d \in Domains, Naming!Register(q, d)
      PROVE  RenewInv'
  <2>1. /\ domain[d].status = "absent" /\ prov[d].status = "absent" /\ UNCHANGED prov /\ call[q] = Naming!Quiet
        /\ domain' = [domain EXCEPT ![d].status = "pending"]
    <3>1. domain[d].status = "absent" /\ UNCHANGED prov /\ call[q] = Naming!Quiet
          /\ domain' = [domain EXCEPT ![d].status = IF @ = "absent" THEN "pending" ELSE @]
      BY <1>3 DEF Naming!Register, TwoRuns
    <3> QED BY <1>1, <3>1 DEF DomainTypes
  <2>2. domain' = [e \in Domains |-> IF e = d THEN [DomainRow(d) EXCEPT !.status = "pending"] ELSE DomainRow(e)]
    BY <1>1, <2>1 DEF DomainTypes
  <2>3. [DomainRow(d) EXCEPT !.status = "pending"] = [status |-> "pending", tls |-> domain[d].tls,
          expires |-> domain[d].expires]
    BY DEF DomainRow
  <2>4. /\ domain'[d] = [status |-> "pending", tls |-> domain[d].tls, expires |-> domain[d].expires]
        /\ \A e \in Domains : e # d => domain'[e] = domain[e] /\ domain[e] = DomainRow(e)
    BY <1>1, <2>2, <2>3 DEF DomainTypes
  <2>5. domain'[d].status = "pending" /\ \A e \in Domains : domain'[e].expires = domain[e].expires
    BY <2>4
  <2>6. DomainTypes'
    <3>1. \A e \in Domains : domain'[e] = DomainRow(e)'
      <4> SUFFICES ASSUME NEW e \in Domains
                   PROVE  domain'[e] = DomainRow(e)'
        OBVIOUS
      <4>1. CASE e = d
        BY <2>4, <2>5, <4>1 DEF DomainRow
      <4>2. CASE e # d
        BY <2>4, <4>2 DEF DomainRow
      <4> QED BY <4>1, <4>2
    <3>2. domain' = [e \in Domains |-> DomainRow(e)']
      BY <2>2, <3>1
    <3>3. ASSUME NEW e \in Domains
          PROVE  /\ domain'[e].expires \in Nat
                 /\ domain'[e].status = "absent" => prov'[e].status = "absent"
      BY <1>1, <2>1, <2>4, <2>5 DEF DomainTypes
    <3> QED BY <1>1, <3>2, <3>3 DEF DomainTypes
  <2>7. PICK next : /\ next = [pc |-> "upsert", on |-> d, status |-> domain'[d].status]
                    /\ call' = [call EXCEPT ![q] = next]
    BY <1>3 DEF Naming!Register
  <2>8. next.pc = "upsert" /\ next.on = d /\ \A p \in Requests : call'[p] = IF p = q THEN next ELSE call[p]
    BY <1>1, <2>7 DEF RegistersOnce
  <2>9. RegistersOnce'
    <3>1. call' = [p \in Requests |-> call'[p]]
      BY <1>1, <2>7 DEF RegistersOnce
    <3>2. \A p \in Requests : call[p] # Naming!Quiet => call[p].on # d
      BY <1>1, <2>1 DEF RegistersOnce
    <3>3. ASSUME NEW p \in Requests, call'[p] # Naming!Quiet
          PROVE  /\ call'[p].pc = "upsert" /\ call'[p].on \in Domains
                 /\ domain'[call'[p].on].status # "absent" /\ prov'[call'[p].on].status = "absent"
                 /\ \A s \in Requests : call'[s] # Naming!Quiet /\ call'[s].on = call'[p].on => s = p
      <4>1. CASE p = q
        BY <2>1, <2>5, <2>8, <3>2, <4>1
      <4>2. CASE p # q
        BY <1>1, <2>1, <2>4, <2>8, <3>2, <3>3, <4>2 DEF RegistersOnce
      <4> QED BY <4>1, <4>2
    <3> QED BY <3>1, <3>3 DEF RegistersOnce
  <2>10. ASSUME NEW e \in Domains, NEW r \in Runs
         PROVE  ClaimStands(e, r)'
    BY <1>1, <2>1, <2>5 DEF RenewInv, ClaimStands, Naming!Claimable, NotDue, Naming!Due
  <2>11. (\A e \in Domains : ClaimedOnce(e)') /\ \A r \in Runs : RunOK(job[r])'
    BY <1>1, <2>1 DEF RenewInv, ClaimedOnce, RunOK
  <2> QED BY <2>6, <2>9, <2>10, <2>11 DEF RenewInv
<1> QED BY <1>2, <1>3

LEMMA OutsideKeepsRenewals ==
    ASSUME TwoRuns, RenewInv, DomainInv',
           (\E d \in Domains : Naming!VerifyNow(d) \/ Naming!DnsChanges(d) \/ Naming!Issued(d)
             \/ Naming!RetryComesDue(d)) \/ Naming!DayPasses
    PROVE  RenewInv'
<1>1. DomainInv /\ DomainTypes /\ RegistersOnce
  BY DEF RenewInv
<1>2. ASSUME UNCHANGED <<now, job, prov, call, domain>>, cert' \in [Domains -> Nat]
      PROVE  RenewInv'
  BY <1>2 DEF RenewInv, DomainTypes, DomainRow, RegistersOnce, RunOK, ClaimedOnce, ClaimStands,
              Naming!Claimable, NotDue, Naming!Due
<1>3. ASSUME NEW d \in Domains, Naming!DnsChanges(d) \/ Naming!Issued(d)
      PROVE  RenewInv'
  <2>1. cert' \in [Domains -> Nat]
    BY <1>1, <1>3 DEF Naming!DnsChanges, Naming!Issued, DomainTypes, TwoRuns
  <2> QED BY <1>2, <1>3, <2>1 DEF Naming!DnsChanges, Naming!Issued
<1>4. ASSUME \A r \in Runs : job[r] = Naming!Quiet, UNCHANGED <<job, call, domain, cert>>, now' \in Nat,
             \A d \in Domains : prov'[d].status = prov[d].status
      PROVE  RenewInv'
  <2>1. \A d \in Domains, r \in Runs : ~ClaimsBy(job[r], d)
    BY <1>4 DEF ClaimsBy, Naming!Quiet
  <2>2. DomainTypes' /\ RegistersOnce'
    BY <1>1, <1>4 DEF DomainTypes, DomainRow, RegistersOnce
  <2>3. \A r \in Runs : RunOK(job[r])'
    BY <1>4 DEF RunOK
  <2>4. \A d \in Domains : ClaimedOnce(d)' /\ \A r \in Runs : ClaimStands(d, r)'
    BY <1>4, <2>1 DEF ClaimedOnce, ClaimStands
  <2> QED BY <2>2, <2>3, <2>4 DEF RenewInv
<1>5. CASE Naming!DayPasses
  <2>1. now' \in Nat
    BY <1>1, <1>5 DEF Naming!DayPasses, DomainTypes
  <2> QED BY <1>4, <1>5, <2>1 DEF Naming!DayPasses
<1>6. ASSUME NEW d \in Domains, Naming!RetryComesDue(d)
      PROVE  RenewInv'
  <2>1. \A e \in Domains : prov[e] = Row(e)
    BY <1>1 DEF DomainInv
  <2>2. \A e \in Domains : prov'[e].status = prov[e].status
    BY <1>1, <1>6, <2>1 DEF Naming!RetryComesDue, DomainInv, Row
  <2> QED BY <1>1, <1>4, <1>6, <2>2 DEF Naming!RetryComesDue, Naming!envVars, DomainTypes
<1>7. ASSUME NEW d \in Domains, Naming!VerifyNow(d)
      PROVE  RenewInv'
  <2>1. /\ domain[d].status # "absent" /\ UNCHANGED <<now, cert, prov, call, job>>
        /\ domain' = [domain EXCEPT ![d].status = "verified"]
    BY <1>7 DEF Naming!VerifyNow, Naming!envVars
  <2>2. domain' = [e \in Domains |-> IF e = d THEN [DomainRow(d) EXCEPT !.status = "verified"] ELSE DomainRow(e)]
    BY <1>1, <2>1 DEF DomainTypes
  <2>3. [DomainRow(d) EXCEPT !.status = "verified"] = [status |-> "verified", tls |-> domain[d].tls,
          expires |-> domain[d].expires]
    BY DEF DomainRow
  <2>4. /\ domain'[d] = [status |-> "verified", tls |-> domain[d].tls, expires |-> domain[d].expires]
        /\ \A e \in Domains : e # d => domain'[e] = domain[e] /\ domain[e] = DomainRow(e)
    BY <1>1, <2>2, <2>3 DEF DomainTypes
  <2>5. domain'[d].status = "verified" /\ \A e \in Domains : domain'[e].expires = domain[e].expires
    BY <2>4
  <2>6. DomainTypes'
    <3>1. \A e \in Domains : domain'[e] = DomainRow(e)'
      <4> SUFFICES ASSUME NEW e \in Domains
                   PROVE  domain'[e] = DomainRow(e)'
        OBVIOUS
      <4>1. CASE e = d
        BY <2>4, <2>5, <4>1 DEF DomainRow
      <4>2. CASE e # d
        BY <2>4, <4>2 DEF DomainRow
      <4> QED BY <4>1, <4>2
    <3>2. domain' = [e \in Domains |-> DomainRow(e)']
      BY <2>2, <3>1
    <3>3. ASSUME NEW e \in Domains
          PROVE  /\ domain'[e].expires \in Nat
                 /\ domain'[e].status = "absent" => prov'[e].status = "absent"
      BY <1>1, <2>1, <2>4, <2>5 DEF DomainTypes
    <3> QED BY <1>1, <2>1, <3>2, <3>3 DEF DomainTypes
  <2>7. RegistersOnce'
    BY <1>1, <2>1, <2>4, <2>5 DEF RegistersOnce
  <2>8. ASSUME NEW e \in Domains, NEW r \in Runs
        PROVE  ClaimStands(e, r)'
    BY <2>1, <2>5 DEF RenewInv, ClaimStands, Naming!Claimable, NotDue, Naming!Due
  <2>9. (\A e \in Domains : ClaimedOnce(e)') /\ \A r \in Runs : RunOK(job[r])'
    BY <2>1 DEF RenewInv, ClaimedOnce, RunOK
  <2> QED BY <2>6, <2>7, <2>8, <2>9 DEF RenewInv
<1> QED BY <1>3, <1>5, <1>6, <1>7

LEMMA RenewalStep == TwoRuns /\ RenewInv /\ [Naming!Next]_Naming!vars => RenewInv'
<1> SUFFICES ASSUME TwoRuns, RenewInv, [Naming!Next]_Naming!vars
             PROVE  RenewInv'
  OBVIOUS
<1>1. DomainInv'
  BY DomainStep DEF RenewInv
<1>2. CASE UNCHANGED Naming!vars
  BY <1>1, <1>2 DEF Naming!vars, Naming!envVars, RenewInv, DomainTypes, DomainRow, RegistersOnce, RunOK,
                    ClaimedOnce, ClaimStands, Naming!Claimable, NotDue, Naming!Due
<1> QED BY <1>1, <1>2, ReadersKeepRenewals, WritersKeepRenewals, OwnersKeepRenewals,
           OutsideKeepsRenewals DEF Naming!Next, Naming!Run

\* Of two overlapping runs of the domains cron at most one renews a certificate at any
\* time (the UPDATE that claims, in reconcileDomain), and every claim is given back, for
\* any number of domains that are each registered once: whatever the other run writes
\* meanwhile either cannot be claimed or leaves no renewal due, and it has to read again.
THEOREM DomainsSound ==
    ASSUME TwoRuns
    PROVE  Naming!Spec => []Naming!DomainsSound
<1>1. Naming!Init => RenewInv
  <2> SUFFICES ASSUME Naming!Init
               PROVE  RenewInv
    OBVIOUS
  <2>1. /\ \A d \in Domains : prov[d] = Row(d) /\ prov[d].status = "absent"
        /\ \A d \in Domains : domain[d] = DomainRow(d) /\ domain[d].expires = 0
    BY DEF Naming!Init, Naming!NoProvision, Row, Naming!Absent, DomainRow
  <2>2. \A r \in Runs, d \in Domains : ~ClaimsBy(job[r], d)
    BY DEF Naming!Init, ClaimsBy, Naming!Quiet
  <2>3. DomainInv
    BY <2>1 DEF Naming!Init, DomainInv, Naming!ClaimComesBack
  <2>4. DomainTypes /\ RegistersOnce
    BY <2>1 DEF Naming!Init, DomainTypes, RegistersOnce
  <2> QED BY <2>2, <2>3, <2>4 DEF Naming!Init, RenewInv, RunOK, ClaimedOnce, ClaimStands
<1>2. RenewInv /\ [Naming!Next]_Naming!vars => RenewInv'
  BY RenewalStep
<1>3. RenewInv => Naming!DomainsSound
  <2> SUFFICES ASSUME RenewInv
               PROVE  Naming!RenewedByOne
    BY DEF RenewInv, DomainInv, Naming!DomainsSound
  <2> SUFFICES ASSUME NEW d \in Domains
               PROVE  Cardinality({r \in Runs : Naming!Claims(r, d)}) <= 1
    BY NamingCounts DEF Naming!RenewedByOne
  <2>1. \A r, q \in {s \in Runs : Naming!Claims(s, d)} : r = q
    BY DEF RenewInv, ClaimedOnce, ClaimsBy, Naming!Claims
  <2> DEFINE S == {s \in Runs : Naming!Claims(s, d)}
  <2>2. CASE S = {}
    BY <2>2, FS_EmptySet
  <2>3. CASE S # {}
    <3>1. PICK r : r \in S
      BY <2>3
    <3>2. S = {r}
      BY <2>1, <3>1
    <3>3. Cardinality({r}) = 1
      BY FS_Singleton
    <3> QED BY <3>2, <3>3
  <2> QED BY <2>2, <2>3
<1> QED BY <1>1, <1>2, <1>3, PTL DEF Naming!Spec
==============================================================================
