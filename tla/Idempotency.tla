----------------------------- MODULE Idempotency -----------------------------
(***************************************************************************)
(* Idempotency-Key handling: src/src/lib/idempotency.ts and the routes     *)
(* that wrap their handlers in it.                                         *)
(*                                                                         *)
(* A request claims its key with a pending row, works, stores its response *)
(* in the row and releases a claim it has not completed.  The row names no *)
(* owner; "by" is the request that wrote it last.  A pending claim lives   *)
(* 30 seconds and a response 24 hours, then anybody may take the row over. *)
(***************************************************************************)
EXTENDS Naturals, FiniteSets

CONSTANTS
    Requests,       \* HTTP requests, the retries of a client among them
    Keys, KeyOf,    \* hashed keys within one workspace
    CallOf,         \* per request: method, path and body, as one value
    MaxSlow,        \* bound: handlers that outlive their pending claim
    MaxFaults       \* bound: processes that die, database calls that fail

NoRow == [by |-> "nobody", state |-> "absent", live |-> FALSE]

VARIABLES
    row,            \* per key: the row of idempotency_keys
    step, seen,     \* per request: its progress and the row it has read
    slow, faults,
    late,           \* history: requests whose row ran out while they were at work
    expired,        \* history: keys of which a claim or a response ran out
    done,           \* history: requests whose operation took effect
    reply           \* history: the request whose response this one received

vars == <<row, step, seen, slow, faults, late, expired, done, reply>>

Key(r) == KeyOf[r]

Init ==
    /\ row = [k \in Keys |-> NoRow]
    /\ step = [r \in Requests |-> "new"]
    /\ seen = [r \in Requests |-> NoRow]
    /\ slow = 0 /\ faults = 0
    /\ late = {} /\ expired = {} /\ done = {}
    /\ reply = [r \in Requests |-> "none"]

To(r, next) == step' = [step EXCEPT ![r] = next]
Answer(r, from) == reply' = [reply EXCEPT ![r] = from]

(***************************************************************************)
(* getIdempotentResponse.                                                  *)
(***************************************************************************)
SameCall(r) == CallOf[row[Key(r)].by] = CallOf[r]

\* findUnique, and what follows from it without another query.
Look(r) ==
    LET existing == row[Key(r)] IN
    /\ step[r] = "new"
    /\ seen' = [seen EXCEPT ![r] = existing]
    /\ \/ existing = NoRow /\ To(r, "create") /\ UNCHANGED reply
       \/ existing # NoRow /\ ~existing.live /\ To(r, "take") /\ UNCHANGED reply
       \/ existing.live /\ existing.state = "pending" /\ To(r, "end") /\ Answer(r, "in progress")
       \/ existing.live /\ existing.state = "stored" /\ To(r, "end")
            /\ Answer(r, IF SameCall(r) THEN existing.by ELSE "reused")
    /\ UNCHANGED <<row, slow, faults, late, expired, done>>

Claimed(r) == row' = [row EXCEPT ![Key(r)] = [by |-> r, state |-> "pending", live |-> TRUE]]
Refused(r) == To(r, "end") /\ Answer(r, "in progress") /\ UNCHANGED row

VacantAny(r) == TRUE
Vacant(r) == row[Key(r)] = NoRow

\* create; the unique index turns a lost race into P2002.
Create(r) ==
    /\ step[r] = "create"
    /\ \/ Vacant(r) /\ Claimed(r) /\ To(r, "work") /\ UNCHANGED reply
       \/ ~Vacant(r) /\ Refused(r)
    /\ UNCHANGED <<seen, slow, faults, late, expired, done>>

\* updateMany where expiresAt <= now, for the now of Look: only a row nobody
\* has written since can still have expired by then.
UntouchedOrAny(r) == row[Key(r)] # NoRow
Untouched(r) == row[Key(r)] = seen[r]

TakeOver(r) ==
    /\ step[r] = "take"
    /\ \/ Untouched(r) /\ Claimed(r) /\ To(r, "work") /\ UNCHANGED reply
       \/ ~Untouched(r) /\ Refused(r)
    /\ UNCHANGED <<seen, slow, faults, late, expired, done>>

(***************************************************************************)
(* The handler, storeIdempotentResponse and withIdempotencyCleanup.        *)
(***************************************************************************)
Work(r) ==
    /\ step[r] = "work"
    /\ \/ To(r, "store") /\ done' = done \cup {r}
       \/ To(r, "release") /\ UNCHANGED done
    /\ Answer(r, r)
    /\ UNCHANGED <<row, seen, slow, faults, late, expired>>

\* The upsert asks neither whose claim it completes nor whether there is one.
Store(r) ==
    /\ step[r] = "store"
    /\ To(r, "release")
    /\ \/ /\ row' = [row EXCEPT ![Key(r)] = [by |-> r, state |-> "stored", live |-> TRUE]]
          /\ UNCHANGED faults
       \/ /\ faults < MaxFaults /\ faults' = faults + 1
          /\ UNCHANGED row
    /\ UNCHANGED <<seen, slow, late, expired, done, reply>>

Releasable(k) == row[k].state = "pending"

\* The finally block: deleteMany where responseStatus is 0, errors ignored.
Release(r) ==
    /\ step[r] = "release"
    /\ To(r, "end")
    /\ \/ /\ row' = IF Releasable(Key(r)) THEN [row EXCEPT ![Key(r)] = NoRow] ELSE row
          /\ UNCHANGED faults
       \/ /\ faults < MaxFaults /\ faults' = faults + 1
          /\ UNCHANGED row
    /\ UNCHANGED <<seen, slow, late, expired, done, reply>>

(***************************************************************************)
(* Time and deaths.                                                        *)
(***************************************************************************)
AtWork == {"work", "store", "release"}

\* What a request has written outlives it, unless the request is slow.
Expire(k) ==
    LET r == row[k].by IN
    /\ row[k].live
    /\ row' = [row EXCEPT ![k].live = FALSE]
    /\ expired' = expired \cup {k}
    /\ \/ /\ step[r] \in AtWork
          /\ slow < MaxSlow /\ slow' = slow + 1
          /\ late' = late \cup {r}
       \/ /\ step[r] \notin AtWork
          /\ UNCHANGED <<slow, late>>
    /\ UNCHANGED <<step, seen, faults, done, reply>>

Die(r) ==
    /\ step[r] \notin {"new", "end", "dead"}
    /\ faults < MaxFaults /\ faults' = faults + 1
    /\ To(r, "dead")
    /\ UNCHANGED <<row, seen, slow, late, expired, done, reply>>

Handle(r) == Look(r) \/ Create(r) \/ TakeOver(r) \/ Work(r) \/ Store(r) \/ Release(r)

Next ==
    \/ \E r \in Requests : Handle(r) \/ Die(r)
    \/ \E k \in Keys : Expire(k)

Spec == Init /\ [][Next]_vars

(***************************************************************************)
(* Properties.                                                             *)
(***************************************************************************)
Steps == {"new", "create", "take"} \cup AtWork \cup {"end", "dead"}
Rows == {NoRow} \cup [by : Requests, state : {"pending", "stored"}, live : BOOLEAN]

\* The variables stay in their types, and a row bears a request of its own key.
TypeOK ==
    /\ row \in [Keys -> Rows]
    /\ \A k \in Keys : row[k] # NoRow => Key(row[k].by) = k
    /\ step \in [Requests -> Steps] /\ seen \in [Requests -> Rows]
    /\ slow \in 0..MaxSlow /\ faults \in 0..MaxFaults
    /\ late \subseteq Requests /\ expired \subseteq Keys /\ done \subseteq Requests
    /\ reply \in [Requests -> Requests \cup {"none", "in progress", "reused"}]

\* idempotency.ts:22 "two concurrent requests with the same key cannot both run
\* the operation", as long as none of them overran its claim.
OneAtWork == late = {} => \A r, s \in Requests :
    Key(r) = Key(s) /\ step[r] = "work" /\ step[s] = "work" => r = s

\* idempotency.ts:67 "a stored response is never deleted" while it has not
\* expired, nor replaced as long as no request overran its claim.
ResponseKept == [][late = {} => \A k \in Keys : row[k].live /\ row[k].state = "stored" =>
    row'[k] \in {row[k], [row[k] EXCEPT !.live = FALSE]}]_vars

\* idempotency.ts:45-47: a replay is the response of the same call, and of an
\* operation that took effect.
ReplayIsOwn == \A r \in Requests : reply[r] \in Requests \ {r} =>
    /\ CallOf[reply[r]] = CallOf[r]
    /\ reply[r] \in done

\* idempotency.ts:74-79: a request that has ended leaves no pending claim
\* behind, unless its process died or the database failed it.
NoOrphanClaim == \A k \in Keys :
    row[k].state = "pending" /\ faults = 0 => step[row[k].by] \in AtWork

\* bulk/route.ts:76 "a retried import after a dropped connection replays the
\* stored report instead of re-running": until a claim or a response expires or
\* the database fails, the operation of a key takes effect once.
EffectOnce == faults = 0 => \A k \in Keys \ expired : Cardinality({r \in done : Key(r) = k}) <= 1

\* What a client that retries under one key relies on, however its requests
\* overlap: one operation, its own answer, and no key blocked for good.
RetriesAreSafe == TypeOK /\ OneAtWork /\ ReplayIsOwn /\ NoOrphanClaim /\ EffectOnce

(***************************************************************************)
(* Stronger claims, which the code does not keep.  No run checks them; the  *)
(* README names, for each, the constants under which TLC refutes it.       *)
(***************************************************************************)
\* idempotency.ts:22 "two concurrent requests with the same key cannot both run
\* the operation", of requests that have not overrun their claims themselves.
OneInTimeAtWork == \A r, s \in Requests \ late :
    Key(r) = Key(s) /\ step[r] = "work" /\ step[s] = "work" => r = s

\* bulk-edit.md:61 "A retry with the same key and body within 24 hours returns
\* the stored response", whoever else was slow.
ResponseKeptAlways == [][\A k \in Keys : row[k].live /\ row[k].state = "stored" =>
    row'[k] \in {row[k], [row[k] EXCEPT !.live = FALSE]}]_vars

\* bulk/route.ts:76 "replays the stored report instead of re-running", also when
\* the response could not be stored.
EffectOnceAlways == \A k \in Keys \ expired :
    Cardinality({r \in done : Key(r) = k}) <= 1
================================================================================
