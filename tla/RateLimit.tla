------------------------------ MODULE RateLimit -------------------------------
(***************************************************************************)
(* The sliding-window rate limiter for one key.  Every request first hits  *)
(* the in-memory bucket of its instance; where Redis is reachable its      *)
(* script then decides, at most Delay later, and the memory's answer only  *)
(* counts when Redis does not answer.  A transport error keeps an instance *)
(* off Redis until its cooldown ends.                                      *)
(*                                                                         *)
(* The instances' clocks agree.  A hit is its timestamp; hits with the     *)
(* same one are counted.                                                   *)
(***************************************************************************)
EXTENDS Naturals, FiniteSets

CONSTANTS
    Instances, Requests,
    Limit, Window,
    Delay,      \* how long a script call can take (commandTimeout)
    MaxTime,    \* bound
    Crowded     \* a bucket with hits in the window may be evicted

Times == 1..MaxTime
Empty == [t \in Times |-> 0]

VARIABLES
    now,
    memory,     \* per instance: the bucket's hits
    redis,      \* the sorted set's hits
    cooling,    \* per instance: Redis is left alone
    job,        \* per request: asked Redis when, and what memory said
    passed      \* history: requests let through, by stamp, through Redis and per instance

vars == <<now, memory, redis, cooling, job, passed>>

Idle == [at |-> 0]
InFlight == {r \in Requests : job[r] # Idle}

Init ==
    /\ now = 1
    /\ memory = [i \in Instances |-> Empty] /\ redis = Empty
    /\ cooling = [i \in Instances |-> FALSE]
    /\ job = [r \in Requests |-> Idle]
    /\ passed = [redis |-> Empty, memory |-> [i \in Instances |-> Empty]]

\* The hits stamped in T, as a set with an element for each.
Count(hits, T) == Cardinality(UNION {{t} \X (1..hits[t]) : t \in T})
\* Hits no longer than Window ago; those at exactly windowStart are dropped.
InShortWindow(t, at) == t + Window > at + 1
InWindow(t, at) == t + Window > at
Pruned(hits, at) == [t \in Times |-> IF InWindow(t, at) THEN hits[t] ELSE 0]
Add(hits, at) == [hits EXCEPT ![at] = @ + 1]

\* InMemoryBackend.hit
MemoryAllows(i) == Count(Pruned(memory[i], now), Times) < Limit
MemoryHit(i) == memory' = [memory EXCEPT ![i] = IF MemoryAllows(i) THEN Add(Pruned(@, now), now) ELSE Pruned(@, now)]
PassMemory(i, at, allowed) == IF allowed THEN [passed EXCEPT !.memory[i] = Add(@, at)] ELSE passed

\* RedisBackend.hit while this instance has no client.
HitMemoryOnly(i) ==
    /\ cooling[i] /\ MemoryHit(i)
    /\ passed' = PassMemory(i, now, MemoryAllows(i))
    /\ UNCHANGED <<now, redis, cooling, job>>
\* And while it has one: the stamp is taken, the script is on its way.
Ask(r, i) ==
    /\ job[r] = Idle /\ ~cooling[i]
    /\ MemoryHit(i)
    /\ job' = [job EXCEPT ![r] = [at |-> now, on |-> i, fallback |-> MemoryAllows(i)]]
    /\ UNCHANGED <<now, redis, cooling, passed>>

\* The script: prune, add, count, and take the hit back when there are too many.
\* Everything left in the set counts, later stamps too.
AfterDenial(hits, at) == Pruned(hits, at)
ScriptAllows(at) == Count(Add(Pruned(redis, at), at), Times) <= Limit
RunScript(at) == redis' = IF ScriptAllows(at) THEN Add(Pruned(redis, at), at) ELSE AfterDenial(redis, at)

Answer(r) ==
    LET j == job[r] IN
    /\ j # Idle /\ RunScript(j.at)
    /\ passed' = IF ScriptAllows(j.at) THEN [passed EXCEPT !.redis = Add(@, j.at)] ELSE passed
    /\ job' = [job EXCEPT ![r] = Idle]
    /\ UNCHANGED <<now, memory, cooling>>

\* A transport error, before the script ran or after: memory's answer counts.
Fail(r) ==
    LET j == job[r] IN
    /\ j # Idle
    /\ RunScript(j.at) \/ UNCHANGED redis
    /\ passed' = PassMemory(j.on, j.at, j.fallback)
    /\ cooling' = [cooling EXCEPT ![j.on] = TRUE]
    /\ job' = [job EXCEPT ![r] = Idle]
    /\ UNCHANGED <<now, memory>>

CooldownEnds(i) ==
    /\ cooling[i] /\ cooling' = [cooling EXCEPT ![i] = FALSE]
    /\ UNCHANGED <<now, memory, redis, job, passed>>

\* Nothing is in flight for longer than Delay.  A set nobody hits for a whole
\* window expires, which drops only what the next script would.
Tick ==
    /\ now < MaxTime /\ \A r \in InFlight : job[r].at + Delay > now
    /\ now' = now + 1
    /\ UNCHANGED <<memory, redis, cooling, job, passed>>

\* The bucket is the least recently touched of too many.
Evict(i) ==
    /\ memory[i] # Empty /\ (Crowded \/ Pruned(memory[i], now) = Empty)
    /\ memory' = [memory EXCEPT ![i] = Empty]
    /\ UNCHANGED <<now, redis, cooling, job, passed>>

Next ==
    \/ \E i \in Instances : HitMemoryOnly(i) \/ CooldownEnds(i) \/ Evict(i)
    \/ \E r \in Requests : Answer(r) \/ Fail(r) \/ \E i \in Instances : Ask(r, i)
    \/ Tick

Spec == Init /\ [][Next]_vars

(***************************************************************************)
(* Properties.                                                             *)
(***************************************************************************)
From(t, length) == {u \in Times : u >= t /\ u < t + length}

\* rate-limit.ts: the instances share one budget.  Scripts run late and in another
\* order than their stamps, so a hit may be pruned before one that still saw it in
\* its window; a window shorter by the longest delay never lets more through than
\* the limit, and what an instance lets through on its own keeps to it as well.
BudgetKept ==
    \A t \in Times :
        /\ Count(passed.redis, From(t, Window - Delay)) <= Limit
        /\ \A i \in Instances : Count(passed.memory[i], From(t, Window)) <= Limit

\* A denied hit is taken back: what Redis holds is never more than the limit, so a
\* burst over the limit does not lock a caller out for longer than the window.
DenialsCostNothing == Count(redis, Times) <= Limit

(***************************************************************************)
(* Stronger claims, which the code does not keep.  No run checks them; the  *)
(* README names, for each, the constants under which TLC refutes it.       *)
(***************************************************************************)
\* A sliding window: no window of the full length lets more through than the limit.
FullWindowKept == \A t \in Times : Count(passed.redis, From(t, Window)) <= Limit
================================================================================
