------------------------------ MODULE ClickQueue ------------------------------
(***************************************************************************)
(* Click ingestion: src/src/lib/queue.ts, click-ingestion.ts, the withRedis *)
(* wrapper of redis.ts and the process-clicks cron route.                  *)
(*                                                                         *)
(* A redirect hands its click to push(); push() LPUSHes it on a Redis list *)
(* or, when Redis does not answer, writes it to Postgres itself.  Cron     *)
(* workers move entries to a second list (`processing`), persist them in   *)
(* one transaction and only then remove them from that list.  Workers may  *)
(* overlap, die at any point, and reclaim what another worker is holding.  *)
(*                                                                         *)
(* One workspace, one accounting period.  A click is identified with the   *)
(* request that records it, so a click is also a caller of persistBatch.   *)
(***************************************************************************)
EXTENDS FiniteSets, RedisLists

CONSTANTS
    Clicks,       \* click events (ClickData), one per redirect
    Malformed,    \* list entries that JSON.parse or isClickData rejects
    Workers,      \* overlapping runs of processBatch
    Links, Days, Refs, NoRef,
    Personal,     \* links of a user who is in no workspace
    LinkOf, DayOf,        \* ClickData.urlId and .dateKey
    RefOf,        \* the rule or campaign variant the click names, or NoRef
    Humans,       \* clicks whose trafficType is human, hence billable
    Reserved,     \* clicks with usageReserved
    Excluded,     \* clicks the privacy policy removes before storage
    Anonymised,   \* clicks stored with trafficType forced to human
    Erasable,     \* clicks whose visitor may ask for erasure
    Deletable,    \* links that may be deleted, or moved out of the workspace
    MaxClicks,    \* Url.maxClicks, 0 for no cap
    BatchSize,    \* RedisClickQueue.BATCH_SIZE
    MaxSends,     \* bound: times ioredis sends one LPUSH before giving up
    MaxFaults     \* bound: failed Redis calls, failed transactions, crashes

Raw == Clicks \cup Malformed
Callers == Workers \cup Clicks

ASSUME SetsAssumption ==
    /\ IsFiniteSet(Clicks)
    /\ Clicks \cap Malformed = {} /\ Workers \cap Clicks = {}
    /\ NoRef \notin Refs
ASSUME ClickDataAssumption ==
    /\ LinkOf \in [Clicks -> Links] /\ DayOf \in [Clicks -> Days]
    /\ RefOf \in [Clicks -> Refs \cup {NoRef}]
    /\ Humans \subseteq Clicks /\ Reserved \subseteq Humans
    /\ Excluded \subseteq Clicks /\ Anonymised \subseteq Clicks
    /\ Erasable \subseteq Clicks /\ Deletable \subseteq Links /\ Personal \subseteq Links
ASSUME BoundsAssumption ==
    /\ MaxClicks \in [Links -> Nat]
    /\ BatchSize \in Nat \ {0} /\ MaxSends \in Nat \ {0} /\ MaxFaults \in Nat

VARIABLES
    queue, processing,    \* Redis lists click_queue and click_queue_processing
    dlq,                  \* click_queue_dlq, as a set: it may repeat an entry
    wire, sends,          \* LPUSH commands that may still land; landings so far
    arrived,              \* malformed entries some other producer has pushed
    urlRow,               \* each urls row: in a workspace, in none, or deleted
    refs,                 \* rules and campaign variants that still exist
    events,               \* click_events rows
    total, daily, human,  \* urls.clicks, click_daily, click_dimension_daily
    usage,                \* usage_buckets.quantity added by ingestion
    active,               \* urls.isActive
    pc, batch, prep,      \* per caller: step, raw entries, prepared clicks
    count,                \* per caller: iterations of its current loop
    faults,
    persisted, dropped, offered   \* history: inserted, discarded, fanned out

redisVars   == <<queue, processing, dlq>>
pushVars    == <<wire, sends, arrived>>
dbVars      == <<urlRow, refs, events, total, daily, human, usage, active>>
callVars    == <<pc, batch, prep, count>>
historyVars == <<persisted, dropped, offered>>
vars == <<redisVars, pushVars, dbVars, callVars, faults, historyVars>>

Init ==
    /\ queue = <<>> /\ processing = <<>> /\ dlq = {}
    /\ wire = {} /\ sends = [c \in Clicks |-> 0] /\ arrived = {}
    /\ urlRow = [l \in Links |-> IF l \in Personal THEN "unowned" ELSE "owned"]
    /\ refs = Refs
    /\ events = {} /\ usage = 0
    /\ total = [l \in Links |-> 0] /\ human = [l \in Links |-> 0]
    /\ daily = [k \in Links \X Days |-> 0]
    /\ active = [l \in Links |-> TRUE]
    /\ pc = [p \in Callers |-> "idle"] /\ batch = [p \in Callers |-> <<>>]
    /\ prep = [p \in Callers |-> {}] /\ count = [p \in Callers |-> 0]
    /\ faults = 0 /\ persisted = {} /\ dropped = {} /\ offered = {}

Goto(p, step) == pc' = [pc EXCEPT ![p] = step]
Step(p) == count' = [count EXCEPT ![p] = @ + 1]
Return(p, step) ==               \* the call ends and forgets its local variables
    /\ Goto(p, step) /\ batch' = [batch EXCEPT ![p] = <<>>]
    /\ prep' = [prep EXCEPT ![p] = {}] /\ count' = [count EXCEPT ![p] = 0]
Fault == faults < MaxFaults /\ faults' = faults + 1

(***************************************************************************)
(* push(): the request side.                                               *)
(***************************************************************************)
Push(c) ==                       \* the LPUSH leaves the process
    /\ pc[c] = "idle" /\ Goto(c, "sending")
    /\ wire' = wire \cup {c}
    /\ UNCHANGED <<redisVars, sends, arrived, dbVars, batch, prep, count, faults, historyVars>>

SendsOneMore(c) == sends[c] <= MaxSends
MaySend(c) == sends[c] < MaxSends        \* maxRetriesPerRequest

Land(c) ==                       \* Redis executes it, late or again
    /\ c \in wire /\ MaySend(c)
    /\ queue' = LPush(c, queue)
    /\ sends' = [sends EXCEPT ![c] = @ + 1]
    /\ UNCHANGED <<processing, dlq, wire, arrived, dbVars, callVars, faults, historyVars>>

RepliedAlways(c) == TRUE
Replied(c) == sends[c] > 0       \* withRedis(lpush, false) is true

Accepted(c) ==                   \* its reply arrives: push() resolves
    /\ pc[c] = "sending" /\ Replied(c) /\ Goto(c, "done")
    /\ wire' = wire \ {c}
    /\ UNCHANGED <<redisVars, sends, arrived, dbVars, batch, prep, count, faults, historyVars>>

PersistDirectly(c) ==            \* no reply, or Redis not usable: withRedis is false
    /\ pc[c] = "sending" /\ Fault /\ Goto(c, "prepare")
    /\ batch' = [batch EXCEPT ![c] = <<c>>]
    /\ UNCHANGED <<redisVars, pushVars, dbVars, prep, count, historyVars>>

(***************************************************************************)
(* processBatch(): recover, then claim, one RPOPLPUSH at a time.           *)
(***************************************************************************)
StartBatch(w) ==
    /\ pc[w] = "idle" /\ Goto(w, "recover")
    /\ UNCHANGED <<redisVars, pushVars, dbVars, batch, prep, count, faults, historyVars>>

RecoverNothing == 0
RecoverLimit == BatchSize

Recover(w) ==
    /\ pc[w] = "recover" /\ count[w] < RecoverLimit /\ processing # <<>>
    /\ queue' = LPush(Last(processing), queue)
    /\ processing' = Front(processing)
    /\ Step(w)
    /\ UNCHANGED <<dlq, pushVars, dbVars, pc, batch, prep, faults, historyVars>>

RecoverEnds(w) ==
    /\ pc[w] = "recover" /\ (count[w] = RecoverLimit \/ processing = <<>>)
    /\ Goto(w, "claim")
    /\ UNCHANGED <<redisVars, pushVars, dbVars, batch, prep, count, faults, historyVars>>

Claim(w) ==
    /\ pc[w] = "claim" /\ Len(batch[w]) < BatchSize /\ queue # <<>>
    /\ processing' = LPush(Last(queue), processing)
    /\ queue' = Front(queue)
    /\ batch' = [batch EXCEPT ![w] = Append(@, Last(queue))]
    /\ UNCHANGED <<dlq, pushVars, dbVars, pc, prep, count, faults, historyVars>>

ClaimUnseen(w) ==                \* reply lost: ioredis repeats the command
    /\ pc[w] = "claim" /\ Len(batch[w]) < BatchSize /\ queue # <<>> /\ Fault
    /\ processing' = LPush(Last(queue), processing)
    /\ queue' = Front(queue)
    /\ UNCHANGED <<dlq, pushVars, dbVars, callVars, historyVars>>

Bad(p) == ToSet(batch[p]) \ Clicks
Good(p) == ToSet(batch[p]) \cap Clicks

ClaimEnds(w) ==                  \* parse: nothing, only malformed, or a batch
    /\ pc[w] = "claim" /\ (Len(batch[w]) = BatchSize \/ queue = <<>>)
    /\ Goto(w, CASE batch[w] = <<>> -> "idle"
                 [] batch[w] # <<>> /\ Good(w) = {} -> "quarantine"
                 [] Good(w) # {} -> "prepare")
    /\ count' = [count EXCEPT ![w] = 0]
    /\ UNCHANGED <<redisVars, pushVars, dbVars, batch, prep, faults, historyVars>>

(***************************************************************************)
(* persistBatch(): prepareClicks, the transaction, the fan-out.            *)
(***************************************************************************)
Kept(p) == { c \in Good(p) : urlRow[LinkOf[c]] = "owned" /\ c \notin Excluded }

PrepareClicks(p) ==              \* reads the urls rows outside the transaction
    /\ pc[p] = "prepare" /\ Goto(p, "persist")
    /\ prep' = [prep EXCEPT ![p] = Kept(p)]
    /\ UNCHANGED <<redisVars, pushVars, dbVars, batch, count, faults, historyVars>>

FreshUnchecked(p) == prep[p]
Fresh(p) == prep[p] \ events     \* INSERT .. ON CONFLICT DO NOTHING RETURNING

\* The foreign keys of the new rows hold, and every variant can be updated.
CanCommit(p) == \A c \in Fresh(p) :
    urlRow[LinkOf[c]] # "gone" /\ RefOf[c] \in refs \cup {NoRef}

On(S, l) == { c \in S : LinkOf[c] = l }
OnDay(S, l, d) == { c \in On(S, l) : DayOf[c] = d }
CountedHuman(S) == S \cap (Humans \cup Anonymised)

ChargedTwice(S) == { c \in S \cap Humans : urlRow[LinkOf[c]] = "owned" }
Charged(S) == { c \in (S \cap Humans) \ Reserved : urlRow[LinkOf[c]] = "owned" }

CapHit(l, n) == MaxClicks[l] > 0 /\ n >= MaxClicks[l]

Commit(p) ==
    LET new == Fresh(p) IN
    /\ events' = events \cup new
    /\ total' = [l \in Links |-> total[l] + Cardinality(On(new, l))]
    /\ daily' = [k \in Links \X Days |-> daily[k] + Cardinality(OnDay(new, k[1], k[2]))]
    /\ human' = [l \in Links |-> human[l] + Cardinality(On(CountedHuman(new), l))]
    /\ usage' = usage + Cardinality(Charged(new))
    /\ active' = [l \in Links |-> active[l] /\ ~(On(new, l) # {} /\ CapHit(l, total'[l]))]
    /\ persisted' = persisted \cup new
    /\ UNCHANGED <<urlRow, refs>>

StraightToAck(p) == "ack"
AfterCommit(p) == "fanout"

Persist(p) ==                    \* commits, and the caller learns of it
    /\ pc[p] = "persist" /\ CanCommit(p) /\ Commit(p) /\ Goto(p, AfterCommit(p))
    /\ dropped' = dropped \cup (Good(p) \ prep[p])
    /\ UNCHANGED <<redisVars, pushVars, batch, prep, count, faults, offered>>

StopStep(p) == IF p \in Workers THEN "idle" ELSE "lost"

CommitUnseen(p) ==               \* commits, but the call fails or the caller dies
    /\ pc[p] = "persist" /\ CanCommit(p) /\ Commit(p) /\ Fault /\ Return(p, StopStep(p))
    /\ UNCHANGED <<redisVars, pushVars, dropped, offered>>

Rollback(p) ==                   \* a row of the batch breaks a constraint
    /\ pc[p] = "persist" /\ ~CanCommit(p) /\ Return(p, StopStep(p))
    /\ UNCHANGED <<redisVars, pushVars, dbVars, faults, historyVars>>

FanOut(w) ==                     \* dispatchWebhooksForUrls; its errors are swallowed
    /\ w \in Workers /\ pc[w] = "fanout" /\ Goto(w, "ack")
    /\ offered' = offered \cup prep[w]
    /\ UNCHANGED <<redisVars, pushVars, dbVars, batch, prep, count, faults, persisted, dropped>>

FanOutDirect(c) ==               \* the same, called by push(): it then resolves
    /\ c \in Clicks /\ pc[c] = "fanout" /\ Return(c, "done")
    /\ offered' = offered \cup prep[c]
    /\ UNCHANGED <<redisVars, pushVars, dbVars, faults, persisted, dropped>>

(***************************************************************************)
(* Acknowledge with one LREM per entry, then quarantine what did not parse. *)
(***************************************************************************)
AckEverything == Raw
AckTargets == Clicks             \* rawItems without the malformed ones

Ack(w) ==
    /\ pc[w] = "ack" /\ count[w] < Len(batch[w]) /\ Step(w)
    /\ LET entry == batch[w][count[w] + 1] IN
       processing' = IF entry \in AckTargets THEN LRem(processing, entry) ELSE processing
    /\ UNCHANGED <<queue, dlq, pushVars, dbVars, pc, batch, prep, faults, historyVars>>

AfterAck(w) == IF Bad(w) = {} THEN Return(w, "idle")
               ELSE /\ Goto(w, "quarantine") /\ count' = [count EXCEPT ![w] = 0]
                    /\ UNCHANGED <<batch, prep>>

AckEnds(w) ==
    /\ pc[w] = "ack" /\ count[w] = Len(batch[w]) /\ AfterAck(w)
    /\ UNCHANGED <<redisVars, pushVars, dbVars, faults, historyVars>>

AckFails(w) ==                   \* the rest of the LREMs are lost
    /\ pc[w] = "ack" /\ Fault /\ AfterAck(w)
    /\ UNCHANGED <<redisVars, pushVars, dbVars, historyVars>>

Quarantine(w) ==                 \* LPUSH on the dead-letter list
    /\ pc[w] = "quarantine" /\ Goto(w, "unlist")
    /\ dlq' = dlq \cup Bad(w)
    /\ UNCHANGED <<queue, processing, pushVars, dbVars, batch, prep, count, faults, historyVars>>

Unlist(w) ==
    /\ pc[w] = "unlist" /\ count[w] < Len(batch[w]) /\ Step(w)
    /\ LET entry == batch[w][count[w] + 1] IN
       processing' = IF entry \in Clicks THEN processing ELSE LRem(processing, entry)
    /\ UNCHANGED <<queue, dlq, pushVars, dbVars, pc, batch, prep, faults, historyVars>>

UnlistEnds(w) ==
    /\ pc[w] = "unlist" /\ count[w] = Len(batch[w]) /\ Return(w, "idle")
    /\ UNCHANGED <<redisVars, pushVars, dbVars, faults, historyVars>>

\* Redis fails inside withRedis, the database fails, or the process dies.
Abandon(p) ==
    /\ pc[p] \notin {"idle", "done", "lost"} /\ Fault /\ Return(p, StopStep(p))
    /\ UNCHANGED <<redisVars, pushVars, dbVars, historyVars>>

(***************************************************************************)
(* The rest of the system, as far as ingestion can see it.                 *)
(***************************************************************************)
ForeignPush(m) ==                \* an entry this version cannot parse
    /\ m \notin arrived /\ arrived' = arrived \cup {m}
    /\ queue' = LPush(m, queue)
    /\ UNCHANGED <<processing, dlq, wire, sends, dbVars, callVars, faults, historyVars>>

MoveLink(l) ==                   \* out of the workspace, or back into it
    /\ urlRow[l] # "gone"
    /\ \E home \in {"owned", "unowned"} : urlRow' = [urlRow EXCEPT ![l] = home]
    /\ UNCHANGED <<redisVars, pushVars, refs, events, total, daily, human, usage, active,
                   callVars, faults, historyVars>>

DeleteLink(l) ==                 \* click_events and the rollups cascade
    /\ urlRow[l] # "gone"
    /\ urlRow' = [urlRow EXCEPT ![l] = "gone"]
    /\ events' = events \ On(events, l)
    /\ total' = [total EXCEPT ![l] = 0] /\ human' = [human EXCEPT ![l] = 0]
    /\ daily' = [k \in Links \X Days |-> IF k[1] = l THEN 0 ELSE daily[k]]
    /\ UNCHANGED <<redisVars, pushVars, refs, usage, active, callVars, faults, historyVars>>

DeleteRef(r) ==                  \* a rule or a campaign variant is deleted
    /\ r \in refs /\ refs' = refs \ {r}
    /\ UNCHANGED <<redisVars, pushVars, urlRow, events, total, daily, human, usage, active,
                   callVars, faults, historyVars>>

EraseVisitor(c) ==               \* the row goes, the rollups stay
    /\ c \in events /\ urlRow[LinkOf[c]] = "owned"
    /\ events' = events \ {c}
    /\ UNCHANGED <<redisVars, pushVars, urlRow, refs, total, daily, human, usage, active,
                   callVars, faults, historyVars>>

RequestNext(c) ==
    \/ Push(c) \/ Land(c) \/ Accepted(c) \/ PersistDirectly(c) \/ FanOutDirect(c)
WorkerNext(w) ==
    \/ StartBatch(w) \/ Recover(w) \/ RecoverEnds(w) \/ Claim(w) \/ ClaimUnseen(w)
    \/ ClaimEnds(w) \/ FanOut(w) \/ Ack(w) \/ AckEnds(w) \/ AckFails(w)
    \/ Quarantine(w) \/ Unlist(w) \/ UnlistEnds(w)
PersistNext(p) ==
    \/ PrepareClicks(p) \/ Persist(p) \/ CommitUnseen(p) \/ Rollback(p) \/ Abandon(p)
OutsideNext ==
    \/ \E m \in Malformed : ForeignPush(m)
    \/ \E l \in Deletable : MoveLink(l) \/ DeleteLink(l)
    \/ \E r \in Refs : DeleteRef(r)
    \/ \E c \in Erasable : EraseVisitor(c)

Next ==
    \/ \E c \in Clicks : RequestNext(c)
    \/ \E w \in Workers : WorkerNext(w)
    \/ \E p \in Callers : PersistNext(p)
    \/ OutsideNext

Spec == Init /\ [][Next]_vars

\* The cron calls the route again and again, and a worker that is not
\* interrupted gets to its end.  Faults are bounded, so they end too.
WorkerProgress(w) ==
    \/ StartBatch(w) \/ Recover(w) \/ RecoverEnds(w) \/ Claim(w) \/ ClaimEnds(w)
    \/ PrepareClicks(w) \/ Persist(w) \/ Rollback(w) \/ FanOut(w) \/ Ack(w)
    \/ AckEnds(w) \/ Quarantine(w) \/ Unlist(w) \/ UnlistEnds(w)

FairSpec == Spec /\ \A w \in Workers : WF_vars(WorkerProgress(w))

-----------------------------------------------------------------------------
Steps == {"idle", "sending", "recover", "claim", "prepare", "persist", "fanout",
          "ack", "quarantine", "unlist", "done", "lost"}

ListsOK == queue \in Seq(Raw) /\ processing \in Seq(Raw) /\ dlq \subseteq Raw
PushOK == wire \subseteq Clicks /\ sends \in [Clicks -> 0..MaxSends] /\ arrived \subseteq Malformed
DbOK ==
    /\ urlRow \in [Links -> {"owned", "unowned", "gone"}] /\ refs \subseteq Refs
    /\ events \subseteq Clicks /\ usage \in Nat
    /\ total \in [Links -> Nat] /\ human \in [Links -> Nat]
    /\ daily \in [Links \X Days -> Nat] /\ active \in [Links -> BOOLEAN]
CallOK ==
    /\ pc \in [Callers -> Steps] /\ batch \in [Callers -> Seq(Raw)]
    /\ prep \in [Callers -> SUBSET Clicks] /\ count \in [Callers -> Nat]
    /\ faults \in 0..MaxFaults
HistoryOK == persisted \subseteq Clicks /\ dropped \subseteq Clicks /\ offered \subseteq Clicks

\* Shape of the state.
TypeOK == ListsOK /\ PushOK /\ DbOK /\ CallOK /\ HistoryOK

Listed == ToSet(queue) \cup ToSet(processing)
Settled == persisted \cup dropped

\* The parts of the inductive invariant behind the two guarantees below.
LandedKept == \A c \in Clicks : sends[c] > 0 => c \in Listed \cup Settled
ResolvedKept == \A c \in Clicks : pc[c] = "done" => sends[c] > 0 \/ c \in Settled
AckAfterCommit == \A p \in Callers : pc[p] \in {"fanout", "ack"} => Good(p) \subseteq Settled
OwnBatch == \A c \in Clicks : pc[c] \in {"prepare", "persist", "fanout"} => batch[c] = <<c>>
RowsPersisted == events \subseteq persisted
UnlistAfterQuarantine == \A w \in Workers : pc[w] = "unlist" => Bad(w) \subseteq dlq

\* A click that Redis has taken, or whose push() has returned, is in one of the
\* two lists until its transaction has committed, whatever workers do to each
\* other's entries (queue.ts push, processBatch).
NoLoss == \A c \in Clicks : sends[c] > 0 \/ pc[c] = "done" => c \in Listed \cup Settled

\* An entry that does not parse is never discarded: it stays listed until it is
\* in the dead-letter list (queue.ts quarantineMalformed).
NothingDiscarded == \A m \in arrived : m \in Listed \cup dlq

QueueInv == /\ LandedKept /\ ResolvedKept /\ AckAfterCommit /\ OwnBatch
            /\ UnlistAfterQuarantine /\ RowsPersisted /\ NothingDiscarded

Intact(l) == urlRow[l] # "gone" /\ \A c \in Erasable : LinkOf[c] # l

\* However often an event is delivered, its link's total, its day and its human
\* rollup count it once (persistBatch aggregates only the rows it inserted).
RollupsMatchEvents == \A l \in Links : Intact(l) =>
    /\ total[l] = Cardinality(On(events, l))
    /\ human[l] = Cardinality(On(CountedHuman(events), l))
    /\ \A d \in Days : daily[<<l, d>>] = Cardinality(OnDay(events, l, d))

\* Ingestion charges a human click whose quota was not reserved, once, and never
\* one that admission already paid for (persistBatch, measuredCount).
ChargedOnce == Erasable = {} =>
    usage <= Cardinality((persisted \cap Humans) \ Reserved)

Held(c) == \E p \in Callers : c \in Good(p)

\* A persisted click leaves the lists only after its link.clicked fan-out was
\* attempted, so a worker that dies in between does not silence the webhook.
FannedOutBeforeGone == \A c \in persisted :
    c \in offered \cup dropped \cup Listed \/ Held(c) \/ pc[c] = "lost"

\* Once Redis holds a click, the workers persist or reject it, whatever order
\* the two lists give it, as long as faults stop and its rule still exists.
EventuallySettled == \A c \in Clicks : sends[c] > 0 ~> c \in Settled

\* Ingestion implements the ledger: totals move only by counting each click that
\* was made once, and a deleted link's by going away (persistBatch).
Ledger == INSTANCE ClickLedger WITH
    made <- { c \in Clicks : pc[c] # "idle" }, counted <- persisted,
    closed <- { l \in Links : urlRow[l] = "gone" }
ImplementsLedger == Ledger!Spec
=============================================================================
