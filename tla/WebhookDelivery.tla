--------------------------- MODULE WebhookDelivery ---------------------------
(***************************************************************************)
(* Webhook deliveries: src/src/lib/webhooks.ts, webhook-health.ts and the  *)
(* replays of webhook-delivery-log.ts.                                     *)
(*                                                                         *)
(* Cron runs list what is due and process all of it at once; each delivery *)
(* is vetted, claimed by a compare-and-swap with a lease, posted, and      *)
(* finalized under the lease token.  Runs overlap, outlive their leases    *)
(* and die.  Failed deliveries feed the automatic disabling of endpoints   *)
(* and may be replayed as new deliveries.                                  *)
(***************************************************************************)
EXTENDS Naturals, Sequences, FiniteSets, SequencesExt

CONSTANTS
    Deliveries,     \* rows of webhook_deliveries, existing or still to come
    Endpoints, EndpointOf,
    Runs,           \* calls that process deliveries: cron runs, manual replays
    Buttons,        \* requests to replay everything that failed
    Unsafe,         \* endpoints whose host may resolve to a private address
    Take,           \* rows one cron run lists
    MaxRetries,     \* WEBHOOK_MAX_RETRIES
    MinFailures,    \* WEBHOOK_DISABLE_MIN_FAILURES
    MaxEdits,       \* bound: owners switching endpoints on and off
    MaxFaults       \* bound: runs that die or stall beyond their lease

ASSUME DeliveryAssumption ==
    /\ IsFiniteSet(Deliveries) /\ IsFiniteSet(Runs)
    /\ EndpointOf \in [Deliveries -> Endpoints] /\ Unsafe \subseteq Endpoints
ASSUME BoundsAssumption ==
    /\ Take \in Nat \ {0} /\ MaxRetries \in Nat \ {0} /\ MinFailures \in Nat \ {0}
    /\ MaxEdits \in Nat /\ MaxFaults \in Nat

None == "none"

VARIABLES
    status, attempts,    \* per delivery; status "absent" before it is created
    token, leased,       \* leaseToken (the attempt it was drawn for, 0 for null),
                         \* and whether leaseUntil is still ahead
    due, later,          \* pending deliveries by nextAttemptAt, past and future
    created, aged,       \* creation order; how many are over 24 hours old
    replayOf, bulk,      \* replayOfId; created by the replay-failed button
    active,              \* webhook_endpoints.isActive
    job,                 \* per run and delivery: the call of processWebhookDelivery
    wanted,              \* per button: failures it has read and will replay
    edits, faults,
    posts, notices,      \* history: POSTs per delivery, e-mails per endpoint
    rejected             \* history: deliveries refused for their host

rowVars    == <<status, attempts, token, leased, due, later>>
originVars == <<created, replayOf, bulk>>
historyVars == <<posts, notices, rejected>>
vars == <<rowVars, originVars, aged, active, job, wanted, edits, faults, historyVars>>

Idle == [step |-> "none", seen |-> 0, ok |-> FALSE]
AtStep(step) == [Idle EXCEPT !.step = step]

Init ==
    /\ status = [d \in Deliveries |-> "absent"]
    /\ attempts = [d \in Deliveries |-> 0]
    /\ token = [d \in Deliveries |-> 0]
    /\ leased = [d \in Deliveries |-> FALSE]
    /\ due = <<>> /\ later = <<>>
    /\ created = <<>> /\ aged = 0
    /\ replayOf = [d \in Deliveries |-> None]
    /\ bulk = [d \in Deliveries |-> FALSE]
    /\ active = [e \in Endpoints |-> TRUE]
    /\ job = [r \in Runs |-> [d \in Deliveries |-> Idle]]
    /\ wanted = [b \in Buttons |-> {}]
    /\ edits = 0 /\ faults = 0
    /\ posts = [d \in Deliveries |-> 0]
    /\ notices = [e \in Endpoints |-> 0]
    /\ rejected = {}

Prefix(s, n) == SubSeq(s, 1, IF n < Len(s) THEN n ELSE Len(s))

(***************************************************************************)
(* Creating deliveries.                                                    *)
(***************************************************************************)
Create(d, original) ==
    /\ status[d] = "absent"
    /\ status' = [status EXCEPT ![d] = "pending"]
    /\ due' = Append(due, d)
    /\ created' = Append(created, d)
    /\ replayOf' = [replayOf EXCEPT ![d] = original]
    /\ UNCHANGED <<attempts, token, leased, later, bulk>>

\* dispatchWebhooksForUrls, for an endpoint that was active when it was read.
Enqueue(d) ==
    /\ active[EndpointOf[d]]
    /\ Create(d, None)
    /\ UNCHANGED <<aged, active, job, wanted, edits, faults, historyVars>>

\* The replay route: a copy of one delivery, processed by the same request.
ReplayOne(r, original, d) ==
    /\ active[EndpointOf[d]] /\ EndpointOf[original] = EndpointOf[d]
    /\ status[original] # "absent"
    /\ job[r] = [x \in Deliveries |-> Idle]
    /\ Create(d, original)
    /\ job' = [job EXCEPT ![r][d] = AtStep("listed")]
    /\ UNCHANGED <<aged, active, wanted, edits, faults, historyVars>>

Replayed == {replayOf[d] : d \in Deliveries}
Unreplayed(e) ==
    {d \in Deliveries : EndpointOf[d] = e /\ status[d] = "failed"} \ Replayed

\* replayFailedDeliveries reads the failures and the replays they already have;
\* at READ COMMITTED nothing holds them until the copies are inserted.
ReadFailed(b, e) ==
    /\ wanted[b] = {} /\ active[e] /\ Unreplayed(e) # {}
    /\ wanted' = [wanted EXCEPT ![b] = Unreplayed(e)]
    /\ UNCHANGED <<rowVars, originVars, aged, active, job, edits, faults, historyVars>>

\* The copies are created together, one for each failure read.
ReplayWanted(b) ==
    /\ wanted[b] # {}
    /\ \E copies \in SUBSET {d \in Deliveries : status[d] = "absent"} :
        \E of \in Bijection(copies, wanted[b]) :
            /\ \A d \in copies : EndpointOf[d] = EndpointOf[of[d]]
            /\ status' = [d \in Deliveries |-> IF d \in copies THEN "pending" ELSE status[d]]
            /\ due' = due \o SetToSeq(copies)
            /\ created' = created \o SetToSeq(copies)
            /\ replayOf' = [d \in Deliveries |-> IF d \in copies THEN of[d] ELSE replayOf[d]]
            /\ bulk' = [d \in Deliveries |-> bulk[d] \/ d \in copies]
    /\ wanted' = [wanted EXCEPT ![b] = {}]
    /\ UNCHANGED <<attempts, token, leased, later, aged, active, job, edits, faults, historyVars>>

\* The quota of the workspace refuses the copies, or the transaction fails.
ReplayRefused(b) ==
    /\ wanted[b] # {}
    /\ wanted' = [wanted EXCEPT ![b] = {}]
    /\ UNCHANGED <<rowVars, originVars, aged, active, job, edits, faults, historyVars>>

(***************************************************************************)
(* processDeadLetterQueue.                                                 *)
(***************************************************************************)
LeaseExpired(d) == token[d] # 0 /\ ~leased[d]
Candidates == due \o SelectSeq(later, LAMBDA d : LeaseExpired(d))

ProcessDeadLetterQueue(r) ==
    /\ job[r] = [d \in Deliveries |-> Idle]
    /\ Candidates # <<>>
    /\ job' = [job EXCEPT ![r] = [d \in Deliveries |->
            IF d \in ToSet(Prefix(Candidates, Take)) THEN AtStep("listed") ELSE Idle]]
    /\ UNCHANGED <<rowVars, originVars, aged, active, wanted, edits, faults, historyVars>>

(***************************************************************************)
(* processWebhookDelivery, one action per await.                           *)
(***************************************************************************)
Continue(r, d, next) == job' = [job EXCEPT ![r][d] = next]

Read(r, d) ==
    /\ job[r][d].step = "listed"
    /\ \/ /\ status[d] # "success" /\ active[EndpointOf[d]]
          /\ Continue(r, d, [AtStep("vet") EXCEPT !.seen = attempts[d]])
       \/ /\ status[d] = "success" \/ ~active[EndpointOf[d]]
          /\ Continue(r, d, Idle)
    /\ UNCHANGED <<rowVars, originVars, aged, active, wanted, edits, faults, historyVars>>

\* assertDestinationSafeForStorage resolves the host anew.
Vet(r, d) ==
    /\ job[r][d].step = "vet"
    /\ \E safe \in {TRUE} \cup {EndpointOf[d] \notin Unsafe} :
        Continue(r, d, [job[r][d] EXCEPT !.step = IF safe THEN "claim" ELSE "reject"])
    /\ UNCHANGED <<rowVars, originVars, aged, active, wanted, edits, faults, historyVars>>

Reject(r, d) ==
    /\ job[r][d].step = "reject"
    /\ status' = [status EXCEPT ![d] = "failed"]
    /\ due' = RemoveFirst(due, d) /\ later' = RemoveFirst(later, d)
    /\ rejected' = rejected \cup {d}
    /\ Continue(r, d, Idle)
    /\ UNCHANGED <<attempts, token, leased, originVars, aged, active, wanted, edits, faults,
                   posts, notices>>

FreeUnchecked(r, d) == token[d] = 0 \/ ~leased[d]
FreeUnleased(r, d) == attempts[d] = job[r][d].seen /\ token[d] = 0
Claimable(r, d) == attempts[d] = job[r][d].seen /\ (token[d] = 0 \/ ~leased[d])

Claim(r, d) ==
    /\ job[r][d].step = "claim"
    /\ \/ /\ Claimable(r, d)
          /\ attempts' = [attempts EXCEPT ![d] = job[r][d].seen + 1]
          /\ token' = [token EXCEPT ![d] = job[r][d].seen + 1]
          /\ leased' = [leased EXCEPT ![d] = TRUE]
          /\ Continue(r, d, [job[r][d] EXCEPT !.step = "post"])
       \/ /\ ~Claimable(r, d)
          /\ Continue(r, d, Idle)
          /\ UNCHANGED <<attempts, token, leased>>
    /\ UNCHANGED <<status, due, later, originVars, aged, active, wanted, edits, faults, historyVars>>

\* The receiver may take the POST and still time out; ok is what the worker saw.
Post(r, d) ==
    /\ job[r][d].step = "post"
    /\ \E ok \in BOOLEAN : Continue(r, d, [job[r][d] EXCEPT !.step = "finalize", !.ok = ok])
    /\ posts' = [posts EXCEPT ![d] = @ + 1]
    /\ UNCHANGED <<rowVars, originVars, aged, active, wanted, edits, faults, notices, rejected>>

Outcome(j) == IF j.ok THEN "success" ELSE IF j.seen + 1 >= MaxRetries THEN "failed" ELSE "pending"

AnyToken(r, d) == TRUE
OwnToken(r, d) == token[d] = job[r][d].seen + 1

\* The new nextAttemptAt lies in the future, anywhere among the others.
Finalize(r, d) ==
    LET outcome == Outcome(job[r][d]) IN
    /\ job[r][d].step = "finalize"
    /\ \/ /\ OwnToken(r, d)
          /\ status' = [status EXCEPT ![d] = outcome]
          /\ token' = [token EXCEPT ![d] = 0]
          /\ leased' = [leased EXCEPT ![d] = FALSE]
          /\ due' = RemoveFirst(due, d)
          /\ \/ outcome # "pending" /\ later' = RemoveFirst(later, d)
             \/ /\ outcome = "pending"
                /\ \E n \in 0..Len(RemoveFirst(later, d)) : later' = InsertAt(RemoveFirst(later, d), n + 1, d)
          /\ Continue(r, d, IF outcome = "failed" THEN AtStep("health") ELSE Idle)
       \/ /\ ~OwnToken(r, d)
          /\ Continue(r, d, Idle)
          /\ UNCHANGED <<status, token, leased, due, later>>
    /\ UNCHANGED <<attempts, originVars, aged, active, wanted, edits, faults, historyVars>>

(***************************************************************************)
(* evaluateEndpointHealth.                                                 *)
(***************************************************************************)
\* Positions in the creation order of the deliveries of e that are settled; the query
\* takes the newest of them only.
Settled(e) == {n \in 1..Len(created) :
    EndpointOf[created[n]] = e /\ status[created[n]] \in {"success", "failed"}}
Recent(e) == {n \in Settled(e) : Cardinality({m \in Settled(e) : m > n}) < MinFailures + 5}
Streak(e) == {n \in Recent(e) :
    \A m \in Recent(e) : m >= n => status[created[m]] = "failed"}

ShouldDisable(e) ==
    /\ Cardinality(Streak(e)) >= MinFailures
    /\ \E n \in Streak(e) : n <= aged

ReadHealth(r, d) ==
    /\ job[r][d].step = "health"
    /\ Continue(r, d, IF ShouldDisable(EndpointOf[d]) THEN AtStep("disable") ELSE Idle)
    /\ UNCHANGED <<rowVars, originVars, aged, active, wanted, edits, faults, historyVars>>

NoticeAlways(r, e) == TRUE
Notice(r, e) == active[e]

\* One conditional update decides who disables the endpoint and mails its owner.
Disable(r, d) ==
    LET e == EndpointOf[d] IN
    /\ job[r][d].step = "disable"
    /\ active' = [active EXCEPT ![e] = FALSE]
    /\ notices' = IF Notice(r, e) THEN [notices EXCEPT ![e] = @ + 1] ELSE notices
    /\ Continue(r, d, Idle)
    /\ UNCHANGED <<rowVars, originVars, aged, wanted, edits, faults, posts, rejected>>

(***************************************************************************)
(* Owners, time and deaths.                                                *)
(***************************************************************************)
Toggle(e) ==
    /\ edits < MaxEdits /\ edits' = edits + 1
    /\ active' = [active EXCEPT ![e] = ~@]
    /\ UNCHANGED <<rowVars, originVars, aged, job, wanted, faults, historyVars>>

BecomesDue ==
    /\ later # <<>>
    /\ due' = Append(due, Head(later)) /\ later' = Tail(later)
    /\ UNCHANGED <<status, attempts, token, leased, originVars, aged, active, job, wanted,
                   edits, faults, historyVars>>

HolderWorks(d) == \E r \in Runs :
    job[r][d].step \in {"post", "finalize"} /\ job[r][d].seen + 1 = token[d]

\* The lease of a dead run, or of one that stalled for longer than it.
LeaseRunsOut(d) ==
    /\ leased[d]
    /\ leased' = [leased EXCEPT ![d] = FALSE]
    /\ \/ HolderWorks(d) /\ faults < MaxFaults /\ faults' = faults + 1
       \/ ~HolderWorks(d) /\ UNCHANGED faults
    /\ UNCHANGED <<status, attempts, token, due, later, originVars, aged, active, job, wanted,
                   edits, historyVars>>

Ages ==
    /\ aged < Len(created) /\ aged' = aged + 1
    /\ UNCHANGED <<rowVars, originVars, active, job, wanted, edits, faults, historyVars>>

Dies(r) ==
    /\ job[r] # [d \in Deliveries |-> Idle]
    /\ faults < MaxFaults /\ faults' = faults + 1
    /\ job' = [job EXCEPT ![r] = [d \in Deliveries |-> Idle]]
    /\ UNCHANGED <<rowVars, originVars, aged, active, wanted, edits, historyVars>>

Call(r, d) ==
    Read(r, d) \/ Vet(r, d) \/ Reject(r, d) \/ Claim(r, d) \/ Post(r, d) \/ Finalize(r, d)
    \/ ReadHealth(r, d) \/ Disable(r, d)

Next ==
    \/ \E d \in Deliveries : Enqueue(d) \/ LeaseRunsOut(d)
    \/ \E r \in Runs, original, d \in Deliveries : ReplayOne(r, original, d)
    \/ \E b \in Buttons : ReplayWanted(b) \/ ReplayRefused(b) \/ \E e \in Endpoints : ReadFailed(b, e)
    \/ \E r \in Runs : ProcessDeadLetterQueue(r) \/ Dies(r)
    \/ \E r \in Runs, d \in Deliveries : Call(r, d)
    \/ \E e \in Endpoints : Toggle(e)
    \/ BecomesDue \/ Ages

Spec == Init /\ [][Next]_vars

\* The cron keeps calling, calls run on while their process lives, leases and
\* backoffs run out.
Progress ==
    /\ \A r \in Runs : WF_vars(ProcessDeadLetterQueue(r))
    /\ \A r \in Runs : \A d \in Deliveries : WF_vars(Call(r, d))
    /\ \A d \in Deliveries : WF_vars(LeaseRunsOut(d))
    /\ WF_vars(BecomesDue)

FairSpec == Spec /\ Progress

(***************************************************************************)
(* Properties.                                                             *)
(***************************************************************************)
Statuses == {"absent", "pending", "success", "failed"}
Steps == {"none", "listed", "vet", "reject", "claim", "post", "finalize", "health", "disable"}

\* The variables stay in their types, and the two due lists hold exactly the
\* pending deliveries, each once.
TypeOK ==
    /\ status \in [Deliveries -> Statuses]
    /\ attempts \in [Deliveries -> Nat] /\ token \in [Deliveries -> Nat]
    /\ leased \in [Deliveries -> BOOLEAN]
    /\ ToSet(due \o later) = {d \in Deliveries : status[d] = "pending"}
    /\ Len(due \o later) = Cardinality(ToSet(due \o later))
    /\ created \in Seq(Deliveries) /\ aged \in 0..Len(created)
    /\ replayOf \in [Deliveries -> Deliveries \cup {None}]
    /\ bulk \in [Deliveries -> BOOLEAN] /\ active \in [Endpoints -> BOOLEAN]
    /\ job \in [Runs -> [Deliveries -> [step : Steps, seen : Nat, ok : BOOLEAN]]]
    /\ wanted \in [Buttons -> SUBSET Deliveries]
    /\ edits \in 0..MaxEdits /\ faults \in 0..MaxFaults
    /\ posts \in [Deliveries -> Nat] /\ notices \in [Endpoints -> Nat]
    /\ rejected \subseteq {d \in Deliveries : EndpointOf[d] \in Unsafe}

\* webhooks.ts:140 "only the worker that flips `attempts` from its read value
\* may deliver": every attempt number is posted at most once, however cron
\* runs, replays and stale workers overlap.
OnePostPerAttempt == \A d \in Deliveries :
    posts[d] + Cardinality({r \in Runs : job[r][d].step = "post"}) <= attempts[d]

\* webhooks.ts:195 "Never let that stale worker overwrite a newer worker's
\* result": what clears a lease is the call that made the latest claim.
StaleNeverFinalizes == [][\A d \in Deliveries : token[d] # 0 /\ token'[d] = 0 =>
    \E r \in Runs : /\ job[r][d].step = "finalize" /\ job'[r][d].step # "finalize"
                    /\ job[r][d].seen + 1 = attempts[d]]_vars

\* webhooks.ts:140 "Atomic claim": a delivery that succeeded stays so, for it is
\* never claimed again.
SuccessIsFinal == [][\A d \in Deliveries : status[d] = "success" => status'[d] = "success"]_vars

\* A delivery is given up only after all its attempts, unless its host is refused.
AllRetriesUsed == \A d \in Deliveries :
    status[d] = "failed" /\ d \notin rejected => attempts[d] >= MaxRetries

\* Both: no attempt is posted twice and none is left out.
EachAttemptOnce == TypeOK /\ OnePostPerAttempt /\ AllRetriesUsed

\* webhook-health.ts:55 "The conditional update makes the disable (and therefore
\* the email) happen exactly once even with concurrent workers".
OneNoticePerDisable == [][\A e \in Endpoints : notices'[e] # notices[e] =>
    notices'[e] = notices[e] + 1 /\ active[e] /\ ~active'[e]]_vars

\* A delivery whose endpoint stays on is settled in the end: crashed workers,
\* expired leases and lost claims never leave it pending for good.
EventuallySettled == \A d \in Deliveries :
    status[d] = "pending" ~> status[d] # "pending" \/ ~active[EndpointOf[d]]
=============================================================================
