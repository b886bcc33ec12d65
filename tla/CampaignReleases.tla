--------------------------- MODULE CampaignReleases ---------------------------
(***************************************************************************)
(* One campaign of a workspace: editors change it and propose releases of  *)
(* it, owners and admins vote on them, the cron job publishes those that   *)
(* are approved and due, and the autopilot shifts traffic between its      *)
(* variants.  A release is a copy of the variants made for the version     *)
(* that follows the campaign's.                                            *)
(*                                                                         *)
(* A transaction runs at READ COMMITTED, so its statements are steps of    *)
(* their own; a conditional update and what follows it in the same         *)
(* transaction are one step, for the row lock is held until the commit.    *)
(***************************************************************************)
EXTENDS Naturals, FiniteSets, FiniteSetsExt

CONSTANTS
    Users, Requests, Variants,
    Proposers,      \* bound: the members who propose releases
    Control,        \* the control variant, one of them
    RoleOf,         \* a member's role: "owner", "admin" or "editor"
    Weights,        \* the variants' weights at the start
    MaxVersion,     \* bound: the campaign's version
    MindsChange     \* a reviewer votes again after having decided

VARIABLES
    campaign,       \* version, status ("running", or "paused" for every other), weights
    experiment,     \* running, cooling (cooldownUntil lies ahead)
    release,        \* per version: the release proposed for it, if any
    vote,           \* per release and reviewer: the approval row's status
    job             \* per request: where it is

vars == <<campaign, experiment, release, vote, job>>

Versions == 1..MaxVersion
Idle == [op |-> "idle"]
Reviewers == {u \in Users : RoleOf[u] \in {"owner", "admin"}}
NoRelease == [status |-> "none", by |-> "none", reviewed |-> FALSE, due |-> FALSE, weights |-> Weights]

Init ==
    /\ campaign = [version |-> 1, status |-> "paused", weights |-> Weights]
    /\ experiment = [running |-> FALSE, cooling |-> FALSE]
    /\ release = [v \in Versions |-> NoRelease]
    /\ vote = [v \in Versions |-> [u \in Reviewers |-> "none"]]
    /\ job = [r \in Requests |-> Idle]

Begin(r, request) == job[r] = Idle /\ job' = [job EXCEPT ![r] = request]
Finish(r) == job' = [job EXCEPT ![r] = Idle]
Crash(r) == job[r] # Idle /\ Finish(r) /\ UNCHANGED <<campaign, experiment, release, vote>>

(***************************************************************************)
(* Changing the campaign.                                                  *)
(***************************************************************************)
\* PATCH sets any status; the bulk action and its stale look at the status
\* before it do no more.  Both count the version up.
Edit(status) ==
    /\ campaign.version < MaxVersion
    /\ campaign' = [campaign EXCEPT !.version = @ + 1, !.status = status]
    /\ UNCHANGED <<experiment, release, vote, job>>

\* action=start: campaign and experiment, and no version; the campaign.start tool
\* leaves the experiment alone.
Start ==
    /\ campaign.status # "running" \/ ~experiment.running
    /\ campaign' = [campaign EXCEPT !.status = "running"]
    /\ experiment' \in {experiment, [experiment EXCEPT !.running = TRUE]}
    /\ UNCHANGED <<release, vote, job>>

(***************************************************************************)
(* Proposing a release and voting on it.                                   *)
(***************************************************************************)
Propose(r, u, reviewed) ==
    /\ campaign.version < MaxVersion
    /\ Begin(r, [op |-> "propose", version |-> campaign.version + 1,
                 row |-> [status |-> IF reviewed THEN "pending" ELSE "approved", by |-> u, reviewed |-> reviewed,
                          due |-> FALSE, weights |-> campaign.weights]])
    /\ UNCHANGED <<campaign, experiment, release, vote>>

\* (campaignId, version) is unique: a second proposal for a version fails.
InsertRelease(r) ==
    LET j == job[r] IN
    /\ j.op = "propose" /\ Finish(r)
    /\ IF release[j.version].status = "none"
       THEN /\ release' = [release EXCEPT ![j.version] = j.row]
            /\ vote' = IF j.row.reviewed THEN [vote EXCEPT ![j.version] = [u \in Reviewers |-> "pending"]] ELSE vote
       ELSE UNCHANGED <<release, vote>>
    /\ UNCHANGED <<campaign, experiment>>

\* scheduledAt is null or has passed.
FallDue(v) ==
    /\ release[v].status = "approved" /\ ~release[v].due
    /\ release' = [release EXCEPT ![v].due = TRUE]
    /\ UNCHANGED <<campaign, experiment, vote, job>>

AnyMayVote(v, u) == TRUE
MayVote(v, u) == release[v].by # u
\* The quorum is two, an owner and an admin, where there is an admin.
Roles == IF \E u \in Users : RoleOf[u] = "admin" THEN {"owner", "admin"} ELSE {"owner"}
Quorum == Cardinality(Roles)
Approving(v) == {u \in Reviewers : vote[v][u] = "approved"}
Enough(S) == Cardinality(S) >= Quorum /\ Roles \subseteq {RoleOf[u] : u \in S}

Vote(r, u, v, says) ==
    /\ u \in Reviewers /\ MayVote(v, u) /\ release[v].status = "pending"
    /\ \/ MindsChange
       \/ vote[v][u] = "pending" /\ \A q \in Requests : job[q].op = "vote" => job[q].by # u
    /\ Begin(r, [op |-> "vote", version |-> v, by |-> u, says |-> says])
    /\ UNCHANGED <<campaign, experiment, release, vote>>

\* The approval row is upserted on its own, before the transaction.
Record(r) ==
    LET j == job[r] IN
    /\ j.op = "vote"
    /\ vote' = [vote EXCEPT ![j.version][j.by] = j.says]
    /\ job' = [job EXCEPT ![r] = [op |-> "count", version |-> j.version, says |-> j.says]]
    /\ UNCHANGED <<campaign, experiment, release>>

\* The transaction reads the approvals ...
Decision(v, says) ==
    IF says = "rejected" THEN "rejected" ELSE IF Enough(Approving(v)) THEN "approved" ELSE "pending"
Count(r) ==
    LET j == job[r] IN
    /\ j.op = "count"
    /\ job' = [job EXCEPT ![r] = [op |-> "settle", version |-> j.version, status |-> Decision(j.version, j.says)]]
    /\ UNCHANGED <<campaign, experiment, release, vote>>

\* ... and writes its decision if the release is still pending.
Settle(r) ==
    LET j == job[r] IN
    /\ j.op = "settle" /\ Finish(r)
    /\ release' = IF release[j.version].status = "pending"
                  THEN [release EXCEPT ![j.version].status = j.status] ELSE release
    /\ UNCHANGED <<campaign, experiment, vote>>

(***************************************************************************)
(* activateScheduledReleases, run by overlapping cron jobs.                *)
(***************************************************************************)
CronReads(r) ==
    LET due == {v \in Versions : release[v].status = "approved" /\ release[v].due} IN
    /\ due # {} /\ Begin(r, [op |-> "cron", todo |-> due])
    /\ UNCHANGED <<campaign, experiment, release, vote>>

\* A release at or below the campaign's version is passed over.
NewerAnyway(v) == TRUE
Newer(v) == v > campaign.version
NextRelease(r) ==
    LET j == job[r]
        v == Min(j.todo)
        rest == j.todo \ {v} IN
    /\ j.op = "cron"
    /\ job' = [job EXCEPT ![r] = IF Newer(v) THEN [op |-> "publish", version |-> v, seen |-> campaign.version, todo |-> rest]
                                 ELSE IF rest = {} THEN Idle ELSE [op |-> "cron", todo |-> rest]]
    /\ UNCHANGED <<campaign, experiment, release, vote>>

\* Claiming the release and advancing the campaign, if it is still at the version
\* seen.  Otherwise the exception undoes the claim and ends the whole run.
UnchangedAnyway(version) == TRUE
UnchangedSince(version) == campaign.version = version
Publish(r) ==
    LET j == job[r]
        claimed == release[j.version].status = "approved"
        next == IF j.todo = {} THEN Idle ELSE [op |-> "cron", todo |-> j.todo] IN
    /\ j.op = "publish"
    /\ IF claimed /\ UnchangedSince(j.seen)
       THEN /\ release' = [release EXCEPT ![j.version].status = "published"]
            /\ campaign' = [campaign EXCEPT !.version = j.version, !.status = "running"]
       ELSE UNCHANGED <<release, campaign>>
    /\ job' = [job EXCEPT ![r] = IF claimed /\ ~UnchangedSince(j.seen) THEN Idle ELSE next]
    /\ UNCHANGED <<experiment, vote>>

(***************************************************************************)
(* runCampaignAutopilot, by overlapping cron jobs and on request.          *)
(***************************************************************************)
\* The first read only decides whether to go on; the claim is what counts.
Look(r) ==
    /\ experiment.running /\ ~experiment.cooling
    /\ Begin(r, [op |-> "look"])
    /\ experiment' = [experiment EXCEPT !.cooling = TRUE]
    /\ UNCHANGED <<campaign, release, vote>>

CooldownEnds ==
    /\ experiment.cooling
    /\ experiment' = [experiment EXCEPT !.cooling = FALSE]
    /\ UNCHANGED <<campaign, release, vote, job>>

\* The campaign is read again, and one variant found better than the control.
Decide(r, winner) ==
    /\ job[r].op = "look" /\ winner # Control
    /\ campaign.weights[Control] > 1
    /\ job' = [job EXCEPT ![r] = [op |-> "shift", to |-> winner, seen |-> campaign.version, weights |-> campaign.weights]]
    /\ UNCHANGED <<campaign, experiment, release, vote>>

\* Only the two rows are written, with the weights worked out from the read.
Shift(r) ==
    LET j == job[r] IN
    /\ j.op = "shift" /\ Finish(r)
    /\ campaign' = IF UnchangedSince(j.seen) /\ campaign.status = "running" /\ campaign.version < MaxVersion
                   THEN [campaign EXCEPT !.version = @ + 1, !.weights[Control] = j.weights[Control] - 1,
                                         !.weights[j.to] = j.weights[j.to] + 1]
                   ELSE campaign
    /\ UNCHANGED <<experiment, release, vote>>

Next ==
    \/ \E status \in {"running", "paused"} : Edit(status)
    \/ Start \/ CooldownEnds
    \/ \E v \in Versions : FallDue(v)
    \/ \E r \in Requests :
        \/ \E u \in Proposers, reviewed \in BOOLEAN : Propose(r, u, reviewed)
        \/ \E u \in Users, v \in Versions, says \in {"approved", "rejected"} : Vote(r, u, v, says)
        \/ InsertRelease(r) \/ Record(r) \/ Count(r) \/ Settle(r)
        \/ CronReads(r) \/ NextRelease(r) \/ Publish(r)
        \/ Look(r) \/ Shift(r) \/ Crash(r)
        \/ \E w \in Variants : Decide(r, w)

Spec == Init /\ [][Next]_vars

(***************************************************************************)
(* Properties.                                                             *)
(***************************************************************************)
\* activateScheduledReleases never applies its copy of the variants: publishing
\* is right only because a release whose campaign was edited, released or
\* shifted since it was proposed is no longer the next version.  And whatever
\* cron runs overlap, the campaign's version never goes back.
PublishesWhatIsLive ==
    /\ campaign'.version >= campaign.version
    /\ \A v \in Versions : release[v].status # "published" /\ release'[v].status = "published"
         => release[v].weights = campaign'.weights /\ campaign'.version = v
PublishedIsLive == [][PublishesWhatIsLive]_vars

\* Of weights, what they add up to.
Total(weights) == Cardinality(UNION {{w} \X (1..weights[w]) : w \in Variants})

\* shiftTrafficWeights moves traffic, it never creates or destroys it: with slow
\* workers deciding side by side the variants' weights keep their total, and the
\* control always keeps a share.
TrafficConserved ==
    /\ Total(campaign.weights) = Total(Weights)
    /\ \A w \in Variants : campaign.weights[w] >= 1

\* A reviewed release goes out only with its quorum: enough owners and admins, in
\* the required roles, none of them its creator.
PublishedHadQuorum ==
    \A v \in Versions : release[v].reviewed /\ release[v].status \in {"approved", "published"} =>
        Enough(Approving(v) \ {release[v].by})

(***************************************************************************)
(* Stronger claims, which the code does not keep.  No run checks them; the  *)
(* README names, for each, the constants under which TLC refutes it.       *)
(***************************************************************************)
AtRest == \A r \in Requests : job[r] = Idle

\* approvals: a release every reviewer who may vote on it has approved is approved.
UnanimousIsApproved ==
    AtRest => \A v \in Versions : release[v].status = "pending" => ~(Reviewers \ {release[v].by} \subseteq Approving(v))

\* campaigns.ts: an approved release does not remain approved forever.
ApprovedGoesOut == \A v \in Versions : release[v].status = "approved" => v > campaign.version
================================================================================
