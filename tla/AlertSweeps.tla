----------------------------- MODULE AlertSweeps ------------------------------
(***************************************************************************)
(* The sweeps that mail owners once about something that was reached: a    *)
(* click milestone, a week for the digest, an API key about to expire, a   *)
(* threshold of a monthly quota.  Overlapping runs read what is due, claim *)
(* item by item with a conditional update, and send; where the code does,  *)
(* a failed send puts the marker back.                                     *)
(*                                                                         *)
(* What was reached is a level: the milestones, the weeks and the          *)
(* thresholds in their order, or just 1 for a key.  A send that is         *)
(* reported as failed delivered nothing.                                   *)
(***************************************************************************)
EXTENDS Naturals, FiniteSets

CONSTANTS
    Items,          \* of one owner (one workspace)
    Runs,           \* runs of the cron job that may overlap
    MaxLevel,       \* bound: the highest level reached
    MaxFailures,    \* bound: mails that cannot be sent
    MaxCrashes      \* bound: runs that die

VARIABLES
    sweep,          \* which of the sweeps this is; it never changes
    level,          \* per item: what it has reached
    mark,           \* per item: the level in milestoneReached, weeklyDigestSentAt or
                    \* expiryWarnedAt, if any; the thresholds with a row in usage_alerts
    job,            \* per run: where it is
    mails,          \* history: per item and level, the mails delivered
    failures, crashes

vars == <<sweep, level, mark, job, mails, failures, crashes>>

Idle == [pc |-> "idle"]
Levels == 1..MaxLevel

Init ==
    /\ sweep \in {"milestones", "digest", "keys", "usage"}
    /\ level = [i \in Items |-> 0] /\ mark = [i \in Items |-> {}]
    /\ job = [r \in Runs |-> Idle]
    /\ mails = [i \in Items |-> [l \in Levels |-> 0]]
    /\ failures = 0 /\ crashes = 0

\* Clicks are counted, a week passes, a key's last days come, usage grows.
Reach(i) ==
    /\ level[i] < IF sweep = "keys" THEN 1 ELSE MaxLevel
    /\ level' = [level EXCEPT ![i] = @ + 1]
    /\ UNCHANGED <<sweep, mark, job, mails, failures, crashes>>

\* crossedMilestone, crossedThreshold, the digest's cutoff, expiryWarnedAt is null:
\* the highest level reached, if it lies above the marker.
Above(l, S) == \A m \in S : l > m
Due(i) == level[i] > 0 /\ Above(level[i], mark[i])

Read(r) ==
    LET due == {i \in Items : Due(i)} IN
    /\ job[r] = Idle /\ due # {}
    /\ job' = [job EXCEPT ![r] = [pc |-> "claim", todo |-> due, mine |-> {},
                                  to |-> [i \in due |-> level[i]], from |-> [i \in due |-> mark[i]]]]
    /\ UNCHANGED <<sweep, level, mark, mails, failures, crashes>>

\* The conditional update: milestoneReached < m, weeklyDigestSentAt < cutoff,
\* expiryWarnedAt IS NULL; a quota row is unique by threshold alone.
OneByOne == sweep = "digest"
ClaimableAnyway(i, l) == TRUE
Claimable(i, l) == IF sweep = "usage" THEN l \notin mark[i] ELSE Above(l, mark[i])
Claim(r) ==
    LET j == job[r] IN
    /\ j.pc = "claim" /\ j.todo # {} /\ (OneByOne => j.mine = {})
    /\ \E i \in j.todo :
        LET mine == Claimable(i, j.to[i]) IN
        /\ mark' = IF ~mine THEN mark
                   ELSE [mark EXCEPT ![i] = {j.to[i]} \cup IF sweep = "usage" THEN @ ELSE {}]
        /\ job' = [job EXCEPT ![r].todo = @ \ {i}, ![r].mine = IF mine THEN @ \cup {i} ELSE @]
    /\ UNCHANGED <<sweep, level, mails, failures, crashes>>

\* One mail to the owner about all that was claimed; the digest goes to each user
\* before the next is claimed.
Claimed(j) == j.pc = "claim" /\ (j.todo = {} \/ (OneByOne /\ j.mine # {}))
Rest(j) == IF j.todo = {} THEN Idle ELSE [j EXCEPT !.pc = "claim", !.mine = {}]
Send(r) ==
    LET j == job[r] IN
    /\ Claimed(j)
    /\ mails' = [i \in Items |-> [l \in Levels |-> IF i \in j.mine /\ l = j.to[i] THEN mails[i][l] + 1 ELSE mails[i][l]]]
    /\ job' = [job EXCEPT ![r] = Rest(j)]
    /\ UNCHANGED <<sweep, level, mark, failures, crashes>>

RollsBack == sweep # "usage"
SendFails(r) ==
    LET j == job[r] IN
    /\ Claimed(j) /\ j.mine # {}
    /\ failures < MaxFailures /\ failures' = failures + 1
    /\ job' = [job EXCEPT ![r] = IF RollsBack THEN [@ EXCEPT !.pc = "undo"] ELSE Rest(j)]
    /\ UNCHANGED <<sweep, level, mark, mails, crashes>>

\* The marker goes back to what this run had read, if it is still this run's.
Back(j, i) == IF mark[i] = {j.to[i]} THEN j.from[i] ELSE mark[i]
PutBack(r) ==
    LET j == job[r] IN
    /\ j.pc = "undo"
    /\ \E i \in j.mine :
        /\ mark' = [mark EXCEPT ![i] = Back(j, i)]
        /\ job' = [job EXCEPT ![r] = IF j.mine = {i} THEN Rest(j) ELSE [j EXCEPT !.mine = @ \ {i}]]
    /\ UNCHANGED <<sweep, level, mails, failures, crashes>>

Crash(r) ==
    /\ job[r] # Idle /\ crashes < MaxCrashes /\ crashes' = crashes + 1
    /\ job' = [job EXCEPT ![r] = Idle]
    /\ UNCHANGED <<sweep, level, mark, mails, failures>>

Next ==
    \/ \E i \in Items : Reach(i)
    \/ \E r \in Runs : Read(r) \/ Claim(r) \/ Send(r) \/ SendFails(r) \/ PutBack(r) \/ Crash(r)

Spec == Init /\ [][Next]_vars

(***************************************************************************)
(* Properties.                                                             *)
(***************************************************************************)
\* "Overlapping cron runs never double-send": of two runs that overlap, fail and put
\* markers back to what they had read before the other claimed, no level of an item
\* is mailed about twice.  Three are too many: one that puts its marker back takes it
\* below a level that a second has mailed, and a third has the same level to claim.
MailedOnce == \A i \in Items, l \in Levels : mails[i][l] <= 1

\* "A failed send rolls the marker back so the next run retries": once no run is
\* under way and none has died, what an item has reached was mailed or is due.
AtRest == \A r \in Runs : job[r] = Idle
NothingForgotten ==
    AtRest /\ crashes = 0 /\ sweep # "usage" => \A i \in Items : level[i] = 0 \/ Due(i) \/ mails[i][level[i]] > 0

\* Both: neither twice nor, while no run dies, not at all.
ToldOnce == MailedOnce /\ NothingForgotten

(***************************************************************************)
(* Stronger claims, which the code does not keep.  No run checks them; the  *)
(* README names, for each, the constants under which TLC refutes it.       *)
(***************************************************************************)
\* The same of a run that dies after its claim, and of the quota's alerts.
NothingEverForgotten ==
    AtRest /\ sweep # "usage" => \A i \in Items : level[i] = 0 \/ Due(i) \/ mails[i][level[i]] > 0
QuotaMailed ==
    AtRest /\ crashes = 0 => \A i \in Items : level[i] = 0 \/ Due(i) \/ mails[i][level[i]] > 0
================================================================================
