----------------------------- MODULE EdgeRouting ------------------------------
(***************************************************************************)
(* The routing configuration of a workspace on its way to the edge: a      *)
(* request changes a link, publishes a snapshot of every active link under *)
(* the workspace's advisory lock and posts it to the edge replica; a cron  *)
(* job posts again what was not acknowledged; an edge instance answers     *)
(* visitors from the replica, from the primary, or from the last           *)
(* configuration it loaded.                                                *)
(*                                                                         *)
(* A snapshot's hash stands for its content and its predecessor, so the    *)
(* version identifies it.  The replica is not part of the repository: it   *)
(* is taken to accept what shouldAcceptRoutingSnapshot accepts.            *)
(***************************************************************************)
EXTENDS Naturals, Sequences, FiniteSets

CONSTANTS
    Links, Requests,
    MaxEdits,       \* bound: edits of one link
    MaxSnapshots,   \* bound: snapshots published
    MaxSends,       \* bound: runs of the cron job
    MaxFailures     \* bound: posts and loads that fail

None == "none"

VARIABLES
    link,           \* per link: its last edit, and "on", "off" (not active) or "trash"
    snapshots,      \* the published rows: content, replicated (replicatedAt is set)
    lock,           \* holder of the workspace's advisory lock
    job,            \* per request: where it is
    cron,           \* the retry job: the snapshot it is posting
    replica,        \* version the replica holds (0: none)
    edge,           \* the instance's lastGood, which answered the last visitor, and the
                    \* link that visitor asked for
    told,           \* history: per link, the last edit whose request has published
    sends, failures

vars == <<link, snapshots, lock, job, cron, replica, edge, told, sends, failures>>

Idle == [pc |-> "idle"]
NoConfig == [link |-> None, version |-> 0]
Nobody == [good |-> NoConfig, asked |-> None]
Newest == Len(snapshots)
Content(v) == snapshots[v].content

Init ==
    /\ link = [l \in Links |-> [edit |-> 0, state |-> "on"]]
    /\ snapshots = <<[content |-> link, replicated |-> TRUE]>>
    /\ lock = None /\ replica = 1
    /\ job = [r \in Requests |-> Idle]
    /\ cron = {}
    /\ edge = Nobody
    /\ told = [l \in Links |-> 0]
    /\ sends = 0 /\ failures = 0

(***************************************************************************)
(* The requests that change a link.                                        *)
(***************************************************************************)
Write(l, state) ==
    /\ link[l].edit < MaxEdits
    /\ link' = [link EXCEPT ![l] = [edit |-> @.edit + 1, state |-> state]]

\* PATCH of a link, its rules, revisions, safety: the write, then the publication.
Change(r, l, state) ==
    /\ job[r] = Idle /\ Newest < MaxSnapshots
    /\ link[l].state # "trash" /\ Write(l, state)
    /\ job' = [job EXCEPT ![r] = [pc |-> "publish", on |-> l, edit |-> link[l].edit + 1]]
    /\ UNCHANGED <<snapshots, lock, cron, replica, edge, told, sends, failures>>

\* DELETE sets deletedAt alone and restore clears it; rename, bulk edit and the
\* sweeps change the row: none of them publishes.
ChangeQuietly(l, state) ==
    /\ Write(l, state)
    /\ UNCHANGED <<snapshots, lock, job, cron, replica, edge, told, sends, failures>>

(***************************************************************************)
(* publishWorkspaceRoutingConfig.                                          *)
(***************************************************************************)
LockIgnored == TRUE
LockFree == lock = None

\* The lock is taken, then the links are read.
ReadState(r) ==
    /\ job[r].pc = "publish" /\ LockFree /\ Newest < MaxSnapshots
    /\ lock' = r
    /\ job' = [job EXCEPT ![r] = [pc |-> "append", on |-> @.on, edit |-> @.edit, content |-> link]]
    /\ UNCHANGED <<link, snapshots, cron, replica, edge, told, sends, failures>>

\* The next version is appended; the commit releases the lock.
Publish(r) ==
    /\ job[r].pc = "append"
    /\ snapshots' = Append(snapshots, [content |-> job[r].content, replicated |-> FALSE])
    /\ lock' = None
    /\ job' = [job EXCEPT ![r] = [pc |-> "post", version |-> Newest + 1]]
    /\ told' = [told EXCEPT ![job[r].on] = IF @ < job[r].edit THEN job[r].edit ELSE @]
    /\ UNCHANGED <<link, cron, replica, edge, sends, failures>>

(***************************************************************************)
(* replicateRoutingSnapshot, and the replica's answer.                     *)
(***************************************************************************)
\* shouldAcceptRoutingSnapshot: newer than the one held, and built on it.
Accepts(v) == replica = 0 \/ (v > replica /\ v - 1 = replica)

\* The outcome of one post: accepted and acknowledged, accepted but the answer
\* lost or late, refused, or never delivered.
Post(v) ==
    \/ /\ Accepts(v)
       /\ replica' = v
       /\ \/ /\ snapshots' = [snapshots EXCEPT ![v].replicated = TRUE]
             /\ UNCHANGED failures
          \/ /\ failures < MaxFailures /\ failures' = failures + 1
             /\ UNCHANGED snapshots
    \/ /\ ~Accepts(v)
       /\ UNCHANGED <<replica, snapshots, failures>>
    \/ /\ failures < MaxFailures /\ failures' = failures + 1
       /\ UNCHANGED <<replica, snapshots>>

Replicate(r) ==
    /\ job[r].pc = "post"
    /\ Post(job[r].version)
    /\ job' = [job EXCEPT ![r] = Idle]
    /\ UNCHANGED <<link, lock, cron, edge, told, sends>>

\* The process dies between two of its steps: a transaction it had open rolls back.
Crash(r) ==
    /\ job[r] # Idle
    /\ failures < MaxFailures /\ failures' = failures + 1
    /\ lock' = IF lock = r THEN None ELSE lock
    /\ job' = [job EXCEPT ![r] = Idle]
    /\ UNCHANGED <<link, snapshots, cron, replica, edge, told, sends>>

\* cron/edge-config: the newest of the rows without replicatedAt.
Pending == {v \in 1..Newest : ~snapshots[v].replicated}
Pick(S) == {v \in S : \A w \in S : w <= v}
CronReads ==
    /\ cron = {} /\ Pending # {} /\ sends < MaxSends
    /\ cron' = Pick(Pending) /\ sends' = sends + 1
    /\ UNCHANGED <<link, snapshots, lock, job, replica, edge, told, failures>>
CronPosts ==
    /\ \E v \in cron : Post(v)
    /\ cron' = {}
    /\ UNCHANGED <<link, lock, job, edge, told, sends>>

(***************************************************************************)
(* An edge instance answers a visitor of one link: loadConfig asks the     *)
(* replica, then the primary, then takes whatever it loaded last.          *)
(***************************************************************************)
\* A snapshot holds the links with isActive set, those in the trash among them.
Has(v, l) == v > 0 /\ Content(v)[l].state # "off"
Serve(l, got) ==
    /\ edge' = [good |-> got, asked |-> l]
    /\ UNCHANGED <<link, snapshots, lock, job, cron, replica, told, sends>>
Found(v, l) == [link |-> l, version |-> v]

FromReplica(l) == Has(replica, l) /\ Serve(l, Found(replica, l)) /\ UNCHANGED failures
\* The replica does not have the link, or fails.
FromPrimary(l) ==
    /\ Has(Newest, l) /\ Serve(l, Found(Newest, l))
    /\ \/ ~Has(replica, l) /\ UNCHANGED failures
       \/ failures < MaxFailures /\ failures' = failures + 1
\* Neither answers with the link: lastGood, while it is less than five minutes old.
FromLastGood(l) ==
    /\ edge.good # NoConfig /\ Serve(l, edge.good)
    /\ \/ ~Has(replica, l) /\ ~Has(Newest, l) /\ UNCHANGED failures
       \/ failures < MaxFailures /\ failures' = failures + 1
FiveMinutesPass ==
    /\ edge.good # NoConfig
    /\ edge' = Nobody
    /\ UNCHANGED <<link, snapshots, lock, job, cron, replica, told, sends, failures>>

Next ==
    \/ \E r \in Requests :
        \/ \E l \in Links, state \in {"on", "off"} : Change(r, l, state)
        \/ ReadState(r) \/ Publish(r) \/ Replicate(r) \/ Crash(r)
    \/ \E l \in Links, state \in {"on", "trash"} : ChangeQuietly(l, state)
    \/ CronReads \/ CronPosts
    \/ \E l \in Links : FromReplica(l) \/ FromPrimary(l) \/ FromLastGood(l)
    \/ FiveMinutesPass

Spec == Init /\ [][Next]_vars

(***************************************************************************)
(* Properties.                                                             *)
(***************************************************************************)
\* routing-config.ts:73: a slow publication never covers a newer one, nor does a
\* late post.  In whatever order requests write, read and append, a change whose
\* request has published is in the newest snapshot; whatever posts are late, lost
\* or repeated, the replica holds what is marked replicated, or something newer.
NewerIsNeverCovered ==
    /\ \A l \in Links : Content(Newest)[l].edit >= told[l]
    /\ \A v \in 1..Newest : snapshots[v].replicated => replica >= v

(***************************************************************************)
(* Stronger claims, which the code does not keep.  No run checks them; the  *)
(* README names, for each, the constants under which TLC refutes it.       *)
(***************************************************************************)
\* docs/link-trash.md: a link in the trash stops redirecting, at the latest with
\* the next snapshot published and once lastGood has run out.
TrashedNotServed == LET got == edge.good IN
    got.version > 0 => Content(got.version)[got.link].state # "trash"

\* The edge answers for the link it was asked for.
EdgeServesOwnLink == edge # Nobody => edge.good.link = edge.asked

\* cron/edge-config: a superseded snapshot is never posted again.
SupersededNeverSent == [][\A v \in cron' \ cron : \A w \in 1..Newest : snapshots[w].replicated => w < v]_vars

\* cron/edge-config: what the job would post next, the replica would accept.
RetryIsAccepted == Pending # {} /\ job = [r \in Requests |-> Idle] => \A v \in Pick(Pending) : Accepts(v) \/ replica = v
================================================================================
