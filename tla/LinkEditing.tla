------------------------------ MODULE LinkEditing ------------------------------
(***************************************************************************)
(* Edits of links that exist: PATCH, bulk edit and its undo, releases,     *)
(* promotion, extension, revert, the archiving of idle links and the sweep *)
(* of expired ones.                                                        *)
(*                                                                         *)
(* Each of them reads the row, decides, and writes later by id.  A link's  *)
(* destination is kept twice: in urls.originalUrl, which management shows, *)
(* and in its revisions, the latest of which the redirect prefers.         *)
(***************************************************************************)
EXTENDS Integers, FiniteSets

CONSTANTS
    Links,
    Requests,     \* requests and cron runs, each of which edits once
    Dests,        \* destinations an editor may ask for
    Untagged, Tagged, \* the destination before and after a UTM template
    Caps,         \* values of maxClicks
    Templates,    \* links may be created with a UTM template
    Releases,     \* releases may be made without an edit
    NoRev,
    Horizon       \* expiry dates are the days 1 to Horizon

None == -1

VARIABLES
    row,       \* per link: originalUrl, isActive, maxClicks, expiresAt
    latest,    \* per link: its revision with the latest effectiveAt
    clock,     \* the last moment that was stamped
    today,     \* the expiry dates that have passed: 1 to today
    job,       \* per request: what it does, on what, and what it has read
    events,    \* link.bulk_edit audit events, before and after per link
    updates,   \* link.update audit events
    undone,    \* link.bulk_edit_undo events: the anchor each names
    released,  \* history: links a release was made for
    reverted,  \* history: links whose destination an undo has put back
    raced,     \* history: links whose edits were committed in another order than stamped
    misreported      \* history: auto-archive events of links that were not archived

vars == <<row, latest, clock, today, job, events, updates, undone, released, reverted, raced, misreported>>
auditVars == <<events, updates, undone>>
historyVars == <<released, reverted, raced, misreported>>

Days == 1 .. Horizon
Fields == {"dest", "active", "cap", "ends"}
Idle == [op |-> "idle"]
Done == [op |-> "done"]

\* shorten creates the row with the tagged URL and the first revision with the
\* untagged one; a clone has no revision.
Init ==
    /\ \E tagged \in [Links -> IF Templates THEN BOOLEAN ELSE {FALSE}] :
        row = [l \in Links |-> [dest |-> IF tagged[l] THEN Tagged ELSE Untagged,
                                active |-> TRUE, cap |-> None, ends |-> None]]
    /\ latest \in [Links -> {[to |-> Untagged, at |-> 0], [to |-> NoRev, at |-> 0]}]
    /\ clock = 0 /\ today = 0
    /\ job = [r \in Requests |-> Idle]
    /\ events = {} /\ updates = {} /\ undone = {}
    /\ released = {} /\ reverted = {} /\ raced = {} /\ misreported = {}

\* resolveDestination, of the parts that belong to the link itself.
Served(l) == IF latest[l].to # NoRev THEN latest[l].to ELSE row[l].dest

(***************************************************************************)
(* Reading: authorize, findMany, the audit event an undo or a revert names.*)
(***************************************************************************)
Begin(r, request) ==
    /\ job[r] = Idle
    /\ job' = [job EXCEPT ![r] = request]
    /\ UNCHANGED <<row, latest, clock, today, auditVars, historyVars>>

\* What a request asks for: a partial row, as the data of the update it makes.
Changes ==
    [dest : Dests] \cup [active : BOOLEAN] \cup [cap : Caps \cup {None}] \cup [ends : Days \cup {None}]

Overwrite(old, new) == [f \in Fields |-> IF f \in DOMAIN new THEN new[f] ELSE old[f]]
Only(old, fields) == [f \in fields |-> old[f]]

Patch(r, l, c) ==
    Begin(r, [op |-> "patch", on |-> {l}, change |-> c, seen |-> row, at |-> None])

BulkEdit(r, S, c) ==
    Begin(r, [op |-> "bulk", on |-> S, change |-> c, seen |-> row, at |-> None])

Promote(r, l, d) ==
    Begin(r, [op |-> "promote", on |-> {l}, change |-> [dest |-> d], seen |-> row, at |-> None])

Release(r, l, d) ==
    /\ Releases
    /\ Begin(r, [op |-> "release", on |-> {l}, change |-> [dest |-> d], seen |-> row, at |-> None])

\* extendLink: a day after the later of the current expiry and now, or n clicks.
LaterOf(a, b) == IF a > b THEN a ELSE b

ExtendDays(r, l) ==
    LET end == LaterOf(row[l].ends, today) + 1 IN
    end \in Days /\ Begin(r, [op |-> "extend", on |-> {l}, seen |-> row, change |-> [ends |-> end]])

\* A link without a cap stays without one.
ExtendClicks(r, l, n) ==
    LET cap == IF row[l].cap = None THEN None ELSE row[l].cap + n IN
    Begin(r, [op |-> "extend", on |-> {l}, seen |-> row, change |-> [cap |-> cap]])

\* planRevert, for the isActive of a link.update event.
Revert(r, e) ==
    /\ e \in updates
    /\ row[e.on].active = e.after.active
    /\ Begin(r, [op |-> "revert", on |-> {e.on}, change |-> e.before, seen |-> row])

\* undoBulkEdit up to line 69: the batch of the event and whether it was undone.
UndoBulkEdit(r, e) ==
    /\ e \in events
    /\ \A a \in undone : a # <<e.batch, e.on>>
    /\ Begin(r, [op |-> "events", batch |-> e.batch, anchor |-> e.on])

\* archiveStaleForUser and expireLinksInBatches: the links they select.
SelectIdle(r) ==
    LET idle == {l \in Links : row[l].active} IN
    idle # {} /\ Begin(r, [op |-> "archive", on |-> idle])

Expired(l) == row[l].ends \in 1 .. today

SelectExpired(r) ==
    LET expired == {l \in Links : row[l].active /\ Expired(l)} IN
    expired # {} /\ Begin(r, [op |-> "sweep", on |-> expired])

(***************************************************************************)
(* Planning and stamping.                                                  *)
(***************************************************************************)
Batch(b) == {e \in events : e.batch = b}

\* planUndo: what the batch changed and the link still holds.
UntouchedOrAny(e) == TRUE
Untouched(e) == Overwrite(row[e.on], e.after) = row[e.on]

PlanUndo(r) ==
    /\ job[r].op = "events"
    /\ job' = [job EXCEPT ![r] =
           [op |-> "undo", batch |-> @.batch, anchor |-> @.anchor,
            plan |-> {e \in Batch(@.batch) : Untouched(e)}]]
    /\ UNCHANGED <<row, latest, clock, today, auditVars, historyVars>>

Revises(j) == j.op \in {"patch", "bulk", "promote", "release"} /\ "dest" \in DOMAIN j.change

\* The links a request will write.  A bulk edit leaves out what it does not change,
\* a PATCH a destination it does not change.
Differs(j, l) == Overwrite(j.seen[l], j.change) # j.seen[l]
Planned(j) ==
    IF j.op = "bulk" \/ (j.op = "patch" /\ Revises(j)) THEN {l \in j.on : Differs(j, l)} ELSE j.on

\* effectiveAt: new Date(), before the statement that stores it commits.
Stamp(r) ==
    /\ job[r].op \in {"patch", "bulk", "promote", "release"}
    /\ Revises(job[r]) /\ job[r].at = None
    /\ clock' = clock + 1
    /\ job' = [job EXCEPT ![r].at = clock']
    /\ UNCHANGED <<row, latest, today, auditVars, historyVars>>

(***************************************************************************)
(* Writing.                                                                *)
(***************************************************************************)
Newer(l, at) == at > latest[l].at

RevisionForgotten(S, to, at) == UNCHANGED <<latest, raced>>
AddRevision(S, to, at) ==
    /\ latest' = [l \in Links |-> IF l \in S /\ Newer(l, at) THEN [to |-> to, at |-> at] ELSE latest[l]]
    /\ raced' = raced \cup {l \in S : ~Newer(l, at)}

Write(S, change) == row' = [l \in Links |-> IF l \in S THEN Overwrite(row[l], change) ELSE row[l]]

Finish(r) == job' = [job EXCEPT ![r] = Done] /\ UNCHANGED <<clock, today>>

\* The link.update event: isActive as the request read it and as the row is now.
\* Only those that differ can be reverted, and only those are kept.
UpdateEvent(j, l) ==
    [on |-> l, before |-> Only(j.seen[l], {"active"}), after |-> Only(row'[l], {"active"})]

WritePatch(r) ==
    LET j == job[r] S == Planned(j) IN
    /\ j.op = "patch" /\ (Revises(j) => j.at # None)
    /\ Write(S, j.change)
    /\ IF Revises(j) THEN AddRevision(S, j.change.dest, j.at) ELSE UNCHANGED <<latest, raced>>
    /\ updates' = updates \cup {e \in {UpdateEvent(j, l) : l \in j.on} : e.before # e.after}
    /\ Finish(r) /\ UNCHANGED <<events, undone, released, reverted, misreported>>

WriteBulk(r) ==
    LET j == job[r] S == Planned(j) IN
    /\ j.op = "bulk" /\ (Revises(j) => j.at # None)
    /\ Write(S, j.change)
    /\ IF Revises(j) THEN AddRevision(S, j.change.dest, j.at) ELSE UNCHANGED <<latest, raced>>
    /\ events' = events \cup {[batch |-> r, on |-> l, before |-> Only(j.seen[l], DOMAIN j.change),
                               after |-> j.change] : l \in S}
    /\ Finish(r) /\ UNCHANGED <<updates, undone, released, reverted, misreported>>

WritePromotion(r) ==
    LET j == job[r] IN
    /\ j.op = "promote" /\ j.at # None
    /\ Write(j.on, j.change)
    /\ AddRevision(j.on, j.change.dest, j.at)
    /\ Finish(r) /\ UNCHANGED <<auditVars, released, reverted, misreported>>

WriteRelease(r) ==
    LET j == job[r] IN
    /\ j.op = "release" /\ j.at # None
    /\ AddRevision(j.on, j.change.dest, j.at)
    /\ released' = released \cup j.on
    /\ Finish(r) /\ UNCHANGED <<row, auditVars, reverted, misreported>>

\* extendLink and planRevert's update: by id, whatever the row holds now.
WriteSimple(r) ==
    LET j == job[r] IN
    /\ j.op \in {"extend", "revert"}
    /\ Write(j.on, j.change)
    /\ Finish(r) /\ UNCHANGED <<latest, auditVars, historyVars>>

\* Lines 74-84: the plan is written in one transaction, with its audit events;
\* an empty plan writes nothing, not even that it was undone.
WriteUndo(r) ==
    LET j == job[r] IN
    /\ j.op = "undo"
    /\ row' = [l \in Links |-> IF \E e \in j.plan : e.on = l
                              THEN Overwrite(row[l], (CHOOSE e \in j.plan : e.on = l).before)
                              ELSE row[l]]
    /\ undone' = IF j.plan = {} THEN undone ELSE undone \cup {<<j.batch, j.anchor>>}
    /\ reverted' = reverted \cup {e.on : e \in {e \in j.plan : "dest" \in DOMAIN e.before}}
    /\ Finish(r) /\ UNCHANGED <<latest, events, updates, released, raced, misreported>>

\* updateMany where isActive; events for every candidate if any was updated.
WriteArchive(r) ==
    LET j == job[r] hit == {l \in j.on : row[l].active} IN
    /\ j.op = "archive"
    /\ Write(hit, [active |-> FALSE])
    /\ misreported' = IF hit = {} THEN misreported ELSE misreported \cup (j.on \ hit)
    /\ Finish(r) /\ UNCHANGED <<latest, auditVars, released, reverted, raced>>

WriteSweep(r) ==
    /\ job[r].op = "sweep"
    /\ Write(job[r].on, [active |-> FALSE])
    /\ Finish(r) /\ UNCHANGED <<latest, auditVars, historyVars>>

DayPasses ==
    /\ today < Horizon
    /\ today' = today + 1
    /\ UNCHANGED <<row, latest, clock, job, auditVars, historyVars>>

Next ==
    \/ \E r \in Requests, l \in Links :
        \/ \E c \in Changes : Patch(r, l, c)
        \/ \E d \in Dests : Promote(r, l, d) \/ Release(r, l, d)
        \/ ExtendDays(r, l)
        \/ \E n \in Caps : ExtendClicks(r, l, n)
    \/ \E r \in Requests, c \in Changes : BulkEdit(r, Links, c)
    \/ \E r \in Requests : (\E e \in updates : Revert(r, e)) \/ (\E e \in events : UndoBulkEdit(r, e))
    \/ \E r \in Requests :
        \/ SelectIdle(r) \/ SelectExpired(r) \/ PlanUndo(r) \/ Stamp(r)
        \/ WritePatch(r) \/ WriteBulk(r) \/ WritePromotion(r) \/ WriteRelease(r)
        \/ WriteSimple(r) \/ WriteUndo(r) \/ WriteArchive(r) \/ WriteSweep(r)
    \/ DayPasses

Spec == Init /\ [][Next]_vars

(***************************************************************************)
(* Properties.                                                             *)
(***************************************************************************)
Rows == [dest : Dests, active : BOOLEAN, cap : Nat \cup {None}, ends : Days \cup {None}]

TypeOK ==
    /\ row \in [Links -> Rows]
    /\ latest \in [Links -> [to : Dests \cup {NoRev}, at : Nat]]
    /\ clock \in Nat /\ today \in 0 .. Horizon
    /\ undone \subseteq Requests \X Links
    /\ released \subseteq Links /\ reverted \subseteq Links /\ raced \subseteq Links /\ misreported \subseteq Links

\* links/[shortCode]/route.ts:236 "Changing the fallback destination creates a
\* revision": however edits, bulk edits and promotions of a link overlap, as long
\* as they commit in the order of their stamps, nobody has made a release past
\* them and no bulk edit of the destination was undone, visitors are sent where
\* management says.
ShownIsServed ==
    /\ TypeOK
    /\ ~Templates => \A l \in Links \ (released \cup reverted \cup raced) : Served(l) = row[l].dest

(***************************************************************************)
(* Stronger claims, which the code does not keep.  No run checks them; the  *)
(* README names, for each, the constants under which TLC refutes it.       *)
(***************************************************************************)
\* docs/bulk-edit.md:90: an undo restores the previous values.
UndoneIsServed == \A l \in reverted \ (released \cup raced) : Served(l) = row[l].dest

\* bulk-edit-undo.ts:27: "so an undo never clobbers newer work".
UndoSparesNewerWork ==
    [][\A r \in Requests :
         job[r].op = "undo" /\ job'[r] = Done => \A e \in job[r].plan : Untouched(e)]_vars

\* bulk-edit-undo.ts:69: "This bulk edit was already undone".
UndoneOnce == \A a, b \in undone : a[1] = b[1] => a = b

\* link-revert.ts:6: "no silent clobbering of newer edits".
RevertSparesNewerEdits ==
    [][\A r \in Requests :
         job[r].op = "revert" /\ job'[r] = Done =>
           \A l \in job[r].on : row[l].active = job[r].seen[l].active]_vars

\* link-extend.ts:4: "Extend (or reactivate) a link's expiry".
ExtendReactivates ==
    [][\A r \in Requests :
         job[r].op = "extend" /\ job'[r] = Done => \A l \in job[r].on : row'[l].active]_vars

\* maintenance/sweep/route.ts:129: links are expired at their configured deadline.
SweepSparesExtended ==
    [][\A r \in Requests :
         job[r].op = "sweep" /\ job'[r] = Done => \A l \in job[r].on : Expired(l)]_vars

\* auto-archive.ts:11: every change, and no other, gets an audit event.
OnlyArchivedReported == misreported = {}

\* links/[shortCode]/route.ts:236: changing the destination changes the redirect.
PatchTakesEffect ==
    [][\A r \in Requests :
         job[r].op = "patch" /\ "dest" \in DOMAIN job[r].change /\ job'[r] = Done =>
           \A l \in job[r].on \ raced' : Served(l)' = job[r].change.dest]_vars

\* shorten/route.ts:240: the template's tags are on the destination of the redirect.
TagsAreServed == \A l \in Links : job = [r \in Requests |-> Idle] => Served(l) = row[l].dest
================================================================================
