----------------------------- MODULE LinkLifecycle -----------------------------
(***************************************************************************)
(* From a link's creation to its erasure: shorten and clone with their     *)
(* retries on a taken code, rename and its revert, and the trash with its  *)
(* retention window.                                                       *)
(*                                                                         *)
(* A request reads (and takes its "now") in one step and writes in a later *)
(* one; what the write checks again decides what overlapping requests can  *)
(* do to each other.                                                       *)
(***************************************************************************)
EXTENDS Integers, FiniteSets

CONSTANTS
    Links, Codes, Requests,
    Reserved,      \* codes isReservedCode refuses
    MaxTries,      \* attempts to find a free generated code
    Window,        \* TRASH_RETENTION_DAYS
    Horizon,       \* days the instance lasts
    CalmBoundary   \* a request sees one day only

None == "none"

VARIABLES
    link,     \* per id: state, code, the day of deletedAt, whether it has an owner
    renames,  \* link.rename audit events
    job,      \* per request: what it does, on which links, what it has read
    today

vars == <<link, renames, job, today>>

States == {"absent", "live", "trashed", "erased"}
Idle == [op |-> "idle"]
Done == [op |-> "done"]

Init ==
    /\ \E owned \in [Links -> BOOLEAN], code \in [Links -> Codes \cup {None}] :
        /\ \A l, k \in Links : l # k /\ code[l] = code[k] => code[l] = None
        /\ \A l \in Links : code[l] \notin Reserved
        /\ link = [l \in Links |-> [state |-> IF code[l] = None THEN "absent" ELSE "live",
                                    code |-> code[l], since |-> 0,
                                    owned |-> IF code[l] = None THEN FALSE ELSE owned[l]]]
    /\ renames = {}
    /\ job = [r \in Requests |-> Idle]
    /\ today = 0

Exists(l) == link[l].state \in {"live", "trashed"}
Live(l) == link[l].state = "live"
Trashed(l) == link[l].state = "trashed"
InWindow(l, now) == link[l].since > now - Window

\* The unique index on urls.shortCode, which rows in the trash are part of.
TakenByLive(c, l) == \E k \in Links \ {l} : Live(k) /\ link[k].code = c
Taken(c, l) == \E k \in Links \ {l} : Exists(k) /\ link[k].code = c

(***************************************************************************)
(* Reading.                                                                *)
(***************************************************************************)
Begin(r, request) ==
    /\ job[r] = Idle
    /\ job' = [job EXCEPT ![r] = request]
    /\ UNCHANGED <<link, renames, today>>

\* A custom code is checked against the reserved ones before anything else.
Shorten(r, custom, owned) ==
    /\ custom \in (Codes \ Reserved) \cup {None}
    /\ Begin(r, [op |-> "create", code |-> custom, owned |-> owned, tries |-> 0])

\* The copy belongs to the owner of the link, or to whoever clones one without.
Clone(r, l, custom, byUser) ==
    /\ Live(l) /\ custom \in (Codes \ Reserved) \cup {None}
    /\ Begin(r, [op |-> "create", code |-> custom, owned |-> link[l].owned \/ byUser, tries |-> 0])

Rename(r, l, c) ==
    /\ Live(l) /\ c \in Codes \ (Reserved \cup {link[l].code})
    /\ Begin(r, [op |-> "rename", on |-> {l}, code |-> c, old |-> link[l].code])

\* planRevert, for the shortCode of a link.rename event.
Revert(r, e) ==
    /\ e \in renames
    /\ Live(e.on) /\ link[e.on].code = e.after
    /\ Begin(r, [op |-> "revert", on |-> {e.on}, code |-> e.before, old |-> e.after])

Delete(r, l) == Live(l) /\ Begin(r, [op |-> "trash", on |-> {l}, now |-> today])
DeleteForGood(r, l) == Exists(l) /\ Begin(r, [op |-> "erase", on |-> {l}, now |-> today])
Restore(r, l) == Trashed(l) /\ Begin(r, [op |-> "restore", on |-> {l}, now |-> today])

Select(r, op, S) == S # {} /\ Begin(r, [op |-> op, on |-> S, now |-> today])

BulkTrash(r) == Select(r, "bulk_trash", {l \in Links : Live(l)})
RestoreAll(r) == Select(r, "restore_all", {l \in Links : Trashed(l) /\ link[l].owned /\ InWindow(l, today)})
EmptyTrash(r) == Select(r, "empty", {l \in Links : Trashed(l) /\ link[l].owned})
PurgeExpired(r) == Select(r, "purge", {l \in Links : Trashed(l) /\ link[l].owned /\ ~InWindow(l, today)})

(***************************************************************************)
(* Writing.                                                                *)
(***************************************************************************)
Finish(r) == job' = [job EXCEPT ![r] = Done] /\ UNCHANGED today

\* A generated code may be a reserved one or taken, which costs an attempt.
Insert(r, l, c) ==
    LET j == job[r] IN
    /\ j.op = "create" /\ link[l].state = "absent"
    /\ c \in Codes /\ j.code \in {None, c}
    /\ IF c \in Reserved \/ Taken(c, l)
       THEN /\ UNCHANGED <<link, today>>
            /\ IF j.code = None /\ j.tries + 1 < MaxTries
               THEN job' = [job EXCEPT ![r].tries = @ + 1]
               ELSE job' = [job EXCEPT ![r] = Done]
       ELSE /\ link' = [link EXCEPT ![l] = [state |-> "live", code |-> c, since |-> 0, owned |-> j.owned]]
            /\ Finish(r)
    /\ UNCHANGED renames

\* renameLink: by id, in the trash or not; a conflict or a missing row writes nothing.
WriteCode(r, l) ==
    LET j == job[r] ok == Exists(l) /\ ~Taken(j.code, l) IN
    /\ j.op \in {"rename", "revert"} /\ l \in j.on
    /\ link' = IF ok THEN [link EXCEPT ![l].code = j.code] ELSE link
    /\ renames' = IF ok /\ j.op = "rename"
                  THEN renames \cup {[on |-> l, before |-> j.old, after |-> j.code]} ELSE renames
    /\ Finish(r)

Put(S, state, since) ==
    link' = [l \in Links |-> IF l \in S THEN [link[l] EXCEPT !.state = state, !.since = since] ELSE link[l]]

WriteTrash(r) ==
    /\ job[r].op = "trash"
    /\ Put({l \in job[r].on : Live(l)}, "trashed", job[r].now)
    /\ Finish(r) /\ UNCHANGED renames

\* Bulk edit writes by id in one transaction: all rows, or none if one is gone.
WriteBulkTrash(r) ==
    /\ job[r].op = "bulk_trash"
    /\ Put(IF \A l \in job[r].on : Exists(l) THEN job[r].on ELSE {}, "trashed", job[r].now)
    /\ Finish(r) /\ UNCHANGED renames

WriteErase(r) ==
    /\ job[r].op = "erase"
    /\ Put({l \in job[r].on : Exists(l)}, "erased", 0)
    /\ Finish(r) /\ UNCHANGED renames

WriteRestore(r) ==
    /\ job[r].op = "restore"
    /\ Put({l \in job[r].on : Trashed(l) /\ InWindow(l, job[r].now)}, "live", 0)
    /\ Finish(r) /\ UNCHANGED renames

WriteRestoreAll(r) ==
    /\ job[r].op = "restore_all"
    /\ Put({l \in job[r].on : Trashed(l)}, "live", 0)
    /\ Finish(r) /\ UNCHANGED renames

\* emptyTrash checks again that the row is trashed and the caller's.
EmptyById(r) ==
    /\ job[r].op = "empty"
    /\ Put({l \in job[r].on : Exists(l)}, "erased", 0)
    /\ Finish(r) /\ UNCHANGED renames

WriteEmpty(r) ==
    /\ job[r].op = "empty"
    /\ Put({l \in job[r].on : Trashed(l) /\ link[l].owned}, "erased", 0)
    /\ Finish(r) /\ UNCHANGED renames

\* purgeExpiredTrash deletes by id alone.
WritePurge(r) ==
    /\ job[r].op = "purge"
    /\ Put({l \in job[r].on : Exists(l)}, "erased", 0)
    /\ Finish(r) /\ UNCHANGED renames

DayPasses ==
    /\ today < Horizon
    /\ CalmBoundary => \A r \in Requests : job[r] \in {Idle, Done}
    /\ today' = today + 1
    /\ UNCHANGED <<link, renames, job>>

Next ==
    \/ \E r \in Requests, c \in Codes \cup {None} :
        \/ \E owned \in BOOLEAN : Shorten(r, c, owned) \/ \E l \in Links : Clone(r, l, c, owned)
        \/ \E l \in Links : Rename(r, l, c) \/ Insert(r, l, c)
    \/ \E r \in Requests, l \in Links :
        Delete(r, l) \/ DeleteForGood(r, l) \/ Restore(r, l) \/ WriteCode(r, l)
    \/ \E r \in Requests, e \in renames : Revert(r, e)
    \/ \E r \in Requests :
        \/ BulkTrash(r) \/ RestoreAll(r) \/ EmptyTrash(r) \/ PurgeExpired(r)
        \/ WriteTrash(r) \/ WriteBulkTrash(r) \/ WriteErase(r) \/ WriteRestore(r) \/ WriteRestoreAll(r)
        \/ WriteEmpty(r) \/ WritePurge(r)
    \/ DayPasses

Spec == Init /\ [][Next]_vars

(***************************************************************************)
(* Properties.                                                             *)
(***************************************************************************)
TypeOK ==
    /\ link \in [Links -> [state : States, code : Codes \cup {None}, since : 0 .. Horizon, owned : BOOLEAN]]
    /\ today \in 0 .. Horizon
    /\ renames \subseteq [on : Links, before : Codes, after : Codes]

\* However links are created, cloned, renamed, renamed back, trashed and
\* restored, a code that visitors follow is one link's, and a link that comes
\* back from the trash has not lost its code to another.
OneLinkPerCode ==
    /\ TypeOK
    /\ \A l, k \in Links : Exists(l) /\ Exists(k) /\ link[l].code = link[k].code => l = k

\* link-trash.ts:6 "so a mistaken delete is recoverable": as long as no request
\* straddles the end of the window, only a permanent delete erases a link that
\* is not in the trash, and the cron erases none before its window has passed.
Ends(r, op) == job[r].op = op /\ job'[r] = Done
KeepsItsPromise ==
    \A l \in Links, r \in Requests :
       Exists(l) /\ link'[l].state = "erased" =>
         /\ Ends(r, "empty") => Trashed(l)
         /\ Ends(r, "purge") => Trashed(l) /\ ~InWindow(l, today)
TrashKeepsItsPromise == [][KeepsItsPromise]_vars

(***************************************************************************)
(* Stronger claims, which the code does not keep.  No run checks them; the  *)
(* README names, for each, the constants under which TLC refutes it.       *)
(***************************************************************************)
\* link-trash.ts:8: "After the window a cron purges it for good."
PurgeLeavesNothing ==
    [][\A r \in Requests : Ends(r, "purge") =>
         \A l \in Links : ~(link'[l].state = "trashed" /\ link'[l].since + Window <= job[r].now)]_vars

\* link-revert.ts:7: no silent clobbering of a newer rename.
RevertSparesNewerRename ==
    [][\A r \in Requests : Ends(r, "revert") =>
         \A l \in job[r].on : link'[l].code # link[l].code => link[l].code = job[r].old]_vars
================================================================================
