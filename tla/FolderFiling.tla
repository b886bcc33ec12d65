----------------------------- MODULE FolderFiling -----------------------------
(***************************************************************************)
(* Links and the folders of the workspaces they belong to: filing by one   *)
(* and in bulk with its undo, moving a link to another workspace, cloning  *)
(* it, handing it over, and deleting or restricting a folder.              *)
(*                                                                         *)
(* A request reads in one step and writes in a later one, and requests run *)
(* side by side.  Roles stay as they are; WorkspaceMembers is about how    *)
(* they change.                                                            *)
(***************************************************************************)
EXTENDS Naturals, FiniteSets

CONSTANTS
    Users, Workspaces, Folders, Links, Requests,
    Home,       \* each folder's workspace
    RoleIn,     \* RoleIn[u][w]: "admin" (or owner), "editor" or "none"
    Granted     \* <<user, folder>>: an editor grant on it, should it be restricted

None == "none"

VARIABLES
    folder,   \* per folder: exists, restricted
    link,     \* per link: whether it exists, its workspace, folder and creator
    edits,    \* the audit of the last bulk edit, per link: folder before and after,
              \* whose edit, and the workspace it was decided for
    overtaken,   \* links that a request filed although they had moved to another
                 \* workspace since it, or the edit it undoes, read them; and their clones
    job

vars == <<folder, link, edits, overtaken, job>>

Idle == [op |-> "idle"]
NoLink == [exists |-> FALSE, ws |-> None, folder |-> None, by |-> None]
Live == {l \in Links : link[l].exists}
In(f) == {l \in Live : link[l].folder = f}

Init ==
    /\ folder \in [Folders -> [exists : {TRUE}, restricted : BOOLEAN]]
    /\ \E w \in Workspaces, u \in Users, first \in Links :
        link = [l \in Links |-> IF l = first THEN [exists |-> TRUE, ws |-> w, folder |-> None, by |-> u] ELSE NoLink]
    /\ edits = [l \in {} |-> None]
    /\ overtaken = {}
    /\ job = [r \in Requests |-> Idle]

\* folders.ts: a member's effective role within a folder, and on a link.
Role(u, w) == IF w = None THEN "none" ELSE RoleIn[u][w]
RoleWithin(u, w, f) ==
    IF f = None \/ Role(u, w) = "admin" THEN Role(u, w)
    ELSE IF ~folder[f].exists \/ ~folder[f].restricted \/ <<u, f>> \in Granted THEN Role(u, w) ELSE "none"
Edits(role) == role \in {"admin", "editor"}
\* visibleUrlWhere.
Sees(u, l) ==
    \/ link[l].by = u
    \/ Role(u, link[l].ws) # "none" /\ RoleWithin(u, link[l].ws, link[l].folder) # "none"
Manages(u, l) == l \in Live /\ (link[l].by = u \/ Edits(RoleWithin(u, link[l].ws, link[l].folder)))
Fileable(u, w, f) == folder[f].exists /\ Home[f] = w /\ Edits(RoleWithin(u, w, f))

\* The requests that may begin.
Free == {r \in Requests : job[r] = Idle}
Begin(r, request) ==
    /\ r \in Free
    /\ job' = [job EXCEPT ![r] = request]
    /\ UNCHANGED <<folder, link, edits, overtaken>>
Finish(r) == job' = [job EXCEPT ![r] = Idle]

\* The links of S are filed by a request that took them to be in the workspaces ws.
Files(S, ws) == overtaken' = overtaken \cup {l \in S : link[l].ws # ws[l]}

\* The foreign key of urls.folderId.
Valid(f) == f = None \/ folder[f].exists

(***************************************************************************)
(* One link into a folder, or out of it.                                   *)
(***************************************************************************)
File(r, u, l, f) ==
    LET now == link[l].folder IN
    /\ Manages(u, l) /\ link[l].ws # None /\ f # now
    /\ Role(u, link[l].ws) # "none"
    /\ f # None => Fileable(u, link[l].ws, f)
    /\ now # None /\ folder[now].restricted /\ Role(u, link[l].ws) # "admin"
       => f # None /\ folder[f].restricted
    /\ Begin(r, [op |-> "file", on |-> l, from |-> now, to |-> f, ws |-> [k \in {l} |-> link[k].ws]])

WriteFile(r) ==
    LET j == job[r] IN
    /\ j.op = "file"
    /\ IF link[j.on].folder = j.from /\ Valid(j.to)
       THEN link' = [link EXCEPT ![j.on].folder = j.to] /\ Files({j.on}, j.ws)
       ELSE UNCHANGED <<link, overtaken>>
    /\ Finish(r) /\ UNCHANGED <<folder, edits>>

(***************************************************************************)
(* Several: one transaction, with an audit of what each link had and got.  *)
(***************************************************************************)
BulkFile(r, u, S, f) ==
    /\ S # {} /\ S \subseteq {l \in Live : Sees(u, l)}
    /\ \A l \in S : IF link[l].ws = None THEN link[l].by = u ELSE Edits(Role(u, link[l].ws))
    /\ f # None => \E w \in Workspaces : (\A l \in S : link[l].ws = w) /\ Fileable(u, w, f)
    /\ LET changed == {l \in S : link[l].folder # f} IN
       /\ changed # {}
       /\ Begin(r, [op |-> "bulk", by |-> u, to |-> f, from |-> [l \in changed |-> link[l].folder],
                     ws |-> [l \in changed |-> link[l].ws]])

WriteBulk(r) ==
    LET j == job[r] S == DOMAIN j.from IN
    /\ j.op = "bulk"
    /\ IF Valid(j.to)
       THEN /\ link' = [l \in Links |-> IF l \in S THEN [link[l] EXCEPT !.folder = j.to] ELSE link[l]]
            /\ edits' = [l \in S |-> [before |-> j.from[l], after |-> j.to, by |-> j.by, ws |-> j.ws[l]]]
            /\ Files(S, j.ws)
       ELSE UNCHANGED <<link, edits, overtaken>>
    /\ Finish(r) /\ UNCHANGED folder

\* planUndo: only where the link still holds the folder the edit gave it.
Undo(r, u) ==
    LET S == {l \in DOMAIN edits : edits[l].by = u /\ Sees(u, l) /\ link[l].folder = edits[l].after} IN
    /\ S # {}
    /\ Begin(r, [op |-> "undo", back |-> [l \in S |-> edits[l].before], ws |-> [l \in S |-> edits[l].ws]])

WriteUndo(r) ==
    LET j == job[r] S == DOMAIN j.back IN
    /\ j.op = "undo"
    /\ IF \A l \in S : Valid(j.back[l])
       THEN /\ link' = [l \in Links |-> IF l \in S THEN [link[l] EXCEPT !.folder = j.back[l]] ELSE link[l]]
            /\ edits' = [l \in {} |-> None]
            /\ Files(S, j.ws)
       ELSE UNCHANGED <<link, edits, overtaken>>
    /\ Finish(r) /\ UNCHANGED folder

(***************************************************************************)
(* moveLink, cloneLink and the creation of a link in a folder.             *)
(***************************************************************************)
Move(r, u, l, w) ==
    /\ Manages(u, l) /\ w # link[l].ws
    /\ IF w = None THEN link[l].by = u ELSE Edits(Role(u, w))
    /\ link[l].by = u \/ Edits(Role(u, link[l].ws))
    /\ Begin(r, [op |-> "move", on |-> l, to |-> w])

KeepFolder(l, w) == [link EXCEPT ![l].ws = w]
MovedTo(l, w) == [link EXCEPT ![l].ws = w, ![l].folder = None]
WriteMove(r) ==
    LET j == job[r] IN
    /\ j.op = "move"
    /\ link' = MovedTo(j.on, j.to)
    /\ Finish(r) /\ UNCHANGED <<folder, edits, overtaken>>

Clone(r, u, l) ==
    /\ Manages(u, l)
    /\ Begin(r, [op |-> "create", ws |-> link[l].ws, folder |-> link[l].folder, by |-> link[l].by, of |-> {l}])

CreateIn(r, u, w, f) ==
    /\ Edits(Role(u, w)) /\ (f # None => Fileable(u, w, f))
    /\ Begin(r, [op |-> "create", ws |-> w, folder |-> f, by |-> u, of |-> {}])

WriteCreate(r, l) ==
    LET j == job[r] IN
    /\ j.op = "create" /\ l \notin Live
    /\ IF Valid(j.folder)
       THEN /\ link' = [link EXCEPT ![l] = [exists |-> TRUE, ws |-> j.ws, folder |-> j.folder, by |-> j.by]]
            /\ overtaken' = IF j.of \cap overtaken # {} THEN overtaken \cup {l} ELSE overtaken
       ELSE UNCHANGED <<link, overtaken>>
    /\ Finish(r) /\ UNCHANGED <<folder, edits>>

\* reassignLinks: one statement over the workspace; roles do not change here.
Reassign(a, w, from, to) ==
    /\ Role(a, w) = "admin" /\ from # to /\ Edits(Role(to, w))
    /\ link' = [l \in Links |-> IF link[l].exists /\ link[l].ws = w /\ link[l].by = from
                                THEN [link[l] EXCEPT !.by = to] ELSE link[l]]
    /\ UNCHANGED <<folder, edits, overtaken, job>>

(***************************************************************************)
(* The folder itself.                                                      *)
(***************************************************************************)
\* Deleting a restricted folder that holds links takes ?exposeLinks=true.
DeleteFolder(r, u, f, expose) ==
    /\ folder[f].exists /\ Role(u, Home[f]) = "admin"
    /\ folder[f].restricted /\ ~expose => In(f) = {}
    /\ Begin(r, [op |-> "delete", folder |-> f, expose |-> expose])

WriteDelete(r) ==
    LET f == job[r].folder IN
    /\ job[r].op = "delete"
    /\ IF folder[f].exists
       THEN /\ folder' = [folder EXCEPT ![f] = [exists |-> FALSE, restricted |-> FALSE]]
            /\ link' = [l \in Links |-> IF link[l].folder = f THEN [link[l] EXCEPT !.folder = None] ELSE link[l]]
       ELSE UNCHANGED <<folder, link>>
    /\ Finish(r) /\ UNCHANGED <<edits, overtaken>>

Restrict(u, f, restricted) ==
    /\ folder[f].exists /\ Role(u, Home[f]) = "admin"
    /\ folder' = [folder EXCEPT ![f].restricted = restricted]
    /\ UNCHANGED <<link, edits, overtaken, job>>

Next ==
    \/ \E r \in Free, u \in Users :
        \/ \E l \in Links, f \in Folders \cup {None} : File(r, u, l, f)
        \/ \E l \in Links, w \in Workspaces \cup {None} : Move(r, u, l, w)
        \/ \E l \in Links : Clone(r, u, l)
        \/ \E S \in SUBSET Links, f \in Folders \cup {None} : BulkFile(r, u, S, f)
        \/ Undo(r, u)
        \/ \E w \in Workspaces, f \in Folders \cup {None} : CreateIn(r, u, w, f)
        \/ \E f \in Folders, expose \in BOOLEAN : DeleteFolder(r, u, f, expose)
    \/ \E r \in Requests, l \in Links : WriteCreate(r, l)
    \/ \E r \in Requests :
        WriteFile(r) \/ WriteBulk(r) \/ WriteUndo(r) \/ WriteMove(r) \/ WriteDelete(r)
    \/ \E a, from, to \in Users, w \in Workspaces : Reassign(a, w, from, to)
    \/ \E u \in Users, f \in Folders, restricted \in BOOLEAN : Restrict(u, f, restricted)

Spec == Init /\ [][Next]_vars

(***************************************************************************)
(* Properties.                                                             *)
(***************************************************************************)
TypeOK ==
    /\ folder \in [Folders -> [exists : BOOLEAN, restricted : BOOLEAN]]
    /\ link \in [Links -> [exists : BOOLEAN, ws : Workspaces \cup {None},
                           folder : Folders \cup {None}, by : Users \cup {None}]]

\* link-move.ts:7: a folder belongs to a workspace, so a link is filed only in
\* folders of its own, and in none that was deleted meanwhile; whatever overlaps,
\* except by a request that the move of the link has overtaken.
FolderInWorkspace ==
    /\ TypeOK
    /\ \A l \in Live : link[l].folder # None =>
         /\ folder[link[l].folder].exists
         /\ l \in overtaken \/ Home[link[l].folder] = link[l].ws

(***************************************************************************)
(* Stronger claims, which the code does not keep.  No run checks them; the  *)
(* README names, for each, the constants under which TLC refutes it.       *)
(***************************************************************************)
\* link-move.ts:7, of every link: neither the filing of one link nor that of several
\* looks at its workspace again, nor does undoing a bulk edit.
NeverMisfiled == \A l \in Live : link[l].folder # None => Home[link[l].folder] = link[l].ws

\* folders/[folderId]/route.ts:103: deleting a restricted folder "would expose its
\* links to the whole workspace", so it takes the caller's word; but the links are
\* counted before, and others are filed into it meanwhile.
NothingExposedUnasked == [][\A r \in Requests :
    job[r].op = "delete" /\ job'[r] = Idle /\ ~job[r].expose /\ folder[job[r].folder].restricted
      => In(job[r].folder) = {}]_vars

\* bulk-edit-undo.ts: what was filed away comes back, unless it changed since.
UndoRestores == [][\A r \in Requests : job[r].op = "undo" /\ job'[r] = Idle =>
                     \A l \in DOMAIN job[r].back : link'[l].folder = job[r].back[l]]_vars
================================================================================
