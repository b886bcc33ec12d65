----------------------------- MODULE BenchProofs -----------------------------
(***************************************************************************)
(* Proofs about components that the runs links and accounts explore side   *)
(* by side, for any rows, requests and users: the life of a link, the      *)
(* members of a workspace, publication at the edge, releases of a          *)
(* campaign, signing in, folders, the health of destinations, edits.  Each *)
(* component is an instance with variables of its own.                     *)
(***************************************************************************)
EXTENDS Integers, Sequences, FiniteSetTheorems, TLAPS

CONSTANTS
    Links, Codes, Requests, Reserved, MaxTries, Window, Horizon, CalmBoundary,
    Users, MaxJoins, Invitable, Managed,
    MaxEdits, MaxSnapshots, MaxSends, MaxFailures,
    Variants, Proposers, Control, RoleOf, Weights, MaxVersion, MindsChange,
    Sessions, Tokens, MaxStep, MaxSecrets, MaxBatches, MaxChanges, Dies, Alone,
    Workspaces, Folders, Home, RoleIn, Granted,
    Runs, Presses, Take, FailureThreshold, SuccessThreshold, Most, MaxEvents,
    Dests, Untagged, Tagged, Caps, Templates, MayRelease, NoRev

VARIABLES link, renames, job, today
VARIABLES role, seat, grants, invite, identity, crossed, late, errand
VARIABLES campaign, experiment, release, vote, turn
VARIABLES route, snapshots, lock, publication, cron, replica, edge, told, sends, failures
VARIABLES user, recovery, issued, session, token, attempt, factors, spared, twin, clock
VARIABLES folder, filed, edits, overtaken, filing
VARIABLES site, active, checked, health, rule, routed, sweep, press, failed, clashed, events
VARIABLES table, latest, stamps, passed, work, bulks, updates, undone, released, reverted, raced,
          misreported

Life == INSTANCE LinkLifecycle
Team == INSTANCE WorkspaceMembers WITH job <- errand
Campaigns == INSTANCE CampaignReleases WITH job <- turn
Edge == INSTANCE EdgeRouting WITH link <- route, job <- publication
Access == INSTANCE SignIn WITH job <- attempt, accepted <- factors, now <- clock
Filing == INSTANCE FolderFiling WITH link <- filed, job <- filing
Health == INSTANCE DestinationHealth
Editing == INSTANCE LinkEditing WITH
    Releases <- MayRelease, row <- table, clock <- stamps, today <- passed, job <- work, events <- bulks

(***************************************************************************)
(* The life of a link.                                                     *)
(***************************************************************************)
\* The window is of at least a day, and "none" is no code.
LifeSetting ==
    /\ Window \in Nat \ {0} /\ Horizon \in Nat
    /\ Life!None \notin Codes /\ Reserved \subseteq Codes

Rows == [state : Life!States, code : Codes \cup {Life!None}, since : 0..Horizon, owned : BOOLEAN]

\* A row that exists has a code.
Coded == \A l \in Links : Life!Exists(l) => link[l].code \in Codes

WriteOps == {"trash", "bulk_trash", "erase", "restore", "restore_all", "empty", "purge"}

\* What a request carries from its read to its write.
JobOK(r) ==
    \/ job[r] \in {Life!Idle, Life!Done}
    \/ /\ job[r].op = "create" /\ job[r].owned \in BOOLEAN
    \/ /\ job[r].op \in {"rename", "revert"} /\ job[r].on \subseteq Links
       /\ job[r].code \in Codes /\ job[r].old \in Codes
    \/ /\ job[r].op \in WriteOps /\ job[r].on \subseteq Links /\ job[r].now \in 0..today

Unique == \A l, k \in Links :
    Life!Exists(l) /\ Life!Exists(k) /\ link[l].code = link[k].code => l = k

Jobs == job = [r \in Requests |-> job[r]] /\ \A r \in Requests : JobOK(r)
LifeInv == Life!TypeOK /\ Coded /\ Jobs /\ Unique

LEMMA OpsDiffer == Life!Idle.op = "idle" /\ Life!Done.op = "done" /\ Life!Idle # Life!Done
BY DEF Life!Idle, Life!Done

\* A request that reads changes no row.
LEMMA BeginLife ==
    ASSUME LifeInv, NEW r \in Requests, NEW request, Life!Begin(r, request),
           \/ request.op = "create" /\ request.owned \in BOOLEAN
           \/ /\ request.op \in {"rename", "revert"} /\ request.on \subseteq Links
              /\ request.code \in Codes /\ request.old \in Codes
           \/ /\ request.op \in WriteOps /\ request.on \subseteq Links /\ request.now \in 0..today
    PROVE  LifeInv'
<1>1. UNCHANGED <<link, renames, today>> /\ job' = [job EXCEPT ![r] = request]
  BY DEF Life!Begin
<1>2. Life!TypeOK' /\ Coded' /\ Unique'
  BY <1>1 DEF LifeInv, Life!TypeOK, Coded, Unique, Life!Exists
<1>3. ASSUME NEW q \in Requests
      PROVE  JobOK(q)'
  <2>1. JobOK(q) /\ job'[q] = IF q = r THEN request ELSE job[q]
    BY <1>1 DEF LifeInv, Jobs
  <2> QED BY <1>1, <2>1 DEF JobOK
<1>4. job' = [q \in Requests |-> job'[q]]
  BY <1>1 DEF LifeInv, Jobs
<1> QED BY <1>2, <1>3, <1>4 DEF LifeInv, Jobs

\* A request that has written carries nothing any more.
LEMMA FinishLife ==
    ASSUME Jobs, NEW r \in Requests, Life!Finish(r)
    PROVE  Jobs'
<1>1. today' = today /\ job' = [job EXCEPT ![r] = Life!Done]
  BY DEF Life!Finish
<1>2. ASSUME NEW q \in Requests
      PROVE  JobOK(q)'
  <2>1. JobOK(q) /\ job'[q] = IF q = r THEN Life!Done ELSE job[q]
    BY <1>1 DEF Jobs
  <2> QED BY <1>1, <2>1 DEF JobOK
<1>3. job' = [q \in Requests |-> job'[q]]
  BY <1>1 DEF Jobs
<1> QED BY <1>2, <1>3 DEF Jobs

\* Rows that exist change their state, and keep their codes.
LEMMA PutLife ==
    ASSUME LifeSetting, LifeInv, NEW S \in SUBSET Links, NEW state \in Life!States,
           NEW since \in 0..Horizon, Life!Put(S, state, since),
           \A l \in S : Life!Exists(l)
    PROVE  /\ link' \in [Links -> Rows] /\ Coded' /\ Unique'
           /\ \A l \in Links : Life!Exists(l)' => Life!Exists(l)
<1>1. link \in [Links -> Rows]
  BY DEF LifeInv, Life!TypeOK, Rows
<1>2. \A l \in Links :
        link'[l] = IF l \in S THEN [link[l] EXCEPT !.state = state, !.since = since] ELSE link[l]
  BY DEF Life!Put
<1>3. \A l \in Links : link'[l] \in Rows /\ link'[l].code = link[l].code
  BY <1>1, <1>2 DEF Rows
<1>4. \A l \in Links : Life!Exists(l)' => Life!Exists(l)
  BY <1>1, <1>2 DEF Life!Exists
<1>5. link' \in [Links -> Rows]
  BY <1>3 DEF Life!Put
<1> QED BY <1>3, <1>4, <1>5 DEF LifeInv, Coded, Unique

LEMMA PutKeepsLife ==
    ASSUME LifeSetting, LifeInv, NEW r \in Requests, NEW S \in SUBSET Links,
           NEW state \in Life!States, NEW since \in 0..Horizon, Life!Put(S, state, since),
           \A l \in S : Life!Exists(l), Life!Finish(r), renames' = renames
    PROVE  LifeInv'
<1>1. link' \in [Links -> Rows] /\ Coded' /\ Unique'
  BY PutLife
<1>2. Jobs' /\ today' = today
  BY FinishLife DEF LifeInv, Life!Finish
<1>3. Life!TypeOK'
  BY <1>1, <1>2 DEF LifeInv, Life!TypeOK, Rows
<1> QED BY <1>1, <1>2, <1>3 DEF LifeInv

\* The reads: what each carries to its write.
LEMMA ReadsKeepLife ==
    ASSUME LifeSetting, LifeInv, NEW r \in Requests,
           \/ \E c \in Codes \cup {Life!None}, owned \in BOOLEAN :
                Life!Shorten(r, c, owned) \/ \E l \in Links : Life!Clone(r, l, c, owned)
           \/ \E l \in Links, c \in Codes \cup {Life!None} : Life!Rename(r, l, c)
           \/ \E e \in renames : Life!Revert(r, e)
           \/ \E l \in Links : Life!Delete(r, l) \/ Life!DeleteForGood(r, l) \/ Life!Restore(r, l)
           \/ Life!BulkTrash(r) \/ Life!RestoreAll(r) \/ Life!EmptyTrash(r) \/ Life!PurgeExpired(r)
    PROVE  LifeInv'
<1>1. today \in Nat /\ today \in 0..today /\ link \in [Links -> Rows]
  BY DEF LifeInv, Life!TypeOK, LifeSetting, Rows
<1>2. ASSUME NEW c, NEW owned \in BOOLEAN, Life!Shorten(r, c, owned)
      PROVE  LifeInv'
  <2> DEFINE request == [op |-> "create", code |-> c, owned |-> owned, tries |-> 0]
  <2>1. Life!Begin(r, request) /\ request.op = "create" /\ request.owned \in BOOLEAN
    BY <1>2 DEF Life!Shorten
  <2> QED BY <2>1, BeginLife
<1>3. ASSUME NEW c, NEW owned \in BOOLEAN, NEW l \in Links, Life!Clone(r, l, c, owned)
      PROVE  LifeInv'
  <2>1. PICK request : Life!Begin(r, request) /\ request.op = "create" /\ request.owned \in BOOLEAN
    BY <1>1, <1>3 DEF Life!Clone, Rows
  <2> QED BY <2>1, BeginLife
<1>4. ASSUME NEW l \in Links, NEW c, Life!Rename(r, l, c)
      PROVE  LifeInv'
  <2>1. link[l].code \in Codes
    BY <1>4 DEF Life!Rename, Life!Live, Life!Exists, LifeInv, Coded
  <2>2. PICK request : /\ Life!Begin(r, request)
                       /\ request.op = "rename" /\ request.on = {l}
                       /\ request.code \in Codes /\ request.old \in Codes
    BY <1>4, <2>1 DEF Life!Rename
  <2>3. request.on \subseteq Links
    BY <2>2
  <2> QED BY <2>2, <2>3, BeginLife
<1>5. ASSUME NEW e \in renames, Life!Revert(r, e)
      PROVE  LifeInv'
  <2>1. e.on \in Links /\ e.before \in Codes /\ e.after \in Codes
    BY DEF LifeInv, Life!TypeOK
  <2>2. PICK request : /\ Life!Begin(r, request)
                       /\ request.op = "revert" /\ request.on = {e.on}
                       /\ request.code \in Codes /\ request.old \in Codes
    BY <1>5, <2>1 DEF Life!Revert
  <2>3. request.on \subseteq Links
    BY <2>1, <2>2
  <2> QED BY <2>2, <2>3, BeginLife
<1>6. ASSUME NEW op \in WriteOps, NEW S \in SUBSET Links,
             Life!Begin(r, [op |-> op, on |-> S, now |-> today])
      PROVE  LifeInv'
  <2>1. PICK request : /\ Life!Begin(r, request)
                       /\ request.op \in WriteOps /\ request.on \subseteq Links /\ request.now \in 0..today
    BY <1>1, <1>6
  <2> QED BY <2>1, BeginLife
<1>7. ASSUME NEW l \in Links, Life!Delete(r, l) \/ Life!DeleteForGood(r, l) \/ Life!Restore(r, l)
      PROVE  LifeInv'
  <2>1. {l} \in SUBSET Links /\ "trash" \in WriteOps /\ "erase" \in WriteOps /\ "restore" \in WriteOps
    BY DEF WriteOps
  <2> QED BY <1>6, <1>7, <2>1 DEF Life!Delete, Life!DeleteForGood, Life!Restore
<1>8. ASSUME Life!BulkTrash(r) \/ Life!RestoreAll(r) \/ Life!EmptyTrash(r) \/ Life!PurgeExpired(r)
      PROVE  LifeInv'
  <2>1. PICK op \in WriteOps, S \in SUBSET Links : Life!Select(r, op, S)
    BY <1>8 DEF Life!BulkTrash, Life!RestoreAll, Life!EmptyTrash, Life!PurgeExpired, WriteOps
  <2> QED BY <1>6, <2>1 DEF Life!Select
<1> QED BY <1>2, <1>3, <1>4, <1>5, <1>7, <1>8

\* The unique index refuses what is taken, whoever holds it and wherever.
LEMMA InsertKeepsLife ==
    ASSUME LifeSetting, LifeInv, NEW r \in Requests, NEW l \in Links,
           NEW c \in Codes \cup {Life!None}, Life!Insert(r, l, c)
    PROVE  LifeInv'
<1>1. /\ link \in [Links -> Rows] /\ Jobs /\ JobOK(r) /\ Coded /\ Unique
      /\ job[r].op = "create" /\ link[l].state = "absent" /\ c \in Codes /\ renames' = renames
      /\ today' = today /\ 0 \in 0..Horizon
  BY DEF LifeInv, Life!TypeOK, Rows, Jobs, Life!Insert, Life!Finish, LifeSetting
<1>2. CASE UNCHANGED link /\ job' = [job EXCEPT ![r].tries = @ + 1]
  <2>1. ASSUME NEW q \in Requests
        PROVE  JobOK(q)'
    <3>1. job[r] \notin {Life!Idle, Life!Done} /\ job[r].owned \in BOOLEAN
      BY <1>1, OpsDiffer DEF JobOK, WriteOps
    <3>2. CASE q = r
      <4>1. job'[r] = [job[r] EXCEPT !.tries = job[r].tries + 1]
        BY <1>1, <1>2 DEF Jobs
      <4>2. job'[r].op = "create" /\ job'[r].owned \in BOOLEAN
        BY <1>1, <3>1, <4>1
      <4> QED BY <3>2, <4>2 DEF JobOK
    <3>3. CASE q # r
      <4>1. JobOK(q) /\ job'[q] = job[q]
        BY <1>1, <1>2, <3>3 DEF Jobs
      <4> QED BY <1>1, <4>1 DEF JobOK
    <3> QED BY <3>2, <3>3
  <2>2. job' = [q \in Requests |-> job'[q]]
    BY <1>1, <1>2 DEF Jobs
  <2>3. Life!TypeOK' /\ Coded' /\ Unique'
    BY <1>1, <1>2 DEF LifeInv, Life!TypeOK, Coded, Unique, Life!Exists
  <2> QED BY <2>1, <2>2, <2>3 DEF LifeInv, Jobs
<1>3. CASE UNCHANGED link /\ job' = [job EXCEPT ![r] = Life!Done]
  <2>1. Jobs'
    BY <1>1, <1>3, FinishLife DEF Life!Finish
  <2>2. Life!TypeOK' /\ Coded' /\ Unique'
    BY <1>1, <1>3 DEF LifeInv, Life!TypeOK, Coded, Unique, Life!Exists
  <2> QED BY <2>1, <2>2 DEF LifeInv
<1>4. CASE /\ ~Life!Taken(c, l) /\ Life!Finish(r)
           /\ link' = [link EXCEPT ![l] =
                [state |-> "live", code |-> c, since |-> 0, owned |-> job[r].owned]]
  <2>1. job[r].owned \in BOOLEAN
    BY <1>1, OpsDiffer DEF JobOK, WriteOps
  <2>2. [state |-> "live", code |-> c, since |-> 0, owned |-> job[r].owned] \in Rows
    BY <1>1, <2>1 DEF Rows, Life!States
  <2>3. /\ link' \in [Links -> Rows] /\ link'[l].code = c
        /\ \A k \in Links \ {l} : link'[k] = link[k]
    BY <1>1, <1>4, <2>2
  <2>4. Coded'
    BY <1>1, <2>3 DEF Coded, Life!Exists
  <2>5. Unique'
    BY <1>1, <1>4, <2>3 DEF Unique, Life!Exists, Life!Taken
  <2>6. Life!TypeOK'
    BY <1>1, <2>3 DEF LifeInv, Life!TypeOK, Rows
  <2> QED BY <1>1, <1>4, <2>4, <2>5, <2>6, FinishLife DEF LifeInv
<1> QED BY <1>2, <1>3, <1>4 DEF Life!Insert

LEMMA WriteCodeKeepsLife ==
    ASSUME LifeSetting, LifeInv, NEW r \in Requests, NEW l \in Links, Life!WriteCode(r, l)
    PROVE  LifeInv'
<1>1. /\ link \in [Links -> Rows] /\ Jobs /\ JobOK(r) /\ Coded /\ Unique
      /\ job[r].op \in {"rename", "revert"} /\ Life!Finish(r) /\ today' = today
  BY DEF LifeInv, Life!TypeOK, Rows, Jobs, Life!WriteCode, Life!Finish
<1>2. job[r].code \in Codes /\ job[r].old \in Codes
  BY <1>1, OpsDiffer DEF JobOK, WriteOps
<1>3. Jobs'
  BY <1>1, FinishLife
<1>4. renames' \subseteq [on : Links, before : Codes, after : Codes]
  BY <1>2 DEF Life!WriteCode, LifeInv, Life!TypeOK
<1>5. CASE UNCHANGED link
  BY <1>1, <1>3, <1>4, <1>5 DEF LifeInv, Life!TypeOK, Coded, Unique, Life!Exists
<1>6. CASE /\ Life!Exists(l) /\ ~Life!Taken(job[r].code, l)
           /\ link' = [link EXCEPT ![l].code = job[r].code]
  <2>1. /\ link' \in [Links -> Rows] /\ link'[l].code = job[r].code
        /\ link'[l].state = link[l].state
        /\ \A k \in Links \ {l} : link'[k] = link[k]
    BY <1>1, <1>2, <1>6 DEF Rows
  <2>2. Coded'
    BY <1>1, <1>2, <2>1 DEF Coded, Life!Exists
  <2>3. Unique'
    BY <1>1, <1>6, <2>1 DEF Unique, Life!Exists, Life!Taken
  <2>4. Life!TypeOK'
    BY <1>1, <1>4, <2>1 DEF LifeInv, Life!TypeOK, Rows
  <2> QED BY <1>3, <2>2, <2>3, <2>4 DEF LifeInv
<1> QED BY <1>5, <1>6 DEF Life!WriteCode

\* The writes by id, each of which puts existing rows into one state.
LEMMA WritesAreOfExisting ==
    ASSUME LifeSetting, LifeInv, NEW r \in Requests,
           \/ Life!WriteTrash(r) \/ Life!WriteBulkTrash(r) \/ Life!WriteErase(r)
           \/ Life!WriteRestore(r) \/ Life!WriteRestoreAll(r)
           \/ Life!WriteEmpty(r) \/ Life!WritePurge(r)
    PROVE  LifeInv'
<1>1. /\ job[r].op \in WriteOps /\ job[r].on \subseteq Links /\ job[r].now \in 0..Horizon
      /\ 0 \in 0..Horizon
  <2>1. JobOK(r) /\ job[r].op \in WriteOps /\ today \in 0..Horizon /\ Horizon \in Nat
    BY DEF LifeInv, Jobs, Life!TypeOK, LifeSetting, WriteOps, Life!WriteTrash, Life!WriteBulkTrash,
           Life!WriteErase, Life!WriteRestore, Life!WriteRestoreAll, Life!WriteEmpty, Life!WritePurge
  <2>2. job[r].on \subseteq Links /\ job[r].now \in 0..today
    BY <2>1, OpsDiffer DEF JobOK, WriteOps
  <2> QED BY <2>1, <2>2
<1>2. Life!Finish(r) /\ renames' = renames
  BY DEF Life!WriteTrash, Life!WriteBulkTrash, Life!WriteErase, Life!WriteRestore,
         Life!WriteRestoreAll, Life!WriteEmpty, Life!WritePurge
<1>3. "live" \in Life!States /\ "trashed" \in Life!States /\ "erased" \in Life!States
  BY DEF Life!States
<1>4. CASE Life!WriteTrash(r)
  <2>1. PICK S \in SUBSET Links :
          Life!Put(S, "trashed", job[r].now) /\ \A l \in S : Life!Exists(l)
    BY <1>1, <1>4 DEF Life!WriteTrash, Life!Live, Life!Exists
  <2> QED BY <1>1, <1>2, <1>3, <2>1, PutKeepsLife
<1>5. CASE Life!WriteBulkTrash(r)
  <2>1. PICK S \in SUBSET Links :
          Life!Put(S, "trashed", job[r].now) /\ \A l \in S : Life!Exists(l)
    <3>1. CASE \A l \in job[r].on : Life!Exists(l)
      BY <1>1, <1>5, <3>1 DEF Life!WriteBulkTrash
    <3>2. CASE ~\A l \in job[r].on : Life!Exists(l)
      <4>1. Life!Put({}, "trashed", job[r].now)
        BY <1>5, <3>2 DEF Life!WriteBulkTrash
      <4> QED BY <4>1
    <3> QED BY <3>1, <3>2
  <2> QED BY <1>1, <1>2, <1>3, <2>1, PutKeepsLife
<1>6. CASE Life!WriteErase(r) \/ Life!WriteEmpty(r) \/ Life!WritePurge(r)
  <2>1. PICK S \in SUBSET Links :
          Life!Put(S, "erased", 0) /\ \A l \in S : Life!Exists(l)
    BY <1>1, <1>6 DEF Life!WriteErase, Life!WriteEmpty, Life!WritePurge, Life!Trashed, Life!Exists
  <2> QED BY <1>1, <1>2, <1>3, <2>1, PutKeepsLife
<1>7. CASE Life!WriteRestore(r) \/ Life!WriteRestoreAll(r)
  <2>1. PICK S \in SUBSET Links :
          Life!Put(S, "live", 0) /\ \A l \in S : Life!Exists(l)
    BY <1>1, <1>7 DEF Life!WriteRestore, Life!WriteRestoreAll, Life!Trashed, Life!Exists
  <2> QED BY <1>1, <1>2, <1>3, <2>1, PutKeepsLife
<1> QED BY <1>4, <1>5, <1>6, <1>7

LEMMA DayKeepsLife ==
    ASSUME LifeSetting, LifeInv, Life!DayPasses
    PROVE  LifeInv'
<1>1. /\ today \in Nat /\ today < Horizon /\ today' = today + 1 /\ UNCHANGED <<link, renames, job>>
  BY DEF LifeInv, Life!TypeOK, LifeSetting, Life!DayPasses
<1>2. ASSUME NEW q \in Requests
      PROVE  JobOK(q)'
  <2>1. JobOK(q) /\ job'[q] = job[q]
    BY <1>1 DEF LifeInv, Jobs
  <2> QED BY <1>1, <2>1 DEF JobOK
<1>3. Jobs'
  BY <1>1, <1>2 DEF LifeInv, Jobs
<1> QED BY <1>1, <1>3 DEF LifeInv, LifeSetting, Life!TypeOK, Coded, Unique, Life!Exists

LEMMA LifeStep == LifeSetting /\ LifeInv /\ [Life!Next]_Life!vars => LifeInv'
<1> SUFFICES ASSUME LifeSetting, LifeInv, [Life!Next]_Life!vars
             PROVE  LifeInv'
  OBVIOUS
<1>1. CASE UNCHANGED Life!vars
  <2>1. UNCHANGED <<link, renames, job, today>>
    BY <1>1 DEF Life!vars
  <2> QED BY <2>1 DEF LifeInv, Life!TypeOK, Coded, Jobs, JobOK, Unique, Life!Exists
<1>2. CASE Life!Next
  BY <1>2, ReadsKeepLife, InsertKeepsLife, WriteCodeKeepsLife, WritesAreOfExisting, DayKeepsLife
     DEF Life!Next
<1> QED BY <1>1, <1>2

LEMMA LifeStarts == LifeSetting /\ Life!Init => LifeInv
<1> SUFFICES ASSUME LifeSetting, Life!Init
             PROVE  LifeInv
  OBVIOUS
<1>1. PICK owned \in [Links -> BOOLEAN], code \in [Links -> Codes \cup {Life!None}] :
        /\ \A l, k \in Links : l # k /\ code[l] = code[k] => code[l] = Life!None
        /\ link = [l \in Links |->
             [state |-> IF code[l] = Life!None THEN "absent" ELSE "live",
              code |-> code[l], since |-> 0,
              owned |-> IF code[l] = Life!None THEN FALSE ELSE owned[l]]]
  BY DEF Life!Init
<1>2. renames = {} /\ job = [r \in Requests |-> Life!Idle] /\ today = 0 /\ 0 \in 0..Horizon
  BY DEF Life!Init, LifeSetting
<1>3. link \in [Links -> Rows]
  BY <1>1, <1>2 DEF Rows, Life!States
<1>4. \A l \in Links : Life!Exists(l) => link[l].code = code[l] /\ code[l] # Life!None
  BY <1>1 DEF Life!Exists
<1>5. Coded /\ Unique
  BY <1>1, <1>4 DEF Coded, Unique
<1>6. Jobs
  BY <1>2 DEF Jobs, JobOK
<1> QED BY <1>2, <1>3, <1>5, <1>6 DEF LifeInv, Life!TypeOK, Rows

\* A code that visitors follow, or that a link in the trash waits with, is one
\* link's: the unique index of urls.shortCode, which counts what is trashed, is
\* asked in the step that writes, whatever the request has read before.
THEOREM OneLinkPerCode == ASSUME LifeSetting PROVE Life!Spec => []Life!OneLinkPerCode
<1>1. Life!Init => LifeInv
  BY LifeStarts
<1>2. LifeInv /\ [Life!Next]_Life!vars => LifeInv'
  BY LifeStep
<1>3. LifeInv => Life!OneLinkPerCode
  BY DEF LifeInv, Unique, Life!OneLinkPerCode
<1> QED BY <1>1, <1>2, <1>3, PTL DEF Life!Spec

(***************************************************************************)
(* The retention window, in an instance where no request straddles         *)
(* midnight.  What a request has read holds until it writes: what          *)
(* PurgeExpired reads as expired stays so (or is erased), and what a bulk   *)
(* delete or a restore of everything reads has not expired.                *)
(***************************************************************************)
Old(l) == Life!Trashed(l) /\ ~Life!InWindow(l, today)
Erased(l) == link[l].state = "erased"

ReadToday(r) ==
    job[r].op \in WriteOps =>
      /\ job[r].now = today
      /\ job[r].op \in {"bulk_trash", "restore_all"} => \A l \in job[r].on : ~Old(l)
      /\ job[r].op = "purge" => \A l \in job[r].on : Old(l) \/ Erased(l)
PromiseInv == LifeInv /\ \A r \in Requests : ReadToday(r)

\* What every step of the day leaves standing: no link gets old, and one that
\* is old or erased is not brought back.
SameDay ==
    /\ today' = today
    /\ \A l \in Links : /\ Old(l)' => Old(l)
                        /\ Old(l) => Old(l)' \/ Erased(l)'
                        /\ Erased(l) => Erased(l)'

LEMMA StaysRead ==
    ASSUME LifeInv, SameDay, NEW r \in Requests, ReadToday(r),
           job'[r] \in {job[r], Life!Done} \/ job'[r].op = "create"
    PROVE  ReadToday(r)'
<1>1. CASE job'[r] = Life!Done \/ job'[r].op = "create"
  BY <1>1, OpsDiffer DEF ReadToday, WriteOps
<1>2. CASE job'[r] = job[r]
  <2>1. job[r].op \in WriteOps => job[r].on \subseteq Links
    BY OpsDiffer DEF LifeInv, Jobs, JobOK, WriteOps
  <2> QED BY <1>2, <2>1 DEF ReadToday, SameDay
<1> QED BY <1>1, <1>2

\* A request that reads: nothing moves, and what it takes along is as it says.
LEMMA ReadsOfToday ==
    ASSUME LifeSetting, PromiseInv, NEW r \in Requests, NEW request, Life!Begin(r, request),
           request.op \in WriteOps =>
             /\ request.now = today
             /\ request.op \in {"bulk_trash", "restore_all"} => \A l \in request.on : ~Old(l)
             /\ request.op = "purge" => \A l \in request.on : Old(l) \/ Erased(l)
    PROVE  SameDay /\ \A q \in Requests : ReadToday(q)'
<1>1. UNCHANGED <<link, renames, today>> /\ job' = [job EXCEPT ![r] = request]
  BY DEF Life!Begin
<1>2. SameDay
  BY <1>1 DEF SameDay, Old, Erased, Life!Trashed, Life!InWindow
<1>3. ASSUME NEW q \in Requests
      PROVE  ReadToday(q)'
  <2>1. ReadToday(q) /\ job'[q] = IF q = r THEN request ELSE job[q]
    BY <1>1 DEF PromiseInv, LifeInv, Jobs
  <2>2. CASE q # r
    BY <1>2, <2>1, <2>2, StaysRead DEF PromiseInv
  <2>3. CASE q = r
    <3>1. \A l : (Old(l)' <=> Old(l)) /\ (Erased(l)' <=> Erased(l))
      BY <1>1 DEF Old, Erased, Life!Trashed, Life!InWindow
    <3> QED BY <1>1, <2>1, <2>3, <3>1 DEF ReadToday
  <2> QED BY <2>2, <2>3
<1> QED BY <1>2, <1>3

LEMMA ReadsKeepToday ==
    ASSUME LifeSetting, PromiseInv, NEW r \in Requests,
           \/ \E c \in Codes \cup {Life!None}, owned \in BOOLEAN :
                Life!Shorten(r, c, owned) \/ \E l \in Links : Life!Clone(r, l, c, owned)
           \/ \E l \in Links, c \in Codes \cup {Life!None} : Life!Rename(r, l, c)
           \/ \E e \in renames : Life!Revert(r, e)
           \/ \E l \in Links : Life!Delete(r, l) \/ Life!DeleteForGood(r, l) \/ Life!Restore(r, l)
           \/ Life!BulkTrash(r) \/ Life!RestoreAll(r) \/ Life!EmptyTrash(r) \/ Life!PurgeExpired(r)
    PROVE  SameDay /\ \A q \in Requests : ReadToday(q)'
<1>1. ASSUME NEW request, Life!Begin(r, request), request.op \in {"create", "rename", "revert"}
      PROVE  SameDay /\ \A q \in Requests : ReadToday(q)'
  <2>1. request.op \notin WriteOps
    BY <1>1 DEF WriteOps
  <2> QED BY <1>1, <2>1, ReadsOfToday
<1>2. ASSUME NEW op \in WriteOps, NEW S \in SUBSET Links,
             Life!Begin(r, [op |-> op, on |-> S, now |-> today]),
             op \in {"bulk_trash", "restore_all"} => \A l \in S : ~Old(l),
             op = "purge" => \A l \in S : Old(l)
      PROVE  SameDay /\ \A q \in Requests : ReadToday(q)'
  <2>1. PICK request : /\ Life!Begin(r, request)
                       /\ request.op = op /\ request.on = S /\ request.now = today
    BY <1>2
  <2> QED BY <1>2, <2>1, ReadsOfToday
<1>3. ASSUME NEW l \in Links, Life!Delete(r, l) \/ Life!DeleteForGood(r, l) \/ Life!Restore(r, l)
      PROVE  SameDay /\ \A q \in Requests : ReadToday(q)'
  <2>1. {l} \in SUBSET Links /\ "trash" \in WriteOps /\ "erase" \in WriteOps /\ "restore" \in WriteOps
    BY DEF WriteOps
  <2> QED BY <1>2, <1>3, <2>1 DEF Life!Delete, Life!DeleteForGood, Life!Restore
<1>4. CASE Life!BulkTrash(r)
  <2> DEFINE S == {l \in Links : Life!Live(l)}
  <2>1. Life!Begin(r, [op |-> "bulk_trash", on |-> S, now |-> today]) /\ S \in SUBSET Links
    BY <1>4 DEF Life!BulkTrash, Life!Select
  <2>2. \A l \in S : ~Old(l)
    BY DEF Life!Live, Life!Trashed, Old
  <2> HIDE DEF S
  <2> QED BY <1>2, <2>1, <2>2 DEF WriteOps
<1>5. CASE Life!RestoreAll(r)
  <2>1. PICK S \in SUBSET Links : /\ Life!Begin(r, [op |-> "restore_all", on |-> S, now |-> today])
                                  /\ \A l \in S : ~Old(l)
    BY <1>5 DEF Life!RestoreAll, Life!Select, Old
  <2> QED BY <1>2, <2>1 DEF WriteOps
<1>6. CASE Life!EmptyTrash(r)
  <2>1. PICK S \in SUBSET Links : Life!Begin(r, [op |-> "empty", on |-> S, now |-> today])
    BY <1>6 DEF Life!EmptyTrash, Life!Select
  <2> QED BY <1>2, <2>1 DEF WriteOps
<1>7. CASE Life!PurgeExpired(r)
  <2>1. PICK S \in SUBSET Links : /\ Life!Begin(r, [op |-> "purge", on |-> S, now |-> today])
                                  /\ \A l \in S : Old(l)
    BY <1>7 DEF Life!PurgeExpired, Life!Select, Old
  <2> QED BY <1>2, <2>1 DEF WriteOps
<1>8. ASSUME NEW c, NEW owned \in BOOLEAN,
             Life!Shorten(r, c, owned) \/ \E l \in Links : Life!Clone(r, l, c, owned)
      PROVE  SameDay /\ \A q \in Requests : ReadToday(q)'
  <2>1. PICK request : Life!Begin(r, request) /\ request.op = "create"
    <3>1. CASE Life!Shorten(r, c, owned)
      BY <3>1 DEF Life!Shorten
    <3>2. ASSUME NEW l \in Links, Life!Clone(r, l, c, owned)
          PROVE  \E request : Life!Begin(r, request) /\ request.op = "create"
      BY <3>2 DEF Life!Clone
    <3> QED BY <1>8, <3>1, <3>2
  <2> QED BY <1>1, <2>1
<1>9. ASSUME NEW l \in Links, NEW c, Life!Rename(r, l, c)
      PROVE  SameDay /\ \A q \in Requests : ReadToday(q)'
  <2>1. PICK request : Life!Begin(r, request) /\ request.op = "rename"
    BY <1>9 DEF Life!Rename
  <2> QED BY <1>1, <2>1
<1>10. ASSUME NEW e \in renames, Life!Revert(r, e)
       PROVE  SameDay /\ \A q \in Requests : ReadToday(q)'
  <2>1. PICK request : Life!Begin(r, request) /\ request.op = "revert"
    BY <1>10 DEF Life!Revert
  <2> QED BY <1>1, <2>1
<1> QED BY <1>3, <1>4, <1>5, <1>6, <1>7, <1>8, <1>9, <1>10

\* The writes: what is old may be erased, and nothing else.
LEMMA PutKeepsToday ==
    ASSUME LifeSetting, LifeInv, NEW r \in Requests, NEW S \in SUBSET Links,
           NEW state \in Life!States, NEW since \in 0..Horizon, Life!Put(S, state, since), Life!Finish(r),
           \A l \in S : Life!Exists(l),
           state # "erased" => \A l \in S : ~Old(l),
           state = "trashed" => since = today
    PROVE  SameDay
<1>1. \A l \in Links :
        /\ link[l] \in Rows
        /\ link'[l] = IF l \in S THEN [link[l] EXCEPT !.state = state, !.since = since] ELSE link[l]
  BY DEF Life!Put, LifeInv, Life!TypeOK, Rows
<1>2. today' = today /\ today \in Int /\ Window \in Nat \ {0}
  BY DEF Life!Finish, LifeInv, Life!TypeOK, LifeSetting
<1>3. ASSUME NEW l \in Links
      PROVE  /\ Old(l)' => Old(l)
             /\ Old(l) => Old(l)' \/ Erased(l)'
             /\ Erased(l) => Erased(l)'
  <2>1. CASE l \notin S
    BY <1>1, <1>2, <2>1 DEF Old, Erased, Life!Trashed, Life!InWindow
  <2>2. CASE l \in S
    <3>1. link'[l].state = state /\ link'[l].since = since /\ ~Erased(l)
      BY <1>1, <2>2 DEF Rows, Erased, Life!Exists
    <3>2. ~Old(l)'
      BY <1>2, <3>1 DEF Old, Life!Trashed, Life!InWindow
    <3>3. Old(l) => Erased(l)'
      BY <2>2, <3>1 DEF Erased
    <3> QED BY <3>1, <3>2, <3>3
  <2> QED BY <2>1, <2>2
<1> QED BY <1>2, <1>3 DEF SameDay

LEMMA WritesKeepToday ==
    ASSUME LifeSetting, PromiseInv, NEW r \in Requests,
           \/ Life!WriteTrash(r) \/ Life!WriteBulkTrash(r) \/ Life!WriteErase(r)
           \/ Life!WriteRestore(r) \/ Life!WriteRestoreAll(r)
           \/ Life!WriteEmpty(r) \/ Life!WritePurge(r)
    PROVE  SameDay
<1>1. LifeInv /\ ReadToday(r) /\ Life!Finish(r) /\ job[r].op \in WriteOps
  BY DEF PromiseInv, WriteOps, Life!WriteTrash, Life!WriteBulkTrash, Life!WriteErase, Life!WriteRestore,
         Life!WriteRestoreAll, Life!WriteEmpty, Life!WritePurge
<1>2. job[r].on \subseteq Links /\ job[r].now = today
  BY <1>1, OpsDiffer DEF LifeInv, Jobs, JobOK, WriteOps, ReadToday
<1>3. /\ "live" \in Life!States /\ "trashed" \in Life!States /\ "erased" \in Life!States
      /\ 0 \in 0..Horizon /\ today \in 0..Horizon
  BY <1>1 DEF Life!States, LifeSetting, LifeInv, Life!TypeOK
<1>4. CASE Life!WriteTrash(r)
  <2>1. PICK S \in SUBSET Links :
          /\ Life!Put(S, "trashed", today)
          /\ \A l \in S : Life!Exists(l) /\ ~Old(l)
    BY <1>2, <1>4 DEF Life!WriteTrash, Life!Live, Life!Exists, Old, Life!Trashed
  <2> QED BY <1>1, <1>3, <2>1, PutKeepsToday
<1>5. CASE Life!WriteBulkTrash(r)
  <2>1. PICK S \in SUBSET Links :
          /\ Life!Put(S, "trashed", today)
          /\ \A l \in S : Life!Exists(l) /\ ~Old(l)
    <3>1. \A l \in job[r].on : ~Old(l)
      BY <1>1, <1>5 DEF Life!WriteBulkTrash, ReadToday
    <3>2. CASE \A l \in job[r].on : Life!Exists(l)
      BY <1>2, <1>5, <3>1, <3>2 DEF Life!WriteBulkTrash
    <3>3. CASE ~\A l \in job[r].on : Life!Exists(l)
      <4>1. Life!Put({}, "trashed", today)
        BY <1>2, <1>5, <3>3 DEF Life!WriteBulkTrash
      <4> QED BY <4>1
    <3> QED BY <3>2, <3>3
  <2> QED BY <1>1, <1>3, <2>1, PutKeepsToday
<1>6. CASE Life!WriteErase(r) \/ Life!WriteEmpty(r) \/ Life!WritePurge(r)
  <2>1. PICK S \in SUBSET Links :
          Life!Put(S, "erased", 0) /\ \A l \in S : Life!Exists(l)
    BY <1>2, <1>6 DEF Life!WriteErase, Life!WriteEmpty, Life!WritePurge, Life!Trashed, Life!Exists
  <2> QED BY <1>1, <1>3, <2>1, PutKeepsToday
<1>7. CASE Life!WriteRestore(r)
  <2>1. PICK S \in SUBSET Links :
          Life!Put(S, "live", 0) /\ \A l \in S : Life!Exists(l) /\ ~Old(l)
    BY <1>2, <1>7 DEF Life!WriteRestore, Life!Trashed, Life!Exists, Old
  <2> QED BY <1>1, <1>3, <2>1, PutKeepsToday
<1>8. CASE Life!WriteRestoreAll(r)
  <2>1. PICK S \in SUBSET Links :
          Life!Put(S, "live", 0) /\ \A l \in S : Life!Exists(l) /\ ~Old(l)
    BY <1>1, <1>2, <1>8 DEF Life!WriteRestoreAll, Life!Trashed, Life!Exists, ReadToday
  <2> QED BY <1>1, <1>3, <2>1, PutKeepsToday
<1> QED BY <1>4, <1>5, <1>6, <1>7, <1>8

LEMMA InsertKeepsToday ==
    ASSUME LifeSetting, LifeInv, NEW r \in Requests, NEW l \in Links, NEW c, Life!Insert(r, l, c)
    PROVE  /\ SameDay
           /\ \A q \in Requests : job'[q] \in {job[q], Life!Done} \/ job'[q].op = "create"
<1>1. /\ link \in [Links -> Rows] /\ Jobs /\ job[r].op = "create" /\ today' = today
      /\ link[l].state = "absent"
  BY DEF LifeInv, Life!TypeOK, Rows, Life!Insert, Life!Finish
<1>2. UNCHANGED link
      \/ link' = [link EXCEPT ![l] =
           [state |-> "live", code |-> c, since |-> 0, owned |-> job[r].owned]]
  BY DEF Life!Insert
<1>3. \A k \in Links : k # l => link'[k] = link[k]
  BY <1>1, <1>2
<1>4. link'[l] = link[l] \/ link'[l].state = "live"
  BY <1>1, <1>2
<1>5. SameDay
  BY <1>1, <1>3, <1>4 DEF SameDay, Old, Erased, Life!Trashed, Life!InWindow
<1>6. \/ job' = [job EXCEPT ![r].tries = @ + 1]
      \/ job' = [job EXCEPT ![r] = Life!Done]
  BY DEF Life!Insert, Life!Finish
<1>7. \A q \in Requests : job'[q] \in {job[q], Life!Done} \/ job'[q].op = "create"
  <2>1. CASE job' = [job EXCEPT ![r] = Life!Done]
    BY <1>1, <2>1 DEF Jobs
  <2>2. CASE job' = [job EXCEPT ![r].tries = @ + 1]
    <3>1. job[r] \notin {Life!Idle, Life!Done}
      BY <1>1, OpsDiffer
    <3>2. job'[r] = [job[r] EXCEPT !.tries = job[r].tries + 1]
      BY <1>1, <2>2 DEF Jobs
    <3>3. job'[r].op = "create"
      BY <1>1, <3>1, <3>2
    <3> QED BY <1>1, <2>2, <3>3 DEF Jobs
  <2> QED BY <1>6, <2>1, <2>2
<1> QED BY <1>5, <1>7

LEMMA WriteCodeKeepsToday ==
    ASSUME LifeSetting, LifeInv, NEW r \in Requests, NEW l \in Links, Life!WriteCode(r, l)
    PROVE  SameDay
<1>1. link \in [Links -> Rows] /\ today' = today
  BY DEF LifeInv, Life!TypeOK, Rows, Life!WriteCode, Life!Finish
<1>2. UNCHANGED link \/ \E c : link' = [link EXCEPT ![l].code = c]
  BY DEF Life!WriteCode
<1>3. \A k \in Links : link'[k].state = link[k].state /\ link'[k].since = link[k].since
  BY <1>1, <1>2 DEF Rows
<1> QED BY <1>1, <1>3 DEF SameDay, Old, Erased, Life!Trashed, Life!InWindow

LEMMA FinishMoves ==
    ASSUME Jobs, NEW r \in Requests, Life!Finish(r)
    PROVE  \A q \in Requests : job'[q] \in {job[q], Life!Done}
BY DEF Jobs, Life!Finish

LEMMA PromiseStep ==
    LifeSetting /\ CalmBoundary /\ PromiseInv /\ [Life!Next]_Life!vars => PromiseInv'
<1> SUFFICES ASSUME LifeSetting, CalmBoundary, PromiseInv, [Life!Next]_Life!vars
             PROVE  PromiseInv'
  OBVIOUS
<1>1. LifeInv /\ LifeInv' /\ Jobs
  BY LifeStep DEF PromiseInv, LifeInv
<1>2. ASSUME SameDay, \A q \in Requests : job'[q] \in {job[q], Life!Done} \/ job'[q].op = "create"
      PROVE  \A q \in Requests : ReadToday(q)'
  BY <1>1, <1>2, StaysRead DEF PromiseInv
<1>3. CASE UNCHANGED Life!vars
  <2>1. UNCHANGED <<link, job, today>>
    BY <1>3 DEF Life!vars
  <2> QED BY <1>1, <2>1 DEF PromiseInv, ReadToday, Old, Erased, Life!Trashed, Life!InWindow
<1>4. ASSUME NEW r \in Requests, NEW l \in Links, NEW c, Life!Insert(r, l, c)
      PROVE  PromiseInv'
  BY <1>1, <1>2, <1>4, InsertKeepsToday DEF PromiseInv
<1>5. ASSUME NEW r \in Requests, NEW l \in Links, Life!WriteCode(r, l)
      PROVE  PromiseInv'
  <2>1. SameDay /\ Life!Finish(r)
    BY <1>1, <1>5, WriteCodeKeepsToday DEF Life!WriteCode
  <2> QED BY <1>1, <1>2, <2>1, FinishMoves DEF PromiseInv
<1>6. ASSUME NEW r \in Requests,
             \/ Life!WriteTrash(r) \/ Life!WriteBulkTrash(r) \/ Life!WriteErase(r)
             \/ Life!WriteRestore(r) \/ Life!WriteRestoreAll(r)
             \/ Life!WriteEmpty(r) \/ Life!WritePurge(r)
      PROVE  PromiseInv'
  <2>1. Life!Finish(r)
    BY <1>6 DEF Life!WriteTrash, Life!WriteBulkTrash, Life!WriteErase, Life!WriteRestore,
                Life!WriteRestoreAll, Life!WriteEmpty, Life!WritePurge
  <2>2. SameDay
    BY <1>6, WritesKeepToday
  <2> QED BY <1>1, <1>2, <2>1, <2>2, FinishMoves DEF PromiseInv
<1>7. CASE Life!DayPasses
  <2>1. \A q \in Requests : job'[q] \in {Life!Idle, Life!Done}
    BY <1>7 DEF Life!DayPasses
  <2> QED BY <1>1, <2>1, OpsDiffer DEF PromiseInv, ReadToday, WriteOps
<1>8. CASE Life!Next
  BY <1>1, <1>4, <1>5, <1>6, <1>7, <1>8, ReadsKeepToday DEF PromiseInv, Life!Next
<1> QED BY <1>3, <1>8

\* Only its own write ends a request that empties or purges the trash.
LEMMA EndsByWriting ==
    ASSUME LifeInv, NEW r \in Requests, job[r].op \in {"empty", "purge"}, job'[r] = Life!Done, Life!Next
    PROVE  Life!WriteEmpty(r) \/ Life!WritePurge(r)
<1>1. Jobs /\ job'[r] # job[r] /\ job[r] # Life!Idle
  BY OpsDiffer DEF LifeInv
<1>2. ASSUME NEW q \in Requests, NEW request, Life!Begin(q, request)
      PROVE  FALSE
  BY <1>1, <1>2 DEF Life!Begin, Jobs
<1>3. ASSUME NEW q \in Requests, job[q].op \notin {"empty", "purge"}, Life!Finish(q)
      PROVE  FALSE
  BY <1>1, <1>3 DEF Life!Finish, Jobs
<1>4. ASSUME NEW q \in Requests, Life!Finish(q)
      PROVE  q = r
  BY <1>1, <1>4 DEF Life!Finish, Jobs
<1>5. ASSUME NEW q \in Requests, NEW l \in Links, NEW c, Life!Insert(q, l, c)
      PROVE  FALSE
  <2>1. job[q].op = "create"
    BY <1>5 DEF Life!Insert
  <2>2. q # r
    BY <2>1
  <2>3. job'[r] = job[r]
    BY <1>1, <1>5, <2>2 DEF Life!Insert, Life!Finish, Jobs
  <2> QED BY <1>1, <2>3
<1>6. ASSUME NEW q \in Requests,
             \/ \E c \in Codes \cup {Life!None}, owned \in BOOLEAN :
                  Life!Shorten(q, c, owned) \/ \E l \in Links : Life!Clone(q, l, c, owned)
             \/ \E l \in Links, c \in Codes \cup {Life!None} : Life!Rename(q, l, c)
             \/ \E e \in renames : Life!Revert(q, e)
             \/ \E l \in Links : Life!Delete(q, l) \/ Life!DeleteForGood(q, l) \/ Life!Restore(q, l)
             \/ Life!BulkTrash(q) \/ Life!RestoreAll(q) \/ Life!EmptyTrash(q) \/ Life!PurgeExpired(q)
      PROVE  FALSE
  BY <1>2, <1>6 DEF Life!Shorten, Life!Clone, Life!Rename, Life!Revert, Life!Delete, Life!DeleteForGood,
     Life!Restore, Life!BulkTrash, Life!RestoreAll, Life!EmptyTrash, Life!PurgeExpired, Life!Select
<1>7. ASSUME NEW q \in Requests,
             \/ \E l \in Links : Life!WriteCode(q, l)
             \/ Life!WriteTrash(q) \/ Life!WriteBulkTrash(q) \/ Life!WriteErase(q)
             \/ Life!WriteRestore(q) \/ Life!WriteRestoreAll(q)
      PROVE  FALSE
  BY <1>3, <1>7 DEF Life!WriteCode, Life!WriteTrash, Life!WriteBulkTrash, Life!WriteErase,
     Life!WriteRestore, Life!WriteRestoreAll
<1>8. ASSUME NEW q \in Requests, Life!WriteEmpty(q) \/ Life!WritePurge(q)
      PROVE  Life!WriteEmpty(r) \/ Life!WritePurge(r)
  BY <1>4, <1>8 DEF Life!WriteEmpty, Life!WritePurge
<1>9. ~Life!DayPasses
  BY <1>1 DEF Life!DayPasses
<1> QED BY <1>5, <1>6, <1>7, <1>8, <1>9 DEF Life!Next

LEMMA ErasedAsPromised ==
    ASSUME LifeSetting, PromiseInv, Life!Next
    PROVE  Life!KeepsItsPromise
<1> SUFFICES ASSUME NEW l \in Links, NEW r \in Requests,
                    Life!Exists(l), link'[l].state = "erased"
             PROVE  /\ Life!Ends(r, "empty") => Life!Trashed(l)
                    /\ Life!Ends(r, "purge") => Life!Trashed(l) /\ ~Life!InWindow(l, today)
  BY DEF Life!KeepsItsPromise
<1>1. ~Erased(l)
  BY DEF Erased, Life!Exists
<1>2. ASSUME Life!WriteEmpty(r)
      PROVE  Life!Trashed(l)
  BY <1>1, <1>2 DEF Life!WriteEmpty, Life!Put, Erased
<1>3. ASSUME Life!WritePurge(r)
      PROVE  Life!Trashed(l) /\ ~Life!InWindow(l, today)
  <2>1. l \in job[r].on
    BY <1>1, <1>3 DEF Life!WritePurge, Life!Put, Erased
  <2>2. job[r].op = "purge" /\ ReadToday(r)
    BY <1>3 DEF Life!WritePurge, PromiseInv
  <2>3. Old(l)
    BY <1>1, <2>1, <2>2 DEF ReadToday, WriteOps
  <2> QED BY <2>3 DEF Old
<1>4. CASE Life!Ends(r, "empty")
  <2>1. job[r].op = "empty" /\ job'[r] = Life!Done
    BY <1>4 DEF Life!Ends
  <2>2. Life!WriteEmpty(r) \/ Life!WritePurge(r)
    BY <2>1, EndsByWriting DEF PromiseInv
  <2>3. ~Life!Ends(r, "purge")
    BY <2>1 DEF Life!Ends
  <2> QED BY <1>2, <1>3, <2>2, <2>3
<1>5. CASE Life!Ends(r, "purge")
  <2>1. job[r].op = "purge" /\ job'[r] = Life!Done
    BY <1>5 DEF Life!Ends
  <2>2. Life!WritePurge(r)
    BY <2>1, EndsByWriting DEF PromiseInv, Life!WriteEmpty
  <2> QED BY <1>3, <2>2
<1> QED BY <1>4, <1>5

\* As long as no request straddles midnight, emptying the trash erases nothing
\* that is not in it, and the cron nothing whose retention window has not
\* passed, although purgeExpiredTrash deletes by id alone: what a bulk delete
\* or a restore of everything has read in the meantime cannot be what it read.
THEOREM TrashKeepsItsPromise ==
    ASSUME LifeSetting, CalmBoundary
    PROVE  Life!Spec => Life!TrashKeepsItsPromise
<1>1. Life!Init => PromiseInv
  <2> SUFFICES ASSUME Life!Init
               PROVE  PromiseInv
    OBVIOUS
  <2>1. LifeInv /\ \A r \in Requests : job[r] = Life!Idle
    BY LifeStarts DEF Life!Init
  <2> QED BY <2>1, OpsDiffer DEF PromiseInv, ReadToday, WriteOps
<1>2. PromiseInv /\ [Life!Next]_Life!vars => PromiseInv'
  BY PromiseStep
<1>3. PromiseInv /\ [Life!Next]_Life!vars => [Life!KeepsItsPromise]_Life!vars
  BY ErasedAsPromised
<1> QED BY <1>1, <1>2, <1>3, PTL DEF Life!Spec, Life!TrashKeepsItsPromise

(***************************************************************************)
(* The members of a workspace.                                             *)
(***************************************************************************)
SoleOwner == crossed \/ \A u, v \in Users : role[u] = "owner" /\ role[v] = "owner" => u = v

\* Whoever hands the ownership over is its one owner, or nobody is any more, until
\* two do so at once.
HandedByOwner == crossed \/ \A r \in Requests : Team!Transfers(r) =>
                   \A u \in Users : role[u] = "owner" => u = errand[r].by

\* What a request has checked, whatever the others do until it writes.
ErrandOK(r) ==
    \/ errand[r] = Team!Idle
    \/ /\ errand[r].op = "role"
       /\ errand[r].on \in Users /\ errand[r].by \in Users /\ errand[r].role \in Team!Roles
    \/ errand[r].op = "remove" /\ errand[r].on \in Users
    \/ /\ errand[r].op \in {"invite", "accept"} /\ errand[r].on \in Users
       /\ errand[r].role \in {"admin", "member"}
    \/ errand[r].op = "scim" /\ errand[r].on \in Users
    \/ errand[r].op = "grant" /\ errand[r].to \subseteq Users /\ errand[r].to \ late \subseteq Team!Members
Errands ==
    /\ errand = [r \in Requests |-> errand[r]]
    /\ \A r \in Requests : ErrandOK(r)
TeamInv == Team!TypeOK /\ SoleOwner /\ HandedByOwner /\ Team!GrantsBelongToMembers /\ Errands

\* Who is on a list of grants stays a member, or leaves late.
ListsKept == \A q \in Requests : errand[q].op = "grant" => errand[q].to \ late' \subseteq Team!Members'

LEMMA IdleOp == Team!Idle.op = "idle"
BY DEF Team!Idle

LEMMA NobodyLeaves ==
    ASSUME Errands, UNCHANGED late, \A u \in Users : role'[u] = Team!None => role[u] = Team!None
    PROVE  ListsKept
BY IdleOp DEF Errands, ErrandOK, ListsKept, Team!Members

\* One request begins, ends or stays.
LEMMA ErrandsStay ==
    ASSUME Errands, ListsKept, UNCHANGED errand
    PROVE  Errands'
BY DEF Errands, ErrandOK, ListsKept

LEMMA ErrandEnds ==
    ASSUME Errands, ListsKept, NEW r \in Requests, Team!Finish(r)
    PROVE  Errands' /\ \A q \in Requests : errand'[q] \in {errand[q], Team!Idle}
<1>1. /\ errand' = [errand EXCEPT ![r] = Team!Idle] /\ errand' = [q \in Requests |-> errand'[q]]
      /\ errand'[r] = Team!Idle /\ \A q \in Requests \ {r} : errand'[q] = errand[q]
  BY DEF Errands, Team!Finish
<1>2. \A q \in Requests \ {r} : ErrandOK(q)'
  BY <1>1 DEF Errands, ErrandOK, ListsKept
<1>3. ErrandOK(r)'
  BY <1>1 DEF ErrandOK
<1> QED BY <1>1, <1>2, <1>3 DEF Errands

\* A step that makes nobody an owner and begins no request.
LEMMA OwnersStay ==
    ASSUME TeamInv, crossed => crossed', \A u \in Users : role'[u] = "owner" => role[u] = "owner",
           \A q \in Requests : errand'[q] \in {errand[q], Team!Idle}
    PROVE  SoleOwner' /\ HandedByOwner'
<1>1. SoleOwner'
  BY DEF TeamInv, SoleOwner
<1>2. HandedByOwner'
  BY IdleOp DEF TeamInv, HandedByOwner, Team!Transfers
<1> QED BY <1>1, <1>2

\* A request begins beside the others.
LEMMA ErrandBegins ==
    ASSUME Errands, ListsKept, NEW r \in Requests, NEW request, Team!Begin(r, request)
    PROVE  /\ errand'[r] = request /\ \A q \in Requests \ {r} : errand'[q] = errand[q]
           /\ errand' = [q \in Requests |-> errand'[q]] /\ UNCHANGED <<crossed, late>>
           /\ \A q \in Requests \ {r} : ErrandOK(q)'
<1>1. /\ errand'[r] = request /\ \A q \in Requests \ {r} : errand'[q] = errand[q]
      /\ errand' = [q \in Requests |-> errand'[q]] /\ UNCHANGED <<crossed, late>>
  BY DEF Errands, Team!Begin, Team!History
<1>2. \A q \in Requests \ {r} : ErrandOK(q)'
  BY <1>1 DEF Errands, ErrandOK, ListsKept
<1> QED BY <1>1, <1>2

\* The handlers that only check.
LEMMA ChecksKeepTeam ==
    ASSUME TeamInv, NEW r \in Requests, NEW request, Team!Begin(r, request),
           UNCHANGED <<role, seat, grants, invite, identity>>,
           \/ /\ request.op = "role"
              /\ request.on \in Users /\ request.by \in Users /\ request.role \in Team!Roles
              /\ request.role = "owner" => role[request.by] = "owner"
           \/ request.op = "remove" /\ request.on \in Users
           \/ /\ request.op \in {"invite", "accept"} /\ request.on \in Users
              /\ request.role \in {"admin", "member"}
           \/ request.op = "grant" /\ request.to \subseteq Team!Members
    PROVE  TeamInv'
<1>1. UNCHANGED <<crossed, late>>
  BY DEF Team!Begin, Team!History
<1>2. ListsKept
  BY <1>1, NobodyLeaves DEF TeamInv
<1>3. /\ errand'[r] = request /\ \A q \in Requests \ {r} : errand'[q] = errand[q]
      /\ errand' = [q \in Requests |-> errand'[q]]
      /\ \A q \in Requests \ {r} : ErrandOK(q)'
  BY <1>2, ErrandBegins DEF TeamInv
<1>4. Errands'
  <2>1. ErrandOK(r)'
    BY <1>3 DEF ErrandOK, Team!Members
  <2> QED BY <1>3, <2>1 DEF Errands
<1>5. Team!TypeOK' /\ SoleOwner' /\ Team!GrantsBelongToMembers'
  BY <1>1 DEF TeamInv, Team!TypeOK, SoleOwner, Team!GrantsBelongToMembers, Team!Members
<1>6. HandedByOwner'
  <2>1. SUFFICES ASSUME ~crossed, NEW q \in Requests, Team!Transfers(q)', NEW u \in Users, role[u] = "owner"
                 PROVE  u = errand'[q].by
    BY <1>1 DEF HandedByOwner
  <2>2. CASE q = r
    <3>1. request.op = "role" /\ request.role = "owner"
      BY <1>3, <2>1, <2>2 DEF Team!Transfers
    <3>2. request.by \in Users /\ role[request.by] = "owner"
      BY <3>1
    <3> QED BY <1>3, <2>1, <2>2, <3>2 DEF TeamInv, SoleOwner
  <2>3. CASE q # r
    BY <1>3, <2>1, <2>3 DEF TeamInv, HandedByOwner, Team!Transfers
  <2> QED BY <2>2, <2>3
<1> QED BY <1>4, <1>5, <1>6 DEF TeamInv

LEMMA CheckersKeepTeam ==
    ASSUME TeamInv, NEW r \in Requests, NEW a \in Users, NEW u \in Users,
           \/ \E new \in Team!Roles : Team!ChangeRole(r, a, u, new) \/ Team!Invite(r, a, u, new)
           \/ Team!Remove(r, a, u)
           \/ \E S \in SUBSET Users : Team!Grant(r, a, S)
           \/ Team!Accept(r, u)
    PROVE  TeamInv'
<1>1. ASSUME NEW new \in Team!Roles, Team!ChangeRole(r, a, u, new)
      PROVE  TeamInv'
  <2>1. PICK request : /\ Team!Begin(r, request)
                       /\ request.op = "role" /\ request.on = u /\ request.by = a /\ request.role = new
    BY <1>1 DEF Team!ChangeRole
  <2> QED BY <1>1, <2>1, ChecksKeepTeam DEF Team!ChangeRole
<1>2. ASSUME NEW new \in Team!Roles, Team!Invite(r, a, u, new)
      PROVE  TeamInv'
  <2>1. PICK request : /\ Team!Begin(r, request)
                       /\ request.op = "invite" /\ request.on = u /\ request.role = new
    BY <1>2 DEF Team!Invite
  <2> QED BY <1>2, <2>1, ChecksKeepTeam DEF Team!Invite
<1>3. CASE Team!Remove(r, a, u)
  <2>1. PICK request : Team!Begin(r, request) /\ request.op = "remove" /\ request.on = u
    BY <1>3 DEF Team!Remove
  <2> QED BY <1>3, <2>1, ChecksKeepTeam DEF Team!Remove
<1>4. ASSUME NEW S \in SUBSET Users, Team!Grant(r, a, S)
      PROVE  TeamInv'
  <2>1. PICK request : Team!Begin(r, request) /\ request.op = "grant" /\ request.to = S
    BY <1>4 DEF Team!Grant
  <2> QED BY <1>4, <2>1, ChecksKeepTeam DEF Team!Grant
<1>5. CASE Team!Accept(r, u)
  <2>1. invite[u].role \in {"admin", "member"}
    BY DEF TeamInv, Team!TypeOK
  <2>2. PICK request : /\ Team!Begin(r, request)
                       /\ request.op = "accept" /\ request.on = u /\ request.role = invite[u].role
    BY <1>5 DEF Team!Accept
  <2> QED BY <1>5, <2>1, <2>2, ChecksKeepTeam DEF Team!Accept
<1> QED BY <1>1, <1>2, <1>3, <1>4, <1>5

\* A change of role: who hands the ownership over and is crossed by nobody is the
\* only one to lose it, and another the only one to have it.
LEMMA WriteRoleKeepsTeam ==
    ASSUME TeamInv, NEW r \in Requests, Team!WriteRole(r)
    PROVE  TeamInv'
<1>1. /\ errand[r].op = "role" /\ Team!Finish(r) /\ UNCHANGED <<seat, grants, invite, identity, late>>
      /\ Errands
      /\ crossed' = (crossed \/ (Team!Transfers(r) /\ \E q \in Requests \ {r} : Team!Transfers(q)))
  BY DEF Team!WriteRole, TeamInv
<1>2. errand[r].on \in Users /\ errand[r].by \in Users /\ errand[r].role \in Team!Roles
  BY <1>1, IdleOp DEF Errands, ErrandOK
<1>3. /\ role \in [Users -> Team!Roles \cup {Team!None}] /\ SoleOwner /\ HandedByOwner
      /\ grants \ late \subseteq Team!Members /\ grants \subseteq Users
  BY DEF TeamInv, Team!TypeOK, Team!GrantsBelongToMembers
<1> DEFINE on == errand[r].on  by == errand[r].by  new == errand[r].role
<1>4. /\ role' \in [Users -> Team!Roles \cup {Team!None}]
      /\ \A u \in Users : role'[u] = Team!None => role[u] = Team!None
      /\ \A u \in Users : role'[u] = "owner" => role[u] = "owner" \/ (u = on /\ Team!Transfers(r))
      /\ role' # role /\ Team!Transfers(r) => role'[by] = "admin"
  <2>1. CASE UNCHANGED role
    BY <1>3, <2>1
  <2>2. CASE role' = Team!NewRoles(errand[r])
    <3>1. CASE new = "owner"
      <4>1. role' = [role EXCEPT ![on] = "owner", ![by] = "admin"]
        BY <2>2, <3>1 DEF Team!NewRoles
      <4>2. role' \in [Users -> Team!Roles \cup {Team!None}]
        BY <1>2, <1>3, <4>1 DEF Team!Roles
      <4>3. /\ \A u \in Users \ {on, by} : role'[u] = role[u]
            /\ role'[by] = "admin" /\ role'[on] \in {"owner", "admin"}
        BY <1>2, <1>3, <4>1
      <4> QED BY <1>1, <3>1, <4>2, <4>3 DEF Team!None, Team!Transfers
    <3>2. CASE new # "owner"
      <4>1. role' = [role EXCEPT ![on] = new]
        BY <2>2, <3>2 DEF Team!NewRoles
      <4>2. role' \in [Users -> Team!Roles \cup {Team!None}]
        BY <1>2, <1>3, <4>1 DEF Team!Roles
      <4>3. (\A u \in Users \ {on} : role'[u] = role[u]) /\ role'[on] \in {"admin", "member"}
        BY <1>2, <1>3, <3>2, <4>1 DEF Team!Roles
      <4> QED BY <3>2, <4>2, <4>3 DEF Team!None, Team!Transfers
    <3> QED BY <3>1, <3>2
  <2> QED BY <2>1, <2>2 DEF Team!WriteRole
<1>5. Errands' /\ \A q \in Requests : errand'[q] \in {errand[q], Team!Idle}
  BY <1>1, <1>4, NobodyLeaves, ErrandEnds
<1>6. Team!TypeOK' /\ Team!GrantsBelongToMembers'
  BY <1>1, <1>3, <1>4 DEF TeamInv, Team!TypeOK, Team!GrantsBelongToMembers, Team!Members
<1>7. SoleOwner' /\ HandedByOwner'
  <2>1. CASE crossed'
    BY <2>1 DEF SoleOwner, HandedByOwner
  <2>2. CASE ~crossed' /\ (~Team!Transfers(r) \/ UNCHANGED role)
    <3>1. crossed => crossed'
      BY <1>1
    <3> QED BY <1>4, <1>5, <2>2, <3>1, OwnersStay
  <2>3. CASE ~crossed' /\ Team!Transfers(r) /\ role' # role
    <3>1. /\ ~crossed /\ \A q \in Requests \ {r} : ~Team!Transfers(q)
      BY <1>1, <2>3
    <3>2. \A u \in Users : role[u] = "owner" => u = by
      BY <1>3, <2>3, <3>1 DEF HandedByOwner
    <3>3. \A u \in Users : role'[u] = "owner" => u = on
      BY <1>2, <1>4, <2>3, <3>2
    <3>4. errand' = [errand EXCEPT ![r] = Team!Idle]
      BY <1>1 DEF Team!Finish
    <3>5. \A q \in Requests : ~Team!Transfers(q)'
      BY <3>1, <3>4, IdleOp, <1>1 DEF Errands, Team!Transfers
    <3> QED BY <3>3, <3>5 DEF SoleOwner, HandedByOwner
  <2> QED BY <2>1, <2>2, <2>3
<1> QED BY <1>5, <1>6, <1>7 DEF TeamInv

LEMMA WithoutKeepsTeam ==
    ASSUME TeamInv, NEW u \in Users, Team!Without(u)
    PROVE  /\ role' \in [Users -> Team!Roles \cup {Team!None}] /\ grants' \subseteq Users
           /\ \A v \in Users : role'[v] = "owner" => role[v] = "owner"
           /\ Team!GrantsBelongToMembers' /\ ListsKept
<1>1. /\ role \in [Users -> Team!Roles \cup {Team!None}] /\ grants \subseteq Users
      /\ grants \ late \subseteq Team!Members
      /\ role' = [role EXCEPT ![u] = Team!None] /\ grants' = grants \ {u}
      /\ late' = late \cup {v \in {u} : \E q \in Requests : errand[q].op = "grant" /\ v \in errand[q].to}
  BY DEF TeamInv, Team!TypeOK, Team!GrantsBelongToMembers, Team!Without
<1>2. \A v \in Users : v # u => role'[v] = role[v]
  BY <1>1
<1>3. role'[u] = Team!None
  BY <1>1
<1>4. grants' \ late' \subseteq Team!Members'
  BY <1>1, <1>2 DEF Team!Members
<1>5. ASSUME NEW q \in Requests, errand[q].op = "grant" PROVE errand[q].to \ late' \subseteq Team!Members'
  <2>1. errand[q].to \subseteq Users /\ errand[q].to \ late \subseteq Team!Members
    BY <1>5, IdleOp DEF TeamInv, Errands, ErrandOK
  <2>2. u \in errand[q].to => u \in late'
    BY <1>1, <1>5
  <2>3. late \subseteq late'
    BY <1>1
  <2> QED BY <1>2, <2>1, <2>2, <2>3 DEF Team!Members
<1> QED BY <1>1, <1>2, <1>3, <1>4, <1>5 DEF Team!GrantsBelongToMembers, ListsKept, Team!None

\* A membership, where there is none, is a plain member's.
LEMMA ProvisionKeepsTeam ==
    ASSUME TeamInv, NEW u \in Users, Team!Provision(u), UNCHANGED <<grants, invite, identity, crossed, late>>
    PROVE  /\ Team!TypeOK' /\ Team!GrantsBelongToMembers' /\ ListsKept
           /\ \A v \in Users : role'[v] = "owner" => role[v] = "owner"
<1>1. /\ role \in [Users -> Team!Roles \cup {Team!None}] /\ seat \in [Users -> Nat]
      /\ grants \ late \subseteq Team!Members
      /\ role' = [role EXCEPT ![u] = IF @ = Team!None THEN "member" ELSE @]
      /\ seat' \in {seat, [seat EXCEPT ![u] = @ + 1]}
  BY DEF TeamInv, Team!TypeOK, Team!GrantsBelongToMembers, Team!Provision, Team!Seat
<1>2. /\ \A v \in Users : role'[v] = role[v] \/ role'[v] = "member"
      /\ role' \in [Users -> Team!Roles \cup {Team!None}]
  BY <1>1 DEF Team!Roles
<1>3. seat' \in [Users -> Nat]
  BY <1>1
<1>4. \A v \in Users : role'[v] = Team!None => role[v] = Team!None
  BY <1>2 DEF Team!None
<1>5. grants' \ late' \subseteq Team!Members'
  BY <1>1, <1>2, <1>4 DEF Team!Members
<1>6. ListsKept
  BY <1>4, NobodyLeaves DEF TeamInv
<1> QED BY <1>2, <1>3, <1>5, <1>6 DEF TeamInv, Team!TypeOK, Team!GrantsBelongToMembers

LEMMA WritesKeepTeam ==
    ASSUME TeamInv, NEW r \in Requests,
           \/ Team!WriteRemove(r) \/ Team!WriteInvite(r) \/ Team!WriteAccept(r) \/ Team!WriteGrant(r)
           \/ \E state \in {"active", "inactive"} : Team!WriteIdentity(r, state)
    PROVE  TeamInv'
<1>1. /\ errand[r].op \in {"remove", "invite", "accept", "grant", "scim"} /\ Team!Finish(r)
      /\ UNCHANGED crossed /\ Errands /\ Team!TypeOK /\ Team!GrantsBelongToMembers /\ ErrandOK(r)
  BY DEF Team!WriteRemove, Team!WriteInvite, Team!WriteAccept, Team!WriteGrant,
     Team!WriteIdentity, TeamInv, Team!History, Errands
<1>2. ASSUME ListsKept, \A u \in Users : role'[u] = "owner" => role[u] = "owner",
             Team!TypeOK', Team!GrantsBelongToMembers'
      PROVE  TeamInv'
  BY <1>1, <1>2, ErrandEnds, OwnersStay DEF TeamInv
<1>3. ASSUME UNCHANGED <<role, late>>
      PROVE  ListsKept /\ \A u \in Users : role'[u] = "owner" => role[u] = "owner"
  BY <1>1, <1>3, NobodyLeaves
<1>4. CASE Team!WriteRemove(r)
  <2>1. errand[r].on \in Users
    BY <1>1, <1>4, IdleOp DEF ErrandOK, Team!WriteRemove
  <2>2. UNCHANGED <<seat, invite, identity>>
    BY <1>4 DEF Team!WriteRemove
  <2>3. CASE UNCHANGED <<role, grants, late>>
    BY <1>1, <1>2, <1>3, <2>2, <2>3 DEF Team!TypeOK, Team!GrantsBelongToMembers, Team!Members
  <2>4. CASE Team!Without(errand[r].on)
    <3>1. /\ role' \in [Users -> Team!Roles \cup {Team!None}] /\ grants' \subseteq Users
          /\ \A v \in Users : role'[v] = "owner" => role[v] = "owner"
          /\ Team!GrantsBelongToMembers' /\ ListsKept
      BY <2>1, <2>4, WithoutKeepsTeam
    <3> QED BY <1>1, <1>2, <2>2, <3>1 DEF Team!TypeOK
  <2> QED BY <1>4, <2>3, <2>4 DEF Team!WriteRemove
<1>5. CASE Team!WriteInvite(r)
  <2>1. errand[r].on \in Users /\ errand[r].role \in {"admin", "member"}
    BY <1>1, <1>5, IdleOp DEF ErrandOK, Team!WriteInvite
  <2>2. invite' \in [Users -> [state : {Team!None, "pending", "revoked", "accepted"}, role : {"admin", "member"}]]
    BY <1>1, <1>5, <2>1 DEF Team!WriteInvite, Team!TypeOK
  <2>3. UNCHANGED <<role, seat, grants, identity, late>>
    BY <1>5 DEF Team!WriteInvite, Team!History
  <2> QED BY <1>1, <1>2, <1>3, <2>2, <2>3 DEF Team!TypeOK, Team!GrantsBelongToMembers, Team!Members
<1>6. CASE Team!WriteAccept(r)
  <2>1. errand[r].on \in Users /\ errand[r].role \in {"admin", "member"}
    BY <1>1, <1>6, IdleOp DEF ErrandOK, Team!WriteAccept
  <2>2. /\ role' = [role EXCEPT ![errand[r].on] = errand[r].role]
        /\ invite' = [invite EXCEPT ![errand[r].on].state = "accepted"]
        /\ seat' \in {seat, [seat EXCEPT ![errand[r].on] = @ + 1]}
        /\ UNCHANGED <<grants, identity, late>>
    BY <1>6 DEF Team!WriteAccept, Team!Seat, Team!History
  <2>3. /\ \A v \in Users : role'[v] = role[v] \/ role'[v] \in {"admin", "member"}
        /\ role' \in [Users -> Team!Roles \cup {Team!None}]
    BY <1>1, <2>1, <2>2 DEF Team!Roles, Team!TypeOK
  <2>4. invite' \in [Users -> [state : {Team!None, "pending", "revoked", "accepted"}, role : {"admin", "member"}]]
    BY <1>1, <2>1, <2>2 DEF Team!TypeOK
  <2>5. seat' \in [Users -> Nat]
    BY <1>1, <2>2 DEF Team!TypeOK
  <2>6. /\ \A v \in Users : role'[v] = "owner" => role[v] = "owner"
        /\ \A v \in Users : role'[v] = Team!None => role[v] = Team!None
    BY <2>3 DEF Team!None
  <2>7. Team!GrantsBelongToMembers'
    BY <1>1, <2>2, <2>6 DEF Team!GrantsBelongToMembers, Team!Members, Team!TypeOK
  <2>8. ListsKept
    BY <1>1, <2>2, <2>6, NobodyLeaves
  <2>9. Team!TypeOK'
    BY <1>1, <2>2, <2>3, <2>4, <2>5 DEF Team!TypeOK
  <2> QED BY <1>2, <2>6, <2>7, <2>8, <2>9
<1>7. CASE Team!WriteGrant(r)
  <2>1. errand[r].to \subseteq Users /\ errand[r].to \ late \subseteq Team!Members
    BY <1>1, <1>7, IdleOp DEF ErrandOK, Team!WriteGrant
  <2>2. grants' = errand[r].to /\ UNCHANGED <<role, seat, invite, identity, late>>
    BY <1>7 DEF Team!WriteGrant, Team!History
  <2> QED BY <1>1, <1>2, <1>3, <2>1, <2>2 DEF Team!TypeOK, Team!GrantsBelongToMembers, Team!Members
<1>8. ASSUME NEW state \in {"active", "inactive"}, Team!WriteIdentity(r, state)
      PROVE  TeamInv'
  <2>1. errand[r].on \in Users
    BY <1>1, <1>8, IdleOp DEF ErrandOK, Team!WriteIdentity
  <2>2. identity' \in [Users -> {Team!None, "active", "inactive"}]
    BY <1>1, <1>8, <2>1 DEF Team!WriteIdentity, Team!TypeOK
  <2>3. UNCHANGED <<role, seat, grants, invite, late>>
    BY <1>8 DEF Team!WriteIdentity, Team!History
  <2> QED BY <1>1, <1>2, <1>3, <2>2, <2>3 DEF Team!TypeOK, Team!GrantsBelongToMembers, Team!Members
<1> QED BY <1>4, <1>5, <1>6, <1>7, <1>8

\* The handlers that write at once, between any two steps of the others.
LEMMA AtOnceKeepsTeam ==
    ASSUME TeamInv, NEW u \in Users,
           \/ \E a \in Users : Team!RevokeInvite(a, u)
           \/ Team!SamlLogin(u) \/ Team!ScimDelete(u)
           \/ \E state \in {"active", "inactive"} : Team!ScimPatch(u, state)
    PROVE  TeamInv'
<1>1. UNCHANGED <<errand, crossed>> /\ Errands /\ Team!TypeOK /\ Team!GrantsBelongToMembers
  BY DEF Team!RevokeInvite, Team!SamlLogin, Team!ScimDelete, Team!ScimPatch, Team!History, TeamInv
<1>2. ASSUME ListsKept, \A v \in Users : role'[v] = "owner" => role[v] = "owner",
             Team!TypeOK', Team!GrantsBelongToMembers'
      PROVE  TeamInv'
  BY <1>1, <1>2, ErrandsStay, OwnersStay DEF TeamInv
<1>3. ASSUME UNCHANGED <<role, late>>
      PROVE  ListsKept /\ \A v \in Users : role'[v] = "owner" => role[v] = "owner"
  BY <1>1, <1>3, NobodyLeaves
<1>4. ASSUME NEW a \in Users, Team!RevokeInvite(a, u)
      PROVE  TeamInv'
  <2>1. invite' \in [Users -> [state : {Team!None, "pending", "revoked", "accepted"}, role : {"admin", "member"}]]
    BY <1>1, <1>4 DEF Team!RevokeInvite, Team!TypeOK
  <2>2. UNCHANGED <<role, seat, grants, identity, late>>
    BY <1>4 DEF Team!RevokeInvite, Team!History
  <2> QED BY <1>1, <1>2, <1>3, <2>1, <2>2 DEF Team!TypeOK, Team!GrantsBelongToMembers, Team!Members
<1>5. CASE Team!SamlLogin(u)
  <2>1. Team!Provision(u) /\ UNCHANGED <<grants, invite, identity, crossed, late>>
    BY <1>5 DEF Team!SamlLogin, Team!History
  <2> QED BY <1>2, <2>1, ProvisionKeepsTeam
<1>6. CASE Team!ScimDelete(u)
  <2>1. identity' \in [Users -> {Team!None, "active", "inactive"}]
    BY <1>1, <1>6 DEF Team!ScimDelete, Team!TypeOK
  <2>2. Team!Without(u) /\ UNCHANGED <<seat, invite>>
    BY <1>6 DEF Team!ScimDelete
  <2>3. /\ role' \in [Users -> Team!Roles \cup {Team!None}] /\ grants' \subseteq Users
        /\ \A v \in Users : role'[v] = "owner" => role[v] = "owner"
        /\ Team!GrantsBelongToMembers' /\ ListsKept
    BY <2>2, WithoutKeepsTeam
  <2> QED BY <1>1, <1>2, <2>1, <2>2, <2>3 DEF Team!TypeOK
<1>7. ASSUME NEW state \in {"active", "inactive"}, Team!ScimPatch(u, state)
      PROVE  TeamInv'
  <2>1. identity' \in [Users -> {Team!None, "active", "inactive"}]
    BY <1>1, <1>7 DEF Team!ScimPatch, Team!TypeOK
  <2>2. UNCHANGED <<role, seat, grants, invite, late>>
    BY <1>7 DEF Team!ScimPatch, Team!History
  <2> QED BY <1>1, <1>2, <1>3, <2>1, <2>2 DEF Team!TypeOK, Team!GrantsBelongToMembers, Team!Members
<1> QED BY <1>4, <1>5, <1>6, <1>7

LEMMA ScimCreateKeepsTeam ==
    ASSUME TeamInv, NEW r \in Requests, NEW u \in Users, Team!ScimCreate(r, u)
    PROVE  TeamInv'
<1>1. PICK request : Team!Begin(r, request) /\ request.op = "scim" /\ request.on = u
  BY DEF Team!ScimCreate
<1>2. Team!Provision(u) /\ UNCHANGED <<grants, invite, identity, crossed, late>>
  BY <1>1 DEF Team!ScimCreate, Team!Begin, Team!History
<1>3. /\ Team!TypeOK' /\ Team!GrantsBelongToMembers' /\ ListsKept
      /\ \A v \in Users : role'[v] = "owner" => role[v] = "owner"
  BY <1>2, ProvisionKeepsTeam
<1>4. /\ errand'[r] = request /\ \A q \in Requests \ {r} : errand'[q] = errand[q]
      /\ errand' = [q \in Requests |-> errand'[q]]
      /\ \A q \in Requests \ {r} : ErrandOK(q)'
  BY <1>1, <1>3, ErrandBegins DEF TeamInv
<1>5. Errands'
  <2>1. ErrandOK(r)'
    BY <1>1, <1>4 DEF ErrandOK
  <2> QED BY <1>4, <2>1 DEF Errands
<1>6. SoleOwner'
  BY <1>2, <1>3 DEF TeamInv, SoleOwner
<1>7. HandedByOwner'
  <2>1. ~Team!Transfers(r)'
    BY <1>1, <1>4 DEF Team!Transfers
  <2>2. \A q \in Requests \ {r} : Team!Transfers(q)' <=> Team!Transfers(q)
    BY <1>4 DEF Team!Transfers
  <2> QED BY <1>2, <1>3, <1>4, <2>1, <2>2 DEF TeamInv, HandedByOwner
<1> QED BY <1>3, <1>5, <1>6, <1>7 DEF TeamInv

LEMMA TeamStep == TeamInv /\ [Team!Next]_Team!vars => TeamInv'
<1> SUFFICES ASSUME TeamInv, [Team!Next]_Team!vars
             PROVE  TeamInv'
  OBVIOUS
<1>1. CASE UNCHANGED Team!vars
  <2>1. UNCHANGED <<role, seat, grants, invite, identity, errand, crossed, late>>
    BY <1>1 DEF Team!vars
  <2> QED BY <2>1 DEF TeamInv, Team!TypeOK, SoleOwner, HandedByOwner, Team!Transfers,
          Team!GrantsBelongToMembers, Team!Members, Errands, ErrandOK
<1>2. CASE Team!Next
  BY <1>2, CheckersKeepTeam, WriteRoleKeepsTeam, WritesKeepTeam, AtOnceKeepsTeam, ScimCreateKeepsTeam
     DEF Team!Next
<1> QED BY <1>1, <1>2

\* "never leave two owners behind" (members/route.ts:28) and grants that "don't
\* silently return" (60): however role changes, transfers, removals, invitations, SAML
\* sign-ins and SCIM calls overlap, there is one owner at most until two transfers
\* overlap, and nobody has a grant on a folder who is not a member, save who left
\* while a list of grants with his name was on its way.
THEOREM MembershipsSound == Team!Spec => []Team!MembershipsSound
<1>1. Team!Init => TeamInv
  <2> SUFFICES ASSUME Team!Init
               PROVE  TeamInv
    OBVIOUS
  <2>1. PICK o \in Users : role = [u \in Users |-> IF u = o THEN "owner" ELSE Team!None]
    BY DEF Team!Init
  <2>2. role \in [Users -> Team!Roles \cup {Team!None}] /\ SoleOwner
    BY <2>1 DEF Team!Roles, Team!None, SoleOwner
  <2>3. Errands /\ HandedByOwner
    BY IdleOp DEF Team!Init, Errands, ErrandOK, HandedByOwner, Team!Transfers
  <2> QED BY <2>2, <2>3 DEF Team!Init, TeamInv, Team!TypeOK, Team!GrantsBelongToMembers
<1>2. TeamInv /\ [Team!Next]_Team!vars => TeamInv'
  BY TeamStep
<1>3. TeamInv => Team!MembershipsSound
  <2> SUFFICES ASSUME TeamInv, ~crossed
               PROVE  Team!Cardinality(Team!Owners) <= 1
    BY DEF TeamInv, Team!MembershipsSound, Team!NeverTwoOwners
  <2>1. Team!Cardinality(Team!Owners) = Cardinality(Team!Owners)
    BY DEF Team!Cardinality, Cardinality, Team!IsFiniteSet, IsFiniteSet
  <2>2. CASE Team!Owners = {}
    BY <2>2, <2>1, FS_EmptySet
  <2>3. CASE \E u : Team!Owners = {u}
    BY <2>3, <2>1, FS_Singleton
  <2> QED BY <2>2, <2>3 DEF TeamInv, SoleOwner, Team!Owners
<1> QED BY <1>1, <1>2, <1>3, PTL DEF Team!Spec

(***************************************************************************)
(* Publishing to the edge.                                                 *)
(***************************************************************************)
\* No request is called "none", the lock's value when nobody holds it.
EdgeSetting == Edge!None \notin Requests

Contents == [Links -> [edit : Nat, state : {"on", "off", "trash"}]]
Published == [content : Contents, replicated : BOOLEAN]

EdgeTypes ==
    /\ route \in Contents /\ told \in [Links -> Nat] /\ replica \in Nat
    /\ snapshots \in Seq(Published) /\ Len(snapshots) >= 1
    /\ cron \subseteq 1..Len(snapshots)

\* A request that appends holds the lock: what it has read covers its own change,
\* which it made before, and whatever was published, for nobody has since.
PublicationOK(r) ==
    \/ publication[r] = Edge!Idle
    \/ /\ publication[r].pc = "publish"
       /\ publication[r].on \in Links /\ publication[r].edit \in Nat
       /\ publication[r].edit <= route[publication[r].on].edit
    \/ /\ publication[r].pc = "append" /\ lock = r
       /\ publication[r].on \in Links /\ publication[r].edit \in Nat /\ publication[r].content \in Contents
       /\ publication[r].edit <= publication[r].content[publication[r].on].edit
       /\ \A l \in Links : /\ told[l] <= publication[r].content[l].edit
                           /\ publication[r].content[l].edit <= route[l].edit
    \/ publication[r].pc = "post" /\ publication[r].version \in 1..Len(snapshots)
Publications ==
    /\ publication = [r \in Requests |-> publication[r]]
    /\ \A r \in Requests : PublicationOK(r)

ToldIsWritten == \A l \in Links : told[l] <= route[l].edit
ToldIsNewest == \A l \in Links : told[l] <= snapshots[Len(snapshots)].content[l].edit
ReplicaHolds == \A v \in 1..Len(snapshots) : snapshots[v].replicated => v <= replica

EdgeInv == EdgeTypes /\ Publications /\ ToldIsWritten /\ ToldIsNewest /\ ReplicaHolds

LEMMA EdgeIdle == Edge!Idle.pc = "idle"
BY DEF Edge!Idle

\* A link only ever gets newer, and what is under way stays what it was.
LEMMA WriteKeepsEdge ==
    ASSUME EdgeInv, NEW l \in Links, NEW state \in {"on", "off", "trash"}, Edge!Write(l, state)
    PROVE  /\ route' \in Contents
           /\ \A k \in Links : route[k].edit <= route'[k].edit
           /\ route'[l].edit = route[l].edit + 1
<1>1. route \in Contents /\ route' = [route EXCEPT ![l] = [edit |-> route[l].edit + 1, state |-> state]]
  BY DEF EdgeInv, EdgeTypes, Edge!Write
<1>2. route[l].edit \in Nat
  BY <1>1 DEF Contents
<1> QED BY <1>1, <1>2 DEF Contents

LEMMA NewerLinksKeepPublication ==
    ASSUME EdgeInv, NEW r \in Requests, PublicationOK(r),
           route' \in Contents, \A k \in Links : route[k].edit <= route'[k].edit,
           UNCHANGED <<snapshots, lock, told>>, publication'[r] = publication[r]
    PROVE  PublicationOK(r)'
<1>1. route \in Contents /\ \A l \in Links : route[l].edit \in Nat /\ route'[l].edit \in Nat
  BY DEF EdgeInv, EdgeTypes, Contents
<1>2. CASE publication[r].pc = "append"
  <2>1. \A l \in Links : publication[r].content[l].edit \in Nat
    BY <1>2, EdgeIdle DEF PublicationOK, Contents
  <2> QED BY <1>1, <1>2, <2>1, EdgeIdle DEF PublicationOK
<1>3. CASE publication[r].pc # "append"
  BY <1>1, <1>3 DEF PublicationOK
<1> QED BY <1>2, <1>3

LEMMA ChangeKeepsEdge ==
    ASSUME EdgeSetting, EdgeInv, NEW l \in Links, NEW state \in {"on", "off", "trash"},
           (\E r \in Requests : Edge!Change(r, l, state)) \/ Edge!ChangeQuietly(l, state)
    PROVE  EdgeInv'
<1>1. Edge!Write(l, state) /\ UNCHANGED <<snapshots, lock, cron, replica, told>>
  BY DEF Edge!Change, Edge!ChangeQuietly
<1>2. /\ route' \in Contents
      /\ \A k \in Links : route[k].edit <= route'[k].edit
      /\ route'[l].edit = route[l].edit + 1
  BY <1>1, WriteKeepsEdge
<1>3. Publications'
  <2>1. CASE UNCHANGED publication
    <3>1. ASSUME NEW q \in Requests
          PROVE  PublicationOK(q)'
      BY <1>1, <1>2, <2>1, NewerLinksKeepPublication DEF EdgeInv, Publications
    <3> QED BY <2>1, <3>1 DEF EdgeInv, Publications
  <2>2. ASSUME NEW r \in Requests, Edge!Change(r, l, state)
        PROVE  Publications'
    <3>1. publication' = [publication EXCEPT ![r] = [pc |-> "publish", on |-> l, edit |-> route[l].edit + 1]]
      BY <2>2 DEF Edge!Change
    <3>2. route[l].edit \in Nat
      BY DEF EdgeInv, EdgeTypes, Contents
    <3>3. PublicationOK(r)'
      <4>1. /\ publication'[r].pc = "publish" /\ publication'[r].on = l
            /\ publication'[r].edit = route[l].edit + 1
        BY <3>1 DEF EdgeInv, Publications
      <4> QED BY <1>2, <3>2, <4>1 DEF PublicationOK
    <3>4. ASSUME NEW q \in Requests \ {r}
          PROVE  PublicationOK(q)'
      <4>1. publication'[q] = publication[q] /\ PublicationOK(q)
        BY <3>1 DEF EdgeInv, Publications
      <4> QED BY <1>1, <1>2, <4>1, NewerLinksKeepPublication
    <3> QED BY <3>1, <3>3, <3>4 DEF EdgeInv, Publications
  <2> QED BY <2>1, <2>2 DEF Edge!ChangeQuietly
<1>4. ToldIsWritten'
  <2>1. \A k \in Links : told[k] \in Nat /\ route[k].edit \in Nat /\ route'[k].edit \in Nat
    BY <1>2 DEF EdgeInv, EdgeTypes, Contents
  <2> QED BY <1>1, <1>2, <2>1 DEF EdgeInv, ToldIsWritten
<1> QED BY <1>1, <1>2, <1>3, <1>4 DEF EdgeInv, EdgeTypes, ToldIsNewest, ReplicaHolds

\* The lock is taken before the links are read.
LEMMA ReadStateKeepsEdge ==
    ASSUME EdgeSetting, EdgeInv, NEW r \in Requests, Edge!ReadState(r)
    PROVE  EdgeInv'
<1>1. /\ publication[r].pc = "publish" /\ lock = Edge!None /\ lock' = r
      /\ publication' = [publication EXCEPT ![r] =
           [pc |-> "append", on |-> publication[r].on, edit |-> publication[r].edit, content |-> route]]
      /\ UNCHANGED <<route, snapshots, cron, replica, told>>
  BY DEF Edge!ReadState, Edge!LockFree
<1>2. PublicationOK(r) /\ route \in Contents
  BY DEF EdgeInv, EdgeTypes, Publications
<1>3. /\ publication[r].on \in Links /\ publication[r].edit \in Nat
      /\ publication[r].edit <= route[publication[r].on].edit
  BY <1>1, <1>2, EdgeIdle DEF PublicationOK
<1>4. PublicationOK(r)'
  <2>1. /\ publication'[r].pc = "append" /\ publication'[r].on = publication[r].on
        /\ publication'[r].edit = publication[r].edit /\ publication'[r].content = route
    BY <1>1 DEF EdgeInv, Publications
  <2>2. \A l \in Links : told[l] <= route[l].edit /\ route[l].edit <= route[l].edit
    BY <1>2 DEF EdgeInv, ToldIsWritten, Contents
  <2> QED BY <1>1, <1>2, <1>3, <2>1, <2>2 DEF PublicationOK
<1>5. ASSUME NEW q \in Requests \ {r}
      PROVE  PublicationOK(q)'
  <2>1. publication'[q] = publication[q] /\ PublicationOK(q)
    BY <1>1 DEF EdgeInv, Publications
  <2>2. publication[q].pc # "append"
    BY <1>1, <2>1, EdgeIdle DEF PublicationOK, EdgeSetting
  <2> QED BY <1>1, <2>1, <2>2 DEF PublicationOK
<1>6. Publications'
  BY <1>1, <1>4, <1>5 DEF EdgeInv, Publications
<1> QED BY <1>1, <1>6 DEF EdgeInv, EdgeTypes, ToldIsWritten, ToldIsNewest, ReplicaHolds

LEMMA PublishKeepsEdge ==
    ASSUME EdgeSetting, EdgeInv, NEW r \in Requests, Edge!Publish(r)
    PROVE  EdgeInv'
<1> DEFINE p == publication[r]
           new == [content |-> p.content, replicated |-> FALSE]
<1>1. /\ p.pc = "append" /\ lock' = Edge!None /\ UNCHANGED <<route, cron, replica>>
      /\ snapshots' = Append(snapshots, new)
      /\ publication' = [publication EXCEPT ![r] = [pc |-> "post", version |-> Len(snapshots) + 1]]
      /\ told' = [told EXCEPT ![p.on] = IF @ < p.edit THEN p.edit ELSE @]
  BY DEF Edge!Publish, Edge!Newest
<1>2. EdgeTypes /\ Publications /\ PublicationOK(r)
  BY DEF EdgeInv, Publications
<1>3. /\ lock = r /\ p.on \in Links /\ p.edit \in Nat /\ p.content \in Contents
      /\ p.edit <= p.content[p.on].edit
      /\ \A l \in Links : told[l] <= p.content[l].edit /\ p.content[l].edit <= route[l].edit
  BY <1>1, <1>2, EdgeIdle DEF PublicationOK
<1>4. new \in Published
  BY <1>3 DEF Published
<1>5. /\ snapshots' \in Seq(Published) /\ Len(snapshots') = Len(snapshots) + 1 /\ Len(snapshots) \in Nat
      /\ snapshots'[Len(snapshots) + 1] = new
      /\ \A v \in 1..Len(snapshots) : snapshots'[v] = snapshots[v]
  BY <1>1, <1>2, <1>4 DEF EdgeTypes
<1>6. \A l \in Links : /\ told[l] \in Nat /\ p.content[l].edit \in Nat /\ route[l].edit \in Nat
                       /\ told'[l] = IF l = p.on /\ told[l] < p.edit THEN p.edit ELSE told[l]
  BY <1>1, <1>2, <1>3 DEF EdgeTypes, Contents
<1>7. /\ told' \in [Links -> Nat]
      /\ \A l \in Links : told'[l] <= p.content[l].edit /\ told'[l] <= route[l].edit
  <2>1. told' \in [Links -> Nat]
    BY <1>1, <1>2, <1>3 DEF EdgeTypes
  <2> HIDE DEF p
  <2> QED BY <1>3, <1>6, <2>1
<1>8. EdgeTypes'
  BY <1>1, <1>2, <1>5, <1>7 DEF EdgeTypes
<1>9. Publications'
  <2>1. PublicationOK(r)'
    <3>1. publication'[r].pc = "post" /\ publication'[r].version = Len(snapshots) + 1
      BY <1>1, <1>2 DEF Publications
    <3> QED BY <1>5, <3>1 DEF PublicationOK
  <2>2. ASSUME NEW q \in Requests \ {r}
        PROVE  PublicationOK(q)'
    <3>1. publication'[q] = publication[q] /\ PublicationOK(q)
      BY <1>1, <1>2 DEF Publications
    <3>2. publication[q].pc # "append"
      BY <1>3, <3>1, EdgeIdle DEF PublicationOK
    <3> QED BY <1>1, <1>5, <3>1, <3>2 DEF PublicationOK
  <2> QED BY <1>1, <1>2, <2>1, <2>2 DEF Publications
<1>10. ToldIsWritten' /\ ToldIsNewest'
  BY <1>1, <1>5, <1>7 DEF ToldIsWritten, ToldIsNewest
<1>11. ReplicaHolds'
  <2>1. ASSUME NEW v \in 1..Len(snapshots'), snapshots'[v].replicated
        PROVE  v <= replica'
    <3>1. v \in 1..Len(snapshots)
      BY <1>5, <2>1
    <3> QED BY <1>1, <1>5, <2>1, <3>1 DEF EdgeInv, ReplicaHolds
  <2> QED BY <2>1 DEF ReplicaHolds
<1> QED BY <1>8, <1>9, <1>10, <1>11 DEF EdgeInv

\* The replica accepts the version after the one it holds and no other, so what it
\* has acknowledged it holds, or something newer.
LEMMA PostKeepsEdge ==
    ASSUME EdgeInv, NEW v \in 1..Len(snapshots), Edge!Post(v), UNCHANGED <<route, told>>
    PROVE  /\ route' \in Contents /\ told' \in [Links -> Nat] /\ replica' \in Nat
           /\ snapshots' \in Seq(Published) /\ Len(snapshots') = Len(snapshots)
           /\ ToldIsWritten' /\ ToldIsNewest' /\ ReplicaHolds'
<1>1. EdgeTypes /\ Len(snapshots) \in Nat /\ ToldIsWritten /\ ToldIsNewest /\ ReplicaHolds
  BY DEF EdgeInv, EdgeTypes
<1>2. snapshots' \in {snapshots, [snapshots EXCEPT ![v].replicated = TRUE]}
  BY DEF Edge!Post
<1>3. /\ snapshots' \in Seq(Published) /\ Len(snapshots') = Len(snapshots)
      /\ \A w \in 1..Len(snapshots) : snapshots'[w].content = snapshots[w].content
      /\ \A w \in 1..Len(snapshots) \ {v} : snapshots'[w] = snapshots[w]
  <2>1. snapshots \in [1..Len(snapshots) -> Published]
    BY <1>1 DEF EdgeTypes
  <2>2. snapshots' \in [1..Len(snapshots) -> Published]
    BY <1>2, <2>1 DEF Published
  <2>3. snapshots' \in Seq(Published) /\ Len(snapshots') = Len(snapshots)
    BY <1>1, <2>2
  <2>4. /\ \A w \in 1..Len(snapshots) : snapshots'[w].content = snapshots[w].content
        /\ \A w \in 1..Len(snapshots) \ {v} : snapshots'[w] = snapshots[w]
    BY <1>2, <2>1 DEF Published
  <2> QED BY <2>3, <2>4
<1>4. /\ replica' \in Nat /\ replica <= replica'
      /\ snapshots'[v].replicated # snapshots[v].replicated => replica' = v
  <2>1. CASE Edge!Accepts(v) /\ replica' = v
    BY <1>1, <2>1 DEF Edge!Accepts, EdgeTypes
  <2>2. CASE replica' = replica /\ snapshots' = snapshots
    BY <1>1, <2>2 DEF EdgeTypes
  <2> QED BY <2>1, <2>2 DEF Edge!Post
<1>5. ReplicaHolds'
  <2>1. ASSUME NEW w \in 1..Len(snapshots), snapshots'[w].replicated
        PROVE  w <= replica'
    <3>1. CASE snapshots[w].replicated
      <4>1. w <= replica
        BY <1>1, <3>1 DEF ReplicaHolds
      <4> QED BY <1>1, <1>4, <4>1 DEF EdgeTypes
    <3>2. CASE ~snapshots[w].replicated
      <4>1. w = v
        BY <1>3, <2>1, <3>2
      <4> QED BY <1>4, <2>1, <3>2, <4>1
    <3> QED BY <3>1, <3>2
  <2> QED BY <1>3, <2>1 DEF ReplicaHolds
<1>6. ToldIsWritten' /\ ToldIsNewest'
  BY <1>1, <1>3 DEF ToldIsWritten, ToldIsNewest, EdgeTypes
<1> QED BY <1>1, <1>3, <1>4, <1>5, <1>6 DEF EdgeTypes

LEMMA SamePublication ==
    ASSUME NEW r \in Requests, PublicationOK(r), publication'[r] = publication[r],
           Len(snapshots') = Len(snapshots), UNCHANGED <<route, told>>,
           lock' = lock \/ lock # r
    PROVE  PublicationOK(r)'
BY DEF PublicationOK

\* A post by a request, by the cron job, and a death: the lock goes back with the
\* transaction of who held it.
LEMMA PostsAndDeathsKeepEdge ==
    ASSUME EdgeSetting, EdgeInv,
           \/ \E r \in Requests : Edge!Replicate(r) \/ Edge!Crash(r)
           \/ Edge!CronPosts
    PROVE  EdgeInv'
<1>1. ASSUME NEW r \in Requests, publication' = [publication EXCEPT ![r] = Edge!Idle],
             Len(snapshots') = Len(snapshots), UNCHANGED <<route, told>>,
             lock' = lock \/ lock = r
      PROVE  Publications'
  <2>1. ASSUME NEW q \in Requests \ {r}
        PROVE  PublicationOK(q)'
    <3>1. publication'[q] = publication[q] /\ PublicationOK(q)
      BY <1>1 DEF EdgeInv, Publications
    <3> QED BY <1>1, <3>1, SamePublication
  <2>2. PublicationOK(r)'
    BY <1>1 DEF EdgeInv, Publications, PublicationOK
  <2> QED BY <1>1, <2>1, <2>2 DEF EdgeInv, Publications
<1>2. ASSUME NEW r \in Requests, Edge!Replicate(r)
      PROVE  EdgeInv'
  <2>1. /\ publication[r].pc = "post" /\ Edge!Post(publication[r].version)
        /\ publication' = [publication EXCEPT ![r] = Edge!Idle] /\ UNCHANGED <<route, lock, cron, told>>
    BY <1>2 DEF Edge!Replicate
  <2>2. publication[r].version \in 1..Len(snapshots)
    BY <2>1, EdgeIdle DEF EdgeInv, Publications, PublicationOK
  <2>3. /\ route' \in Contents /\ told' \in [Links -> Nat] /\ replica' \in Nat
        /\ snapshots' \in Seq(Published) /\ Len(snapshots') = Len(snapshots)
        /\ ToldIsWritten' /\ ToldIsNewest' /\ ReplicaHolds'
    BY <2>1, <2>2, PostKeepsEdge
  <2>4. Publications'
    BY <1>1, <2>1, <2>3
  <2> QED BY <2>1, <2>3, <2>4 DEF EdgeInv, EdgeTypes
<1>3. ASSUME NEW r \in Requests, Edge!Crash(r)
      PROVE  EdgeInv'
  <2>1. /\ publication' = [publication EXCEPT ![r] = Edge!Idle]
        /\ lock' = lock \/ lock = r
        /\ UNCHANGED <<route, snapshots, cron, replica, told>>
    BY <1>3 DEF Edge!Crash
  <2>2. Publications'
    BY <1>1, <2>1
  <2> QED BY <2>1, <2>2 DEF EdgeInv, EdgeTypes, ToldIsWritten, ToldIsNewest, ReplicaHolds
<1>4. ASSUME Edge!CronPosts
      PROVE  EdgeInv'
  <2>1. PICK v \in cron : Edge!Post(v)
    BY <1>4 DEF Edge!CronPosts
  <2>2. v \in 1..Len(snapshots) /\ cron' = {} /\ UNCHANGED <<route, lock, publication, told>>
    BY <1>4 DEF Edge!CronPosts, EdgeInv, EdgeTypes
  <2>3. /\ route' \in Contents /\ told' \in [Links -> Nat] /\ replica' \in Nat
        /\ snapshots' \in Seq(Published) /\ Len(snapshots') = Len(snapshots)
        /\ ToldIsWritten' /\ ToldIsNewest' /\ ReplicaHolds'
    BY <2>1, <2>2, PostKeepsEdge
  <2>4. Publications'
    <3>1. ASSUME NEW q \in Requests
          PROVE  PublicationOK(q)'
      <4>1. publication'[q] = publication[q] /\ PublicationOK(q)
        BY <2>2 DEF EdgeInv, Publications
      <4> QED BY <2>2, <2>3, <4>1, SamePublication
    <3> QED BY <2>2, <3>1 DEF EdgeInv, Publications
  <2> QED BY <2>2, <2>3, <2>4 DEF EdgeInv, EdgeTypes
<1> QED BY <1>2, <1>3, <1>4

LEMMA EdgeStep == EdgeSetting /\ EdgeInv /\ [Edge!Next]_Edge!vars => EdgeInv'
<1> SUFFICES ASSUME EdgeSetting, EdgeInv, [Edge!Next]_Edge!vars
             PROVE  EdgeInv'
  OBVIOUS
<1>1. ASSUME UNCHANGED <<route, snapshots, lock, publication, replica, told>>,
             cron' \subseteq 1..Len(snapshots)
      PROVE  EdgeInv'
  BY <1>1 DEF EdgeInv, EdgeTypes, Publications, PublicationOK, ToldIsWritten, ToldIsNewest, ReplicaHolds
<1>2. cron \subseteq 1..Len(snapshots)
  BY DEF EdgeInv, EdgeTypes
<1>3. CASE UNCHANGED Edge!vars
  BY <1>1, <1>2, <1>3 DEF Edge!vars
<1>4. CASE Edge!CronReads
  <2>1. cron' \subseteq 1..Len(snapshots) /\ UNCHANGED <<route, snapshots, lock, publication, replica, told>>
    BY <1>4 DEF Edge!CronReads, Edge!Pick, Edge!Pending, Edge!Newest
  <2> QED BY <1>1, <2>1
<1>5. CASE \/ \E l \in Links : Edge!FromReplica(l) \/ Edge!FromPrimary(l) \/ Edge!FromLastGood(l)
           \/ Edge!FiveMinutesPass
  <2>1. UNCHANGED <<route, snapshots, lock, publication, cron, replica, told>>
    BY <1>5 DEF Edge!FromReplica, Edge!FromPrimary, Edge!FromLastGood, Edge!FiveMinutesPass, Edge!Serve
  <2> QED BY <1>1, <1>2, <2>1
<1>6. CASE \E l \in Links :
             \/ \E r \in Requests, state \in {"on", "off"} : Edge!Change(r, l, state)
             \/ \E state \in {"on", "trash"} : Edge!ChangeQuietly(l, state)
  BY <1>6, ChangeKeepsEdge
<1>7. CASE Edge!Next
  BY <1>4, <1>5, <1>6, <1>7, ReadStateKeepsEdge, PublishKeepsEdge, PostsAndDeathsKeepEdge DEF Edge!Next
<1> QED BY <1>3, <1>7

\* However slow publications and late, lost or repeated posts interleave, a change
\* whose request has published is in the newest snapshot, because the links are
\* read under the lock the snapshot is appended under; and what is marked as
\* replicated the replica holds, or something newer.
THEOREM NewerIsNeverCovered ==
    ASSUME EdgeSetting
    PROVE  Edge!Spec => []Edge!NewerIsNeverCovered
<1>1. Edge!Init => EdgeInv
  <2> SUFFICES ASSUME Edge!Init
               PROVE  EdgeInv
    OBVIOUS
  <2>1. route \in Contents /\ told \in [Links -> Nat] /\ \A l \in Links : told[l] = 0 /\ route[l].edit = 0
    BY DEF Edge!Init, Contents
  <2>2. [content |-> route, replicated |-> TRUE] \in Published
    BY <2>1 DEF Published
  <2>3. /\ snapshots = <<[content |-> route, replicated |-> TRUE]>> /\ replica = 1 /\ cron = {}
        /\ publication = [r \in Requests |-> Edge!Idle]
    BY DEF Edge!Init
  <2>4. snapshots \in Seq(Published) /\ Len(snapshots) = 1 /\ snapshots[1].content = route
    BY <2>2, <2>3
  <2> QED BY <2>1, <2>3, <2>4 DEF EdgeInv, EdgeTypes, Publications, PublicationOK, ToldIsWritten,
          ToldIsNewest, ReplicaHolds
<1>2. EdgeInv /\ [Edge!Next]_Edge!vars => EdgeInv'
  BY EdgeStep
<1>3. EdgeInv => Edge!NewerIsNeverCovered
  <2> SUFFICES ASSUME EdgeInv
               PROVE  Edge!NewerIsNeverCovered
    OBVIOUS
  <2>1. \A l \in Links : told[l] \in Nat /\ snapshots[Len(snapshots)].content[l].edit \in Nat
    <3>1. snapshots[Len(snapshots)] \in Published /\ told \in [Links -> Nat]
      BY DEF EdgeInv, EdgeTypes
    <3>2. snapshots[Len(snapshots)].content \in Contents
      BY <3>1 DEF Published
    <3> QED BY <3>1, <3>2 DEF Contents
  <2>2. replica \in Nat /\ Len(snapshots) \in Nat
    BY DEF EdgeInv, EdgeTypes
  <2> QED BY <2>1, <2>2 DEF EdgeInv, ToldIsNewest, ReplicaHolds, Edge!NewerIsNeverCovered, Edge!Newest,
          Edge!Content
<1> QED BY <1>1, <1>2, <1>3, PTL DEF Edge!Spec

(***************************************************************************)
(* Releases of a campaign.                                                 *)
(***************************************************************************)
\* Members are finitely many, and those who propose are among them.
CampaignSetting ==
    /\ IsFiniteSet(Users) /\ Proposers \subseteq Users
    /\ MaxVersion \in Nat \ {0}
    /\ Control \in Variants /\ Weights \in [Variants -> Int]

Versions == Campaigns!Versions
Shares == [Variants -> Int]
Releases == [status : {"none", "pending", "approved", "rejected", "published"},
             by : Users \cup {"none"}, reviewed : BOOLEAN, due : BOOLEAN, weights : Shares]

CampaignTypes ==
    /\ campaign \in [version : Versions, status : {"running", "paused"}, weights : Shares]
    /\ release \in [Versions -> Releases]

\* What a request carries: a release proposed for the next version has the weights
\* the campaign has, for they do not change within a version.
TurnOK(r) ==
    \/ turn[r] = Campaigns!Idle
    \/ /\ turn[r].op = "propose" /\ turn[r].version \in Versions /\ turn[r].row \in Releases
       /\ turn[r].row.status = IF turn[r].row.reviewed THEN "pending" ELSE "approved"
       /\ turn[r].version <= campaign.version + 1
       /\ turn[r].version = campaign.version + 1 => turn[r].row.weights = campaign.weights
    \/ turn[r].op \in {"vote", "count"} /\ turn[r].version \in Versions
    \/ /\ turn[r].op = "settle" /\ turn[r].version \in Versions
       /\ turn[r].status \in {"pending", "approved", "rejected"}
    \/ turn[r].op = "cron" /\ turn[r].todo \in SUBSET Versions /\ turn[r].todo # {}
    \/ /\ turn[r].op = "publish" /\ turn[r].version \in Versions /\ turn[r].todo \in SUBSET Versions
       /\ turn[r].seen \in Versions /\ turn[r].seen < turn[r].version
    \/ turn[r].op = "look"
    \/ turn[r].op = "shift" /\ turn[r].weights \in Shares
Turns ==
    /\ turn = [r \in Requests |-> turn[r]]
    /\ \A r \in Requests : TurnOK(r)

\* A release is for the next version at most, and then has the weights that are live.
Proposed ==
    \A v \in Versions : release[v].status # "none" =>
        /\ v <= campaign.version + 1
        /\ v = campaign.version + 1 => release[v].weights = campaign.weights

LiveInv == CampaignTypes /\ Turns /\ Proposed

LEMMA TurnIdle == Campaigns!Idle.op = "idle"
BY DEF Campaigns!Idle

LEMMA VersionsAreInts == CampaignSetting => Versions \subseteq Nat /\ 1 \in Versions /\ Versions = 1..MaxVersion
BY DEF CampaignSetting, Versions, Campaigns!Versions

\* A run of the cron takes the lowest of the versions it has left.
LEMMA LowestIsLeft ==
    ASSUME CampaignSetting, NEW S \in SUBSET Versions, S # {}
    PROVE  Campaigns!Min(S) \in S
<1> DEFINE UpTo(x) == {y \in S : y <= x}
           T == {UpTo(x) : x \in S}
<1>1. S \subseteq Nat /\ IsFiniteSet(S)
  <2>1. IsFiniteSet(1..MaxVersion)
    BY FS_Interval DEF CampaignSetting
  <2> QED BY <2>1, FS_Subset, VersionsAreInts
<1>2. FiniteSubsetsOf(S) = SUBSET S /\ IsWellFoundedOn(StrictSubsetOrdering(S), FiniteSubsetsOf(S))
  BY <1>1, FS_FiniteSubsetsOfFinite, FS_StrictSubsetOrderingWellFounded
<1>3. T \subseteq SUBSET S /\ T # {}
  OBVIOUS
<1>4. PICK U \in T : \A V \in T : <<V, U>> \notin StrictSubsetOrdering(S)
  <2> HIDE DEF T
  <2> QED BY <1>2, <1>3, WFMin
<1>5. PICK x \in S : U = UpTo(x)
  BY <1>4
<1>6. ASSUME NEW y \in S
      PROVE  x <= y
  <2>1. CASE y < x
    <3>1. UpTo(y) \subseteq UpTo(x) /\ UpTo(y) # UpTo(x)
      <4>1. x \in Nat /\ y \in Nat /\ \A z \in S : z \in Nat
        BY <1>1
      <4>2. \A z \in S : z <= y => z <= x
        BY <2>1, <4>1
      <4>3. x \in UpTo(x) /\ x \notin UpTo(y)
        BY <2>1, <4>1
      <4> QED BY <4>2, <4>3
    <3>2. UpTo(y) \in T
      OBVIOUS
    <3>3. UpTo(y) \in SUBSET S /\ UpTo(x) \in SUBSET S
      OBVIOUS
    <3> HIDE DEF UpTo, T
    <3>4. <<UpTo(y), UpTo(x)>> \in StrictSubsetOrdering(S)
      BY <3>1, <3>3 DEF StrictSubsetOrdering
    <3> QED BY <1>4, <1>5, <3>2, <3>4
  <2> QED BY <1>1, <2>1
<1>7. \E z \in S : \A y \in S : z <= y
  BY <1>6
<1> QED BY <1>7 DEF Campaigns!Min

\* Versions go up, and the weights change with them only.
Advances ==
    /\ campaign'.version >= campaign.version
    /\ campaign'.version = campaign.version => campaign'.weights = campaign.weights

LEMMA SameTurn ==
    ASSUME CampaignSetting, CampaignTypes, CampaignTypes', Advances, NEW r \in Requests, TurnOK(r),
           turn'[r] = turn[r]
    PROVE  TurnOK(r)'
<1>1. campaign.version \in Nat /\ campaign'.version \in Nat
  BY VersionsAreInts DEF CampaignTypes
<1>2. CASE turn[r].op = "propose"
  <2>1. turn[r].version \in Nat
    BY <1>2, TurnIdle, VersionsAreInts DEF TurnOK
  <2> QED BY <1>1, <1>2, <2>1, TurnIdle DEF TurnOK, Advances
<1>3. CASE turn[r].op # "propose"
  BY <1>3 DEF TurnOK
<1> QED BY <1>2, <1>3

LEMMA NextTurn ==
    ASSUME CampaignSetting, CampaignTypes, CampaignTypes', Advances, Turns,
           NEW r \in Requests, NEW j, turn' = [turn EXCEPT ![r] = j], TurnOK(r)'
    PROVE  Turns'
<1>1. ASSUME NEW q \in Requests \ {r}
      PROVE  TurnOK(q)'
  <2>1. turn'[q] = turn[q] /\ TurnOK(q)
    BY DEF Turns
  <2> QED BY <2>1, SameTurn
<1> QED BY <1>1 DEF Turns

LEMMA FinishTurn ==
    ASSUME CampaignSetting, CampaignTypes, CampaignTypes', Advances, Turns,
           NEW r \in Requests, Campaigns!Finish(r)
    PROVE  Turns'
<1>1. turn' = [turn EXCEPT ![r] = Campaigns!Idle] /\ turn'[r] = Campaigns!Idle
  BY DEF Campaigns!Finish, Turns
<1> QED BY <1>1, NextTurn DEF TurnOK

\* The requests' own steps, which leave campaign and releases alone.
LEMMA OwnTurnKeepsLive ==
    ASSUME CampaignSetting, LiveInv, NEW r \in Requests,
           NEW j, turn' = [turn EXCEPT ![r] = j], TurnOK(r)', UNCHANGED <<campaign, release>>
    PROVE  LiveInv'
<1>1. CampaignTypes' /\ Proposed'
  BY DEF LiveInv, CampaignTypes, Proposed
<1>2. Advances
  BY VersionsAreInts DEF LiveInv, CampaignTypes, Advances
<1> QED BY <1>1, <1>2, NextTurn DEF LiveInv

LEMMA ReadersKeepLive ==
    ASSUME CampaignSetting, LiveInv, NEW r \in Requests,
           \/ \E u \in Proposers, reviewed \in BOOLEAN : Campaigns!Propose(r, u, reviewed)
           \/ \E u \in Users, v \in Versions, says \in {"approved", "rejected"} : Campaigns!Vote(r, u, v, says)
           \/ Campaigns!Record(r) \/ Campaigns!Count(r) \/ Campaigns!CronReads(r) \/ Campaigns!NextRelease(r)
           \/ Campaigns!Look(r) \/ Campaigns!Crash(r)
           \/ \E w \in Variants : Campaigns!Decide(r, w)
    PROVE  LiveInv'
<1>1. CampaignTypes /\ Turns /\ TurnOK(r) /\ campaign.version \in Nat
  BY VersionsAreInts DEF LiveInv, Turns, CampaignTypes
<1>2. ASSUME NEW u \in Proposers, NEW reviewed \in BOOLEAN, Campaigns!Propose(r, u, reviewed)
      PROVE  LiveInv'
  <2> DEFINE row == [status |-> IF reviewed THEN "pending" ELSE "approved", by |-> u,
                     reviewed |-> reviewed, due |-> FALSE, weights |-> campaign.weights]
             j == [op |-> "propose", version |-> campaign.version + 1, row |-> row]
  <2>1. /\ turn' = [turn EXCEPT ![r] = j] /\ UNCHANGED <<campaign, release>>
        /\ campaign.version < MaxVersion
    BY <1>2 DEF Campaigns!Propose, Campaigns!Begin
  <2>2. row \in Releases /\ row.status = (IF row.reviewed THEN "pending" ELSE "approved")
    BY <1>1 DEF CampaignTypes, Releases, CampaignSetting
  <2>3. campaign.version + 1 \in Versions
    BY <1>1, <2>1, VersionsAreInts DEF CampaignSetting
  <2>4. turn'[r].op = "propose" /\ turn'[r].version = campaign.version + 1 /\ turn'[r].row = row
    BY <1>1, <2>1 DEF Turns
  <2>5. row.weights = campaign.weights
    OBVIOUS
  <2> HIDE DEF row
  <2>6. TurnOK(r)'
    BY <1>1, <2>1, <2>2, <2>3, <2>4, <2>5 DEF TurnOK
  <2> QED BY <2>1, <2>6, OwnTurnKeepsLive
<1>3. ASSUME \E j : turn' = [turn EXCEPT ![r] = j], UNCHANGED <<campaign, release>>,
             \/ turn'[r] = Campaigns!Idle
             \/ turn'[r].op \in {"vote", "count"} /\ turn'[r].version \in Versions
             \/ /\ turn'[r].op = "settle" /\ turn'[r].version \in Versions
                /\ turn'[r].status \in {"pending", "approved", "rejected"}
             \/ turn'[r].op = "cron" /\ turn'[r].todo \in SUBSET Versions /\ turn'[r].todo # {}
             \/ /\ turn'[r].op = "publish" /\ turn'[r].version \in Versions
                /\ turn'[r].todo \in SUBSET Versions
                /\ turn'[r].seen \in Versions /\ turn'[r].seen < turn'[r].version
             \/ turn'[r].op = "look"
             \/ turn'[r].op = "shift" /\ turn'[r].weights \in Shares
      PROVE  LiveInv'
  <2>1. TurnOK(r)'
    BY <1>3 DEF TurnOK
  <2> QED BY <1>3, <2>1, OwnTurnKeepsLive
<1>4. ASSUME NEW u \in Users, NEW v \in Versions, NEW says, Campaigns!Vote(r, u, v, says)
      PROVE  LiveInv'
  <2>1. /\ \E j : turn' = [turn EXCEPT ![r] = j]
        /\ UNCHANGED <<campaign, release>>
        /\ turn'[r].op = "vote" /\ turn'[r].version = v
    BY <1>1, <1>4 DEF Campaigns!Vote, Campaigns!Begin, Turns
  <2> QED BY <1>3, <2>1
<1>5. CASE Campaigns!Record(r)
  <2>1. turn[r].version \in Versions
    BY <1>1, <1>5, TurnIdle DEF TurnOK, Campaigns!Record
  <2>2. /\ \E j : turn' = [turn EXCEPT ![r] = j]
        /\ UNCHANGED <<campaign, release>>
        /\ turn'[r].op = "count" /\ turn'[r].version = turn[r].version
    BY <1>1, <1>5 DEF Campaigns!Record, Turns
  <2> QED BY <1>3, <2>1, <2>2
<1>6. CASE Campaigns!Count(r)
  <2>1. turn[r].version \in Versions
    BY <1>1, <1>6, TurnIdle DEF TurnOK, Campaigns!Count
  <2>2. /\ \E j : turn' = [turn EXCEPT ![r] = j]
        /\ UNCHANGED <<campaign, release>>
        /\ turn'[r].op = "settle" /\ turn'[r].version = turn[r].version
        /\ turn'[r].status = Campaigns!Decision(turn[r].version, turn[r].says)
    BY <1>1, <1>6 DEF Campaigns!Count, Turns
  <2>3. turn'[r].status \in {"pending", "approved", "rejected"}
    BY <2>2 DEF Campaigns!Decision
  <2> QED BY <1>3, <2>1, <2>2, <2>3
<1>7. CASE Campaigns!CronReads(r)
  <2>1. PICK due \in SUBSET Versions : /\ due # {} /\ UNCHANGED <<campaign, release>>
                                       /\ turn' = [turn EXCEPT ![r] = [op |-> "cron", todo |-> due]]
    BY <1>7 DEF Campaigns!CronReads, Campaigns!Begin, Versions
  <2>2. turn'[r].op = "cron" /\ turn'[r].todo = due
    BY <1>1, <2>1 DEF Turns
  <2> QED BY <1>3, <2>1, <2>2
<1>8. CASE Campaigns!NextRelease(r)
  <2>1. turn[r].op = "cron" /\ turn[r].todo \in SUBSET Versions /\ turn[r].todo # {}
    BY <1>1, <1>8, TurnIdle DEF TurnOK, Campaigns!NextRelease
  <2>2. PICK v \in Versions : v = Campaigns!Min(turn[r].todo)
    BY <2>1, LowestIsLeft
  <2>3. PICK rest \in SUBSET Versions : rest = turn[r].todo \ {v}
    BY <2>1
  <2>4. /\ UNCHANGED <<campaign, release>>
        /\ turn' = [turn EXCEPT ![r] =
             IF v > campaign.version
             THEN [op |-> "publish", version |-> v, seen |-> campaign.version, todo |-> rest]
             ELSE IF rest = {} THEN Campaigns!Idle ELSE [op |-> "cron", todo |-> rest]]
    BY <1>8, <2>2, <2>3 DEF Campaigns!NextRelease, Campaigns!Newer
  <2>5. CASE v > campaign.version
    <3>1. /\ \E j : turn' = [turn EXCEPT ![r] = j]
          /\ turn'[r].op = "publish" /\ turn'[r].version = v
          /\ turn'[r].todo = rest /\ turn'[r].seen = campaign.version
      BY <1>1, <2>4, <2>5 DEF Turns
    <3>2. campaign.version \in Versions /\ campaign.version < v
      BY <1>1, <2>5, VersionsAreInts DEF CampaignTypes
    <3> QED BY <1>3, <2>4, <3>1, <3>2
  <2>6. CASE ~(v > campaign.version) /\ rest = {}
    <3>1. turn' = [turn EXCEPT ![r] = Campaigns!Idle] /\ turn'[r] = Campaigns!Idle
      BY <1>1, <2>4, <2>6 DEF Turns
    <3> QED BY <1>3, <2>4, <3>1
  <2>7. CASE ~(v > campaign.version) /\ rest # {}
    <3>1. /\ \E j : turn' = [turn EXCEPT ![r] = j]
          /\ turn'[r].op = "cron" /\ turn'[r].todo = rest
      BY <1>1, <2>4, <2>7 DEF Turns
    <3> QED BY <1>3, <2>4, <2>7, <3>1
  <2> QED BY <2>5, <2>6, <2>7
<1>9. CASE Campaigns!Look(r)
  <2>1. /\ \E j : turn' = [turn EXCEPT ![r] = j]
        /\ UNCHANGED <<campaign, release>> /\ turn'[r].op = "look"
    BY <1>1, <1>9 DEF Campaigns!Look, Campaigns!Begin, Turns
  <2> QED BY <1>3, <2>1
<1>10. CASE Campaigns!Crash(r)
  <2>1. /\ turn' = [turn EXCEPT ![r] = Campaigns!Idle] /\ turn'[r] = Campaigns!Idle
        /\ UNCHANGED <<campaign, release>>
    BY <1>1, <1>10 DEF Campaigns!Crash, Campaigns!Finish, Turns
  <2> QED BY <1>3, <2>1
<1>11. ASSUME NEW w \in Variants, Campaigns!Decide(r, w)
       PROVE  LiveInv'
  <2>1. /\ \E j : turn' = [turn EXCEPT ![r] = j]
        /\ UNCHANGED <<campaign, release>>
        /\ turn'[r].op = "shift" /\ turn'[r].weights = campaign.weights
    BY <1>1, <1>11 DEF Campaigns!Decide, Turns
  <2>2. campaign.weights \in Shares
    BY <1>1 DEF CampaignTypes
  <2> QED BY <1>3, <2>1, <2>2
<1> QED BY <1>2, <1>4, <1>5, <1>6, <1>7, <1>8, <1>9, <1>10, <1>11

\* Whatever moves the campaign on leaves what was proposed for an earlier version behind.
LEMMA AdvancesKeepProposed ==
    ASSUME CampaignSetting, CampaignTypes, CampaignTypes', Proposed, Advances,
           \A v \in Versions : release'[v].status = "none" <=> release[v].status = "none",
           \A v \in Versions : release'[v].weights = release[v].weights
    PROVE  Proposed'
<1>1. campaign.version \in Nat /\ campaign'.version \in Nat /\ Versions \subseteq Nat
  BY VersionsAreInts DEF CampaignTypes
<1> SUFFICES ASSUME NEW v \in Versions, release'[v].status # "none"
             PROVE  /\ v <= campaign'.version + 1
                    /\ v = campaign'.version + 1 => release'[v].weights = campaign'.weights
  BY DEF Proposed
<1>2. /\ v \in Nat /\ v <= campaign.version + 1 /\ release'[v].weights = release[v].weights
      /\ v = campaign.version + 1 => release[v].weights = campaign.weights
  BY <1>1 DEF Proposed
<1>3. CASE campaign'.version = campaign.version
  BY <1>2, <1>3 DEF Advances
<1>4. CASE campaign'.version > campaign.version
  BY <1>1, <1>2, <1>4
<1> QED BY <1>1, <1>3, <1>4 DEF Advances

LEMMA InsertKeepsLive ==
    ASSUME CampaignSetting, LiveInv, NEW r \in Requests, Campaigns!InsertRelease(r)
    PROVE  LiveInv'
<1>1. /\ turn[r].op = "propose" /\ Campaigns!Finish(r) /\ UNCHANGED campaign
      /\ release' = IF release[turn[r].version].status = "none"
                    THEN [release EXCEPT ![turn[r].version] = turn[r].row] ELSE release
  BY DEF Campaigns!InsertRelease
<1>2. CampaignTypes /\ Turns /\ Proposed /\ TurnOK(r)
  BY DEF LiveInv, Turns
<1>3. /\ turn[r].version \in Versions /\ turn[r].row \in Releases
      /\ turn[r].version <= campaign.version + 1
      /\ turn[r].version = campaign.version + 1 => turn[r].row.weights = campaign.weights
  BY <1>1, <1>2, TurnIdle DEF TurnOK
<1>4. Advances
  BY <1>1, <1>2, VersionsAreInts DEF CampaignTypes, Advances
<1>5. release' \in [Versions -> Releases]
  BY <1>1, <1>2, <1>3 DEF CampaignTypes
<1>6. \A v \in Versions : release'[v] = release[v] \/ (v = turn[r].version /\ release'[v] = turn[r].row)
  <2>1. CASE release' = [release EXCEPT ![turn[r].version] = turn[r].row]
    BY <1>2, <1>3, <2>1 DEF CampaignTypes
  <2>2. CASE release' = release
    BY <2>2
  <2> QED BY <1>1, <2>1, <2>2
<1>7. Proposed'
  BY <1>1, <1>2, <1>3, <1>6 DEF Proposed
<1>8. CampaignTypes'
  BY <1>1, <1>2, <1>5 DEF CampaignTypes
<1> QED BY <1>1, <1>2, <1>4, <1>7, <1>8, FinishTurn DEF LiveInv

\* One status changes, and no campaign.
LEMMA StatusKeepsLive ==
    ASSUME CampaignSetting, LiveInv,
           (\E v \in Versions : Campaigns!FallDue(v)) \/ (\E r \in Requests : Campaigns!Settle(r))
    PROVE  LiveInv'
<1>1. CampaignTypes /\ Turns /\ Proposed
  BY DEF LiveInv
<1>2. ASSUME NEW v \in Versions, NEW row \in Releases,
             release[v].status # "none", row.status # "none", row.weights = release[v].weights,
             release' = [release EXCEPT ![v] = row], UNCHANGED campaign
      PROVE  CampaignTypes' /\ Proposed' /\ Advances
  <2>1. CampaignTypes'
    BY <1>1, <1>2 DEF CampaignTypes
  <2>2. Advances
    BY <1>1, <1>2, VersionsAreInts DEF CampaignTypes, Advances
  <2>3. \A w \in Versions : /\ release'[w].status = "none" <=> release[w].status = "none"
                            /\ release'[w].weights = release[w].weights
    BY <1>1, <1>2 DEF CampaignTypes
  <2> QED BY <1>1, <2>1, <2>2, <2>3, AdvancesKeepProposed
<1>3. ASSUME NEW v \in Versions, Campaigns!FallDue(v)
      PROVE  LiveInv'
  <2> DEFINE row == [release[v] EXCEPT !.due = TRUE]
  <2>1. /\ release[v].status = "approved" /\ release' = [release EXCEPT ![v] = row]
        /\ UNCHANGED <<campaign, turn>>
    BY <1>3 DEF Campaigns!FallDue
  <2>2. row \in Releases /\ row.status = "approved" /\ row.weights = release[v].weights
    BY <1>1, <2>1 DEF CampaignTypes, Releases
  <2> HIDE DEF row
  <2>3. CampaignTypes' /\ Proposed' /\ Advances
    BY <1>2, <2>1, <2>2
  <2>4. ASSUME NEW q \in Requests
        PROVE  TurnOK(q)'
    <3>1. turn'[q] = turn[q] /\ TurnOK(q)
      BY <1>1, <2>1 DEF Turns
    <3> QED BY <1>1, <2>3, <3>1, SameTurn
  <2> QED BY <1>1, <2>1, <2>3, <2>4 DEF LiveInv, Turns
<1>4. ASSUME NEW r \in Requests, Campaigns!Settle(r)
      PROVE  LiveInv'
  <2>1. /\ turn[r].op = "settle" /\ Campaigns!Finish(r) /\ UNCHANGED campaign
        /\ release' = IF release[turn[r].version].status = "pending"
                      THEN [release EXCEPT ![turn[r].version].status = turn[r].status] ELSE release
    BY <1>4 DEF Campaigns!Settle
  <2>2. turn[r].version \in Versions /\ turn[r].status \in {"pending", "approved", "rejected"}
    BY <1>1, <2>1, TurnIdle DEF Turns, TurnOK
  <2>3. PICK v \in Versions, status \in {"pending", "approved", "rejected"} :
          v = turn[r].version /\ status = turn[r].status
    BY <2>2
  <2>4. CampaignTypes' /\ Proposed' /\ Advances
    <3>1. CASE release[v].status = "pending"
      <4> DEFINE row == [release[v] EXCEPT !.status = status]
      <4>1. release' = [release EXCEPT ![v] = row]
        BY <2>1, <2>3, <3>1
      <4>2. row \in Releases /\ row.status # "none" /\ row.weights = release[v].weights
        BY <1>1 DEF CampaignTypes, Releases
      <4> HIDE DEF row
      <4> QED BY <1>2, <2>1, <3>1, <4>1, <4>2
    <3>2. CASE release' = release
      <4>1. CampaignTypes' /\ Proposed'
        BY <1>1, <2>1, <3>2 DEF CampaignTypes, Proposed
      <4>2. Advances
        BY <1>1, <2>1, VersionsAreInts DEF CampaignTypes, Advances
      <4> QED BY <4>1, <4>2
    <3> QED BY <2>1, <2>3, <3>1, <3>2
  <2> QED BY <1>1, <2>1, <2>4, FinishTurn DEF LiveInv
<1> QED BY <1>3, <1>4

\* Publishing: the claim, and the campaign if it is still at the version seen, which
\* is the one before the release's.
GoesOutLive(w) ==
    release[w].status # "published" /\ release'[w].status = "published"
      => release[w].weights = campaign'.weights /\ campaign'.version = w

LEMMA PublishKeepsLive ==
    ASSUME CampaignSetting, LiveInv, NEW r \in Requests, Campaigns!Publish(r)
    PROVE  /\ LiveInv'
           /\ campaign'.version >= campaign.version
           /\ \A v \in Versions :
                release[v].status # "published" /\ release'[v].status = "published"
                  => release[v].weights = campaign'.weights /\ campaign'.version = v
<1>1. CampaignTypes /\ Turns /\ Proposed /\ TurnOK(r) /\ turn[r].op = "publish"
  BY DEF LiveInv, Turns, Campaigns!Publish
<1>2. /\ turn[r].version \in Versions /\ turn[r].todo \in SUBSET Versions
      /\ turn[r].seen \in Versions /\ turn[r].seen < turn[r].version
  BY <1>1, TurnIdle DEF TurnOK
<1>3. PICK v \in Versions, seen \in Versions, todo \in SUBSET Versions :
        v = turn[r].version /\ seen = turn[r].seen /\ todo = turn[r].todo
  BY <1>2
<1>4. campaign.version \in Nat /\ v \in Nat /\ seen \in Nat /\ seen < v /\ Versions \subseteq Nat
  BY <1>1, <1>2, <1>3, VersionsAreInts DEF CampaignTypes
<1>5. ASSUME release[v].status = "approved", campaign.version = seen,
             release' = [release EXCEPT ![v].status = "published"],
             campaign' = [campaign EXCEPT !.version = v, !.status = "running"]
      PROVE  CampaignTypes' /\ Proposed' /\ Advances /\ (\A w \in Versions : GoesOutLive(w))
  <2>1. v = campaign.version + 1 /\ release[v].weights = campaign.weights
    BY <1>1, <1>4, <1>5 DEF Proposed
  <2>2. campaign'.version = v /\ campaign'.weights = campaign.weights
    BY <1>1, <1>5 DEF CampaignTypes
  <2>3. CampaignTypes'
    BY <1>1, <1>5 DEF CampaignTypes, Releases
  <2>4. \A w \in Versions : /\ release'[w].status = "none" <=> release[w].status = "none"
                            /\ release'[w].weights = release[w].weights
                            /\ w # v => release'[w] = release[w]
    BY <1>1, <1>5 DEF CampaignTypes, Releases
  <2>5. Advances
    BY <1>4, <2>1, <2>2 DEF Advances
  <2>6. Proposed'
    BY <1>1, <2>3, <2>4, <2>5, AdvancesKeepProposed
  <2>7. \A w \in Versions : GoesOutLive(w)
    BY <2>1, <2>2, <2>4 DEF GoesOutLive
  <2> QED BY <2>3, <2>5, <2>6, <2>7
<1>6. ASSUME UNCHANGED <<release, campaign>>
      PROVE  CampaignTypes' /\ Proposed' /\ Advances /\ (\A w \in Versions : GoesOutLive(w))
  <2>1. CampaignTypes' /\ Proposed' /\ Advances
    BY <1>1, <1>4, <1>6 DEF CampaignTypes, Proposed, Advances
  <2>2. \A w \in Versions : GoesOutLive(w)
    BY <1>6 DEF GoesOutLive
  <2> QED BY <2>1, <2>2
<1>7. CampaignTypes' /\ Proposed' /\ Advances /\ (\A w \in Versions : GoesOutLive(w))
  <2> QED BY <1>3, <1>5, <1>6 DEF Campaigns!Publish, Campaigns!UnchangedSince
<1>8. Turns'
  <2>1. \/ turn' = [turn EXCEPT ![r] = Campaigns!Idle]
        \/ todo # {} /\ turn' = [turn EXCEPT ![r] = [op |-> "cron", todo |-> todo]]
    BY <1>3 DEF Campaigns!Publish
  <2>2. \/ turn'[r] = Campaigns!Idle
        \/ turn'[r].op = "cron" /\ turn'[r].todo = todo /\ todo # {}
    BY <1>1, <2>1 DEF Turns
  <2>3. TurnOK(r)'
    BY <2>2 DEF TurnOK
  <2>4. PICK j : turn' = [turn EXCEPT ![r] = j]
    BY <2>1
  <2> QED BY <1>1, <1>7, <2>3, <2>4, NextTurn
<1> QED BY <1>7, <1>8 DEF LiveInv, Advances, GoesOutLive

LEMMA ShiftKeepsLive ==
    ASSUME CampaignSetting, LiveInv, NEW r \in Requests, Campaigns!Shift(r)
    PROVE  LiveInv'
<1>1. CampaignTypes /\ Turns /\ Proposed /\ TurnOK(r) /\ turn[r].op = "shift"
      /\ Campaigns!Finish(r) /\ UNCHANGED release
  BY DEF LiveInv, Turns, Campaigns!Shift
<1>2. turn[r].weights \in Shares /\ campaign.version \in Nat
  BY <1>1, TurnIdle, VersionsAreInts DEF TurnOK, CampaignTypes
<1>3. CampaignTypes' /\ Advances
  <2>1. CASE UNCHANGED campaign
    BY <1>1, <1>2, <2>1 DEF CampaignTypes, Advances
  <2>2. CASE /\ campaign.version < MaxVersion
             /\ campaign' = [campaign EXCEPT !.version = @ + 1,
                               !.weights[Control] = turn[r].weights[Control] - 1,
                               !.weights[turn[r].to] = turn[r].weights[turn[r].to] + 1]
    <3> DEFINE less == [campaign.weights EXCEPT ![Control] = turn[r].weights[Control] - 1]
               more == [less EXCEPT ![turn[r].to] = turn[r].weights[turn[r].to] + 1]
    <3>1. less \in Shares
      BY <1>1, <1>2 DEF CampaignTypes, Shares, CampaignSetting
    <3>2. more \in Shares
      <4>1. turn[r].to \in Variants => turn[r].weights[turn[r].to] + 1 \in Int
        BY <1>2 DEF Shares
      <4> HIDE DEF less
      <4> QED BY <3>1, <4>1 DEF Shares
    <3>3. campaign'.version = campaign.version + 1 /\ campaign'.weights = more
          /\ campaign'.status = campaign.status
          /\ campaign' = [campaign EXCEPT !.version = @ + 1, !.weights = more]
      BY <1>1, <2>2 DEF CampaignTypes
    <3>4. campaign.version + 1 \in Versions
      BY <1>2, <2>2, VersionsAreInts DEF CampaignSetting
    <3> HIDE DEF more
    <3>5. CampaignTypes'
      BY <1>1, <3>2, <3>3, <3>4 DEF CampaignTypes
    <3>6. Advances
      BY <1>2, <3>3 DEF Advances
    <3> QED BY <3>5, <3>6
  <2> QED BY <2>1, <2>2 DEF Campaigns!Shift
<1> QED BY <1>1, <1>3, AdvancesKeepProposed, FinishTurn DEF LiveInv

LEMMA EditsKeepLive ==
    ASSUME CampaignSetting, LiveInv,
           \/ \E status \in {"running", "paused"} : Campaigns!Edit(status)
           \/ Campaigns!Start \/ Campaigns!CooldownEnds
    PROVE  LiveInv'
<1>1. CampaignTypes /\ Turns /\ Proposed /\ UNCHANGED <<release, turn>> /\ campaign.version \in Nat
  BY VersionsAreInts DEF LiveInv, CampaignTypes, Campaigns!Edit, Campaigns!Start, Campaigns!CooldownEnds
<1>2. CampaignTypes' /\ Advances
  <2>1. ASSUME NEW status \in {"running", "paused"}, Campaigns!Edit(status)
        PROVE  CampaignTypes' /\ Advances
    <3>1. /\ campaign.version < MaxVersion
          /\ campaign' = [campaign EXCEPT !.version = @ + 1, !.status = status]
      BY <2>1 DEF Campaigns!Edit
    <3>2. campaign.version + 1 \in Versions
      BY <1>1, <3>1, VersionsAreInts DEF CampaignSetting
    <3>3. /\ campaign'.version = campaign.version + 1 /\ campaign'.status = status
          /\ campaign'.weights = campaign.weights
          /\ campaign' = [version |-> campaign'.version, status |-> campaign'.status, weights |-> campaign'.weights]
      BY <1>1, <3>1 DEF CampaignTypes
    <3>4. CampaignTypes'
      BY <1>1, <3>2, <3>3 DEF CampaignTypes
    <3>5. Advances
      BY <1>1, <3>3 DEF Advances
    <3> QED BY <3>4, <3>5
  <2>2. CASE Campaigns!Start
    BY <1>1, <2>2 DEF Campaigns!Start, CampaignTypes, Advances
  <2>3. CASE Campaigns!CooldownEnds
    BY <1>1, <2>3 DEF Campaigns!CooldownEnds, CampaignTypes, Advances
  <2> QED BY <2>1, <2>2, <2>3
<1>3. ASSUME NEW q \in Requests
      PROVE  TurnOK(q)'
  <2>1. turn'[q] = turn[q] /\ TurnOK(q)
    BY <1>1 DEF Turns
  <2> QED BY <1>1, <1>2, <2>1, SameTurn
<1> QED BY <1>1, <1>2, <1>3, AdvancesKeepProposed DEF LiveInv, Turns

LEMMA LiveStep == CampaignSetting /\ LiveInv /\ [Campaigns!Next]_Campaigns!vars => LiveInv'
<1> SUFFICES ASSUME CampaignSetting, LiveInv, [Campaigns!Next]_Campaigns!vars
             PROVE  LiveInv'
  OBVIOUS
<1>1. CASE UNCHANGED Campaigns!vars
  <2>1. UNCHANGED <<campaign, release, turn>>
    BY <1>1 DEF Campaigns!vars
  <2> QED BY <2>1 DEF LiveInv, CampaignTypes, Turns, TurnOK, Proposed
<1>2. CASE Campaigns!Next
  BY <1>2, ReadersKeepLive, InsertKeepsLive, StatusKeepsLive, PublishKeepsLive, ShiftKeepsLive, EditsKeepLive
     DEF Campaigns!Next, Versions
<1> QED BY <1>1, <1>2

LEMMA LiveStarts == CampaignSetting /\ Campaigns!Init => LiveInv
<1> SUFFICES ASSUME CampaignSetting, Campaigns!Init
             PROVE  LiveInv
  OBVIOUS
<1>1. /\ campaign = [version |-> 1, status |-> "paused", weights |-> Weights]
      /\ release = [v \in Versions |-> Campaigns!NoRelease]
      /\ turn = [r \in Requests |-> Campaigns!Idle]
  BY DEF Campaigns!Init, Versions
<1>2. Campaigns!NoRelease \in Releases /\ Campaigns!NoRelease.status = "none"
  BY DEF Campaigns!NoRelease, Releases, CampaignSetting, Shares
<1>3. 1 \in Versions /\ Weights \in Shares
  BY VersionsAreInts DEF CampaignSetting, Shares
<1> QED BY <1>1, <1>2, <1>3 DEF LiveInv, CampaignTypes, Turns, TurnOK, Proposed

\* Nothing but the transaction that publishes marks a release as published, or sets
\* the version but to count it up.
LEMMA PublishedAsLive ==
    ASSUME CampaignSetting, LiveInv, Campaigns!Next
    PROVE  Campaigns!PublishesWhatIsLive
<1>1. CampaignTypes /\ Turns /\ campaign.version \in Nat
  BY VersionsAreInts DEF LiveInv, CampaignTypes
<1> DEFINE Quiet == /\ campaign'.version >= campaign.version
                    /\ \A v \in Versions : release'[v].status = "published" => release[v].status = "published"
<1>2. ASSUME UNCHANGED <<campaign, release>>
      PROVE  Quiet
  BY <1>1, <1>2
<1>3. ASSUME NEW r \in Requests, Campaigns!InsertRelease(r)
      PROVE  Quiet
  <2>1. /\ turn[r].op = "propose" /\ UNCHANGED campaign
        /\ release' = IF release[turn[r].version].status = "none"
                      THEN [release EXCEPT ![turn[r].version] = turn[r].row] ELSE release
    BY <1>3 DEF Campaigns!InsertRelease
  <2>2. turn[r].row.status # "published"
    BY <1>1, <2>1, TurnIdle DEF Turns, TurnOK
  <2> QED BY <1>1, <2>1, <2>2 DEF CampaignTypes
<1>4. ASSUME NEW v \in Versions, Campaigns!FallDue(v)
      PROVE  Quiet
  BY <1>1, <1>4 DEF Campaigns!FallDue, CampaignTypes, Releases
<1>5. ASSUME NEW r \in Requests, Campaigns!Settle(r)
      PROVE  Quiet
  <2>1. /\ turn[r].op = "settle" /\ UNCHANGED campaign
        /\ release' = IF release[turn[r].version].status = "pending"
                      THEN [release EXCEPT ![turn[r].version].status = turn[r].status] ELSE release
    BY <1>5 DEF Campaigns!Settle
  <2>2. turn[r].status # "published"
    BY <1>1, <2>1, TurnIdle DEF Turns, TurnOK
  <2> QED BY <1>1, <2>1, <2>2 DEF CampaignTypes, Releases
<1>6. ASSUME NEW r \in Requests, Campaigns!Shift(r)
      PROVE  Quiet
  BY <1>1, <1>6 DEF Campaigns!Shift, CampaignTypes
<1>7. ASSUME NEW status \in {"running", "paused"}, Campaigns!Edit(status)
      PROVE  Quiet
  BY <1>1, <1>7 DEF Campaigns!Edit, CampaignTypes
<1>8. ASSUME Campaigns!Start
      PROVE  Quiet
  <2>1. release' = release /\ campaign' = [campaign EXCEPT !.status = "running"]
    BY <1>8 DEF Campaigns!Start
  <2> QED BY <1>1, <2>1 DEF CampaignTypes
<1>9. ASSUME NEW r \in Requests, Campaigns!Publish(r)
      PROVE  Campaigns!PublishesWhatIsLive
  BY <1>9, PublishKeepsLive DEF Campaigns!PublishesWhatIsLive, Versions
<1>10. CASE \E r \in Requests :
             \/ \E u \in Proposers, reviewed \in BOOLEAN : Campaigns!Propose(r, u, reviewed)
             \/ \E u \in Users, v \in Versions, says \in {"approved", "rejected"} : Campaigns!Vote(r, u, v, says)
             \/ Campaigns!Record(r) \/ Campaigns!Count(r) \/ Campaigns!CronReads(r) \/ Campaigns!NextRelease(r)
             \/ Campaigns!Look(r) \/ Campaigns!Crash(r)
             \/ \E w \in Variants : Campaigns!Decide(r, w)
  <2>1. UNCHANGED <<campaign, release>>
    BY <1>10 DEF Campaigns!Propose, Campaigns!Vote, Campaigns!Record, Campaigns!Count, Campaigns!CronReads,
       Campaigns!NextRelease, Campaigns!Look, Campaigns!Crash, Campaigns!Decide
  <2> QED BY <1>2, <2>1 DEF Campaigns!PublishesWhatIsLive, Versions
<1>11. ASSUME Campaigns!CooldownEnds
       PROVE  Quiet
  <2>1. UNCHANGED <<campaign, release>>
    BY <1>11 DEF Campaigns!CooldownEnds
  <2> QED BY <1>2, <2>1
<1>12. Quiet => Campaigns!PublishesWhatIsLive
  BY DEF Campaigns!PublishesWhatIsLive, Versions
<1> HIDE DEF Quiet
<1> QED BY <1>2, <1>3, <1>4, <1>5, <1>6, <1>7, <1>8, <1>9, <1>10, <1>11, <1>12
        DEF Campaigns!Next, Versions

\* A release is a copy of the variants which publishing does not apply, so that it
\* is published only for the version next to the one it was copied at: whatever
\* proposals, edits, shifts of traffic and overlapping runs of the cron come
\* between, what goes out as a release is what is live, and versions never go back.
THEOREM PublishedIsLive ==
    ASSUME CampaignSetting
    PROVE  Campaigns!Spec => Campaigns!PublishedIsLive
<1>1. Campaigns!Init => LiveInv
  BY LiveStarts
<1>2. LiveInv /\ [Campaigns!Next]_Campaigns!vars => LiveInv'
  BY LiveStep
<1>3. LiveInv /\ [Campaigns!Next]_Campaigns!vars => [Campaigns!PublishesWhatIsLive]_Campaigns!vars
  BY PublishedAsLive
<1> QED BY <1>1, <1>2, <1>3, PTL DEF Campaigns!Spec, Campaigns!PublishedIsLive

(***************************************************************************)
(* The quorum of a release.                                                *)
(***************************************************************************)
Ballots == {"none", "pending", "approved", "rejected"}
Backing(v) == Campaigns!Enough(Campaigns!Approving(v))
Voting(r) == turn[r].op = "vote"

\* A vote under way is of a reviewer who has not voted yet, on a release of somebody
\* else; an approval about to be written was counted, and the votes still add up to it.
BallotOK(r) ==
    /\ Voting(r) =>
         /\ turn[r].by \in Campaigns!Reviewers /\ turn[r].says \in Ballots
         /\ vote[turn[r].version][turn[r].by] = "pending"
         /\ release[turn[r].version].status # "none" /\ release[turn[r].version].by # turn[r].by
    /\ turn[r].op = "settle" /\ turn[r].status = "approved" => Backing(turn[r].version)

BallotTypes == vote \in [Versions -> [Campaigns!Reviewers -> Ballots]]
BallotsUnderWay == \A r \in Requests : BallotOK(r)
OneVoteEach == \A r, q \in Requests : Voting(r) /\ Voting(q) /\ turn[r].by = turn[q].by => r = q
NobodyOwn ==
    \A v \in Versions, u \in Campaigns!Reviewers :
        vote[v][u] = "approved" => release[v].status # "none" /\ release[v].by # u
Backed == \A v \in Versions :
    release[v].reviewed /\ release[v].status \in {"approved", "published"} => Backing(v)
QuorumInv == BallotTypes /\ BallotsUnderWay /\ OneVoteEach /\ NobodyOwn /\ Backed

LEMMA CountsAlike == \A S : Campaigns!Cardinality(S) = Cardinality(S)
BY DEF Campaigns!Cardinality, Cardinality, Campaigns!IsFiniteSet, IsFiniteSet

\* More approvals are still enough.
LEMMA MoreIsEnough ==
    ASSUME CampaignSetting, NEW T \in SUBSET Users, NEW S \in SUBSET T, Campaigns!Enough(S)
    PROVE  Campaigns!Enough(T)
<1>1. IsFiniteSet(T) /\ IsFiniteSet(S) /\ Cardinality(S) <= Cardinality(T)
  BY FS_Subset DEF CampaignSetting
<1>2. Cardinality(S) \in Nat /\ Cardinality(T) \in Nat
  BY <1>1, FS_CardinalityType
<1>3. Campaigns!Quorum \in Nat
  <2>1. IsFiniteSet({"owner"}) /\ IsFiniteSet({"owner"} \cup {"admin"})
    BY FS_Singleton, FS_AddElement
  <2>2. {"owner"} \cup {"admin"} = {"owner", "admin"}
    OBVIOUS
  <2>3. IsFiniteSet(Campaigns!Roles)
    BY <2>1, <2>2 DEF Campaigns!Roles
  <2> QED BY <2>3, FS_CardinalityType, CountsAlike DEF Campaigns!Quorum
<1>4. Cardinality(S) >= Campaigns!Quorum /\ Campaigns!Roles \subseteq {RoleOf[u] : u \in S}
  BY CountsAlike DEF Campaigns!Enough
<1>5. Cardinality(T) >= Campaigns!Quorum
  BY <1>1, <1>2, <1>3, <1>4
<1>6. Campaigns!Roles \subseteq {RoleOf[u] : u \in T}
  BY <1>4
<1> QED BY <1>5, <1>6, CountsAlike DEF Campaigns!Enough

\* No approval is taken back: whatever had its quorum has it still.
ApprovalsStay ==
    \A v \in Versions, u \in Campaigns!Reviewers : vote[v][u] = "approved" => vote'[v][u] = "approved"
LEMMA BackingStays ==
    ASSUME CampaignSetting, ApprovalsStay, NEW v \in Versions, Backing(v)
    PROVE  Backing(v)'
<1>1. Campaigns!Approving(v) \subseteq Campaigns!Approving(v)'
  BY DEF ApprovalsStay, Campaigns!Approving
<1>2. Campaigns!Approving(v)' \in SUBSET Users
  BY DEF Campaigns!Approving, Campaigns!Reviewers
<1>3. PICK S \in SUBSET Users, T \in SUBSET Users :
        S = Campaigns!Approving(v) /\ T = Campaigns!Approving(v)'
  BY <1>1, <1>2
<1>4. Campaigns!Enough(S)
  BY <1>3 DEF Backing
<1>5. Campaigns!Enough(T)
  BY <1>1, <1>3, <1>4, MoreIsEnough
<1> QED BY <1>3, <1>5 DEF Backing, Campaigns!Enough

\* A step that starts no vote and decides on nothing that is not backed.
LEMMA QuietKeepsQuorum ==
    ASSUME CampaignSetting, LiveInv, QuorumInv, UNCHANGED vote,
           \A v \in Versions : /\ release'[v].status = "none" <=> release[v].status = "none"
                               /\ release'[v].by = release[v].by,
           Backed',
           \A q \in Requests : \/ turn'[q] = turn[q]
                               \/ /\ turn'[q].op # "vote"
                                  /\ turn'[q].op = "settle" =>
                                        /\ turn'[q].version \in Versions
                                        /\ turn'[q].status = "approved" => Backing(turn'[q].version)
    PROVE  QuorumInv'
<1>1. BallotTypes' /\ NobodyOwn'
  BY DEF QuorumInv, BallotTypes, NobodyOwn
<1>2. \A v : Backing(v) <=> Backing(v)'
  BY DEF Backing, Campaigns!Enough, Campaigns!Approving
<1>3. OneVoteEach'
  BY DEF QuorumInv, OneVoteEach, Voting
<1>4. ASSUME NEW q \in Requests
      PROVE  BallotOK(q)'
  <2>1. CASE turn'[q] = turn[q]
    <3>1. BallotOK(q) /\ TurnOK(q)
      BY DEF QuorumInv, BallotsUnderWay, LiveInv, Turns
    <3>2. Voting(q) => turn[q].version \in Versions
      BY <3>1, TurnIdle DEF TurnOK, Voting
    <3>3. turn[q].op = "settle" => turn[q].op # "vote"
      OBVIOUS
    <3> QED BY <1>2, <2>1, <3>1, <3>2 DEF BallotOK, Voting
  <2>2. CASE turn'[q] # turn[q]
    BY <1>2, <2>2 DEF BallotOK, Voting
  <2> QED BY <2>1, <2>2
<1> QED BY <1>1, <1>3, <1>4 DEF QuorumInv, BallotsUnderWay

LEMMA BackedAlike ==
    ASSUME QuorumInv, UNCHANGED vote,
           \A v \in Versions :
               /\ release'[v].reviewed = release[v].reviewed
               /\ release'[v].status = release[v].status \/ release'[v].status \notin {"approved", "published"}
                  \/ release[v].status = "approved" \/ Backing(v)
    PROVE  Backed'
<1>1. \A v : Backing(v) <=> Backing(v)'
  BY DEF Backing, Campaigns!Enough, Campaigns!Approving
<1> QED BY <1>1 DEF QuorumInv, Backed

LEMMA ReadersKeepQuorum ==
    ASSUME CampaignSetting, LiveInv, QuorumInv,
           \/ \E r \in Requests :
                \/ \E u \in Proposers, reviewed \in BOOLEAN : Campaigns!Propose(r, u, reviewed)
                \/ Campaigns!Count(r) \/ Campaigns!CronReads(r) \/ Campaigns!NextRelease(r)
                \/ Campaigns!Look(r) \/ Campaigns!Crash(r) \/ Campaigns!Shift(r)
                \/ \E w \in Variants : Campaigns!Decide(r, w)
           \/ \E status \in {"running", "paused"} : Campaigns!Edit(status)
           \/ Campaigns!Start \/ Campaigns!CooldownEnds
    PROVE  QuorumInv'
<1>1. UNCHANGED <<release, vote>>
  BY DEF Campaigns!Propose, Campaigns!Count, Campaigns!CronReads, Campaigns!NextRelease, Campaigns!Look,
     Campaigns!Crash, Campaigns!Shift, Campaigns!Decide, Campaigns!Edit, Campaigns!Start, Campaigns!CooldownEnds
<1>2. Backed'
  BY <1>1, BackedAlike
<1> DEFINE Quiet(q) ==
      \/ turn'[q] = turn[q]
      \/ /\ turn'[q].op # "vote"
         /\ turn'[q].op = "settle" =>
               /\ turn'[q].version \in Versions
               /\ turn'[q].status = "approved" => Backing(turn'[q].version)
<1>3. Turns
  BY DEF LiveInv
<1>4. ASSUME NEW r \in Requests, NEW j, turn' = [turn EXCEPT ![r] = j], j.op \notin {"vote", "settle"}
      PROVE  \A q \in Requests : Quiet(q)
  BY <1>3, <1>4 DEF Turns
<1>5. ASSUME NEW r \in Requests, Campaigns!Count(r)
      PROVE  \A q \in Requests : Quiet(q)
  <2>1. /\ turn[r].op = "count" /\ turn[r].version \in Versions
        /\ turn' = [turn EXCEPT ![r] = [op |-> "settle", version |-> turn[r].version,
                                        status |-> Campaigns!Decision(turn[r].version, turn[r].says)]]
    BY <1>3, <1>5, TurnIdle DEF Turns, TurnOK, Campaigns!Count
  <2>2. \A q \in Requests : q # r => turn'[q] = turn[q]
    BY <1>3, <2>1 DEF Turns
  <2>3. /\ turn'[r].op = "settle" /\ turn'[r].version = turn[r].version
        /\ turn'[r].status = Campaigns!Decision(turn[r].version, turn[r].says)
    BY <1>3, <2>1 DEF Turns
  <2>4. turn'[r].status = "approved" => Backing(turn'[r].version)
    BY <2>3 DEF Campaigns!Decision, Backing
  <2> QED BY <2>1, <2>2, <2>3, <2>4
<1>6. ASSUME NEW r \in Requests, Campaigns!NextRelease(r)
      PROVE  \A q \in Requests : Quiet(q)
  <2> DEFINE v == Campaigns!Min(turn[r].todo)
             rest == turn[r].todo \ {v}
             j == IF Campaigns!Newer(v)
                  THEN [op |-> "publish", version |-> v, seen |-> campaign.version, todo |-> rest]
                  ELSE IF rest = {} THEN Campaigns!Idle ELSE [op |-> "cron", todo |-> rest]
  <2>1. turn' = [turn EXCEPT ![r] = j]
    BY <1>6 DEF Campaigns!NextRelease
  <2>2. j.op \notin {"vote", "settle"}
    BY TurnIdle
  <2> HIDE DEF j
  <2> QED BY <1>4, <2>1, <2>2
<1>7. ASSUME NEW r \in Requests, Campaigns!Crash(r) \/ Campaigns!Shift(r)
      PROVE  \A q \in Requests : Quiet(q)
  <2>1. turn' = [turn EXCEPT ![r] = Campaigns!Idle]
    BY <1>7 DEF Campaigns!Crash, Campaigns!Shift, Campaigns!Finish
  <2> QED BY <1>4, <2>1, TurnIdle
<1>8. ASSUME NEW r \in Requests, NEW j, Campaigns!Begin(r, j), j.op \notin {"vote", "settle"}
      PROVE  \A q \in Requests : Quiet(q)
  BY <1>4, <1>8 DEF Campaigns!Begin
<1>9. ASSUME NEW r \in Requests,
              \/ \E u \in Proposers, reviewed \in BOOLEAN : Campaigns!Propose(r, u, reviewed)
              \/ Campaigns!CronReads(r) \/ Campaigns!Look(r)
       PROVE  \A q \in Requests : Quiet(q)
  <2>1. \E j : Campaigns!Begin(r, j) /\ j.op \notin {"vote", "settle"}
    <3>1. ASSUME NEW u \in Proposers, NEW reviewed \in BOOLEAN, Campaigns!Propose(r, u, reviewed)
          PROVE  \E j : Campaigns!Begin(r, j) /\ j.op \notin {"vote", "settle"}
      BY <3>1 DEF Campaigns!Propose
    <3>2. CASE Campaigns!CronReads(r)
      BY <3>2 DEF Campaigns!CronReads
    <3>3. CASE Campaigns!Look(r)
      BY <3>3 DEF Campaigns!Look
    <3> QED BY <1>9, <3>1, <3>2, <3>3
  <2> QED BY <1>8, <2>1
<1>10. ASSUME NEW r \in Requests, NEW w \in Variants, Campaigns!Decide(r, w)
       PROVE  \A q \in Requests : Quiet(q)
  <2> DEFINE j == [op |-> "shift", to |-> w, seen |-> campaign.version, weights |-> campaign.weights]
  <2>1. turn' = [turn EXCEPT ![r] = j]
    BY <1>10 DEF Campaigns!Decide
  <2>2. j.op = "shift"
    OBVIOUS
  <2> HIDE DEF j
  <2> QED BY <1>4, <2>1, <2>2
<1>11. ASSUME UNCHANGED turn
      PROVE  \A q \in Requests : Quiet(q)
  BY <1>11
<1>12. \A q \in Requests : Quiet(q)
  <2> HIDE DEF Quiet
  <2> QED BY <1>5, <1>6, <1>7, <1>11, <1>9, <1>10 DEF Campaigns!Edit, Campaigns!Start, Campaigns!CooldownEnds
<1> QED BY <1>1, <1>2, <1>12, QuietKeepsQuorum

\* A release goes from pending to approved by what was counted, and from approved on.
LEMMA StatusKeepsQuorum ==
    ASSUME CampaignSetting, LiveInv, QuorumInv,
           \/ \E v \in Versions : Campaigns!FallDue(v)
           \/ \E r \in Requests : Campaigns!Settle(r) \/ Campaigns!Publish(r)
    PROVE  QuorumInv'
<1>1. CampaignTypes /\ Turns /\ UNCHANGED vote
  BY DEF LiveInv, Campaigns!FallDue, Campaigns!Settle, Campaigns!Publish
<1>2. ASSUME NEW v \in Versions, NEW row \in Releases, release' = [release EXCEPT ![v] = row],
             release[v].status \in {"pending", "approved"}, row.status # "none",
             row.by = release[v].by, row.reviewed = release[v].reviewed,
             row.status \in {"approved", "published"} => release[v].status = "approved" \/ Backing(v),
             \A q \in Requests : turn'[q] = turn[q] \/ turn'[q].op \notin {"vote", "settle"}
      PROVE  QuorumInv'
  <2>1. \A w \in Versions : release'[w] = IF w = v THEN row ELSE release[w]
    BY <1>1, <1>2 DEF CampaignTypes
  <2>2. Backed'
    BY <1>1, <1>2, <2>1, BackedAlike
  <2>3. \A w \in Versions : /\ release'[w].status = "none" <=> release[w].status = "none"
                            /\ release'[w].by = release[w].by
    BY <1>2, <2>1
  <2> QED BY <1>1, <1>2, <2>2, <2>3, QuietKeepsQuorum
<1>3. ASSUME UNCHANGED release,
             \A q \in Requests : turn'[q] = turn[q] \/ turn'[q].op \notin {"vote", "settle"}
      PROVE  QuorumInv'
  <2>1. Backed'
    BY <1>1, <1>3, BackedAlike
  <2> QED BY <1>1, <1>3, <2>1, QuietKeepsQuorum
<1>4. ASSUME NEW v \in Versions, Campaigns!FallDue(v)
      PROVE  QuorumInv'
  <2> DEFINE row == [release[v] EXCEPT !.due = TRUE]
  <2>1. /\ release[v].status = "approved" /\ release' = [release EXCEPT ![v] = row] /\ UNCHANGED turn
    BY <1>4 DEF Campaigns!FallDue
  <2>2. /\ row \in Releases /\ row.status = "approved" /\ row.by = release[v].by
        /\ row.reviewed = release[v].reviewed
    BY <1>1, <2>1 DEF CampaignTypes, Releases
  <2> HIDE DEF row
  <2> QED BY <1>2, <2>1, <2>2
<1>5. ASSUME NEW r \in Requests, Campaigns!Settle(r)
      PROVE  QuorumInv'
  <2>1. /\ turn[r].op = "settle" /\ turn' = [turn EXCEPT ![r] = Campaigns!Idle]
        /\ release' = IF release[turn[r].version].status = "pending"
                      THEN [release EXCEPT ![turn[r].version].status = turn[r].status] ELSE release
    BY <1>5 DEF Campaigns!Settle, Campaigns!Finish
  <2>2. turn[r].version \in Versions /\ turn[r].status \in {"pending", "approved", "rejected"}
    BY <1>1, <2>1, TurnIdle DEF Turns, TurnOK
  <2>3. PICK v \in Versions, status \in {"pending", "approved", "rejected"} :
          v = turn[r].version /\ status = turn[r].status
    BY <2>2
  <2>4. status = "approved" => Backing(v)
    BY <2>1, <2>3 DEF QuorumInv, BallotsUnderWay, BallotOK
  <2>5. \A q \in Requests : turn'[q] = turn[q] \/ turn'[q].op \notin {"vote", "settle"}
    BY <1>1, <2>1, TurnIdle DEF Turns
  <2>6. CASE release[v].status = "pending"
    <3> DEFINE row == [release[v] EXCEPT !.status = status]
    <3>1. release' = [release EXCEPT ![v] = row]
      BY <2>1, <2>3, <2>6
    <3>2. /\ row \in Releases /\ row.status = status /\ row.by = release[v].by
          /\ row.reviewed = release[v].reviewed
      BY <1>1 DEF CampaignTypes, Releases
    <3> HIDE DEF row
    <3> QED BY <1>2, <2>4, <2>5, <2>6, <3>1, <3>2
  <2> QED BY <1>3, <2>1, <2>3, <2>5, <2>6
<1>6. ASSUME NEW r \in Requests, Campaigns!Publish(r)
      PROVE  QuorumInv'
  <2>1. /\ turn[r].op = "publish"
        /\ \/ turn' = [turn EXCEPT ![r] = Campaigns!Idle]
           \/ \E todo : turn' = [turn EXCEPT ![r] = [op |-> "cron", todo |-> todo]]
        /\ \/ /\ release[turn[r].version].status = "approved"
              /\ release' = [release EXCEPT ![turn[r].version].status = "published"]
           \/ UNCHANGED release
    BY <1>6 DEF Campaigns!Publish
  <2>2. PICK v \in Versions : v = turn[r].version
    BY <1>1, <2>1, TurnIdle DEF Turns, TurnOK
  <2>3. \A q \in Requests : turn'[q] = turn[q] \/ turn'[q].op \notin {"vote", "settle"}
    <3>1. PICK j : turn' = [turn EXCEPT ![r] = j] /\ j.op \notin {"vote", "settle"}
      BY <2>1, TurnIdle
    <3> QED BY <1>1, <3>1 DEF Turns
  <2>4. CASE /\ release[v].status = "approved"
             /\ release' = [release EXCEPT ![v].status = "published"]
    <3> DEFINE row == [release[v] EXCEPT !.status = "published"]
    <3>1. release' = [release EXCEPT ![v] = row]
      BY <2>4
    <3>2. /\ row \in Releases /\ row.status = "published" /\ row.by = release[v].by
          /\ row.reviewed = release[v].reviewed
      BY <1>1 DEF CampaignTypes, Releases
    <3> HIDE DEF row
    <3> QED BY <1>2, <2>3, <2>4, <3>1, <3>2
  <2> QED BY <1>3, <2>1, <2>2, <2>3, <2>4
<1> QED BY <1>4, <1>5, <1>6

\* A vote is begun by a reviewer who has none under way, on somebody else's release.
LEMMA VoteKeepsQuorum ==
    ASSUME CampaignSetting, ~MindsChange, LiveInv, QuorumInv, NEW r \in Requests,
           NEW u \in Users, NEW v \in Versions, NEW says \in {"approved", "rejected"},
           Campaigns!Vote(r, u, v, says)
    PROVE  QuorumInv'
<1>1. /\ u \in Campaigns!Reviewers /\ release[v].by # u /\ release[v].status = "pending"
      /\ vote[v][u] = "pending" /\ \A q \in Requests : Voting(q) => turn[q].by # u
      /\ turn' = [turn EXCEPT ![r] = [op |-> "vote", version |-> v, by |-> u, says |-> says]]
      /\ UNCHANGED <<release, vote>>
  BY DEF Campaigns!Vote, Campaigns!MayVote, Campaigns!Begin, Voting
<1>2. Turns
  BY DEF LiveInv
<1>3. /\ turn'[r].op = "vote" /\ turn'[r].version = v /\ turn'[r].by = u /\ turn'[r].says = says
      /\ \A q \in Requests : q # r => turn'[q] = turn[q]
  BY <1>1, <1>2 DEF Turns
<1>4. \A w : Backing(w) <=> Backing(w)'
  BY <1>1 DEF Backing, Campaigns!Enough, Campaigns!Approving
<1>5. BallotTypes' /\ NobodyOwn' /\ Backed'
  BY <1>1, <1>4 DEF QuorumInv, BallotTypes, NobodyOwn, Backed
<1>6. OneVoteEach'
  BY <1>1, <1>3 DEF QuorumInv, OneVoteEach, Voting
<1>7. BallotOK(r)'
  BY <1>1, <1>3 DEF BallotOK, Voting, Ballots
<1>8. ASSUME NEW q \in Requests \ {r}
      PROVE  BallotOK(q)'
  <2>1. turn'[q] = turn[q] /\ BallotOK(q)
    BY <1>3 DEF QuorumInv, BallotsUnderWay
  <2> QED BY <1>1, <1>4, <2>1 DEF BallotOK, Voting
<1> QED BY <1>5, <1>6, <1>7, <1>8 DEF QuorumInv, BallotsUnderWay

\* It is recorded over a ballot still open, so that no approval is lost.
LEMMA RecordKeepsQuorum ==
    ASSUME CampaignSetting, LiveInv, QuorumInv, NEW r \in Requests, Campaigns!Record(r)
    PROVE  QuorumInv'
<1>1. /\ Voting(r) /\ release' = release
      /\ vote' = [vote EXCEPT ![turn[r].version][turn[r].by] = turn[r].says]
      /\ turn' = [turn EXCEPT ![r] = [op |-> "count", version |-> turn[r].version, says |-> turn[r].says]]
  BY DEF Campaigns!Record, Voting
<1>2. Turns /\ TurnOK(r) /\ BallotOK(r)
  BY DEF LiveInv, Turns, QuorumInv, BallotsUnderWay
<1>3. turn[r].version \in Versions /\ turn[r].by \in Campaigns!Reviewers
  BY <1>1, <1>2, TurnIdle DEF TurnOK, BallotOK, Voting
<1>4. PICK v \in Versions, u \in Campaigns!Reviewers, says \in Ballots :
        /\ v = turn[r].version /\ u = turn[r].by /\ says = turn[r].says
        /\ vote[v][u] = "pending" /\ release[v].status # "none" /\ release[v].by # u
  BY <1>1, <1>2, <1>3 DEF BallotOK
<1>5. BallotTypes' /\ \A w \in Versions, z \in Campaigns!Reviewers :
        vote'[w][z] = IF w = v /\ z = u THEN says ELSE vote[w][z]
  BY <1>1, <1>4 DEF QuorumInv, BallotTypes
<1>6. ApprovalsStay
  BY <1>4, <1>5 DEF ApprovalsStay
<1>7. \A w \in Versions : Backing(w) => Backing(w)'
  BY <1>6, BackingStays
<1>8. turn'[r].op = "count" /\ \A q \in Requests : q # r => turn'[q] = turn[q]
  BY <1>1, <1>2 DEF Turns
<1>9. NobodyOwn' /\ Backed'
  BY <1>1, <1>4, <1>5, <1>7 DEF QuorumInv, NobodyOwn, Backed
<1>10. OneVoteEach'
  BY <1>8 DEF QuorumInv, OneVoteEach, Voting
<1>11. ASSUME NEW q \in Requests
       PROVE  BallotOK(q)'
  <2>1. CASE q = r
    BY <1>8, <2>1 DEF BallotOK, Voting
  <2>2. CASE q # r
    <3>1. turn'[q] = turn[q] /\ BallotOK(q) /\ TurnOK(q)
      BY <1>8, <2>2 DEF QuorumInv, BallotsUnderWay, LiveInv, Turns
    <3>2. Voting(q) => turn[q].by # u
      BY <1>1, <1>4, <2>2 DEF QuorumInv, OneVoteEach
    <3>3. turn[q].op \in {"vote", "settle"} => turn[q].version \in Versions
      BY <3>1, TurnIdle DEF TurnOK
    <3>4. CASE Voting(q)
      <4>1. turn[q].version \in Versions /\ turn[q].by \in Campaigns!Reviewers
        BY <3>1, <3>3, <3>4 DEF BallotOK, Voting
      <4>2. vote'[turn[q].version][turn[q].by] = "pending"
        BY <1>5, <3>1, <3>2, <3>4, <4>1 DEF BallotOK
      <4> QED BY <1>1, <3>1, <3>4, <4>2 DEF BallotOK, Voting
    <3>5. CASE ~Voting(q)
      BY <1>7, <3>1, <3>3, <3>5 DEF BallotOK, Voting
    <3> QED BY <3>4, <3>5
  <2> QED BY <2>1, <2>2
<1> QED BY <1>5, <1>9, <1>10, <1>11 DEF QuorumInv, BallotsUnderWay

\* Ballots are handed out with the release, when there are none yet.
LEMMA InsertKeepsQuorum ==
    ASSUME CampaignSetting, LiveInv, QuorumInv, NEW r \in Requests, Campaigns!InsertRelease(r)
    PROVE  QuorumInv'
<1>1. /\ turn[r].op = "propose" /\ turn' = [turn EXCEPT ![r] = Campaigns!Idle]
      /\ IF release[turn[r].version].status = "none"
         THEN /\ release' = [release EXCEPT ![turn[r].version] = turn[r].row]
              /\ vote' = IF turn[r].row.reviewed
                         THEN [vote EXCEPT ![turn[r].version] = [u \in Campaigns!Reviewers |-> "pending"]] ELSE vote
         ELSE UNCHANGED <<release, vote>>
  BY DEF Campaigns!InsertRelease, Campaigns!Finish
<1>2. Turns /\ TurnOK(r) /\ CampaignTypes
  BY DEF LiveInv, Turns
<1>3. /\ turn[r].version \in Versions
      /\ turn[r].row.status = IF turn[r].row.reviewed THEN "pending" ELSE "approved"
  BY <1>1, <1>2, TurnIdle DEF TurnOK
<1>4. \A q \in Requests : turn'[q] = turn[q] \/ turn'[q].op \notin {"vote", "settle"}
  BY <1>1, <1>2, TurnIdle DEF Turns
<1>5. CASE UNCHANGED <<release, vote>>
  <2>1. Backed'
    BY <1>5, BackedAlike
  <2> QED BY <1>4, <1>5, <2>1, QuietKeepsQuorum
<1>6. CASE ~UNCHANGED <<release, vote>>
  <2>1. PICK v \in Versions : v = turn[r].version
    BY <1>3
  <2>2. /\ release[v].status = "none" /\ release' = [release EXCEPT ![v] = turn[r].row]
        /\ \/ vote' = [vote EXCEPT ![v] = [u \in Campaigns!Reviewers |-> "pending"]]
           \/ vote' = vote
    BY <1>1, <1>6, <2>1
  <2>3. /\ release'[v] = turn[r].row /\ release'[v].status # "none"
        /\ release'[v].reviewed => release'[v].status = "pending"
        /\ \A w \in Versions : w # v => release'[w] = release[w]
    BY <1>2, <1>3, <2>1, <2>2 DEF CampaignTypes
  <2>4. BallotTypes'
    BY <2>2 DEF QuorumInv, BallotTypes, Ballots
  <2>5. /\ \A w \in Versions : w # v => vote'[w] = vote[w]
        /\ \A u \in Campaigns!Reviewers : vote'[v][u] = "approved" => vote[v][u] = "approved"
    BY <2>2 DEF QuorumInv, BallotTypes
  <2>6. \A u \in Campaigns!Reviewers : vote[v][u] # "approved" /\ vote'[v][u] # "approved"
    BY <2>2, <2>5 DEF QuorumInv, NobodyOwn
  <2>7. ApprovalsStay
    BY <2>5, <2>6 DEF ApprovalsStay
  <2>8. \A w \in Versions : Backing(w) => Backing(w)'
    BY <2>7, BackingStays
  <2>9. NobodyOwn'
    BY <2>3, <2>5, <2>6 DEF QuorumInv, NobodyOwn
  <2>10. Backed'
    BY <2>3, <2>8 DEF QuorumInv, Backed
  <2>11. OneVoteEach'
    BY <1>4 DEF QuorumInv, OneVoteEach, Voting
  <2>12. ASSUME NEW q \in Requests
         PROVE  BallotOK(q)'
    <3>1. CASE turn'[q].op \notin {"vote", "settle"}
      BY <3>1 DEF BallotOK, Voting
    <3>2. CASE turn'[q] = turn[q]
      <4>1. BallotOK(q) /\ TurnOK(q)
        BY DEF QuorumInv, BallotsUnderWay, LiveInv, Turns
      <4>2. turn[q].op \in {"vote", "settle"} => turn[q].version \in Versions
        BY <4>1, TurnIdle DEF TurnOK
      <4>3. Voting(q) => turn[q].version # v
        BY <2>2, <4>1 DEF BallotOK
      <4> QED BY <2>3, <2>5, <2>8, <3>2, <4>1, <4>2, <4>3 DEF BallotOK, Voting
    <3> QED BY <1>4, <3>1, <3>2
  <2> QED BY <2>4, <2>9, <2>10, <2>11, <2>12 DEF QuorumInv, BallotsUnderWay
<1> QED BY <1>5, <1>6

LEMMA QuorumStep ==
    CampaignSetting /\ ~MindsChange /\ LiveInv /\ QuorumInv /\ [Campaigns!Next]_Campaigns!vars => QuorumInv'
<1> SUFFICES ASSUME CampaignSetting, ~MindsChange, LiveInv, QuorumInv, [Campaigns!Next]_Campaigns!vars
             PROVE  QuorumInv'
  OBVIOUS
<1>1. CASE UNCHANGED Campaigns!vars
  <2>1. UNCHANGED <<release, vote, turn>>
    BY <1>1 DEF Campaigns!vars
  <2>2. Backed'
    BY <2>1, BackedAlike
  <2> QED BY <2>1, <2>2, QuietKeepsQuorum
<1>2. ASSUME NEW r \in Requests,
             \E u \in Users, v \in Versions, says \in {"approved", "rejected"} : Campaigns!Vote(r, u, v, says)
      PROVE  QuorumInv'
  BY <1>2, VoteKeepsQuorum
<1>3. CASE Campaigns!Next
  BY <1>2, <1>3, ReadersKeepQuorum, StatusKeepsQuorum, RecordKeepsQuorum, InsertKeepsQuorum
     DEF Campaigns!Next, Versions
<1> QED BY <1>1, <1>3

\* What required reviewers promise: whatever votes, counts and runs of the cron overlap,
\* a reviewed release is approved and published only with enough approvals, of an owner
\* and an admin where there is one, none of them its creator's.  That no reviewer votes
\* twice is needed: an approval taken back while another vote is counted is not seen.
THEOREM PublishedHadQuorum ==
    ASSUME CampaignSetting, ~MindsChange
    PROVE  Campaigns!Spec => []Campaigns!PublishedHadQuorum
<1>1. Campaigns!Init => LiveInv /\ QuorumInv
  <2> SUFFICES ASSUME Campaigns!Init
               PROVE  QuorumInv
    BY LiveStarts
  <2>1. /\ release = [v \in Versions |-> Campaigns!NoRelease]
        /\ vote = [v \in Versions |-> [u \in Campaigns!Reviewers |-> "none"]]
        /\ turn = [r \in Requests |-> Campaigns!Idle]
    BY DEF Campaigns!Init, Versions
  <2>2. ~Campaigns!NoRelease.reviewed
    BY DEF Campaigns!NoRelease
  <2> QED BY <2>1, <2>2, TurnIdle DEF QuorumInv, BallotTypes, BallotsUnderWay, BallotOK, OneVoteEach, NobodyOwn,
          Backed, Voting, Ballots
<1>2. LiveInv /\ QuorumInv /\ [Campaigns!Next]_Campaigns!vars => (LiveInv /\ QuorumInv)'
  BY LiveStep, QuorumStep
<1>3. QuorumInv => Campaigns!PublishedHadQuorum
  <2> SUFFICES ASSUME QuorumInv, NEW v \in Versions,
                      release[v].reviewed, release[v].status \in {"approved", "published"}
               PROVE  Campaigns!Enough(Campaigns!Approving(v) \ {release[v].by})
    BY DEF Campaigns!PublishedHadQuorum, Versions
  <2>1. Campaigns!Approving(v) \ {release[v].by} = Campaigns!Approving(v)
    BY DEF QuorumInv, NobodyOwn, Campaigns!Approving
  <2> QED BY <2>1 DEF QuorumInv, Backed, Backing
<1> QED BY <1>1, <1>2, <1>3, PTL DEF Campaigns!Spec

(***************************************************************************)
(* The traffic of a campaign.                                              *)
(***************************************************************************)
\* Every variant has a share at the start.
TrafficSetting ==
    /\ CampaignSetting
    /\ IsFiniteSet(Variants) /\ Weights \in [Variants -> Nat \ {0}]

Portions == [Variants -> Nat \ {0}]
EachPart(weights) == UNION {{w} \X (1..weights[w]) : w \in Variants}

\* A shift under way was worked out from the weights there are, unless the version
\* has moved on; it takes one from a control that has more, for another variant.
ShiftOK(r) == turn[r].op = "shift" =>
    /\ turn[r].to \in Variants \ {Control}
    /\ turn[r].seen \in Nat /\ turn[r].seen <= campaign.version
    /\ turn[r].seen = campaign.version => turn[r].weights = campaign.weights /\ turn[r].weights[Control] > 1
ShiftsSound == \A r \in Requests : ShiftOK(r)
Kept == campaign.weights \in Portions /\ Campaigns!Total(campaign.weights) = Campaigns!Total(Weights)
TrafficInv == Kept /\ ShiftsSound

LEMMA PartsFinite ==
    ASSUME TrafficSetting, NEW weights \in Portions
    PROVE  IsFiniteSet(EachPart(weights)) /\ Campaigns!Total(weights) = Cardinality(EachPart(weights))
<1> DEFINE parts == {{w} \X (1..weights[w]) : w \in Variants}
           part == [w \in Variants |-> {w} \X (1..weights[w])]
<1>1. IsFiniteSet(parts)
  <2>1. part \in Surjection(Variants, parts)
    BY DEF Surjection
  <2> QED BY <2>1, FS_Surjection DEF TrafficSetting
<1>2. ASSUME NEW w \in Variants
      PROVE  IsFiniteSet({w} \X (1..weights[w]))
  <2>1. weights[w] \in Int /\ 1 \in Int
    BY DEF Portions
  <2>2. IsFiniteSet(1..weights[w]) /\ IsFiniteSet({w})
    BY <2>1, FS_Interval, FS_Singleton
  <2> QED BY <2>2, FS_Product
<1>3. IsFiniteSet(UNION parts)
  <2>1. \A P \in parts : IsFiniteSet(P)
    BY <1>2
  <2> QED BY <1>1, <2>1, FS_UNION
<1>4. EachPart(weights) = UNION parts /\ Campaigns!Total(weights) = Cardinality(UNION parts)
  BY CountsAlike DEF EachPart, Campaigns!Total
<1> QED BY <1>3, <1>4

\* What one variant loses and another gains leaves the total as it was.
LEMMA MovingKeepsTotal ==
    ASSUME TrafficSetting, NEW old \in Portions, NEW new \in Portions, NEW to \in Variants \ {Control},
           new[Control] = old[Control] - 1, new[to] = old[to] + 1,
           \A w \in Variants \ {Control, to} : new[w] = old[w]
    PROVE  Campaigns!Total(new) = Campaigns!Total(old)
<1>1. Control \in Variants /\ old[Control] \in Nat \ {0} /\ old[to] \in Nat
  BY DEF TrafficSetting, CampaignSetting, Portions
<1>2. PICK lost, won : lost = <<Control, old[Control]>> /\ won = <<to, old[to] + 1>>
  OBVIOUS
<1> DEFINE fewer == EachPart(old) \ {lost}
<1>3. /\ \A n \in Int : n \in 1..old[Control] <=> n \in 1..new[Control] \/ n = old[Control]
      /\ \A n \in Int : n \in 1..new[to] <=> n \in 1..old[to] \/ n = old[to] + 1
      /\ old[Control] \in 1..old[Control] /\ old[Control] \notin 1..new[Control]
      /\ old[to] + 1 \notin 1..old[to]
  BY <1>1
<1>4. \A w, n : <<w, n>> \in EachPart(old) <=> w \in Variants /\ n \in 1..old[w]
  BY DEF EachPart
<1>5. \A w, n : <<w, n>> \in EachPart(new) <=> w \in Variants /\ n \in 1..new[w]
  BY DEF EachPart
<1>6. lost \in EachPart(old) /\ won \notin fewer
  BY <1>1, <1>2, <1>3, <1>4
<1>7. EachPart(new) = fewer \cup {won}
  <2>1. \A x \in EachPart(old) : \E w \in Variants : \E n \in Int : x = <<w, n>>
    BY DEF EachPart
  <2>2. \A x \in EachPart(new) : \E w \in Variants : \E n \in Int : x = <<w, n>>
    BY DEF EachPart
  <2>3. won = <<to, old[to] + 1>> /\ to \in Variants /\ old[to] + 1 \in Int
    BY <1>1, <1>2
  <2>4. ASSUME NEW w \in Variants, NEW n \in Int
        PROVE  <<w, n>> \in EachPart(new) <=> <<w, n>> \in fewer \/ <<w, n>> = won
    <3>1. CASE w = Control
      BY <1>2, <1>3, <1>4, <1>5, <3>1
    <3>2. CASE w = to
      BY <1>2, <1>3, <1>4, <1>5, <3>2
    <3>3. CASE w \notin {Control, to}
      <4>1. <<w, n>> # lost /\ <<w, n>> # won
        BY <1>2, <3>3
      <4> QED BY <1>4, <1>5, <3>3, <4>1
    <3> QED BY <3>1, <3>2, <3>3
  <2> HIDE DEF fewer
  <2>5. \A x \in fewer : \E w \in Variants : \E n \in Int : x = <<w, n>>
    BY <2>1 DEF fewer
  <2> QED BY <2>2, <2>3, <2>4, <2>5
<1>8. /\ IsFiniteSet(EachPart(old)) /\ Campaigns!Total(old) = Cardinality(EachPart(old))
      /\ Campaigns!Total(new) = Cardinality(EachPart(new))
  BY PartsFinite
<1>9. IsFiniteSet(fewer) /\ Cardinality(fewer) = Cardinality(EachPart(old)) - 1
  BY <1>6, <1>8, FS_RemoveElement
<1> HIDE DEF fewer
<1>10. Cardinality(fewer \cup {won}) = Cardinality(fewer) + 1
  BY <1>6, <1>9, FS_AddElement
<1>11. Cardinality(EachPart(old)) \in Nat
  BY <1>8, FS_CardinalityType
<1> QED BY <1>7, <1>8, <1>9, <1>10, <1>11

LEMMA ShiftKeepsTraffic ==
    ASSUME TrafficSetting, LiveInv, TrafficInv, NEW r \in Requests, Campaigns!Shift(r)
    PROVE  Kept' /\ (campaign'.version = campaign.version => campaign'.weights = campaign.weights)
<1>1. /\ campaign \in [version : Versions, status : {"running", "paused"}, weights : Shares]
      /\ turn[r].op = "shift" /\ ShiftOK(r) /\ Kept /\ campaign.version \in Nat
  BY VersionsAreInts DEF LiveInv, CampaignTypes, TrafficInv, ShiftsSound, Campaigns!Shift, TrafficSetting
<1>2. CASE UNCHANGED campaign
  BY <1>1, <1>2 DEF Kept
<1>3. CASE /\ campaign.version = turn[r].seen
           /\ campaign' = [campaign EXCEPT !.version = @ + 1,
                             !.weights[Control] = turn[r].weights[Control] - 1,
                             !.weights[turn[r].to] = turn[r].weights[turn[r].to] + 1]
  <2>1. PICK old \in Portions, to \in Variants \ {Control} :
          old = campaign.weights /\ old = turn[r].weights /\ to = turn[r].to /\ old[Control] > 1
    BY <1>1, <1>3 DEF ShiftOK, Kept
  <2>2. PICK new : new = [w \in Variants |-> IF w = Control THEN old[Control] - 1
                                             ELSE IF w = to THEN old[to] + 1 ELSE old[w]]
    OBVIOUS
  <2>3. new \in Portions
    BY <2>1, <2>2 DEF Portions
  <2>4. Control \in Variants
    BY DEF TrafficSetting, CampaignSetting
  <2>5. [[old EXCEPT ![Control] = old[Control] - 1] EXCEPT ![to] = old[to] + 1] = new
    BY <2>1, <2>2, <2>4 DEF Portions
  <2>6. campaign'.weights = new /\ campaign'.version = campaign.version + 1
    BY <1>1, <1>3, <2>1, <2>5
  <2>7. Campaigns!Total(new) = Campaigns!Total(old)
    BY <2>1, <2>2, <2>3, <2>4, MovingKeepsTotal
  <2>8. PICK now : now = campaign'.weights
    OBVIOUS
  <2>9. Campaigns!Total(campaign.weights)' = Campaigns!Total(now)
    BY <2>8 DEF Campaigns!Total
  <2> QED BY <1>1, <2>1, <2>3, <2>6, <2>7, <2>8, <2>9 DEF Kept, Campaigns!Total
<1> QED BY <1>2, <1>3 DEF Campaigns!Shift, Campaigns!UnchangedSince

\* A request that sets to work otherwise than to shift, or goes on as it was.
LEMMA OtherTurn ==
    ASSUME TrafficSetting, LiveInv, LiveInv', ShiftsSound, campaign'.version >= campaign.version,
           campaign'.version = campaign.version => campaign'.weights = campaign.weights,
           \A q \in Requests : turn'[q] = turn[q] \/ turn'[q].op # "shift"
    PROVE  ShiftsSound'
<1>1. campaign.version \in Nat /\ campaign'.version \in Nat
  BY VersionsAreInts DEF LiveInv, CampaignTypes, TrafficSetting
<1> SUFFICES ASSUME NEW q \in Requests, turn'[q] = turn[q]
             PROVE  ShiftOK(q)'
  BY DEF ShiftsSound, ShiftOK
<1> QED BY <1>1 DEF ShiftsSound, ShiftOK

LEMMA QuietTraffic ==
    ASSUME TrafficSetting, LiveInv, LiveInv', TrafficInv, campaign'.version >= campaign.version,
           campaign'.weights = campaign.weights,
           \A q \in Requests : turn'[q] = turn[q] \/ turn'[q].op # "shift"
    PROVE  TrafficInv'
BY OtherTurn DEF TrafficInv, Kept, Campaigns!Total

LEMMA TrafficStep ==
    TrafficSetting /\ LiveInv /\ TrafficInv /\ [Campaigns!Next]_Campaigns!vars => TrafficInv'
<1> SUFFICES ASSUME TrafficSetting, LiveInv, TrafficInv, [Campaigns!Next]_Campaigns!vars
             PROVE  TrafficInv'
  OBVIOUS
<1>1. CampaignSetting /\ LiveInv'
  BY LiveStep DEF TrafficSetting
<1>2. CampaignTypes /\ Turns /\ campaign.version \in Nat
  BY <1>1, VersionsAreInts DEF LiveInv, CampaignTypes
<1>3. CASE UNCHANGED Campaigns!vars
  <2>1. UNCHANGED <<campaign, turn>>
    BY <1>3 DEF Campaigns!vars
  <2> QED BY <1>1, <1>2, <2>1, QuietTraffic
<1>4. ASSUME Campaigns!Next
      PROVE  campaign'.version >= campaign.version
  BY <1>1, <1>4, PublishedAsLive DEF Campaigns!PublishesWhatIsLive
<1>5. ASSUME NEW r \in Requests, Campaigns!Shift(r)
      PROVE  TrafficInv'
  <2>1. Kept' /\ (campaign'.version = campaign.version => campaign'.weights = campaign.weights)
    BY <1>5, ShiftKeepsTraffic
  <2>2. campaign'.version >= campaign.version
    BY <1>4, <1>5 DEF Campaigns!Next
  <2>3. \A q \in Requests : turn'[q] = turn[q] \/ turn'[q].op # "shift"
    BY <1>2, <1>5, TurnIdle DEF Campaigns!Shift, Campaigns!Finish, Turns
  <2> QED BY <1>1, <2>1, <2>2, <2>3, OtherTurn DEF TrafficInv
<1>6. ASSUME NEW r \in Requests, NEW w \in Variants, Campaigns!Decide(r, w)
      PROVE  TrafficInv'
  <2>1. /\ w # Control /\ campaign.weights[Control] > 1 /\ UNCHANGED campaign
        /\ turn' = [turn EXCEPT ![r] = [op |-> "shift", to |-> w, seen |-> campaign.version,
                                        weights |-> campaign.weights]]
    BY <1>6 DEF Campaigns!Decide
  <2>2. ShiftOK(r)'
    BY <1>2, <2>1 DEF ShiftOK, Turns
  <2>3. ASSUME NEW q \in Requests \ {r}
        PROVE  ShiftOK(q)'
    <3>1. turn'[q] = turn[q] /\ ShiftOK(q)
      BY <1>2, <2>1 DEF Turns, TrafficInv, ShiftsSound
    <3> QED BY <2>1, <3>1 DEF ShiftOK
  <2>4. ShiftsSound'
    BY <2>2, <2>3 DEF ShiftsSound
  <2> QED BY <2>1, <2>4 DEF TrafficInv, Kept, Campaigns!Total
<1>7. ASSUME campaign'.weights = campaign.weights, UNCHANGED turn, Campaigns!Next
      PROVE  TrafficInv'
  BY <1>1, <1>4, <1>7, QuietTraffic
<1>8. ASSUME NEW status \in {"running", "paused"}, Campaigns!Edit(status)
      PROVE  TrafficInv'
  <2>1. campaign'.weights = campaign.weights /\ UNCHANGED turn
    BY <1>2, <1>8 DEF Campaigns!Edit, CampaignTypes
  <2> QED BY <1>7, <1>8, <2>1 DEF Campaigns!Next
<1>9. CASE Campaigns!Start \/ Campaigns!CooldownEnds \/ \E v \in Versions : Campaigns!FallDue(v)
  <2>1. campaign'.weights = campaign.weights /\ UNCHANGED turn
    BY <1>2, <1>9 DEF Campaigns!Start, Campaigns!CooldownEnds, Campaigns!FallDue, CampaignTypes
  <2> QED BY <1>7, <1>9, <2>1 DEF Campaigns!Next, Versions
<1>10. ASSUME NEW r \in Requests, NEW j, turn' = [turn EXCEPT ![r] = j], j.op # "shift",
              campaign'.weights = campaign.weights, Campaigns!Next
       PROVE  TrafficInv'
  <2>1. \A q \in Requests : turn'[q] = turn[q] \/ turn'[q].op # "shift"
    BY <1>2, <1>10 DEF Turns
  <2> QED BY <1>1, <1>4, <1>10, <2>1, QuietTraffic
<1>11. ASSUME NEW r \in Requests, Campaigns!NextRelease(r)
       PROVE  TrafficInv'
  <2>1. PICK j : turn' = [turn EXCEPT ![r] = j] /\ j.op # "shift"
    <3> DEFINE v == Campaigns!Min(turn[r].todo)
               goOn == [op |-> "publish", version |-> v, seen |-> campaign.version, todo |-> turn[r].todo \ {v}]
               pass == [op |-> "cron", todo |-> turn[r].todo \ {v}]
    <3>1. goOn.op # "shift" /\ pass.op # "shift" /\ Campaigns!Idle.op # "shift"
      BY TurnIdle
    <3>2. \/ turn' = [turn EXCEPT ![r] = goOn] \/ turn' = [turn EXCEPT ![r] = pass]
          \/ turn' = [turn EXCEPT ![r] = Campaigns!Idle]
      BY <1>11 DEF Campaigns!NextRelease
    <3> HIDE DEF goOn, pass
    <3> QED BY <3>1, <3>2
  <2>2. UNCHANGED campaign /\ Campaigns!Next
    BY <1>11 DEF Campaigns!NextRelease, Campaigns!Next
  <2> QED BY <1>10, <2>1, <2>2
<1>12. ASSUME NEW r \in Requests, Campaigns!Publish(r)
       PROVE  TrafficInv'
  <2>1. PICK j : turn' = [turn EXCEPT ![r] = j] /\ j.op # "shift"
    <3> DEFINE next == [op |-> "cron", todo |-> turn[r].todo]
    <3>1. next.op # "shift" /\ Campaigns!Idle.op # "shift"
      BY TurnIdle
    <3>2. turn' = [turn EXCEPT ![r] = next] \/ turn' = [turn EXCEPT ![r] = Campaigns!Idle]
      BY <1>12 DEF Campaigns!Publish
    <3> HIDE DEF next
    <3> QED BY <3>1, <3>2
  <2>2. campaign'.weights = campaign.weights
    BY <1>2, <1>12 DEF Campaigns!Publish, CampaignTypes
  <2>3. Campaigns!Next
    BY <1>12 DEF Campaigns!Next
  <2> QED BY <1>10, <2>1, <2>2, <2>3
<1>13. ASSUME NEW r \in Requests,
              \/ Campaigns!InsertRelease(r) \/ Campaigns!Record(r) \/ Campaigns!Count(r)
              \/ Campaigns!Settle(r) \/ Campaigns!CronReads(r) \/ Campaigns!Look(r) \/ Campaigns!Crash(r)
       PROVE  TrafficInv'
  <2>1. \E j : turn' = [turn EXCEPT ![r] = j] /\ j.op # "shift"
    BY <1>13, TurnIdle DEF Campaigns!InsertRelease, Campaigns!Record, Campaigns!Count, Campaigns!Settle,
       Campaigns!CronReads, Campaigns!Look, Campaigns!Crash, Campaigns!Finish, Campaigns!Begin
  <2>2. UNCHANGED campaign
    BY <1>13 DEF Campaigns!InsertRelease, Campaigns!Record, Campaigns!Count, Campaigns!Settle,
       Campaigns!CronReads, Campaigns!Look, Campaigns!Crash
  <2>3. Campaigns!Next
    BY <1>13 DEF Campaigns!Next
  <2> QED BY <1>10, <2>1, <2>2, <2>3
<1>14. ASSUME NEW r \in Requests, NEW u \in Proposers, NEW reviewed \in BOOLEAN, Campaigns!Propose(r, u, reviewed)
       PROVE  TrafficInv'
  <2>1. PICK j : /\ turn' = [turn EXCEPT ![r] = j] /\ UNCHANGED campaign
                  /\ j = [op |-> "propose", version |-> campaign.version + 1,
                          row |-> [status |-> IF reviewed THEN "pending" ELSE "approved", by |-> u,
                                   reviewed |-> reviewed, due |-> FALSE, weights |-> campaign.weights]]
    BY <1>14 DEF Campaigns!Propose, Campaigns!Begin
  <2>4. j.op = "propose"
    BY <2>1
  <2>2. \E v \in Proposers, again \in BOOLEAN : Campaigns!Propose(r, v, again)
    BY <1>14
  <2>3. Campaigns!Next
    BY <2>2, Zenon DEF Campaigns!Next
  <2> QED BY <1>10, <2>1, <2>3, <2>4
<1>15. ASSUME NEW r \in Requests, NEW u \in Users, NEW v \in Versions, NEW says \in {"approved", "rejected"},
              Campaigns!Vote(r, u, v, says)
       PROVE  TrafficInv'
  <2>1. PICK j : /\ turn' = [turn EXCEPT ![r] = j] /\ UNCHANGED campaign
                  /\ j = [op |-> "vote", version |-> v, by |-> u, says |-> says]
    BY <1>15 DEF Campaigns!Vote, Campaigns!Begin
  <2>4. j.op = "vote"
    BY <2>1
  <2>2. \E w \in Users, x \in Versions, word \in {"approved", "rejected"} : Campaigns!Vote(r, w, x, word)
    BY <1>15
  <2>3. Campaigns!Next
    BY <2>2, Zenon DEF Campaigns!Next, Versions
  <2> QED BY <1>10, <2>1, <2>3, <2>4
<1> QED BY <1>3, <1>5, <1>6, <1>8, <1>9, <1>11, <1>12, <1>13, <1>14, <1>15 DEF Campaigns!Next, Versions

\* shiftTrafficWeights works on what was read before its transaction, and writes two
\* rows of many.  The compare-and-set of the version is what makes that right: for any
\* number of autopilots and variants, whatever edits and releases come between, the
\* weights keep their total and no variant, the control included, loses its last share.
THEOREM TrafficConserved ==
    ASSUME TrafficSetting
    PROVE  Campaigns!Spec => []Campaigns!TrafficConserved
<1>1. CampaignSetting
  BY DEF TrafficSetting
<1>2. Campaigns!Init => LiveInv /\ TrafficInv
  <2> SUFFICES ASSUME Campaigns!Init
               PROVE  LiveInv /\ TrafficInv
    OBVIOUS
  <2>1. campaign.weights = Weights /\ turn = [r \in Requests |-> Campaigns!Idle]
    BY DEF Campaigns!Init
  <2>2. Kept
    BY <2>1 DEF Kept, TrafficSetting, Portions
  <2>3. ShiftsSound
    BY <2>1, TurnIdle DEF ShiftsSound, ShiftOK
  <2> QED BY <1>1, <2>2, <2>3, LiveStarts DEF TrafficInv
<1>3. LiveInv /\ [Campaigns!Next]_Campaigns!vars => LiveInv'
  BY <1>1, LiveStep
<1>4. LiveInv /\ TrafficInv /\ [Campaigns!Next]_Campaigns!vars => TrafficInv'
  BY TrafficStep
<1>5. TrafficInv => Campaigns!TrafficConserved
  BY DEF TrafficInv, Kept, Portions, Campaigns!TrafficConserved
<1> QED BY <1>2, <1>3, <1>4, <1>5, PTL DEF Campaigns!Spec

(***************************************************************************)
(* Signing in.                                                             *)
(***************************************************************************)
\* "idle" is no operation.
AccessSetting == {MaxStep, MaxSecrets, MaxBatches, MaxChanges} \subseteq Nat /\ "idle" \notin Alone

TotpCodes == {"totp"} \X (0..MaxSecrets) \X (0..(MaxStep + 1))
RecoveryCodes == {"recovery"} \X Nat \X {0}
FactorCodes == TotpCodes \cup RecoveryCodes

\* What a request is about, by its operation.
Attempts == [op : {"login", "disable", "renew"}, at : {"factor", "advance", "act"}, pw : Nat,
             code : FactorCodes \cup {Access!NoCode}]
Replacements == [op : {"disable", "renew", "enable"}, at : {"commit"}, gone : SUBSET Nat]
Setups == [op : {"setup"}, at : {"write"}]
Enablings == [op : {"enable"}, at : {"write", "codes"}, code : TotpCodes]
Changes == [op : {"change"}, at : {"write", "revoke"}, by : Sessions]
Resets == [op : {"reset"}, at : {"retire", "issue"}]
Confirmations == [op : {"confirm"}, at : {"write"}, on : Tokens]
AccessJobs == {Access!Idle} \cup Attempts \cup Replacements \cup Setups \cup Enablings
              \cup Changes \cup Resets \cup Confirmations

AccessRows ==
    /\ user \in [pw : Nat, secret : 0..MaxSecrets, enabled : BOOLEAN, counter : Access!None..(MaxStep + 1)]
    /\ issued \in [secrets : 0..MaxSecrets, batches : Nat] /\ user.secret <= issued.secrets
    /\ recovery \subseteq 1..issued.batches
    /\ session \in [Sessions -> [state : {"none", "live", "revoked"}, pw : Nat]]
    /\ token \in [Tokens -> {"none", "live", "used"}]
    /\ clock \in 0..MaxStep

AccessTypes == AccessRows /\ attempt \in [Requests -> AccessJobs]

\* A code waits for its counter or its batch.
Presented == \A r \in Requests : attempt[r].at = "advance" => attempt[r].code \in FactorCodes

\* Some operations have the instance to themselves.
Exclusive == \A r, q \in Requests :
    attempt[r].op \in Alone /\ attempt[q] # Access!Idle => r = q

AccessBase == AccessTypes /\ Presented /\ Exclusive

LEMMA NoAccess ==
    /\ Access!Idle.op = "idle" /\ Access!Idle.at = "idle" /\ Access!Idle \in AccessJobs
    /\ Access!None = -1 /\ Access!NoCode[1] = "none" /\ Access!NoCode \notin FactorCodes
BY DEF Access!Idle, AccessJobs, Access!None, Access!NoCode, FactorCodes, TotpCodes, RecoveryCodes

\* A job by its operation and its step.
LEMMA JobKinds ==
    ASSUME NEW j \in AccessJobs
    PROVE  /\ j.op = "idle" <=> j = Access!Idle
           /\ j.at \in {"factor", "advance", "act"} => j \in Attempts
           /\ j.op = "login" => j \in Attempts
           /\ j.op = "setup" => j \in Setups
           /\ j.op = "enable" /\ j.at \in {"write", "codes"} => j \in Enablings
           /\ j.op = "change" => j \in Changes
           /\ j.op = "reset" => j \in Resets
           /\ j.op = "confirm" => j \in Confirmations
           /\ j.at = "commit" => j \in Replacements
BY NoAccess DEF AccessJobs, Attempts, Replacements, Setups, Enablings, Changes, Resets, Confirmations

\* A request begins, moves on or ends: the others stay as they are.
LEMMA ExclusiveBegin ==
    ASSUME AccessSetting, AccessBase, NEW r \in Requests, NEW j \in AccessJobs, Access!Begin(r, j), j # Access!Idle, j.at # "advance"
    PROVE  /\ attempt' \in [Requests -> AccessJobs] /\ Presented' /\ Exclusive'
           /\ attempt[r] = Access!Idle /\ attempt'[r] = j /\ \A q \in Requests \ {r} : attempt'[q] = attempt[q]
           /\ j.op \in Alone => \A q \in Requests : attempt[q] = Access!Idle
           /\ \A q \in Requests : attempt[q].op \in Alone => attempt[q] = Access!Idle
<1>1. attempt \in [Requests -> AccessJobs]
  BY DEF AccessBase, AccessTypes
<1>2. attempt' = [attempt EXCEPT ![r] = j] /\ attempt[r] = Access!Idle
  BY DEF Access!Begin
<1>3. attempt'[r] = j /\ \A q \in Requests \ {r} : attempt'[q] = attempt[q]
  BY <1>1, <1>2
<1>4. attempt' \in [Requests -> AccessJobs]
  BY <1>1, <1>2
<1>5. \A q \in Requests : attempt[q] # Access!Idle => j.op \notin Alone /\ attempt[q].op \notin Alone
  BY DEF Access!Begin
<1>6. Exclusive'
  BY <1>2, <1>3, <1>5, NoAccess DEF AccessBase, Exclusive, AccessSetting
<1>7. Presented'
  BY <1>3 DEF AccessBase, Presented
<1> QED BY <1>2, <1>3, <1>4, <1>5, <1>6, <1>7

LEMMA ExclusiveMoves ==
    ASSUME AccessSetting, AccessBase, NEW r \in Requests, attempt[r] # Access!Idle,
           attempt' = [attempt EXCEPT ![r] = attempt'[r]], attempt'[r] \in AccessJobs,
           attempt'[r].op \in {attempt[r].op, "idle"},
           attempt'[r].at = "advance" => attempt'[r].code \in FactorCodes
    PROVE  attempt' \in [Requests -> AccessJobs] /\ Presented' /\ Exclusive'
           /\ \A q \in Requests \ {r} : attempt'[q] = attempt[q]
<1>1. attempt \in [Requests -> AccessJobs]
  BY DEF AccessBase, AccessTypes
<1>2. \A q \in Requests \ {r} : attempt'[q] = attempt[q]
  BY <1>1
<1>3. attempt' \in [Requests -> AccessJobs]
  BY <1>1
<1>4. Exclusive'
  BY <1>2 DEF AccessBase, Exclusive, AccessSetting
<1>5. Presented'
  BY <1>2 DEF AccessBase, Presented
<1> QED BY <1>2, <1>3, <1>4, <1>5

\* What a step says about the requests: one begins, moves on or ends, or none does.
Moved(r) ==
    /\ attempt[r] # Access!Idle /\ attempt' = [attempt EXCEPT ![r] = attempt'[r]]
    /\ attempt'[r] \in AccessJobs /\ attempt'[r].op \in {attempt[r].op, "idle"}
    /\ attempt'[r].at = "advance" => attempt'[r].code \in FactorCodes

LEMMA MovedBase ==
    ASSUME AccessSetting, AccessBase, NEW r \in Requests, Moved(r), AccessRows'
    PROVE  AccessBase' /\ \A q \in Requests \ {r} : attempt'[q] = attempt[q]
<1>1. attempt' \in [Requests -> AccessJobs] /\ Presented' /\ Exclusive'
      /\ \A q \in Requests \ {r} : attempt'[q] = attempt[q]
  BY ExclusiveMoves DEF Moved
<1> QED BY <1>1 DEF AccessBase, AccessTypes

LEMMA SameRows ==
    ASSUME AccessBase, UNCHANGED <<user, recovery, issued, session, token, clock>>
    PROVE  AccessRows'
BY DEF AccessBase, AccessTypes, AccessRows

LEMMA AttemptIsJob ==
    ASSUME AccessBase, NEW r \in Requests
    PROVE  attempt[r] \in AccessJobs /\ attempt \in [Requests -> AccessJobs]
BY DEF AccessBase, AccessTypes

LEMMA EndsMoved ==
    ASSUME AccessBase, NEW r \in Requests, attempt[r] # Access!Idle, Access!Finish(r)
    PROVE  Moved(r) /\ attempt'[r] = Access!Idle
BY AttemptIsJob, NoAccess DEF Access!Finish, Moved

(***************************************************************************)
(* Steps that begin a request.                                             *)
(***************************************************************************)
LEMMA BeginsAccess ==
    ASSUME AccessSetting, AccessBase, NEW r \in Requests,
           \/ Access!Login(r) \/ (\E op \in {"disable", "renew"} : Access!Manage(r, op))
           \/ Access!Setup(r) \/ Access!Enable(r) \/ Access!RequestReset(r)
           \/ (\E s \in Sessions : Access!ChangePassword(r, s))
           \/ (\E t \in Tokens : Access!Confirm(r, t))
    PROVE  /\ AccessBase' /\ UNCHANGED <<user, recovery, issued, session, token, factors, clock>>
           /\ Access!Begin(r, attempt'[r]) /\ attempt'[r] \in AccessJobs \ {Access!Idle}
           /\ attempt'[r].at # "advance"
           /\ attempt'[r].op = "login" => attempt'[r].pw = user.pw
           /\ Access!At(r, "enable", "write")' => attempt'[r].code[2] = user.secret /\ user.secret # 0 /\ ~user.enabled
           /\ attempt'[r].op = "setup" => ~user.enabled
           /\ attempt'[r].op \in {"change", "confirm"} => user.pw < MaxChanges /\ attempt'[r].at = "write"
           /\ ~Access!At(r, "reset", "issue")'
<1> DEFINE Ends(j) == /\ Access!Begin(r, j) /\ j \in AccessJobs \ {Access!Idle} /\ j.at # "advance"
                      /\ j.op = "login" => j.pw = user.pw
                      /\ j.op = "enable" /\ j.at = "write"
                         => j.code[2] = user.secret /\ user.secret # 0 /\ ~user.enabled
                      /\ j.op = "setup" => ~user.enabled
                      /\ j.op \in {"change", "confirm"} => user.pw < MaxChanges /\ j.at = "write"
                      /\ ~(j.op = "reset" /\ j.at = "issue")
<1>1. UNCHANGED <<user, recovery, issued, session, token, factors, clock>>
  BY DEF Access!Login, Access!Manage, Access!Setup, Access!Enable, Access!RequestReset,
         Access!ChangePassword, Access!Confirm
<1>2. user \in [pw : Nat, secret : 0..MaxSecrets, enabled : BOOLEAN, counter : Access!None..(MaxStep + 1)]
      /\ clock \in 0..MaxStep /\ user.pw \in Nat /\ user.secret \in 0..MaxSecrets
  BY DEF AccessBase, AccessTypes, AccessRows
<1>3. \E j : Ends(j)
  <2>1. CASE Access!Login(r)
    <3> DEFINE j == [op |-> "login", at |-> IF user.enabled THEN "factor" ELSE "act",
                     pw |-> user.pw, code |-> Access!NoCode]
    <3>1. Access!Begin(r, j)
      BY <2>1 DEF Access!Login
    <3>2. j \in Attempts
      BY <1>2 DEF Attempts
    <3> QED BY <3>1, <3>2, NoAccess DEF AccessJobs
  <2>2. ASSUME NEW op \in {"disable", "renew"}, Access!Manage(r, op) PROVE \E j : Ends(j)
    <3> DEFINE j == [op |-> op, at |-> "factor", pw |-> user.pw, code |-> Access!NoCode]
    <3>1. Access!Begin(r, j)
      BY <2>2 DEF Access!Manage
    <3>2. j \in Attempts
      BY <1>2 DEF Attempts
    <3> QED BY <3>1, <3>2, NoAccess DEF AccessJobs
  <2>3. CASE Access!Setup(r)
    <3> DEFINE j == [op |-> "setup", at |-> "write"]
    <3>1. Access!Begin(r, j) /\ ~user.enabled
      BY <2>3 DEF Access!Setup
    <3>2. j \in Setups
      BY DEF Setups
    <3> QED BY <3>1, <3>2, NoAccess DEF AccessJobs
  <2>4. CASE Access!Enable(r)
    <3>1. PICK c \in Access!Window : Access!Begin(r, [op |-> "enable", at |-> "write", code |-> <<"totp", user.secret, c>>])
      BY <2>4 DEF Access!Enable
    <3>2. c \in 0..(MaxStep + 1)
      BY <1>2 DEF Access!Window, AccessSetting
    <3> DEFINE code == <<"totp", user.secret, c>>
               j == [op |-> "enable", at |-> "write", code |-> code]
    <3>3. code \in TotpCodes /\ code[2] = user.secret
      BY <1>2, <3>2 DEF TotpCodes
    <3> HIDE DEF code
    <3>4. j \in Enablings
      BY <3>3 DEF Enablings
    <3>5. user.secret # 0 /\ ~user.enabled
      BY <2>4 DEF Access!Enable
    <3>6. Access!Begin(r, j)
      BY <3>1 DEF code
    <3> QED BY <3>3, <3>4, <3>5, <3>6, NoAccess DEF AccessJobs
  <2>5. CASE Access!RequestReset(r)
    <3> DEFINE j == [op |-> "reset", at |-> "retire"]
    <3>1. Access!Begin(r, j)
      BY <2>5 DEF Access!RequestReset
    <3>2. j \in Resets
      BY DEF Resets
    <3> QED BY <3>1, <3>2, NoAccess DEF AccessJobs
  <2>6. ASSUME NEW s \in Sessions, Access!ChangePassword(r, s) PROVE \E j : Ends(j)
    <3> DEFINE j == [op |-> "change", at |-> "write", by |-> s]
    <3>1. Access!Begin(r, j) /\ user.pw < MaxChanges
      BY <2>6 DEF Access!ChangePassword
    <3>2. j \in Changes
      BY DEF Changes
    <3> QED BY <3>1, <3>2, NoAccess DEF AccessJobs
  <2>7. ASSUME NEW t \in Tokens, Access!Confirm(r, t) PROVE \E j : Ends(j)
    <3> DEFINE j == [op |-> "confirm", at |-> "write", on |-> t]
    <3>1. Access!Begin(r, j) /\ user.pw < MaxChanges
      BY <2>7 DEF Access!Confirm
    <3>2. j \in Confirmations
      BY DEF Confirmations
    <3> QED BY <3>1, <3>2, NoAccess DEF AccessJobs
  <2> QED BY <2>1, <2>2, <2>3, <2>4, <2>5, <2>6, <2>7
<1>4. PICK j : Ends(j)
  BY <1>3
<1>5. attempt' = [attempt EXCEPT ![r] = j] /\ attempt'[r] = j
  BY <1>4, AttemptIsJob DEF Access!Begin
<1>6. AccessRows'
  BY <1>1, SameRows
<1>7. attempt' \in [Requests -> AccessJobs] /\ Presented' /\ Exclusive'
  BY <1>4, ExclusiveBegin
<1> QED BY <1>1, <1>4, <1>5, <1>6, <1>7 DEF AccessBase, AccessTypes, Access!At

(***************************************************************************)
(* Steps of a request under way.                                           *)
(***************************************************************************)
\* A request that only notes its next step keeps the rest.
LEMMA GoesOn ==
    ASSUME AccessBase, NEW r \in Requests, attempt[r] # Access!Idle, NEW at, Access!Goto(r, at),
           \/ attempt[r] \in Attempts /\ at = "act"
           \/ attempt[r] \in Enablings /\ at = "codes"
           \/ attempt[r] \in Changes /\ at = "revoke"
           \/ attempt[r] \in Resets /\ at = "issue"
    PROVE  /\ Moved(r) /\ attempt'[r] = [attempt[r] EXCEPT !.at = at]
           /\ attempt'[r].op = attempt[r].op /\ attempt'[r].at = at
<1>1. attempt' = [attempt EXCEPT ![r].at = at] /\ attempt[r] \in AccessJobs /\ attempt \in [Requests -> AccessJobs]
  BY AttemptIsJob DEF Access!Goto
<1>2. attempt'[r] = [attempt[r] EXCEPT !.at = at] /\ attempt' = [attempt EXCEPT ![r] = attempt'[r]]
  BY <1>1
<1>3. CASE attempt[r] \in Attempts /\ at = "act"
  <2>1. attempt'[r] \in Attempts /\ attempt'[r].op = attempt[r].op /\ attempt'[r].at = at
    BY <1>2, <1>3 DEF Attempts
  <2> QED BY <1>2, <1>3, <2>1 DEF Moved, AccessJobs
<1>4. CASE attempt[r] \in Enablings /\ at = "codes"
  <2>1. attempt'[r] \in Enablings /\ attempt'[r].op = attempt[r].op /\ attempt'[r].at = at
    BY <1>2, <1>4 DEF Enablings
  <2> QED BY <1>2, <1>4, <2>1 DEF Moved, AccessJobs
<1>5. CASE attempt[r] \in Changes /\ at = "revoke"
  <2>1. attempt'[r] \in Changes /\ attempt'[r].op = attempt[r].op /\ attempt'[r].at = at
    BY <1>2, <1>5 DEF Changes
  <2> QED BY <1>2, <1>5, <2>1 DEF Moved, AccessJobs
<1>6. CASE attempt[r] \in Resets /\ at = "issue"
  <2>1. attempt'[r] \in Resets /\ attempt'[r].op = attempt[r].op /\ attempt'[r].at = at
    BY <1>2, <1>6 DEF Resets
  <2> QED BY <1>2, <1>6, <2>1 DEF Moved, AccessJobs
<1> QED BY <1>3, <1>4, <1>5, <1>6

\* It has a code to present, or gives up.
LEMMA ReadFactorMoves ==
    ASSUME AccessSetting, AccessBase, NEW r \in Requests, Access!ReadFactor(r)
    PROVE  /\ AccessBase' /\ Moved(r) /\ UNCHANGED <<user, recovery, issued, session, token, factors, clock>>
           /\ attempt[r] \in Attempts
           /\ \/ attempt'[r] = Access!Idle
              \/ /\ attempt'[r].at = "advance" /\ attempt'[r].op = attempt[r].op /\ attempt'[r].pw = attempt[r].pw
                 /\ user.enabled
                 /\ attempt'[r].code[1] = "totp" => attempt'[r].code[2] = user.secret
<1>1. attempt[r] \in AccessJobs /\ attempt \in [Requests -> AccessJobs] /\ attempt[r].at = "factor"
  BY AttemptIsJob DEF Access!ReadFactor
<1>2. attempt[r] \in Attempts /\ attempt[r] # Access!Idle
  BY <1>1, JobKinds, NoAccess
<1>3. UNCHANGED <<user, recovery, issued, session, token, factors, clock>>
  BY DEF Access!ReadFactor
<1>4. user.secret \in 0..MaxSecrets /\ issued.batches \in Nat /\ clock \in 0..MaxStep
  BY DEF AccessBase, AccessTypes, AccessRows
<1>5. CASE Access!Finish(r)
  BY <1>2, <1>3, <1>5, EndsMoved, MovedBase, SameRows
<1>6. ASSUME NEW code \in FactorCodes, Access!Present(r, code)
      PROVE  /\ Moved(r) /\ attempt'[r].at = "advance" /\ attempt'[r].op = attempt[r].op
             /\ attempt'[r].pw = attempt[r].pw /\ attempt'[r].code = code
  <2>1. attempt' = [attempt EXCEPT ![r].at = "advance", ![r].code = code]
    BY <1>6 DEF Access!Present
  <2>2. attempt'[r] = [attempt[r] EXCEPT !.at = "advance", !.code = code] /\ attempt' = [attempt EXCEPT ![r] = attempt'[r]]
    BY <1>1, <2>1
  <2>3. /\ attempt'[r].at = "advance" /\ attempt'[r].op = attempt[r].op
        /\ attempt'[r].pw = attempt[r].pw /\ attempt'[r].code = code
    BY <1>2, <2>2 DEF Attempts
  <2>4. attempt'[r] \in Attempts
    BY <1>2, <2>2 DEF Attempts
  <2> QED BY <1>2, <2>2, <2>3, <2>4 DEF Moved, AccessJobs
<1>7. ASSUME user.enabled, NEW c \in Access!Window, Access!Present(r, <<"totp", user.secret, c>>)
      PROVE  /\ Moved(r) /\ attempt'[r].at = "advance" /\ attempt'[r].op = attempt[r].op
             /\ attempt'[r].pw = attempt[r].pw /\ attempt'[r].code[2] = user.secret
  <2> DEFINE code == <<"totp", user.secret, c>>
  <2>1. c \in 0..(MaxStep + 1)
    BY <1>4 DEF Access!Window, AccessSetting
  <2>2. code \in FactorCodes /\ code[2] = user.secret
    BY <1>4, <2>1 DEF FactorCodes, TotpCodes
  <2>3. Access!Present(r, code)
    BY <1>7
  <2> HIDE DEF code
  <2> QED BY <1>6, <2>2, <2>3
<1>8. ASSUME NEW b \in 1..issued.batches, Access!Present(r, <<"recovery", b, 0>>)
      PROVE  /\ Moved(r) /\ attempt'[r].at = "advance" /\ attempt'[r].op = attempt[r].op
             /\ attempt'[r].pw = attempt[r].pw /\ attempt'[r].code[1] = "recovery"
  <2>1. <<"recovery", b, 0>> \in FactorCodes
    BY <1>4 DEF FactorCodes, RecoveryCodes
  <2> QED BY <1>6, <1>8, <2>1
<1>9. \/ attempt'[r] = Access!Idle /\ Moved(r)
      \/ /\ Moved(r) /\ attempt'[r].at = "advance" /\ attempt'[r].op = attempt[r].op /\ attempt'[r].pw = attempt[r].pw
         /\ user.enabled
         /\ attempt'[r].code[1] = "totp" => attempt'[r].code[2] = user.secret
  BY <1>2, <1>5, <1>7, <1>8, EndsMoved DEF Access!ReadFactor
<1>10. AccessBase'
  BY <1>3, <1>9, MovedBase, SameRows
<1> QED BY <1>2, <1>3, <1>9, <1>10

LEMMA RefuseMoves ==
    ASSUME AccessSetting, AccessBase, NEW r \in Requests, Access!Refuse(r) \/ Access!Crash(r)
    PROVE  /\ AccessBase' /\ UNCHANGED <<user, recovery, issued, session, token, factors, clock>>
           /\ attempt'[r] = Access!Idle /\ \A q \in Requests \ {r} : attempt'[q] = attempt[q]
<1>1. CASE attempt[r] = Access!Idle
  <2>1. Access!Crash(r)
    BY <1>1, NoAccess DEF Access!Refuse
  <2>2. attempt' = attempt
    BY <1>1, <2>1, AttemptIsJob DEF Access!Crash, Access!Finish
  <2>3. UNCHANGED <<user, recovery, issued, session, token, factors, clock>>
    BY <2>1 DEF Access!Crash
  <2>4. AccessRows'
    BY <2>3, SameRows
  <2> QED BY <1>1, <2>2, <2>3, <2>4 DEF AccessBase, AccessTypes, Presented, Exclusive
<1>2. CASE attempt[r] # Access!Idle
  <2>1. Access!Finish(r) /\ UNCHANGED <<user, recovery, issued, session, token, factors, clock>>
    BY DEF Access!Refuse, Access!Crash
  <2>2. Moved(r) /\ attempt'[r] = Access!Idle
    BY <1>2, <2>1, EndsMoved
  <2> QED BY <2>1, <2>2, MovedBase, SameRows
<1> QED BY <1>1, <1>2

\* The counter advances, or the recovery code is taken.
LEMMA AdvanceMoves ==
    ASSUME AccessSetting, AccessBase, NEW r \in Requests, Access!Advance(r)
    PROVE  /\ AccessBase' /\ Moved(r) /\ UNCHANGED <<issued, session, token, clock>>
           /\ attempt[r] \in Attempts /\ attempt[r].at = "advance" /\ attempt[r].code \in FactorCodes
           /\ attempt'[r].at = "act" /\ attempt'[r].op = attempt[r].op /\ attempt'[r].pw = attempt[r].pw
           /\ Access!Accept(attempt[r].code) /\ Access!Takes(attempt[r].code)
           /\ user'.pw = user.pw /\ user'.secret = user.secret /\ user'.enabled = user.enabled
           /\ \/ /\ attempt[r].code \in TotpCodes /\ user'.counter = attempt[r].code[3] /\ recovery' = recovery
              \/ /\ attempt[r].code \in RecoveryCodes /\ user' = user /\ recovery' = recovery \ {attempt[r].code[2]}
<1> DEFINE code == attempt[r].code
<1>1. attempt[r].at = "advance" /\ code \in FactorCodes /\ attempt[r] \in AccessJobs
  BY AttemptIsJob DEF Access!Advance, AccessBase, Presented
<1>2. attempt[r] \in Attempts /\ attempt[r] # Access!Idle
  BY <1>1, JobKinds, NoAccess
<1>3. /\ UNCHANGED <<issued, session, token, clock>> /\ Access!Goto(r, "act")
      /\ Access!Accept(code) /\ Access!Takes(code)
      /\ user' = (IF code[1] = "totp" THEN [user EXCEPT !.counter = code[3]] ELSE user)
      /\ recovery' = (IF code[1] = "recovery" THEN recovery \ {code[2]} ELSE recovery)
  BY DEF Access!Advance
<1>4. Moved(r) /\ attempt'[r] = [attempt[r] EXCEPT !.at = "act"] /\ attempt'[r].op = attempt[r].op /\ attempt'[r].at = "act"
  BY <1>2, <1>3, GoesOn
<1>5. attempt'[r].pw = attempt[r].pw
  BY <1>2, <1>4 DEF Attempts
<1>6. user \in [pw : Nat, secret : 0..MaxSecrets, enabled : BOOLEAN, counter : Access!None..(MaxStep + 1)]
  BY DEF AccessBase, AccessTypes, AccessRows
<1> HIDE DEF code
<1>7. CASE code \in TotpCodes
  <2>1. code[1] = "totp" /\ code[3] \in 0..(MaxStep + 1)
    BY <1>7 DEF TotpCodes
  <2>2. code[3] \in Access!None..(MaxStep + 1)
    BY <2>1, NoAccess DEF AccessSetting
  <2>3. user' = [user EXCEPT !.counter = code[3]] /\ recovery' = recovery
    BY <1>3, <2>1
  <2>4. /\ user' \in [pw : Nat, secret : 0..MaxSecrets, enabled : BOOLEAN, counter : Access!None..(MaxStep + 1)]
        /\ user'.pw = user.pw /\ user'.secret = user.secret /\ user'.enabled = user.enabled /\ user'.counter = code[3]
    BY <1>6, <2>2, <2>3
  <2>5. AccessRows'
    BY <1>3, <2>3, <2>4 DEF AccessBase, AccessTypes, AccessRows
  <2> QED BY <1>1, <1>2, <1>3, <1>4, <1>5, <1>7, <2>3, <2>4, <2>5, MovedBase DEF code
<1>8. CASE code \in RecoveryCodes
  <2>1. code[1] = "recovery"
    BY <1>8 DEF RecoveryCodes
  <2>2. user' = user /\ recovery' = recovery \ {code[2]}
    BY <1>3, <2>1
  <2>3. AccessRows'
    BY <1>3, <2>2 DEF AccessBase, AccessTypes, AccessRows
  <2> QED BY <1>1, <1>2, <1>3, <1>4, <1>5, <1>8, <2>2, <2>3, MovedBase DEF code
<1> QED BY <1>1, <1>7, <1>8 DEF FactorCodes, code

LEMMA OpenMoves ==
    ASSUME AccessSetting, AccessBase, NEW r \in Requests, NEW s \in Sessions, Access!OpenSession(r, s)
    PROVE  /\ AccessBase' /\ Moved(r) /\ UNCHANGED <<user, recovery, issued, token, factors, clock>>
           /\ attempt[r].op = "login" /\ attempt[r] \in Attempts /\ attempt'[r] = Access!Idle
           /\ session' = [session EXCEPT ![s] = [state |-> "live", pw |-> attempt[r].pw]]
<1>1. /\ attempt[r].op = "login" /\ attempt[r] \in AccessJobs /\ Access!Finish(r)
      /\ UNCHANGED <<user, recovery, issued, token, factors, clock>>
      /\ session' = [session EXCEPT ![s] = [state |-> "live", pw |-> attempt[r].pw]]
  BY AttemptIsJob DEF Access!OpenSession, Access!At
<1>2. attempt[r] \in Attempts /\ attempt[r] # Access!Idle
  BY <1>1, JobKinds, NoAccess
<1>3. attempt[r].pw \in Nat
  BY <1>2 DEF Attempts
<1>4. AccessRows'
  BY <1>1, <1>3 DEF AccessBase, AccessTypes, AccessRows
<1> QED BY <1>1, <1>2, <1>4, EndsMoved, MovedBase

LEMMA DeleteCodesMoves ==
    ASSUME AccessSetting, AccessBase, NEW r \in Requests, Access!DeleteCodes(r)
    PROVE  /\ AccessBase' /\ Moved(r) /\ UNCHANGED <<user, recovery, issued, session, token, factors, clock>>
           /\ attempt'[r].at = "commit" /\ attempt'[r].op = attempt[r].op
           /\ attempt[r].op \in {"disable", "renew", "enable"}
<1>1. /\ attempt[r].op \in {"disable", "renew", "enable"} /\ attempt[r] \in AccessJobs
      /\ attempt' = [attempt EXCEPT ![r] = [op |-> @.op, at |-> "commit", gone |-> recovery]]
      /\ UNCHANGED <<user, recovery, issued, session, token, factors, clock>>
  BY AttemptIsJob DEF Access!DeleteCodes, Access!At
<1>2. attempt[r] # Access!Idle
  BY <1>1, NoAccess
<1>3. recovery \subseteq Nat
  BY DEF AccessBase, AccessTypes, AccessRows
<1>4. attempt'[r] = [op |-> attempt[r].op, at |-> "commit", gone |-> recovery] /\ attempt' = [attempt EXCEPT ![r] = attempt'[r]]
  BY <1>1, AttemptIsJob
<1>5. attempt'[r] \in Replacements
  BY <1>1, <1>3, <1>4 DEF Replacements
<1>6. Moved(r)
  BY <1>2, <1>4, <1>5 DEF Moved, AccessJobs
<1> QED BY <1>1, <1>4, <1>6, MovedBase, SameRows

LEMMA DisableMoves ==
    ASSUME AccessSetting, AccessBase, NEW r \in Requests, Access!Disable(r)
    PROVE  /\ AccessBase' /\ Moved(r) /\ UNCHANGED <<issued, session, token, factors, clock>>
           /\ attempt[r].op = "disable" /\ attempt'[r] = Access!Idle
           /\ user'.pw = user.pw /\ user'.secret = 0 /\ user'.enabled = FALSE /\ recovery' \subseteq recovery
<1>1. /\ attempt[r].op = "disable" /\ Access!Finish(r) /\ UNCHANGED <<issued, session, token, factors, clock>>
      /\ user' = [user EXCEPT !.secret = 0, !.enabled = FALSE, !.counter = Access!None]
      /\ recovery' \subseteq recovery
  BY DEF Access!Disable, Access!At
<1>2. attempt[r] # Access!Idle
  BY <1>1, NoAccess
<1>3. /\ user \in [pw : Nat, secret : 0..MaxSecrets, enabled : BOOLEAN, counter : Access!None..(MaxStep + 1)]
      /\ 0 \in 0..MaxSecrets /\ Access!None \in Access!None..(MaxStep + 1) /\ issued.secrets \in 0..MaxSecrets
  BY NoAccess DEF AccessBase, AccessTypes, AccessRows, AccessSetting
<1>4. /\ user'.pw = user.pw /\ user'.secret = 0 /\ user'.enabled = FALSE
      /\ user' \in [pw : Nat, secret : 0..MaxSecrets, enabled : BOOLEAN, counter : Access!None..(MaxStep + 1)]
  BY <1>1, <1>3
<1>5. AccessRows'
  BY <1>1, <1>3, <1>4 DEF AccessBase, AccessTypes, AccessRows
<1> QED BY <1>1, <1>2, <1>4, <1>5, EndsMoved, MovedBase

LEMMA ReplaceMoves ==
    ASSUME AccessSetting, AccessBase, NEW r \in Requests, Access!ReplaceCodes(r)
    PROVE  /\ AccessBase' /\ Moved(r) /\ UNCHANGED <<user, session, token, factors, clock>>
           /\ attempt'[r] = Access!Idle
           /\ issued'.secrets = issued.secrets /\ issued'.batches = issued.batches + 1
           /\ recovery' \subseteq recovery \cup {issued.batches + 1}
<1>1. /\ attempt[r].op \in {"renew", "enable"} /\ Access!Finish(r) /\ UNCHANGED <<user, session, token, factors, clock>>
      /\ issued' = [issued EXCEPT !.batches = @ + 1] /\ recovery' \subseteq recovery \cup {issued.batches + 1}
  BY DEF Access!ReplaceCodes, Access!At
<1>2. attempt[r] # Access!Idle
  BY <1>1, NoAccess
<1>3. issued \in [secrets : 0..MaxSecrets, batches : Nat] /\ recovery \subseteq 1..issued.batches
  BY DEF AccessBase, AccessTypes, AccessRows
<1>4. /\ issued' \in [secrets : 0..MaxSecrets, batches : Nat]
      /\ issued'.secrets = issued.secrets /\ issued'.batches = issued.batches + 1
  BY <1>1, <1>3
<1>5. recovery' \subseteq 1..issued'.batches
  <2>1. issued.batches \in Nat
    BY <1>3
  <2> QED BY <1>1, <1>3, <1>4, <2>1
<1>6. AccessRows'
  BY <1>1, <1>4, <1>5 DEF AccessBase, AccessTypes, AccessRows
<1> QED BY <1>1, <1>2, <1>4, <1>6, EndsMoved, MovedBase

LEMMA WriteSecretMoves ==
    ASSUME AccessSetting, AccessBase, NEW r \in Requests, Access!WriteSecret(r)
    PROVE  /\ AccessBase' /\ Moved(r) /\ UNCHANGED <<recovery, session, token, factors, clock>>
           /\ attempt[r].op = "setup" /\ attempt'[r] = Access!Idle
           /\ user'.pw = user.pw /\ user'.secret = issued.secrets + 1 /\ user'.enabled = FALSE
           /\ issued'.secrets = issued.secrets + 1 /\ issued'.batches = issued.batches
<1>1. /\ attempt[r].op = "setup" /\ Access!Finish(r) /\ UNCHANGED <<recovery, session, token, factors, clock>>
      /\ issued.secrets < MaxSecrets /\ issued' = [issued EXCEPT !.secrets = @ + 1]
      /\ user' = [user EXCEPT !.secret = issued.secrets + 1, !.enabled = FALSE, !.counter = Access!None]
  BY DEF Access!WriteSecret, Access!At
<1>2. attempt[r] # Access!Idle
  BY <1>1, NoAccess
<1>3. /\ user \in [pw : Nat, secret : 0..MaxSecrets, enabled : BOOLEAN, counter : Access!None..(MaxStep + 1)]
      /\ issued \in [secrets : 0..MaxSecrets, batches : Nat] /\ Access!None \in Access!None..(MaxStep + 1)
      /\ issued.secrets \in 0..MaxSecrets
  BY NoAccess DEF AccessBase, AccessTypes, AccessRows, AccessSetting
<1>4. issued.secrets + 1 \in 0..MaxSecrets
  BY <1>1, <1>3 DEF AccessSetting
<1>5. /\ user' \in [pw : Nat, secret : 0..MaxSecrets, enabled : BOOLEAN, counter : Access!None..(MaxStep + 1)]
      /\ user'.pw = user.pw /\ user'.secret = issued.secrets + 1 /\ user'.enabled = FALSE
  BY <1>1, <1>3, <1>4
<1>6. /\ issued' \in [secrets : 0..MaxSecrets, batches : Nat]
      /\ issued'.secrets = issued.secrets + 1 /\ issued'.batches = issued.batches
  BY <1>1, <1>3, <1>4
<1>7. AccessRows'
  BY <1>1, <1>4, <1>5, <1>6 DEF AccessBase, AccessTypes, AccessRows
<1> QED BY <1>1, <1>2, <1>5, <1>6, <1>7, EndsMoved, MovedBase

LEMMA WriteEnabledMoves ==
    ASSUME AccessSetting, AccessBase, NEW r \in Requests, Access!WriteEnabled(r)
    PROVE  /\ AccessBase' /\ Moved(r) /\ UNCHANGED <<recovery, issued, session, token, clock>>
           /\ attempt[r].op = "enable" /\ attempt'[r].op = "enable" /\ attempt'[r].at = "codes"
           /\ attempt[r].code \in TotpCodes /\ Access!Accept(attempt[r].code)
           /\ user'.pw = user.pw /\ user'.secret = user.secret /\ user'.enabled = TRUE
           /\ user'.counter = attempt[r].code[3]
<1>1. /\ attempt[r].op = "enable" /\ attempt[r].at = "write" /\ attempt[r] \in AccessJobs
      /\ user' = [user EXCEPT !.enabled = TRUE, !.counter = attempt[r].code[3]]
      /\ Access!Accept(attempt[r].code) /\ Access!Goto(r, "codes")
      /\ UNCHANGED <<recovery, issued, session, token, clock>>
  BY AttemptIsJob DEF Access!WriteEnabled, Access!At
<1>2. attempt[r] \in Enablings /\ attempt[r] # Access!Idle
  BY <1>1, JobKinds, NoAccess
<1>3. attempt[r].code \in TotpCodes
  BY <1>2 DEF Enablings
<1> DEFINE c == attempt[r].code[3]
<1>4. c \in 0..(MaxStep + 1)
  BY <1>3 DEF TotpCodes
<1> HIDE DEF c
<1>5. c \in Access!None..(MaxStep + 1)
  BY <1>4, NoAccess DEF AccessSetting
<1>6. user \in [pw : Nat, secret : 0..MaxSecrets, enabled : BOOLEAN, counter : Access!None..(MaxStep + 1)]
  BY DEF AccessBase, AccessTypes, AccessRows
<1>7. /\ user' \in [pw : Nat, secret : 0..MaxSecrets, enabled : BOOLEAN, counter : Access!None..(MaxStep + 1)]
      /\ user'.pw = user.pw /\ user'.secret = user.secret /\ user'.enabled = TRUE /\ user'.counter = c
  <2>1. user' = [user EXCEPT !.enabled = TRUE, !.counter = c]
    BY <1>1 DEF c
  <2> QED BY <1>5, <1>6, <2>1
<1>8. AccessRows'
  BY <1>1, <1>7 DEF AccessBase, AccessTypes, AccessRows
<1>9. Moved(r) /\ attempt'[r].op = attempt[r].op /\ attempt'[r].at = "codes"
  BY <1>1, <1>2, GoesOn
<1> QED BY <1>1, <1>3, <1>7, <1>8, <1>9, MovedBase DEF c

LEMMA WritePasswordMoves ==
    ASSUME AccessSetting, AccessBase, NEW r \in Requests, Access!WritePassword(r)
    PROVE  /\ AccessBase' /\ Moved(r) /\ UNCHANGED <<recovery, issued, token, factors, clock>>
           /\ attempt[r].op = "change" /\ attempt[r].at = "write" /\ attempt[r].by \in Sessions
           /\ Access!At(r, "change", "revoke")' /\ attempt'[r].by = attempt[r].by
           /\ user' = [user EXCEPT !.pw = user.pw + 1] /\ user'.pw = user.pw + 1 /\ user.pw \in Nat
           /\ session' = [session EXCEPT ![attempt[r].by].pw = user.pw + 1]
<1>1. /\ attempt[r].op = "change" /\ attempt[r].at = "write" /\ attempt[r] \in AccessJobs
      /\ user' = [user EXCEPT !.pw = user.pw + 1]
      /\ session' = [session EXCEPT ![attempt[r].by].pw = user.pw + 1]
      /\ Access!Goto(r, "revoke") /\ UNCHANGED <<recovery, issued, token, factors, clock>>
  BY AttemptIsJob DEF Access!WritePassword, Access!At
<1>2. attempt[r] \in Changes /\ attempt[r] # Access!Idle
  BY <1>1, JobKinds, NoAccess
<1>3. Moved(r) /\ attempt'[r] = [attempt[r] EXCEPT !.at = "revoke"] /\ attempt'[r].op = attempt[r].op /\ attempt'[r].at = "revoke"
  BY <1>1, <1>2, GoesOn
<1>4. attempt'[r].by = attempt[r].by /\ attempt[r].by \in Sessions
  BY <1>2, <1>3 DEF Changes
<1>5. /\ user \in [pw : Nat, secret : 0..MaxSecrets, enabled : BOOLEAN, counter : Access!None..(MaxStep + 1)]
      /\ session \in [Sessions -> [state : {"none", "live", "revoked"}, pw : Nat]]
  BY DEF AccessBase, AccessTypes, AccessRows
<1>6. user.pw \in Nat /\ user.pw + 1 \in Nat
  BY <1>5
<1>7. /\ user' \in [pw : Nat, secret : 0..MaxSecrets, enabled : BOOLEAN, counter : Access!None..(MaxStep + 1)]
      /\ user'.pw = user.pw + 1 /\ user'.secret = user.secret
  BY <1>1, <1>5, <1>6
<1>8. session' \in [Sessions -> [state : {"none", "live", "revoked"}, pw : Nat]]
  BY <1>1, <1>5, <1>6
<1>9. AccessRows'
  BY <1>1, <1>7, <1>8 DEF AccessBase, AccessTypes, AccessRows
<1> QED BY <1>1, <1>3, <1>4, <1>6, <1>7, <1>9, MovedBase DEF Access!At

LEMMA RevokeMoves ==
    ASSUME AccessSetting, AccessBase, NEW r \in Requests, Access!RevokeOthers(r)
    PROVE  /\ AccessBase' /\ Moved(r) /\ UNCHANGED <<user, recovery, issued, token, factors, clock>>
           /\ Access!At(r, "change", "revoke") /\ attempt'[r] = Access!Idle
           /\ \A s \in Sessions : session'[s].pw = session[s].pw
           /\ \A s \in Sessions : session'[s].state = "live" => s = attempt[r].by /\ s \in Access!Live
<1>1. /\ Access!At(r, "change", "revoke") /\ attempt[r].op = "change" /\ Access!Finish(r)
      /\ UNCHANGED <<user, recovery, issued, token, factors, clock>>
      /\ session' = [s \in Sessions |-> IF s \in Access!Live \ {attempt[r].by}
                                         THEN [session[s] EXCEPT !.state = "revoked"] ELSE session[s]]
  BY DEF Access!RevokeOthers, Access!At
<1>2. attempt[r] # Access!Idle
  BY <1>1, NoAccess
<1>3. session \in [Sessions -> [state : {"none", "live", "revoked"}, pw : Nat]]
  BY DEF AccessBase, AccessTypes, AccessRows
<1>4. ASSUME NEW s \in Sessions
      PROVE  /\ session'[s] \in [state : {"none", "live", "revoked"}, pw : Nat]
             /\ session'[s].pw = session[s].pw
             /\ session'[s].state = "live" => s = attempt[r].by /\ s \in Access!Live
  <2>1. session[s] \in [state : {"none", "live", "revoked"}, pw : Nat]
    BY <1>3
  <2>2. CASE s \in Access!Live \ {attempt[r].by}
    <3>1. session'[s] = [session[s] EXCEPT !.state = "revoked"]
      BY <1>1, <2>2
    <3> QED BY <2>1, <3>1
  <2>3. CASE s \notin Access!Live \ {attempt[r].by}
    <3>1. session'[s] = session[s]
      BY <1>1, <2>3
    <3> QED BY <2>1, <2>3, <3>1 DEF Access!Live
  <2> QED BY <2>2, <2>3
<1>5. session' \in [Sessions -> [state : {"none", "live", "revoked"}, pw : Nat]]
  BY <1>1, <1>4
<1>6. AccessRows'
  BY <1>1, <1>5 DEF AccessBase, AccessTypes, AccessRows
<1> QED BY <1>1, <1>2, <1>4, <1>6, EndsMoved, MovedBase

LEMMA RetireMoves ==
    ASSUME AccessSetting, AccessBase, NEW r \in Requests, Access!RetireTokens(r)
    PROVE  /\ AccessBase' /\ Moved(r) /\ UNCHANGED <<user, recovery, issued, session, factors, clock>>
           /\ attempt[r].op = "reset" /\ Access!At(r, "reset", "issue")'
           /\ \A t \in Tokens : token'[t] # "live"
<1>1. /\ attempt[r].op = "reset" /\ attempt[r] \in AccessJobs /\ Access!Goto(r, "issue")
      /\ token' = [t \in Tokens |-> IF token[t] = "live" THEN "used" ELSE token[t]]
      /\ UNCHANGED <<user, recovery, issued, session, factors, clock>>
  BY AttemptIsJob DEF Access!RetireTokens, Access!At
<1>2. attempt[r] \in Resets /\ attempt[r] # Access!Idle
  BY <1>1, JobKinds, NoAccess
<1>3. Moved(r) /\ attempt'[r].op = attempt[r].op /\ attempt'[r].at = "issue"
  BY <1>1, <1>2, GoesOn
<1>4. AccessRows' /\ \A t \in Tokens : token'[t] # "live"
  BY <1>1 DEF AccessBase, AccessTypes, AccessRows
<1> QED BY <1>1, <1>3, <1>4, MovedBase DEF Access!At

LEMMA IssueMoves ==
    ASSUME AccessSetting, AccessBase, NEW r \in Requests, NEW t \in Tokens, Access!IssueToken(r, t)
    PROVE  /\ AccessBase' /\ Moved(r) /\ UNCHANGED <<user, recovery, issued, session, factors, clock>>
           /\ Access!At(r, "reset", "issue") /\ attempt[r].op = "reset" /\ attempt'[r] = Access!Idle
           /\ \A u \in Tokens : token'[u] = "live" => token[u] = "live" \/ u = t
<1>1. /\ Access!At(r, "reset", "issue") /\ attempt[r].op = "reset" /\ Access!Finish(r)
      /\ token' = [token EXCEPT ![t] = "live"] /\ UNCHANGED <<user, recovery, issued, session, factors, clock>>
  BY DEF Access!IssueToken, Access!At
<1>2. attempt[r] # Access!Idle
  BY <1>1, NoAccess
<1>3. AccessRows' /\ \A u \in Tokens : token'[u] = "live" => token[u] = "live" \/ u = t
  BY <1>1 DEF AccessBase, AccessTypes, AccessRows
<1> QED BY <1>1, <1>2, <1>3, EndsMoved, MovedBase

LEMMA WriteResetMoves ==
    ASSUME AccessSetting, AccessBase, NEW r \in Requests, Access!WriteReset(r)
    PROVE  /\ AccessBase' /\ Moved(r) /\ UNCHANGED <<recovery, issued, factors, clock>>
           /\ attempt[r].op = "confirm" /\ attempt'[r] = Access!Idle
           /\ user' = [user EXCEPT !.pw = user.pw + 1] /\ user'.pw = user.pw + 1 /\ user.pw \in Nat
           /\ \A s \in Sessions : session'[s].state # "live" /\ session'[s].pw = session[s].pw
           /\ \A t \in Tokens : token'[t] = "live" => token[t] = "live"
<1>1. /\ attempt[r].op = "confirm" /\ attempt[r] \in AccessJobs /\ Access!Finish(r)
      /\ user' = [user EXCEPT !.pw = user.pw + 1] /\ token' = [token EXCEPT ![attempt[r].on] = "used"]
      /\ session' = [s \in Sessions |-> IF s \in Access!Live THEN [session[s] EXCEPT !.state = "revoked"] ELSE session[s]]
      /\ UNCHANGED <<recovery, issued, factors, clock>>
  BY AttemptIsJob DEF Access!WriteReset, Access!At, Access!RevokeAll
<1>2. attempt[r] # Access!Idle /\ attempt[r] \in Confirmations
  BY <1>1, NoAccess, JobKinds
<1>3. attempt[r].on \in Tokens
  BY <1>2 DEF Confirmations
<1>4. /\ user \in [pw : Nat, secret : 0..MaxSecrets, enabled : BOOLEAN, counter : Access!None..(MaxStep + 1)]
      /\ session \in [Sessions -> [state : {"none", "live", "revoked"}, pw : Nat]]
      /\ token \in [Tokens -> {"none", "live", "used"}]
  BY DEF AccessBase, AccessTypes, AccessRows
<1>5. user.pw \in Nat /\ user.pw + 1 \in Nat
  BY <1>4
<1>6. /\ user' \in [pw : Nat, secret : 0..MaxSecrets, enabled : BOOLEAN, counter : Access!None..(MaxStep + 1)]
      /\ user'.pw = user.pw + 1 /\ user'.secret = user.secret
  BY <1>1, <1>4, <1>5
<1>7. ASSUME NEW s \in Sessions
      PROVE  /\ session'[s] \in [state : {"none", "live", "revoked"}, pw : Nat]
             /\ session'[s].state # "live" /\ session'[s].pw = session[s].pw
  <2>1. session[s] \in [state : {"none", "live", "revoked"}, pw : Nat]
    BY <1>4
  <2>2. session'[s] = IF s \in Access!Live THEN [session[s] EXCEPT !.state = "revoked"] ELSE session[s]
    BY <1>1
  <2> QED BY <2>1, <2>2 DEF Access!Live
<1>8. session' \in [Sessions -> [state : {"none", "live", "revoked"}, pw : Nat]]
  BY <1>1, <1>7
<1>9. token' \in [Tokens -> {"none", "live", "used"}] /\ \A t \in Tokens : token'[t] = "live" => token[t] = "live"
  BY <1>1, <1>3, <1>4
<1>10. AccessRows'
  BY <1>1, <1>6, <1>8, <1>9 DEF AccessBase, AccessTypes, AccessRows
<1> QED BY <1>1, <1>2, <1>5, <1>6, <1>7, <1>9, <1>10, EndsMoved, MovedBase

(***************************************************************************)
(* Steps of no request.                                                    *)
(***************************************************************************)
LEMMA OutsideAccess ==
    ASSUME AccessSetting, AccessBase,
           \/ \E s \in Sessions : Access!SignOut(s)
           \/ \E t \in Tokens : Access!TokenLapses(t)
           \/ Access!Tick
           \/ UNCHANGED Access!vars
    PROVE  /\ AccessBase' /\ UNCHANGED <<user, recovery, issued, factors, attempt>>
           /\ \A s \in Sessions : session'[s].state = "live" => session[s].state = "live"
           /\ \A s \in Sessions : session'[s].pw = session[s].pw
           /\ \A t \in Tokens : token'[t] = "live" => token[t] = "live"
<1>1. /\ session \in [Sessions -> [state : {"none", "live", "revoked"}, pw : Nat]]
      /\ token \in [Tokens -> {"none", "live", "used"}] /\ clock \in 0..MaxStep
  BY DEF AccessBase, AccessTypes, AccessRows
<1>2. UNCHANGED <<user, recovery, issued, factors, attempt>>
  BY DEF Access!SignOut, Access!TokenLapses, Access!Tick, Access!vars
<1>3. /\ session' \in [Sessions -> [state : {"none", "live", "revoked"}, pw : Nat]]
      /\ \A s \in Sessions : session'[s].state = "live" => session[s].state = "live"
      /\ \A s \in Sessions : session'[s].pw = session[s].pw
  <2>1. CASE UNCHANGED session
    BY <1>1, <2>1
  <2>2. ASSUME NEW k \in Sessions, session' = [session EXCEPT ![k].state = "revoked"]
        PROVE <1>3!:
    <3>1. session[k] \in [state : {"none", "live", "revoked"}, pw : Nat]
      BY <1>1
    <3> QED BY <1>1, <2>2, <3>1
  <2> QED BY <2>1, <2>2 DEF Access!SignOut, Access!TokenLapses, Access!Tick, Access!vars
<1>4. token' \in [Tokens -> {"none", "live", "used"}] /\ \A t \in Tokens : token'[t] = "live" => token[t] = "live"
  <2>1. CASE UNCHANGED token
    BY <1>1, <2>1
  <2>2. ASSUME NEW k \in Tokens, token' = [token EXCEPT ![k] = "used"] PROVE <1>4!:
    BY <1>1, <2>2
  <2> QED BY <2>1, <2>2 DEF Access!SignOut, Access!TokenLapses, Access!Tick, Access!vars
<1>5. clock' \in 0..MaxStep
  BY <1>1 DEF Access!SignOut, Access!TokenLapses, Access!Tick, Access!vars, AccessSetting
<1>6. AccessRows'
  BY <1>2, <1>3, <1>4, <1>5 DEF AccessBase, AccessTypes, AccessRows
<1> QED BY <1>2, <1>3, <1>4, <1>6 DEF AccessBase, AccessTypes, Presented, Exclusive

(***************************************************************************)
(* A second factor is taken once.                                          *)
(***************************************************************************)
\* What an accepted code leaves behind: a step of this secret's is behind the
\* counter, a secret that is not this one never comes back, and a batch is gone.
Spent(c) ==
    /\ c \in FactorCodes /\ factors[c] = 1
    /\ c[1] = "totp" => /\ c[2] # 0 /\ c[2] <= issued.secrets
                        /\ c[2] = user.secret => user.enabled /\ c[3] <= user.counter
    /\ c[1] = "recovery" => c[2] \notin recovery /\ c[2] <= issued.batches

\* A code that waits to be taken is of the secret there is, and a secret is only
\* replaced while the factor is off.
Pending(r) ==
    /\ attempt[r].at = "advance" /\ attempt[r].code[1] = "totp" => user.enabled /\ attempt[r].code[2] = user.secret
    /\ Access!At(r, "enable", "write") => ~user.enabled /\ user.secret # 0 /\ attempt[r].code[2] = user.secret
    /\ attempt[r].op = "setup" => ~user.enabled

FactorInv ==
    /\ AccessBase /\ (user.enabled => user.secret # 0)
    /\ \A c \in DOMAIN factors : Spent(c)
    /\ \A r \in Requests : Pending(r)

\* Enabling the factor and switching it off are not overtaken.
FactorsAlone == {"enable", "disable"} \subseteq Alone

LEMMA AccessInit ==
    ASSUME AccessSetting, Access!Init
    PROVE  AccessBase
<1>1. AccessRows
  BY NoAccess DEF AccessSetting, AccessRows, Access!Init
<1>2. \A r \in Requests : attempt[r] = Access!Idle
  BY DEF Access!Init
<1>3. attempt \in [Requests -> AccessJobs]
  BY NoAccess DEF Access!Init
<1> QED BY <1>1, <1>2, <1>3, NoAccess DEF AccessBase, AccessTypes, Presented, Exclusive, AccessSetting

LEMMA FactorInit ==
    ASSUME AccessSetting, Access!Init
    PROVE  FactorInv
<1>1. DOMAIN factors = {} /\ user.enabled = FALSE /\ \A r \in Requests : attempt[r] = Access!Idle
  BY DEF Access!Init, Access!EmptyBag, Access!SetToBag
<1>2. \A r \in Requests : Pending(r)
  BY <1>1, NoAccess DEF Pending, Access!At
<1> QED BY <1>1, <1>2, AccessInit DEF FactorInv

\* Taking a code that was never taken.
LEMMA AcceptsFresh ==
    ASSUME NEW code, Access!Accept(code), code \notin DOMAIN factors, \A c \in DOMAIN factors : factors[c] = 1
    PROVE  DOMAIN factors' = DOMAIN factors \cup {code} /\ \A c \in DOMAIN factors' : factors'[c] = 1
BY DEF Access!Accept, Access!(+), Access!SetToBag

LEMMA CodeParts ==
    ASSUME NEW c \in FactorCodes
    PROVE  /\ c[1] \in {"totp", "recovery"}
           /\ c[1] = "totp" => c \in TotpCodes /\ c[2] \in Nat /\ c[3] \in Nat /\ c = <<"totp", c[2], c[3]>>
           /\ c[1] = "recovery" => c \in RecoveryCodes /\ c[2] \in Nat /\ c = <<"recovery", c[2], 0>>
BY DEF FactorCodes, TotpCodes, RecoveryCodes

\* Nobody else is on the way while a factor is enabled or disabled.
LEMMA OthersIdle ==
    ASSUME AccessBase, NEW r \in Requests, attempt[r].op \in Alone, NEW q \in Requests \ {r}
    PROVE  attempt[q] = Access!Idle /\ (attempt'[q] = attempt[q] => Pending(q)')
<1>1. attempt[q] = Access!Idle
  BY DEF AccessBase, Exclusive
<1> QED BY <1>1, NoAccess DEF Pending, Access!At

\* The accepted codes stay spent when the account's rows and the bag do.
LEMMA StillSpent ==
    ASSUME FactorInv, UNCHANGED <<issued, factors>>, recovery' \subseteq recovery,
           user'.secret = user.secret /\ user'.enabled = user.enabled /\ user'.counter = user.counter
    PROVE  (user'.enabled => user'.secret # 0) /\ \A c \in DOMAIN factors' : Spent(c)'
BY DEF FactorInv, Spent

\* The rows that the factor is about are as they were, and so is every request but one.
LEMMA FactorsRest ==
    ASSUME FactorInv, AccessBase', NEW r \in Requests, \A q \in Requests \ {r} : attempt'[q] = attempt[q],
           UNCHANGED <<recovery, issued, factors>>,
           user'.secret = user.secret /\ user'.enabled = user.enabled /\ user'.counter = user.counter,
           Pending(r)'
    PROVE  FactorInv'
<1>1. (user'.enabled => user'.secret # 0) /\ \A c \in DOMAIN factors' : Spent(c)'
  BY StillSpent
<1>2. \A q \in Requests : Pending(q)'
  BY DEF FactorInv, Pending, Access!At
<1> QED BY <1>1, <1>2 DEF FactorInv

LEMMA FactorBegins ==
    ASSUME AccessSetting, FactorsAlone, FactorInv, NEW r \in Requests,
           \/ Access!Login(r) \/ (\E op \in {"disable", "renew"} : Access!Manage(r, op))
           \/ Access!Setup(r) \/ Access!Enable(r) \/ Access!RequestReset(r)
           \/ (\E s \in Sessions : Access!ChangePassword(r, s))
           \/ (\E t \in Tokens : Access!Confirm(r, t))
    PROVE  FactorInv'
<1>1. AccessBase
  BY DEF FactorInv
<1>2. /\ AccessBase' /\ UNCHANGED <<user, recovery, issued, factors>>
      /\ Access!Begin(r, attempt'[r]) /\ attempt'[r].at # "advance"
      /\ Access!At(r, "enable", "write")' => attempt'[r].code[2] = user.secret /\ user.secret # 0 /\ ~user.enabled
      /\ attempt'[r].op = "setup" => ~user.enabled
  BY <1>1, BeginsAccess
<1>3. \A q \in Requests \ {r} : attempt'[q] = attempt[q]
  <2>1. PICK j : j = attempt'[r]
    OBVIOUS
  <2> QED BY <1>1, <1>2, <2>1, AttemptIsJob DEF Access!Begin
<1>4. Pending(r)'
  BY <1>2 DEF Pending
<1> QED BY <1>2, <1>3, <1>4, FactorsRest

LEMMA FactorRead ==
    ASSUME AccessSetting, FactorInv, NEW r \in Requests, Access!ReadFactor(r)
    PROVE  FactorInv'
<1>1. AccessBase
  BY DEF FactorInv
<1>2. /\ AccessBase' /\ Moved(r) /\ UNCHANGED <<user, recovery, issued, factors>> /\ attempt[r] \in Attempts
      /\ \/ attempt'[r] = Access!Idle
         \/ /\ attempt'[r].at = "advance" /\ attempt'[r].op # "setup" /\ user.enabled
            /\ attempt'[r].code[1] = "totp" => attempt'[r].code[2] = user.secret
  BY <1>1, ReadFactorMoves DEF Attempts
<1>3. \A q \in Requests \ {r} : attempt'[q] = attempt[q]
  BY <1>1, <1>2, MovedBase DEF AccessBase, AccessTypes
<1>4. Pending(r)'
  BY <1>2, NoAccess DEF Pending, Access!At
<1> QED BY <1>2, <1>3, <1>4, FactorsRest

LEMMA FactorRefuse ==
    ASSUME AccessSetting, FactorInv, NEW r \in Requests, Access!Refuse(r) \/ Access!Crash(r)
    PROVE  FactorInv'
<1>1. /\ AccessBase' /\ UNCHANGED <<user, recovery, issued, factors>>
      /\ attempt'[r] = Access!Idle /\ \A q \in Requests \ {r} : attempt'[q] = attempt[q]
  BY RefuseMoves DEF FactorInv
<1>2. Pending(r)'
  BY <1>1, NoAccess DEF Pending, Access!At
<1> QED BY <1>1, <1>2, FactorsRest

\* Whatever a request does that is not about the factor.
LEMMA FactorElsewhere ==
    ASSUME AccessSetting, FactorInv, NEW r \in Requests,
           \/ \E s \in Sessions : Access!OpenSession(r, s)
           \/ \E t \in Tokens : Access!IssueToken(r, t)
           \/ Access!DeleteCodes(r) \/ Access!WritePassword(r) \/ Access!RevokeOthers(r)
           \/ Access!RetireTokens(r) \/ Access!WriteReset(r)
    PROVE  FactorInv'
<1>1. AccessBase
  BY DEF FactorInv
<1>2. user \in [pw : Nat, secret : 0..MaxSecrets, enabled : BOOLEAN, counter : Access!None..(MaxStep + 1)]
  BY <1>1 DEF AccessBase, AccessTypes, AccessRows
<1>3. /\ AccessBase' /\ Moved(r) /\ UNCHANGED <<recovery, issued, factors>>
      /\ user' = user \/ \E n : user' = [user EXCEPT !.pw = n]
      /\ attempt'[r] = Access!Idle \/ (attempt'[r].at = "commit" /\ attempt'[r].op # "setup") \/ Access!At(r, "change", "revoke")'
         \/ Access!At(r, "reset", "issue")'
  BY <1>1, OpenMoves, IssueMoves, DeleteCodesMoves, WritePasswordMoves, RevokeMoves, RetireMoves, WriteResetMoves
<1>4. user'.secret = user.secret /\ user'.enabled = user.enabled /\ user'.counter = user.counter
  BY <1>2, <1>3
<1>5. \A q \in Requests \ {r} : attempt'[q] = attempt[q]
  BY <1>1, <1>3, MovedBase DEF AccessBase, AccessTypes
<1>6. Pending(r)'
  BY <1>3, NoAccess DEF Pending, Access!At
<1> QED BY <1>3, <1>4, <1>5, <1>6, FactorsRest

LEMMA FactorOutside ==
    ASSUME AccessSetting, FactorInv,
           \/ \E s \in Sessions : Access!SignOut(s)
           \/ \E t \in Tokens : Access!TokenLapses(t)
           \/ Access!Tick
           \/ UNCHANGED Access!vars
    PROVE  FactorInv'
<1>1. AccessBase' /\ UNCHANGED <<user, recovery, issued, factors, attempt>>
  BY OutsideAccess DEF FactorInv
<1> QED BY <1>1 DEF FactorInv, Spent, Pending, Access!At

LEMMA FactorDisable ==
    ASSUME AccessSetting, FactorsAlone, FactorInv, NEW r \in Requests, Access!Disable(r)
    PROVE  FactorInv'
<1>1. AccessBase
  BY DEF FactorInv
<1>2. /\ AccessBase' /\ Moved(r) /\ UNCHANGED <<issued, factors>>
      /\ attempt[r].op = "disable" /\ attempt'[r] = Access!Idle
      /\ user'.secret = 0 /\ user'.enabled = FALSE /\ recovery' \subseteq recovery
  BY <1>1, DisableMoves
<1>3. \A c \in DOMAIN factors' : Spent(c)'
  BY <1>2 DEF FactorInv, Spent
<1>4. \A q \in Requests \ {r} : attempt'[q] = attempt[q]
  BY <1>1, <1>2, MovedBase DEF AccessBase, AccessTypes
<1>5. \A q \in Requests : Pending(q)'
  BY <1>1, <1>2, <1>4, OthersIdle, NoAccess DEF FactorsAlone, Pending, Access!At
<1> QED BY <1>2, <1>3, <1>5 DEF FactorInv

LEMMA FactorSecret ==
    ASSUME AccessSetting, FactorsAlone, FactorInv, NEW r \in Requests, Access!WriteSecret(r)
    PROVE  FactorInv'
<1>1. AccessBase
  BY DEF FactorInv
<1>2. /\ AccessBase' /\ Moved(r) /\ UNCHANGED <<recovery, factors>>
      /\ attempt[r].op = "setup" /\ attempt'[r] = Access!Idle
      /\ user'.secret = issued.secrets + 1 /\ user'.enabled = FALSE
      /\ issued'.secrets = issued.secrets + 1 /\ issued'.batches = issued.batches
  BY <1>1, WriteSecretMoves
<1>3. issued.secrets \in Nat
  BY <1>1 DEF AccessBase, AccessTypes, AccessRows
<1>4. ASSUME NEW c \in DOMAIN factors PROVE Spent(c)'
  <2>1. Spent(c)
    BY DEF FactorInv
  <2>2. c[1] = "totp" => c[2] \in Nat /\ c[2] # 0 /\ c[2] <= issued.secrets
    BY <2>1, CodeParts DEF Spent
  <2>3. c[1] = "totp" => c[2] # 0 /\ c[2] <= issued'.secrets /\ c[2] # user'.secret
    BY <1>2, <1>3, <2>2
  <2> QED BY <1>2, <2>1, <2>3 DEF Spent
<1>5. \A q \in Requests \ {r} : attempt'[q] = attempt[q]
  BY <1>1, <1>2, MovedBase DEF AccessBase, AccessTypes
<1>6. \A q \in Requests : attempt[q].op # "enable"
  BY <1>1, <1>2, NoAccess DEF FactorsAlone, AccessBase, Exclusive
<1>7. ~user.enabled
  BY <1>2 DEF FactorInv, Pending
<1>8. \A q \in Requests : Pending(q)'
  BY <1>2, <1>5, <1>6, <1>7, NoAccess DEF FactorInv, Pending, Access!At
<1> QED BY <1>2, <1>4, <1>8 DEF FactorInv

LEMMA FactorReplace ==
    ASSUME AccessSetting, FactorInv, NEW r \in Requests, Access!ReplaceCodes(r)
    PROVE  FactorInv'
<1>1. AccessBase
  BY DEF FactorInv
<1>2. /\ AccessBase' /\ Moved(r) /\ UNCHANGED <<user, factors>> /\ attempt'[r] = Access!Idle
      /\ issued'.secrets = issued.secrets /\ issued'.batches = issued.batches + 1
      /\ recovery' \subseteq recovery \cup {issued.batches + 1}
  BY <1>1, ReplaceMoves
<1>3. issued.batches \in Nat
  BY <1>1 DEF AccessBase, AccessTypes, AccessRows
<1>4. ASSUME NEW c \in DOMAIN factors PROVE Spent(c)'
  <2>1. Spent(c)
    BY DEF FactorInv
  <2>2. c[1] = "recovery" => c[2] \in Nat /\ c[2] \notin recovery /\ c[2] <= issued.batches
    BY <2>1, CodeParts DEF Spent
  <2>3. c[1] = "recovery" => c[2] \notin recovery' /\ c[2] <= issued'.batches
    BY <1>2, <1>3, <2>2
  <2> QED BY <1>2, <2>1, <2>3 DEF Spent
<1>5. \A q \in Requests \ {r} : attempt'[q] = attempt[q]
  BY <1>1, <1>2, MovedBase DEF AccessBase, AccessTypes
<1>6. \A q \in Requests : Pending(q)'
  BY <1>2, <1>5, NoAccess DEF FactorInv, Pending, Access!At
<1> QED BY <1>2, <1>4, <1>6 DEF FactorInv

\* A code that is taken is taken for the first time: a step is ahead of the
\* counter, which no step of this secret's ever was after it, and a recovery
\* code is of a batch not yet taken.
LEMMA FactorAdvance ==
    ASSUME AccessSetting, FactorInv, NEW r \in Requests, Access!Advance(r)
    PROVE  FactorInv'
<1>1. AccessBase
  BY DEF FactorInv
<1>2. PICK code : code = attempt[r].code
  OBVIOUS
<1>3. /\ AccessBase' /\ Moved(r) /\ UNCHANGED <<issued, session, token, clock>>
      /\ attempt[r].at = "advance" /\ code \in FactorCodes
      /\ attempt'[r].at = "act" /\ attempt'[r].op # "setup"
      /\ Access!Accept(code) /\ Access!Takes(code)
      /\ user'.secret = user.secret /\ user'.enabled = user.enabled
      /\ \/ code \in TotpCodes /\ user'.counter = code[3] /\ recovery' = recovery
         \/ code \in RecoveryCodes /\ user' = user /\ recovery' = recovery \ {code[2]}
  BY <1>1, <1>2, AdvanceMoves DEF Attempts
<1>4. user.counter \in Int /\ issued.batches \in Nat /\ recovery \subseteq 1..issued.batches /\ user.secret <= issued.secrets
  BY <1>1, NoAccess DEF AccessBase, AccessTypes, AccessRows
<1>5. \A c \in DOMAIN factors : Spent(c)
  BY DEF FactorInv
<1>6. code \notin DOMAIN factors /\ (code[1] = "totp" => user.enabled /\ code[2] = user.secret /\ user.counter < code[3])
  <2>1. CASE code[1] = "totp"
    <3>1. user.enabled /\ code[2] = user.secret
      BY <1>2, <1>3, <2>1 DEF FactorInv, Pending
    <3>2. user.counter < code[3] /\ code[3] \in Nat
      BY <1>3, <2>1, CodeParts DEF Access!Takes
    <3> QED BY <1>4, <1>5, <3>1, <3>2, <2>1 DEF Spent
  <2>2. CASE code[1] = "recovery"
    BY <1>3, <1>5, <2>2 DEF Spent, Access!Takes
  <2> QED BY <1>3, <2>1, <2>2, CodeParts
<1>7. DOMAIN factors' = DOMAIN factors \cup {code} /\ \A c \in DOMAIN factors' : factors'[c] = 1
  BY <1>3, <1>5, <1>6, AcceptsFresh DEF Spent
<1>8. Spent(code)'
  <2>1. CASE code \in TotpCodes
    <3>1. code[1] = "totp" /\ code[3] \in Nat
      BY <1>3, <2>1, CodeParts DEF TotpCodes
    <3>2. user'.counter = code[3] /\ code[2] # 0 /\ code[2] <= issued.secrets
      BY <1>3, <1>4, <1>6, <2>1, <3>1 DEF FactorInv, RecoveryCodes
    <3> QED BY <1>3, <1>6, <1>7, <3>1, <3>2 DEF Spent
  <2>2. CASE code \in RecoveryCodes
    <3>1. code[1] = "recovery" /\ recovery' = recovery \ {code[2]}
      BY <1>3, <2>2 DEF RecoveryCodes, TotpCodes
    <3>2. code[2] \in recovery
      BY <1>3, <3>1 DEF Access!Takes
    <3> DEFINE b == code[2]
    <3>3. b <= issued.batches
      <4>1. b \in 1..issued.batches
        BY <1>4, <3>2
      <4> HIDE DEF b
      <4> QED BY <1>4, <4>1
    <3>4. code \in DOMAIN factors' /\ issued' = issued
      BY <1>3, <1>7
    <3> QED BY <1>3, <1>7, <3>1, <3>3, <3>4 DEF Spent
  <2> QED BY <1>3, <2>1, <2>2
<1>9. ASSUME NEW c \in DOMAIN factors PROVE Spent(c)'
  <2>1. Spent(c) /\ recovery' \subseteq recovery /\ factors'[c] = 1
    BY <1>3, <1>5, <1>7
  <2>2. c[1] = "totp" /\ c[2] = user'.secret => user'.enabled /\ c[3] <= user'.counter
    <3>1. CASE user' = user
      BY <2>1, <3>1 DEF Spent
    <3>2. CASE code \in TotpCodes /\ user'.counter = code[3]
      <4>1. ASSUME c[1] = "totp", c[2] = user'.secret PROVE user'.enabled /\ c[3] <= user'.counter
        <5>1. user.enabled /\ c[3] <= user.counter /\ c[3] \in Nat
          BY <1>3, <2>1, <4>1, CodeParts DEF Spent
        <5>2. code[3] \in Nat /\ user.counter < code[3]
          BY <1>3, <1>6, <3>2, CodeParts DEF TotpCodes
        <5> QED BY <1>3, <1>4, <3>2, <5>1, <5>2
      <4> QED BY <4>1
    <3> QED BY <1>3, <3>1, <3>2
  <2> QED BY <1>3, <2>1, <2>2 DEF Spent
<1>10. \A q \in Requests \ {r} : attempt'[q] = attempt[q]
  BY <1>1, <1>3, MovedBase DEF AccessBase, AccessTypes
<1>11. \A q \in Requests : Pending(q)'
  BY <1>3, <1>10 DEF FactorInv, Pending, Access!At
<1> QED BY <1>3, <1>7, <1>8, <1>9, <1>11 DEF FactorInv

LEMMA FactorEnable ==
    ASSUME AccessSetting, FactorsAlone, FactorInv, NEW r \in Requests, Access!WriteEnabled(r)
    PROVE  FactorInv'
<1>1. AccessBase
  BY DEF FactorInv
<1>2. PICK code : code = attempt[r].code
  OBVIOUS
<1>3. /\ AccessBase' /\ Moved(r) /\ UNCHANGED <<recovery, issued, session, token, clock>>
      /\ attempt[r].op = "enable" /\ attempt'[r].op = "enable" /\ attempt'[r].at = "codes" /\ code \in TotpCodes /\ Access!Accept(code)
      /\ user'.secret = user.secret /\ user'.enabled = TRUE /\ user'.counter = code[3]
  BY <1>1, <1>2, WriteEnabledMoves
<1>4. ~user.enabled /\ user.secret # 0 /\ code[2] = user.secret
  BY <1>2 DEF FactorInv, Pending, Access!WriteEnabled
<1>5. code[1] = "totp" /\ code[3] \in Nat /\ code \in FactorCodes
  BY <1>3, CodeParts DEF TotpCodes, FactorCodes
<1>6. \A c \in DOMAIN factors : Spent(c) /\ (c[1] = "totp" => c[2] # user.secret)
  BY <1>4 DEF FactorInv, Spent
<1>7. code \notin DOMAIN factors
  BY <1>4, <1>5, <1>6
<1>8. DOMAIN factors' = DOMAIN factors \cup {code} /\ \A c \in DOMAIN factors' : factors'[c] = 1
  BY <1>3, <1>6, <1>7, AcceptsFresh DEF Spent
<1>9. Spent(code)'
  BY <1>1, <1>3, <1>4, <1>5, <1>8 DEF Spent, AccessBase, AccessTypes, AccessRows
<1>10. \A c \in DOMAIN factors : Spent(c)'
  BY <1>3, <1>6, <1>8 DEF Spent
<1>11. \A q \in Requests \ {r} : attempt'[q] = attempt[q]
  BY <1>1, <1>3, MovedBase DEF AccessBase, AccessTypes
<1>12. \A q \in Requests : Pending(q)'
  BY <1>1, <1>3, <1>11, OthersIdle DEF FactorsAlone, Pending, Access!At
<1> QED BY <1>3, <1>4, <1>8, <1>9, <1>10, <1>12 DEF FactorInv

LEMMA FactorStep ==
    ASSUME AccessSetting, FactorsAlone, FactorInv, [Access!Next]_(Access!vars)
    PROVE  FactorInv'
BY FactorBegins, FactorRead, FactorRefuse, FactorElsewhere, FactorOutside, FactorDisable, FactorSecret,
   FactorReplace, FactorAdvance, FactorEnable DEF Access!Next

\* "replay-protected via an atomic counter advance", "single-use" (mfa.ts:33): no step of
\* an authenticator and no recovery code is accepted twice, however sign-ins, renewals of
\* the recovery codes and new set-ups overlap and die, provided that enabling the factor
\* and switching it off are not overtaken by other requests of the account.
THEOREM SecondFactorOnce ==
    ASSUME AccessSetting, FactorsAlone
    PROVE  Access!Spec => []Access!SecondFactorOnce
<1>1. Access!Init => FactorInv
  BY FactorInit
<1>2. FactorInv /\ [Access!Next]_(Access!vars) => FactorInv'
  BY FactorStep
<1>3. FactorInv => Access!SecondFactorOnce
  BY DEF FactorInv, Spent, Access!SecondFactorOnce, Access!BagToSet
<1> QED BY <1>1, <1>2, <1>3, PTL DEF Access!Spec

(***************************************************************************)
(* What a newer password or reset link supersedes.                         *)
(***************************************************************************)
Revoking(r) == Access!At(r, "change", "revoke")
Issuing(r) == Access!At(r, "reset", "issue")
\* The change that r is making is about to revoke session s.
Sweeping(r, s) == Revoking(r) /\ attempt[r].by # s

\* A session of an older password is about to be revoked by a change that it did not ask
\* for: the last one to write the password is at it, or has been.
SessionsInv ==
    /\ AccessBase /\ spared \subseteq Sessions
    /\ \A s \in Access!Live \ spared : session[s].pw = user.pw \/ \E r \in Requests : Sweeping(r, s)

\* While a link is on its way there is none, unless two are on their way.
TokensInv ==
    \/ twin
    \/ /\ \A t, u \in Tokens : token[t] = "live" /\ token[u] = "live" => t = u
       /\ \A r \in Requests : Issuing(r) => \A t \in Tokens : token[t] # "live"

PasswordInv == SessionsInv /\ TokensInv

LEMMA PasswordInit ==
    ASSUME AccessSetting, Access!Init
    PROVE  PasswordInv
<1>1. /\ \A r \in Requests : attempt[r] = Access!Idle
      /\ \A s \in Sessions : session[s].state = "none"
      /\ \A t \in Tokens : token[t] = "none"
      /\ spared = {}
  BY DEF Access!Init
<1>2. \A r \in Requests : ~Issuing(r)
  BY <1>1, NoAccess DEF Issuing, Access!At
<1> QED BY <1>1, <1>2, AccessInit DEF PasswordInv, SessionsInv, TokensInv, Access!Live

\* The password and the sessions are as they were, but for sessions that end, and every
\* request but one is where it was.
LEMMA SessionsRest ==
    ASSUME SessionsInv, AccessBase', NEW r \in Requests, \A q \in Requests \ {r} : attempt'[q] = attempt[q],
           user'.pw = user.pw, spared' = spared, \A s \in Sessions : session'[s].pw = session[s].pw,
           \A s \in Sessions : session'[s].state = "live" => session[s].state = "live",
           ~Revoking(r)
    PROVE  SessionsInv'
<1>1. ASSUME NEW s \in Access!Live', s \notin spared'
      PROVE  session'[s].pw = user'.pw \/ \E q \in Requests : Sweeping(q, s)'
  <2>1. s \in Access!Live \ spared
    BY <1>1 DEF Access!Live
  <2>2. CASE session[s].pw = user.pw
    BY <2>1, <2>2 DEF Access!Live
  <2>3. ASSUME NEW q \in Requests, Sweeping(q, s)
        PROVE  Sweeping(q, s)'
    BY <2>3 DEF Sweeping, Revoking, Access!At
  <2> QED BY <2>1, <2>2, <2>3 DEF SessionsInv
<1> QED BY <1>1 DEF SessionsInv

\* So are the reset links, but for links that lapse.
LEMMA TokensRest ==
    ASSUME TokensInv, NEW r \in Requests, \A q \in Requests \ {r} : attempt'[q] = attempt[q],
           twin' = twin, \A t \in Tokens : token'[t] = "live" => token[t] = "live", ~Issuing(r)'
    PROVE  TokensInv'
<1>1. \A q \in Requests : Issuing(q)' => Issuing(q)
  BY DEF Issuing, Access!At
<1> QED BY <1>1 DEF TokensInv

LEMMA PasswordBegins ==
    ASSUME AccessSetting, PasswordInv, NEW r \in Requests,
           \/ Access!Login(r) \/ (\E op \in {"disable", "renew"} : Access!Manage(r, op))
           \/ Access!Setup(r) \/ Access!Enable(r) \/ Access!RequestReset(r)
           \/ (\E s \in Sessions : Access!ChangePassword(r, s))
           \/ (\E t \in Tokens : Access!Confirm(r, t))
    PROVE  PasswordInv'
<1>1. AccessBase /\ SessionsInv /\ TokensInv
  BY DEF PasswordInv, SessionsInv
<1>2. /\ AccessBase' /\ UNCHANGED <<user, session, token>>
      /\ Access!Begin(r, attempt'[r]) /\ ~Issuing(r)'
  BY <1>1, BeginsAccess DEF Issuing
<1>3. attempt[r] = Access!Idle /\ \A q \in Requests \ {r} : attempt'[q] = attempt[q]
  <2>1. PICK j : j = attempt'[r]
    OBVIOUS
  <2> QED BY <1>1, <1>2, <2>1, AttemptIsJob DEF Access!Begin
<1>4. spared' = spared /\ twin' = twin
  BY DEF Access!Login, Access!Manage, Access!Setup, Access!Enable, Access!RequestReset,
         Access!ChangePassword, Access!Confirm
<1>5. ~Revoking(r)
  BY <1>3, NoAccess DEF Revoking, Access!At
<1>6. SessionsInv'
  BY <1>1, <1>2, <1>3, <1>4, <1>5, SessionsRest
<1>7. TokensInv'
  BY <1>1, <1>2, <1>3, <1>4, TokensRest
<1> QED BY <1>6, <1>7 DEF PasswordInv

\* Whatever a request does that is not about passwords, sessions or reset links.
LEMMA PasswordElsewhere ==
    ASSUME AccessSetting, PasswordInv, NEW r \in Requests,
           \/ Access!ReadFactor(r) \/ Access!Advance(r) \/ Access!DeleteCodes(r) \/ Access!Disable(r)
           \/ Access!ReplaceCodes(r) \/ Access!WriteSecret(r) \/ Access!WriteEnabled(r)
    PROVE  PasswordInv'
<1>1. AccessBase /\ SessionsInv /\ TokensInv
  BY DEF PasswordInv, SessionsInv
<1>2. /\ AccessBase' /\ Moved(r) /\ UNCHANGED <<session, token>> /\ user'.pw = user.pw
      /\ \/ attempt'[r] = Access!Idle
         \/ attempt'[r].at \in {"advance", "act", "commit", "codes"} /\ attempt'[r].op = attempt[r].op
            /\ attempt'[r].op \in {"login", "disable", "renew", "enable"}
      /\ attempt[r].op \in {"login", "disable", "renew", "enable", "setup"}
  <2>1. CASE Access!ReadFactor(r)
    BY <1>1, <2>1, ReadFactorMoves, NoAccess DEF Attempts
  <2>2. CASE Access!Advance(r)
    BY <1>1, <2>2, AdvanceMoves DEF Attempts
  <2>3. CASE Access!DeleteCodes(r)
    BY <1>1, <2>3, DeleteCodesMoves
  <2>4. CASE Access!Disable(r)
    BY <1>1, <2>4, DisableMoves, NoAccess
  <2>5. CASE Access!ReplaceCodes(r)
    BY <1>1, <2>5, ReplaceMoves, NoAccess DEF Access!ReplaceCodes, Access!At
  <2>6. CASE Access!WriteSecret(r)
    BY <1>1, <2>6, WriteSecretMoves, NoAccess
  <2>7. CASE Access!WriteEnabled(r)
    BY <1>1, <2>7, WriteEnabledMoves
  <2> QED BY <2>1, <2>2, <2>3, <2>4, <2>5, <2>6, <2>7
<1>3. \A q \in Requests \ {r} : attempt'[q] = attempt[q]
  BY <1>1, <1>2, MovedBase DEF AccessBase, AccessTypes
<1>4. spared' = spared /\ twin' = twin
  BY DEF Access!ReadFactor, Access!Advance, Access!DeleteCodes, Access!Disable,
         Access!ReplaceCodes, Access!WriteSecret, Access!WriteEnabled
<1>5. ~Revoking(r) /\ ~Issuing(r)'
  BY <1>2, NoAccess DEF Revoking, Issuing, Access!At
<1>6. SessionsInv'
  BY <1>1, <1>2, <1>3, <1>4, <1>5, SessionsRest
<1>7. TokensInv'
  BY <1>1, <1>2, <1>3, <1>4, <1>5, TokensRest
<1> QED BY <1>6, <1>7 DEF PasswordInv

\* A change that dies before it revokes spares the sessions of the older password.
LEMMA PasswordRefuse ==
    ASSUME AccessSetting, PasswordInv, NEW r \in Requests, Access!Refuse(r) \/ Access!Crash(r)
    PROVE  PasswordInv'
<1>1. AccessBase /\ SessionsInv /\ TokensInv
  BY DEF PasswordInv, SessionsInv
<1>2. /\ AccessBase' /\ UNCHANGED <<user, session, token>> /\ twin' = twin
      /\ attempt'[r] = Access!Idle /\ \A q \in Requests \ {r} : attempt'[q] = attempt[q]
  BY <1>1, RefuseMoves DEF Access!Refuse, Access!Crash
<1>3. SessionsInv'
  <2>1. CASE Revoking(r)
    <3>1. spared' = spared \cup {s \in Access!Live : session[s].pw # user.pw}
      BY <2>1 DEF Revoking, Access!At, Access!Refuse, Access!Crash
    <3>2. \A s \in Access!Live' \ spared' : session'[s].pw = user'.pw
      BY <1>2, <3>1 DEF Access!Live
    <3> QED BY <1>1, <1>2, <3>1, <3>2 DEF SessionsInv, Access!Live
  <2>2. CASE ~Revoking(r)
    <3>1. spared' = spared
      BY <2>2 DEF Revoking, Access!Refuse, Access!Crash
    <3> QED BY <1>1, <1>2, <2>2, <3>1, SessionsRest
  <2> QED BY <2>1, <2>2
<1>4. ~Issuing(r)'
  BY <1>2, NoAccess DEF Issuing, Access!At
<1>5. TokensInv'
  BY <1>1, <1>2, <1>4, TokensRest
<1> QED BY <1>3, <1>5 DEF PasswordInv

\* A session that opens with an older password, which a change has overtaken, is spared.
LEMMA PasswordOpens ==
    ASSUME AccessSetting, PasswordInv, NEW r \in Requests, NEW s \in Sessions, Access!OpenSession(r, s)
    PROVE  PasswordInv'
<1>1. AccessBase /\ SessionsInv /\ TokensInv
  BY DEF PasswordInv, SessionsInv
<1>2. /\ AccessBase' /\ Moved(r) /\ UNCHANGED <<user, token>> /\ attempt[r].op = "login" /\ attempt'[r] = Access!Idle
      /\ session' = [session EXCEPT ![s] = [state |-> "live", pw |-> attempt[r].pw]]
  BY <1>1, OpenMoves
<1>3. \A q \in Requests \ {r} : attempt'[q] = attempt[q]
  BY <1>1, <1>2, MovedBase DEF AccessBase, AccessTypes
<1>4. /\ twin' = twin
      /\ spared' = IF attempt[r].pw = user.pw THEN spared ELSE spared \cup {s}
  BY DEF Access!OpenSession
<1>5. ~Revoking(r) /\ ~Issuing(r)'
  BY <1>2, NoAccess DEF Revoking, Issuing, Access!At
<1>6. session'[s].pw = attempt[r].pw /\ \A x \in Sessions \ {s} : session'[x] = session[x]
  <2>1. session = [x \in Sessions |-> session[x]]
    BY <1>1 DEF AccessBase, AccessTypes, AccessRows
  <2> QED BY <1>2, <2>1
<1>7. ASSUME NEW x \in Access!Live', x \notin spared'
      PROVE  session'[x].pw = user'.pw \/ \E q \in Requests : Sweeping(q, x)'
  <2>1. CASE x = s
    BY <1>2, <1>4, <1>6, <1>7, <2>1
  <2>2. CASE x # s
    <3>1. x \in Access!Live \ spared /\ session'[x] = session[x]
      BY <1>4, <1>6, <1>7, <2>2 DEF Access!Live
    <3>2. ASSUME NEW q \in Requests, Sweeping(q, x)
          PROVE  Sweeping(q, x)'
      BY <1>3, <1>5, <3>2 DEF Sweeping, Revoking, Access!At
    <3> QED BY <1>1, <1>2, <3>1, <3>2 DEF SessionsInv
  <2> QED BY <2>1, <2>2
<1>8. SessionsInv'
  BY <1>1, <1>2, <1>4, <1>7 DEF SessionsInv
<1>9. TokensInv'
  BY <1>1, <1>2, <1>3, <1>4, <1>5, TokensRest
<1> QED BY <1>8, <1>9 DEF PasswordInv

\* The one that writes the password last sweeps up every other session.
LEMMA PasswordWrites ==
    ASSUME AccessSetting, PasswordInv, NEW r \in Requests, Access!WritePassword(r)
    PROVE  PasswordInv'
<1>1. AccessBase /\ SessionsInv /\ TokensInv
  BY DEF PasswordInv, SessionsInv
<1>2. /\ AccessBase' /\ Moved(r) /\ UNCHANGED <<token>>
      /\ attempt[r].by \in Sessions
      /\ Access!At(r, "change", "revoke")' /\ attempt'[r].by = attempt[r].by
      /\ user'.pw = user.pw + 1
      /\ session' = [session EXCEPT ![attempt[r].by].pw = user.pw + 1]
  BY <1>1, WritePasswordMoves
<1>3. \A q \in Requests \ {r} : attempt'[q] = attempt[q]
  BY <1>1, <1>2, MovedBase DEF AccessBase, AccessTypes
<1>4. twin' = twin /\ spared' = spared \ {attempt[r].by}
  BY DEF Access!WritePassword
<1>5. session'[attempt[r].by].pw = user'.pw
  <2>1. session \in [Sessions -> [state : {"none", "live", "revoked"}, pw : Nat]]
    BY <1>1 DEF AccessBase, AccessTypes, AccessRows
  <2>2. session[attempt[r].by] \in [state : {"none", "live", "revoked"}, pw : Nat]
    BY <1>2, <2>1
  <2>3. session'[attempt[r].by] = [session[attempt[r].by] EXCEPT !.pw = user.pw + 1]
    BY <1>2, <2>1
  <2> QED BY <1>2, <2>2, <2>3
<1>6. \A s \in Sessions : s # attempt[r].by => Sweeping(r, s)'
  BY <1>2 DEF Sweeping, Revoking
<1>7. SessionsInv'
  BY <1>1, <1>2, <1>4, <1>5, <1>6 DEF SessionsInv, Access!Live
<1>8. ~Issuing(r)'
  BY <1>2 DEF Issuing, Access!At
<1>9. TokensInv'
  BY <1>1, <1>2, <1>3, <1>4, <1>8, TokensRest
<1> QED BY <1>7, <1>9 DEF PasswordInv

\* The session that is left is its own; if that is of an older password, the change that
\* has overtaken this one is still to revoke it.
LEMMA PasswordRevokes ==
    ASSUME AccessSetting, PasswordInv, NEW r \in Requests, Access!RevokeOthers(r)
    PROVE  PasswordInv'
<1>1. AccessBase /\ SessionsInv /\ TokensInv
  BY DEF PasswordInv, SessionsInv
<1>2. /\ AccessBase' /\ Moved(r) /\ UNCHANGED <<user, token>> /\ attempt'[r] = Access!Idle
      /\ \A s \in Sessions : session'[s].pw = session[s].pw
      /\ \A s \in Sessions : session'[s].state = "live" => s = attempt[r].by /\ s \in Access!Live
  BY <1>1, RevokeMoves
<1>3. \A q \in Requests \ {r} : attempt'[q] = attempt[q]
  BY <1>1, <1>2, MovedBase DEF AccessBase, AccessTypes
<1>4. twin' = twin /\ spared' = spared
  BY DEF Access!RevokeOthers
<1>5. ASSUME NEW s \in Access!Live', s \notin spared'
      PROVE  session'[s].pw = user'.pw \/ \E q \in Requests : Sweeping(q, s)'
  <2>1. s = attempt[r].by /\ s \in Access!Live \ spared /\ session'[s].pw = session[s].pw
    BY <1>2, <1>4, <1>5 DEF Access!Live
  <2>2. ASSUME NEW q \in Requests, Sweeping(q, s)
        PROVE  Sweeping(q, s)'
    BY <1>3, <2>1, <2>2 DEF Sweeping, Revoking, Access!At
  <2> QED BY <1>1, <1>2, <2>1, <2>2 DEF SessionsInv
<1>6. SessionsInv'
  BY <1>1, <1>2, <1>4, <1>5 DEF SessionsInv
<1>7. ~Issuing(r)'
  BY <1>2, NoAccess DEF Issuing, Access!At
<1>8. TokensInv'
  BY <1>1, <1>2, <1>3, <1>4, <1>7, TokensRest
<1> QED BY <1>6, <1>8 DEF PasswordInv

LEMMA PasswordResets ==
    ASSUME AccessSetting, PasswordInv, NEW r \in Requests, Access!WriteReset(r)
    PROVE  PasswordInv'
<1>1. AccessBase /\ SessionsInv /\ TokensInv
  BY DEF PasswordInv, SessionsInv
<1>2. /\ AccessBase' /\ Moved(r) /\ attempt'[r] = Access!Idle
      /\ \A s \in Sessions : session'[s].state # "live"
      /\ \A t \in Tokens : token'[t] = "live" => token[t] = "live"
  BY <1>1, WriteResetMoves
<1>3. \A q \in Requests \ {r} : attempt'[q] = attempt[q]
  BY <1>1, <1>2, MovedBase DEF AccessBase, AccessTypes
<1>4. twin' = twin /\ spared' = spared
  BY DEF Access!WriteReset
<1>5. SessionsInv'
  BY <1>1, <1>2, <1>4 DEF SessionsInv, Access!Live
<1>6. ~Issuing(r)'
  BY <1>2, NoAccess DEF Issuing, Access!At
<1>7. TokensInv'
  BY <1>1, <1>2, <1>3, <1>4, <1>6, TokensRest
<1> QED BY <1>5, <1>7 DEF PasswordInv

\* The links there were are retired before one is issued.
LEMMA PasswordRetires ==
    ASSUME AccessSetting, PasswordInv, NEW r \in Requests, Access!RetireTokens(r)
    PROVE  PasswordInv'
<1>1. AccessBase /\ SessionsInv /\ TokensInv
  BY DEF PasswordInv, SessionsInv
<1>2. /\ AccessBase' /\ Moved(r) /\ UNCHANGED <<user, session>>
      /\ attempt[r].op = "reset" /\ \A t \in Tokens : token'[t] # "live"
  BY <1>1, RetireMoves
<1>3. \A q \in Requests \ {r} : attempt'[q] = attempt[q]
  BY <1>1, <1>2, MovedBase DEF AccessBase, AccessTypes
<1>4. spared' = spared /\ ~Revoking(r)
  BY <1>2 DEF Access!RetireTokens, Revoking, Access!At
<1>5. SessionsInv'
  BY <1>1, <1>2, <1>3, <1>4, SessionsRest
<1>6. TokensInv'
  BY <1>2 DEF TokensInv
<1> QED BY <1>5, <1>6 DEF PasswordInv

\* Nobody else's link is on its way when one is issued, or there may be twins.
LEMMA PasswordIssues ==
    ASSUME AccessSetting, PasswordInv, NEW r \in Requests, NEW t \in Tokens, Access!IssueToken(r, t)
    PROVE  PasswordInv'
<1>1. AccessBase /\ SessionsInv /\ TokensInv
  BY DEF PasswordInv, SessionsInv
<1>2. /\ AccessBase' /\ Moved(r) /\ UNCHANGED <<user, session>>
      /\ Issuing(r) /\ attempt[r].op = "reset" /\ attempt'[r] = Access!Idle
      /\ \A u \in Tokens : token'[u] = "live" => token[u] = "live" \/ u = t
  BY <1>1, IssueMoves DEF Issuing
<1>3. \A q \in Requests \ {r} : attempt'[q] = attempt[q]
  BY <1>1, <1>2, MovedBase DEF AccessBase, AccessTypes
<1>4. spared' = spared /\ ~Revoking(r) /\ ~Issuing(r)'
  BY <1>2, NoAccess DEF Access!IssueToken, Revoking, Issuing, Access!At
<1>5. SessionsInv'
  BY <1>1, <1>2, <1>3, <1>4, SessionsRest
<1>6. CASE twin \/ \E q \in Requests \ {r} : Issuing(q)
  BY <1>5, <1>6 DEF Access!IssueToken, PasswordInv, TokensInv, Issuing
<1>7. CASE ~twin /\ \A q \in Requests \ {r} : ~Issuing(q)
  <2>1. \A q \in Requests : ~Issuing(q)'
    BY <1>3, <1>4, <1>7 DEF Issuing, Access!At
  <2>2. \A u \in Tokens : token'[u] = "live" => u = t
    BY <1>1, <1>2, <1>7 DEF TokensInv
  <2> QED BY <2>1, <2>2, <1>5 DEF TokensInv, PasswordInv
<1> QED BY <1>5, <1>6, <1>7 DEF PasswordInv

LEMMA PasswordOutside ==
    ASSUME AccessSetting, PasswordInv,
           \/ \E s \in Sessions : Access!SignOut(s)
           \/ \E t \in Tokens : Access!TokenLapses(t)
           \/ Access!Tick
           \/ UNCHANGED Access!vars
    PROVE  PasswordInv'
<1>1. AccessBase /\ SessionsInv /\ TokensInv
  BY DEF PasswordInv, SessionsInv
<1>2. /\ AccessBase' /\ UNCHANGED <<user, attempt>>
      /\ \A s \in Sessions : session'[s].state = "live" => session[s].state = "live"
      /\ \A s \in Sessions : session'[s].pw = session[s].pw
      /\ \A t \in Tokens : token'[t] = "live" => token[t] = "live"
  BY <1>1, OutsideAccess
<1>3. spared' = spared /\ twin' = twin
  BY DEF Access!SignOut, Access!TokenLapses, Access!Tick, Access!vars
<1>4. ASSUME NEW s \in Access!Live', s \notin spared'
      PROVE  session'[s].pw = user'.pw \/ \E q \in Requests : Sweeping(q, s)'
  <2>1. s \in Access!Live \ spared /\ session'[s].pw = session[s].pw
    BY <1>2, <1>3, <1>4 DEF Access!Live
  <2> QED BY <1>1, <1>2, <2>1 DEF SessionsInv, Sweeping, Revoking, Access!At
<1>5. SessionsInv'
  BY <1>1, <1>2, <1>3, <1>4 DEF SessionsInv
<1>6. TokensInv'
  BY <1>1, <1>2, <1>3 DEF TokensInv, Issuing, Access!At
<1> QED BY <1>5, <1>6 DEF PasswordInv

LEMMA PasswordStep ==
    ASSUME AccessSetting, PasswordInv, [Access!Next]_(Access!vars)
    PROVE  PasswordInv'
BY PasswordBegins, PasswordElsewhere, PasswordRefuse, PasswordOpens, PasswordWrites, PasswordRevokes,
   PasswordResets, PasswordRetires, PasswordIssues, PasswordOutside DEF Access!Next

LEMMA PasswordHolds ==
    ASSUME AccessSetting, PasswordInv
    PROVE  Access!SupersededIsDead
<1>1. AccessBase
  BY DEF PasswordInv, SessionsInv
<1>2. Access!TypeOK
  BY <1>1 DEF AccessBase, AccessTypes, AccessRows, PasswordInv, SessionsInv, Access!TypeOK
<1>3. Access!SessionsFollowPassword
  BY <1>2 DEF Access!SessionsFollowPassword, PasswordInv, SessionsInv, Sweeping, Revoking
<1>4. Access!OneLiveToken
  <2> DEFINE Working == {t \in Tokens : token[t] = "live"}
  <2> SUFFICES ASSUME ~twin PROVE Access!Cardinality(Working) <= 1
    BY DEF Access!OneLiveToken
  <2>1. \A t, u \in Working : t = u
    BY DEF PasswordInv, TokensInv
  <2>2. Cardinality(Working) <= 1
    <3> HIDE DEF Working
    <3>1. CASE Working = {}
      BY <3>1, FS_EmptySet
    <3>2. CASE Working # {}
      <4>1. PICK t : t \in Working
        BY <3>2
      <4>2. Working = {t}
        BY <2>1, <4>1
      <4>3. Cardinality({t}) = 1
        BY FS_Singleton
      <4> QED BY <4>2, <4>3
    <3> QED BY <3>1, <3>2
  <2>3. Access!Cardinality(Working) = Cardinality(Working)
    BY DEF Access!Cardinality, Cardinality, Access!IsFiniteSet, IsFiniteSet
  <2> QED BY <2>2, <2>3
<1> QED BY <1>3, <1>4 DEF Access!SupersededIsDead

\* "so stolen sessions don't survive a credential rotation" (account/password/route.ts:12)
\* and "Invalidate outstanding tokens ... then issue a fresh one" (auth/reset/route.ts:35):
\* however changes, resets, sign-ins and requests for a link overlap and die, the sessions
\* left are of the password in force or about to be revoked, but for those opened by a
\* sign-in that a change has overtaken or left by a change that died; and one reset link
\* works, but for two requests that overlapped, until the next one.
THEOREM SupersededIsDead ==
    ASSUME AccessSetting
    PROVE  Access!Spec => []Access!SupersededIsDead
<1>1. Access!Init => PasswordInv
  BY PasswordInit
<1>2. PasswordInv /\ [Access!Next]_(Access!vars) => PasswordInv'
  BY PasswordStep
<1>3. PasswordInv => Access!SupersededIsDead
  BY PasswordHolds
<1> QED BY <1>1, <1>2, <1>3, PTL DEF Access!Spec

(***************************************************************************)
(* Folders.                                                                *)
(***************************************************************************)
\* Folder f was found in workspace w when link l was read, unless a move has
\* overtaken a filing of l.
Found(l, f, w) == l \in overtaken \/ f = Filing!None \/ Home[f] = w

\* What a request has checked, whatever happens to the links until it writes.
Fits(j) ==
    \/ /\ j.op = "file" /\ j.on \in Links /\ j.to \in Folders \cup {Filing!None}
       /\ j.to # Filing!None => Home[j.to] = j.ws[j.on]
    \/ /\ j.op = "bulk" /\ j.to \in Folders \cup {Filing!None} /\ DOMAIN j.from \subseteq Links
       /\ \A l \in DOMAIN j.from : /\ j.to # Filing!None => Home[j.to] = j.ws[l]
                                   /\ j.from[l] \in Folders \cup {Filing!None} /\ Found(l, j.from[l], j.ws[l])
    \/ /\ j.op = "undo" /\ DOMAIN j.back \subseteq Links
       /\ \A l \in DOMAIN j.back : j.back[l] \in Folders \cup {Filing!None} /\ Found(l, j.back[l], j.ws[l])
    \/ j.op = "move" /\ j.on \in Links /\ j.to \in Workspaces \cup {Filing!None}
    \/ /\ j.op = "create" /\ j.ws \in Workspaces \cup {Filing!None} /\ j.by \in Users \cup {Filing!None}
       /\ j.folder \in Folders \cup {Filing!None}
       /\ j.of \cap overtaken # {} \/ j.folder = Filing!None \/ Home[j.folder] = j.ws
    \/ j.op = "delete" /\ j.folder \in Folders

\* What a bulk edit has noted for its undo.
Undoable == \A l \in DOMAIN edits :
    l \in Links /\ edits[l].before \in Folders \cup {Filing!None} /\ Found(l, edits[l].before, edits[l].ws)

Filed == Filing!FolderInWorkspace /\ Undoable

FilingInv ==
    /\ Filed /\ filing = [r \in Requests |-> filing[r]]
    /\ \A r \in Requests : filing[r] # Filing!Idle => Fits(filing[r])

\* What was checked stays so: nothing is overtaken and then not.
LEMMA FitsStays ==
    ASSUME NEW j, Fits(j), overtaken \subseteq overtaken'
    PROVE  Fits(j)'
BY DEF Fits, Found

LEMMA UndoableStays ==
    ASSUME Undoable, UNCHANGED edits, overtaken \subseteq overtaken'
    PROVE  Undoable'
BY DEF Undoable, Found

LEMMA BeginsFit ==
    ASSUME FilingInv, NEW r \in Requests, NEW j, Filing!Begin(r, j), Fits(j)
    PROVE  FilingInv'
<1>1. /\ UNCHANGED <<folder, filed, edits, overtaken>> /\ filing' = [filing EXCEPT ![r] = j]
  BY DEF Filing!Begin
<1>2. /\ filing'[r] = j /\ \A q \in Requests \ {r} : filing'[q] = filing[q]
      /\ filing' = [q \in Requests |-> filing'[q]]
  BY <1>1 DEF FilingInv
<1>3. Filed'
  BY <1>1 DEF FilingInv, Filed, Undoable, Found, Filing!FolderInWorkspace, Filing!TypeOK, Filing!Live
<1>4. ASSUME NEW q \in Requests, filing'[q] # Filing!Idle PROVE Fits(filing[q])'
  <2>1. PICK k : k = filing'[q]
    OBVIOUS
  <2>2. Fits(k)
    BY <1>2, <1>4, <2>1 DEF FilingInv
  <2>3. Fits(k)'
    BY <1>1, <2>2, FitsStays
  <2>4. k = filing[q]'
    BY <2>1
  <2> QED BY <2>3, <2>4 DEF Fits, Found
<1> QED BY <1>2, <1>3, <1>4 DEF FilingInv

LEMMA EndsFit ==
    ASSUME FilingInv, NEW r \in Requests, Filing!Finish(r), Filed', overtaken \subseteq overtaken'
    PROVE  FilingInv'
<1>1. /\ filing' = [filing EXCEPT ![r] = Filing!Idle]
      /\ filing' = [q \in Requests |-> filing'[q]]
      /\ \A q \in Requests : filing'[q] \in {filing[q], Filing!Idle}
  BY DEF Filing!Finish, FilingInv
<1>2. ASSUME NEW q \in Requests, filing'[q] # Filing!Idle PROVE Fits(filing[q])'
  <2>1. PICK k : k = filing'[q]
    OBVIOUS
  <2>2. Fits(k)
    BY <1>1, <1>2, <2>1 DEF FilingInv
  <2>3. Fits(k)'
    BY <2>2, FitsStays
  <2>4. k = filing[q]'
    BY <2>1
  <2> QED BY <2>3, <2>4 DEF Fits, Found
<1> QED BY <1>1, <1>2 DEF FilingInv

(***************************************************************************)
(* What a request checks before it begins.                                 *)
(***************************************************************************)
LEMMA FileFits ==
    ASSUME FilingInv, NEW r \in Requests, NEW u \in Users, NEW l \in Links,
           NEW f \in Folders \cup {Filing!None}, Filing!File(r, u, l, f)
    PROVE  FilingInv'
<1> DEFINE at == [k \in {l} |-> filed[k].ws]
           j == [op |-> "file", on |-> l, from |-> filed[l].folder, to |-> f, ws |-> at]
<1>1. Filing!Begin(r, j) /\ (f # Filing!None => Home[f] = filed[l].ws)
  BY DEF Filing!File, Filing!Fileable
<1>2. PICK k : k = j
  OBVIOUS
<1>3. k.op = "file" /\ k.on = l /\ k.to = f /\ k.ws[l] = filed[l].ws
  BY <1>2
<1>4. Fits(k)
  BY <1>1, <1>3 DEF Fits
<1>5. Filing!Begin(r, k)
  BY <1>1, <1>2
<1> QED BY <1>4, <1>5, BeginsFit

LEMMA BulkFits ==
    ASSUME FilingInv, NEW r \in Requests, NEW u \in Users, NEW S \in SUBSET Links,
           NEW f \in Folders \cup {Filing!None}, Filing!BulkFile(r, u, S, f)
    PROVE  FilingInv'
<1> DEFINE changed == {l \in S : filed[l].folder # f}
           from == [l \in changed |-> filed[l].folder]
           at == [l \in changed |-> filed[l].ws]
           j == [op |-> "bulk", by |-> u, to |-> f, from |-> from, ws |-> at]
<1>1. /\ Filing!Begin(r, j) /\ S \subseteq Filing!Live
      /\ f # Filing!None => \A l \in S : Home[f] = filed[l].ws
  BY DEF Filing!BulkFile, Filing!Fileable
<1>2. PICK k : k = j
  OBVIOUS
<1>3. /\ k.op = "bulk" /\ k.to = f /\ DOMAIN k.from = changed
      /\ \A l \in changed : k.from[l] = filed[l].folder /\ k.ws[l] = filed[l].ws
  BY <1>2
<1>4. \A l \in S : filed[l].folder \in Folders \cup {Filing!None} /\ Found(l, filed[l].folder, filed[l].ws)
  BY <1>1 DEF FilingInv, Filed, Found, Filing!FolderInWorkspace, Filing!TypeOK, Filing!Live
<1>5. Fits(k)
  BY <1>1, <1>3, <1>4 DEF Fits, Found
<1>6. Filing!Begin(r, k)
  BY <1>1, <1>2
<1> QED BY <1>5, <1>6, BeginsFit

LEMMA UndoFits ==
    ASSUME FilingInv, NEW r \in Requests, NEW u \in Users, Filing!Undo(r, u)
    PROVE  FilingInv'
<1> DEFINE S == {l \in DOMAIN edits : edits[l].by = u /\ Filing!Sees(u, l) /\ filed[l].folder = edits[l].after}
           j == [op |-> "undo", back |-> [l \in S |-> edits[l].before], ws |-> [l \in S |-> edits[l].ws]]
<1>1. Filing!Begin(r, j)
  BY DEF Filing!Undo
<1>2. PICK k : k = j
  OBVIOUS
<1>3. k.op = "undo" /\ DOMAIN k.back = S /\ \A l \in S : k.back[l] = edits[l].before /\ k.ws[l] = edits[l].ws
  BY <1>2
<1>4. Fits(k)
  BY <1>3 DEF Fits, Found, FilingInv, Filed, Undoable
<1>5. Filing!Begin(r, k)
  BY <1>1, <1>2
<1> QED BY <1>4, <1>5, BeginsFit

LEMMA MoveFits ==
    ASSUME FilingInv, NEW r \in Requests, NEW u \in Users, NEW l \in Links,
           NEW w \in Workspaces \cup {Filing!None}, Filing!Move(r, u, l, w)
    PROVE  FilingInv'
<1> DEFINE j == [op |-> "move", on |-> l, to |-> w]
<1>1. Filing!Begin(r, j) /\ Fits(j)
  BY DEF Filing!Move, Fits
<1> HIDE DEF j
<1> QED BY <1>1, BeginsFit

\* A clone lies where the link does, whose folder is of its workspace.
LEMMA CloneFits ==
    ASSUME FilingInv, NEW r \in Requests, NEW u \in Users, NEW l \in Links, Filing!Clone(r, u, l)
    PROVE  FilingInv'
<1> DEFINE j == [op |-> "create", ws |-> filed[l].ws, folder |-> filed[l].folder, by |-> filed[l].by, of |-> {l}]
<1>1. Filing!Begin(r, j) /\ l \in Filing!Live
  BY DEF Filing!Clone, Filing!Manages
<1>2. /\ filed[l] \in [exists : BOOLEAN, ws : Workspaces \cup {Filing!None},
                       folder : Folders \cup {Filing!None}, by : Users \cup {Filing!None}]
      /\ Found(l, filed[l].folder, filed[l].ws)
  BY <1>1 DEF FilingInv, Filed, Found, Filing!FolderInWorkspace, Filing!TypeOK
<1>3. PICK k : k = j
  OBVIOUS
<1>4. k.op = "create" /\ k.ws = filed[l].ws /\ k.folder = filed[l].folder /\ k.by = filed[l].by /\ k.of = {l}
  BY <1>3
<1>5. k.of \cap overtaken # {} \/ k.folder = Filing!None \/ Home[k.folder] = k.ws
  BY <1>2, <1>4 DEF Found
<1>6. Fits(k)
  BY <1>2, <1>4, <1>5 DEF Fits
<1>7. Filing!Begin(r, k)
  BY <1>1, <1>3
<1> QED BY <1>6, <1>7, BeginsFit

LEMMA CreateFits ==
    ASSUME FilingInv, NEW r \in Requests, NEW u \in Users, NEW w \in Workspaces,
           NEW f \in Folders \cup {Filing!None}, Filing!CreateIn(r, u, w, f)
    PROVE  FilingInv'
<1> DEFINE j == [op |-> "create", ws |-> w, folder |-> f, by |-> u, of |-> {}]
<1>1. Filing!Begin(r, j) /\ Fits(j)
  BY DEF Filing!CreateIn, Filing!Fileable, Fits
<1> HIDE DEF j
<1> QED BY <1>1, BeginsFit

LEMMA DeleteFits ==
    ASSUME FilingInv, NEW r \in Requests, NEW u \in Users, NEW f \in Folders, NEW expose \in BOOLEAN,
           Filing!DeleteFolder(r, u, f, expose)
    PROVE  FilingInv'
<1> DEFINE j == [op |-> "delete", folder |-> f, expose |-> expose]
<1>1. Filing!Begin(r, j) /\ Fits(j)
  BY DEF Filing!DeleteFolder, Fits
<1> HIDE DEF j
<1> QED BY <1>1, BeginsFit

(***************************************************************************)
(* Writes.                                                                 *)
(***************************************************************************)
FiledRows == [exists : BOOLEAN, ws : Workspaces \cup {Filing!None},
              folder : Folders \cup {Filing!None}, by : Users \cup {Filing!None}]

\* A link lies nowhere, or in a folder that exists, of its own workspace unless overtaken.
Lies(l) ==
    filed[l].folder # Filing!None => folder[filed[l].folder].exists /\ (l \in overtaken \/ Home[filed[l].folder] = filed[l].ws)

LEMMA FiledByRow ==
    /\ Filing!FolderInWorkspace <=>
         /\ folder \in [Folders -> [exists : BOOLEAN, restricted : BOOLEAN]]
         /\ filed \in [Links -> FiledRows]
         /\ \A l \in Links : filed[l].exists => Lies(l)
BY DEF Filing!FolderInWorkspace, Filing!TypeOK, Filing!Live, FiledRows, Lies

\* A write that changes some links only, each to one that lies well.
LEMMA WriteRows ==
    ASSUME FilingInv, UNCHANGED folder, Undoable', filed' = [l \in Links |-> filed'[l]],
           overtaken \subseteq overtaken',
           \A l \in Links : filed'[l] = filed[l] \/ (filed'[l] \in FiledRows /\ Lies(l)')
    PROVE  Filed'
<1>1. /\ folder' \in [Folders -> [exists : BOOLEAN, restricted : BOOLEAN]]
      /\ filed \in [Links -> FiledRows] /\ \A l \in Links : filed[l].exists => Lies(l)
  BY FiledByRow DEF FilingInv, Filed
<1>2. filed' \in [Links -> FiledRows]
  BY <1>1
<1>3. \A l \in Links : filed'[l].exists => Lies(l)'
  BY <1>1 DEF Lies
<1> QED BY <1>1, <1>2, <1>3 DEF Filed, Filing!FolderInWorkspace, Filing!TypeOK, Filing!Live, FiledRows, Lies

LEMMA TaskFits ==
    ASSUME FilingInv, NEW r \in Requests, filing[r].op \in {"file", "bulk", "undo", "move", "create", "delete"}
    PROVE  /\ filing[r] # Filing!Idle /\ Fits(filing[r]) /\ filed \in [Links -> FiledRows]
           /\ folder \in [Folders -> [exists : BOOLEAN, restricted : BOOLEAN]]
           /\ \A l \in Links : filed[l].exists => Lies(l)
<1>1. filing[r] # Filing!Idle
  BY DEF Filing!Idle
<1> QED BY <1>1, FiledByRow DEF FilingInv, Filed

\* A link whose folder becomes one that exists and was found in its workspace lies well;
\* if it has moved since, it is overtaken.
LEMMA FiledLies ==
    ASSUME NEW l \in Links, NEW f \in Folders \cup {Filing!None}, NEW w, UNCHANGED folder,
           filed[l] \in FiledRows, filed'[l] = [filed[l] EXCEPT !.folder = f], Filing!Valid(f), Found(l, f, w)',
           filed[l].ws # w => l \in overtaken'
    PROVE  filed'[l] \in FiledRows /\ Lies(l)'
<1>1. filed'[l] \in FiledRows /\ filed'[l].folder = f /\ filed'[l].ws = filed[l].ws
  BY DEF FiledRows
<1> QED BY <1>1 DEF Lies, Filing!Valid, Found

LEMMA WriteFileFits ==
    ASSUME FilingInv, NEW r \in Requests, Filing!WriteFile(r)
    PROVE  FilingInv'
<1>1. PICK j : j = filing[r]
  OBVIOUS
<1>2. /\ j.op = "file" /\ Filing!Finish(r) /\ UNCHANGED <<folder, edits>>
      /\ \/ UNCHANGED <<filed, overtaken>>
         \/ /\ Filing!Valid(j.to) /\ filed' = [filed EXCEPT ![j.on].folder = j.to]
            /\ overtaken' = overtaken \cup {l \in {j.on} : filed[l].ws # j.ws[l]}
  BY <1>1 DEF Filing!WriteFile, Filing!Files
<1>3. /\ filed \in [Links -> FiledRows]
      /\ j.on \in Links /\ j.to \in Folders \cup {Filing!None}
      /\ j.to # Filing!None => Home[j.to] = j.ws[j.on]
  BY <1>1, <1>2, TaskFits DEF Fits
<1>4. overtaken \subseteq overtaken' /\ Undoable'
  <2>1. overtaken \subseteq overtaken'
    BY <1>2
  <2> QED BY <1>2, <2>1, UndoableStays DEF FilingInv, Filed
<1>5. CASE UNCHANGED <<filed, overtaken>>
  BY <1>2, <1>3, <1>4, <1>5, WriteRows, EndsFit
<1>6. CASE /\ Filing!Valid(j.to) /\ filed' = [filed EXCEPT ![j.on].folder = j.to]
           /\ overtaken' = overtaken \cup {l \in {j.on} : filed[l].ws # j.ws[l]}
  <2>1. filed[j.on] \in FiledRows /\ filed'[j.on] = [filed[j.on] EXCEPT !.folder = j.to]
    BY <1>3, <1>6
  <2>2. Found(j.on, j.to, j.ws[j.on])' /\ (filed[j.on].ws # j.ws[j.on] => j.on \in overtaken')
    BY <1>3, <1>6 DEF Found
  <2>3. filed'[j.on] \in FiledRows /\ Lies(j.on)'
    BY <1>2, <1>3, <1>6, <2>1, <2>2, FiledLies
  <2>4. filed' = [l \in Links |-> filed'[l]] /\ \A l \in Links \ {j.on} : filed'[l] = filed[l]
    BY <1>3, <1>6
  <2>5. \A l \in Links : filed'[l] = filed[l] \/ (filed'[l] \in FiledRows /\ Lies(l)')
    BY <2>3, <2>4 DEF Lies
  <2> QED BY <1>2, <1>4, <2>4, <2>5, WriteRows, EndsFit
<1> QED BY <1>2, <1>5, <1>6

LEMMA WriteBulkFits ==
    ASSUME FilingInv, NEW r \in Requests, Filing!WriteBulk(r)
    PROVE  FilingInv'
<1>1. PICK j : j = filing[r]
  OBVIOUS
<1> DEFINE S == DOMAIN j.from
           Written ==
             /\ Filing!Valid(j.to)
             /\ filed' = [l \in Links |-> IF l \in S THEN [filed[l] EXCEPT !.folder = j.to] ELSE filed[l]]
             /\ edits' = [l \in S |-> [before |-> j.from[l], after |-> j.to, by |-> j.by, ws |-> j.ws[l]]]
             /\ overtaken' = overtaken \cup {l \in S : filed[l].ws # j.ws[l]}
<1>2. /\ j.op = "bulk" /\ Filing!Finish(r) /\ UNCHANGED folder
      /\ UNCHANGED <<filed, edits, overtaken>> \/ Written
  BY <1>1 DEF Filing!WriteBulk, Filing!Files
<1>3. /\ filed \in [Links -> FiledRows] /\ j.to \in Folders \cup {Filing!None} /\ S \subseteq Links
      /\ \A l \in S : /\ j.to # Filing!None => Home[j.to] = j.ws[l]
                      /\ j.from[l] \in Folders \cup {Filing!None} /\ Found(l, j.from[l], j.ws[l])
  BY <1>1, <1>2, TaskFits DEF Fits
<1>4. overtaken \subseteq overtaken'
  BY <1>2
<1>5. CASE UNCHANGED <<filed, edits, overtaken>>
  <2>1. Undoable'
    BY <1>4, <1>5, UndoableStays DEF FilingInv, Filed
  <2>2. filed' = [l \in Links |-> filed'[l]]
    BY <1>3, <1>5
  <2> QED BY <1>2, <1>4, <1>5, <2>1, <2>2, WriteRows, EndsFit
<1>6. CASE Written
  <2> HIDE DEF S
  <2>1. ASSUME NEW l \in S PROVE filed'[l] \in FiledRows /\ Lies(l)'
    <3>1. filed[l] \in FiledRows /\ filed'[l] = [filed[l] EXCEPT !.folder = j.to] /\ l \in Links
      BY <1>3, <1>6, <2>1
    <3>2. Found(l, j.to, j.ws[l])' /\ (filed[l].ws # j.ws[l] => l \in overtaken')
      BY <1>3, <1>6, <2>1 DEF Found
    <3> QED BY <1>2, <1>3, <1>6, <3>1, <3>2, FiledLies
  <2>2. filed' = [l \in Links |-> filed'[l]] /\ \A l \in Links \ S : filed'[l] = filed[l]
    BY <1>3, <1>6
  <2>3. Undoable'
    <3>1. DOMAIN edits' = S /\ \A l \in S : edits'[l].before = j.from[l] /\ edits'[l].ws = j.ws[l]
      BY <1>6
    <3> QED BY <1>3, <1>4, <3>1 DEF Undoable, Found
  <2>4. \A l \in Links : filed'[l] = filed[l] \/ (filed'[l] \in FiledRows /\ Lies(l)')
    BY <2>1, <2>2 DEF Lies
  <2>5. Filed'
    BY <1>2, <1>4, <2>2, <2>3, <2>4, WriteRows
  <2> QED BY <1>2, <1>4, <2>5, EndsFit
<1> QED BY <1>2, <1>5, <1>6

LEMMA WriteUndoFits ==
    ASSUME FilingInv, NEW r \in Requests, Filing!WriteUndo(r)
    PROVE  FilingInv'
<1>1. PICK j : j = filing[r]
  OBVIOUS
<1> DEFINE S == DOMAIN j.back
           Written ==
             /\ \A l \in S : Filing!Valid(j.back[l])
             /\ filed' = [l \in Links |-> IF l \in S THEN [filed[l] EXCEPT !.folder = j.back[l]] ELSE filed[l]]
             /\ edits' = [l \in {} |-> Filing!None]
             /\ overtaken' = overtaken \cup {l \in S : filed[l].ws # j.ws[l]}
<1>2. /\ j.op = "undo" /\ Filing!Finish(r) /\ UNCHANGED folder
      /\ UNCHANGED <<filed, edits, overtaken>> \/ Written
  BY <1>1 DEF Filing!WriteUndo, Filing!Files
<1>3. /\ filed \in [Links -> FiledRows] /\ S \subseteq Links
      /\ \A l \in S : j.back[l] \in Folders \cup {Filing!None} /\ Found(l, j.back[l], j.ws[l])
  BY <1>1, <1>2, TaskFits DEF Fits
<1>4. overtaken \subseteq overtaken'
  BY <1>2
<1>5. CASE UNCHANGED <<filed, edits, overtaken>>
  <2>1. Undoable'
    BY <1>4, <1>5, UndoableStays DEF FilingInv, Filed
  <2>2. filed' = [l \in Links |-> filed'[l]]
    BY <1>3, <1>5
  <2> QED BY <1>2, <1>4, <1>5, <2>1, <2>2, WriteRows, EndsFit
<1>6. CASE Written
  <2> HIDE DEF S
  <2>1. ASSUME NEW l \in S PROVE filed'[l] \in FiledRows /\ Lies(l)'
    <3>1. filed[l] \in FiledRows /\ filed'[l] = [filed[l] EXCEPT !.folder = j.back[l]] /\ l \in Links
      BY <1>3, <1>6, <2>1
    <3>2. Found(l, j.back[l], j.ws[l])' /\ (filed[l].ws # j.ws[l] => l \in overtaken')
      BY <1>3, <1>4, <1>6, <2>1 DEF Found
    <3>3. j.back[l] \in Folders \cup {Filing!None} /\ Filing!Valid(j.back[l])
      BY <1>3, <1>6, <2>1
    <3> QED BY <1>2, <3>1, <3>2, <3>3, FiledLies
  <2>2. filed' = [l \in Links |-> filed'[l]] /\ \A l \in Links \ S : filed'[l] = filed[l]
    BY <1>3, <1>6
  <2>3. Undoable'
    BY <1>6 DEF Undoable
  <2>4. \A l \in Links : filed'[l] = filed[l] \/ (filed'[l] \in FiledRows /\ Lies(l)')
    BY <2>1, <2>2 DEF Lies
  <2>5. Filed'
    BY <1>2, <1>4, <2>2, <2>3, <2>4, WriteRows
  <2> QED BY <1>2, <1>4, <2>5, EndsFit
<1> QED BY <1>2, <1>5, <1>6

\* A link that moves leaves its folder.
LEMMA WriteMoveFits ==
    ASSUME FilingInv, NEW r \in Requests, Filing!WriteMove(r)
    PROVE  FilingInv'
<1>1. PICK j : j = filing[r]
  OBVIOUS
<1>2. /\ j.op = "move" /\ Filing!Finish(r) /\ UNCHANGED <<folder, edits, overtaken>>
      /\ filed' = [filed EXCEPT ![j.on].ws = j.to, ![j.on].folder = Filing!None]
  BY <1>1 DEF Filing!WriteMove, Filing!MovedTo
<1>3. filed \in [Links -> FiledRows] /\ j.on \in Links /\ j.to \in Workspaces \cup {Filing!None}
  BY <1>1, <1>2, TaskFits DEF Fits
<1>4. overtaken \subseteq overtaken' /\ Undoable'
  BY <1>2, UndoableStays DEF FilingInv, Filed
<1>5. filed[j.on] \in FiledRows /\ filed'[j.on] = [filed[j.on] EXCEPT !.ws = j.to, !.folder = Filing!None]
  BY <1>2, <1>3
<1>6. filed'[j.on] \in FiledRows /\ filed'[j.on].folder = Filing!None
  BY <1>3, <1>5 DEF FiledRows
<1>7. filed' = [l \in Links |-> filed'[l]] /\ \A l \in Links \ {j.on} : filed'[l] = filed[l]
  BY <1>2, <1>3
<1>8. \A l \in Links : filed'[l] = filed[l] \/ (filed'[l] \in FiledRows /\ Lies(l)')
  BY <1>6, <1>7 DEF Lies
<1>9. Filed'
  BY <1>2, <1>4, <1>7, <1>8, WriteRows
<1> QED BY <1>2, <1>4, <1>9, EndsFit

LEMMA WriteCreateFits ==
    ASSUME FilingInv, NEW r \in Requests, NEW l \in Links, Filing!WriteCreate(r, l)
    PROVE  FilingInv'
<1>1. PICK j : j = filing[r]
  OBVIOUS
<1> DEFINE row == [exists |-> TRUE, ws |-> j.ws, folder |-> j.folder, by |-> j.by]
           Written ==
             /\ Filing!Valid(j.folder) /\ filed' = [filed EXCEPT ![l] = row]
             /\ overtaken' = IF j.of \cap overtaken # {} THEN overtaken \cup {l} ELSE overtaken
<1>2. /\ j.op = "create" /\ Filing!Finish(r) /\ UNCHANGED <<folder, edits>>
      /\ UNCHANGED <<filed, overtaken>> \/ Written
  BY <1>1 DEF Filing!WriteCreate
<1>3. /\ filed \in [Links -> FiledRows] /\ row \in FiledRows
      /\ j.of \cap overtaken # {} \/ j.folder = Filing!None \/ Home[j.folder] = j.ws
  <2>1. filed \in [Links -> FiledRows] /\ Fits(j)
    BY <1>1, <1>2, TaskFits
  <2>2. /\ j.ws \in Workspaces \cup {Filing!None} /\ j.by \in Users \cup {Filing!None}
        /\ j.folder \in Folders \cup {Filing!None}
        /\ j.of \cap overtaken # {} \/ j.folder = Filing!None \/ Home[j.folder] = j.ws
    BY <1>2, <2>1 DEF Fits
  <2> QED BY <2>1, <2>2 DEF FiledRows
<1>4. overtaken \subseteq overtaken' /\ Undoable'
  <2>1. overtaken \subseteq overtaken'
    BY <1>2
  <2> QED BY <1>2, <2>1, UndoableStays DEF FilingInv, Filed
<1>5. row.folder = j.folder /\ row.ws = j.ws
  OBVIOUS
<1> HIDE DEF row
<1>6. CASE UNCHANGED <<filed, overtaken>>
  BY <1>2, <1>3, <1>4, <1>6, WriteRows, EndsFit
<1>7. CASE Written
  <2>1. filed'[l] = row /\ filed' = [k \in Links |-> filed'[k]] /\ \A k \in Links \ {l} : filed'[k] = filed[k]
    BY <1>3, <1>7
  <2>2. l \in overtaken' \/ j.folder = Filing!None \/ Home[j.folder] = j.ws
    BY <1>3, <1>7
  <2>3. Lies(l)'
    BY <1>2, <1>5, <1>7, <2>1, <2>2 DEF Lies, Filing!Valid
  <2>4. \A k \in Links : filed'[k] = filed[k] \/ (filed'[k] \in FiledRows /\ Lies(k)')
    BY <1>3, <2>1, <2>3 DEF Lies
  <2>5. Filed'
    BY <1>2, <1>4, <2>1, <2>4, WriteRows
  <2> QED BY <1>2, <1>4, <2>5, EndsFit
<1> QED BY <1>2, <1>6, <1>7

\* The links of a folder that is deleted are in none.
LEMMA WriteDeleteFits ==
    ASSUME FilingInv, NEW r \in Requests, Filing!WriteDelete(r)
    PROVE  FilingInv'
<1>1. PICK f : f = filing[r].folder
  OBVIOUS
<1>2. /\ filing[r].op = "delete" /\ Filing!Finish(r) /\ UNCHANGED <<edits, overtaken>>
      /\ \/ UNCHANGED <<folder, filed>>
         \/ /\ folder' = [folder EXCEPT ![f] = [exists |-> FALSE, restricted |-> FALSE]]
            /\ filed' = [l \in Links |-> IF filed[l].folder = f THEN [filed[l] EXCEPT !.folder = Filing!None] ELSE filed[l]]
  BY <1>1 DEF Filing!WriteDelete
<1>3. /\ f \in Folders /\ filed \in [Links -> FiledRows]
      /\ folder \in [Folders -> [exists : BOOLEAN, restricted : BOOLEAN]]
      /\ \A l \in Links : filed[l].exists => Lies(l)
  BY <1>1, <1>2, TaskFits DEF Fits
<1>4. overtaken \subseteq overtaken' /\ Undoable'
  BY <1>2, UndoableStays DEF FilingInv, Filed
<1>5. CASE UNCHANGED <<folder, filed>>
  BY <1>2, <1>4, <1>5, EndsFit DEF Filed, FilingInv, Filing!FolderInWorkspace, Filing!TypeOK, Filing!Live
<1>6. CASE /\ folder' = [folder EXCEPT ![f] = [exists |-> FALSE, restricted |-> FALSE]]
           /\ filed' = [l \in Links |-> IF filed[l].folder = f THEN [filed[l] EXCEPT !.folder = Filing!None] ELSE filed[l]]
  <2>1. /\ folder' \in [Folders -> [exists : BOOLEAN, restricted : BOOLEAN]]
        /\ \A g \in Folders \ {f} : folder'[g] = folder[g]
    BY <1>3, <1>6
  <2>2. ASSUME NEW l \in Links
        PROVE  /\ filed'[l] \in FiledRows /\ filed'[l].exists = filed[l].exists
               /\ filed'[l].folder = Filing!None \/ (filed'[l] = filed[l] /\ filed[l].folder # f)
    <3>1. filed[l] \in FiledRows
      BY <1>3
    <3>2. CASE filed[l].folder = f
      <4>1. filed'[l] = [filed[l] EXCEPT !.folder = Filing!None]
        BY <1>6, <3>2
      <4> QED BY <3>1, <4>1 DEF FiledRows
    <3>3. CASE filed[l].folder # f
      BY <1>6, <3>1, <3>3
    <3> QED BY <3>2, <3>3
  <2>3. filed' \in [Links -> FiledRows]
    BY <1>6, <2>2
  <2>4. ASSUME NEW l \in Links, filed'[l].exists, filed'[l].folder # Filing!None
        PROVE  folder'[filed'[l].folder].exists /\ (l \in overtaken' \/ Home[filed'[l].folder] = filed'[l].ws)
    <3>1. filed'[l] = filed[l] /\ filed[l].folder # f /\ filed[l].folder # Filing!None /\ filed[l].exists
      BY <2>2, <2>4
    <3>2. filed[l].folder \in Folders /\ Lies(l)
      BY <1>3, <3>1 DEF FiledRows
    <3> QED BY <1>4, <2>1, <3>1, <3>2 DEF Lies
  <2>5. Filed'
    BY <1>4, <2>1, <2>3, <2>4 DEF Filed, Filing!FolderInWorkspace, Filing!TypeOK, Filing!Live, FiledRows
  <2> QED BY <1>2, <1>4, <2>5, EndsFit
<1> QED BY <1>2, <1>5, <1>6

\* Handing links over and restricting a folder: one statement each, between any two steps.
LEMMA AsideFits ==
    ASSUME FilingInv,
           \/ \E a, from, to \in Users, w \in Workspaces : Filing!Reassign(a, w, from, to)
           \/ \E u \in Users, f \in Folders, restricted \in BOOLEAN : Filing!Restrict(u, f, restricted)
    PROVE  FilingInv'
<1>1. /\ filed \in [Links -> FiledRows] /\ \A l \in Links : filed[l].exists => Lies(l)
      /\ folder \in [Folders -> [exists : BOOLEAN, restricted : BOOLEAN]]
  BY FiledByRow DEF FilingInv, Filed
<1>2. UNCHANGED <<edits, overtaken, filing>>
  BY DEF Filing!Reassign, Filing!Restrict
<1>3. Undoable'
  BY <1>2 DEF FilingInv, Filed, Undoable, Found
<1>4. ASSUME NEW a \in Users, NEW from \in Users, NEW to \in Users, NEW w \in Workspaces, Filing!Reassign(a, w, from, to)
      PROVE  Filed'
  <2>1. /\ UNCHANGED folder
        /\ filed' = [l \in Links |-> IF filed[l].exists /\ filed[l].ws = w /\ filed[l].by = from
                                      THEN [filed[l] EXCEPT !.by = to] ELSE filed[l]]
    BY <1>4 DEF Filing!Reassign
  <2>2. ASSUME NEW l \in Links, filed'[l] # filed[l] PROVE filed'[l] \in FiledRows /\ Lies(l)'
    <3>1. filed[l] \in FiledRows /\ filed[l].exists /\ filed'[l] = [filed[l] EXCEPT !.by = to]
      BY <1>1, <2>1, <2>2
    <3>2. filed'[l] \in FiledRows /\ filed'[l].folder = filed[l].folder /\ filed'[l].ws = filed[l].ws
      BY <3>1 DEF FiledRows
    <3> QED BY <1>1, <1>2, <2>1, <3>1, <3>2 DEF Lies
  <2>3. filed' = [l \in Links |-> filed'[l]]
    BY <2>1
  <2>4. \A l \in Links : filed'[l] = filed[l] \/ (filed'[l] \in FiledRows /\ Lies(l)')
    BY <2>2
  <2> QED BY <1>2, <1>3, <2>1, <2>3, <2>4, WriteRows
<1>5. ASSUME NEW u \in Users, NEW f \in Folders, NEW restricted \in BOOLEAN, Filing!Restrict(u, f, restricted)
      PROVE  Filed'
  <2>1. folder' = [folder EXCEPT ![f].restricted = restricted] /\ UNCHANGED filed
    BY <1>5 DEF Filing!Restrict
  <2>2. /\ folder' \in [Folders -> [exists : BOOLEAN, restricted : BOOLEAN]]
        /\ \A g \in Folders : folder'[g].exists = folder[g].exists
    BY <1>1, <2>1
  <2>3. \A l \in Links : filed[l].exists => Lies(l)'
    BY <1>1, <1>2, <2>1, <2>2 DEF Lies, FiledRows
  <2> QED BY <1>1, <1>2, <1>3, <2>1, <2>2, <2>3 DEF Filed, Filing!FolderInWorkspace, Filing!TypeOK, Filing!Live, FiledRows, Lies
<1>6. Filed'
  BY <1>4, <1>5
<1> QED BY <1>2, <1>6 DEF FilingInv, Fits, Found

LEMMA FilingStep ==
    ASSUME FilingInv, [Filing!Next]_(Filing!vars)
    PROVE  FilingInv'
<1>1. CASE UNCHANGED Filing!vars
  BY <1>1 DEF Filing!vars, FilingInv, Filed, Undoable, Fits, Found, Filing!FolderInWorkspace, Filing!TypeOK, Filing!Live
<1>2. CASE Filing!Next
  BY <1>2, FileFits, BulkFits, UndoFits, MoveFits, CloneFits, CreateFits, DeleteFits, WriteFileFits, WriteBulkFits,
     WriteUndoFits, WriteMoveFits, WriteCreateFits, WriteDeleteFits, AsideFits DEF Filing!Next, Filing!Free
<1> QED BY <1>1, <1>2

LEMMA FilingInit ==
    ASSUME Filing!Init
    PROVE  FilingInv
<1>1. /\ folder \in [Folders -> [exists : {TRUE}, restricted : BOOLEAN]]
      /\ edits = [l \in {} |-> Filing!None] /\ filing = [r \in Requests |-> Filing!Idle]
      /\ filed = [l \in Links |-> filed[l]]
      /\ \A l \in Links : filed[l] \in FiledRows /\ filed[l].folder = Filing!None
  <2>1. PICK w \in Workspaces, u \in Users, first \in Links :
          filed = [l \in Links |-> IF l = first THEN [exists |-> TRUE, ws |-> w, folder |-> Filing!None, by |-> u]
                                    ELSE Filing!NoLink]
    BY DEF Filing!Init
  <2>2. \A l \in Links : filed[l] \in FiledRows /\ filed[l].folder = Filing!None
    <3> DEFINE row == [exists |-> TRUE, ws |-> w, folder |-> Filing!None, by |-> u]
    <3>1. row \in FiledRows /\ row.folder = Filing!None
      BY DEF FiledRows
    <3>2. Filing!NoLink \in FiledRows /\ Filing!NoLink.folder = Filing!None
      BY DEF FiledRows, Filing!NoLink
    <3> HIDE DEF row
    <3>3. filed = [l \in Links |-> IF l = first THEN row ELSE Filing!NoLink]
      BY <2>1 DEF row
    <3> QED BY <3>1, <3>2, <3>3
  <2> QED BY <2>1, <2>2 DEF Filing!Init
<1>2. filed \in [Links -> FiledRows] /\ \A l \in Links : Lies(l)
  BY <1>1 DEF Lies
<1>3. Filing!FolderInWorkspace
  BY <1>1, <1>2, FiledByRow
<1> QED BY <1>1, <1>3 DEF FilingInv, Filed, Undoable

\* "a folder belongs to a workspace" (link-move.ts:7): a link lies in a folder that
\* exists and is of its own workspace, whatever is filed, undone, moved, cloned, handed
\* over and deleted and however the requests overlap; the links a request filed after
\* they had moved, and their clones, may lie in a folder of another workspace.
THEOREM FolderInWorkspace == Filing!Spec => []Filing!FolderInWorkspace
<1>1. Filing!Init => FilingInv
  BY FilingInit
<1>2. FilingInv /\ [Filing!Next]_(Filing!vars) => FilingInv'
  BY FilingStep
<1>3. FilingInv => Filing!FolderInWorkspace
  BY DEF FilingInv, Filed
<1> QED BY <1>1, <1>2, <1>3, PTL DEF Filing!Spec

(***************************************************************************)
(* The health of the destinations.                                         *)
(***************************************************************************)
HealthSetting == Most \in Nat /\ IsFiniteSet(Presses)

Counts == 0..Most
Owed(result) == IF result = "down" THEN 1 ELSE 0

\* Probes of an owner's that have found the link down and not yet read its counters.
Waiting(l) == {q \in Presses : press[q].pc = "counters" /\ press[q].link = l /\ press[q].result = "down"}

\* n failures in a row, and those still to be added, are failures that happened.
FitsLink(l, n) == failed[l].link = Most \/ n + Cardinality(Waiting(l)) <= failed[l].link
FitsRule(l, n) == failed[l].rule = Most \/ n <= failed[l].rule

HealthTypes ==
    /\ health = [l \in Links |-> health[l]] /\ rule = [l \in Links |-> rule[l]]
    /\ sweep = [r \in Runs |-> sweep[r]] /\ press = [q \in Presses |-> press[q]]
    /\ failed \in [Links -> [link : Counts, rule : Counts]]
    /\ \A r \in Runs : "items" \in DOMAIN sweep[r]
    /\ active \subseteq Links

\* What a sweep took and what it found, and what a press has read and found.
ItemOK(l, item) ==
    /\ {"row", "result"} \subseteq DOMAIN item
    /\ item.row.failures \in Counts /\ FitsLink(l, item.row.failures + Owed(item.result))
SweepOK(r) == \A l \in Health!Under(r) : l \in Links /\ ItemOK(l, sweep[r].items[l])
PressOK(q) ==
    \/ press[q] = Health!Quiet
    \/ /\ press[q].link \in Links
       /\ \/ press[q].pc \in {"counters", "evict"}
          \/ /\ press[q].pc = "fallback" /\ press[q].row.failures \in Counts
             /\ FitsLink(press[q].link, press[q].row.failures + Owed(press[q].result))
          \/ /\ press[q].pc = "probe" /\ press[q].row.failures \in Counts
             /\ FitsRule(press[q].link, press[q].row.failures)
          \/ /\ press[q].pc = "rule" /\ press[q].row.failures \in Counts
             /\ FitsRule(press[q].link, press[q].row.failures + Owed(press[q].result))
LinkCounted(l) == health[l].failures \in Counts /\ FitsLink(l, health[l].failures)
RuleCounted(l) == rule[l].failures \in Counts /\ FitsRule(l, rule[l].failures)
CountInv ==
    /\ HealthTypes
    /\ \A l \in Links : LinkCounted(l) /\ RuleCounted(l)
    /\ \A r \in Runs : SweepOK(r)
    /\ \A q \in Presses : PressOK(q)

LEMMA PressesCount ==
    ASSUME HealthSetting, NEW P \in SUBSET Presses
    PROVE  IsFiniteSet(P) /\ Cardinality(P) \in Nat
BY FS_Subset, FS_CardinalityType DEF HealthSetting

LEMMA QuietIs == Health!Quiet.pc = "idle"
BY DEF Health!Quiet

\* A probe adds one failure to what it was given, or clears them.
LEMMA AfterCounts ==
    ASSUME HealthSetting, NEW row, row.failures \in Counts, NEW result
    PROVE  /\ Health!After(row, result).failures \in Counts
           /\ Health!After(row, result).failures <= row.failures + Owed(result)
BY DEF HealthSetting, Counts, Owed, Health!After, Health!UpTo

LEMMA LessFits ==
    ASSUME HealthSetting, HealthTypes, NEW l \in Links, NEW n \in Nat, NEW m \in Nat, n <= m
    PROVE  (FitsLink(l, m) => FitsLink(l, n)) /\ (FitsRule(l, m) => FitsRule(l, n))
<1>1. Cardinality(Waiting(l)) \in Nat
  BY PressesCount DEF Waiting
<1>2. failed[l].link \in Nat /\ failed[l].rule \in Nat
  BY DEF HealthTypes, HealthSetting, Counts
<1> QED BY <1>1, <1>2 DEF FitsLink, FitsRule

\* Steps only make room: a failure that is added up was counted before.
Loosens ==
    \A l \in Links, n \in Nat : (FitsLink(l, n) => FitsLink(l, n)') /\ (FitsRule(l, n) => FitsRule(l, n)')

LEMMA CountsStay ==
    ASSUME HealthSetting, CountInv, HealthTypes', Loosens,
           \A l \in Links : health'[l] = health[l] \/ LinkCounted(l)',
           \A l \in Links : rule'[l] = rule[l] \/ RuleCounted(l)',
           \A r \in Runs : \A l \in Health!Under(r)' :
               \/ l \in Health!Under(r) /\ sweep'[r].items[l] = sweep[r].items[l]
               \/ l \in Links /\ ItemOK(l, sweep[r].items[l])',
           \A q \in Presses : press'[q] = press[q] \/ PressOK(q)'
    PROVE  CountInv'
<1>1. \A n \in Counts : n \in Nat /\ (\A result : n + Owed(result) \in Nat)
  BY DEF Counts, HealthSetting, Owed
<1>2. ASSUME NEW l \in Links
      PROVE  LinkCounted(l)' /\ RuleCounted(l)'
  BY <1>1 DEF CountInv, LinkCounted, RuleCounted, Loosens
<1>3. ASSUME NEW r \in Runs
      PROVE  SweepOK(r)'
  <2> SUFFICES ASSUME NEW l \in Health!Under(r)'
               PROVE  l \in Links /\ ItemOK(l, sweep[r].items[l])'
    BY DEF SweepOK
  <2>1. CASE l \in Health!Under(r) /\ sweep'[r].items[l] = sweep[r].items[l]
    <3>1. l \in Links /\ ItemOK(l, sweep[r].items[l])
      BY <2>1 DEF CountInv, SweepOK
    <3> QED BY <1>1, <2>1, <3>1 DEF ItemOK, Loosens
  <2> QED BY <2>1
<1>4. ASSUME NEW q \in Presses, press'[q] = press[q]
      PROVE  PressOK(q)'
  <2>1. PressOK(q)
    BY DEF CountInv
  <2> QED BY <1>1, <1>4, <2>1, QuietIs DEF PressOK, Loosens
<1> QED BY <1>2, <1>3, <1>4 DEF CountInv

LEMMA SameRoom ==
    ASSUME UNCHANGED failed, \A l \in Links : Waiting(l)' = Waiting(l)
    PROVE  Loosens
BY DEF Loosens, FitsLink, FitsRule

\* Of a sweep, ranking the check times changes its time only.
LEMMA RankKeepsItems ==
    ASSUME NEW times, NEW runs, Health!Ranked(times, runs), \A r \in Runs : "items" \in DOMAIN runs[r]
    PROVE  /\ sweep' = [r \in Runs |-> sweep'[r]]
           /\ \A r \in Runs : "items" \in DOMAIN sweep'[r] /\ sweep'[r].items = runs[r].items
BY DEF Health!Ranked

\* A probe of the link, or of the rule, that finds it down.
LEMMA TallyCounts ==
    ASSUME HealthSetting, HealthTypes, NEW l \in Links, Health!Tally(l, "link")
    PROVE  /\ failed' \in [Links -> [link : Counts, rule : Counts]]
           /\ \A m \in Links : failed'[m].rule = failed[m].rule
           /\ \A m \in Links : m # l => failed'[m].link = failed[m].link
           /\ failed'[l].link = IF site[l] = "down" /\ failed[l].link # Most
                                THEN failed[l].link + 1 ELSE failed[l].link
<1>1. failed[l].link \in Counts /\ Most \in Nat
  BY DEF HealthTypes, HealthSetting
<1>2. Health!UpTo(failed[l].link + 1) = (IF failed[l].link = Most THEN Most ELSE failed[l].link + 1)
      /\ Health!UpTo(failed[l].link + 1) \in Counts
  BY <1>1 DEF Counts, Health!UpTo
<1>3. CASE site[l] = "down"
  <2>1. failed' = [failed EXCEPT ![l].link = Health!UpTo(failed[l].link + 1)]
    BY <1>3 DEF Health!Tally
  <2> QED BY <1>2, <1>3, <2>1 DEF HealthTypes
<1>4. CASE site[l] # "down"
  BY <1>4 DEF Health!Tally, HealthTypes
<1> QED BY <1>3, <1>4

LEMMA TallyRuleCounts ==
    ASSUME HealthSetting, HealthTypes, NEW l \in Links, Health!Tally(l, "rule")
    PROVE  /\ failed' \in [Links -> [link : Counts, rule : Counts]]
           /\ \A m \in Links : failed'[m].link = failed[m].link
           /\ \A m \in Links : m # l => failed'[m].rule = failed[m].rule
           /\ failed'[l].rule = IF site[l] = "down" /\ failed[l].rule # Most
                                THEN failed[l].rule + 1 ELSE failed[l].rule
<1>1. failed[l].rule \in Counts /\ Most \in Nat
  BY DEF HealthTypes, HealthSetting
<1>2. Health!UpTo(failed[l].rule + 1) = (IF failed[l].rule = Most THEN Most ELSE failed[l].rule + 1)
      /\ Health!UpTo(failed[l].rule + 1) \in Counts
  BY <1>1 DEF Counts, Health!UpTo
<1>3. CASE site[l] = "down"
  <2>1. failed' = [failed EXCEPT ![l].rule = Health!UpTo(failed[l].rule + 1)]
    BY <1>3 DEF Health!Tally
  <2> QED BY <1>2, <1>3, <2>1 DEF HealthTypes
<1>4. CASE site[l] # "down"
  BY <1>4 DEF Health!Tally, HealthTypes
<1> QED BY <1>3, <1>4

\* What happens outside, and evicting the redirect's copy, count nothing.
LEMMA OutsideKeepsCounts ==
    ASSUME HealthSetting, CountInv, UNCHANGED <<health, rule, sweep, failed>>, active' \subseteq Links,
           press' = press \/ \E q \in Presses : press[q].pc = "evict" /\ press' = [press EXCEPT ![q] = Health!Quiet]
    PROVE  CountInv'
<1>1. HealthTypes'
  BY DEF CountInv, HealthTypes
<1>2. \A q \in Presses : press'[q] = press[q] \/ (press[q].pc = "evict" /\ press'[q] = Health!Quiet)
  BY DEF CountInv, HealthTypes
<1>3. \A l \in Links : Waiting(l)' = Waiting(l)
  BY <1>2, QuietIs DEF Waiting
<1>4. \A q \in Presses : press'[q] = press[q] \/ PressOK(q)'
  BY <1>2 DEF PressOK
<1> QED BY <1>1, <1>3, <1>4, SameRoom, CountsStay DEF Health!Under

LEMMA SweepKeepsCounts ==
    ASSUME HealthSetting, CountInv, NEW r \in Runs, Health!Sweep(r)
    PROVE  CountInv'
<1>1. UNCHANGED <<active, health, rule, press, failed>> /\ HealthTypes
  BY DEF Health!Sweep, CountInv
<1>2. PICK links \in SUBSET Links :
        Health!Ranked(checked, [sweep EXCEPT ![r] =
            [items |-> [l \in links |-> [row |-> health[l], result |-> "none"]], at |-> Health!Latest + 1]])
  BY <1>1 DEF Health!Sweep, HealthTypes
<1>3. PICK items :
        /\ items = [l \in links |-> [row |-> health[l], result |-> "none"]]
        /\ Health!Ranked(checked, [sweep EXCEPT ![r] = [items |-> items, at |-> Health!Latest + 1]])
  BY <1>2
<1>4. PICK runs : runs = [sweep EXCEPT ![r] = [items |-> items, at |-> Health!Latest + 1]]
  OBVIOUS
<1>5. \A s \in Runs : "items" \in DOMAIN runs[s] /\ runs[s].items = IF s = r THEN items ELSE sweep[s].items
  BY <1>1, <1>4 DEF HealthTypes
<1>6. Health!Ranked(checked, runs)
  BY <1>3, <1>4
<1>7. /\ sweep' = [s \in Runs |-> sweep'[s]]
      /\ \A s \in Runs : /\ "items" \in DOMAIN sweep'[s]
                         /\ sweep'[s].items = IF s = r THEN items ELSE sweep[s].items
  BY <1>5, <1>6, RankKeepsItems
<1>8. HealthTypes'
  BY <1>1, <1>7 DEF HealthTypes
<1>9. Loosens
  BY <1>1, SameRoom DEF Waiting
<1>10. ASSUME NEW s \in Runs, NEW l \in Health!Under(s)'
      PROVE  \/ l \in Health!Under(s) /\ sweep'[s].items[l] = sweep[s].items[l]
             \/ l \in Links /\ ItemOK(l, sweep[s].items[l])'
  <2>1. CASE s # r
    BY <1>7, <2>1 DEF Health!Under
  <2>2. CASE s = r
    <3>1. l \in links /\ sweep'[s].items[l] = [row |-> health[l], result |-> "none"]
      BY <1>3, <1>7, <2>2 DEF Health!Under
    <3>2. LinkCounted(l)
      BY <3>1 DEF CountInv
    <3>3. health[l].failures \in Nat /\ health[l].failures + Owed("none") = health[l].failures
      BY <3>2 DEF LinkCounted, Counts, Owed, HealthSetting
    <3>4. FitsLink(l, health[l].failures)'
      BY <1>1, <3>2 DEF LinkCounted, FitsLink, Waiting
    <3> QED BY <1>1, <3>1, <3>2, <3>3, <3>4 DEF ItemOK, LinkCounted
  <2> QED BY <2>1, <2>2
<1> QED BY <1>1, <1>8, <1>9, <1>10, CountsStay

\* A link that is saved or lost leaves the sweep.
LEMMA DropKeepsRest ==
    ASSUME HealthTypes, NEW r \in Runs, NEW l
    PROVE  \A s \in Runs :
             LET dropped == Health!Drop(sweep, r, l) IN
             /\ "items" \in DOMAIN dropped[s]
             /\ \A m \in DOMAIN dropped[s].items :
                    m \in DOMAIN sweep[s].items /\ dropped[s].items[m] = sweep[s].items[m]
<1> DEFINE rest == DOMAIN sweep[r].items \ {l}
           items == [m \in rest |-> sweep[r].items[m]]
           left == IF rest = {} THEN Health!NoSweep ELSE [sweep[r] EXCEPT !.items = items]
<1>1. Health!Drop(sweep, r, l) = [sweep EXCEPT ![r] = left]
  BY DEF Health!Drop
<1>2. CASE rest = {}
  <2>1. "items" \in DOMAIN left /\ DOMAIN left.items = {}
    BY <1>2 DEF Health!NoSweep
  <2> HIDE DEF left
  <2> QED BY <1>1, <2>1 DEF HealthTypes
<1>3. CASE rest # {}
  <2>1. "items" \in DOMAIN left /\ left.items = items
    BY <1>3 DEF HealthTypes
  <2>2. DOMAIN items = rest /\ \A m \in rest : items[m] = sweep[r].items[m]
    OBVIOUS
  <2> HIDE DEF left, items
  <2> QED BY <1>1, <2>1, <2>2 DEF HealthTypes
<1> QED BY <1>2, <1>3

LEMMA DroppingKeepsItems ==
    ASSUME CountInv, NEW r \in Runs, NEW l, NEW times, NEW runs,
           runs = Health!Drop(sweep, r, l) \/ runs = [sweep EXCEPT ![r] = Health!NoSweep],
           Health!Ranked(times, runs)
    PROVE  /\ sweep' = [s \in Runs |-> sweep'[s]]
           /\ \A s \in Runs : "items" \in DOMAIN sweep'[s]
           /\ \A s \in Runs : \A m \in Health!Under(s)' :
                m \in Health!Under(s) /\ sweep'[s].items[m] = sweep[s].items[m]
<1>1. HealthTypes
  BY DEF CountInv
<1>2. \A s \in Runs : /\ "items" \in DOMAIN runs[s]
                      /\ \A m \in DOMAIN runs[s].items :
                           m \in DOMAIN sweep[s].items /\ runs[s].items[m] = sweep[s].items[m]
  <2>1. CASE runs = Health!Drop(sweep, r, l)
    BY <1>1, <2>1, DropKeepsRest
  <2>2. CASE runs = [sweep EXCEPT ![r] = Health!NoSweep]
    <3>1. "items" \in DOMAIN Health!NoSweep /\ DOMAIN Health!NoSweep.items = {}
      BY DEF Health!NoSweep
    <3> QED BY <1>1, <2>2, <3>1 DEF HealthTypes
  <2> QED BY <2>1, <2>2
<1> QED BY <1>2, RankKeepsItems DEF Health!Under

\* The failure that is counted makes room for the one that will be added.
LEMMA TallyMakesRoom ==
    ASSUME HealthSetting, HealthTypes, HealthTypes', NEW l \in Links, Health!Tally(l, "link"),
           \A m \in Links : Waiting(m)' = Waiting(m)
    PROVE  /\ Loosens
           /\ \A n \in Counts : \A k : k = Owed(site[l]) /\ FitsLink(l, n) => FitsLink(l, n + k)'
<1>1. \A m \in Links : Cardinality(Waiting(m)) \in Nat /\ failed[m].link \in Nat /\ failed[m].rule \in Nat
  <2>1. \A m \in Links : failed[m].link \in Counts /\ failed[m].rule \in Counts
    BY DEF HealthTypes
  <2>2. \A m \in Links : Waiting(m) \in SUBSET Presses
    BY DEF Waiting
  <2> QED BY <2>1, <2>2, PressesCount DEF HealthSetting, Counts
<1>2. \A m \in Links : Cardinality(Waiting(m)') = Cardinality(Waiting(m))
  OBVIOUS
<1>3. /\ \A m \in Links : failed'[m].rule = failed[m].rule
      /\ \A m \in Links : m # l => failed'[m].link = failed[m].link
      /\ failed'[l].link = IF site[l] = "down" /\ failed[l].link # Most
                           THEN failed[l].link + 1 ELSE failed[l].link
  BY TallyCounts
<1>4. Loosens
  BY <1>1, <1>2, <1>3 DEF Loosens, FitsLink, FitsRule
<1>5. ASSUME NEW n \in Counts, NEW k, k = Owed(site[l]), FitsLink(l, n)
      PROVE  FitsLink(l, n + k)'
  <2>1. n \in Nat /\ k \in {0, 1} /\ (k = 1 <=> site[l] = "down")
    BY <1>5 DEF Counts, HealthSetting, Owed
  <2> QED BY <1>1, <1>2, <1>3, <1>5, <2>1 DEF FitsLink
<1> QED BY <1>4, <1>5

LEMMA ProbeKeepsCounts ==
    ASSUME HealthSetting, CountInv, NEW r \in Runs, NEW l \in Links, Health!Probe(r, l)
    PROVE  CountInv'
<1>1. /\ UNCHANGED <<active, health, rule, press>> /\ Health!Tally(l, "link") /\ HealthTypes
      /\ l \in Health!Under(r) /\ sweep[r].items[l].result = "none"
  BY DEF Health!Probe, CountInv
<1>2. \A m \in Links : Waiting(m)' = Waiting(m)
  BY <1>1 DEF Waiting
<1>3. CASE site[l] = "gone"
  <2>1. PICK runs : runs = Health!Drop(sweep, r, l) /\ Health!Ranked(checked, runs)
    BY <1>3 DEF Health!Probe
  <2>2. /\ sweep' = [s \in Runs |-> sweep'[s]]
        /\ \A s \in Runs : "items" \in DOMAIN sweep'[s]
        /\ \A s \in Runs : \A m \in Health!Under(s)' :
             m \in Health!Under(s) /\ sweep'[s].items[m] = sweep[s].items[m]
    BY <2>1, DroppingKeepsItems
  <2>3. HealthTypes'
    BY <1>1, <2>2, TallyCounts DEF HealthTypes
  <2>4. Loosens
    BY <1>1, <1>2, <2>3, TallyMakesRoom
  <2> QED BY <1>1, <2>2, <2>3, <2>4, CountsStay
<1>4. CASE site[l] # "gone"
  <2>1. sweep' = [sweep EXCEPT ![r].items[l].result = site[l]]
    BY <1>4 DEF Health!Probe
  <2>2. HealthTypes'
    BY <1>1, <2>1, TallyCounts DEF HealthTypes
  <2>3. /\ Loosens
        /\ \A n \in Counts : \A k : k = Owed(site[l]) /\ FitsLink(l, n) => FitsLink(l, n + k)'
    BY <1>1, <1>2, <2>2, TallyMakesRoom
  <2>4. ItemOK(l, sweep[r].items[l])
    BY <1>1 DEF CountInv, SweepOK
  <2>5. PICK item : item = sweep[r].items[l]
    OBVIOUS
  <2>6. /\ {"row", "result"} \subseteq DOMAIN item /\ item.result = "none" /\ item.row.failures \in Counts
        /\ FitsLink(l, item.row.failures)
    BY <1>1, <2>4, <2>5 DEF ItemOK, Owed, Counts, HealthSetting
  <2>7. DOMAIN sweep'[r].items = DOMAIN sweep[r].items
        /\ sweep'[r].items = [sweep[r].items EXCEPT ![l].result = site[l]]
    BY <1>1, <2>1 DEF HealthTypes
  <2>8. sweep'[r].items[l] = [item EXCEPT !.result = site[l]]
    BY <1>1, <2>5, <2>7 DEF Health!Under
  <2>9. /\ {"row", "result"} \subseteq DOMAIN sweep'[r].items[l]
        /\ sweep'[r].items[l].row = item.row /\ sweep'[r].items[l].result = site[l]
    BY <2>6, <2>8
  <2>10. ItemOK(l, sweep[r].items[l])'
    <3>1. PICK k : k = Owed(site[l])
      OBVIOUS
    <3>2. PICK n \in Counts : n = item.row.failures
      BY <2>6
    <3>3. FitsLink(l, n + k)'
      BY <2>3, <2>6, <3>1, <3>2
    <3>4. n + k = sweep'[r].items[l].row.failures + Owed(sweep'[r].items[l].result)
      BY <2>9, <3>1, <3>2
    <3> QED BY <2>6, <2>9, <3>3, <3>4 DEF ItemOK
  <2>11. ASSUME NEW s \in Runs, NEW m \in Health!Under(s)'
         PROVE  \/ m \in Health!Under(s) /\ sweep'[s].items[m] = sweep[s].items[m]
                \/ m \in Links /\ ItemOK(m, sweep[s].items[m])'
    <3>1. CASE s # r
      BY <1>1, <2>1, <3>1 DEF Health!Under, HealthTypes
    <3>2. CASE s = r /\ m # l
      BY <2>7, <3>2 DEF Health!Under
    <3>3. CASE s = r /\ m = l
      BY <2>10, <3>3
    <3> QED BY <3>1, <3>2, <3>3
  <2> QED BY <1>1, <2>2, <2>3, <2>11, CountsStay
<1> QED BY <1>3, <1>4

LEMMA SaveKeepsCounts ==
    ASSUME HealthSetting, CountInv, NEW r \in Runs, NEW l \in Links, Health!SaveCheck(r, l) \/ Health!CutOff(r)
    PROVE  CountInv'
<1>1. UNCHANGED <<active, rule, press, failed>> /\ HealthTypes
  BY DEF Health!SaveCheck, Health!CutOff, CountInv
<1>2. Loosens
  BY <1>1, SameRoom DEF Waiting
<1>3. \E runs, times : /\ runs = Health!Drop(sweep, r, l) \/ runs = [sweep EXCEPT ![r] = Health!NoSweep]
                       /\ Health!Ranked(times, runs)
  BY DEF Health!SaveCheck, Health!CutOff
<1>4. /\ sweep' = [s \in Runs |-> sweep'[s]]
      /\ \A s \in Runs : "items" \in DOMAIN sweep'[s]
      /\ \A s \in Runs : \A m \in Health!Under(s)' :
           m \in Health!Under(s) /\ sweep'[s].items[m] = sweep[s].items[m]
  BY <1>3, DroppingKeepsItems
<1>5. CASE UNCHANGED health
  <2>1. HealthTypes'
    BY <1>1, <1>4, <1>5 DEF HealthTypes
  <2> QED BY <1>1, <1>2, <1>4, <1>5, <2>1, CountsStay
<1>6. CASE Health!SaveCheck(r, l)
  <2>1. /\ l \in Health!Under(r)
        /\ health' = [health EXCEPT ![l] = Health!After(sweep[r].items[l].row, sweep[r].items[l].result)]
    BY <1>6 DEF Health!SaveCheck
  <2>2. HealthTypes'
    BY <1>1, <1>4, <2>1 DEF HealthTypes
  <2>3. ItemOK(l, sweep[r].items[l])
    BY <2>1 DEF CountInv, SweepOK
  <2>4. PICK row, result : row = sweep[r].items[l].row /\ result = sweep[r].items[l].result
    OBVIOUS
  <2>5. row.failures \in Counts /\ FitsLink(l, row.failures + Owed(result))
    BY <2>3, <2>4 DEF ItemOK
  <2>6. PICK after : after = Health!After(row, result)
    OBVIOUS
  <2>7. after.failures \in Counts /\ after.failures <= row.failures + Owed(result)
    BY <2>5, <2>6, AfterCounts
  <2>8. after.failures \in Nat /\ row.failures + Owed(result) \in Nat
    BY <2>5, <2>7 DEF Counts, HealthSetting, Owed
  <2>9. FitsLink(l, after.failures)
    BY <1>1, <2>5, <2>7, <2>8, LessFits
  <2>10. health'[l] = after /\ \A m \in Links : m # l => health'[m] = health[m]
    BY <1>1, <2>1, <2>4, <2>6 DEF HealthTypes
  <2>11. LinkCounted(l)'
    <3>1. Waiting(l)' = Waiting(l)
      BY <1>1 DEF Waiting
    <3> QED BY <1>1, <2>7, <2>9, <2>10, <3>1 DEF LinkCounted, FitsLink
  <2> QED BY <1>1, <1>2, <1>4, <2>2, <2>10, <2>11, CountsStay
<1> QED BY <1>5, <1>6 DEF Health!CutOff

\* A press that is under way, as its link and the answer it got.
LEMMA FallbackKeepsCounts ==
    ASSUME HealthSetting, CountInv, NEW q \in Presses, NEW l \in Links, Health!PressFallback(q, l)
    PROVE  CountInv'
<1>1. /\ UNCHANGED <<active, health, rule, sweep>> /\ Health!Tally(l, "link") /\ HealthTypes
      /\ press[q] = Health!Quiet
      /\ press' = [press EXCEPT ![q] = [pc |-> "counters", link |-> l, result |-> site[l]]]
  BY DEF Health!PressFallback, CountInv
<1>2. /\ press'[q] = [pc |-> "counters", link |-> l, result |-> site[l]]
      /\ \A p \in Presses : p # q => press'[p] = press[p]
  BY <1>1 DEF HealthTypes
<1>3. HealthTypes'
  BY <1>1, TallyCounts DEF HealthTypes
<1>4. /\ \A m \in Links : m # l => Waiting(m)' = Waiting(m)
      /\ Waiting(l)' = IF site[l] = "down" THEN Waiting(l) \cup {q} ELSE Waiting(l)
      /\ q \notin Waiting(l)
  BY <1>1, <1>2, QuietIs DEF Waiting
<1>5. \A m \in Links : Waiting(m) \in SUBSET Presses
  BY DEF Waiting
<1>6. \A m \in Links : Cardinality(Waiting(m)) \in Nat /\ IsFiniteSet(Waiting(m))
  BY <1>5, PressesCount
<1>7. /\ \A m \in Links : m # l => Cardinality(Waiting(m)') = Cardinality(Waiting(m))
      /\ Cardinality(Waiting(l)') = IF site[l] = "down" THEN Cardinality(Waiting(l)) + 1 ELSE Cardinality(Waiting(l))
  BY <1>4, <1>6, FS_AddElement
<1>8. \A m \in Links : failed[m].link \in Nat /\ failed[m].rule \in Nat
  <2>1. \A m \in Links : failed[m].link \in Counts /\ failed[m].rule \in Counts
    BY <1>1 DEF HealthTypes
  <2> QED BY <2>1 DEF HealthSetting, Counts
<1>9. /\ \A m \in Links : failed'[m].rule = failed[m].rule
      /\ \A m \in Links : m # l => failed'[m].link = failed[m].link
      /\ failed'[l].link = IF site[l] = "down" /\ failed[l].link # Most
                           THEN failed[l].link + 1 ELSE failed[l].link
  BY <1>1, TallyCounts
<1>10. Loosens
  BY <1>6, <1>7, <1>8, <1>9 DEF Loosens, FitsLink, FitsRule
<1>11. PressOK(q)'
  BY <1>2 DEF PressOK
<1> QED BY <1>1, <1>2, <1>3, <1>10, <1>11, CountsStay DEF Health!Under

\* The counters are read after the probe was counted, so that there is room for it.
LEMMA ReadKeepsCounts ==
    ASSUME HealthSetting, CountInv, NEW q \in Presses, Health!ReadCounters(q)
    PROVE  CountInv'
<1>1. /\ UNCHANGED <<active, health, rule, sweep, failed>> /\ HealthTypes /\ press[q].pc = "counters"
      /\ press' = [press EXCEPT ![q] = [pc |-> "fallback", link |-> press[q].link, result |-> press[q].result,
                                        row |-> health[press[q].link]]]
  BY DEF Health!ReadCounters, CountInv, HealthTypes
<1>2. PICK l, result : l \in Links /\ l = press[q].link /\ result = press[q].result
  BY <1>1, QuietIs DEF CountInv, PressOK
<1>3. /\ press'[q] = [pc |-> "fallback", link |-> l, result |-> result, row |-> health[l]]
      /\ \A p \in Presses : p # q => press'[p] = press[p]
  BY <1>1, <1>2 DEF HealthTypes
<1>4. HealthTypes'
  BY <1>1 DEF HealthTypes
<1>5. /\ \A m \in Links : m # l => Waiting(m)' = Waiting(m)
      /\ Waiting(l)' = IF result = "down" THEN Waiting(l) \ {q} ELSE Waiting(l)
      /\ q \in Waiting(l) <=> result = "down"
  BY <1>1, <1>2, <1>3 DEF Waiting
<1>6. \A m \in Links : Waiting(m) \in SUBSET Presses
  BY DEF Waiting
<1>7. \A m \in Links : Cardinality(Waiting(m)) \in Nat /\ IsFiniteSet(Waiting(m))
  BY <1>6, PressesCount
<1>8. /\ \A m \in Links : m # l => Cardinality(Waiting(m)') = Cardinality(Waiting(m))
      /\ Cardinality(Waiting(l)') = Cardinality(Waiting(l)) - Owed(result)
  <2>1. CASE result = "down"
    <3>1. q \in Waiting(l) /\ Waiting(l)' = Waiting(l) \ {q}
      BY <1>5, <2>1
    <3>2. Cardinality(Waiting(l) \ {q}) = Cardinality(Waiting(l)) - 1
      BY <1>2, <1>7, <3>1, FS_RemoveElement
    <3> QED BY <1>5, <2>1, <3>1, <3>2 DEF Owed
  <2>2. CASE result # "down"
    BY <1>2, <1>5, <1>7, <2>2 DEF Owed
  <2> QED BY <2>1, <2>2
<1>9. \A m \in Links : failed[m].link \in Nat /\ failed[m].rule \in Nat
  <2>1. \A m \in Links : failed[m].link \in Counts /\ failed[m].rule \in Counts
    BY <1>1 DEF HealthTypes
  <2> QED BY <2>1 DEF HealthSetting, Counts
<1>10. Owed(result) \in {0, 1}
  BY DEF Owed
<1>11. Loosens
  BY <1>1, <1>7, <1>8, <1>9, <1>10 DEF Loosens, FitsLink, FitsRule
<1>12. PICK n \in Counts : n = health[l].failures /\ FitsLink(l, n)
  BY <1>2 DEF CountInv, LinkCounted
<1>13. PICK k \in {0, 1} : k = Owed(result)
  BY <1>10
<1>14. FitsLink(l, n + k)'
  <2>1. n \in Nat
    BY DEF Counts, HealthSetting
  <2>2. failed[l].link = Most \/ n + k + (Cardinality(Waiting(l)) - k) <= failed[l].link
    BY <1>2, <1>7, <1>9, <1>12, <2>1 DEF FitsLink
  <2> QED BY <1>1, <1>8, <1>13, <2>2 DEF FitsLink
<1>15. PressOK(q)'
  <2>1. press'[q].row.failures = n /\ n + k = press'[q].row.failures + Owed(press'[q].result)
    BY <1>3, <1>12, <1>13
  <2>2. press'[q].pc = "fallback" /\ press'[q].link = l
    BY <1>3
  <2> QED BY <1>2, <1>14, <2>1, <2>2 DEF PressOK
<1> QED BY <1>1, <1>3, <1>4, <1>11, <1>15, CountsStay DEF Health!Under

LEMMA WriteKeepsCounts ==
    ASSUME HealthSetting, CountInv, NEW q \in Presses, Health!WriteFallback(q)
    PROVE  CountInv'
<1>1. /\ UNCHANGED <<active, rule, failed>> /\ HealthTypes /\ press[q].pc = "fallback"
      /\ press' = [press EXCEPT ![q] = Health!Quiet]
      /\ health' = [health EXCEPT ![press[q].link] = Health!After(press[q].row, press[q].result)]
      /\ \E times : Health!Ranked(times, sweep)
  BY DEF Health!WriteFallback, CountInv
<1>2. PICK l, row, result : l \in Links /\ l = press[q].link /\ row = press[q].row /\ result = press[q].result
  BY <1>1, QuietIs DEF CountInv, PressOK
<1>3. row.failures \in Counts /\ FitsLink(l, row.failures + Owed(result))
  BY <1>1, <1>2, QuietIs DEF CountInv, PressOK
<1>4. /\ sweep' = [s \in Runs |-> sweep'[s]]
      /\ \A s \in Runs : "items" \in DOMAIN sweep'[s] /\ sweep'[s].items = sweep[s].items
  <2>1. \E runs, times : runs = sweep /\ Health!Ranked(times, runs)
    BY <1>1
  <2>2. \A s \in Runs : "items" \in DOMAIN sweep[s]
    BY <1>1 DEF HealthTypes
  <2> QED BY <2>1, <2>2, RankKeepsItems
<1>5. HealthTypes'
  BY <1>1, <1>4 DEF HealthTypes
<1>6. PICK after : after = Health!After(row, result)
  OBVIOUS
<1>7. after.failures \in Counts /\ after.failures <= row.failures + Owed(result)
  BY <1>3, <1>6, AfterCounts
<1>8. after.failures \in Nat /\ row.failures + Owed(result) \in Nat
  BY <1>3, <1>7 DEF Counts, HealthSetting, Owed
<1>9. FitsLink(l, after.failures)
  BY <1>1, <1>2, <1>3, <1>7, <1>8, LessFits
<1>10. health'[l] = after /\ \A m \in Links : m # l => health'[m] = health[m]
  BY <1>1, <1>2, <1>6 DEF HealthTypes
<1>11. press'[q] = Health!Quiet /\ \A p \in Presses : p # q => press'[p] = press[p]
  BY <1>1 DEF HealthTypes
<1>12. \A m \in Links : Waiting(m)' = Waiting(m)
  BY <1>1, <1>11, QuietIs DEF Waiting
<1>13. LinkCounted(l)'
  BY <1>1, <1>2, <1>7, <1>9, <1>10, <1>12 DEF LinkCounted, FitsLink
<1>14. PressOK(q)'
  BY <1>11 DEF PressOK
<1>15. Loosens
  BY <1>1, <1>12, SameRoom
<1> QED BY <1>1, <1>4, <1>5, <1>10, <1>11, <1>13, <1>14, <1>15, CountsStay DEF Health!Under

LEMMA RuleKeepsCounts ==
    ASSUME HealthSetting, CountInv, NEW q \in Presses,
           \/ \E l \in Links : Health!PressRule(q, l)
           \/ Health!WriteRule(q)
    PROVE  CountInv'
<1>1. UNCHANGED <<active, health, sweep, failed>> /\ HealthTypes
  BY DEF Health!PressRule, Health!WriteRule, CountInv
<1>2. ASSUME NEW j, press' = [press EXCEPT ![q] = j], press[q].pc # "counters", j.pc # "counters"
      PROVE  /\ Loosens
             /\ press'[q] = j /\ \A p \in Presses : p # q => press'[p] = press[p]
  <2>1. press'[q] = j /\ \A p \in Presses : p # q => press'[p] = press[p]
    BY <1>1, <1>2 DEF HealthTypes
  <2>2. \A m \in Links : Waiting(m)' = Waiting(m)
    BY <1>2, <2>1 DEF Waiting
  <2> QED BY <1>1, <2>1, <2>2, SameRoom
<1>3. ASSUME NEW l \in Links, Health!PressRule(q, l)
      PROVE  CountInv'
  <2> DEFINE j == [pc |-> "probe", link |-> l, row |-> rule[l]]
  <2>1. /\ UNCHANGED rule /\ press[q] = Health!Quiet /\ press' = [press EXCEPT ![q] = j]
    BY <1>3 DEF Health!PressRule
  <2>2. j.pc = "probe" /\ j.link = l /\ j.row = rule[l]
    OBVIOUS
  <2> HIDE DEF j
  <2>3. Loosens /\ press'[q] = j /\ \A p \in Presses : p # q => press'[p] = press[p]
    BY <1>2, <2>1, <2>2, QuietIs
  <2>4. HealthTypes'
    BY <1>1, <2>1 DEF HealthTypes
  <2>5. RuleCounted(l)
    BY DEF CountInv
  <2>6. PressOK(q)'
    BY <1>1, <2>2, <2>3, <2>5 DEF PressOK, RuleCounted, FitsRule
  <2> QED BY <1>1, <2>1, <2>3, <2>4, <2>6, CountsStay DEF Health!Under
<1>4. CASE Health!WriteRule(q)
  <2>1. /\ press[q].pc = "rule"
        /\ rule' = [rule EXCEPT ![press[q].link] = Health!After(press[q].row, press[q].result)]
        /\ \/ press' = [press EXCEPT ![q] = [pc |-> "evict", link |-> press[q].link]]
           \/ press' = [press EXCEPT ![q] = Health!Quiet]
    BY <1>4 DEF Health!WriteRule
  <2>2. PICK l, row, result : l \in Links /\ l = press[q].link /\ row = press[q].row /\ result = press[q].result
    BY <2>1, QuietIs DEF CountInv, PressOK
  <2>3. row.failures \in Counts /\ FitsRule(l, row.failures + Owed(result))
    BY <2>1, <2>2, QuietIs DEF CountInv, PressOK
  <2>4. PICK after : after = Health!After(row, result)
    OBVIOUS
  <2>5. after.failures \in Counts /\ after.failures <= row.failures + Owed(result)
    BY <2>3, <2>4, AfterCounts
  <2>6. after.failures \in Nat /\ row.failures + Owed(result) \in Nat
    BY <2>3, <2>5 DEF Counts, HealthSetting, Owed
  <2>7. FitsRule(l, after.failures)
    BY <1>1, <2>2, <2>3, <2>5, <2>6, LessFits
  <2>8. rule'[l] = after /\ \A m \in Links : m # l => rule'[m] = rule[m]
    BY <1>1, <2>1, <2>2, <2>4 DEF HealthTypes
  <2>9. RuleCounted(l)'
    BY <1>1, <2>5, <2>7, <2>8 DEF RuleCounted, FitsRule
  <2>10. PICK j : /\ press' = [press EXCEPT ![q] = j]
                  /\ j = [pc |-> "evict", link |-> l] \/ j = Health!Quiet
    BY <2>1, <2>2
  <2>11. j.pc # "counters"
    BY <2>10, QuietIs
  <2>12. Loosens /\ press'[q] = j /\ \A p \in Presses : p # q => press'[p] = press[p]
    BY <1>2, <2>1, <2>10, <2>11
  <2>13. PressOK(q)'
    BY <2>2, <2>10, <2>12 DEF PressOK
  <2>14. HealthTypes'
    BY <1>1, <2>1 DEF HealthTypes
  <2> QED BY <1>1, <2>8, <2>9, <2>12, <2>13, <2>14, CountsStay DEF Health!Under
<1> QED BY <1>3, <1>4

LEMMA ProbeRuleKeepsCounts ==
    ASSUME HealthSetting, CountInv, NEW q \in Presses, Health!ProbeRule(q)
    PROVE  CountInv'
<1>1. /\ UNCHANGED <<active, health, rule, sweep>> /\ HealthTypes /\ press[q].pc = "probe"
      /\ Health!Tally(press[q].link, "rule")
      /\ press' = [press EXCEPT ![q] =
           IF site[press[q].link] = "gone" THEN Health!Quiet
           ELSE [pc |-> "rule", link |-> press[q].link, row |-> press[q].row, result |-> site[press[q].link]]]
  BY DEF Health!ProbeRule, CountInv
<1>2. PICK l, row : l \in Links /\ l = press[q].link /\ row = press[q].row
  BY <1>1, QuietIs DEF CountInv, PressOK
<1>3. row.failures \in Counts /\ FitsRule(l, row.failures)
  BY <1>1, <1>2, QuietIs DEF CountInv, PressOK
<1>4. /\ \A p \in Presses : p # q => press'[p] = press[p]
      /\ \/ press'[q] = Health!Quiet
         \/ press'[q] = [pc |-> "rule", link |-> l, row |-> row, result |-> site[l]]
  BY <1>1, <1>2 DEF HealthTypes
<1>5. \A m \in Links : Waiting(m)' = Waiting(m)
  BY <1>1, <1>4, QuietIs DEF Waiting
<1>6. /\ failed' \in [Links -> [link : Counts, rule : Counts]]
      /\ \A m \in Links : failed'[m].link = failed[m].link
      /\ \A m \in Links : m # l => failed'[m].rule = failed[m].rule
      /\ failed'[l].rule = IF site[l] = "down" /\ failed[l].rule # Most
                           THEN failed[l].rule + 1 ELSE failed[l].rule
  BY <1>1, <1>2, TallyRuleCounts
<1>7. HealthTypes'
  BY <1>1, <1>6 DEF HealthTypes
<1>8. \A m \in Links : failed[m].rule \in Nat
  <2>1. \A m \in Links : failed[m].rule \in Counts
    BY <1>1 DEF HealthTypes
  <2> QED BY <2>1 DEF HealthSetting, Counts
<1>9. Loosens
  BY <1>5, <1>6, <1>8 DEF Loosens, FitsLink, FitsRule
<1>10. PressOK(q)'
  <2>1. CASE press'[q] = Health!Quiet
    BY <2>1 DEF PressOK
  <2>2. CASE press'[q] = [pc |-> "rule", link |-> l, row |-> row, result |-> site[l]]
    <3>1. PICK n, k : n \in Counts /\ n = row.failures /\ k = Owed(site[l])
      BY <1>3
    <3>2. n \in Nat /\ k \in {0, 1} /\ (k = 1 <=> site[l] = "down")
      BY <3>1 DEF Counts, HealthSetting, Owed
    <3>3. FitsRule(l, n + k)'
      BY <1>2, <1>3, <1>6, <1>8, <3>1, <3>2 DEF FitsRule
    <3>4. press'[q].row.failures = n /\ n + k = press'[q].row.failures + Owed(press'[q].result)
      BY <2>2, <3>1
    <3>5. press'[q].pc = "rule" /\ press'[q].link = l
      BY <2>2
    <3> QED BY <1>2, <3>1, <3>3, <3>4, <3>5 DEF PressOK
  <2> QED BY <1>4, <2>1, <2>2
<1> QED BY <1>1, <1>4, <1>7, <1>9, <1>10, CountsStay DEF Health!Under

LEMMA CountStep == HealthSetting /\ CountInv /\ [Health!Next]_Health!vars => CountInv'
<1> SUFFICES ASSUME HealthSetting, CountInv, [Health!Next]_Health!vars
             PROVE  CountInv'
  OBVIOUS
<1>1. active \subseteq Links
  BY DEF CountInv, HealthTypes
<1>2. CASE UNCHANGED Health!vars
  BY <1>1, <1>2, OutsideKeepsCounts DEF Health!vars
<1>3. ASSUME NEW l \in Links,
             \/ Health!Visit(l) \/ Health!Toggle(l)
             \/ \E answer \in {"healthy", "degraded", "down", "gone"} : Health!SiteChanges(l, answer)
      PROVE  CountInv'
  <2>1. UNCHANGED <<health, rule, sweep, failed, press>> /\ active' \subseteq Links
    BY <1>1, <1>3 DEF Health!Visit, Health!Toggle, Health!SiteChanges
  <2> QED BY <2>1, OutsideKeepsCounts
<1>4. ASSUME NEW q \in Presses, Health!Evict(q)
      PROVE  CountInv'
  BY <1>1, <1>4, OutsideKeepsCounts DEF Health!Evict
<1>5. ASSUME NEW r \in Runs, Health!CutOff(r) \/ Health!Work(r)
      PROVE  CountInv'
  <2>1. CASE Health!Sweep(r)
    BY <2>1, SweepKeepsCounts
  <2>2. ASSUME NEW l \in Links, Health!Probe(r, l) \/ Health!SaveCheck(r, l)
        PROVE  CountInv'
    BY <2>2, ProbeKeepsCounts, SaveKeepsCounts
  <2>3. CASE Health!CutOff(r)
    <3>1. PICK l : l \in Health!Under(r)
      BY <2>3 DEF Health!CutOff
    <3>2. l \in Links
      BY <3>1 DEF CountInv, SweepOK
    <3> QED BY <2>3, <3>2, SaveKeepsCounts
  <2> QED BY <1>5, <2>1, <2>2, <2>3 DEF Health!Work
<1>6. ASSUME NEW q \in Presses,
             Health!Answer(q) \/ \E l \in Links : Health!PressFallback(q, l) \/ Health!PressRule(q, l)
      PROVE  CountInv'
  BY <1>4, <1>6, ReadKeepsCounts, WriteKeepsCounts, ProbeRuleKeepsCounts, RuleKeepsCounts, FallbackKeepsCounts
     DEF Health!Answer
<1>7. CASE Health!Next
  BY <1>3, <1>5, <1>6, <1>7 DEF Health!Next
<1> QED BY <1>2, <1>7

LEMMA CountStarts == HealthSetting /\ Health!Init => CountInv
<1> SUFFICES ASSUME HealthSetting, Health!Init
             PROVE  CountInv
  OBVIOUS
<1>1. /\ active = Links /\ health = [l \in Links |-> Health!Unknown] /\ rule = [l \in Links |-> Health!Unknown]
      /\ sweep = [r \in Runs |-> Health!NoSweep] /\ press = [q \in Presses |-> Health!Quiet]
      /\ failed = [l \in Links |-> [link |-> 0, rule |-> 0]]
  BY DEF Health!Init
<1>2. /\ "items" \in DOMAIN Health!NoSweep /\ DOMAIN Health!NoSweep.items = {}
      /\ Health!Unknown.failures = 0 /\ 0 \in Counts
  BY DEF Health!NoSweep, Health!Unknown, Counts, HealthSetting
<1>3. HealthTypes
  BY <1>1, <1>2 DEF HealthTypes
<1>4. \A l \in Links : Cardinality(Waiting(l)) = 0
  <2>1. \A l \in Links : Waiting(l) = {}
    BY <1>1, QuietIs DEF Waiting
  <2> QED BY <2>1, FS_EmptySet
<1>5. \A l \in Links : LinkCounted(l) /\ RuleCounted(l)
  BY <1>1, <1>2, <1>4 DEF LinkCounted, RuleCounted, FitsLink, FitsRule
<1> QED BY <1>1, <1>2, <1>3, <1>5 DEF CountInv, SweepOK, PressOK, Health!Under

\* What a broken-link mail counts happened: a failure is added to counters that may have
\* been read before or after it was found, by sweeps and presses that overlap, but is
\* added once and after it was found, so that no counter is ahead of the probes.
THEOREM ConfirmedDown ==
    ASSUME HealthSetting
    PROVE  Health!Spec => []Health!ConfirmedDown
<1>1. Health!Init => CountInv
  BY CountStarts
<1>2. CountInv /\ [Health!Next]_Health!vars => CountInv'
  BY CountStep
<1>3. CountInv => Health!ConfirmedDown
  <2> SUFFICES ASSUME CountInv, NEW l \in Links
               PROVE  health[l].failures <= failed[l].link /\ rule[l].failures <= failed[l].rule
    BY DEF Health!ConfirmedDown
  <2>1. LinkCounted(l) /\ RuleCounted(l) /\ failed[l].link \in Counts /\ failed[l].rule \in Counts
    BY DEF CountInv, HealthTypes
  <2>2. Cardinality(Waiting(l)) \in Nat
    BY PressesCount DEF Waiting
  <2> QED BY <2>1, <2>2 DEF LinkCounted, RuleCounted, FitsLink, FitsRule, Counts, HealthSetting
<1> QED BY <1>1, <1>2, <1>3, PTL DEF Health!Spec

\* The rule a press has read is the rule as it is, and what the redirect holds is that
\* too, or about to be evicted, while no two presses are at the rule of the link.
RouteTypes ==
    /\ rule = [l \in Links |-> rule[l]] /\ routed = [l \in Links |-> routed[l]]
    /\ press = [q \in Presses |-> press[q]]
    /\ \A q \in Presses : press[q].pc \in {"probe", "rule", "evict"} => press[q].link \in Links
At(l) == {q \in Presses : Health!AtRule(q, l)}
OneAt(l) == \A p, q \in At(l) : p = q
ReadAsIs(l) == \A q \in At(l) : press[q].pc # "evict" => press[q].row.status = rule[l].status
RoutedAsIs(l) == routed[l] \in {"none", rule[l].status} \/ \E q \in At(l) : press[q].pc = "evict"
RouteInv == RouteTypes /\ \A l \in Links : l \in clashed \/ (OneAt(l) /\ ReadAsIs(l) /\ RoutedAsIs(l))

LEMMA RouteStep == RouteInv /\ [Health!Next]_Health!vars => RouteInv'
<1> SUFFICES ASSUME RouteInv, [Health!Next]_Health!vars
             PROVE  RouteInv'
  OBVIOUS
<1>1. ASSUME UNCHANGED <<rule, routed, press, clashed>>
      PROVE  RouteInv'
  BY <1>1 DEF RouteInv, RouteTypes, RoutedAsIs, ReadAsIs, OneAt, At, Health!AtRule
<1>2. ASSUME NEW q \in Presses, NEW j, press' = [press EXCEPT ![q] = j], UNCHANGED <<rule, routed, clashed>>,
             press[q].pc # "evict",
             \/ j.pc \notin {"probe", "rule", "evict"}
             \/ j.pc = "rule" /\ press[q].pc = "probe" /\ j.link = press[q].link /\ j.row = press[q].row
      PROVE  RouteInv'
  <2>1. /\ press'[q] = j /\ (\A p \in Presses : p # q => press'[p] = press[p])
        /\ RouteTypes'
    BY <1>2 DEF RouteInv, RouteTypes
  <2>2. ASSUME NEW l \in Links, l \notin clashed
        PROVE  (OneAt(l) /\ ReadAsIs(l) /\ RoutedAsIs(l))'
    <3>1. OneAt(l) /\ ReadAsIs(l) /\ RoutedAsIs(l)
      BY <2>2 DEF RouteInv
    <3>2. At(l)' \subseteq At(l) /\ At(l) \ {q} \subseteq At(l)'
      BY <1>2, <2>1 DEF At, Health!AtRule
    <3>3. OneAt(l)'
      BY <3>1, <3>2 DEF OneAt
    <3>4. ReadAsIs(l)'
      BY <1>2, <2>1, <3>1, <3>2 DEF ReadAsIs, At, Health!AtRule
    <3>5. RoutedAsIs(l)'
      BY <1>2, <2>1, <3>1, <3>2 DEF RoutedAsIs, At
    <3> QED BY <3>3, <3>4, <3>5
  <2> QED BY <1>2, <2>1, <2>2 DEF RouteInv
<1>3. ASSUME NEW q \in Presses, NEW l \in Links, Health!PressFallback(q, l)
      PROVE  RouteInv'
  <2>1. PICK j : /\ press' = [press EXCEPT ![q] = j] /\ j.pc = "counters"
                 /\ press[q].pc = "idle" /\ UNCHANGED <<rule, routed, clashed>>
    BY <1>3, QuietIs DEF Health!PressFallback
  <2> QED BY <1>2, <2>1
<1>4. ASSUME NEW q \in Presses, Health!ReadCounters(q)
      PROVE  RouteInv'
  <2>1. PICK j : /\ press' = [press EXCEPT ![q] = j] /\ j.pc = "fallback"
                 /\ press[q].pc = "counters" /\ UNCHANGED <<rule, routed, clashed>>
    BY <1>4 DEF Health!ReadCounters, RouteInv, RouteTypes
  <2> QED BY <1>2, <2>1
<1>5. ASSUME NEW q \in Presses, Health!WriteFallback(q)
      PROVE  RouteInv'
  <2>1. /\ press' = [press EXCEPT ![q] = Health!Quiet] /\ press[q].pc = "fallback"
        /\ UNCHANGED <<rule, routed, clashed>>
    BY <1>5 DEF Health!WriteFallback
  <2> QED BY <1>2, <2>1, QuietIs
<1>6. ASSUME NEW q \in Presses, Health!ProbeRule(q)
      PROVE  RouteInv'
  <2>1. PICK j : j = IF site[press[q].link] = "gone" THEN Health!Quiet
                     ELSE [pc |-> "rule", link |-> press[q].link, row |-> press[q].row, result |-> site[press[q].link]]
    OBVIOUS
  <2>2. press' = [press EXCEPT ![q] = j] /\ UNCHANGED <<rule, routed, clashed>> /\ press[q].pc = "probe"
    BY <1>6, <2>1 DEF Health!ProbeRule, RouteInv, RouteTypes
  <2>3. j = Health!Quiet \/ (j.pc = "rule" /\ j.link = press[q].link /\ j.row = press[q].row)
    BY <2>1
  <2> QED BY <1>2, <2>2, <2>3, QuietIs
<1>7. ASSUME NEW q \in Presses, NEW l \in Links, Health!PressRule(q, l)
      PROVE  RouteInv'
  <2> DEFINE j == [pc |-> "probe", link |-> l, row |-> rule[l]]
  <2>1. /\ press[q] = Health!Quiet /\ press' = [press EXCEPT ![q] = j] /\ UNCHANGED <<rule, routed>>
        /\ clashed' = IF At(l) # {} THEN clashed \cup {l} ELSE clashed
    BY <1>7 DEF Health!PressRule, At
  <2>2. j.pc = "probe" /\ j.link = l /\ j.row = rule[l]
    OBVIOUS
  <2> HIDE DEF j
  <2>3. press'[q] = j /\ (\A p \in Presses : p # q => press'[p] = press[p]) /\ RouteTypes'
    BY <2>1, <2>2 DEF RouteInv, RouteTypes
  <2>4. ASSUME NEW m \in Links, m \notin clashed'
        PROVE  (OneAt(m) /\ ReadAsIs(m) /\ RoutedAsIs(m))'
    <3>1. m \notin clashed /\ OneAt(m) /\ ReadAsIs(m) /\ RoutedAsIs(m)
      BY <2>1, <2>4 DEF RouteInv
    <3>2. CASE m # l
      <4>1. At(m)' = At(m) /\ q \notin At(m)
        BY <2>1, <2>2, <2>3, <3>2, QuietIs DEF At, Health!AtRule
      <4>2. \A p \in At(m) : press'[p] = press[p]
        BY <2>3, <4>1 DEF At
      <4> QED BY <2>1, <3>1, <4>1, <4>2 DEF OneAt, ReadAsIs, RoutedAsIs
    <3>3. CASE m = l
      <4>1. At(l) = {}
        BY <2>1, <2>4, <3>3
      <4>2. At(l)' = {q}
        BY <2>1, <2>2, <2>3, <4>1 DEF At, Health!AtRule
      <4> QED BY <2>1, <2>2, <2>3, <3>1, <3>3, <4>1, <4>2 DEF OneAt, ReadAsIs, RoutedAsIs
    <3> QED BY <3>2, <3>3
  <2> QED BY <2>3, <2>4 DEF RouteInv
<1>8. ASSUME NEW q \in Presses, Health!WriteRule(q)
      PROVE  RouteInv'
  <2>1. PICK l, after :
          l \in Links /\ l = press[q].link /\ after = Health!After(press[q].row, press[q].result)
    BY <1>8 DEF Health!WriteRule, RouteInv, RouteTypes
  <2>2. /\ press[q].pc = "rule" /\ UNCHANGED <<routed, clashed>> /\ rule' = [rule EXCEPT ![l] = after]
        /\ press' = [press EXCEPT ![q] = IF after.status # press[q].row.status
                                         THEN [pc |-> "evict", link |-> l] ELSE Health!Quiet]
    BY <1>8, <2>1 DEF Health!WriteRule, Health!Evicts
  <2>3. /\ rule'[l] = after /\ \A m \in Links : m # l => rule'[m] = rule[m]
        /\ \A p \in Presses : p # q => press'[p] = press[p]
        /\ press'[q] = IF after.status # press[q].row.status
                       THEN [pc |-> "evict", link |-> l] ELSE Health!Quiet
    BY <2>1, <2>2 DEF RouteInv, RouteTypes
  <2>4. RouteTypes'
    BY <2>1, <2>2, <2>3, QuietIs DEF RouteInv, RouteTypes
  <2>5. ASSUME NEW m \in Links, m \notin clashed
        PROVE  (OneAt(m) /\ ReadAsIs(m) /\ RoutedAsIs(m))'
    <3>1. OneAt(m) /\ ReadAsIs(m) /\ RoutedAsIs(m)
      BY <2>5 DEF RouteInv
    <3>2. CASE m # l
      <4>1. At(m)' = At(m) /\ q \notin At(m)
        BY <2>1, <2>2, <2>3, <3>2, QuietIs DEF At, Health!AtRule
      <4>2. \A p \in At(m) : press'[p] = press[p]
        BY <2>3, <4>1 DEF At
      <4> QED BY <2>2, <2>3, <3>1, <3>2, <4>1, <4>2 DEF OneAt, ReadAsIs, RoutedAsIs
    <3>3. CASE m = l
      <4>1. q \in At(l)
        BY <2>1, <2>2 DEF At, Health!AtRule
      <4>2. At(l) = {q}
        BY <3>1, <3>3, <4>1 DEF OneAt
      <4>3. press[q].row.status = rule[l].status /\ routed[l] \in {"none", rule[l].status}
        BY <2>2, <3>1, <3>3, <4>2 DEF ReadAsIs, RoutedAsIs
      <4>4. At(l)' = IF after.status # rule[l].status THEN {q} ELSE {}
        BY <2>3, <4>2, <4>3, QuietIs DEF At, Health!AtRule
      <4>5. CASE after.status # rule[l].status
        BY <2>3, <3>3, <4>3, <4>4, <4>5 DEF OneAt, ReadAsIs, RoutedAsIs
      <4>6. CASE after.status = rule[l].status
        BY <2>2, <2>3, <3>3, <4>3, <4>4, <4>6 DEF OneAt, ReadAsIs, RoutedAsIs
      <4> QED BY <4>5, <4>6
    <3> QED BY <3>2, <3>3
  <2> QED BY <2>2, <2>4, <2>5 DEF RouteInv
<1>9. ASSUME NEW q \in Presses, Health!Evict(q)
      PROVE  RouteInv'
  <2>1. PICK l : l \in Links /\ l = press[q].link
    BY <1>9 DEF Health!Evict, RouteInv, RouteTypes
  <2>2. /\ press[q].pc = "evict" /\ press' = [press EXCEPT ![q] = Health!Quiet]
        /\ UNCHANGED rule /\ routed' = [routed EXCEPT ![l] = "none"]
        /\ clashed' = IF \E p \in Presses \ {q} : Health!AtRule(p, l) THEN clashed ELSE clashed \ {l}
    BY <1>9, <2>1 DEF Health!Evict
  <2>3. /\ press'[q] = Health!Quiet /\ \A p \in Presses : p # q => press'[p] = press[p]
        /\ \A m \in Links : routed'[m] = IF m = l THEN "none" ELSE routed[m]
        /\ q \in At(l)
    BY <2>1, <2>2 DEF RouteInv, RouteTypes, At, Health!AtRule
  <2>4. RouteTypes'
    BY <2>2, <2>3, QuietIs DEF RouteInv, RouteTypes
  <2>5. ASSUME NEW m \in Links, m \notin clashed'
        PROVE  (OneAt(m) /\ ReadAsIs(m) /\ RoutedAsIs(m))'
    <3>1. CASE m # l
      <4>1. m \notin clashed /\ OneAt(m) /\ ReadAsIs(m) /\ RoutedAsIs(m)
        BY <2>2, <2>5, <3>1 DEF RouteInv
      <4>2. At(m)' = At(m) /\ q \notin At(m)
        BY <2>1, <2>2, <2>3, <3>1, QuietIs DEF At, Health!AtRule
      <4>3. \A p \in At(m) : press'[p] = press[p]
        BY <2>3, <4>2 DEF At
      <4> QED BY <2>2, <2>3, <3>1, <4>1, <4>2, <4>3 DEF OneAt, ReadAsIs, RoutedAsIs
    <3>2. CASE m = l
      <4>1. \A p \in Presses \ {q} : ~Health!AtRule(p, l)
        <5>1. CASE l \in clashed
          BY <2>2, <2>5, <3>2, <5>1
        <5>2. CASE l \notin clashed
          BY <2>1, <2>3, <5>2 DEF RouteInv, OneAt, At
        <5> QED BY <5>1, <5>2
      <4>2. At(l)' = {}
        BY <2>3, <4>1, QuietIs DEF At, Health!AtRule
      <4> QED BY <2>3, <3>2, <4>2 DEF OneAt, ReadAsIs, RoutedAsIs
    <3> QED BY <3>1, <3>2
  <2> QED BY <2>4, <2>5 DEF RouteInv
<1>10. ASSUME NEW l \in Links, Health!Visit(l)
       PROVE  RouteInv'
  <2>1. UNCHANGED <<rule, press, clashed>> /\ routed' = [routed EXCEPT ![l] = rule[l].status]
    BY <1>10 DEF Health!Visit
  <2>2. RouteTypes' /\ \A m \in Links : routed'[m] = IF m = l THEN rule[l].status ELSE routed[m]
    BY <2>1 DEF RouteInv, RouteTypes
  <2>3. ASSUME NEW m \in Links, m \notin clashed
        PROVE  (OneAt(m) /\ ReadAsIs(m) /\ RoutedAsIs(m))'
    <3>1. (OneAt(m) /\ ReadAsIs(m) /\ RoutedAsIs(m)) /\ At(m)' = At(m)
      BY <2>1, <2>3 DEF RouteInv, At, Health!AtRule
    <3> QED BY <2>1, <2>2, <3>1 DEF OneAt, ReadAsIs, RoutedAsIs
  <2> QED BY <2>1, <2>2, <2>3 DEF RouteInv
<1>11. CASE UNCHANGED Health!vars
  BY <1>1, <1>11 DEF Health!vars
<1>12. CASE Health!Next
  BY <1>1, <1>3, <1>4, <1>5, <1>6, <1>7, <1>8, <1>9, <1>10, <1>12
     DEF Health!Next, Health!Work, Health!Answer, Health!Sweep, Health!Probe, Health!SaveCheck, Health!CutOff,
         Health!Toggle, Health!SiteChanges
<1> QED BY <1>11, <1>12

\* health/route.ts:93 decides whether to evict against the row it read before the probe.
\* Visitors are all the same routed by the rule's health as it is: after any number of
\* probes of a rule, by any number of owners, unless two of them were at it at once; and
\* then again from the first eviction that finds nobody else at it.
THEOREM RoutedByHealth == Health!Spec => []Health!RoutedByHealth
<1>1. Health!Init => RouteInv
  <2> SUFFICES ASSUME Health!Init
               PROVE  RouteInv
    OBVIOUS
  <2>1. /\ rule = [l \in Links |-> Health!Unknown] /\ routed = [l \in Links |-> "none"]
        /\ press = [q \in Presses |-> Health!Quiet]
    BY DEF Health!Init
  <2>2. \A l \in Links : At(l) = {}
    BY <2>1, QuietIs DEF At, Health!AtRule
  <2> QED BY <2>1, <2>2, QuietIs DEF RouteInv, RouteTypes, OneAt, ReadAsIs, RoutedAsIs
<1>2. RouteInv /\ [Health!Next]_Health!vars => RouteInv'
  BY RouteStep
<1>3. RouteInv => Health!RoutedByHealth
  BY DEF RouteInv, RoutedAsIs, At, Health!RoutedByHealth
<1> QED BY <1>1, <1>2, <1>3, PTL DEF Health!Spec

(***************************************************************************)
(* Edits of links that exist.                                              *)
(***************************************************************************)
\* The values asked for are destinations and limits, and "no revision" is no destination.
EditSetting ==
    /\ Untagged \in Dests /\ Tagged \in Dests /\ NoRev \notin Dests
    /\ Caps \subseteq Nat /\ Horizon \in Nat

\* Some columns of a row, as an update or an audit event carries them.
PartOK(c) ==
    /\ "dest" \in DOMAIN c => c.dest \in Dests
    /\ "active" \in DOMAIN c => c.active \in BOOLEAN
    /\ "cap" \in DOMAIN c => c.cap \in Nat \cup {Editing!None}
    /\ "ends" \in DOMAIN c => c.ends \in Editing!Days \cup {Editing!None}

BulkEventOK(e) == e.batch \in Requests /\ e.on \in Links /\ PartOK(e.before)
UpdateEventOK(e) == e.on \in Links /\ PartOK(e.before) /\ "dest" \notin DOMAIN e.before

\* What a request carries from its read to its write.
EditOK(r) ==
    \/ work[r] \in {Editing!Idle, Editing!Done}
    \/ /\ work[r].op \in {"patch", "bulk", "promote", "release"}
       /\ work[r].on \subseteq Links /\ PartOK(work[r].change) /\ work[r].seen \in [Links -> Editing!Rows]
       /\ work[r].at \in Nat \cup {Editing!None} /\ {"op", "on", "change", "seen", "at"} \subseteq DOMAIN work[r]
       /\ work[r].op \in {"promote", "release"} => "dest" \in DOMAIN work[r].change
    \/ /\ work[r].op \in {"extend", "revert"}
       /\ work[r].on \subseteq Links /\ PartOK(work[r].change) /\ "dest" \notin DOMAIN work[r].change
    \/ /\ work[r].op \in {"events", "undo"} /\ work[r].batch \in Requests /\ work[r].anchor \in Links
       /\ work[r].op = "undo" => \A e \in work[r].plan : BulkEventOK(e)
    \/ work[r].op \in {"archive", "sweep"} /\ work[r].on \subseteq Links

Shown == ~Templates => \A l \in Links \ (released \cup reverted \cup raced) : Editing!Served(l) = table[l].dest
Edits == work = [r \in Requests |-> work[r]] /\ \A r \in Requests : EditOK(r)
Audited == (\A e \in bulks : BulkEventOK(e)) /\ (\A e \in updates : UpdateEventOK(e))
EditInv == Editing!TypeOK /\ Shown /\ Edits /\ Audited

LEMMA EditOpsDiffer == Editing!Idle.op = "idle" /\ Editing!Done.op = "done" /\ Editing!Idle # Editing!Done
BY DEF Editing!Idle, Editing!Done

\* An update keeps a row a row, and its destination unless it carries one.
LEMMA OverwriteRow ==
    ASSUME NEW old \in Editing!Rows, NEW c, PartOK(c)
    PROVE  /\ Editing!Overwrite(old, c) \in Editing!Rows
           /\ Editing!Overwrite(old, c).dest = IF "dest" \in DOMAIN c THEN c.dest ELSE old.dest
<1>1. /\ old.dest \in Dests /\ old.active \in BOOLEAN /\ old.cap \in Nat \cup {Editing!None}
      /\ old.ends \in Editing!Days \cup {Editing!None}
  BY DEF Editing!Rows
<1>2. PICK new : new = Editing!Overwrite(old, c)
  OBVIOUS
<1>3. /\ DOMAIN new = Editing!Fields /\ new = [f \in Editing!Fields |-> new[f]]
      /\ \A f \in Editing!Fields : new[f] = IF f \in DOMAIN c THEN c[f] ELSE old[f]
  BY <1>2 DEF Editing!Overwrite
<1>4. /\ new.dest = IF "dest" \in DOMAIN c THEN c.dest ELSE old.dest
      /\ new.active = IF "active" \in DOMAIN c THEN c.active ELSE old.active
      /\ new.cap = IF "cap" \in DOMAIN c THEN c.cap ELSE old.cap
      /\ new.ends = IF "ends" \in DOMAIN c THEN c.ends ELSE old.ends
  BY <1>3 DEF Editing!Fields
<1>5. /\ new.dest \in Dests /\ new.active \in BOOLEAN /\ new.cap \in Nat \cup {Editing!None}
      /\ new.ends \in Editing!Days \cup {Editing!None}
  BY <1>1, <1>4 DEF PartOK
<1>6. new = [dest |-> new.dest, active |-> new.active, cap |-> new.cap, ends |-> new.ends]
  BY <1>3 DEF Editing!Fields
<1>7. new \in Editing!Rows
  BY <1>5, <1>6 DEF Editing!Rows
<1> QED BY <1>2, <1>4, <1>7

\* A request that reads changes no row.
LEMMA BeginEdit ==
    ASSUME EditInv, NEW r \in Requests, NEW request, Editing!Begin(r, request),
           \/ /\ request.op \in {"patch", "bulk", "promote", "release"}
              /\ request.on \subseteq Links /\ PartOK(request.change)
              /\ request.seen = table /\ request.at = Editing!None
              /\ {"op", "on", "change", "seen", "at"} \subseteq DOMAIN request
              /\ request.op \in {"promote", "release"} => "dest" \in DOMAIN request.change
           \/ /\ request.op \in {"extend", "revert"}
              /\ request.on \subseteq Links /\ PartOK(request.change) /\ "dest" \notin DOMAIN request.change
           \/ /\ request.op = "events" /\ request.batch \in Requests /\ request.anchor \in Links
           \/ request.op \in {"archive", "sweep"} /\ request.on \subseteq Links
    PROVE  EditInv'
<1>1. /\ UNCHANGED <<table, latest, stamps, passed, bulks, updates, undone, released, reverted, raced, misreported>>
      /\ work' = [work EXCEPT ![r] = request]
  BY DEF Editing!Begin, Editing!auditVars, Editing!historyVars
<1>2. Editing!TypeOK' /\ Shown' /\ Audited'
  BY <1>1 DEF EditInv, Editing!TypeOK, Shown, Audited, Editing!Served
<1>3. ASSUME NEW q \in Requests
      PROVE  EditOK(q)'
  <2>1. EditOK(q) /\ work'[q] = IF q = r THEN request ELSE work[q]
    BY <1>1 DEF EditInv, Edits
  <2>2. CASE q # r
    BY <1>1, <2>1, <2>2 DEF EditOK
  <2>3. CASE q = r
    <3>1. table \in [Links -> Editing!Rows] /\ Editing!None \in Nat \cup {Editing!None}
      BY DEF EditInv, Editing!TypeOK
    <3> QED BY <2>1, <2>3, <3>1 DEF EditOK
  <2> QED BY <2>2, <2>3
<1>4. work' = [q \in Requests |-> work'[q]]
  BY <1>1 DEF EditInv, Edits
<1> QED BY <1>2, <1>3, <1>4 DEF EditInv, Edits

\* A request that has written carries nothing any more.
LEMMA FinishEdit ==
    ASSUME Edits, NEW r \in Requests, Editing!Finish(r)
    PROVE  Edits' /\ UNCHANGED <<stamps, passed>>
<1>1. UNCHANGED <<stamps, passed>> /\ work' = [work EXCEPT ![r] = Editing!Done]
  BY DEF Editing!Finish
<1>2. ASSUME NEW q \in Requests
      PROVE  EditOK(q)'
  <2>1. EditOK(q) /\ work'[q] = IF q = r THEN Editing!Done ELSE work[q]
    BY <1>1 DEF Edits
  <2> QED BY <1>1, <2>1 DEF EditOK
<1>3. work' = [q \in Requests |-> work'[q]]
  BY <1>1 DEF Edits
<1> QED BY <1>1, <1>2, <1>3 DEF Edits

\* What an update does to the rows.
LEMMA WriteRow ==
    ASSUME table \in [Links -> Editing!Rows], NEW S \in SUBSET Links, NEW c, PartOK(c), Editing!Write(S, c)
    PROVE  /\ table' \in [Links -> Editing!Rows]
           /\ \A l \in Links : table'[l].dest = IF l \in S /\ "dest" \in DOMAIN c THEN c.dest ELSE table[l].dest
<1>1. \A l \in Links : table'[l] = IF l \in S THEN Editing!Overwrite(table[l], c) ELSE table[l]
  BY DEF Editing!Write
<1>2. \A l \in Links : /\ Editing!Overwrite(table[l], c) \in Editing!Rows
                       /\ Editing!Overwrite(table[l], c).dest = IF "dest" \in DOMAIN c THEN c.dest ELSE table[l].dest
  BY OverwriteRow
<1>3. table' \in [Links -> Editing!Rows]
  BY <1>2 DEF Editing!Write
<1> QED BY <1>1, <1>2, <1>3

\* An update that leaves the destination alone leaves what is shown and served alone.
LEMMA KeepsShown ==
    ASSUME EditInv, NEW S \in SUBSET Links, NEW c, PartOK(c), "dest" \notin DOMAIN c,
           Editing!Write(S, c), UNCHANGED <<latest, released, reverted, raced>>
    PROVE  table' \in [Links -> Editing!Rows] /\ Shown'
<1>1. /\ table' \in [Links -> Editing!Rows]
      /\ \A l \in Links : table'[l].dest = IF l \in S /\ "dest" \in DOMAIN c THEN c.dest ELSE table[l].dest
  BY WriteRow DEF EditInv, Editing!TypeOK
<1> QED BY <1>1 DEF EditInv, Shown, Editing!Served

\* One that carries a destination adds a revision with it, and that is served unless
\* an edit stamped later has committed before.
LEMMA RevisesShown ==
    ASSUME EditSetting, EditInv, NEW S \in SUBSET Links, NEW c, PartOK(c), "dest" \in DOMAIN c,
           NEW at \in Nat, Editing!Write(S, c), Editing!AddRevision(S, c.dest, at), UNCHANGED <<released, reverted>>
    PROVE  /\ table' \in [Links -> Editing!Rows] /\ Shown'
           /\ latest' \in [Links -> [to : Dests \cup {NoRev}, at : Nat]] /\ raced' \subseteq Links
<1>1. /\ table' \in [Links -> Editing!Rows]
      /\ \A l \in Links : table'[l].dest = IF l \in S THEN c.dest ELSE table[l].dest
  BY WriteRow DEF EditInv, Editing!TypeOK
<1>2. c.dest \in Dests /\ c.dest # NoRev
  BY DEF PartOK, EditSetting
<1>3. /\ latest' = [l \in Links |-> IF l \in S /\ Editing!Newer(l, at) THEN [to |-> c.dest, at |-> at] ELSE latest[l]]
      /\ raced' = raced \cup {l \in S : ~Editing!Newer(l, at)}
  BY DEF Editing!AddRevision
<1>4. latest' \in [Links -> [to : Dests \cup {NoRev}, at : Nat]] /\ raced' \subseteq Links
  <2>1. [to |-> c.dest, at |-> at] \in [to : Dests \cup {NoRev}, at : Nat]
    BY <1>2
  <2>2. latest \in [Links -> [to : Dests \cup {NoRev}, at : Nat]] /\ raced \subseteq Links
    BY DEF EditInv, Editing!TypeOK
  <2> QED BY <1>3, <2>1, <2>2
<1>5. ASSUME ~Templates, NEW l \in Links \ (released' \cup reverted' \cup raced')
      PROVE  Editing!Served(l)' = table'[l].dest
  <2>1. l \notin released \cup reverted \cup raced /\ (l \in S => Editing!Newer(l, at))
    BY <1>3, <1>5
  <2>2. Editing!Served(l) = table[l].dest
    BY <1>5, <2>1 DEF EditInv, Shown
  <2>3. latest'[l] = IF l \in S THEN [to |-> c.dest, at |-> at] ELSE latest[l]
    BY <1>3, <2>1
  <2>4. CASE l \in S
    BY <1>1, <1>2, <2>3, <2>4 DEF Editing!Served
  <2>5. CASE l \notin S
    BY <1>1, <2>2, <2>3, <2>5 DEF Editing!Served
  <2> QED BY <2>4, <2>5
<1> QED BY <1>1, <1>4, <1>5 DEF Shown

LEMMA EditStarts == EditSetting /\ Editing!Init => EditInv
<1> SUFFICES ASSUME EditSetting, Editing!Init
             PROVE  EditInv
  OBVIOUS
<1>1. PICK tagged \in [Links -> IF Templates THEN BOOLEAN ELSE {FALSE}] :
        table = [l \in Links |-> [dest |-> IF tagged[l] THEN Tagged ELSE Untagged,
                                active |-> TRUE, cap |-> Editing!None, ends |-> Editing!None]]
  BY DEF Editing!Init
<1>2. table \in [Links -> Editing!Rows]
  <2>1. \A l \in Links : [dest |-> IF tagged[l] THEN Tagged ELSE Untagged,
                         active |-> TRUE, cap |-> Editing!None, ends |-> Editing!None] \in Editing!Rows
    BY DEF EditSetting, Editing!Rows
  <2> QED BY <1>1, <2>1
<1>3. latest \in [Links -> {[to |-> Untagged, at |-> 0], [to |-> NoRev, at |-> 0]}]
  BY DEF Editing!Init
<1>4. Editing!TypeOK
  <2>1. {[to |-> Untagged, at |-> 0], [to |-> NoRev, at |-> 0]} \subseteq [to : Dests \cup {NoRev}, at : Nat]
    BY DEF EditSetting
  <2>2. latest \in [Links -> [to : Dests \cup {NoRev}, at : Nat]]
    BY <1>3, <2>1
  <2> QED BY <1>2, <2>2 DEF Editing!Init, Editing!TypeOK, EditSetting
<1>5. ASSUME ~Templates, NEW l \in Links
      PROVE  Editing!Served(l) = table[l].dest
  <2>1. tagged[l] = FALSE
    BY <1>5
  <2>2. table[l].dest = Untagged
    BY <1>1, <2>1
  <2>3. latest[l] \in {[to |-> Untagged, at |-> 0], [to |-> NoRev, at |-> 0]}
    BY <1>3
  <2> QED BY <2>2, <2>3 DEF Editing!Served
<1> QED BY <1>4, <1>5 DEF Editing!Init, EditInv, Shown, Edits, EditOK, Audited

LEMMA PlanKeepsEdits ==
    ASSUME EditInv, NEW r \in Requests, Editing!PlanUndo(r)
    PROVE  EditInv'
<1>1. /\ UNCHANGED <<table, latest, stamps, passed, bulks, updates, undone, released, reverted, raced, misreported>>
      /\ work[r].op = "events"
      /\ work' = [work EXCEPT ![r] =
           [op |-> "undo", batch |-> work[r].batch, anchor |-> work[r].anchor,
            plan |-> {e \in Editing!Batch(work[r].batch) : Editing!Untouched(e)}]]
  BY DEF Editing!PlanUndo, Editing!auditVars, Editing!historyVars, EditInv, Edits
<1>2. Editing!TypeOK' /\ Shown' /\ Audited'
  BY <1>1 DEF EditInv, Editing!TypeOK, Shown, Audited, Editing!Served
<1>3. ASSUME NEW q \in Requests
      PROVE  EditOK(q)'
  <2>1. EditOK(q)
    BY DEF EditInv, Edits
  <2>2. CASE q # r
    BY <1>1, <2>1, <2>2 DEF EditOK, EditInv, Edits
  <2>3. CASE q = r
    <3>1. work[r].batch \in Requests /\ work[r].anchor \in Links
      BY <1>1, <2>1, <2>3, EditOpsDiffer DEF EditOK
    <3>2. \A e \in Editing!Batch(work[r].batch) : BulkEventOK(e)
      BY DEF EditInv, Audited, Editing!Batch
    <3>3. /\ work'[r].op = "undo" /\ work'[r].batch = work[r].batch /\ work'[r].anchor = work[r].anchor
          /\ \A e \in work'[r].plan : e \in Editing!Batch(work[r].batch)
      BY <1>1 DEF EditInv, Edits
    <3> QED BY <2>3, <3>1, <3>2, <3>3 DEF EditOK
  <2> QED BY <2>2, <2>3
<1>4. work' = [q \in Requests |-> work'[q]]
  BY <1>1 DEF EditInv, Edits
<1> QED BY <1>2, <1>3, <1>4 DEF EditInv, Edits

LEMMA StampKeepsEdits ==
    ASSUME EditInv, NEW r \in Requests, Editing!Stamp(r)
    PROVE  EditInv'
<1>1. /\ UNCHANGED <<table, latest, passed, bulks, updates, undone, released, reverted, raced, misreported>>
      /\ work[r].op \in {"patch", "bulk", "promote", "release"}
      /\ stamps' = stamps + 1 /\ work' = [work EXCEPT ![r].at = stamps']
  BY DEF Editing!Stamp, Editing!auditVars, Editing!historyVars
<1>2. stamps' \in Nat
  BY <1>1 DEF EditInv, Editing!TypeOK
<1>3. Editing!TypeOK' /\ Shown' /\ Audited'
  BY <1>1, <1>2 DEF EditInv, Editing!TypeOK, Shown, Audited, Editing!Served
<1>4. ASSUME NEW q \in Requests
      PROVE  EditOK(q)'
  <2>1. EditOK(q)
    BY DEF EditInv, Edits
  <2>2. CASE q # r
    BY <1>1, <2>1, <2>2 DEF EditOK, EditInv, Edits
  <2>3. CASE q = r
    <3>1. /\ work[r].on \subseteq Links /\ PartOK(work[r].change) /\ work[r].seen \in [Links -> Editing!Rows]
          /\ work[r].op \in {"promote", "release"} => "dest" \in DOMAIN work[r].change
          /\ work[r].at \in Nat \cup {Editing!None}
      BY <1>1, <2>1, <2>3, EditOpsDiffer DEF EditOK
    <3>2. PICK j : j = work[r]
      OBVIOUS
    <3>3. {"op", "on", "change", "seen", "at"} \subseteq DOMAIN j
      BY <1>1, <2>1, <2>3, <3>2, EditOpsDiffer DEF EditOK
    <3>4. work'[r] = [j EXCEPT !.at = stamps']
      BY <1>1, <3>2 DEF EditInv, Edits
    <3>5. /\ work'[r].op = j.op /\ work'[r].on = j.on /\ work'[r].change = j.change
          /\ work'[r].seen = j.seen /\ work'[r].at = stamps' /\ DOMAIN work'[r] = DOMAIN j
      BY <3>3, <3>4
    <3> QED BY <1>1, <1>2, <2>3, <3>1, <3>2, <3>3, <3>5 DEF EditOK
  <2> QED BY <2>2, <2>3
<1>5. work' = [q \in Requests |-> work'[q]]
  BY <1>1 DEF EditInv, Edits
<1> QED BY <1>3, <1>4, <1>5 DEF EditInv, Edits

\* The rows that a PATCH or a bulk edit writes, and the revisions it adds.
LEMMA EditorKeepsShown ==
    ASSUME EditSetting, EditInv, NEW r \in Requests, work[r].op \in {"patch", "bulk", "promote"},
           NEW S \in SUBSET work[r].on, Editing!Write(S, work[r].change),
           Editing!Revises(work[r]) => work[r].at # Editing!None,
           IF Editing!Revises(work[r]) THEN Editing!AddRevision(S, work[r].change.dest, work[r].at)
                                ELSE UNCHANGED <<latest, raced>>,
           UNCHANGED <<released, reverted>>
    PROVE  /\ table' \in [Links -> Editing!Rows] /\ Shown'
           /\ latest' \in [Links -> [to : Dests \cup {NoRev}, at : Nat]] /\ raced' \subseteq Links
<1>1. /\ work[r].on \subseteq Links /\ PartOK(work[r].change)
      /\ work[r].at \in Nat \cup {Editing!None}
  BY EditOpsDiffer DEF EditInv, Edits, EditOK
<1>2. PICK c, at : c = work[r].change /\ at = work[r].at
  OBVIOUS
<1>3. CASE Editing!Revises(work[r])
  <2>1. "dest" \in DOMAIN c /\ at \in Nat /\ Editing!AddRevision(S, c.dest, at) /\ Editing!Write(S, c) /\ PartOK(c)
    BY <1>1, <1>2, <1>3 DEF Editing!Revises
  <2> QED BY <1>1, <2>1, RevisesShown
<1>4. CASE ~Editing!Revises(work[r])
  <2>1. "dest" \notin DOMAIN c /\ Editing!Write(S, c) /\ PartOK(c) /\ UNCHANGED <<latest, raced>>
    BY <1>1, <1>2, <1>4 DEF Editing!Revises
  <2>2. table' \in [Links -> Editing!Rows] /\ Shown'
    BY <1>1, <2>1, KeepsShown
  <2> QED BY <2>1, <2>2 DEF EditInv, Editing!TypeOK
<1> QED BY <1>3, <1>4

LEMMA PatchKeepsEdits ==
    ASSUME EditSetting, EditInv, NEW r \in Requests, Editing!WritePatch(r)
    PROVE  EditInv'
<1>1. /\ work[r].op = "patch" /\ (Editing!Revises(work[r]) => work[r].at # Editing!None)
      /\ Editing!Write(Editing!Planned(work[r]), work[r].change) /\ Editing!Finish(r)
      /\ IF Editing!Revises(work[r]) THEN Editing!AddRevision(Editing!Planned(work[r]), work[r].change.dest, work[r].at)
                                    ELSE UNCHANGED <<latest, raced>>
      /\ updates' \subseteq updates \cup {Editing!UpdateEvent(work[r], l) : l \in work[r].on}
      /\ UNCHANGED <<bulks, undone, released, reverted, misreported>>
  BY DEF Editing!WritePatch
<1>2. Editing!Planned(work[r]) \subseteq work[r].on
  BY DEF Editing!Planned
<1>3. /\ table' \in [Links -> Editing!Rows] /\ Shown'
      /\ latest' \in [Links -> [to : Dests \cup {NoRev}, at : Nat]] /\ raced' \subseteq Links
  BY <1>1, <1>2, EditorKeepsShown
<1>4. Edits' /\ UNCHANGED <<stamps, passed>>
  BY <1>1, FinishEdit DEF EditInv
<1>5. work[r].on \subseteq Links /\ work[r].seen \in [Links -> Editing!Rows]
  BY <1>1, EditOpsDiffer DEF EditInv, Edits, EditOK
<1>6. ASSUME NEW l \in work[r].on
      PROVE  UpdateEventOK(Editing!UpdateEvent(work[r], l))
  <2>1. work[r].seen[l] \in Editing!Rows
    BY <1>5
  <2>2. PICK before : before = Editing!Only(work[r].seen[l], {"active"})
    OBVIOUS
  <2>3. DOMAIN before = {"active"} /\ before.active = work[r].seen[l].active
    BY <2>2 DEF Editing!Only
  <2>4. PartOK(before) /\ "dest" \notin DOMAIN before
    BY <2>1, <2>3 DEF PartOK, Editing!Rows
  <2>5. Editing!UpdateEvent(work[r], l).on = l /\ Editing!UpdateEvent(work[r], l).before = before
    BY <2>2 DEF Editing!UpdateEvent
  <2> QED BY <1>5, <2>4, <2>5 DEF UpdateEventOK
<1>7. Audited'
  BY <1>1, <1>6 DEF EditInv, Audited
<1> QED BY <1>1, <1>3, <1>4, <1>7 DEF EditInv, Editing!TypeOK

LEMMA BulkKeepsEdits ==
    ASSUME EditSetting, EditInv, NEW r \in Requests, Editing!WriteBulk(r)
    PROVE  EditInv'
<1>1. /\ work[r].op = "bulk" /\ (Editing!Revises(work[r]) => work[r].at # Editing!None)
      /\ Editing!Write(Editing!Planned(work[r]), work[r].change) /\ Editing!Finish(r)
      /\ IF Editing!Revises(work[r]) THEN Editing!AddRevision(Editing!Planned(work[r]), work[r].change.dest, work[r].at)
                                    ELSE UNCHANGED <<latest, raced>>
      /\ bulks' = bulks \cup
            {[batch |-> r, on |-> l, before |-> Editing!Only(work[r].seen[l], DOMAIN work[r].change),
              after |-> work[r].change] : l \in Editing!Planned(work[r])}
      /\ UNCHANGED <<updates, undone, released, reverted, misreported>>
  BY DEF Editing!WriteBulk
<1>2. Editing!Planned(work[r]) \subseteq work[r].on
  BY DEF Editing!Planned
<1>3. /\ table' \in [Links -> Editing!Rows] /\ Shown'
      /\ latest' \in [Links -> [to : Dests \cup {NoRev}, at : Nat]] /\ raced' \subseteq Links
  BY <1>1, <1>2, EditorKeepsShown
<1>4. Edits' /\ UNCHANGED <<stamps, passed>>
  BY <1>1, FinishEdit DEF EditInv
<1>5. work[r].on \subseteq Links /\ work[r].seen \in [Links -> Editing!Rows]
  BY <1>1, EditOpsDiffer DEF EditInv, Edits, EditOK
<1>6. ASSUME NEW l \in Editing!Planned(work[r])
      PROVE  BulkEventOK([batch |-> r, on |-> l, before |-> Editing!Only(work[r].seen[l], DOMAIN work[r].change),
                          after |-> work[r].change])
  <2>1. l \in Links /\ work[r].seen[l] \in Editing!Rows
    BY <1>2, <1>5
  <2>2. PICK old, before : old = work[r].seen[l] /\ before = Editing!Only(old, DOMAIN work[r].change)
    OBVIOUS
  <2>3. \A f \in DOMAIN before : before[f] = old[f]
    BY <2>2 DEF Editing!Only
  <2>4. /\ old.dest \in Dests /\ old.active \in BOOLEAN /\ old.cap \in Nat \cup {Editing!None}
        /\ old.ends \in Editing!Days \cup {Editing!None}
    BY <2>1, <2>2 DEF Editing!Rows
  <2>5. PartOK(before)
    BY <2>3, <2>4 DEF PartOK
  <2> QED BY <2>1, <2>2, <2>5 DEF BulkEventOK
<1>7. Audited'
  BY <1>1, <1>6 DEF EditInv, Audited
<1> QED BY <1>1, <1>3, <1>4, <1>7 DEF EditInv, Editing!TypeOK

LEMMA PromotionKeepsEdits ==
    ASSUME EditSetting, EditInv, NEW r \in Requests, Editing!WritePromotion(r)
    PROVE  EditInv'
<1>1. /\ work[r].op = "promote" /\ work[r].at # Editing!None /\ Editing!Finish(r)
      /\ Editing!Write(work[r].on, work[r].change) /\ Editing!AddRevision(work[r].on, work[r].change.dest, work[r].at)
      /\ UNCHANGED <<bulks, updates, undone, released, reverted, misreported>>
  BY DEF Editing!WritePromotion, Editing!auditVars
<1>2. "dest" \in DOMAIN work[r].change
  BY <1>1, EditOpsDiffer DEF EditInv, Edits, EditOK
<1>3. Editing!Revises(work[r])
  BY <1>1, <1>2 DEF Editing!Revises
<1>4. /\ table' \in [Links -> Editing!Rows] /\ Shown'
      /\ latest' \in [Links -> [to : Dests \cup {NoRev}, at : Nat]] /\ raced' \subseteq Links
  BY <1>1, <1>3, EditorKeepsShown
<1>5. Edits' /\ UNCHANGED <<stamps, passed>>
  BY <1>1, FinishEdit DEF EditInv
<1> QED BY <1>1, <1>4, <1>5 DEF EditInv, Editing!TypeOK, Audited

\* A release writes a revision only, and is accounted for as such.
LEMMA ReleaseKeepsEdits ==
    ASSUME EditSetting, EditInv, NEW r \in Requests, Editing!WriteRelease(r)
    PROVE  EditInv'
<1>1. /\ work[r].op = "release" /\ work[r].at # Editing!None /\ Editing!Finish(r)
      /\ Editing!AddRevision(work[r].on, work[r].change.dest, work[r].at) /\ released' = released \cup work[r].on
      /\ UNCHANGED <<table, bulks, updates, undone, reverted, misreported>>
  BY DEF Editing!WriteRelease, Editing!auditVars
<1>2. /\ work[r].on \subseteq Links /\ PartOK(work[r].change) /\ "dest" \in DOMAIN work[r].change
      /\ work[r].at \in Nat
  BY <1>1, EditOpsDiffer DEF EditInv, Edits, EditOK
<1>3. PICK S, to, at : S = work[r].on /\ to = work[r].change.dest /\ at = work[r].at
  OBVIOUS
<1>4. /\ latest' = [l \in Links |-> IF l \in S /\ Editing!Newer(l, at) THEN [to |-> to, at |-> at] ELSE latest[l]]
      /\ raced' = raced \cup {l \in S : ~Editing!Newer(l, at)}
  BY <1>1, <1>3 DEF Editing!AddRevision
<1>5. latest' \in [Links -> [to : Dests \cup {NoRev}, at : Nat]] /\ raced' \subseteq Links
  <2>1. [to |-> to, at |-> at] \in [to : Dests \cup {NoRev}, at : Nat]
    BY <1>2, <1>3 DEF PartOK
  <2>2. latest \in [Links -> [to : Dests \cup {NoRev}, at : Nat]] /\ raced \subseteq Links
    BY DEF EditInv, Editing!TypeOK
  <2> QED BY <1>2, <1>3, <1>4, <2>1, <2>2
<1>6. Shown'
  <2> SUFFICES ASSUME ~Templates, NEW l \in Links \ (released' \cup reverted' \cup raced')
               PROVE  Editing!Served(l)' = table'[l].dest
    BY DEF Shown
  <2>1. l \notin released \cup reverted \cup raced /\ l \notin S
    BY <1>1, <1>3, <1>4
  <2>2. Editing!Served(l) = table[l].dest /\ latest'[l] = latest[l]
    BY <1>4, <2>1 DEF EditInv, Shown
  <2> QED BY <1>1, <2>2 DEF Editing!Served
<1>7. Edits' /\ UNCHANGED <<stamps, passed>>
  BY <1>1, FinishEdit DEF EditInv
<1> QED BY <1>1, <1>2, <1>5, <1>6, <1>7 DEF EditInv, Editing!TypeOK, Audited

LEMMA SimpleKeepsEdits ==
    ASSUME EditInv, NEW r \in Requests, Editing!WriteSimple(r)
    PROVE  EditInv'
<1>1. /\ work[r].op \in {"extend", "revert"} /\ Editing!Finish(r) /\ Editing!Write(work[r].on, work[r].change)
      /\ UNCHANGED <<latest, bulks, updates, undone, released, reverted, raced, misreported>>
  BY DEF Editing!WriteSimple, Editing!auditVars, Editing!historyVars
<1>2. work[r].on \subseteq Links /\ PartOK(work[r].change) /\ "dest" \notin DOMAIN work[r].change
  BY <1>1, EditOpsDiffer DEF EditInv, Edits, EditOK
<1>3. table' \in [Links -> Editing!Rows] /\ Shown'
  <2>1. PICK S, c : S = work[r].on /\ c = work[r].change
    OBVIOUS
  <2> QED BY <1>1, <1>2, <2>1, KeepsShown
<1>4. Edits' /\ UNCHANGED <<stamps, passed>>
  BY <1>1, FinishEdit DEF EditInv
<1> QED BY <1>1, <1>3, <1>4 DEF EditInv, Editing!TypeOK, Audited

\* An undo that puts a destination back is accounted for as such.
LEMMA UndoKeepsEdits ==
    ASSUME EditInv, NEW r \in Requests, Editing!WriteUndo(r)
    PROVE  EditInv'
<1>1. /\ work[r].op = "undo" /\ Editing!Finish(r)
      /\ undone' \subseteq undone \cup {<<work[r].batch, work[r].anchor>>}
      /\ reverted' = reverted \cup {e.on : e \in {e \in work[r].plan : "dest" \in DOMAIN e.before}}
      /\ UNCHANGED <<latest, bulks, updates, released, raced, misreported>>
  BY DEF Editing!WriteUndo
<1>2. work[r].batch \in Requests /\ work[r].anchor \in Links /\ \A e \in work[r].plan : BulkEventOK(e)
  BY <1>1, EditOpsDiffer DEF EditInv, Edits, EditOK
<1>3. reverted' \subseteq Links /\ undone' \subseteq Requests \X Links
  BY <1>1, <1>2 DEF BulkEventOK, EditInv, Editing!TypeOK
<1>4. ASSUME NEW l \in Links
      PROVE  table'[l] \in Editing!Rows /\ (l \notin reverted' => table'[l].dest = table[l].dest)
  <2>1. table[l] \in Editing!Rows
    BY DEF EditInv, Editing!TypeOK
  <2>2. CASE \E e \in work[r].plan : e.on = l
    <3>1. PICK e \in work[r].plan : e.on = l /\ e = CHOOSE x \in work[r].plan : x.on = l
      BY <2>2
    <3>2. table'[l] = Editing!Overwrite(table[l], e.before)
      BY <2>2, <3>1 DEF Editing!WriteUndo
    <3>3. PartOK(e.before) /\ (l \notin reverted' => "dest" \notin DOMAIN e.before)
      BY <1>1, <1>2, <3>1 DEF BulkEventOK
    <3> QED BY <2>1, <3>2, <3>3, OverwriteRow
  <2>3. CASE ~\E e \in work[r].plan : e.on = l
    BY <2>1, <2>3 DEF Editing!WriteUndo
  <2> QED BY <2>2, <2>3
<1>5. table' \in [Links -> Editing!Rows]
  <2>1. table' = [l \in Links |-> table'[l]]
    BY DEF Editing!WriteUndo
  <2> QED BY <1>4, <2>1
<1>6. Shown'
  BY <1>1, <1>4 DEF EditInv, Shown, Editing!Served
<1>7. Edits' /\ UNCHANGED <<stamps, passed>>
  BY <1>1, FinishEdit DEF EditInv
<1> QED BY <1>1, <1>3, <1>5, <1>6, <1>7 DEF EditInv, Editing!TypeOK, Audited

LEMMA CronKeepsEdits ==
    ASSUME EditInv, NEW r \in Requests, Editing!WriteArchive(r) \/ Editing!WriteSweep(r)
    PROVE  EditInv'
<1>1. work[r].op \in {"archive", "sweep"} /\ Editing!Finish(r) /\ misreported' \subseteq misreported \cup work[r].on
      /\ UNCHANGED <<latest, bulks, updates, undone, released, reverted, raced>>
  BY DEF Editing!WriteArchive, Editing!WriteSweep, Editing!auditVars, Editing!historyVars
<1>2. work[r].on \subseteq Links
  BY <1>1, EditOpsDiffer DEF EditInv, Edits, EditOK
<1>3. PICK S, c : S \subseteq Links /\ Editing!Write(S, c) /\ c = [active |-> FALSE]
  BY <1>2 DEF Editing!WriteArchive, Editing!WriteSweep
<1>4. PartOK(c) /\ "dest" \notin DOMAIN c
  BY <1>3 DEF PartOK
<1>5. table' \in [Links -> Editing!Rows] /\ Shown'
  BY <1>1, <1>3, <1>4, KeepsShown
<1>6. Edits' /\ UNCHANGED <<stamps, passed>>
  BY <1>1, FinishEdit DEF EditInv
<1> QED BY <1>1, <1>2, <1>5, <1>6 DEF EditInv, Editing!TypeOK, Audited

\* What a request asks for, and what a row carries that it has read.
LEMMA ChangesOK == EditSetting => \A c \in Editing!Changes : PartOK(c)
<1> SUFFICES ASSUME EditSetting, NEW c \in Editing!Changes
             PROVE  PartOK(c)
  OBVIOUS
<1>1. CASE c \in [dest : Dests]
  BY <1>1 DEF PartOK
<1>2. CASE c \in [active : BOOLEAN]
  BY <1>2 DEF PartOK
<1>3. CASE c \in [cap : Caps \cup {Editing!None}]
  <2>1. c.cap \in Nat \cup {Editing!None}
    BY <1>3 DEF EditSetting
  <2> QED BY <1>3, <2>1 DEF PartOK
<1>4. CASE c \in [ends : Editing!Days \cup {Editing!None}]
  BY <1>4 DEF PartOK
<1> QED BY <1>1, <1>2, <1>3, <1>4 DEF Editing!Changes

LEMMA ReaderKeepsEdits ==
    ASSUME EditInv, NEW r \in Requests, NEW op \in {"patch", "bulk", "promote", "release"},
           NEW S \in SUBSET Links, NEW c, PartOK(c), op \in {"promote", "release"} => "dest" \in DOMAIN c,
           Editing!Begin(r, [op |-> op, on |-> S, change |-> c, seen |-> table, at |-> Editing!None])
    PROVE  EditInv'
<1>1. PICK request : /\ request = [op |-> op, on |-> S, change |-> c, seen |-> table, at |-> Editing!None]
                     /\ Editing!Begin(r, request)
  OBVIOUS
<1>2. /\ request.op = op /\ request.on = S /\ request.change = c /\ request.seen = table /\ request.at = Editing!None
      /\ {"op", "on", "change", "seen", "at"} \subseteq DOMAIN request
  BY <1>1
<1> QED BY <1>1, <1>2, BeginEdit

LEMMA ReadersKeepEdits ==
    ASSUME EditSetting, EditInv, NEW r \in Requests,
           \/ \E l \in Links :
               \/ \E c \in Editing!Changes : Editing!Patch(r, l, c)
               \/ \E d \in Dests : Editing!Promote(r, l, d) \/ Editing!Release(r, l, d)
           \/ \E c \in Editing!Changes : Editing!BulkEdit(r, Links, c)
    PROVE  EditInv'
<1>1. ASSUME NEW l \in Links, NEW c \in Editing!Changes, Editing!Patch(r, l, c)
      PROVE  EditInv'
  BY <1>1, ChangesOK, ReaderKeepsEdits DEF Editing!Patch
<1>2. ASSUME NEW c \in Editing!Changes, Editing!BulkEdit(r, Links, c)
      PROVE  EditInv'
  BY <1>2, ChangesOK, ReaderKeepsEdits DEF Editing!BulkEdit
<1>3. ASSUME NEW l \in Links, NEW d \in Dests, Editing!Promote(r, l, d) \/ Editing!Release(r, l, d)
      PROVE  EditInv'
  <2>1. PICK c : c = [dest |-> d]
    OBVIOUS
  <2>2. PartOK(c) /\ "dest" \in DOMAIN c
    BY <2>1 DEF PartOK
  <2>3. CASE Editing!Promote(r, l, d)
    BY <2>1, <2>2, <2>3, ReaderKeepsEdits DEF Editing!Promote
  <2>4. CASE Editing!Release(r, l, d)
    BY <2>1, <2>2, <2>4, ReaderKeepsEdits DEF Editing!Release
  <2> QED BY <1>3, <2>3, <2>4
<1> QED BY <1>1, <1>2, <1>3

LEMMA ExtendersKeepEdits ==
    ASSUME EditSetting, EditInv, NEW r \in Requests,
           \/ \E l \in Links : Editing!ExtendDays(r, l) \/ \E n \in Caps : Editing!ExtendClicks(r, l, n)
           \/ \E e \in updates : Editing!Revert(r, e)
    PROVE  EditInv'
<1>1. ASSUME NEW l \in Links, Editing!ExtendDays(r, l)
      PROVE  EditInv'
  <2>1. PICK request, c :
          /\ request.op = "extend" /\ request.on = {l} /\ request.change = c /\ Editing!Begin(r, request)
          /\ \E end \in Editing!Days : c = [ends |-> end]
    BY <1>1 DEF Editing!ExtendDays
  <2>2. PartOK(c) /\ "dest" \notin DOMAIN c
    BY <2>1 DEF PartOK
  <2> QED BY <2>1, <2>2, BeginEdit
<1>2. ASSUME NEW l \in Links, NEW n \in Caps, Editing!ExtendClicks(r, l, n)
      PROVE  EditInv'
  <2>1. PICK cap : cap = IF table[l].cap = Editing!None THEN Editing!None ELSE table[l].cap + n
    OBVIOUS
  <2>2. cap \in Nat \cup {Editing!None}
    <3>1. table[l].cap \in Nat \cup {Editing!None} /\ n \in Nat
      BY DEF EditInv, Editing!TypeOK, Editing!Rows, EditSetting
    <3> QED BY <2>1, <3>1
  <2>3. PICK request, c :
          /\ request.op = "extend" /\ request.on = {l} /\ request.change = c /\ Editing!Begin(r, request)
          /\ c = [cap |-> cap]
    BY <1>2, <2>1 DEF Editing!ExtendClicks
  <2>4. PartOK(c) /\ "dest" \notin DOMAIN c
    BY <2>2, <2>3 DEF PartOK
  <2> QED BY <2>3, <2>4, BeginEdit
<1>3. ASSUME NEW e \in updates, Editing!Revert(r, e)
      PROVE  EditInv'
  <2>1. PICK request :
          /\ request.op = "revert" /\ request.on = {e.on} /\ request.change = e.before /\ Editing!Begin(r, request)
    BY <1>3 DEF Editing!Revert
  <2>2. e.on \in Links /\ PartOK(e.before) /\ "dest" \notin DOMAIN e.before
    BY DEF EditInv, Audited, UpdateEventOK
  <2> QED BY <2>1, <2>2, BeginEdit
<1> QED BY <1>1, <1>2, <1>3

LEMMA SelectorsKeepEdits ==
    ASSUME EditInv, NEW r \in Requests,
           (\E e \in bulks : Editing!UndoBulkEdit(r, e)) \/ Editing!SelectIdle(r) \/ Editing!SelectExpired(r)
    PROVE  EditInv'
<1>1. ASSUME NEW e \in bulks, Editing!UndoBulkEdit(r, e)
      PROVE  EditInv'
  <2>1. PICK request :
          /\ request.op = "events" /\ request.batch = e.batch /\ request.anchor = e.on /\ Editing!Begin(r, request)
    BY <1>1 DEF Editing!UndoBulkEdit
  <2>2. e.batch \in Requests /\ e.on \in Links
    BY DEF EditInv, Audited, BulkEventOK
  <2> QED BY <2>1, <2>2, BeginEdit
<1>2. CASE Editing!SelectIdle(r) \/ Editing!SelectExpired(r)
  <2>1. PICK request :
          request.op \in {"archive", "sweep"} /\ request.on \subseteq Links /\ Editing!Begin(r, request)
    BY <1>2 DEF Editing!SelectIdle, Editing!SelectExpired
  <2> QED BY <2>1, BeginEdit
<1> QED BY <1>1, <1>2

LEMMA EditStep == EditSetting /\ EditInv /\ [Editing!Next]_Editing!vars => EditInv'
<1> SUFFICES ASSUME EditSetting, EditInv, [Editing!Next]_Editing!vars
             PROVE  EditInv'
  OBVIOUS
<1>1. ASSUME UNCHANGED <<table, latest, stamps, work, bulks, updates, undone, released, reverted, raced,
                         misreported>>,
             passed' \in 0 .. Horizon
      PROVE  EditInv'
  BY <1>1 DEF EditInv, Editing!TypeOK, Shown, Editing!Served, Edits, EditOK, Audited
<1>2. CASE Editing!DayPasses
  <2>1. passed' \in 0 .. Horizon
    BY <1>2 DEF Editing!DayPasses, EditInv, Editing!TypeOK, EditSetting
  <2> QED BY <1>1, <1>2, <2>1 DEF Editing!DayPasses, Editing!auditVars, Editing!historyVars
<1>3. CASE UNCHANGED Editing!vars
  BY <1>1, <1>3 DEF Editing!vars, EditInv, Editing!TypeOK
<1>4. CASE Editing!Next /\ ~Editing!DayPasses
  BY <1>4, ReadersKeepEdits, ExtendersKeepEdits, SelectorsKeepEdits, PlanKeepsEdits, StampKeepsEdits,
     PatchKeepsEdits, BulkKeepsEdits, PromotionKeepsEdits, ReleaseKeepsEdits, SimpleKeepsEdits,
     UndoKeepsEdits, CronKeepsEdits
     DEF Editing!Next
<1> QED BY <1>2, <1>3, <1>4

\* Visitors are sent where management says: however edits, bulk edits, promotions, undos,
\* reverts and crons overlap, a destination that is written to the row is also added as
\* the revision that the redirect prefers, unless a release, an undo or an edit stamped
\* later accounts for the difference.
THEOREM ShownIsServed ==
    ASSUME EditSetting
    PROVE  Editing!Spec => []Editing!ShownIsServed
<1>1. Editing!Init => EditInv
  BY EditStarts
<1>2. EditInv /\ [Editing!Next]_Editing!vars => EditInv'
  BY EditStep
<1>3. EditInv => Editing!ShownIsServed
  BY DEF EditInv, Shown, Editing!ShownIsServed
<1> QED BY <1>1, <1>2, <1>3, PTL DEF Editing!Spec
=============================================================================
