--------------------------- MODULE AccountDeletion ----------------------------
(***************************************************************************)
(* Deleting an account: the owner asks for it and may cancel, and when the *)
(* grace period is over the privacy worker erases the account in one       *)
(* transaction.  Runs of the worker may overlap and die; the database      *)
(* itself never fails here.                                                *)
(***************************************************************************)
EXTENDS Naturals, FiniteSets

CONSTANTS
    Users, Workers,
    Rows        \* bound: the deletion requests ever made

VARIABLES
    users,      \* the accounts that exist
    signedIn,   \* those with sessions and API keys
    owning,     \* those with links and memberships
    row,        \* data_deletion_requests: user, status, due
    work        \* per run of the worker: rows to do, the one its transaction holds,
                \* and what that transaction has written so far

vars == <<users, signedIn, owning, row, work>>

NoRow == [user |-> "none", status |-> "none", due |-> FALSE]
Exists(i) == row[i].status \notin {"none", "deleted"}
Stopped == [todo |-> {}, holds |-> {}, written |-> {}, failed |-> {}]
Of(u, status) == {i \in Rows : row[i].user = u /\ row[i].status = status}
Locked == UNION {work[w].holds : w \in Workers}

Init ==
    /\ users = Users /\ signedIn = Users /\ owning = Users
    /\ row = [i \in Rows |-> NoRow]
    /\ work = [w \in Workers |-> Stopped]

\* POST: one request at a time, as far as findFirst sees.  Two presses may both
\* find none, so the look may be stale.
Ask(u, i) ==
    /\ u \in users \cap signedIn /\ row[i] = NoRow
    /\ row' = [row EXCEPT ![i] = [user |-> u, status |-> "pending", due |-> FALSE]]
    /\ UNCHANGED <<users, signedIn, owning, work>>

\* DELETE: every pending request of the user.  It waits for a row that is locked.
Cancel(u) ==
    LET mine == Of(u, "pending") IN
    /\ u \in users \cap signedIn /\ mine # {} /\ mine \cap Locked = {}
    /\ row' = [i \in Rows |-> IF i \in mine THEN [row[i] EXCEPT !.status = "deleted"] ELSE row[i]]
    /\ UNCHANGED <<users, signedIn, owning, work>>

GraceEnds(i) ==
    /\ row[i].status = "pending" /\ ~row[i].due
    /\ row' = [row EXCEPT ![i].due = TRUE]
    /\ UNCHANGED <<users, signedIn, owning, work>>

SignInAndOut(u) ==
    /\ u \in users
    /\ signedIn' = IF u \in signedIn THEN signedIn \ {u} ELSE signedIn \cup {u}
    /\ UNCHANGED <<users, owning, row, work>>

(***************************************************************************)
(* cron/privacy.                                                           *)
(***************************************************************************)
FindDue(w) ==
    LET due == {i \in Rows : row[i].status = "pending" /\ row[i].due} IN
    /\ work[w] = Stopped /\ due # {}
    /\ work' = [work EXCEPT ![w].todo = due]
    /\ UNCHANGED <<users, signedIn, owning, row>>

\* status = processing, by the row's id: it waits for the lock, and fails when the
\* request was cancelled meanwhile.
Open(w) ==
    /\ work[w].holds = {} /\ work[w].failed = {}
    /\ \E i \in work[w].todo \ Locked :
        work' = [work EXCEPT ![w].todo = @ \ {i},
                             ![w].holds = IF Exists(i) THEN {i} ELSE {},
                             ![w].failed = IF Exists(i) THEN {} ELSE {i}]
    /\ UNCHANGED <<users, signedIn, owning, row>>

\* Sessions, keys and tokens, then links and memberships.
Strip(w) ==
    /\ work[w].holds # {} /\ work[w].written # {"access", "property"}
    /\ work' = [work EXCEPT ![w].written = IF @ = {} THEN {"access"} ELSE {"access", "property"}]
    /\ UNCHANGED <<users, signedIn, owning, row>>

\* The user is deleted, which takes their requests along, and the request is marked
\* completed: an update of a row that has to be there, or else nothing is written.
RowsAfterDelete(u) == {i \in Rows : Exists(i) /\ row[i].user # u}
Erase(w) ==
    \E i \in work[w].holds :
        LET u == row[i].user
            completes == i \in RowsAfterDelete(u)
            erased == IF completes THEN {u} ELSE {} IN
        /\ work[w].written = {"access", "property"}
        /\ users' = users \ erased /\ signedIn' = signedIn \ erased /\ owning' = owning \ erased
        /\ row' = IF completes THEN [row EXCEPT ![i].status = "completed"] ELSE row
        /\ work' = [work EXCEPT ![w].holds = {}, ![w].written = {}, ![w].failed = IF completes THEN {} ELSE {i}]

\* The catch: failed, by the row's id, if it is still there.
MarkFailed(w) ==
    /\ work[w].failed \ Locked # {}
    /\ row' = [i \in Rows |-> IF i \in work[w].failed /\ Exists(i) THEN [row[i] EXCEPT !.status = "failed"] ELSE row[i]]
    /\ work' = [work EXCEPT ![w].failed = {}]
    /\ UNCHANGED <<users, signedIn, owning>>

\* The run dies: what its transaction wrote is undone.
Crash(w) ==
    /\ work[w] # Stopped
    /\ work' = [work EXCEPT ![w] = Stopped]
    /\ UNCHANGED <<users, signedIn, owning, row>>

Next ==
    \/ \E u \in Users : Cancel(u) \/ SignInAndOut(u) \/ \E i \in Rows : Ask(u, i)
    \/ \E i \in Rows : GraceEnds(i)
    \/ \E w \in Workers : FindDue(w) \/ Open(w) \/ Strip(w) \/ Erase(w) \/ MarkFailed(w) \/ Crash(w)

Spec == Init /\ [][Next]_vars

(***************************************************************************)
(* A claim the code does not keep.                                         *)
(***************************************************************************)
\* dpa-template.md: an account deletion request enters its grace period and is then
\* processed.  With no fault of the database no request ends as failed.
DueIsProcessed == \A i \in Rows : row[i].status # "failed"

================================================================================
