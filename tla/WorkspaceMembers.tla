--------------------------- MODULE WorkspaceMembers ---------------------------
(***************************************************************************)
(* Who belongs to one workspace and as what: the members routes, the       *)
(* invitations, the identity provider's SCIM calls and SAML sign-ins, and  *)
(* the grants on a restricted folder.                                      *)
(*                                                                         *)
(* A request checks in one step and writes in a later one, by the ids it   *)
(* has read, and requests run side by side; the audit events are left out. *)
(***************************************************************************)
EXTENDS Integers, FiniteSets

CONSTANTS
    Users, Requests,
    Invitable,  \* users an administrator invites
    Managed,    \* users the identity provider provisions
    MaxJoins    \* memberships an instance creates

None == "none"

\* "member" stands for editor, analyst and viewer.
Roles == {"owner", "admin", "member"}
ADMIN_ROLES == {"owner", "admin"}

VARIABLES
    role,      \* workspace_memberships: each user's role, or None
    seat,      \* the id of the membership: how many the user has had
    grants,    \* folder_access of a restricted folder
    invite,    \* workspace_invites, by email: state and role
    identity,  \* scim_identities: none, active or inactive
    crossed,   \* the ownership was handed over while someone else was at it
    late,      \* who left while a list of grants with his name was on its way
    job

vars == <<role, seat, grants, invite, identity, crossed, late, job>>
History == <<crossed, late>>

Members == {u \in Users : role[u] # None}
Owners == {u \in Users : role[u] = "owner"}
Idle == [op |-> "idle"]

Init ==
    /\ \E o \in Users : role = [u \in Users |-> IF u = o THEN "owner" ELSE None]
    /\ seat = [u \in Users |-> IF role[u] = None THEN 0 ELSE 1]
    /\ grants = {}
    /\ invite = [u \in Users |-> [state |-> None, role |-> "member"]]
    /\ identity = [u \in Users |-> None]
    /\ crossed = FALSE /\ late = {}
    /\ job = [r \in Requests |-> Idle]

Joined == LET total[S \in SUBSET Users] ==
                  IF S = {} THEN 0 ELSE LET u == CHOOSE x \in S : TRUE IN seat[u] + total[S \ {u}]
          IN total[Users] - 1
MayJoin(u) == role[u] # None \/ Joined < MaxJoins

Begin(r, request) ==
    /\ job[r] = Idle
    /\ job' = [job EXCEPT ![r] = request]
    /\ UNCHANGED History
Finish(r) == job' = [job EXCEPT ![r] = Idle]

\* The membership the request read is still there: it may be gone, or another one.
SameSeat(u, n) == role[u] # None /\ seat[u] = n

(***************************************************************************)
(* The members routes.                                                     *)
(***************************************************************************)
ChangeRole(r, a, u, new) ==
    /\ role[a] \in ADMIN_ROLES
    /\ ~(u = a /\ new # "owner" /\ role[a] = "owner")
    /\ role[u] # None
    /\ "owner" \in {role[u], new} => role[a] = "owner"
    /\ Begin(r, [op |-> "role", by |-> a, on |-> u, role |-> new, bySeat |-> seat[a], seat |-> seat[u]])
    /\ UNCHANGED <<role, seat, grants, invite, identity>>

\* One transaction: the target's role, and the former owner's after a transfer.
Transfers(r) == job[r].op = "role" /\ job[r].role = "owner"
KeptByBoth(j) == [role EXCEPT ![j.on] = j.role]
NewRoles(j) == IF j.role = "owner" THEN [role EXCEPT ![j.on] = "owner", ![j.by] = "admin"]
               ELSE [role EXCEPT ![j.on] = j.role]
WriteRole(r) ==
    LET j == job[r] IN
    /\ j.op = "role"
    /\ role' = IF SameSeat(j.on, j.seat) /\ (j.role = "owner" => SameSeat(j.by, j.bySeat))
               THEN NewRoles(j) ELSE role
    /\ crossed' = (crossed \/ (Transfers(r) /\ \E q \in Requests \ {r} : Transfers(q)))
    /\ Finish(r) /\ UNCHANGED <<seat, grants, invite, identity, late>>

\* Leaving, when the member removes himself.
Remove(r, a, u) ==
    /\ role[a] # None /\ (u # a => role[a] \in ADMIN_ROLES)
    /\ role[u] \notin {None, "owner"}
    /\ Begin(r, [op |-> "remove", on |-> u, seat |-> seat[u]])
    /\ UNCHANGED <<role, seat, grants, invite, identity>>

Without(u) ==
    /\ role' = [role EXCEPT ![u] = None] /\ grants' = grants \ {u}
    /\ late' = late \cup {v \in {u} : \E q \in Requests : job[q].op = "grant" /\ v \in job[q].to}
WriteRemove(r) ==
    LET j == job[r] IN
    /\ j.op = "remove"
    /\ IF SameSeat(j.on, j.seat) THEN Without(j.on) ELSE UNCHANGED <<role, grants, late>>
    /\ Finish(r) /\ UNCHANGED <<seat, invite, identity, crossed>>

(***************************************************************************)
(* Invitations: one per email, which a new one replaces.                   *)
(***************************************************************************)
Invite(r, a, u, as) ==
    /\ u \in Invitable /\ role[a] \in ADMIN_ROLES /\ as \in {"admin", "member"}
    /\ as = "admin" => role[a] = "owner"
    /\ role[u] = None
    /\ Begin(r, [op |-> "invite", on |-> u, role |-> as])
    /\ UNCHANGED <<role, seat, grants, invite, identity>>

WriteInvite(r) ==
    LET j == job[r] IN
    /\ j.op = "invite"
    /\ invite' = [invite EXCEPT ![j.on] = [state |-> "pending", role |-> j.role]]
    /\ Finish(r) /\ UNCHANGED <<role, seat, grants, identity, History>>

RevokeInvite(a, u) ==
    /\ role[a] \in ADMIN_ROLES /\ invite[u].state = "pending"
    /\ invite' = [invite EXCEPT ![u].state = "revoked"]
    /\ UNCHANGED <<role, seat, grants, identity, History, job>>

Accept(r, u) ==
    /\ invite[u].state = "pending"
    /\ Begin(r, [op |-> "accept", on |-> u, role |-> invite[u].role])
    /\ UNCHANGED <<role, seat, grants, invite, identity>>

Seat(u, as) == seat' = IF role[u] = None THEN [seat EXCEPT ![u] = @ + 1] ELSE seat
WriteAccept(r) ==
    LET j == job[r] IN
    /\ j.op = "accept" /\ MayJoin(j.on)
    /\ role' = [role EXCEPT ![j.on] = j.role] /\ Seat(j.on, j.role)
    /\ invite' = [invite EXCEPT ![j.on].state = "accepted"]
    /\ Finish(r) /\ UNCHANGED <<grants, identity, History>>

(***************************************************************************)
(* The identity provider.                                                  *)
(***************************************************************************)
\* upsert with an empty update: whoever is a member already keeps the role.
Provision(u) ==
    /\ MayJoin(u)
    /\ role' = [role EXCEPT ![u] = IF @ = None THEN "member" ELSE @] /\ Seat(u, "member")

SamlLogin(u) ==
    /\ Provision(u) /\ UNCHANGED <<grants, invite, identity, History, job>>

\* The membership first, the identity second; one that exists is a 409.
ScimCreate(r, u) ==
    /\ u \in Managed
    /\ Begin(r, [op |-> "scim", on |-> u])
    /\ Provision(u)
    /\ UNCHANGED <<grants, invite, identity>>

WriteIdentity(r, state) ==
    LET u == job[r].on IN
    /\ job[r].op = "scim"
    /\ identity' = IF identity[u] = None THEN [identity EXCEPT ![u] = state] ELSE identity
    /\ Finish(r) /\ UNCHANGED <<role, seat, grants, invite, History>>

ScimPatch(u, state) ==
    /\ identity[u] # None /\ identity' = [identity EXCEPT ![u] = state]
    /\ UNCHANGED <<role, seat, grants, invite, History, job>>

ScimDelete(u) ==
    /\ identity[u] # None /\ identity' = [identity EXCEPT ![u] = "inactive"]
    /\ Without(u)
    /\ UNCHANGED <<seat, invite, crossed, job>>

(***************************************************************************)
(* PATCH of a folder replaces its whole list of grants.                    *)
(***************************************************************************)
Grant(r, a, S) ==
    /\ role[a] \in ADMIN_ROLES /\ S \subseteq Members
    /\ Begin(r, [op |-> "grant", to |-> S])
    /\ UNCHANGED <<role, seat, grants, invite, identity>>

WriteGrant(r) ==
    /\ job[r].op = "grant"
    /\ grants' = job[r].to
    /\ Finish(r) /\ UNCHANGED <<role, seat, invite, identity, History>>

Next ==
    \/ \E r \in Requests, a, u \in Users :
        \/ \E new \in Roles : ChangeRole(r, a, u, new) \/ Invite(r, a, u, new)
        \/ Remove(r, a, u)
    \/ \E r \in Requests, a \in Users, S \in SUBSET Users : Grant(r, a, S)
    \/ \E r \in Requests :
        WriteRole(r) \/ WriteRemove(r) \/ WriteInvite(r) \/ WriteAccept(r) \/ WriteGrant(r)
    \/ \E r \in Requests, u \in Users : Accept(r, u) \/ ScimCreate(r, u)
    \/ \E r \in Requests, state \in {"active", "inactive"} : WriteIdentity(r, state)
    \/ \E a, u \in Users : RevokeInvite(a, u)
    \/ \E u \in Users : SamlLogin(u) \/ ScimDelete(u) \/ \E state \in {"active", "inactive"} : ScimPatch(u, state)

Spec == Init /\ [][Next]_vars

(***************************************************************************)
(* Properties.                                                             *)
(***************************************************************************)
TypeOK ==
    /\ role \in [Users -> Roles \cup {None}] /\ grants \subseteq Users
    /\ seat \in [Users -> Nat]
    /\ invite \in [Users -> [state : {None, "pending", "revoked", "accepted"}, role : {"admin", "member"}]]
    /\ identity \in [Users -> {None, "active", "inactive"}]

\* members/route.ts:28: an ownership transfer must "never leave two owners
\* behind"; whatever overlaps, unless two transfers do.
NeverTwoOwners == crossed \/ Cardinality(Owners) <= 1

\* members/route.ts:60: the grants go with the membership, whoever ends it, "so
\* they don't silently return if the person is re-invited"; whatever overlaps,
\* save for who leaves under a list of grants that is on its way.
GrantsBelongToMembers == grants \ late \subseteq Members

\* What the handlers of memberships, invites and SCIM keep between them.
MembershipsSound == TypeOK /\ NeverTwoOwners /\ GrantsBelongToMembers

(***************************************************************************)
(* Stronger claims, which the code does not keep.  No run checks them; the  *)
(* README names, for each, the constants under which TLC refutes it.       *)
(***************************************************************************)
\* members/route.ts:40: "Owners cannot be removed — transfer ownership first";
\* the workspace always has its one owner, and a transfer "never leave[s] two
\* owners behind" (28).
AlwaysOneOwner == Cardinality(Owners) >= 1
NeverTwo == Cardinality(Owners) <= 1

\* members/route.ts:60: no grant returns with who is invited again.
GrantsNeverReturn == grants \subseteq Members

\* scim/[workspaceId]/[userId]/route.ts:77: a deprovisioned user has no access
\* until someone invites or provisions him again.
RefusedStaysOut == [][\A r \in Requests : job[r].op = "scim" /\ job'[r] = Idle /\ identity[job[r].on] # None
                        => identity[job[r].on] = "active" \/ role[job[r].on] = None]_vars
InactiveIsOut == \A u \in Users : identity[u] = "inactive" => role[u] = None

\* invites/route.ts:67 "revoke a pending invite": it admits nobody afterwards.
RevokedAdmitsNobody == [][\A u \in Users : invite[u].state = "revoked" => invite'[u].state # "accepted"]_vars

\* An invitation accepted late does not take the owner's role.
AcceptKeepsOwner == [][\A r \in Requests : job[r].op = "accept" /\ job'[r] = Idle
                         => role[job[r].on] # "owner"]_vars
================================================================================
