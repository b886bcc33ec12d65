--------------------------------- MODULE SignIn ---------------------------------
(***************************************************************************)
(* One account: its password, sessions, reset links, second factor and     *)
(* recovery codes. Requests read, and write one statement or transaction   *)
(* at a time; another request may come between any two, and a request may  *)
(* die there. Its owner types passwords and codes that are right.          *)
(***************************************************************************)
EXTENDS Integers, FiniteSets, Bags

CONSTANTS
    Requests, Sessions, Tokens,
    MaxStep,      \* 30 s steps of the authenticator's clock
    MaxSecrets,   \* set-ups of the second factor
    MaxBatches,   \* of recovery codes
    MaxChanges,   \* of the password
    Dies,         \* operations that may be cut off half-way in the instance
    Alone         \* operations during which the instance has no other request

None == -1

VARIABLES
    user,      \* password and TOTP columns: secret, whether enabled, last counter
    recovery,  \* unused recovery codes: the batch each is of
    issued,    \* how many secrets and batches of recovery codes there have been
    session,   \* per session: state, and the password it was opened with
    token,     \* password_reset_tokens: none, live or used
    accepted,  \* history: the bag of second factors accepted
    spared,    \* history: sessions opened by a sign-in that read an older password, or
               \* left by a change that died before it revoked them
    twin,      \* history: a reset link was issued while another was on its way, and none
               \* was retired since
    now, job

vars == <<user, recovery, issued, session, token, accepted, spared, twin, now, job>>

Idle == [op |-> "idle", at |-> "idle"]
NoCode == <<"none", 0, 0>>

Init ==
    /\ user = [pw |-> 0, secret |-> 0, enabled |-> FALSE, counter |-> None]
    /\ recovery = {}
    /\ issued = [secrets |-> 0, batches |-> 0]
    /\ session = [s \in Sessions |-> [state |-> "none", pw |-> 0]]
    /\ token = [t \in Tokens |-> "none"]
    /\ accepted = EmptyBag
    /\ spared = {} /\ twin = FALSE
    /\ now = 0
    /\ job = [r \in Requests |-> Idle]

Live == {s \in Sessions : session[s].state = "live"}
At(r, op, step) == job[r].op = op /\ job[r].at = step
Goto(r, step) == job' = [job EXCEPT ![r].at = step]
Finish(r) == job' = [job EXCEPT ![r] = Idle]
Begin(r, j) ==
    /\ job[r] = Idle
    /\ \A q \in Requests : job[q] # Idle => Alone \cap {j.op, job[q].op} = {}
    /\ job' = [job EXCEPT ![r] = j]

(***************************************************************************)
(* Sign-in, and turning the factor off or renewing its recovery codes, all *)
(* three of which take a second factor.                                    *)
(***************************************************************************)
Login(r) ==
    /\ Begin(r, [op |-> "login", at |-> IF user.enabled THEN "factor" ELSE "act", pw |-> user.pw, code |-> NoCode])
    /\ UNCHANGED <<user, recovery, issued, session, token, accepted, spared, twin, now>>

Manage(r, op) ==
    /\ Live # {} /\ op \in {"disable", "renew"}
    /\ Begin(r, [op |-> op, at |-> "factor", pw |-> user.pw, code |-> NoCode])
    /\ UNCHANGED <<user, recovery, issued, session, token, accepted, spared, twin, now>>

\* verifySecondFactor reads the user; a code is of this step, the last one, or the next
\* one when the authenticator is ahead.
Window == {c \in {now - 1, now, now + 1} : c >= 0}
Present(r, code) == job' = [job EXCEPT ![r].at = "advance", ![r].code = code]
ReadFactor(r) ==
    /\ job[r].at = "factor"
    /\ \/ user.enabled /\ \E c \in Window : c > user.counter /\ Present(r, <<"totp", user.secret, c>>)
       \/ user.enabled /\ \E b \in 1 .. issued.batches : Present(r, <<"recovery", b, 0>>)
       \/ Finish(r)
    /\ UNCHANGED <<user, recovery, issued, session, token, accepted, spared, twin, now>>

\* updateMany: only over a counter that is behind, or an unused recovery code.
TakesAny(code) == TRUE
Takes(code) == IF code[1] = "totp" THEN user.counter < code[3] ELSE code[2] \in recovery
Accept(code) == accepted' = accepted (+) SetToBag({code})

Advance(r) ==
    LET code == job[r].code IN
    /\ job[r].at = "advance" /\ Takes(code)
    /\ user' = IF code[1] = "totp" THEN [user EXCEPT !.counter = code[3]] ELSE user
    /\ recovery' = IF code[1] = "recovery" THEN recovery \ {code[2]} ELSE recovery
    /\ Accept(code) /\ Goto(r, "act")
    /\ UNCHANGED <<issued, session, token, spared, twin, now>>

Refuse(r) ==
    /\ job[r].at = "advance" /\ ~Takes(job[r].code)
    /\ Finish(r)
    /\ UNCHANGED <<user, recovery, issued, session, token, accepted, spared, twin, now>>

OpenSession(r, s) ==
    /\ At(r, "login", "act") /\ session[s].state = "none"
    /\ session' = [session EXCEPT ![s] = [state |-> "live", pw |-> job[r].pw]]
    /\ spared' = IF job[r].pw = user.pw THEN spared ELSE spared \cup {s}
    /\ Finish(r)
    /\ UNCHANGED <<user, recovery, issued, token, accepted, twin, now>>

\* Both are transactions that first delete the codes there are: what another one
\* commits after that is not among them.
DeleteCodes(r) ==
    /\ At(r, "disable", "act") \/ At(r, "renew", "act") \/ At(r, "enable", "codes")
    /\ job' = [job EXCEPT ![r] = [op |-> @.op, at |-> "commit", gone |-> recovery]]
    /\ UNCHANGED <<user, recovery, issued, session, token, accepted, spared, twin, now>>

Disable(r) ==
    /\ At(r, "disable", "commit")
    /\ user' = [user EXCEPT !.secret = 0, !.enabled = FALSE, !.counter = None]
    /\ recovery' = recovery \ job[r].gone
    /\ Finish(r)
    /\ UNCHANGED <<issued, session, token, accepted, spared, twin, now>>

ReplaceCodes(r) ==
    /\ At(r, "renew", "commit") \/ At(r, "enable", "commit")
    /\ issued.batches < MaxBatches
    /\ issued' = [issued EXCEPT !.batches = @ + 1]
    /\ recovery' = (recovery \ job[r].gone) \cup {issued.batches + 1}
    /\ Finish(r)
    /\ UNCHANGED <<user, session, token, accepted, spared, twin, now>>

(***************************************************************************)
(* Setting the second factor up.                                           *)
(***************************************************************************)
Setup(r) ==
    /\ Live # {} /\ ~user.enabled
    /\ Begin(r, [op |-> "setup", at |-> "write"])
    /\ UNCHANGED <<user, recovery, issued, session, token, accepted, spared, twin, now>>

WriteSecret(r) ==
    /\ At(r, "setup", "write") /\ issued.secrets < MaxSecrets
    /\ issued' = [issued EXCEPT !.secrets = @ + 1]
    /\ user' = [user EXCEPT !.secret = issued.secrets + 1, !.enabled = FALSE, !.counter = None]
    /\ Finish(r)
    /\ UNCHANGED <<recovery, session, token, accepted, spared, twin, now>>

Enable(r) ==
    /\ Live # {} /\ user.secret # 0 /\ ~user.enabled
    /\ \E c \in Window : Begin(r, [op |-> "enable", at |-> "write", code |-> <<"totp", user.secret, c>>])
    /\ UNCHANGED <<user, recovery, issued, session, token, accepted, spared, twin, now>>

WriteEnabled(r) ==
    /\ At(r, "enable", "write")
    /\ user' = [user EXCEPT !.enabled = TRUE, !.counter = job[r].code[3]]
    /\ Accept(job[r].code) /\ Goto(r, "codes")
    /\ UNCHANGED <<recovery, issued, session, token, spared, twin, now>>

(***************************************************************************)
(* The password, changed by a session or by a reset link.                  *)
(***************************************************************************)
ChangePassword(r, s) ==
    /\ s \in Live /\ user.pw < MaxChanges
    /\ Begin(r, [op |-> "change", at |-> "write", by |-> s])
    /\ UNCHANGED <<user, recovery, issued, session, token, accepted, spared, twin, now>>

\* The session that asked counts as opened with the new password.
WritePassword(r) ==
    /\ At(r, "change", "write")
    /\ user' = [user EXCEPT !.pw = @ + 1]
    /\ session' = [session EXCEPT ![job[r].by].pw = user.pw + 1]
    /\ spared' = spared \ {job[r].by}
    /\ Goto(r, "revoke")
    /\ UNCHANGED <<recovery, issued, token, accepted, twin, now>>

RevokeOthers(r) ==
    /\ At(r, "change", "revoke")
    /\ session' = [s \in Sessions |-> IF s \in Live \ {job[r].by} THEN [session[s] EXCEPT !.state = "revoked"] ELSE session[s]]
    /\ Finish(r)
    /\ UNCHANGED <<user, recovery, issued, token, accepted, spared, twin, now>>

SignOut(s) ==
    /\ s \in Live /\ session' = [session EXCEPT ![s].state = "revoked"]
    /\ UNCHANGED <<user, recovery, issued, token, accepted, spared, twin, now, job>>

RequestReset(r) ==
    /\ Begin(r, [op |-> "reset", at |-> "retire"])
    /\ UNCHANGED <<user, recovery, issued, session, token, accepted, spared, twin, now>>

RetireTokens(r) ==
    /\ At(r, "reset", "retire")
    /\ token' = [t \in Tokens |-> IF token[t] = "live" THEN "used" ELSE token[t]]
    /\ twin' = FALSE
    /\ Goto(r, "issue")
    /\ UNCHANGED <<user, recovery, issued, session, accepted, spared, now>>

IssueToken(r, t) ==
    /\ At(r, "reset", "issue") /\ token[t] = "none"
    /\ token' = [token EXCEPT ![t] = "live"]
    /\ twin' = (twin \/ \E q \in Requests \ {r} : At(q, "reset", "issue"))
    /\ Finish(r)
    /\ UNCHANGED <<user, recovery, issued, session, accepted, spared, now>>

TokenLapses(t) ==
    /\ token[t] = "live" /\ token' = [token EXCEPT ![t] = "used"]
    /\ UNCHANGED <<user, recovery, issued, session, accepted, spared, twin, now, job>>

Confirm(r, t) ==
    /\ token[t] = "live" /\ user.pw < MaxChanges
    /\ Begin(r, [op |-> "confirm", at |-> "write", on |-> t])
    /\ UNCHANGED <<user, recovery, issued, session, token, accepted, spared, twin, now>>

RevokeNone == UNCHANGED session
RevokeAll == session' = [s \in Sessions |-> IF s \in Live THEN [session[s] EXCEPT !.state = "revoked"] ELSE session[s]]
WriteReset(r) ==
    /\ At(r, "confirm", "write")
    /\ user' = [user EXCEPT !.pw = @ + 1]
    /\ token' = [token EXCEPT ![job[r].on] = "used"]
    /\ RevokeAll /\ Finish(r)
    /\ UNCHANGED <<recovery, issued, accepted, spared, twin, now>>

(***************************************************************************)
(* Time and faults.                                                        *)
(***************************************************************************)
Tick ==
    /\ now < MaxStep /\ now' = now + 1
    /\ UNCHANGED <<user, recovery, issued, session, token, accepted, spared, twin, job>>

Crash(r) ==
    /\ job[r].op \in Dies /\ Finish(r)
    /\ spared' = IF At(r, "change", "revoke") THEN spared \cup {s \in Live : session[s].pw # user.pw} ELSE spared
    /\ UNCHANGED <<user, recovery, issued, session, token, accepted, twin, now>>

Next ==
    \/ \E r \in Requests :
        \/ Login(r) \/ \E op \in {"disable", "renew"} : Manage(r, op)
        \/ ReadFactor(r) \/ Advance(r) \/ Refuse(r)
        \/ DeleteCodes(r) \/ Disable(r) \/ ReplaceCodes(r)
        \/ Setup(r) \/ WriteSecret(r) \/ Enable(r) \/ WriteEnabled(r)
        \/ WritePassword(r) \/ RevokeOthers(r)
        \/ RequestReset(r) \/ RetireTokens(r) \/ WriteReset(r)
        \/ Crash(r)
        \/ \E s \in Sessions : OpenSession(r, s) \/ ChangePassword(r, s)
        \/ \E t \in Tokens : IssueToken(r, t) \/ Confirm(r, t)
    \/ \E s \in Sessions : SignOut(s)
    \/ \E t \in Tokens : TokenLapses(t)
    \/ Tick

Spec == Init /\ [][Next]_vars

(***************************************************************************)
(* Properties.                                                             *)
(***************************************************************************)
TypeOK ==
    /\ user \in [pw : Nat, secret : 0 .. MaxSecrets, enabled : BOOLEAN, counter : None .. MaxStep + 1]
    /\ recovery \subseteq 1 .. issued.batches
    /\ session \in [Sessions -> [state : {"none", "live", "revoked"}, pw : Nat]]
    /\ spared \subseteq Sessions
    /\ token \in [Tokens -> {"none", "live", "used"}]

\* mfa.ts:33 "replay-protected via an atomic counter advance", "single-use":
\* however sign-ins, renewals and switching off overlap and die, no step of an
\* authenticator and no recovery code is accepted twice.
SecondFactorOnce == \A code \in BagToSet(accepted) : accepted[code] = 1

\* account/password/route.ts:12 "so stolen sessions don't survive a credential
\* rotation": however changes, resets and sign-ins overlap, whatever session is left was
\* opened with the password in force, but for those a change is about to revoke, and
\* those a sign-in overtaken by the change opened, or a change that died left behind.
SessionsFollowPassword ==
    /\ TypeOK
    /\ \A s \in Live \ spared : session[s].pw = user.pw \/ \E r \in Requests : At(r, "change", "revoke")

\* auth/reset/route.ts:35 "Invalidate outstanding tokens ... then issue a fresh
\* one": there is one reset link that works, unless two requests for one overlapped,
\* and then again from the next request on.
OneLiveToken == twin \/ Cardinality({t \in Tokens : token[t] = "live"}) <= 1

\* Both: what a newer password or reset link supersedes no longer signs anyone in.
SupersededIsDead == SessionsFollowPassword /\ OneLiveToken

(***************************************************************************)
(* Stronger claims, which the code does not keep.  No run checks them; the  *)
(* README names, for each, the constants under which TLC refutes it.       *)
(***************************************************************************)
\* account/password/route.ts:12, with no exception; route.ts:35, with none.
NoneSpared == \A s \in Live : session[s].pw = user.pw \/ \E r \in Requests : At(r, "change", "revoke")
NeverTwoTokens == Cardinality({t \in Tokens : token[t] = "live"}) <= 1

\* auth/reset/confirm/route.ts:9: the token is single-use.
TokenUsedOnce == [][\A r \in Requests : At(r, "confirm", "write") /\ user'.pw # user.pw /\ job'[r] = Idle
                      => token[job[r].on] = "live"]_vars

\* account/mfa/route.ts:28: set-up leaves an enabled factor alone.
SetupSparesEnabled == [][\A r \in Requests : At(r, "setup", "write") /\ user'.secret # user.secret => ~user.enabled]_vars
================================================================================
