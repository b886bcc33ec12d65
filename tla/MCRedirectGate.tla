---------------------------- MODULE MCRedirectGate ----------------------------
(* Instances of RedirectGate for TLC. *)
EXTENDS RedirectGate, TLC

CONSTANTS q1, q2, q3, e1, e2

mcCaps == {None, 1}
mcLifetimes == {None, 1}

VisitSymmetry == Permutations({q1, q2})

-----------------------------------------------------------------------------
(***************************************************************************)
(* Stronger claims, which the code does not keep.  No run checks them; the  *)
(* README names, for each, the constants under which TLC refutes it.       *)
(***************************************************************************)
\* docs/link-lifetime.md:3 "The countdown starts at the first human click": a
\* clock that runs was started by a visit that was not refused.
ClockStartedByAClick ==
    row.startedAt # None =>
        \E r \in Requests : NeedsClock(r) /\ pc[r] \notin {"refused", "failed"}

\* route.ts:162-163 "hard admission controls": units of the cap are used up by
\* visits that were redirected.
NoUnitWasted == \A r \in Requests : slot[r] # "lost" /\ unit[r] # "lost"

\* route.ts:167-169 a shared link "cannot die before any human arrives", of the
\* visits the gate let through: the link is closed by its cap only after as many
\* visits went through on it.
ClosedByItsCap ==
    ~row.active /\ edits = 0 => Cardinality({r \in Through : slot[r] # "none"}) >= row.maxClicks

\* route.ts:219-221 the click of every redirect is recorded in the background.
RedirectsRecorded == \A r \in Requests : pc[r] # "unrecorded"

\* route.ts (links) 228-229 "re-saving the same value must not extend a running
\* countdown": the clock only goes back when the lifetime changes with it.
ClockOnlyRearmed ==
    [][row.startedAt # None /\ row'.startedAt # row.startedAt
        => row'.lifetime # row.lifetime]_row
===============================================================================
