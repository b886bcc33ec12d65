------------------------------ MODULE ClickQuota ------------------------------
(***************************************************************************)
(* What click admission promises to the redirect (click-admission.ts 1-24): *)
(* a click is admitted on a unit of its month only while fewer units than  *)
(* the largest limit so far are out, and a unit that has been handed back  *)
(* may be admitted on again.  How units are leased, cached and released is *)
(* left to ClickAdmission, which implements this; RedirectGate uses it.    *)
(***************************************************************************)
EXTENDS Naturals, FiniteSets

CONSTANTS
    Requests,
    Months

VARIABLES
    unit,      \* per request: what became of its unit
    unitOf,    \* per request: the month the unit belongs to
    ceiling    \* the largest limit in force so far

quotaVars == <<unit, unitOf, ceiling>>

\* Units of month p that were admitted on and not handed back.
Out(p) == {r \in Requests : unit[r] \in {"held", "spent", "lost"} /\ unitOf[r] = p}
Spent(p) == {r \in Requests : unit[r] = "spent" /\ unitOf[r] = p}

Init ==
    /\ unit = [r \in Requests |-> "none"]
    /\ unitOf = [r \in Requests |-> 0]
    /\ ceiling \in Nat

Admit(r, p) ==
    /\ unit[r] = "none"
    /\ Cardinality(Out(p)) < ceiling
    /\ unit' = [unit EXCEPT ![r] = "held"]
    /\ unitOf' = [unitOf EXCEPT ![r] = p]
    /\ UNCHANGED ceiling

\* The click goes through on its unit.
Spend(r) ==
    /\ unit[r] = "held"
    /\ unit' = [unit EXCEPT ![r] = "spent"]
    /\ UNCHANGED <<unitOf, ceiling>>

Return(r) ==
    /\ unit[r] = "held"
    /\ unit' = [unit EXCEPT ![r] = "back"]
    /\ UNCHANGED <<unitOf, ceiling>>

\* The process dies or gives up with units in its hands.
Lose(S) ==
    /\ S # {} /\ \A r \in S : unit[r] = "held"
    /\ unit' = [r \in Requests |-> IF r \in S THEN "lost" ELSE unit[r]]
    /\ UNCHANGED <<unitOf, ceiling>>

Raise ==
    /\ ceiling' \in Nat /\ ceiling' > ceiling
    /\ UNCHANGED <<unit, unitOf>>

\* Every step but Raise moves a unit; saying so first spares the checker the rest.
Next ==
    \/ /\ unit' # unit
       /\ \/ \E r \in Requests : (\E p \in Months : Admit(r, p)) \/ Spend(r) \/ Return(r)
          \/ \E S \in SUBSET Requests : Lose(S)
    \/ Raise

Spec == Init /\ [][Next]_quotaVars

\* click-admission.ts:15 "Never over-admits": no month sees more clicks on its
\* quota than the largest limit in force.
NeverOverAdmits == \A p \in Months : Cardinality(Spent(p)) <= ceiling
===============================================================================
