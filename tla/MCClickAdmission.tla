--------------------------- MODULE MCClickAdmission ---------------------------
(* Instances of ClickAdmission for TLC. *)
EXTENDS ClickAdmission, TLC

CONSTANTS i1, i2, q1, q2, q3

mcHome == [r \in Requests |-> IF r = q3 THEN i2 ELSE i1]
mcAtOne == [r \in Requests |-> i1]
mcTwoOrNone == {2, NoQuota}
mcTwo == {2}

RequestSymmetry == Permutations(Requests \ {q3})

-----------------------------------------------------------------------------
(***************************************************************************)
(* Stronger claims, which the code does not keep.  No run checks them; the  *)
(* README names, for each, the constants under which TLC refutes it.       *)
(***************************************************************************)
\* click-admission.ts:71 "The release rolled back with the transaction: keep
\* owning those units": what anyone holds is reserved in the bucket.
HeldIsReserved == \A p \in Months : Held(p) <= bucket[p]

\* click-admission.ts:22 "A crashed instance can strand at most one lease
\* (<= 25 units)": what the lease map and the acquisition hold.
StrandsOneLease ==
    \A i \in Instances : \A p \in Months : InMemory(i, p) <= MaxGrant
=============================================================================
