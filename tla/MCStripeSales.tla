---------------------------- MODULE MCStripeSales ----------------------------
(* Instances of StripeSales for TLC. *)
EXTENDS StripeSales, TLC

CONSTANTS p1, f1, f2, q1, q2

mcAmount == [p \in Purchases \cup Renewals |-> IF p = p1 THEN 8 ELSE 2]
mcRefundOf == [f \in Refunds |-> p1]
mcTotal == [f \in Refunds |-> IF f = f1 THEN 2 ELSE 7]
mcCheckoutTokens == {<<"checkout", p1>>}
RequestSymmetry == Permutations(Requests)
=============================================================================
