-------------------------- MODULE MCAccountDeletion ---------------------------
(* Instances of AccountDeletion for TLC. *)
EXTENDS AccountDeletion, TLC

CONSTANTS u1, u2, i1, i2, k1, k2

DeletionSymmetry == Permutations(Users) \cup Permutations(Rows) \cup Permutations(Workers)

================================================================================
