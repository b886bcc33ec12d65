------------------------- MODULE MCDomainProvisioning -------------------------
(* Instances of DomainProvisioning for TLC. *)
EXTENDS DomainProvisioning, TLC

CONSTANTS d1, q1, r1
=============================================================================
