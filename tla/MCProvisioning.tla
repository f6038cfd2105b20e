--------------------------- MODULE MCProvisioning ---------------------------
(* Instances of Provisioning for TLC: requests are interchangeable.        *)
EXTENDS Provisioning, TLC

CONSTANTS r1, r2

Symmetry == Permutations({r1, r2})
=============================================================================
