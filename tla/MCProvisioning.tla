--------------------------- MODULE MCProvisioning ---------------------------
(* Small instances of Provisioning.                                        *)
EXTENDS Provisioning, TLC

CONSTANTS p1, p2, k1, k2

PvSymmetry == Permutations(Passwords) \cup Permutations(HostKeys)
=============================================================================
