------------------------------ MODULE MCAsgCache ------------------------------
(* Instances of AsgCache for TLC. *)
EXTENDS AsgCache, TLC

CONSTANTS i1, i2

InstanceSymmetry == Permutations({i1, i2})
=============================================================================
