------------------------------ MODULE MCBranch ------------------------------
(* Instances of Branch for TLC. *)
EXTENDS Branch, TLC

CONSTANTS u1, u2, r1

Interchangeable == Permutations({u1, u2})
=============================================================================
