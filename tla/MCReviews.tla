----------------------------- MODULE MCReviews -----------------------------
(* Instances of Reviews for TLC. *)
EXTENDS Reviews, TLC

CONSTANTS s1, s2, r1, r2

Interchangeable == Permutations({s1, s2}) \cup Permutations({r1, r2})
=============================================================================
