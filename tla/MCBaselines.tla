----------------------------- MODULE MCBaselines -----------------------------
(***************************************************************************)
(* Baselines instantiated for TLC: the first build holds the baseline of   *)
(* another target, so the purge has to go round it.                        *)
(***************************************************************************)
EXTENDS Baselines, TLC

FirstBuild == {1}

\* No image differs from another but by its name.
ImageSymmetry == Permutations(Images)
=============================================================================
