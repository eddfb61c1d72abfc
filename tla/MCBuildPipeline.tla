--------------------------- MODULE MCBuildPipeline ---------------------------
(***************************************************************************)
(* BuildPipeline instantiated for TLC: which page each story is on.        *)
(***************************************************************************)
EXTENDS BuildPipeline

\* All stories share one page: one capture group renders them in turn.
OnePage == [s \in Stories |-> CHOOSE p \in Pages : TRUE]

\* Each story has a page of its own: capture groups run side by side.
OwnPages == CHOOSE f \in [Stories -> Pages] : \A a, b \in Stories : f[a] = f[b] => a = b
=============================================================================
