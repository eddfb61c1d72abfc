---------------------------- MODULE BuildLifecycle ----------------------------
(***************************************************************************)
(* What a build promises to everyone who watches its status, whichever of  *)
(* the pipeline's handlers, web calls and the reaper moves it: it starts   *)
(* processing once, settles, may be rebuilt after that, and stays canceled.*)
(* Votes are none of these, and may break it.                              *)
(*                                                                         *)
(* BuildPipeline implements it; in StatusPublish it is what all but votes  *)
(* and finalizations do to a build.                                        *)
(***************************************************************************)
VARIABLE status     \* builds.processingStatus

InProgress == {"queued", "processing"}
Settled == {"success", "error"}

Init == status = "queued"

\* startProcessing
Start == status = "queued" /\ status' = "processing"

\* finalizeBuild, failBuild and the reaper: a verdict may replace an earlier one.
Settle == status # "canceled" /\ status' \in Settled

\* markCanceled: only a build in progress is canceled.
Cancel == status \in InProgress /\ status' = "canceled"

\* rebuildSnapshots
Requeue == status \in Settled /\ status' = "queued"

Next == Start \/ Settle \/ Cancel \/ Requeue

\* Somebody ends every build: its jobs, a person, or the reaper.
Fairness == WF_status((Settle \/ Cancel) /\ status \in InProgress)

Safety == Init /\ [][Next]_status
Spec == Safety /\ Fairness
=============================================================================
