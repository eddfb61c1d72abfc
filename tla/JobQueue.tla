------------------------------ MODULE JobQueue ------------------------------
(***************************************************************************)
(* One BullMQ job as the producers and workers of packages/queue and       *)
(* apps/worker use it: a record in Redis under a job id.  BullMQ itself is *)
(* a library outside the repository; these operators say what the          *)
(* repository relies on.                                                   *)
(*                                                                         *)
(*  - Adding a job under an id that exists does nothing, whatever state    *)
(*    the existing job is in.                                              *)
(*  - A handler that throws puts its job back to wait until its attempts   *)
(*    are used up; the `failed` handler then runs.                         *)
(*  - A worker that dies leaves an active job that is found stalled and    *)
(*    waits again, at most MaxStalled times; a job that stalls once more   *)
(*    is failed without an attempt of its own, and the final-attempt guard *)
(*    keeps the `failed` handler from running.                             *)
(*  - Removing an active job is refused: its worker holds the lock.        *)
(*                                                                         *)
(* "waiting" stands for every BullMQ state a worker can still take the     *)
(* job from: waiting, delayed, prioritized and paused.                     *)
(***************************************************************************)
EXTENDS Naturals

CONSTANTS Attempts,   \* attempts of a job (3 in JOB_OPTIONS)
          MaxStalled  \* times a job may be found stalled (BullMQ's default: 1)

ASSUME AttemptsAssumption == Attempts \in Nat \ {0}
ASSUME MaxStalledAssumption == MaxStalled \in Nat

JobState == {"none", "waiting", "active", "completed", "failed"}

Job == [st : JobState, tries : 0..Attempts, stalls : 0..MaxStalled]

NoJob == [st |-> "none", tries |-> 0, stalls |-> 0]

AddJob(j) == IF j.st = "none" THEN [NoJob EXCEPT !.st = "waiting"] ELSE j

StartJob(j) == [j EXCEPT !.st = "active"]

\* Completed jobs are retained, so their ids stay taken.
CompleteJob(j) == [j EXCEPT !.st = "completed"]

\* job.remove() succeeds in any state but active; removeJob swallows the refusal.
RemoveJob(j) == IF j.st = "active" THEN j ELSE NoJob

\* getJobs(["waiting", "delayed", "prioritized", "paused"]) then remove.
RemoveWaitingJob(j) == IF j.st = "waiting" THEN NoJob ELSE j

\* isFinalAttempt, as it reads once the attempt that is running has failed.
IsFinalAttempt(j) == j.tries + 1 >= Attempts

ThrowJob(j) == IF IsFinalAttempt(j) THEN [j EXCEPT !.st = "failed", !.tries = Attempts]
               ELSE [j EXCEPT !.st = "waiting", !.tries = @ + 1]

StallJob(j) == IF j.stalls < MaxStalled
               THEN [j EXCEPT !.st = "waiting", !.stalls = @ + 1]
               ELSE [j EXCEPT !.st = "failed"]

\* Mutant: any job that is still in Redis counts, the retained ones too.
IsKnownJob(j) == j.st # "none"

IsLiveJob(j) == j.st \in {"waiting", "active"}
=============================================================================
