---------------------------- MODULE StatusPublish ----------------------------
(***************************************************************************)
(* The commit status of one build: who changes the build calls             *)
(* publishStatus next, the calls collapse into one deduplicated job, and   *)
(* the job reads the build and sends what it read to the git provider.     *)
(* The last status of the build has to be the one that stays.              *)
(*                                                                         *)
(* A finalization and a vote write a result they have computed from a read *)
(* of the build, however old it is by then; a finalization publishes only  *)
(* what differs from the build it read.  The other callers move the build  *)
(* as BuildLifecycle says.                                                 *)
(***************************************************************************)
EXTENDS Naturals

CONSTANTS
  Verdicts,           \* review statuses the build's diffs can come to
  Attempts,           \* JOB_OPTIONS[GIT_STATUS_PUBLISH].attempts
  MaxChanges,         \* bound: changes of the build
  MaxFaults           \* bound: requests that fail, processes that die, calls that are lost

ASSUME AttemptsAssumption == Attempts \in Nat \ {0}
ASSUME BoundsAssumption == MaxChanges \in Nat /\ MaxFaults \in Nat

VARIABLES
  processing, review, \* builds.processingStatus and reviewStatus
  seen,               \* what finalizations and votes under way may have read of the build
  owed,               \* writers that have changed the build and not yet queued a publish
  job,                \* the publish job of the build, and whether it was asked for again
  sender,             \* the handler: what it read and is about to send
  strays,             \* requests given up by their sender that may still arrive
  shown,              \* the commit status the provider has
  lost,               \* nothing is left that would correct the status: a publish was lost, or
                      \* a finalization wrote what it had read over a newer status
  changes, faults

buildVars == <<processing, review, seen>>
publishVars == <<job, sender>>
statusVars == <<processing, review, seen, owed, job, sender, strays, shown, lost, changes, faults>>

Life == INSTANCE BuildLifecycle WITH status <- processing

ReviewStatus == {"not_required", "unchanged", "auto_approved", "needs_review", "approved", "rejected"}

ASSUME VerdictsAssumption == Verdicts \subseteq ReviewStatus

\* The statuses mapBuildStatus can return: a state of the commit and its description.
Passed == {"no visual changes", "changes within threshold", "visual changes approved"}
Failed == {"visual changes need review", "visual changes rejected", "build canceled"}
MappedStatus ==
  ({"success"} \X Passed) \cup ({"failure"} \X Failed)
    \cup {<<"pending", "analyzing visual changes">>, <<"error", "build failed to process">>}

Nothing == <<"none", "">>

StatusTypeOK ==
  /\ processing \in Life!InProgress \cup Life!Settled \cup {"canceled"}
  /\ review \in ReviewStatus
  /\ seen \subseteq (Life!InProgress \cup Life!Settled) \X ReviewStatus
  /\ owed \in Nat
  /\ job \in [st : {"none", "waiting", "active"}, tries : Nat, next : BOOLEAN]
  /\ sender \in [pc : {"idle", "read", "send"}, status : MappedStatus \cup {Nothing}]
  /\ strays \subseteq MappedStatus
  /\ shown \in MappedStatus \cup {Nothing}
  /\ lost \in BOOLEAN
  /\ changes \in 0..MaxChanges /\ faults \in 0..MaxFaults

NoJob == [st |-> "none", tries |-> 0, next |-> FALSE]
NewJob == [NoJob EXCEPT !.st = "waiting"]
IdleSender == [pc |-> "idle", status |-> Nothing]

\* createBuild, which publishes the status of a build just queued
StatusInit ==
  /\ processing = "queued" /\ review = "not_required"
  /\ seen = {<<processing, review>>}
  /\ owed = 1
  /\ job = NoJob
  /\ sender = IdleSender
  /\ strays = {} /\ shown = Nothing /\ lost = FALSE
  /\ changes = 0 /\ faults = 0

-----------------------------------------------------------------------------
ReviewMapped ==
  CASE review = "needs_review" -> <<"failure", "visual changes need review">>
    [] review = "rejected" -> <<"failure", "visual changes rejected">>
    [] review = "approved" -> <<"success", "visual changes approved">>
    [] review = "auto_approved" -> <<"success", "changes within threshold">>
    [] OTHER -> <<"success", "no visual changes">>

\* mapBuildStatus
BuildMapped ==
  CASE processing \in Life!InProgress -> <<"pending", "analyzing visual changes">>
    [] processing = "error" -> <<"error", "build failed to process">>
    [] processing = "canceled" -> <<"failure", "build canceled">>
    [] OTHER -> ReviewMapped

\* Something else is left that will read the build.
StillPublishing == owed > 0 \/ job.next

\* Somebody is still to read the build and send what it reads.
StillRead == StillPublishing \/ job.st = "waiting" \/ sender.pc = "read"

\* finalizeBuild and updateBuildReviewStatus return when they read a canceled build; any of
\* them that is under way may have read the build as it is from now on.
Read == seen' = seen \cup (IF processing' = "canceled" THEN {} ELSE {<<processing', review'>>})

Changed == changes < MaxChanges /\ changes' = changes + 1

\* failBuild, a cancellation, a rebuild, startProcessing and the reaper: the caller publishes
\* next, whether its write hit the row or not.  A rebuild may have read the build before
\* another one queued it; one that cannot queue its jobs writes twice before it publishes.
BuildChanges ==
  /\ Changed
  /\ \/ UNCHANGED processing
     \/ Life!Next
     \/ (processing \in Life!InProgress /\ processing' = "queued")
  /\ UNCHANGED review
  /\ Read
  /\ owed' = owed + 1 \/ (owed > 0 /\ owed' = owed)
  /\ UNCHANGED <<publishVars, strays, shown, lost, faults>>

\* updateResult, guarded against a canceled build only, by a call that has read `read`.  What
\* is the same as that is not published, although the build may have changed since; such a
\* change is lost unless somebody is to read the build anyhow.
ResultWritten(read, result) ==
  /\ Changed
  /\ IF processing = "canceled"
     THEN UNCHANGED <<processing, review>>
     ELSE processing' = result[1] /\ review' = result[2]
  /\ Read
  /\ IF result # read
     THEN owed' = owed + 1 /\ UNCHANGED lost
     ELSE UNCHANGED owed /\ lost' = (lost \/ (BuildMapped' # BuildMapped /\ ~StillRead))
  /\ UNCHANGED <<publishVars, strays, shown, faults>>

\* finalizeBuild, whatever diffs it finds
Finalized == \E read \in seen, result \in Life!Settled \X Verdicts : ResultWritten(read, result)

\* updateBuildReviewStatus writes the processing status it has read beside another review.
Voted ==
  \E read \in seen : \E r \in Verdicts \ {read[2]} : ResultWritten(read, <<read[1], r>>)

\* Mutant: deduplication without keepLastIfActive: a running job absorbs the call.
AbsorbedJob == IF job.st = "none" THEN NewJob ELSE job

\* A job with the build's deduplication id absorbs the call while it waits for its turn or
\* for a retry; one that is running is queued once more when it ends (keepLastIfActive).
PublishedJob ==
  CASE job.st = "none" -> NewJob
    [] job.st = "waiting" -> job
    [] job.st = "active" -> [job EXCEPT !.next = TRUE]

\* publishStatus
Publish ==
  /\ owed > 0
  /\ owed' = owed - 1
  /\ job' = PublishedJob
  /\ UNCHANGED <<buildVars, sender, strays, shown, lost, changes, faults>>

\* Mutant: the publish asked for while the job ran is dropped with it.
ForgottenJob == NoJob

\* BullMQ removes a job that completed or failed for good and adds the one that was asked
\* for meanwhile.
EndedJob == IF job.next THEN NewJob ELSE NoJob

PublishRun ==
  /\ job.st = "waiting"
  /\ job' = [job EXCEPT !.st = "active"]
  /\ sender' = [sender EXCEPT !.pc = "read"]
  /\ UNCHANGED <<buildVars, owed, strays, shown, lost, changes, faults>>

\* publishBuildStatus reads the build, which makes up for what was lost before.
PublishRead ==
  /\ sender.pc = "read"
  /\ sender' = [pc |-> "send", status |-> BuildMapped]
  /\ lost' = FALSE
  /\ UNCHANGED <<buildVars, owed, job, strays, shown, changes, faults>>

\* The provider answers that it has the status.
PublishSent ==
  /\ sender.pc = "send"
  /\ shown' = sender.status
  /\ sender' = IdleSender
  /\ job' = EndedJob
  /\ lost' = (lost /\ sender.status # BuildMapped)
  /\ UNCHANGED <<buildVars, owed, strays, changes, faults>>

Faulted == faults < MaxFaults /\ faults' = faults + 1

\* Redis does not answer, which is only logged, or the process dies after it changed the
\* build.  A retried handler does not make up for it: finalizeBuild and
\* updateBuildReviewStatus publish only what they change.
PublishLost ==
  /\ owed > 0 /\ Faulted
  /\ owed' = owed - 1
  /\ lost' = TRUE
  /\ UNCHANGED <<buildVars, publishVars, strays, shown, changes>>

\* No answer, or one worth a retry: the job throws.  The request may still arrive.
PublishThrows ==
  /\ sender.pc = "send" /\ Faulted
  /\ strays' \in {strays, strays \cup {sender.status}}
  /\ sender' = IdleSender
  /\ IF job.tries + 1 < Attempts
     THEN /\ job' = [job EXCEPT !.st = "waiting", !.tries = @ + 1]
          /\ UNCHANGED lost
     ELSE /\ job' = EndedJob
          /\ lost' = (lost \/ ~StillPublishing)
  /\ UNCHANGED <<buildVars, owed, shown, changes>>

\* The integration is missing or disabled, its token cannot be read, or the provider refuses
\* the request for good: the job completes without a status.
PublishGivesUp ==
  /\ sender.pc \in {"read", "send"} /\ Faulted
  /\ sender' = IdleSender
  /\ job' = EndedJob
  /\ lost' = (lost \/ ~StillPublishing)
  /\ UNCHANGED <<buildVars, owed, strays, shown, changes>>

\* The worker dies, or is too slow to keep the job: another one takes the job, and the
\* request may still arrive.
PublishStalls ==
  /\ sender.pc \in {"read", "send"} /\ Faulted
  /\ job' = [job EXCEPT !.st = "waiting"]
  /\ sender' = IdleSender
  /\ strays' = IF sender.pc = "send" THEN strays \cup {sender.status} ELSE strays
  /\ UNCHANGED <<buildVars, owed, shown, lost, changes>>

\* A request its sender has given up arrives, after whatever was sent since.
StrayArrives ==
  \E s \in strays :
    /\ shown' = s
    /\ strays' = strays \ {s}
    /\ lost' = (lost \/ (s # BuildMapped /\ ~StillRead))
    /\ UNCHANGED <<buildVars, owed, publishVars, changes, faults>>

-----------------------------------------------------------------------------
Worker == PublishRun \/ PublishRead \/ PublishSent

StatusNext ==
  \/ BuildChanges \/ Finalized \/ Voted \/ Publish \/ Worker
  \/ PublishLost \/ PublishThrows \/ PublishGivesUp \/ PublishStalls \/ StrayArrives

\* A writer goes on to publish unless it dies, and publish jobs are taken and sent.
Fairness == WF_statusVars(Publish) /\ WF_statusVars(Worker)

StatusSpec == StatusInit /\ [][StatusNext]_statusVars /\ Fairness
-----------------------------------------------------------------------------
(* Properties *)

\* As long as the provider has another status than the build's, somebody is still to read
\* the build and send what it reads, unless a call, a job or a late request was lost, or a
\* finalization wrote over a newer status the one it had read and did not publish it
\* (publishStatus, enqueuePublishStatus, finalizeBuild).
NothingForgotten ==
  \/ lost \/ shown = BuildMapped
  \/ owed > 0
  \/ job.st = "waiting" \/ job.next
  \/ sender.pc = "read"
  \/ sender.pc = "send" /\ sender.status = BuildMapped

\* However the changes of a build and the runs of its job interleave, the provider ends up
\* with the build's last status, unless one was lost or kept back ("collapse into a single
\* publish of the latest state", builds.ts).
LatestShown == <>[](lost \/ shown = BuildMapped)

=============================================================================
