------------------------- MODULE BuildPipelineProofs -------------------------
(***************************************************************************)
(* Proofs about BuildPipeline, for every set of stories and pages and      *)
(* every value of the bounds.                                              *)
(***************************************************************************)
EXTENDS BuildPipeline, TLAPS, FiniteSetTheorems

\* A snapshot has had at most one diff row more than there were rebuilds, and one fewer
\* still while it has none: what keeps the diff ids within Gens.
GenBounded ==
  /\ \A s \in Rows : diff[s] = "none" => gen[s] <= count.rebuilds
  /\ \A s \in Rows : gen[s] <= count.rebuilds + 1
  /\ rebuilder.pc = "tx" => count.rebuilds < MaxRebuilds

TypeInv == TypeOK /\ GenBounded

-----------------------------------------------------------------------------
(* The operators of JobQueue return jobs. *)

LEMMA NoJobType == NoJob \in Job
BY AttemptsAssumption, MaxStalledAssumption DEF NoJob, Job, JobState

LEMMA JobOperatorsType ==
  ASSUME NEW j \in Job
  PROVE  /\ AddJob(j) \in Job /\ StartJob(j) \in Job /\ CompleteJob(j) \in Job
         /\ RemoveJob(j) \in Job /\ RemoveWaitingJob(j) \in Job
         /\ ThrowJob(j) \in Job /\ StallJob(j) \in Job
<1> USE AttemptsAssumption, MaxStalledAssumption DEF Job, JobState
<1>1. AddJob(j) \in Job
  BY DEF AddJob, NoJob
<1>2. StartJob(j) \in Job /\ CompleteJob(j) \in Job
  BY DEF StartJob, CompleteJob
<1>3. RemoveJob(j) \in Job /\ RemoveWaitingJob(j) \in Job
  BY NoJobType DEF RemoveJob, RemoveWaitingJob
<1>4. ThrowJob(j) \in Job
  <2>1. CASE IsFinalAttempt(j)
    <3>1. Attempts \in 0..Attempts
      OBVIOUS
    <3> QED  BY <2>1, <3>1, Zenon DEF ThrowJob
  <2>2. CASE ~IsFinalAttempt(j)
    <3>1. j.tries + 1 \in 0..Attempts
      BY <2>2 DEF IsFinalAttempt
    <3> QED  BY <2>2, <3>1, Zenon DEF ThrowJob
  <2> QED  BY <2>1, <2>2
<1>5. StallJob(j) \in Job
  <2>1. CASE j.stalls < MaxStalled
    <3>1. j.stalls + 1 \in 0..MaxStalled
      BY <2>1
    <3> QED  BY <2>1, <3>1, Zenon DEF StallJob
  <2>2. CASE ~(j.stalls < MaxStalled)
    BY <2>2 DEF StallJob
  <2> QED  BY <2>1, <2>2
<1> QED  BY <1>1, <1>2, <1>3, <1>4, <1>5

LEMMA InitType == Init => TypeInv
BY NoJobType, BoundsAssumption
   DEF Init, TypeInv, TypeOK, DbOK, JobsOK, CaptureOK, HandlersOK, WebOK, CountOK, GenBounded, BuildStatus, InProgress, SnapStatus, Unfinished,
       DiffStatus, StepKind

(* The sets the types are built from. *)

LEMMA HolderSets == Extractor \in Holders /\ \A j \in Groups : j \in Holders
BY DEF Holders

LEMMA PendingDiffIdsType == PendingDiffIds \subseteq DiffIds /\ UnfinishedRows \subseteq Rows
BY DEF PendingDiffIds, UnfinishedRows

LEMMA RowSets ==
  /\ \A n \in 0..MaxRuns : n < MaxRuns => n + 1 \in 0..MaxRuns /\ Stories \X {n + 1} \subseteq Rows
  /\ \A d \in DiffIds : d[1] \in Rows /\ d[2] \in 1..(MaxRebuilds + 1)
  /\ \A s \in Rows : s[1] \in Stories
BY BoundsAssumption DEF Rows, Runs, DiffIds, Gens

-----------------------------------------------------------------------------
(* Every step keeps the types. *)

LEMMA ConfirmReadType ==
  ASSUME TypeInv, ConfirmRead
  PROVE  TypeInv'
<1> USE BoundsAssumption DEF TypeInv, TypeOK
<1>1. DbOK' /\ JobsOK' /\ CaptureOK' /\ HandlersOK'
  BY DEF DbOK, JobsOK, CaptureOK, HandlersOK, ConfirmRead, dbVars, jobVars, captureVars
<1>2. WebOK'
  BY PendingDiffIdsType DEF WebOK, ConfirmRead, webVars
<1>3. CountOK'
  BY RowSets DEF CountOK, ConfirmRead, Faulted, MayFault
<1>4. GenBounded'
  BY RowSets DEF GenBounded, ConfirmRead, dbVars, webVars, DbOK, CountOK, WebOK, Faulted
<1> QED  BY <1>1, <1>2, <1>3, <1>4

LEMMA ConfirmEnqueueType ==
  ASSUME TypeInv, ConfirmEnqueue
  PROVE  TypeInv'
<1> USE BoundsAssumption DEF TypeInv, TypeOK
<1>1. DbOK' /\ CaptureOK' /\ HandlersOK' /\ CountOK' /\ GenBounded'
  BY DEF DbOK, CaptureOK, HandlersOK, CountOK, GenBounded, ConfirmEnqueue, dbVars, captureVars, webVars
<1>2. JobsOK'
  BY JobOperatorsType, NoJobType DEF JobsOK, ConfirmEnqueue, jobVars, CancelBuildJobs, FinalizeQueued, GroupsQueued, GroupMembers
<1>3. WebOK'
  BY PendingDiffIdsType DEF WebOK, ConfirmEnqueue, webVars
<1> QED  BY <1>1, <1>2, <1>3

LEMMA ConfirmFailsType ==
  ASSUME TypeInv, ConfirmFails
  PROVE  TypeInv'
<1> USE BoundsAssumption DEF TypeInv, TypeOK
<1>1. JobsOK' /\ CaptureOK' /\ HandlersOK'
  BY JobOperatorsType DEF JobsOK, CaptureOK, HandlersOK, ConfirmFails, captureVars
<1>2. DbOK'
  BY RowSets DEF DbOK, ConfirmFails, BuildStatus, InProgress, SnapStatus, Unfinished, DiffStatus, BuildUnlessCanceled, SnapsMarked, DiffsMarked
<1>3. WebOK'
  BY PendingDiffIdsType DEF WebOK, ConfirmFails, webVars
<1>4. CountOK'
  BY RowSets DEF CountOK, ConfirmFails, Faulted, MayFault
<1>5. GenBounded'
  BY RowSets DEF GenBounded, ConfirmFails, dbVars, webVars, DbOK, CountOK, WebOK, Faulted
<1> QED  BY <1>1, <1>2, <1>3, <1>4, <1>5

LEMMA ExtractRunType ==
  ASSUME TypeInv, ExtractRun
  PROVE  TypeInv'
<1> USE BoundsAssumption DEF TypeInv, TypeOK
<1>1. DbOK' /\ CaptureOK' /\ WebOK' /\ CountOK' /\ GenBounded'
  BY DEF DbOK, CaptureOK, WebOK, CountOK, GenBounded, ExtractRun, dbVars, captureVars, webVars
<1>2. JobsOK'
  BY JobOperatorsType, NoJobType DEF JobsOK, ExtractRun, jobVars, CancelBuildJobs, FinalizeQueued, GroupsQueued, GroupMembers
<1>3. HandlersOK'
  BY RowSets DEF HandlersOK, ExtractRun
<1> QED  BY <1>1, <1>2, <1>3

LEMMA ExtractCreateType ==
  ASSUME TypeInv, ExtractCreate
  PROVE  TypeInv'
<1> USE BoundsAssumption DEF TypeInv, TypeOK
<1>1. JobsOK' /\ CaptureOK' /\ WebOK'
  BY DEF JobsOK, CaptureOK, WebOK, ExtractCreate, jobVars, captureVars, webVars
<1>2. DbOK'
  BY RowSets DEF DbOK, ExtractCreate, BuildStatus, InProgress, SnapStatus, Unfinished, DiffStatus, BuildUnlessCanceled, SnapsMarked, DiffsMarked
<1>3. HandlersOK'
  <2>1. Stories \X {count.runs + 1} \subseteq Rows
    BY RowSets DEF ExtractCreate, CountOK
  <2>2. PICK bad \in SUBSET Rows : extract' = [extract EXCEPT !.pc = "unreadable", !.bad = bad]
    BY <2>1, Zenon DEF ExtractCreate
  <2> QED  BY <2>2, Zenon DEF HandlersOK, ExtractCreate
<1>4. CountOK'
  BY RowSets DEF CountOK, ExtractCreate, Faulted, MayFault
<1>5. GenBounded'
  BY RowSets DEF GenBounded, ExtractCreate, dbVars, webVars, DbOK, CountOK, WebOK, Faulted
<1> QED  BY <1>1, <1>2, <1>3, <1>4, <1>5

LEMMA ExtractUnreadableType ==
  ASSUME TypeInv, NEW s \in Rows, ExtractUnreadable(s)
  PROVE  TypeInv'
<1> USE BoundsAssumption DEF TypeInv, TypeOK
<1>1. JobsOK' /\ WebOK' /\ CountOK' /\ GenBounded'
  BY DEF JobsOK, WebOK, CountOK, GenBounded, ExtractUnreadable, jobVars, webVars, dbVars
<1>2. DbOK'
  BY RowSets DEF DbOK, ExtractUnreadable, BuildStatus, InProgress, SnapStatus, Unfinished, DiffStatus, BuildUnlessCanceled, SnapsMarked, DiffsMarked
<1>3. CaptureOK'
  BY HolderSets DEF CaptureOK, ExtractUnreadable, captureVars, StepKind, OnPage, Uploading, NoSteps, NoneHeld
<1>4. HandlersOK'
  BY RowSets DEF HandlersOK, ExtractUnreadable
<1> QED  BY <1>1, <1>2, <1>3, <1>4

LEMMA ExtractRecheckType ==
  ASSUME TypeInv, ExtractRecheck
  PROVE  TypeInv'
<1> USE BoundsAssumption DEF TypeInv, TypeOK
<1>1. CaptureOK' /\ WebOK' /\ CountOK' /\ GenBounded'
  BY DEF CaptureOK, WebOK, CountOK, GenBounded, ExtractRecheck, captureVars, webVars, dbVars
<1>2. DbOK'
  <2>1. SnapsMarked(UnfinishedRows, "canceled") \in [Rows -> SnapStatus]
    BY DEF DbOK, SnapsMarked, SnapStatus
  <2> QED  BY <2>1, Zenon DEF DbOK, ExtractRecheck
<1>3. JobsOK'
  BY JobOperatorsType, NoJobType DEF JobsOK, ExtractRecheck, jobVars, CancelBuildJobs, FinalizeQueued, GroupsQueued, GroupMembers
<1>4. HandlersOK'
  <2>1. \E q \in SUBSET Rows, none \in BOOLEAN :
          \/ extract' = [extract EXCEPT !.pc = "idle"]
          \/ extract' = [extract EXCEPT !.pc = "enqueue", !.queued = q, !.allSkipped = none]
    <3>1. {s \in Rows : snap[s] = "queued"} \in SUBSET Rows /\ (Captured = {}) \in BOOLEAN
      OBVIOUS
    <3> QED  BY <3>1, Zenon DEF ExtractRecheck
  <2>2. extract' \in [pc : {"idle", "create", "unreadable", "enqueue"},
                     bad : SUBSET Rows, queued : SUBSET Rows, allSkipped : BOOLEAN]
    BY <2>1, Zenon DEF HandlersOK
  <2> QED  BY <2>2 DEF HandlersOK, ExtractRecheck
<1> QED  BY <1>1, <1>2, <1>3, <1>4

LEMMA ExtractQueuesType ==
  ASSUME TypeInv, ExtractQueues
  PROVE  fjob' \in Job /\ cjob' \in [Groups -> Job] /\ members' \in [Groups -> SUBSET Rows]
<1> USE DEF TypeInv, TypeOK
<1>1. cjob' \in [Groups -> Job]
  BY JobOperatorsType DEF JobsOK, ExtractQueues, GroupsQueued
<1>2. members' \in [Groups -> SUBSET Rows]
  BY DEF JobsOK, WebOK, HandlersOK, ExtractQueues, GroupMembers
<1> QED  BY <1>1, <1>2, JobOperatorsType DEF JobsOK, ExtractQueues, FinalizeQueued

LEMMA ExtractEnqueueType ==
  ASSUME TypeInv, ExtractEnqueue
  PROVE  TypeInv'
<1> USE BoundsAssumption DEF TypeInv, TypeOK
<1>1. DbOK' /\ CaptureOK' /\ WebOK' /\ CountOK' /\ GenBounded'
  BY DEF DbOK, CaptureOK, WebOK, CountOK, GenBounded, ExtractEnqueue, dbVars, captureVars, webVars
<1>2. JobsOK'
  BY ExtractQueuesType, JobOperatorsType DEF JobsOK, ExtractEnqueue
<1>3. HandlersOK'
  BY RowSets DEF HandlersOK, ExtractEnqueue
<1> QED  BY <1>1, <1>2, <1>3

LEMMA ExtractFaultsType ==
  ASSUME TypeInv, ExtractFaults
  PROVE  TypeInv'
<1> USE BoundsAssumption DEF TypeInv, TypeOK
<1>1. DbOK' /\ WebOK'
  BY DEF DbOK, WebOK, ExtractFaults, dbVars, webVars
<1>2. JobsOK'
  BY JobOperatorsType, ExtractQueuesType DEF JobsOK, ExtractFaults
<1>3. CaptureOK'
  BY HolderSets DEF CaptureOK, ExtractFaults, captureVars, StepKind, OnPage, Uploading, NoSteps, NoneHeld
<1>4. HandlersOK'
  BY RowSets, Zenon DEF HandlersOK, ExtractFaults
<1>5. CountOK'
  BY RowSets DEF CountOK, ExtractFaults, Faulted, MayFault
<1>6. GenBounded'
  BY RowSets DEF GenBounded, ExtractFaults, dbVars, webVars, DbOK, CountOK, WebOK, Faulted
<1> QED  BY <1>1, <1>2, <1>3, <1>4, <1>5, <1>6

LEMMA FailBuildType ==
  ASSUME TypeInv, NEW kind \in {"extract", "finalize"}, FailBuild(kind)
  PROVE  TypeInv'
<1> USE BoundsAssumption DEF TypeInv, TypeOK
<1>1. JobsOK' /\ CaptureOK' /\ WebOK' /\ CountOK' /\ GenBounded'
  BY DEF JobsOK, CaptureOK, WebOK, CountOK, GenBounded, FailBuild, jobVars, captureVars, webVars, dbVars
<1>2. DbOK'
  BY RowSets DEF DbOK, FailBuild, BuildStatus, InProgress, SnapStatus, Unfinished, DiffStatus, BuildUnlessCanceled, SnapsMarked, DiffsMarked
<1>3. HandlersOK'
  BY RowSets DEF HandlersOK, FailBuild
<1> QED  BY <1>1, <1>2, <1>3

LEMMA CaptureRunType ==
  ASSUME TypeInv, NEW j \in Groups, CaptureRun(j)
  PROVE  TypeInv'
<1> USE BoundsAssumption DEF TypeInv, TypeOK
<1>1. DbOK' /\ HandlersOK' /\ WebOK' /\ CountOK' /\ GenBounded'
  BY DEF DbOK, HandlersOK, WebOK, CountOK, GenBounded, CaptureRun, dbVars, webVars
<1>2. JobsOK'
  BY JobOperatorsType, NoJobType DEF JobsOK, CaptureRun, jobVars, CancelBuildJobs, FinalizeQueued, GroupsQueued, GroupMembers
<1>3. CaptureOK'
  BY HolderSets DEF CaptureOK, CaptureRun, StepKind
<1> QED  BY <1>1, <1>2, <1>3

LEMMA CaptureCheckType ==
  ASSUME TypeInv, NEW j \in Groups, NEW s \in Rows, CaptureCheck(j, s)
  PROVE  TypeInv'
<1> USE BoundsAssumption DEF TypeInv, TypeOK
<1>1. DbOK' /\ JobsOK' /\ HandlersOK' /\ WebOK' /\ CountOK' /\ GenBounded'
  BY DEF DbOK, JobsOK, HandlersOK, WebOK, CountOK, GenBounded, CaptureCheck, dbVars, jobVars, webVars
<1>2. CaptureOK'
  BY HolderSets DEF CaptureOK, CaptureCheck, captureVars, StepKind, OnPage, Uploading, NoSteps, NoneHeld
<1> QED  BY <1>1, <1>2

LEMMA CaptureMarkType ==
  ASSUME TypeInv, NEW j \in Groups, NEW s \in Rows, CaptureMark(j, s)
  PROVE  TypeInv'
<1> USE BoundsAssumption DEF TypeInv, TypeOK
<1>1. JobsOK' /\ HandlersOK' /\ WebOK' /\ CountOK' /\ GenBounded'
  BY DEF JobsOK, HandlersOK, WebOK, CountOK, GenBounded, CaptureMark, jobVars, webVars, dbVars
<1>2. DbOK'
  BY RowSets DEF DbOK, CaptureMark, BuildStatus, InProgress, SnapStatus, Unfinished, DiffStatus, BuildUnlessCanceled, SnapsMarked, DiffsMarked
<1>3. CaptureOK'
  BY HolderSets DEF CaptureOK, CaptureMark, captureVars, StepKind, OnPage, Uploading, NoSteps, NoneHeld
<1> QED  BY <1>1, <1>2, <1>3

LEMMA CaptureShootType ==
  ASSUME TypeInv, NEW j \in Groups, NEW s \in Rows, CaptureShoot(j, s)
  PROVE  TypeInv'
<1> USE BoundsAssumption DEF TypeInv, TypeOK
<1>1. DbOK' /\ JobsOK' /\ HandlersOK' /\ WebOK' /\ CountOK' /\ GenBounded'
  BY DEF DbOK, JobsOK, HandlersOK, WebOK, CountOK, GenBounded, CaptureShoot, dbVars, jobVars, webVars
<1>2. CaptureOK'
  <2>1. j \in Holders /\ {"store", "err", "abort"} \subseteq StepKind
    BY HolderSets DEF StepKind, OnPage, Uploading
  <2>2. step[j] \in [Rows -> StepKind]
    BY <2>1 DEF CaptureOK
  <2>3. \/ step' = [step EXCEPT ![j][s] = "store"]
        \/ step' = [step EXCEPT ![j][s] = "err"]
        \/ step' = [step EXCEPT ![j] = [r \in Rows |->
                       IF r = s \/ step[j][r] = "todo" THEN "abort" ELSE step[j][r]]]
    BY DEF CaptureShoot
  <2>4. [r \in Rows |-> IF r = s \/ step[j][r] = "todo" THEN "abort" ELSE step[j][r]]
          \in [Rows -> StepKind]
    BY <2>1, <2>2
  <2>5. step' \in [Holders -> [Rows -> StepKind]]
    <3>1. CASE step' = [step EXCEPT ![j][s] = "store"]
      BY <2>1, <3>1 DEF CaptureOK
    <3>2. CASE step' = [step EXCEPT ![j][s] = "err"]
      BY <2>1, <3>2 DEF CaptureOK
    <3>3. CASE step' = [step EXCEPT ![j] = [r \in Rows |->
                          IF r = s \/ step[j][r] = "todo" THEN "abort" ELSE step[j][r]]]
      BY <2>1, <2>4, <3>3 DEF CaptureOK
    <3> QED  BY <2>3, <3>1, <3>2, <3>3
  <2> QED  BY <2>5 DEF CaptureOK, CaptureShoot
<1> QED  BY <1>1, <1>2

LEMMA CaptureStoreType ==
  ASSUME TypeInv, NEW j \in Groups, NEW s \in Rows, CaptureStore(j, s)
  PROVE  TypeInv'
<1> USE BoundsAssumption DEF TypeInv, TypeOK
<1>1. JobsOK' /\ HandlersOK' /\ WebOK' /\ CountOK' /\ GenBounded'
  BY DEF JobsOK, HandlersOK, WebOK, CountOK, GenBounded, CaptureStore, jobVars, webVars, dbVars
<1>2. DbOK'
  BY RowSets, Zenon DEF DbOK, CaptureStore, BuildStatus, InProgress, SnapStatus, Unfinished, DiffStatus, BuildUnlessCanceled, SnapsMarked, DiffsMarked
<1>3. CaptureOK'
  <2>1. j \in Holders /\ {"no", "diff"} \subseteq StepKind
    BY HolderSets DEF StepKind, OnPage, Uploading
  <2>2. \/ step' = [step EXCEPT ![j][s] = "no"]
        \/ step' = [step EXCEPT ![j][s] = "diff"]
    BY DEF CaptureStore
  <2>3. CASE step' = [step EXCEPT ![j][s] = "no"]
    BY <2>1, <2>3 DEF CaptureOK, CaptureStore
  <2>4. CASE step' = [step EXCEPT ![j][s] = "diff"]
    BY <2>1, <2>4 DEF CaptureOK, CaptureStore
  <2> QED  BY <2>2, <2>3, <2>4
<1> QED  BY <1>1, <1>2, <1>3

LEMMA ErrorReadType ==
  ASSUME TypeInv, NEW h \in Holders, NEW s \in Rows, ErrorRead(h, s)
  PROVE  TypeInv'
<1> USE BoundsAssumption DEF TypeInv, TypeOK
<1>1. DbOK' /\ JobsOK' /\ HandlersOK' /\ WebOK' /\ CountOK' /\ GenBounded'
  BY DEF DbOK, JobsOK, HandlersOK, WebOK, CountOK, GenBounded, ErrorRead, dbVars, jobVars, webVars
<1>2. CaptureOK'
  BY HolderSets DEF CaptureOK, ErrorRead, captureVars, StepKind, OnPage, Uploading, NoSteps, NoneHeld
<1> QED  BY <1>1, <1>2

LEMMA MarkErroredType ==
  ASSUME TypeInv, NEW h \in Holders, NEW s \in Rows, MarkErrored(h, s)
  PROVE  TypeInv'
<1> USE BoundsAssumption DEF TypeInv, TypeOK
<1>1. JobsOK' /\ HandlersOK' /\ WebOK' /\ CountOK' /\ GenBounded'
  BY DEF JobsOK, HandlersOK, WebOK, CountOK, GenBounded, MarkErrored, jobVars, webVars, dbVars
<1>2. DbOK'
  BY RowSets DEF DbOK, MarkErrored, BuildStatus, InProgress, SnapStatus, Unfinished, DiffStatus, BuildUnlessCanceled, SnapsMarked, DiffsMarked
<1>3. CaptureOK'
  BY HolderSets DEF CaptureOK, MarkErrored, captureVars, StepKind, OnPage, Uploading, NoSteps, NoneHeld
<1> QED  BY <1>1, <1>2, <1>3

LEMMA CreateDiffType ==
  ASSUME TypeInv, NEW h \in Holders, NEW s \in Rows, CreateDiff(h, s)
  PROVE  TypeInv'
<1> USE BoundsAssumption DEF TypeInv, TypeOK
<1>1. JobsOK' /\ HandlersOK' /\ WebOK' /\ CountOK'
  BY DEF JobsOK, HandlersOK, WebOK, CountOK, CreateDiff, jobVars, webVars
<1>2. /\ gen[s] \in 0..(MaxRebuilds + 1)
      /\ diff[s] = "none" => gen[s] + 1 \in 0..(MaxRebuilds + 1)
                             /\ gen[s] + 1 <= count.rebuilds + 1
  BY DEF DbOK, GenBounded, CountOK
<1>3. \/ diff[s] = "none" /\ diff' = [diff EXCEPT ![s] = "pending"] /\ gen' = [gen EXCEPT ![s] = @ + 1]
      \/ UNCHANGED <<diff, gen>>
  BY DEF CreateDiff, NeedsDiff
<1>4. DbOK'
  BY <1>2, <1>3, Zenon DEF DbOK, CreateDiff, DiffStatus
<1>5. CaptureOK'
  <2>1. {"enq", "errenq", "no"} \subseteq StepKind
    BY DEF StepKind, OnPage, Uploading
  <2>2. \E k \in {"enq", "errenq", "no"} : step' = [step EXCEPT ![h][s] = k]
    BY DEF CreateDiff
  <2>3. \/ held' = [held EXCEPT ![h][s] = gen[s] + 1] /\ diff[s] = "none"
        \/ held' = [held EXCEPT ![h][s] = gen[s]]
        \/ UNCHANGED held
    BY DEF CreateDiff, NeedsDiff
  <2>4. step' \in [Holders -> [Rows -> StepKind]]
    BY <2>1, <2>2 DEF CaptureOK
  <2>5. held' \in [Holders -> [Rows -> 0..(MaxRebuilds + 1)]]
    BY <1>2, <2>3 DEF CaptureOK
  <2> QED  BY <2>4, <2>5 DEF CaptureOK
<1>6. GenBounded'
  <2>1. UNCHANGED <<rebuilder, count>>
    BY DEF CreateDiff, webVars
  <2> QED  BY <1>2, <1>3, <2>1 DEF GenBounded, DbOK
<1> QED  BY <1>1, <1>4, <1>5, <1>6

LEMMA EnqueueDiffType ==
  ASSUME TypeInv, NEW h \in Holders, NEW s \in Rows, EnqueueDiff(h, s)
  PROVE  TypeInv'
<1> USE BoundsAssumption DEF TypeInv, TypeOK
<1>1. DbOK' /\ HandlersOK' /\ WebOK' /\ CountOK' /\ GenBounded'
  BY DEF DbOK, HandlersOK, WebOK, CountOK, GenBounded, EnqueueDiff, dbVars, webVars
<1>2. JobsOK'
  BY JobOperatorsType, NoJobType, Zenon DEF JobsOK, EnqueueDiff, jobVars, CancelBuildJobs, FinalizeQueued, GroupsQueued, GroupMembers
<1>3. CaptureOK'
  BY HolderSets DEF CaptureOK, EnqueueDiff, captureVars, StepKind, OnPage, Uploading, NoSteps, NoneHeld
<1> QED  BY <1>1, <1>2, <1>3

LEMMA CaptureDoneType ==
  ASSUME TypeInv, NEW j \in Groups, CaptureDone(j)
  PROVE  TypeInv'
<1> USE BoundsAssumption DEF TypeInv, TypeOK
<1>1. DbOK' /\ CaptureOK' /\ HandlersOK' /\ WebOK' /\ CountOK' /\ GenBounded'
  BY DEF DbOK, CaptureOK, HandlersOK, WebOK, CountOK, GenBounded, CaptureDone, dbVars, captureVars, webVars
<1>2. JobsOK'
  BY JobOperatorsType, NoJobType DEF JobsOK, CaptureDone, jobVars, CancelBuildJobs, FinalizeQueued, GroupsQueued, GroupMembers
<1> QED  BY <1>1, <1>2

LEMMA CapturePersistFailsType ==
  ASSUME TypeInv, NEW j \in Groups, NEW s \in Rows, CapturePersistFails(j, s)
  PROVE  TypeInv'
<1> USE BoundsAssumption DEF TypeInv, TypeOK
<1>0. DbOK' /\ HandlersOK' /\ WebOK'
  BY DEF DbOK, HandlersOK, WebOK, CapturePersistFails, dbVars, webVars
<1>1. JobsOK'
  <2>1. UNCHANGED djob \/ djob' = [djob EXCEPT ![<<s, held[j][s]>>] = AddJob(@)]
    BY DEF CapturePersistFails
  <2>2. djob' \in [DiffIds -> Job]
    BY <2>1, JobOperatorsType DEF JobsOK
  <2> QED  BY <2>2 DEF JobsOK, CapturePersistFails
<1>2. CaptureOK'
  BY HolderSets DEF CaptureOK, CapturePersistFails, captureVars, StepKind, OnPage, Uploading, NoSteps, NoneHeld
<1>3. CountOK'
  BY RowSets DEF CountOK, CapturePersistFails, Faulted, MayFault
<1>4. GenBounded'
  BY RowSets DEF GenBounded, CapturePersistFails, dbVars, webVars, DbOK, CountOK, WebOK, Faulted
<1> QED  BY <1>0, <1>1, <1>2, <1>3, <1>4

LEMMA CaptureFaultsType ==
  ASSUME TypeInv, NEW j \in Groups, CaptureFaults(j)
  PROVE  TypeInv'
<1> USE BoundsAssumption DEF TypeInv, TypeOK
<1>1. DbOK' /\ HandlersOK' /\ WebOK'
  BY DEF DbOK, HandlersOK, WebOK, CaptureFaults, dbVars, webVars
<1>2. JobsOK'
  BY JobOperatorsType, NoJobType DEF JobsOK, CaptureFaults, jobVars, CancelBuildJobs, FinalizeQueued, GroupsQueued, GroupMembers
<1>3. CaptureOK'
  <2>1. step \in [Holders -> [Rows -> StepKind]] /\ held \in [Holders -> [Rows -> 0..(MaxRebuilds + 1)]]
    BY DEF CaptureOK
  <2>2. PICK steps \in [Rows -> StepKind] : step' = [step EXCEPT ![j] = steps]
    BY Zenon DEF CaptureFaults, NoSteps, StepKind
  <2>3. held' = [held EXCEPT ![j] = NoneHeld] /\ NoneHeld \in [Rows -> 0..(MaxRebuilds + 1)]
    BY DEF CaptureFaults, NoneHeld
  <2> QED  BY <2>1, <2>2, <2>3, Zenon DEF CaptureOK
<1>4. CountOK'
  BY RowSets DEF CountOK, CaptureFaults, Faulted, MayFault
<1>5. GenBounded'
  BY RowSets DEF GenBounded, CaptureFaults, dbVars, webVars, DbOK, CountOK, WebOK, Faulted
<1> QED  BY <1>1, <1>2, <1>3, <1>4, <1>5

LEMMA CaptureFailedType ==
  ASSUME TypeInv, NEW j \in Groups, NEW s \in Rows, CaptureFailed(j, s)
  PROVE  TypeInv'
<1> USE BoundsAssumption DEF TypeInv, TypeOK
<1>1. DbOK' /\ JobsOK' /\ HandlersOK' /\ WebOK' /\ CountOK' /\ GenBounded'
  BY DEF DbOK, JobsOK, HandlersOK, WebOK, CountOK, GenBounded, CaptureFailed, dbVars, jobVars, webVars
<1>2. CaptureOK'
  BY HolderSets DEF CaptureOK, CaptureFailed, captureVars, StepKind, OnPage, Uploading, NoSteps, NoneHeld
<1> QED  BY <1>1, <1>2

LEMMA DiffRunType ==
  ASSUME TypeInv, NEW d \in DiffIds, DiffRun(d)
  PROVE  TypeInv'
<1> USE BoundsAssumption DEF TypeInv, TypeOK
<1>1. CaptureOK' /\ WebOK' /\ CountOK'
  BY DEF CaptureOK, WebOK, CountOK, DiffRun, captureVars, webVars
<1>2. DbOK'
  BY RowSets, Zenon DEF DbOK, DiffRun, BuildStatus, InProgress, SnapStatus, Unfinished, DiffStatus, BuildUnlessCanceled, SnapsMarked, DiffsMarked
<1>3. JobsOK'
  BY JobOperatorsType, NoJobType DEF JobsOK, DiffRun, jobVars, CancelBuildJobs, FinalizeQueued, GroupsQueued, GroupMembers
<1>4. HandlersOK'
  BY RowSets DEF HandlersOK, DiffRun
<1>5. GenBounded'
  BY RowSets DEF GenBounded, DiffRun, dbVars, webVars, DbOK, CountOK, WebOK, Faulted
<1> QED  BY <1>1, <1>2, <1>3, <1>4, <1>5

LEMMA DiffWriteType ==
  ASSUME TypeInv, NEW d \in DiffIds, DiffWrite(d)
  PROVE  TypeInv'
<1> USE BoundsAssumption DEF TypeInv, TypeOK
<1>1. JobsOK' /\ CaptureOK' /\ WebOK' /\ CountOK'
  BY DEF JobsOK, CaptureOK, WebOK, CountOK, DiffWrite, jobVars, captureVars, webVars
<1>2. DbOK'
  BY RowSets, Zenon DEF DbOK, DiffWrite, BuildStatus, InProgress, SnapStatus, Unfinished, DiffStatus, BuildUnlessCanceled, SnapsMarked, DiffsMarked
<1>3. HandlersOK'
  BY RowSets DEF HandlersOK, DiffWrite
<1>4. GenBounded'
  BY RowSets DEF GenBounded, DiffWrite, dbVars, webVars, DbOK, CountOK, WebOK, Faulted
<1> QED  BY <1>1, <1>2, <1>3, <1>4

LEMMA DiffCheckType ==
  ASSUME TypeInv, NEW d \in DiffIds, DiffCheck(d)
  PROVE  TypeInv'
<1> USE BoundsAssumption DEF TypeInv, TypeOK
<1>1. DbOK' /\ CaptureOK' /\ WebOK' /\ CountOK' /\ GenBounded'
  BY DEF DbOK, CaptureOK, WebOK, CountOK, GenBounded, DiffCheck, dbVars, captureVars, webVars
<1>2. JobsOK'
  BY JobOperatorsType DEF JobsOK, DiffCheck, FinalizeQueuedIfAllDone, FinalizeQueued
<1>3. HandlersOK'
  BY RowSets DEF HandlersOK, DiffCheck
<1> QED  BY <1>1, <1>2, <1>3

LEMMA DiffFaultsType ==
  ASSUME TypeInv, NEW d \in DiffIds, DiffFaults(d)
  PROVE  TypeInv'
<1> USE BoundsAssumption DEF TypeInv, TypeOK
<1>1. DbOK' /\ CaptureOK' /\ WebOK'
  BY DEF DbOK, CaptureOK, WebOK, DiffFaults, dbVars, captureVars, webVars
<1>2. JobsOK'
  BY JobOperatorsType DEF JobsOK, DiffFaults, FinalizeQueuedIfAllDone, FinalizeQueued
<1>3. HandlersOK'
  BY RowSets DEF HandlersOK, DiffFaults
<1>4. CountOK'
  BY RowSets DEF CountOK, DiffFaults, Faulted, MayFault
<1>5. GenBounded'
  BY RowSets DEF GenBounded, DiffFaults, dbVars, webVars, DbOK, CountOK, WebOK, Faulted
<1> QED  BY <1>1, <1>2, <1>3, <1>4, <1>5

LEMMA DiffFailedType ==
  ASSUME TypeInv, NEW d \in DiffIds, DiffFailed(d)
  PROVE  TypeInv'
<1> USE BoundsAssumption DEF TypeInv, TypeOK
<1>1. JobsOK' /\ CaptureOK' /\ WebOK' /\ CountOK'
  BY DEF JobsOK, CaptureOK, WebOK, CountOK, DiffFailed, jobVars, captureVars, webVars
<1>2. DbOK'
  BY RowSets, Zenon DEF DbOK, DiffFailed, BuildStatus, InProgress, SnapStatus, Unfinished, DiffStatus, BuildUnlessCanceled, SnapsMarked, DiffsMarked
<1>3. HandlersOK'
  BY RowSets DEF HandlersOK, DiffFailed
<1>4. GenBounded'
  BY RowSets DEF GenBounded, DiffFailed, dbVars, webVars, DbOK, CountOK, WebOK, Faulted
<1> QED  BY <1>1, <1>2, <1>3, <1>4

LEMMA FinalizeRunType ==
  ASSUME TypeInv, FinalizeRun
  PROVE  TypeInv'
<1> USE BoundsAssumption DEF TypeInv, TypeOK
<1>1. DbOK' /\ CaptureOK' /\ WebOK' /\ CountOK' /\ GenBounded'
  BY DEF DbOK, CaptureOK, WebOK, CountOK, GenBounded, FinalizeRun, dbVars, captureVars, webVars
<1>2. JobsOK'
  BY JobOperatorsType, NoJobType DEF JobsOK, FinalizeRun, jobVars, CancelBuildJobs, FinalizeQueued, GroupsQueued, GroupMembers
<1>3. HandlersOK'
  BY RowSets DEF HandlersOK, FinalizeRun
<1> QED  BY <1>1, <1>2, <1>3

LEMMA FinalizeReadType ==
  ASSUME TypeInv, FinalizeRead
  PROVE  TypeInv'
<1> USE BoundsAssumption DEF TypeInv, TypeOK
<1>1. DbOK' /\ JobsOK' /\ CaptureOK' /\ WebOK' /\ CountOK' /\ GenBounded'
  BY DEF DbOK, JobsOK, CaptureOK, WebOK, CountOK, GenBounded, FinalizeRead, dbVars, jobVars, captureVars, webVars
<1>2. HandlersOK'
  BY RowSets DEF HandlersOK, FinalizeRead
<1> QED  BY <1>1, <1>2

LEMMA FinalizeWriteType ==
  ASSUME TypeInv, FinalizeWrite
  PROVE  TypeInv'
<1> USE BoundsAssumption DEF TypeInv, TypeOK
<1>1. JobsOK' /\ CaptureOK' /\ WebOK' /\ CountOK' /\ GenBounded'
  BY DEF JobsOK, CaptureOK, WebOK, CountOK, GenBounded, FinalizeWrite, jobVars, captureVars, webVars, dbVars
<1>2. DbOK'
  <2>1. finalizer.verdict \in BuildStatus
    BY DEF HandlersOK, BuildStatus
  <2> QED  BY <2>1 DEF DbOK, FinalizeWrite, BuildUnlessCanceled
<1>3. HandlersOK'
  BY RowSets DEF HandlersOK, FinalizeWrite
<1> QED  BY <1>1, <1>2, <1>3

LEMMA FinalizeDoneType ==
  ASSUME TypeInv, FinalizeDone
  PROVE  TypeInv'
<1> USE BoundsAssumption DEF TypeInv, TypeOK
<1>1. DbOK' /\ CaptureOK' /\ WebOK' /\ CountOK' /\ GenBounded'
  BY DEF DbOK, CaptureOK, WebOK, CountOK, GenBounded, FinalizeDone, dbVars, captureVars, webVars
<1>2. JobsOK'
  BY JobOperatorsType, NoJobType DEF JobsOK, FinalizeDone, jobVars, CancelBuildJobs, FinalizeQueued, GroupsQueued, GroupMembers
<1>3. HandlersOK'
  BY RowSets DEF HandlersOK, FinalizeDone
<1> QED  BY <1>1, <1>2, <1>3

LEMMA FinalizeFaultsType ==
  ASSUME TypeInv, FinalizeFaults
  PROVE  TypeInv'
<1> USE BoundsAssumption DEF TypeInv, TypeOK
<1>1. DbOK' /\ CaptureOK' /\ WebOK'
  BY DEF DbOK, CaptureOK, WebOK, FinalizeFaults, dbVars, captureVars, webVars
<1>2. JobsOK'
  BY JobOperatorsType, NoJobType DEF JobsOK, FinalizeFaults, jobVars, CancelBuildJobs, FinalizeQueued, GroupsQueued, GroupMembers
<1>3. HandlersOK'
  BY RowSets DEF HandlersOK, FinalizeFaults
<1>4. CountOK'
  BY RowSets DEF CountOK, FinalizeFaults, Faulted, MayFault
<1>5. GenBounded'
  BY RowSets DEF GenBounded, FinalizeFaults, dbVars, webVars, DbOK, CountOK, WebOK, Faulted
<1> QED  BY <1>1, <1>2, <1>3, <1>4, <1>5

LEMMA FailedHandlerFaultsType ==
  ASSUME TypeInv, FailedHandlerFaults
  PROVE  TypeInv'
<1> USE BoundsAssumption DEF TypeInv, TypeOK
<1>1. DbOK' /\ JobsOK' /\ WebOK'
  BY DEF DbOK, JobsOK, WebOK, FailedHandlerFaults, dbVars, jobVars, webVars
<1>2. CaptureOK'
  <2>1. NoSteps \in [Rows -> StepKind] /\ NoneHeld \in [Rows -> 0..(MaxRebuilds + 1)]
    BY DEF NoSteps, NoneHeld, StepKind
  <2>2. \/ UNCHANGED captureVars
        \/ \E j \in Groups : /\ step' = [step EXCEPT ![j] = NoSteps]
                             /\ held' = [held EXCEPT ![j] = NoneHeld]
    BY DEF FailedHandlerFaults, captureVars
  <2> QED  BY <2>1, <2>2, HolderSets, Zenon DEF CaptureOK, captureVars
<1>3. HandlersOK'
  BY RowSets, Zenon DEF HandlersOK, FailedHandlerFaults
<1>4. CountOK'
  BY RowSets DEF CountOK, FailedHandlerFaults, Faulted, MayFault
<1>5. GenBounded'
  BY RowSets DEF GenBounded, FailedHandlerFaults, dbVars, webVars, DbOK, CountOK, WebOK, Faulted
<1> QED  BY <1>1, <1>2, <1>3, <1>4, <1>5

LEMMA CancelTxType ==
  ASSUME TypeInv, CancelTx \/ CancelSelect
  PROVE  TypeInv'
<1> USE BoundsAssumption DEF TypeInv, TypeOK
<1>1. DbOK' /\ JobsOK' /\ CaptureOK' /\ HandlersOK' /\ GenBounded'
  BY DEF DbOK, JobsOK, CaptureOK, HandlersOK, GenBounded, CountOK, CancelTx, CancelSelect, dbVars,
         jobVars, captureVars
<1>2. WebOK'
  BY PendingDiffIdsType, RowSets DEF WebOK, CancelTx, CancelSelect
<1>3. CountOK'
  BY RowSets DEF CountOK, CancelTx, CancelSelect
<1> QED  BY <1>1, <1>2, <1>3

LEMMA CancelCommitType ==
  ASSUME TypeInv, CancelCommit
  PROVE  TypeInv'
<1> USE BoundsAssumption DEF TypeInv, TypeOK
<1>1. JobsOK' /\ CaptureOK' /\ HandlersOK' /\ CountOK'
  BY DEF JobsOK, CaptureOK, HandlersOK, CountOK, CancelCommit, jobVars, captureVars
<1>2. DbOK'
  BY RowSets DEF DbOK, CancelCommit, BuildStatus, InProgress, SnapStatus, DiffStatus, SnapsMarked, DiffsMarked
<1>3. WebOK'
  BY PendingDiffIdsType DEF WebOK, CancelCommit
<1>4. GenBounded'
  <2>1. \A s \in Rows : diff'[s] = "none" => diff[s] = "none"
    BY DEF DbOK, CancelCommit, DiffsMarked
  <2>2. UNCHANGED <<gen, rebuilder, count>>
    BY DEF CancelCommit
  <2> QED  BY <2>1, <2>2 DEF GenBounded
<1> QED  BY <1>1, <1>2, <1>3, <1>4

LEMMA CancelJobsType ==
  ASSUME TypeInv, CancelJobs
  PROVE  TypeInv'
<1> USE BoundsAssumption DEF TypeInv, TypeOK
<1>1. DbOK' /\ CaptureOK' /\ HandlersOK' /\ CountOK' /\ GenBounded'
  BY DEF DbOK, CaptureOK, HandlersOK, CountOK, GenBounded, CancelJobs, dbVars, captureVars, webVars
<1>2. JobsOK'
  BY JobOperatorsType, NoJobType DEF JobsOK, CancelJobs, jobVars, CancelBuildJobs, FinalizeQueued, GroupsQueued, GroupMembers
<1>3. WebOK'
  BY PendingDiffIdsType DEF WebOK, CancelJobs, CancelEnded
<1> QED  BY <1>1, <1>2, <1>3

LEMMA RebuildReadType ==
  ASSUME TypeInv, RebuildRead
  PROVE  TypeInv'
<1> USE BoundsAssumption DEF TypeInv, TypeOK
<1>1. DbOK' /\ JobsOK' /\ CaptureOK' /\ HandlersOK' /\ CountOK'
  BY DEF DbOK, JobsOK, CaptureOK, HandlersOK, CountOK, RebuildRead, dbVars, jobVars, captureVars
<1>2. WebOK'
  <2>1. PICK rows \in SUBSET Rows :
          rebuilder' = [rebuilder EXCEPT !.pc = "tx", !.rows = rows, !.left = rows,
                                         !.settled = build \notin InProgress]
    BY DEF RebuildRead, Captured
  <2>2. (build \notin InProgress) \in BOOLEAN
    OBVIOUS
  <2> QED  BY <2>1, <2>2 DEF WebOK, RebuildRead
<1>3. GenBounded'
  BY RowSets DEF GenBounded, RebuildRead, dbVars, webVars, DbOK, CountOK, WebOK, Faulted
<1> QED  BY <1>1, <1>2, <1>3

LEMMA RebuildDeleteType ==
  ASSUME TypeInv, NEW s \in Rows, RebuildDelete(s)
  PROVE  TypeInv'
<1> USE BoundsAssumption DEF TypeInv, TypeOK
<1>1. DbOK' /\ JobsOK' /\ CaptureOK' /\ HandlersOK' /\ CountOK' /\ GenBounded'
  BY DEF DbOK, JobsOK, CaptureOK, HandlersOK, CountOK, GenBounded, WebOK, RebuildDelete, dbVars,
         jobVars, captureVars
<1>2. WebOK'
  BY DEF WebOK, RebuildDelete
<1> QED  BY <1>1, <1>2

LEMMA RebuildTxType ==
  ASSUME TypeInv, RebuildTx
  PROVE  TypeInv'
<1> USE BoundsAssumption DEF TypeInv, TypeOK
<1>1. JobsOK' /\ CaptureOK' /\ HandlersOK'
  BY DEF JobsOK, CaptureOK, HandlersOK, RebuildTx, jobVars, captureVars
<1>2. DbOK'
  BY RowSets DEF DbOK, RebuildTx, BuildStatus, InProgress, SnapStatus, Unfinished, DiffStatus, BuildUnlessCanceled, SnapsMarked, DiffsMarked
<1>3. WebOK'
  BY PendingDiffIdsType DEF WebOK, RebuildTx, webVars
<1>4. CountOK'
  <2>1. count.rebuilds \in Nat /\ count.rebuilds < MaxRebuilds
    BY DEF RebuildTx, GenBounded, CountOK
  <2>2. count.rebuilds + 1 \in 0..MaxRebuilds
    BY <2>1
  <2> QED  BY <2>2 DEF CountOK, RebuildTx
<1>5. GenBounded'
  BY RowSets DEF GenBounded, RebuildTx, dbVars, webVars, DbOK, CountOK, WebOK, Faulted
<1> QED  BY <1>1, <1>2, <1>3, <1>4, <1>5

LEMMA RebuiltQueuedType ==
  ASSUME TypeInv, RebuiltQueued
  PROVE  cjob' \in [Groups -> Job] /\ members' \in [Groups -> SUBSET Rows]
<1> USE DEF TypeInv, TypeOK
<1>1. cjob' \in [Groups -> Job]
  BY JobOperatorsType DEF JobsOK, RebuiltQueued, GroupsQueued
<1>2. members' \in [Groups -> SUBSET Rows]
  BY DEF JobsOK, WebOK, RebuiltQueued, GroupMembers
<1> QED  BY <1>1, <1>2

LEMMA RebuildEnqueueType ==
  ASSUME TypeInv, RebuildEnqueue
  PROVE  TypeInv'
<1> USE BoundsAssumption DEF TypeInv, TypeOK
<1>1. DbOK' /\ CaptureOK' /\ HandlersOK' /\ CountOK'
  BY DEF DbOK, CaptureOK, HandlersOK, CountOK, RebuildEnqueue, dbVars, captureVars
<1>2. JobsOK'
  <2>1. cjob' \in [Groups -> Job] /\ members' \in [Groups -> SUBSET Rows]
    BY RebuiltQueuedType DEF RebuildEnqueue
  <2> QED  BY <2>1 DEF JobsOK, RebuildEnqueue
<1>3. WebOK'
  BY PendingDiffIdsType DEF WebOK, RebuildEnqueue, RebuildEnded
<1>4. GenBounded'
  BY RowSets DEF GenBounded, RebuildEnqueue, RebuildEnded, dbVars, webVars, DbOK, CountOK, WebOK, Faulted
<1> QED  BY <1>1, <1>2, <1>3, <1>4

LEMMA RebuildEnqueueFailsType ==
  ASSUME TypeInv, RebuildEnqueueFails
  PROVE  TypeInv'
<1> USE BoundsAssumption DEF TypeInv, TypeOK
<1>1. JobsOK' /\ CaptureOK' /\ HandlersOK' /\ DbOK'
  <2>1. cjob' \in [Groups -> Job] /\ members' \in [Groups -> SUBSET Rows]
    BY RebuiltQueuedType DEF JobsOK, RebuildEnqueueFails
  <2> QED  BY <2>1 DEF JobsOK, CaptureOK, HandlersOK, DbOK, RebuildEnqueueFails, captureVars, dbVars
<1>3. WebOK'
  BY DEF WebOK, RebuildEnqueueFails
<1>4. CountOK'
  BY RowSets DEF CountOK, RebuildEnqueueFails, Faulted, MayFault
<1>5. GenBounded'
  BY DEF GenBounded, RebuildEnqueueFails, dbVars, CountOK, WebOK, Faulted
<1> QED  BY <1>1, <1>3, <1>4, <1>5

LEMMA RebuildMarkType ==
  ASSUME TypeInv, RebuildMark
  PROVE  TypeInv'
<1> USE BoundsAssumption DEF TypeInv, TypeOK
<1>1. DbOK' /\ JobsOK' /\ CaptureOK' /\ HandlersOK' /\ CountOK' /\ GenBounded'
  BY DEF DbOK, JobsOK, CaptureOK, HandlersOK, CountOK, GenBounded, WebOK, RebuildMark, dbVars,
         jobVars, captureVars
<1>2. WebOK'
  BY PendingDiffIdsType DEF WebOK, RebuildMark
<1> QED  BY <1>1, <1>2

LEMMA RebuildFailType ==
  ASSUME TypeInv, RebuildFail
  PROVE  TypeInv'
<1> USE BoundsAssumption DEF TypeInv, TypeOK
<1>1. JobsOK' /\ CaptureOK' /\ HandlersOK' /\ CountOK' /\ GenBounded'
  BY DEF JobsOK, CaptureOK, HandlersOK, CountOK, GenBounded, WebOK, RebuildFail, jobVars, captureVars
<1>2. DbOK'
  BY DEF DbOK, RebuildFail, BuildStatus, InProgress, SnapStatus, BuildUnlessCanceled, SnapsMarked
<1>3. WebOK'
  BY DEF WebOK, RebuildFail
<1> QED  BY <1>1, <1>2, <1>3

LEMMA RebuildUndoType ==
  ASSUME TypeInv, RebuildUndo
  PROVE  TypeInv'
<1> USE BoundsAssumption DEF TypeInv, TypeOK
<1>1. DbOK' /\ CaptureOK' /\ HandlersOK' /\ CountOK'
  BY DEF DbOK, CaptureOK, HandlersOK, CountOK, RebuildUndo, dbVars, captureVars
<1>2. JobsOK'
  BY JobOperatorsType, NoJobType DEF JobsOK, RebuildUndo, jobVars, CancelBuildJobs, FinalizeQueued, GroupsQueued, GroupMembers
<1>3. WebOK'
  BY PendingDiffIdsType DEF WebOK, RebuildUndo, RebuildEnded
<1>4. GenBounded'
  BY RowSets DEF GenBounded, RebuildUndo, RebuildEnded, dbVars, webVars, DbOK, CountOK, WebOK, Faulted
<1> QED  BY <1>1, <1>2, <1>3, <1>4

LEMMA WebFaultsType ==
  ASSUME TypeInv, WebFaults
  PROVE  TypeInv'
<1> USE BoundsAssumption DEF TypeInv, TypeOK
<1>1. DbOK' /\ JobsOK' /\ CaptureOK' /\ HandlersOK'
  BY DEF DbOK, JobsOK, CaptureOK, HandlersOK, WebFaults, dbVars, jobVars, captureVars
<1>2. WebOK'
  <2>1. {} \in SUBSET Rows /\ {} \in SUBSET DiffIds /\ FALSE \in BOOLEAN
    OBVIOUS
  <2>2. UNCHANGED reaper
    BY DEF WebFaults
  <2>3. CASE confirm' = "idle" /\ UNCHANGED <<canceler, rebuilder>>
    BY <2>2, <2>3 DEF WebOK
  <2>4. CASE canceler' = CancelEnded /\ UNCHANGED <<confirm, rebuilder>>
    BY <2>1, <2>2, <2>4 DEF WebOK, CancelEnded
  <2>5. CASE rebuilder' = RebuildEnded /\ UNCHANGED <<confirm, canceler>>
    BY <2>1, <2>2, <2>5 DEF WebOK, RebuildEnded
  <2> QED  BY <2>3, <2>4, <2>5 DEF WebFaults
<1>3. CountOK'
  BY RowSets DEF CountOK, WebFaults, Faulted, MayFault
<1>4. GenBounded'
  BY RowSets DEF GenBounded, WebFaults, RebuildEnded, dbVars, webVars, DbOK, CountOK, WebOK, Faulted
<1> QED  BY <1>1, <1>2, <1>3, <1>4

LEMMA WindowPassesType ==
  ASSUME TypeInv, WindowPasses
  PROVE  TypeInv'
<1> USE BoundsAssumption DEF TypeInv, TypeOK
<1>1. JobsOK' /\ CaptureOK' /\ HandlersOK' /\ WebOK' /\ CountOK' /\ GenBounded'
  BY DEF JobsOK, CaptureOK, HandlersOK, WebOK, CountOK, GenBounded, WindowPasses, jobVars, captureVars, webVars, dbVars
<1>2. DbOK'
  BY RowSets, Zenon DEF DbOK, WindowPasses, BuildStatus, InProgress, SnapStatus, Unfinished, DiffStatus, BuildUnlessCanceled, SnapsMarked, DiffsMarked
<1> QED  BY <1>1, <1>2

LEMMA ReaperScanType ==
  ASSUME TypeInv, ReaperScan
  PROVE  TypeInv'
<1> USE BoundsAssumption DEF TypeInv, TypeOK
<1>1. DbOK' /\ JobsOK' /\ CaptureOK' /\ HandlersOK' /\ CountOK' /\ GenBounded'
  BY DEF DbOK, JobsOK, CaptureOK, HandlersOK, CountOK, GenBounded, ReaperScan, dbVars, jobVars, captureVars, webVars
<1>2. WebOK'
  BY PendingDiffIdsType DEF WebOK, ReaperScan, webVars
<1> QED  BY <1>1, <1>2

LEMMA ReaperMarkType ==
  ASSUME TypeInv, ReaperMark \/ ReaperSelect
  PROVE  TypeInv'
<1> USE BoundsAssumption DEF TypeInv, TypeOK
<1>1. DbOK' /\ JobsOK' /\ CaptureOK' /\ HandlersOK' /\ CountOK' /\ GenBounded'
  BY DEF DbOK, JobsOK, CaptureOK, HandlersOK, CountOK, GenBounded, ReaperMark, ReaperSelect, dbVars,
         jobVars, captureVars
<1>2. WebOK'
  BY PendingDiffIdsType, RowSets DEF WebOK, ReaperMark, ReaperSelect
<1> QED  BY <1>1, <1>2

LEMMA ReaperTxType ==
  ASSUME TypeInv, ReaperTx
  PROVE  TypeInv'
<1> USE BoundsAssumption DEF TypeInv, TypeOK
<1>1. JobsOK' /\ CaptureOK' /\ HandlersOK' /\ CountOK'
  BY DEF JobsOK, CaptureOK, HandlersOK, CountOK, ReaperTx, jobVars, captureVars
<1> DEFINE without == {s \in reaper.rows : NeedsDiff(s)}
<1>2. /\ snap' = SnapsMarked(reaper.rows, "error")
      /\ diff' = [s \in Rows |-> IF s \in without THEN "error" ELSE DiffsMarked(reaper.ids, "error")[s]]
      /\ gen' = [s \in Rows |-> IF s \in without THEN gen[s] + 1 ELSE gen[s]]
  BY DEF ReaperTx
<1>3. \A s \in without : diff[s] = "none"
  BY DEF NeedsDiff
<1> HIDE DEF without
<1>4. \A s \in without : s \in Rows => /\ gen[s] + 1 \in 0..(MaxRebuilds + 1)
                                       /\ gen[s] + 1 <= count.rebuilds + 1
  BY <1>3 DEF DbOK, GenBounded, CountOK
<1>5. DiffsMarked(reaper.ids, "error") \in [Rows -> DiffStatus]
  BY DEF DbOK, DiffsMarked, DiffStatus
<1>6. DbOK'
  <2>1. diff' \in [Rows -> DiffStatus]
    BY <1>2, <1>5 DEF DiffStatus
  <2>2. gen' \in [Rows -> 0..(MaxRebuilds + 1)]
    BY <1>2, <1>4 DEF DbOK
  <2>3. snap' \in [Rows -> SnapStatus]
    BY <1>2 DEF DbOK, SnapsMarked, SnapStatus
  <2> QED  BY <2>1, <2>2, <2>3 DEF DbOK, ReaperTx, BuildUnlessCanceled, BuildStatus
<1>7. WebOK'
  <2>1. PICK over \in SUBSET Rows :
          reaper' = [reaper EXCEPT !.pc = "jobs", !.rows = {}, !.over = over]
    <3>1. reaper.over \cup {s \in Rows : /\ <<s, gen[s]>> \in reaper.ids
                                        /\ diff[s] \in {"success", "canceled"}} \in SUBSET Rows
      BY DEF WebOK
    <3>2. reaper' = [reaper EXCEPT !.pc = "jobs", !.rows = {},
                      !.over = reaper.over \cup {s \in Rows : /\ <<s, gen[s]>> \in reaper.ids
                                                            /\ diff[s] \in {"success", "canceled"}}]
      BY DEF ReaperTx
    <3> QED  BY <3>1, <3>2
  <2> QED  BY <2>1 DEF WebOK, ReaperTx
<1>8. GenBounded'
  <2>1. \A s \in Rows : diff'[s] = "none" => diff[s] = "none" /\ s \notin without
    BY <1>2 DEF DiffsMarked
  <2>2. UNCHANGED <<rebuilder, count>>
    BY DEF ReaperTx
  <2> QED  BY <1>2, <1>4, <2>1, <2>2 DEF GenBounded
<1> QED  BY <1>1, <1>6, <1>7, <1>8

LEMMA ReaperJobsType ==
  ASSUME TypeInv, ReaperJobs
  PROVE  TypeInv'
<1> USE BoundsAssumption DEF TypeInv, TypeOK
<1>1. DbOK' /\ CaptureOK' /\ HandlersOK' /\ CountOK' /\ GenBounded'
  BY DEF DbOK, CaptureOK, HandlersOK, CountOK, GenBounded, ReaperJobs, dbVars, captureVars, webVars
<1>2. JobsOK'
  BY JobOperatorsType, NoJobType DEF JobsOK, ReaperJobs, jobVars, CancelBuildJobs, FinalizeQueued, GroupsQueued, GroupMembers
<1>3. WebOK'
  BY PendingDiffIdsType DEF WebOK, ReaperJobs, ReaperEnded
<1> QED  BY <1>1, <1>2, <1>3

LEMMA ReaperFaultsType ==
  ASSUME TypeInv, ReaperFaults
  PROVE  TypeInv'
<1> USE BoundsAssumption DEF TypeInv, TypeOK
<1>1. DbOK' /\ JobsOK' /\ CaptureOK' /\ HandlersOK'
  BY DEF DbOK, JobsOK, CaptureOK, HandlersOK, ReaperFaults, dbVars, jobVars, captureVars
<1>2. WebOK'
  BY PendingDiffIdsType DEF WebOK, ReaperFaults, ReaperEnded
<1>3. CountOK'
  BY RowSets DEF CountOK, ReaperFaults, Faulted, MayFault
<1>4. GenBounded'
  BY RowSets DEF GenBounded, ReaperFaults, dbVars, webVars, DbOK, CountOK, WebOK, Faulted
<1> QED  BY <1>1, <1>2, <1>3, <1>4

-----------------------------------------------------------------------------
(* Type correctness *)

LEMMA TypeStep ==
  ASSUME TypeInv, [Next]_vars
  PROVE  TypeInv'
<1>1. CASE Web
  BY <1>1, ConfirmReadType, ConfirmEnqueueType, CancelTxType, CancelCommitType, CancelJobsType,
     RebuildReadType, RebuildDeleteType, RebuildTxType, RebuildEnqueueType, RebuildMarkType,
     RebuildFailType, RebuildUndoType DEF Web
<1>2. CASE ExtractWorker
  BY <1>2, ExtractRunType, ExtractCreateType, ExtractUnreadableType, ExtractRecheckType,
     ExtractEnqueueType, FailBuildType DEF ExtractWorker
<1>3. CASE FinalizeWorker
  BY <1>3, FinalizeRunType, FinalizeReadType, FinalizeWriteType, FinalizeDoneType,
     FailBuildType DEF FinalizeWorker
<1>4. CASE Reaper
  BY <1>4, WindowPassesType, ReaperScanType, ReaperMarkType, ReaperTxType, ReaperJobsType DEF Reaper
<1>5. CASE Faults
  BY <1>5, ConfirmFailsType, RebuildEnqueueFailsType, WebFaultsType, ExtractFaultsType,
     FinalizeFaultsType, FailedHandlerFaultsType, ReaperFaultsType, CaptureFaultsType,
     CapturePersistFailsType, DiffFaultsType DEF Faults
<1>6. ASSUME NEW h \in Holders, NEW s \in Rows, RowWorker(h, s) PROVE TypeInv'
  BY <1>6, ErrorReadType, MarkErroredType, CreateDiffType, EnqueueDiffType DEF RowWorker
<1>7. ASSUME NEW j \in Groups, CaptureWorker(j) PROVE TypeInv'
  BY <1>7, CaptureRunType, CaptureDoneType, CaptureCheckType, CaptureMarkType,
     CaptureShootType, CaptureStoreType, CaptureFailedType DEF CaptureWorker
<1>8. ASSUME NEW d \in DiffIds, DiffWorker(d) PROVE TypeInv'
  BY <1>8, DiffRunType, DiffWriteType, DiffCheckType, DiffFailedType DEF DiffWorker
<1>9. CASE UNCHANGED vars
  BY <1>9 DEF TypeInv, TypeOK, DbOK, JobsOK, CaptureOK, HandlersOK, WebOK, CountOK, GenBounded,
              vars, dbVars, jobVars, captureVars, webVars
<1> QED  BY <1>1, <1>2, <1>3, <1>4, <1>5, <1>6, <1>7, <1>8, <1>9 DEF Next

\* Every variable keeps its type: each record, map and counter of the model stays within
\* what the code can hold, the ids of diff rows included.
THEOREM TypeCorrect == Spec => []TypeOK
<1>1. Init => TypeInv
  BY InitType
<1>2. TypeInv /\ [Next]_vars => TypeInv'
  BY TypeStep
<1>3. TypeInv => TypeOK
  BY DEF TypeInv
<1> QED  BY <1>1, <1>2, <1>3, PTL DEF Spec

-----------------------------------------------------------------------------
(* Open transactions *)

\* A statement of a transaction that is not its last.
InTransaction ==
  \/ CancelTx \/ CancelSelect \/ RebuildMark \/ ReaperMark \/ ReaperSelect
  \/ \E s \in Rows : RebuildDelete(s)

\* It shows to nobody.
LEMMA NothingShows ==
  ASSUME TypeInv, InTransaction
  PROVE  /\ UNCHANGED <<dbVars, jobVars, extract, captureVars, dpc, finalizer, failing, confirm>>
         /\ UNCHANGED <<rebuilder.rows, rebuilder.settled, rebuilder.kept, canceler.missed, reaper.over>>
         /\ \A k \in {"runs", "confirms", "rebuilds", "faults"} : count'[k] = count[k]
         /\ rebuilder'.pc = rebuilder.pc \/ (rebuilder.pc = "mark" /\ rebuilder'.pc = "fail")
<1> USE DEF TypeInv, TypeOK, WebOK, CountOK
<1>1. CASE CancelTx
  BY <1>1, Zenon DEF CancelTx
<1>2. CASE CancelSelect
  BY <1>2 DEF CancelSelect
<1>3. CASE RebuildMark
  BY <1>3 DEF RebuildMark
<1>4. CASE ReaperMark \/ ReaperSelect
  BY <1>4 DEF ReaperMark, ReaperSelect
<1>5. CASE \E s \in Rows : RebuildDelete(s)
  BY <1>5 DEF RebuildDelete
<1> QED  BY <1>1, <1>2, <1>3, <1>4, <1>5 DEF InTransaction

-----------------------------------------------------------------------------
(* Canceled is final *)

LEMMA UnlessCanceled == \A status : build = "canceled" => BuildUnlessCanceled(status) = "canceled"
BY DEF BuildUnlessCanceled

LEMMA CanceledStep ==
  ASSUME [Next]_vars, build = "canceled"
  PROVE  build' = "canceled"
<1> USE UnlessCanceled
<1>1. CASE Web
  <2>1. CASE ConfirmRead \/ ConfirmEnqueue \/ CancelTx \/ CancelSelect \/ CancelJobs
    BY <2>1, Zenon DEF ConfirmRead, ConfirmEnqueue, CancelTx, CancelSelect, CancelJobs, dbVars
  <2>2. CASE RebuildRead \/ RebuildEnqueue \/ RebuildMark \/ RebuildUndo
    BY <2>2, Zenon DEF RebuildRead, RebuildEnqueue, RebuildMark, RebuildUndo, dbVars
  <2>3. ASSUME NEW s \in Rows, RebuildDelete(s) PROVE build' = "canceled"
    BY <2>3 DEF RebuildDelete, dbVars
  <2>4. CASE CancelCommit \/ RebuildTx \/ RebuildFail
    BY <2>4 DEF CancelCommit, RebuildTx, RebuildFail
  <2> QED  BY <1>1, <2>1, <2>2, <2>3, <2>4 DEF Web
<1>2. CASE ExtractWorker
  BY <1>2, Zenon DEF ExtractWorker, ExtractRun, ExtractCreate, ExtractUnreadable, ExtractRecheck,
              ExtractEnqueue, FailBuild, dbVars
<1>3. CASE FinalizeWorker
  BY <1>3 DEF FinalizeWorker, FinalizeRun, FinalizeRead, FinalizeWrite, FinalizeDone, FailBuild,
              dbVars
<1>4. CASE Reaper
  BY <1>4 DEF Reaper, WindowPasses, ReaperScan, ReaperMark, ReaperSelect, ReaperTx, ReaperJobs, dbVars
<1>5. CASE Faults
  BY <1>5, Zenon DEF Faults, ConfirmFails, RebuildEnqueueFails, WebFaults, ExtractFaults,
              FinalizeFaults, FailedHandlerFaults, ReaperFaults, CaptureFaults,
              CapturePersistFails, DiffFaults, dbVars
<1>6. ASSUME NEW h \in Holders, NEW s \in Rows, RowWorker(h, s) PROVE build' = "canceled"
  BY <1>6 DEF RowWorker, ErrorRead, MarkErrored, CreateDiff, EnqueueDiff, dbVars
<1>7. ASSUME NEW j \in Groups, CaptureWorker(j) PROVE build' = "canceled"
  BY <1>7 DEF CaptureWorker, CaptureRun, CaptureDone, CaptureCheck, CaptureMark, CaptureShoot,
              CaptureStore, CaptureFailed, dbVars
<1>8. ASSUME NEW d \in DiffIds, DiffWorker(d) PROVE build' = "canceled"
  BY <1>8 DEF DiffWorker, DiffRun, DiffWrite, DiffCheck, DiffFailed, dbVars
<1>9. CASE UNCHANGED vars
  BY <1>9 DEF vars, dbVars
<1> QED  BY <1>1, <1>2, <1>3, <1>4, <1>5, <1>6, <1>7, <1>8, <1>9 DEF Next

\* No confirmation, failed handler, finalization, rebuild or reaping, however late it is,
\* takes a build out of canceled.
THEOREM CanceledStaysCanceled == Spec => CanceledIsFinal
<1>1. [Next]_vars => [build = "canceled" => build' = "canceled"]_vars
  BY CanceledStep
<1> QED  BY <1>1, PTL DEF Spec, CanceledIsFinal

-----------------------------------------------------------------------------
(* BuildPipeline implements BuildLifecycle *)

\* A rebuild that read a settled build finds it settled when it requeues it: nothing else
\* puts a build back in progress.
RequeuesSettled == rebuilder.pc = "tx" /\ rebuilder.settled => build \notin InProgress

\* A cancellation that has updated a build in progress keeps it there until it commits.
LockedInProgress == BuildLocked => build \in InProgress

LifeInv == RequeuesSettled /\ LockedInProgress

\* What a step may do to the build, in the words of BuildLifecycle, with LifeInv kept.
LifeKept == (build' = build \/ Life!Next) /\ LifeInv'

LEMMA LifeUnchanged ==
  ASSUME LifeInv, UNCHANGED <<build, rebuilder, canceler>>
  PROVE  LifeKept
BY DEF LifeInv, RequeuesSettled, LockedInProgress, BuildLocked, LifeKept

\* A verdict is written under the guard on canceled builds.
LEMMA LifeSettled ==
  ASSUME NEW verdict \in {"success", "error"}, build \in BuildStatus, ~BuildLocked,
         build' = BuildUnlessCanceled(verdict), UNCHANGED canceler
  PROVE  LifeKept
BY DEF LifeKept, LifeInv, RequeuesSettled, LockedInProgress, BuildLocked, BuildUnlessCanceled, BuildStatus,
       InProgress, Life!Next, Life!Settle, Life!Settled

LEMMA LifeWeb ==
  ASSUME TypeInv, LifeInv, Web
  PROVE  LifeKept
<1> USE DEF LifeInv, LockedInProgress, BuildLocked
<1>1. CASE ConfirmRead \/ ConfirmEnqueue
  BY <1>1, LifeUnchanged DEF ConfirmRead, ConfirmEnqueue, dbVars
<1>2. CASE CancelTx \/ CancelSelect \/ CancelJobs
  BY <1>2 DEF CancelTx, CancelSelect, CancelJobs, CancelEnded, dbVars, LifeKept, RequeuesSettled, TypeInv,
              TypeOK, WebOK
<1>3. CASE CancelCommit
  BY <1>3 DEF CancelCommit, LifeKept, RequeuesSettled, InProgress, Life!Next, Life!Cancel,
              Life!InProgress, TypeInv, TypeOK, WebOK
<1>4. CASE RebuildRead
  <2>1. build' = build /\ canceler' = canceler
    BY <1>4 DEF RebuildRead, dbVars
  <2> PICK rows \in SUBSET Captured :
        rebuilder' = [rebuilder EXCEPT !.pc = "tx", !.rows = rows, !.left = rows,
                                       !.settled = build \notin InProgress]
    BY <1>4 DEF RebuildRead
  <2>2. rebuilder'.settled <=> build \notin InProgress
    BY Zenon DEF TypeInv, TypeOK, WebOK
  <2> QED  BY <2>1, <2>2 DEF LifeKept, RequeuesSettled, InProgress
<1>5. CASE RebuildTx
  <2>1. build \in BuildStatus /\ rebuilder.pc = "tx" /\ rebuilder'.pc = "enqueue"
    BY <1>5 DEF RebuildTx, TypeInv, TypeOK, DbOK, WebOK
  <2>2. rebuilder.settled => build \in {"success", "error", "canceled"} /\ ~BuildLocked
    BY <1>5, <2>1 DEF RequeuesSettled, BuildStatus, InProgress, RebuildTx
  <2>3. /\ build' = IF rebuilder.settled THEN BuildUnlessCanceled("queued") ELSE build
        /\ canceler' = canceler
    BY <1>5 DEF RebuildTx
  <2> QED  BY <2>1, <2>2, <2>3 DEF LifeKept, RequeuesSettled, BuildUnlessCanceled, Life!Next,
                                  Life!Requeue, Life!Settled
<1>6. CASE RebuildEnqueue \/ RebuildUndo \/ RebuildMark \/ \E s \in Rows : RebuildDelete(s)
  BY <1>6 DEF RebuildEnqueue, RebuildUndo, RebuildEnded, RebuildMark, RebuildDelete, dbVars, LifeKept,
              RequeuesSettled, TypeInv, TypeOK, WebOK
<1>7. CASE RebuildFail
  BY <1>7, LifeSettled DEF RebuildFail, TypeInv, TypeOK, DbOK
<1> QED  BY <1>1, <1>2, <1>3, <1>4, <1>5, <1>6, <1>7 DEF Web

LEMMA LifeFaults ==
  ASSUME TypeInv, LifeInv, Faults
  PROVE  LifeKept
<1>1. build \in BuildStatus
  BY DEF TypeInv, TypeOK, DbOK
<1>2. CASE ConfirmFails
  BY <1>1, <1>2, LifeSettled DEF ConfirmFails
<1>3. CASE WebFaults \/ RebuildEnqueueFails
  BY <1>3 DEF WebFaults, RebuildEnqueueFails, CancelEnded, RebuildEnded, dbVars, LifeKept, LifeInv,
              RequeuesSettled, LockedInProgress, BuildLocked, TypeInv, TypeOK, WebOK
<1>4. CASE ExtractFaults \/ FinalizeFaults \/ FailedHandlerFaults \/ ReaperFaults
  BY <1>4, LifeUnchanged DEF ExtractFaults, FinalizeFaults, FailedHandlerFaults, ReaperFaults,
                             dbVars, webVars
<1>5. ASSUME NEW j \in Groups, CaptureFaults(j) \/ \E s \in Rows : CapturePersistFails(j, s)
      PROVE  LifeKept
  BY <1>5, LifeUnchanged, Zenon DEF CaptureFaults, CapturePersistFails, dbVars, webVars
<1>6. ASSUME NEW d \in DiffIds, DiffFaults(d) PROVE LifeKept
  BY <1>6, LifeUnchanged DEF DiffFaults, dbVars, webVars
<1> QED  BY <1>2, <1>3, <1>4, <1>5, <1>6 DEF Faults

LEMMA LifeStep ==
  ASSUME TypeInv, LifeInv, [Next]_vars
  PROVE  LifeKept
<1>1. build \in BuildStatus /\ finalizer.verdict \in {"success", "error"}
  BY DEF TypeInv, TypeOK, DbOK, HandlersOK
<1>2. CASE Web
  BY <1>2, LifeWeb
<1>3. CASE ExtractWorker
  BY <1>1, <1>3, LifeUnchanged, LifeSettled, Zenon
     DEF ExtractWorker, ExtractRun, ExtractCreate, ExtractUnreadable, ExtractRecheck,
         ExtractEnqueue, FailBuild, dbVars, webVars
<1>4. CASE FinalizeWorker
  BY <1>1, <1>4, LifeUnchanged, LifeSettled
     DEF FinalizeWorker, FinalizeRun, FinalizeRead, FinalizeWrite, FinalizeDone, FailBuild,
         dbVars, webVars
<1>5. CASE Reaper
  BY <1>1, <1>5, LifeUnchanged, LifeSettled
     DEF Reaper, WindowPasses, ReaperScan, ReaperMark, ReaperSelect, ReaperTx, ReaperJobs, dbVars, webVars
<1>6. CASE Faults
  BY <1>6, LifeFaults
<1>7. ASSUME NEW h \in Holders, NEW s \in Rows, RowWorker(h, s) PROVE LifeKept
  BY <1>7, LifeUnchanged
     DEF RowWorker, ErrorRead, MarkErrored, CreateDiff, EnqueueDiff, dbVars, webVars
<1>8. ASSUME NEW j \in Groups, CaptureWorker(j) PROVE LifeKept
  <2>1. CASE \E s \in Rows : CaptureMark(j, s)
    BY <2>1 DEF CaptureMark, webVars, LifeKept, LifeInv, RequeuesSettled, LockedInProgress, BuildLocked,
                InProgress, Life!Next, Life!Start
  <2>2. CASE CaptureRun(j) \/ CaptureDone(j)
    BY <2>2, LifeUnchanged DEF CaptureRun, CaptureDone, dbVars, webVars
  <2>3. CASE \E s \in Rows : \/ CaptureCheck(j, s) \/ CaptureShoot(j, s)
                             \/ CaptureStore(j, s) \/ CaptureFailed(j, s)
    BY <2>3, LifeUnchanged
       DEF CaptureCheck, CaptureShoot, CaptureStore, CaptureFailed, dbVars, webVars
  <2> QED  BY <1>8, <2>1, <2>2, <2>3 DEF CaptureWorker
<1>9. ASSUME NEW d \in DiffIds, DiffWorker(d) PROVE LifeKept
  BY <1>9, LifeUnchanged
     DEF DiffWorker, DiffRun, DiffWrite, DiffCheck, DiffFailed, dbVars, webVars
<1>10. CASE UNCHANGED vars
  BY <1>10, LifeUnchanged DEF vars, dbVars, webVars
<1> QED  BY <1>2, <1>3, <1>4, <1>5, <1>6, <1>7, <1>8, <1>9, <1>10 DEF Next

\* Every step of the pipeline is, for the build's status, a step of BuildLifecycle or none.
\* (That the build settles, the rest of ImplementsLifecycle, is checked by TLC.)
THEOREM LifecycleImplemented == Spec => Life!Safety
<1>1. Init => Life!Init
  BY DEF Init, Life!Init
<1>2. Init => TypeInv /\ LifeInv
  BY InitType DEF Init, LifeInv, RequeuesSettled, LockedInProgress, BuildLocked
<1>3. TypeInv /\ LifeInv /\ [Next]_vars => (TypeInv /\ LifeInv)'
  BY TypeStep, LifeStep DEF LifeKept
<1>4. TypeInv /\ LifeInv /\ [Next]_vars => [Life!Next]_build
  BY LifeStep DEF LifeKept
<1> QED  BY <1>1, <1>2, <1>3, <1>4, PTL DEF Spec, Life!Safety

-----------------------------------------------------------------------------
(* A diff that passed has an image *)

\* What keeps an old comparison from passing the diff of a requeued snapshot: a comparison
\* that found an image passes only while the diff row it was queued for exists, the diffs
\* inserted behind the DELETE of a rebuild aside, and no job or handler is ahead of the diff
\* rows there have been.
PassingHasImage ==
  \A d \in DiffIds :
    dpc[d] = "pass" /\ DiffExists(d) => image[d[1]] # "none" \/ d[1] \in rebuilder.kept
NoJobAhead ==
  \A d \in DiffIds : gen[d[1]] < d[2] => djob[d].st = "none" /\ dpc[d] = "idle"
HeldNotAhead == \A h \in Holders, s \in Rows : held[h][s] <= gen[s]

DiffInv == PassedDiffHasImage /\ PassingHasImage /\ NoJobAhead /\ HeldNotAhead

diffVars == <<image, diff, gen, djob, dpc, held, rebuilder.kept>>

LEMMA DiffInvUnchanged ==
  ASSUME DiffInv, UNCHANGED diffVars
  PROVE  DiffInv'
BY DEF DiffInv, PassedDiffHasImage, PassingHasImage, DiffExists, NoJobAhead, HeldNotAhead, diffVars

\* Resetting what a holder holds, or dropping jobs, puts nothing ahead.
LEMMA DiffInvHeld ==
  ASSUME TypeInv, DiffInv, NEW h \in Holders,
         UNCHANGED <<image, diff, gen, djob, dpc, rebuilder.kept>>,
         \/ held' = [held EXCEPT ![h] = NoneHeld]
         \/ \E s \in Rows : held' = [held EXCEPT ![h][s] = 0]
  PROVE  DiffInv'
<1>1. HeldNotAhead'
  <2>1. \A s \in Rows : 0 <= gen[s]
    BY BoundsAssumption DEF TypeInv, TypeOK, DbOK
  <2>2. CASE held' = [held EXCEPT ![h] = NoneHeld]
    BY <2>1, <2>2 DEF DiffInv, HeldNotAhead, NoneHeld, TypeInv, TypeOK, CaptureOK
  <2>3. CASE \E s \in Rows : held' = [held EXCEPT ![h][s] = 0]
    BY <2>1, <2>3 DEF DiffInv, HeldNotAhead, TypeInv, TypeOK, CaptureOK
  <2> QED  BY <2>2, <2>3
<1> QED  BY <1>1 DEF DiffInv, PassedDiffHasImage, PassingHasImage, DiffExists, NoJobAhead

LEMMA DiffInvDropped ==
  ASSUME TypeInv, DiffInv, NEW ids \in SUBSET DiffIds, CancelBuildJobs(ids),
         UNCHANGED <<image, diff, gen, dpc, held, rebuilder.kept>>
  PROVE  DiffInv'
<1>1. \A d \in DiffIds : djob[d].st = "none" => djob'[d].st = "none"
  BY DEF CancelBuildJobs, RemoveJob, NoJob, TypeInv, TypeOK, JobsOK
<1> QED  BY <1>1 DEF DiffInv, PassedDiffHasImage, PassingHasImage, DiffExists, NoJobAhead, HeldNotAhead

LEMMA CreateDiffInv ==
  ASSUME TypeInv, DiffInv, NEW h \in Holders, NEW s \in Rows, CreateDiff(h, s)
  PROVE  DiffInv'
<1> USE BoundsAssumption, RowSets DEF TypeInv, TypeOK, DbOK, JobsOK, CaptureOK, DiffInv
<1>1. UNCHANGED <<image, djob, dpc, rebuilder>>
  BY DEF CreateDiff, jobVars, webVars
<1>2. \/ diff' = [diff EXCEPT ![s] = "pending"] /\ gen' = [gen EXCEPT ![s] = @ + 1]
      \/ UNCHANGED <<diff, gen>>
  BY DEF CreateDiff
<1>3. \/ held' = [held EXCEPT ![h][s] = gen[s] + 1] /\ gen' = [gen EXCEPT ![s] = @ + 1]
      \/ held' = [held EXCEPT ![h][s] = gen[s]] /\ gen' = gen
      \/ UNCHANGED <<held, gen>>
  BY DEF CreateDiff
<1>4. PassedDiffHasImage'
  BY <1>1, <1>2 DEF PassedDiffHasImage
<1>5. NoJobAhead'
  BY <1>1, <1>2 DEF NoJobAhead
<1>6. PassingHasImage'
  BY <1>1, <1>2 DEF PassingHasImage, NoJobAhead, DiffExists
<1>7. HeldNotAhead'
  <2>1. CASE held' = [held EXCEPT ![h][s] = gen[s] + 1] /\ gen' = [gen EXCEPT ![s] = @ + 1]
    BY <2>1 DEF HeldNotAhead
  <2>2. CASE held' = [held EXCEPT ![h][s] = gen[s]] /\ gen' = gen
    BY <2>2 DEF HeldNotAhead
  <2>3. CASE UNCHANGED <<held, gen>>
    BY <2>3 DEF HeldNotAhead
  <2> QED  BY <1>3, <2>1, <2>2, <2>3
<1> QED  BY <1>4, <1>5, <1>6, <1>7

LEMMA EnqueueDiffInv ==
  ASSUME TypeInv, DiffInv, NEW h \in Holders, NEW s \in Rows, EnqueueDiff(h, s)
  PROVE  DiffInv'
<1> USE BoundsAssumption, RowSets DEF TypeInv, TypeOK, DbOK, JobsOK, CaptureOK, DiffInv
<1>1. UNCHANGED <<image, diff, gen, dpc, rebuilder>>
  BY DEF EnqueueDiff, dbVars, webVars
<1>2. \A d \in DiffIds : d = <<s, held[h][s]>> \/ djob'[d] = djob[d]
  BY DEF EnqueueDiff
<1>3. \A d \in DiffIds : d = <<s, held[h][s]>> => d[2] <= gen[d[1]]
  BY DEF HeldNotAhead
<1>4. NoJobAhead'
  BY <1>1, <1>2, <1>3 DEF NoJobAhead
<1>5. HeldNotAhead'
  BY <1>1 DEF HeldNotAhead, EnqueueDiff
<1> QED  BY <1>1, <1>4, <1>5 DEF PassedDiffHasImage, PassingHasImage, DiffExists

LEMMA CapturePersistFailsInv ==
  ASSUME TypeInv, DiffInv, NEW j \in Groups, NEW s \in Rows, CapturePersistFails(j, s)
  PROVE  DiffInv'
<1> USE BoundsAssumption, RowSets, HolderSets DEF TypeInv, TypeOK, DbOK, JobsOK, CaptureOK, DiffInv
<1>1. UNCHANGED <<image, diff, gen, dpc, rebuilder>>
  BY DEF CapturePersistFails, dbVars, webVars
<1>2. \A d \in DiffIds : d = <<s, held[j][s]>> \/ djob'[d] = djob[d]
  BY DEF CapturePersistFails
<1>3. \A d \in DiffIds : d = <<s, held[j][s]>> => d[2] <= gen[d[1]]
  BY DEF HeldNotAhead
<1>4. NoJobAhead'
  BY <1>1, <1>2, <1>3 DEF NoJobAhead
<1>5. HeldNotAhead'
  BY <1>1 DEF HeldNotAhead, CapturePersistFails
<1> QED  BY <1>1, <1>4, <1>5 DEF PassedDiffHasImage, PassingHasImage, DiffExists

\* A step of the comparison d, which has a job and so is not ahead.
LEMMA DiffWorkerInv ==
  ASSUME TypeInv, DiffInv, NEW d \in DiffIds, DiffWorker(d) \/ DiffFaults(d)
  PROVE  DiffInv'
<1> USE BoundsAssumption, RowSets DEF TypeInv, TypeOK, DbOK, JobsOK, CaptureOK, HandlersOK, DiffInv
<1>1. UNCHANGED <<image, gen, held, rebuilder>>
  BY DEF DiffWorker, DiffRun, DiffWrite, DiffCheck, DiffFailed, DiffFaults, dbVars, captureVars, webVars
<1>2. djob[d].st # "none" \/ dpc[d] # "idle"
  BY DEF DiffWorker, DiffRun, DiffWrite, DiffCheck, DiffFailed, DiffFaults
<1>3. \A e \in DiffIds : e = d \/ (djob'[e] = djob[e] /\ dpc'[e] = dpc[e])
  BY DEF DiffWorker, DiffRun, DiffWrite, DiffCheck, DiffFailed, DiffFaults, dbVars, jobVars
<1>4. \A s \in Rows : \/ diff'[s] = diff[s]
                      \/ s = d[1] /\ DiffExists(d) /\ diff'[s] = "error"
                      \/ s = d[1] /\ DiffExists(d) /\ diff'[s] = "success" /\ dpc[d] = "pass"
  BY DEF DiffWorker, DiffRun, DiffWrite, DiffCheck, DiffFailed, DiffFaults, dbVars
<1>5. dpc'[d] = "pass" => dpc[d] = "pass" \/ image[d[1]] = "good"
  BY DEF DiffWorker, DiffRun, DiffWrite, DiffCheck, DiffFailed, DiffFaults, Uncomparable
<1>6. \A e \in DiffIds : DiffExists(e)' => DiffExists(e)
  BY <1>1, <1>4, Zenon DEF DiffExists
<1>7. PassedDiffHasImage'
  BY <1>1, <1>4 DEF PassedDiffHasImage, PassingHasImage
<1>8. NoJobAhead'
  BY <1>1, <1>2, <1>3 DEF NoJobAhead
<1>9. PassingHasImage'
  BY <1>1, <1>3, <1>5, <1>6 DEF PassingHasImage
<1> QED  BY <1>1, <1>7, <1>8, <1>9 DEF HeldNotAhead

LEMMA CaptureStoreInv ==
  ASSUME TypeInv, DiffInv, NEW j \in Groups, NEW s \in Rows, CaptureStore(j, s)
  PROVE  DiffInv'
<1>1. UNCHANGED <<diff, gen, djob, dpc, held, rebuilder>>
  BY DEF CaptureStore, jobVars, webVars
<1>2. \A r \in Rows : image[r] # "none" => image'[r] # "none"
  BY DEF CaptureStore, TypeInv, TypeOK, DbOK
<1> QED  BY <1>1, <1>2, RowSets
         DEF DiffInv, PassedDiffHasImage, PassingHasImage, DiffExists, NoJobAhead, HeldNotAhead

LEMMA CancelCommitInv ==
  ASSUME TypeInv, DiffInv, CancelCommit
  PROVE  DiffInv'
<1>1. UNCHANGED <<image, gen, djob, dpc, held, rebuilder>>
  BY DEF CancelCommit, jobVars, captureVars
<1>2. \A s \in Rows : diff'[s] = diff[s] \/ (diff[s] # "none" /\ diff'[s] = "canceled")
  BY DEF CancelCommit, DiffsMarked
<1> QED  BY <1>1, <1>2, RowSets
         DEF DiffInv, PassedDiffHasImage, PassingHasImage, DiffExists, NoJobAhead, HeldNotAhead

\* The images and the diffs of the requeued snapshots go together, the diffs inserted behind
\* the DELETE aside.
LEMMA RebuildTxInv ==
  ASSUME TypeInv, DiffInv, RebuildTx
  PROVE  DiffInv'
<1>1. UNCHANGED <<gen, djob, dpc, held>>
  BY DEF RebuildTx, jobVars, captureVars
<1>2. \A s \in Rows : \/ diff'[s] = "none"
                      \/ s \in rebuilder'.kept
                      \/ diff'[s] = diff[s] /\ image'[s] = image[s] /\ s \notin rebuilder.kept
  BY DEF RebuildTx, DiffsDeleted, TypeInv, TypeOK, WebOK
<1>3. PassedDiffHasImage'
  BY <1>2 DEF DiffInv, PassedDiffHasImage
<1>4. PassingHasImage'
  BY <1>1, <1>2, RowSets DEF DiffInv, PassingHasImage, DiffExists
<1> QED  BY <1>1, <1>3, <1>4 DEF DiffInv, NoJobAhead, HeldNotAhead

LEMMA ReaperTxInv ==
  ASSUME TypeInv, DiffInv, ReaperTx
  PROVE  DiffInv'
<1> USE RowSets, BoundsAssumption DEF TypeInv, TypeOK, DbOK
<1>1. UNCHANGED <<image, djob, dpc, held, rebuilder>>
  BY DEF ReaperTx, jobVars, captureVars
<1>2. \A s \in Rows :
        \/ gen'[s] = gen[s] /\ diff'[s] = diff[s]
        \/ gen'[s] = gen[s] /\ diff[s] # "none" /\ diff'[s] = "error"
        \/ gen'[s] = gen[s] + 1 /\ diff'[s] = "error"
  BY DEF ReaperTx, DiffsMarked
<1>3. \A s \in Rows : gen[s] <= gen'[s]
  BY <1>2
<1>4. PassedDiffHasImage'
  BY <1>1, <1>2 DEF DiffInv, PassedDiffHasImage
<1>5. NoJobAhead'
  BY <1>1, <1>2 DEF DiffInv, NoJobAhead
<1>6. PassingHasImage'
  BY <1>1, <1>2 DEF DiffInv, PassingHasImage, NoJobAhead, DiffExists
<1>7. HeldNotAhead'
  BY <1>1, <1>2 DEF DiffInv, HeldNotAhead, CaptureOK
<1> QED  BY <1>4, <1>5, <1>6, <1>7 DEF DiffInv

LEMMA FailedHandlerInv ==
  ASSUME TypeInv, DiffInv, FailedHandlerFaults
  PROVE  DiffInv'
<1> USE BoundsAssumption, RowSets, HolderSets
<1>1. UNCHANGED <<image, diff, gen, djob, rebuilder>>
  BY DEF FailedHandlerFaults, dbVars, jobVars, webVars
<1>2. CASE UNCHANGED <<captureVars, dpc>>
  BY <1>1, <1>2, DiffInvUnchanged DEF captureVars, diffVars
<1>3. CASE \E j \in Groups : held' = [held EXCEPT ![j] = NoneHeld] /\ UNCHANGED dpc
  BY <1>1, <1>3, DiffInvHeld, Zenon
<1>4. CASE \E d \in DiffIds : dpc' = [dpc EXCEPT ![d] = "idle"] /\ UNCHANGED captureVars
  BY <1>1, <1>4 DEF DiffInv, PassedDiffHasImage, PassingHasImage, DiffExists, NoJobAhead,
                    HeldNotAhead, captureVars, TypeInv, TypeOK, HandlersOK
<1> QED  BY <1>2, <1>3, <1>4 DEF FailedHandlerFaults

LEMMA DiffInvStep ==
  ASSUME TypeInv, DiffInv, [Next]_vars
  PROVE  DiffInv'
<1>1. CASE Web
  <2>1. CASE ConfirmRead \/ ConfirmEnqueue \/ RebuildRead \/ RebuildEnqueue \/ RebuildFail
    BY <2>1, DiffInvUnchanged DEF ConfirmRead, ConfirmEnqueue, RebuildRead, RebuildEnqueue,
       RebuildEnded, RebuildFail, dbVars, jobVars, captureVars, diffVars, TypeInv, TypeOK, WebOK
  <2>2. CASE CancelJobs \/ RebuildUndo
    <3>1. \E ids \in SUBSET DiffIds : CancelBuildJobs(ids)
      BY <2>2 DEF CancelJobs, RebuildUndo, TypeInv, TypeOK, WebOK
    <3> QED  BY <2>2, <3>1, DiffInvDropped DEF CancelJobs, RebuildUndo, RebuildEnded, dbVars,
                captureVars, TypeInv, TypeOK, WebOK
  <2>3. CASE InTransaction
    BY <2>3, NothingShows, DiffInvUnchanged DEF dbVars, jobVars, captureVars, diffVars
  <2> QED  BY <1>1, <2>1, <2>2, <2>3, CancelCommitInv, RebuildTxInv DEF Web, InTransaction
<1>2. CASE ExtractWorker
  BY <1>2, DiffInvUnchanged, Zenon
     DEF ExtractWorker, ExtractRun, ExtractCreate, ExtractUnreadable, ExtractRecheck,
         ExtractEnqueue, FailBuild, dbVars, jobVars, captureVars, webVars, diffVars
<1>3. CASE FinalizeWorker
  BY <1>3, DiffInvUnchanged
     DEF FinalizeWorker, FinalizeRun, FinalizeRead, FinalizeWrite, FinalizeDone, FailBuild,
         dbVars, jobVars, captureVars, webVars, diffVars
<1>4. CASE Reaper
  <2>1. CASE WindowPasses \/ ReaperScan
    BY <2>1, DiffInvUnchanged DEF WindowPasses, ReaperScan, dbVars, jobVars, captureVars, webVars, diffVars
  <2>2. CASE ReaperJobs
    BY <2>2, DiffInvDropped DEF ReaperJobs, dbVars, captureVars, TypeInv, TypeOK, WebOK
  <2>3. CASE InTransaction
    BY <2>3, NothingShows, DiffInvUnchanged DEF dbVars, jobVars, captureVars, diffVars
  <2> QED  BY <1>4, <2>1, <2>2, <2>3, ReaperTxInv DEF Reaper, InTransaction
<1>5. CASE Faults
  <2>1. CASE ConfirmFails \/ RebuildEnqueueFails \/ WebFaults \/ FinalizeFaults \/ ReaperFaults
    BY <2>1, DiffInvUnchanged DEF ConfirmFails, RebuildEnqueueFails, WebFaults, RebuildEnded,
       FinalizeFaults, ReaperFaults, dbVars, jobVars, captureVars, webVars, diffVars, TypeInv, TypeOK, WebOK
  <2>2. CASE ExtractFaults
    BY <2>2, DiffInvHeld, HolderSets, Zenon DEF ExtractFaults, dbVars, webVars
  <2>3. ASSUME NEW j \in Groups, CaptureFaults(j) PROVE DiffInv'
    BY <2>3, DiffInvHeld, HolderSets, Zenon DEF CaptureFaults, dbVars, webVars
  <2>4. ASSUME NEW j \in Groups, NEW s \in Rows, CapturePersistFails(j, s) PROVE DiffInv'
    BY <2>4, CapturePersistFailsInv
  <2> QED  BY <1>5, <2>1, <2>2, <2>3, <2>4, FailedHandlerInv, DiffWorkerInv DEF Faults
<1>6. ASSUME NEW h \in Holders, NEW s \in Rows, RowWorker(h, s) PROVE DiffInv'
  <2>1. CASE ErrorRead(h, s) \/ MarkErrored(h, s)
    BY <2>1, DiffInvUnchanged DEF ErrorRead, MarkErrored, dbVars, jobVars, webVars, diffVars
  <2> QED  BY <1>6, <2>1, CreateDiffInv, EnqueueDiffInv DEF RowWorker
<1>7. ASSUME NEW j \in Groups, CaptureWorker(j) PROVE DiffInv'
  <2>1. CASE CaptureRun(j) \/ CaptureDone(j)
    BY <2>1, DiffInvUnchanged DEF CaptureRun, CaptureDone, dbVars, captureVars, webVars, diffVars
  <2>2. ASSUME NEW s \in Rows, \/ CaptureCheck(j, s) \/ CaptureMark(j, s) \/ CaptureShoot(j, s)
                              \/ CaptureFailed(j, s)
        PROVE  DiffInv'
    BY <2>2, DiffInvUnchanged DEF CaptureCheck, CaptureMark, CaptureShoot, CaptureFailed, dbVars,
       jobVars, webVars, diffVars
  <2> QED  BY <1>7, <2>1, <2>2, CaptureStoreInv DEF CaptureWorker
<1>8. ASSUME NEW d \in DiffIds, DiffWorker(d) PROVE DiffInv'
  BY <1>8, DiffWorkerInv
<1>9. CASE UNCHANGED vars
  BY <1>9, DiffInvUnchanged DEF vars, dbVars, jobVars, captureVars, webVars, diffVars
<1> QED  BY <1>1, <1>2, <1>3, <1>4, <1>5, <1>6, <1>7, <1>8, <1>9 DEF Next

\* A diff passes only for a snapshot that has an image, whatever a rebuild takes away while
\* captures and comparisons of an earlier round are under way.
THEOREM PassedDiffsHaveImages == Spec => []PassedDiffHasImage
<1>1. Init => TypeInv /\ DiffInv
  <2>1. Init => DiffInv
    BY RowSets DEF Init, DiffInv, PassedDiffHasImage, PassingHasImage, NoJobAhead, HeldNotAhead,
                   NoJob
  <2> QED  BY <2>1, InitType
<1>2. TypeInv /\ DiffInv /\ [Next]_vars => TypeInv' /\ DiffInv'
  BY TypeStep, DiffInvStep
<1>3. DiffInv => PassedDiffHasImage
  BY DEF DiffInv
<1> QED  BY <1>1, <1>2, <1>3, PTL DEF Spec

-----------------------------------------------------------------------------
(* No success before its diffs *)

\* The build has been extracted once at most, and not rebuilt.
Once == count.runs <= 1 /\ count.rebuilds = 0

Here(s) == snap[s] \notin {"absent", "skipped"}

\* A row that is there stays, and nobody works on another: the rows of a run are inserted by
\* that run, the unreadable ones one by one.
RowsPresent ==
  /\ \A s \in Rows : s[2] > count.runs => snap[s] = "absent"
  /\ \A s \in extract.bad : snap[s] = "absent" /\ s[2] <= count.runs
  /\ extract.pc = "unreadable" \/ extract.bad = {}
  /\ \A s \in extract.queued \cup rebuilder.rows : Here(s)
  /\ \A j \in Groups : \A s \in members[j] : Here(s)
  /\ \A h \in Holders, s \in Rows : step[h][s] # "no" => Here(s)
  /\ \A s \in Rows : diff[s] # "none" => Here(s)

RowsStay == RowsPresent' /\ \A s \in Rows : Here(s) => Here(s)'

\* A step that inserts no row.
LEMMA RowsStayHere ==
  ASSUME TypeInv, TypeInv', RowsPresent, count'.runs = count.runs,
         \A s \in Rows : snap'[s] = snap[s] \/ (Here(s) /\ Here(s)'),
         extract'.bad = {} \/ (extract'.bad = extract.bad /\ extract'.pc = extract.pc),
         \A s \in extract'.queued \cup rebuilder'.rows : Here(s),
         \A j \in Groups : \A s \in members'[j] : Here(s),
         \A h \in Holders, s \in Rows : step'[h][s] # "no" => Here(s),
         \A s \in Rows : diff'[s] # "none" => Here(s)
  PROVE  RowsStay
<1>1. \A s \in Rows : (Here(s) => Here(s)') /\ (snap[s] = "absent" => snap'[s] = "absent")
  BY DEF Here
<1>2. extract.bad \subseteq Rows /\ extract'.queued \cup rebuilder'.rows \subseteq Rows
      /\ \A j \in Groups : members'[j] \subseteq Rows
  BY DEF TypeInv, TypeOK, HandlersOK, WebOK, JobsOK
<1> QED  BY <1>1, <1>2 DEF RowsPresent, RowsStay

\* The rows an open transaction has updated stay unfinished until it commits: nobody else
\* updates them, and a row that is there is not inserted again.
LocksHeld ==
  /\ LockedRows \subseteq UnfinishedRows
  /\ canceler.rows \cap reaper.rows = {}
  /\ rebuilder.failed \cap (canceler.rows \cup reaper.rows) = {}
  /\ canceler.rows # {} => canceler.pc \in {"select", "commit"}
  /\ reaper.rows # {} => reaper.pc \in {"select", "commit"}
  /\ rebuilder.failed # {} => rebuilder.pc = "fail"

RowsHere == RowsPresent /\ LocksHeld
RowsKept == RowsHere' /\ \A s \in Rows : Here(s) => Here(s)'

rowVars == <<snap, extract, rebuilder.rows, members, step, diff>>

LEMMA RowsUntouched ==
  ASSUME TypeInv, RowsPresent, UNCHANGED rowVars, count'.runs = count.runs
  PROVE  RowsStay
BY DEF rowVars, RowsPresent, RowsStay, Here

\* What a transaction closes with its commit was there.
LEMMA ClosedRowsHere ==
  ASSUME TypeInv, RowsHere
  PROVE  \A s \in LockedRows : Here(s)
BY DEF RowsHere, LocksHeld, UnfinishedRows, Unfinished, Here

LEMMA RowsHereWeb ==
  ASSUME TypeInv, TypeInv', RowsHere, Web
  PROVE  RowsStay
<1> USE DEF RowsHere
<1>1. CASE ConfirmRead \/ ConfirmEnqueue \/ CancelJobs
  BY <1>1, RowsUntouched DEF ConfirmRead, ConfirmEnqueue, CancelJobs, rowVars, dbVars, jobVars, captureVars,
     TypeInv, TypeOK, CountOK
<1>2. CASE InTransaction
  BY <1>2, NothingShows, RowsUntouched DEF rowVars, dbVars, jobVars, captureVars
<1>3. CASE CancelCommit
  <2>1. UNCHANGED <<extract, rebuilder, members, step>> /\ count'.runs = count.runs
    BY <1>3 DEF CancelCommit, jobVars, captureVars
  <2>2. \A s \in Rows : snap'[s] = snap[s] \/ (Here(s) /\ Here(s)')
    BY <1>3, ClosedRowsHere DEF CancelCommit, SnapsMarked, LockedRows, Here
  <2>3. \A s \in Rows : diff'[s] # "none" => diff[s] # "none"
    BY <1>3 DEF CancelCommit, DiffsMarked
  <2> QED  BY <2>1, <2>2, <2>3, RowsStayHere DEF RowsPresent
<1>4. CASE RebuildRead
  <2>1. UNCHANGED <<snap, extract, members, step, diff, count>>
    BY <1>4 DEF RebuildRead, dbVars, jobVars, captureVars
  <2>2. \A s \in rebuilder'.rows : Here(s)
    BY <1>4 DEF RebuildRead, Captured, Here, TypeInv, TypeOK, WebOK
  <2> QED  BY <2>1, <2>2, RowsStayHere DEF RowsPresent
<1>5. CASE RebuildTx
  <2>1. UNCHANGED <<extract, members, step>> /\ count'.runs = count.runs
    BY <1>5 DEF RebuildTx, jobVars, captureVars, TypeInv, TypeOK, CountOK
  <2>2. rebuilder'.rows = rebuilder.rows
    BY <1>5 DEF RebuildTx, TypeInv, TypeOK, WebOK
  <2>3. \A s \in Rows : snap'[s] = snap[s] \/ (Here(s) /\ Here(s)')
    BY <1>5 DEF RebuildTx, SnapsMarked, RowsPresent, Here
  <2>4. \A s \in Rows : diff'[s] # "none" => diff[s] # "none"
    BY <1>5 DEF RebuildTx
  <2> QED  BY <2>1, <2>2, <2>3, <2>4, RowsStayHere DEF RowsPresent
<1>6. CASE RebuildEnqueue \/ RebuildUndo
  <2>1. UNCHANGED <<snap, extract, step, diff, count>> /\ rebuilder'.rows = {}
    BY <1>6 DEF RebuildEnqueue, RebuildUndo, RebuildEnded, dbVars, captureVars, TypeInv, TypeOK, WebOK
  <2>2. \A g \in Groups : \A s \in members'[g] : s \in members[g] \/ s \in rebuilder.rows
    BY <1>6 DEF RebuildEnqueue, RebuildUndo, RebuiltQueued, GroupMembers
  <2> QED  BY <2>1, <2>2, RowsStayHere DEF RowsPresent
<1>7. CASE RebuildFail
  <2>1. UNCHANGED <<extract, members, step, diff, count>>
    BY <1>7 DEF RebuildFail, jobVars, captureVars
  <2>2. rebuilder'.rows = rebuilder.rows
    BY <1>7 DEF RebuildFail, TypeInv, TypeOK, WebOK
  <2>3. \A s \in Rows : snap'[s] = snap[s] \/ (Here(s) /\ Here(s)')
    BY <1>7, ClosedRowsHere DEF RebuildFail, SnapsMarked, LockedRows, Here
  <2> QED  BY <2>1, <2>2, <2>3, RowsStayHere DEF RowsPresent
<1> QED  BY <1>1, <1>2, <1>3, <1>4, <1>5, <1>6, <1>7 DEF Web, InTransaction

LEMMA RowsHereExtract ==
  ASSUME TypeInv, TypeInv', RowsPresent, ExtractWorker
  PROVE  RowsStay
<1> USE DEF TypeInv, TypeOK, HandlersOK, CaptureOK
<1>1. CASE ExtractRun
  <2>1. UNCHANGED <<snap, rebuilder, members, step, diff, count>>
    BY <1>1 DEF ExtractRun, dbVars, jobVars, captureVars, webVars
  <2>2. extract'.bad = extract.bad /\ extract'.queued = extract.queued /\ extract.bad = {}
    <3>1. extract.pc = "idle" /\ (extract' = extract \/ extract' = [extract EXCEPT !.pc = "create"])
      BY <1>1 DEF ExtractRun
    <3> QED  BY <3>1 DEF RowsPresent
  <2> QED  BY <2>1, <2>2, RowsStayHere DEF RowsPresent
<1>2. CASE ExtractCreate
  <2> DEFINE new == Stories \X {count.runs + 1}
  <2> PICK skipped \in SUBSET new : \E bad \in SUBSET (new \ skipped) :
        /\ snap' = [s \in Rows |-> IF s \in skipped THEN "skipped"
                                   ELSE IF s \in new \ bad THEN "queued" ELSE snap[s]]
        /\ extract' = [extract EXCEPT !.pc = "unreadable", !.bad = bad]
    <3> HIDE DEF TypeInv, TypeOK, HandlersOK, CaptureOK
    <3> QED  BY <1>2, Zenon DEF ExtractCreate
  <2> PICK bad \in SUBSET (new \ skipped) :
        /\ snap' = [s \in Rows |-> IF s \in skipped THEN "skipped"
                                   ELSE IF s \in new \ bad THEN "queued" ELSE snap[s]]
        /\ extract' = [extract EXCEPT !.pc = "unreadable", !.bad = bad]
    BY Zenon
  <2>1. UNCHANGED <<rebuilder, members, step, diff>> /\ count'.runs = count.runs + 1 /\ count.runs \in Nat
    BY <1>2, BoundsAssumption DEF ExtractCreate, jobVars, captureVars, webVars, CountOK
  <2>2. extract'.bad = bad /\ extract'.queued = extract.queued /\ extract'.pc = "unreadable"
    BY Zenon
  <2>3. \A s \in Rows : s[2] \in Nat /\ (s \in new => s[2] = count.runs + 1)
    BY BoundsAssumption DEF Rows, Runs
  <2>4. \A s \in Rows : Here(s) => s \notin new
    BY <2>1, <2>3 DEF RowsPresent, Here
  <2>5. \A s \in Rows : Here(s) => Here(s)'
    BY <2>4 DEF Here
  <2>6. \A s \in Rows : s[2] > count'.runs => snap'[s] = "absent"
    BY <2>1, <2>3 DEF RowsPresent
  <2>7. \A s \in bad : s \in Rows /\ snap'[s] = "absent" /\ s[2] <= count'.runs
    <3>1. \A s \in bad : s \in Rows
      BY <2>2, Zenon
    <3>2. \A s \in bad : s[2] = count.runs + 1 /\ snap[s] = "absent"
      BY <2>1, <2>3, <3>1 DEF RowsPresent
    <3> QED  BY <2>1, <3>1, <3>2
  <2>8. extract.queued \cup rebuilder.rows \subseteq Rows /\ \A j \in Groups : members[j] \subseteq Rows
    BY DEF WebOK, JobsOK
  <2> HIDE DEF TypeInv
  <2> QED  BY <2>1, <2>2, <2>5, <2>6, <2>7, <2>8 DEF RowsPresent, RowsStay
<1>3. ASSUME NEW s \in Rows, ExtractUnreadable(s) PROVE RowsStay
  <2>1. UNCHANGED <<rebuilder, members, diff, count>> /\ s \in extract.bad /\ extract.pc = "unreadable"
    BY <1>3 DEF ExtractUnreadable, jobVars, webVars
  <2>2. extract'.bad = extract.bad \ {s} /\ extract'.queued = extract.queued /\ extract'.pc = "unreadable"
    BY <1>3 DEF ExtractUnreadable
  <2>3. \A r \in Rows : snap'[r] = IF r = s THEN "queued" ELSE snap[r]
    BY <1>3 DEF ExtractUnreadable, DbOK
  <2>4. \A h \in Holders, r \in Rows : step'[h][r] # "no" => r = s \/ step[h][r] # "no"
    BY <1>3 DEF ExtractUnreadable
  <2>5. Here(s)' /\ \A r \in Rows : Here(r) => Here(r)'
    BY <2>3 DEF Here
  <2>6. s[2] <= count.runs /\ count.runs \in Nat /\ s[2] \in Nat
    BY <2>1, BoundsAssumption DEF RowsPresent, CountOK, Rows, Runs
  <2>7. extract.queued \cup rebuilder.rows \subseteq Rows /\ \A j \in Groups : members[j] \subseteq Rows
    BY DEF WebOK, JobsOK
  <2>8. \A r \in Rows : r[2] > count'.runs => snap'[r] = "absent"
    BY <2>1, <2>3, <2>6 DEF RowsPresent
  <2>9. \A r \in extract'.bad : snap'[r] = "absent" /\ r[2] <= count'.runs
    BY <2>1, <2>2, <2>3 DEF RowsPresent
  <2> HIDE DEF TypeInv
  <2> QED  BY <2>1, <2>2, <2>4, <2>5, <2>7, <2>8, <2>9 DEF RowsPresent, RowsStay
<1>4. CASE ExtractRecheck
  <2>1. UNCHANGED <<rebuilder, members, step, diff, count>> /\ extract.bad = {}
    BY <1>4 DEF ExtractRecheck, captureVars, webVars
  <2>2. \A s \in Rows : snap'[s] = snap[s] \/ (Here(s) /\ Here(s)')
    BY <1>4 DEF ExtractRecheck, SnapsMarked, UnfinishedRows, Unfinished, Here
  <2>3. extract'.bad = {} /\ \A s \in extract'.queued : s \in extract.queued \/ snap[s] = "queued"
    <3>1. CASE build = "canceled"
      BY <1>4, <2>1, <3>1 DEF ExtractRecheck
    <3>2. CASE build # "canceled"
      <4> DEFINE q == {s \in Rows : snap[s] = "queued"}
      <4>1. extract' = [extract EXCEPT !.pc = "enqueue", !.queued = q, !.allSkipped = (Captured = {})]
        BY <1>4, <3>2, Zenon DEF ExtractRecheck
      <4>2. extract'.bad = extract.bad /\ extract'.queued = q
        BY <4>1, Zenon
      <4> QED  BY <2>1, <4>2
    <3> QED  BY <3>1, <3>2
  <2> QED  BY <2>1, <2>2, <2>3, RowsStayHere DEF RowsPresent, Here
<1>5. CASE ExtractEnqueue
  <2>1. UNCHANGED <<snap, rebuilder, step, diff, count>> /\ extract'.bad = {} /\ extract'.queued = {}
    BY <1>5 DEF ExtractEnqueue, dbVars, captureVars, webVars
  <2>2. \A j \in Groups : \A s \in members'[j] : s \in members[j] \/ s \in extract.queued
    BY <1>5 DEF ExtractEnqueue, ExtractQueues, GroupMembers
  <2> QED  BY <2>1, <2>2, RowsStayHere DEF RowsPresent
<1>6. CASE FailBuild("extract")
  BY <1>6, RowsUntouched DEF FailBuild, rowVars, jobVars, captureVars, webVars
<1> QED  BY <1>1, <1>2, <1>3, <1>4, <1>5, <1>6 DEF ExtractWorker

LEMMA RowsHereReaper ==
  ASSUME TypeInv, TypeInv', RowsHere, Reaper
  PROVE  RowsStay
<1> USE DEF RowsHere
<1>1. CASE WindowPasses \/ ReaperScan \/ ReaperJobs
  BY <1>1, RowsUntouched DEF WindowPasses, ReaperScan, ReaperJobs, rowVars, dbVars, jobVars, captureVars, webVars
<1>2. CASE InTransaction
  BY <1>2, NothingShows, RowsUntouched DEF rowVars, dbVars, jobVars, captureVars
<1>3. CASE ReaperTx
  <2>1. UNCHANGED <<extract, rebuilder, members, step, count>>
    BY <1>3 DEF ReaperTx, jobVars, captureVars
  <2>2. \A s \in reaper.rows : Here(s)
    BY ClosedRowsHere DEF LockedRows
  <2>3. \A s \in Rows : snap'[s] = snap[s] \/ (Here(s) /\ Here(s)')
    BY <1>3, <2>2 DEF ReaperTx, SnapsMarked, Here
  <2>4. \A s \in Rows : diff'[s] # "none" => diff[s] # "none" \/ s \in reaper.rows
    BY <1>3 DEF ReaperTx, DiffsMarked
  <2>5. \A s \in Rows : diff'[s] # "none" => Here(s)
    BY <2>2, <2>4 DEF RowsPresent
  <2> QED  BY <2>1, <2>3, <2>5, RowsStayHere DEF RowsPresent
<1> QED  BY <1>1, <1>2, <1>3 DEF Reaper, InTransaction

\* Holders drop rows: a fault, or a handler that has none left.
LEMMA RowsDropped ==
  ASSUME TypeInv, TypeInv', RowsPresent, count'.runs = count.runs, UNCHANGED <<snap, rebuilder, members, diff>>,
         extract' = extract \/ (extract'.bad = {} /\ extract'.queued = {}),
         \A h \in Holders, s \in Rows : step'[h][s] # "no" => Here(s)
  PROVE  RowsStay
BY RowsStayHere DEF RowsPresent

LEMMA RowsHereFaults ==
  ASSUME TypeInv, TypeInv', RowsPresent, Faults
  PROVE  RowsStay
<1> USE DEF TypeInv, TypeOK, HandlersOK, CaptureOK
<1>0. Faulted => count'.runs = count.runs
  BY DEF Faulted, CountOK
<1>1. CASE ConfirmFails \/ ReaperFaults \/ FinalizeFaults
  BY <1>0, <1>1, RowsUntouched
     DEF ConfirmFails, ReaperFaults, FinalizeFaults, rowVars, dbVars, jobVars, captureVars, webVars
<1>2. CASE RebuildEnqueueFails
  <2>1. UNCHANGED <<snap, extract, step, diff>> /\ count'.runs = count.runs
    BY <1>0, <1>2 DEF RebuildEnqueueFails, dbVars, captureVars
  <2>2. rebuilder'.rows = rebuilder.rows
    BY <1>2 DEF RebuildEnqueueFails, WebOK
  <2>3. \A j \in Groups : \A s \in members'[j] : s \in members[j] \/ s \in rebuilder.rows
    BY <1>2 DEF RebuildEnqueueFails, RebuiltQueued, GroupMembers
  <2> HIDE DEF TypeInv
  <2> QED  BY <2>1, <2>2, <2>3, RowsStayHere DEF RowsPresent
<1>3. CASE WebFaults
  <2>1. UNCHANGED <<snap, extract, members, step, diff>> /\ count'.runs = count.runs
    BY <1>0, <1>3 DEF WebFaults, dbVars, jobVars, captureVars
  <2>2. rebuilder' = rebuilder \/ rebuilder'.rows = {}
    BY <1>3 DEF WebFaults, RebuildEnded, WebOK
  <2> HIDE DEF TypeInv
  <2> QED  BY <2>1, <2>2, RowsStayHere DEF RowsPresent
<1>4. CASE ExtractFaults
  <2>1. count'.runs = count.runs /\ UNCHANGED <<snap, rebuilder, diff>>
        /\ extract'.bad = {} /\ extract'.queued = {}
    BY <1>0, <1>4 DEF ExtractFaults, dbVars, webVars
  <2>2. \A h \in Holders, s \in Rows : step'[h][s] # "no" => step[h][s] # "no"
    BY <1>4 DEF ExtractFaults, NoSteps
  <2>3. \A j \in Groups : \A s \in members'[j] : s \in members[j] \/ s \in extract.queued
    BY <1>4 DEF ExtractFaults, ExtractQueues, GroupMembers
  <2> HIDE DEF TypeInv
  <2> QED  BY <2>1, <2>2, <2>3, RowsStayHere DEF RowsPresent
<1>5. CASE FailedHandlerFaults
  <2>1. count'.runs = count.runs /\ UNCHANGED <<snap, extract, rebuilder, members, diff>>
    BY <1>0, <1>5 DEF FailedHandlerFaults, dbVars, jobVars, webVars
  <2>2. \A h \in Holders, s \in Rows : step'[h][s] # "no" => step[h][s] # "no"
    BY <1>5 DEF FailedHandlerFaults, NoSteps, captureVars
  <2> HIDE DEF TypeInv
  <2> QED  BY <2>1, <2>2, RowsDropped DEF RowsPresent
<1>6. ASSUME NEW j \in Groups, CaptureFaults(j) PROVE RowsStay
  <2>1. count'.runs = count.runs /\ UNCHANGED <<snap, extract, rebuilder, members, diff>>
    BY <1>0, <1>6 DEF CaptureFaults, dbVars, webVars
  <2>2. \A h \in Holders, s \in Rows : step'[h][s] # "no" => step[h][s] # "no" \/ (h = j /\ s \in members[j])
    BY <1>6 DEF CaptureFaults, NoSteps
  <2> HIDE DEF TypeInv
  <2> QED  BY <2>1, <2>2, RowsDropped DEF RowsPresent
<1>7. ASSUME NEW j \in Groups, NEW s \in Rows, CapturePersistFails(j, s) PROVE RowsStay
  <2>1. count'.runs = count.runs /\ UNCHANGED <<snap, extract, rebuilder, members, diff>>
    BY <1>0, <1>7 DEF CapturePersistFails, dbVars, jobVars, webVars
  <2>2. \A h \in Holders, r \in Rows : step'[h][r] # "no" => step[h][r] # "no"
    BY <1>7 DEF CapturePersistFails
  <2> HIDE DEF TypeInv
  <2> QED  BY <2>1, <2>2, RowsDropped DEF RowsPresent
<1>8. ASSUME NEW d \in DiffIds, DiffFaults(d) PROVE RowsStay
  BY <1>0, <1>8, RowsUntouched DEF DiffFaults, rowVars, dbVars, captureVars, webVars
<1> QED  BY <1>1, <1>2, <1>3, <1>4, <1>5, <1>6, <1>7, <1>8 DEF Faults

\* A holder works on one row, of those it has.
LEMMA RowWorked ==
  ASSUME TypeInv, TypeInv', RowsPresent, NEW h \in Holders, NEW s \in Rows, step[h][s] # "no",
         NEW k, step' = [step EXCEPT ![h][s] = k], UNCHANGED <<extract, rebuilder, members, count>>,
         \A r \in Rows : snap'[r] = snap[r] \/ (r = s /\ snap'[r] \notin {"absent", "skipped"}),
         \A r \in Rows : diff'[r] # "none" => diff[r] # "none" \/ r = s
  PROVE  RowsStay
<1>1. Here(s)
  BY DEF RowsPresent
<1>2. \A g \in Holders, r \in Rows : step'[g][r] # "no" => Here(r)
  BY DEF RowsPresent, TypeInv, TypeOK, CaptureOK
<1> QED  BY <1>1, <1>2, RowsStayHere DEF RowsPresent, Here

LEMMA RowsHereHolders ==
  ASSUME TypeInv, TypeInv', RowsPresent, NEW s \in Rows,
         \/ \E h \in Holders : RowWorker(h, s)
         \/ \E j \in Groups : \/ CaptureCheck(j, s) \/ CaptureMark(j, s) \/ CaptureShoot(j, s)
                             \/ CaptureStore(j, s) \/ CaptureFailed(j, s)
  PROVE  RowsStay
<1> USE HolderSets
<1>1. snap \in [Rows -> SnapStatus] /\ diff \in [Rows -> DiffStatus]
  BY DEF TypeInv, TypeOK, DbOK
<1>2. ASSUME NEW h \in Holders, ErrorRead(h, s) PROVE RowsStay
  BY <1>2, RowWorked, Zenon DEF ErrorRead, dbVars, jobVars, webVars
<1>3. ASSUME NEW h \in Holders, MarkErrored(h, s) PROVE RowsStay
  BY <1>1, <1>3, RowWorked, Zenon DEF MarkErrored, jobVars, webVars
<1>4. ASSUME NEW h \in Holders, CreateDiff(h, s) PROVE RowsStay
  BY <1>1, <1>4, RowWorked DEF CreateDiff, jobVars, webVars
<1>5. ASSUME NEW h \in Holders, EnqueueDiff(h, s) PROVE RowsStay
  BY <1>5, RowWorked, Zenon DEF EnqueueDiff, dbVars, webVars
<1>6. ASSUME NEW j \in Groups, CaptureCheck(j, s) \/ CaptureFailed(j, s) PROVE RowsStay
  BY <1>6, RowWorked DEF CaptureCheck, CaptureFailed, dbVars, jobVars, webVars
<1>7. ASSUME NEW j \in Groups, CaptureMark(j, s) PROVE RowsStay
  BY <1>1, <1>7, RowWorked, Zenon DEF CaptureMark, jobVars, webVars
<1>8. ASSUME NEW j \in Groups, CaptureStore(j, s) PROVE RowsStay
  BY <1>1, <1>8, RowWorked DEF CaptureStore, jobVars, webVars
<1>9. ASSUME NEW j \in Groups, CaptureShoot(j, s) PROVE RowsStay
  <2>1. UNCHANGED <<snap, extract, rebuilder, members, diff, count>> /\ step[j][s] = "shoot"
    BY <1>9 DEF CaptureShoot, dbVars, jobVars, webVars
  <2>2. \A h \in Holders, r \in Rows : step'[h][r] # "no" => step[h][r] # "no"
    <3>1. step \in [Holders -> [Rows -> StepKind]] /\ j \in Holders
      BY DEF TypeInv, TypeOK, CaptureOK
    <3>2. CASE step' = [step EXCEPT ![j][s] = "store"] \/ step' = [step EXCEPT ![j][s] = "err"]
      BY <2>1, <3>1, <3>2
    <3>3. CASE step' = [step EXCEPT ![j] = [r \in Rows |->
                          IF r = s \/ step[j][r] = "todo" THEN "abort" ELSE step[j][r]]]
      BY <2>1, <3>1, <3>3
    <3> QED  BY <1>9, <3>2, <3>3 DEF CaptureShoot
  <2> QED  BY <2>1, <2>2, RowsDropped DEF RowsPresent
<1> QED  BY <1>2, <1>3, <1>4, <1>5, <1>6, <1>7, <1>8, <1>9 DEF RowWorker

LEMMA RowsPresentStep ==
  ASSUME TypeInv, TypeInv', RowsHere, [Next]_vars
  PROVE  RowsStay
<1>0. RowsPresent
  BY DEF RowsHere
<1>1. CASE FinalizeWorker
  BY <1>0, <1>1, RowsUntouched
     DEF FinalizeWorker, FinalizeRun, FinalizeRead, FinalizeWrite, FinalizeDone, FailBuild,
         rowVars, dbVars, jobVars, captureVars, webVars
<1>2. ASSUME NEW j \in Groups, CaptureRun(j) \/ CaptureDone(j) PROVE RowsStay
  <2>1. UNCHANGED <<snap, extract, rebuilder, members, diff, count>>
    BY <1>2 DEF CaptureRun, CaptureDone, dbVars, captureVars, webVars
  <2>2. \A h \in Holders, s \in Rows : step'[h][s] # "no" => step[h][s] # "no" \/ (h = j /\ s \in members[j])
    BY <1>2, HolderSets DEF CaptureRun, CaptureDone, captureVars, TypeInv, TypeOK, CaptureOK
  <2> QED  BY <1>0, <2>1, <2>2, RowsDropped DEF RowsPresent
<1>3. ASSUME NEW d \in DiffIds, DiffWorker(d) PROVE RowsStay
  <2>1. UNCHANGED <<snap, extract, rebuilder, members, step, count>>
    BY <1>3 DEF DiffWorker, DiffRun, DiffWrite, DiffCheck, DiffFailed, dbVars, jobVars, captureVars, webVars
  <2>2. \A s \in Rows : diff'[s] # "none" => diff[s] # "none"
    BY <1>3 DEF DiffWorker, DiffRun, DiffWrite, DiffCheck, DiffFailed, DiffExists, dbVars,
                TypeInv, TypeOK, DbOK
  <2> QED  BY <1>0, <2>1, <2>2, RowsStayHere DEF RowsPresent
<1>4. CASE UNCHANGED vars
  BY <1>0, <1>4, RowsUntouched DEF vars, rowVars, dbVars, jobVars, captureVars, webVars
<1> QED  BY <1>0, <1>1, <1>2, <1>3, <1>4, RowsHereWeb, RowsHereExtract, RowsHereReaper, RowsHereFaults, RowsHereHolders
         DEF Next, CaptureWorker

LEMMA LocksUntouched ==
  ASSUME LocksHeld, UNCHANGED <<canceler.rows, canceler.pc, reaper.rows, reaper.pc, rebuilder.failed>>,
         rebuilder.failed # {} => rebuilder'.pc = rebuilder.pc,
         \A s \in LockedRows : snap'[s] = snap[s]
  PROVE  LocksHeld'
BY DEF LocksHeld, LockedRows, UnfinishedRows

LEMMA LocksWeb ==
  ASSUME TypeInv, RowsHere, Web
  PROVE  LocksHeld'
<1> USE DEF TypeInv, TypeOK, WebOK, RowsHere
<1>1. CASE ConfirmRead \/ ConfirmEnqueue
  BY <1>1, LocksUntouched DEF ConfirmRead, ConfirmEnqueue, dbVars
<1>2. CASE CancelTx
  <2>1. LockedRows = {}
    BY <1>2 DEF CancelTx, LocksHeld
  <2>2. canceler' = [canceler EXCEPT !.pc = "select", !.rows = UnfinishedRows]
        /\ UNCHANGED <<snap, reaper, rebuilder>>
    BY <1>2 DEF CancelTx, dbVars
  <2>3. canceler'.pc = "select" /\ canceler'.rows = UnfinishedRows /\ UnfinishedRows' = UnfinishedRows
    BY <2>2 DEF UnfinishedRows
  <2> QED  BY <2>1, <2>2, <2>3 DEF LocksHeld, LockedRows
<1>3. CASE CancelSelect \/ CancelJobs
  BY <1>3 DEF CancelSelect, CancelJobs, CancelEnded, dbVars, LocksHeld, LockedRows, UnfinishedRows
<1>4. CASE CancelCommit
  <2>1. canceler'.rows = {} /\ UNCHANGED <<reaper, rebuilder>>
    BY <1>4 DEF CancelCommit
  <2>2. \A s \in Rows \ canceler.rows : snap'[s] = snap[s]
    BY <1>4 DEF CancelCommit, SnapsMarked
  <2> QED  BY <2>1, <2>2 DEF LocksHeld, LockedRows, UnfinishedRows
<1>5. CASE RebuildRead
  <2>1. UNCHANGED <<snap, canceler, reaper, rebuilder.failed>> /\ rebuilder.pc = "idle"
    BY <1>5 DEF RebuildRead, dbVars
  <2> QED  BY <2>1, LocksUntouched DEF LocksHeld
<1>6. ASSUME NEW s \in Rows, RebuildDelete(s) PROVE LocksHeld'
  BY <1>6, LocksUntouched DEF RebuildDelete, dbVars
<1>7. CASE RebuildTx
  <2>1. /\ UNCHANGED <<canceler, reaper, rebuilder.failed>> /\ rebuilder.pc = "tx"
        /\ rebuilder.rows \cap LockedRows = {}
    BY <1>7 DEF RebuildTx
  <2>2. \A s \in Rows \ rebuilder.rows : snap'[s] = snap[s]
    BY <1>7 DEF RebuildTx, SnapsMarked
  <2>3. LockedRows \subseteq Rows
    BY DEF LockedRows
  <2> QED  BY <2>1, <2>2, <2>3, LocksUntouched DEF LocksHeld
<1>8. CASE RebuildEnqueue \/ RebuildUndo
  <2>1. UNCHANGED <<snap, canceler, reaper>> /\ rebuilder'.failed = {}
    BY <1>8 DEF RebuildEnqueue, RebuildUndo, RebuildEnded, dbVars
  <2> QED  BY <2>1 DEF LocksHeld, LockedRows, UnfinishedRows
<1>9. CASE RebuildMark
  <2>1. LockedRows = {}
    BY <1>9 DEF RebuildMark, LocksHeld
  <2>2. rebuilder' = [rebuilder EXCEPT !.pc = "fail", !.failed = UnfinishedRows]
        /\ UNCHANGED <<snap, reaper, canceler>>
    BY <1>9 DEF RebuildMark, dbVars
  <2>3. rebuilder'.pc = "fail" /\ rebuilder'.failed = UnfinishedRows /\ UnfinishedRows' = UnfinishedRows
    BY <2>2 DEF UnfinishedRows
  <2> QED  BY <2>1, <2>2, <2>3 DEF LocksHeld, LockedRows
<1>10. CASE RebuildFail
  <2>1. rebuilder'.failed = {} /\ UNCHANGED <<reaper, canceler>>
    BY <1>10 DEF RebuildFail
  <2>2. \A s \in Rows \ rebuilder.failed : snap'[s] = snap[s]
    BY <1>10 DEF RebuildFail, SnapsMarked
  <2> QED  BY <2>1, <2>2 DEF LocksHeld, LockedRows, UnfinishedRows
<1> QED  BY <1>1, <1>2, <1>3, <1>4, <1>5, <1>6, <1>7, <1>8, <1>9, <1>10 DEF Web

LEMMA LocksReaper ==
  ASSUME TypeInv, RowsHere, Reaper
  PROVE  LocksHeld'
<1> USE DEF TypeInv, TypeOK, WebOK, RowsHere
<1>1. CASE WindowPasses
  BY <1>1, LocksUntouched DEF WindowPasses, webVars
<1>2. CASE ReaperScan \/ ReaperSelect \/ ReaperJobs
  BY <1>2 DEF ReaperScan, ReaperSelect, ReaperJobs, ReaperEnded, dbVars, LocksHeld, LockedRows, UnfinishedRows
<1>3. CASE ReaperMark
  <2>1. LockedRows = {}
    BY <1>3 DEF ReaperMark, LocksHeld
  <2>2. reaper' = [reaper EXCEPT !.pc = "select", !.rows = UnfinishedRows]
        /\ UNCHANGED <<snap, canceler, rebuilder>>
    BY <1>3 DEF ReaperMark, dbVars
  <2>3. reaper'.pc = "select" /\ reaper'.rows = UnfinishedRows /\ UnfinishedRows' = UnfinishedRows
    BY <2>2 DEF UnfinishedRows
  <2> QED  BY <2>1, <2>2, <2>3 DEF LocksHeld, LockedRows
<1>4. CASE ReaperTx
  <2>1. reaper'.rows = {} /\ UNCHANGED <<canceler, rebuilder>>
    BY <1>4, Zenon DEF ReaperTx
  <2>2. \A s \in Rows \ reaper.rows : snap'[s] = snap[s]
    BY <1>4 DEF ReaperTx, SnapsMarked
  <2> QED  BY <2>1, <2>2 DEF LocksHeld, LockedRows, UnfinishedRows
<1> QED  BY <1>1, <1>2, <1>3, <1>4 DEF Reaper

LEMMA LocksExtract ==
  ASSUME TypeInv, RowsHere, ExtractWorker
  PROVE  LocksHeld'
<1> USE DEF TypeInv, TypeOK, DbOK, RowsHere
<1>1. UNCHANGED <<canceler, rebuilder, reaper>>
  BY DEF ExtractWorker, ExtractRun, ExtractCreate, ExtractUnreadable, ExtractRecheck, ExtractEnqueue,
         FailBuild, webVars
<1>2. \A s \in LockedRows : s \in Rows /\ snap[s] \in Unfinished
  BY DEF LocksHeld, UnfinishedRows
<1>3. CASE ExtractRun \/ ExtractEnqueue \/ FailBuild("extract")
  BY <1>1, <1>3, LocksUntouched DEF ExtractRun, ExtractEnqueue, FailBuild, dbVars
<1>4. CASE ExtractCreate
  <2>1. \A s \in Rows : snap'[s] = snap[s] \/ s[2] = count.runs + 1
    BY <1>4 DEF ExtractCreate
  <2>2. \A s \in Rows : s[2] = count.runs + 1 => snap[s] = "absent"
    BY BoundsAssumption DEF CountOK, RowsPresent
  <2> QED  BY <1>1, <1>2, <2>1, <2>2, LocksUntouched DEF Unfinished
<1>5. ASSUME NEW s \in Rows, ExtractUnreadable(s) PROVE LocksHeld'
  <2>1. \A r \in Rows : r # s => snap'[r] = snap[r]
    BY <1>5 DEF ExtractUnreadable
  <2>2. snap[s] = "absent"
    BY <1>5 DEF ExtractUnreadable, RowsPresent
  <2> QED  BY <1>1, <1>2, <2>1, <2>2, LocksUntouched DEF Unfinished
<1>6. CASE ExtractRecheck
  <2>1. snap' = snap \/ LockedRows = {}
    BY <1>6 DEF ExtractRecheck, LocksHeld
  <2> QED  BY <1>1, <2>1, LocksUntouched
<1> QED  BY <1>3, <1>4, <1>5, <1>6 DEF ExtractWorker

LEMMA LocksFaults ==
  ASSUME TypeInv, RowsHere, Faults
  PROVE  LocksHeld'
<1> USE DEF TypeInv, TypeOK, WebOK, RowsHere
<1>1. CASE ConfirmFails \/ ExtractFaults \/ FinalizeFaults \/ FailedHandlerFaults
  BY <1>1, LocksUntouched, Zenon DEF ConfirmFails, ExtractFaults, FinalizeFaults, FailedHandlerFaults,
                                    dbVars, webVars
<1>2. CASE RebuildEnqueueFails
  <2>1. UNCHANGED <<snap, canceler, reaper, rebuilder.failed>> /\ rebuilder.pc = "enqueue"
    BY <1>2 DEF RebuildEnqueueFails, dbVars
  <2> QED  BY <2>1, LocksUntouched DEF LocksHeld
<1>3. CASE WebFaults
  BY <1>3 DEF WebFaults, CancelEnded, RebuildEnded, dbVars, LocksHeld, LockedRows, UnfinishedRows
<1>4. CASE ReaperFaults
  BY <1>4 DEF ReaperFaults, ReaperEnded, dbVars, LocksHeld, LockedRows, UnfinishedRows
<1>5. ASSUME NEW j \in Groups, CaptureFaults(j) \/ \E s \in Rows : CapturePersistFails(j, s)
      PROVE  LocksHeld'
  BY <1>5, LocksUntouched, Zenon DEF CaptureFaults, CapturePersistFails, dbVars, webVars
<1>6. ASSUME NEW d \in DiffIds, DiffFaults(d) PROVE LocksHeld'
  BY <1>6, LocksUntouched, Zenon DEF DiffFaults, dbVars, webVars
<1> QED  BY <1>1, <1>2, <1>3, <1>4, <1>5, <1>6 DEF Faults

LEMMA LocksStep ==
  ASSUME TypeInv, RowsHere, [Next]_vars
  PROVE  LocksHeld'
<1>1. LocksHeld /\ snap \in [Rows -> SnapStatus] /\ LockedRows \subseteq Rows
  BY DEF RowsHere, LocksHeld, UnfinishedRows, TypeInv, TypeOK, DbOK
<1>2. CASE FinalizeWorker
  BY <1>1, <1>2, LocksUntouched DEF FinalizeWorker, FinalizeRun, FinalizeRead, FinalizeWrite, FinalizeDone,
     FailBuild, dbVars, webVars
<1>3. ASSUME NEW h \in Holders, NEW s \in Rows, RowWorker(h, s) PROVE LocksHeld'
  <2>1. UNCHANGED <<canceler, rebuilder, reaper>>
    BY <1>3 DEF RowWorker, ErrorRead, MarkErrored, CreateDiff, EnqueueDiff, webVars
  <2>2. \A r \in LockedRows : snap'[r] = snap[r]
    BY <1>1, <1>3 DEF RowWorker, ErrorRead, MarkErrored, CreateDiff, EnqueueDiff, dbVars
  <2> QED  BY <1>1, <2>1, <2>2, LocksUntouched
<1>4. ASSUME NEW j \in Groups, CaptureWorker(j) PROVE LocksHeld'
  <2>1. UNCHANGED <<canceler, rebuilder, reaper>>
    BY <1>4 DEF CaptureWorker, CaptureRun, CaptureDone, CaptureCheck, CaptureMark, CaptureShoot,
                CaptureStore, CaptureFailed, webVars
  <2>2. \A r \in LockedRows : snap'[r] = snap[r]
    BY <1>1, <1>4 DEF CaptureWorker, CaptureRun, CaptureDone, CaptureCheck, CaptureMark, CaptureShoot,
                      CaptureStore, CaptureFailed, dbVars
  <2> QED  BY <1>1, <2>1, <2>2, LocksUntouched
<1>5. ASSUME NEW d \in DiffIds, DiffWorker(d) PROVE LocksHeld'
  BY <1>1, <1>5, LocksUntouched DEF DiffWorker, DiffRun, DiffWrite, DiffCheck, DiffFailed, dbVars, webVars
<1>6. CASE UNCHANGED vars
  BY <1>1, <1>6, LocksUntouched DEF vars, dbVars, webVars
<1> QED  BY <1>2, <1>3, <1>4, <1>5, <1>6, LocksWeb, LocksReaper, LocksExtract, LocksFaults DEF Next

LEMMA RowsHereStep ==
  ASSUME TypeInv, TypeInv', RowsHere, [Next]_vars
  PROVE  RowsKept
BY RowsPresentStep, LocksStep DEF RowsStay, RowsKept, RowsHere

\* What a transaction that closes rows does to one row when it commits.
Closes(s, status) ==
  /\ snap'[s] = snap[s] \/ (snap[s] \in Unfinished /\ snap'[s] = status)
  /\ \/ diff'[s] = diff[s]
     \/ diff[s] # "none" /\ diff'[s] = status
     \/ ReaperTx /\ diff'[s] = "error" /\ snap[s] \in Unfinished /\ snap'[s] = "error"

LEMMA ClosingShows ==
  ASSUME TypeInv, RowsHere
  PROVE  /\ CancelCommit => \A s \in Rows : Closes(s, "canceled")
         /\ ReaperTx => \A s \in Rows : Closes(s, "error")
         /\ RebuildFail => \A s \in Rows : Closes(s, "error")
<1>1. \A s \in LockedRows : snap[s] \in Unfinished
  BY DEF RowsHere, LocksHeld, UnfinishedRows
<1>2. ASSUME CancelCommit, NEW s \in Rows PROVE Closes(s, "canceled")
  <2>1. snap'[s] = IF s \in canceler.rows THEN "canceled" ELSE snap[s]
    BY <1>2 DEF CancelCommit, SnapsMarked
  <2>2. diff'[s] = IF diff[s] # "none" /\ <<s, gen[s]>> \in canceler.ids THEN "canceled" ELSE diff[s]
    BY <1>2 DEF CancelCommit, DiffsMarked
  <2> QED  BY <1>1, <2>1, <2>2 DEF LockedRows, Closes
<1>3. ASSUME ReaperTx, NEW s \in Rows PROVE Closes(s, "error")
  <2>1. snap'[s] = IF s \in reaper.rows THEN "error" ELSE snap[s]
    BY <1>3 DEF ReaperTx, SnapsMarked
  <2>2. diff'[s] = IF s \in reaper.rows /\ NeedsDiff(s) THEN "error"
                   ELSE DiffsMarked(reaper.ids, "error")[s]
    BY <1>3 DEF ReaperTx
  <2>3. DiffsMarked(reaper.ids, "error")[s] = diff[s]
          \/ (diff[s] # "none" /\ DiffsMarked(reaper.ids, "error")[s] = "error")
    BY DEF DiffsMarked
  <2>4. s \in reaper.rows => snap[s] \in Unfinished
    BY <1>1 DEF LockedRows
  <2> QED  BY <1>3, <2>1, <2>2, <2>3, <2>4 DEF Closes
<1>4. ASSUME RebuildFail, NEW s \in Rows PROVE Closes(s, "error")
  <2>1. snap'[s] = IF s \in rebuilder.failed THEN "error" ELSE snap[s]
    BY <1>4 DEF RebuildFail, SnapsMarked
  <2>2. diff'[s] = diff[s]
    BY <1>4 DEF RebuildFail
  <2> QED  BY <1>1, <2>1, <2>2 DEF LockedRows, Closes
<1> QED  BY <1>2, <1>3, <1>4

\* Only a canceled build has canceled rows.
CanceledMeans == \A s \in Rows : snap[s] = "canceled" \/ diff[s] = "canceled" => build = "canceled"

LEMMA CanceledMeansStep ==
  ASSUME TypeInv, CanceledMeans, [Next]_vars
  PROVE  CanceledMeans'
<1> USE DEF TypeInv, TypeOK, DbOK
<1> SUFFICES ASSUME build # "canceled" => build' # "canceled"
             PROVE  \A s \in Rows : (snap'[s] # "canceled" /\ diff'[s] # "canceled") \/ build = "canceled"
  BY CanceledStep DEF CanceledMeans
<1>1. CASE Web
  <2>1. CASE InTransaction
    BY <2>1, NothingShows DEF dbVars, CanceledMeans
  <2>2. CASE CancelCommit
    BY <2>2 DEF CancelCommit
  <2>3. CASE RebuildTx \/ RebuildFail
    BY <2>3 DEF RebuildTx, RebuildFail, SnapsMarked, CanceledMeans
  <2> QED  BY <1>1, <2>1, <2>2, <2>3 DEF Web, InTransaction, ConfirmRead, ConfirmEnqueue, CancelJobs,
              RebuildRead, RebuildEnqueue, RebuildUndo, dbVars, CanceledMeans
<1>2. CASE ExtractWorker
  <2>1. UNCHANGED diff /\ \A s \in Rows : snap'[s] = "canceled" => snap[s] = "canceled" \/ build = "canceled"
    BY <1>2, Zenon DEF ExtractWorker, ExtractRun, ExtractCreate, ExtractUnreadable, ExtractRecheck, SnapsMarked,
                ExtractEnqueue, FailBuild, dbVars
  <2> QED  BY <2>1 DEF CanceledMeans
<1>3. CASE FinalizeWorker
  BY <1>3 DEF FinalizeWorker, FinalizeRun, FinalizeRead, FinalizeWrite, FinalizeDone, FailBuild,
              dbVars, CanceledMeans
<1>4. CASE Reaper
  <2>1. CASE ReaperTx
    BY <2>1 DEF ReaperTx, SnapsMarked, DiffsMarked, CanceledMeans
  <2> QED  BY <1>4, <2>1 DEF Reaper, WindowPasses, ReaperScan, ReaperMark, ReaperSelect, ReaperJobs,
                            dbVars, CanceledMeans
<1>5. CASE Faults
  BY <1>5, Zenon DEF Faults, ConfirmFails, RebuildEnqueueFails, WebFaults, ExtractFaults,
              FinalizeFaults, FailedHandlerFaults, ReaperFaults, CaptureFaults,
              CapturePersistFails, DiffFaults, dbVars, SnapsMarked, CanceledMeans
<1>6. ASSUME NEW h \in Holders, NEW r \in Rows, RowWorker(h, r)
      PROVE  \A s \in Rows : (snap'[s] # "canceled" /\ diff'[s] # "canceled") \/ build = "canceled"
  BY <1>6 DEF RowWorker, ErrorRead, MarkErrored, CreateDiff, EnqueueDiff, dbVars, CanceledMeans
<1>7. ASSUME NEW j \in Groups, CaptureWorker(j)
      PROVE  \A s \in Rows : (snap'[s] # "canceled" /\ diff'[s] # "canceled") \/ build = "canceled"
  BY <1>7 DEF CaptureWorker, CaptureRun, CaptureDone, CaptureCheck, CaptureMark, CaptureShoot,
              CaptureStore, CaptureFailed, dbVars, CanceledMeans
<1>8. ASSUME NEW d \in DiffIds, DiffWorker(d)
      PROVE  \A s \in Rows : (snap'[s] # "canceled" /\ diff'[s] # "canceled") \/ build = "canceled"
  BY <1>8 DEF DiffWorker, DiffRun, DiffWrite, DiffCheck, DiffFailed, dbVars, CanceledMeans
<1>9. CASE UNCHANGED vars
  BY <1>9 DEF vars, dbVars, CanceledMeans
<1> QED  BY <1>1, <1>2, <1>3, <1>4, <1>5, <1>6, <1>7, <1>8, <1>9 DEF Next

\* What has begun: runs of the extraction and rebuilds.
RunsBegan ==
  /\ fjob.st # "none" \/ finalizer.pc # "idle" => count.runs >= 1
  /\ extract.pc \in {"unreadable", "enqueue"} => count.runs >= 1
  /\ rebuilder.pc \in {"enqueue", "mark", "fail", "undo"} => count.rebuilds > 0

\* No run and no rebuild is taken back.
LEMMA CountsGrow ==
  ASSUME TypeInv, [Next]_vars
  PROVE  /\ count.runs \in Nat /\ count'.runs \in Nat /\ count.runs <= count'.runs
         /\ count.rebuilds \in Nat /\ count'.rebuilds \in Nat /\ count.rebuilds <= count'.rebuilds
         /\ (Once' => Once)
<1>1. count.runs \in Nat /\ count.rebuilds \in Nat
  BY BoundsAssumption DEF TypeInv, TypeOK, CountOK
<1>2. /\ count'.runs = count.runs \/ count'.runs = count.runs + 1
      /\ count'.rebuilds = count.rebuilds \/ count'.rebuilds = count.rebuilds + 1
  <2> USE DEF TypeInv, TypeOK, CountOK, Faulted
  <2>1. CASE Web
    BY <2>1 DEF Web, ConfirmRead, ConfirmEnqueue, CancelTx, CancelSelect, CancelCommit, CancelJobs, RebuildRead, RebuildDelete, RebuildTx,
                RebuildEnqueue, RebuildMark, RebuildFail, RebuildUndo
  <2>2. CASE ExtractWorker
    BY <2>2, Zenon DEF ExtractWorker, ExtractRun, ExtractCreate, ExtractUnreadable, ExtractRecheck,
                ExtractEnqueue, FailBuild
  <2>3. CASE FinalizeWorker
    BY <2>3 DEF FinalizeWorker, FinalizeRun, FinalizeRead, FinalizeWrite, FinalizeDone, FailBuild
  <2>4. CASE Reaper
    BY <2>4 DEF Reaper, WindowPasses, ReaperScan, ReaperMark, ReaperSelect, ReaperTx, ReaperJobs
  <2>5. CASE Faults
    BY <2>5, Zenon DEF Faults, ConfirmFails, RebuildEnqueueFails, WebFaults, ExtractFaults, FinalizeFaults,
                FailedHandlerFaults, ReaperFaults, CaptureFaults, CapturePersistFails, DiffFaults
  <2>6. ASSUME NEW h \in Holders, NEW r \in Rows, RowWorker(h, r) PROVE count' = count
    BY <2>6 DEF RowWorker, ErrorRead, MarkErrored, CreateDiff, EnqueueDiff
  <2>7. ASSUME NEW j \in Groups, CaptureWorker(j) PROVE count' = count
    BY <2>7 DEF CaptureWorker, CaptureRun, CaptureDone, CaptureCheck, CaptureMark, CaptureShoot,
                CaptureStore, CaptureFailed
  <2>8. ASSUME NEW d \in DiffIds, DiffWorker(d) PROVE count' = count
    BY <2>8 DEF DiffWorker, DiffRun, DiffWrite, DiffCheck, DiffFailed
  <2>9. CASE UNCHANGED vars
    BY <2>9 DEF vars
  <2> QED  BY <2>1, <2>2, <2>3, <2>4, <2>5, <2>6, <2>7, <2>8, <2>9 DEF Next
<1> QED  BY <1>1, <1>2 DEF Once

LEMMA RunsBeganStep ==
  ASSUME TypeInv, RowsHere, RunsBegan, [Next]_vars
  PROVE  RunsBegan'
<1> USE DEF TypeInv, TypeOK, JobsOK, HandlersOK, WebOK
<1>1. count.runs \in Nat /\ count'.runs \in Nat /\ count.runs <= count'.runs
      /\ count.rebuilds \in Nat /\ count'.rebuilds \in Nat /\ count.rebuilds <= count'.rebuilds
  BY CountsGrow
<1>2. ASSUME HasAllDoneForBuild PROVE count.runs >= 1
  <2>1. PICK s \in Rows : snap[s] # "absent"
    BY <1>2 DEF HasAllDoneForBuild, Captured
  <2>2. s[2] >= 1 /\ s[2] \in Nat /\ ~(s[2] > count.runs)
    BY <2>1, BoundsAssumption DEF Rows, Runs, RowsHere, RowsPresent
  <2> QED  BY <1>1, <2>2
<1>3. CASE UNCHANGED <<fjob, finalizer, extract, rebuilder>>
  BY <1>1, <1>3 DEF RunsBegan
<1>4. CASE Web
  <2>1. CASE ConfirmRead \/ ConfirmEnqueue \/ CancelCommit
    BY <1>3, <2>1 DEF ConfirmRead, ConfirmEnqueue, CancelCommit, jobVars
  <2>6. CASE InTransaction
    BY <1>1, <2>6, NothingShows DEF jobVars, RunsBegan
  <2>2. CASE CancelJobs
    BY <1>1, <2>2 DEF CancelJobs, CancelBuildJobs, RemoveJob, NoJob, RunsBegan
  <2>3. CASE RebuildRead
    BY <1>1, <2>3 DEF RebuildRead, jobVars, RunsBegan
  <2>4. CASE RebuildTx
    <3>1. count'.rebuilds = count.rebuilds + 1
      BY <2>4 DEF RebuildTx, CountOK
    <3> QED  BY <1>1, <2>4, <3>1 DEF RebuildTx, jobVars, RunsBegan
  <2>5. CASE RebuildEnqueue \/ RebuildFail \/ RebuildUndo
    BY <1>1, <2>5 DEF RebuildEnqueue, RebuildFail, RebuildUndo, RebuildEnded, CancelBuildJobs, RemoveJob,
                      NoJob, jobVars, RunsBegan
  <2> QED  BY <1>4, <2>1, <2>2, <2>3, <2>4, <2>5, <2>6 DEF Web, InTransaction
<1>5. CASE ExtractWorker
  <2>1. CASE ExtractCreate
    <3>1. count'.runs = count.runs + 1
      BY <2>1 DEF ExtractCreate, CountOK
    <3> QED  BY <1>1, <2>1, <3>1 DEF ExtractCreate, jobVars, webVars, RunsBegan
  <2>2. CASE ExtractRun \/ ExtractRecheck \/ FailBuild("extract") \/ \E s \in Rows : ExtractUnreadable(s)
    BY <1>1, <2>2 DEF ExtractRun, ExtractRecheck, FailBuild, ExtractUnreadable, jobVars, webVars, RunsBegan
  <2>3. CASE ExtractEnqueue
    BY <1>1, <2>3 DEF ExtractEnqueue, ExtractQueues, webVars, RunsBegan
  <2> QED  BY <1>5, <2>1, <2>2, <2>3 DEF ExtractWorker
<1>6. CASE FinalizeWorker
  BY <1>1, <1>6 DEF FinalizeWorker, FinalizeRun, FinalizeRead, FinalizeWrite, FinalizeDone, FailBuild,
                    jobVars, webVars, RunsBegan, NoJob
<1>7. CASE Reaper
  <2>1. CASE ReaperJobs
    BY <1>1, <2>1 DEF ReaperJobs, CancelBuildJobs, RemoveJob, NoJob, RunsBegan
  <2>2. CASE WindowPasses \/ ReaperScan \/ ReaperMark \/ ReaperSelect \/ ReaperTx
    BY <1>3, <2>2, Zenon DEF WindowPasses, ReaperScan, ReaperMark, ReaperSelect, ReaperTx, jobVars, webVars
  <2> QED  BY <1>7, <2>1, <2>2 DEF Reaper
<1>8. CASE Faults
  <2>1. CASE ConfirmFails \/ ReaperFaults \/ FailedHandlerFaults
             \/ \E j \in Groups : CaptureFaults(j) \/ \E s \in Rows : CapturePersistFails(j, s)
    BY <1>3, <2>1, Zenon DEF ConfirmFails, ReaperFaults, FailedHandlerFaults, CaptureFaults,
                      CapturePersistFails, jobVars, webVars
  <2>2. CASE RebuildEnqueueFails \/ WebFaults
    <3>1. UNCHANGED <<fjob, finalizer, extract>>
      BY <2>2 DEF RebuildEnqueueFails, WebFaults, jobVars
    <3>2. rebuilder'.pc \in {"idle", rebuilder.pc} \/ rebuilder.pc = "enqueue"
      BY <2>2 DEF RebuildEnqueueFails, WebFaults, RebuildEnded
    <3> QED  BY <1>1, <3>1, <3>2 DEF RunsBegan
  <2>3. CASE ExtractFaults
    BY <1>1, <2>3 DEF ExtractFaults, ExtractQueues, webVars, RunsBegan
  <2>4. CASE FinalizeFaults
    BY <1>1, <2>4 DEF FinalizeFaults, webVars, RunsBegan
  <2>5. ASSUME NEW d \in DiffIds, DiffFaults(d) PROVE RunsBegan'
    BY <1>1, <1>2, <2>5 DEF DiffFaults, FinalizeQueuedIfAllDone, webVars, RunsBegan
  <2> QED  BY <1>8, <2>1, <2>2, <2>3, <2>4, <2>5 DEF Faults
<1>9. ASSUME NEW h \in Holders, NEW r \in Rows, RowWorker(h, r) PROVE RunsBegan'
  BY <1>3, <1>9 DEF RowWorker, ErrorRead, MarkErrored, CreateDiff, EnqueueDiff, jobVars, webVars
<1>10. ASSUME NEW j \in Groups, CaptureWorker(j) PROVE RunsBegan'
  BY <1>3, <1>10 DEF CaptureWorker, CaptureRun, CaptureDone, CaptureCheck, CaptureMark, CaptureShoot,
                     CaptureStore, CaptureFailed, jobVars, webVars
<1>11. ASSUME NEW d \in DiffIds, DiffWorker(d) PROVE RunsBegan'
  <2>1. CASE DiffCheck(d)
    BY <1>1, <1>2, <2>1 DEF DiffCheck, FinalizeQueuedIfAllDone, webVars, RunsBegan
  <2>2. CASE DiffRun(d) \/ DiffWrite(d) \/ DiffFailed(d)
    BY <1>3, <2>2 DEF DiffRun, DiffWrite, DiffFailed, jobVars, webVars
  <2> QED  BY <1>11, <2>1, <2>2 DEF DiffWorker
<1>12. CASE UNCHANGED vars
  BY <1>3, <1>12 DEF vars, jobVars, webVars
<1> QED  BY <1>4, <1>5, <1>6, <1>7, <1>8, <1>9, <1>10, <1>11, <1>12 DEF Next

LEMMA ExtractorApart == Extractor \notin Groups
<1> SUFFICES ASSUME Extractor \in Groups PROVE FALSE
  OBVIOUS
<1>1. Extractor[1] \in Batches
  BY DEF Groups
<1>2. Extractor[1] = 0
  BY DEF Extractor
<1> QED  BY <1>1, <1>2 DEF Batches

\* Until the first run is extracted no group has a snapshot, and a group only takes its own.
Grouped ==
  Once =>
    /\ extract.pc \in {"unreadable", "enqueue"} => \A j \in Groups : members[j] = {}
    /\ extract.pc = "unreadable" => extract.queued = {}
    /\ \A j \in Groups, s \in Rows : step[j][s] # "no" => s \in members[j]

\* A step that neither queues groups nor inserts rows.
LEMMA GroupedKept ==
  ASSUME Grouped, Once' => Once, UNCHANGED <<extract, members>>,
         \A j \in Groups, s \in Rows : step'[j][s] # "no" => step[j][s] # "no" \/ s \in members[j]
  PROVE  Grouped'
BY DEF Grouped

LEMMA NothingBeforeRuns ==
  ASSUME TypeInv, RowsHere, count.runs = 0
  PROVE  /\ \A s \in Rows : ~Here(s)
         /\ \A j \in Groups : members[j] = {}
         /\ extract.queued = {}
<1>1. \A s \in Rows : s[2] > 0
  BY BoundsAssumption DEF Rows, Runs
<1>2. \A s \in Rows : ~Here(s)
  BY <1>1 DEF RowsHere, RowsPresent, Here
<1> QED  BY <1>2 DEF RowsHere, RowsPresent, TypeInv, TypeOK, JobsOK, HandlersOK

LEMMA GroupedStep ==
  ASSUME TypeInv, RowsHere, RunsBegan, Grouped, [Next]_vars
  PROVE  Grouped'
<1> USE DEF TypeInv, TypeOK, CaptureOK, HandlersOK
<1>1. (Once' => Once) /\ count.runs \in Nat /\ count.rebuilds \in Nat
  BY CountsGrow
<1>2. CASE UNCHANGED <<extract, members, step>>
  BY <1>1, <1>2, GroupedKept
<1>3. CASE Web
  <2>1. CASE RebuildEnqueue
    <3>1. ~Once'
      BY <1>1, <2>1 DEF RebuildEnqueue, RunsBegan, Once
    <3> QED  BY <3>1 DEF Grouped
  <2> QED  BY <1>2, <1>3, <2>1 DEF Web, ConfirmRead, ConfirmEnqueue, CancelTx, CancelSelect, CancelCommit, CancelJobs, RebuildRead, RebuildDelete, RebuildTx,
              RebuildMark, RebuildFail, RebuildUndo, jobVars, captureVars
<1>4. CASE ExtractWorker
  <2>1. CASE ExtractRun
    BY <1>1, <2>1 DEF ExtractRun, jobVars, captureVars, Grouped
  <2>2. CASE ExtractCreate
    <3>1. UNCHANGED <<members, step>> /\ count'.runs = count.runs + 1
          /\ extract'.queued = extract.queued /\ extract'.pc = "unreadable"
      BY <2>2 DEF ExtractCreate, jobVars, captureVars, CountOK
    <3>2. Once' => count.runs = 0
      BY <1>1, <3>1 DEF Once
    <3> HIDE DEF TypeInv
    <3> QED  BY <1>1, <3>1, <3>2, NothingBeforeRuns DEF Grouped
  <2>3. ASSUME NEW s \in Rows, ExtractUnreadable(s) PROVE Grouped'
    <3>1. UNCHANGED <<members, count>> /\ extract'.queued = extract.queued /\ extract'.pc = extract.pc
      BY <2>3 DEF ExtractUnreadable, jobVars
    <3>2. \A j \in Groups : step'[j] = step[j]
      BY <2>3, ExtractorApart DEF ExtractUnreadable, Holders
    <3> QED  BY <1>1, <3>1, <3>2 DEF Grouped
  <2>4. CASE ExtractRecheck
    <3>1. UNCHANGED <<members, step>> /\ extract.pc = "unreadable" /\ extract'.pc \in {"idle", "enqueue"}
      BY <2>4, Zenon DEF ExtractRecheck, captureVars
    <3> QED  BY <1>1, <3>1 DEF Grouped
  <2>5. CASE ExtractEnqueue
    <3>1. UNCHANGED step /\ extract.pc = "enqueue" /\ extract'.pc = "idle"
      BY <2>5 DEF ExtractEnqueue, ExtractQueues, captureVars
    <3>2. Once => \A j \in Groups, s \in Rows : step[j][s] = "no"
      BY <3>1 DEF Grouped
    <3> QED  BY <1>1, <3>1, <3>2 DEF Grouped
  <2>6. CASE FailBuild("extract")
    BY <1>2, <2>6 DEF FailBuild, jobVars, captureVars
  <2> QED  BY <1>4, <2>1, <2>2, <2>3, <2>4, <2>5, <2>6 DEF ExtractWorker
<1>5. CASE FinalizeWorker
  BY <1>2, <1>5 DEF FinalizeWorker, FinalizeRun, FinalizeRead, FinalizeWrite, FinalizeDone, FailBuild,
                    jobVars, captureVars
<1>6. CASE Reaper
  BY <1>2, <1>6 DEF Reaper, WindowPasses, ReaperScan, ReaperMark, ReaperSelect, ReaperTx, ReaperJobs, jobVars, captureVars
<1>7. CASE Faults
  <2>1. CASE RebuildEnqueueFails
    <3>1. ~Once'
      BY <1>1, <2>1 DEF RebuildEnqueueFails, RunsBegan, Once
    <3> QED  BY <3>1 DEF Grouped
  <2>2. CASE ExtractFaults
    <3>1. extract'.pc = "idle" /\ (extract.pc = "enqueue" \/ UNCHANGED members)
      BY <2>2 DEF ExtractFaults, ExtractQueues
    <3>2. \A j \in Groups : step'[j] = step[j]
      BY <2>2, ExtractorApart DEF ExtractFaults, Holders
    <3>3. Once /\ extract.pc = "enqueue" => \A j \in Groups, s \in Rows : step[j][s] = "no"
      BY DEF Grouped
    <3> QED  BY <1>1, <3>1, <3>2, <3>3 DEF Grouped
  <2>3. CASE ConfirmFails \/ WebFaults \/ FinalizeFaults \/ ReaperFaults \/ \E d \in DiffIds : DiffFaults(d)
    BY <1>2, <2>3 DEF ConfirmFails, WebFaults, FinalizeFaults, ReaperFaults, DiffFaults, jobVars, captureVars
  <2>4. CASE FailedHandlerFaults
    <3>1. \A j \in Groups, s \in Rows : step'[j][s] # "no" => step[j][s] # "no"
      BY <2>4, HolderSets DEF FailedHandlerFaults, NoSteps, captureVars
    <3> QED  BY <1>1, <2>4, <3>1, GroupedKept DEF FailedHandlerFaults, jobVars
  <2>5. ASSUME NEW j \in Groups, CaptureFaults(j) PROVE Grouped'
    <3>1. \A g \in Groups, s \in Rows : step'[g][s] # "no" => step[g][s] # "no" \/ s \in members[g]
      <4>1. \A g \in Groups : g # j => step'[g] = step[g]
        BY <2>5, HolderSets DEF CaptureFaults
      <4>2. \A s \in Rows : step'[j][s] # "no" => s \in members[j]
        BY <2>5, HolderSets DEF CaptureFaults, NoSteps
      <4> QED  BY <4>1, <4>2
    <3> QED  BY <1>1, <2>5, <3>1, GroupedKept DEF CaptureFaults
  <2>6. ASSUME NEW j \in Groups, NEW s \in Rows, CapturePersistFails(j, s) PROVE Grouped'
    <3>1. \A g \in Groups, r \in Rows : step'[g][r] # "no" => step[g][r] # "no"
      BY <2>6, HolderSets DEF CapturePersistFails
    <3> QED  BY <1>1, <2>6, <3>1, GroupedKept DEF CapturePersistFails, jobVars
  <2> QED  BY <1>7, <2>1, <2>2, <2>3, <2>4, <2>5, <2>6 DEF Faults
<1>8. ASSUME NEW h \in Holders, NEW r \in Rows, RowWorker(h, r) PROVE Grouped'
  <2>1. UNCHANGED <<extract, members>>
    BY <1>8 DEF RowWorker, ErrorRead, MarkErrored, CreateDiff, EnqueueDiff, jobVars
  <2>2. step[h][r] # "no" /\ \E k : step' = [step EXCEPT ![h][r] = k]
    BY <1>8, Zenon DEF RowWorker, ErrorRead, MarkErrored, CreateDiff, EnqueueDiff
  <2>3. \A j \in Groups, s \in Rows : step'[j][s] # "no" => step[j][s] # "no"
    BY <2>2, HolderSets
  <2> QED  BY <1>1, <2>1, <2>3, GroupedKept
<1>9. ASSUME NEW j \in Groups, CaptureWorker(j) PROVE Grouped'
  <2>1. UNCHANGED <<extract, members>>
    BY <1>9 DEF CaptureWorker, CaptureRun, CaptureDone, CaptureCheck, CaptureMark, CaptureShoot,
                CaptureStore, CaptureFailed, jobVars
  <2>2. CASE CaptureRun(j) \/ CaptureDone(j)
    <3>1. \A g \in Groups, s \in Rows : step'[g][s] # "no" => step[g][s] # "no" \/ s \in members[g]
      <4>1. step' = step \/ step' = [step EXCEPT ![j] = [s \in Rows |-> IF s \in members[j] THEN "todo" ELSE "no"]]
        BY <2>2 DEF CaptureRun, CaptureDone, captureVars
      <4>2. step \in [Holders -> [Rows -> StepKind]] /\ j \in Holders
        BY HolderSets
      <4> QED  BY <4>1, <4>2, HolderSets
    <3> QED  BY <1>1, <2>1, <3>1, GroupedKept
  <2>3. ASSUME NEW s \in Rows, CaptureCheck(j, s) \/ CaptureMark(j, s) \/ CaptureStore(j, s) \/ CaptureFailed(j, s)
        PROVE  Grouped'
    <3>1. step[j][s] # "no" /\ \E k : step' = [step EXCEPT ![j][s] = k]
      BY <2>3, Zenon DEF CaptureCheck, CaptureMark, CaptureStore, CaptureFailed
    <3>2. \A g \in Groups, r \in Rows : step'[g][r] # "no" => step[g][r] # "no"
      BY <3>1, HolderSets
    <3> QED  BY <1>1, <2>1, <3>2, GroupedKept
  <2>4. ASSUME NEW s \in Rows, CaptureShoot(j, s) PROVE Grouped'
    <3>1. step \in [Holders -> [Rows -> StepKind]] /\ j \in Holders /\ step[j][s] # "no"
      BY <2>4, HolderSets DEF CaptureShoot
    <3>2. CASE step' = [step EXCEPT ![j][s] = "store"] \/ step' = [step EXCEPT ![j][s] = "err"]
      <4>1. \A g \in Groups, r \in Rows : step'[g][r] # "no" => step[g][r] # "no"
        BY <3>1, <3>2, HolderSets
      <4> QED  BY <1>1, <2>1, <4>1, GroupedKept
    <3>3. CASE step' = [step EXCEPT ![j] = [r \in Rows |->
                          IF r = s \/ step[j][r] = "todo" THEN "abort" ELSE step[j][r]]]
      <4>1. \A g \in Groups, r \in Rows : step'[g][r] # "no" => step[g][r] # "no"
        BY <3>1, <3>3, HolderSets
      <4> QED  BY <1>1, <2>1, <4>1, GroupedKept
    <3> QED  BY <2>4, <3>2, <3>3 DEF CaptureShoot
  <2> QED  BY <1>9, <2>2, <2>3, <2>4 DEF CaptureWorker
<1>10. ASSUME NEW d \in DiffIds, DiffWorker(d) PROVE Grouped'
  BY <1>2, <1>10 DEF DiffWorker, DiffRun, DiffWrite, DiffCheck, DiffFailed, jobVars, captureVars
<1>11. CASE UNCHANGED vars
  BY <1>2, <1>11 DEF vars, jobVars, captureVars
<1> QED  BY <1>3, <1>4, <1>5, <1>6, <1>7, <1>8, <1>9, <1>10, <1>11 DEF Next

Erred(s) == snap[s] \in {"error", "canceled"}

\* What the extraction does once it has reported that a story could not be read.
Reported == {"errdiff", "errenq", "diff", "enq"}

EarlyFacts ==
  /\ \A s \in Rows : diff[s] # "none" \/ step[Extractor][s] \in Reported => Erred(s)
  /\ \A s \in Rows : diff[s] # "success"
  /\ \A d \in DiffIds : dpc[d] # "pass"
  /\ fjob.st # "none" => Captured # {}

\* A run has inserted its rows and not queued their groups.
Inserting == extract.pc \in {"unreadable", "enqueue"}

\* Until the first run queues its groups, only the rows of unreadable stories have diffs.
Early == Once /\ Inserting => EarlyFacts

LEMMA EarlyKept ==
  ASSUME RowsKept, EarlyFacts, \A s \in Rows : Erred(s) => Erred(s)',
         \A s \in Rows : diff'[s] # "none" \/ step'[Extractor][s] \in Reported =>
           diff[s] # "none" \/ step[Extractor][s] \in Reported \/ Erred(s)',
         \A s \in Rows : diff'[s] = "success" => diff[s] = "success",
         \A d \in DiffIds : dpc'[d] = "pass" => dpc[d] = "pass",
         fjob'.st # "none" => fjob.st # "none" \/ Captured # {}
  PROVE  EarlyFacts'
<1>1. Captured # {} => Captured' # {}
  BY DEF RowsKept, Here, Captured
<1> QED  BY <1>1 DEF EarlyFacts

LEMMA EarlyUntouched ==
  ASSUME RowsKept, EarlyFacts, UNCHANGED <<snap, diff, dpc>>, step'[Extractor] = step[Extractor],
         fjob'.st # "none" => fjob.st # "none"
  PROVE  EarlyFacts'
<1>1. \A s \in Rows : Erred(s) => Erred(s)'
  BY DEF Erred
<1> QED  BY <1>1, EarlyKept

LEMMA EarlyWeb ==
  ASSUME TypeInv, RowsHere, RowsKept, RunsBegan, Once', EarlyFacts, Web
  PROVE  EarlyFacts'
<1>1. CASE ConfirmRead \/ ConfirmEnqueue \/ RebuildRead
  BY <1>1, EarlyUntouched DEF ConfirmRead, ConfirmEnqueue, RebuildRead, dbVars, jobVars, captureVars
<1>2. CASE InTransaction
  BY <1>2, NothingShows, EarlyUntouched DEF dbVars, jobVars, captureVars
<1>3. CASE CancelCommit
  <2>1. UNCHANGED <<step, dpc, fjob>>
    BY <1>3 DEF CancelCommit, jobVars, captureVars
  <2>2. \A s \in Rows : Erred(s) => Erred(s)'
    BY <1>3, ClosingShows DEF Closes, Erred
  <2>3. \A s \in Rows : diff'[s] = diff[s] \/ (diff[s] # "none" /\ diff'[s] # "success")
    BY <1>3, ClosingShows DEF Closes, Unfinished
  <2> QED  BY <2>1, <2>2, <2>3, EarlyKept
<1>4. CASE CancelJobs
  BY <1>4, EarlyUntouched DEF CancelJobs, CancelBuildJobs, RemoveJob, NoJob, dbVars, captureVars
<1>5. CASE RebuildTx \/ RebuildEnqueue \/ RebuildFail \/ RebuildUndo
  <2>1. count.rebuilds \in Nat
    BY BoundsAssumption DEF TypeInv, TypeOK, CountOK
  <2>2. ~Once'
    BY <1>5, <2>1 DEF RebuildTx, RebuildEnqueue, RebuildFail, RebuildUndo, RunsBegan, Once, TypeInv,
                      TypeOK, CountOK
  <2> QED  BY <2>2
<1> QED  BY <1>1, <1>2, <1>3, <1>4, <1>5 DEF Web, InTransaction

LEMMA EarlyCreate ==
  ASSUME TypeInv, RowsHere, RowsKept, RunsBegan, DiffInv, Once', ExtractCreate
  PROVE  EarlyFacts'
<1>1. UNCHANGED <<diff, step, dpc, fjob>> /\ count'.runs = count.runs + 1 /\ count.runs \in Nat
      /\ count.rebuilds \in Nat /\ count'.rebuilds = count.rebuilds
  BY BoundsAssumption DEF ExtractCreate, jobVars, captureVars, TypeInv, TypeOK, CountOK
<1>2. count.runs = 0 /\ count.rebuilds = 0
  BY <1>1 DEF Once
<1>3. \A s \in Rows : ~Here(s)
  BY <1>2, NothingBeforeRuns
<1>4. \A s \in Rows : diff[s] = "none" /\ step[Extractor][s] = "no"
  BY <1>3, HolderSets DEF RowsHere, RowsPresent
<1>5. \A d \in DiffIds : dpc[d] = "idle"
  <2> SUFFICES ASSUME NEW d \in DiffIds PROVE dpc[d] = "idle"
    OBVIOUS
  <2>1. d[1] \in Rows /\ d[2] \in Nat /\ d[2] >= 1 /\ gen[d[1]] \in Nat
    BY RowSets, BoundsAssumption DEF TypeInv, TypeOK, DbOK
  <2>2. gen[d[1]] <= 0
    BY <1>2, <1>4, <2>1 DEF TypeInv, GenBounded
  <2> QED  BY <2>1, <2>2 DEF DiffInv, NoJobAhead
<1>6. fjob.st = "none"
  BY <1>2 DEF RunsBegan
<1> QED  BY <1>1, <1>4, <1>5, <1>6 DEF EarlyFacts, Reported

LEMMA EarlyUnreadable ==
  ASSUME TypeInv, RowsHere, RowsKept, EarlyFacts, NEW s \in Rows, ExtractUnreadable(s)
  PROVE  EarlyFacts'
<1>1. UNCHANGED <<diff, dpc, fjob>> /\ s \in extract.bad
  BY DEF ExtractUnreadable, jobVars
<1>2. \A r \in Rows : step'[Extractor][r] = IF r = s THEN "err" ELSE step[Extractor][r]
  BY HolderSets DEF ExtractUnreadable, TypeInv, TypeOK, CaptureOK
<1>3. ~Erred(s)
  BY <1>1 DEF RowsHere, RowsPresent, Erred
<1>4. \A r \in Rows : r # s => snap'[r] = snap[r]
  BY DEF ExtractUnreadable, TypeInv, TypeOK, DbOK
<1>5. \A r \in Rows : Erred(r) => Erred(r)'
  BY <1>3, <1>4 DEF Erred
<1> QED  BY <1>1, <1>2, <1>5, EarlyKept DEF Reported

LEMMA EarlyReaper ==
  ASSUME TypeInv, RowsHere, RowsKept, EarlyFacts, Reaper
  PROVE  EarlyFacts'
<1>1. CASE WindowPasses \/ ReaperScan
  BY <1>1, EarlyUntouched DEF WindowPasses, ReaperScan, dbVars, jobVars, captureVars
<1>2. CASE InTransaction
  BY <1>2, NothingShows, EarlyUntouched DEF dbVars, jobVars, captureVars
<1>3. CASE ReaperTx
  <2>1. UNCHANGED <<step, dpc, fjob>>
    BY <1>3 DEF ReaperTx, jobVars, captureVars
  <2>2. \A s \in Rows : Erred(s) => Erred(s)'
    BY <1>3, ClosingShows DEF Closes, Erred
  <2>3. \A s \in Rows : \/ diff'[s] = diff[s]
                        \/ diff'[s] # "success" /\ (diff[s] # "none" \/ snap'[s] = "error")
    BY <1>3, ClosingShows DEF Closes
  <2> QED  BY <2>1, <2>2, <2>3, EarlyKept DEF Erred
<1>4. CASE ReaperJobs
  BY <1>4, EarlyUntouched DEF ReaperJobs, CancelBuildJobs, RemoveJob, NoJob, dbVars, captureVars
<1> QED  BY <1>1, <1>2, <1>3, <1>4 DEF Reaper, InTransaction

LEMMA EarlyFaults ==
  ASSUME TypeInv, RowsKept, RunsBegan, Once', extract'.pc # "idle", EarlyFacts, Faults
  PROVE  EarlyFacts'
<1> USE HolderSets DEF TypeInv, TypeOK, CaptureOK, HandlersOK
<1>1. \A j \in Groups : j # Extractor
  BY ExtractorApart
<1>2. CASE ConfirmFails \/ WebFaults \/ ReaperFaults
  BY <1>2, EarlyUntouched DEF ConfirmFails, WebFaults, ReaperFaults, dbVars, jobVars, captureVars
<1>3. CASE FinalizeFaults
  BY <1>3, EarlyUntouched DEF FinalizeFaults, dbVars, captureVars
<1>4. CASE RebuildEnqueueFails
  <2>1. ~Once'
    BY <1>4, BoundsAssumption DEF RebuildEnqueueFails, Faulted, RunsBegan, Once, CountOK
  <2> QED  BY <2>1
<1>5. CASE ExtractFaults
  BY <1>5 DEF ExtractFaults
<1>6. ASSUME NEW j \in Groups, CaptureFaults(j) \/ \E s \in Rows : CapturePersistFails(j, s)
      PROVE  EarlyFacts'
  <2>1. UNCHANGED <<snap, diff, dpc, fjob>> /\ step'[Extractor] = step[Extractor]
    BY <1>1, <1>6, Zenon DEF CaptureFaults, CapturePersistFails, dbVars, jobVars
  <2> QED  BY <2>1, EarlyUntouched
<1>7. CASE FailedHandlerFaults
  <2>1. UNCHANGED <<snap, diff, fjob>> /\ step'[Extractor] = step[Extractor]
    BY <1>1, <1>7 DEF FailedHandlerFaults, dbVars, jobVars, captureVars
  <2>2. \A d \in DiffIds : dpc'[d] = "pass" => dpc[d] = "pass"
    BY <1>7 DEF FailedHandlerFaults
  <2>3. \A s \in Rows : Erred(s) => Erred(s)'
    BY <2>1 DEF Erred
  <2> QED  BY <2>1, <2>2, <2>3, EarlyKept
<1>8. ASSUME NEW d \in DiffIds, DiffFaults(d) PROVE EarlyFacts'
  <2>1. UNCHANGED <<snap, diff, step>>
    BY <1>8 DEF DiffFaults, dbVars, captureVars
  <2>2. \A e \in DiffIds : dpc'[e] = "pass" => dpc[e] = "pass"
    BY <1>8 DEF DiffFaults
  <2>3. \A s \in Rows : Erred(s) => Erred(s)'
    BY <2>1 DEF Erred
  <2>4. fjob'.st # "none" => fjob.st # "none" \/ Captured # {}
    BY <1>8 DEF DiffFaults, FinalizeQueuedIfAllDone, HasAllDoneForBuild
  <2> QED  BY <2>1, <2>2, <2>3, <2>4, EarlyKept
<1> QED  BY <1>2, <1>3, <1>4, <1>5, <1>6, <1>7, <1>8 DEF Faults

LEMMA EarlyRow ==
  ASSUME TypeInv, RowsKept, EarlyFacts, NEW h \in Holders, NEW s \in Rows, RowWorker(h, s),
         \A j \in Groups, r \in Rows : step[j][r] = "no"
  PROVE  EarlyFacts'
<1> USE HolderSets DEF TypeInv, TypeOK, CaptureOK, DbOK
<1>1. h = Extractor
  BY DEF RowWorker, ErrorRead, MarkErrored, CreateDiff, EnqueueDiff, Holders
<1>2. CASE ErrorRead(h, s)
  <2>1. UNCHANGED <<snap, diff, dpc, fjob>>
    BY <1>2 DEF ErrorRead, dbVars, jobVars
  <2>2. \A r \in Rows : step'[Extractor][r] \in Reported => step[Extractor][r] \in Reported
    BY <1>1, <1>2 DEF ErrorRead, Reported
  <2>3. \A r \in Rows : Erred(r) => Erred(r)'
    BY <2>1 DEF Erred
  <2> QED  BY <2>1, <2>2, <2>3, EarlyKept
<1>3. CASE MarkErrored(h, s)
  <2>1. UNCHANGED <<diff, dpc, fjob>>
    BY <1>3 DEF MarkErrored, jobVars
  <2>2. Erred(s)' /\ \A r \in Rows : r # s => snap'[r] = snap[r]
    BY <1>3 DEF MarkErrored, Erred
  <2>3. \A r \in Rows : r # s => step'[Extractor][r] = step[Extractor][r]
    BY <1>1, <1>3 DEF MarkErrored
  <2>4. \A r \in Rows : Erred(r) => Erred(r)'
    BY <2>2 DEF Erred
  <2>5. \A r \in Rows : diff'[r] # "none" \/ step'[Extractor][r] \in Reported =>
           diff[r] # "none" \/ step[Extractor][r] \in Reported \/ Erred(r)'
    BY <2>1, <2>2, <2>3
  <2> QED  BY <2>1, <2>4, <2>5, EarlyKept
<1>4. CASE CreateDiff(h, s)
  <2>1. UNCHANGED <<snap, dpc, fjob>> /\ step[Extractor][s] \in Reported
    BY <1>1, <1>4 DEF CreateDiff, jobVars, Reported
  <2>2. \A r \in Rows : diff'[r] = diff[r] \/ (r = s /\ diff'[r] = "pending")
    BY <1>4 DEF CreateDiff
  <2>3. \A r \in Rows : r # s => step'[Extractor][r] = step[Extractor][r]
    BY <1>1, <1>4 DEF CreateDiff
  <2>4. \A r \in Rows : Erred(r) => Erred(r)'
    BY <2>1 DEF Erred
  <2>5. \A r \in Rows : diff'[r] # "none" \/ step'[Extractor][r] \in Reported =>
           diff[r] # "none" \/ step[Extractor][r] \in Reported \/ Erred(r)'
    BY <2>1, <2>2, <2>3
  <2> QED  BY <2>1, <2>2, <2>4, <2>5, EarlyKept
<1>5. CASE EnqueueDiff(h, s)
  <2>1. UNCHANGED <<snap, diff, dpc, fjob>>
    BY <1>5 DEF EnqueueDiff, dbVars
  <2>2. \A r \in Rows : step'[Extractor][r] \in Reported => step[Extractor][r] \in Reported
    BY <1>1, <1>5 DEF EnqueueDiff, Reported
  <2>3. \A r \in Rows : Erred(r) => Erred(r)'
    BY <2>1 DEF Erred
  <2> QED  BY <2>1, <2>2, <2>3, EarlyKept
<1> QED  BY <1>2, <1>3, <1>4, <1>5 DEF RowWorker

LEMMA EarlyDiff ==
  ASSUME TypeInv, RowsKept, DiffInv, EarlyFacts, count.rebuilds = 0, NEW d \in DiffIds, DiffWorker(d)
  PROVE  EarlyFacts'
<1> USE DEF TypeInv, TypeOK, HandlersOK, DbOK
<1>1. UNCHANGED <<snap, step>> /\ d[1] \in Rows
  BY RowSets DEF DiffWorker, DiffRun, DiffWrite, DiffCheck, DiffFailed, dbVars, captureVars
<1>2. \A s \in Rows : Erred(s) => Erred(s)'
  BY <1>1 DEF Erred
<1>3. CASE DiffRun(d)
  <2>1. Erred(d[1])
    <3>1. ~(gen[d[1]] < d[2]) /\ d[2] \in Nat /\ d[2] >= 1 /\ gen[d[1]] \in Nat
      BY <1>1, <1>3, RowSets, BoundsAssumption DEF DiffRun, DiffInv, NoJobAhead
    <3>2. diff[d[1]] # "none"
      BY <1>1, <3>1 DEF GenBounded
    <3> QED  BY <1>1, <3>2 DEF EarlyFacts
  <2>2. \A e \in DiffIds : dpc'[e] = "pass" => dpc[e] = "pass"
    BY <1>3, <2>1 DEF DiffRun, Erred, Uncomparable
  <2>3. fjob' = fjob /\ \A s \in Rows : diff'[s] = diff[s] \/ (diff[s] # "none" /\ diff'[s] = "error")
    BY <1>3 DEF DiffRun
  <2> QED  BY <1>1, <1>2, <2>2, <2>3, EarlyKept
<1>4. CASE DiffWrite(d) \/ DiffFailed(d)
  <2>1. dpc[d] # "pass"
    BY DEF EarlyFacts
  <2>2. fjob' = fjob /\ \A s \in Rows : diff'[s] = diff[s] \/ (diff[s] # "none" /\ diff'[s] = "error")
    BY <1>4, <2>1 DEF DiffWrite, DiffFailed, DiffExists, jobVars
  <2>3. \A e \in DiffIds : dpc'[e] = "pass" => dpc[e] = "pass"
    BY <1>4 DEF DiffWrite, DiffFailed
  <2> QED  BY <1>1, <1>2, <2>2, <2>3, EarlyKept
<1>5. CASE DiffCheck(d)
  <2>1. UNCHANGED diff /\ (fjob'.st # "none" => fjob.st # "none" \/ Captured # {})
    BY <1>5 DEF DiffCheck, FinalizeQueuedIfAllDone, dbVars, HasAllDoneForBuild
  <2>2. \A e \in DiffIds : dpc'[e] = "pass" => dpc[e] = "pass"
    BY <1>5 DEF DiffCheck
  <2> QED  BY <1>1, <1>2, <2>1, <2>2, EarlyKept
<1> QED  BY <1>3, <1>4, <1>5 DEF DiffWorker

LEMMA EarlyStep ==
  ASSUME TypeInv, RowsHere, RowsKept, RunsBegan, Grouped, DiffInv, Early, [Next]_vars
  PROVE  Early'
<1> SUFFICES ASSUME Once', Inserting' PROVE EarlyFacts'
  BY DEF Early
<1> USE HolderSets DEF Inserting
<1>1. Once /\ count.rebuilds = 0
  BY CountsGrow DEF Once
<1>2. ASSUME Inserting
      PROVE  EarlyFacts /\ \A j \in Groups : members[j] = {} /\ \A s \in Rows : step[j][s] = "no"
  BY <1>1, <1>2 DEF Early, Grouped
<1>3. CASE Web
  BY <1>2, <1>3, EarlyWeb, Zenon DEF Web, ConfirmRead, ConfirmEnqueue, CancelTx, CancelSelect, CancelCommit, CancelJobs, RebuildRead, RebuildDelete, RebuildTx,
     RebuildEnqueue, RebuildMark, RebuildFail, RebuildUndo
<1>4. CASE ExtractWorker
  <2>1. CASE ExtractRun \/ ExtractRecheck \/ ExtractEnqueue
    <3>1. CASE ExtractRun
      BY <3>1 DEF ExtractRun, TypeInv, TypeOK, HandlersOK
    <3>2. CASE ExtractRecheck
      <4>1. extract'.pc = "enqueue" /\ UNCHANGED snap
        BY <3>2, Zenon DEF ExtractRecheck, TypeInv, TypeOK, HandlersOK
      <4>2. Inserting /\ UNCHANGED <<diff, dpc, fjob>> /\ step'[Extractor] = step[Extractor]
        BY <3>2 DEF ExtractRecheck, captureVars
      <4> QED  BY <1>2, <4>1, <4>2, EarlyUntouched
    <3>3. CASE ExtractEnqueue
      BY <3>3 DEF ExtractEnqueue
    <3> QED  BY <2>1, <3>1, <3>2, <3>3
  <2>2. CASE FailBuild("extract")
    BY <1>2, <2>2, EarlyUntouched DEF FailBuild, jobVars, captureVars
  <2>3. ASSUME NEW s \in Rows, ExtractUnreadable(s) PROVE EarlyFacts'
    <3>1. Inserting
      BY <2>3 DEF ExtractUnreadable
    <3> QED  BY <1>2, <2>3, <3>1, EarlyUnreadable
  <2> QED  BY <1>4, <2>1, <2>2, <2>3, EarlyCreate DEF ExtractWorker
<1>5. CASE FinalizeWorker
  <2>1. UNCHANGED <<snap, diff, dpc, step, extract>> /\ (fjob'.st # "none" => fjob.st # "none")
    BY <1>5 DEF FinalizeWorker, FinalizeRun, FinalizeRead, FinalizeWrite, FinalizeDone, FailBuild, NoJob,
                dbVars, jobVars, captureVars
  <2> QED  BY <1>2, <2>1, EarlyUntouched
<1>6. CASE Reaper
  <2>1. extract' = extract
    BY <1>6 DEF Reaper, WindowPasses, ReaperScan, ReaperMark, ReaperSelect, ReaperTx, ReaperJobs
  <2> QED  BY <1>2, <1>6, <2>1, EarlyReaper
<1>7. CASE Faults
  <2>1. extract' = extract \/ extract'.pc = "idle"
    <3>1. CASE ExtractFaults
      BY <3>1 DEF ExtractFaults
    <3>2. CASE ~ExtractFaults
      BY <1>7, <3>2, Zenon DEF Faults, ConfirmFails, RebuildEnqueueFails, WebFaults, FinalizeFaults,
                        FailedHandlerFaults, ReaperFaults, CaptureFaults, CapturePersistFails, DiffFaults
    <3> QED  BY <3>1, <3>2
  <2>2. Inserting
    BY <2>1
  <2> QED  BY <1>2, <1>7, <2>2, EarlyFaults
<1>8. ASSUME NEW h \in Holders, NEW s \in Rows, RowWorker(h, s) PROVE EarlyFacts'
  <2>1. extract' = extract
    BY <1>8 DEF RowWorker, ErrorRead, MarkErrored, CreateDiff, EnqueueDiff
  <2> QED  BY <1>2, <1>8, <2>1, EarlyRow
<1>9. ASSUME NEW j \in Groups, CaptureWorker(j) PROVE EarlyFacts'
  <2>1. extract' = extract
    BY <1>9 DEF CaptureWorker, CaptureRun, CaptureDone, CaptureCheck, CaptureMark, CaptureShoot,
                CaptureStore, CaptureFailed
  <2>2. CaptureRun(j) \/ CaptureDone(j)
    BY <1>2, <1>9, <2>1 DEF CaptureWorker, CaptureCheck, CaptureMark, CaptureShoot, CaptureStore, CaptureFailed
  <2>3. UNCHANGED <<snap, diff, dpc, fjob>> /\ step'[Extractor] = step[Extractor]
    BY <2>2, ExtractorApart DEF CaptureRun, CaptureDone, dbVars, captureVars, TypeInv, TypeOK, CaptureOK
  <2> QED  BY <1>2, <2>1, <2>3, EarlyUntouched
<1>10. ASSUME NEW d \in DiffIds, DiffWorker(d) PROVE EarlyFacts'
  <2>1. extract' = extract
    BY <1>10 DEF DiffWorker, DiffRun, DiffWrite, DiffCheck, DiffFailed
  <2> QED  BY <1>1, <1>2, <1>10, <2>1, EarlyDiff
<1>11. CASE UNCHANGED vars
  BY <1>2, <1>11, EarlyUntouched DEF vars, dbVars, jobVars, captureVars
<1> QED  BY <1>3, <1>4, <1>5, <1>6, <1>7, <1>8, <1>9, <1>10, <1>11 DEF Next

\* Once the diffs are finished and the rows inserted, only a rebuild brings work back.
AllDone == Pending = {} /\ extract.bad = {}

\* Or a story failed for good: nothing that is queued or under way works on its snapshot.
Hopeless(s) ==
  /\ snap[s] = "error" /\ diff[s] = "error"
  /\ s \notin extract.queued
  /\ \A j \in Groups : s \notin members[j]
  /\ \A d \in DiffIds : d[1] = s => dpc[d] # "pass"

\* A finalization that has read no pending work is right, or finds an error.
Final ==
  Once /\ build # "canceled" =>
    /\ finalizer.pc = "read" => AllDone \/ \E s \in Rows : Hopeless(s)
    /\ finalizer.pc = "write" => AllDone \/ finalizer.verdict = "error"

Finished(s) == diff[s] \notin {"none", "pending"}

StaysDone == extract'.bad = {} /\ \A s \in Rows : (Here(s)' => Here(s)) /\ (Finished(s) => Finished(s)')

LEMMA StaysDoneUntouched ==
  ASSUME UNCHANGED <<snap, diff>>, extract.bad = {}, extract' = extract \/ extract'.bad = {}
  PROVE  StaysDone
BY DEF StaysDone, Here, Finished

LEMMA StaysDoneStep ==
  ASSUME TypeInv, RowsHere, RunsBegan, Once', count.runs >= 1, extract.bad = {}, [Next]_vars
  PROVE  StaysDone
<1> USE HolderSets DEF TypeInv, TypeOK, DbOK, HandlersOK
<1>1. Once /\ count.rebuilds = 0 /\ count'.rebuilds = 0 /\ count.runs = 1 /\ count'.runs = 1
  BY CountsGrow DEF Once
<1>2. CASE Web
  <2>1. CASE ConfirmRead \/ ConfirmEnqueue \/ CancelJobs \/ RebuildRead \/ RebuildEnqueue \/ RebuildUndo
    BY <2>1, StaysDoneUntouched DEF ConfirmRead, ConfirmEnqueue, CancelJobs, RebuildRead, RebuildEnqueue,
       RebuildUndo, dbVars
  <2>2. CASE InTransaction
    BY <2>2, NothingShows, StaysDoneUntouched DEF dbVars
  <2>3. CASE CancelCommit \/ RebuildFail
    <3>1. UNCHANGED extract
      BY <2>3 DEF CancelCommit, RebuildFail
    <3> QED  BY <2>3, <3>1, ClosingShows DEF Closes, Unfinished, StaysDone, Here, Finished
  <2>4. CASE RebuildTx
    BY <1>1, <2>4 DEF RebuildTx, CountOK
  <2> QED  BY <1>2, <2>1, <2>2, <2>3, <2>4 DEF Web, InTransaction
<1>3. CASE ExtractWorker
  <2>1. CASE ExtractCreate
    BY <1>1, <2>1 DEF ExtractCreate, CountOK
  <2>2. ASSUME NEW s \in Rows, ExtractUnreadable(s) PROVE StaysDone
    BY <2>2 DEF ExtractUnreadable
  <2>3. CASE ExtractRecheck
    <3>1. UNCHANGED diff /\ extract'.bad = {}
      BY <2>3, Zenon DEF ExtractRecheck
    <3>2. \A s \in Rows : Here(s)' => Here(s)
      BY <2>3 DEF ExtractRecheck, SnapsMarked, UnfinishedRows, Unfinished, Here
    <3> QED  BY <3>1, <3>2 DEF StaysDone, Finished
  <2>4. CASE ExtractRun
    <3>1. extract'.bad = {}
      BY <2>4 DEF ExtractRun
    <3> QED  BY <2>4, <3>1, StaysDoneUntouched DEF ExtractRun, dbVars
  <2>5. CASE ExtractEnqueue \/ FailBuild("extract")
    BY <2>5, StaysDoneUntouched DEF ExtractEnqueue, FailBuild, dbVars
  <2> QED  BY <1>3, <2>1, <2>2, <2>3, <2>4, <2>5 DEF ExtractWorker
<1>4. CASE FinalizeWorker
  BY <1>4, StaysDoneUntouched
     DEF FinalizeWorker, FinalizeRun, FinalizeRead, FinalizeWrite, FinalizeDone, FailBuild, dbVars
<1>5. CASE Reaper
  <2>1. CASE ReaperTx
    <3>1. UNCHANGED extract
      BY <2>1 DEF ReaperTx
    <3> QED  BY <2>1, <3>1, ClosingShows DEF Closes, Unfinished, StaysDone, Here, Finished
  <2> QED  BY <1>5, <2>1, StaysDoneUntouched DEF Reaper, WindowPasses, ReaperScan, ReaperMark, ReaperSelect,
              ReaperJobs, dbVars
<1>6. CASE Faults
  <2>1. CASE RebuildEnqueueFails
    BY <2>1, StaysDoneUntouched DEF RebuildEnqueueFails, dbVars
  <2>2. CASE ExtractFaults
    <3>1. UNCHANGED <<snap, diff>> /\ extract'.bad = {}
      BY <2>2 DEF ExtractFaults, dbVars
    <3> QED  BY <3>1, StaysDoneUntouched
  <2> QED  BY <1>6, <2>1, <2>2, StaysDoneUntouched, Zenon
           DEF Faults, ConfirmFails, WebFaults, FinalizeFaults, FailedHandlerFaults,
               ReaperFaults, CaptureFaults, CapturePersistFails, DiffFaults, dbVars
<1>7. ASSUME NEW h \in Holders, NEW s \in Rows, RowWorker(h, s) PROVE StaysDone
  <2>1. step[h][s] # "no" /\ extract' = extract
    BY <1>7 DEF RowWorker, ErrorRead, MarkErrored, CreateDiff, EnqueueDiff
  <2>2. Here(s)
    BY <2>1 DEF RowsHere, RowsPresent
  <2>3. \A r \in Rows : r # s => snap'[r] = snap[r]
    BY <1>7 DEF RowWorker, ErrorRead, MarkErrored, CreateDiff, EnqueueDiff, dbVars
  <2>4. \A r \in Rows : diff'[r] = diff[r] \/ diff[r] = "none"
    BY <1>7 DEF RowWorker, ErrorRead, MarkErrored, CreateDiff, EnqueueDiff, NeedsDiff, dbVars
  <2> QED  BY <2>1, <2>2, <2>3, <2>4 DEF StaysDone, Here, Finished
<1>8. ASSUME NEW j \in Groups, CaptureWorker(j) PROVE StaysDone
  <2>1. UNCHANGED <<diff, extract>>
    BY <1>8 DEF CaptureWorker, CaptureRun, CaptureDone, CaptureCheck, CaptureMark, CaptureShoot,
                CaptureStore, CaptureFailed, dbVars
  <2>2. \A r \in Rows : snap'[r] = snap[r] \/ step[j][r] # "no"
    BY <1>8 DEF CaptureWorker, CaptureRun, CaptureDone, CaptureCheck, CaptureMark, CaptureShoot,
                CaptureStore, CaptureFailed, dbVars
  <2>3. \A r \in Rows : snap'[r] = snap[r] \/ Here(r)
    BY <2>2 DEF RowsHere, RowsPresent
  <2> QED  BY <2>1, <2>3 DEF StaysDone, Here, Finished
<1>9. ASSUME NEW d \in DiffIds, DiffWorker(d) PROVE StaysDone
  <2>1. UNCHANGED <<snap, extract>>
    BY <1>9 DEF DiffWorker, DiffRun, DiffWrite, DiffCheck, DiffFailed, dbVars
  <2>2. \A s \in Rows : diff'[s] = diff[s] \/ diff'[s] \in {"success", "error"}
    BY <1>9 DEF DiffWorker, DiffRun, DiffWrite, DiffCheck, DiffFailed, dbVars
  <2> QED  BY <2>1, <2>2 DEF StaysDone, Here, Finished
<1>10. CASE UNCHANGED vars
  BY <1>10, StaysDoneUntouched DEF vars, dbVars
<1> QED  BY <1>2, <1>3, <1>4, <1>5, <1>6, <1>7, <1>8, <1>9, <1>10 DEF Next

LEMMA AllDoneStep ==
  ASSUME TypeInv, RowsHere, RunsBegan, Once', count.runs >= 1, AllDone, [Next]_vars
  PROVE  AllDone'
BY StaysDoneStep DEF AllDone, StaysDone, Pending, Captured, Here, Finished

LEMMA CreateKeeps ==
  ASSUME TypeInv, RowsHere, ExtractCreate
  PROVE  extract'.queued = extract.queued /\ \A s \in Rows : Here(s) => snap'[s] = snap[s]
<1> DEFINE new == Stories \X {count.runs + 1}
<1> PICK skipped \in SUBSET new : \E bad \in SUBSET (new \ skipped) :
      /\ snap' = [s \in Rows |-> IF s \in skipped THEN "skipped"
                                 ELSE IF s \in new \ bad THEN "queued" ELSE snap[s]]
      /\ extract' = [extract EXCEPT !.pc = "unreadable", !.bad = bad]
  BY Zenon DEF ExtractCreate
<1>1. \A s \in Rows : s[2] \in Nat /\ count.runs \in Nat /\ (s \in new => s[2] = count.runs + 1)
  BY BoundsAssumption DEF Rows, Runs, TypeInv, TypeOK, CountOK
<1>2. \A s \in Rows : Here(s) => s \notin new
  BY <1>1 DEF RowsHere, RowsPresent, Here
<1>3. extract'.queued = extract.queued
  BY DEF TypeInv, TypeOK, HandlersOK
<1> QED  BY <1>2, <1>3

hopelessVars == <<snap, diff, members, dpc>>

LEMMA HopelessUntouched ==
  ASSUME NEW s \in Rows, Hopeless(s), UNCHANGED hopelessVars, extract'.queued \subseteq extract.queued
  PROVE  Hopeless(s)'
BY DEF Hopeless, hopelessVars

LEMMA HopelessQueued ==
  ASSUME NEW s \in Rows, s \notin extract.queued, \A j \in Groups : s \notin members[j], ExtractQueues
  PROVE  \A j \in Groups : s \notin members'[j]
BY DEF ExtractQueues, GroupMembers

LEMMA HopelessStep ==
  ASSUME TypeInv, RowsHere, RunsBegan, Grouped, Once', build' # "canceled", NEW s \in Rows, Hopeless(s),
         [Next]_vars
  PROVE  Hopeless(s)'
<1> USE HolderSets DEF TypeInv, TypeOK, DbOK, HandlersOK
<1>1. Once /\ count.rebuilds = 0 /\ count'.rebuilds = 0 /\ build # "canceled"
  BY CountsGrow, CanceledStep DEF Once
<1>2. snap[s] = "error" /\ diff[s] = "error" /\ s \notin extract.queued
      /\ (\A j \in Groups : s \notin members[j]) /\ \A d \in DiffIds : d[1] = s => dpc[d] # "pass"
  BY DEF Hopeless
<1>3. CASE Web
  <2>1. CASE ConfirmRead \/ ConfirmEnqueue \/ CancelJobs \/ RebuildRead \/ RebuildUndo
    BY <2>1, HopelessUntouched
       DEF ConfirmRead, ConfirmEnqueue, CancelJobs, RebuildRead, RebuildUndo, hopelessVars, dbVars, jobVars
  <2>2. CASE CancelCommit
    BY <2>2 DEF CancelCommit
  <2>3. CASE RebuildTx \/ RebuildEnqueue \/ RebuildFail
    BY <1>1, <2>3 DEF RebuildTx, RebuildEnqueue, RebuildFail, CountOK, RunsBegan
  <2>4. CASE InTransaction
    BY <2>4, NothingShows, HopelessUntouched DEF hopelessVars, dbVars, jobVars
  <2> QED  BY <1>3, <2>1, <2>2, <2>3, <2>4 DEF Web, InTransaction
<1>4. CASE ExtractWorker
  <2>1. CASE ExtractCreate
    <3>4. snap'[s] = "error" /\ extract'.queued = extract.queued
      BY <1>2, <2>1, CreateKeeps DEF Here
    <3> QED  BY <1>2, <2>1, <3>4 DEF ExtractCreate, jobVars, Hopeless
  <2>2. ASSUME NEW r \in Rows, ExtractUnreadable(r) PROVE Hopeless(s)'
    <3>1. r # s
      BY <1>2, <2>2 DEF ExtractUnreadable, RowsHere, RowsPresent
    <3> QED  BY <1>2, <2>2, <3>1 DEF ExtractUnreadable, jobVars, Hopeless
  <2>3. CASE ExtractRecheck
    <3> DEFINE q == {r \in Rows : snap[r] = "queued"}
    <3>1. extract' = [extract EXCEPT !.pc = "enqueue", !.queued = q, !.allSkipped = (Captured = {})]
      BY <1>1, <2>3 DEF ExtractRecheck
    <3>2. extract'.queued = q
      BY <3>1
    <3>3. s \notin extract'.queued
      BY <1>2, <3>2
    <3> QED  BY <1>1, <1>2, <2>3, <3>3 DEF ExtractRecheck, Hopeless
  <2>4. CASE ExtractRun
    <3>1. extract'.queued = extract.queued
      BY <2>4 DEF ExtractRun
    <3> QED  BY <2>4, <3>1, HopelessUntouched DEF ExtractRun, hopelessVars, dbVars
  <2>5. CASE ExtractEnqueue
    <3>1. \A j \in Groups : s \notin members'[j]
      BY <1>2, <2>5, HopelessQueued DEF ExtractEnqueue
    <3> QED  BY <1>2, <2>5, <3>1 DEF ExtractEnqueue, dbVars, Hopeless
  <2>6. CASE FailBuild("extract")
    BY <2>6, HopelessUntouched DEF FailBuild, hopelessVars, jobVars
  <2> QED  BY <1>4, <2>1, <2>2, <2>3, <2>4, <2>5, <2>6 DEF ExtractWorker
<1>5. CASE FinalizeWorker
  BY <1>5, HopelessUntouched
     DEF FinalizeWorker, FinalizeRun, FinalizeRead, FinalizeWrite, FinalizeDone, FailBuild, hopelessVars,
         dbVars, jobVars
<1>6. CASE Reaper
  <2>1. CASE ReaperTx
    <3>1. UNCHANGED <<members, extract, dpc>>
      BY <2>1 DEF ReaperTx, jobVars
    <3>2. ~CancelCommit
      BY <1>1 DEF CancelCommit
    <3>3. snap'[s] = "error" /\ diff'[s] = "error"
      BY <1>2, <2>1, <3>2, ClosingShows DEF Closes
    <3> QED  BY <1>2, <3>1, <3>3 DEF Hopeless
  <2>2. CASE InTransaction
    BY <2>2, NothingShows, HopelessUntouched DEF hopelessVars, dbVars, jobVars
  <2> QED  BY <1>6, <2>1, <2>2, HopelessUntouched DEF Reaper, InTransaction, WindowPasses, ReaperScan,
              ReaperJobs, hopelessVars, dbVars, jobVars
<1>7. CASE Faults
  <2>1. CASE RebuildEnqueueFails
    BY <1>1, <2>1 DEF RebuildEnqueueFails, Faulted, RunsBegan, CountOK
  <2>0. CASE ExtractFaults
    <3>1. UNCHANGED <<snap, diff, dpc>> /\ extract'.queued = {}
      BY <2>0 DEF ExtractFaults, dbVars
    <3>2. \A j \in Groups : s \notin members'[j]
      BY <1>2, <2>0, HopelessQueued DEF ExtractFaults
    <3> QED  BY <1>2, <3>1, <3>2 DEF Hopeless
  <2>2. CASE ConfirmFails \/ WebFaults \/ FinalizeFaults \/ ReaperFaults
             \/ \E j \in Groups : CaptureFaults(j) \/ \E r \in Rows : CapturePersistFails(j, r)
    BY <2>2, HopelessUntouched, Zenon
       DEF ConfirmFails, WebFaults, FinalizeFaults, ReaperFaults, CaptureFaults,
           CapturePersistFails, hopelessVars, dbVars, jobVars
  <2>3. CASE FailedHandlerFaults \/ \E d \in DiffIds : DiffFaults(d)
    <3>1. UNCHANGED <<snap, diff, members, extract>>
      BY <2>3 DEF FailedHandlerFaults, DiffFaults, dbVars, jobVars
    <3>2. \A d \in DiffIds : dpc'[d] = "pass" => dpc[d] = "pass"
      BY <2>3 DEF FailedHandlerFaults, DiffFaults
    <3> QED  BY <1>2, <3>1, <3>2 DEF Hopeless
  <2> QED  BY <1>7, <2>0, <2>1, <2>2, <2>3 DEF Faults
<1>8. ASSUME NEW h \in Holders, NEW r \in Rows, RowWorker(h, r) PROVE Hopeless(s)'
  <2>1. UNCHANGED <<members, dpc, extract>>
    BY <1>8 DEF RowWorker, ErrorRead, MarkErrored, CreateDiff, EnqueueDiff, jobVars
  <2>2. snap'[s] = "error"
    BY <1>2, <1>8 DEF RowWorker, ErrorRead, MarkErrored, CreateDiff, EnqueueDiff, dbVars
  <2>3. diff'[s] = "error"
    BY <1>2, <1>8 DEF RowWorker, ErrorRead, MarkErrored, CreateDiff, EnqueueDiff, NeedsDiff, dbVars
  <2> QED  BY <1>2, <2>1, <2>2, <2>3 DEF Hopeless
<1>9. ASSUME NEW j \in Groups, CaptureWorker(j) PROVE Hopeless(s)'
  <2>1. UNCHANGED <<diff, members, dpc, extract>>
    BY <1>9 DEF CaptureWorker, CaptureRun, CaptureDone, CaptureCheck, CaptureMark, CaptureShoot,
                CaptureStore, CaptureFailed, dbVars, jobVars
  <2>2. \A r \in Rows : snap'[r] = snap[r] \/ step[j][r] # "no"
    BY <1>9 DEF CaptureWorker, CaptureRun, CaptureDone, CaptureCheck, CaptureMark, CaptureShoot,
                CaptureStore, CaptureFailed, dbVars
  <2>3. snap'[s] = snap[s]
    BY <1>1, <1>2, <2>2 DEF Grouped
  <2> QED  BY <1>2, <2>1, <2>3 DEF Hopeless
<1>10. ASSUME NEW d \in DiffIds, DiffWorker(d) PROVE Hopeless(s)'
  <2>1. UNCHANGED <<snap, members, extract>>
    BY <1>10 DEF DiffWorker, DiffRun, DiffWrite, DiffCheck, DiffFailed, dbVars, jobVars
  <2>2. diff'[s] = "error"
    BY <1>2, <1>10 DEF DiffWorker, DiffRun, DiffWrite, DiffCheck, DiffFailed, dbVars
  <2>3. \A e \in DiffIds : e[1] = s => dpc'[e] # "pass"
    BY <1>2, <1>10 DEF DiffWorker, DiffRun, DiffWrite, DiffCheck, DiffFailed, Uncomparable
  <2> QED  BY <1>2, <2>1, <2>2, <2>3 DEF Hopeless
<1>11. CASE UNCHANGED vars
  BY <1>11, HopelessUntouched DEF vars, hopelessVars, dbVars, jobVars
<1> QED  BY <1>3, <1>4, <1>5, <1>6, <1>7, <1>8, <1>9, <1>10, <1>11 DEF Next

\* No pending work is found: the build is done, or the extraction has only reported stories
\* that failed.
LEMMA FinalizeSeesAll ==
  ASSUME TypeInv, RowsHere, CanceledMeans, Grouped, Early, Once, build # "canceled",
         fjob.st # "none", Pending = {}
  PROVE  AllDone \/ \E s \in Rows : Hopeless(s)
<1>1. CASE extract.bad = {}
  BY <1>1 DEF AllDone
<1>2. CASE extract.bad # {}
  <2>1. extract.pc = "unreadable"
    BY <1>2 DEF RowsHere, RowsPresent
  <2>2. EarlyFacts /\ (\A j \in Groups : members[j] = {}) /\ extract.queued = {}
    BY <2>1 DEF Early, Inserting, Grouped
  <2>3. PICK s \in Rows : Here(s)
    BY <2>2 DEF EarlyFacts, Captured, Here
  <2>4. diff[s] \notin {"none", "pending"}
    BY <2>3 DEF Pending, Captured, Here
  <2>5. snap[s] = "error" /\ diff[s] = "error"
    BY <2>2, <2>4 DEF EarlyFacts, Erred, CanceledMeans, TypeInv, TypeOK, DbOK, DiffStatus
  <2> QED  BY <2>2, <2>5 DEF Hopeless, EarlyFacts
<1> QED  BY <1>1, <1>2

LEMMA FinalStep ==
  ASSUME TypeInv, RowsHere, CanceledMeans, RunsBegan, Grouped, Early, Final, [Next]_vars
  PROVE  Final'
<1> SUFFICES ASSUME Once', build' # "canceled"
             PROVE  /\ finalizer'.pc = "read" => AllDone' \/ \E s \in Rows : Hopeless(s)'
                    /\ finalizer'.pc = "write" => AllDone' \/ finalizer'.verdict = "error"
  BY DEF Final
<1>1. Once /\ build # "canceled"
  BY CountsGrow, CanceledStep
<1>2. ASSUME count.runs >= 1, AllDone \/ \E s \in Rows : Hopeless(s)
      PROVE  AllDone' \/ \E s \in Rows : Hopeless(s)'
  BY <1>2, AllDoneStep, HopelessStep
<1>3. ASSUME finalizer' = finalizer
      PROVE  /\ finalizer'.pc = "read" => AllDone' \/ \E s \in Rows : Hopeless(s)'
             /\ finalizer'.pc = "write" => AllDone' \/ finalizer'.verdict = "error"
  BY <1>1, <1>2, <1>3, AllDoneStep DEF Final, RunsBegan
<1>4. CASE FinalizeRun
  <2>1. fjob.st # "none" /\ count.runs >= 1
    BY <1>4 DEF FinalizeRun, RunsBegan
  <2>2. Pending # {} => finalizer'.pc = "end"
    BY <1>4 DEF FinalizeRun, HasPendingForBuild, TypeInv, TypeOK, HandlersOK
  <2>3. Pending = {} => finalizer'.pc = "read"
    BY <1>4 DEF FinalizeRun, HasPendingForBuild, TypeInv, TypeOK, HandlersOK
  <2> QED  BY <1>1, <1>2, <2>1, <2>2, <2>3, FinalizeSeesAll
<1>5. CASE FinalizeRead
  <2>1. finalizer.pc = "read" /\ count.runs >= 1
        /\ finalizer' = [pc |-> "write", verdict |-> IF HasProcessingError THEN "error" ELSE "success"]
    BY <1>1, <1>5 DEF FinalizeRead, RunsBegan
  <2>2. (\E s \in Rows : Hopeless(s)) => finalizer'.verdict = "error"
    BY <2>1 DEF Hopeless, HasProcessingError
  <2>3. AllDone => AllDone'
    BY <2>1, AllDoneStep
  <2> QED  BY <1>1, <2>1, <2>2, <2>3 DEF Final
<1>6. CASE FinalizeWrite \/ FinalizeDone \/ FinalizeFaults
  BY <1>6 DEF FinalizeWrite, FinalizeDone, FinalizeFaults, TypeInv, TypeOK, HandlersOK
<1>7. CASE ~(FinalizeRun \/ FinalizeRead \/ FinalizeWrite \/ FinalizeDone \/ FinalizeFaults)
  <2>1. finalizer' = finalizer
    <3>1. CASE Web
      BY <3>1 DEF Web, ConfirmRead, ConfirmEnqueue, CancelTx, CancelSelect, CancelCommit, CancelJobs, RebuildRead, RebuildDelete, RebuildTx,
                  RebuildEnqueue, RebuildMark, RebuildFail, RebuildUndo
    <3>2. CASE ExtractWorker \/ FinalizeWorker
      BY <1>7, <3>2, Zenon DEF ExtractWorker, ExtractRun, ExtractCreate, ExtractUnreadable, ExtractRecheck,
                        ExtractEnqueue, FinalizeWorker, FailBuild
    <3>3. CASE Reaper
      BY <3>3 DEF Reaper, WindowPasses, ReaperScan, ReaperMark, ReaperSelect, ReaperTx, ReaperJobs
    <3>4. CASE Faults
      BY <1>7, <3>4, Zenon DEF Faults, ConfirmFails, RebuildEnqueueFails, WebFaults, ExtractFaults,
                        FailedHandlerFaults, ReaperFaults, CaptureFaults, CapturePersistFails, DiffFaults
    <3>5. ASSUME NEW h \in Holders, NEW s \in Rows, RowWorker(h, s) PROVE finalizer' = finalizer
      BY <3>5 DEF RowWorker, ErrorRead, MarkErrored, CreateDiff, EnqueueDiff
    <3>6. ASSUME NEW j \in Groups, CaptureWorker(j) PROVE finalizer' = finalizer
      BY <3>6 DEF CaptureWorker, CaptureRun, CaptureDone, CaptureCheck, CaptureMark, CaptureShoot,
                  CaptureStore, CaptureFailed
    <3>7. ASSUME NEW d \in DiffIds, DiffWorker(d) PROVE finalizer' = finalizer
      BY <3>7 DEF DiffWorker, DiffRun, DiffWrite, DiffCheck, DiffFailed
    <3>8. CASE UNCHANGED vars
      BY <3>8 DEF vars
    <3> QED  BY <3>1, <3>2, <3>3, <3>4, <3>5, <3>6, <3>7, <3>8 DEF Next
  <2> QED  BY <1>3, <2>1
<1> QED  BY <1>4, <1>5, <1>6, <1>7

\* What a finalization rests on, from its check for pending work to its verdict.
FinalizeInv ==
  TypeInv /\ LifeInv /\ DiffInv /\ RowsHere /\ CanceledMeans /\ RunsBegan /\ Grouped /\ Early /\ Final

LEMMA FinalizeInit == Init => FinalizeInv
<1> SUFFICES ASSUME Init PROVE FinalizeInv
  OBVIOUS
<1>1. TypeInv /\ LifeInv
  BY InitType DEF Init, LifeInv, RequeuesSettled, LockedInProgress, BuildLocked
<1>2. DiffInv
  BY RowSets DEF Init, DiffInv, PassedDiffHasImage, PassingHasImage, NoJobAhead, HeldNotAhead, NoJob
<1>3. RowsHere /\ CanceledMeans
  BY HolderSets DEF Init, RowsHere, RowsPresent, LocksHeld, LockedRows, CanceledMeans
<1>4. RunsBegan
  BY DEF Init, RunsBegan, NoJob
<1>5. Grouped
  BY HolderSets DEF Init, Grouped
<1>6. Early /\ Final
  BY DEF Init, Early, Inserting, Final
<1> QED  BY <1>1, <1>2, <1>3, <1>4, <1>5, <1>6 DEF FinalizeInv

LEMMA FinalizeInvStep ==
  ASSUME FinalizeInv, [Next]_vars
  PROVE  FinalizeInv'
<1>1. TypeInv /\ TypeInv' /\ LifeInv' /\ DiffInv'
  BY TypeStep, LifeStep, DiffInvStep DEF FinalizeInv, LifeKept
<1>2. RowsKept /\ RowsHere'
  BY <1>1, RowsHereStep DEF FinalizeInv, RowsKept
<1>3. CanceledMeans' /\ RunsBegan' /\ Grouped'
  BY CanceledMeansStep, RunsBeganStep, GroupedStep DEF FinalizeInv
<1>4. Early'
  BY <1>2, EarlyStep DEF FinalizeInv
<1>5. Final'
  BY FinalStep DEF FinalizeInv
<1> QED  BY <1>1, <1>2, <1>3, <1>4, <1>5 DEF FinalizeInv

LEMMA SuccessIsWritten ==
  ASSUME TypeInv, [Next]_vars, build # "success", build' = "success"
  PROVE  FinalizeWrite
<1>1. CASE Web
  BY <1>1 DEF Web, ConfirmRead, ConfirmEnqueue, CancelTx, CancelSelect, CancelCommit, CancelJobs, RebuildRead, RebuildDelete, RebuildTx,
              RebuildEnqueue, RebuildMark, RebuildFail, RebuildUndo, BuildUnlessCanceled, dbVars
<1>2. CASE ExtractWorker \/ FinalizeWorker
  BY <1>2, Zenon DEF ExtractWorker, ExtractRun, ExtractCreate, ExtractUnreadable, ExtractRecheck, ExtractEnqueue,
              FinalizeWorker, FinalizeRun, FinalizeRead, FinalizeDone, FailBuild, BuildUnlessCanceled, dbVars
<1>3. CASE Reaper
  BY <1>3 DEF Reaper, WindowPasses, ReaperScan, ReaperMark, ReaperSelect, ReaperTx, ReaperJobs, BuildUnlessCanceled, dbVars
<1>4. CASE Faults
  BY <1>4, Zenon DEF Faults, ConfirmFails, RebuildEnqueueFails, WebFaults, ExtractFaults,
              FinalizeFaults, FailedHandlerFaults, ReaperFaults, CaptureFaults,
              CapturePersistFails, DiffFaults, BuildUnlessCanceled, dbVars
<1>5. ASSUME NEW h \in Holders, NEW s \in Rows, RowWorker(h, s) PROVE FALSE
  BY <1>5 DEF RowWorker, ErrorRead, MarkErrored, CreateDiff, EnqueueDiff, dbVars
<1>6. ASSUME NEW j \in Groups, CaptureWorker(j) PROVE FALSE
  BY <1>6 DEF CaptureWorker, CaptureRun, CaptureDone, CaptureCheck, CaptureMark, CaptureShoot,
              CaptureStore, CaptureFailed, dbVars
<1>7. ASSUME NEW d \in DiffIds, DiffWorker(d) PROVE FALSE
  BY <1>7 DEF DiffWorker, DiffRun, DiffWrite, DiffCheck, DiffFailed, dbVars
<1>8. CASE UNCHANGED vars
  BY <1>8 DEF vars, dbVars
<1> QED  BY <1>1, <1>2, <1>3, <1>4, <1>5, <1>6, <1>7, <1>8 DEF Next

\* A build is only called successful when every captured snapshot has a finished diff,
\* however the finalizations queued by its diffs, the rows the extraction still inserts and
\* a cancellation fall between the reads of checkAllDoneAndFinalize and finalizeBuild.
THEOREM SuccessIsNeverEarly == Spec => FinalizeNeverEarly
<1>1. FinalizeInv /\ [Next]_vars =>
        [/\ build # "success" /\ build' = "success"
         /\ count.rebuilds = 0 /\ count.runs <= 1
         => Unsettled = {}]_vars
  <2> SUFFICES ASSUME FinalizeInv, [Next]_vars, build # "success", build' = "success",
                      count.rebuilds = 0, count.runs <= 1
               PROVE  Unsettled = {}
    OBVIOUS
  <2>1. FinalizeWrite
    BY SuccessIsWritten DEF FinalizeInv
  <2>2. build # "canceled" /\ finalizer.pc = "write" /\ finalizer.verdict = "success"
    BY <2>1 DEF FinalizeWrite, BuildUnlessCanceled
  <2>3. AllDone
    BY <2>2 DEF FinalizeInv, Final, Once
  <2> QED  BY <2>3 DEF AllDone, Pending, Captured, Unsettled
<1> QED  BY <1>1, FinalizeInit, FinalizeInvStep, PTL DEF Spec, FinalizeNeverEarly

LEMMA CanceledDiffWritten ==
  ASSUME TypeInv, CanceledMeans, [Next]_vars, NEW s \in Rows, diff[s] = "canceled", diff'[s] # "canceled"
  PROVE  diff'[s] \in {"success", "none"} \/ (diff'[s] = "error" /\ ReaperSelected(s))
<1> USE DEF TypeInv, TypeOK, DbOK
<1>1. CASE Web
  BY <1>1 DEF Web, ConfirmRead, ConfirmEnqueue, CancelTx, CancelSelect, CancelCommit, CancelJobs, RebuildRead, RebuildDelete, RebuildTx,
              RebuildEnqueue, RebuildMark, RebuildFail, RebuildUndo, DiffsMarked, dbVars
<1>2. CASE ExtractWorker \/ FinalizeWorker
  BY <1>2, Zenon DEF ExtractWorker, ExtractRun, ExtractCreate, ExtractUnreadable, ExtractRecheck, ExtractEnqueue,
              FinalizeWorker, FinalizeRun, FinalizeRead, FinalizeWrite, FinalizeDone, FailBuild, dbVars
<1>3. CASE Reaper
  <2>1. CASE ReaperTx
    BY <2>1 DEF ReaperTx, DiffsMarked, NeedsDiff, ReaperSelected
  <2> QED  BY <1>3, <2>1 DEF Reaper, WindowPasses, ReaperScan, ReaperMark, ReaperSelect, ReaperJobs, dbVars
<1>4. CASE Faults
  BY <1>4, Zenon DEF Faults, ConfirmFails, RebuildEnqueueFails, WebFaults, ExtractFaults,
              FinalizeFaults, FailedHandlerFaults, ReaperFaults, CaptureFaults,
              CapturePersistFails, DiffFaults, dbVars
<1>5. ASSUME NEW h \in Holders, NEW r \in Rows, RowWorker(h, r) PROVE diff'[s] \in {"success", "none"}
  BY <1>5 DEF RowWorker, ErrorRead, MarkErrored, CreateDiff, EnqueueDiff, NeedsDiff, dbVars
<1>6. ASSUME NEW j \in Groups, CaptureWorker(j) PROVE diff'[s] \in {"success", "none"}
  BY <1>6 DEF CaptureWorker, CaptureRun, CaptureDone, CaptureCheck, CaptureMark, CaptureShoot,
              CaptureStore, CaptureFailed, dbVars
<1>7. ASSUME NEW d \in DiffIds, DiffWorker(d) PROVE diff'[s] \in {"success", "none"}
  BY <1>7, RowSets DEF DiffWorker, DiffRun, DiffWrite, DiffCheck, DiffFailed, dbVars
<1>8. CASE UNCHANGED vars
  BY <1>8 DEF vars, dbVars
<1> QED  BY <1>1, <1>2, <1>3, <1>4, <1>5, <1>6, <1>7, <1>8 DEF Next

\* A canceled diff only becomes the success of a comparison that was under way, or goes with
\* a rebuild that had begun, or is an error of a reaper that had selected it before, and the
\* build stays canceled.
THEOREM CanceledDiffsStay == Spec => CanceledDiffOnlyPasses
<1>1. FinalizeInv /\ [Next]_vars =>
        [\A s \in Rows : diff[s] = "canceled" /\ diff'[s] # "canceled"
           => /\ build' = "canceled"
              /\ diff'[s] \in {"success", "none"} \/ (diff'[s] = "error" /\ ReaperSelected(s))]_vars
  <2> SUFFICES ASSUME FinalizeInv, [Next]_vars, NEW s \in Rows, diff[s] = "canceled",
                      diff'[s] # "canceled"
               PROVE  /\ build' = "canceled"
                      /\ diff'[s] \in {"success", "none"} \/ (diff'[s] = "error" /\ ReaperSelected(s))
    OBVIOUS
  <2>1. TypeInv /\ CanceledMeans
    BY DEF FinalizeInv
  <2>2. build' = "canceled"
    BY <2>1, CanceledStep DEF CanceledMeans
  <2> QED  BY <2>1, <2>2, CanceledDiffWritten
<1> QED  BY <1>1, FinalizeInit, FinalizeInvStep, PTL DEF Spec, CanceledDiffOnlyPasses

-----------------------------------------------------------------------------
(* Nothing is left of a canceled build *)

NotRebuilt == count.rebuilds = 0

LEMMA NotRebuiltBefore ==
  ASSUME TypeInv, RunsBegan, [Next]_vars, NotRebuilt'
  PROVE  /\ NotRebuilt /\ ~RebuildTx /\ ~RebuildEnqueue /\ ~RebuildMark /\ ~RebuildFail
         /\ ~RebuildUndo /\ ~RebuildEnqueueFails
<1>1. NotRebuilt
  BY CountsGrow DEF NotRebuilt
<1>2. ~RebuildTx
  BY <1>1 DEF RebuildTx, NotRebuilt, TypeInv, TypeOK, CountOK
<1>3. ~RebuildEnqueue /\ ~RebuildMark /\ ~RebuildFail /\ ~RebuildUndo /\ ~RebuildEnqueueFails
  BY <1>1 DEF RebuildEnqueue, RebuildMark, RebuildFail, RebuildUndo, RebuildEnqueueFails, NotRebuilt, RunsBegan
<1> QED  BY <1>1, <1>2, <1>3

\* Without a rebuild a build that is no longer in progress stays so.
LEMMA BuildSettled ==
  ASSUME TypeInv, LifeInv, RunsBegan, [Next]_vars, NotRebuilt'
  PROVE  /\ build \notin InProgress => build' \notin InProgress
         /\ build \in {"success", "error"} => build' \in {"success", "error"}
<1> USE DEF TypeInv, TypeOK, HandlersOK, BuildUnlessCanceled, InProgress
<1>1. CASE Web
  <2>1. CASE InTransaction
    BY <2>1, NothingShows DEF dbVars
  <2> QED  BY <1>1, <2>1, NotRebuiltBefore
           DEF Web, InTransaction, LifeInv, LockedInProgress, BuildLocked, ConfirmRead, ConfirmEnqueue, CancelCommit, CancelJobs, RebuildRead, dbVars
<1>2. CASE ExtractWorker
  BY <1>2, Zenon DEF ExtractWorker, ExtractRun, ExtractCreate, ExtractUnreadable, ExtractRecheck,
              ExtractEnqueue, FailBuild, dbVars
<1>3. CASE FinalizeWorker
  BY <1>3 DEF FinalizeWorker, FinalizeRun, FinalizeRead, FinalizeWrite, FinalizeDone, FailBuild, dbVars
<1>4. CASE Reaper
  BY <1>4 DEF Reaper, WindowPasses, ReaperScan, ReaperMark, ReaperSelect, ReaperTx, ReaperJobs, dbVars
<1>5. CASE Faults
  BY <1>5, Zenon DEF Faults, ConfirmFails, RebuildEnqueueFails, WebFaults, ExtractFaults, FinalizeFaults,
              FailedHandlerFaults, ReaperFaults, CaptureFaults, CapturePersistFails, DiffFaults, dbVars
<1>6. ASSUME NEW h \in Holders, NEW s \in Rows, RowWorker(h, s) PROVE build' = build
  BY <1>6 DEF RowWorker, ErrorRead, MarkErrored, CreateDiff, EnqueueDiff, dbVars
<1>7. ASSUME NEW j \in Groups, CaptureWorker(j) PROVE build' = build \/ (build = "queued" /\ build' = "processing")
  BY <1>7 DEF CaptureWorker, CaptureRun, CaptureDone, CaptureCheck, CaptureMark, CaptureShoot,
              CaptureStore, CaptureFailed, dbVars
<1>8. ASSUME NEW d \in DiffIds, DiffWorker(d) PROVE build' = build
  BY <1>8 DEF DiffWorker, DiffRun, DiffWrite, DiffCheck, DiffFailed, dbVars
<1>9. CASE UNCHANGED vars
  BY <1>9 DEF vars, dbVars
<1> QED  BY <1>1, <1>2, <1>3, <1>4, <1>5, <1>6, <1>7, <1>8, <1>9 DEF Next

\* An extraction that is not retried runs once: the id of its job stays taken, and whoever
\* removes the job leaves a build that a later one does not extract.
OneRun ==
  NotRebuilt =>
    /\ count.runs <= 1
    /\ extract.pc # "idle" => xjob.st = "active"
    /\ count.runs >= 1 =>
         extract.pc # "create" /\ (xjob.st \in {"none", "waiting"} => build \notin InProgress)
    /\ canceler.pc = "jobs" \/ reaper.pc = "jobs" => build \notin InProgress

LEMMA OneRunKept ==
  ASSUME TypeInv, LifeInv, RunsBegan, OneRun, [Next]_vars, UNCHANGED <<extract, xjob>>, count'.runs = count.runs,
         canceler'.pc = "jobs" => canceler.pc = "jobs", reaper'.pc = "jobs" => reaper.pc = "jobs"
  PROVE  OneRun'
BY NotRebuiltBefore, BuildSettled DEF OneRun

LEMMA OneRunWeb ==
  ASSUME TypeInv, LifeInv, RunsBegan, OneRun, NotRebuilt', [Next]_vars, Web
  PROVE  OneRun'
<1> USE NotRebuiltBefore, BuildSettled DEF OneRun
<1>1. CASE ConfirmRead \/ RebuildRead
  BY <1>1, OneRunKept DEF ConfirmRead, RebuildRead, jobVars, TypeInv, TypeOK, CountOK
<1>2. CASE ConfirmEnqueue
  BY <1>2 DEF ConfirmEnqueue, AddJob, NoJob, dbVars
<1>3. CASE CancelCommit
  <2>1. UNCHANGED <<extract, xjob, reaper>> /\ count'.runs = count.runs /\ build' = "canceled"
    BY <1>3 DEF CancelCommit, jobVars, TypeInv, TypeOK, CountOK
  <2> QED  BY <2>1 DEF InProgress
<1>4. CASE CancelJobs
  BY <1>4 DEF CancelJobs, CancelBuildJobs, RemoveJob, NoJob, dbVars
<1>5. CASE InTransaction
  <2>1. UNCHANGED <<extract, xjob>> /\ count'.runs = count.runs
    BY <1>5, NothingShows DEF jobVars
  <2>2. (canceler'.pc = "jobs" => canceler.pc = "jobs") /\ (reaper'.pc = "jobs" => reaper.pc = "jobs")
    BY <1>5 DEF InTransaction, CancelTx, CancelSelect, RebuildMark, ReaperMark, ReaperSelect,
                RebuildDelete, TypeInv, TypeOK, WebOK
  <2> QED  BY <2>1, <2>2, OneRunKept
<1> QED  BY <1>1, <1>2, <1>3, <1>4, <1>5 DEF Web, InTransaction

LEMMA OneRunExtract ==
  ASSUME TypeInv, LifeInv, RunsBegan, OneRun, NotRebuilt', [Next]_vars, ExtractWorker
  PROVE  OneRun'
<1> USE DEF TypeInv, TypeOK, HandlersOK, JobsOK, CountOK, Job
<1>0. NotRebuilt /\ (build \notin InProgress => build' \notin InProgress) /\ count.runs \in Nat
  BY NotRebuiltBefore, BuildSettled, BoundsAssumption
<1>1. CASE ExtractRun
  <2>1. xjob.st = "waiting" /\ UNCHANGED <<build, canceler, reaper, count>>
    BY <1>1 DEF ExtractRun, dbVars, webVars
  <2>2. CASE build \in InProgress
    <3>1. ~(count.runs >= 1)
      BY <1>0, <2>1, <2>2 DEF OneRun
    <3>2. xjob'.st = "active"
      BY <1>1, <2>2 DEF ExtractRun, StartJob
    <3> QED  BY <1>0, <2>1, <3>1, <3>2 DEF OneRun
  <2>3. CASE build \notin InProgress
    <3>1. extract' = extract /\ extract.pc = "idle"
      BY <1>1, <2>3 DEF ExtractRun
    <3> QED  BY <1>0, <2>1, <2>3, <3>1 DEF OneRun
  <2> QED  BY <2>2, <2>3
<1>2. CASE ExtractCreate
  <2>1. extract.pc = "create" /\ extract'.pc = "unreadable" /\ count'.runs = count.runs + 1
        /\ UNCHANGED <<build, xjob, canceler, reaper>>
    BY <1>2 DEF ExtractCreate, jobVars, webVars
  <2> QED  BY <1>0, <2>1 DEF OneRun
<1>3. ASSUME NEW s \in Rows, ExtractUnreadable(s) PROVE OneRun'
  <2>1. extract'.pc = extract.pc /\ UNCHANGED <<build, xjob, canceler, reaper, count>>
    BY <1>3 DEF ExtractUnreadable, jobVars, webVars
  <2> QED  BY <1>0, <2>1 DEF OneRun
<1>4. CASE ExtractRecheck
  <2>1. extract.pc = "unreadable" /\ UNCHANGED <<build, canceler, reaper, count>>
    BY <1>4 DEF ExtractRecheck, webVars
  <2>2. CASE build = "canceled"
    BY <1>0, <1>4, <2>1, <2>2 DEF ExtractRecheck, CompleteJob, OneRun
  <2>3. CASE build # "canceled"
    <3>1. xjob' = xjob /\ extract'.pc = "enqueue"
      BY <1>4, <2>3, Zenon DEF ExtractRecheck
    <3> QED  BY <1>0, <2>1, <3>1 DEF OneRun
  <2> QED  BY <2>2, <2>3
<1>5. CASE ExtractEnqueue
  <2>1. extract'.pc = "idle" /\ xjob'.st = "completed" /\ UNCHANGED <<build, canceler, reaper, count>>
    BY <1>5 DEF ExtractEnqueue, CompleteJob, dbVars, webVars
  <2> QED  BY <1>0, <2>1 DEF OneRun
<1>6. CASE FailBuild("extract")
  <2>1. UNCHANGED <<extract, xjob, count, canceler, reaper>>
    BY <1>6 DEF FailBuild, jobVars, webVars
  <2> HIDE DEF TypeInv
  <2> QED  BY <2>1, OneRunKept
<1> QED  BY <1>1, <1>2, <1>3, <1>4, <1>5, <1>6 DEF ExtractWorker

LEMMA OneRunStep ==
  ASSUME "extract" \notin Faulty, TypeInv, LifeInv, RunsBegan, OneRun, [Next]_vars
  PROVE  OneRun'
<1> SUFFICES ASSUME NotRebuilt' PROVE OneRun'
  BY DEF OneRun
<1>0. NotRebuilt /\ (build \notin InProgress => build' \notin InProgress)
  BY NotRebuiltBefore, BuildSettled
<1>1. CASE FinalizeWorker
  BY <1>1, OneRunKept
     DEF FinalizeWorker, FinalizeRun, FinalizeRead, FinalizeWrite, FinalizeDone, FailBuild, jobVars, webVars
<1>2. CASE Reaper
  <2>1. CASE WindowPasses \/ ReaperScan \/ ReaperMark \/ ReaperSelect
    BY <2>1, OneRunKept DEF WindowPasses, ReaperScan, ReaperMark, ReaperSelect, jobVars, webVars, TypeInv, TypeOK, WebOK
  <2>2. CASE ReaperTx
    <3>1. UNCHANGED <<extract, xjob, canceler, count>> /\ build' \notin InProgress
      BY <2>2 DEF ReaperTx, jobVars, BuildUnlessCanceled, InProgress
    <3> QED  BY <1>0, <3>1 DEF OneRun
  <2>3. CASE ReaperJobs
    BY <1>0, <2>3 DEF ReaperJobs, CancelBuildJobs, RemoveJob, NoJob, dbVars, OneRun
  <2> QED  BY <1>2, <2>1, <2>2, <2>3 DEF Reaper
<1>3. CASE Faults
  <2>0. Faulted => count'.runs = count.runs
    BY DEF Faulted, TypeInv, TypeOK, CountOK
  <2>1. CASE ConfirmFails
    <3>1. UNCHANGED <<extract, canceler, reaper>> /\ count'.runs = count.runs /\ xjob' \in {xjob, AddJob(xjob)}
      BY <2>0, <2>1 DEF ConfirmFails
    <3> QED  BY <1>0, <3>1 DEF AddJob, NoJob, OneRun
  <2>2. CASE ExtractFaults
    BY <2>2 DEF ExtractFaults, MayFault
  <2>3. CASE RebuildEnqueueFails
    BY <2>3, NotRebuiltBefore
  <2>4. CASE WebFaults \/ FinalizeFaults \/ FailedHandlerFaults \/ ReaperFaults
    <3>1. UNCHANGED <<extract, xjob>> /\ count'.runs = count.runs
      BY <2>0, <2>4 DEF WebFaults, FinalizeFaults, FailedHandlerFaults, ReaperFaults, jobVars
    <3>2. (canceler'.pc = "jobs" => canceler.pc = "jobs") /\ (reaper'.pc = "jobs" => reaper.pc = "jobs")
      BY <2>4 DEF WebFaults, FinalizeFaults, FailedHandlerFaults, ReaperFaults, ReaperEnded, CancelEnded,
                  webVars, TypeInv, TypeOK, WebOK
    <3> QED  BY <3>1, <3>2, OneRunKept
  <2>5. ASSUME NEW j \in Groups, CaptureFaults(j) \/ \E s \in Rows : CapturePersistFails(j, s)
        PROVE  OneRun'
    BY <2>0, <2>5, OneRunKept, Zenon DEF CaptureFaults, CapturePersistFails, jobVars, webVars
  <2>6. ASSUME NEW d \in DiffIds, DiffFaults(d) PROVE OneRun'
    BY <2>0, <2>6, OneRunKept DEF DiffFaults, webVars
  <2> QED  BY <1>3, <2>1, <2>2, <2>3, <2>4, <2>5, <2>6 DEF Faults
<1>4. ASSUME NEW h \in Holders, NEW s \in Rows, RowWorker(h, s) PROVE OneRun'
  BY <1>4, OneRunKept DEF RowWorker, ErrorRead, MarkErrored, CreateDiff, EnqueueDiff, jobVars, webVars
<1>5. ASSUME NEW j \in Groups, CaptureWorker(j) PROVE OneRun'
  BY <1>5, OneRunKept DEF CaptureWorker, CaptureRun, CaptureDone, CaptureCheck, CaptureMark, CaptureShoot,
                          CaptureStore, CaptureFailed, jobVars, webVars
<1>6. ASSUME NEW d \in DiffIds, DiffWorker(d) PROVE OneRun'
  BY <1>6, OneRunKept DEF DiffWorker, DiffRun, DiffWrite, DiffCheck, DiffFailed, jobVars, webVars
<1>7. CASE UNCHANGED vars
  BY <1>7, OneRunKept DEF vars, jobVars, webVars
<1> QED  BY <1>1, <1>2, <1>3, <1>4, <1>5, <1>6, <1>7, OneRunWeb, OneRunExtract DEF Next

\* The groups of the one run share no snapshot.
GroupRows == Once => \A j \in Groups : \A s \in members[j] : j = <<1, PageOf[s[1]]>>

\* The extraction works on rows only while it reports the stories it could not read.
ExtractorReports == \A s \in Rows : step[Extractor][s] # "no" => extract.pc = "unreadable"

LEMMA GroupRowsStep ==
  ASSUME TypeInv, RunsBegan, GroupRows, [Next]_vars
  PROVE  GroupRows'
<1> SUFFICES ASSUME Once' PROVE GroupRows'
  BY DEF GroupRows
<1>0. Once /\ NotRebuilt'
  BY CountsGrow DEF Once, NotRebuilt
<1>1. CASE ExtractQueues
  <2>1. count.runs = 1
    BY <1>0, <1>1, BoundsAssumption DEF ExtractQueues, RunsBegan, Once, TypeInv, TypeOK, CountOK
  <2>2. CASE members' = members
    BY <1>0, <2>2 DEF GroupRows
  <2>3. CASE members' = GroupMembers(count.runs, extract.queued)
    <3> SUFFICES ASSUME NEW j \in Groups, NEW s \in members'[j] PROVE j = <<1, PageOf[s[1]]>>
      BY DEF GroupRows
    <3>1. CASE j[1] = 1
      BY <2>1, <2>3, <3>1 DEF GroupMembers, Groups
    <3>2. CASE j[1] # 1
      BY <1>0, <2>1, <2>3, <3>2 DEF GroupMembers, GroupRows
    <3> QED  BY <3>1, <3>2
  <2> QED  BY <1>1, <2>2, <2>3 DEF ExtractQueues
<1>2. CASE ~ExtractQueues
  <2>1. members' = members
    <3>1. CASE Web
      BY <1>0, <3>1, NotRebuiltBefore
         DEF Web, ConfirmRead, ConfirmEnqueue, CancelTx, CancelSelect, CancelCommit, CancelJobs, RebuildRead, RebuildDelete, jobVars
    <3>2. CASE ExtractWorker \/ FinalizeWorker
      BY <1>2, <3>2, Zenon DEF ExtractWorker, ExtractRun, ExtractCreate, ExtractUnreadable, ExtractRecheck, FailBuild,
                        ExtractEnqueue, FinalizeWorker, FinalizeRun, FinalizeRead, FinalizeWrite, FinalizeDone, jobVars
    <3>3. CASE Reaper
      BY <3>3 DEF Reaper, WindowPasses, ReaperScan, ReaperMark, ReaperSelect, ReaperTx, ReaperJobs, jobVars
    <3>4. CASE Faults
      BY <1>0, <1>2, <3>4, NotRebuiltBefore, Zenon
         DEF Faults, ConfirmFails, WebFaults, ExtractFaults, FinalizeFaults, FailedHandlerFaults, ReaperFaults,
             CaptureFaults, CapturePersistFails, DiffFaults, jobVars
    <3>5. ASSUME NEW h \in Holders, NEW s \in Rows, RowWorker(h, s) PROVE members' = members
      BY <3>5 DEF RowWorker, ErrorRead, MarkErrored, CreateDiff, EnqueueDiff, jobVars
    <3>6. ASSUME NEW j \in Groups, CaptureWorker(j) PROVE members' = members
      BY <3>6 DEF CaptureWorker, CaptureRun, CaptureDone, CaptureCheck, CaptureMark, CaptureShoot,
                  CaptureStore, CaptureFailed, jobVars
    <3>7. ASSUME NEW d \in DiffIds, DiffWorker(d) PROVE members' = members
      BY <3>7 DEF DiffWorker, DiffRun, DiffWrite, DiffCheck, DiffFailed, jobVars
    <3>8. CASE UNCHANGED vars
      BY <3>8 DEF vars, jobVars
    <3> QED  BY <3>1, <3>2, <3>3, <3>4, <3>5, <3>6, <3>7, <3>8 DEF Next
  <2> QED  BY <1>0, <2>1 DEF GroupRows
<1> QED  BY <1>1, <1>2

LEMMA ExtractorReportsStep ==
  ASSUME TypeInv, ExtractorReports, [Next]_vars
  PROVE  ExtractorReports'
<1> USE HolderSets, ExtractorApart DEF TypeInv, TypeOK, CaptureOK, HandlersOK
<1>1. ASSUME UNCHANGED extract, \A s \in Rows : step'[Extractor][s] # "no" => step[Extractor][s] # "no"
      PROVE  ExtractorReports'
  BY <1>1 DEF ExtractorReports
<1>2. CASE Web
  BY <1>1, <1>2 DEF Web, ConfirmRead, ConfirmEnqueue, CancelTx, CancelSelect, CancelCommit, CancelJobs, RebuildRead, RebuildDelete, RebuildTx,
                    RebuildEnqueue, RebuildMark, RebuildFail, RebuildUndo, captureVars
<1>3. CASE ExtractWorker
  <2>1. CASE ExtractRun \/ ExtractEnqueue
    BY <2>1 DEF ExtractRun, ExtractEnqueue, ExtractQueues, captureVars, ExtractorReports
  <2>2. CASE ExtractCreate
    BY <2>2 DEF ExtractCreate, ExtractorReports
  <2>3. ASSUME NEW s \in Rows, ExtractUnreadable(s) PROVE ExtractorReports'
    <3>1. extract'.pc = "unreadable"
      BY <2>3 DEF ExtractUnreadable
    <3> QED  BY <3>1 DEF ExtractorReports
  <2>4. CASE ExtractRecheck
    <3>1. \A s \in Rows : step'[Extractor][s] = "no"
      BY <2>4 DEF ExtractRecheck, captureVars, NoSteps
    <3> QED  BY <3>1 DEF ExtractorReports
  <2>5. CASE FailBuild("extract")
    BY <1>1, <2>5 DEF FailBuild, captureVars
  <2> QED  BY <1>3, <2>1, <2>2, <2>3, <2>4, <2>5 DEF ExtractWorker
<1>4. CASE FinalizeWorker
  BY <1>1, <1>4 DEF FinalizeWorker, FinalizeRun, FinalizeRead, FinalizeWrite, FinalizeDone, FailBuild, captureVars
<1>5. CASE Reaper
  BY <1>1, <1>5 DEF Reaper, WindowPasses, ReaperScan, ReaperMark, ReaperSelect, ReaperTx, ReaperJobs, captureVars
<1>6. CASE Faults
  <2>1. CASE ExtractFaults
    <3>1. \A s \in Rows : step'[Extractor][s] = "no"
      BY <2>1 DEF ExtractFaults, NoSteps
    <3> QED  BY <3>1 DEF ExtractorReports
  <2>2. CASE FailedHandlerFaults
    BY <1>1, <2>2 DEF FailedHandlerFaults, captureVars
  <2>3. ASSUME NEW j \in Groups, CaptureFaults(j) \/ \E s \in Rows : CapturePersistFails(j, s)
        PROVE  ExtractorReports'
    BY <1>1, <2>3, Zenon DEF CaptureFaults, CapturePersistFails
  <2>4. CASE ConfirmFails \/ RebuildEnqueueFails \/ WebFaults \/ FinalizeFaults \/ ReaperFaults
             \/ \E d \in DiffIds : DiffFaults(d)
    BY <1>1, <2>4 DEF ConfirmFails, RebuildEnqueueFails, WebFaults, FinalizeFaults, ReaperFaults, DiffFaults,
                      captureVars
  <2> QED  BY <1>6, <2>1, <2>2, <2>3, <2>4 DEF Faults
<1>7. ASSUME NEW h \in Holders, NEW r \in Rows, RowWorker(h, r) PROVE ExtractorReports'
  <2>1. extract' = extract
    BY <1>7 DEF RowWorker, ErrorRead, MarkErrored, CreateDiff, EnqueueDiff
  <2>2. step[h][r] # "no" /\ \E k : step' = [step EXCEPT ![h][r] = k]
    BY <1>7, Zenon DEF RowWorker, ErrorRead, MarkErrored, CreateDiff, EnqueueDiff
  <2>3. \A s \in Rows : step'[Extractor][s] # "no" => step[Extractor][s] # "no"
    BY <2>2
  <2> QED  BY <1>1, <2>1, <2>3
<1>8. ASSUME NEW j \in Groups, CaptureWorker(j) PROVE ExtractorReports'
  <2>1. UNCHANGED extract /\ step'[Extractor] = step[Extractor]
    BY <1>8 DEF CaptureWorker, CaptureRun, CaptureDone, CaptureCheck, CaptureMark, CaptureShoot,
                CaptureStore, CaptureFailed, captureVars
  <2> QED  BY <1>1, <2>1
<1>9. ASSUME NEW d \in DiffIds, DiffWorker(d) PROVE ExtractorReports'
  BY <1>1, <1>9 DEF DiffWorker, DiffRun, DiffWrite, DiffCheck, DiffFailed, captureVars
<1>10. CASE UNCHANGED vars
  BY <1>1, <1>10 DEF vars, captureVars
<1> QED  BY <1>2, <1>3, <1>4, <1>5, <1>6, <1>7, <1>8, <1>9, <1>10 DEF Next

LEMMA OneHolder ==
  ASSUME TypeInv, Once, Grouped, GroupRows, ExtractorReports,
         NEW j \in Groups, NEW s \in Rows, step[j][s] # "no"
  PROVE  extract.pc # "unreadable" /\ \A h \in Holders : step[h][s] # "no" => h = j
<1>1. extract.pc # "unreadable" /\ \A g \in Groups : step[g][s] # "no" => s \in members[g]
  BY DEF Grouped
<1>2. \A g \in Groups : step[g][s] # "no" => g = <<1, PageOf[s[1]]>>
  BY <1>1 DEF GroupRows
<1>3. step[Extractor][s] = "no"
  BY <1>1 DEF ExtractorReports
<1> QED  BY <1>1, <1>2, <1>3 DEF Holders

Marking == {"mark", "start"}

\* A canceled build has a row its cancellation missed.
Missed(s) == build = "canceled" /\ s \in canceler.missed

\* A group about to mark a row as being captured marks one that is unfinished, or was
\* canceled since it was read.
MarksUnfinished ==
  NotRebuilt =>
    \A j \in Groups, s \in Rows : step[j][s] \in Marking =>
      snap[s] \in Unfinished \cup {"canceled"} \/ build \in {"success", "error"} \/ Missed(s)

\* Once a build is canceled its waiting snapshots are those the cancellation missed, or the
\* extraction is about to read the build again.
Closed ==
  build = "canceled" /\ NotRebuilt =>
    RecheckAhead \/ \A s \in Rows : snap[s] \in Unfinished => s \in canceler.missed

CancelInv == OneRun /\ GroupRows /\ ExtractorReports /\ MarksUnfinished /\ Closed

\* What holds a row before its snapshot is stored.
Taking == {"mark", "start", "shoot", "store"}

\* How a row comes to be marked, captured, stored and reported.
StepFrom(h, s) ==
  \/ h \in Groups /\ CaptureCheck(h, s)
  \/ h \in Groups /\ CaptureMark(h, s) /\ step'[h][s] = "shoot"
  \/ h \in Groups /\ CaptureShoot(h, s) /\ step'[h][s] = "store"
  \/ h \in Groups /\ CaptureStore(h, s) /\ step'[h][s] = "diff"
  \/ MarkErrored(h, s) /\ step'[h][s] \in {"diff", "errdiff"}
  \/ CreateDiff(h, s) /\ step'[h][s] \in {"enq", "errenq"}

LEMMA StepsFrom ==
  ASSUME TypeInv, [Next]_vars, NEW h \in Holders, NEW s \in Rows,
         step'[h][s] \in Taking \cup Reported, step'[h][s] # step[h][s]
  PROVE  StepFrom(h, s)
<1> USE HolderSets DEF TypeInv, TypeOK, CaptureOK, Taking, Reported
<1>1. CASE Web
  BY <1>1 DEF Web, ConfirmRead, ConfirmEnqueue, CancelTx, CancelSelect, CancelCommit, CancelJobs, RebuildRead, RebuildDelete, RebuildTx,
              RebuildEnqueue, RebuildMark, RebuildFail, RebuildUndo, captureVars
<1>2. CASE ExtractWorker \/ FinalizeWorker
  <2>1. ASSUME NEW r \in Rows, ExtractUnreadable(r) PROVE FALSE
    BY <2>1 DEF ExtractUnreadable
  <2> QED  BY <1>2, <2>1, Zenon
           DEF ExtractWorker, ExtractRun, ExtractCreate, ExtractRecheck, ExtractEnqueue,
               FinalizeWorker, FinalizeRun, FinalizeRead, FinalizeWrite, FinalizeDone, FailBuild, captureVars
<1>3. CASE Reaper
  BY <1>3 DEF Reaper, WindowPasses, ReaperScan, ReaperMark, ReaperSelect, ReaperTx, ReaperJobs, captureVars
<1>4. CASE Faults
  <2>1. CASE FailedHandlerFaults
    BY <2>1 DEF FailedHandlerFaults, NoSteps, captureVars
  <2>2. ASSUME NEW g \in Groups, CaptureFaults(g) PROVE FALSE
    BY <2>2, Zenon DEF CaptureFaults, NoSteps
  <2>3. ASSUME NEW g \in Groups, NEW r \in Rows, CapturePersistFails(g, r) PROVE FALSE
    BY <2>3 DEF CapturePersistFails
  <2>4. CASE ExtractFaults
    BY <2>4 DEF ExtractFaults, NoSteps
  <2>5. CASE ConfirmFails \/ RebuildEnqueueFails \/ WebFaults \/ FinalizeFaults \/ ReaperFaults
             \/ \E d \in DiffIds : DiffFaults(d)
    BY <2>5 DEF ConfirmFails, RebuildEnqueueFails, WebFaults, FinalizeFaults, ReaperFaults,
                DiffFaults, captureVars
  <2> QED  BY <1>4, <2>1, <2>2, <2>3, <2>4, <2>5 DEF Faults
<1>5. ASSUME NEW g \in Holders, NEW r \in Rows, RowWorker(g, r) PROVE StepFrom(h, s)
  <2>1. \E k : step' = [step EXCEPT ![g][r] = k]
    BY <1>5, Zenon DEF RowWorker, ErrorRead, MarkErrored, CreateDiff, EnqueueDiff
  <2>2. g = h /\ r = s
    BY <2>1
  <2>3. CASE ErrorRead(g, r) \/ EnqueueDiff(g, r)
    BY <2>2, <2>3 DEF ErrorRead, EnqueueDiff
  <2>4. CASE MarkErrored(g, r)
    <3>1. step'[h][s] \in {"diff", "errdiff"}
      BY <2>2, <2>4 DEF MarkErrored
    <3> QED  BY <2>2, <2>4, <3>1 DEF StepFrom
  <2>5. CASE CreateDiff(g, r)
    <3>1. step'[h][s] \in {"enq", "errenq"}
      BY <2>2, <2>5 DEF CreateDiff
    <3> QED  BY <2>2, <2>5, <3>1 DEF StepFrom
  <2> QED  BY <1>5, <2>3, <2>4, <2>5 DEF RowWorker
<1>6. ASSUME NEW g \in Groups, CaptureWorker(g) PROVE StepFrom(h, s)
  <2>1. CASE CaptureRun(g) \/ CaptureDone(g)
    <3>1. step' = step \/ step' = [step EXCEPT ![g] = [r \in Rows |-> IF r \in members[g] THEN "todo" ELSE "no"]]
      BY <2>1 DEF CaptureRun, CaptureDone, captureVars
    <3> QED  BY <3>1
  <2>2. ASSUME NEW r \in Rows, \/ CaptureCheck(g, r) \/ CaptureMark(g, r) \/ CaptureStore(g, r)
                              \/ CaptureFailed(g, r)
        PROVE  StepFrom(h, s)
    <3>1. \E k : step' = [step EXCEPT ![g][r] = k]
      BY <2>2, Zenon DEF CaptureCheck, CaptureMark, CaptureStore, CaptureFailed
    <3>2. g = h /\ r = s
      BY <3>1
    <3>3. CASE CaptureCheck(g, r)
      BY <3>2, <3>3 DEF StepFrom
    <3>4. CASE CaptureMark(g, r)
      <4>1. step'[h][s] = "shoot"
        BY <3>2, <3>4 DEF CaptureMark
      <4> QED  BY <3>2, <3>4, <4>1 DEF StepFrom
    <3>5. CASE CaptureStore(g, r)
      <4>1. step'[h][s] = "diff"
        BY <3>2, <3>5 DEF CaptureStore
      <4> QED  BY <3>2, <3>5, <4>1 DEF StepFrom
    <3>6. CASE CaptureFailed(g, r)
      BY <3>2, <3>6 DEF CaptureFailed
    <3> QED  BY <2>2, <3>3, <3>4, <3>5, <3>6
  <2>3. ASSUME NEW r \in Rows, CaptureShoot(g, r) PROVE StepFrom(h, s)
    <3>1. CASE step' = [step EXCEPT ![g][r] = "store"] \/ step' = [step EXCEPT ![g][r] = "err"]
      <4>1. g = h /\ r = s /\ step'[h][s] = "store"
        BY <3>1
      <4> QED  BY <2>3, <4>1 DEF StepFrom
    <3>2. CASE step' = [step EXCEPT ![g] = [q \in Rows |->
                          IF q = r \/ step[g][q] = "todo" THEN "abort" ELSE step[g][q]]]
      BY <3>2
    <3> QED  BY <2>3, <3>1, <3>2 DEF CaptureShoot
  <2> QED  BY <1>6, <2>1, <2>2, <2>3 DEF CaptureWorker
<1>7. ASSUME NEW d \in DiffIds, DiffWorker(d) PROVE FALSE
  BY <1>7 DEF DiffWorker, DiffRun, DiffWrite, DiffCheck, DiffFailed, captureVars
<1>8. CASE UNCHANGED vars
  BY <1>8 DEF vars, captureVars
<1> QED
  BY <1>1, <1>2, <1>3, <1>4, <1>5, <1>6, <1>7, <1>8 DEF Next

LEMMA MarkedKeeps ==
  ASSUME TypeInv, LifeInv, RowsHere, RunsBegan, Grouped, CancelInv, NotRebuilt', [Next]_vars,
         NEW j \in Groups, NEW s \in Rows, step[j][s] \in Marking, step'[j][s] \in Marking,
         snap[s] \in Unfinished \cup {"canceled"}
  PROVE  snap'[s] \in Unfinished \cup {"canceled"} \/ build' \in {"success", "error"} \/ Missed(s)'
<1> USE HolderSets DEF TypeInv, TypeOK, DbOK, CaptureOK, Marking, Unfinished
<1>0. NotRebuilt /\ ~RecheckAhead /\ \A h \in Holders : step[h][s] # "no" => h = j
  <2>1. NotRebuilt /\ extract.pc # "unreadable" /\ \A h \in Holders : step[h][s] # "no" => h = j
    BY NotRebuiltBefore, OneHolder DEF CancelInv, OneRun, Once, NotRebuilt
  <2>2. count.runs >= 1
    BY BoundsAssumption DEF RowsHere, RowsPresent, Here, Rows, Runs, CountOK
  <2> QED  BY <2>1, <2>2 DEF CancelInv, OneRun, RecheckAhead
<1>1. CASE Web
  <2>1. CASE InTransaction
    BY <2>1, NothingShows DEF dbVars
  <2>2. CASE CancelCommit
    BY <2>2, ClosingShows DEF Closes
  <2> QED  BY <1>1, <2>1, <2>2, NotRebuiltBefore
           DEF Web, InTransaction, ConfirmRead, ConfirmEnqueue, CancelJobs, RebuildRead, dbVars
<1>2. CASE ExtractWorker
  <2>1. CASE ExtractCreate
    <3>1. Here(s)
      BY DEF Here
    <3> QED  BY <2>1, <3>1, CreateKeeps
  <2> QED  BY <1>0, <1>2, <2>1 DEF ExtractWorker, ExtractRun, ExtractUnreadable, ExtractRecheck, ExtractEnqueue,
              FailBuild, RecheckAhead, dbVars
<1>3. CASE FinalizeWorker
  BY <1>3 DEF FinalizeWorker, FinalizeRun, FinalizeRead, FinalizeWrite, FinalizeDone, FailBuild, dbVars
<1>4. CASE Reaper
  <2>1. CASE ReaperTx
    <3>1. CASE build = "canceled" /\ snap[s] \in {"queued", "processing"}
      <4>1. build' = "canceled" /\ canceler' = canceler
        BY <2>1, <3>1 DEF ReaperTx, BuildUnlessCanceled
      <4> QED  BY <1>0, <3>1, <4>1 DEF CancelInv, Closed, Missed
    <3>3. CASE snap[s] \notin {"queued", "processing"}
      BY <2>1, <3>3, ClosingShows DEF Closes
    <3>2. CASE build # "canceled"
      BY <2>1, <3>2 DEF ReaperTx, BuildUnlessCanceled
    <3> QED  BY <3>1, <3>2, <3>3
  <2> QED  BY <1>4, <2>1 DEF Reaper, WindowPasses, ReaperScan, ReaperMark, ReaperSelect, ReaperJobs, dbVars
<1>5. CASE Faults
  BY <1>5, NotRebuiltBefore, Zenon
     DEF Faults, ConfirmFails, WebFaults, ExtractFaults, FinalizeFaults, FailedHandlerFaults, ReaperFaults,
         CaptureFaults, CapturePersistFails, DiffFaults, dbVars
<1>6. ASSUME NEW h \in Holders, NEW r \in Rows, RowWorker(h, r) PROVE snap'[s] = snap[s]
  <2>1. h = j /\ r = s => FALSE
    BY <1>6 DEF RowWorker, ErrorRead, MarkErrored, CreateDiff, EnqueueDiff
  <2>2. step[h][r] # "no"
    BY <1>6 DEF RowWorker, ErrorRead, MarkErrored, CreateDiff, EnqueueDiff
  <2>3. r # s
    BY <1>0, <2>1, <2>2
  <2> QED  BY <1>6, <2>3 DEF RowWorker, ErrorRead, MarkErrored, CreateDiff, EnqueueDiff, dbVars
<1>7. ASSUME NEW g \in Groups, CaptureWorker(g) PROVE snap'[s] \in Unfinished \cup {"canceled"}
  <2>1. CASE CaptureRun(g) \/ CaptureDone(g) \/ \E r \in Rows : CaptureCheck(g, r) \/ CaptureShoot(g, r)
                                                               \/ CaptureFailed(g, r)
    BY <2>1 DEF CaptureRun, CaptureDone, CaptureCheck, CaptureShoot, CaptureFailed, dbVars
  <2>2. ASSUME NEW r \in Rows, CaptureMark(g, r) PROVE snap'[s] \in Unfinished \cup {"canceled"}
    BY <2>2 DEF CaptureMark
  <2>3. ASSUME NEW r \in Rows, CaptureStore(g, r) PROVE snap'[s] = snap[s]
    <3>1. step[g][r] = "store"
      BY <2>3 DEF CaptureStore
    <3>2. r # s
      BY <1>0, <3>1
    <3> QED  BY <2>3, <3>2 DEF CaptureStore
  <2> QED  BY <1>7, <2>1, <2>2, <2>3 DEF CaptureWorker
<1>8. ASSUME NEW d \in DiffIds, DiffWorker(d) PROVE snap' = snap
  BY <1>8 DEF DiffWorker, DiffRun, DiffWrite, DiffCheck, DiffFailed, dbVars
<1>9. CASE UNCHANGED vars
  BY <1>9 DEF vars, dbVars
<1> QED  BY <1>1, <1>2, <1>3, <1>4, <1>5, <1>6, <1>7, <1>8, <1>9 DEF Next

\* What the cancellation of a build missed is settled when the build is.
LEMMA MissedStays ==
  ASSUME TypeInv, LifeInv, [Next]_vars, ~CancelCommit \/ build = "canceled"
  PROVE  canceler'.missed = canceler.missed
<1> USE DEF TypeInv, TypeOK, WebOK, webVars
<1>0. ~CancelCommit
  BY DEF CancelCommit, LifeInv, LockedInProgress, BuildLocked, InProgress
<1>1. CASE Web
  <2>1. CASE InTransaction
    BY <2>1, NothingShows
  <2> QED  BY <1>0, <1>1, <2>1 DEF Web, InTransaction, ConfirmRead, ConfirmEnqueue, CancelJobs, CancelEnded,
              RebuildRead, RebuildTx, RebuildEnqueue, RebuildFail, RebuildUndo
<1>2. CASE ExtractWorker \/ FinalizeWorker
  BY <1>2, Zenon DEF ExtractWorker, ExtractRun, ExtractCreate, ExtractUnreadable, ExtractRecheck, ExtractEnqueue,
              FinalizeWorker, FinalizeRun, FinalizeRead, FinalizeWrite, FinalizeDone, FailBuild
<1>3. CASE Reaper
  BY <1>3, Zenon DEF Reaper, WindowPasses, ReaperScan, ReaperMark, ReaperSelect, ReaperTx, ReaperJobs
<1>4. CASE Faults
  <2>1. CASE WebFaults
    BY <2>1 DEF WebFaults, CancelEnded
  <2> QED  BY <1>4, <2>1, Zenon DEF Faults, ConfirmFails, RebuildEnqueueFails, ExtractFaults, FinalizeFaults,
              FailedHandlerFaults, ReaperFaults, CaptureFaults, CapturePersistFails, DiffFaults
<1>5. ASSUME NEW h \in Holders, NEW s \in Rows, RowWorker(h, s) PROVE canceler' = canceler
  BY <1>5 DEF RowWorker, ErrorRead, MarkErrored, CreateDiff, EnqueueDiff
<1>6. ASSUME NEW j \in Groups, CaptureWorker(j) PROVE canceler' = canceler
  BY <1>6 DEF CaptureWorker, CaptureRun, CaptureDone, CaptureCheck, CaptureMark, CaptureShoot,
              CaptureStore, CaptureFailed
<1>7. ASSUME NEW d \in DiffIds, DiffWorker(d) PROVE canceler' = canceler
  BY <1>7 DEF DiffWorker, DiffRun, DiffWrite, DiffCheck, DiffFailed
<1>8. CASE UNCHANGED vars
  BY <1>8 DEF vars
<1> QED  BY <1>1, <1>2, <1>3, <1>4, <1>5, <1>6, <1>7, <1>8 DEF Next

LEMMA MarksUnfinishedStep ==
  ASSUME TypeInv, LifeInv, RowsHere, RunsBegan, Grouped, CancelInv, [Next]_vars
  PROVE  MarksUnfinished'
<1> SUFFICES ASSUME NotRebuilt', NEW j \in Groups, NEW s \in Rows, step'[j][s] \in Marking
             PROVE  snap'[s] \in Unfinished \cup {"canceled"} \/ build' \in {"success", "error"} \/ Missed(s)'
  BY DEF MarksUnfinished
<1>1. CASE step[j][s] \in Marking
  <2>1. NotRebuilt
    BY NotRebuiltBefore
  <2>2. snap[s] \in Unfinished \cup {"canceled"} \/ build \in {"success", "error"} \/ Missed(s)
    BY <1>1, <2>1 DEF CancelInv, MarksUnfinished
  <2>3. Missed(s) => Missed(s)'
    BY CanceledStep, MissedStays DEF Missed
  <2> QED  BY <1>1, <2>2, <2>3, MarkedKeeps, BuildSettled
<1>2. CASE step[j][s] \notin Marking
  <2>1. CaptureCheck(j, s)
    BY <1>2, StepsFrom, HolderSets DEF StepFrom, Marking, Taking
  <2>2. snap' = snap /\ step[j][s] = "todo"
        /\ step' = [step EXCEPT ![j][s] = IF snap[s] \in {"success", "canceled", "error"} \/ Terminal(build)
                                          THEN "no" ELSE IF build = "queued" THEN "start" ELSE "mark"]
    BY <2>1 DEF CaptureCheck, dbVars
  <2>3. snap[s] \notin {"success", "canceled", "error"}
    BY <2>2, HolderSets DEF Marking, TypeInv, TypeOK, CaptureOK
  <2>4. Here(s)
    BY <2>2, HolderSets DEF RowsHere, RowsPresent
  <2> QED  BY <2>2, <2>3, <2>4 DEF Here, Unfinished, TypeInv, TypeOK, DbOK, SnapStatus
<1> QED  BY <1>1, <1>2

LEMMA ClosedStep ==
  ASSUME TypeInv, LifeInv, RowsHere, RunsBegan, Grouped, CancelInv, [Next]_vars, "extract" \notin Faulty
  PROVE  Closed'
<1> SUFFICES ASSUME NotRebuilt', build' = "canceled", ~RecheckAhead'
             PROVE  \A s \in Rows : snap'[s] \in Unfinished => s \in canceler'.missed
  BY DEF Closed
<1> USE HolderSets DEF TypeInv, TypeOK, DbOK, CaptureOK, HandlersOK, Unfinished
<1>1. CASE CancelCommit
  <2>1. extract' = extract /\ snap' = SnapsMarked(canceler.rows, "canceled")
    BY <1>1 DEF CancelCommit
  <2>2. canceler'.missed = UnfinishedRows \ canceler.rows
    BY <1>1, <2>1 DEF CancelCommit, RecheckAhead, WebOK
  <2> QED  BY <2>1, <2>2 DEF SnapsMarked, UnfinishedRows
<1>2. CASE ExtractRecheck
  <2>1. build = "canceled"
    BY <1>2 DEF ExtractRecheck, dbVars
  <2>2. snap' = SnapsMarked(UnfinishedRows, "canceled")
    BY <1>2, <2>1, Zenon DEF ExtractRecheck
  <2> QED  BY <2>2 DEF SnapsMarked, UnfinishedRows
<1>3. CASE ExtractCreate
  BY <1>3 DEF ExtractCreate, RecheckAhead
<1>4. ASSUME NEW s \in Rows, ExtractUnreadable(s) PROVE FALSE
  <2>1. extract'.pc = extract.pc
    BY <1>4 DEF ExtractUnreadable
  <2> QED  BY <1>4, <2>1 DEF ExtractUnreadable, RecheckAhead
<1>5. CASE ~CancelCommit /\ ~ExtractRecheck /\ ~ExtractCreate /\ ~\E s \in Rows : ExtractUnreadable(s)
  <2>1. build = "canceled" /\ ~RecheckAhead
    <3> USE DEF BuildUnlessCanceled, RecheckAhead
    <3>1. CASE Web
      <4>1. CASE InTransaction
        BY <4>1, NothingShows DEF dbVars
      <4> QED  BY <1>5, <3>1, <4>1, NotRebuiltBefore
               DEF Web, InTransaction, ConfirmRead, ConfirmEnqueue, CancelJobs, RebuildRead, dbVars
    <3>2. CASE ExtractWorker
      BY <1>5, <3>2 DEF ExtractWorker, ExtractRun, ExtractEnqueue, ExtractQueues, FailBuild, dbVars
    <3>3. CASE FinalizeWorker
      BY <3>3 DEF FinalizeWorker, FinalizeRun, FinalizeRead, FinalizeWrite, FinalizeDone, FailBuild, dbVars
    <3>4. CASE Reaper
      BY <3>4 DEF Reaper, WindowPasses, ReaperScan, ReaperMark, ReaperSelect, ReaperTx, ReaperJobs, dbVars
    <3>5. CASE Faults
      BY <3>5, NotRebuiltBefore, Zenon
         DEF Faults, ConfirmFails, WebFaults, ExtractFaults, MayFault, FinalizeFaults, FailedHandlerFaults,
             ReaperFaults, CaptureFaults, CapturePersistFails, DiffFaults, dbVars
    <3>6. ASSUME NEW h \in Holders, NEW s \in Rows, RowWorker(h, s) PROVE UNCHANGED <<build, extract>>
      BY <3>6 DEF RowWorker, ErrorRead, MarkErrored, CreateDiff, EnqueueDiff, dbVars
    <3>7. ASSUME NEW j \in Groups, CaptureWorker(j) PROVE build = "canceled" /\ extract' = extract
      BY <3>7 DEF CaptureWorker, CaptureRun, CaptureDone, CaptureCheck, CaptureMark, CaptureShoot,
                  CaptureStore, CaptureFailed, dbVars
    <3>8. ASSUME NEW d \in DiffIds, DiffWorker(d) PROVE UNCHANGED <<build, extract>>
      BY <3>8 DEF DiffWorker, DiffRun, DiffWrite, DiffCheck, DiffFailed, dbVars
    <3>9. CASE UNCHANGED vars
      BY <3>9 DEF vars, dbVars
    <3> QED  BY <3>1, <3>2, <3>3, <3>4, <3>5, <3>6, <3>7, <3>8, <3>9 DEF Next
  <2>2. \A s \in Rows : snap[s] \in Unfinished => s \in canceler'.missed
    BY <2>1, NotRebuiltBefore, MissedStays DEF CancelInv, Closed
  <2>3. CASE Web
    <3>1. CASE InTransaction
      BY <2>2, <3>1, NothingShows DEF dbVars
    <3> QED  BY <1>5, <2>2, <2>3, <3>1, NotRebuiltBefore
             DEF Web, InTransaction, ConfirmRead, ConfirmEnqueue, CancelJobs, RebuildRead, dbVars
  <2>4. CASE ExtractWorker \/ FinalizeWorker
    BY <1>5, <2>2, <2>4
       DEF ExtractWorker, ExtractRun, ExtractEnqueue, FailBuild,
           FinalizeWorker, FinalizeRun, FinalizeRead, FinalizeWrite, FinalizeDone, dbVars
  <2>5. CASE Reaper
    BY <2>2, <2>5 DEF Reaper, WindowPasses, ReaperScan, ReaperMark, ReaperSelect, ReaperTx, ReaperJobs, SnapsMarked, dbVars
  <2>6. CASE Faults
    BY <2>2, <2>6, NotRebuiltBefore, Zenon
       DEF Faults, ConfirmFails, WebFaults, ExtractFaults, FinalizeFaults, FailedHandlerFaults,
           ReaperFaults, CaptureFaults, CapturePersistFails, DiffFaults, dbVars
  <2>7. ASSUME NEW h \in Holders, NEW r \in Rows, RowWorker(h, r)
        PROVE  \A s \in Rows : snap'[s] \in Unfinished => s \in canceler'.missed
    BY <2>2, <2>7 DEF RowWorker, ErrorRead, MarkErrored, CreateDiff, EnqueueDiff, dbVars
  <2>8. ASSUME NEW j \in Groups, CaptureWorker(j) PROVE \A s \in Rows : snap'[s] \in Unfinished => s \in canceler'.missed
    <3>1. CASE CaptureRun(j) \/ CaptureDone(j) \/ \E r \in Rows : CaptureCheck(j, r) \/ CaptureShoot(j, r)
                                                                 \/ CaptureFailed(j, r)
      BY <2>2, <3>1 DEF CaptureRun, CaptureDone, CaptureCheck, CaptureShoot, CaptureFailed, dbVars
    <3>2. ASSUME NEW r \in Rows, CaptureMark(j, r) PROVE \A s \in Rows : snap'[s] \in Unfinished => s \in canceler'.missed
      <4>1. snap[r] = "canceled" \/ r \in canceler'.missed
        BY <2>1, <2>2, <3>2, NotRebuiltBefore, MissedStays
           DEF CaptureMark, CancelInv, MarksUnfinished, Marking, Missed
      <4> QED  BY <2>2, <3>2, <4>1 DEF CaptureMark
    <3>3. ASSUME NEW r \in Rows, CaptureStore(j, r) PROVE \A s \in Rows : snap'[s] \in Unfinished => s \in canceler'.missed
      BY <2>2, <3>3 DEF CaptureStore
    <3> QED  BY <2>8, <3>1, <3>2, <3>3 DEF CaptureWorker
  <2>9. ASSUME NEW d \in DiffIds, DiffWorker(d) PROVE \A s \in Rows : snap'[s] \in Unfinished => s \in canceler'.missed
    BY <2>2, <2>9 DEF DiffWorker, DiffRun, DiffWrite, DiffCheck, DiffFailed, dbVars
  <2>10. CASE UNCHANGED vars
    BY <2>2, <2>10 DEF vars, dbVars
  <2> QED  BY <2>3, <2>4, <2>5, <2>6, <2>7, <2>8, <2>9, <2>10 DEF Next
<1> QED  BY <1>1, <1>2, <1>3, <1>4, <1>5

LEMMA CancelInit == Init => CancelInv
BY HolderSets DEF Init, CancelInv, OneRun, Once, GroupRows, ExtractorReports, MarksUnfinished, Closed, Marking,
                  NotRebuilt, NoJob

LEMMA CancelInvStep ==
  ASSUME "extract" \notin Faulty, FinalizeInv, CancelInv, [Next]_vars
  PROVE  CancelInv'
<1>1. TypeInv /\ LifeInv /\ RowsHere /\ RunsBegan /\ Grouped
  BY DEF FinalizeInv
<1>2. OneRun' /\ GroupRows' /\ ExtractorReports'
  BY <1>1, OneRunStep, GroupRowsStep, ExtractorReportsStep DEF CancelInv
<1>3. MarksUnfinished' /\ Closed'
  BY <1>1, MarksUnfinishedStep, ClosedStep
<1> QED  BY <1>2, <1>3 DEF CancelInv

\* Whatever the extraction, the capture groups and the diffs in flight still write to a build
\* that was canceled and never rebuilt, and whatever else fails, none of its snapshots is
\* left waiting once they have ended, but for those that came between the statements of the
\* cancellation when the extraction had read the build for the last time.  Of an extraction
\* that is retried this is not true: its next attempt finds the build canceled and leaves the
\* rows of the one that failed.
THEOREM CancelLeavesNoWork ==
  ASSUME "extract" \notin Faulty
  PROVE  Spec => []CancelLeavesNothing
<1>1. Init => FinalizeInv /\ CancelInv
  BY FinalizeInit, CancelInit
<1>2. FinalizeInv /\ CancelInv /\ [Next]_vars => FinalizeInv' /\ CancelInv'
  BY FinalizeInvStep, CancelInvStep
<1>3. CancelInv => CancelLeavesNothing
  BY DEF CancelInv, Closed, CancelLeavesNothing, Quiet, HandlersIdle, NotRebuilt, RecheckAhead
<1> QED  BY <1>1, <1>2, <1>3, PTL DEF Spec

-----------------------------------------------------------------------------
(* No build is left in progress with nothing to move it on *)

\* The fault-free case, in which one story at most cannot be read.
WorkersReliable ==
  /\ \A kind \in {"extract", "capture", "diff", "finalize"} : kind \notin Faulty
  /\ MaxUnreadable <= 1

Working == NotRebuilt /\ build \in InProgress

\* The next thing a holder does is to queue, or first to create, the diff.
Queuing == {"enq", "errenq"}
Diffing == {"diff", "errdiff"}

Latest(s) == <<s, gen[s]>>

\* The capture of the row is over: it failed, or there is an image to compare.
Shown(s) == snap[s] = "error" \/ (snap[s] = "success" /\ image[s] # "none")

RowsShown ==
  \A s \in Rows : diff[s] # "none" \/ (\E h \in Holders : step[h][s] \in Queuing \cup Diffing) => Shown(s)

StepsFit ==
  \A h \in Holders, s \in Rows :
    /\ step[h][s] \notin {"fail", "uperr", "upmark"}
    /\ step[h][s] \in Queuing => diff[s] = "pending" /\ held[h][s] = gen[s] /\ djob[Latest(s)].st = "none"
    /\ step[h][s] \notin Queuing \cup {"no"} => diff[s] = "none"
    /\ step[h][s] = "todo" => snap[s] = "queued"

\* A group that waits has all its rows still to do.
GroupsFresh ==
  \A j \in Groups :
    /\ (\E s \in Rows : step[j][s] # "no") => cjob[j].st = "active"
    /\ cjob[j].st = "waiting" => \A s \in members[j] : snap[s] = "queued"
    /\ cjob[j].st # "none" => members[j] # {}

Extracted ==
  /\ extract.pc = "enqueue" =>
       (\A s \in extract.queued : snap[s] = "queued") /\ (extract.allSkipped => Captured = {})
  /\ \A r, s \in extract.bad : r = s
  /\ extract.bad # {} => \A s \in Rows : diff[s] = "none" /\ step[Extractor][s] = "no"
  /\ xjob.st = "completed" => count.runs >= 1
  /\ xjob.st # "failed"

\* Whoever owes a row its diff: a holder, the extraction or a group that waits.
RowsCarried ==
  \A s \in Rows : Here(s) /\ diff[s] = "none" =>
    \/ \E h \in Holders : step[h][s] # "no"
    \/ /\ snap[s] = "queued"
       /\ \/ extract.pc = "unreadable"
          \/ extract.pc = "enqueue" /\ s \in extract.queued
          \/ \E j \in Groups : s \in members[j] /\ cjob[j].st = "waiting"

\* Whoever owes a pending diff its result.
DiffsCarried ==
  /\ \A s \in Rows : diff[s] # "none" => Latest(s) \in DiffIds
  /\ \A s \in Rows : diff[s] = "pending" =>
       \/ \E h \in Holders : step[h][s] \in Queuing
       \/ djob[Latest(s)].st = "waiting"
       \/ dpc[Latest(s)] \in {"pass", "fail"}
  /\ \A d \in DiffIds : (djob[d].st \in {"none", "waiting"} => dpc[d] = "idle") /\ dpc[d] # "failed"

Ending == fjob.st = "waiting" \/ (fjob.st = "active" /\ finalizer.pc \in {"read", "write"})

\* There is a finalize job only once there is nothing else to do: it never finds pending
\* work, and absorbs no other that is still needed.
FinalizeFits ==
  /\ fjob.st # "none" => AllDone /\ Ending
  /\ fjob.st = "waiting" => finalizer.pc = "idle"
  /\ finalizer.pc # "idle" => fjob.st = "active"

\* Whoever owes the build its finalization.
FinalizeCarried ==
  /\ AllDone /\ Captured # {} => Ending \/ \E d \in DiffIds : dpc[d] = "check"
  /\ count.runs >= 1 /\ Captured = {} =>
       extract.pc = "unreadable" \/ (extract.pc = "enqueue" /\ extract.allSkipped) \/ Ending

WorkFacts ==
  /\ RowsShown /\ StepsFit /\ GroupsFresh /\ Extracted
  /\ RowsCarried /\ DiffsCarried /\ FinalizeFits /\ FinalizeCarried

\* While a build is in progress somebody always has its next step to take.
WorkInv == Working => WorkFacts

workVars == <<build, snap, image, diff, gen, xjob, cjob, djob, fjob, members, extract, step, held, dpc, finalizer>>

\* What may happen to a build that is in progress and stays so.
WorkAction ==
  \/ UNCHANGED workVars /\ count'.runs = count.runs
  \/ ConfirmEnqueue \/ ExtractRun \/ ExtractCreate \/ ExtractRecheck \/ ExtractEnqueue
  \/ \E s \in Rows : ExtractUnreadable(s)
  \/ \E h \in Holders, s \in Rows : RowWorker(h, s)
  \/ \E j \in Groups : CaptureWorker(j)
  \/ \E d \in DiffIds : DiffRun(d) \/ DiffWrite(d) \/ DiffCheck(d)
  \/ FinalizeRun \/ FinalizeRead \/ FinalizeDone

LEMMA WorkStep ==
  ASSUME WorkersReliable, TypeInv, LifeInv, RunsBegan, OneRun, WorkInv, [Next]_vars, Working'
  PROVE  Working /\ WorkFacts /\ WorkAction
<1>1. Working /\ NotRebuilt' /\ build' \in InProgress
  BY NotRebuiltBefore, BuildSettled DEF Working
<1>2. WorkFacts
  BY <1>1 DEF WorkInv
<1>3. Faulted => count'.runs = count.runs
  BY DEF Faulted, TypeInv, TypeOK, CountOK
<1> USE DEF workVars, dbVars, jobVars, captureVars, webVars
<1>4. CASE Web
  <2>1. CASE CancelCommit
    BY <1>1, <2>1 DEF CancelCommit, InProgress
  <2>4. CASE InTransaction
    BY <1>1, <1>2, <2>4, NothingShows DEF WorkAction
  <2>2. CASE CancelJobs
    BY <1>1, <2>2 DEF CancelJobs, OneRun, Working
  <2>3. CASE ConfirmRead \/ RebuildRead
    <3>1. count'.runs = count.runs
      BY <2>3 DEF ConfirmRead, RebuildRead, TypeInv, TypeOK, CountOK
    <3> QED  BY <1>1, <1>2, <2>3, <3>1 DEF ConfirmRead, RebuildRead, WorkAction
  <2> QED  BY <1>1, <1>2, <1>4, <2>1, <2>2, <2>3, <2>4, NotRebuiltBefore DEF Web, InTransaction, WorkAction
<1>5. CASE ExtractWorker
  <2>1. ~FailBuild("extract")
    BY <1>1 DEF FailBuild, BuildUnlessCanceled, InProgress
  <2> QED  BY <1>1, <1>2, <1>5, <2>1 DEF ExtractWorker, WorkAction
<1>6. CASE FinalizeWorker
  <2>1. ~FailBuild("finalize") /\ ~FinalizeWrite
    BY <1>1 DEF FailBuild, FinalizeWrite, BuildUnlessCanceled, InProgress, TypeInv, TypeOK, HandlersOK
  <2> QED  BY <1>1, <1>2, <1>6, <2>1 DEF FinalizeWorker, WorkAction
<1>7. CASE Reaper
  <2>1. CASE ReaperTx
    BY <1>1, <2>1 DEF ReaperTx, BuildUnlessCanceled, InProgress
  <2>2. CASE ReaperJobs
    BY <1>1, <2>2 DEF ReaperJobs, OneRun, Working
  <2>3. CASE WindowPasses \/ ReaperScan \/ ReaperMark \/ ReaperSelect
    BY <1>1, <1>2, <2>3 DEF WindowPasses, ReaperScan, ReaperMark, ReaperSelect, WorkAction
  <2> QED  BY <1>7, <2>1, <2>2, <2>3 DEF Reaper
<1>8. CASE Faults
  <2>1. CASE ConfirmFails
    BY <1>1, <2>1 DEF ConfirmFails, BuildUnlessCanceled, InProgress
  <2>2. CASE RebuildEnqueueFails
    BY <1>1, <2>2, NotRebuiltBefore
  <2>3. CASE WebFaults \/ ReaperFaults
    BY <1>1, <1>2, <1>3, <2>3 DEF WebFaults, ReaperFaults, WorkAction
  <2>4. CASE FailedHandlerFaults
    <3>1. \A kind \in failing : kind \in {"extract", "finalize"}
      BY DEF TypeInv, TypeOK, HandlersOK
    <3> QED  BY <2>4, <3>1 DEF FailedHandlerFaults, MayFault, WorkersReliable
  <2>5. ~ExtractFaults /\ ~FinalizeFaults /\ (\A j \in Groups : ~CaptureFaults(j) /\ \A s \in Rows : ~CapturePersistFails(j, s))
        /\ \A d \in DiffIds : ~DiffFaults(d)
    BY DEF ExtractFaults, FinalizeFaults, CaptureFaults, CapturePersistFails, DiffFaults, MayFault, WorkersReliable
  <2> QED  BY <1>8, <2>1, <2>2, <2>3, <2>4, <2>5 DEF Faults
<1>9. ASSUME NEW d \in DiffIds, DiffWorker(d) PROVE WorkAction
  <2>1. ~DiffFailed(d)
    BY <1>2 DEF DiffFailed, WorkFacts, DiffsCarried
  <2> QED  BY <1>9, <2>1 DEF DiffWorker, WorkAction
<1>10. CASE UNCHANGED vars
  BY <1>1, <1>2, <1>10 DEF vars, WorkAction
<1> QED  BY <1>1, <1>2, <1>4, <1>5, <1>6, <1>7, <1>8, <1>9, <1>10 DEF Next, WorkAction

\* Who works on a row has it alone, and the extraction and the groups that wait have not got it.
LEMMA AtWork ==
  ASSUME TypeInv, RowsHere, Grouped, CancelInv, Working, WorkFacts,
         NEW h \in Holders, NEW s \in Rows, step[h][s] # "no"
  PROVE  /\ \A g \in Holders : step[g][s] # "no" => g = h
         /\ \A j \in Groups : cjob[j].st = "waiting" => s \notin members[j]
         /\ extract.pc # "enqueue" /\ extract.bad = {}
<1>1. Once /\ NotRebuilt
  BY DEF CancelInv, OneRun, Once, NotRebuilt, Working
<1>2. CASE h = Extractor
  <2>1. extract.pc = "unreadable"
    BY <1>2 DEF CancelInv, ExtractorReports
  <2>2. \A j \in Groups : members[j] = {} /\ step[j][s] = "no"
    BY <1>1, <2>1 DEF Grouped
  <2>3. extract.bad = {}
    BY <1>2 DEF WorkFacts, Extracted
  <2> QED  BY <1>2, <2>1, <2>2, <2>3 DEF Holders
<1>3. CASE h \in Groups
  <2>1. s \in members[h] /\ h = <<1, PageOf[s[1]]>> /\ cjob[h].st = "active"
    BY <1>1, <1>3 DEF Grouped, CancelInv, GroupRows, WorkFacts, GroupsFresh
  <2>2. extract.pc \notin {"enqueue", "unreadable"}
    BY <1>1, <1>3, <2>1 DEF Grouped
  <2>3. extract.bad = {}
    BY <2>2 DEF RowsHere, RowsPresent
  <2>4. \A j \in Groups : cjob[j].st = "waiting" => s \notin members[j]
    BY <1>1, <2>1 DEF CancelInv, GroupRows
  <2>5. \A g \in Holders : step[g][s] # "no" => g = h
    BY <1>1, <1>3, OneHolder DEF CancelInv
  <2> QED  BY <2>2, <2>3, <2>4, <2>5
<1> QED  BY <1>2, <1>3 DEF Holders

LEMMA FinalizeFitsKept ==
  ASSUME TypeInv, RowsHere, RunsBegan, OneRun', Working', WorkFacts, [Next]_vars, UNCHANGED <<fjob, finalizer>>
  PROVE  FinalizeFits'
<1>1. Once'
  BY DEF OneRun, Once, Working, NotRebuilt
<1>2. fjob.st # "none" => count.runs >= 1 /\ AllDone
  BY DEF RunsBegan, WorkFacts, FinalizeFits
<1>3. fjob.st # "none" => AllDone'
  BY <1>1, <1>2, AllDoneStep
<1> QED  BY <1>3 DEF WorkFacts, FinalizeFits, Ending

LEMMA WorkUntouched ==
  ASSUME WorkFacts, UNCHANGED workVars, count'.runs = count.runs
  PROVE  WorkFacts'
<1> USE DEF WorkFacts, workVars, Here, AllDone, Pending, Captured
<1>1. RowsShown' /\ StepsFit' /\ GroupsFresh'
  BY DEF RowsShown, Shown, StepsFit, Latest, GroupsFresh
<1>2. Extracted' /\ RowsCarried' /\ DiffsCarried'
  BY DEF Extracted, RowsCarried, DiffsCarried, Latest
<1>3. FinalizeFits' /\ FinalizeCarried'
  BY DEF FinalizeFits, FinalizeCarried, Ending
<1> QED  BY <1>1, <1>2, <1>3

\* A step of the extraction or of a confirmation that leaves rows, diffs and groups alone.
LEMMA WorkOutside ==
  ASSUME WorkFacts, UNCHANGED <<snap, image, diff, gen, cjob, djob, fjob, members, step, held, dpc, finalizer>>
  PROVE  RowsShown' /\ StepsFit' /\ GroupsFresh' /\ DiffsCarried'
<1>1. RowsShown' /\ StepsFit'
  BY DEF WorkFacts, RowsShown, Shown, StepsFit, Latest
<1>2. GroupsFresh' /\ DiffsCarried'
  BY DEF WorkFacts, GroupsFresh, DiffsCarried, Latest
<1> QED  BY <1>1, <1>2

LEMMA WorkConfirm ==
  ASSUME TypeInv, WorkFacts, ConfirmEnqueue
  PROVE  WorkFacts'
<1>1. UNCHANGED <<snap, image, diff, gen, cjob, djob, fjob, members, extract, step, held, dpc, finalizer, count>>
  BY DEF ConfirmEnqueue, dbVars, captureVars
<1>2. RowsShown' /\ StepsFit' /\ GroupsFresh' /\ DiffsCarried'
  BY <1>1, WorkOutside
<1>3. xjob' = xjob \/ xjob'.st = "waiting"
  BY DEF ConfirmEnqueue, AddJob, NoJob
<1>4. Extracted'
  BY <1>1, <1>3 DEF WorkFacts, Extracted, Captured
<1>5. RowsCarried'
  BY <1>1 DEF WorkFacts, RowsCarried, Here
<1>6. FinalizeFits' /\ FinalizeCarried'
  BY <1>1 DEF WorkFacts, FinalizeFits, FinalizeCarried, Ending, AllDone, Pending, Captured
<1> QED  BY <1>2, <1>4, <1>5, <1>6 DEF WorkFacts

LEMMA WorkExtractRun ==
  ASSUME TypeInv, RowsHere, Working, WorkFacts, ExtractRun
  PROVE  WorkFacts'
<1>1. UNCHANGED <<snap, image, diff, gen, cjob, djob, fjob, members, step, held, dpc, finalizer, count>>
      /\ extract.pc = "idle"
  BY DEF ExtractRun, dbVars, captureVars
<1>2. RowsShown' /\ StepsFit' /\ GroupsFresh' /\ DiffsCarried'
  BY <1>1, WorkOutside
<1>3. extract'.pc = "create" /\ extract'.bad = extract.bad /\ xjob'.st = "active" /\ extract.bad = {}
  BY <1>1 DEF ExtractRun, StartJob, Working, RowsHere, RowsPresent, TypeInv, TypeOK, HandlersOK, JobsOK, Job
<1>4. Extracted'
  BY <1>1, <1>3 DEF Extracted
<1>5. RowsCarried'
  BY <1>1 DEF WorkFacts, RowsCarried, Here
<1>6. FinalizeFits' /\ FinalizeCarried'
  BY <1>1, <1>3 DEF WorkFacts, FinalizeFits, FinalizeCarried, Ending, AllDone, Pending, Captured
<1> QED  BY <1>2, <1>4, <1>5, <1>6 DEF WorkFacts

LEMMA SingleBad ==
  ASSUME NEW S, IsFiniteSet(S), Cardinality(S) <= MaxUnreadable, WorkersReliable
  PROVE  \A r, s \in S : r = s
<1>1. Cardinality(S) \in Nat /\ Cardinality(S) <= 1
  BY FS_CardinalityType, BoundsAssumption DEF WorkersReliable
<1>2. CASE Cardinality(S) = 0
  BY <1>2, FS_EmptySet
<1>3. CASE Cardinality(S) = 1
  BY <1>3, FS_Singleton
<1> QED  BY <1>1, <1>2, <1>3

LEMMA WorkExtractCreate ==
  ASSUME WorkersReliable, TypeInv, RowsHere, RunsBegan, OneRun, Working, WorkFacts, ExtractCreate
  PROVE  WorkFacts'
<1> USE HolderSets
<1> DEFINE new == Stories \X {count.runs + 1}
<1> PICK skipped \in SUBSET new : \E bad \in SUBSET (new \ skipped) :
      /\ Cardinality(bad) <= MaxUnreadable
      /\ snap' = [s \in Rows |-> IF s \in skipped THEN "skipped"
                                 ELSE IF s \in new \ bad THEN "queued" ELSE snap[s]]
      /\ extract' = [extract EXCEPT !.pc = "unreadable", !.bad = bad]
  BY Zenon DEF ExtractCreate
<1> PICK bad \in SUBSET (new \ skipped) :
      /\ Cardinality(bad) <= MaxUnreadable
      /\ snap' = [s \in Rows |-> IF s \in skipped THEN "skipped"
                                 ELSE IF s \in new \ bad THEN "queued" ELSE snap[s]]
      /\ extract' = [extract EXCEPT !.pc = "unreadable", !.bad = bad]
  BY Zenon
<1>1. UNCHANGED <<image, diff, gen, xjob, cjob, djob, fjob, members, step, held, dpc, finalizer>>
      /\ extract.pc = "create" /\ count'.runs = count.runs + 1 /\ count.runs \in Nat
  BY BoundsAssumption DEF ExtractCreate, jobVars, captureVars, TypeInv, TypeOK, CountOK
<1>2. count.runs = 0 /\ xjob.st = "active"
  BY <1>1 DEF OneRun, Working
<1>3. (\A s \in Rows : ~Here(s)) /\ (\A j \in Groups : members[j] = {})
  BY <1>2, NothingBeforeRuns
<1>4. \A s \in Rows : diff[s] = "none" /\ \A h \in Holders : step[h][s] = "no"
  BY <1>3 DEF RowsHere, RowsPresent
<1>5. \A s \in Rows : snap'[s] \in {"absent", "skipped", "queued"}
  BY <1>3 DEF Here
<1>6. extract'.pc = "unreadable" /\ extract'.bad = bad
  BY Zenon DEF TypeInv, TypeOK, HandlersOK
<1>7. \A r, s \in bad : r = s
  <2>1. IsFiniteSet(new)
    BY FS_Product, FS_Singleton, StoriesAssumption, Zenon
  <2>2. IsFiniteSet(bad)
    BY <2>1, FS_Subset
  <2> QED  BY <2>2, SingleBad
<1> HIDE DEF new
<1>8. RowsShown' /\ StepsFit'
  BY <1>1, <1>4 DEF RowsShown, StepsFit, Queuing, Diffing
<1>9. GroupsFresh'
  BY <1>1, <1>3 DEF WorkFacts, GroupsFresh
<1>10. Extracted'
  BY <1>1, <1>2, <1>4, <1>6, <1>7 DEF Extracted
<1>11. RowsCarried'
  BY <1>5, <1>6 DEF RowsCarried, Here
<1>12. DiffsCarried'
  BY <1>1, <1>4 DEF WorkFacts, DiffsCarried
<1>13. fjob.st = "none" /\ finalizer.pc = "idle"
  BY <1>2 DEF RunsBegan
<1>14. FinalizeFits'
  BY <1>1, <1>13 DEF FinalizeFits
<1>15. FinalizeCarried'
  <2>1. Captured' # {} => Pending' # {}
    BY <1>1, <1>4 DEF Captured, Pending
  <2> QED  BY <1>6, <2>1 DEF FinalizeCarried, AllDone
<1> QED  BY <1>8, <1>9, <1>10, <1>11, <1>12, <1>14, <1>15 DEF WorkFacts

LEMMA WorkExtractUnreadable ==
  ASSUME TypeInv, RowsHere, RunsBegan, Grouped, CancelInv, Working, WorkFacts,
         NEW s \in Rows, ExtractUnreadable(s)
  PROVE  WorkFacts'
<1> USE HolderSets
<1>1. UNCHANGED <<image, diff, gen, xjob, cjob, djob, fjob, members, held, dpc, finalizer, count>>
      /\ extract.pc = "unreadable" /\ s \in extract.bad /\ extract'.bad = extract.bad \ {s}
      /\ extract'.pc = "unreadable" /\ extract'.queued = extract.queued
  BY DEF ExtractUnreadable, jobVars, TypeInv, TypeOK, HandlersOK
<1>2. extract'.bad = {} /\ \A r \in Rows : diff[r] = "none" /\ step[Extractor][r] = "no"
  BY <1>1 DEF WorkFacts, Extracted
<1>3. \A j \in Groups : members[j] = {} /\ \A r \in Rows : step[j][r] = "no"
  BY <1>1 DEF CancelInv, OneRun, Working, NotRebuilt, Grouped, Once
<1>4. \A h \in Holders, r \in Rows : step'[h][r] = IF h = Extractor /\ r = s THEN "err" ELSE "no"
  <2>1. \A h \in Holders, r \in Rows : step'[h][r] = IF h = Extractor /\ r = s THEN "err" ELSE step[h][r]
    BY DEF ExtractUnreadable, TypeInv, TypeOK, CaptureOK
  <2> QED  BY <1>2, <1>3, <2>1 DEF Holders
<1>5. \A r \in Rows : snap'[r] = IF r = s THEN "queued" ELSE snap[r]
  BY DEF ExtractUnreadable, TypeInv, TypeOK, DbOK
<1>6. RowsShown' /\ StepsFit'
  BY <1>1, <1>2, <1>4 DEF RowsShown, StepsFit, Queuing, Diffing
<1>7. GroupsFresh'
  BY <1>1, <1>3, <1>4, ExtractorApart DEF WorkFacts, GroupsFresh
<1>8. Extracted'
  BY <1>1, <1>2 DEF WorkFacts, Extracted
<1>9. RowsCarried'
  <2> SUFFICES ASSUME NEW r \in Rows, Here(r)'
               PROVE  snap'[r] = "queued" \/ \E h \in Holders : step'[h][r] # "no"
    BY <1>1 DEF RowsCarried
  <2>1. CASE r = s
    BY <1>5, <2>1
  <2>2. CASE r # s
    <3>1. Here(r) /\ diff[r] = "none"
      BY <1>2, <1>5, <2>2 DEF Here
    <3>2. snap[r] = "queued"
      BY <1>2, <1>3, <3>1 DEF WorkFacts, RowsCarried, Holders
    <3> QED  BY <1>5, <2>2, <3>2
  <2> QED  BY <2>1, <2>2
<1>10. DiffsCarried'
  BY <1>1, <1>2 DEF WorkFacts, DiffsCarried
<1>11. fjob.st = "none" /\ finalizer.pc = "idle"
  BY <1>1 DEF WorkFacts, FinalizeFits, AllDone
<1>12. FinalizeFits'
  BY <1>1, <1>11 DEF FinalizeFits
<1>13. FinalizeCarried'
  <2>1. Captured' # {} => Pending' # {}
    BY <1>1, <1>2 DEF Captured, Pending
  <2> QED  BY <1>1, <2>1 DEF FinalizeCarried, AllDone
<1> QED  BY <1>6, <1>7, <1>8, <1>9, <1>10, <1>12, <1>13 DEF WorkFacts

LEMMA WorkExtractRecheck ==
  ASSUME TypeInv, RowsHere, RunsBegan, Working, WorkFacts, ExtractRecheck
  PROVE  WorkFacts'
<1> DEFINE queued == {s \in Rows : snap[s] = "queued"}
<1>1. UNCHANGED <<snap, image, diff, gen, xjob, cjob, djob, fjob, members, step, held, dpc, finalizer, count>>
      /\ extract.pc = "unreadable" /\ extract.bad = {}
      /\ extract' = [extract EXCEPT !.pc = "enqueue", !.queued = queued, !.allSkipped = (Captured = {})]
  BY DEF ExtractRecheck, jobVars, captureVars, Working, InProgress
<1>2. extract'.pc = "enqueue" /\ extract'.queued = queued /\ extract'.bad = {}
  BY <1>1 DEF TypeInv, TypeOK, HandlersOK
<1>3. extract'.allSkipped <=> Captured = {}
  BY <1>1, Zenon DEF TypeInv, TypeOK, HandlersOK
<1>4. RowsShown' /\ StepsFit' /\ GroupsFresh' /\ DiffsCarried'
  BY <1>1, WorkOutside
<1>5. Extracted'
  BY <1>1, <1>2, <1>3 DEF WorkFacts, Extracted, Captured
<1>6. RowsCarried'
  BY <1>1, <1>2 DEF WorkFacts, RowsCarried, Here
<1>7. FinalizeFits' /\ FinalizeCarried'
  <2>1. (AllDone <=> AllDone') /\ Captured' = Captured
    BY <1>1, <1>2 DEF AllDone, Pending, Captured
  <2> QED  BY <1>1, <1>2, <1>3, <2>1 DEF WorkFacts, FinalizeFits, FinalizeCarried, Ending
<1> QED  BY <1>4, <1>5, <1>6, <1>7 DEF WorkFacts

LEMMA WorkExtractEnqueue ==
  ASSUME TypeInv, RowsHere, RunsBegan, Grouped, CancelInv, Working, WorkFacts, ExtractEnqueue
  PROVE  WorkFacts'
<1> USE HolderSets
<1>1. UNCHANGED <<snap, image, diff, gen, djob, step, held, dpc, finalizer, count>>
      /\ extract.pc = "enqueue" /\ extract'.pc = "idle" /\ extract'.bad = {} /\ xjob'.st = "completed"
  BY DEF ExtractEnqueue, ExtractQueues, dbVars, captureVars, CompleteJob, TypeInv, TypeOK, JobsOK, Job
<1>2. count.runs \in Nat /\ count.runs = 1 /\ extract.bad = {}
  BY <1>1, BoundsAssumption DEF RunsBegan, CancelInv, OneRun, Working, RowsHere, RowsPresent, TypeInv, TypeOK, CountOK
<1>3. \A j \in Groups : members[j] = {} /\ cjob[j].st = "none" /\ \A s \in Rows : step[j][s] = "no"
  <2>1. \A j \in Groups : members[j] = {} /\ \A s \in Rows : step[j][s] = "no"
    BY <1>1 DEF CancelInv, OneRun, Working, NotRebuilt, Grouped, Once
  <2> QED  BY <2>1 DEF WorkFacts, GroupsFresh
<1>4. \A s \in Rows : step[Extractor][s] = "no"
  BY <1>1 DEF CancelInv, ExtractorReports
<1>5. RowsShown' /\ StepsFit' /\ DiffsCarried'
  BY <1>1 DEF WorkFacts, RowsShown, Shown, StepsFit, DiffsCarried, Latest
<1>6. Extracted'
  BY <1>1, <1>2 DEF Extracted
<1>7. Captured' = Captured /\ (AllDone <=> AllDone')
  BY <1>1, <1>2 DEF Captured, Pending, AllDone
<1>8. CASE extract.allSkipped
  <2>1. Captured = {} /\ AllDone
    BY <1>1, <1>2, <1>8 DEF WorkFacts, Extracted, AllDone, Pending
  <2>2. fjob' = AddJob(fjob) /\ UNCHANGED <<cjob, members>>
    BY <1>8 DEF ExtractEnqueue, ExtractQueues, FinalizeQueued
  <2>3. GroupsFresh'
    BY <1>1, <2>2 DEF WorkFacts, GroupsFresh
  <2>4. RowsCarried'
    BY <1>1, <2>1 DEF RowsCarried, Here, Captured
  <2>5. fjob' = fjob \/ (fjob.st = "none" /\ fjob'.st = "waiting")
    BY <2>2 DEF AddJob, NoJob
  <2>6. FinalizeFits' /\ Ending'
    BY <1>1, <1>7, <2>1, <2>2, <2>5 DEF WorkFacts, FinalizeFits, Ending, AddJob, NoJob
  <2>7. FinalizeCarried'
    BY <2>6 DEF FinalizeCarried
  <2> QED  BY <1>5, <1>6, <2>3, <2>4, <2>6, <2>7 DEF WorkFacts
<1>9. CASE ~extract.allSkipped
  <2>1. cjob' = GroupsQueued(1, extract.queued) /\ members' = GroupMembers(1, extract.queued) /\ fjob' = fjob
    BY <1>2, <1>9 DEF ExtractEnqueue, ExtractQueues
  <2>2. extract.queued \subseteq Rows /\ \A s \in extract.queued : snap[s] = "queued"
    BY <1>1 DEF WorkFacts, Extracted, TypeInv, TypeOK, HandlersOK
  <2>3. \A j \in Groups : members'[j] \subseteq extract.queued /\ (cjob'[j].st # "none" => members'[j] # {})
    BY <1>3, <2>1 DEF GroupsQueued, GroupMembers
  <2>4. GroupsFresh'
    BY <1>1, <1>3, <2>2, <2>3 DEF GroupsFresh
  <2>5. ASSUME NEW s \in extract.queued
        PROVE  \E j \in Groups : s \in members'[j] /\ cjob'[j].st = "waiting"
    <3> DEFINE j == <<1, PageOf[s[1]]>>
    <3>1. s \in Rows /\ PageOf[s[1]] \in Pages /\ 1 \in Batches
      BY <2>2, RowSets, PageAssumption, BoundsAssumption DEF Rows, Batches
    <3>2. j \in Groups /\ j[1] = 1 /\ j[2] = PageOf[s[1]]
      BY <3>1 DEF Groups
    <3>3. s \in members'[j] /\ cjob'[j] = AddJob(cjob[j])
      BY <2>1, <3>2 DEF GroupsQueued, GroupMembers
    <3>4. cjob'[j].st = "waiting"
      BY <1>3, <3>2, <3>3 DEF AddJob, NoJob
    <3> QED  BY <3>2, <3>3, <3>4
  <2>6. RowsCarried'
    <3> SUFFICES ASSUME NEW s \in Rows, Here(s)', diff'[s] = "none"
                 PROVE  snap'[s] = "queued" /\ \E j \in Groups : s \in members'[j] /\ cjob'[j].st = "waiting"
      BY DEF RowsCarried
    <3>1. snap[s] = "queued" /\ s \in extract.queued
      BY <1>1, <1>3, <1>4 DEF WorkFacts, RowsCarried, Here, Holders
    <3> QED  BY <1>1, <2>5, <3>1
  <2>7. FinalizeFits' /\ FinalizeCarried'
    BY <1>1, <1>2, <1>7, <1>9, <2>1 DEF WorkFacts, FinalizeFits, FinalizeCarried, Ending
  <2> QED  BY <1>5, <1>6, <2>4, <2>6, <2>7 DEF WorkFacts
<1> QED  BY <1>8, <1>9

\* A holder works on one of its rows, or gives the rest of them up: the row still has no
\* result, so the build waits for it.
LEMMA WorkRow ==
  ASSUME TypeInv, TypeInv', RowsHere, Grouped, CancelInv, Working, WorkFacts,
         NEW h \in Holders, NEW s \in Rows, step[h][s] # "no",
         \A g \in Holders, r \in Rows :
           \/ g = h /\ r = s
           \/ step'[g][r] = step[g][r]
           \/ step[g][r] = "todo" /\ step'[g][r] = "abort",
         UNCHANGED <<xjob, cjob, fjob, members, extract, dpc, finalizer>>,
         \A r \in Rows \ {s} : snap'[r] = snap[r] /\ image'[r] = image[r] /\ diff'[r] = diff[r] /\ gen'[r] = gen[r],
         \A g \in Holders, r \in Rows \ {s} : held'[g][r] = held[g][r],
         \A d \in DiffIds : d[1] # s => djob'[d] = djob[d],
         \A d \in DiffIds : djob'[d].st = djob[d].st \/ (djob[d].st = "none" /\ djob'[d].st = "waiting"),
         Here(s)', diff'[s] \in {"none", "pending"},
         count'.runs = count.runs,
         diff'[s] = "none" => step'[h][s] \notin Queuing \cup {"no", "fail", "uperr", "upmark"},
         diff'[s] = "none" /\ step'[h][s] \in Diffing => Shown(s)',
         step'[h][s] # "todo",
         diff'[s] = "pending" =>
           /\ Shown(s)' /\ Latest(s)' \in DiffIds
           /\ \/ step'[h][s] \in Queuing /\ held'[h][s] = gen'[s] /\ djob'[Latest(s)'].st = "none"
              \/ step'[h][s] = "no" /\ djob'[Latest(s)'].st = "waiting"
  PROVE  WorkFacts'
<1> USE HolderSets
<1>1. /\ \A g \in Holders : step[g][s] # "no" => g = h
      /\ \A j \in Groups : cjob[j].st = "waiting" => s \notin members[j]
      /\ extract.pc # "enqueue" /\ extract.bad = {}
  BY AtWork
<1>2. \A g \in Holders : g # h => step'[g][s] = "no"
  BY <1>1
<1>3. \A r \in Rows \ {s} : (Here(r)' <=> Here(r)) /\ (Shown(r)' <=> Shown(r)) /\ Latest(r)' = Latest(r)
  BY DEF Here, Shown, Latest
<1>4. \A r \in Rows \ {s} : diff[r] # "none" => djob'[Latest(r)] = djob[Latest(r)]
  BY DEF WorkFacts, DiffsCarried, Latest
<1>5. \A g \in Holders, r \in Rows \ {s} :
        \/ step'[g][r] = step[g][r]
        \/ step[g][r] = "todo" /\ step'[g][r] = "abort" /\ diff[r] = "none"
  BY DEF WorkFacts, StepsFit, Queuing
<1>6. diff'[s] # "none" => diff'[s] = "pending"
  OBVIOUS
<1>7. RowsShown'
  <2>1. \A r \in Rows \ {s} : diff'[r] # "none" \/ (\E g \in Holders : step'[g][r] \in Queuing \cup Diffing) => Shown(r)'
    BY <1>3, <1>5 DEF WorkFacts, RowsShown, Queuing, Diffing
  <2>2. diff'[s] # "none" => Shown(s)'
    BY <1>6
  <2>3. diff'[s] = "none" /\ (\E g \in Holders : step'[g][s] \in Queuing \cup Diffing) => Shown(s)'
    BY <1>2 DEF Queuing, Diffing
  <2> QED  BY <2>1, <2>2, <2>3 DEF RowsShown
<1>8. StepsFit'
  <2>1. ASSUME NEW g \in Holders, NEW r \in Rows \ {s}
        PROVE  /\ step'[g][r] \notin {"fail", "uperr", "upmark"}
               /\ step'[g][r] \in Queuing => diff'[r] = "pending" /\ held'[g][r] = gen'[r] /\ djob'[Latest(r)'].st = "none"
               /\ step'[g][r] \notin Queuing \cup {"no"} => diff'[r] = "none"
               /\ step'[g][r] = "todo" => snap'[r] = "queued"
    BY <1>3, <1>4, <1>5 DEF WorkFacts, StepsFit, Queuing
  <2>2. ASSUME NEW g \in Holders
        PROVE  /\ step'[g][s] \notin {"fail", "uperr", "upmark"}
               /\ step'[g][s] \in Queuing => diff'[s] = "pending" /\ held'[g][s] = gen'[s] /\ djob'[Latest(s)'].st = "none"
               /\ step'[g][s] \notin Queuing \cup {"no"} => diff'[s] = "none"
               /\ step'[g][s] = "todo" => snap'[s] = "queued"
    <3>1. CASE g # h
      BY <1>2, <3>1 DEF Queuing
    <3>2. CASE g = h
      BY <3>2 DEF Queuing
    <3> QED  BY <3>1, <3>2
  <2> QED  BY <2>1, <2>2 DEF StepsFit
<1>9. GroupsFresh'
  <2>1. ASSUME NEW j \in Groups, NEW r \in Rows, step'[j][r] # "no"
        PROVE  cjob'[j].st = "active"
    <3>1. \E q \in Rows : step[j][q] # "no"
      BY <2>1
    <3> QED  BY <3>1 DEF WorkFacts, GroupsFresh
  <2>2. \A j \in Groups : cjob'[j].st = "waiting" => \A r \in members'[j] : snap'[r] = "queued"
    BY <1>1 DEF WorkFacts, GroupsFresh, TypeInv, TypeOK, JobsOK
  <2> QED  BY <2>1, <2>2 DEF WorkFacts, GroupsFresh
<1>10. Extracted'
  BY <1>1 DEF WorkFacts, Extracted
<1>11. RowsCarried'
  <2> SUFFICES ASSUME NEW r \in Rows, Here(r)', diff'[r] = "none"
               PROVE  \/ \E g \in Holders : step'[g][r] # "no"
                      \/ /\ snap'[r] = "queued"
                         /\ \/ extract'.pc = "unreadable"
                            \/ extract'.pc = "enqueue" /\ r \in extract'.queued
                            \/ \E j \in Groups : r \in members'[j] /\ cjob'[j].st = "waiting"
    BY DEF RowsCarried
  <2>1. CASE r = s
    BY <2>1
  <2>2. CASE r # s
    BY <1>3, <1>5, <2>2 DEF WorkFacts, RowsCarried
  <2> QED  BY <2>1, <2>2
<1>12. DiffsCarried'
  <2>1. \A r \in Rows : diff'[r] # "none" => Latest(r)' \in DiffIds
    <3>1. diff'[s] # "none" => Latest(s)' \in DiffIds
      BY <1>6
    <3> QED  BY <1>3, <3>1 DEF WorkFacts, DiffsCarried
  <2>2. ASSUME NEW r \in Rows, diff'[r] = "pending"
        PROVE  \/ \E g \in Holders : step'[g][r] \in Queuing
               \/ djob'[Latest(r)'].st = "waiting"
               \/ dpc'[Latest(r)'] \in {"pass", "fail"}
    <3>1. CASE r = s
      BY <2>2, <3>1
    <3>2. CASE r # s
      BY <1>3, <1>4, <1>5, <2>2, <3>2 DEF WorkFacts, DiffsCarried
    <3> QED  BY <3>1, <3>2
  <2>3. \A d \in DiffIds : (djob'[d].st \in {"none", "waiting"} => dpc'[d] = "idle") /\ dpc'[d] # "failed"
    BY DEF WorkFacts, DiffsCarried
  <2> QED  BY <2>1, <2>2, <2>3 DEF DiffsCarried
<1>13. fjob.st = "none" /\ finalizer.pc = "idle"
  <2>1. s \in Pending
    BY DEF WorkFacts, StepsFit, RowsHere, RowsPresent, Here, Pending, Captured, Queuing
  <2> QED  BY <2>1 DEF WorkFacts, FinalizeFits, AllDone
<1>14. FinalizeFits'
  BY <1>13 DEF FinalizeFits
<1>15. FinalizeCarried'
  <2>1. s \in Pending' /\ s \in Captured'
    BY DEF Here, Pending, Captured
  <2> QED  BY <2>1 DEF FinalizeCarried, AllDone
<1> QED  BY <1>7, <1>8, <1>9, <1>10, <1>11, <1>12, <1>14, <1>15 DEF WorkFacts

\* The row a holder works on has no diff yet, or one that the holder is about to queue.
LEMMA RowAtWork ==
  ASSUME TypeInv, RowsHere, WorkFacts, NEW h \in Holders, NEW s \in Rows, step[h][s] # "no"
  PROVE  /\ Here(s)
         /\ step[h][s] \in Queuing => diff[s] = "pending" /\ Latest(s) \in DiffIds /\ djob[Latest(s)].st = "none"
                                      /\ held[h][s] = gen[s] /\ Shown(s)
         /\ step[h][s] \notin Queuing => diff[s] = "none"
         /\ step[h][s] \in Diffing => Shown(s)
BY DEF RowsHere, RowsPresent, WorkFacts, StepsFit, RowsShown, DiffsCarried, Queuing, Diffing

LEMMA WorkErrorRead ==
  ASSUME TypeInv, TypeInv', RowsHere, CanceledMeans, Grouped, CancelInv, Working, WorkFacts,
         NEW h \in Holders, NEW s \in Rows, ErrorRead(h, s)
  PROVE  WorkFacts'
<1>1. UNCHANGED <<snap, image, diff, gen, xjob, cjob, djob, fjob, members, extract, held, dpc, finalizer, count>>
      /\ step[h][s] \in {"err", "uperr", "abort"}
  BY DEF ErrorRead, dbVars, jobVars
<1>2. snap[s] # "canceled" /\ step[h][s] # "uperr"
  BY DEF CanceledMeans, Working, InProgress, WorkFacts, StepsFit
<1>3. \A g \in Holders, r \in Rows : step'[g][r] = IF g = h /\ r = s THEN "errmark" ELSE step[g][r]
  BY <1>1, <1>2 DEF ErrorRead, TypeInv, TypeOK, CaptureOK
<1>4. Here(s) /\ diff[s] = "none"
  BY <1>1, RowAtWork DEF Queuing
<1>5. Here(s)' /\ diff'[s] = "none"
  BY <1>1, <1>4 DEF Here
<1> QED  BY <1>1, <1>3, <1>5, WorkRow DEF Queuing, Diffing

LEMMA WorkMarkErrored ==
  ASSUME TypeInv, TypeInv', RowsHere, CanceledMeans, Grouped, CancelInv, Working, WorkFacts,
         NEW h \in Holders, NEW s \in Rows, MarkErrored(h, s)
  PROVE  WorkFacts'
<1>1. UNCHANGED <<image, diff, gen, xjob, cjob, djob, fjob, members, extract, held, dpc, finalizer, count>>
      /\ step[h][s] \in {"errmark", "upmark"}
  BY DEF MarkErrored, jobVars
<1>2. snap[s] # "canceled" /\ step[h][s] = "errmark"
  BY <1>1 DEF CanceledMeans, Working, InProgress, WorkFacts, StepsFit
<1>3. \A g \in Holders, r \in Rows : step'[g][r] = IF g = h /\ r = s THEN "errdiff" ELSE step[g][r]
  BY <1>2 DEF MarkErrored, TypeInv, TypeOK, CaptureOK
<1>4. \A r \in Rows : snap'[r] = IF r = s THEN "error" ELSE snap[r]
  BY <1>2 DEF MarkErrored, TypeInv, TypeOK, DbOK
<1>5. diff'[s] = "none" /\ Here(s)' /\ Shown(s)'
  BY <1>1, <1>4, RowAtWork DEF Queuing, Here, Shown
<1> QED  BY <1>1, <1>3, <1>4, <1>5, WorkRow DEF Queuing, Diffing

LEMMA WorkCreateDiff ==
  ASSUME TypeInv, TypeInv', DiffInv, RowsHere, Grouped, CancelInv, Working, WorkFacts,
         NEW h \in Holders, NEW s \in Rows, CreateDiff(h, s)
  PROVE  WorkFacts'
<1>1. UNCHANGED <<snap, image, xjob, cjob, djob, fjob, members, extract, dpc, finalizer, count>>
      /\ step[h][s] \in Diffing
  BY DEF CreateDiff, jobVars, Diffing
<1>2. diff[s] = "none" /\ Here(s) /\ Shown(s)
  BY <1>1, RowAtWork DEF Queuing, Diffing
<1>3. /\ diff' = [diff EXCEPT ![s] = "pending"] /\ gen' = [gen EXCEPT ![s] = @ + 1]
      /\ held' = [held EXCEPT ![h][s] = gen[s] + 1]
  BY <1>2 DEF CreateDiff, NeedsDiff
<1>4. \E k \in Queuing : step' = [step EXCEPT ![h][s] = k]
  BY <1>2 DEF CreateDiff, NeedsDiff, Queuing
<1>5. \A g \in Holders, r \in Rows : IF g = h /\ r = s THEN step'[g][r] \in Queuing ELSE step'[g][r] = step[g][r]
  BY <1>4 DEF TypeInv, TypeOK, CaptureOK
<1>6. /\ \A r \in Rows \ {s} : diff'[r] = diff[r] /\ gen'[r] = gen[r]
      /\ diff'[s] = "pending" /\ gen'[s] = gen[s] + 1
  BY <1>3 DEF TypeInv, TypeOK, DbOK
<1>7. \A g \in Holders, r \in Rows : held'[g][r] = IF g = h /\ r = s THEN gen[s] + 1 ELSE held[g][r]
  BY <1>3 DEF TypeInv, TypeOK, CaptureOK
<1>8. Latest(s)' \in DiffIds /\ djob'[Latest(s)'].st = "none"
  <2>1. gen'[s] \in 1..(MaxRebuilds + 1) /\ gen[s] < gen'[s]
    BY <1>6, BoundsAssumption DEF TypeInv, TypeOK, DbOK
  <2>2. Latest(s)' = <<s, gen'[s]>> /\ Latest(s)' \in DiffIds
    BY <2>1 DEF Latest, DiffIds, Gens
  <2>3. djob[<<s, gen'[s]>>].st = "none"
    BY <2>1, <2>2 DEF DiffInv, NoJobAhead
  <2> QED  BY <1>1, <2>2, <2>3
<1>9. Here(s)' /\ Shown(s)'
  BY <1>1, <1>2 DEF Here, Shown
<1>10. step[h][s] # "no"
  BY <1>1 DEF Diffing
<1> QED  BY <1>1, <1>5, <1>6, <1>7, <1>8, <1>9, <1>10, WorkRow DEF Queuing

LEMMA WorkEnqueueDiff ==
  ASSUME TypeInv, TypeInv', RowsHere, Grouped, CancelInv, Working, WorkFacts,
         NEW h \in Holders, NEW s \in Rows, EnqueueDiff(h, s)
  PROVE  WorkFacts'
<1>1. UNCHANGED <<snap, image, diff, gen, xjob, cjob, fjob, members, extract, dpc, finalizer, count>>
      /\ step[h][s] \in Queuing
  BY DEF EnqueueDiff, dbVars, Queuing
<1>2. step[h][s] # "no"
  BY <1>1 DEF Queuing
<1>3. /\ diff[s] = "pending" /\ Latest(s) \in DiffIds /\ djob[Latest(s)].st = "none"
      /\ held[h][s] = gen[s] /\ Shown(s) /\ Here(s)
  BY <1>1, <1>2, RowAtWork
<1>4. \A g \in Holders, r \in Rows : step'[g][r] = IF g = h /\ r = s THEN "no" ELSE step[g][r]
  BY DEF EnqueueDiff, TypeInv, TypeOK, CaptureOK
<1>5. \A g \in Holders, r \in Rows : held'[g][r] = IF g = h /\ r = s THEN 0 ELSE held[g][r]
  BY DEF EnqueueDiff, TypeInv, TypeOK, CaptureOK
<1>6. djob' = [djob EXCEPT ![Latest(s)] = AddJob(@)]
  BY <1>3 DEF EnqueueDiff, Latest
<1>7. AddJob(djob[Latest(s)]).st = "waiting"
  BY <1>3 DEF AddJob, NoJob
<1>8. \A d \in DiffIds : djob'[d] = IF d = Latest(s) THEN AddJob(djob[Latest(s)]) ELSE djob[d]
  BY <1>6 DEF TypeInv, TypeOK, JobsOK
<1>9. \A d \in DiffIds : d[1] # s => d # Latest(s)
  BY DEF Latest
<1>10. Latest(s)' = Latest(s) /\ Here(s)' /\ Shown(s)'
  BY <1>1, <1>3 DEF Latest, Here, Shown
<1>11. djob'[Latest(s)'].st = "waiting"
  BY <1>3, <1>7, <1>8, <1>10
<1>12. /\ \A d \in DiffIds : d[1] # s => djob'[d] = djob[d]
       /\ \A d \in DiffIds : djob'[d].st = djob[d].st \/ (djob[d].st = "none" /\ djob'[d].st = "waiting")
  BY <1>3, <1>7, <1>8, <1>9
<1> QED  BY <1>1, <1>2, <1>3, <1>4, <1>5, <1>10, <1>11, <1>12, WorkRow

LEMMA WorkCaptureRun ==
  ASSUME TypeInv, TypeInv', RowsHere, Grouped, CancelInv, Working, WorkFacts, NEW j \in Groups, CaptureRun(j)
  PROVE  WorkFacts'
<1> USE HolderSets
<1>1. UNCHANGED <<snap, image, diff, gen, xjob, djob, fjob, members, extract, held, dpc, finalizer, count>>
      /\ cjob[j].st = "waiting"
  BY DEF CaptureRun, dbVars
<1>2. /\ cjob' = [cjob EXCEPT ![j] = StartJob(@)]
      /\ step' = [step EXCEPT ![j] = [s \in Rows |-> IF s \in members[j] THEN "todo" ELSE "no"]]
  BY DEF CaptureRun, Terminal, Working, InProgress
<1>3. \A g \in Groups : cjob'[g].st = IF g = j THEN "active" ELSE cjob[g].st
  BY <1>2 DEF StartJob, TypeInv, TypeOK, JobsOK, Job
<1>4. \A s \in Rows : step[j][s] = "no"
  BY <1>1 DEF WorkFacts, GroupsFresh
<1>5. \A h \in Holders, s \in Rows :
        step'[h][s] = IF h = j /\ s \in members[j] THEN "todo" ELSE step[h][s]
  BY <1>2, <1>4 DEF TypeInv, TypeOK, CaptureOK
<1>6. \A s \in members[j] : s \in Rows /\ snap[s] = "queued" /\ diff[s] = "none"
  BY <1>1 DEF WorkFacts, GroupsFresh, RowsShown, Shown, TypeInv, TypeOK, JobsOK
<1>7. RowsShown'
  BY <1>1, <1>5 DEF WorkFacts, RowsShown, Shown, Queuing, Diffing
<1>8. StepsFit'
  BY <1>1, <1>5, <1>6 DEF WorkFacts, StepsFit, Latest, Queuing
<1>9. GroupsFresh'
  BY <1>1, <1>3, <1>5 DEF WorkFacts, GroupsFresh
<1>10. Extracted'
  BY <1>1, <1>5, ExtractorApart DEF WorkFacts, Extracted, Captured
<1>11. RowsCarried'
  BY <1>1, <1>3, <1>5 DEF WorkFacts, RowsCarried, Here
<1>12. DiffsCarried'
  BY <1>1, <1>5, <1>6 DEF WorkFacts, DiffsCarried, Latest, Queuing
<1>13. FinalizeFits' /\ FinalizeCarried'
  BY <1>1 DEF WorkFacts, FinalizeFits, FinalizeCarried, Ending, AllDone, Pending, Captured
<1> QED  BY <1>7, <1>8, <1>9, <1>10, <1>11, <1>12, <1>13 DEF WorkFacts

LEMMA WorkCaptureDone ==
  ASSUME TypeInv, WorkFacts, NEW j \in Groups, CaptureDone(j)
  PROVE  WorkFacts'
<1>1. UNCHANGED <<snap, image, diff, gen, xjob, djob, fjob, members, extract, step, held, dpc, finalizer, count>>
      /\ cjob[j].st = "active" /\ step[j] = NoSteps
  BY DEF CaptureDone, dbVars, captureVars
<1>2. \A g \in Groups : cjob'[g].st = IF g = j THEN "completed" ELSE cjob[g].st
  BY DEF CaptureDone, CompleteJob, TypeInv, TypeOK, JobsOK, Job
<1>3. \A s \in Rows : step[j][s] = "no"
  BY <1>1 DEF NoSteps
<1>4. RowsShown' /\ StepsFit' /\ DiffsCarried'
  BY <1>1 DEF WorkFacts, RowsShown, Shown, StepsFit, DiffsCarried, Latest
<1>5. GroupsFresh'
  BY <1>1, <1>2, <1>3 DEF WorkFacts, GroupsFresh
<1>6. Extracted' /\ RowsCarried'
  BY <1>1, <1>2 DEF WorkFacts, Extracted, RowsCarried, Here, Captured
<1>7. FinalizeFits' /\ FinalizeCarried'
  BY <1>1 DEF WorkFacts, FinalizeFits, FinalizeCarried, Ending, AllDone, Pending, Captured
<1> QED  BY <1>4, <1>5, <1>6, <1>7 DEF WorkFacts

\* A group's step with one row, before the row has a diff.
LEMMA WorkCaptureStep ==
  ASSUME TypeInv, TypeInv', RowsHere, CanceledMeans, Grouped, CancelInv, Working, WorkFacts,
         NEW j \in Groups, NEW s \in Rows,
         CaptureCheck(j, s) \/ CaptureMark(j, s) \/ CaptureShoot(j, s) \/ CaptureStore(j, s)
  PROVE  WorkFacts'
<1> USE HolderSets
<1>1. UNCHANGED <<diff, gen, xjob, cjob, djob, fjob, members, extract, held, dpc, finalizer, count>>
      /\ step[j][s] \in {"todo", "mark", "start", "shoot", "store"}
  BY DEF CaptureCheck, CaptureMark, CaptureShoot, CaptureStore, dbVars, jobVars
<1>2. diff'[s] = "none" /\ Here(s) /\ snap[s] # "canceled"
  BY <1>1, RowAtWork DEF Queuing, CanceledMeans, Working, InProgress
<1>3. \A g \in Holders, r \in Rows :
        \/ g = j /\ r = s
        \/ step'[g][r] = step[g][r]
        \/ step[g][r] = "todo" /\ step'[g][r] = "abort"
  <2>1. CASE \E k : step' = [step EXCEPT ![j][s] = k]
    BY <2>1 DEF TypeInv, TypeOK, CaptureOK
  <2>2. CASE step' = [step EXCEPT ![j] = [r \in Rows |-> IF r = s \/ step[j][r] = "todo" THEN "abort" ELSE step[j][r]]]
    BY <2>2 DEF TypeInv, TypeOK, CaptureOK
  <2> QED  BY <2>1, <2>2 DEF CaptureCheck, CaptureMark, CaptureShoot, CaptureStore
<1>4. /\ \A r \in Rows \ {s} : snap'[r] = snap[r] /\ image'[r] = image[r]
      /\ snap'[s] \in {snap[s], "processing", "success"}
  <2>1. CASE CaptureCheck(j, s) \/ CaptureShoot(j, s)
    BY <2>1 DEF CaptureCheck, CaptureShoot, dbVars
  <2>2. CASE CaptureMark(j, s)
    BY <1>2, <2>2 DEF CaptureMark, TypeInv, TypeOK, DbOK
  <2>3. CASE CaptureStore(j, s)
    BY <1>2, <2>3 DEF CaptureStore, TypeInv, TypeOK, DbOK
  <2> QED  BY <2>1, <2>2, <2>3
<1>5. /\ step'[j][s] \notin Queuing \cup {"no", "fail", "uperr", "upmark", "todo"}
      /\ step'[j][s] \in Diffing => Shown(s)'
  <2>1. CASE CaptureCheck(j, s)
    <3>1. snap[s] = "queued" /\ ~Terminal(build)
      BY <2>1 DEF CaptureCheck, WorkFacts, StepsFit, Terminal, Working, InProgress
    <3>2. step'[j][s] \in {"start", "mark"}
      BY <2>1, <3>1 DEF CaptureCheck, TypeInv, TypeOK, CaptureOK
    <3> QED  BY <3>2 DEF Queuing, Diffing
  <2>2. CASE CaptureMark(j, s)
    <3>1. step'[j][s] = "shoot"
      BY <2>2 DEF CaptureMark, TypeInv, TypeOK, CaptureOK
    <3> QED  BY <3>1 DEF Queuing, Diffing
  <2>3. CASE CaptureShoot(j, s)
    <3>1. step'[j][s] \in {"store", "err", "abort"}
      BY <2>3 DEF CaptureShoot, TypeInv, TypeOK, CaptureOK
    <3> QED  BY <3>1 DEF Queuing, Diffing
  <2>4. CASE CaptureStore(j, s)
    <3>1. step'[j][s] = "diff"
      BY <1>2, <2>4 DEF CaptureStore, TypeInv, TypeOK, CaptureOK
    <3>2. snap'[s] = "success" /\ image'[s] # "none"
      BY <1>2, <2>4 DEF CaptureStore, TypeInv, TypeOK, DbOK
    <3> QED  BY <3>1, <3>2 DEF Queuing, Diffing, Shown
  <2> QED  BY <2>1, <2>2, <2>3, <2>4
<1>6. Here(s)'
  BY <1>2, <1>4 DEF Here
<1>7. step[j][s] # "no" /\ j \in Holders
  BY <1>1
<1> QED  BY <1>1, <1>2, <1>3, <1>4, <1>5, <1>6, <1>7, WorkRow

LEMMA WorkCapture ==
  ASSUME TypeInv, TypeInv', RowsHere, CanceledMeans, Grouped, CancelInv, Working, WorkFacts,
         NEW j \in Groups, CaptureWorker(j)
  PROVE  WorkFacts'
<1>1. \A s \in Rows : ~CaptureFailed(j, s)
  BY HolderSets DEF CaptureFailed, WorkFacts, StepsFit
<1> QED  BY <1>1, WorkCaptureRun, WorkCaptureDone, WorkCaptureStep DEF CaptureWorker

\* Without rebuilds a snapshot has one diff row at most, and a comparison that has a job is of that row.
LEMMA OnlyDiff ==
  ASSUME TypeInv, DiffInv, NotRebuilt, NEW d \in DiffIds, djob[d].st # "none" \/ dpc[d] # "idle"
  PROVE  d = Latest(d[1]) /\ d[1] \in Rows /\ diff[d[1]] # "none" /\ DiffExists(d)
<1>1. d[1] \in Rows /\ d[2] \in Nat /\ d[2] >= 1 /\ d = <<d[1], d[2]>>
  BY BoundsAssumption DEF DiffIds, Gens
<1>2. gen[d[1]] \in Nat
  BY <1>1, BoundsAssumption DEF TypeInv, TypeOK, DbOK
<1>3. gen[d[1]] >= d[2]
  BY <1>1, <1>2 DEF DiffInv, NoJobAhead
<1>4. gen[d[1]] <= 1 /\ (diff[d[1]] = "none" => gen[d[1]] <= 0)
  BY <1>1, <1>2 DEF TypeInv, GenBounded, NotRebuilt
<1> QED  BY <1>1, <1>2, <1>3, <1>4 DEF Latest, DiffExists

LEMMA WorkDiffRun ==
  ASSUME TypeInv, DiffInv, CanceledMeans, Working, WorkFacts, NEW d \in DiffIds, DiffRun(d)
  PROVE  WorkFacts'
<1>1. UNCHANGED <<snap, image, gen, xjob, cjob, fjob, members, extract, step, held, finalizer, count>>
      /\ djob[d].st = "waiting" /\ dpc[d] = "idle"
  BY DEF DiffRun, captureVars
<1>2. d = Latest(d[1]) /\ d[1] \in Rows /\ diff[d[1]] # "none"
  BY <1>1, OnlyDiff DEF Working
<1>3. snap[d[1]] # "canceled" /\ ~Terminal(build)
  BY <1>2 DEF CanceledMeans, Working, InProgress, Terminal
<1>4. Uncomparable(d[1]) \/ image[d[1]] # "none"
  BY <1>2 DEF WorkFacts, RowsShown, Shown, Uncomparable
<1>5. /\ diff' = diff /\ djob' = [djob EXCEPT ![d] = StartJob(@)]
      /\ dpc' = [dpc EXCEPT ![d] = IF Uncomparable(d[1]) THEN "fail" ELSE "pass"]
  BY <1>3, <1>4 DEF DiffRun
<1>6. \A e \in DiffIds : djob'[e].st = IF e = d THEN "active" ELSE djob[e].st
  BY <1>5 DEF StartJob, TypeInv, TypeOK, JobsOK, Job
<1>7. \A e \in DiffIds : IF e = d THEN dpc'[e] \in {"pass", "fail"} ELSE dpc'[e] = dpc[e]
  BY <1>5 DEF TypeInv, TypeOK, HandlersOK
<1>8. \A s \in Rows : diff[s] # "none" => Latest(s) \in DiffIds
  BY DEF WorkFacts, DiffsCarried
<1>9. RowsShown' /\ GroupsFresh'
  BY <1>1, <1>5 DEF WorkFacts, RowsShown, Shown, GroupsFresh
<1>10. StepsFit'
  BY <1>1, <1>5, <1>6, <1>8 DEF WorkFacts, StepsFit, Latest
<1>11. Extracted' /\ RowsCarried'
  BY <1>1, <1>5 DEF WorkFacts, Extracted, RowsCarried, Here, Captured
<1>12. DiffsCarried'
  BY <1>1, <1>5, <1>6, <1>7, <1>8 DEF WorkFacts, DiffsCarried, Latest
<1>13. FinalizeFits'
  BY <1>1, <1>5 DEF WorkFacts, FinalizeFits, Ending, AllDone, Pending, Captured
<1>14. FinalizeCarried'
  BY <1>1, <1>5, <1>7 DEF WorkFacts, FinalizeCarried, Ending, AllDone, Pending, Captured
<1> QED  BY <1>9, <1>10, <1>11, <1>12, <1>13, <1>14 DEF WorkFacts

LEMMA WorkDiffWrite ==
  ASSUME TypeInv, DiffInv, RowsHere, RunsBegan, OneRun', CanceledMeans, Working, Working', WorkFacts,
         [Next]_vars, NEW d \in DiffIds, DiffWrite(d)
  PROVE  WorkFacts'
<1> DEFINE s == d[1]
<1>1. UNCHANGED <<snap, image, gen, xjob, cjob, djob, fjob, members, extract, step, held, finalizer, count>>
      /\ dpc[d] \in {"pass", "fail"}
  BY DEF DiffWrite, jobVars, captureVars
<1>2. d = Latest(s) /\ s \in Rows /\ diff[s] # "none" /\ DiffExists(d)
  BY <1>1, OnlyDiff DEF Working
<1>3. diff[s] # "canceled"
  BY <1>2 DEF CanceledMeans, Working, InProgress
<1>4. diff' = [diff EXCEPT ![s] = IF dpc[d] = "pass" THEN "success" ELSE "error"]
  BY <1>2, <1>3 DEF DiffWrite
<1>5. \A r \in Rows : IF r = s THEN diff'[r] \in {"success", "error"} ELSE diff'[r] = diff[r]
  BY <1>4 DEF TypeInv, TypeOK, DbOK
<1>6. \A e \in DiffIds : dpc'[e] = IF e = d THEN "check" ELSE dpc[e]
  BY DEF DiffWrite, TypeInv, TypeOK, HandlersOK
<1>7. djob[d].st \notin {"none", "waiting"}
  BY <1>1 DEF WorkFacts, DiffsCarried
<1>8. \A h \in Holders : step[h][s] = "no"
  BY <1>2, <1>7 DEF WorkFacts, StepsFit
<1> HIDE DEF s
<1>9. RowsShown' /\ GroupsFresh'
  BY <1>1, <1>2, <1>5 DEF WorkFacts, RowsShown, Shown, GroupsFresh
<1>10. StepsFit'
  BY <1>1, <1>5, <1>8 DEF WorkFacts, StepsFit, Latest, Queuing
<1>11. Extracted'
  BY <1>1, <1>2, <1>5 DEF WorkFacts, Extracted, Captured
<1>12. RowsCarried'
  BY <1>1, <1>5 DEF WorkFacts, RowsCarried, Here
<1>13. DiffsCarried'
  <2>1. \A r \in Rows : r # s => Latest(r) # d
    BY <1>2 DEF Latest
  <2>2. \A r \in Rows : diff'[r] # "none" => Latest(r)' \in DiffIds
    BY <1>1, <1>2, <1>5 DEF WorkFacts, DiffsCarried, Latest
  <2>3. ASSUME NEW r \in Rows, diff'[r] = "pending"
        PROVE  \/ \E h \in Holders : step'[h][r] \in Queuing
               \/ djob'[Latest(r)'].st = "waiting"
               \/ dpc'[Latest(r)'] \in {"pass", "fail"}
    <3>1. r # s /\ diff[r] = "pending" /\ Latest(r)' = Latest(r) /\ Latest(r) \in DiffIds /\ Latest(r) # d
      BY <1>1, <1>5, <2>1, <2>3 DEF WorkFacts, DiffsCarried, Latest
    <3> QED  BY <1>1, <1>6, <3>1 DEF WorkFacts, DiffsCarried
  <2>4. \A e \in DiffIds : (djob'[e].st \in {"none", "waiting"} => dpc'[e] = "idle") /\ dpc'[e] # "failed"
    BY <1>1, <1>6, <1>7 DEF WorkFacts, DiffsCarried
  <2> QED  BY <2>2, <2>3, <2>4 DEF DiffsCarried
<1>14. FinalizeFits'
  BY <1>1, FinalizeFitsKept
<1>15. FinalizeCarried'
  BY <1>1, <1>6 DEF WorkFacts, FinalizeCarried, Captured, Ending
<1> QED  BY <1>9, <1>10, <1>11, <1>12, <1>13, <1>14, <1>15 DEF WorkFacts

LEMMA WorkDiffCheck ==
  ASSUME TypeInv, DiffInv, Working, WorkFacts, NEW d \in DiffIds, DiffCheck(d)
  PROVE  WorkFacts'
<1>1. UNCHANGED <<snap, image, diff, gen, xjob, cjob, members, extract, step, held, finalizer, count>>
      /\ dpc[d] = "check"
  BY DEF DiffCheck, dbVars, captureVars
<1>2. djob[d].st \notin {"none", "waiting"}
  BY <1>1 DEF WorkFacts, DiffsCarried
<1>3. \A e \in DiffIds : IF e = d THEN djob'[e].st \notin {"none", "waiting"} ELSE djob'[e] = djob[e]
  BY <1>2 DEF DiffCheck, CompleteJob, TypeInv, TypeOK, JobsOK, Job
<1>4. \A e \in DiffIds : dpc'[e] = IF e = d THEN "idle" ELSE dpc[e]
  BY DEF DiffCheck, TypeInv, TypeOK, HandlersOK
<1>5. \A s \in Rows : diff[s] # "none" => Latest(s) \in DiffIds
  BY DEF WorkFacts, DiffsCarried
<1>6. RowsShown' /\ GroupsFresh'
  BY <1>1 DEF WorkFacts, RowsShown, Shown, GroupsFresh
<1>7. StepsFit'
  BY <1>1, <1>2, <1>3, <1>5 DEF WorkFacts, StepsFit, Latest
<1>8. Extracted' /\ RowsCarried'
  BY <1>1 DEF WorkFacts, Extracted, RowsCarried, Here, Captured
<1>9. DiffsCarried'
  <2>1. \A s \in Rows : diff'[s] # "none" => Latest(s)' \in DiffIds
    BY <1>1, <1>5 DEF Latest
  <2>2. ASSUME NEW s \in Rows, diff'[s] = "pending"
        PROVE  \/ \E h \in Holders : step'[h][s] \in Queuing
               \/ djob'[Latest(s)'].st = "waiting"
               \/ dpc'[Latest(s)'] \in {"pass", "fail"}
    <3>1. diff[s] = "pending" /\ Latest(s)' = Latest(s) /\ Latest(s) \in DiffIds
      BY <1>1, <1>5, <2>2 DEF Latest
    <3>2. \/ \E h \in Holders : step[h][s] \in Queuing
          \/ djob[Latest(s)].st = "waiting"
          \/ dpc[Latest(s)] \in {"pass", "fail"}
      BY <3>1 DEF WorkFacts, DiffsCarried
    <3>3. djob[Latest(s)].st = "waiting" \/ dpc[Latest(s)] \in {"pass", "fail"} => Latest(s) # d
      BY <1>1, <1>2
    <3> QED  BY <1>1, <1>3, <1>4, <3>1, <3>2, <3>3
  <2>3. \A e \in DiffIds : (djob'[e].st \in {"none", "waiting"} => dpc'[e] = "idle") /\ dpc'[e] # "failed"
    BY <1>3, <1>4 DEF WorkFacts, DiffsCarried
  <2> QED  BY <2>1, <2>2, <2>3 DEF DiffsCarried
<1>10. (AllDone <=> AllDone') /\ Captured' = Captured
  BY <1>1 DEF AllDone, Pending, Captured
<1>11. HasAllDoneForBuild <=> AllDone /\ Captured # {}
  BY DEF HasAllDoneForBuild, AllDone, Pending, Captured, WorkFacts, Extracted
<1>12. CASE HasAllDoneForBuild
  <2>1. fjob' = AddJob(fjob)
    BY <1>12 DEF DiffCheck, FinalizeQueuedIfAllDone, FinalizeQueued
  <2>2. fjob' = fjob \/ (fjob.st = "none" /\ fjob'.st = "waiting")
    BY <2>1 DEF AddJob, NoJob
  <2>3. fjob'.st # "none"
    BY <2>1 DEF AddJob, NoJob
  <2>4. FinalizeFits'
    BY <1>1, <1>10, <1>11, <1>12, <2>2 DEF WorkFacts, FinalizeFits, Ending
  <2>5. FinalizeCarried'
    BY <2>3, <2>4 DEF FinalizeFits, FinalizeCarried
  <2> QED  BY <1>6, <1>7, <1>8, <1>9, <2>4, <2>5 DEF WorkFacts
<1>13. CASE ~HasAllDoneForBuild
  <2>1. fjob' = fjob
    BY <1>13 DEF DiffCheck, FinalizeQueuedIfAllDone
  <2>2. FinalizeFits' /\ FinalizeCarried'
    BY <1>1, <1>10, <1>11, <1>13, <2>1 DEF WorkFacts, FinalizeFits, FinalizeCarried, Ending
  <2> QED  BY <1>6, <1>7, <1>8, <1>9, <2>2 DEF WorkFacts
<1> QED  BY <1>12, <1>13

LEMMA WorkFinalize ==
  ASSUME TypeInv, Working, WorkFacts, FinalizeRun \/ FinalizeRead \/ FinalizeDone
  PROVE  WorkFacts'
<1>1. UNCHANGED <<snap, image, diff, gen, xjob, cjob, djob, members, extract, step, held, dpc, count>>
  BY DEF FinalizeRun, FinalizeRead, FinalizeDone, dbVars, jobVars, captureVars
<1>2. AllDone /\ fjob'.st = "active" /\ finalizer'.pc \in {"read", "write"}
  <2>1. CASE FinalizeRun
    <3>1. AllDone /\ ~HasPendingForBuild
      BY <2>1 DEF FinalizeRun, WorkFacts, FinalizeFits, AllDone, HasPendingForBuild
    <3>2. finalizer'.pc = "read"
      BY <2>1, <3>1 DEF FinalizeRun, TypeInv, TypeOK, HandlersOK
    <3> QED  BY <2>1, <3>1, <3>2 DEF FinalizeRun, StartJob, TypeInv, TypeOK, JobsOK, Job
  <2>2. CASE FinalizeRead
    BY <2>2 DEF FinalizeRead, WorkFacts, FinalizeFits, Working, InProgress, jobVars
  <2>3. ~FinalizeDone
    BY DEF FinalizeDone, WorkFacts, FinalizeFits, Ending
  <2> QED  BY <2>1, <2>2, <2>3
<1>3. RowsShown' /\ StepsFit' /\ GroupsFresh'
  BY <1>1 DEF WorkFacts, RowsShown, Shown, StepsFit, Latest, GroupsFresh
<1>4. Extracted' /\ RowsCarried' /\ DiffsCarried'
  BY <1>1 DEF WorkFacts, Extracted, RowsCarried, DiffsCarried, Latest, Here, Captured
<1>5. AllDone'
  BY <1>1, <1>2 DEF AllDone, Pending, Captured
<1>6. FinalizeFits' /\ FinalizeCarried'
  BY <1>2, <1>5 DEF FinalizeFits, FinalizeCarried, Ending
<1> QED  BY <1>3, <1>4, <1>6 DEF WorkFacts

LEMMA WorkInvStep ==
  ASSUME WorkersReliable, FinalizeInv, CancelInv, CancelInv', WorkInv, [Next]_vars
  PROVE  WorkInv'
<1> SUFFICES ASSUME Working'
             PROVE  WorkFacts'
  BY DEF WorkInv
<1>1. /\ TypeInv /\ LifeInv /\ DiffInv /\ RowsHere /\ CanceledMeans /\ RunsBegan /\ Grouped
      /\ OneRun /\ OneRun' /\ TypeInv'
  BY TypeStep DEF FinalizeInv, CancelInv
<1>2. Working /\ WorkFacts /\ WorkAction
  BY <1>1, WorkStep
<1>3. CASE UNCHANGED workVars /\ count'.runs = count.runs
  BY <1>2, <1>3, WorkUntouched
<1>4. CASE ConfirmEnqueue \/ ExtractRun \/ ExtractCreate \/ ExtractRecheck \/ ExtractEnqueue
  BY <1>1, <1>2, <1>4, WorkConfirm, WorkExtractRun, WorkExtractCreate, WorkExtractRecheck, WorkExtractEnqueue
<1>5. ASSUME NEW s \in Rows, ExtractUnreadable(s) PROVE WorkFacts'
  BY <1>1, <1>2, <1>5, WorkExtractUnreadable
<1>6. ASSUME NEW h \in Holders, NEW s \in Rows, RowWorker(h, s) PROVE WorkFacts'
  BY <1>1, <1>2, <1>6, WorkErrorRead, WorkMarkErrored, WorkCreateDiff, WorkEnqueueDiff DEF RowWorker
<1>7. ASSUME NEW j \in Groups, CaptureWorker(j) PROVE WorkFacts'
  BY <1>1, <1>2, <1>7, WorkCapture
<1>8. ASSUME NEW d \in DiffIds, DiffRun(d) \/ DiffWrite(d) \/ DiffCheck(d) PROVE WorkFacts'
  BY <1>1, <1>2, <1>8, WorkDiffRun, WorkDiffWrite, WorkDiffCheck
<1>9. CASE FinalizeRun \/ FinalizeRead \/ FinalizeDone
  BY <1>1, <1>2, <1>9, WorkFinalize
<1> QED  BY <1>2, <1>3, <1>4, <1>5, <1>6, <1>7, <1>8, <1>9 DEF WorkAction

LEMMA WorkInit == Init => WorkFacts
<1> SUFFICES ASSUME Init
             PROVE  WorkFacts
  OBVIOUS
<1> USE HolderSets DEF Init
<1>1. /\ \A s \in Rows : snap[s] = "absent" /\ diff[s] = "none"
      /\ \A h \in Holders, s \in Rows : step[h][s] = "no"
      /\ \A j \in Groups : cjob[j] = NoJob
      /\ \A d \in DiffIds : djob[d] = NoJob /\ dpc[d] = "idle"
  OBVIOUS
<1>2. xjob.st = "none" /\ fjob.st = "none" /\ count.runs = 0
  BY DEF NoJob
<1>3. RowsShown /\ StepsFit /\ GroupsFresh /\ Extracted
  BY <1>1, <1>2 DEF RowsShown, StepsFit, GroupsFresh, Extracted, Queuing, Diffing, NoJob
<1>4. RowsCarried /\ DiffsCarried /\ FinalizeFits
  BY <1>1, <1>2 DEF RowsCarried, Here, DiffsCarried, FinalizeFits
<1>5. FinalizeCarried
  BY <1>1, <1>2 DEF FinalizeCarried, Captured
<1> QED  BY <1>3, <1>4, <1>5 DEF WorkFacts

\* Nobody has a next step to take: then nothing was ever extracted.
LEMMA QuietIsUnconfirmed ==
  ASSUME TypeInv, WorkFacts, Quiet
  PROVE  xjob.st = "none"
<1>1. /\ extract.pc = "idle" /\ (\A d \in DiffIds : dpc[d] = "idle") /\ finalizer.pc = "idle"
      /\ \A h \in Holders, s \in Rows : step[h][s] = "no"
  BY DEF Quiet, HandlersIdle, NoSteps
<1>2. /\ xjob.st \notin {"waiting", "active"} /\ fjob.st \notin {"waiting", "active"}
      /\ \A j \in Groups : cjob[j].st # "waiting"
      /\ \A d \in DiffIds : djob[d].st # "waiting"
  BY DEF Quiet, AnyLiveJob, IsLiveJob
<1>3. Pending = {}
  <2>1. \A s \in Rows : Here(s) => diff[s] # "none"
    BY <1>1, <1>2 DEF WorkFacts, RowsCarried
  <2>2. \A s \in Rows : diff[s] # "pending"
    BY <1>1, <1>2 DEF WorkFacts, DiffsCarried, Queuing
  <2> QED  BY <2>1, <2>2 DEF Pending, Captured, Here
<1>4. ~Ending
  BY <1>2 DEF Ending
<1>5. SUFFICES ASSUME xjob.st # "none"
               PROVE  FALSE
  OBVIOUS
<1>6. count.runs >= 1
  BY <1>2, <1>5 DEF WorkFacts, Extracted, TypeInv, TypeOK, JobsOK, Job, JobState
<1>7. Captured # {}
  BY <1>1, <1>4, <1>6 DEF WorkFacts, FinalizeCarried
<1>8. extract.bad = {}
  BY <1>1, <1>3, <1>7 DEF WorkFacts, Extracted, Pending, Captured
<1> QED  BY <1>1, <1>3, <1>4, <1>7, <1>8 DEF WorkFacts, FinalizeCarried, AllDone

\* As long as nothing fails, a build that was confirmed and not rebuilt is never left in
\* progress with nothing to move it on: of the diffs that finish together, the extraction
\* that goes on and the finalization that is absorbed by another, one queues the last one.
THEOREM ConfirmedBuildsMoveOn ==
  ASSUME WorkersReliable
  PROVE  Spec => [](count.rebuilds = 0 => NoStrandedBuild)
<1> DEFINE Inv == FinalizeInv /\ CancelInv /\ WorkInv
<1>1. "extract" \notin Faulty
  BY DEF WorkersReliable
<1>2. Init => Inv
  BY FinalizeInit, CancelInit, WorkInit DEF WorkInv
<1>3. Inv /\ [Next]_vars => Inv'
  <2> SUFFICES ASSUME Inv, [Next]_vars
               PROVE  Inv'
    OBVIOUS
  <2>1. FinalizeInv'
    BY FinalizeInvStep
  <2>2. CancelInv'
    BY <1>1, CancelInvStep
  <2> QED  BY <2>1, <2>2, WorkInvStep
<1>4. Inv => (count.rebuilds = 0 => NoStrandedBuild)
  BY QuietIsUnconfirmed DEF NoStrandedBuild, WorkInv, Working, NotRebuilt, FinalizeInv
<1> QED  BY <1>2, <1>3, <1>4, PTL DEF Spec

-----------------------------------------------------------------------------
(* What a step does to one row, of a build that was extracted once and not rebuilt *)

\* A step that changes the status of a snapshot.
SnapFrom(s) ==
  \/ snap[s] \in Unfinished /\ snap'[s] \in {"error", "canceled"}
  \/ \E j \in Groups : CaptureMark(j, s) \/ CaptureStore(j, s)
  \/ \E h \in Holders : MarkErrored(h, s)

LEMMA SnapsFrom ==
  ASSUME TypeInv, RowsHere, RunsBegan, Once', [Next]_vars, NEW s \in Rows, Here(s), snap'[s] # snap[s]
  PROVE  SnapFrom(s)
<1> USE DEF TypeInv, TypeOK, DbOK
<1>0. NotRebuilt'
  BY DEF Once, NotRebuilt
<1>1. CASE Web
  <2>1. ~InTransaction
    BY NothingShows DEF dbVars
  <2>2. CancelCommit
    BY <1>0, <1>1, <2>1, NotRebuiltBefore
       DEF Web, InTransaction, ConfirmRead, ConfirmEnqueue, CancelJobs, RebuildRead, dbVars
  <2> QED  BY <2>2, ClosingShows DEF Closes, SnapFrom
<1>2. CASE ExtractWorker
  <2>1. CASE ExtractCreate
    BY <2>1, CreateKeeps
  <2>2. ASSUME NEW r \in Rows, ExtractUnreadable(r) PROVE FALSE
    BY <2>2 DEF ExtractUnreadable, RowsHere, RowsPresent, Here
  <2>3. CASE ExtractRecheck
    BY <2>3 DEF ExtractRecheck, UnfinishedRows, SnapsMarked, SnapFrom
  <2> QED  BY <1>2, <2>1, <2>2, <2>3 DEF ExtractWorker, ExtractRun, ExtractEnqueue, FailBuild, dbVars
<1>3. CASE FinalizeWorker
  BY <1>3 DEF FinalizeWorker, FinalizeRun, FinalizeRead, FinalizeWrite, FinalizeDone, FailBuild, dbVars
<1>4. CASE Reaper
  <2>1. ReaperTx
    BY <1>4 DEF Reaper, WindowPasses, ReaperScan, ReaperMark, ReaperSelect, ReaperJobs, dbVars
  <2> QED  BY <2>1, ClosingShows DEF Closes, SnapFrom
<1>5. CASE Faults
  BY <1>0, <1>5, NotRebuiltBefore, Zenon
     DEF Faults, ConfirmFails, WebFaults, ExtractFaults, FinalizeFaults, FailedHandlerFaults, ReaperFaults,
         CaptureFaults, CapturePersistFails, DiffFaults, dbVars
<1>6. ASSUME NEW h \in Holders, NEW r \in Rows, RowWorker(h, r) PROVE SnapFrom(s)
  <2>1. MarkErrored(h, r)
    BY <1>6 DEF RowWorker, ErrorRead, CreateDiff, EnqueueDiff, dbVars
  <2>2. r = s
    BY <2>1 DEF MarkErrored
  <2> QED  BY <2>1, <2>2 DEF SnapFrom
<1>7. ASSUME NEW j \in Groups, CaptureWorker(j) PROVE SnapFrom(s)
  <2>1. PICK r \in Rows : CaptureMark(j, r) \/ CaptureStore(j, r)
    BY <1>7 DEF CaptureWorker, CaptureRun, CaptureDone, CaptureCheck, CaptureShoot, CaptureFailed, dbVars
  <2>2. r = s
    BY <2>1 DEF CaptureMark, CaptureStore
  <2> QED  BY <2>1, <2>2 DEF SnapFrom
<1>8. ASSUME NEW d \in DiffIds, DiffWorker(d) PROVE FALSE
  BY <1>8 DEF DiffWorker, DiffRun, DiffWrite, DiffCheck, DiffFailed, dbVars
<1>9. CASE UNCHANGED vars
  BY <1>9 DEF vars, dbVars
<1> QED  BY <1>1, <1>2, <1>3, <1>4, <1>5, <1>6, <1>7, <1>8, <1>9 DEF Next

LEMMA ImagesFrom ==
  ASSUME TypeInv, RunsBegan, Once', [Next]_vars, NEW s \in Rows, image'[s] # image[s]
  PROVE  \E j \in Groups : CaptureStore(j, s)
<1> USE DEF TypeInv, TypeOK, DbOK
<1>0. NotRebuilt'
  BY DEF Once, NotRebuilt
<1>1. CASE Web
  <2>1. ~InTransaction
    BY NothingShows DEF dbVars
  <2> QED  BY <1>0, <1>1, <2>1, NotRebuiltBefore
           DEF Web, InTransaction, ConfirmRead, ConfirmEnqueue, CancelCommit, CancelJobs, RebuildRead, dbVars
<1>2. CASE ExtractWorker \/ FinalizeWorker \/ Reaper
  BY <1>2, Zenon DEF ExtractWorker, ExtractRun, ExtractCreate, ExtractUnreadable, ExtractRecheck, ExtractEnqueue,
              FinalizeWorker, FinalizeRun, FinalizeRead, FinalizeWrite, FinalizeDone, FailBuild,
              Reaper, WindowPasses, ReaperScan, ReaperMark, ReaperSelect, ReaperTx, ReaperJobs, dbVars
<1>3. CASE Faults
  BY <1>0, <1>3, NotRebuiltBefore, Zenon
     DEF Faults, ConfirmFails, WebFaults, ExtractFaults, FinalizeFaults, FailedHandlerFaults, ReaperFaults,
         CaptureFaults, CapturePersistFails, DiffFaults, dbVars
<1>4. ASSUME NEW h \in Holders, NEW r \in Rows, RowWorker(h, r) PROVE FALSE
  BY <1>4 DEF RowWorker, ErrorRead, MarkErrored, CreateDiff, EnqueueDiff, dbVars
<1>5. ASSUME NEW j \in Groups, CaptureWorker(j) PROVE CaptureStore(j, s)
  <2>1. PICK r \in Rows : CaptureStore(j, r)
    BY <1>5 DEF CaptureWorker, CaptureRun, CaptureDone, CaptureCheck, CaptureMark, CaptureShoot, CaptureFailed,
                dbVars
  <2>2. r = s
    BY <2>1 DEF CaptureStore
  <2> QED  BY <2>1, <2>2
<1>6. ASSUME NEW d \in DiffIds, DiffWorker(d) PROVE FALSE
  BY <1>6 DEF DiffWorker, DiffRun, DiffWrite, DiffCheck, DiffFailed, dbVars
<1>7. CASE UNCHANGED vars
  BY <1>7 DEF vars, dbVars
<1> QED  BY <1>1, <1>2, <1>3, <1>4, <1>5, <1>6, <1>7 DEF Next

\* A step that changes the status of a diff: none is removed.
DiffFrom(s) ==
  \/ diff[s] = "none" /\ diff'[s] = "pending"
  \/ CancelCommit /\ diff[s] # "none" /\ diff'[s] = "canceled"
  \/ ~Finished(s) /\ Here(s) /\ diff'[s] = "error"
  \/ diff[s] # "none" /\ diff'[s] = "error" /\ s \in reaper'.over
  \/ \E d \in DiffIds : d[1] = s /\ DiffExists(d) /\ (DiffWrite(d) \/ DiffFailed(d))

LEMMA DiffsFrom ==
  ASSUME TypeInv, RowsHere, RunsBegan, Once', [Next]_vars, NEW s \in Rows, diff'[s] # diff[s]
  PROVE  DiffFrom(s)
<1> USE DEF TypeInv, TypeOK, DbOK
<1>0. NotRebuilt'
  BY DEF Once, NotRebuilt
<1>1. CASE Web
  <2>1. ~InTransaction
    BY NothingShows DEF dbVars
  <2>2. CancelCommit
    BY <1>0, <1>1, <2>1, NotRebuiltBefore
       DEF Web, InTransaction, ConfirmRead, ConfirmEnqueue, CancelJobs, RebuildRead, dbVars
  <2> QED  BY <2>2 DEF CancelCommit, DiffsMarked, DiffFrom
<1>2. CASE ExtractWorker \/ FinalizeWorker
  BY <1>2, Zenon DEF ExtractWorker, ExtractRun, ExtractCreate, ExtractUnreadable, ExtractRecheck, ExtractEnqueue,
              FinalizeWorker, FinalizeRun, FinalizeRead, FinalizeWrite, FinalizeDone, FailBuild, dbVars
<1>3. CASE Reaper
  <2>1. ReaperTx
    BY <1>3 DEF Reaper, WindowPasses, ReaperScan, ReaperMark, ReaperSelect, ReaperJobs, dbVars
  <2>2. CASE diff[s] = "none"
    <3>1. diff'[s] = "error" /\ snap[s] \in Unfinished
      BY <2>1, <2>2, ClosingShows DEF Closes
    <3> QED  BY <2>2, <3>1 DEF Here, Finished, Unfinished, DiffFrom
  <2>3. CASE diff[s] # "none"
    <3>1. diff'[s] = IF <<s, gen[s]>> \in reaper.ids THEN "error" ELSE diff[s]
      BY <2>1, <2>3 DEF ReaperTx, DiffsMarked, NeedsDiff
    <3>2. <<s, gen[s]>> \in reaper.ids /\ diff'[s] = "error" /\ diff[s] \in {"pending", "success", "canceled"}
      BY <2>3, <3>1 DEF DiffStatus
    <3>3. CASE diff[s] = "pending"
      BY <3>2, <3>3 DEF RowsHere, RowsPresent, Finished, DiffFrom
    <3>4. CASE diff[s] \in {"success", "canceled"}
      BY <2>1, <3>2, <3>4 DEF ReaperTx, WebOK, DiffFrom
    <3> QED  BY <3>2, <3>3, <3>4
  <2> QED  BY <2>2, <2>3
<1>4. CASE Faults
  BY <1>0, <1>4, NotRebuiltBefore, Zenon
     DEF Faults, ConfirmFails, WebFaults, ExtractFaults, FinalizeFaults, FailedHandlerFaults, ReaperFaults,
         CaptureFaults, CapturePersistFails, DiffFaults, dbVars
<1>5. ASSUME NEW h \in Holders, NEW r \in Rows, RowWorker(h, r) PROVE DiffFrom(s)
  BY <1>5 DEF RowWorker, ErrorRead, MarkErrored, CreateDiff, EnqueueDiff, NeedsDiff, DiffFrom, dbVars
<1>6. ASSUME NEW j \in Groups, CaptureWorker(j) PROVE FALSE
  BY <1>6 DEF CaptureWorker, CaptureRun, CaptureDone, CaptureCheck, CaptureMark, CaptureShoot, CaptureStore,
              CaptureFailed, dbVars
<1>7. ASSUME NEW d \in DiffIds, DiffWorker(d) PROVE DiffFrom(s)
  <2>1. CASE DiffRun(d)
    <3>1. diff[s] = "pending" /\ diff'[s] = "error"
      BY <2>1 DEF DiffRun
    <3> QED  BY <3>1 DEF RowsHere, RowsPresent, Finished, DiffFrom
  <2>2. CASE DiffWrite(d) \/ DiffFailed(d)
    <3>1. d[1] = s /\ DiffExists(d)
      BY <2>2 DEF DiffWrite, DiffFailed
    <3> QED  BY <2>2, <3>1 DEF DiffFrom
  <2>3. ~DiffCheck(d)
    BY DEF DiffCheck, dbVars
  <2> QED  BY <1>7, <2>1, <2>2, <2>3 DEF DiffWorker
<1>8. CASE UNCHANGED vars
  BY <1>8 DEF vars, dbVars
<1> QED  BY <1>1, <1>2, <1>3, <1>4, <1>5, <1>6, <1>7, <1>8 DEF Next

\* A step that changes the job of a comparison.
JobFrom(d) ==
  \/ /\ djob[d].st = "none" /\ djob'[d] = AddJob(djob[d])
     /\ snap' = snap
     /\ \E h \in Holders : step[h][d[1]] \in {"enq", "errenq"} /\ step'[h][d[1]] \in {"no", "uperr"}
  \/ djob[d].st # "active" /\ djob'[d] = NoJob /\ xjob' = RemoveJob(xjob) /\ UNCHANGED <<diff, dpc>>
  \/ DiffRun(d) \/ DiffCheck(d) \/ DiffFaults(d)

LEMMA DiffJobsFrom ==
  ASSUME TypeInv, RunsBegan, Once', [Next]_vars, NEW d \in DiffIds, djob'[d] # djob[d]
  PROVE  JobFrom(d)
<1> USE HolderSets DEF TypeInv, TypeOK, JobsOK, CaptureOK
<1>0. NotRebuilt'
  BY DEF Once, NotRebuilt
<1>1. CASE Web
  <2>1. ~InTransaction
    BY NothingShows DEF jobVars
  <2>2. CancelJobs
    BY <1>0, <1>1, <2>1, NotRebuiltBefore
       DEF Web, InTransaction, ConfirmRead, ConfirmEnqueue, CancelCommit, RebuildRead, jobVars
  <2> QED  BY <2>2 DEF CancelJobs, CancelBuildJobs, RemoveJob, JobFrom, dbVars
<1>2. CASE ExtractWorker \/ FinalizeWorker
  BY <1>2, Zenon DEF ExtractWorker, ExtractRun, ExtractCreate, ExtractUnreadable, ExtractRecheck, ExtractEnqueue,
              FinalizeWorker, FinalizeRun, FinalizeRead, FinalizeWrite, FinalizeDone, FailBuild, jobVars
<1>3. CASE Reaper
  <2>1. ReaperJobs
    BY <1>3 DEF Reaper, WindowPasses, ReaperScan, ReaperMark, ReaperSelect, ReaperTx, jobVars
  <2> QED  BY <2>1 DEF ReaperJobs, CancelBuildJobs, RemoveJob, JobFrom, dbVars
<1>4. CASE Faults
  <2>1. ASSUME NEW j \in Groups, NEW r \in Rows, CapturePersistFails(j, r) PROVE JobFrom(d)
    <3>1. step[j][r] = "enq" /\ djob' = [djob EXCEPT ![<<r, held[j][r]>>] = AddJob(@)]
      BY <2>1 DEF CapturePersistFails
    <3>2. d = <<r, held[j][r]>> /\ djob'[d] = AddJob(djob[d])
      BY <3>1, Zenon
    <3>3. d[1] = r /\ djob[d].st = "none"
      BY <3>2 DEF AddJob
    <3>4. step'[j][r] = "uperr" /\ snap' = snap
      BY <2>1 DEF CapturePersistFails, dbVars
    <3> QED  BY <3>1, <3>2, <3>3, <3>4 DEF JobFrom
  <2>2. ASSUME NEW e \in DiffIds, DiffFaults(e) PROVE JobFrom(d)
    <3>1. e = d
      BY <2>2 DEF DiffFaults
    <3> QED  BY <2>2, <3>1 DEF JobFrom
  <2> QED  BY <1>0, <1>4, <2>1, <2>2, NotRebuiltBefore
           DEF Faults, ConfirmFails, WebFaults, ExtractFaults, FinalizeFaults, FailedHandlerFaults, ReaperFaults,
               CaptureFaults, jobVars
<1>5. ASSUME NEW h \in Holders, NEW r \in Rows, RowWorker(h, r) PROVE JobFrom(d)
  <2>1. EnqueueDiff(h, r)
    BY <1>5 DEF RowWorker, ErrorRead, MarkErrored, CreateDiff, jobVars
  <2>2. d = <<r, held[h][r]>> /\ djob'[d] = AddJob(djob[d])
    BY <2>1, Zenon DEF EnqueueDiff
  <2>3. d[1] = r /\ djob[d].st = "none"
    BY <2>2 DEF AddJob
  <2>4. step[h][r] \in {"enq", "errenq"} /\ step'[h][r] = "no" /\ snap' = snap
    BY <2>1 DEF EnqueueDiff, dbVars
  <2> QED  BY <2>2, <2>3, <2>4 DEF JobFrom
<1>6. ASSUME NEW j \in Groups, CaptureWorker(j) PROVE FALSE
  BY <1>6 DEF CaptureWorker, CaptureRun, CaptureDone, CaptureCheck, CaptureMark, CaptureShoot, CaptureStore,
              CaptureFailed, jobVars
<1>7. ASSUME NEW e \in DiffIds, DiffWorker(e) PROVE JobFrom(d)
  <2>1. e = d
    BY <1>7 DEF DiffWorker, DiffRun, DiffWrite, DiffCheck, DiffFailed, jobVars
  <2> QED  BY <1>7, <2>1 DEF DiffWorker, DiffWrite, DiffFailed, JobFrom, jobVars
<1>8. CASE UNCHANGED vars
  BY <1>8 DEF vars, jobVars
<1> QED  BY <1>1, <1>2, <1>3, <1>4, <1>5, <1>6, <1>7, <1>8 DEF Next

LEMMA ComparisonsFrom ==
  ASSUME TypeInv, [Next]_vars, NEW d \in DiffIds, dpc'[d] # dpc[d]
  PROVE  dpc'[d] = "idle" \/ DiffWorker(d) \/ DiffFaults(d)
<1> USE DEF TypeInv, TypeOK, HandlersOK
<1>1. CASE Web
  <2>1. ~InTransaction
    BY NothingShows
  <2> QED  BY <1>1, <2>1 DEF Web, InTransaction, ConfirmRead, ConfirmEnqueue, CancelCommit, CancelJobs, RebuildRead,
                             RebuildTx, RebuildEnqueue, RebuildFail, RebuildUndo
<1>2. CASE ExtractWorker \/ FinalizeWorker \/ Reaper
  BY <1>2, Zenon DEF ExtractWorker, ExtractRun, ExtractCreate, ExtractUnreadable, ExtractRecheck, ExtractEnqueue,
              FinalizeWorker, FinalizeRun, FinalizeRead, FinalizeWrite, FinalizeDone, FailBuild,
              Reaper, WindowPasses, ReaperScan, ReaperMark, ReaperSelect, ReaperTx, ReaperJobs
<1>3. CASE Faults
  <2>1. ASSUME NEW e \in DiffIds, DiffFaults(e) PROVE e = d
    BY <2>1 DEF DiffFaults
  <2>2. CASE FailedHandlerFaults
    BY <2>2 DEF FailedHandlerFaults
  <2> QED  BY <1>3, <2>1, <2>2, Zenon
           DEF Faults, ConfirmFails, RebuildEnqueueFails, WebFaults, ExtractFaults, FinalizeFaults, ReaperFaults,
               CaptureFaults, CapturePersistFails
<1>4. ASSUME NEW h \in Holders, NEW r \in Rows, RowWorker(h, r) PROVE FALSE
  BY <1>4 DEF RowWorker, ErrorRead, MarkErrored, CreateDiff, EnqueueDiff
<1>5. ASSUME NEW j \in Groups, CaptureWorker(j) PROVE FALSE
  BY <1>5 DEF CaptureWorker, CaptureRun, CaptureDone, CaptureCheck, CaptureMark, CaptureShoot, CaptureStore,
              CaptureFailed
<1>6. ASSUME NEW e \in DiffIds, DiffWorker(e) PROVE e = d
  BY <1>6 DEF DiffWorker, DiffRun, DiffWrite, DiffCheck, DiffFailed
<1>7. CASE UNCHANGED vars
  BY <1>7 DEF vars
<1> QED  BY <1>1, <1>2, <1>3, <1>4, <1>5, <1>6, <1>7 DEF Next

-----------------------------------------------------------------------------
(***************************************************************************)
(* No success hides a failure, of a build extracted once and not rebuilt.  *)
(* That its diffs are finished follows from AllDone.  That none of them is *)
(* an error unless it was compared again takes three steps: finalizeBuild  *)
(* saw none in error; from then on, the reaper's writes over a result      *)
(* aside, only a comparison that ran before, and passed, can write an      *)
(* error; and it finds another result only for a snapshot errored in       *)
(* between, since a row that has a comparison is not captured again.  The  *)
(* job of a comparison counts its attempts, unless it was removed, which   *)
(* leaves the extraction's job, removed with it, only while that one is    *)
(* active: before the build could be a success.                            *)
(***************************************************************************)

\* What has an active job: the extraction, the finalization and the comparisons.
Active ==
  /\ extract.pc # "idle" <=> xjob.st = "active"
  /\ finalizer.pc # "idle" => fjob.st = "active"
  /\ Once => \A d \in DiffIds : /\ dpc[d] \in {"pass", "fail"} => djob[d].st = "active"
                                /\ djob[d].st = "none" => djob[d] = NoJob

\* A build that is a success has been extracted, and is done.
SuccessIsDone == Once /\ build = "success" => count.runs >= 1 /\ AllDone

Ended == {"success", "error", "canceled"}

\* The diff of a row is only created once its snapshot is stored or errored.
StoredFirst ==
  Once => \A h \in Holders, s \in Rows : step[h][s] \in Reported => snap[s] \in Ended

\* The row has a comparison, or passed it.
Compared(s) ==
  diff[s] = "success" \/ \E d \in DiffIds : d[1] = s /\ (djob[d].st # "none" \/ dpc[d] # "idle")

\* A row that is compared is not captured again.
LeftAlone ==
  Once => \A s \in Rows : Compared(s) =>
            snap[s] \in Ended /\ \A h \in Holders : step[h][s] \notin Taking

\* A comparison passes for a good image, and fails for an error or a broken one.
ResultsFit ==
  Once =>
    /\ \A d \in DiffIds : dpc[d] = "pass" \/ diff[d[1]] = "success" => image[d[1]] = "good"
    /\ \A d \in DiffIds : dpc[d] = "fail" => snap[d[1]] = "error" \/ image[d[1]] = "broken"

\* The build was confirmed once at most, and its extraction, not retried, is in Redis.
Kept == count.confirms <= 1 /\ xjob.st # "none" /\ xjob.tries = 0 /\ xjob.stalls = 0

FirstRun ==
  count.confirms <= 1 =>
    /\ confirm = "enqueue" => xjob.st = "none" /\ count.runs = 0
    /\ count.confirms = 0 => xjob.st = "none" /\ confirm = "idle" /\ count.runs = 0
    /\ xjob.tries = 0 /\ xjob.stalls = 0 /\ (xjob.st = "waiting" \/ extract.pc = "create") => count.runs = 0

\* The build is a success, or the finalization has decided that it is.
Succeeds ==
  build = "success" \/ (build # "canceled" /\ finalizer.pc = "write" /\ finalizer.verdict = "success")

\* No success while the extraction has rows to insert or groups to queue.
NotYet == Once /\ Inserting => ~Succeeds

First(s) == <<s, 1>>

\* The comparison of a row that passed has run: if it is to run again, it is counted.
PassedFacts(s) ==
  LET j == djob[First(s)]
      pc == dpc[First(s)]
  IN /\ j.st # "none"
     /\ pc = "failed" => j.st = "failed"
     /\ j.tries + j.stalls > 0 \/ (j.st # "waiting" /\ pc \notin {"pass", "fail"})

PassedOnce == Once /\ Kept => \A s \in Rows : diff[s] = "success" => PassedFacts(s)

\* What the theorem is about, from the read on that decides on a success.
ErrorsShown ==
  Once /\ Kept /\ Succeeds => \A s \in Rows : diff[s] = "error" => ComparedAgain(s) \/ s \in reaper.over

LEMMA SuccessIsDoneStep ==
  ASSUME FinalizeInv, SuccessIsDone, [Next]_vars
  PROVE  SuccessIsDone'
<1> SUFFICES ASSUME Once', build' = "success" PROVE count'.runs >= 1 /\ AllDone'
  BY DEF SuccessIsDone
<1>1. TypeInv /\ RowsHere /\ RunsBegan /\ Final
  BY DEF FinalizeInv
<1>2. Once /\ count.runs \in Nat /\ count'.runs \in Nat /\ count.runs <= count'.runs
  BY <1>1, CountsGrow
<1>3. count.runs >= 1 /\ AllDone
  <2>1. CASE build = "success"
    BY <1>2, <2>1 DEF SuccessIsDone
  <2>2. CASE build # "success"
    <3>1. finalizer.pc = "write" /\ finalizer.verdict = "success" /\ build # "canceled"
      BY <1>1, <2>2, SuccessIsWritten DEF FinalizeWrite, BuildUnlessCanceled
    <3> QED  BY <1>1, <1>2, <3>1 DEF Final, RunsBegan
  <2> QED  BY <2>1, <2>2
<1> QED  BY <1>1, <1>2, <1>3, AllDoneStep

\* One holder at a time has a row.
LEMMA Alone ==
  ASSUME TypeInv, Once, Grouped, GroupRows, ExtractorReports, NEW s \in Rows,
         NEW g \in Holders, NEW h \in Holders, step[g][s] # "no", step[h][s] # "no"
  PROVE  g = h
<1>1. CASE g \in Groups \/ h \in Groups
  BY <1>1, OneHolder
<1>2. CASE g \notin Groups /\ h \notin Groups
  BY <1>2 DEF Holders
<1> QED  BY <1>1, <1>2

LEMMA StoredFirstStep ==
  ASSUME FinalizeInv, GroupRows, ExtractorReports, StoredFirst, [Next]_vars
  PROVE  StoredFirst'
<1> SUFFICES ASSUME Once', NEW h \in Holders, NEW s \in Rows, step'[h][s] \in Reported
             PROVE  snap'[s] \in Ended
  BY DEF StoredFirst
<1>1. TypeInv /\ RowsHere /\ RunsBegan /\ Grouped /\ Once
  BY CountsGrow DEF FinalizeInv
<1>2. CASE step[h][s] \in Reported
  <2>1. snap[s] \in Ended /\ Here(s)
    BY <1>1, <1>2 DEF StoredFirst, RowsHere, RowsPresent, Reported
  <2>2. CASE snap'[s] # snap[s]
    <3>1. SnapFrom(s)
      BY <1>1, <2>1, <2>2, SnapsFrom
    <3>2. ASSUME NEW j \in Groups, CaptureMark(j, s) \/ CaptureStore(j, s) PROVE FALSE
      <4>1. step[j][s] \in {"mark", "start", "store"}
        BY <3>2 DEF CaptureMark, CaptureStore
      <4>2. j = h
        BY <1>1, <1>2, <4>1, Alone, HolderSets DEF Reported
      <4> QED  BY <1>2, <4>1, <4>2 DEF Reported
    <3>3. ASSUME NEW g \in Holders, MarkErrored(g, s) PROVE snap'[s] \in Ended
      BY <1>1, <3>3 DEF MarkErrored, Ended, TypeInv, TypeOK, DbOK
    <3> QED  BY <3>1, <3>2, <3>3 DEF SnapFrom, Ended
  <2> QED  BY <2>1, <2>2
<1>3. CASE step[h][s] \notin Reported
  <2>1. StepFrom(h, s)
    BY <1>1, <1>3, StepsFrom
  <2>2. step[h][s] \notin {"diff", "errdiff"}
    BY <1>3 DEF Reported
  <2>3. CASE h \in Groups /\ CaptureStore(h, s) /\ step'[h][s] = "diff"
    BY <1>1, <2>3, HolderSets DEF CaptureStore, Ended, TypeInv, TypeOK, DbOK, CaptureOK
  <2>4. CASE MarkErrored(h, s)
    BY <1>1, <2>4 DEF MarkErrored, Ended, TypeInv, TypeOK, DbOK
  <2>5. CASE h \in Groups /\ CaptureCheck(h, s)
    <3>1. step'[h][s] \in {"no", "start", "mark"}
      BY <1>1, <2>5, HolderSets DEF CaptureCheck, TypeInv, TypeOK, CaptureOK
    <3> QED  BY <3>1 DEF Reported
  <2> QED  BY <2>1, <2>2, <2>3, <2>4, <2>5 DEF StepFrom, CreateDiff, Reported
<1> QED  BY <1>2, <1>3

LEMMA LeftAloneStep ==
  ASSUME FinalizeInv, Active, GroupRows, ExtractorReports, StoredFirst, LeftAlone, [Next]_vars
  PROVE  LeftAlone'
<1> SUFFICES ASSUME Once', NEW s \in Rows, Compared(s)'
             PROVE  snap'[s] \in Ended /\ \A h \in Holders : step'[h][s] \notin Taking
  BY DEF LeftAlone
<1>1. TypeInv /\ RowsHere /\ RunsBegan /\ Grouped /\ Once
  BY CountsGrow DEF FinalizeInv
<1>2. CASE Compared(s)
  <2>1. snap[s] \in Ended /\ Here(s) /\ \A h \in Holders : step[h][s] \notin Taking
    BY <1>1, <1>2 DEF LeftAlone, Ended, Here
  <2>2. snap'[s] \in Ended
    <3>1. CASE snap'[s] # snap[s]
      <4>1. SnapFrom(s)
        BY <1>1, <2>1, <3>1, SnapsFrom
      <4>2. ASSUME NEW j \in Groups, CaptureMark(j, s) \/ CaptureStore(j, s) PROVE FALSE
        BY <2>1, <4>2, HolderSets DEF CaptureMark, CaptureStore, Taking
      <4>3. ASSUME NEW g \in Holders, MarkErrored(g, s) PROVE snap'[s] \in Ended
        BY <1>1, <4>3 DEF MarkErrored, Ended, TypeInv, TypeOK, DbOK
      <4> QED  BY <4>1, <4>2, <4>3 DEF SnapFrom, Ended
    <3> QED  BY <2>1, <3>1
  <2>3. ASSUME NEW h \in Holders, step'[h][s] \in Taking PROVE FALSE
    <3>1. StepFrom(h, s)
      BY <1>1, <2>1, <2>3, StepsFrom
    <3>2. CASE h \in Groups /\ CaptureCheck(h, s)
      BY <1>1, <2>1, <2>3, <3>2, HolderSets DEF CaptureCheck, Ended, Taking, TypeInv, TypeOK, CaptureOK
    <3>3. CASE h \in Groups /\ (CaptureMark(h, s) \/ CaptureShoot(h, s))
      BY <2>1, <3>3 DEF CaptureMark, CaptureShoot, Taking
    <3> QED  BY <2>3, <3>1, <3>2, <3>3 DEF StepFrom, Taking
  <2> QED  BY <2>2, <2>3
<1>3. CASE ~Compared(s)
  <2>1. ASSUME diff'[s] = "success" PROVE FALSE
    <3>1. DiffFrom(s)
      BY <1>1, <1>3, <2>1, DiffsFrom DEF Compared
    <3>2. PICK d \in DiffIds : d[1] = s /\ (DiffWrite(d) \/ DiffFailed(d))
      BY <2>1, <3>1 DEF DiffFrom
    <3> QED  BY <1>3, <3>2 DEF DiffWrite, DiffFailed, Compared
  <2>2. ASSUME NEW d \in DiffIds, d[1] = s, dpc'[d] # "idle" PROVE FALSE
    <3>1. djob[d].st = "none" /\ dpc[d] = "idle"
      BY <1>3, <2>2 DEF Compared
    <3>2. DiffWorker(d) \/ DiffFaults(d)
      BY <1>1, <2>2, <3>1, ComparisonsFrom
    <3> QED  BY <3>1, <3>2 DEF DiffWorker, DiffRun, DiffWrite, DiffCheck, DiffFailed, DiffFaults
  <2>3. PICK d \in DiffIds : d[1] = s /\ djob[d].st = "none" /\ dpc[d] = "idle" /\ djob'[d].st # "none"
    BY <1>3, <2>1, <2>2 DEF Compared
  <2>4. /\ snap' = snap
        /\ \E h \in Holders : step[h][s] \in {"enq", "errenq"} /\ step'[h][s] \in {"no", "uperr"}
    <3>1. JobFrom(d)
      BY <1>1, <2>3, DiffJobsFrom
    <3> QED  BY <2>3, <3>1 DEF JobFrom, NoJob, DiffRun, DiffCheck, DiffFaults
  <2>5. PICK h \in Holders : step[h][s] \in {"enq", "errenq"} /\ step'[h][s] \in {"no", "uperr"}
    BY <2>4
  <2>6. snap[s] \in Ended
    BY <1>1, <2>5 DEF StoredFirst, Reported
  <2>7. ASSUME NEW g \in Holders, step'[g][s] \in Taking PROVE FALSE
    <3>1. g # h
      BY <2>5, <2>7 DEF Taking
    <3>2. step[g][s] = "no"
      BY <1>1, <2>5, <3>1, Alone
    <3>3. StepFrom(g, s)
      BY <1>1, <2>7, <3>2, StepsFrom DEF Taking
    <3> QED  BY <3>2, <3>3 DEF StepFrom, CaptureCheck, CaptureMark, CaptureShoot, CaptureStore, MarkErrored,
                              CreateDiff
  <2> QED  BY <2>4, <2>6, <2>7
<1> QED  BY <1>2, <1>3

\* A row that is compared keeps its image, and its error.
LEMMA ComparedKeeps ==
  ASSUME FinalizeInv, LeftAlone, [Next]_vars, Once', NEW s \in Rows, Compared(s)
  PROVE  image'[s] = image[s] /\ (snap[s] = "error" => snap'[s] = "error")
<1>1. TypeInv /\ RowsHere /\ RunsBegan /\ Once
  BY CountsGrow DEF FinalizeInv
<1>2. snap[s] \in Ended /\ Here(s) /\ \A h \in Holders : step[h][s] \notin Taking
  BY <1>1 DEF LeftAlone, Ended, Here
<1>3. \A j \in Groups : ~CaptureMark(j, s) /\ ~CaptureStore(j, s)
  BY <1>2, HolderSets DEF CaptureMark, CaptureStore, Taking
<1>4. image'[s] = image[s]
  BY <1>1, <1>3, ImagesFrom
<1>5. ASSUME snap[s] = "error", snap'[s] # snap[s] PROVE FALSE
  <2>1. SnapFrom(s)
    BY <1>1, <1>2, <1>5, SnapsFrom
  <2>2. PICK h \in Holders : MarkErrored(h, s)
    BY <1>3, <1>5, <2>1 DEF SnapFrom, Unfinished
  <2> QED  BY <1>1, <1>5, <2>2 DEF MarkErrored, TypeInv, TypeOK, DbOK
<1> QED  BY <1>4, <1>5

LEMMA ResultsFitStep ==
  ASSUME FinalizeInv, LeftAlone, ResultsFit, [Next]_vars
  PROVE  ResultsFit'
<1> SUFFICES ASSUME Once', NEW d \in DiffIds
             PROVE  /\ dpc'[d] = "pass" \/ diff'[d[1]] = "success" => image'[d[1]] = "good"
                    /\ dpc'[d] = "fail" => snap'[d[1]] = "error" \/ image'[d[1]] = "broken"
  BY DEF ResultsFit
<1> DEFINE s == d[1]
<1>1. TypeInv /\ RowsHere /\ RunsBegan /\ Once /\ s \in Rows
  BY CountsGrow, RowSets DEF FinalizeInv
<1>2. ASSUME Compared(s)
      PROVE  image'[s] = image[s] /\ (snap[s] = "error" => snap'[s] = "error")
  BY <1>1, <1>2, ComparedKeeps
<1>3. ASSUME dpc'[d] \in {"pass", "fail"}, dpc'[d] # dpc[d]
      PROVE  /\ UNCHANGED <<snap, image>>
             /\ dpc'[d] = "pass" => image[s] = "good"
             /\ dpc'[d] = "fail" => snap[s] = "error" \/ image[s] = "broken"
  <2>1. DiffRun(d)
    BY <1>1, <1>3, ComparisonsFrom, Zenon
       DEF DiffWorker, DiffWrite, DiffCheck, DiffFailed, DiffFaults, TypeInv, TypeOK, HandlersOK
  <2> QED  BY <1>1, <1>3, <2>1 DEF DiffRun, Uncomparable, TypeInv, TypeOK, HandlersOK
<1>4. ASSUME diff'[s] = "success", diff[s] # "success"
      PROVE  dpc[<<s, d[2]>>] = "pass" \/ \E e \in DiffIds : e[1] = s /\ dpc[e] = "pass"
  <2>1. DiffFrom(s)
    BY <1>1, <1>4, DiffsFrom
  <2>2. PICK e \in DiffIds : e[1] = s /\ (DiffWrite(e) \/ DiffFailed(e))
    BY <1>4, <2>1 DEF DiffFrom
  <2> QED  BY <1>1, <1>4, <2>2 DEF DiffWrite, DiffFailed, TypeInv, TypeOK, DbOK
<1>5. dpc'[d] = "pass" => image'[s] = "good"
  <2>1. CASE dpc[d] = "pass"
    BY <1>1, <1>2, <2>1 DEF Compared, ResultsFit
  <2>2. CASE dpc[d] # "pass"
    BY <1>3, <2>2
  <2> QED  BY <2>1, <2>2
<1>6. dpc'[d] = "fail" => snap'[s] = "error" \/ image'[s] = "broken"
  <2>1. CASE dpc[d] = "fail"
    BY <1>1, <1>2, <2>1 DEF Compared, ResultsFit
  <2>2. CASE dpc[d] # "fail"
    BY <1>3, <2>2
  <2> QED  BY <2>1, <2>2
<1>7. diff'[s] = "success" => image'[s] = "good"
  <2>1. CASE diff[s] = "success"
    BY <1>1, <1>2, <2>1 DEF Compared, ResultsFit
  <2>2. ASSUME diff'[s] = "success", diff[s] # "success" PROVE image'[s] = "good"
    <3>1. PICK e \in DiffIds : e[1] = s /\ dpc[e] = "pass"
      BY <1>4, <2>2, RowSets DEF DiffIds
    <3> QED  BY <1>1, <1>2, <3>1 DEF Compared, ResultsFit
  <2> QED  BY <2>1, <2>2
<1> QED  BY <1>5, <1>6, <1>7

\* What the operators on a job make of its state and its counts.
LEMMA JobStates ==
  ASSUME NEW j \in Job
  PROVE  /\ StartJob(j).st = "active" /\ CompleteJob(j).st = "completed"
         /\ ThrowJob(j).st = IF IsFinalAttempt(j) THEN "failed" ELSE "waiting"
         /\ StallJob(j).st \in {"waiting", "failed"}
         /\ StartJob(j).tries = j.tries /\ StartJob(j).stalls = j.stalls
         /\ CompleteJob(j).tries = j.tries /\ CompleteJob(j).stalls = j.stalls
         /\ ThrowJob(j).tries + ThrowJob(j).stalls > 0
         /\ StallJob(j).st = "failed" \/ StallJob(j).tries + StallJob(j).stalls > 0
<1> USE AttemptsAssumption, MaxStalledAssumption DEF Job
<1>1. j.st \in JobState /\ j.tries \in Nat /\ j.stalls \in Nat /\ j.tries <= Attempts
  OBVIOUS
<1>2. /\ StartJob(j).st = "active" /\ StartJob(j).tries = j.tries /\ StartJob(j).stalls = j.stalls
  BY DEF StartJob
<1>3. /\ CompleteJob(j).st = "completed" /\ CompleteJob(j).tries = j.tries /\ CompleteJob(j).stalls = j.stalls
  BY DEF CompleteJob
<1>4. /\ ThrowJob(j).st = IF IsFinalAttempt(j) THEN "failed" ELSE "waiting"
      /\ ThrowJob(j).tries + ThrowJob(j).stalls > 0
  BY <1>1 DEF ThrowJob
<1>5. StallJob(j).st \in {"waiting", "failed"} /\ (StallJob(j).st = "failed" \/ StallJob(j).tries + StallJob(j).stalls > 0)
  BY <1>1 DEF StallJob
<1> QED  BY <1>2, <1>3, <1>4, <1>5

\* What a diff worker makes of its job and its handler.
LEMMA DiffRunJob ==
  ASSUME TypeInv, NEW d \in DiffIds, DiffRun(d)
  PROVE  /\ djob[d].st = "waiting" /\ dpc[d] = "idle"
         /\ \/ djob'[d] = CompleteJob(djob[d]) /\ dpc'[d] = "idle"
            \/ djob'[d] = StartJob(djob[d]) /\ dpc'[d] = IF Uncomparable(d[1]) THEN "fail" ELSE "pass"
            \/ djob'[d] = ThrowJob(djob[d]) /\ dpc'[d] = IF IsFinalAttempt(djob[d]) THEN "failed" ELSE "idle"
<1> USE DEF TypeInv, TypeOK, JobsOK, HandlersOK
<1>1. djob \in [DiffIds -> Job] /\ DOMAIN dpc = DiffIds
  OBVIOUS
<1>2. CASE djob' = [djob EXCEPT ![d] = CompleteJob(@)] /\ UNCHANGED dpc /\ dpc[d] = "idle"
  BY <1>1, <1>2 DEF DiffRun
<1>3. CASE /\ djob' = [djob EXCEPT ![d] = StartJob(@)]
           /\ dpc' = [dpc EXCEPT ![d] = IF Uncomparable(d[1]) THEN "fail" ELSE "pass"]
  BY <1>1, <1>3 DEF DiffRun
<1>4. CASE /\ djob' = [djob EXCEPT ![d] = ThrowJob(@)]
           /\ dpc' = [dpc EXCEPT ![d] = IF IsFinalAttempt(djob[d]) THEN "failed" ELSE "idle"]
  BY <1>1, <1>4 DEF DiffRun
<1> QED  BY <1>2, <1>3, <1>4 DEF DiffRun

LEMMA DiffEndJob ==
  ASSUME TypeInv, NEW d \in DiffIds, DiffCheck(d) \/ DiffFaults(d)
  PROVE  \/ /\ DiffCheck(d) /\ dpc[d] = "check" /\ dpc'[d] = "idle"
            /\ djob'[d] = IF djob[d].st = "active" THEN CompleteJob(djob[d]) ELSE djob[d]
         \/ /\ DiffFaults(d) /\ djob[d].st = "active"
            /\ \/ /\ djob'[d] = ThrowJob(djob[d])
                  /\ dpc'[d] = IF IsFinalAttempt(djob[d]) THEN "failed" ELSE "idle"
               \/ djob'[d] = StallJob(djob[d]) /\ dpc'[d] = "idle"
<1> USE DEF TypeInv, TypeOK, JobsOK, HandlersOK
<1>1. djob \in [DiffIds -> Job] /\ DOMAIN dpc = DiffIds
  OBVIOUS
<1>2. CASE DiffCheck(d)
  BY <1>1, <1>2 DEF DiffCheck
<1>3. CASE DiffFaults(d)
  BY <1>1, <1>3 DEF DiffFaults
<1> QED  BY <1>2, <1>3

\* A comparison that is about to write its result has just begun.
LEMMA ComparedNow ==
  ASSUME TypeInv, [Next]_vars, NEW d \in DiffIds, dpc'[d] \in {"pass", "fail"}, dpc'[d] # dpc[d]
  PROVE  /\ DiffRun(d) /\ djob[d].st = "waiting" /\ djob'[d] = StartJob(djob[d])
         /\ dpc'[d] = IF Uncomparable(d[1]) THEN "fail" ELSE "pass"
<1>1. DiffWorker(d) \/ DiffFaults(d)
  BY ComparisonsFrom
<1>2. ~DiffWrite(d) /\ ~DiffFailed(d)
  BY DEF DiffWrite, DiffFailed, TypeInv, TypeOK, HandlersOK
<1>3. DiffRun(d)
  BY <1>1, <1>2, DiffEndJob DEF DiffWorker
<1> QED  BY <1>3, DiffRunJob

LEMMA ActiveStep ==
  ASSUME FinalizeInv, Active, [Next]_vars
  PROVE  Active'
<1>1. TypeInv /\ RunsBegan /\ (Once' => Once)
  BY CountsGrow DEF FinalizeInv
<1> USE DEF TypeInv, TypeOK, JobsOK, HandlersOK
<1>2. extract'.pc # "idle" <=> xjob'.st = "active"
  <2>1. ASSUME UNCHANGED extract, xjob' = xjob \/ xjob' = AddJob(xjob) \/ xjob' = RemoveJob(xjob)
        PROVE  extract'.pc # "idle" <=> xjob'.st = "active"
    BY <2>1 DEF Active, AddJob, RemoveJob, NoJob
  <2>2. CASE Web
    BY <2>1, <2>2 DEF Web, ConfirmRead, ConfirmEnqueue, CancelTx, CancelSelect, CancelCommit, CancelJobs, RebuildRead, RebuildDelete, RebuildTx,
                      RebuildEnqueue, RebuildMark, RebuildFail, RebuildUndo, CancelBuildJobs, jobVars
  <2>3. CASE ExtractWorker
    <3>1. CASE ExtractRun
      BY <1>1, <3>1 DEF ExtractRun, StartJob, CompleteJob, Job
    <3>2. CASE ExtractCreate
      BY <1>1, <3>2 DEF ExtractCreate, Active, jobVars
    <3>3. ASSUME NEW s \in Rows, ExtractUnreadable(s) PROVE extract'.pc # "idle" <=> xjob'.st = "active"
      <4>1. extract'.pc = extract.pc
        BY <1>1, <3>3 DEF ExtractUnreadable
      <4> QED  BY <3>3, <4>1 DEF ExtractUnreadable, Active, jobVars
    <3>4. CASE ExtractRecheck
      BY <1>1, <3>4, Zenon DEF ExtractRecheck, CompleteJob, Active, Job
    <3>5. CASE ExtractEnqueue
      BY <1>1, <3>5 DEF ExtractEnqueue, CompleteJob, Job
    <3>6. CASE FailBuild("extract")
      BY <2>1, <3>6 DEF FailBuild, jobVars
    <3> QED  BY <2>3, <3>1, <3>2, <3>3, <3>4, <3>5, <3>6 DEF ExtractWorker
  <2>4. CASE FinalizeWorker
    BY <2>1, <2>4 DEF FinalizeWorker, FinalizeRun, FinalizeRead, FinalizeWrite, FinalizeDone, FailBuild, jobVars
  <2>5. CASE Reaper
    BY <2>1, <2>5 DEF Reaper, WindowPasses, ReaperScan, ReaperMark, ReaperSelect, ReaperTx, ReaperJobs, CancelBuildJobs, jobVars
  <2>6. CASE Faults
    <3>1. CASE ExtractFaults
      <4>1. xjob'.st # "active"
        BY <1>1, <3>1, Zenon DEF ExtractFaults, ThrowJob, StallJob, Job
      <4> QED  BY <3>1, <4>1 DEF ExtractFaults
    <3> QED  BY <2>1, <2>6, <3>1, Zenon
             DEF Faults, ConfirmFails, RebuildEnqueueFails, WebFaults, FinalizeFaults, FailedHandlerFaults,
                 ReaperFaults, CaptureFaults, CapturePersistFails, DiffFaults, jobVars
  <2>7. ASSUME NEW h \in Holders, NEW r \in Rows, RowWorker(h, r) PROVE UNCHANGED <<extract, xjob>>
    BY <2>7 DEF RowWorker, ErrorRead, MarkErrored, CreateDiff, EnqueueDiff, jobVars
  <2>8. ASSUME NEW j \in Groups, CaptureWorker(j) PROVE UNCHANGED <<extract, xjob>>
    BY <2>8 DEF CaptureWorker, CaptureRun, CaptureDone, CaptureCheck, CaptureMark, CaptureShoot, CaptureStore,
                CaptureFailed, jobVars
  <2>9. ASSUME NEW d \in DiffIds, DiffWorker(d) PROVE UNCHANGED <<extract, xjob>>
    BY <2>9 DEF DiffWorker, DiffRun, DiffWrite, DiffCheck, DiffFailed, jobVars
  <2>10. CASE UNCHANGED vars
    BY <2>1, <2>10 DEF vars, jobVars
  <2> QED  BY <2>1, <2>2, <2>3, <2>4, <2>5, <2>6, <2>7, <2>8, <2>9, <2>10 DEF Next
<1>3. finalizer'.pc # "idle" => fjob'.st = "active"
  <2>1. ASSUME UNCHANGED finalizer, fjob' = fjob \/ fjob' = AddJob(fjob) \/ fjob' = RemoveJob(fjob)
        PROVE  finalizer'.pc # "idle" => fjob'.st = "active"
    BY <2>1 DEF Active, AddJob, RemoveJob, NoJob
  <2>2. CASE Web
    BY <2>1, <2>2 DEF Web, ConfirmRead, ConfirmEnqueue, CancelTx, CancelSelect, CancelCommit, CancelJobs, RebuildRead, RebuildDelete, RebuildTx,
                      RebuildEnqueue, RebuildMark, RebuildFail, RebuildUndo, CancelBuildJobs, jobVars
  <2>3. CASE ExtractWorker
    BY <2>1, <2>3, Zenon DEF ExtractWorker, ExtractRun, ExtractCreate, ExtractUnreadable, ExtractRecheck,
                      ExtractEnqueue, ExtractQueues, FinalizeQueued, FailBuild, jobVars
  <2>4. CASE FinalizeWorker
    <3>1. CASE FinalizeRun
      BY <1>1, <3>1 DEF FinalizeRun, StartJob, Job
    <3>2. CASE FinalizeRead \/ FinalizeWrite
      BY <1>1, <3>2 DEF FinalizeRead, FinalizeWrite, Active, jobVars
    <3>3. CASE FinalizeDone
      BY <1>1, <3>3 DEF FinalizeDone
    <3>4. CASE FailBuild("finalize")
      BY <2>1, <3>4 DEF FailBuild, jobVars
    <3> QED  BY <2>4, <3>1, <3>2, <3>3, <3>4 DEF FinalizeWorker
  <2>5. CASE Reaper
    BY <2>1, <2>5 DEF Reaper, WindowPasses, ReaperScan, ReaperMark, ReaperSelect, ReaperTx, ReaperJobs, CancelBuildJobs, jobVars
  <2>6. CASE Faults
    <3>1. CASE FinalizeFaults
      BY <1>1, <3>1 DEF FinalizeFaults
    <3> QED  BY <2>1, <2>6, <3>1, Zenon
             DEF Faults, ConfirmFails, RebuildEnqueueFails, WebFaults, ExtractFaults, ExtractQueues,
                 FailedHandlerFaults, ReaperFaults, CaptureFaults, CapturePersistFails, DiffFaults,
                 FinalizeQueuedIfAllDone, FinalizeQueued, jobVars
  <2>7. ASSUME NEW h \in Holders, NEW r \in Rows, RowWorker(h, r) PROVE UNCHANGED <<finalizer, fjob>>
    BY <2>7 DEF RowWorker, ErrorRead, MarkErrored, CreateDiff, EnqueueDiff, jobVars
  <2>8. ASSUME NEW j \in Groups, CaptureWorker(j) PROVE UNCHANGED <<finalizer, fjob>>
    BY <2>8 DEF CaptureWorker, CaptureRun, CaptureDone, CaptureCheck, CaptureMark, CaptureShoot, CaptureStore,
                CaptureFailed, jobVars
  <2>9. ASSUME NEW d \in DiffIds, DiffWorker(d)
        PROVE  finalizer' = finalizer /\ (fjob' = fjob \/ fjob' = AddJob(fjob))
    BY <2>9 DEF DiffWorker, DiffRun, DiffWrite, DiffCheck, DiffFailed, FinalizeQueuedIfAllDone, FinalizeQueued,
                jobVars
  <2>10. CASE UNCHANGED vars
    BY <2>1, <2>10 DEF vars, jobVars
  <2> QED  BY <2>1, <2>2, <2>3, <2>4, <2>5, <2>6, <2>7, <2>8, <2>9, <2>10 DEF Next
<1>4. ASSUME Once', NEW d \in DiffIds
      PROVE  /\ dpc'[d] \in {"pass", "fail"} => djob'[d].st = "active"
             /\ djob'[d].st = "none" => djob'[d] = NoJob
  <2>0. djob \in [DiffIds -> Job] /\ dpc \in [DiffIds -> {"idle", "pass", "fail", "check", "failed"}]
        /\ djob[d] \in Job
    BY <1>1
  <2> HIDE DEF TypeInv, TypeOK, JobsOK, HandlersOK
  <2>1. /\ dpc[d] \in {"pass", "fail"} => djob[d].st = "active"
        /\ djob[d].st = "none" => djob[d] = NoJob
    BY <1>1, <1>4 DEF Active
  <2>2. CASE djob'[d] # djob[d] /\ (DiffRun(d) \/ DiffCheck(d) \/ DiffFaults(d))
    <3>1. djob'[d].st # "none"
      BY <1>1, <2>0, <2>2, DiffRunJob, DiffEndJob, JobStates
    <3>2. dpc'[d] \in {"pass", "fail"} => djob'[d].st = "active"
      BY <1>1, <2>0, <2>2, DiffRunJob, DiffEndJob, JobStates
    <3> QED  BY <3>1, <3>2
  <2>3. CASE djob'[d] # djob[d] /\ ~(DiffRun(d) \/ DiffCheck(d) \/ DiffFaults(d))
    <3>1. JobFrom(d)
      BY <1>1, <1>4, <2>3, DiffJobsFrom
    <3>2. djob[d].st # "active" /\ (djob'[d].st = "none" => djob'[d] = NoJob)
      BY <2>3, <3>1 DEF JobFrom, AddJob, NoJob
    <3>3. dpc'[d] \in {"pass", "fail"} => dpc'[d] = dpc[d]
      BY <1>1, <2>3, ComparedNow
    <3> QED  BY <2>1, <3>2, <3>3
  <2>4. CASE djob'[d] = djob[d]
    <3>1. ASSUME dpc'[d] \in {"pass", "fail"}, dpc'[d] # dpc[d] PROVE djob'[d].st = "active"
      BY <1>1, <2>0, <3>1, ComparedNow, JobStates
    <3> QED  BY <2>1, <2>4, <3>1
  <2> QED  BY <2>2, <2>3, <2>4
<1> QED  BY <1>1, <1>2, <1>3, <1>4 DEF Active

LEMMA FirstRunUntouched ==
  ASSUME Active, FirstRun, extract'.pc = extract.pc, confirm' = confirm \/ confirm' = "idle",
         count'.confirms = count.confirms, count'.runs = count.runs,
         xjob' = xjob \/ xjob' = RemoveJob(xjob)
  PROVE  FirstRun'
<1>1. CASE xjob' = xjob
  BY <1>1 DEF FirstRun
<1>2. CASE xjob' = NoJob /\ xjob.st # "active"
  BY <1>2 DEF FirstRun, Active, NoJob
<1> QED  BY <1>1, <1>2 DEF RemoveJob

LEMMA FirstRunStep ==
  ASSUME TypeInv, Active, FirstRun, [Next]_vars
  PROVE  FirstRun'
<1>0. xjob \in Job
  BY DEF TypeInv, TypeOK, JobsOK
<1>1. /\ count.confirms \in Nat /\ count.runs \in Nat
      /\ count \in [runs : 0..MaxRuns, confirms : 0..MaxConfirms, cancels : 0..MaxCancels,
                    rebuilds : 0..MaxRebuilds, faults : 0..MaxFaults]
  BY DEF TypeInv, TypeOK, CountOK
<1> USE DEF TypeInv, TypeOK, HandlersOK, WebOK
<1>2. CASE ConfirmRead
  <2>1. /\ confirm' = "enqueue" /\ count'.confirms = count.confirms + 1 /\ count'.runs = count.runs
        /\ UNCHANGED <<xjob, extract>>
    BY <1>1, <1>2 DEF ConfirmRead, jobVars
  <2> QED  BY <1>1, <2>1 DEF FirstRun
<1>3. CASE confirm = "enqueue" /\ (ConfirmEnqueue \/ ConfirmFails)
  <2>1. /\ confirm' = "idle" /\ count'.confirms = count.confirms /\ count'.runs = count.runs
        /\ UNCHANGED extract /\ (xjob' = xjob \/ xjob' = AddJob(xjob))
    BY <1>1, <1>3 DEF ConfirmEnqueue, ConfirmFails, Faulted
  <2> QED  BY <1>1, <1>3, <2>1 DEF FirstRun
<1>4. CASE Web
  <2>0. CASE InTransaction
    BY <2>0, NothingShows, FirstRunUntouched DEF jobVars
  <2>1. CASE \/ CancelCommit \/ CancelJobs \/ RebuildRead \/ RebuildTx \/ RebuildEnqueue \/ RebuildFail
             \/ RebuildUndo
    <3>1. /\ UNCHANGED <<extract, confirm>> /\ count'.confirms = count.confirms /\ count'.runs = count.runs
          /\ xjob' = xjob \/ xjob' = RemoveJob(xjob)
      BY <1>1, <2>1 DEF CancelCommit, CancelJobs, RebuildRead, RebuildTx, RebuildEnqueue, RebuildFail,
                        RebuildUndo, CancelBuildJobs, jobVars
    <3> QED  BY <3>1, FirstRunUntouched
  <2> QED  BY <1>2, <1>3, <1>4, <2>0, <2>1 DEF Web, InTransaction, ConfirmEnqueue
<1>5. CASE ExtractWorker
  <2>1. CASE ExtractRun
    <3>1. /\ UNCHANGED <<confirm, count>> /\ xjob.st = "waiting"
          /\ \/ xjob' = StartJob(xjob)
             \/ xjob' = CompleteJob(xjob) /\ extract' = extract /\ extract.pc = "idle"
      BY <2>1 DEF ExtractRun, webVars
    <3>2. /\ xjob'.tries = xjob.tries /\ xjob'.stalls = xjob.stalls /\ xjob'.st \notin {"none", "waiting"}
      BY <1>0, <3>1, JobStates
    <3> QED  BY <3>1, <3>2 DEF FirstRun
  <2>2. CASE ExtractCreate
    <3>1. /\ UNCHANGED <<confirm, xjob>> /\ extract.pc = "create" /\ extract'.pc = "unreadable"
          /\ count'.confirms = count.confirms
      BY <1>1, <2>2 DEF ExtractCreate, jobVars, webVars
    <3>2. xjob.st = "active"
      BY <3>1 DEF Active
    <3> QED  BY <3>1, <3>2 DEF FirstRun
  <2>3. ASSUME NEW s \in Rows, ExtractUnreadable(s) PROVE FirstRun'
    <3>1. UNCHANGED <<confirm, count, xjob>> /\ extract'.pc = extract.pc
      BY <2>3 DEF ExtractUnreadable, jobVars, webVars
    <3> QED  BY <3>1, FirstRunUntouched
  <2>4. CASE ExtractRecheck \/ ExtractEnqueue
    <3>1. /\ UNCHANGED <<confirm, count>> /\ extract.pc \notin {"idle", "create"} /\ extract'.pc # "create"
          /\ xjob' = xjob \/ xjob' = CompleteJob(xjob)
      <4>1. CASE ExtractRecheck
        <5>1. extract'.pc # "create"
          BY <4>1, Zenon DEF ExtractRecheck
        <5> QED  BY <4>1, <5>1 DEF ExtractRecheck, webVars
      <4>2. CASE ExtractEnqueue
        BY <4>2 DEF ExtractEnqueue, ExtractQueues, webVars
      <4> QED  BY <2>4, <4>1, <4>2
    <3>2. xjob.st = "active" /\ xjob'.st \in {"active", "completed"}
      BY <1>0, <3>1, JobStates DEF Active
    <3> QED  BY <3>1, <3>2 DEF FirstRun
  <2>5. CASE FailBuild("extract")
    BY <2>5, FirstRunUntouched DEF FailBuild, jobVars, webVars
  <2> QED  BY <1>5, <2>1, <2>2, <2>3, <2>4, <2>5 DEF ExtractWorker
<1>6. CASE FinalizeWorker
  BY <1>6, FirstRunUntouched
     DEF FinalizeWorker, FinalizeRun, FinalizeRead, FinalizeWrite, FinalizeDone, FailBuild, jobVars, webVars
<1>7. CASE Reaper
  <2>0. CASE InTransaction
    BY <2>0, NothingShows, FirstRunUntouched DEF jobVars
  <2> QED  BY <1>7, <2>0, FirstRunUntouched
           DEF Reaper, InTransaction, WindowPasses, ReaperScan, ReaperTx, ReaperJobs, CancelBuildJobs, jobVars, webVars
<1>8. CASE Faults
  <2>0. Faulted => count'.confirms = count.confirms /\ count'.runs = count.runs
    BY <1>1 DEF Faulted
  <2>1. CASE ExtractFaults
    <3>1. /\ xjob.st = "active" /\ confirm' = confirm /\ extract'.pc = "idle"
          /\ count'.confirms = count.confirms /\ count'.runs = count.runs
          /\ xjob' = ThrowJob(xjob) \/ xjob' = StallJob(xjob)
      BY <2>0, <2>1 DEF ExtractFaults, webVars
    <3>2. xjob'.st \in {"waiting", "failed"} /\ (xjob'.st = "waiting" => xjob'.tries + xjob'.stalls > 0)
      BY <1>0, <3>1, JobStates
    <3> QED  BY <3>1, <3>2 DEF FirstRun
  <2>2. CASE ConfirmFails
    BY <1>3, <2>2 DEF ConfirmFails
  <2>3. CASE ~ExtractFaults /\ ~ConfirmFails
    <3>1. /\ UNCHANGED <<extract, xjob>> /\ (confirm' = confirm \/ confirm' = "idle") /\ Faulted
      BY <1>8, <2>3, Zenon
         DEF Faults, RebuildEnqueueFails, WebFaults, FinalizeFaults, FailedHandlerFaults, ReaperFaults,
             CaptureFaults, CapturePersistFails, DiffFaults, jobVars, webVars
    <3> QED  BY <2>0, <3>1, FirstRunUntouched
  <2> QED  BY <2>1, <2>2, <2>3
<1>9. ASSUME NEW h \in Holders, NEW r \in Rows, RowWorker(h, r) PROVE FirstRun'
  BY <1>9, FirstRunUntouched DEF RowWorker, ErrorRead, MarkErrored, CreateDiff, EnqueueDiff, jobVars, webVars
<1>10. ASSUME NEW j \in Groups, CaptureWorker(j) PROVE FirstRun'
  BY <1>10, FirstRunUntouched
     DEF CaptureWorker, CaptureRun, CaptureDone, CaptureCheck, CaptureMark, CaptureShoot, CaptureStore,
         CaptureFailed, jobVars, webVars
<1>11. ASSUME NEW d \in DiffIds, DiffWorker(d) PROVE FirstRun'
  BY <1>11, FirstRunUntouched DEF DiffWorker, DiffRun, DiffWrite, DiffCheck, DiffFailed, jobVars, webVars
<1>12. CASE UNCHANGED vars
  BY <1>12, FirstRunUntouched DEF vars, jobVars, webVars
<1> QED  BY <1>4, <1>5, <1>6, <1>7, <1>8, <1>9, <1>10, <1>11, <1>12 DEF Next

LEMMA ConfirmsGrow ==
  ASSUME TypeInv, [Next]_vars
  PROVE  count'.confirms = count.confirms \/ count'.confirms = count.confirms + 1
<1> USE DEF TypeInv, TypeOK, CountOK
<1>0. Faulted => count'.confirms = count.confirms
  BY DEF Faulted
<1>1. CASE Web
  <2>1. CASE InTransaction
    BY <2>1, NothingShows
  <2> QED  BY <1>1, <2>1 DEF Web, InTransaction, ConfirmRead, ConfirmEnqueue, CancelCommit, CancelJobs, RebuildRead,
                             RebuildTx, RebuildEnqueue, RebuildFail, RebuildUndo
<1>2. CASE ExtractWorker \/ FinalizeWorker \/ Reaper
  BY <1>2, Zenon DEF ExtractWorker, ExtractRun, ExtractCreate, ExtractUnreadable, ExtractRecheck, ExtractEnqueue,
              FinalizeWorker, FinalizeRun, FinalizeRead, FinalizeWrite, FinalizeDone, FailBuild,
              Reaper, WindowPasses, ReaperScan, ReaperMark, ReaperSelect, ReaperTx, ReaperJobs
<1>3. CASE Faults
  BY <1>0, <1>3, Zenon DEF Faults, ConfirmFails, RebuildEnqueueFails, WebFaults, ExtractFaults, FinalizeFaults,
              FailedHandlerFaults, ReaperFaults, CaptureFaults, CapturePersistFails, DiffFaults
<1>4. ASSUME NEW h \in Holders, NEW r \in Rows, RowWorker(h, r) PROVE count' = count
  BY <1>4 DEF RowWorker, ErrorRead, MarkErrored, CreateDiff, EnqueueDiff
<1>5. ASSUME NEW j \in Groups, CaptureWorker(j) PROVE count' = count
  BY <1>5 DEF CaptureWorker, CaptureRun, CaptureDone, CaptureCheck, CaptureMark, CaptureShoot, CaptureStore,
              CaptureFailed
<1>6. ASSUME NEW d \in DiffIds, DiffWorker(d) PROVE count' = count
  BY <1>6 DEF DiffWorker, DiffRun, DiffWrite, DiffCheck, DiffFailed
<1>7. CASE UNCHANGED vars
  BY <1>7 DEF vars
<1> QED  BY <1>1, <1>2, <1>3, <1>4, <1>5, <1>6, <1>7 DEF Next

\* A step that changes the extraction's job.
LEMMA ExtractJobFrom ==
  ASSUME TypeInv, Active, [Next]_vars, xjob' # xjob
  PROVE  \/ confirm = "enqueue" /\ xjob' = AddJob(xjob) /\ count'.confirms = count.confirms
         \/ xjob' = RemoveJob(xjob)
         \/ xjob' \in {StartJob(xjob), CompleteJob(xjob)} /\ xjob.st # "none"
         \/ xjob' \in {ThrowJob(xjob), StallJob(xjob)} /\ xjob.st # "none"
<1>1. CASE Web
  <2>1. ~InTransaction
    BY NothingShows DEF jobVars
  <2> QED  BY <1>1, <2>1 DEF Web, InTransaction, ConfirmRead, ConfirmEnqueue, CancelCommit, CancelJobs, RebuildRead,
                             RebuildTx, RebuildEnqueue, RebuildFail, RebuildUndo, CancelBuildJobs, jobVars
<1>2. CASE ExtractWorker \/ FinalizeWorker
  BY <1>2, Zenon
     DEF ExtractWorker, ExtractRun, ExtractCreate, ExtractUnreadable, ExtractRecheck, ExtractEnqueue,
         ExtractQueues, FinalizeWorker, FinalizeRun, FinalizeRead, FinalizeWrite, FinalizeDone, FailBuild, Active, jobVars
<1>3. CASE Reaper
  BY <1>3 DEF Reaper, WindowPasses, ReaperScan, ReaperMark, ReaperSelect, ReaperTx, ReaperJobs, CancelBuildJobs, jobVars
<1>4. CASE Faults
  <2>1. CASE ConfirmFails
    <3>1. count'.confirms = count.confirms
      BY <2>1 DEF ConfirmFails, Faulted, TypeInv, TypeOK, CountOK
    <3> QED  BY <2>1, <3>1 DEF ConfirmFails
  <2>2. CASE ExtractFaults
    BY <2>2 DEF ExtractFaults
  <2> QED  BY <1>4, <2>1, <2>2, Zenon
           DEF Faults, RebuildEnqueueFails, WebFaults, FinalizeFaults, FailedHandlerFaults, ReaperFaults,
               CaptureFaults, CapturePersistFails, DiffFaults, jobVars
<1>5. ASSUME NEW h \in Holders, NEW r \in Rows, RowWorker(h, r) PROVE FALSE
  BY <1>5 DEF RowWorker, ErrorRead, MarkErrored, CreateDiff, EnqueueDiff, jobVars
<1>6. ASSUME NEW j \in Groups, CaptureWorker(j) PROVE FALSE
  BY <1>6 DEF CaptureWorker, CaptureRun, CaptureDone, CaptureCheck, CaptureMark, CaptureShoot, CaptureStore,
              CaptureFailed, jobVars
<1>7. ASSUME NEW d \in DiffIds, DiffWorker(d) PROVE FALSE
  BY <1>7 DEF DiffWorker, DiffRun, DiffWrite, DiffCheck, DiffFailed, jobVars
<1>8. CASE UNCHANGED vars
  BY <1>8 DEF vars, jobVars
<1> QED  BY <1>1, <1>2, <1>3, <1>4, <1>5, <1>6, <1>7, <1>8 DEF Next

\* A diff that is finished after a step is of a row that was there before it.
LEMMA SettledBefore ==
  ASSUME TypeInv, RowsHere, RunsBegan, Once', [Next]_vars, NEW s \in Rows, diff'[s] \in {"success", "error"}
  PROVE  Here(s)
<1>1. CASE diff'[s] = diff[s]
  BY <1>1 DEF RowsHere, RowsPresent
<1>2. CASE diff'[s] # diff[s]
  <2>1. DiffFrom(s)
    BY <1>2, DiffsFrom
  <2> QED  BY <2>1 DEF DiffFrom, DiffExists, RowsHere, RowsPresent
<1> QED  BY <1>1, <1>2

\* Once a row is there, an extraction that is kept after a step was kept before it.
LEMMA KeptBefore ==
  ASSUME TypeInv, RowsHere, Active, FirstRun, [Next]_vars, Kept', NEW s \in Rows, Here(s)
  PROVE  Kept /\ count.runs # 0
<1>1. count.runs # 0
  BY NothingBeforeRuns
<1>2. count.confirms \in Nat /\ count.confirms <= count'.confirms /\ count'.confirms <= 1 /\ count'.confirms \in Nat
  <2>1. count.confirms \in Nat /\ count \in [runs : 0..MaxRuns, confirms : 0..MaxConfirms, cancels : 0..MaxCancels,
                                          rebuilds : 0..MaxRebuilds, faults : 0..MaxFaults]
    BY DEF TypeInv, TypeOK, CountOK
  <2>2. count'.confirms = count.confirms \/ count'.confirms = count.confirms + 1
    BY <2>1, ConfirmsGrow
  <2> QED  BY <2>1, <2>2 DEF Kept
<1>3. xjob \in Job /\ xjob.tries \in Nat /\ xjob.stalls \in Nat
  BY AttemptsAssumption, MaxStalledAssumption DEF TypeInv, TypeOK, JobsOK, Job
<1>4. CASE xjob' # xjob
  <2>1. CASE confirm = "enqueue"
    BY <1>1, <1>2, <2>1 DEF FirstRun
  <2>2. CASE xjob' = RemoveJob(xjob)
    BY <1>4, <2>2 DEF RemoveJob, Kept, NoJob
  <2>3. CASE xjob' \in {StartJob(xjob), CompleteJob(xjob)} /\ xjob.st # "none"
    BY <1>1, <1>2, <1>3, <2>3, JobStates DEF Kept
  <2>4. CASE xjob' \in {ThrowJob(xjob), StallJob(xjob)} /\ xjob.st # "none"
    <3>1. xjob'.tries + xjob'.stalls = 0
      BY DEF Kept
    <3>2. xjob' = StallJob(xjob) /\ xjob'.st = "failed"
      BY <1>3, <2>4, <3>1, JobStates
    <3>3. xjob'.tries = xjob.tries /\ xjob'.stalls = xjob.stalls
      BY <1>3, <3>2 DEF StallJob, Job
    <3> QED  BY <1>1, <1>2, <2>4, <3>3 DEF Kept
  <2> QED  BY <1>4, <2>1, <2>2, <2>3, <2>4, ExtractJobFrom
<1>5. CASE xjob' = xjob
  BY <1>1, <1>2, <1>5 DEF Kept
<1> QED  BY <1>4, <1>5

\* Only the finalization's read of the diffs decides that a build is a success.
LEMMA SucceedsFrom ==
  ASSUME TypeInv, [Next]_vars, Succeeds', ~Succeeds
  PROVE  FinalizeRead /\ build # "canceled" /\ ~HasProcessingError
<1> USE DEF TypeInv, TypeOK, HandlersOK
<1>1. build # "success" /\ build' # "canceled"
  BY DEF Succeeds
<1>2. build # "canceled"
  BY <1>1, CanceledStep
<1>3. build' # "success"
  <2>1. ASSUME FinalizeWrite, build' = "success" PROVE FALSE
    BY <1>2, <2>1 DEF FinalizeWrite, BuildUnlessCanceled, Succeeds
  <2> QED  BY <1>1, <2>1, SuccessIsWritten
<1>4. finalizer'.pc = "write" /\ finalizer'.verdict = "success" /\ finalizer' # finalizer
  BY <1>1, <1>2, <1>3 DEF Succeeds
<1>5. FinalizeRead
  <2>0. ~InTransaction
    BY <1>4, NothingShows
  <2>1. CASE Web
    BY <1>4, <2>0, <2>1 DEF Web, InTransaction, ConfirmRead, ConfirmEnqueue, CancelCommit, CancelJobs, RebuildRead,
                            RebuildTx, RebuildEnqueue, RebuildFail, RebuildUndo
  <2>2. CASE ExtractWorker \/ Reaper
    BY <1>4, <2>2, Zenon DEF ExtractWorker, ExtractRun, ExtractCreate, ExtractUnreadable, ExtractRecheck, ExtractEnqueue,
                      FailBuild, Reaper, WindowPasses, ReaperScan, ReaperMark, ReaperSelect, ReaperTx, ReaperJobs
  <2>3. CASE FinalizeWorker
    BY <1>4, <2>3 DEF FinalizeWorker, FinalizeRun, FinalizeWrite, FinalizeDone, FailBuild
  <2>4. CASE Faults
    BY <1>4, <2>4, Zenon DEF Faults, ConfirmFails, RebuildEnqueueFails, WebFaults, ExtractFaults, FinalizeFaults,
                      FailedHandlerFaults, ReaperFaults, CaptureFaults, CapturePersistFails, DiffFaults
  <2>5. ASSUME NEW h \in Holders, NEW r \in Rows, RowWorker(h, r) PROVE FALSE
    BY <1>4, <2>5 DEF RowWorker, ErrorRead, MarkErrored, CreateDiff, EnqueueDiff
  <2>6. ASSUME NEW j \in Groups, CaptureWorker(j) PROVE FALSE
    BY <1>4, <2>6 DEF CaptureWorker, CaptureRun, CaptureDone, CaptureCheck, CaptureMark, CaptureShoot,
                      CaptureStore, CaptureFailed
  <2>7. ASSUME NEW d \in DiffIds, DiffWorker(d) PROVE FALSE
    BY <1>4, <2>7 DEF DiffWorker, DiffRun, DiffWrite, DiffCheck, DiffFailed
  <2>8. ~UNCHANGED vars
    BY <1>4 DEF vars
  <2> QED  BY <2>1, <2>2, <2>3, <2>4, <2>5, <2>6, <2>7, <2>8 DEF Next
<1>6. ~HasProcessingError
  BY <1>2, <1>4, <1>5 DEF FinalizeRead
<1> QED  BY <1>2, <1>5, <1>6

\* The rows of a build that is a success, or about to be one, are there and have finished diffs.
LEMMA SucceedsDone ==
  ASSUME FinalizeInv, SuccessIsDone, Once, Succeeds
  PROVE  count.runs >= 1 /\ AllDone
<1>1. CASE build = "success"
  BY <1>1 DEF SuccessIsDone
<1>2. CASE build # "success"
  BY <1>2 DEF Succeeds, FinalizeInv, Final, RunsBegan
<1> QED  BY <1>1, <1>2

LEMMA InsertingFrom ==
  ASSUME TypeInv, [Next]_vars, Inserting', ~Inserting
  PROVE  ExtractCreate
<1> USE DEF TypeInv, TypeOK, HandlersOK, Inserting
<1>0. extract'.pc # extract.pc
  OBVIOUS
<1>1. CASE Web
  <2>1. ~InTransaction
    BY <1>0, NothingShows
  <2> QED  BY <1>0, <1>1, <2>1 DEF Web, InTransaction, ConfirmRead, ConfirmEnqueue, CancelCommit, CancelJobs,
                                   RebuildRead, RebuildTx, RebuildEnqueue, RebuildFail, RebuildUndo
<1>2. CASE ExtractWorker
  BY <1>0, <1>2 DEF ExtractWorker, ExtractRun, ExtractUnreadable, ExtractRecheck, ExtractEnqueue, FailBuild
<1>3. CASE FinalizeWorker \/ Reaper
  BY <1>0, <1>3 DEF FinalizeWorker, FinalizeRun, FinalizeRead, FinalizeWrite, FinalizeDone, FailBuild,
                    Reaper, WindowPasses, ReaperScan, ReaperMark, ReaperSelect, ReaperTx, ReaperJobs
<1>4. CASE Faults
  <2>1. CASE ExtractFaults
    <3>1. extract'.pc = "idle"
      BY <2>1 DEF ExtractFaults
    <3> QED  BY <3>1
  <2> QED  BY <1>0, <1>4, <2>1, Zenon
           DEF Faults, ConfirmFails, RebuildEnqueueFails, WebFaults, FinalizeFaults, FailedHandlerFaults,
               ReaperFaults, CaptureFaults, CapturePersistFails, DiffFaults
<1>5. ASSUME NEW h \in Holders, NEW r \in Rows, RowWorker(h, r) PROVE FALSE
  BY <1>0, <1>5 DEF RowWorker, ErrorRead, MarkErrored, CreateDiff, EnqueueDiff
<1>6. ASSUME NEW j \in Groups, CaptureWorker(j) PROVE FALSE
  BY <1>0, <1>6 DEF CaptureWorker, CaptureRun, CaptureDone, CaptureCheck, CaptureMark, CaptureShoot,
                    CaptureStore, CaptureFailed
<1>7. ASSUME NEW d \in DiffIds, DiffWorker(d) PROVE FALSE
  BY <1>0, <1>7 DEF DiffWorker, DiffRun, DiffWrite, DiffCheck, DiffFailed
<1>8. ~UNCHANGED vars
  BY <1>0 DEF vars
<1> QED  BY <1>1, <1>2, <1>3, <1>4, <1>5, <1>6, <1>7, <1>8 DEF Next

LEMMA NotYetStep ==
  ASSUME FinalizeInv, Active, SuccessIsDone, NotYet, [Next]_vars
  PROVE  NotYet'
<1> SUFFICES ASSUME Once', Inserting', Succeeds' PROVE FALSE
  BY DEF NotYet
<1>1. TypeInv /\ RowsHere /\ RunsBegan /\ CanceledMeans /\ Early /\ Final
  BY DEF FinalizeInv
<1>2. Once /\ count.runs \in Nat /\ count'.runs \in Nat
  BY <1>1, CountsGrow
<1>3. CASE Succeeds
  <2>1. ~Inserting /\ count.runs >= 1
    BY <1>2, <1>3, SucceedsDone DEF NotYet
  <2>2. count'.runs = count.runs + 1
    <3>1. ExtractCreate
      BY <1>1, <2>1, InsertingFrom
    <3> QED  BY <1>1, <3>1 DEF ExtractCreate, TypeInv, TypeOK, CountOK
  <2> QED  BY <1>2, <2>1, <2>2 DEF Once
<1>4. CASE ~Succeeds
  <2>1. FinalizeRead /\ build # "canceled" /\ ~HasProcessingError
    BY <1>1, <1>4, SucceedsFrom
  <2>2. Inserting /\ finalizer.pc = "read" /\ EarlyFacts
    BY <1>1, <1>2, <2>1 DEF FinalizeRead, Inserting, Early
  <2>3. AllDone
    BY <1>1, <1>2, <2>1, <2>2 DEF Final, Hopeless, HasProcessingError
  <2>4. PICK s \in Rows : s \in Captured
    BY <2>2 DEF EarlyFacts, Active, Captured
  <2>5. diff[s] \notin {"none", "pending", "success", "canceled", "error"}
    BY <1>1, <2>1, <2>2, <2>3, <2>4 DEF EarlyFacts, CanceledMeans, HasProcessingError, AllDone, Pending
  <2> QED  BY <1>1, <2>5 DEF TypeInv, TypeOK, DbOK, DiffStatus
<1> QED  BY <1>3, <1>4

\* A comparison that has a job or a handler is that of the row's only diff.
LEMMA OnlyFirst ==
  ASSUME TypeInv, DiffInv, Once, NEW d \in DiffIds, djob[d].st # "none" \/ dpc[d] # "idle" \/ DiffExists(d)
  PROVE  d = First(d[1])
<1>1. d[1] \in Rows /\ d[2] \in Nat /\ d[2] >= 1 /\ d = <<d[1], d[2]>>
  BY BoundsAssumption DEF DiffIds, Gens
<1>2. gen[d[1]] \in Nat /\ gen[d[1]] <= 1
  BY <1>1, BoundsAssumption DEF TypeInv, TypeOK, DbOK, GenBounded, Once
<1>3. gen[d[1]] >= d[2]
  BY <1>1, <1>2 DEF DiffInv, NoJobAhead, DiffExists
<1> QED  BY <1>1, <1>2, <1>3 DEF First

\* While the first extraction's job is kept, a removal of jobs met it active: the extraction
\* was inserting rows, and the build neither was a success nor had a diff that was one.
LEMMA JobsStay ==
  ASSUME FinalizeInv, Active, FirstRun, [Next]_vars, Once', Kept', NEW d \in DiffIds, count.runs # 0,
         djob[d].st # "none", ~Inserting \/ \E s \in Rows : diff[s] = "success"
  PROVE  \/ djob'[d] = djob[d]
         \/ DiffRun(d) \/ DiffCheck(d) \/ DiffFaults(d)
<1> SUFFICES ASSUME djob'[d] # djob[d], ~DiffRun(d), ~DiffCheck(d), ~DiffFaults(d)
             PROVE  FALSE
  OBVIOUS
<1>1. TypeInv /\ RunsBegan /\ Early /\ Once
  BY CountsGrow DEF FinalizeInv
<1>2. JobFrom(d)
  BY <1>1, DiffJobsFrom
<1>3. xjob' = RemoveJob(xjob)
  BY <1>2 DEF JobFrom, AddJob
<1>4. xjob.st = "active" /\ xjob' = xjob
  BY <1>3 DEF RemoveJob, Kept, NoJob
<1>5. count.confirms <= 1
  BY <1>1, ConfirmsGrow DEF Kept, TypeInv, TypeOK, CountOK
<1>6. extract.pc \notin {"idle", "create"}
  BY <1>4, <1>5 DEF Active, FirstRun, Kept
<1>7. Inserting
  BY <1>1, <1>6 DEF Inserting, TypeInv, TypeOK, HandlersOK
<1> QED  BY <1>1, <1>7 DEF Early, EarlyFacts

LEMMA PassedOnceStep ==
  ASSUME FinalizeInv, Active, FirstRun, PassedOnce, [Next]_vars
  PROVE  PassedOnce'
<1> SUFFICES ASSUME Once', Kept', NEW s \in Rows, diff'[s] = "success"
             PROVE  PassedFacts(s)'
  BY DEF PassedOnce
<1> DEFINE f == First(s)
<1>1. TypeInv /\ RowsHere /\ RunsBegan /\ DiffInv /\ Once /\ f \in DiffIds
  BY CountsGrow, BoundsAssumption DEF FinalizeInv, First, DiffIds, Gens
<1>2. Kept /\ count.runs # 0
  BY <1>1, SettledBefore, KeptBefore
<1>3. djob[f] \in Job /\ djob[f].tries \in Nat /\ djob[f].stalls \in Nat
  BY <1>1, AttemptsAssumption, MaxStalledAssumption DEF TypeInv, TypeOK, JobsOK, Job
<1> HIDE DEF f
<1>4. CASE diff[s] = "success"
  <2>1. /\ djob[f].st # "none"
        /\ dpc[f] = "failed" => djob[f].st = "failed"
        /\ djob[f].tries + djob[f].stalls > 0 \/ (djob[f].st # "waiting" /\ dpc[f] \notin {"pass", "fail"})
    BY <1>1, <1>2, <1>4 DEF PassedOnce, PassedFacts, f
  <2>2. CASE DiffRun(f)
    <3>1. djob[f].st = "waiting" /\ djob[f].tries + djob[f].stalls > 0
      BY <1>1, <2>1, <2>2, DiffRunJob
    <3>2. /\ djob'[f].st # "none" /\ (dpc'[f] = "failed" => djob'[f].st = "failed")
          /\ djob'[f].tries + djob'[f].stalls > 0
      BY <1>1, <1>3, <2>2, <3>1, DiffRunJob, JobStates
    <3> QED  BY <3>2 DEF PassedFacts, f
  <2>3. CASE DiffCheck(f) \/ DiffFaults(f)
    <3>1. /\ djob'[f].st # "none" /\ (dpc'[f] = "failed" => djob'[f].st = "failed")
          /\ dpc'[f] \notin {"pass", "fail"}
      BY <1>1, <1>3, <2>1, <2>3, DiffEndJob, JobStates
    <3>2. djob'[f].tries + djob'[f].stalls > 0 \/ djob'[f].st # "waiting"
      BY <1>1, <1>3, <2>1, <2>3, DiffEndJob, JobStates
    <3> QED  BY <3>1, <3>2 DEF PassedFacts, f
  <2>4. CASE ~DiffRun(f) /\ ~DiffCheck(f) /\ ~DiffFaults(f)
    <3>1. djob'[f] = djob[f]
      BY <1>1, <1>2, <1>4, <2>1, <2>4, JobsStay
    <3>2. dpc'[f] = dpc[f] \/ dpc'[f] \in {"idle", "check"}
      <4>1. CASE dpc'[f] # dpc[f]
        <5>1. dpc'[f] = "idle" \/ DiffWrite(f) \/ DiffFailed(f)
          BY <1>1, <2>4, <4>1, ComparisonsFrom DEF DiffWorker
        <5> QED  BY <1>1, <5>1 DEF DiffWrite, DiffFailed, TypeInv, TypeOK, HandlersOK
      <4> QED  BY <4>1
    <3> QED  BY <2>1, <3>1, <3>2 DEF PassedFacts, f
  <2> QED  BY <2>2, <2>3, <2>4
<1>5. CASE diff[s] # "success"
  <2>1. DiffFrom(s)
    BY <1>1, <1>5, DiffsFrom
  <2>2. PICK d \in DiffIds : d[1] = s /\ DiffExists(d) /\ (DiffWrite(d) \/ DiffFailed(d))
    BY <1>5, <2>1 DEF DiffFrom
  <2>3. d = f
    BY <1>1, <2>2, OnlyFirst DEF f
  <2>4. DiffWrite(f) /\ dpc[f] = "pass" /\ dpc'[f] = "check" /\ djob' = djob
    BY <1>1, <2>2, <2>3 DEF DiffWrite, DiffFailed, TypeInv, TypeOK, DbOK, HandlersOK, jobVars
  <2>5. djob[f].st = "active"
    BY <1>1, <2>4 DEF Active
  <2> QED  BY <2>4, <2>5 DEF PassedFacts, f
<1> QED  BY <1>4, <1>5

\* What the reaper wrote over is remembered.
LEMMA OverGrows ==
  ASSUME TypeInv, [Next]_vars
  PROVE  reaper.over \subseteq reaper'.over
<1> USE DEF TypeInv, TypeOK, WebOK
<1>0. CASE InTransaction
  BY <1>0, NothingShows
<1>1. CASE Reaper
  <2>1. CASE ReaperTx
    BY <2>1 DEF ReaperTx
  <2>2. CASE ReaperScan \/ ReaperJobs
    BY <2>2 DEF ReaperScan, ReaperJobs, ReaperEnded
  <2>3. CASE WindowPasses
    BY <2>3 DEF WindowPasses, webVars
  <2> QED  BY <1>0, <1>1, <2>1, <2>2, <2>3, Zenon DEF Reaper, InTransaction
<1>2. CASE ReaperFaults
  BY <1>2 DEF ReaperFaults, ReaperEnded
<1>3. CASE Web
  BY <1>0, <1>3, Zenon
     DEF Web, InTransaction, ConfirmRead, ConfirmEnqueue, CancelCommit, CancelJobs, RebuildRead, RebuildTx,
         RebuildEnqueue, RebuildFail, RebuildUndo
<1>4. CASE ExtractWorker \/ FinalizeWorker
  BY <1>4, Zenon
     DEF ExtractWorker, ExtractRun, ExtractCreate, ExtractUnreadable, ExtractRecheck, ExtractEnqueue,
         FinalizeWorker, FinalizeRun, FinalizeRead, FinalizeWrite, FinalizeDone, FailBuild, webVars
<1>5. CASE Faults
  BY <1>2, <1>5, Zenon
     DEF Faults, ConfirmFails, RebuildEnqueueFails, WebFaults, ExtractFaults, FinalizeFaults, FailedHandlerFaults,
         CaptureFaults, CapturePersistFails, DiffFaults, webVars
<1>6. ASSUME NEW h \in Holders, NEW r \in Rows, RowWorker(h, r) PROVE reaper' = reaper
  BY <1>6 DEF RowWorker, ErrorRead, MarkErrored, CreateDiff, EnqueueDiff, webVars
<1>7. ASSUME NEW j \in Groups, CaptureWorker(j) PROVE reaper' = reaper
  BY <1>7 DEF CaptureWorker, CaptureRun, CaptureDone, CaptureCheck, CaptureMark, CaptureShoot, CaptureStore,
              CaptureFailed, webVars
<1>8. ASSUME NEW d \in DiffIds, DiffWorker(d) PROVE reaper' = reaper
  BY <1>8 DEF DiffWorker, DiffRun, DiffWrite, DiffCheck, DiffFailed, webVars
<1>9. CASE UNCHANGED vars
  BY <1>9 DEF vars, webVars
<1> QED  BY <1>1, <1>2, <1>3, <1>4, <1>5, <1>6, <1>7, <1>8, <1>9 DEF Next

LEMMA ErrorsShownStep ==
  ASSUME FinalizeInv, Active, SuccessIsDone, LeftAlone, ResultsFit, FirstRun, NotYet, PassedOnce, ErrorsShown,
         [Next]_vars
  PROVE  ErrorsShown'
<1> SUFFICES ASSUME Once', Kept', Succeeds', NEW s \in Rows, diff'[s] = "error"
             PROVE  ComparedAgain(s)' \/ s \in reaper'.over
  BY DEF ErrorsShown
<1> DEFINE f == First(s)
<1>1. TypeInv /\ RowsHere /\ RunsBegan /\ DiffInv /\ Once /\ f \in DiffIds /\ f[1] = s
  BY CountsGrow, BoundsAssumption DEF FinalizeInv, First, DiffIds, Gens
<1>2. Here(s) /\ Kept /\ count.runs # 0
  BY <1>1, SettledBefore, KeptBefore
<1>3. djob[f] \in Job /\ djob[f].tries \in Nat /\ djob[f].stalls \in Nat
  BY <1>1, AttemptsAssumption, MaxStalledAssumption DEF TypeInv, TypeOK, JobsOK, Job
<1>4. Succeeds
  <2>1. ASSUME ~Succeeds PROVE FALSE
    <3>1. FinalizeRead /\ ~HasProcessingError
      BY <1>1, <2>1, SucceedsFrom
    <3> QED  BY <3>1 DEF FinalizeRead, HasProcessingError, dbVars
  <2> QED  BY <2>1
<1>5. ~Inserting /\ Finished(s)
  BY <1>1, <1>2, <1>4, SucceedsDone DEF NotYet, AllDone, Pending, Captured, Here, Finished
<1> HIDE DEF f
<1>6. CASE diff[s] = "error" /\ s \notin reaper.over
  <2>1. PICK d \in DiffIds :
          /\ d[1] = s
          /\ \/ djob[d].st = "failed"
             \/ djob[d].tries + djob[d].stalls > 0 /\ snap[s] = "error" /\ image[s] = "good"
    BY <1>1, <1>2, <1>4, <1>6 DEF ErrorsShown, ComparedAgain
  <2>2. djob[d].st # "none"
    <3>1. djob[d].st = "none" => djob[d].tries + djob[d].stalls = 0
      BY <1>1 DEF Active, NoJob
    <3> QED  BY <2>1, <3>1
  <2>3. d = f
    BY <1>1, <2>1, <2>2, OnlyFirst DEF f
  <2>4. djob'[f] = djob[f] \/ DiffRun(f) \/ DiffCheck(f) \/ DiffFaults(f)
    BY <1>1, <1>2, <1>5, <2>2, <2>3, JobsStay
  <2>5. image'[s] = image[s] /\ (snap[s] = "error" => snap'[s] = "error")
    BY <1>1, <2>1, <2>2, ComparedKeeps DEF Compared
  <2>6. djob[f].st = "failed" => djob'[f].st = "failed"
    <3>1. djob[f].st = "failed" => ~DiffRun(f) /\ ~DiffFaults(f)
      BY DEF DiffRun, DiffFaults
    <3> QED  BY <1>1, <2>4, <3>1, DiffEndJob
  <2>7. djob[f].tries + djob[f].stalls > 0 => djob'[f].st = "failed" \/ djob'[f].tries + djob'[f].stalls > 0
    <3>1. CASE DiffRun(f)
      BY <1>1, <1>3, <3>1, DiffRunJob, JobStates
    <3>2. CASE DiffCheck(f) \/ DiffFaults(f)
      BY <1>1, <1>3, <3>2, DiffEndJob, JobStates
    <3> QED  BY <2>4, <3>1, <3>2
  <2> QED  BY <1>1, <2>1, <2>3, <2>5, <2>6, <2>7 DEF ComparedAgain
<1>7. CASE diff[s] # "error" /\ s \notin reaper'.over
  <2>1. DiffFrom(s)
    BY <1>1, <1>7, DiffsFrom
  <2>2. PICK d \in DiffIds : d[1] = s /\ DiffExists(d) /\ (DiffWrite(d) \/ DiffFailed(d))
    BY <1>5, <1>7, <2>1 DEF DiffFrom, Finished
  <2>3. d = f
    BY <1>1, <2>2, OnlyFirst DEF f
  <2>4. /\ UNCHANGED <<djob, snap, image>>
        /\ DiffWrite(f) \/ DiffFailed(f)
    BY <2>2, <2>3 DEF DiffWrite, DiffFailed, jobVars
  <2>5. diff[s] # "canceled" /\ dpc[f] \in {"fail", "failed"}
    BY <1>1, <1>7, <2>4 DEF DiffWrite, DiffFailed, TypeInv, TypeOK, DbOK, HandlersOK
  <2>6. diff[s] = "success"
    BY <1>1, <1>5, <1>7, <2>5 DEF Finished, TypeInv, TypeOK, DbOK, DiffStatus
  <2>7. /\ dpc[f] = "failed" => djob[f].st = "failed"
        /\ dpc[f] = "fail" => djob[f].tries + djob[f].stalls > 0
    BY <1>1, <1>2, <2>6 DEF PassedOnce, PassedFacts, f
  <2>8. dpc[f] = "fail" => snap[s] = "error" /\ image[s] = "good"
    BY <1>1, <2>6 DEF ResultsFit
  <2>9. djob[f].st = "failed" \/ (djob[f].tries + djob[f].stalls > 0 /\ snap[s] = "error" /\ image[s] = "good")
    BY <2>5, <2>7, <2>8
  <2> QED  BY <1>1, <2>4, <2>9 DEF ComparedAgain
<1> QED  BY <1>1, <1>6, <1>7, OverGrows

HideInv ==
  /\ GroupRows /\ ExtractorReports /\ Active /\ SuccessIsDone /\ StoredFirst /\ LeftAlone
  /\ ResultsFit /\ FirstRun /\ NotYet /\ PassedOnce /\ ErrorsShown

LEMMA HideInit == Init => HideInv
<1> SUFFICES ASSUME Init PROVE HideInv
  OBVIOUS
<1>1. GroupRows /\ ExtractorReports /\ FirstRun /\ NotYet
  BY HolderSets DEF Init, GroupRows, ExtractorReports, FirstRun, NotYet, Inserting, NoJob
<1>2. Active /\ SuccessIsDone /\ ~Kept /\ ~Succeeds
  BY DEF Init, Active, SuccessIsDone, Kept, Succeeds, NoJob
<1>3. StoredFirst
  BY DEF Init, StoredFirst, Reported
<1>4. LeftAlone /\ ResultsFit
  BY RowSets DEF Init, LeftAlone, Compared, ResultsFit, NoJob
<1> QED  BY <1>1, <1>2, <1>3, <1>4 DEF HideInv, PassedOnce, ErrorsShown

LEMMA HideInvStep ==
  ASSUME FinalizeInv, HideInv, [Next]_vars
  PROVE  HideInv'
<1>1. /\ GroupRows /\ ExtractorReports /\ Active /\ SuccessIsDone /\ StoredFirst /\ LeftAlone
      /\ ResultsFit /\ FirstRun /\ NotYet /\ PassedOnce /\ ErrorsShown
  BY DEF HideInv
<1>2. TypeInv /\ RunsBegan
  BY DEF FinalizeInv
<1>3. GroupRows' /\ ExtractorReports'
  BY <1>1, <1>2, GroupRowsStep, ExtractorReportsStep
<1>4. Active' /\ SuccessIsDone' /\ FirstRun'
  BY <1>1, <1>2, ActiveStep, SuccessIsDoneStep, FirstRunStep
<1>5. StoredFirst' /\ LeftAlone' /\ ResultsFit'
  BY <1>1, StoredFirstStep, LeftAloneStep, ResultsFitStep
<1>6. NotYet' /\ PassedOnce' /\ ErrorsShown'
  BY <1>1, NotYetStep, PassedOnceStep, ErrorsShownStep
<1> QED  BY <1>3, <1>4, <1>5, <1>6 DEF HideInv

\* A build that was extracted once, not rebuilt, and ended as a success hides no failure:
\* whatever faults, cancellations, late captures, comparisons and reapings there were, its
\* snapshots have finished diffs, and with its jobs kept, a diff in error became it when its
\* comparison ran again, or by a reaper that had found it pending and wrote over its result.
THEOREM SuccessesHideNothing == Spec => []SuccessHidesNothing
<1>1. Init => FinalizeInv /\ HideInv
  BY FinalizeInit, HideInit
<1>2. FinalizeInv /\ HideInv /\ [Next]_vars => (FinalizeInv /\ HideInv)'
  BY FinalizeInvStep, HideInvStep
<1>3. FinalizeInv /\ HideInv => SuccessHidesNothing
  <2> SUFFICES ASSUME FinalizeInv, HideInv, build = "success", Once
               PROVE  /\ Unsettled = {}
                      /\ JobsKept => \A s \in Rows : diff[s] = "error" => ComparedAgain(s) \/ s \in reaper.over
    BY DEF SuccessHidesNothing, Once
  <2>1. Unsettled = {}
    BY DEF HideInv, SuccessIsDone, AllDone, Pending, Captured, Unsettled
  <2>2. ASSUME JobsKept, NEW s \in Rows, diff[s] = "error" PROVE ComparedAgain(s) \/ s \in reaper.over
    <3>1. Kept /\ Succeeds
      BY <2>2 DEF JobsKept, Kept, Succeeds
    <3> QED  BY <2>2, <3>1 DEF HideInv, ErrorsShown
  <2> QED  BY <2>1, <2>2
<1> QED  BY <1>1, <1>2, <1>3, PTL DEF Spec
=============================================================================
