---------------------------- MODULE BuildPipeline ----------------------------
(***************************************************************************)
(* The life of one build, from the confirmation of its upload until it is  *)
(* settled: the rows it has in Postgres, its BullMQ jobs in Redis, the     *)
(* worker handlers that extract, capture, diff and finalize it, the web    *)
(* calls that confirm, cancel and rebuild it, and the reaper.              *)
(*                                                                         *)
(* One action is one database statement, or one call to Redis, together    *)
(* with the decision the code takes from what it read.  What a handler     *)
(* holds between two of them is in its own variable, so every other actor  *)
(* may step in between.                                                    *)
(*                                                                         *)
(* A transaction runs under READ COMMITTED: each of its statements sees    *)
(* what is committed by then, its own writes show at COMMIT alone, and a   *)
(* row it has updated cannot be written by anyone else before that.  Its   *)
(* last statement goes with the COMMIT, and an update that only locks what *)
(* nobody has to see locked goes with the next statement.  A transaction   *)
(* that Postgres rolls back to end a deadlock is one that has not begun.   *)
(*                                                                         *)
(* A story is one target captured at one viewport in one browser.  A       *)
(* retried extract job inserts its snapshots a second time (snapshots has  *)
(* no unique index), so a snapshot row is a story with the run of the      *)
(* extraction that inserted it.                                            *)
(***************************************************************************)
EXTENDS JobQueue, FiniteSets

CONSTANTS
  Stories,            \* the stories of the uploaded Storybook
  Pages,              \* a browser with an allowlist: stories that share one capture page
  PageOf,             \* the page each story is captured on
  MaxPendingUploads,  \* MAX_PENDING_UPLOADS of a capture group
  Faulty,             \* the kinds of work whose runs may throw or lose their process
  Reaping,            \* whether the build may go unchanged for the reaper's stale window
  MaxUnreadable,      \* bound: stories of one extraction that fail to load
  MaxRuns, MaxConfirms, MaxCancels, MaxRebuilds, MaxFaults    \* bounds

Kinds == {"extract", "capture", "diff", "finalize", "web", "reaper"}

ASSUME StoriesAssumption == Stories # {} /\ IsFiniteSet(Stories)
ASSUME PageAssumption == PageOf \in [Stories -> Pages]
ASSUME FaultyAssumption == Faulty \subseteq Kinds
ASSUME ReapingAssumption == Reaping \in BOOLEAN
ASSUME BoundsAssumption ==
  /\ MaxPendingUploads \in Nat \ {0} /\ MaxUnreadable \in Nat
  /\ MaxRuns \in Nat \ {0}
  /\ MaxConfirms \in Nat /\ MaxCancels \in Nat
  /\ MaxRebuilds \in Nat /\ MaxFaults \in Nat

Runs == 1..MaxRuns
Rows == Stories \X Runs

\* A diff row is created anew each time its snapshot is requeued.
Gens == 1..(MaxRebuilds + 1)
DiffIds == Rows \X Gens

\* Capture groups have random job ids; here a group is named by the call that
\* queued it (a run of the extraction or a rebuild) and its page.
Batches == 1..(MaxRuns + MaxRebuilds)
Groups == Batches \X Pages

\* The handlers that carry a snapshot row: a capture group, or the extraction
\* while it records a story it could not read.
Extractor == <<0, "extract">>
Holders == Groups \cup {Extractor}

VARIABLES
  build,        \* builds.processingStatus
  snap,         \* snapshots.status by row, "absent" before the row exists
  image,        \* snapshots.imagePath and hasRenderError: no image, a good or a broken one
  diff,         \* diffs.processingStatus by snapshot row, "none" without a diff row
  gen,          \* how many diff rows the snapshot has had: the id of the latest
  fresh,        \* a row of the build changed within the reaper's stale window
  xjob, cjob, djob, fjob,   \* jobs: extract, capture group, diff, finalize
  members,      \* payload of a capture group: its snapshot rows
  extract,      \* the extract handler
  step,         \* what a holder is about to do with a row
  held,         \* the diff id a holder is about to queue
  dpc,          \* the diff handlers
  finalizer,    \* the finalize handler
  failing,      \* failed handlers of the extract and finalize queues
  confirm, canceler, rebuilder, reaper,     \* web calls and the reaper in progress
  count         \* how often each bounded action happened

dbVars == <<build, snap, image, diff, gen, fresh>>
jobVars == <<xjob, cjob, djob, fjob, members>>
captureVars == <<step, held>>
webVars == <<confirm, canceler, rebuilder, reaper>>
vars == <<dbVars, jobVars, extract, captureVars, dpc, finalizer, failing, webVars, count>>

InProgress == {"queued", "processing"}
BuildStatus == InProgress \cup {"success", "error", "canceled"}
Unfinished == {"queued", "processing"}
SnapStatus == Unfinished \cup {"absent", "success", "error", "canceled", "skipped"}
DiffStatus == {"none", "pending", "success", "error", "canceled"}

\* What the page of a group, the extraction or a failed handler does with one row at a time...
OnPage == {"mark", "start", "shoot", "err", "errmark", "errdiff", "errenq"}
\* ... and what the uploads of a group do side by side.
Uploading == {"store", "uperr", "upmark", "diff", "enq"}
StepKind == {"no", "todo", "abort", "fail"} \cup OnPage \cup Uploading

DbOK ==
  /\ build \in BuildStatus
  /\ snap \in [Rows -> SnapStatus]
  /\ image \in [Rows -> {"none", "good", "broken"}]
  /\ diff \in [Rows -> DiffStatus]
  /\ gen \in [Rows -> 0..(MaxRebuilds + 1)]
  /\ fresh \in BOOLEAN

JobsOK ==
  /\ xjob \in Job /\ fjob \in Job
  /\ cjob \in [Groups -> Job]
  /\ djob \in [DiffIds -> Job]
  /\ members \in [Groups -> SUBSET Rows]

CaptureOK ==
  /\ step \in [Holders -> [Rows -> StepKind]]
  /\ held \in [Holders -> [Rows -> 0..(MaxRebuilds + 1)]]

HandlersOK ==
  /\ extract \in [pc : {"idle", "create", "unreadable", "enqueue"},
                  bad : SUBSET Rows, queued : SUBSET Rows, allSkipped : BOOLEAN]
  /\ dpc \in [DiffIds -> {"idle", "pass", "fail", "check", "failed"}]
  /\ finalizer \in [pc : {"idle", "read", "write", "end"}, verdict : {"success", "error"}]
  /\ failing \subseteq {"extract", "finalize"}

WebOK ==
  /\ confirm \in {"idle", "enqueue"}
  /\ canceler \in [pc : {"idle", "select", "commit", "jobs"},
                   rows : SUBSET Rows, ids : SUBSET DiffIds, missed : SUBSET Rows]
  /\ rebuilder \in [pc : {"idle", "tx", "enqueue", "mark", "fail", "undo"},
                    rows : SUBSET Rows, settled : BOOLEAN, left : SUBSET Rows,
                    bare : SUBSET Rows, failed : SUBSET Rows, kept : SUBSET Rows]
  /\ reaper \in [pc : {"idle", "tx", "select", "commit", "jobs"},
                 rows : SUBSET Rows, ids : SUBSET DiffIds, over : SUBSET Rows]

CountOK ==
  count \in [runs : 0..MaxRuns, confirms : 0..MaxConfirms, cancels : 0..MaxCancels,
            rebuilds : 0..MaxRebuilds, faults : 0..MaxFaults]

TypeOK == DbOK /\ JobsOK /\ CaptureOK /\ HandlersOK /\ WebOK /\ CountOK

Init ==
  /\ build = "queued"
  /\ snap = [s \in Rows |-> "absent"]
  /\ image = [s \in Rows |-> "none"]
  /\ diff = [s \in Rows |-> "none"]
  /\ gen = [s \in Rows |-> 0]
  /\ fresh = TRUE
  /\ xjob = NoJob /\ fjob = NoJob
  /\ cjob = [j \in Groups |-> NoJob]
  /\ djob = [d \in DiffIds |-> NoJob]
  /\ members = [j \in Groups |-> {}]
  /\ extract = [pc |-> "idle", bad |-> {}, queued |-> {}, allSkipped |-> FALSE]
  /\ step = [h \in Holders |-> [s \in Rows |-> "no"]]
  /\ held = [h \in Holders |-> [s \in Rows |-> 0]]
  /\ dpc = [d \in DiffIds |-> "idle"]
  /\ finalizer = [pc |-> "idle", verdict |-> "success"]
  /\ failing = {}
  /\ confirm = "idle"
  /\ canceler = [pc |-> "idle", rows |-> {}, ids |-> {}, missed |-> {}]
  /\ rebuilder = [pc |-> "idle", rows |-> {}, settled |-> FALSE, left |-> {}, bare |-> {},
                  failed |-> {}, kept |-> {}]
  /\ reaper = [pc |-> "idle", rows |-> {}, ids |-> {}, over |-> {}]
  /\ count = [runs |-> 0, confirms |-> 0, cancels |-> 0, rebuilds |-> 0, faults |-> 0]

-----------------------------------------------------------------------------
(* What the repository's queries compute. *)

\* isTerminalBuild
Terminal(b) == b \in {"error", "canceled"}

\* Mutant: the filter on skipped snapshots is lost.
CapturedWithSkipped == {s \in Rows : snap[s] # "absent"}

\* capturedSnapshotsOf: the build's snapshot rows that are not skipped
Captured == {s \in Rows : snap[s] \notin {"absent", "skipped"}}

\* Mutant: an inner join, which loses the captured snapshots without a diff row.
PendingByInnerJoin == {s \in Captured : diff[s] = "pending"}

\* pendingSnapshotsOf: captured snapshots still waiting on a capture or a diff
Pending == {s \in Captured : diff[s] \in {"none", "pending"}}

\* hasPendingForBuild
HasPendingForBuild == Pending # {}

\* hasAllDoneForBuild
HasAllDoneForBuild == Captured # {} /\ Pending = {}

\* findPendingIds
PendingDiffIds == {d \in DiffIds : diff[d[1]] = "pending" /\ gen[d[1]] = d[2]}

\* Mutant: the diff row is looked up by its snapshot, not by its id.
DiffExistsForSnapshot(d) == diff[d[1]] # "none"

\* The diff row with this id still exists: no requeue has removed it.
DiffExists(d) == diff[d[1]] # "none" /\ gen[d[1]] = d[2]

\* Mutant: the guard on canceled builds is lost.
BuildEvenIfCanceled(status) == status

\* updateProcessingStatus and updateResult of a build, which leave a canceled one alone
BuildUnlessCanceled(status) == IF build = "canceled" THEN build ELSE status

\* Mutant: only the snapshots being captured are closed.
ProcessingRows == {s \in Rows : snap[s] = "processing"}

\* The rows that snapshots.markUnfinishedAs closes, ...
UnfinishedRows == {s \in Rows : snap[s] \in Unfinished}

\* ... and what it makes of them.
SnapsMarked(rows, status) == [s \in Rows |-> IF s \in rows THEN status ELSE snap[s]]

\* diffs.markPendingAs has found these ids pending, and updates them by their id.
DiffsMarked(ids, status) ==
  [s \in Rows |-> IF diff[s] # "none" /\ <<s, gen[s]>> \in ids THEN status ELSE diff[s]]

\* The snapshot rows an open transaction has updated: other updates of them wait.
LockedRows == canceler.rows \cup reaper.rows \cup rebuilder.failed

\* Only the cancellation goes on after its update of the build.
BuildLocked == canceler.pc \in {"select", "commit"}

\* enqueueFinalize: the job id is the build id, so a finalize job that exists absorbs it
FinalizeQueued == AddJob(fjob)

\* checkAllDoneAndFinalize
FinalizeQueuedIfAllDone == IF HasAllDoneForBuild THEN FinalizeQueued ELSE fjob

\* toCaptureGroups and enqueueCaptureGroups: one group per page among the rows
GroupMembers(n, rows) ==
  [j \in Groups |-> IF j[1] = n THEN {s \in rows : PageOf[s[1]] = j[2]} ELSE members[j]]

GroupsQueued(n, rows) ==
  [j \in Groups |-> IF j[1] = n /\ \E s \in rows : PageOf[s[1]] = j[2]
                    THEN AddJob(cjob[j]) ELSE cjob[j]]

\* cancelBuildJobs: drops what no worker runs
CancelBuildJobs(ids) ==
  /\ xjob' = RemoveJob(xjob)
  /\ fjob' = RemoveJob(fjob)
  /\ djob' = [d \in DiffIds |-> IF d \in ids THEN RemoveJob(djob[d]) ELSE djob[d]]
  /\ cjob' = [j \in Groups |-> RemoveWaitingJob(cjob[j])]

\* findBuildsWithLiveJobs: diff jobs are looked up by the ids of the pending diffs alone
HasLiveJobs ==
  \/ IsLiveJob(xjob) \/ IsLiveJob(fjob)
  \/ \E j \in Groups : IsLiveJob(cjob[j])
  \/ \E d \in PendingDiffIds : IsLiveJob(djob[d])

\* A fault of this kind of work may happen now.
MayFault(kind) == kind \in Faulty /\ count.faults < MaxFaults
Faulted == count' = [count EXCEPT !.faults = @ + 1]

NoSteps == [s \in Rows |-> "no"]
NoneHeld == [s \in Rows |-> 0]

-----------------------------------------------------------------------------
(* apps/web: confirmBuildUpload *)

\* Reads the build; a canceled or failed build is refused.
ConfirmRead ==
  /\ confirm = "idle" /\ count.confirms < MaxConfirms
  /\ ~Terminal(build)
  /\ confirm' = "enqueue"
  /\ count' = [count EXCEPT !.confirms = @ + 1]
  /\ UNCHANGED <<dbVars, jobVars, extract, captureVars, dpc, finalizer, failing,
                 canceler, rebuilder, reaper>>

\* enqueueExtract: the job id is the build id, so a confirmation sent twice queues it once.
ConfirmEnqueue ==
  /\ confirm = "enqueue"
  /\ xjob' = AddJob(xjob)
  /\ confirm' = "idle"
  /\ UNCHANGED <<dbVars, cjob, djob, fjob, members, extract, captureVars, dpc, finalizer,
                 failing, canceler, rebuilder, reaper, count>>

\* Redis does not answer, whether or not it has taken the job: failBuild, whatever the
\* build has become since the read.
ConfirmFails ==
  /\ confirm = "enqueue" /\ MayFault("web") /\ ~BuildLocked
  /\ xjob' \in {xjob, AddJob(xjob)}
  /\ build' = BuildUnlessCanceled("error")
  /\ confirm' = "idle" /\ Faulted
  /\ UNCHANGED <<snap, image, diff, gen, fresh, cjob, djob, fjob, members, extract,
                 captureVars, dpc, finalizer, failing, canceler, rebuilder, reaper>>

-----------------------------------------------------------------------------
(* apps/worker: the extract queue *)

\* run: a build that is settled is left alone.
ExtractRun ==
  /\ xjob.st = "waiting" /\ extract.pc = "idle"
  /\ IF build \in InProgress
     THEN xjob' = StartJob(xjob) /\ extract' = [extract EXCEPT !.pc = "create"]
     ELSE xjob' = CompleteJob(xjob) /\ UNCHANGED extract
  /\ UNCHANGED <<dbVars, cjob, djob, fjob, members, captureVars, dpc, finalizer, failing,
                 webVars, count>>

\* Reads the bundle and inserts this run's snapshots: queued, or skipped when the story
\* opts out or is unaffected and keeps its baseline.  Stories that failed to load come next.
ExtractCreate ==
  /\ extract.pc = "create" /\ count.runs < MaxRuns
  /\ LET new == Stories \X {count.runs + 1}
     IN \E skipped \in SUBSET new : \E bad \in SUBSET (new \ skipped) :
          /\ Cardinality(bad) <= MaxUnreadable
          /\ snap' = [s \in Rows |-> IF s \in skipped THEN "skipped"
                                     ELSE IF s \in new \ bad THEN "queued" ELSE snap[s]]
          /\ extract' = [extract EXCEPT !.pc = "unreadable", !.bad = bad]
  /\ fresh' = TRUE
  /\ count' = [count EXCEPT !.runs = @ + 1]
  /\ UNCHANGED <<build, image, diff, gen, jobVars, captureVars, dpc, finalizer, failing,
                 webVars>>

\* failUnreadableTargets inserts a queued row for one story and marks it errored, which
\* creates and queues its diff, before it goes on to the next.
ExtractUnreadable(s) ==
  /\ extract.pc = "unreadable" /\ s \in extract.bad
  /\ step[Extractor] = NoSteps
  /\ snap' = [snap EXCEPT ![s] = "queued"]
  /\ step' = [step EXCEPT ![Extractor][s] = "err"]
  /\ extract' = [extract EXCEPT !.bad = @ \ {s}]
  /\ fresh' = TRUE
  /\ UNCHANGED <<build, image, diff, gen, jobVars, held, dpc, finalizer, failing,
                 webVars, count>>

\* The build is read again: one canceled meanwhile has its new rows canceled.  Otherwise
\* the rows of the build, whichever run inserted them, decide what to queue.
ExtractRecheck ==
  /\ extract.pc = "unreadable" /\ extract.bad = {}
  /\ step[Extractor] = NoSteps
  /\ IF build = "canceled"
     THEN /\ UnfinishedRows \cap LockedRows = {}
          /\ snap' = SnapsMarked(UnfinishedRows, "canceled")
          /\ extract' = [extract EXCEPT !.pc = "idle"]
          /\ xjob' = CompleteJob(xjob)
          /\ fresh' = TRUE
     ELSE /\ extract' = [extract EXCEPT !.pc = "enqueue",
                                        !.queued = {s \in Rows : snap[s] = "queued"},
                                        !.allSkipped = (Captured = {})]
          /\ UNCHANGED <<snap, xjob, fresh>>
  /\ UNCHANGED <<build, image, diff, gen, cjob, djob, fjob, members, captureVars, dpc,
                 finalizer, failing, webVars, count>>

\* The finalization of a build with nothing to capture, or the capture groups.
ExtractQueues ==
  /\ extract.pc = "enqueue"
  /\ IF extract.allSkipped
     THEN fjob' = FinalizeQueued /\ UNCHANGED <<cjob, members>>
     ELSE /\ cjob' = GroupsQueued(count.runs, extract.queued)
          /\ members' = GroupMembers(count.runs, extract.queued)
          /\ UNCHANGED fjob

\* The last call of extractBuild, after which its job completes.
ExtractEnqueue ==
  /\ ExtractQueues
  /\ xjob' = CompleteJob(xjob)
  /\ extract' = [pc |-> "idle", bad |-> {}, queued |-> {}, allSkipped |-> FALSE]
  /\ UNCHANGED <<dbVars, djob, captureVars, dpc, finalizer, failing, webVars, count>>

\* The handler throws or its process dies before the job completes, maybe after its groups
\* were queued.  The last attempt's failure starts the failed handler; a stalled job just
\* runs again.
ExtractFaults ==
  /\ xjob.st = "active" /\ MayFault("extract") /\ Faulted
  /\ \/ /\ xjob' = ThrowJob(xjob)
        /\ failing' = IF IsFinalAttempt(xjob) THEN failing \cup {"extract"} ELSE failing
     \/ xjob' = StallJob(xjob) /\ UNCHANGED failing
  /\ extract' = [pc |-> "idle", bad |-> {}, queued |-> {}, allSkipped |-> FALSE]
  /\ step' = [step EXCEPT ![Extractor] = NoSteps]
  /\ held' = [held EXCEPT ![Extractor] = NoneHeld]
  /\ ExtractQueues \/ UNCHANGED <<cjob, fjob, members>>
  /\ UNCHANGED <<dbVars, djob, dpc, finalizer, webVars>>

\* extract.failed and finalize.failed: failBuild
FailBuild(kind) ==
  /\ kind \in failing /\ ~BuildLocked
  /\ build' = BuildUnlessCanceled("error")
  /\ failing' = failing \ {kind}
  /\ UNCHANGED <<snap, image, diff, gen, fresh, jobVars, extract, captureVars, dpc,
                 finalizer, webVars, count>>

-----------------------------------------------------------------------------
(* apps/worker: the capture queue *)

\* captureBuildGroup: a build that is terminal is skipped.
CaptureRun(j) ==
  /\ cjob[j].st = "waiting"
  /\ IF Terminal(build)
     THEN cjob' = [cjob EXCEPT ![j] = CompleteJob(@)] /\ UNCHANGED step
     ELSE /\ cjob' = [cjob EXCEPT ![j] = StartJob(@)]
          /\ step' = [step EXCEPT ![j] = [s \in Rows |-> IF s \in members[j] THEN "todo" ELSE "no"]]
  /\ UNCHANGED <<dbVars, xjob, djob, fjob, members, extract, held, dpc, finalizer, failing,
                 webVars, count>>

\* The holder has no row half done, its uploads aside.
PageFree(h) == \A s \in Rows : step[h][s] \notin OnPage

\* createUploadQueue: a captured snapshot waits for a free slot.
UploadFree(j) == Cardinality({s \in members[j] : step[j][s] \in Uploading}) < MaxPendingUploads

\* captureSnapshotOnPage reads the snapshot and its build: a snapshot that is done, or a
\* build that is terminal, is skipped.
CaptureCheck(j, s) ==
  /\ step[j][s] = "todo" /\ PageFree(j)
  /\ LET next == IF snap[s] \in {"success", "canceled", "error"} \/ Terminal(build) THEN "no"
                 ELSE IF build = "queued" THEN "start" ELSE "mark"
     IN step' = [step EXCEPT ![j][s] = next]
  /\ UNCHANGED <<dbVars, jobVars, extract, held, dpc, finalizer, failing, webVars, count>>

\* updateStatus, and startProcessing by the call that saw the build queued.
CaptureMark(j, s) ==
  /\ step[j][s] \in {"mark", "start"} /\ s \notin LockedRows
  /\ step[j][s] = "start" => ~BuildLocked
  /\ snap' = [snap EXCEPT ![s] = IF @ = "canceled" THEN @ ELSE "processing"]
  /\ build' = IF step[j][s] = "start" /\ build = "queued" THEN "processing" ELSE build
  /\ step' = [step EXCEPT ![j][s] = "shoot"]
  /\ fresh' = TRUE
  /\ UNCHANGED <<image, diff, gen, jobVars, extract, held, dpc, finalizer, failing,
                 webVars, count>>

\* The page is rendered and screenshot, and the upload added; or that fails for good (an
\* error, or a second timeout); or the browser is lost as well and does not come back,
\* which fails the rest of the group unread.
CaptureShoot(j, s) ==
  /\ step[j][s] = "shoot"
  /\ \/ UploadFree(j) /\ step' = [step EXCEPT ![j][s] = "store"]
     \/ step' = [step EXCEPT ![j][s] = "err"]
     \/ step' = [step EXCEPT ![j] = [r \in Rows |->
                    IF r = s \/ step[j][r] = "todo" THEN "abort" ELSE step[j][r]]]
  /\ UNCHANGED <<dbVars, jobVars, extract, held, dpc, finalizer, failing, webVars, count>>

\* persistCapturedSnapshot: the capture result is stored unless the snapshot was canceled,
\* and only a stored one gets a diff.
CaptureStore(j, s) ==
  /\ step[j][s] = "store" /\ s \notin LockedRows
  /\ IF snap[s] = "canceled"
     THEN /\ step' = [step EXCEPT ![j][s] = "no"]
          /\ UNCHANGED <<snap, image, fresh>>
     ELSE /\ snap' = [snap EXCEPT ![s] = "success"]
          /\ \E kind \in {"good", "broken"} : image' = [image EXCEPT ![s] = kind]
          /\ step' = [step EXCEPT ![j][s] = "diff"]
          /\ fresh' = TRUE
  /\ UNCHANGED <<build, diff, gen, jobVars, extract, held, dpc, finalizer, failing, webVars,
                 count>>

\* markSnapshotErrored reads the snapshot: nothing is left to do for a canceled one.
ErrorRead(h, s) ==
  /\ step[h][s] \in {"err", "uperr"} \/ (step[h][s] = "abort" /\ PageFree(h))
  /\ step' = [step EXCEPT ![h][s] = IF snap[s] = "canceled" THEN "no"
                                    ELSE IF @ = "uperr" THEN "upmark" ELSE "errmark"]
  /\ UNCHANGED <<dbVars, jobVars, extract, held, dpc, finalizer, failing, webVars, count>>

\* snapshots.markErrored spares a snapshot canceled since; its diff is created all the same.
MarkErrored(h, s) ==
  /\ step[h][s] \in {"errmark", "upmark"} /\ s \notin LockedRows
  /\ snap' = [snap EXCEPT ![s] = IF @ = "canceled" THEN @ ELSE "error"]
  /\ step' = [step EXCEPT ![h][s] = IF @ = "upmark" THEN "diff" ELSE "errdiff"]
  /\ fresh' = TRUE
  /\ UNCHANGED <<build, image, diff, gen, jobVars, extract, held, dpc, finalizer,
                 failing, webVars, count>>

\* Mutant: a diff that is settled does not keep a second one from being inserted.
NeedsDiffUnlessPending(s) == diff[s] # "pending"

\* diffs.createMany inserts nothing for a snapshot that has a diff row.
NeedsDiff(s) == diff[s] = "none"

\* enqueueSnapshotDiff, first call: the diff row is inserted unless the snapshot has one.
\* Only a pending diff is queued.
CreateDiff(h, s) ==
  /\ step[h][s] \in {"diff", "errdiff"}
  /\ LET enq == IF step[h][s] = "diff" THEN "enq" ELSE "errenq"
     IN IF NeedsDiff(s)
        THEN /\ diff' = [diff EXCEPT ![s] = "pending"]
             /\ gen' = [gen EXCEPT ![s] = @ + 1]
             /\ step' = [step EXCEPT ![h][s] = enq]
             /\ held' = [held EXCEPT ![h][s] = gen[s] + 1]
             /\ fresh' = TRUE
        ELSE /\ IF diff[s] = "pending"
                THEN /\ step' = [step EXCEPT ![h][s] = enq]
                     /\ held' = [held EXCEPT ![h][s] = gen[s]]
                ELSE step' = [step EXCEPT ![h][s] = "no"] /\ UNCHANGED held
             /\ UNCHANGED <<diff, gen, fresh>>
  /\ UNCHANGED <<build, snap, image, jobVars, extract, dpc, finalizer, failing, webVars,
                 count>>

\* enqueueSnapshotDiff, second call: the job id is the diff id.
EnqueueDiff(h, s) ==
  /\ step[h][s] \in {"enq", "errenq"}
  /\ djob' = [djob EXCEPT ![<<s, held[h][s]>>] = AddJob(@)]
  /\ step' = [step EXCEPT ![h][s] = "no"]
  /\ held' = [held EXCEPT ![h][s] = 0]
  /\ UNCHANGED <<dbVars, xjob, cjob, fjob, members, extract, dpc, finalizer, failing, webVars,
                 count>>

\* Every upload has drained: the job completes.
CaptureDone(j) ==
  /\ cjob[j].st = "active" /\ step[j] = NoSteps
  /\ cjob' = [cjob EXCEPT ![j] = CompleteJob(@)]
  /\ UNCHANGED <<dbVars, xjob, djob, fjob, members, extract, captureVars, dpc, finalizer,
                 failing, webVars, count>>

\* persistCapturedSnapshot catches a failed upload, or a diff that could not be created or
\* queued (Redis may have taken its job), and marks the snapshot errored although it may have
\* been stored.
CapturePersistFails(j, s) ==
  /\ cjob[j].st = "active" /\ MayFault("capture") /\ Faulted
  /\ step[j][s] = "store" \/ (step[j][s] \in {"diff", "enq"} /\ snap[s] = "success")
  /\ step' = [step EXCEPT ![j][s] = "uperr"]
  /\ held' = [held EXCEPT ![j][s] = 0]
  /\ \/ UNCHANGED djob
     \/ step[j][s] = "enq" /\ djob' = [djob EXCEPT ![<<s, held[j][s]>>] = AddJob(@)]
  /\ UNCHANGED <<dbVars, xjob, cjob, fjob, members, extract, dpc, finalizer, failing, webVars>>

\* The group throws (its time is up, the browser does not launch, the worker shuts down)
\* or its process dies.  The last attempt's failure starts capture.failed.
CaptureFaults(j) ==
  /\ cjob[j].st = "active" /\ MayFault("capture") /\ Faulted
  /\ \/ /\ cjob' = [cjob EXCEPT ![j] = ThrowJob(@)]
        /\ step' = [step EXCEPT ![j] =
             [s \in Rows |-> IF IsFinalAttempt(cjob[j]) /\ s \in members[j] THEN "fail" ELSE "no"]]
     \/ /\ cjob' = [cjob EXCEPT ![j] = StallJob(@)]
        /\ step' = [step EXCEPT ![j] = NoSteps]
  /\ held' = [held EXCEPT ![j] = NoneHeld]
  /\ UNCHANGED <<dbVars, xjob, djob, fjob, members, extract, dpc, finalizer, failing, webVars>>

\* capture.failed takes the snapshots in turn and errors those not captured or canceled.
CaptureFailed(j, s) ==
  /\ step[j][s] = "fail" /\ PageFree(j)
  /\ step' = [step EXCEPT ![j][s] = IF snap[s] \in {"success", "canceled"} THEN "no" ELSE "errmark"]
  /\ UNCHANGED <<dbVars, jobVars, extract, held, dpc, finalizer, failing, webVars, count>>

-----------------------------------------------------------------------------
(* apps/worker: the diff queue *)

\* A snapshot that failed to render is not compared: its diff is an error.
Uncomparable(s) == snap[s] = "error" \/ image[s] = "broken"

\* diffSnapshot reads the snapshot and its build.  A canceled one is left alone; the diff
\* of a build that ended in error is closed; a snapshot without an image makes it throw.
DiffRun(d) ==
  LET s == d[1] IN
  /\ djob[d].st = "waiting" /\ dpc[d] = "idle"
  /\ \/ /\ snap[s] = "canceled" \/ Terminal(build)
        /\ IF build = "error" /\ snap[s] # "canceled" /\ DiffExists(d) /\ diff[s] = "pending"
           THEN diff' = [diff EXCEPT ![s] = "error"] /\ fresh' = TRUE
           ELSE UNCHANGED <<diff, fresh>>
        /\ djob' = [djob EXCEPT ![d] = CompleteJob(@)]
        /\ UNCHANGED dpc
     \/ /\ snap[s] # "canceled" /\ ~Terminal(build)
        /\ Uncomparable(s) \/ image[s] = "good"
        /\ djob' = [djob EXCEPT ![d] = StartJob(@)]
        /\ dpc' = [dpc EXCEPT ![d] = IF Uncomparable(s) THEN "fail" ELSE "pass"]
        /\ UNCHANGED <<diff, fresh>>
     \/ /\ snap[s] # "canceled" /\ ~Terminal(build)
        /\ ~Uncomparable(s) /\ image[s] = "none"
        /\ djob' = [djob EXCEPT ![d] = ThrowJob(@)]
        /\ dpc' = [dpc EXCEPT ![d] = IF IsFinalAttempt(djob[d]) THEN "failed" ELSE "idle"]
        /\ UNCHANGED <<diff, fresh>>
  /\ UNCHANGED <<build, snap, image, gen, xjob, cjob, fjob, members, extract, captureVars,
                 finalizer, failing, webVars, count>>

\* Mutant: an error is written over a canceled diff too.
DiffWriteUnguarded(d) ==
  /\ dpc[d] \in {"pass", "fail"}
  /\ diff' = [diff EXCEPT ![d[1]] = IF ~DiffExists(d) THEN @
                                   ELSE IF dpc[d] = "pass" THEN "success" ELSE "error"]
  /\ fresh' = (fresh \/ DiffExists(d))
  /\ dpc' = [dpc EXCEPT ![d] = "check"]
  /\ UNCHANGED <<build, snap, image, gen, jobVars, extract, captureVars, finalizer,
                 failing, webVars, count>>

\* The comparison's result is written with updateResult, which has no guard on the diff's
\* status; an error goes through updateProcessingStatus, which spares a canceled diff.
DiffWrite(d) ==
  LET s == d[1] IN
  /\ dpc[d] \in {"pass", "fail"}
  /\ IF DiffExists(d) /\ (dpc[d] = "pass" \/ diff[s] # "canceled")
     THEN /\ diff' = [diff EXCEPT ![s] = IF dpc[d] = "pass" THEN "success" ELSE "error"]
          /\ fresh' = TRUE
     ELSE UNCHANGED <<diff, fresh>>
  /\ dpc' = [dpc EXCEPT ![d] = "check"]
  /\ UNCHANGED <<build, snap, image, gen, jobVars, extract, captureVars, finalizer,
                 failing, webVars, count>>

\* checkAllDoneAndFinalize, by a diff handler or by its failed handler.
DiffCheck(d) ==
  /\ dpc[d] = "check"
  /\ fjob' = FinalizeQueuedIfAllDone
  /\ dpc' = [dpc EXCEPT ![d] = "idle"]
  /\ djob' = [djob EXCEPT ![d] = IF @.st = "active" THEN CompleteJob(@) ELSE @]
  /\ UNCHANGED <<dbVars, xjob, cjob, members, extract, captureVars, finalizer, failing, webVars,
                 count>>

\* The handler throws (an image is missing, promoting the baseline fails) or its process dies,
\* maybe after it queued the finalization.
DiffFaults(d) ==
  /\ djob[d].st = "active" /\ MayFault("diff") /\ Faulted
  /\ \/ /\ djob' = [djob EXCEPT ![d] = ThrowJob(@)]
        /\ dpc' = [dpc EXCEPT ![d] = IF IsFinalAttempt(djob[d]) THEN "failed" ELSE "idle"]
     \/ /\ djob' = [djob EXCEPT ![d] = StallJob(@)]
        /\ dpc' = [dpc EXCEPT ![d] = "idle"]
  /\ fjob' = fjob \/ (dpc[d] = "check" /\ fjob' = FinalizeQueuedIfAllDone)
  /\ UNCHANGED <<dbVars, xjob, cjob, members, extract, captureVars, finalizer, failing,
                 webVars>>

\* diff.failed: the diff becomes an error unless it is gone or canceled.
DiffFailed(d) ==
  /\ dpc[d] = "failed"
  /\ IF DiffExists(d) /\ diff[d[1]] # "canceled"
     THEN /\ diff' = [diff EXCEPT ![d[1]] = "error"]
          /\ dpc' = [dpc EXCEPT ![d] = "check"]
          /\ fresh' = TRUE
     ELSE dpc' = [dpc EXCEPT ![d] = "idle"] /\ UNCHANGED <<diff, fresh>>
  /\ UNCHANGED <<build, snap, image, gen, jobVars, extract, captureVars, finalizer,
                 failing, webVars, count>>

-----------------------------------------------------------------------------
(* apps/worker: the finalize queue *)

\* run: a build with pending work is left to the finalize job that work will queue.
FinalizeRun ==
  /\ fjob.st = "waiting" /\ finalizer.pc = "idle"
  /\ fjob' = StartJob(fjob)
  /\ finalizer' = [finalizer EXCEPT !.pc = IF HasPendingForBuild THEN "end" ELSE "read"]
  /\ UNCHANGED <<dbVars, xjob, cjob, djob, members, extract, captureVars, dpc, failing, webVars,
                 count>>

\* Mutant: errors of snapshots are counted, those of comparisons are not.
HasSnapshotError == \E s \in Rows : snap[s] = "error"

HasProcessingError == \E s \in Rows : diff[s] = "error"

\* finalizeBuild reads the build and its diffs.
FinalizeRead ==
  /\ finalizer.pc = "read"
  /\ finalizer' = IF build = "canceled" THEN [finalizer EXCEPT !.pc = "end"]
                  ELSE [pc |-> "write",
                        verdict |-> IF HasProcessingError THEN "error" ELSE "success"]
  /\ UNCHANGED <<dbVars, jobVars, extract, captureVars, dpc, failing, webVars, count>>

FinalizeWrite ==
  /\ finalizer.pc = "write" /\ ~BuildLocked
  /\ build' = BuildUnlessCanceled(finalizer.verdict)
  /\ finalizer' = [finalizer EXCEPT !.pc = "end"]
  /\ UNCHANGED <<snap, image, diff, gen, fresh, jobVars, extract, captureVars, dpc,
                 failing, webVars, count>>

\* removeOnComplete: only now can the build's next finalize job be added.
FinalizeDone ==
  /\ finalizer.pc = "end"
  /\ fjob' = NoJob
  /\ finalizer' = [finalizer EXCEPT !.pc = "idle"]
  /\ UNCHANGED <<dbVars, xjob, cjob, djob, members, extract, captureVars, dpc, failing, webVars,
                 count>>

\* removeOnFail: a finalize job that failed for good leaves Redis too.
FinalizeFaults ==
  /\ fjob.st = "active" /\ MayFault("finalize") /\ Faulted
  /\ \/ /\ fjob' = IF IsFinalAttempt(fjob) THEN NoJob ELSE ThrowJob(fjob)
        /\ failing' = IF IsFinalAttempt(fjob) THEN failing \cup {"finalize"} ELSE failing
     \/ /\ fjob' = IF StallJob(fjob).st = "failed" THEN NoJob ELSE StallJob(fjob)
        /\ UNCHANGED failing
  /\ finalizer' = [finalizer EXCEPT !.pc = "idle"]
  /\ UNCHANGED <<dbVars, xjob, cjob, djob, members, extract, captureVars, dpc, webVars>>

\* guard() logs an error of a failed handler and drops it.
FailedHandlerFaults ==
  /\ Faulted
  /\ \/ \E kind \in failing : /\ MayFault(kind)
                              /\ failing' = failing \ {kind}
                              /\ UNCHANGED <<captureVars, dpc>>
     \/ \E j \in Groups : /\ MayFault("capture")
                          /\ cjob[j].st = "failed" /\ step[j] # NoSteps
                          /\ step' = [step EXCEPT ![j] = NoSteps]
                          /\ held' = [held EXCEPT ![j] = NoneHeld]
                          /\ UNCHANGED <<dpc, failing>>
     \/ \E d \in DiffIds : /\ MayFault("diff")
                           /\ djob[d].st = "failed" /\ dpc[d] # "idle"
                           /\ dpc' = [dpc EXCEPT ![d] = "idle"]
                           /\ UNCHANGED <<captureVars, failing>>
  /\ UNCHANGED <<dbVars, jobVars, extract, finalizer, webVars>>

-----------------------------------------------------------------------------
(* apps/web: cancelBuild, and the cancellation of a superseded build *)

\* cancelInProgressBuild: one transaction updates a build in progress and its unfinished
\* snapshots, ...
CancelTx ==
  /\ canceler.pc = "idle" /\ count.cancels < MaxCancels
  /\ build \in InProgress
  /\ UnfinishedRows \cap LockedRows = {}
  /\ canceler' = [canceler EXCEPT !.pc = "select", !.rows = UnfinishedRows]
  /\ count' = [count EXCEPT !.cancels = @ + 1]
  /\ UNCHANGED <<dbVars, jobVars, extract, captureVars, dpc, finalizer, failing, confirm,
                 rebuilder, reaper>>

\* ... selects the pending diffs, ...
CancelSelect ==
  /\ canceler.pc = "select"
  /\ canceler' = [canceler EXCEPT !.pc = "commit", !.ids = PendingDiffIds]
  /\ UNCHANGED <<dbVars, jobVars, extract, captureVars, dpc, finalizer, failing, confirm,
                 rebuilder, reaper, count>>

\* An extraction that has yet to read the build again.
RecheckAhead == extract.pc \in {"create", "unreadable"}

\* ... updates those by their ids, and commits.  `missed` is a history: the rows that have
\* become unfinished since the transaction looked for them, with nobody to look again.
CancelCommit ==
  /\ canceler.pc = "commit"
  /\ build' = "canceled"
  /\ snap' = SnapsMarked(canceler.rows, "canceled")
  /\ diff' = DiffsMarked(canceler.ids, "canceled")
  /\ fresh' = TRUE
  /\ canceler' = [canceler EXCEPT !.pc = "jobs", !.rows = {},
                    !.missed = IF RecheckAhead THEN {} ELSE UnfinishedRows \ canceler.rows]
  /\ UNCHANGED <<image, gen, jobVars, extract, captureVars, dpc, finalizer, failing,
                 confirm, rebuilder, reaper, count>>

CancelEnded == [canceler EXCEPT !.pc = "idle", !.rows = {}, !.ids = {}]

CancelJobs ==
  /\ canceler.pc = "jobs"
  /\ CancelBuildJobs(canceler.ids)
  /\ canceler' = CancelEnded
  /\ UNCHANGED <<dbVars, members, extract, captureVars, dpc, finalizer, failing, confirm,
                 rebuilder, reaper, count>>

-----------------------------------------------------------------------------
(* apps/web: rebuildSnapshots *)

\* isSnapshotSettled
SnapshotSettled(s) == snap[s] \in {"success", "error"} /\ diff[s] \notin {"none", "pending"}

\* Reads the build, its snapshots and its diffs, and checks that they can be rebuilt.
RebuildRead ==
  /\ rebuilder.pc = "idle" /\ count.rebuilds < MaxRebuilds
  /\ build # "canceled"
  /\ \E rows \in (SUBSET Captured) \ {{}} :
       /\ build \in InProgress => \A s \in rows : SnapshotSettled(s)
       /\ rebuilder' = [rebuilder EXCEPT !.pc = "tx", !.rows = rows, !.left = rows,
                                         !.settled = build \notin InProgress]
  /\ UNCHANGED <<dbVars, jobVars, extract, captureVars, dpc, finalizer, failing, confirm,
                 canceler, reaper, count>>

\* One transaction deletes the diff of each snapshot, or finds that it has none, ...
RebuildDelete(s) ==
  /\ rebuilder.pc = "tx" /\ s \in rebuilder.left
  /\ rebuilder' = [rebuilder EXCEPT !.left = @ \ {s},
                                    !.bare = IF diff[s] = "none" THEN @ \cup {s} ELSE @]
  /\ UNCHANGED <<dbVars, jobVars, extract, captureVars, dpc, finalizer, failing, confirm,
                 canceler, reaper, count>>

\* The snapshots whose deleted diffs are gone with the COMMIT.
DiffsDeleted == rebuilder.rows \ rebuilder.bare

\* ... requeues the snapshots, queues a build that was settled when it was read, and commits.
\* `kept` is a history: the rows that got a diff since the transaction found them without.
RebuildTx ==
  /\ rebuilder.pc = "tx" /\ rebuilder.left = {}
  /\ rebuilder.rows \cap LockedRows = {}
  /\ rebuilder.settled => ~BuildLocked
  /\ diff' = [s \in Rows |-> IF s \in DiffsDeleted THEN "none" ELSE diff[s]]
  /\ snap' = SnapsMarked(rebuilder.rows, "queued")
  /\ image' = [s \in Rows |-> IF s \in rebuilder.rows THEN "none" ELSE image[s]]
  /\ build' = IF rebuilder.settled THEN BuildUnlessCanceled("queued") ELSE build
  /\ fresh' = TRUE
  /\ rebuilder' = [rebuilder EXCEPT !.pc = "enqueue", !.bare = {},
                     !.kept = (@ \ rebuilder.rows)
                                \cup {s \in rebuilder.bare : diff[s] # "none"}]
  /\ count' = [count EXCEPT !.rebuilds = @ + 1]
  /\ UNCHANGED <<gen, jobVars, extract, captureVars, dpc, finalizer, failing, confirm, canceler,
                 reaper>>

RebuildEnded ==
  [rebuilder EXCEPT !.pc = "idle", !.rows = {}, !.settled = FALSE, !.left = {}, !.bare = {},
                    !.failed = {}]

RebuiltQueued ==
  /\ cjob' = GroupsQueued(MaxRuns + count.rebuilds, rebuilder.rows)
  /\ members' = GroupMembers(MaxRuns + count.rebuilds, rebuilder.rows)

RebuildEnqueue ==
  /\ rebuilder.pc = "enqueue"
  /\ RebuiltQueued
  /\ rebuilder' = RebuildEnded
  /\ UNCHANGED <<dbVars, xjob, djob, fjob, extract, captureVars, dpc, finalizer, failing,
                 confirm, canceler, reaper, count>>

\* Redis does not answer, whether or not it has taken the groups.
RebuildEnqueueFails ==
  /\ rebuilder.pc = "enqueue" /\ MayFault("web") /\ Faulted
  /\ RebuiltQueued \/ UNCHANGED <<cjob, members>>
  /\ rebuilder' = [rebuilder EXCEPT !.pc = "mark"]
  /\ UNCHANGED <<dbVars, xjob, djob, fjob, extract, captureVars, dpc, finalizer, failing,
                 confirm, canceler, reaper>>

\* One transaction updates the build's unfinished snapshots, ...
RebuildMark ==
  /\ rebuilder.pc = "mark"
  /\ UnfinishedRows \cap LockedRows = {}
  /\ rebuilder' = [rebuilder EXCEPT !.pc = "fail", !.failed = UnfinishedRows]
  /\ UNCHANGED <<dbVars, jobVars, extract, captureVars, dpc, finalizer, failing, confirm,
                 canceler, reaper, count>>

\* ... and the build, and commits.
RebuildFail ==
  /\ rebuilder.pc = "fail" /\ ~BuildLocked
  /\ snap' = SnapsMarked(rebuilder.failed, "error")
  /\ build' = BuildUnlessCanceled("error")
  /\ fresh' = TRUE
  /\ rebuilder' = [rebuilder EXCEPT !.pc = "undo", !.failed = {}]
  /\ UNCHANGED <<image, diff, gen, jobVars, extract, captureVars, dpc, finalizer, failing,
                 confirm, canceler, reaper, count>>

RebuildUndo ==
  /\ rebuilder.pc = "undo"
  /\ CancelBuildJobs({})
  /\ rebuilder' = RebuildEnded
  /\ UNCHANGED <<dbVars, members, extract, captureVars, dpc, finalizer, failing, confirm,
                 canceler, reaper, count>>

\* The web process dies, or Redis refuses a removal that is only logged, between two steps
\* of a call; an open transaction is rolled back.
WebFaults ==
  /\ MayFault("web") /\ Faulted
  /\ \/ /\ confirm # "idle" /\ confirm' = "idle" /\ UNCHANGED <<canceler, rebuilder>>
     \/ /\ canceler.pc # "idle" /\ canceler' = CancelEnded
        /\ UNCHANGED <<confirm, rebuilder>>
     \/ /\ rebuilder.pc # "idle"
        /\ rebuilder' = RebuildEnded
        /\ UNCHANGED <<confirm, canceler>>
  /\ UNCHANGED <<dbVars, jobVars, extract, captureVars, dpc, finalizer, failing, reaper>>

-----------------------------------------------------------------------------
(* The reaper *)

\* No handler is between two of its steps.
HandlersIdle ==
  /\ extract.pc = "idle" /\ failing = {}
  /\ \A h \in Holders : step[h] = NoSteps
  /\ \A d \in DiffIds : dpc[d] = "idle"
  /\ finalizer.pc = "idle"

WebIdle == confirm = "idle" /\ canceler.pc = "idle" /\ rebuilder.pc = "idle"

\* The stale window (OVR_REAPER_STALE_MINUTES, 30) passes without a change to the build's
\* rows.  It is taken to be longer than any handler or web call goes without one.
WindowPasses ==
  /\ Reaping /\ fresh
  /\ HandlersIdle /\ WebIdle /\ reaper.pc = "idle"
  /\ fresh' = FALSE
  /\ UNCHANGED <<build, snap, image, diff, gen, jobVars, extract, captureVars, dpc,
                 finalizer, failing, webVars, count>>

\* findStale and findBuildsWithLiveJobs: an idle build in progress with no live job is reaped.
ReaperScan ==
  /\ reaper.pc = "idle"
  /\ build \in InProgress /\ ~fresh
  /\ ~HasLiveJobs
  /\ reaper' = [reaper EXCEPT !.pc = "tx"]
  /\ UNCHANGED <<dbVars, jobVars, extract, captureVars, dpc, finalizer, failing, confirm,
                 canceler, rebuilder, count>>

\* reapIdleBuilds: one transaction, without another look at the build, updates its unfinished
\* snapshots, ...
ReaperMark ==
  /\ reaper.pc = "tx"
  /\ UnfinishedRows \cap LockedRows = {}
  /\ reaper' = [reaper EXCEPT !.pc = "select", !.rows = UnfinishedRows]
  /\ UNCHANGED <<dbVars, jobVars, extract, captureVars, dpc, finalizer, failing, confirm,
                 canceler, rebuilder, count>>

\* ... selects the pending diffs, ...
ReaperSelect ==
  /\ reaper.pc = "select"
  /\ reaper' = [reaper EXCEPT !.pc = "commit", !.ids = PendingDiffIds]
  /\ UNCHANGED <<dbVars, jobVars, extract, captureVars, dpc, finalizer, failing, confirm,
                 canceler, rebuilder, count>>

\* ... makes those errors by their ids, whatever they are by now, inserts an errored diff for
\* the snapshots it errored that have none, ends the build, and commits.  `over` is a history:
\* the rows whose diff had a result, or was canceled, when the reaper wrote over it.
ReaperTx ==
  /\ reaper.pc = "commit" /\ ~BuildLocked
  /\ LET without == {s \in reaper.rows : NeedsDiff(s)}
     IN /\ snap' = SnapsMarked(reaper.rows, "error")
        /\ diff' = [s \in Rows |-> IF s \in without THEN "error"
                                   ELSE DiffsMarked(reaper.ids, "error")[s]]
        /\ gen' = [s \in Rows |-> IF s \in without THEN gen[s] + 1 ELSE gen[s]]
  /\ build' = BuildUnlessCanceled("error")
  /\ reaper' = [reaper EXCEPT !.pc = "jobs", !.rows = {},
                  !.over = @ \cup {s \in Rows : /\ <<s, gen[s]>> \in reaper.ids
                                              /\ diff[s] \in {"success", "canceled"}}]
  /\ fresh' = TRUE
  /\ UNCHANGED <<image, jobVars, extract, captureVars, dpc, finalizer, failing, confirm,
                 canceler, rebuilder, count>>

ReaperEnded == [reaper EXCEPT !.pc = "idle", !.rows = {}, !.ids = {}]

ReaperJobs ==
  /\ reaper.pc = "jobs"
  /\ CancelBuildJobs(reaper.ids)
  /\ reaper' = ReaperEnded
  /\ UNCHANGED <<dbVars, members, extract, captureVars, dpc, finalizer, failing, confirm,
                 canceler, rebuilder, count>>

\* The reaper job throws or its process dies, which rolls an open transaction back; the next
\* scheduled run starts over.
ReaperFaults ==
  /\ reaper.pc # "idle" /\ MayFault("reaper") /\ Faulted
  /\ reaper' = ReaperEnded
  /\ UNCHANGED <<dbVars, jobVars, extract, captureVars, dpc, finalizer, failing, confirm,
                 canceler, rebuilder>>

-----------------------------------------------------------------------------
Web ==
  \/ ConfirmRead \/ ConfirmEnqueue
  \/ CancelTx \/ CancelSelect \/ CancelCommit \/ CancelJobs
  \/ RebuildRead \/ RebuildTx \/ RebuildEnqueue \/ RebuildMark \/ RebuildFail \/ RebuildUndo
  \/ \E s \in Rows : RebuildDelete(s)

ExtractWorker ==
  \/ ExtractRun \/ ExtractCreate \/ ExtractRecheck \/ ExtractEnqueue
  \/ \E s \in Rows : ExtractUnreadable(s)
  \/ FailBuild("extract")

RowWorker(h, s) == ErrorRead(h, s) \/ MarkErrored(h, s) \/ CreateDiff(h, s) \/ EnqueueDiff(h, s)

CaptureWorker(j) ==
  \/ CaptureRun(j) \/ CaptureDone(j)
  \/ \E s \in Rows : \/ CaptureCheck(j, s) \/ CaptureMark(j, s) \/ CaptureShoot(j, s)
                     \/ CaptureStore(j, s) \/ CaptureFailed(j, s)

DiffWorker(d) == DiffRun(d) \/ DiffWrite(d) \/ DiffCheck(d) \/ DiffFailed(d)

FinalizeWorker ==
  FinalizeRun \/ FinalizeRead \/ FinalizeWrite \/ FinalizeDone \/ FailBuild("finalize")

Reaper ==
  WindowPasses \/ ReaperScan \/ ReaperMark \/ ReaperSelect \/ ReaperTx \/ ReaperJobs

Faults ==
  \/ ConfirmFails \/ RebuildEnqueueFails \/ WebFaults
  \/ ExtractFaults \/ FinalizeFaults \/ FailedHandlerFaults \/ ReaperFaults
  \/ \E j \in Groups : CaptureFaults(j) \/ \E s \in Rows : CapturePersistFails(j, s)
  \/ \E d \in DiffIds : DiffFaults(d)

Next ==
  \/ Web \/ ExtractWorker \/ FinalizeWorker \/ Reaper \/ Faults
  \/ \E h \in Holders, s \in Rows : RowWorker(h, s)
  \/ \E j \in Groups : CaptureWorker(j)
  \/ \E d \in DiffIds : DiffWorker(d)

\* Every worker keeps taking its jobs and running its handlers, the reaper is scheduled
\* every few minutes, and a web call that has begun goes on.  Nobody has to begin one.
Fairness ==
  /\ WF_vars(ConfirmEnqueue)
  /\ WF_vars(CancelSelect \/ CancelCommit \/ CancelJobs)
  /\ WF_vars((\E s \in Rows : RebuildDelete(s)) \/ RebuildTx \/ RebuildEnqueue
               \/ RebuildMark \/ RebuildFail \/ RebuildUndo)
  /\ WF_vars(ExtractWorker)
  /\ WF_vars(FinalizeWorker)
  /\ WF_vars(Reaper)
  /\ \A h \in Holders : WF_vars(\E s \in Rows : RowWorker(h, s))
  /\ \A j \in Groups : WF_vars(CaptureWorker(j))
  /\ \A d \in DiffIds : WF_vars(DiffWorker(d))

Spec == Init /\ [][Next]_vars /\ Fairness
-----------------------------------------------------------------------------
(* Properties *)

AnyLiveJob ==
  \/ IsLiveJob(xjob) \/ IsLiveJob(fjob)
  \/ \E j \in Groups : IsLiveJob(cjob[j])
  \/ \E d \in DiffIds : IsLiveJob(djob[d])

\* Nothing is queued, running or half done for the build.
Quiet == HandlersIdle /\ WebIdle /\ reaper.pc = "idle" /\ ~AnyLiveJob

\* Captured snapshots that have no finished diff.
Unsettled ==
  {s \in Rows : snap[s] \notin {"absent", "skipped"} /\ diff[s] \in {"none", "pending"}}

\* A build whose upload was confirmed is never left in progress with nothing left to move
\* it on: whoever finishes last queues its finalization (checkAllDoneAndFinalize, or
\* extractBuild when every story is skipped).  States the fault-free case, where the
\* reaper has no work.
NoStrandedBuild == Quiet /\ build \in InProgress => xjob.st = "none"

\* The extraction ran once, for the one confirmation there was, and its job is still there:
\* the reaper has not removed the build's jobs.
JobsKept ==
  count.confirms <= 1 /\ xjob.st = "completed" /\ xjob.tries = 0 /\ xjob.stalls = 0

\* A comparison of s used up its attempts; or it ran twice, and s, captured well, was marked
\* errored in between.
ComparedAgain(s) ==
  \E d \in DiffIds :
    /\ d[1] = s
    /\ \/ djob[d].st = "failed"
       \/ djob[d].tries + djob[d].stalls > 0 /\ snap[s] = "error" /\ image[s] = "good"

\* A success extracted once and not rebuilt hides no failure: every captured snapshot has a
\* finished diff, and unless the build's jobs were removed, one that is an error became it when
\* its comparison ran again after the build was finalized, or by a reaper that had found it
\* pending and wrote over its result (checkAllDoneAndFinalize and finalizeBuild, against
\* diffs, captures and the reaper still at work).
SuccessHidesNothing ==
  build = "success" /\ count.runs <= 1 /\ count.rebuilds = 0
    => /\ Unsettled = {}
       /\ JobsKept => \A s \in Rows : diff[s] = "error" => ComparedAgain(s) \/ s \in reaper.over

\* Canceling a build that is not rebuilt leaves none of its snapshots waiting, whatever the
\* extraction, the capture groups and the diffs in flight write afterwards, but for those that
\* came between the statements of the cancellation when the extraction would not look again
\* (cancelInProgressBuild, the guards on snapshot updates and the recheck in extractBuild).
CancelLeavesNothing ==
  Quiet /\ build = "canceled" /\ count.rebuilds = 0
    => \A s \in Rows : snap[s] \in Unfinished => s \in canceler.missed

\* A diff only passes for a snapshot that has an image, although a rebuild takes the image
\* and the diff away while older captures and comparisons are under way, unless an older
\* handler inserted the diff between two statements of the rebuild (rebuildSnapshots,
\* diffs.createMany, the job id of a diff).
PassedDiffHasImage ==
  \A s \in Rows : diff[s] = "success" => image[s] # "none" \/ s \in rebuilder.kept

\* Canceled is final: no late confirmation, extraction, finalization, rebuild or reaping
\* takes a build out of it.
CanceledIsFinal == [][build = "canceled" => build' = "canceled"]_vars

\* A build whose stories were extracted once and none of whose snapshots was rebuilt is
\* only declared successful when every captured snapshot has a finished diff
\* (checkAllDoneAndFinalize, finalize.run and the gap inside finalizeBuild).
FinalizeNeverEarly ==
  [][ /\ build # "success" /\ build' = "success"
      /\ count.rebuilds = 0 /\ count.runs <= 1
      => Unsettled = {} ]_vars

\* The reaper selected the diff of s before the diff was canceled, and has yet to write.
ReaperSelected(s) == reaper.pc = "commit" /\ <<s, gen[s]>> \in reaper.ids

\* What was in flight when its build was canceled touches a canceled diff only to record a
\* comparison that passed (diffs.updateResult, which has no guard), or to take it away for a
\* rebuild that began before, or to make it an error in a reaper's transaction that had
\* selected it while it was pending (diffs.markPendingAs, which has no guard either): nothing
\* else turns it into an error or back into work, and nobody finalizes the build for it.
CanceledDiffOnlyPasses ==
  [][\A s \in Rows : diff[s] = "canceled" /\ diff'[s] # "canceled"
       => /\ build' = "canceled"
          /\ diff'[s] \in {"success", "none"} \/ (diff'[s] = "error" /\ ReaperSelected(s))]_vars

\* A build's status moves as BuildLifecycle says, and settles, whatever its handlers, web
\* calls and the reaper do meanwhile: this module implements that one.
Life == INSTANCE BuildLifecycle WITH status <- build
ImplementsLifecycle == Life!Spec
=============================================================================
