# Open Visual Regression in TLA+

Open Visual Regression captures the stories of an uploaded Storybook in real browsers,
compares every screenshot with a baseline, and lets people review the differences. Its state
is in Postgres, its work in BullMQ jobs in Redis, and its processes (web replicas, workers)
share nothing else. This directory models the parts of it that are hard to test: what happens
to a build when its jobs, web calls and the reaper interleave, fail and are retried; to a branch
when uploads overlap; to baselines when main builds finish in any order and old ones are purged;
to votes that cross; to the commit status of a build that keeps changing; inside a capture group,
and before each of its screenshots, when it waits for the page to be done; and in the queue and the cache the groups of all builds share.

## The system

| component | state | operations | interacts with |
| --- | --- | --- | --- |
| Build life cycle (`packages/builds/src/builds.ts`) | `builds.processingStatus` | confirm, cancel, supersede, rebuild, fail, finalize | rows of snapshots and diffs, all queues |
| Extraction (`packages/capture/src/extract.ts`) | snapshot rows | read the bundle, insert snapshots, fail unreadable stories, queue capture groups | queues capture, diff, finalize |
| Capture groups (`packages/capture/src/snapshots.ts`) | snapshot status and image, uploads in flight | capture each snapshot on one page, store it, create and queue its diff | diff queue, cancellation |
| Comparison (`diffSnapshot`) | diff status | compare, write the result, promote a main build's baseline, look whether all is done | finalize queue, baselines |
| Finalization (`finalizeBuild`) | build status | read the diffs, write the verdict | rebuilds and cancellations meanwhile |
| Reaper (`packages/builds/src/reaper.ts`) | none | find builds without activity and without jobs, error them | everything above |
| Job queues (`packages/queue/src/index.ts`) | BullMQ jobs | add under a job id, retry, stall, retain, remove | the workers |
| Capture queue policy (same file) | priorities of waiting groups | deadline, round-robin, fifo | capture workers |
| Baselines (`packages/reviews/src/baselines.ts`) | baselines, revisions | promote, find what to compare with | comparison, retention |
| Reviews (`packages/reviews/src/diffs.ts`) | votes, review statuses | vote, remove a vote, bulk vote | build status (written back), rebuilds |
| Builds of a branch (`createBuild`, `rebuildBuild`) | builds by branch | supersede older builds, only the latest may be rebuilt or reviewed | cancellation |
| Commit statuses (`packages/git-status`) | a publish job per build | send the build's status to the git provider | every change of a build |
| Retention (`packages/builds/src/retention.ts`, `projects.ts`) | storage outbox | purge expired builds, drain the outbox, delete a project | baselines (foreign key), object storage |
| Bundle and image caches | files, leases | download once, lease, evict | extraction, capture, comparison |
| Flaky snapshots, variants | statistics, a schedule | scan, assign a variant | comparison |
| Browser driving (`packages/capture-browser/src/settle.ts`) | pending requests, images and since when they load, a watch of the DOM | wait until a page is quiet, give up on what is stuck | the story on the page |
| Screenshots, image comparison, Storybook parsing, web routes, CLI, infrastructure | | | pure functions or input and output |

What makes them hard, and what correctness means:

- **Build life cycle, capture, comparison, finalization.** No step is a transaction with the
  next. Every handler reads, decides, and writes later, while others do the same. A build must
  end; it must not end early, as a success that hides a failure, or after it was canceled.
- **Job queues.** Jobs are deduplicated by id, also against jobs that are running or retained,
  so a wake-up can be lost; they are retried from the start, so every handler runs more than
  once; a dead process leaves a job that stalls, and a job that stalls too often fails without
  its `failed` handler.
- **Reaper.** It must end what nobody else will, and nothing else.
- **Rebuilds.** They take a snapshot's image and diff away while older captures and comparisons
  of the same snapshot may be under way.
- **Baselines.** Main builds finish in any order; the newest must win, and the recorded history
  must match what branch builds are compared with.
- **Reviews.** Statuses are recomputed from reads, and the build's processing status is written
  back from an older read.
- **Commit statuses.** The last status of a build must reach the provider.
- **Retention.** Nothing a baseline needs is deleted, and everything orphaned is deleted in the
  end, across crashes.
- **Builds of a branch.** Requests are repeated when an answer is lost, and uploads overlap: the
  newest build must survive, and a client must be told the truth about its own.
- **Capture groups.** Pages hang, uploads go on beside the loop, workers shut down: a group must
  end, and must not complete with a snapshot left behind.
- **Browser driving.** A page goes on rendering while one part of it after the other is looked at: it
  must not be taken for quiet when it is not, and nothing stuck may hold up every story after it.
- **Capture queue policy.** Priorities are computed from a queue that moves meanwhile.
- **Bundle cache.** Downloads, uses and evictions of the same directories overlap.

## Modules

| module | what it is | proved |
| --- | --- | --- |
| `BuildLifecycle` | the abstract life of a build: what its status promises, whichever handler, web call (but a vote) or reaper moves it | |
| `JobQueue` | one BullMQ job as the repository uses it: operators on a record of state, attempts and stalls | |
| `BuildPipeline` | the life of one build: rows, jobs, handlers, web calls and the reaper; implements `BuildLifecycle` | `BuildPipelineProofs` |
| `CaptureGroup` | the inside of one capture job: loop, uploads, deadline, shutdown, retries | `CaptureGroupProofs` |
| `Settle` | the wait for one page to be done, story after story | `SettleProofs` |
| `Baselines` | the baseline of one target across main builds, a branch build and the retention purge | `BaselinesProofs` |
| `Branch` | the builds of one branch: client, creation, confirmation, superseding, rebuilds | `BranchProofs` |
| `Reviews` | votes, the statuses computed from them, and what the pipeline does to them | `ReviewsProofs` |
| `StatusPublish` | the commit status of one build and the job that publishes it | `QueueProofs` |
| `CaptureQueue` | the order in which the groups of several builds wait, under three policies | `QueueProofs` |
| `BundleCache` | the bundles a worker keeps on its disk | `BundleCacheProofs` |
| `MC...` | instances for TLC: definitions of constants and symmetry | |

How they fit together. `BuildLifecycle` is the one specification of a build's status. `BuildPipeline`
is shown to implement it, in full by a run and its safety part by a theorem (`LifecycleImplemented`).
In `StatusPublish` it is what every caller but votes and finalizations may do to the build, and
`Branch` claims it of every build of the branch (`RowsFollowLife`), so neither has to repeat the
pipeline. A vote is outside of all three, and may break it (`Vote_reopens`). `CaptureGroup` refines what
`BuildPipeline` says of one capture job in the other direction: the loop, the deadline and uploads
that outlive their attempt, which the pipeline leaves out; the diffs it queues are in the
pipeline only. `Baselines` and `BuildPipeline` meet in `diffSnapshot`: the pipeline has its statements
on the build and its diffs and leaves out what it is compared with, `Baselines` has what it is
compared with and its promotion. `Reviews` takes of the pipeline each write to the build and its
diffs. `Settle` is inside of `CaptureGroup`'s `Shoot`, which may take as long as it likes or hang:
`Settle` says how long it may take. `CaptureQueue` and `BundleCache` are about what all builds share.

### BuildPipeline

One action is one statement on Postgres, or one call to Redis, with the decision
the code takes from what it read. What a handler holds between two of them is in a variable of
its own, so every other actor may step in between. That includes the transactions of a
cancellation, a rebuild and the reaper, which run under READ COMMITTED: each of their statements
is a step, sees what is committed by then and is seen by others at COMMIT only, and rows they have
updated (`LockedRows`, `BuildLocked`) are written by nobody else before that.

| variable | in the code |
| --- | --- |
| `build` | `builds.processingStatus` |
| `snap`, `image` | `snapshots.status`; `imagePath` and `hasRenderError` |
| `diff`, `gen` | `diffs.processingStatus`, and which of the snapshot's successive diff rows it is |
| `fresh` | whether a row of the build is younger than the reaper's stale window |
| `xjob`, `cjob`, `djob`, `fjob` | the jobs of the extract, capture, diff and finalize queues by job id; capture jobs have random ids and are named by the call that queued them and their page |
| `members` | the payload of a capture group |
| `extract`, `finalizer`, `dpc` | where the extract, finalize and diff handlers are and what they hold |
| `step`, `held` | what a capture group, the extraction or a `failed` handler is about to do with a snapshot |
| `failing` | `failed` handlers of the extract and finalize queues still to run |
| `confirm`, `canceler`, `rebuilder`, `reaper` | web calls and the reaper in progress, with the rows and ids an open transaction holds; `missed`, `kept` and `over` in them are history, for the properties only |
| `count` | how often each bounded action happened |

The actions are in the order of the code: `ConfirmRead`, `ConfirmEnqueue`, `ConfirmFails`
(`confirmBuildUpload`); `ExtractRun` to `ExtractFaults` (`extract.run`, `extractBuild`,
`failUnreadableTargets`); `CaptureRun` to `CaptureFailed` (`captureBuildGroup`,
`captureSnapshotOnPage`, `persistCapturedSnapshot`, `markSnapshotErrored`,
`enqueueSnapshotDiff`, `capture.failed`); `DiffRun` to `DiffFailed` (`diffSnapshot`,
`checkAllDoneAndFinalize`, `diff.failed`); `FinalizeRun` to `FinalizeFaults` (`finalize.run`,
`finalizeBuild`); `CancelTx` to `CancelJobs` (`cancelBuild`, which superseding shares: the updates of
build and snapshots, the selection of pending diffs, their update with the COMMIT, and the jobs);
`RebuildRead` to `RebuildUndo` (`rebuildSnapshots`, with the transaction that fails a build whose
jobs could not be queued); `WindowPasses` to `ReaperFaults` (`resolveStaleBuilds` and
`reapIdleBuilds`, split as a cancellation is).

A snapshot row is a story with the run of the extraction that inserted it, because a retried
extraction inserts its rows again. A capture group takes its snapshots one at a time on its page
(`PageFree`) while up to `MaxPendingUploads` uploads run beside it (`UploadFree`).

Approximations, each meant to allow more behaviours than the code unless it says otherwise:

- A group may take its snapshots in any order; the code takes them in the order of the payload.
- Adjacent reads of one handler are one step where the code decides from both (`CaptureCheck`,
  `RebuildRead`, `DiffRun`), `CaptureMark` joins two adjacent updates, `DiffCheck` its look for work
  left and the finalization it queues, and `ReaperScan` its reads of Postgres and Redis. The gaps
  between any other read and the write it leads to are all kept. This hides some interleavings.
- The last statement of a transaction goes with its COMMIT, and so do updates before it whose
  locks nobody would meet: the reaper's of the diffs and of the build, a rebuild's of the snapshots
  and the build. A statement that waits for a lock takes its rows when the wait ends, and a
  transaction that Postgres rolls back to end a deadlock is one that has not begun.
- The result of a capture (a good image, an image of a story that failed to render, an error) is
  a free choice.
- What outlives a group after its deadline, its uploads and a status write that hung, is left to
  `CaptureGroup`: here a group that throws loses them. This hides behaviours.
- `WindowPasses` assumes that the stale window is longer than any handler or web call goes
  without touching a row of the build. A build that waits for a job may be older than it.
- Retained jobs never expire; expiry only frees an id.
- A worker may die after its work was queued and before its job completes, and a call to Redis that
  fails may have had its effect: a stalled extraction runs again beside the groups of the first run.
- The build is taken to be the latest of its branch (`Branch` has the others); `publishStatus` is
  in `StatusPublish`, review statuses are in `Reviews`; logs and metrics are left out.

What the code does here that a reader of its comments may not expect, and how the properties say so:

- `diffs.updateResult` has no guard on canceled diffs: a comparison in flight when its build is
  canceled leaves its diff a success. `CanceledDiffOnlyPasses` says that handlers do no more to it than
  that: none of them makes it an error or waits for it again, and only a rebuild that began before
  takes it away. (A test, `builds.integration.test.ts:1536`, says the pipeline discards such writes.)
- The reaper selects pending diffs and then updates them by their ids, with no guard on what
  they are by then (`diffs.ts:128`). A diff that was canceled in between becomes an error of a canceled
  build, which `CanceledDiffOnlyPasses` allows to a transaction that had selected it (`ReaperSelected`);
  one that passed becomes an error although a finalization may have read the success
  (`reaper.over` in `SuccessHidesNothing`).
- A cancellation updates the unfinished snapshots before it commits the build. Snapshots that an
  extraction inserts in between (`extract.ts:129`), or a capture marks, are not among them, and if the
  extraction reads the build again before the COMMIT (`extract.ts:179`) it sees it in progress: the rows
  stay unfinished in a canceled build. `CancelLeavesNothing` excepts exactly those (`canceler.missed`);
  where the extraction has yet to look, none are excepted.
- A rebuild deletes the diffs it finds. One that an older handler inserts behind the DELETE, for a
  snapshot that had none, survives it and may be compared with the image that is gone:
  `PassedDiffHasImage` excepts it (`rebuilder.kept`).
- A comparison that wrote its result and then throws or stalls runs again, and may end as an error
  when the build is a success already; the finalization it queues then may be absorbed by a retained
  job. Beside the reaper's writes above, `SuccessHidesNothing` allows an error in a successful build for
  that reason only: a comparison of that snapshot used up its attempts, or it ran twice and the
  snapshot was errored in between. Which of them happened is read off the jobs, so this part is
  claimed while the build's jobs are kept (`JobsKept`); that every captured snapshot has a finished
  diff is claimed without it. With the reaper it is proved, not run.
- The reaper looks for jobs of pending diffs only: a diff job that has written its result and waits
  for a retry is not seen, and its build may be reaped (`helm.mdx:84` says it never is).
- A finalization that read before a rebuild and writes after it errors the build; the requeued
  group is then skipped and its snapshot stays queued, although `builds.ts:623` says a running build
  picks it up.
- A rebuild checks the build before its transaction: of a build canceled in between, the rows are
  queued again while the build stays canceled. `CancelLeavesNothing` is claimed of builds that are
  not rebuilt.

### Baselines

One target (a story in one browser and viewport) of one project. Main builds are numbered in
the order of `builds.createdAt`, which is what promotion, revisions and the purge go by.

| variable | in the code |
| --- | --- |
| `status` | `builds.processingStatus` of each main build, `gone` once its row is purged |
| `image` | what the build's snapshot of the target looks like, `none` when it was skipped or errored |
| `job` | where the build's diff handler is, with `diffs.reviewStatus` and `diffs.baselineSnapshotId` |
| `baseline`, `revisions` | the target's rows of `baselines` and `baseline_revisions` |
| `cutoff`, `page` | how far the retention period has passed; what `findExpiredPage` has answered |
| `outbox`, `stored` | `storage_outbox`; whose files are in object storage |
| `branch` | the diff handler of a branch build: its base and the answers it has |
| `promoted`, `calm` | history, for the properties only |

`Create` and `Cancel` are `createBuild` and `cancelInProgressBuild` (by a newer build or a person),
`DiffRead` to `DiffThrows` the main branch of `diffSnapshot` with `promoteBaseline`,
`PurgeFind` to `ForgetPrefix` `purgeExpiredBuilds` with `drainStorageOutbox`, and `BranchStart` to
`BranchCompare` the other branch of `diffSnapshot` with `findComparisonBaseline`. What the foreign
keys do is part of the statement they go with: `DiffWrite` is refused when the baseline it read
is gone, `PurgeTx` is refused while its page holds the baseline (`Removable`), and takes the
revisions of its builds along and sets references to their snapshots to null.

Approximations:

- Two snapshots differ when their images do; a difference below the threshold is the same image.
- `DiffRead` reads the baseline row and the snapshot it points to in one step, and `DiffWrite`
  covers the time of the comparison. This hides a purge between the two reads.
- A handler may throw any number of times; each time it is retried or was at its last attempt.
- A build is not purged while it runs, since retention is counted in days and a build ends within
  hours. A canceled build may be purged while its handler still goes on.
- A branch's base is purged before its handler starts, or not before the handler has read it;
  the first case is that of no base and is left out. Rebuilt snapshots of main builds are left out.
- `Pinned` builds hold the baseline of some other target all along.

`calm` names what the code relies on without enforcing it. A branch is compared with main as it
was at its base (`CalmBranchSeesItsBase`) as long as no main build is promoted after a newer one
has been compared, no main build is purged before an older one, and nothing is promoted or
purged while the branch is being compared. Outside of it the recorded history can be wrong: a
revision records what its build was compared with and not what it replaced
(`packages/reviews/src/baselines.ts:100`), an older build promoted late changes main without a
row, a pinned older build outlives the row that says what came after it, and a main build promoted
between the branch's two queries is seen by the later one only, although `baselines.mdx:14` says
that changes since the base don't show up.

### CaptureGroup

| variable | in the code |
| --- | --- |
| `snap`, `hash`, `bucket` | `snapshots.status`; whose attempt's screenshot `imageHash` is of; whose is stored under the image path |
| `job`, `loop` | the BullMQ job with its attempt; `captureBuildGroup`'s loop: where it is, whether the story was retried, `aborted`, the queue's kept failure, `interrupted` |
| `uploads` | `persistCapturedSnapshot` calls under way, each with the attempt it belongs to; and what the loop of an attempt that was given up still does: a read, a status write, an upload, or its mark-all loop |
| `down` | attempts whose worker is shutting down |
| `failing` | `capture.failed`: the snapshot it is at, and whether it has read it |
| `given`, `late` | history: attempts given up at the end of their grace; snapshots whose row or image such an attempt wrote later |

`Check` to `End` are the loop, with the read of a row and the write that marks it processing apart,
`Put` to `UploadMarkFails` an upload, `Deadline` and `Grace` `withTimeout`, `FailedRead` and `FailedMark`
the failed handler. `withTimeout` gives an attempt up but stops nothing (`captureTimeouts.ts:39`):
`GoesOn` is what its loop may still do, at any later time or never (`LateRead`, `LateWrite`,
`LateMarkAll`, and the upload of a screenshot it got after all). The write that marks a row
processing is guarded against canceled only, so that a late one can take back what a retried
attempt has stored: a group completes, and a row is processing. `CompletedIsSettled` excepts such a
row. The image path is the same for all attempts, so an upload that outlives its attempt may
overwrite the image of a later one: `ImageOfRow` excepts `late` snapshots, since the code does not
prevent it. A worker that dies between the row and the diff leaves a captured snapshot without a
diff; `BuildPipeline` has this, and the reaper settles such a build.
The hash of an image is the attempt it is of: two attempts never take the same screenshot, the
worst case for the property.

### Settle

| variable | in the code |
| --- | --- |
| `now` | `Date.now()` and `performance.now()`, in ticks |
| `pending`, `sent`, `newRequest` | the tracker's `pending` with the start of each timer; whether `requestCount` has grown since the pass read it |
| `image`, `known`, `since`, `givenUp`, `timers` | the document's images; `__OVR_LOADING_IMAGES__`; `__OVR_ABANDONED_IMAGE_SRCS__`; timers of `waitForImagesAndFonts`, which outlive the call |
| `watched`, `mutatedAt`, `same`, `domChanged` | `__OVR_DOCUMENT_WATCH__` and its `lastMutationAt`; whether that is still what the pass read first |
| `pc`, `deadline`, `watchDom`, `timer`, `awaits`, `awaitsFont`, `quiet` | where `settlePage` is and what it waits for |
| `calm` | history: the page does nothing more, and what is loading never arrives |

`Send` to `Navigate` are the story, which may act between any two steps of the worker; `Start` to
`Paint` are `settlePage`, with one action for each way an evaluation in the page can end.
`Tick` waits for whatever is due: timers fire and the page answers in time, in any order. A page
that hangs, so that no evaluation ends, is `CaptureGroup`'s. An image stands for its source:
shown again it is a new element, of which it is not known since when it loads, while its source
stays given up on. It is not shown again while a timer of the old element runs. Lazy images are left
out: capture makes them eager before it waits (`settle.ts:230`), and so is the wait for a loaded image
to be decoded (`settle.ts:236`), which ends by itself. A DOM change between two reads of
`lastMutationAt` is always noticed, also when the clock has not moved. `StuckIsGivenUp` excepts
fonts: `document.fonts` stays loading for as long as one of them does, and nothing gives up on it, so
that every story with such a font waits for its whole budget (`settle.ts:240`).

### Branch

| variable | in the code |
| --- | --- |
| `row`, `stamp`, `clock` | `builds.processingStatus`; `createdAt`, which Postgres sets to the time the transaction began |
| `defaults`, `jobs`, `extracted` | `buildExtractDefaults` rows; extract jobs waiting; builds extracted |
| `cli` | `ovr upload`: the request it waits for and how often it was sent |
| `calls` | calls on the server; a repeated request is a call of its own beside the first |
| `superseded`, `ended`, `raced`, `died` | history |

`Request`, `GiveUp`, `Reply` are the client; `Insert` to `Superseded` `createBuild`; `Confirm` to
`EnqueueFails` `confirmBuildUpload`; `Ask` to `Rebuild` `rebuildBuild`; `Retake` the build's part in
`rebuildSnapshots`; `Extract`, `Work`, `CancelBuild` what the pipeline and people do. `raced` excepts
from `OneInFlight` rows that become visible out of the order of `createdAt` and rebuilds outrun by
another build, `died` calls that die before they have superseded; the code looks no second time
in any of these. `rebuildBuild` itself supersedes nothing: it is allowed on the latest build only.
`SentBack` is the one step of these calls outside of `BuildLifecycle`: two people rebuild at once, and
the second requeues a build that is processing. Votes are not among the calls (`Reviews`).

### Reviews

| variable | in the code |
| --- | --- |
| `processing`, `review`, `latest` | `builds.processingStatus`, `reviewStatus`; whether a newer build of the branch exists |
| `diff`, `votes` | the diff row of each snapshot with its id; `diff_reviews` |
| `call` | each reviewer's call: what it read and has still to write |
| `finalizer` | the finalize job |
| `verdicts`, `clashed`, `raced` | history |

A call stores its vote, computes the diff's status from the votes it reads, writes it, and then
reads the build, reads its diffs and writes its review status: one action each. A rebuild
deletes the diff row, which deletes its votes (the foreign key) and refuses later ones. `clashed`
are snapshots whose votes crossed, `raced` is that calls on the build crossed since it was finalized:
there an older status may stay until the next vote.

### StatusPublish

| variable | in the code |
| --- | --- |
| `processing`, `review` | the build's statuses |
| `seen` | what the finalizations and votes under way may have read of the build |
| `owed` | writers that have changed the build and not yet called `publishStatus` |
| `job` | the job with the build's deduplication id; `next`: it was asked for again while it ran (`keepLastIfActive`) |
| `sender`, `strays` | `publishBuildStatus`: what it read; requests it gave up that may still arrive |
| `shown`, `lost` | the provider's status; history: nothing is left to correct it |

`BuildChanges` are the callers that publish after every write, hit or miss (failures, cancellations,
rebuilds, `startProcessing`, the reaper); a rebuild that cannot queue its jobs writes twice before it
publishes. `Finalized` and `Voted` write a result computed from something in `seen`, as old as it may
be, over whatever the build is by then unless it is canceled, a vote with the processing status it
read. `Publish` to `EndedJob` are `publishStatus` and BullMQ, `PublishRun` to `StrayArrives` the worker.

A finalization publishes only if its result differs from the build it read (`builds.ts:742-748`).
One that read `needs_review`, computes it again and writes it after a reviewer's `approved` was
published changes the build and says nothing: the provider keeps `approved`, contrary to "collapse into
a single publish of the latest state" (`builds.ts:73`). Both properties except this through `lost`,
as they do a publish that was lost, until somebody reads the build again; it is not excepted as long
as any publish is still to come.

### CaptureQueue

| variable | in the code |
| --- | --- |
| `policy`, `now` | the `CaptureQueuePolicy` of the installation; `Date.now()` in seconds |
| `call` | one `enqueueCaptureGroups` per build, with the clock and the base it read |
| `queue`, `wait`, `delayed`, `active` | BullMQ's prioritized set, wait list and delayed set, and the groups being captured |
| `pushes` | jobs BullMQ has added so far |
| `passed`, `raced`, `strayed` | history |

As in Redis, a job is a member of a set and carries what it is ordered by: its priority, and how many
jobs were added before it (`at`, negative when it was put back at the head of the wait list). `Ahead`
is BullMQ's order, external to the repository; where a build's groups come when its browsers
alternate is a count of those before each (`Before`, `InterleaveBrowsers`). Priorities are computed
as the code does, with its clamp.

`Begin` to `Add` are `enqueueCaptureGroups`, `TakeWaiting` to `Due` the workers and BullMQ with
`runCaptureGroupRetryFirst`, `CancelJobs` the capture queue's part in `cancelBuildJobs`. `raced` (calls
that overlap, or a group taken between the read and the write under round-robin) and `strayed` (a
failed group that came back at its old priority) except what the code lets happen. Groups at the clamp
are in the order they were queued: `EarliestDueFirst` excepts a waiting group there, `TakesTurns` a
group that is taken there, and `BrowsersAlternate`, under round-robin, the later of the two.

### BundleCache

`dir`, `recent` (order of mtime), `leased`, `inflight` downloads (`job`), calls (`user`). One event loop:
what happens between two awaits is one step. `unsafe` are calls that leased a bundle while its
removal was going on or after it had failed: `evictIfOverCap` looks at leases before the removal
(`storybookBundleCache.ts:82`), and `getBundleDir` takes any directory that is there
(`storybookBundleCache.ts:140`), so such a call may be handed a bundle with files missing. Leases
are those of one process; the web application's route reads bundles without a lease and is left
out. `List` is `readdir` with all its `stat`s and sizes; when it meets a directory that another job
is removing it throws, and the eviction is given up (`ListFails`). A stale `stat` is harmless, since
publishing renames onto what is there.

## Runs

| run | instance | shows |
| --- | --- | --- |
| `Pipeline_cancel` | two stories on two pages, one may be unreadable; a confirmation sent twice, one cancellation, one failing web call, the reaper | `NoStrandedBuild`, `CancelLeavesNothing`, `CanceledIsFinal`, `CanceledDiffOnlyPasses`, `FinalizeNeverEarly` |
| `Pipeline_faults` | one story; any two faults of any handler or web call, one attempt and one stall, the extraction run twice, no reaper | `SuccessHidesNothing` |
| `Pipeline_rebuild` | one story rebuilt once, in a settled or a running build, with one fault of any kind but a capture group's, the reaper's included, no stall and no cancellation | `TypeOK`, `PassedDiffHasImage`, `ImplementsLifecycle` |
| `CaptureGroup_main` | two snapshots, two attempts, one pending upload, one fault, a cancellation; hung pages, writes and uploads, timeouts and the failures that follow from a shutdown at no cost | `CompletedIsSettled`, `ImageOfRow`, `CanceledStays`, `GroupEnds` |
| `Baselines_main` | three main builds and two images, the first build pinned, pages of two builds, any number of throws, purges and branch builds | `BaselineIsNewest`, `BaselineKept`, `NoLeakedFiles`, `CalmBranchSeesItsBase` |
| `Branch_main` | two uploads of two requests each, one rebuild, three events | `NewestSurvives`, `OneInFlight`, `PublishedIsQueued`, `RefusedHasEnded`, `RowsFollowLife` |
| `Reviews_main` | two snapshots, two reviewers both admins, two approvals required, three events | `TypeOK`, `VerdictsAreVoted`, `VotesCount`, `BuildFollowsDiffs`, `CanceledKeepsReview` |
| `StatusPublish_main` | three changes, three verdicts, two attempts, two faults | `NothingForgotten`, `LatestShown` |
| `CaptureQueue_main` | builds of one group, of three groups in two browsers and of three groups in one; priorities up to 5, one worker, three seconds, one event | `TypeOK`, `BrowsersAlternate`, `EarliestDueFirst`, `TakesTurns` |
| `Settle_main` | one request, one image, a page that serves up to two stories, four things it does | `KeepsToBudget`, `StuckIsGivenUp`, `QuietIsQuiet` |
| `BundleCache_main` | three builds, two calls, room for one bundle, two faults | `TypeOK`, `InUseIsWhole`, `AskedIsServed` |

One run shows where the code does not do what a test says:

| run | says | does |
| --- | --- | --- |
| `Vote_reopens` | updating the review status leaves a processing build's processing status alone (`builds.integration.test.ts:2051`) | it writes back the status it read: a build finalized in between is processing again, with no job left |

`NoStrandedBuild` is checked with one unreadable story. With two it does not hold: the diff of the
first is done, and its finalization runs, before the row of the second exists; the finalization
sees pending work and returns, since "finishing it queues another finalize" (`finalize.ts:8`), but
that one has the same job id and is absorbed while the first is active, and the build waits for the
reaper. `FinalizeNeverEarly` and
`SuccessHidesNothing` are claimed for builds extracted once and not rebuilt: with a second extraction
run, which in `Pipeline_faults` may meet the groups of the first, or with a rebuild the build can be
declared successful while rows are queued.

**Bounds.** Two stories are the smallest number for which one can be last; they have a page each,
so that their groups run side by side. One cancellation is all that can succeed, since canceled is
final. Two confirmations cover a retry that races the first. One rebuild makes two generations of
a diff row, so that a comparison of one can meet the other; cancellations and faults of
capture groups beside a rebuild are left to the theorems. Two faults let the failed handler or
the second run of a stalled job fail too; one attempt lets the last attempt happen within them.
`MaxStalled` is BullMQ's 1, or 0 where a rebuild is the point. `Pipeline_faults` has no reaper
(`Reaping`), which `Pipeline_cancel` and `Pipeline_rebuild` have.
Two snapshots in a group: one uploads while the next is taken; two attempts: the second meets what
the first left; one fault, since what hangs or fails with a shutdown or an outage is not counted.
Three main builds make an older one, a newer one and one between them: the base of
a branch, what main changed after it and what is promoted late; pages of two builds hold one that
is promoted meanwhile and one that is not; two images are a change and its undoing. Two uploads and
a rebuild give three builds, so that a superseding call has two older builds to cancel in order
while a person cancels, a request is repeated or a call dies. Two reviewers on two snapshots: votes
cross on one, and bulk votes span both. Three changes of a build: one before the job reads, one
while it runs, one after; its verdicts are one that passes, one that fails and one voted for. Three
builds in the queue, two of them as long and one of them short: one queued later may be due earlier, and a long one is still waiting when the next is queued, in a later round; priorities
reach the clamp at 5. Three bundles with room for one: a download evicts two.
A page serves two stories within `MaxTime`, so that the second meets what the first left stuck, and
its windows and budget are in the order of the code's: two passes fit into a budget, a third does not.
`MaxEvents` and `MaxFaults` bound everything optional together. Deadlock is not checked where the
system may stop: a settled build, an ended branch, the end of time; `BundleCache` is checked for it.

**Fairness.** Workers keep taking jobs and running handlers, the reaper is scheduled
(`scheduleReaper`, every few minutes), and a web call that has begun goes on until it ends or its
process dies, which is a fault. Each diff, each group and each group's rows have weak fairness of
their own, since each is taken by a worker slot of its own. Nobody has to begin a web call, and
faults are never fair. The window is part of the reaper's fairness: time passes. `CaptureGroup`
assumes less: jobs are taken, timers fire and failed jobs are handled, while a page, an upload or a
write may hang for ever. `StatusPublish` assumes that a writer goes on to publish and that publish
jobs are taken, `BundleCache` that downloads and removals come to an end. `Baselines`, `Branch`, `Reviews`,
`Settle` and `CaptureQueue` claim safety only and need no fairness.

## Proofs

Every theorem is about all values of its module's constants, under the assumptions named there
(finite sets where something is counted, positive numbers where the code has them).

| theorem | property | argument |
| --- | --- | --- |
| `BuildPipelineProofs!TypeCorrect` | `TypeOK` | `TypeInv` adds `GenBounded`: a snapshot's diff rows are at most one more than the rebuilds that have removed one. Without it the ids of diffs could leave `DiffIds`. One lemma per action. |
| `...!CanceledStaysCanceled` | `CanceledIsFinal` | every write of the build's status goes through `BuildUnlessCanceled` or is guarded by the status it expects. |
| `...!PassedDiffsHaveImages` | `PassedDiffHasImage` | `DiffInv`: a comparison about to pass belongs to a row that is gone, to a snapshot with an image, or to a diff a rebuild's DELETE has missed (`PassingHasImage`); no job and no held id is ahead of the snapshot's latest row (`NoJobAhead`, `HeldNotAhead`), so a row created later cannot find an old job's result. |
| `...!LifecycleImplemented` | safety of `BuildLifecycle` | each step maps to a step of the abstract specification or leaves the status; `RequeuesSettled` is needed for the rebuild, whose check is older than its write, `LockedInProgress` for the cancellation, whose COMMIT comes after its guard. |
| `...!SuccessIsNeverEarly` | `FinalizeNeverEarly` | `FinalizeInv`: a finalization that has looked for pending work holds either a build whose captured rows are all finished (`Final`) or one with an error that stays. Before that, rows, groups and jobs are those of the one extraction (`RowsHere`, `Grouped`, `RunsBegan`), and while it still inserts there is no finalize job but for rows that failed (`Early`). `CanceledMeans`: only a canceled build has canceled diffs. |
| `...!CanceledDiffsStay` | `CanceledDiffOnlyPasses` | from `CanceledMeans`: an errored result and `diff.failed` spare canceled diffs, and a canceled build stays so; the reaper writes over those it had selected. |
| `...!SuccessesHideNothing` | `SuccessHidesNothing` | `HideInv`, beside `FinalizeInv`: a success has all its rows finished (`SuccessIsDone`) and leaves them alone (`LeftAlone`: a compared row is not captured again); nothing is reported before it is stored (`StoredFirst`), and what a comparison found fits the row unless the row changed since (`ResultsFit`). With the jobs kept, the one confirmation's extraction ran once (`FirstRun`), nothing succeeds while it inserts (`NotYet`), and a row that passed is overwritten only by a second run of it or by a reaper that had selected it (`PassedOnce`, `ErrorsShown`). |
| `...!CancelLeavesNoWork` | `CancelLeavesNothing` | assumes that the extraction is not killed or failed (`"extract" \notin Faulty`). `CancelInv`: only the running extraction brings unfinished rows to a canceled build, and it reads the build again before it ends, so that afterwards only rows the cancellation missed wait (`Closed`); a group about to mark a row marks one that waits, was canceled meanwhile, or was missed (`MarksUnfinished`). |
| `...!ConfirmedBuildsMoveOn` | `NoStrandedBuild` | assumes `WorkersReliable` and a build that is not rebuilt. `WorkInv`: every row without a diff has a holder, a waiting group or the extraction (`RowsCarried`), every pending diff a job (`DiffsCarried`), a build that is all done a comparison at its check or a finalization (`FinalizeCarried`), and no finalize job exists earlier, to absorb a later one (`FinalizeFits`). |
| `CaptureGroupProofs!CompletedGroupsAreSettled` | `CompletedIsSettled` | `Covered`: whatever the loop has passed is settled, uploading, or reported as a failure, or was written by an attempt given up before; `DrainedAll`: only the deadline ends the loop early; `Stored`: a queued diff has a stored result; `Given`: who writes beside the attempt was given up. |
| `...!ImagesMatchRows` | `ImageOfRow` | `Images`: of a snapshot without late writes, uploads are of this attempt or of one given up, one per passed snapshot (`Begun`), and none once it was captured before. |
| `...!CanceledSnapshotsStay` | `CanceledStays` | every write of a snapshot is guarded or spares canceled ones. |
| `BaselinesProofs!BaselineAlwaysNewest` | `BaselineIsNewest` | `NotOlder` lets a promotion through exactly when no newer build has been promoted. |
| `...!BaselineAlwaysKept` | `BaselineKept` | `Removable` keeps the purge off the baseline's build, and only files of builds that are gone are deleted (`OutboxGone`). |
| `...!FilesNeverLeaked` | `NoLeakedFiles` | outbox rows go in with the builds' removal, and out when the files are gone. |
| `...!CalmBranchesSeeTheirBase` | `CalmBranchSeesItsBase` | `ViewInv`: while main is calm, it looks the same from a build on until the next revision (`SameUntilChanged`), the first revision after a build replaced what main looked like then (`PreviousSame`) and is one (`HasFirst`), and what a branch has read of them still holds (`BranchFits`). |
| `BranchProofs!NewestNotSuperseded` | `NewestSurvives` | a call only lists builds older than its own, and rows keep their time (`OnlyOlder`). |
| `...!PublishedStaysTrue` | `PublishedIsQueued` | what a call knows of its build stays true whatever others do (`CallKept`); jobs are removed only of builds that ended. |
| `...!RefusalsAreTrue` | `RefusedHasEnded` | a row whose client still creates is the client's own, without defaults, and queued unless it ended (`RowOk`, `ClientOk`). |
| `...!RowsKeepToLife` | `RowsFollowLife` | from the same invariant, one case per writer of `row`; overlapping rebuilds are excepted, votes not modelled. |
| `...!OneBuildInFlight` | `OneInFlight` | `OrderInv`: no two rows have, or will have, the same time (`TimesDiffer`), a rebuild is newer than its build (`RebuildsAreNewer`), and a build in flight with a newer one beside it is on the list of some call, or will be when that call lists (`OlderAreDoomed`). |
| `ReviewsProofs!VotedVerdicts` | `VerdictsAreVoted` | ids held by calls are never ahead of the rows (`IdsAreOld`), and what a call is about to write was voted on that row (`TodoIsVoted`). |
| `...!ReviewsTyped` | `TypeOK` | `Numbered`: the numbers of diff rows held by calls are at most the snapshot's, and every row after the first takes a rebuild, which is an event. |
| `...!StatusIsVoted` | `VotesCount` | `CountInv`: unless votes on a row clashed one call at a time counts it (`OneCounts`), and what that call is to write is what the votes amount to (`WritesAreRight`). |
| `...!BuildIsReviewed` | `BuildFollowsDiffs` | `FollowInv`: unless calls raced, nothing changes under a finalization about to write (`FinalizeIsFresh`), and a finalized build's review is that of its diffs unless the one call past its vote is about to update it (`FollowsUnlessVoting`, `VoterIsFresh`). |
| `...!CanceledIsFrozen` | `CanceledKeepsReview` | every write of the review goes through `BuildUnlessCanceled`, or is for a build in another status. |
| `SettleProofs!FoundQuiet` | `QuietIsQuiet` | without a new request since the network was quiet nothing is pending (`NothingPending`); while the DOM is what it was when the pass began, every image that loads is waited for or given up on (`ImagesKnown`), and the DOM found still stays so (`StillDom`); a pass that only pauses has stopped watching (`PausesUnwatched`). |
| `...!BudgetIsKept` | `KeepsToBudget` | `InTime`: every timer is set within the deadline, and no time passes while one is due. |
| `...!StuckIsAlwaysGivenUp` | `StuckIsGivenUp` | `StuckInv`: everything stuck has a timer that gives up on it (`Clocked`); once the page does nothing more the document is watched since it changed last (`Began`), all that is stuck began before that (`AllBefore`), so the one pass gets through the network and the images in time (`OnTime`) and finds that nothing happened (`Unchanged`). Needs the windows to fit the budget, a hypothesis of the property itself, which the code's constants meet. |
| `QueueProofs!StatusNeverForgotten` | `NothingForgotten` | a status about to be sent that is stale is followed by another publish (`StaleIsFollowed`); a result written without one changes nothing the provider shows, is followed by a read, or sets `lost` (`ResultForgetsNothing`). |
| `...!PrioritiesTaken` | `CaptureQueue`'s `TypeOK` | each group is added once (`OnceAdded`), what a call read is of the past and a round BullMQ takes (`ReadIsValid`), so the clamp keeps every priority in range and 0 is only given to groups that were tried. |
| `...!BrowsersTakenInTurn` | `BrowsersAlternate` | `AsAdded`: groups of a build that were not tried wait in the order and with the priorities they were added with, and counting the groups before each orders them as `interleaveBrowsers` sorts them (`PlaceGrows`). |
| `...!DueFirstIsTaken` | `EarliestDueFirst` | `DeadlineInv`: while calls do not overlap and no failed group is back, all waiting groups below the limit count from one epoch, which lies before every clock a call read (`OneEpoch`), so a new group's priority is never below 1 by its own due time and priorities compare as due times do. |
| `...!TurnsAreTaken` | `TakesTurns` | `RoundInv`: a build's groups in a browser wait as an unbroken tail (`Contiguous`), builds were added one after another (`InBlocks`), no turn is two rounds behind another group or behind what a call has read (`Abreast`, `ReadAbreast`), the one further ahead was added first (`AheadIsOlder`); hence once another build took a turn while a build waits, the next is this build's (`PassedOnce`). |
| `BundleCacheProofs!BundlesInUseAreWhole` | `InUseIsWhole` | leases count the calls at a bundle (`Counted`), a download has a waiting call (`Awaited`), so its bundle cannot go before they have it (`Published`). |
| `...!CacheIsTyped` | `BundleCache`'s `TypeOK` | from the same invariant and `OInv`: each directory there is has one mtime (`Ordered`, with `WithoutOne` for a directory that is used again or removed), so a list is at most as long as there are builds (`FewMtimes`), and an eviction only removes while its sum exceeds the cap (`Listed`). |

Each inductive invariant was checked by TLC on the instance of the run that has its property.

Two theorems about `BuildPipeline` say less than "whatever fails", for a reason the code has:

- `CancelLeavesNoWork`: an extraction that dies after it inserted rows behind a cancellation, and
  before it read the build again, leaves them queued for good, since a canceled build is not reaped.
- `ConfirmedBuildsMoveOn`: a worker that fails may leave a build to the reaper, which is what it is
  for; two unreadable stories may leave it to the reaper without a fault, and a rebuild requeues
  rows of a build a late finalization may settle (both above). Web calls may fail and die in it.

Only model-checked is liveness: `GroupEnds`, `LatestShown`, `AskedIsServed` and the fairness part of
`ImplementsLifecycle`, which need `ENABLED`. Every invariant and every action property of the
passing runs is a theorem.

`QueueProofs` extends both `CaptureQueue` and `StatusPublish`, whose specifications therefore have names
of their own (`Spec` and `StatusSpec`). Nothing in either model or in the others proved about is
recursive: what the code computes with a loop or a sort (an index, a place, a number of snapshots) is a
count, about which the theorems on finite sets say what is needed.

## Not modelled

The map covers the code that has state and concurrency; most of the repository's lines have
neither.

- **User interface, routes, contracts, authentication** (`apps/web`, `packages/api`): the routes check
  permissions and call the operations the modules have; lists, search and pagination are reads.
- **Browser driving** beside `settle.ts`: screenshots, launching and closing; what they come to, hanging
  included, is a free choice of `BuildPipeline` and `CaptureGroup`. Whether a page has painted in
  time, which `settlePage` also answers, and the list of abandoned requests are left out of `Settle`.
- **Image comparison, Storybook and module graph parsing**: functions of file contents over pixels and
  text, out of TLC's reach.
- **Flaky snapshots and variants**: statistics in SQL that every scan computes again from the rows.
- **Image cache**: files whose every failure falls back to a download.
- **Deletion of a project**: its rows go in one transaction, and the purge of its storage is queued
  after it as a best effort, so that a failure leaves files behind; there is nothing else it promises.
- **Infrastructure**: logs, metrics, object storage, migrations, schedules.
- In the modelled parts: providers' requests and the event sent to browsers on a status change,
  clocks of processes that disagree, capture queue policies that differ between processes, sizes of
  bundles in bytes, and the web application's reading of bundles beside the worker's cache.
