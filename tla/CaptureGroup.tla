---------------------------- MODULE CaptureGroup ----------------------------
(***************************************************************************)
(* One capture job: a group of snapshots that one browser takes in turn    *)
(* while their uploads go on beside it, under the group's deadline and the *)
(* worker's shutdown, tried Attempts times.                                *)
(*                                                                         *)
(* BuildPipeline has the job among the others of its build; here is what   *)
(* happens inside: a page that hangs, a browser launched again, uploads    *)
(* that outlive the attempt they belong to.  Which diffs are queued, and   *)
(* what is lost when that fails, is there.                                 *)
(***************************************************************************)
EXTENDS FiniteSets, Naturals

CONSTANTS
  GroupSize,          \* snapshotIds.length
  Attempts,           \* JOB_OPTIONS[SNAPSHOT_CAPTURE].attempts
  MaxPendingUploads,
  MaxFaults           \* bound: writes, uploads and launches that fail, shutdowns, dead workers

ASSUME SizesAssumption ==
  {GroupSize, Attempts, MaxPendingUploads} \subseteq Nat \ {0} /\ MaxFaults \in Nat

VARIABLES
  snap,               \* snapshots.status
  hash,               \* the attempt whose screenshot the row's imageHash is of
  bucket,             \* the attempt whose screenshot is stored under the image path
  canceled,           \* the build was canceled
  job,                \* the capture job
  loop,               \* captureBuildGroup's loop, in the current attempt
  uploads,            \* writes under way, each of a snapshot and an attempt
  down,               \* attempts whose worker is shutting down
  failing,            \* capture.failed: the snapshot it is at, and whether it has read it
  given,              \* history: attempts given up at the end of their grace
  late,               \* history: snapshots whose row or image such an attempt wrote later
  faults

rowVars == <<snap, hash, bucket>>
history == <<given, late>>
vars == <<rowVars, canceled, job, loop, uploads, down, failing, history, faults>>

Snapshots == 1..GroupSize
SnapStatus == {"queued", "processing", "success", "error", "canceled"}
Settled == {"success", "error", "canceled"}
NoLoop == [pc |-> "idle", at |-> 1, retried |-> FALSE,
           aborted |-> FALSE, failed |-> FALSE, interrupted |-> FALSE]

LoopShape ==
  [pc : {"idle", "check", "write", "shoot", "add", "mark", "relaunch", "markall",
         "drain", "throw"},
   at : Nat \ {0}, retried : BOOLEAN,
   aborted : BOOLEAN, failed : BOOLEAN, interrupted : BOOLEAN]
UploadShape ==
  [of : Snapshots, in : Nat, pc : {"read", "write", "put", "row", "err", "diff", "markall"}]
FailingShape == [at : Nat, read : BOOLEAN]
JobShape == [st : {"waiting", "active", "done", "failed"}, attempt : Nat]

TypeOK ==
  /\ snap \in [Snapshots -> SnapStatus]
  /\ hash \in [Snapshots -> Nat] /\ bucket \in [Snapshots -> Nat]
  /\ canceled \in BOOLEAN /\ given \subseteq Nat /\ late \subseteq Snapshots
  /\ job \in JobShape /\ loop \in LoopShape
  /\ uploads \subseteq UploadShape
  /\ failing \in FailingShape

Init ==
  /\ snap = [s \in Snapshots |-> "queued"]
  /\ hash = [s \in Snapshots |-> 0] /\ bucket = [s \in Snapshots |-> 0]
  /\ canceled = FALSE
  /\ job = [st |-> "waiting", attempt |-> 1]
  /\ loop = NoLoop /\ uploads = {} /\ down = {}
  /\ failing = [at |-> 0, read |-> FALSE]
  /\ given = {} /\ late = {} /\ faults = 0

Fault == faults < MaxFaults /\ faults' = faults + 1

Own == {u \in uploads : u.in = job.attempt}
ShuttingDown == job.attempt \in down
Unless(status, s) == [snap EXCEPT ![s] = IF @ = "canceled" THEN @ ELSE status]

-----------------------------------------------------------------------------
(* The loop of captureBuildGroup *)

\* A build that is done is skipped.
Run ==
  /\ job.st = "waiting"
  /\ IF canceled
     THEN job' = [job EXCEPT !.st = "done"] /\ UNCHANGED loop
     ELSE job' = [job EXCEPT !.st = "active"] /\ loop' = [NoLoop EXCEPT !.pc = "check"]
  /\ UNCHANGED <<rowVars, canceled, uploads, down, failing, history, faults>>

\* The loop is done with the snapshot it is at.
Passed(pc) == [loop EXCEPT !.pc = pc, !.at = @ + 1, !.retried = FALSE]
Goto(pc) == loop' = [loop EXCEPT !.pc = pc]
LoopOnly == UNCHANGED <<rowVars, canceled, job, uploads, down, failing, history>>

\* Nothing is left to capture of a snapshot that is settled, or of a canceled build.
Over(s) == snap[s] \in Settled \/ canceled

\* The next snapshot, and its row: a shutdown throws, and the deadline breaks the loop.
Check ==
  /\ loop.pc = "check"
  /\ IF loop.at > GroupSize THEN Goto("drain")
     ELSE IF ShuttingDown THEN Goto("throw")
     ELSE IF loop.aborted THEN Goto("drain")
     ELSE IF Over(loop.at) THEN loop' = Passed("check")
     ELSE Goto("write")
  /\ LoopOnly /\ UNCHANGED faults

\* updateStatus spares a canceled row only.
Processing(s) == snap' = Unless("processing", s) /\ UNCHANGED <<hash, bucket>>

Write ==
  /\ loop.pc = "write"
  /\ Processing(loop.at) /\ Goto("shoot")
  /\ UNCHANGED <<canceled, job, uploads, down, failing, history, faults>>

Shoot == loop.pc = "shoot" /\ ~loop.aborted /\ Goto("add") /\ LoopOnly /\ UNCHANGED faults

\* createUploadQueue: the loop waits for a free slot, and goes on as the upload begins.
SlotFree == Cardinality(Own) < MaxPendingUploads

Add ==
  /\ loop.pc = "add" /\ SlotFree
  /\ uploads' = uploads \cup {[of |-> loop.at, in |-> job.attempt, pc |-> "put"]}
  /\ loop' = Passed("check")
  /\ UNCHANGED <<rowVars, canceled, job, down, failing, history, faults>>

\* The capture throws, in the database or on the page.  A shutdown leaves the group for a
\* retry, and so does the deadline, which closed the page.  A story that hung is tried once more.
ShootFails ==
  /\ loop.at \in Snapshots /\ loop.pc \in {"check", "write", "shoot"}
  /\ IF ShuttingDown THEN Goto("throw")
     ELSE IF loop.aborted THEN Goto("drain")
     ELSE \/ Goto("mark")
          \/ /\ loop.pc = "shoot" /\ ~loop.retried
             /\ loop' = [loop EXCEPT !.pc = "relaunch", !.retried = TRUE]
  /\ LoopOnly /\ UNCHANGED faults

\* markSnapshotErrored
ErrorOf(s) == snap' = Unless("error", s) /\ UNCHANGED <<hash, bucket>>

\* A page that timed out is never used again, nor a closed one.
Mark ==
  /\ loop.pc = "mark"
  /\ ErrorOf(loop.at)
  /\ loop' \in {Passed("check"), Passed("relaunch")}
  /\ UNCHANGED <<canceled, job, uploads, down, failing, history, faults>>

\* The browser is back, or fails to launch, which errors all that is left of the group.
Relaunch ==
  /\ loop.pc = "relaunch"
  /\ \/ Goto("check") /\ UNCHANGED faults
     \/ Goto("markall") /\ Fault
  /\ LoopOnly

MarkAll ==
  /\ loop.pc = "markall"
  /\ IF loop.at > GroupSize
     THEN Goto("drain") /\ UNCHANGED rowVars
     ELSE ErrorOf(loop.at) /\ loop' = [loop EXCEPT !.at = @ + 1]
  /\ UNCHANGED <<canceled, job, uploads, down, failing, history, faults>>

\* A write of the loop itself fails.
MarkFails == loop.pc \in {"mark", "markall"} /\ Fault /\ Goto("throw") /\ LoopOnly

\* Mutant: the group ends while its uploads go on.
NotDraining == TRUE

\* uploads.drain, in the end or in the finally clause: every upload has settled.
Drained == Own = {}

Rejected ==
  job' = IF job.attempt < Attempts THEN [st |-> "waiting", attempt |-> job.attempt + 1]
         ELSE [job EXCEPT !.st = "failed"]
\* The last attempt's failure starts capture.failed.
FailedNext == failing' = IF job.attempt < Attempts THEN failing ELSE [failing EXCEPT !.at = 1]

\* Mutant: an upload that was interrupted is not reported.
OnlyFailures == loop.pc = "throw" \/ loop.aborted \/ loop.failed

\* A failed upload that could not be recorded, or one interrupted by the shutdown, fails the
\* group; past the deadline its result is not waited for.
GroupFails == loop.pc = "throw" \/ loop.aborted \/ loop.failed \/ loop.interrupted

End ==
  /\ loop.pc \in {"drain", "throw"} /\ Drained
  /\ IF GroupFails THEN Rejected /\ FailedNext
     ELSE job' = [job EXCEPT !.st = "done"] /\ UNCHANGED failing
  /\ loop' = NoLoop
  /\ UNCHANGED <<rowVars, canceled, uploads, down, history, faults>>

-----------------------------------------------------------------------------
(* persistCapturedSnapshot *)

Step(u, pc) == uploads' = (uploads \ {u}) \cup {[u EXCEPT !.pc = pc]}
Done(u) == uploads' = uploads \ {u}
Beside == UNCHANGED <<canceled, job, down, failing, given>>
Unwritten == Beside /\ UNCHANGED late

\* The write of an attempt that was given up is a late one.
Written(u) == Beside /\ late' = IF u.in \in given THEN late \cup {u.of} ELSE late

Put(u) ==
  /\ u.pc = "put"
  /\ bucket' = [bucket EXCEPT ![u.of] = u.in]
  /\ Step(u, "row")
  /\ UNCHANGED <<snap, hash, loop, faults>> /\ Written(u)

\* Mutant: the result is stored whether the snapshot was canceled or not.
AlwaysStored(s) == TRUE

\* updateCaptureResult finds the row unless it was canceled.
Storable(s) == snap[s] # "canceled"

Store(u) ==
  /\ u.pc = "row"
  /\ IF Storable(u.of)
     THEN /\ snap' = [snap EXCEPT ![u.of] = "success"]
          /\ hash' = [hash EXCEPT ![u.of] = u.in]
          /\ Step(u, "diff")
     ELSE Done(u) /\ UNCHANGED <<snap, hash>>
  /\ UNCHANGED <<bucket, loop, faults>> /\ Written(u)

Queue(u) ==
  /\ u.pc = "diff"
  /\ Done(u)
  /\ UNCHANGED <<rowVars, loop, faults>> /\ Unwritten

\* The upload, its row or its diff fails: a shutdown, which may be why, leaves the snapshot for
\* a retry.
UploadFails(u) ==
  /\ u.pc \in {"put", "row", "diff"}
  /\ IF u.in \in down
     THEN /\ Done(u) /\ UNCHANGED faults
          /\ loop' = IF u.in = job.attempt THEN [loop EXCEPT !.interrupted = TRUE] ELSE loop
     ELSE Step(u, "err") /\ Fault /\ UNCHANGED loop
  /\ UNCHANGED rowVars /\ Unwritten

UploadMark(u) ==
  /\ u.pc = "err"
  /\ ErrorOf(u.of)
  /\ Done(u)
  /\ UNCHANGED <<loop, faults>> /\ Written(u)

\* What failed the upload fails its mark too: the failure is kept for the drain.
UploadMarkFails(u) ==
  /\ u.pc = "err"
  /\ Done(u)
  /\ loop' = IF u.in = job.attempt THEN [loop EXCEPT !.failed = TRUE] ELSE loop
  /\ UNCHANGED <<rowVars, faults>> /\ Unwritten

-----------------------------------------------------------------------------
(* What the loop was doing goes on when its attempt is given up. *)

LateRead(u) ==
  /\ u.pc = "read"
  /\ IF Over(u.of) THEN Done(u) ELSE Step(u, "write")
  /\ UNCHANGED <<rowVars, loop, faults>> /\ Unwritten

\* The page, closed at the deadline or not, may still give a screenshot.
LateWrite(u) ==
  /\ u.pc = "write"
  /\ Processing(u.of)
  /\ Step(u, "put")
  /\ UNCHANGED <<loop, faults>> /\ Written(u)

\* The snapshot it was at, when it was marking one, and all that is left if no browser comes.
LateMarkAll(u) ==
  /\ u.pc = "markall"
  /\ ErrorOf(u.of)
  /\ uploads' = (uploads \ {u}) \cup
       IF u.of = GroupSize THEN {} ELSE {[u EXCEPT !.of = @ + 1]}
  /\ UNCHANGED <<loop, faults>> /\ Written(u)

-----------------------------------------------------------------------------
(* Time, shutdown and failure *)

\* withTimeout: the deadline aborts the group.
Deadline ==
  /\ loop.pc # "idle" /\ ~loop.aborted
  /\ loop' = [loop EXCEPT !.aborted = TRUE]
  /\ LoopOnly /\ UNCHANGED faults

\* Mutant: a group that was aborted is waited for until it settles.
NoGrace == loop.aborted /\ loop.pc \in {"drain", "throw"} /\ Own = {}

GraceOver == loop.aborted

\* What the loop was doing, which nothing stops: it ends by itself, or hangs for ever.
GoesOn ==
  CASE loop.pc = "check"                            -> {"read"}
    [] loop.pc = "write"                            -> {"write"}
    [] loop.pc \in {"shoot", "add"}                -> {"put"}
    [] loop.pc \in {"mark", "relaunch", "markall"} -> {"markall"}
    [] OTHER                                       -> {}

LeftOver ==
  {[of |-> s, in |-> job.attempt, pc |-> pc] : s \in {loop.at} \cap Snapshots, pc \in GoesOn}

\* The group has not settled by the end of its grace: the job fails without it.
Grace ==
  /\ GraceOver
  /\ Rejected /\ FailedNext
  /\ uploads' = uploads \cup LeftOver
  /\ given' = given \cup {job.attempt}
  /\ loop' = NoLoop
  /\ UNCHANGED <<rowVars, canceled, down, late, faults>>

\* A worker shuts down: that of the current attempt, or one that still writes for an earlier.
Shutdown ==
  /\ Fault
  /\ \E a \in (1..Attempts) \ down :
       /\ (a = job.attempt /\ loop.pc # "idle") \/ \E u \in uploads : u.in = a
       /\ down' = down \cup {a}
  /\ UNCHANGED <<rowVars, canceled, job, loop, uploads, failing, history>>

\* The bundle or the browser is not there: the attempt fails before its first snapshot.
LaunchFails ==
  /\ loop = [NoLoop EXCEPT !.pc = "check"] /\ Fault
  /\ Rejected /\ FailedNext
  /\ loop' = NoLoop
  /\ UNCHANGED <<rowVars, canceled, uploads, down, history>>

\* The worker dies with its writes, those of an earlier attempt among them if it was its worker
\* too: another one takes the stalled job.
Dies ==
  /\ loop.pc # "idle" /\ Fault
  /\ job' = [job EXCEPT !.st = "waiting"]
  /\ uploads' \in {uploads \ Own, {}}
  /\ down' = down \ {job.attempt}
  /\ loop' = NoLoop
  /\ UNCHANGED <<rowVars, canceled, failing, history>>

\* cancelBuild, or the reaper
Cancel ==
  /\ ~canceled
  /\ canceled' = TRUE
  /\ snap' = [s \in Snapshots |-> IF snap[s] \in Settled THEN snap[s] ELSE "canceled"]
  /\ UNCHANGED <<hash, bucket, job, loop, uploads, down, failing, history, faults>>

\* capture.failed takes the snapshots in turn.
FailedRead ==
  /\ failing.at \in Snapshots /\ ~failing.read
  /\ failing' = IF snap[failing.at] \in {"success", "canceled"} THEN [failing EXCEPT !.at = @ + 1]
                ELSE [failing EXCEPT !.read = TRUE]
  /\ UNCHANGED <<rowVars, canceled, job, loop, uploads, down, history, faults>>

FailedMark ==
  /\ failing.read
  /\ snap' = Unless("error", failing.at)
  /\ failing' = [at |-> failing.at + 1, read |-> FALSE]
  /\ UNCHANGED <<hash, bucket, canceled, job, loop, uploads, down, history, faults>>

-----------------------------------------------------------------------------
Loop == Check \/ Write \/ Shoot \/ Add \/ ShootFails \/ Mark \/ Relaunch \/ MarkAll \/ End
Upload(u) ==
  Put(u) \/ Store(u) \/ Queue(u) \/ UploadMark(u) \/ LateRead(u) \/ LateWrite(u) \/ LateMarkAll(u)
Failed == FailedRead \/ FailedMark
Faults == MarkFails \/ Shutdown \/ LaunchFails \/ Dies \/ \E u \in uploads : UploadFails(u) \/ UploadMarkFails(u)

Next ==
  \/ Run \/ Loop \/ Deadline \/ Grace \/ Failed \/ Cancel \/ Faults
  \/ \E u \in uploads : Upload(u)

\* Workers take waiting jobs, timers fire and failed jobs are handled.  Nothing is assumed of
\* the browser, the storage or the database: a page, an upload or a write may hang for ever.
Fairness == WF_vars(Run) /\ WF_vars(Deadline) /\ WF_vars(Grace) /\ WF_vars(Failed)

Spec == Init /\ [][Next]_vars /\ Fairness
-----------------------------------------------------------------------------
(* Properties *)

\* A group that completes leaves no snapshot behind, whichever of its pages hung, browsers
\* closed or uploads failed, and whenever the worker was shut down (captureBuildGroup); but an
\* attempt that was given up may write the row later, and leave it processing.
CompletedIsSettled ==
  job.st = "done" =>
    \A s \in Snapshots : snap[s] \in Settled \/ (snap[s] = "processing" /\ s \in late)

\* The image under a captured snapshot's path is the one its row has the hash of, though
\* retried attempts share the path, unless an attempt that was given up wrote either later.
ImageOfRow == \A s \in Snapshots \ late : hash[s] # 0 => hash[s] = bucket[s]

\* A canceled snapshot stays canceled, whatever was under way.
CanceledStays == [][\A s \in Snapshots : snap[s] = "canceled" => snap'[s] = "canceled"]_vars

\* A group ends even if its browser or its uploads hang for ever (withTimeout).
GroupEnds == <>(job.st \in {"done", "failed"} /\ failing.at \notin Snapshots)
=============================================================================
