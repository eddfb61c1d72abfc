-------------------------- MODULE CaptureGroupProofs --------------------------
(***************************************************************************)
(* For a group of any size, any number of attempts, pending uploads and    *)
(* faults: a group that completes has settled its snapshots, a captured    *)
(* snapshot has its own image, and a canceled one stays canceled.          *)
(***************************************************************************)
EXTENDS CaptureGroup, TLAPS

\* An attempt that was given up may unsettle a snapshot.
Fine(s) == snap[s] \in Settled \/ s \in late
AllFine == \A s \in Snapshots : Fine(s)

\* The loop runs while its job is active, and is at a snapshot while it works on one.
Running ==
  /\ loop.pc # "idle" => job.st = "active"
  /\ loop.aborted => loop.pc # "idle"
  /\ loop.pc \in {"write", "shoot", "add", "mark"} => loop.at \in Snapshots
  /\ failing.at # 0 \/ failing.read => job.st = "failed"

\* What is under way is of this attempt, one for each snapshot passed, or of one given up.
Given ==
  /\ \A a \in given : a < job.attempt \/ (a = job.attempt /\ job.st = "failed")
  /\ \A u \in uploads :
       /\ u.in \in given \/ (u.in = job.attempt /\ loop.pc # "idle" /\ u.of < loop.at)
       /\ u.pc \in {"read", "write", "markall"} => u.in \in given
  /\ \A u, v \in uploads : u.of = v.of /\ u.in \notin given /\ v.in \notin given => u = v

\* Whatever the loop has passed is settled, being uploaded, or reported as a failure.
Covered ==
  loop.pc # "idle" =>
    \A s \in Snapshots : s < loop.at =>
      Fine(s) \/ loop.failed \/ loop.interrupted \/ \E u \in Own : u.of = s

\* Only the deadline ends the loop before the last snapshot.
DrainedAll == loop.pc = "drain" /\ ~loop.aborted => loop.at > GroupSize

EndedSettled == canceled \/ job.st = "done" => AllFine

\* Only a stored result has its diff queued.
Stored == \A u \in uploads : u.pc = "diff" => Fine(u.of)

\* Between its read and its write, only a cancellation or an attempt that was given up settles
\* the snapshot the loop is at.
Fresh ==
  loop.pc = "write" => snap[loop.at] \notin Settled \/ snap[loop.at] = "canceled" \/ loop.at \in late

\* What is captured, or written late, has begun.
Begun ==
  /\ \A s \in late : snap[s] # "queued"
  /\ \A u \in uploads : u.pc \in {"read", "write", "markall"} \/ snap[u.of] # "queued"
  /\ loop.pc \in {"shoot", "add"} => snap[loop.at] # "queued"

\* Without a late write, the image of a captured snapshot is its own, and none is captured twice.
Images ==
  \A s \in Snapshots \ late :
    /\ hash[s] # 0 => hash[s] = bucket[s] /\ snap[s] \in Settled
    /\ loop.pc \in {"write", "shoot", "add"} /\ loop.at = s => hash[s] = 0
    /\ \A u \in uploads : u.of = s /\ u.in \notin given =>
         (u.pc \in {"put", "row"} => hash[s] = 0) /\ (u.pc = "row" => bucket[s] = u.in)

IInv ==
  /\ TypeOK /\ Running /\ Given /\ Covered /\ DrainedAll
  /\ EndedSettled /\ Stored /\ Fresh /\ Begun /\ Images

LEMMA SnapshotsAreNumbers == \A s : s \in Snapshots <=> s \in Nat \ {0} /\ s <= GroupSize
BY SizesAssumption DEF Snapshots

LEMMA InitHolds == Init => IInv
<1> SUFFICES ASSUME Init PROVE IInv
  OBVIOUS
<1>1. TypeOK
  <2>1. snap \in [Snapshots -> SnapStatus] /\ hash \in [Snapshots -> Nat] /\ bucket \in [Snapshots -> Nat]
    BY DEF Init, SnapStatus
  <2>2. canceled \in BOOLEAN /\ given \subseteq Nat /\ late \subseteq Snapshots /\ uploads \subseteq UploadShape
    BY DEF Init
  <2>3. job \in JobShape /\ failing \in FailingShape
    BY DEF Init, JobShape, FailingShape
  <2>4. loop \in LoopShape
    BY DEF Init, NoLoop, LoopShape
  <2> QED  BY <2>1, <2>2, <2>3, <2>4 DEF TypeOK
<1>2. /\ loop.pc = "idle" /\ ~loop.aborted /\ uploads = {} /\ given = {} /\ late = {}
      /\ job.st = "waiting" /\ ~canceled /\ failing.at = 0 /\ ~failing.read
  BY DEF Init, NoLoop
<1>3. Running /\ Given /\ Covered /\ DrainedAll /\ EndedSettled /\ Stored /\ Fresh /\ Begun
  BY <1>2 DEF Running, Given, Covered, DrainedAll, EndedSettled, Stored, Fresh, Begun
<1>4. \A s \in Snapshots : hash[s] = 0
  BY DEF Init
<1>5. Images
  BY <1>2, <1>4 DEF Images
<1> QED  BY <1>1, <1>3, <1>5 DEF IInv

-----------------------------------------------------------------------------
(* The steps by what they touch *)

\* What was settled stays settled, unless it is written late, and what has begun has.
Keeps ==
  /\ \A s \in Snapshots : snap[s] \in Settled => snap'[s] \in Settled \/ s \in late'
  /\ \A s \in Snapshots : snap[s] # "queued" => snap'[s] # "queued"

LEMMA UnlessKeeps ==
  ASSUME TypeOK, NEW status \in SnapStatus, NEW s, snap' = Unless(status, s)
  PROVE  /\ snap' \in [Snapshots -> SnapStatus]
         /\ \A t \in Snapshots : t # s => snap'[t] = snap[t]
         /\ s \in Snapshots => snap'[s] \in {status, "canceled"}
         /\ \A t \in Snapshots : snap[t] = "canceled" => snap'[t] = "canceled"
         /\ status = "error" => Keeps
<1>1. snap \in [Snapshots -> SnapStatus]
  BY DEF TypeOK
<1>2. \A t \in Snapshots :
        snap'[t] = IF t = s THEN (IF snap[t] = "canceled" THEN "canceled" ELSE status) ELSE snap[t]
  BY <1>1 DEF Unless
<1>3. snap' \in [Snapshots -> SnapStatus]
  BY <1>1 DEF Unless, SnapStatus
<1> QED  BY <1>1, <1>2, <1>3 DEF Keeps, Settled

\* The uploads of the attempt that runs are not of one given up.
LEMMA OwnRuns ==
  ASSUME IInv, loop.pc # "idle"
  PROVE  /\ job.attempt \notin given
         /\ \A u \in uploads : u.in = job.attempt <=> u.in \notin given
<1>1. job.attempt \in Nat /\ job.st = "active"
  BY DEF IInv, TypeOK, JobShape, Running
<1>2. job.attempt \notin given
  BY <1>1 DEF IInv, Given
<1> QED  BY <1>2 DEF IInv, Given

\* A step of the loop: what it passes is settled.
LEMMA LoopStep ==
  ASSUME IInv, loop.pc # "idle",
         UNCHANGED <<hash, bucket, canceled, job, uploads, failing, given, late>>,
         snap' \in [Snapshots -> SnapStatus], Keeps,
         loop' \in LoopShape, loop'.pc # "idle", loop'.at >= loop.at,
         loop.failed => loop'.failed, loop.interrupted => loop'.interrupted,
         \A s \in Snapshots : loop.at <= s /\ s < loop'.at => snap'[s] \in Settled \/ s \in late,
         loop'.pc \in {"write", "shoot", "add", "mark"} => loop'.at \in Snapshots,
         loop'.pc = "drain" /\ ~loop'.aborted => loop'.at > GroupSize,
         loop'.pc = "write" =>
           snap'[loop'.at] \notin Settled \/ snap'[loop'.at] = "canceled" \/ loop'.at \in late,
         loop'.pc \in {"shoot", "add"} => snap'[loop'.at] # "queued",
         loop'.pc \in {"write", "shoot", "add"} /\ loop'.at \notin late => hash[loop'.at] = 0
  PROVE  IInv'
<1>1. TypeOK' /\ Running' /\ DrainedAll' /\ Fresh'
  BY DEF IInv, TypeOK, Running, DrainedAll, Fresh
<1>2. EndedSettled'
  BY DEF IInv, EndedSettled, AllFine, Fine, Keeps
<1>3. loop.at \in Nat /\ loop'.at \in Nat /\ \A s \in Snapshots : s \in Nat
  BY SnapshotsAreNumbers DEF IInv, TypeOK, LoopShape
<1>4. Covered'
  <2> SUFFICES ASSUME NEW s \in Snapshots, s < loop'.at
               PROVE  \/ snap'[s] \in Settled \/ s \in late \/ loop'.failed \/ loop'.interrupted
                      \/ \E u \in Own' : u.of = s
    BY DEF Covered, Fine
  <2>1. Own' = Own
    BY DEF Own
  <2>2. CASE s < loop.at
    BY <2>1, <2>2 DEF IInv, Covered, Fine, Keeps
  <2>3. CASE ~(s < loop.at)
    BY <1>3, <2>3
  <2> QED  BY <2>2, <2>3
<1>5. \A u \in uploads : u.of \in Snapshots /\ u.of \in Nat
  BY <1>3 DEF IInv, TypeOK, UploadShape
<1>6. Given'
  <2>1. \A u \in uploads : u.of < loop.at => u.of < loop'.at
    BY <1>3, <1>5
  <2> QED  BY <2>1 DEF IInv, Given
<1>7. Images'
  BY <1>5 DEF IInv, Images, Keeps
<1>8. Stored'
  BY <1>5 DEF IInv, Stored, Fine, Keeps
<1>9. Begun'
  BY <1>5 DEF IInv, TypeOK, Begun, Keeps
<1> QED  BY <1>1, <1>2, <1>4, <1>6, <1>7, <1>8, <1>9 DEF IInv

\* An attempt is over: none of its writes is under way, or it was given up.
LEMMA AttemptOver ==
  ASSUME IInv, UNCHANGED <<snap, hash, bucket, canceled, late>>,
         loop' = NoLoop, job' \in JobShape, job'.st = "done" => AllFine,
         failing' \in FailingShape, failing'.at # 0 \/ failing'.read => job'.st = "failed",
         uploads' \subseteq UploadShape, given \subseteq given', given' \subseteq Nat,
         \A a \in given' : a < job'.attempt \/ (a = job'.attempt /\ job'.st = "failed"),
         \A u \in uploads' : u.in \in given',
         \A u \in uploads' : u.pc = "diff" => u \in uploads,
         \A u \in uploads' : u.pc \in {"read", "write", "markall"} \/ snap[u.of] # "queued"
  PROVE  IInv'
<1>1. loop'.pc = "idle" /\ ~loop'.aborted /\ loop' \in LoopShape
  BY DEF NoLoop, LoopShape
<1>2. TypeOK' /\ Running' /\ DrainedAll' /\ Covered' /\ Fresh'
  BY <1>1 DEF IInv, TypeOK, Running, DrainedAll, Covered, Fresh
<1>3. EndedSettled'
  BY DEF EndedSettled, AllFine, Fine, IInv
<1>4. Given'
  BY DEF Given
<1>5. Stored' /\ Begun'
  BY <1>1 DEF Stored, Begun, Fine, IInv
<1>6. Images'
  BY <1>1 DEF Images, IInv
<1> QED  BY <1>2, <1>3, <1>4, <1>5, <1>6 DEF IInv

\* A step outside of the loop and its uploads.
LEMMA RowStep ==
  ASSUME IInv, UNCHANGED <<hash, bucket, job, loop, uploads, given, late>>,
         snap' \in [Snapshots -> SnapStatus], Keeps,
         loop.pc # "idle" => \A s \in Snapshots : snap'[s] \in {snap[s], "canceled"},
         canceled' \in BOOLEAN, canceled' => canceled \/ AllFine', failing' \in FailingShape,
         failing'.at # 0 \/ failing'.read => job.st = "failed"
  PROVE  IInv'
<1>1. TypeOK' /\ Running' /\ DrainedAll' /\ Given'
  BY DEF IInv, TypeOK, Running, DrainedAll, Given
<1>2. EndedSettled'
  BY DEF IInv, EndedSettled, AllFine, Fine, Keeps
<1>3. Covered'
  BY DEF IInv, Covered, Fine, Own, Keeps
<1>4. Images'
  BY DEF IInv, Images, Keeps
<1>5. Stored'
  BY DEF IInv, Stored, Fine, Keeps, TypeOK, UploadShape
<1>6. Fresh'
  BY DEF IInv, Fresh, Running
<1>7. Begun'
  BY DEF IInv, TypeOK, UploadShape, Begun, Running, Keeps
<1> QED  BY <1>1, <1>2, <1>3, <1>4, <1>5, <1>6, <1>7 DEF IInv

-----------------------------------------------------------------------------
(* The loop *)

LEMMA RunOk == IInv /\ Run => IInv'
<1> SUFFICES ASSUME IInv, Run PROVE IInv'
  OBVIOUS
<1>1. UNCHANGED <<snap, hash, bucket, canceled, uploads, failing, given, late>>
      /\ job.st = "waiting" /\ loop.pc = "idle"
  BY DEF Run, rowVars, history, IInv, Running
<1>2. TypeOK /\ job \in JobShape
  BY DEF IInv, TypeOK
<1>3. job' \in JobShape /\ job'.attempt = job.attempt /\ job'.st \in {"done", "active"}
      /\ (job'.st = "done" => canceled /\ loop' = loop)
      /\ (job'.st = "active" => loop' = [NoLoop EXCEPT !.pc = "check"])
  BY <1>2 DEF Run, JobShape
<1>4. /\ loop' \in LoopShape /\ loop'.pc \in {"idle", "check"} /\ loop'.at \in Nat
      /\ (loop'.pc = "check" => loop'.at = 1 /\ job'.st = "active")
      /\ (loop'.aborted => loop'.pc # "idle")
  <2>1. loop \in LoopShape /\ ~loop.aborted
    BY <1>1 DEF IInv, TypeOK, Running
  <2>2. CASE job'.st = "done"
    BY <1>1, <1>3, <2>1, <2>2 DEF LoopShape
  <2>3. CASE job'.st = "active"
    <3>1. loop' = [pc |-> "check", at |-> 1, retried |-> FALSE,
                   aborted |-> FALSE, failed |-> FALSE, interrupted |-> FALSE]
      BY <1>3, <2>3 DEF NoLoop
    <3> QED  BY <2>3, <3>1 DEF LoopShape
  <2> QED  BY <1>3, <2>2, <2>3
<1>5. failing.at = 0 /\ ~failing.read /\ job.attempt \notin given /\ \A u \in uploads : u.in \in given
  <2>1. job.attempt \in Nat
    BY <1>2 DEF JobShape
  <2> QED  BY <1>1, <2>1 DEF IInv, Running, Given, TypeOK, FailingShape
<1>6. TypeOK' /\ Running' /\ DrainedAll' /\ Fresh'
  BY <1>1, <1>2, <1>3, <1>4, <1>5 DEF TypeOK, Running, DrainedAll, Fresh
<1>7. Covered'
  BY <1>4, SnapshotsAreNumbers DEF Covered
<1>8. Given'
  BY <1>1, <1>3, <1>5 DEF IInv, Given
<1>9. Stored' /\ Begun' /\ Images'
  BY <1>1, <1>4 DEF IInv, Stored, Fine, Begun, Images
<1>10. EndedSettled'
  BY <1>1, <1>3 DEF IInv, EndedSettled, AllFine, Fine
<1> QED  BY <1>6, <1>7, <1>8, <1>9, <1>10 DEF IInv

\* The loop moves on, its place and what it reports aside.
LEMMA GotoShape ==
  ASSUME TypeOK,
         NEW pc \in {"check", "write", "shoot", "add", "mark", "relaunch", "markall", "drain", "throw"}
  PROVE  /\ [loop EXCEPT !.pc = pc] \in LoopShape
         /\ Passed(pc) \in LoopShape
         /\ Passed(pc).pc = pc /\ Passed(pc).at = loop.at + 1
         /\ Passed(pc).failed = loop.failed /\ Passed(pc).interrupted = loop.interrupted
         /\ Passed(pc).aborted = loop.aborted
<1>1. loop \in LoopShape /\ loop.at \in Nat \ {0}
  BY DEF TypeOK, LoopShape
<1>2. PICK n \in Nat \ {0} : n = loop.at + 1
  BY <1>1
<1> QED  BY <1>1, <1>2 DEF Passed, LoopShape

\* The loop stays where it is, with the same reports.
LEMMA SamePlace ==
  ASSUME IInv, UNCHANGED <<snap, hash, bucket, canceled, job, uploads, failing, given, late>>,
         loop.pc # "idle", loop' \in LoopShape, loop'.pc # "idle", loop'.at = loop.at,
         loop'.failed = loop.failed, loop'.interrupted = loop.interrupted, loop.aborted => loop'.aborted,
         loop'.pc = "drain" => loop'.aborted \/ loop.pc = "drain" \/ loop.at > GroupSize,
         loop'.pc = "write" => loop.at \in Snapshots /\ (loop.pc = "write" \/ snap[loop.at] \notin Settled),
         loop'.pc \in {"shoot", "add"} => loop.pc \in {"shoot", "add"},
         loop'.pc = "mark" => loop.at \in Snapshots
  PROVE  IInv'
<1>1. loop'.at >= loop.at /\ \A s \in Snapshots : ~(loop.at <= s /\ s < loop'.at)
  BY SnapshotsAreNumbers DEF IInv, TypeOK, LoopShape
<1>2. loop'.pc = "drain" /\ ~loop'.aborted => loop'.at > GroupSize
  BY DEF IInv, DrainedAll
<1>3. loop'.pc \in {"write", "shoot", "add", "mark"} => loop'.at \in Snapshots
  BY DEF IInv, Running
<1>4. loop'.pc \in {"write", "shoot", "add"} /\ loop'.at \notin late => hash[loop'.at] = 0
  BY <1>3 DEF IInv, Images
<1>5. loop'.pc = "write" =>
        snap'[loop'.at] \notin Settled \/ snap'[loop'.at] = "canceled" \/ loop'.at \in late
  BY DEF IInv, Fresh
<1>6. loop'.pc \in {"shoot", "add"} => snap'[loop'.at] # "queued"
  BY DEF IInv, Begun
<1>7. Keeps /\ snap' \in [Snapshots -> SnapStatus]
  BY DEF Keeps, IInv, TypeOK
<1>8. \A s \in Snapshots : loop.at <= s /\ s < loop'.at => snap'[s] \in Settled \/ s \in late
  BY <1>1
<1> QED  BY <1>1, <1>2, <1>3, <1>4, <1>5, <1>6, <1>7, <1>8, LoopStep

LEMMA CheckOk == IInv /\ Check => IInv'
<1> SUFFICES ASSUME IInv, Check PROVE IInv'
  OBVIOUS
<1>1. UNCHANGED <<snap, hash, bucket, canceled, job, uploads, failing, given, late>> /\ loop.pc = "check"
  BY DEF Check, LoopOnly, rowVars, history
<1>2. TypeOK /\ loop \in LoopShape /\ loop.at \in Nat \ {0} /\ GroupSize \in Nat
  BY SizesAssumption DEF IInv, TypeOK, LoopShape
<1>3. CASE \/ Goto("drain") /\ (loop.at > GroupSize \/ loop.aborted)
           \/ Goto("throw")
  <2>1. /\ loop' \in LoopShape /\ loop'.pc \in {"drain", "throw"} /\ loop'.at = loop.at
        /\ loop'.failed = loop.failed /\ loop'.interrupted = loop.interrupted /\ loop'.aborted = loop.aborted
        /\ (loop'.pc = "drain" => loop.at > GroupSize \/ loop'.aborted)
    BY <1>2, <1>3 DEF Goto, LoopShape
  <2> QED  BY <1>1, <2>1, SamePlace
<1>4. CASE loop.at \in Snapshots /\ Over(loop.at) /\ loop' = Passed("check")
  <2>1. Fine(loop.at)
    BY <1>4 DEF Over, Fine, IInv, EndedSettled, AllFine
  <2>2. /\ loop' \in LoopShape /\ loop'.pc = "check" /\ loop'.at = loop.at + 1
        /\ loop'.failed = loop.failed /\ loop'.interrupted = loop.interrupted
    BY <1>2, <1>4, GotoShape
  <2>3. loop'.at >= loop.at /\ \A s \in Snapshots : loop.at <= s /\ s < loop'.at => s = loop.at
    BY <1>2, <2>2, SnapshotsAreNumbers
  <2>4. \A s \in Snapshots : loop.at <= s /\ s < loop'.at => snap'[s] \in Settled \/ s \in late
    BY <1>1, <2>1, <2>3 DEF Fine
  <2>5. Keeps /\ snap' \in [Snapshots -> SnapStatus]
    BY <1>1, <1>2 DEF Keeps, TypeOK
  <2>6. loop.pc # "idle" /\ loop'.pc \notin {"idle", "write", "shoot", "add", "mark", "drain"}
    BY <1>1, <2>2
  <2> QED  BY <1>1, <2>2, <2>3, <2>4, <2>5, <2>6, LoopStep
<1>5. CASE loop.at \in Snapshots /\ ~Over(loop.at) /\ Goto("write")
  <2>1. /\ loop' \in LoopShape /\ loop'.pc = "write" /\ loop'.at = loop.at /\ loop'.aborted = loop.aborted
        /\ loop'.failed = loop.failed /\ loop'.interrupted = loop.interrupted
    BY <1>2, <1>5 DEF Goto, LoopShape
  <2>2. snap[loop.at] \notin Settled
    BY <1>5 DEF Over
  <2> QED  BY <1>1, <1>5, <2>1, <2>2, SamePlace
<1> QED  BY <1>2, <1>3, <1>4, <1>5, SnapshotsAreNumbers DEF Check

\* The write finds the row as it was read, canceled, or written late.
LEMMA WriteOk == IInv /\ Write => IInv'
<1> SUFFICES ASSUME IInv, Write PROVE IInv'
  OBVIOUS
<1>1. UNCHANGED <<hash, bucket, canceled, job, uploads, failing, given, late>> /\ loop.pc = "write"
      /\ snap' = Unless("processing", loop.at) /\ loop' = [loop EXCEPT !.pc = "shoot"]
  BY DEF Write, Processing, Goto, history
<1>2. TypeOK /\ loop \in LoopShape /\ loop.at \in Snapshots /\ loop.at \in Nat
      /\ snap \in [Snapshots -> SnapStatus]
  BY <1>1, SnapshotsAreNumbers DEF IInv, TypeOK, Running
<1>3. /\ loop' \in LoopShape /\ loop'.pc = "shoot" /\ loop'.at = loop.at
      /\ loop'.failed = loop.failed /\ loop'.interrupted = loop.interrupted
  BY <1>1, <1>2 DEF LoopShape
<1>4. /\ snap' \in [Snapshots -> SnapStatus] /\ \A t \in Snapshots : t # loop.at => snap'[t] = snap[t]
      /\ snap'[loop.at] \in {"processing", "canceled"}
      /\ (snap[loop.at] = "canceled" => snap'[loop.at] = "canceled")
  BY <1>1, <1>2, UnlessKeeps DEF SnapStatus
<1>5. Keeps
  BY <1>1, <1>4 DEF IInv, Fresh, Keeps, Settled
<1>6. loop'.at >= loop.at /\ \A s \in Snapshots : ~(loop.at <= s /\ s < loop'.at)
  BY <1>2, <1>3, SnapshotsAreNumbers
<1>7. loop'.at \in Snapshots /\ snap'[loop'.at] # "queued" /\ (loop'.at \notin late => hash[loop'.at] = 0)
  BY <1>1, <1>2, <1>3, <1>4 DEF IInv, Images
<1>8. \A s \in Snapshots : loop.at <= s /\ s < loop'.at => snap'[s] \in Settled \/ s \in late
  BY <1>6
<1>9. loop.pc # "idle" /\ loop'.pc \notin {"idle", "write", "drain"} /\ snap' \in [Snapshots -> SnapStatus]
  BY <1>1, <1>3, <1>4
<1>10. (loop.failed => loop'.failed) /\ (loop.interrupted => loop'.interrupted)
  BY <1>3
<1> QED  BY <1>1, <1>3, <1>5, <1>6, <1>7, <1>8, <1>9, <1>10, LoopStep

LEMMA ShootOk == IInv /\ (Shoot \/ ShootFails \/ Relaunch \/ MarkFails \/ Deadline) => IInv'
<1> SUFFICES ASSUME IInv, Shoot \/ ShootFails \/ Relaunch \/ MarkFails \/ Deadline PROVE IInv'
  OBVIOUS
<1>1. UNCHANGED <<snap, hash, bucket, canceled, job, uploads, failing, given, late>> /\ loop.pc # "idle"
  BY DEF Shoot, ShootFails, Relaunch, MarkFails, Deadline, LoopOnly, rowVars, history
<1>2. loop \in LoopShape
  BY DEF IInv, TypeOK
<1>3. CASE Shoot
  <2>1. loop.pc = "shoot" /\ loop' = [loop EXCEPT !.pc = "add"]
    BY <1>3 DEF Shoot, Goto
  <2> QED  BY <1>1, <1>2, <2>1, SamePlace DEF LoopShape
<1>4. CASE ShootFails
  <2>1. /\ loop.at \in Snapshots
        /\ \/ loop' = [loop EXCEPT !.pc = "throw"]
           \/ loop.aborted /\ loop' = [loop EXCEPT !.pc = "drain"]
           \/ loop' = [loop EXCEPT !.pc = "mark"]
           \/ loop' = [loop EXCEPT !.pc = "relaunch", !.retried = TRUE]
    BY <1>4 DEF ShootFails, Goto
  <2>2. /\ loop' \in LoopShape /\ loop'.at = loop.at /\ loop'.pc \in {"throw", "drain", "mark", "relaunch"}
        /\ loop'.failed = loop.failed /\ loop'.interrupted = loop.interrupted
        /\ loop'.aborted = loop.aborted /\ (loop'.pc = "drain" => loop'.aborted)
    BY <1>2, <2>1 DEF LoopShape
  <2> QED  BY <1>1, <2>1, <2>2, SamePlace
<1>5. CASE Relaunch \/ MarkFails
  <2>1. PICK pc \in {"check", "markall", "throw"} : loop' = [loop EXCEPT !.pc = pc]
    BY <1>5 DEF Relaunch, MarkFails, Goto
  <2>2. /\ loop' \in LoopShape /\ loop'.at = loop.at /\ loop'.pc = pc
        /\ loop'.failed = loop.failed /\ loop'.interrupted = loop.interrupted /\ loop'.aborted = loop.aborted
    BY <1>2, <2>1 DEF LoopShape
  <2> QED  BY <1>1, <2>2, SamePlace
<1>6. CASE Deadline
  <2>1. loop' = [loop EXCEPT !.aborted = TRUE]
    BY <1>6 DEF Deadline
  <2>2. /\ loop' \in LoopShape /\ loop'.at = loop.at /\ loop'.pc = loop.pc /\ loop'.aborted
        /\ loop'.failed = loop.failed /\ loop'.interrupted = loop.interrupted
    BY <1>2, <2>1 DEF LoopShape
  <2>3. loop.pc \in {"write", "mark"} => loop.at \in Snapshots
    BY DEF IInv, Running
  <2> QED  BY <1>1, <2>2, <2>3, SamePlace
<1> QED  BY <1>3, <1>4, <1>5, <1>6

LEMMA MarkOk == IInv /\ Mark => IInv'
<1> SUFFICES ASSUME IInv, Mark PROVE IInv'
  OBVIOUS
<1>1. UNCHANGED <<hash, bucket, canceled, job, uploads, failing, given, late>> /\ loop.pc = "mark"
      /\ snap' = Unless("error", loop.at)
  BY DEF Mark, ErrorOf, history
<1>2. TypeOK /\ loop.at \in Snapshots /\ loop.at \in Nat
  BY <1>1, SnapshotsAreNumbers DEF IInv, Running
<1>3. PICK pc \in {"check", "relaunch"} : loop' = Passed(pc)
  BY DEF Mark
<1>4. /\ loop' \in LoopShape /\ loop'.pc = pc /\ loop'.at = loop.at + 1
      /\ loop'.failed = loop.failed /\ loop'.interrupted = loop.interrupted
  BY <1>2, <1>3, GotoShape
<1>5. snap' \in [Snapshots -> SnapStatus] /\ Keeps /\ snap'[loop.at] \in Settled
  BY <1>1, <1>2, UnlessKeeps DEF SnapStatus, Settled
<1>6. loop'.at >= loop.at
      /\ \A s \in Snapshots : loop.at <= s /\ s < loop'.at => snap'[s] \in Settled \/ s \in late
  BY <1>2, <1>4, <1>5, SnapshotsAreNumbers
<1>7. loop'.pc \notin {"idle", "write", "shoot", "add", "mark", "drain"} /\ loop.pc # "idle"
  BY <1>1, <1>4
<1> QED  BY <1>1, <1>4, <1>5, <1>6, <1>7, LoopStep

LEMMA MarkAllOk == IInv /\ MarkAll => IInv'
<1> SUFFICES ASSUME IInv, MarkAll PROVE IInv'
  OBVIOUS
<1>1. UNCHANGED <<hash, bucket, canceled, job, uploads, failing, given, late>> /\ loop.pc = "markall"
  BY DEF MarkAll, ErrorOf, rowVars, history
<1>2. TypeOK /\ loop \in LoopShape /\ loop.at \in Nat \ {0} /\ GroupSize \in Nat
  BY SizesAssumption DEF IInv, TypeOK, LoopShape
<1>3. CASE loop.at > GroupSize
  <2>1. loop' = [loop EXCEPT !.pc = "drain"] /\ snap' = snap
    BY <1>3 DEF MarkAll, Goto, rowVars
  <2>2. /\ loop' \in LoopShape /\ loop'.at = loop.at /\ loop'.pc = "drain" /\ loop'.aborted = loop.aborted
        /\ loop'.failed = loop.failed /\ loop'.interrupted = loop.interrupted
    BY <1>2, <2>1 DEF LoopShape
  <2> QED  BY <1>1, <1>3, <2>1, <2>2, SamePlace
<1>4. CASE ~(loop.at > GroupSize)
  <2>1. loop' = [loop EXCEPT !.at = @ + 1] /\ snap' = Unless("error", loop.at)
    BY <1>4 DEF MarkAll, ErrorOf
  <2>2. PICK n \in Nat \ {0} : n = loop.at + 1
    BY <1>2
  <2>3. /\ loop' \in LoopShape /\ loop'.at = loop.at + 1 /\ loop'.pc = "markall"
        /\ loop'.failed = loop.failed /\ loop'.interrupted = loop.interrupted
    BY <1>1, <1>2, <2>1, <2>2 DEF LoopShape
  <2>4. loop.at \in Snapshots
    BY <1>2, <1>4, SnapshotsAreNumbers
  <2>5. snap' \in [Snapshots -> SnapStatus] /\ Keeps /\ snap'[loop.at] \in Settled
    BY <1>2, <2>1, <2>4, UnlessKeeps DEF SnapStatus, Settled
  <2>6. loop'.at >= loop.at
        /\ \A s \in Snapshots : loop.at <= s /\ s < loop'.at => snap'[s] \in Settled \/ s \in late
    BY <1>2, <2>3, <2>5, SnapshotsAreNumbers
  <2>7. loop'.pc \notin {"idle", "write", "shoot", "add", "mark", "drain"} /\ loop.pc # "idle"
    BY <1>1, <2>3
  <2> QED  BY <1>1, <2>3, <2>5, <2>6, <2>7, LoopStep
<1> QED  BY <1>3, <1>4

LEMMA AddOk == IInv /\ Add => IInv'
<1> SUFFICES ASSUME IInv, Add PROVE IInv'
  OBVIOUS
<1>1. UNCHANGED <<snap, hash, bucket, canceled, job, failing, given, late>> /\ loop.pc = "add"
  BY DEF Add, rowVars, history
<1>2. TypeOK /\ loop.at \in Snapshots /\ loop.at \in Nat /\ job.attempt \in Nat
      /\ job.attempt \notin given
  BY <1>1, SnapshotsAreNumbers, OwnRuns DEF IInv, Running, TypeOK, JobShape
<1>3. PICK u : u = [of |-> loop.at, in |-> job.attempt, pc |-> "put"]
  OBVIOUS
<1>4. u \in UploadShape /\ u.of = loop.at /\ u.in = job.attempt /\ u.pc = "put"
  BY <1>2, <1>3 DEF UploadShape
<1>5. uploads' = uploads \cup {u}
  BY <1>3 DEF Add
<1>6. /\ loop' \in LoopShape /\ loop'.pc = "check" /\ loop'.at = loop.at + 1
      /\ loop'.failed = loop.failed /\ loop'.interrupted = loop.interrupted
  BY <1>2, GotoShape DEF Add
<1>7. TypeOK' /\ Running' /\ DrainedAll' /\ EndedSettled' /\ Stored' /\ Fresh' /\ Begun'
  <2>1. uploads' \subseteq UploadShape
    BY <1>4, <1>5 DEF IInv, TypeOK
  <2>2. TypeOK'
    BY <1>1, <1>6, <2>1 DEF IInv, TypeOK
  <2>3. Running' /\ DrainedAll' /\ EndedSettled' /\ Fresh'
    BY <1>1, <1>6 DEF IInv, Running, DrainedAll, EndedSettled, AllFine, Fine, Fresh
  <2>4. Stored' /\ Begun'
    BY <1>1, <1>4, <1>5, <1>6 DEF IInv, Stored, Fine, Begun
  <2> QED  BY <2>2, <2>3, <2>4
<1>8. Covered'
  <2> SUFFICES ASSUME NEW s \in Snapshots, s < loop'.at
               PROVE  \/ snap'[s] \in Settled \/ s \in late \/ loop'.failed \/ loop'.interrupted
                      \/ \E v \in Own' : v.of = s
    BY <1>1 DEF Covered, Fine
  <2>1. Own' = Own \cup {u}
    BY <1>1, <1>4, <1>5 DEF Own
  <2>2. CASE s < loop.at
    BY <1>1, <1>6, <2>1, <2>2 DEF IInv, Covered, Fine
  <2>3. CASE s = loop.at
    BY <1>4, <2>1, <2>3
  <2>4. s < loop.at \/ s = loop.at
    BY <1>2, <1>6, SnapshotsAreNumbers
  <2> QED  BY <2>2, <2>3, <2>4
<1>9. \A v \in uploads : v.of \in Nat /\ (v.in \notin given => v.of < loop.at)
  BY SnapshotsAreNumbers DEF IInv, TypeOK, UploadShape, Given
<1>10. Given'
  <2>1. \A v \in uploads' : v.in \notin given => v.of < loop'.at
    BY <1>2, <1>4, <1>5, <1>6, <1>9
  <2>2. \A v \in uploads : v.in \notin given => v.of # u.of
    BY <1>2, <1>4, <1>9
  <2> QED  BY <1>1, <1>4, <1>5, <1>6, <2>1, <2>2 DEF IInv, Given
<1>11. Images'
  <2> SUFFICES ASSUME NEW s \in Snapshots \ late
               PROVE  /\ hash[s] # 0 => hash[s] = bucket[s] /\ snap[s] \in Settled
                      /\ loop'.pc \in {"write", "shoot", "add"} /\ loop'.at = s => hash[s] = 0
                      /\ \A v \in uploads' : v.of = s /\ v.in \notin given =>
                           (v.pc \in {"put", "row"} => hash[s] = 0) /\ (v.pc = "row" => bucket[s] = v.in)
    BY <1>1 DEF Images
  <2>1. s = loop.at => hash[s] = 0
    BY <1>1 DEF IInv, Images
  <2> QED  BY <1>1, <1>4, <1>5, <1>6, <2>1 DEF IInv, Images
<1> QED  BY <1>7, <1>8, <1>10, <1>11 DEF IInv

-----------------------------------------------------------------------------
(* The end of an attempt *)

LEMMA RejectedShape ==
  ASSUME IInv, Rejected, FailedNext, loop.pc # "idle"
  PROVE  /\ job' \in JobShape /\ job'.st # "done" /\ failing' \in FailingShape
         /\ (failing'.at # 0 \/ failing'.read => job'.st = "failed")
         /\ \A a \in given \cup {job.attempt} :
              a < job'.attempt \/ (a = job'.attempt /\ job'.st = "failed")
<1>1. TypeOK /\ job \in JobShape /\ job.attempt \in Nat /\ job.attempt + 1 \in Nat /\ Attempts \in Nat
  BY SizesAssumption DEF IInv, TypeOK, JobShape
<1>2. job.st = "active" /\ failing.at = 0 /\ ~failing.read /\ given \subseteq Nat
  BY DEF IInv, Running, TypeOK, FailingShape
<1>3. \A a \in given : a \in Nat /\ a < job.attempt
  BY <1>1, <1>2 DEF IInv, Given
<1>4. CASE job.attempt < Attempts
  <2>1. job' = [st |-> "waiting", attempt |-> job.attempt + 1] /\ failing' = failing
    BY <1>4 DEF Rejected, FailedNext
  <2>2. job' \in JobShape /\ job'.st = "waiting" /\ job'.attempt = job.attempt + 1
    BY <1>1, <2>1 DEF JobShape
  <2>3. \A a \in given \cup {job.attempt} : a < job'.attempt
    BY <1>1, <1>3, <2>2
  <2> QED  BY <1>1, <1>2, <2>1, <2>2, <2>3 DEF TypeOK
<1>5. CASE ~(job.attempt < Attempts)
  <2>1. job' = [job EXCEPT !.st = "failed"] /\ failing' = [failing EXCEPT !.at = 1]
    BY <1>5 DEF Rejected, FailedNext
  <2>2. job' \in JobShape /\ job'.st = "failed" /\ job'.attempt = job.attempt
    BY <1>1, <2>1 DEF JobShape
  <2>3. failing' \in FailingShape
    BY <1>1, <2>1 DEF TypeOK, FailingShape
  <2> QED  BY <1>3, <2>2, <2>3
<1> QED  BY <1>4, <1>5

\* A group that ends with nothing to report has passed all its snapshots, and their uploads
\* have settled.
LEMMA EndOk == IInv /\ End => IInv'
<1> SUFFICES ASSUME IInv, End PROVE IInv'
  OBVIOUS
<1>1. UNCHANGED <<snap, hash, bucket, canceled, uploads, given, late>> /\ loop' = NoLoop
      /\ loop.pc \in {"drain", "throw"} /\ Own = {}
  BY DEF End, Drained, rowVars, history
<1>2. \A u \in uploads : u.in \in given
  BY <1>1 DEF IInv, Given, Own
<1>3. TypeOK /\ uploads \subseteq UploadShape /\ given \subseteq Nat /\ failing \in FailingShape
  BY DEF IInv, TypeOK
<1>4. \A u \in uploads : u.pc \in {"read", "write", "markall"} \/ snap[u.of] # "queued"
  BY DEF IInv, Begun
<1>5. CASE GroupFails
  <2>1. Rejected /\ FailedNext
    BY <1>5 DEF End
  <2>2. /\ job' \in JobShape /\ job'.st # "done" /\ failing' \in FailingShape
        /\ (failing'.at # 0 \/ failing'.read => job'.st = "failed")
        /\ \A a \in given : a < job'.attempt \/ (a = job'.attempt /\ job'.st = "failed")
    BY <1>1, <2>1, RejectedShape
  <2> QED  BY <1>1, <1>2, <1>3, <1>4, <2>2, AttemptOver
<1>6. CASE ~GroupFails
  <2>1. job' = [job EXCEPT !.st = "done"] /\ failing' = failing
    BY <1>6 DEF End
  <2>2. job' \in JobShape /\ job'.attempt = job.attempt /\ job.attempt \in Nat /\ job.st = "active"
    BY <1>1, <1>3, <2>1 DEF IInv, Running, TypeOK, JobShape
  <2>3. loop.pc = "drain" /\ ~loop.aborted /\ ~loop.failed /\ ~loop.interrupted
    BY <1>1, <1>6 DEF GroupFails
  <2>4. loop.at > GroupSize /\ loop.at \in Nat /\ GroupSize \in Nat
    BY <1>3, <2>3, SizesAssumption DEF IInv, DrainedAll, TypeOK, LoopShape
  <2>5. \A s \in Snapshots : s < loop.at
    BY <2>4, SnapshotsAreNumbers
  <2>6. AllFine
    BY <1>1, <2>3, <2>5 DEF IInv, Covered, AllFine
  <2>7. failing'.at = 0 /\ ~failing'.read
    BY <2>1, <2>2 DEF IInv, Running, TypeOK, FailingShape
  <2>8. \A a \in given : a < job'.attempt
    BY <2>2 DEF IInv, Given
  <2> QED  BY <1>1, <1>2, <1>3, <1>4, <2>1, <2>2, <2>6, <2>7, <2>8, AttemptOver
<1> QED  BY <1>5, <1>6

LEMMA GraceOk == IInv /\ Grace => IInv'
<1> SUFFICES ASSUME IInv, Grace PROVE IInv'
  OBVIOUS
<1>1. UNCHANGED <<snap, hash, bucket, canceled, late>> /\ loop' = NoLoop /\ loop.aborted
      /\ uploads' = uploads \cup LeftOver /\ given' = given \cup {job.attempt}
  BY DEF Grace, GraceOver, rowVars
<1>2. TypeOK /\ uploads \subseteq UploadShape /\ given \subseteq Nat /\ job.attempt \in Nat
  BY DEF IInv, TypeOK, JobShape
<1>3. loop.pc # "idle" /\ Rejected /\ FailedNext
  BY <1>1 DEF IInv, Running, Grace
<1>4. /\ job' \in JobShape /\ job'.st # "done" /\ failing' \in FailingShape
      /\ (failing'.at # 0 \/ failing'.read => job'.st = "failed")
      /\ \A a \in given' : a < job'.attempt \/ (a = job'.attempt /\ job'.st = "failed")
  BY <1>1, <1>3, RejectedShape
<1>5. ASSUME NEW u \in LeftOver
      PROVE  /\ u \in UploadShape /\ u.in = job.attempt /\ u.pc # "diff"
             /\ u.pc \in {"read", "write", "markall"} \/ snap[u.of] # "queued"
  <2>1. PICK s \in {loop.at} \cap Snapshots, pc \in GoesOn : u = [of |-> s, in |-> job.attempt, pc |-> pc]
    BY <1>5 DEF LeftOver
  <2>2. \/ pc \in {"read", "write", "markall"}
        \/ pc = "put" /\ loop.pc \in {"shoot", "add"}
    BY <2>1 DEF GoesOn
  <2>3. pc \in {"read", "write", "markall"} \/ snap[s] # "queued"
    BY <2>1, <2>2 DEF IInv, Begun
  <2>4. u \in UploadShape /\ u.of = s /\ u.in = job.attempt /\ u.pc = pc /\ pc # "diff"
    BY <1>2, <2>1, <2>2 DEF UploadShape
  <2> QED  BY <2>3, <2>4
<1>6. \A u \in uploads : u.in \in given \cup {job.attempt}
  BY DEF IInv, Given
<1>7. \A u \in uploads : u.pc \in {"read", "write", "markall"} \/ snap[u.of] # "queued"
  BY DEF IInv, Begun
<1>8. /\ uploads' \subseteq UploadShape /\ given \subseteq given' /\ given' \subseteq Nat
      /\ \A u \in uploads' : u.in \in given'
      /\ \A u \in uploads' : u.pc = "diff" => u \in uploads
      /\ \A u \in uploads' : u.pc \in {"read", "write", "markall"} \/ snap[u.of] # "queued"
  BY <1>1, <1>2, <1>5, <1>6, <1>7
<1> QED  BY <1>1, <1>4, <1>8, AttemptOver

LEMMA LaunchFailsOk == IInv /\ LaunchFails => IInv'
<1> SUFFICES ASSUME IInv, LaunchFails PROVE IInv'
  OBVIOUS
<1>1. UNCHANGED <<snap, hash, bucket, canceled, uploads, given, late>> /\ loop' = NoLoop
      /\ loop.pc = "check" /\ loop.at = 1
  BY DEF LaunchFails, NoLoop, rowVars, history
<1>2. TypeOK /\ uploads \subseteq UploadShape /\ given \subseteq Nat
  BY DEF IInv, TypeOK
<1>3. /\ job' \in JobShape /\ job'.st # "done" /\ failing' \in FailingShape
      /\ (failing'.at # 0 \/ failing'.read => job'.st = "failed")
      /\ \A a \in given : a < job'.attempt \/ (a = job'.attempt /\ job'.st = "failed")
  BY <1>1, RejectedShape DEF LaunchFails
<1>4. \A u \in uploads : u.in \in given
  <2>1. \A u \in uploads : u.of \in Nat \ {0}
    BY <1>2, SnapshotsAreNumbers DEF UploadShape
  <2>2. \A u \in uploads : ~(u.of < loop.at)
    BY <1>1, <2>1
  <2> QED  BY <2>2 DEF IInv, Given
<1>5. \A u \in uploads : u.pc \in {"read", "write", "markall"} \/ snap[u.of] # "queued"
  BY DEF IInv, Begun
<1> QED  BY <1>1, <1>2, <1>3, <1>4, <1>5, AttemptOver

LEMMA DiesOk == IInv /\ Dies => IInv'
<1> SUFFICES ASSUME IInv, Dies PROVE IInv'
  OBVIOUS
<1>1. UNCHANGED <<snap, hash, bucket, canceled, failing, given, late>> /\ loop' = NoLoop
      /\ loop.pc # "idle" /\ uploads' \in {uploads \ Own, {}} /\ job' = [job EXCEPT !.st = "waiting"]
  BY DEF Dies, rowVars, history
<1>2. TypeOK /\ uploads \subseteq UploadShape /\ given \subseteq Nat /\ failing \in FailingShape
  BY DEF IInv, TypeOK
<1>3. job' \in JobShape /\ job'.st = "waiting" /\ job'.attempt = job.attempt /\ job.st = "active"
      /\ job.attempt \in Nat
  BY <1>1, <1>2 DEF IInv, Running, TypeOK, JobShape
<1>4. uploads' \subseteq uploads /\ \A u \in uploads' : u.in \in given
  BY <1>1 DEF IInv, Given, Own
<1>5. failing.at = 0 /\ ~failing.read /\ \A a \in given : a < job.attempt
  BY <1>2, <1>3 DEF IInv, Running, Given, FailingShape
<1>6. \A u \in uploads : u.pc \in {"read", "write", "markall"} \/ snap[u.of] # "queued"
  BY DEF IInv, Begun
<1> QED  BY <1>1, <1>2, <1>3, <1>4, <1>5, <1>6, AttemptOver

-----------------------------------------------------------------------------
(* The uploads of an attempt that was given up *)

\* What such a step does to a snapshot makes it a late one.
LEMMA LateStep ==
  ASSUME IInv, NEW u \in uploads, u.in \in given, UNCHANGED <<canceled, job, failing, given>>,
         snap' \in [Snapshots -> SnapStatus], hash' \in [Snapshots -> Nat], bucket' \in [Snapshots -> Nat],
         late \subseteq late', late' \subseteq Snapshots,
         \A s \in Snapshots \ late' : snap'[s] = snap[s] /\ hash'[s] = hash[s] /\ bucket'[s] = bucket[s],
         \A s \in Snapshots : snap[s] # "queued" => snap'[s] # "queued",
         \A s \in late' : snap'[s] # "queued",
         loop' \in LoopShape, loop'.pc = loop.pc, loop'.at = loop.at, loop'.aborted = loop.aborted,
         loop.failed => loop'.failed, loop.interrupted => loop'.interrupted,
         uploads' \subseteq UploadShape, uploads \ {u} \subseteq uploads',
         \A w \in uploads' : w \in uploads \/
           /\ w.in = u.in /\ (w.pc = "diff" => w.of \in late')
           /\ w.pc \in {"read", "write", "markall"} \/ snap'[w.of] # "queued"
  PROVE  IInv'
<1>1. \A s \in Snapshots : Fine(s) => snap'[s] \in Settled \/ s \in late'
  BY DEF Fine
<1>2. \A w \in uploads : w.of \in Snapshots
  BY DEF IInv, TypeOK, UploadShape
<1>3. TypeOK'
  BY DEF IInv, TypeOK
<1>4. Running' /\ DrainedAll'
  BY DEF IInv, Running, DrainedAll
<1>5. Given'
  BY DEF IInv, Given
<1>6. Covered'
  <2> SUFFICES ASSUME loop.pc # "idle", NEW s \in Snapshots, s < loop.at
               PROVE  \/ snap'[s] \in Settled \/ s \in late' \/ loop'.failed \/ loop'.interrupted
                      \/ \E w \in Own' : w.of = s
    BY DEF Covered, Fine
  <2>1. u \notin Own
    BY OwnRuns DEF Own
  <2>2. Own \subseteq Own'
    BY <2>1 DEF Own
  <2> QED  BY <1>1, <2>2 DEF IInv, Covered
<1>7. EndedSettled'
  BY <1>1 DEF IInv, EndedSettled, AllFine, Fine
<1>8. Stored'
  BY <1>1, <1>2 DEF IInv, Stored, Fine
<1>9. Fresh'
  <2> SUFFICES ASSUME loop.pc = "write", loop.at \notin late'
               PROVE  snap'[loop.at] \notin Settled \/ snap'[loop.at] = "canceled"
    BY DEF Fresh
  <2>1. loop.at \in Snapshots
    BY DEF IInv, Running
  <2> QED  BY <2>1 DEF IInv, Fresh
<1>10. Begun'
  <2>1. loop.pc \in {"shoot", "add"} => snap'[loop.at] # "queued"
    BY DEF IInv, Running, Begun
  <2> QED  BY <1>2, <2>1 DEF IInv, Begun
<1>11. Images'
  <2> SUFFICES ASSUME NEW s \in Snapshots \ late'
               PROVE  /\ hash'[s] # 0 => hash'[s] = bucket'[s] /\ snap'[s] \in Settled
                      /\ loop.pc \in {"write", "shoot", "add"} /\ loop.at = s => hash'[s] = 0
                      /\ \A w \in uploads' : w.of = s /\ w.in \notin given =>
                           (w.pc \in {"put", "row"} => hash'[s] = 0) /\ (w.pc = "row" => bucket'[s] = w.in)
    BY DEF Images
  <2>1. \A w \in uploads' : w.in \notin given => w \in uploads
    OBVIOUS
  <2> QED  BY <2>1 DEF IInv, Images
<1> QED  BY <1>3, <1>4, <1>5, <1>6, <1>7, <1>8, <1>9, <1>10, <1>11 DEF IInv

\* An upload moves on.
LEMMA StepShape ==
  ASSUME IInv, NEW u \in uploads, NEW pc \in {"read", "write", "put", "row", "err", "diff", "markall"},
         Step(u, pc)
  PROVE  \E v \in UploadShape :
           /\ v.of = u.of /\ v.in = u.in /\ v.pc = pc
           /\ uploads' = (uploads \ {u}) \cup {v}
<1>1. u \in UploadShape
  BY DEF IInv, TypeOK
<1>2. PICK v : v = [u EXCEPT !.pc = pc]
  OBVIOUS
<1>3. v \in UploadShape /\ v.of = u.of /\ v.in = u.in /\ v.pc = pc
  BY <1>1, <1>2 DEF UploadShape
<1> QED  BY <1>2, <1>3 DEF Step

LEMMA LatePutOk == ASSUME IInv, NEW u \in uploads, u.in \in given, Put(u) PROVE IInv'
<1>1. /\ UNCHANGED <<snap, hash, loop, canceled, job, failing, given>> /\ u.pc = "put"
      /\ bucket' = [bucket EXCEPT ![u.of] = u.in] /\ Step(u, "row") /\ late' = late \cup {u.of}
  BY DEF Put, Written, Beside
<1>2. /\ u.of \in Snapshots /\ u.in \in Nat /\ bucket \in [Snapshots -> Nat] /\ late \subseteq Snapshots
      /\ snap \in [Snapshots -> SnapStatus] /\ hash \in [Snapshots -> Nat] /\ loop \in LoopShape
      /\ uploads \subseteq UploadShape
  BY DEF IInv, TypeOK, UploadShape
<1>3. PICK v \in UploadShape : v.of = u.of /\ v.in = u.in /\ v.pc = "row" /\ uploads' = (uploads \ {u}) \cup {v}
  BY <1>1, StepShape
<1>4. bucket' \in [Snapshots -> Nat] /\ \A s \in Snapshots : s # u.of => bucket'[s] = bucket[s]
  BY <1>1, <1>2
<1>5. snap[u.of] # "queued" /\ \A s \in late : snap[s] # "queued"
  BY <1>1 DEF IInv, Begun
<1> QED  BY <1>1, <1>2, <1>3, <1>4, <1>5, LateStep

LEMMA LateStoreOk == ASSUME IInv, NEW u \in uploads, u.in \in given, Store(u) PROVE IInv'
<1>1. /\ UNCHANGED <<bucket, loop, canceled, job, failing, given>> /\ u.pc = "row" /\ late' = late \cup {u.of}
  BY DEF Store, Written, Beside
<1>2. /\ u.of \in Snapshots /\ u.in \in Nat /\ bucket \in [Snapshots -> Nat] /\ late \subseteq Snapshots
      /\ snap \in [Snapshots -> SnapStatus] /\ hash \in [Snapshots -> Nat] /\ loop \in LoopShape
      /\ uploads \subseteq UploadShape
  BY DEF IInv, TypeOK, UploadShape
<1>3. snap[u.of] # "queued" /\ \A s \in late : snap[s] # "queued"
  BY <1>1 DEF IInv, Begun
<1>4. CASE ~Storable(u.of)
  <2>1. UNCHANGED <<snap, hash>> /\ uploads' = uploads \ {u}
    BY <1>4 DEF Store, Done
  <2> QED  BY <1>1, <1>2, <1>3, <2>1, LateStep
<1>5. CASE Storable(u.of)
  <2>1. snap' = [snap EXCEPT ![u.of] = "success"] /\ hash' = [hash EXCEPT ![u.of] = u.in] /\ Step(u, "diff")
    BY <1>5 DEF Store
  <2>2. /\ snap' \in [Snapshots -> SnapStatus] /\ hash' \in [Snapshots -> Nat] /\ snap'[u.of] = "success"
        /\ \A s \in Snapshots : s # u.of => snap'[s] = snap[s] /\ hash'[s] = hash[s]
    BY <1>2, <2>1 DEF SnapStatus
  <2>3. PICK v \in UploadShape : v.of = u.of /\ v.in = u.in /\ v.pc = "diff" /\ uploads' = (uploads \ {u}) \cup {v}
    BY <2>1, StepShape
  <2> QED  BY <1>1, <1>2, <1>3, <2>2, <2>3, LateStep
<1> QED  BY <1>4, <1>5

LEMMA LateEndsOk ==
  ASSUME IInv, NEW u \in uploads, u.in \in given,
         Queue(u) \/ UploadFails(u) \/ UploadMarkFails(u) \/ LateRead(u)
  PROVE  IInv'
<1>1. UNCHANGED <<snap, hash, bucket, canceled, job, failing, given, late>>
  BY DEF Queue, UploadFails, UploadMarkFails, LateRead, Unwritten, Beside, rowVars
<1>2. /\ bucket \in [Snapshots -> Nat] /\ late \subseteq Snapshots /\ snap \in [Snapshots -> SnapStatus]
      /\ hash \in [Snapshots -> Nat] /\ loop \in LoopShape /\ uploads \subseteq UploadShape
  BY DEF IInv, TypeOK
<1>3. \/ loop' = loop \/ loop' = [loop EXCEPT !.interrupted = TRUE] \/ loop' = [loop EXCEPT !.failed = TRUE]
  BY DEF Queue, UploadFails, UploadMarkFails, LateRead
<1>4. /\ loop' \in LoopShape /\ loop'.pc = loop.pc /\ loop'.at = loop.at /\ loop'.aborted = loop.aborted
      /\ (loop.failed => loop'.failed) /\ (loop.interrupted => loop'.interrupted)
  BY <1>2, <1>3 DEF LoopShape
<1>5. \A s \in late : snap[s] # "queued"
  BY DEF IInv, Begun
<1>6. CASE uploads' = uploads \ {u}
  BY <1>1, <1>2, <1>4, <1>5, <1>6, LateStep
<1>7. CASE u.pc \in {"put", "row", "diff"} /\ Step(u, "err")
  <2>1. PICK v \in UploadShape : v.of = u.of /\ v.in = u.in /\ v.pc = "err" /\ uploads' = (uploads \ {u}) \cup {v}
    BY <1>7, StepShape
  <2>2. snap[u.of] # "queued"
    BY <1>7 DEF IInv, Begun
  <2> QED  BY <1>1, <1>2, <1>4, <1>5, <2>1, <2>2, LateStep
<1>8. CASE Step(u, "write")
  <2>1. PICK v \in UploadShape : v.of = u.of /\ v.in = u.in /\ v.pc = "write" /\ uploads' = (uploads \ {u}) \cup {v}
    BY <1>8, StepShape
  <2> QED  BY <1>1, <1>2, <1>4, <1>5, <2>1, LateStep
<1> QED  BY <1>6, <1>7, <1>8 DEF Queue, UploadFails, UploadMarkFails, LateRead, Done

LEMMA LateMarkOk ==
  ASSUME IInv, NEW u \in uploads, u.in \in given, UploadMark(u) \/ LateWrite(u) \/ LateMarkAll(u)
  PROVE  IInv'
<1>1. /\ UNCHANGED <<hash, bucket, loop, canceled, job, failing, given>> /\ late' = late \cup {u.of}
  BY DEF UploadMark, LateWrite, LateMarkAll, ErrorOf, Processing, Written, Beside
<1>2. /\ bucket \in [Snapshots -> Nat] /\ late \subseteq Snapshots /\ snap \in [Snapshots -> SnapStatus]
      /\ hash \in [Snapshots -> Nat] /\ loop \in LoopShape /\ uploads \subseteq UploadShape
      /\ TypeOK /\ u \in UploadShape /\ u.of \in Snapshots
  BY DEF IInv, TypeOK, UploadShape
<1>3. PICK status \in {"error", "processing"} : snap' = Unless(status, u.of)
  BY DEF UploadMark, LateWrite, LateMarkAll, ErrorOf, Processing
<1>4. /\ snap' \in [Snapshots -> SnapStatus] /\ \A t \in Snapshots : t # u.of => snap'[t] = snap[t]
      /\ snap'[u.of] \in {status, "canceled"}
  BY <1>2, <1>3, UnlessKeeps DEF SnapStatus
<1>5. snap'[u.of] # "queued" /\ (\A s \in Snapshots : snap[s] # "queued" => snap'[s] # "queued")
      /\ \A s \in late' : snap'[s] # "queued"
  BY <1>1, <1>2, <1>4 DEF IInv, Begun
<1>6. CASE uploads' = uploads \ {u}
  BY <1>1, <1>2, <1>4, <1>5, <1>6, LateStep
<1>7. CASE Step(u, "put")
  <2>1. PICK v \in UploadShape : v.of = u.of /\ v.in = u.in /\ v.pc = "put" /\ uploads' = (uploads \ {u}) \cup {v}
    BY <1>7, StepShape
  <2> QED  BY <1>1, <1>2, <1>4, <1>5, <2>1, LateStep
<1>8. CASE u.pc = "markall" /\ u.of # GroupSize /\ uploads' = (uploads \ {u}) \cup {[u EXCEPT !.of = @ + 1]}
  <2>1. PICK s \in Snapshots : s = u.of + 1
    BY <1>2, <1>8, SnapshotsAreNumbers, SizesAssumption
  <2>2. PICK v : v = [u EXCEPT !.of = s]
    OBVIOUS
  <2>3. v \in UploadShape /\ v.in = u.in /\ v.pc = "markall"
    BY <1>2, <1>8, <2>2 DEF UploadShape
  <2>4. uploads' = (uploads \ {u}) \cup {v}
    BY <1>8, <2>1, <2>2
  <2> QED  BY <1>1, <1>2, <1>4, <1>5, <2>3, <2>4, LateStep
<1>9. CASE LateMarkAll(u)
  BY <1>6, <1>8, <1>9 DEF LateMarkAll
<1> QED  BY <1>6, <1>7, <1>9 DEF UploadMark, LateWrite, Done

-----------------------------------------------------------------------------
(* The uploads of the attempt that runs *)

LEMMA PutOk == ASSUME IInv, NEW u \in uploads, u.in \notin given, Put(u) PROVE IInv'
<1>1. UNCHANGED <<snap, hash, loop, canceled, job, failing, given, late>> /\ u.pc = "put"
      /\ bucket' = [bucket EXCEPT ![u.of] = u.in] /\ Step(u, "row")
  BY DEF Put, Written, Beside
<1>2. u \in UploadShape /\ bucket \in [Snapshots -> Nat]
  BY DEF IInv, TypeOK
<1>3. PICK v \in UploadShape : v.of = u.of /\ v.in = u.in /\ v.pc = "row" /\ uploads' = (uploads \ {u}) \cup {v}
  BY <1>1, StepShape
<1>4. /\ bucket' \in [Snapshots -> Nat] /\ bucket'[u.of] = u.in
      /\ \A s \in Snapshots : s # u.of => bucket'[s] = bucket[s]
  BY <1>1, <1>2 DEF UploadShape
<1>5. TypeOK'
  BY <1>1, <1>3, <1>4 DEF IInv, TypeOK
<1>6. Running' /\ DrainedAll' /\ EndedSettled' /\ Fresh'
  BY <1>1 DEF IInv, Running, DrainedAll, EndedSettled, AllFine, Fine, Fresh
<1>7. Stored' /\ Begun'
  BY <1>1, <1>3 DEF IInv, Stored, Fine, Begun
<1>8. Covered'
  BY <1>1, <1>3 DEF IInv, Covered, Fine, Own
<1>9. Given'
  BY <1>1, <1>3 DEF IInv, Given
<1>10. Images'
  <2> SUFFICES ASSUME NEW s \in Snapshots \ late
               PROVE  /\ hash[s] # 0 => hash[s] = bucket'[s] /\ snap[s] \in Settled
                      /\ loop.pc \in {"write", "shoot", "add"} /\ loop.at = s => hash[s] = 0
                      /\ \A w \in uploads' : w.of = s /\ w.in \notin given =>
                           (w.pc \in {"put", "row"} => hash[s] = 0) /\ (w.pc = "row" => bucket'[s] = w.in)
    BY <1>1 DEF Images
  <2>1. CASE s = u.of
    <3>1. hash[s] = 0
      BY <1>1, <2>1 DEF IInv, Images
    <3>2. \A w \in uploads \ {u} : w.of = s => w.in \in given
      BY <2>1 DEF IInv, Given
    <3> QED  BY <1>3, <1>4, <2>1, <3>1, <3>2
  <2>2. CASE s # u.of
    BY <1>3, <1>4, <2>2 DEF IInv, Images
  <2> QED  BY <2>1, <2>2
<1> QED  BY <1>5, <1>6, <1>7, <1>8, <1>9, <1>10 DEF IInv

LEMMA StoreOk == ASSUME IInv, NEW u \in uploads, u.in \notin given, Store(u) PROVE IInv'
<1>1. UNCHANGED <<bucket, loop, canceled, job, failing, given, late>> /\ u.pc = "row"
  BY DEF Store, Written, Beside
<1>2. u \in UploadShape /\ u.of \in Snapshots /\ u.in \in Nat /\ snap \in [Snapshots -> SnapStatus]
      /\ hash \in [Snapshots -> Nat]
  BY DEF IInv, TypeOK, UploadShape
<1>3. CASE ~Storable(u.of)
  <2>1. UNCHANGED <<snap, hash>> /\ uploads' = uploads \ {u} /\ snap[u.of] \in Settled
    BY <1>3 DEF Store, Done, Storable, Settled
  <2>2. TypeOK' /\ Running' /\ DrainedAll' /\ EndedSettled' /\ Stored' /\ Fresh' /\ Begun' /\ Given'
    BY <1>1, <2>1 DEF IInv, TypeOK, Running, DrainedAll, EndedSettled, AllFine, Fine, Stored, Fresh, Begun, Given
  <2>3. Covered'
    BY <1>1, <2>1 DEF IInv, Covered, Fine, Own
  <2>4. Images'
    BY <1>1, <2>1 DEF IInv, Images
  <2> QED  BY <2>2, <2>3, <2>4 DEF IInv
<1>4. CASE Storable(u.of)
  <2>1. snap' = [snap EXCEPT ![u.of] = "success"] /\ hash' = [hash EXCEPT ![u.of] = u.in] /\ Step(u, "diff")
    BY <1>4 DEF Store
  <2>2. /\ snap' \in [Snapshots -> SnapStatus] /\ hash' \in [Snapshots -> Nat]
        /\ snap'[u.of] = "success" /\ hash'[u.of] = u.in
        /\ \A s \in Snapshots : s # u.of => snap'[s] = snap[s] /\ hash'[s] = hash[s]
    BY <1>2, <2>1 DEF SnapStatus
  <2>3. Keeps
    BY <2>2 DEF Keeps, Settled
  <2>4. PICK v \in UploadShape : v.of = u.of /\ v.in = u.in /\ v.pc = "diff" /\ uploads' = (uploads \ {u}) \cup {v}
    BY <2>1, StepShape
  <2>5. TypeOK'
    BY <1>1, <2>2, <2>4 DEF IInv, TypeOK
  <2>6. Running' /\ DrainedAll' /\ EndedSettled' /\ Given'
    BY <1>1, <2>3, <2>4 DEF IInv, Running, DrainedAll, EndedSettled, AllFine, Fine, Given, Keeps
  <2>7. \A w \in uploads : w.of \in Snapshots
    BY DEF IInv, TypeOK, UploadShape
  <2>8. Stored'
    BY <1>1, <2>2, <2>3, <2>4, <2>7 DEF IInv, Stored, Fine, Keeps, Settled
  <2>9. Covered'
    BY <1>1, <2>3, <2>4 DEF IInv, Covered, Fine, Own, Keeps
  <2>10. ~(u.of = loop.at /\ loop.pc # "idle")
    <3>1. loop.at \in Nat /\ u.of \in Nat
      BY <1>2, SnapshotsAreNumbers DEF IInv, TypeOK, LoopShape
    <3>2. u.of < loop.at
      BY DEF IInv, Given
    <3> QED  BY <3>1, <3>2
  <2>11. loop.pc \in {"write", "shoot", "add"} => loop.at \in Snapshots
    BY DEF IInv, Running
  <2>12. Fresh' /\ Begun'
    BY <1>1, <1>2, <2>2, <2>3, <2>4, <2>7, <2>10, <2>11 DEF IInv, TypeOK, Fresh, Begun, Keeps
  <2>13. Images'
    <3> SUFFICES ASSUME NEW s \in Snapshots \ late
                 PROVE  /\ hash'[s] # 0 => hash'[s] = bucket[s] /\ snap'[s] \in Settled
                        /\ loop.pc \in {"write", "shoot", "add"} /\ loop.at = s => hash'[s] = 0
                        /\ \A w \in uploads' : w.of = s /\ w.in \notin given =>
                             (w.pc \in {"put", "row"} => hash'[s] = 0) /\ (w.pc = "row" => bucket[s] = w.in)
      BY <1>1 DEF Images
    <3>1. CASE s = u.of
      <4>1. hash'[s] = bucket[s] /\ snap'[s] \in Settled
        BY <1>1, <2>2, <3>1 DEF IInv, Images, Settled
      <4>2. \A w \in uploads \ {u} : w.of = s => w.in \in given
        BY <3>1 DEF IInv, Given
      <4> QED  BY <2>4, <2>10, <3>1, <4>1, <4>2
    <3>2. CASE s # u.of
      BY <2>2, <2>4, <3>2 DEF IInv, Images
    <3> QED  BY <3>1, <3>2
  <2> QED  BY <2>5, <2>6, <2>8, <2>9, <2>12, <2>13 DEF IInv
<1> QED  BY <1>3, <1>4

\* An upload has settled: its snapshot is, or its failure is kept.
LEMMA Removed ==
  ASSUME IInv, NEW u \in uploads, uploads' = uploads \ {u},
         UNCHANGED <<hash, bucket, canceled, job, failing, given, late>>,
         snap' \in [Snapshots -> SnapStatus], Keeps,
         \A s \in Snapshots : s # u.of => snap'[s] = snap[s],
         loop.pc # "idle" => u.of < loop.at,
         loop' \in LoopShape, loop'.pc = loop.pc, loop'.at = loop.at, loop'.aborted = loop.aborted,
         loop.failed => loop'.failed, loop.interrupted => loop'.interrupted,
         u.in = job.attempt => snap'[u.of] \in Settled \/ u.of \in late \/ loop'.failed \/ loop'.interrupted
  PROVE  IInv'
<1>1. TypeOK' /\ Given'
  BY DEF IInv, TypeOK, Given
<1>2. Running' /\ DrainedAll' /\ EndedSettled'
  BY DEF IInv, Running, DrainedAll, EndedSettled, AllFine, Fine, Keeps
<1>3. Stored'
  BY DEF IInv, Stored, Fine, Keeps, TypeOK, UploadShape
<1>4. Covered'
  BY DEF IInv, Covered, Fine, Own, Keeps
<1>5. Images'
  BY DEF IInv, Images, Keeps
<1>6. loop.pc # "idle" => u.of # loop.at
  BY SnapshotsAreNumbers DEF IInv, TypeOK, UploadShape, LoopShape
<1>7. Fresh'
  BY <1>6 DEF IInv, Fresh, Running
<1>8. Begun'
  BY DEF IInv, TypeOK, UploadShape, Begun, Running, Keeps
<1> QED  BY <1>1, <1>2, <1>3, <1>4, <1>5, <1>7, <1>8 DEF IInv

LEMMA QueueOk == ASSUME IInv, NEW u \in uploads, u.in \notin given, Queue(u) PROVE IInv'
<1>1. UNCHANGED <<snap, hash, bucket, loop, canceled, job, failing, given, late>>
      /\ u.pc = "diff" /\ uploads' = uploads \ {u}
  BY DEF Queue, Done, Unwritten, Beside, rowVars
<1>2. snap[u.of] \in Settled \/ u.of \in late
  BY <1>1 DEF IInv, Stored, Fine
<1>3. loop' \in LoopShape /\ snap' \in [Snapshots -> SnapStatus] /\ Keeps
  BY <1>1 DEF IInv, TypeOK, Keeps
<1>4. u.of < loop.at
  BY DEF IInv, Given
<1> QED  BY <1>1, <1>2, <1>3, <1>4, Removed

LEMMA UploadMarkOk == ASSUME IInv, NEW u \in uploads, u.in \notin given, UploadMark(u) PROVE IInv'
<1>1. UNCHANGED <<hash, bucket, loop, canceled, job, failing, given, late>>
      /\ snap' = Unless("error", u.of) /\ uploads' = uploads \ {u}
  BY DEF UploadMark, Done, Written, Beside, ErrorOf
<1>2. TypeOK /\ u.of \in Snapshots
  BY DEF IInv, TypeOK, UploadShape
<1>3. /\ snap' \in [Snapshots -> SnapStatus] /\ Keeps /\ snap'[u.of] \in Settled
      /\ \A s \in Snapshots : s # u.of => snap'[s] = snap[s]
  BY <1>1, <1>2, UnlessKeeps DEF SnapStatus, Settled
<1>4. loop' \in LoopShape /\ u.of < loop.at
  BY <1>1, <1>2 DEF IInv, TypeOK, Given
<1> QED  BY <1>1, <1>3, <1>4, Removed

LEMMA UploadMarkFailsOk == ASSUME IInv, NEW u \in uploads, u.in \notin given, UploadMarkFails(u) PROVE IInv'
<1>1. UNCHANGED <<snap, hash, bucket, canceled, job, failing, given, late>> /\ uploads' = uploads \ {u}
      /\ loop' = IF u.in = job.attempt THEN [loop EXCEPT !.failed = TRUE] ELSE loop
  BY DEF UploadMarkFails, Done, Unwritten, Beside, rowVars
<1>2. loop \in LoopShape /\ snap' \in [Snapshots -> SnapStatus] /\ Keeps /\ u.of < loop.at
  BY <1>1 DEF IInv, TypeOK, Keeps, Given
<1>3. /\ loop' \in LoopShape /\ loop'.pc = loop.pc /\ loop'.at = loop.at /\ loop'.aborted = loop.aborted
      /\ (loop.failed => loop'.failed) /\ loop'.interrupted = loop.interrupted
      /\ (u.in = job.attempt => loop'.failed)
  BY <1>1, <1>2 DEF LoopShape
<1> QED  BY <1>1, <1>2, <1>3, Removed

LEMMA UploadFailsOk == ASSUME IInv, NEW u \in uploads, u.in \notin given, UploadFails(u) PROVE IInv'
<1>1. UNCHANGED <<snap, hash, bucket, canceled, job, failing, given, late>> /\ u.pc \in {"put", "row", "diff"}
  BY DEF UploadFails, Unwritten, Beside, rowVars
<1>2. loop \in LoopShape /\ snap' \in [Snapshots -> SnapStatus] /\ Keeps /\ u.of < loop.at
  BY <1>1 DEF IInv, TypeOK, Keeps, Given
<1>3. CASE u.in \in down
  <2>1. uploads' = uploads \ {u}
        /\ loop' = IF u.in = job.attempt THEN [loop EXCEPT !.interrupted = TRUE] ELSE loop
    BY <1>3 DEF UploadFails, Done
  <2>2. /\ loop' \in LoopShape /\ loop'.pc = loop.pc /\ loop'.at = loop.at /\ loop'.aborted = loop.aborted
        /\ (loop.interrupted => loop'.interrupted) /\ loop'.failed = loop.failed
        /\ (u.in = job.attempt => loop'.interrupted)
    BY <1>2, <2>1 DEF LoopShape
  <2> QED  BY <1>1, <1>2, <2>1, <2>2, Removed
<1>4. CASE u.in \notin down
  <2>1. loop' = loop /\ Step(u, "err")
    BY <1>4 DEF UploadFails
  <2>2. PICK v \in UploadShape : v.of = u.of /\ v.in = u.in /\ v.pc = "err" /\ uploads' = (uploads \ {u}) \cup {v}
    BY <2>1, StepShape
  <2>3. TypeOK' /\ Running' /\ DrainedAll' /\ EndedSettled' /\ Fresh'
    BY <1>1, <2>1, <2>2 DEF IInv, TypeOK, Running, DrainedAll, EndedSettled, AllFine, Fine, Fresh
  <2>4. Stored' /\ Begun'
    BY <1>1, <2>1, <2>2 DEF IInv, Stored, Fine, Begun
  <2>5. Covered'
    BY <1>1, <2>1, <2>2 DEF IInv, Covered, Fine, Own
  <2>6. Given'
    BY <1>1, <2>1, <2>2 DEF IInv, Given
  <2>7. Images'
    BY <1>1, <2>1, <2>2 DEF IInv, Images
  <2> QED  BY <2>3, <2>4, <2>5, <2>6, <2>7 DEF IInv
<1> QED  BY <1>3, <1>4

\* Only an attempt that was given up reads, writes or marks late.
LEMMA UploadOk ==
  ASSUME IInv, NEW u \in uploads, Upload(u) \/ UploadFails(u) \/ UploadMarkFails(u)
  PROVE  IInv'
<1>1. CASE u.in \in given
  BY <1>1, LatePutOk, LateStoreOk, LateEndsOk, LateMarkOk DEF Upload
<1>2. CASE u.in \notin given
  <2>1. u.pc \notin {"read", "write", "markall"}
    BY <1>2 DEF IInv, Given
  <2>2. ~(LateRead(u) \/ LateWrite(u) \/ LateMarkAll(u))
    BY <2>1 DEF LateRead, LateWrite, LateMarkAll
  <2> QED  BY <1>2, <2>2, PutOk, StoreOk, QueueOk, UploadMarkOk, UploadFailsOk, UploadMarkFailsOk DEF Upload
<1> QED  BY <1>1, <1>2

-----------------------------------------------------------------------------
(* Beside the group *)

LEMMA BesideOk == IInv /\ (Shutdown \/ Cancel \/ FailedRead \/ FailedMark) => IInv'
<1> SUFFICES ASSUME IInv, Shutdown \/ Cancel \/ FailedRead \/ FailedMark PROVE IInv'
  OBVIOUS
<1>1. UNCHANGED <<hash, bucket, job, loop, uploads, given, late>>
  BY DEF Shutdown, Cancel, FailedRead, FailedMark, rowVars, history
<1>2. TypeOK /\ snap \in [Snapshots -> SnapStatus] /\ canceled \in BOOLEAN /\ failing \in FailingShape
      /\ failing.at \in Nat /\ (failing.at # 0 \/ failing.read => job.st = "failed" /\ loop.pc = "idle")
  BY DEF IInv, TypeOK, FailingShape, Running
<1>3. failing.at + 1 \in Nat
  BY <1>2
<1>4. CASE Shutdown
  BY <1>1, <1>2, <1>4, RowStep DEF Shutdown, rowVars, Keeps
<1>5. CASE Cancel
  <2>1. snap' = [s \in Snapshots |-> IF snap[s] \in Settled THEN snap[s] ELSE "canceled"]
        /\ canceled' = TRUE /\ failing' = failing
    BY <1>5 DEF Cancel
  <2>2. snap' \in [Snapshots -> SnapStatus] /\ Keeps /\ \A s \in Snapshots : snap'[s] \in {snap[s], "canceled"}
    BY <1>2, <2>1 DEF Keeps, SnapStatus, Settled
  <2>3. AllFine'
    BY <2>1 DEF AllFine, Fine, Settled
  <2> QED  BY <1>1, <1>2, <2>1, <2>2, <2>3, RowStep
<1>6. CASE FailedRead
  <2>1. snap' = snap /\ canceled' = canceled /\ failing.at \in Snapshots
        /\ failing' \in {[failing EXCEPT !.at = failing.at + 1], [failing EXCEPT !.read = TRUE]}
    BY <1>6 DEF FailedRead, rowVars
  <2>2. failing' \in FailingShape /\ job.st = "failed"
    BY <1>2, <1>3, <2>1, SnapshotsAreNumbers DEF FailingShape
  <2> QED  BY <1>1, <1>2, <2>1, <2>2, RowStep DEF Keeps
<1>7. CASE FailedMark
  <2>1. snap' = Unless("error", failing.at) /\ canceled' = canceled
        /\ failing' = [at |-> failing.at + 1, read |-> FALSE] /\ job.st = "failed" /\ loop.pc = "idle"
    BY <1>2, <1>7 DEF FailedMark
  <2>2. failing' \in FailingShape
    BY <1>3, <2>1 DEF FailingShape
  <2>3. snap' \in [Snapshots -> SnapStatus] /\ Keeps
    BY <1>2, <2>1, UnlessKeeps DEF SnapStatus
  <2> QED  BY <1>1, <1>2, <2>1, <2>2, <2>3, RowStep
<1> QED  BY <1>4, <1>5, <1>6, <1>7

LEMMA StutterOk == IInv /\ UNCHANGED vars => IInv'
BY DEF IInv, TypeOK, Running, Given, Covered, DrainedAll, EndedSettled, AllFine, Fine, Stored, Fresh, Begun,
   Images, Own, vars, rowVars, history

LEMMA NextOk == IInv /\ [Next]_vars => IInv'
BY RunOk, CheckOk, WriteOk, ShootOk, AddOk, MarkOk, MarkAllOk, EndOk, GraceOk, LaunchFailsOk, DiesOk,
   UploadOk, BesideOk, StutterOk
   DEF Next, Loop, Failed, Faults

-----------------------------------------------------------------------------
(* The theorems *)

\* The group is what IInv says in every reachable state (captureBuildGroup).
THEOREM Invariant == Spec => []IInv
BY InitHolds, NextOk, PTL DEF Spec

\* A capture job that is done has settled all its snapshots: the loop's early ends report
\* themselves, and what the loop has passed is settled or still uploading, which the drain
\* waits for.  Only an attempt that was given up, and that writes the row later, leaves one
\* processing (captureBuildGroup, createUploadQueue, updateStatus).
THEOREM CompletedGroupsAreSettled == Spec => []CompletedIsSettled
<1>1. IInv => CompletedIsSettled
  BY DEF IInv, TypeOK, SnapStatus, EndedSettled, AllFine, Fine, Begun, Settled, CompletedIsSettled
<1> QED  BY <1>1, Invariant, PTL

\* As long as no attempt that was given up writes it later, the image stored for a snapshot is
\* the one its row has the hash of: no attempt uploads one that one before it has captured
\* (captureSnapshotOnPage, persistCapturedSnapshot).
THEOREM ImagesMatchRows == Spec => []ImageOfRow
<1>1. IInv => ImageOfRow
  BY DEF IInv, Images, ImageOfRow
<1> QED  BY <1>1, Invariant, PTL

\* No step of the group, its uploads, the failed handler or a cancellation takes a snapshot
\* out of canceled (updateCaptureResult, markSnapshotErrored).
THEOREM CanceledSnapshotsStay == Spec => CanceledStays
<1> DEFINE Stays == \A s \in Snapshots : snap[s] = "canceled" => snap'[s] = "canceled"
<1>1. ASSUME IInv, [Next]_vars PROVE Stays
  <2>1. TypeOK /\ snap \in [Snapshots -> SnapStatus]
    BY <1>1 DEF IInv, TypeOK
  <2>2. CASE UNCHANGED snap
    BY <2>2
  <2>3. ASSUME NEW s, NEW status \in SnapStatus, snap' = Unless(status, s) PROVE Stays
    BY <2>1, <2>3, UnlessKeeps
  <2>4. CASE Write
    BY <2>3, <2>4 DEF Write, Processing, SnapStatus
  <2>5. CASE Mark \/ MarkAll
    <3>1. UNCHANGED snap \/ snap' = Unless("error", loop.at)
      BY <2>5 DEF Mark, MarkAll, ErrorOf, rowVars
    <3> QED  BY <2>3, <3>1 DEF SnapStatus
  <2>6. CASE FailedMark
    BY <2>3, <2>6 DEF FailedMark, SnapStatus
  <2>7. ASSUME NEW u \in uploads, UploadMark(u) \/ LateWrite(u) \/ LateMarkAll(u) PROVE Stays
    BY <2>3, <2>7 DEF UploadMark, LateWrite, LateMarkAll, Processing, ErrorOf, SnapStatus
  <2>8. ASSUME NEW u \in uploads, Store(u) PROVE Stays
    BY <2>1, <2>8 DEF Store, Storable
  <2>9. CASE Cancel
    BY <2>1, <2>9 DEF Cancel, Settled
  <2>10. CASE Run \/ Check \/ Shoot \/ Add \/ ShootFails \/ Relaunch \/ End \/ Deadline \/ Grace \/ FailedRead
             \/ MarkFails \/ Shutdown \/ LaunchFails \/ Dies \/ UNCHANGED vars
    BY <2>2, <2>10 DEF Run, Check, Shoot, Add, ShootFails, Relaunch, End, Deadline, Grace, FailedRead, MarkFails,
       Shutdown, LaunchFails, Dies, LoopOnly, rowVars, vars
  <2>11. ASSUME NEW u \in uploads, Put(u) \/ Queue(u) \/ LateRead(u) \/ UploadFails(u) \/ UploadMarkFails(u) PROVE Stays
    BY <2>2, <2>11 DEF Put, Queue, LateRead, UploadFails, UploadMarkFails, rowVars
  <2> QED  BY <1>1, <2>4, <2>5, <2>6, <2>7, <2>8, <2>9, <2>10, <2>11 DEF Next, Loop, Upload, Failed, Faults
<1>2. IInv /\ [Next]_vars => [Stays]_vars
  BY <1>1
<1> QED  BY <1>2, Invariant, PTL DEF Spec, CanceledStays
=============================================================================
