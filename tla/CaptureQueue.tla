---------------------------- MODULE CaptureQueue ----------------------------
(***************************************************************************)
(* The order capture groups wait in (packages/queue/src/index.ts).         *)
(*                                                                         *)
(* Every build queues its groups at once, with a priority the capture      *)
(* queue policy computes from a clock and from the first group waiting:    *)
(*   "deadline"     seconds to the build's due time since an epoch the     *)
(*                  first waiting group carries;                           *)
(*   "round-robin"  a round per group of a browser, from the round the     *)
(*                  first waiting group is in;                             *)
(*   "fifo"         no priority.                                           *)
(* Nothing locks the queue between that read and the write, so other       *)
(* builds may queue and workers may take groups in between (`raced`).  A   *)
(* failed group waits out its backoff and is moved ahead of the others, or *)
(* comes back where it was if that move fails or is late (`strayed`).      *)
(*                                                                         *)
(* BullMQ is external: workers take the wait list first, then prioritized  *)
(* jobs, lowest priority first and in the order they were added.  As in    *)
(* Redis, a job is in a set, and carries what it is ordered by.            *)
(***************************************************************************)
EXTENDS Integers, Sequences, FiniteSets

CONSTANTS
  Groups,      \* build -> the sequence of its groups, each [browser, snapshots]
  Seconds,     \* DEADLINE_SECONDS_PER_SNAPSHOT
  Lowest,      \* LOWEST_PRIORITY, the largest BullMQ takes
  Workers,     \* groups captured at once
  MaxNow,      \* bound: the last second
  MaxEvents    \* bound: groups that fail or stall, cancels and lost moves

Browsers == {"chromium", "firefox"}

ASSUME CaptureQueueAssumption ==
  /\ \A b \in DOMAIN Groups : Groups[b] \in Seq([browser : Browsers, snapshots : Nat \ {0}])
  /\ {Seconds, Lowest, Workers} \subseteq Nat \ {0}
  /\ {MaxNow, MaxEvents} \subseteq Nat

VARIABLES
  policy,    \* the CaptureQueuePolicy of the installation
  now,       \* Date.now() in seconds
  call,      \* build -> its enqueueCaptureGroups: pc, the time and base it read
  queue,     \* the prioritized groups
  wait,      \* the groups of the wait list
  delayed,   \* failed groups waiting for their backoff
  active,    \* groups being captured
  pushes,    \* jobs added to the queue or the wait list so far
  passed,    \* history: build -> the turns others took since its last one
  raced,     \* history: a call was overtaken between its read and its write
  strayed,   \* history: a failed group came back at its old priority
  events

jobVars == <<queue, wait, delayed, active, pushes>>
vars == <<policy, now, call, jobVars, passed, raced, strayed, events>>

Builds == DOMAIN Groups
Policies == {"deadline", "round-robin", "fifo"}

Least(a, b) == IF a < b THEN a ELSE b
Most(a, b) == IF a < b THEN b ELSE a

(***************************************************************************)
(* Groups of a build and their priorities                                  *)
(***************************************************************************)
BrowserOf(b, n) == Groups[b][n].browser

\* The groups of the same browser that come before the nth.
Index(b, n) == Cardinality({m \in 1..(n - 1) : BrowserOf(b, m) = BrowserOf(b, n)})

\* Mutants: each build counts from its own time; from the first round; the priority
\* is not kept within BullMQ's range; groups stay in the order of their browsers.
OwnEpoch(next, time) == time - 1
FirstRound(next) == 1
UncappedPriority(due, epoch) == Most(due - epoch, 1)
InGivenOrder(b) == [n \in DOMAIN Groups[b] |-> n]

\* Where each group of a build comes when its browsers alternate.
Before(b, m, n) == Index(b, m) < Index(b, n) \/ (Index(b, m) = Index(b, n) /\ m < n)

InterleaveBrowsers(b) ==
  [n \in DOMAIN Groups[b] |-> 1 + Cardinality({m \in DOMAIN Groups[b] : Before(b, m, n)})]

SnapshotsOf(b) ==
  Cardinality(UNION {{n} \X (1..Groups[b][n].snapshots) : n \in DOMAIN Groups[b]})

\* What waits first, if anything does: the lowest priority, in the order they were added.
Ahead(j, k) == j.priority < k.priority \/ (j.priority = k.priority /\ j.at < k.at)
IsNext(job) == \A k \in queue : ~Ahead(k, job)

NoGroup == [priority |-> 0, deadline |-> 0]

NextPrioritized ==
  IF queue = {} THEN {NoGroup} ELSE {j \in queue : IsNext(j)}

\* The epoch of the deadlines: the first waiting group's, or a second ago.
DeadlineEpoch(next, time) ==
  IF next.priority = 0 THEN time - 1 ELSE Least(next.deadline - next.priority, time - 1)

CurrentRound(next) == Most(next.priority, 1)

Base(next, time) ==
  CASE policy = "deadline" -> DeadlineEpoch(next, time)
    [] policy = "round-robin" -> CurrentRound(next)
    [] policy = "fifo" -> 0

DeadlinePriority(due, epoch) == Least(Most(due - epoch, 1), Lowest)

\* What addBulk is given, by policy, from the time and the base the call read: the groups
\* in their order after whatever has been added.
Group(b, n, priority, deadline, place) ==
  [of |-> b, n |-> n, priority |-> priority, deadline |-> deadline, tried |-> FALSE, at |-> pushes + place]

Payload(b, time, base) ==
  LET due == time + Seconds * SnapshotsOf(b) IN
  CASE policy = "deadline" ->
         {Group(b, n, DeadlinePriority(due, base), due, InterleaveBrowsers(b)[n]) : n \in DOMAIN Groups[b]}
    [] policy = "round-robin" ->
         {Group(b, n, Least(base + Index(b, n), Lowest), 0, n) : n \in DOMAIN Groups[b]}
    [] policy = "fifo" ->
         {Group(b, n, 0, 0, n) : n \in DOMAIN Groups[b]}

-----------------------------------------------------------------------------
Idle == [pc |-> "idle", now |-> 0, base |-> 0]
Open(b) == call[b].pc \in {"begun", "read"}

Init ==
  /\ policy \in Policies
  /\ now = 0
  /\ call = [b \in Builds |-> Idle]
  /\ queue = {} /\ wait = {} /\ delayed = {} /\ active = {}
  /\ pushes = 0
  /\ passed = [b \in Builds |-> {}]
  /\ raced = FALSE /\ strayed = FALSE
  /\ events = 0

\* Only "deadline" reads the clock.
Tick ==
  /\ policy = "deadline" /\ now < MaxNow
  /\ now' = now + 1
  /\ UNCHANGED <<policy, call, jobVars, passed, raced, strayed, events>>

\* enqueueCaptureGroups starts: it reads the clock, then asks for the queue's head.
Begin(b) ==
  /\ call[b].pc = "idle"
  /\ call' = [call EXCEPT ![b] = [@ EXCEPT !.pc = "begun", !.now = now]]
  /\ raced' = (raced \/ \E c \in Builds : Open(c))
  /\ UNCHANGED <<policy, now, jobVars, passed, strayed, events>>

ReadHead(b) ==
  /\ call[b].pc = "begun"
  /\ \E next \in NextPrioritized :
       call' = [call EXCEPT ![b] = [@ EXCEPT !.pc = "read", !.base = Base(next, call[b].now)]]
  /\ UNCHANGED <<policy, now, jobVars, passed, raced, strayed, events>>

Add(b) ==
  LET jobs == Payload(b, call[b].now, call[b].base) IN
  /\ call[b].pc = "read"
  /\ call' = [call EXCEPT ![b] = [Idle EXCEPT !.pc = "done"]]
  /\ IF policy = "fifo"
     THEN wait' = wait \union jobs /\ UNCHANGED queue
     ELSE queue' = queue \union jobs /\ UNCHANGED wait
  /\ pushes' = pushes + Len(Groups[b])
  /\ UNCHANGED <<policy, now, delayed, active, passed, raced, strayed, events>>

-----------------------------------------------------------------------------
\* A worker takes a group: the wait list's first, else the first prioritized.
Taken(job) == [job EXCEPT !.tried = TRUE, !.at = 0]

TakeWaiting(job) ==
  /\ Cardinality(active) < Workers
  /\ \A j \in wait : job.at <= j.at
  /\ active' = active \union {Taken(job)}
  /\ wait' = wait \ {job}
  /\ UNCHANGED <<policy, now, call, queue, delayed, pushes, passed, raced, strayed, events>>

Turn(job) == <<job.of, BrowserOf(job.of, job.n)>>

HasWaiting(b, browser) == \E j \in queue : Turn(j) = <<b, browser>>

TakePrioritized(job) ==
  /\ Cardinality(active) < Workers
  /\ wait = {} /\ IsNext(job)
  /\ active' = active \union {Taken(job)}
  /\ queue' = queue \ {job}
  /\ passed' = [b \in Builds |->
       IF policy # "round-robin" THEN {}
       ELSE IF b = job.of THEN {t \in passed[b] : t[2] # Turn(job)[2]}
       ELSE passed[b] \union {t \in {Turn(job)} : HasWaiting(b, t[2])}]
  /\ raced' = \/ raced
              \/ policy = "round-robin" /\ \E b \in Builds : call[b].pc = "read"
  /\ UNCHANGED <<policy, now, call, wait, delayed, pushes, strayed, events>>

\* The group's job ends, captured or out of attempts.
Finish(job) ==
  /\ active' = active \ {job}
  /\ UNCHANGED <<policy, now, call, queue, wait, delayed, pushes, passed, raced, strayed, events>>

Event ==
  /\ events < MaxEvents
  /\ events' = events + 1

\* An attempt fails and the job is moved to its backoff.
Fail(job) ==
  /\ Event
  /\ active' = active \ {job}
  /\ delayed' = delayed \union {job}
  /\ UNCHANGED <<policy, now, call, queue, wait, pushes, passed, raced, strayed>>

\* A job joins the last of the wait list, or of its equals.
Push(job) == [job EXCEPT !.at = pushes + 1]

\* The worker is gone: BullMQ puts the group back at the head of the wait list.
Stall(job) ==
  /\ Event
  /\ active' = active \ {job}
  /\ wait' = wait \union {[job EXCEPT !.at = -(pushes + 1)]}
  /\ pushes' = pushes + 1
  /\ UNCHANGED <<policy, now, call, queue, delayed, passed, raced, strayed>>

\* The worker's "failed" handler: runCaptureGroupRetryFirst, while the job is
\* still delayed, or once it is prioritized again.  The handler may not run, or
\* lose its connection: then this step is not taken.
RetryFirst(job) ==
  LET first == [job EXCEPT !.priority = 0] IN
  /\ job.priority # 0 /\ job.tried
  /\ \/ /\ job \in delayed
        /\ delayed' = (delayed \ {job}) \union {first}
        /\ UNCHANGED <<queue, wait, pushes>>
     \/ /\ job \in queue
        /\ queue' = queue \ {job}
        /\ wait' = wait \union {Push(first)}
        /\ pushes' = pushes + 1
        /\ UNCHANGED delayed
  /\ UNCHANGED <<policy, now, call, active, passed, raced, strayed, events>>

\* The backoff is over.
Due(job) ==
  /\ delayed' = delayed \ {job}
  /\ IF job.priority = 0
     THEN wait' = wait \union {Push(job)} /\ UNCHANGED <<queue, strayed>>
     ELSE /\ queue' = queue \union {Push(job)}
          /\ strayed' = TRUE
          /\ UNCHANGED wait
  /\ pushes' = pushes + 1
  /\ UNCHANGED <<policy, now, call, active, passed, raced, events>>

\* cancelBuildJobs: every group of the build that no worker has taken.  One that
\* finds none changes nothing.
CancelJobs(b) ==
  LET mine == {j \in queue \union wait \union delayed : j.of = b} IN
  /\ mine # {}
  /\ Event
  /\ queue' = queue \ mine
  /\ wait' = wait \ mine
  /\ delayed' = delayed \ mine
  /\ UNCHANGED <<policy, now, call, active, pushes, passed, raced, strayed>>

QueueStep == \E b \in Builds : Begin(b) \/ ReadHead(b) \/ Add(b)
Next ==
  \/ Tick
  \/ QueueStep
  \/ \E job \in wait : TakeWaiting(job)
  \/ \E job \in queue : TakePrioritized(job)
  \/ \E job \in active : Finish(job) \/ Fail(job) \/ Stall(job)
  \/ \E job \in delayed \union queue : RetryFirst(job)
  \/ \E job \in delayed : Due(job)
  \/ \E b \in Builds : CancelJobs(b)

Spec == Init /\ [][Next]_vars

-----------------------------------------------------------------------------
IsJob(j) ==
  /\ j \in [of : Builds, n : Nat, priority : 0..Lowest, deadline : Nat,
            tried : BOOLEAN, at : (-pushes)..pushes]
  /\ j.n \in DOMAIN Groups[j.of]
  /\ policy = "fifo" => j.priority = 0

\* Types.  A priority BullMQ is given is between 1 and the largest it takes; 0,
\* which the wait list stands for, is left to groups that have been tried.
TypeOK ==
  /\ policy \in Policies /\ now \in 0..MaxNow /\ events \in 0..MaxEvents
  /\ call \in [Builds -> [pc : {"idle", "begun", "read", "done"}, now : 0..MaxNow,
                          base : Int]]
  /\ pushes \in Nat
  /\ \A j \in queue : IsJob(j) /\ j.priority >= 1
  /\ \A j \in wait : IsJob(j) /\ (policy = "fifo" \/ j.tried)
  /\ \A j \in delayed \union active : IsJob(j) /\ j.tried
  /\ passed \in [Builds -> SUBSET (Builds \X Browsers)]
  /\ raced \in BOOLEAN /\ strayed \in BOOLEAN

\* Under a policy with priorities a build's groups are taken browser by browser
\* in turn: while they wait, the nth group of one browser is ahead of the next
\* group of any other (interleaveBrowsers, and a round per browser).
BrowsersAlternate ==
  policy # "fifo" =>
    \A j, k \in queue :
      /\ j.of = k.of
      /\ ~j.tried /\ ~k.tried
      /\ policy = "deadline" \/ k.priority < Lowest
      /\ Index(j.of, j.n) < Index(k.of, k.n)
      => Ahead(j, k)

\* Under "deadline" workers take the group due first, so none queued after a
\* build's deadline passes it, whatever else was queued, drained, canceled or
\* failed in between: every waiting group counts from one epoch.  Priorities at
\* the limit are excepted, as are a queue two builds wrote at once and one a
\* failed group went back to at its old priority.
DueFirst ==
  policy = "deadline" /\ ~raced /\ ~strayed
    => \A job \in queue :
         TakePrioritized(job)
           => \A j \in queue : j.priority < Lowest => job.deadline <= j.deadline

EarliestDueFirst == [][DueFirst]_vars

\* Under "round-robin" a build takes one turn per browser: between two groups of
\* a browser of one build no other build takes two, whenever it was queued, until
\* rounds are at the limit.
InTurn ==
  policy = "round-robin" /\ ~raced' /\ ~strayed
    => \A job \in queue :
         TakePrioritized(job) /\ job.priority < Lowest
           => \A b \in Builds \ {job.of} :
                HasWaiting(b, Turn(job)[2]) => Turn(job) \notin passed[b]

TakesTurns == [][InTurn]_vars

=============================================================================
