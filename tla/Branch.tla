------------------------------- MODULE Branch -------------------------------
(***************************************************************************)
(* The builds of one branch: the command line client that uploads a build, *)
(* with its retries, the calls that create and confirm it, the newer build *)
(* that supersedes the older ones, and the rebuilds a person asks for.     *)
(*                                                                         *)
(* A call reads, waits and writes: several are under way at once.  What    *)
(* happens to a build once its extract job runs is BuildPipeline's; here   *)
(* it is only that BuildLifecycle holds of it.                             *)
(***************************************************************************)
EXTENDS FiniteSets, Naturals

CONSTANTS
  Uploads,            \* runs of ovr upload, each with the build id it chose
  Rebuilds,           \* builds that rebuildBuild creates
  MaxRequests,        \* MAX_RETRIES + 1
  MaxEvents           \* bound: retries, rebuilds, cancels, calls that die and queues that do not answer

ASSUME BuildsAssumption ==
  Uploads \cap Rebuilds = {} /\ MaxRequests \in Nat \ {0} /\ MaxEvents \in Nat

VARIABLES
  row,                \* builds.processingStatus, or none
  stamp, clock,       \* builds.createdAt: when its transaction began
  defaults,           \* builds with a row of buildExtractDefaults
  jobs,               \* builds with an extract job
  extracted,          \* builds whose extract job has run
  cli,                \* each upload: its step, and the request it waits for
  calls,              \* calls under way on the server
  superseded,         \* history: builds canceled by a newer one
  ended,              \* history: builds that were canceled or failed
  raced, died,        \* history: a check was outrun; a call died superseding
  events

buildVars == <<row, stamp, clock, defaults, jobs, extracted>>
history == <<superseded, ended, raced, died>>
vars == <<buildVars, cli, calls, history, events>>

Builds == Uploads \cup Rebuilds
Life(b) == INSTANCE BuildLifecycle WITH status <- row[b]
InProgress == {"queued", "processing"}
BuildStatus == InProgress \cup {"success", "error", "canceled"}

CallShape ==
  [op : {"create", "confirm", "rebuild", "retake"}, of : Builds, try : Nat,
   pc : {"insert", "list", "cancel", "read", "enqueue", "open", "requeue"},
   at : Nat, todo : SUBSET Builds, gone : SUBSET Builds]

\* What a client may hold.
Client == [pc : {"create", "confirm", "done", "conflict", "gave up"}, try : Nat]

TypeOK ==
  /\ row \in [Builds -> BuildStatus \cup {"none"}]
  /\ clock \in Nat /\ stamp \in [Builds -> Nat]
  /\ defaults \subseteq Builds /\ jobs \subseteq defaults /\ extracted \subseteq defaults
  /\ cli \in [Uploads -> Client]
  /\ calls \subseteq CallShape
  /\ superseded \subseteq Builds /\ ended \subseteq Builds
  /\ events \in Nat

Init ==
  /\ row = [b \in Builds |-> "none"]
  /\ stamp = [b \in Builds |-> 0] /\ clock = 0
  /\ defaults = {} /\ jobs = {} /\ extracted = {}
  /\ cli = [u \in Uploads |-> [pc |-> "create", try |-> 0]]
  /\ calls = {}
  /\ superseded = {} /\ ended = {} /\ raced = FALSE /\ died = FALSE
  /\ events = 0

Event == events < MaxEvents /\ events' = events + 1

Newer(a, b) == stamp[a] > stamp[b]
IsLatest(b) == \A a \in Builds : ~Newer(a, b)

\* Mutant: a build is written whatever became of it.
SetAlways(b, status) ==
  row' = [row EXCEPT ![b] = status] /\ ended' = IF status = "error" THEN ended \cup {b} ELSE ended

\* updateProcessingStatus, with its history: anything but a canceled build.
SetUnlessCanceled(b, status) ==
  IF row[b] = "canceled" THEN UNCHANGED <<row, ended>>
  ELSE /\ row' = [row EXCEPT ![b] = status]
       /\ ended' = IF status = "error" THEN ended \cup {b} ELSE ended

\* cancelIfInProgress, with its history.
Canceled(b) ==
  IF row[b] \in InProgress
  THEN row' = [row EXCEPT ![b] = "canceled"] /\ ended' = ended \cup {b}
  ELSE UNCHANGED <<row, ended>>

-----------------------------------------------------------------------------
(* The client *)

Call(op, b, try, pc, at) ==
  [op |-> op, of |-> b, try |-> try, pc |-> pc, at |-> at, todo |-> {}, gone |-> {}]

\* A request, or the same once more: no answer came, or one that says to try again.  The
\* transaction of a create has its time from here; one that finds its row needs none.
Request(u) ==
  /\ cli[u].pc \in {"create", "confirm"} /\ cli[u].try < MaxRequests
  /\ IF cli[u].try = 0 THEN UNCHANGED events ELSE Event
  /\ cli' = [cli EXCEPT ![u].try = @ + 1]
  /\ clock' = IF cli[u].pc = "create" /\ row[u] = "none" THEN clock + 1 ELSE clock
  /\ calls' = calls \cup {Call(cli[u].pc, u, cli'[u].try,
                               IF cli[u].pc = "create" THEN "insert" ELSE "read", clock')}
  /\ UNCHANGED <<row, stamp, defaults, jobs, extracted, history>>

GiveUp(u) ==
  /\ cli[u].pc \in {"create", "confirm"} /\ cli[u].try = MaxRequests
  /\ cli' = [cli EXCEPT ![u].pc = "gave up"]
  /\ UNCHANGED <<buildVars, calls, history, events>>

\* The call answers; only the request the client waits for is heard.  The artifact is uploaded
\* between the answer to a create and the confirmation.
Reply(h, pc) ==
  /\ calls' = calls \ {h}
  /\ cli' = IF cli[h.of].pc = h.op /\ cli[h.of].try = h.try
            THEN [cli EXCEPT ![h.of] = [pc |-> pc, try |-> 0]] ELSE cli

-----------------------------------------------------------------------------
(* createBuild *)

Goto(h, pc) == calls' = (calls \ {h}) \cup {[h EXCEPT !.pc = pc]}

\* Mutant: a build id that is taken is always a conflict.
NeverRetried(b) == FALSE

\* The client's earlier request went through, and nothing has come of the build since.
IsRetryOfPendingUpload(b) == row[b] = "queued" /\ b \notin defaults

\* createIfAbsent: a row that is older than one that is there already goes unseen by it.
Insert(h) ==
  /\ h.op = "create" /\ h.pc = "insert"
  /\ IF row[h.of] = "none"
     THEN /\ row' = [row EXCEPT ![h.of] = "queued"]
          /\ stamp' = [stamp EXCEPT ![h.of] = h.at]
          /\ raced' = (raced \/ \E b \in Builds : stamp[b] > h.at)
          /\ Goto(h, "list") /\ UNCHANGED cli
     ELSE /\ Reply(h, IF IsRetryOfPendingUpload(h.of) THEN "confirm" ELSE "conflict")
          /\ UNCHANGED <<row, stamp, raced>>
  /\ UNCHANGED <<clock, defaults, jobs, extracted, superseded, ended, died, events>>

\* Mutant: every other build of the branch gives way.
AnyOther(a, b) == a # b

CreatedBefore(a, b) == Newer(b, a)

\* supersedeInFlightBuilds
List(h) ==
  /\ h.pc = "list"
  /\ calls' = (calls \ {h}) \cup
       {[h EXCEPT !.pc = "cancel",
                  !.todo = {a \in Builds : row[a] \in InProgress /\ CreatedBefore(a, h.of)}]}
  /\ UNCHANGED <<buildVars, cli, history, events>>

StillInProgress(a) == row[a] \in InProgress

CancelNext(h) ==
  /\ h.pc = "cancel"
  /\ \E a \in h.todo :
       LET mine == IF StillInProgress(a) THEN {a} ELSE {}
       IN  /\ \A y \in h.todo : ~Newer(y, a)
           /\ Canceled(a)
           /\ calls' = (calls \ {h}) \cup {[h EXCEPT !.todo = @ \ {a}, !.gone = @ \cup mine]}
           /\ superseded' = superseded \cup mine
  /\ UNCHANGED <<stamp, clock, defaults, jobs, extracted, cli, raced, died, events>>

\* cancelBuildJobs, whose failure is only logged.
Superseded(h) ==
  /\ h.pc = "cancel" /\ h.todo = {}
  /\ \/ jobs' = jobs \ h.gone /\ UNCHANGED events
     \/ h.gone # {} /\ Event /\ UNCHANGED jobs
  /\ Reply(h, "confirm")
  /\ UNCHANGED <<row, stamp, clock, defaults, extracted, history>>

-----------------------------------------------------------------------------
(* confirmBuildUpload *)

\* Mutant: a confirmation that was stored is taken for one that was queued.
ConfirmOnce(h) ==
  /\ h.op = "confirm" /\ h.pc = "read"
  /\ IF row[h.of] \in {"canceled", "error"} THEN Reply(h, "conflict")
     ELSE IF h.of \in defaults THEN Reply(h, "done")
     ELSE Goto(h, "enqueue") /\ UNCHANGED cli
  /\ defaults' = defaults \cup {h.of}
  /\ UNCHANGED <<row, stamp, clock, jobs, extracted, history, events>>

\* The build it read, and its defaults: a retry of the confirmation keeps the first ones.
Confirm(h) ==
  /\ h.op = "confirm" /\ h.pc = "read"
  /\ IF row[h.of] \in {"canceled", "error"}
     THEN Reply(h, "conflict") /\ UNCHANGED defaults
     ELSE Goto(h, "enqueue") /\ defaults' = defaults \cup {h.of} /\ UNCHANGED cli
  /\ UNCHANGED <<row, stamp, clock, jobs, extracted, history, events>>

\* enqueueExtract: a build that was extracted is extracted once more.
Enqueue(h) ==
  /\ h.pc = "enqueue"
  /\ jobs' = jobs \cup {h.of}
  /\ IF h.op = "confirm" THEN Reply(h, "done") ELSE calls' = calls \ {h} /\ UNCHANGED cli
  /\ UNCHANGED <<row, stamp, clock, defaults, extracted, history, events>>

\* The queue is unavailable: the build has failed.
EnqueueFails(h) ==
  /\ h.pc = "enqueue" /\ Event
  /\ SetUnlessCanceled(h.of, "error")
  /\ calls' = calls \ {h}
  /\ UNCHANGED <<stamp, clock, defaults, jobs, extracted, cli, superseded, raced, died>>

-----------------------------------------------------------------------------
(* rebuildBuild and rebuildSnapshots *)

\* Mutant: a build is rebuilt while it runs.
AnyStatus(b) == row[b] # "none"

NotInProgress(b) == row[b] \in BuildStatus \ InProgress

Rebuildable(b) == NotInProgress(b) /\ IsLatest(b) /\ b \in defaults

\* A build with snapshots.  rebuildSnapshots leaves one that is still running as it is.
Retakable(b) ==
  NotInProgress(b) /\ row[b] # "canceled" /\ IsLatest(b) /\ b \in extracted

Ask(b) ==
  /\ Event
  /\ \/ Rebuildable(b) /\ calls' = calls \cup {Call("rebuild", b, events, "open", 0)}
     \/ Retakable(b) /\ calls' = calls \cup {Call("retake", b, events, "requeue", 0)}
  /\ UNCHANGED <<buildVars, cli, history>>

\* The transaction of a rebuild begins.
Open(h) ==
  /\ h.pc = "open"
  /\ clock' = clock + 1
  /\ calls' = (calls \ {h}) \cup {[h EXCEPT !.pc = "insert", !.at = clock + 1]}
  /\ UNCHANGED <<row, stamp, defaults, jobs, extracted, cli, history, events>>

Rebuild(h) ==
  /\ h.op = "rebuild" /\ h.pc = "insert"
  /\ \E r \in Rebuilds :
       /\ row[r] = "none"
       /\ row' = [row EXCEPT ![r] = "queued"]
       /\ stamp' = [stamp EXCEPT ![r] = h.at]
       /\ defaults' = defaults \cup {r}
       /\ calls' = (calls \ {h}) \cup {[h EXCEPT !.of = r, !.pc = "enqueue"]}
  /\ raced' = (raced \/ ~Rebuildable(h.of))
  /\ UNCHANGED <<clock, jobs, extracted, cli, superseded, ended, died, events>>

Retake(h) ==
  /\ h.pc = "requeue"
  /\ SetUnlessCanceled(h.of, "queued")
  /\ calls' = calls \ {h}
  /\ raced' = (raced \/ ~Retakable(h.of))
  /\ UNCHANGED <<stamp, clock, defaults, jobs, extracted, cli, superseded, died, events>>

-----------------------------------------------------------------------------
(* The pipeline, people and failures *)

\* The extract job of a build that has ended does nothing.
Extract(b) ==
  /\ b \in jobs
  /\ jobs' = jobs \ {b}
  /\ extracted' = IF row[b] \in InProgress THEN extracted \cup {b} ELSE extracted
  /\ UNCHANGED <<row, stamp, clock, defaults, cli, calls, history, events>>

Work(b) ==
  /\ b \in extracted
  /\ \/ row[b] = "queued" /\ SetUnlessCanceled(b, "processing")
     \/ row[b] \in InProgress /\ \E s \in {"success", "error"} : SetUnlessCanceled(b, s)
  /\ UNCHANGED <<stamp, clock, defaults, jobs, extracted, cli, calls, superseded, raced, died, events>>

\* cancelBuild
CancelBuild(b) ==
  /\ row[b] \in InProgress /\ Event
  /\ Canceled(b)
  /\ jobs' = jobs \ {b}
  /\ UNCHANGED <<stamp, clock, defaults, extracted, cli, calls, superseded, raced, died>>

\* A call dies, with its process or on an error of the database.
Dies(h) ==
  /\ Event
  /\ calls' = calls \ {h}
  /\ died' = (died \/ h.pc \in {"list", "cancel"})
  /\ UNCHANGED <<buildVars, cli, superseded, ended, raced>>

-----------------------------------------------------------------------------
Server(h) ==
  \/ Insert(h) \/ List(h) \/ CancelNext(h) \/ Superseded(h)
  \/ Confirm(h) \/ Enqueue(h) \/ EnqueueFails(h)
  \/ Open(h) \/ Rebuild(h) \/ Retake(h) \/ Dies(h)

Next ==
  \/ \E u \in Uploads : Request(u) \/ GiveUp(u)
  \/ \E h \in calls : Server(h)
  \/ \E b \in Builds : Ask(b) \/ Extract(b) \/ Work(b) \/ CancelBuild(b)

Spec == Init /\ [][Next]_vars
-----------------------------------------------------------------------------
(* Properties *)

\* Whichever uploads overlap, the newest build of the branch gives way to none
\* (supersedeInFlightBuilds).
NewestSurvives == \A b \in superseded : ~IsLatest(b)

\* Once its calls are through, a branch has one build in flight at most, unless a row became
\* visible out of order, a rebuild was outrun by another build, or a call died superseding.
OneInFlight ==
  ~raced /\ ~died /\ (\A h \in calls : h.pc \notin {"list", "cancel"})
    => Cardinality({b \in Builds : row[b] \in InProgress}) <= 1

\* A build that the client calls published has its job, or had it, or has ended, however often
\* it was asked for (confirmBuildUpload).
PublishedIsQueued == \A u \in Uploads : cli[u].pc = "done" => u \in jobs \cup extracted \cup ended

\* A client is refused only a build that was canceled or failed: an answer that was lost costs
\* nothing (isRetryOfPendingUpload).
RefusedHasEnded == \A u \in Uploads : cli[u].pc = "conflict" => u \in ended

\* Uploads, the pipeline, cancellations, supersedings and rebuilds keep each build of the branch
\* to its life cycle; but of two people who have snapshots taken again at once, the second sends
\* a build that runs back to the queue.  Votes are not among the calls here.
SentBack(b) == raced' /\ row[b] = "processing" /\ row'[b] = "queued"

RowsFollowLife ==
  [][\A b \in Builds : row[b] # "none" => [Life(b)!Next]_(row[b]) \/ SentBack(b)]_vars
=============================================================================
