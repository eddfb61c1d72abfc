----------------------------- MODULE BundleCache -----------------------------
(***************************************************************************)
(* The Storybook bundles a worker keeps on its disk: the capture groups of *)
(* one worker lease the bundle of their build, the first to miss it        *)
(* downloads it for all, and every download evicts what is over the cap,   *)
(* the least recently used first.                                          *)
(*                                                                         *)
(* All of it runs on one event loop, so what a function does between two   *)
(* awaits is one step; a removal takes its time beside everything else.    *)
(***************************************************************************)
EXTENDS FiniteSets, Naturals, Sequences, SequencesExt

CONSTANTS
  Builds,
  Users,              \* concurrent calls of withBundleDir: groups and extractions
  Cap,                \* OVR_STORYBOOK_CACHE_BYTES, in bundles
  MaxFaults           \* bound: downloads and removals that fail

ASSUME CacheAssumption ==
  IsFiniteSet(Builds) /\ IsFiniteSet(Users) /\ "none" \notin Builds /\ {Cap, MaxFaults} \subseteq Nat

VARIABLES
  dir,                \* each build's directory
  recent,             \* directories by mtime, the oldest first
  leased,             \* leases of each directory
  user,               \* each call: its step and its build
  job,                \* inflight: the download of each build, or Idle
  unsafe,             \* history: calls that began while a removal of their directory was going on or had failed
  faults

vars == <<dir, recent, leased, user, job, unsafe, faults>>

Out == [pc |-> "out", of |-> "none"]
Idle == [pc |-> "idle", todo |-> <<>>, total |-> 0]

TypeOK ==
  /\ dir \in [Builds -> {"absent", "whole", "partial"}]
  /\ IsInjective(recent) /\ ToSet(recent) = {b \in Builds : dir[b] # "absent"}
  /\ leased = [b \in Builds |-> Cardinality({u \in Users : user[u].of = b})]
  /\ user \in [Users -> [pc : {"ask", "wait", "use", "failed"}, of : Builds] \cup {Out}]
  /\ \A b \in Builds :
       /\ job[b].pc \in {"idle", "download", "publish", "list", "evict", "remove"}
       /\ job[b].total \in 0..Cardinality(Builds)
       /\ ToSet(job[b].todo) \subseteq Builds
  /\ unsafe \subseteq Users /\ faults \in 0..MaxFaults

Init ==
  /\ dir = [b \in Builds |-> "absent"] /\ recent = <<>>
  /\ leased = [b \in Builds |-> 0]
  /\ user = [u \in Users |-> Out]
  /\ job = [b \in Builds |-> Idle]
  /\ unsafe = {} /\ faults = 0

Fault == faults < MaxFaults /\ faults' = faults + 1
Goto(u, pc) == user' = [user EXCEPT ![u].pc = pc]
\* The mtimes without the one of b.
Without(b) ==
  IF b \in ToSet(recent) THEN RemoveAt(recent, CHOOSE i \in DOMAIN recent : recent[i] = b) ELSE recent

Bump(b) == recent' = Append(Without(b), b)

-----------------------------------------------------------------------------
(* withBundleDir *)

\* lease, before anything is read
Enter(u) ==
  /\ user[u] = Out
  /\ \E b \in Builds :
       /\ user' = [user EXCEPT ![u] = [pc |-> "ask", of |-> b]]
       /\ leased' = [leased EXCEPT ![b] = @ + 1]
       /\ unsafe' = IF dir[b] = "partial" THEN unsafe \cup {u} ELSE unsafe
  /\ UNCHANGED <<dir, recent, job, faults>>

\* getBundleDir: a directory that is there is taken as it is, and is the latest used.
Hit(u) ==
  /\ user[u].pc = "ask" /\ dir[user[u].of] # "absent"
  /\ Goto(u, "use") /\ Bump(user[u].of)
  /\ UNCHANGED <<dir, leased, job, unsafe, faults>>

\* Otherwise its download is joined, or started.
Miss(u) ==
  LET b == user[u].of
  IN  /\ user[u].pc = "ask" /\ dir[b] = "absent"
      /\ Goto(u, "wait")
      /\ job' = IF job[b].pc = "idle" THEN [job EXCEPT ![b].pc = "download"] ELSE job
      /\ UNCHANGED <<dir, recent, leased, unsafe, faults>>

\* Mutant: the lease is dropped with the first call that is done.
ReleasedAll(b) == 0

Released(b) == leased[b] - 1

Leave(u) ==
  /\ user[u].pc \in {"use", "failed"}
  /\ user' = [user EXCEPT ![u] = Out]
  /\ leased' = [leased EXCEPT ![user[u].of] = Released(user[u].of)]
  /\ unsafe' = unsafe \ {u}
  /\ UNCHANGED <<dir, recent, job, faults>>

-----------------------------------------------------------------------------
(* materialize *)

Step(b, pc) == job' = [job EXCEPT ![b].pc = pc]
\* Mutant: the call that started the job has its result, and those that joined it have not.
SettleStarter(b, pc) ==
  /\ job' = [job EXCEPT ![b] = Idle]
  /\ \E u \in Users : user[u] = [pc |-> "wait", of |-> b] /\ Goto(u, pc)

\* Whoever waits for the job has its result.
Settle(b, pc) ==
  /\ job' = [job EXCEPT ![b] = Idle]
  /\ user' = [u \in Users |-> IF user[u] = [pc |-> "wait", of |-> b]
                              THEN [user[u] EXCEPT !.pc = pc] ELSE user[u]]

Download(b) ==
  /\ job[b].pc = "download"
  /\ Step(b, "publish")
  /\ UNCHANGED <<dir, recent, leased, user, unsafe, faults>>

DownloadFails(b) ==
  /\ job[b].pc = "download" /\ Fault
  /\ Settle(b, "failed")
  /\ UNCHANGED <<dir, recent, leased, unsafe>>

Publish(b) ==
  /\ job[b].pc = "publish"
  /\ dir' = [dir EXCEPT ![b] = "whole"] /\ Bump(b)
  /\ Step(b, "list")
  /\ UNCHANGED <<leased, user, unsafe, faults>>

\* evictIfOverCap: what it lists is as old as its stat, whatever is used after that.
List(b) ==
  /\ job[b].pc = "list"
  /\ job' = [job EXCEPT ![b] = [pc |-> "evict", todo |-> recent, total |-> Len(recent)]]
  /\ UNCHANGED <<dir, recent, leased, user, unsafe, faults>>

\* directorySize meets a directory that another job is removing: the eviction is given up, and
\* the bundle is there all the same.
ListFails(b) ==
  /\ job[b].pc = "list" /\ \E c \in Builds : job[c].pc = "remove"
  /\ Settle(b, "use")
  /\ UNCHANGED <<dir, recent, leased, unsafe, faults>>

\* Mutant: a bundle that is leased goes as any other.
Keeps(b, a) == a = b

Skips(b, a) == a = b \/ leased[a] > 0

Gone(b) == [job EXCEPT ![b] = [pc |-> "evict", todo |-> Tail(@.todo), total |-> @.total - 1]]

\* The oldest that may go, until the rest fits.  There is nothing to remove of one that is gone.
Evict(b) ==
  /\ job[b].pc = "evict"
  /\ IF job[b].total <= Cap \/ job[b].todo = <<>>
     THEN Settle(b, "use") /\ UNCHANGED dir
     ELSE LET a == Head(job[b].todo)
          IN  /\ IF Skips(b, a) THEN job' = [job EXCEPT ![b].todo = Tail(@)] /\ UNCHANGED dir
                 ELSE IF dir[a] = "absent" THEN job' = Gone(b) /\ UNCHANGED dir
                 ELSE Step(b, "remove") /\ dir' = [dir EXCEPT ![a] = "partial"]
              /\ UNCHANGED user
  /\ UNCHANGED <<recent, leased, unsafe, faults>>

\* The removal is over; two of the same bundle end together, long before it is downloaded again.
\* One that failed is only logged, with some of the bundle left.
Removed(b) ==
  LET a == Head(job[b].todo)
  IN  /\ job[b].pc = "remove"
      /\ job' = Gone(b)
      /\ IF dir[a] = "partial"
         THEN \/ dir' = [dir EXCEPT ![a] = "absent"] /\ recent' = Without(a) /\ UNCHANGED faults
              \/ Fault /\ UNCHANGED <<dir, recent>>
         ELSE UNCHANGED <<dir, recent, faults>>
      /\ UNCHANGED <<leased, user, unsafe>>

-----------------------------------------------------------------------------
Call(u) == Enter(u) \/ Hit(u) \/ Miss(u) \/ Leave(u)
Job(b) ==
  \/ Download(b) \/ DownloadFails(b) \/ Publish(b)
  \/ List(b) \/ ListFails(b) \/ Evict(b) \/ Removed(b)

Next == (\E u \in Users : Call(u)) \/ \E b \in Builds : Job(b)

\* Downloads and removals come to an end, and a call that asks is served.
Fairness ==
  /\ \A b \in Builds : WF_vars(Job(b))
  /\ \A u \in Users : WF_vars(Hit(u) \/ Miss(u))

Spec == Init /\ [][Next]_vars /\ Fairness
-----------------------------------------------------------------------------
(* Properties *)

\* A bundle in use stays whole, unless a removal was going on as the call began, or had failed
\* before: the lease is counted before the directory is looked at, and leases are looked at
\* before a removal.
InUseIsWhole == \A u \in Users \ unsafe : user[u].pc = "use" => dir[user[u].of] = "whole"

\* Whatever waits for a bundle has it, or its failure, in the end.
AskedIsServed == \A u \in Users : user[u].pc \in {"ask", "wait"} ~> user[u].pc \in {"use", "failed"}
=============================================================================
