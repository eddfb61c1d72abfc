--------------------------- MODULE BundleCacheProofs ---------------------------
(***************************************************************************)
(* For any finite number of builds and concurrent calls, any cap and any   *)
(* number of failures: a bundle in use stays whole, and what the cache     *)
(* keeps of its directories, their mtimes and their leases agrees.         *)
(***************************************************************************)
EXTENDS BundleCache, FiniteSetTheorems, SequenceTheorems, TLAPS

JobPcs == {"idle", "download", "publish", "list", "evict", "remove"}
Calls == [pc : {"ask", "wait", "use", "failed"}, of : Builds] \cup {Out}

\* What TypeOK says of the variables whose types matter here: of a job only that it has its
\* fields, since what it lists is read and never trusted.
Shape ==
  /\ dir \in [Builds -> {"absent", "whole", "partial"}]
  /\ leased \in [Builds -> Nat]
  /\ user \in [Users -> Calls]
  /\ DOMAIN job = Builds /\ job = [b \in Builds |-> job[b]]
  /\ \A b \in Builds :
       /\ job[b] = [pc |-> job[b].pc, todo |-> job[b].todo, total |-> job[b].total]
       /\ job[b].pc \in JobPcs

Of(b) == {u \in Users : user[u].of = b}
Waiting(b) == {u \in Users : user[u].pc = "wait" /\ user[u].of = b}

Counted == \A b \in Builds : leased[b] = Cardinality(Of(b))

\* A download goes on for somebody, and has its lease until it is over.
Awaited == \A b \in Builds : job[b].pc # "idle" => Waiting(b) # {}

\* What has been published stays until its waiting calls have it.
Published == \A b \in Builds : job[b].pc \in {"list", "evict", "remove"} => dir[b] = "whole"

\* No removal begins under a call.
Untouched ==
  \A u \in Users \ unsafe :
    /\ user[u].pc \in {"ask", "wait"} => dir[user[u].of] # "partial"
    /\ user[u].pc = "use" => dir[user[u].of] = "whole"

IInv == Shape /\ Counted /\ Awaited /\ Published /\ Untouched

-----------------------------------------------------------------------------
(* Leases *)

LEMMA OfIsFinite == ASSUME NEW b PROVE IsFiniteSet(Of(b)) /\ Cardinality(Of(b)) \in Nat
<1>1. Of(b) \subseteq Users
  BY DEF Of
<1> QED  BY <1>1, CacheAssumption, FS_Subset, FS_CardinalityType

LEMMA CallShape ==
  ASSUME Shape, NEW u \in Users
  PROVE  /\ user[u].pc \in {"out", "ask", "wait", "use", "failed"}
         /\ user[u].pc # "out" => user[u].of \in Builds /\ user[u] = [pc |-> user[u].pc, of |-> user[u].of]
         /\ user[u].pc = "out" => user[u] = Out /\ user[u].of \notin Builds
<1>1. user[u] \in Calls
  BY DEF Shape
<1> QED  BY <1>1, CacheAssumption DEF Calls, Out

\* A bundle some call is at has a lease, so that nothing evicts it.
LEMMA Leased ==
  ASSUME IInv, NEW u \in Users, user[u].of \in Builds
  PROVE  leased[user[u].of] > 0
<1> DEFINE b == user[u].of
<1>1. u \in Of(b) /\ IsFiniteSet(Of(b)) /\ Cardinality(Of(b)) \in Nat
  BY OfIsFinite DEF Of
<1>2. Cardinality(Of(b)) # 0
  BY <1>1, FS_EmptySet
<1> QED  BY <1>1, <1>2 DEF IInv, Counted

\* A step that moves calls without taking or returning a lease.
LEMMA CountedStays ==
  ASSUME IInv, UNCHANGED leased, \A u \in Users : user'[u].of = user[u].of
  PROVE  Counted'
<1>1. \A b : Of(b)' = Of(b)
  BY DEF Of
<1> QED  BY <1>1 DEF IInv, Counted

LEMMA InitHolds == Init => IInv
<1> SUFFICES ASSUME Init PROVE IInv
  OBVIOUS
<1>1. Shape
  BY DEF Init, Shape, Calls, JobPcs, Idle
<1>2. Counted
  <2>1. \A b \in Builds : Of(b) = {}
    BY CacheAssumption DEF Init, Of, Out
  <2> QED  BY <2>1, FS_EmptySet DEF Init, Counted
<1>3. Awaited /\ Published /\ Untouched
  BY DEF Init, Idle, Out, Awaited, Published, Untouched
<1> QED  BY <1>1, <1>2, <1>3 DEF IInv

-----------------------------------------------------------------------------
(* Calls *)

LEMMA EnterOk == ASSUME IInv, NEW u \in Users, Enter(u) PROVE IInv'
<1>1. PICK b \in Builds :
        /\ user' = [user EXCEPT ![u] = [pc |-> "ask", of |-> b]]
        /\ leased' = [leased EXCEPT ![b] = @ + 1]
        /\ unsafe' = IF dir[b] = "partial" THEN unsafe \cup {u} ELSE unsafe
  BY DEF Enter
<1>2. UNCHANGED <<dir, job>> /\ user[u] = Out
  BY DEF Enter
<1>3. Shape /\ user \in [Users -> Calls] /\ leased \in [Builds -> Nat]
  BY DEF IInv, Shape
<1>4. user' \in [Users -> Calls] /\ user'[u] = [pc |-> "ask", of |-> b]
      /\ \A w \in Users : w # u => user'[w] = user[w]
  BY <1>1, <1>3 DEF Calls
<1>5. leased' \in [Builds -> Nat] /\ leased'[b] = leased[b] + 1 /\ \A a \in Builds : a # b => leased'[a] = leased[a]
  BY <1>1, <1>3
<1>6. Shape'
  BY <1>2, <1>4, <1>5 DEF IInv, Shape
<1>7. Counted'
  <2>1. Of(b)' = Of(b) \cup {u} /\ u \notin Of(b)
    BY <1>2, <1>4, CacheAssumption DEF Of, Out
  <2>2. \A a \in Builds : a # b => Of(a)' = Of(a)
    BY <1>2, <1>4, CacheAssumption DEF Of, Out
  <2>3. Cardinality(Of(b)') = Cardinality(Of(b)) + 1
    BY <2>1, OfIsFinite, FS_AddElement
  <2> QED  BY <1>5, <2>2, <2>3 DEF IInv, Counted
<1>8. Awaited' /\ Published'
  BY <1>2, <1>4 DEF IInv, Awaited, Published, Waiting, Out
<1>9. Untouched'
  BY <1>1, <1>2, <1>4 DEF IInv, Untouched
<1> QED  BY <1>6, <1>7, <1>8, <1>9 DEF IInv

LEMMA HitOk == ASSUME IInv, NEW u \in Users, Hit(u) PROVE IInv'
<1>1. UNCHANGED <<dir, leased, job, unsafe>> /\ user[u].pc = "ask" /\ dir[user[u].of] # "absent"
      /\ user' = [user EXCEPT ![u].pc = "use"]
  BY DEF Hit, Goto
<1>2. Shape /\ user \in [Users -> Calls] /\ user[u].of \in Builds
  BY <1>1, CallShape DEF IInv, Shape
<1>3. user' \in [Users -> Calls] /\ user'[u].pc = "use" /\ user'[u].of = user[u].of
      /\ \A w \in Users : w # u => user'[w] = user[w]
  BY <1>1, <1>2, CallShape DEF Calls
<1>4. Shape' /\ Counted'
  BY <1>1, <1>3, CountedStays DEF IInv, Shape
<1>5. Awaited' /\ Published'
  BY <1>1, <1>3 DEF IInv, Awaited, Published, Waiting
<1>6. Untouched'
  BY <1>1, <1>2, <1>3 DEF IInv, Untouched, Shape
<1> QED  BY <1>4, <1>5, <1>6 DEF IInv

LEMMA MissOk == ASSUME IInv, NEW u \in Users, Miss(u) PROVE IInv'
<1> DEFINE b == user[u].of
<1>1. UNCHANGED <<dir, leased, unsafe>> /\ user[u].pc = "ask" /\ dir[b] = "absent"
      /\ user' = [user EXCEPT ![u].pc = "wait"]
      /\ job' = IF job[b].pc = "idle" THEN [job EXCEPT ![b].pc = "download"] ELSE job
  BY DEF Miss, Goto
<1>2. Shape /\ user \in [Users -> Calls] /\ b \in Builds
  BY <1>1, CallShape DEF IInv, Shape
<1>3. user' \in [Users -> Calls] /\ user'[u] = [pc |-> "wait", of |-> b]
      /\ \A w \in Users : w # u => user'[w] = user[w]
  BY <1>1, <1>2, CallShape DEF Calls
<1>4. /\ Shape' /\ job'[b].pc = (IF job[b].pc = "idle" THEN "download" ELSE job[b].pc)
      /\ \A a \in Builds : a # b => job'[a] = job[a]
  BY <1>1, <1>2, <1>3 DEF Shape, JobPcs
<1>5. Counted'
  BY <1>1, <1>3, CountedStays
<1>6. Awaited'
  <2> SUFFICES ASSUME NEW a \in Builds, job'[a].pc # "idle"
               PROVE  \E w \in Users : user'[w].pc = "wait" /\ user'[w].of = a
    BY DEF Awaited, Waiting
  <2>1. CASE job[a].pc # "idle"
    <3>1. PICK w \in Users : user[w].pc = "wait" /\ user[w].of = a
      BY <2>1 DEF IInv, Awaited, Waiting
    <3> QED  BY <1>1, <1>3, <3>1
  <2>2. CASE job[a].pc = "idle"
    <3>1. a = b
      BY <1>4, <2>2
    <3> QED  BY <1>3, <3>1
  <2> QED  BY <2>1, <2>2
<1>7. Published' /\ Untouched'
  BY <1>1, <1>3, <1>4 DEF IInv, Published, Untouched
<1> QED  BY <1>4, <1>5, <1>6, <1>7 DEF IInv

LEMMA LeaveOk == ASSUME IInv, NEW u \in Users, Leave(u) PROVE IInv'
<1>1. PICK b : b = user[u].of
  OBVIOUS
<1>2. UNCHANGED <<dir, job>> /\ user[u].pc \in {"use", "failed"} /\ user' = [user EXCEPT ![u] = Out]
      /\ leased' = [leased EXCEPT ![b] = leased[b] - 1] /\ unsafe' = unsafe \ {u}
  BY <1>1 DEF Leave, Released
<1>3. Shape /\ user \in [Users -> Calls] /\ leased \in [Builds -> Nat] /\ b \in Builds
  BY <1>1, <1>2, CallShape DEF IInv, Shape
<1>4. user' \in [Users -> Calls] /\ user'[u] = Out /\ \A w \in Users : w # u => user'[w] = user[w]
  BY <1>2, <1>3 DEF Calls
<1>5. leased[b] - 1 \in Nat
  BY <1>1, <1>3, Leased
<1>6. leased' \in [Builds -> Nat] /\ leased'[b] = leased[b] - 1 /\ \A a \in Builds : a # b => leased'[a] = leased[a]
  BY <1>2, <1>3, <1>5
<1>7. Shape'
  BY <1>2, <1>4, <1>6 DEF IInv, Shape
<1>8. Counted'
  <2>1. Of(b)' = Of(b) \ {u} /\ u \in Of(b)
    BY <1>1, <1>4, <1>3, CacheAssumption DEF Of, Out
  <2>2. \A a \in Builds : a # b => Of(a)' = Of(a)
    BY <1>1, <1>4, <1>3, CacheAssumption DEF Of, Out
  <2>3. Cardinality(Of(b)') = Cardinality(Of(b)) - 1
    BY <2>1, OfIsFinite, FS_RemoveElement
  <2> QED  BY <1>6, <2>2, <2>3 DEF IInv, Counted
<1>9. Awaited' /\ Published'
  BY <1>2, <1>4 DEF IInv, Awaited, Published, Waiting
<1>10. Untouched'
  BY <1>2, <1>4 DEF IInv, Untouched, Out
<1> QED  BY <1>7, <1>8, <1>9, <1>10 DEF IInv

-----------------------------------------------------------------------------
(* Downloads *)

\* A job that has its result: whoever waited for it moves on.
LEMMA SettleOk ==
  ASSUME IInv, NEW b \in Builds, NEW pc \in {"use", "failed"}, Settle(b, pc),
         pc = "use" => dir[b] = "whole", UNCHANGED <<dir, leased, unsafe>>
  PROVE  IInv'
<1>1. Shape /\ user \in [Users -> Calls]
  BY DEF IInv, Shape
<1>2. \A u \in Users : user'[u] = IF user[u] = [pc |-> "wait", of |-> b] THEN [user[u] EXCEPT !.pc = pc]
                                  ELSE user[u]
  BY DEF Settle
<1>3. ASSUME NEW u \in Users
      PROVE  user'[u] = IF user[u].pc = "wait" /\ user[u].of = b THEN [pc |-> pc, of |-> b] ELSE user[u]
  <2>1. user[u] = [pc |-> "wait", of |-> b] <=> user[u].pc = "wait" /\ user[u].of = b
    BY <1>1, CallShape
  <2>2. CASE user[u] = [pc |-> "wait", of |-> b]
    <3>1. user'[u] = [[pc |-> "wait", of |-> b] EXCEPT !.pc = pc]
      BY <1>2, <2>2
    <3> QED  BY <2>1, <2>2, <3>1
  <2> QED  BY <1>2, <2>1, <2>2
<1>4. user' \in [Users -> Calls]
  BY <1>1, <1>3 DEF Settle, Calls
<1>5. job'[b] = Idle /\ (\A a \in Builds : a # b => job'[a] = job[a])
      /\ DOMAIN job' = Builds /\ job' = [a \in Builds |-> job'[a]]
  BY <1>1 DEF Settle, Shape
<1>6. Shape'
  <2>1. ASSUME NEW a \in Builds
        PROVE  /\ job'[a] = [pc |-> job'[a].pc, todo |-> job'[a].todo, total |-> job'[a].total]
               /\ job'[a].pc \in JobPcs
    <3>1. CASE a = b
      BY <1>5, <3>1 DEF Idle, JobPcs
    <3>2. CASE a # b
      BY <1>1, <1>5, <3>2 DEF Shape
    <3> QED  BY <3>1, <3>2
  <2> QED  BY <1>1, <1>4, <1>5, <2>1 DEF Shape
<1>7. \A u \in Users : user'[u].of = user[u].of
  BY <1>3
<1>8. Counted'
  BY <1>7, CountedStays
<1>9. Awaited'
  BY <1>3, <1>5 DEF IInv, Awaited, Waiting, Idle
<1>10. Published'
  BY <1>5 DEF IInv, Published, Idle
<1>11. Untouched'
  BY <1>3 DEF IInv, Untouched
<1> QED  BY <1>6, <1>8, <1>9, <1>10, <1>11 DEF IInv

\* A job that goes on while calls wait.
LEMMA JobStep ==
  ASSUME IInv, NEW b \in Builds, UNCHANGED <<leased, user, unsafe>>,
         DOMAIN job' = Builds, job' = [a \in Builds |-> job'[a]],
         \A a \in Builds : a # b => job'[a] = job[a],
         job'[b] = [pc |-> job'[b].pc, todo |-> job'[b].todo, total |-> job'[b].total],
         job'[b].pc \in JobPcs, job[b].pc # "idle",
         dir' \in [Builds -> {"absent", "whole", "partial"}],
         \A a \in Builds : dir[a] = "whole" /\ leased[a] > 0 => dir'[a] = "whole",
         \A a \in Builds : dir'[a] = "partial" => dir[a] = "partial" \/ ~(leased[a] > 0),
         job'[b].pc \in {"list", "evict", "remove"} => dir'[b] = "whole"
  PROVE  IInv'
<1>1. Shape'
  BY DEF IInv, Shape
<1>2. Counted'
  BY CountedStays
<1>3. Awaited'
  BY DEF IInv, Awaited, Waiting
<1>4. Published'
  <2>1. ASSUME NEW a \in Builds, job[a].pc # "idle" PROVE leased[a] > 0
    <3>1. PICK u \in Users : user[u].of = a
      BY <2>1 DEF IInv, Awaited, Waiting
    <3> QED  BY <3>1, Leased
  <2> QED  BY <2>1 DEF IInv, Published
<1>5. Untouched'
  <2>1. \A u \in Users : user[u].pc # "out" => user[u].of \in Builds /\ leased[user[u].of] > 0
    BY CallShape, Leased DEF IInv
  <2> QED  BY <2>1 DEF IInv, Untouched
<1> QED  BY <1>1, <1>2, <1>3, <1>4, <1>5 DEF IInv

LEMMA DownloadOk == ASSUME IInv, NEW b \in Builds, Download(b) \/ List(b) PROVE IInv'
<1>1. UNCHANGED <<dir, leased, user, unsafe>> /\ dir \in [Builds -> {"absent", "whole", "partial"}]
  BY DEF Download, List, IInv, Shape
<1>2. /\ DOMAIN job' = Builds /\ job' = [a \in Builds |-> job'[a]]
      /\ \A a \in Builds : a # b => job'[a] = job[a]
      /\ job'[b] = [pc |-> job'[b].pc, todo |-> job'[b].todo, total |-> job'[b].total]
      /\ job[b].pc \in {"download", "list"} /\ job'[b].pc \in JobPcs
      /\ job'[b].pc \in {"list", "evict", "remove"} => job[b].pc = "list"
  BY DEF Download, List, Step, IInv, Shape, JobPcs
<1>3. job'[b].pc \in {"list", "evict", "remove"} => dir'[b] = "whole"
  BY <1>1, <1>2 DEF IInv, Published
<1> QED  BY <1>1, <1>2, <1>3, JobStep

LEMMA PublishOk == ASSUME IInv, NEW b \in Builds, Publish(b) PROVE IInv'
<1>1. UNCHANGED <<leased, user, unsafe>> /\ dir \in [Builds -> {"absent", "whole", "partial"}]
      /\ dir' = [dir EXCEPT ![b] = "whole"]
  BY DEF Publish, IInv, Shape
<1>2. /\ DOMAIN job' = Builds /\ job' = [a \in Builds |-> job'[a]]
      /\ \A a \in Builds : a # b => job'[a] = job[a]
      /\ job'[b] = [pc |-> job'[b].pc, todo |-> job'[b].todo, total |-> job'[b].total]
      /\ job[b].pc = "publish" /\ job'[b].pc \in JobPcs
  BY DEF Publish, Step, IInv, Shape, JobPcs
<1>3. /\ dir' \in [Builds -> {"absent", "whole", "partial"}] /\ dir'[b] = "whole"
      /\ \A a \in Builds : a # b => dir'[a] = dir[a]
  BY <1>1
<1> QED  BY <1>1, <1>2, <1>3, JobStep

LEMMA EvictOk == ASSUME IInv, NEW b \in Builds, Evict(b) PROVE IInv'
<1>1. UNCHANGED <<leased, unsafe>> /\ job[b].pc = "evict" /\ dir[b] = "whole"
      /\ dir \in [Builds -> {"absent", "whole", "partial"}]
  BY DEF Evict, IInv, Published, Shape
<1>2. CASE job[b].total <= Cap \/ job[b].todo = <<>>
  BY <1>1, <1>2, SettleOk DEF Evict
<1>3. CASE ~(job[b].total <= Cap \/ job[b].todo = <<>>)
  <2> DEFINE a == Head(job[b].todo)
  <2>1. UNCHANGED user
    BY <1>3 DEF Evict
  <2>2. /\ DOMAIN job' = Builds /\ job' = [c \in Builds |-> job'[c]]
        /\ \A c \in Builds : c # b => job'[c] = job[c]
        /\ job'[b] = [pc |-> job'[b].pc, todo |-> job'[b].todo, total |-> job'[b].total]
        /\ job'[b].pc \in JobPcs
    BY <1>1, <1>3 DEF Evict, Step, Gone, IInv, Shape, JobPcs
  <2>3. dir' = dir \/ (dir' = [dir EXCEPT ![a] = "partial"] /\ a # b /\ ~(leased[a] > 0))
    BY <1>3 DEF Evict, Skips
  <2>4. /\ dir' \in [Builds -> {"absent", "whole", "partial"}] /\ dir'[b] = "whole"
        /\ \A c \in Builds : dir'[c] = dir[c] \/ (dir'[c] = "partial" /\ ~(leased[c] > 0))
    BY <1>1, <2>3
  <2> QED  BY <1>1, <2>1, <2>2, <2>4, JobStep
<1> QED  BY <1>2, <1>3

LEMMA RemovedOk == ASSUME IInv, NEW b \in Builds, Removed(b) PROVE IInv'
<1> DEFINE a == Head(job[b].todo)
<1>1. UNCHANGED <<leased, user, unsafe>> /\ job[b].pc = "remove" /\ dir[b] = "whole"
      /\ dir \in [Builds -> {"absent", "whole", "partial"}]
  BY DEF Removed, IInv, Published, Shape
<1>2. /\ DOMAIN job' = Builds /\ job' = [c \in Builds |-> job'[c]]
      /\ \A c \in Builds : c # b => job'[c] = job[c]
      /\ job'[b] = [pc |-> job'[b].pc, todo |-> job'[b].todo, total |-> job'[b].total]
      /\ job'[b].pc \in JobPcs
  BY DEF Removed, Gone, IInv, Shape, JobPcs
<1>3. dir' = dir \/ (dir' = [dir EXCEPT ![a] = "absent"] /\ dir[a] = "partial")
  BY DEF Removed
<1>4. /\ dir' \in [Builds -> {"absent", "whole", "partial"}]
      /\ \A c \in Builds : dir'[c] = dir[c] \/ (dir'[c] = "absent" /\ dir[c] = "partial")
  BY <1>1, <1>3
<1> QED  BY <1>1, <1>2, <1>4, JobStep

-----------------------------------------------------------------------------
(* Mtimes and evictions *)

\* Each directory has one mtime, and nothing else has.
Ordered ==
  /\ recent \in Seq(Builds)
  /\ IsInjective(recent)
  /\ ToSet(recent) = {b \in Builds : dir[b] # "absent"}

\* An eviction goes through what it has listed, and removes while the sum of it exceeds the cap.
Listed ==
  \A b \in Builds :
    /\ job[b].todo \in Seq(Builds)
    /\ job[b].total \in 0..Cardinality(Builds)
    /\ job[b].pc = "remove" => job[b].todo # <<>> /\ job[b].total > 0

Bounded == unsafe \subseteq Users /\ faults \in 0..MaxFaults

OInv == Ordered /\ Listed /\ Bounded

LEMMA WithoutOne ==
  ASSUME Ordered, NEW b \in Builds
  PROVE  /\ Without(b) \in Seq(Builds)
         /\ IsInjective(Without(b))
         /\ ToSet(Without(b)) = ToSet(recent) \ {b}
<1>1. CASE b \notin ToSet(recent)
  BY <1>1 DEF Without, Ordered
<1>2. CASE b \in ToSet(recent)
  <2>n. PICK n : n = Len(recent)
    OBVIOUS
  <2>i. PICK i : i = CHOOSE k \in DOMAIN recent : recent[k] = b
    OBVIOUS
  <2>w. PICK w : w = Without(b)
    OBVIOUS
  <2>1. n \in Nat /\ DOMAIN recent = 1..n /\ recent \in Seq(Builds) /\ \A k \in 1..n : recent[k] \in Builds
    BY <2>n DEF Ordered
  <2>2. i \in 1..n /\ recent[i] = b
    BY <1>2, <2>1, <2>i DEF ToSet
  <2>p. PICK p : p = SubSeq(recent, 1, i - 1)
    OBVIOUS
  <2>s. PICK s : s = SubSeq(recent, i + 1, n)
    OBVIOUS
  <2>3. w = p \o s
    BY <1>2, <2>n, <2>i, <2>w, <2>p, <2>s DEF Without, RemoveAt
  <2>a. p \in Seq(Builds) /\ Len(p) = i - 1 /\ \A k \in 1..(i - 1) : p[k] = recent[k]
    BY <2>1, <2>2, <2>n, <2>p
  <2>b. s \in Seq(Builds) /\ Len(s) = n - i /\ \A k \in 1..(n - i) : s[k] = recent[i + k]
    <3>1. \A k \in (i + 1)..n : recent[k] \in Builds
      BY <2>1, <2>2
    <3>2. s \in Seq(Builds) /\ Len(s) = n - i
      <4>1. i + 1 \in Int /\ n \in Int /\ (i + 1 <= n => n - (i + 1) + 1 = n - i) /\ (~(i + 1 <= n) => n - i = 0)
        BY <2>1, <2>2
      <4>2. s \in Seq(Builds) /\ Len(s) = IF i + 1 <= n THEN n - (i + 1) + 1 ELSE 0
        BY <2>s, <3>1, <4>1, SubSeqProperties
      <4> QED  BY <4>1, <4>2
    <3>3. \A k \in 1..(n - i) : s[k] = recent[i + k]
      BY <2>1, <2>2, <2>n, <2>s
    <3> QED  BY <3>2, <3>3
  <2>4. w \in Seq(Builds) /\ Len(w) = n - 1 /\ DOMAIN w = 1..(n - 1)
    <3>1. w \in Seq(Builds) /\ Len(w) = Len(p) + Len(s)
      BY <2>3, <2>a, <2>b, ConcatProperties
    <3>2. DOMAIN w = 1..Len(w) /\ (i - 1) + (n - i) = n - 1
      BY <2>1, <2>2, <3>1
    <3> QED  BY <2>a, <2>b, <3>1, <3>2
  <2>5. \A k \in 1..(n - 1) : w[k] = IF k < i THEN recent[k] ELSE recent[k + 1]
    <3> SUFFICES ASSUME NEW k \in 1..(n - 1) PROVE w[k] = IF k < i THEN recent[k] ELSE recent[k + 1]
      OBVIOUS
    <3>1. CASE k < i
      BY <2>1, <2>2, <2>3, <2>a, <2>b, <3>1
    <3>2. CASE ~(k < i)
      <4>1. w[k] = s[k - (i - 1)] /\ k - (i - 1) \in 1..(n - i)
        BY <2>1, <2>2, <2>3, <2>a, <2>b, <3>2
      <4>2. i + (k - (i - 1)) = k + 1
        BY <2>1, <2>2
      <4> QED  BY <2>b, <3>2, <4>1, <4>2
    <3> QED  BY <3>1, <3>2
  <2>6. \A j, k \in 1..n : recent[j] = recent[k] => j = k
    BY <2>1 DEF Ordered, IsInjective
  <2>7. IsInjective(w)
    <3> SUFFICES ASSUME NEW j \in 1..(n - 1), NEW k \in 1..(n - 1), w[j] = w[k] PROVE j = k
      BY <2>4 DEF IsInjective
    <3> QED  BY <2>1, <2>2, <2>5, <2>6
  <2>8. ToSet(w) \subseteq ToSet(recent) \ {b}
    <3> SUFFICES ASSUME NEW k \in 1..(n - 1) PROVE w[k] \in ToSet(recent) /\ w[k] # b
      BY <2>4 DEF ToSet
    <3>1. PICK j \in 1..n : w[k] = recent[j] /\ j # i
      BY <2>1, <2>2, <2>5
    <3> QED  BY <2>1, <2>2, <2>6, <3>1 DEF ToSet
  <2>9. ToSet(recent) \ {b} \subseteq ToSet(w)
    <3> SUFFICES ASSUME NEW j \in 1..n, j # i PROVE \E k \in 1..(n - 1) : w[k] = recent[j]
      BY <2>1, <2>2, <2>4 DEF ToSet
    <3>1. CASE j < i
      BY <2>1, <2>2, <2>5, <3>1
    <3>2. CASE j > i
      <4>1. j - 1 \in 1..(n - 1) /\ ~(j - 1 < i) /\ (j - 1) + 1 = j
        BY <2>1, <2>2, <3>2
      <4> QED  BY <2>5, <4>1
    <3> QED  BY <2>1, <2>2, <3>1, <3>2
  <2> QED  BY <2>w, <2>4, <2>7, <2>8, <2>9
<1> QED  BY <1>1, <1>2

\* A directory that is used has the latest mtime.
LEMMA Bumped ==
  ASSUME Ordered, NEW b \in Builds, Bump(b), dir' \in [Builds -> {"absent", "whole", "partial"}],
         dir'[b] # "absent", \A a \in Builds : a # b => dir'[a] = dir[a]
  PROVE  Ordered'
<1> DEFINE w == Without(b)
<1>1. w \in Seq(Builds) /\ IsInjective(w) /\ ToSet(w) = ToSet(recent) \ {b}
  BY WithoutOne
<1>2. recent' = Append(w, b)
  BY DEF Bump
<1> HIDE DEF w
<1>3. /\ recent' \in Seq(Builds) /\ Len(w) \in Nat
      /\ DOMAIN w = 1..Len(w) /\ DOMAIN recent' = 1..(Len(w) + 1)
      /\ recent'[Len(w) + 1] = b /\ \A k \in 1..Len(w) : recent'[k] = w[k]
  BY <1>1, <1>2
<1>4. \A k \in 1..Len(w) : w[k] # b
  BY <1>1, <1>3 DEF ToSet
<1>5. IsInjective(recent')
  <2> SUFFICES ASSUME NEW j \in 1..(Len(w) + 1), NEW k \in 1..(Len(w) + 1), recent'[j] = recent'[k]
               PROVE  j = k
    BY <1>3 DEF IsInjective
  <2>1. \A x, y \in 1..Len(w) : w[x] = w[y] => x = y
    BY <1>1, <1>3 DEF IsInjective
  <2> QED  BY <1>3, <1>4, <2>1
<1>6. ToSet(recent') = ToSet(w) \cup {b}
  <2>1. \A k \in 1..(Len(w) + 1) : k \in 1..Len(w) \/ k = Len(w) + 1
    BY <1>3
  <2>2. 1..Len(w) \subseteq 1..(Len(w) + 1) /\ Len(w) + 1 \in 1..(Len(w) + 1)
    BY <1>3
  <2> QED  BY <1>3, <2>1, <2>2 DEF ToSet
<1>7. ToSet(recent') = {a \in Builds : dir'[a] # "absent"}
  BY <1>1, <1>6 DEF Ordered
<1> QED  BY <1>3, <1>5, <1>7 DEF Ordered

\* There are no more mtimes than builds.
LEMMA FewMtimes == ASSUME Ordered PROVE Len(recent) \in 0..Cardinality(Builds)
<1>1. Len(recent) \in Nat /\ recent \in [1..Len(recent) -> Builds] /\ DOMAIN recent = 1..Len(recent)
  BY DEF Ordered
<1>2. recent \in Injection(1..Len(recent), Builds)
  BY <1>1 DEF Ordered, Injection, IsInjective
<1>3. Cardinality(1..Len(recent)) <= Cardinality(Builds)
  BY <1>2, CacheAssumption, FS_Injection
<1>4. Cardinality(1..Len(recent)) = Len(recent)
  BY <1>1, FS_Interval
<1> QED  BY <1>1, <1>3, <1>4, CacheAssumption, FS_CardinalityType

\* A step that leaves the directories and the evictions alone.
LEMMA ElsewhereOk ==
  ASSUME IInv, OInv, UNCHANGED <<dir, recent>>, Bounded',
         \A b \in Builds : job'[b] = job[b] \/ job'[b] = Idle
                           \/ (job'[b] = [job[b] EXCEPT !.pc = job'[b].pc] /\ job'[b].pc # "remove")
  PROVE  OInv'
<1>1. Ordered'
  BY DEF OInv, Ordered
<1>2. Listed'
  <2> SUFFICES ASSUME NEW b \in Builds
               PROVE  /\ job'[b].todo \in Seq(Builds)
                      /\ job'[b].total \in 0..Cardinality(Builds)
                      /\ job'[b].pc = "remove" => job'[b].todo # <<>> /\ job'[b].total > 0
    BY DEF Listed
  <2>1. CASE job'[b] = job[b]
    BY <2>1 DEF OInv, Listed
  <2>2. CASE job'[b] = Idle
    BY <2>2, CacheAssumption, FS_CardinalityType DEF Idle
  <2>3. CASE job'[b] = [job[b] EXCEPT !.pc = job'[b].pc] /\ job'[b].pc # "remove"
    <3>1. job'[b].todo = job[b].todo /\ job'[b].total = job[b].total
      BY <2>3 DEF IInv, Shape
    <3> QED  BY <2>3, <3>1 DEF OInv, Listed
  <2> QED  BY <2>1, <2>2, <2>3
<1> QED  BY <1>1, <1>2 DEF OInv

\* A step of an eviction, which goes on through what is left of its list.
LEMMA EvictionOk ==
  ASSUME IInv, OInv, NEW b \in Builds, UNCHANGED <<unsafe, faults>> \/ Bounded',
         \A a \in Builds : a # b => job'[a] = job[a],
         job'[b].todo \in Seq(Builds), job'[b].total \in 0..Cardinality(Builds),
         job'[b].pc = "remove" => job'[b].todo # <<>> /\ job'[b].total > 0,
         Ordered'
  PROVE  OInv'
<1>1. Bounded'
  BY DEF OInv, Bounded
<1>2. Listed'
  BY DEF OInv, Listed
<1> QED  BY <1>1, <1>2 DEF OInv

LEMMA CallOk == ASSUME IInv, OInv, NEW u \in Users, Call(u) PROVE OInv'
<1>1. CASE Enter(u)
  <2>1. Bounded'
    BY <1>1 DEF Enter, OInv, Bounded
  <2> QED  BY <1>1, <2>1, ElsewhereOk DEF Enter
<1>2. CASE Hit(u)
  <2>1. user[u].of \in Builds /\ dir[user[u].of] # "absent"
    BY <1>2, CallShape DEF Hit, IInv
  <2>2. Ordered'
    BY <1>2, <2>1, Bumped DEF Hit, OInv, IInv, Shape
  <2> QED  BY <1>2, <2>2 DEF Hit, OInv, Listed, Bounded
<1>3. CASE Miss(u)
  <2>1. \A b \in Builds : job'[b] = job[b] \/ job'[b] = [job[b] EXCEPT !.pc = "download"]
    BY <1>3 DEF Miss, IInv, Shape
  <2>2. \A b \in Builds : job'[b] = job[b]
                          \/ (job'[b] = [job[b] EXCEPT !.pc = job'[b].pc] /\ job'[b].pc # "remove")
    BY <2>1 DEF IInv, Shape
  <2>3. Bounded'
    BY <1>3 DEF Miss, OInv, Bounded
  <2> QED  BY <1>3, <2>2, <2>3, ElsewhereOk DEF Miss
<1>4. CASE Leave(u)
  <2>1. Bounded'
    BY <1>4 DEF Leave, OInv, Bounded
  <2> QED  BY <1>4, <2>1, ElsewhereOk DEF Leave
<1> QED  BY <1>1, <1>2, <1>3, <1>4 DEF Call

LEMMA EvictStep == ASSUME IInv, OInv, NEW b \in Builds, Evict(b) PROVE OInv'
<1>1. UNCHANGED <<recent, unsafe, faults>> /\ job[b].pc = "evict"
  BY DEF Evict
<1>2. /\ job[b].todo \in Seq(Builds) /\ job[b].total \in 0..Cardinality(Builds)
      /\ Cardinality(Builds) \in Nat /\ Cap \in Nat
  BY CacheAssumption, FS_CardinalityType DEF OInv, Listed
<1>3. CASE job[b].total <= Cap \/ job[b].todo = <<>>
  <2>1. UNCHANGED dir /\ \A a \in Builds : job'[a] = job[a] \/ job'[a] = Idle
    BY <1>3 DEF Evict, Settle, IInv, Shape
  <2> QED  BY <1>1, <2>1, ElsewhereOk DEF OInv, Bounded
<1>4. CASE ~(job[b].total <= Cap \/ job[b].todo = <<>>)
  <2>1. PICK a : a = Head(job[b].todo)
    OBVIOUS
  <2>2. a \in Builds /\ Tail(job[b].todo) \in Seq(Builds)
    BY <1>2, <1>4, <2>1, HeadTailProperties
  <2>3. job[b].total > 0 /\ job[b].total - 1 \in 0..Cardinality(Builds)
    BY <1>2, <1>4
  <2>4. CASE Skips(b, a)
    <3>1. job' = [job EXCEPT ![b].todo = Tail(@)] /\ UNCHANGED dir
      BY <1>4, <2>1, <2>4 DEF Evict
    <3>2. /\ job'[b] = [job[b] EXCEPT !.todo = Tail(job[b].todo)]
          /\ \A c \in Builds : c # b => job'[c] = job[c]
      BY <3>1 DEF IInv, Shape
    <3>4. job[b] = [pc |-> job[b].pc, todo |-> job[b].todo, total |-> job[b].total]
      BY DEF IInv, Shape
    <3>5. job'[b].pc = "evict" /\ job'[b].todo = Tail(job[b].todo) /\ job'[b].total = job[b].total
      BY <1>1, <3>2, <3>4
    <3>3. Ordered'
      BY <1>1, <3>1 DEF OInv, Ordered
    <3> QED  BY <1>1, <1>2, <2>2, <3>2, <3>3, <3>5, EvictionOk
  <2>5. CASE ~Skips(b, a) /\ dir[a] = "absent"
    <3>1. job' = Gone(b) /\ UNCHANGED dir
      BY <1>4, <2>1, <2>5 DEF Evict
    <3>2. /\ job'[b].pc = "evict" /\ job'[b].todo = Tail(job[b].todo) /\ job'[b].total = job[b].total - 1
          /\ \A c \in Builds : c # b => job'[c] = job[c]
      BY <3>1 DEF IInv, Shape, Gone
    <3>3. Ordered'
      BY <1>1, <3>1 DEF OInv, Ordered
    <3> QED  BY <1>1, <2>2, <2>3, <3>2, <3>3, EvictionOk
  <2>6. CASE ~Skips(b, a) /\ dir[a] # "absent"
    <3>1. Step(b, "remove") /\ dir' = [dir EXCEPT ![a] = "partial"]
      BY <1>4, <2>1, <2>6 DEF Evict
    <3>2. /\ job'[b].todo = job[b].todo /\ job'[b].total = job[b].total
          /\ \A c \in Builds : c # b => job'[c] = job[c]
      BY <3>1 DEF IInv, Shape, Step
    <3>3. \A c \in Builds : dir'[c] # "absent" <=> dir[c] # "absent"
      BY <2>2, <2>6, <3>1 DEF IInv, Shape
    <3>4. Ordered'
      BY <1>1, <3>3 DEF OInv, Ordered
    <3> QED  BY <1>1, <1>2, <1>4, <2>3, <3>2, <3>4, EvictionOk
  <2> QED  BY <2>4, <2>5, <2>6
<1> QED  BY <1>3, <1>4

LEMMA RemovedStep == ASSUME IInv, OInv, NEW b \in Builds, Removed(b) PROVE OInv'
<1>1. PICK a : a = Head(job[b].todo)
  OBVIOUS
<1>2. /\ job[b].pc = "remove" /\ job' = Gone(b) /\ UNCHANGED unsafe
      /\ IF dir[a] = "partial"
         THEN \/ dir' = [dir EXCEPT ![a] = "absent"] /\ recent' = Without(a) /\ UNCHANGED faults
              \/ Fault /\ UNCHANGED <<dir, recent>>
         ELSE UNCHANGED <<dir, recent, faults>>
  BY <1>1 DEF Removed
<1>3. /\ job[b].todo \in Seq(Builds) /\ job[b].todo # <<>>
      /\ job[b].total \in 0..Cardinality(Builds) /\ job[b].total > 0 /\ Cardinality(Builds) \in Nat
  BY <1>2, CacheAssumption, FS_CardinalityType DEF OInv, Listed
<1>4. a \in Builds /\ Tail(job[b].todo) \in Seq(Builds)
  BY <1>1, <1>3, HeadTailProperties
<1>5. /\ job'[b].pc = "evict" /\ job'[b].todo = Tail(job[b].todo) /\ job'[b].total = job[b].total - 1
      /\ \A c \in Builds : c # b => job'[c] = job[c]
  BY <1>2 DEF IInv, Shape, Gone
<1>6. job[b].total - 1 \in 0..Cardinality(Builds)
  BY <1>3
<1>7. Bounded'
  BY <1>2, CacheAssumption DEF Fault, OInv, Bounded
<1>8. Ordered'
  <2>1. CASE UNCHANGED <<dir, recent>>
    BY <2>1 DEF OInv, Ordered
  <2>2. CASE dir' = [dir EXCEPT ![a] = "absent"] /\ recent' = Without(a)
    <3>1. \A c \in Builds : dir'[c] # "absent" <=> c # a /\ dir[c] # "absent"
      BY <1>4, <2>2 DEF IInv, Shape
    <3>2. /\ recent' \in Seq(Builds) /\ IsInjective(recent')
          /\ ToSet(recent') = ToSet(recent) \ {a}
      BY <1>4, <2>2, WithoutOne DEF OInv
    <3> QED  BY <3>1, <3>2 DEF OInv, Ordered
  <2> QED  BY <1>2, <2>1, <2>2
<1> QED  BY <1>4, <1>5, <1>6, <1>7, <1>8, EvictionOk

LEMMA JobOk == ASSUME IInv, OInv, NEW b \in Builds, Job(b) PROVE OInv'
<1>1. CASE Download(b)
  <2>1. \A a \in Builds : job'[a] = job[a] \/ job'[a] = [job[a] EXCEPT !.pc = "publish"]
    BY <1>1 DEF Download, Step, IInv, Shape
  <2>2. ASSUME NEW a \in Builds
        PROVE  job'[a] = job[a] \/ (job'[a] = [job[a] EXCEPT !.pc = job'[a].pc] /\ job'[a].pc # "remove")
    <3>1. job[a] = [pc |-> job[a].pc, todo |-> job[a].todo, total |-> job[a].total]
      BY DEF IInv, Shape
    <3>2. CASE job'[a] = [job[a] EXCEPT !.pc = "publish"]
      <4>1. job'[a].pc = "publish"
        BY <3>1, <3>2
      <4> QED  BY <3>2, <4>1
    <3> QED  BY <2>1, <3>2
  <2>3. Bounded'
    BY <1>1 DEF Download, OInv, Bounded
  <2> QED  BY <1>1, <2>2, <2>3, ElsewhereOk DEF Download
<1>2. CASE DownloadFails(b)
  <2>1. \A a \in Builds : job'[a] = job[a] \/ job'[a] = Idle
    BY <1>2 DEF DownloadFails, Settle, IInv, Shape
  <2>2. Bounded'
    BY <1>2, CacheAssumption DEF DownloadFails, Fault, OInv, Bounded
  <2> QED  BY <1>2, <2>1, <2>2, ElsewhereOk DEF DownloadFails
<1>3. CASE Publish(b)
  <2>1. /\ UNCHANGED <<unsafe, faults>> /\ Bump(b) /\ dir' = [dir EXCEPT ![b] = "whole"]
        /\ job' = [job EXCEPT ![b].pc = "list"]
    BY <1>3 DEF Publish, Step
  <2>2. Ordered'
    BY <2>1, Bumped DEF OInv, IInv, Shape
  <2>3. /\ job'[b].pc = "list" /\ job'[b].todo = job[b].todo /\ job'[b].total = job[b].total
        /\ \A a \in Builds : a # b => job'[a] = job[a]
    BY <2>1 DEF IInv, Shape
  <2>4. job[b].todo \in Seq(Builds) /\ job[b].total \in 0..Cardinality(Builds)
    BY DEF OInv, Listed
  <2> QED  BY <2>1, <2>2, <2>3, <2>4, EvictionOk
<1>4. CASE List(b)
  <2>1. UNCHANGED <<dir, recent, unsafe, faults>>
        /\ job'[b] = [pc |-> "evict", todo |-> recent, total |-> Len(recent)]
        /\ \A a \in Builds : a # b => job'[a] = job[a]
    BY <1>4 DEF List, IInv, Shape
  <2>2. recent \in Seq(Builds) /\ Len(recent) \in 0..Cardinality(Builds) /\ Ordered'
    BY <2>1, FewMtimes DEF OInv, Ordered
  <2>3. /\ job'[b].todo \in Seq(Builds) /\ job'[b].total \in 0..Cardinality(Builds)
        /\ job'[b].pc # "remove"
    BY <2>1, <2>2
  <2> QED  BY <2>1, <2>2, <2>3, EvictionOk
<1>5. CASE ListFails(b)
  <2>1. \A a \in Builds : job'[a] = job[a] \/ job'[a] = Idle
    BY <1>5 DEF ListFails, Settle, IInv, Shape
  <2>2. Bounded'
    BY <1>5 DEF ListFails, OInv, Bounded
  <2> QED  BY <1>5, <2>1, <2>2, ElsewhereOk DEF ListFails
<1> QED  BY <1>1, <1>2, <1>3, <1>4, <1>5, EvictStep, RemovedStep DEF Job

LEMMA OInvInit == Init => OInv
<1> SUFFICES ASSUME Init PROVE OInv
  OBVIOUS
<1>1. Ordered
  <2>1. recent = <<>> /\ \A b \in Builds : dir[b] = "absent"
    BY DEF Init
  <2>2. recent \in Seq(Builds) /\ DOMAIN recent = {}
    BY <2>1
  <2> QED  BY <2>1, <2>2 DEF Ordered, IsInjective, ToSet
<1>2. Listed
  <2>1. \A b \in Builds : job[b].pc = "idle" /\ job[b].todo = <<>> /\ job[b].total = 0
    BY DEF Init, Idle
  <2>2. 0 \in 0..Cardinality(Builds) /\ <<>> \in Seq(Builds)
    BY CacheAssumption, FS_CardinalityType
  <2> QED  BY <2>1, <2>2 DEF Listed
<1>3. Bounded
  BY CacheAssumption DEF Init, Bounded
<1> QED  BY <1>1, <1>2, <1>3 DEF OInv

LEMMA OInvNext == IInv /\ OInv /\ [Next]_vars => OInv'
<1> SUFFICES ASSUME IInv, OInv, [Next]_vars PROVE OInv'
  OBVIOUS
<1>1. CASE UNCHANGED vars
  BY <1>1 DEF vars, OInv, Ordered, Listed, Bounded
<1> QED  BY <1>1, CallOk, JobOk DEF Next

-----------------------------------------------------------------------------
(* The theorems *)

LEMMA NextOk == IInv /\ [Next]_vars => IInv'
<1> SUFFICES ASSUME IInv, [Next]_vars PROVE IInv'
  OBVIOUS
<1>1. ASSUME NEW b \in Builds, DownloadFails(b) PROVE IInv'
  BY <1>1, SettleOk DEF DownloadFails
<1>1a. ASSUME NEW b \in Builds, ListFails(b) PROVE IInv'
  BY <1>1a, SettleOk DEF ListFails, IInv, Published
<1>2. CASE UNCHANGED vars
  BY <1>2 DEF vars, IInv, Shape, Counted, Of, Awaited, Waiting, Published, Untouched
<1> QED  BY <1>1, <1>1a, <1>2, EnterOk, HitOk, MissOk, LeaveOk, DownloadOk, PublishOk, EvictOk, RemovedOk
         DEF Next, Call, Job

\* The cache is what IInv says in every reachable state (withBundleDir, materialize).
THEOREM Invariant == Spec => []IInv
BY InitHolds, NextOk, PTL DEF Spec

\* No eviction begins under a call that holds a lease, and what a download publishes stays
\* until the calls that wait for it have it: a bundle in use is whole (withBundleDir,
\* evictIfOverCap).
THEOREM BundlesInUseAreWhole == Spec => []InUseIsWhole
<1>1. IInv => InUseIsWhole
  BY DEF IInv, Untouched, InUseIsWhole
<1> QED  BY <1>1, Invariant, PTL

\* The directories, their mtimes, the leases, the calls and the downloads are typed, each
\* directory has one mtime, the leases of a bundle are its calls, and what an eviction still
\* takes for kept is never negative (lease, release, getBundleDir, evictIfOverCap).
THEOREM CacheIsTyped == Spec => []TypeOK
<1>1. IInv /\ OInv => TypeOK
  <2> SUFFICES ASSUME IInv, OInv PROVE TypeOK
    OBVIOUS
  <2>1. leased = [b \in Builds |-> Cardinality({u \in Users : user[u].of = b})]
    BY DEF IInv, Shape, Counted, Of
  <2>2. \A b \in Builds : ToSet(job[b].todo) \subseteq Builds
    BY DEF OInv, Listed, ToSet
  <2> QED  BY <2>1, <2>2 DEF TypeOK, IInv, Shape, Calls, JobPcs, OInv, Ordered, Listed, Bounded
<1> QED  BY <1>1, InitHolds, NextOk, OInvInit, OInvNext, PTL DEF Spec
=============================================================================
