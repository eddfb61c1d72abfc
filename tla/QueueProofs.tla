----------------------------- MODULE QueueProofs -----------------------------
(***************************************************************************)
(* Two queues of the job system, proved about for any builds, any limits   *)
(* and any number of events:                                               *)
(*   CaptureQueue   the order in which workers take capture groups, under  *)
(*                  each policy;                                           *)
(*   StatusPublish  the deduplicated job that publishes a commit status.   *)
(***************************************************************************)
EXTENDS CaptureQueue, StatusPublish, FiniteSetTheorems, WellFoundedInduction, TLAPS

Untried == {j \in queue : ~j.tried}
SameTurn(j, k) == Turn(j) = Turn(k)
IndexOf(j) == Index(j.of, j.n)

\* A build's groups come from its one call, which has ended.
OnceAdded ==
  /\ \A j \in queue \cup wait \cup delayed \cup active : call[j.of].pc = "done"
  /\ \A b \in Builds : /\ passed[b] # {} => call[b].pc = "done"
                       /\ \A t \in passed[b] : call[t[1]].pc = "done"

\* What a call has read is of the past, and a round BullMQ takes.
ReadIsValid ==
  \A b \in Builds :
    /\ call[b].now <= now
    /\ policy = "round-robin" /\ call[b].pc = "read" => call[b].base \in 1..Lowest

\* The groups of a build that wait as they were added: in the order and with the
\* priorities their policy gives them.
AsAdded ==
  \A j, k \in Untried :
    j.of = k.of =>
      /\ j.n = k.n => j = k
      /\ policy = "deadline" =>
           /\ j.priority = k.priority /\ j.deadline = k.deadline
           /\ Before(j.of, j.n, k.n) => j.at < k.at
      /\ policy = "round-robin" =>
           /\ j.n < k.n => j.at < k.at
           /\ IndexOf(j) <= IndexOf(k)
                => k.priority = Least(j.priority + IndexOf(k) - IndexOf(j), Lowest)

TypeInv == TypeOK /\ OnceAdded /\ ReadIsValid /\ AsAdded

OneCall == \A b, c \in Builds : Open(b) /\ Open(c) => b = c

-----------------------------------------------------------------------------
\* "deadline", while calls do not overlap and no failed group is back at its priority:
\* every waiting group below the limit counts from one epoch, which is before now, before
\* what an open call took for now, and what a call has read.
Epoch(j) == j.deadline - j.priority
InRange(j) == j.priority < Lowest

OneEpoch ==
  /\ \A j, k \in queue : InRange(j) /\ InRange(k) => Epoch(j) = Epoch(k)
  /\ \A j \in queue : InRange(j) => Epoch(j) < now
  /\ \A b \in Builds : Open(b) => \A j \in queue : InRange(j) => Epoch(j) < call[b].now
  /\ \A b \in Builds : call[b].pc = "read" =>
       /\ call[b].base < call[b].now
       /\ \A j \in queue : InRange(j) => Epoch(j) = call[b].base

DeadlineInv == policy = "deadline" /\ ~raced /\ ~strayed => OneCall /\ OneEpoch

-----------------------------------------------------------------------------
\* "round-robin", under the same conditions.  All groups wait as they were added.
NoneTried == \A j \in queue : ~j.tried

\* The groups a build has left in a browser are the last ones.
Contiguous ==
  \A j, k \in queue : SameTurn(j, k) /\ IndexOf(j) < IndexOf(k)
    => \E i \in queue : SameTurn(i, j) /\ IndexOf(i) = IndexOf(j) + 1

\* Builds were added one after another.
InBlocks ==
  \A j, k \in queue :
    /\ j.at = k.at => j = k
    /\ \A i \in queue : k.of = j.of /\ i.of # j.of => (j.at < i.at <=> k.at < i.at)

\* No turn is two rounds behind another group, nor behind the round a call has read.
Abreast ==
  \A j, k \in queue : \E i \in queue : SameTurn(i, k) /\ i.priority <= j.priority + 1

ReadAbreast ==
  \A b \in Builds : call[b].pc = "read" =>
    \A j \in queue :
      /\ call[b].base <= j.priority
      /\ \E i \in queue : SameTurn(i, j) /\ i.priority <= call[b].base + 1

\* A turn that has gone past the round of another build's group was added before it.
AheadIsOlder ==
  \A j, k \in queue :
    /\ j.of # k.of /\ Turn(j)[2] = Turn(k)[2]
    /\ \A i \in queue : SameTurn(i, k) => j.priority < i.priority
    => k.at < j.at

\* Once another build took a turn while a build was waiting, the next is this build's.
PassedOnce ==
  \A b \in Builds, k \in queue :
    /\ Turn(k) \in passed[b] /\ k.of # b /\ InRange(k)
    /\ HasWaiting(b, Turn(k)[2])
    => \E i \in queue : Turn(i) = <<b, Turn(k)[2]>> /\ Ahead(i, k)

InRounds == NoneTried /\ Contiguous /\ InBlocks /\ Abreast /\ ReadAbreast /\ AheadIsOlder /\ PassedOnce

RoundInv == policy = "round-robin" /\ ~raced /\ ~strayed => OneCall /\ InRounds

-----------------------------------------------------------------------------
LEMMA SmallestExists ==
  ASSUME NEW S \in SUBSET Nat, S # {}
  PROVE  \E m \in S : \A k \in S : m <= k
<1> DEFINE F == {0..k : k \in S}
<1>1. F \subseteq FiniteSubsetsOf(Nat)
  <2> SUFFICES ASSUME NEW k \in S PROVE 0..k \in FiniteSubsetsOf(Nat)
    OBVIOUS
  <2>1. IsFiniteSet(0..k)
    BY FS_Interval
  <2> QED  BY <2>1 DEF FiniteSubsetsOf
<1>2. F # {}
  OBVIOUS
<1>3. IsWellFoundedOn(StrictSubsetOrdering(Nat), FiniteSubsetsOf(Nat))
  BY FS_StrictSubsetOrderingWellFounded
<1> HIDE DEF F
<1>4. \E x \in F : \A y \in F : <<y, x>> \notin StrictSubsetOrdering(Nat)
  BY <1>1, <1>2, <1>3, WFMin
<1> USE DEF F
<1>5. PICK m \in S : \A k \in S : <<0..k, 0..m>> \notin StrictSubsetOrdering(Nat)
  BY <1>4
<1>6. ASSUME NEW k \in S, k < m PROVE FALSE
  <2>1. 0..k \subseteq 0..m /\ 0..k # 0..m /\ 0..k \in SUBSET Nat /\ 0..m \in SUBSET Nat
    BY <1>6
  <2>2. <<0..k, 0..m>> \in StrictSubsetOrdering(Nat)
    BY <2>1 DEF StrictSubsetOrdering
  <2> QED  BY <1>5, <2>2
<1> QED  BY <1>6

\* Groups of a build.
LEMMA GroupsAreNumbered ==
  ASSUME NEW b \in Builds
  PROVE  /\ Len(Groups[b]) \in Nat /\ DOMAIN Groups[b] = 1..Len(Groups[b])
         /\ \A n \in DOMAIN Groups[b] : /\ BrowserOf(b, n) \in Browsers
                                        /\ Groups[b][n].snapshots \in Nat
<1> DEFINE G == [browser : Browsers, snapshots : Nat \ {0}]
<1>1. Groups[b] \in Seq(G)
  BY CaptureQueueAssumption DEF Builds
<1>2. \A g \in G : g.browser \in Browsers /\ g.snapshots \in Nat
  OBVIOUS
<1> HIDE DEF G
<1>3. Len(Groups[b]) \in Nat /\ DOMAIN Groups[b] = 1..Len(Groups[b])
  BY <1>1
<1>4. \A n \in 1..Len(Groups[b]) : Groups[b][n] \in G
  BY <1>1
<1> QED  BY <1>2, <1>3, <1>4 DEF BrowserOf

SameBrowserBefore(b, n) == {m \in 1..(n - 1) : BrowserOf(b, m) = BrowserOf(b, n)}

LEMMA IndexIsNat ==
  ASSUME NEW b \in Builds, NEW n \in DOMAIN Groups[b]
  PROVE  Index(b, n) \in Nat /\ IsFiniteSet(SameBrowserBefore(b, n))
         /\ Index(b, n) = Cardinality(SameBrowserBefore(b, n))
<1>1. n \in Nat
  BY GroupsAreNumbered
<1>2. IsFiniteSet(1..(n - 1))
  BY <1>1, FS_Interval
<1>3. IsFiniteSet(SameBrowserBefore(b, n))
  BY <1>2, FS_Subset DEF SameBrowserBefore
<1> QED  BY <1>3, FS_CardinalityType DEF Index, SameBrowserBefore

\* Groups of one browser are numbered in their order.
LEMMA IndexGrows ==
  ASSUME NEW b \in Builds, NEW m \in DOMAIN Groups[b], NEW n \in DOMAIN Groups[b],
         BrowserOf(b, m) = BrowserOf(b, n), m < n
  PROVE  Index(b, m) < Index(b, n)
<1> DEFINE M == SameBrowserBefore(b, m)
           N == SameBrowserBefore(b, n)
<1>1. m \in Nat /\ n \in Nat /\ m >= 1
  BY GroupsAreNumbered
<1>2. M \subseteq N /\ m \in N /\ m \notin M
  BY <1>1 DEF SameBrowserBefore
<1>3. /\ IsFiniteSet(M) /\ Index(b, m) = Cardinality(M)
      /\ IsFiniteSet(N) /\ Index(b, n) = Cardinality(N)
      /\ Index(b, m) \in Nat /\ Index(b, n) \in Nat
  BY IndexIsNat
<1> HIDE DEF M, N
<1>4. Cardinality(M) <= Cardinality(N) /\ (Cardinality(M) = Cardinality(N) => M = N)
  BY <1>2, <1>3, FS_Subset
<1> QED  BY <1>2, <1>3, <1>4

LEMMA SameIndex ==
  ASSUME NEW b \in Builds, NEW m \in DOMAIN Groups[b], NEW n \in DOMAIN Groups[b],
         BrowserOf(b, m) = BrowserOf(b, n)
  PROVE  /\ Index(b, m) = Index(b, n) => m = n
         /\ Index(b, m) < Index(b, n) => m < n
<1>1. m \in Nat /\ n \in Nat /\ Index(b, m) \in Nat /\ Index(b, n) \in Nat
  BY GroupsAreNumbered, IndexIsNat
<1> QED  BY <1>1, IndexGrows

\* The first group of a browser has index 0.
LEMMA FirstIndex ==
  ASSUME NEW b \in Builds, NEW n \in DOMAIN Groups[b]
  PROVE  \E m \in DOMAIN Groups[b] : BrowserOf(b, m) = BrowserOf(b, n) /\ Index(b, m) = 0
<1> DEFINE S == {m \in DOMAIN Groups[b] : BrowserOf(b, m) = BrowserOf(b, n)}
<1>1. S \in SUBSET Nat /\ n \in S
  BY GroupsAreNumbered
<1>2. PICK m \in S : \A k \in S : m <= k
  <2> HIDE DEF S
  <2> QED  BY <1>1, SmallestExists
<1>3. SameBrowserBefore(b, m) = {}
  <2> SUFFICES ASSUME NEW k \in SameBrowserBefore(b, m) PROVE FALSE
    OBVIOUS
  <2>1. k \in 1..(m - 1) /\ BrowserOf(b, k) = BrowserOf(b, n) /\ m \in 1..Len(Groups[b])
        /\ Len(Groups[b]) \in Nat
    BY GroupsAreNumbered DEF SameBrowserBefore
  <2>2. k \in S /\ k < m
    BY <2>1, GroupsAreNumbered
  <2> QED  BY <1>2, <2>1, <2>2
<1>4. Index(b, m) = 0
  BY <1>3, IndexIsNat, FS_EmptySet
<1> QED  BY <1>4

\* Between two groups of a browser are those of every index between.
LEMMA NextIndex ==
  ASSUME NEW b \in Builds, NEW m \in DOMAIN Groups[b], NEW n \in DOMAIN Groups[b],
         BrowserOf(b, m) = BrowserOf(b, n), Index(b, m) < Index(b, n)
  PROVE  \E p \in DOMAIN Groups[b] : BrowserOf(b, p) = BrowserOf(b, n) /\ Index(b, p) = Index(b, m) + 1
<1> DEFINE S == {p \in DOMAIN Groups[b] : BrowserOf(b, p) = BrowserOf(b, n) /\ m < p}
<1>1. S \in SUBSET Nat /\ n \in S
  BY GroupsAreNumbered, SameIndex
<1>2. PICK p \in S : \A k \in S : p <= k
  <2> HIDE DEF S
  <2> QED  BY <1>1, SmallestExists
<1>3. SameBrowserBefore(b, p) = SameBrowserBefore(b, m) \cup {m}
  <2>1. Len(Groups[b]) \in Nat /\ DOMAIN Groups[b] = 1..Len(Groups[b])
    BY GroupsAreNumbered
  <2>2. ASSUME NEW k \in SameBrowserBefore(b, p), k # m PROVE k \in SameBrowserBefore(b, m)
    <3>1. k \in 1..(p - 1) /\ k \in DOMAIN Groups[b] /\ BrowserOf(b, k) = BrowserOf(b, n)
      BY <2>1, <2>2 DEF SameBrowserBefore
    <3>2. ~(m < k)
      BY <1>2, <2>1, <3>1
    <3> QED  BY <2>1, <2>2, <3>1, <3>2 DEF SameBrowserBefore
  <2>3. \A k \in SameBrowserBefore(b, m) \cup {m} : k \in SameBrowserBefore(b, p)
    BY <2>1 DEF SameBrowserBefore
  <2> QED  BY <2>2, <2>3
<1>4. m \notin SameBrowserBefore(b, m)
  <2>1. m \in Nat
    BY GroupsAreNumbered
  <2> QED  BY <2>1 DEF SameBrowserBefore
<1>5. Index(b, p) = Index(b, m) + 1
  BY <1>3, <1>4, IndexIsNat, FS_AddElement
<1> QED  BY <1>5

\* Places are those of the order.
LEMMA PlaceInRange ==
  ASSUME NEW b \in Builds, NEW n \in DOMAIN Groups[b]
  PROVE  /\ InterleaveBrowsers(b)[n] \in 1..Len(Groups[b])
         /\ IsFiniteSet({m \in DOMAIN Groups[b] : Before(b, m, n)})
         /\ InterleaveBrowsers(b)[n] = 1 + Cardinality({m \in DOMAIN Groups[b] : Before(b, m, n)})
<1> DEFINE D == DOMAIN Groups[b]
           P == {m \in D : Before(b, m, n)}
<1>1. Len(Groups[b]) \in Nat /\ D = 1..Len(Groups[b]) /\ Index(b, n) \in Nat
  BY GroupsAreNumbered, IndexIsNat
<1>2. IsFiniteSet(D) /\ Cardinality(D) = Len(Groups[b])
  <2> DEFINE L == Len(Groups[b])
  <2> HIDE DEF L
  <2>1. L \in Nat /\ 1 \in Int
    BY <1>1 DEF L
  <2>2. IsFiniteSet(1..L) /\ Cardinality(1..L) = IF 1 > L THEN 0 ELSE L - 1 + 1
    BY <2>1, FS_Interval
  <2> QED  BY <1>1, <2>1, <2>2 DEF L
<1>3. n \notin P /\ P \subseteq D
  BY <1>1 DEF Before
<1>4. InterleaveBrowsers(b)[n] = 1 + Cardinality(P)
  BY DEF InterleaveBrowsers
<1> HIDE DEF D, P
<1>5. IsFiniteSet(P) /\ Cardinality(P) <= Cardinality(D) /\ (Cardinality(D) = Cardinality(P) => D = P)
  BY <1>2, <1>3, FS_Subset
<1>6. Cardinality(P) \in Nat /\ n \in D
  BY <1>5, FS_CardinalityType DEF D
<1>7. Cardinality(P) < Len(Groups[b])
  BY <1>1, <1>2, <1>3, <1>5, <1>6
<1> QED  BY <1>1, <1>4, <1>5, <1>6, <1>7 DEF D, P

LEMMA PlaceGrows ==
  ASSUME NEW b \in Builds, NEW m \in DOMAIN Groups[b], NEW n \in DOMAIN Groups[b],
         Before(b, m, n)
  PROVE  InterleaveBrowsers(b)[m] < InterleaveBrowsers(b)[n]
<1> DEFINE D == DOMAIN Groups[b]
           M == {k \in D : Before(b, k, m)}
           N == {k \in D : Before(b, k, n)}
<1>1. \A k \in D : k \in Nat /\ Index(b, k) \in Nat
  BY GroupsAreNumbered, IndexIsNat
<1>2. M \subseteq N /\ m \in N /\ m \notin M
  BY <1>1 DEF Before
<1>3. /\ IsFiniteSet(M) /\ InterleaveBrowsers(b)[m] = 1 + Cardinality(M)
      /\ IsFiniteSet(N) /\ InterleaveBrowsers(b)[n] = 1 + Cardinality(N)
  BY PlaceInRange
<1> HIDE DEF M, N
<1>4. Cardinality(M) <= Cardinality(N) /\ (Cardinality(M) = Cardinality(N) => M = N)
  BY <1>2, <1>3, FS_Subset
<1>5. Cardinality(M) \in Nat /\ Cardinality(N) \in Nat
  BY <1>3, FS_CardinalityType
<1> QED  BY <1>2, <1>3, <1>4, <1>5

LEMMA SnapshotsAreCounted ==
  ASSUME NEW b \in Builds
  PROVE  SnapshotsOf(b) \in Nat
<1> DEFINE D == DOMAIN Groups[b]
           f == [n \in D |-> {n} \X (1..Groups[b][n].snapshots)]
           R == {{n} \X (1..Groups[b][n].snapshots) : n \in D}
<1>1. IsFiniteSet(D)
  BY GroupsAreNumbered, FS_Interval
<1>2. f \in Surjection(D, R)
  BY DEF Surjection
<1>3. ASSUME NEW T \in R PROVE IsFiniteSet(T)
  <2>1. PICK n \in D : T = {n} \X (1..Groups[b][n].snapshots)
    OBVIOUS
  <2>2. IsFiniteSet({n}) /\ IsFiniteSet(1..Groups[b][n].snapshots)
    <3> DEFINE s == Groups[b][n].snapshots
    <3>1. s \in Int
      BY GroupsAreNumbered
    <3> HIDE DEF s
    <3>2. IsFiniteSet(1..s)
      BY <3>1, FS_Interval
    <3>3. IsFiniteSet({n})
      BY FS_Singleton
    <3> QED  BY <3>2, <3>3 DEF s
  <2> QED  BY <2>1, <2>2, FS_Product
<1> HIDE DEF D, f
<1>4. IsFiniteSet(R)
  <2> HIDE DEF R
  <2> QED  BY <1>1, <1>2, FS_Surjection
<1>5. IsFiniteSet(UNION R)
  <2> HIDE DEF R
  <2> QED  BY <1>3, <1>4, FS_UNION
<1>6. Cardinality(UNION R) \in Nat
  <2> HIDE DEF R
  <2> QED  BY <1>5, FS_CardinalityType
<1> QED  BY <1>6 DEF SnapshotsOf, D

-----------------------------------------------------------------------------
\* What a call adds: its groups, once each, after all others, with the priorities and
\* places of the policy.
DueOf(b) == call[b].now + Seconds * SnapshotsOf(b)
Jobs(b) == Payload(b, call[b].now, call[b].base)

LEMMA DueIsLater ==
  ASSUME TypeOK, NEW b \in Builds
  PROVE  /\ DueOf(b) \in Nat /\ call[b].now <= DueOf(b)
         /\ call[b].now \in Nat /\ call[b].base \in Int
<1>1. call[b].now \in 0..MaxNow /\ MaxNow \in Nat /\ call[b].base \in Int
  BY CaptureQueueAssumption DEF TypeOK
<1>2. Seconds * SnapshotsOf(b) \in Nat
  <2> DEFINE s == SnapshotsOf(b)
  <2>1. s \in Nat /\ Seconds \in Nat
    BY SnapshotsAreCounted, CaptureQueueAssumption
  <2> HIDE DEF s
  <2>2. Seconds * s \in Nat
    BY <2>1
  <2> QED  BY <2>2 DEF s
<1> HIDE DEF DueOf
<1> QED  BY <1>1, <1>2 DEF DueOf

LEMMA AddedJobs ==
  ASSUME NEW b \in Builds, policy \in Policies
  PROVE  \A j \in Jobs(b) :
           /\ j.n \in DOMAIN Groups[b]
           /\ policy = "deadline" =>
                j = Group(b, j.n, DeadlinePriority(DueOf(b), call[b].base), DueOf(b), InterleaveBrowsers(b)[j.n])
           /\ policy = "round-robin" =>
                j = Group(b, j.n, Least(call[b].base + Index(b, j.n), Lowest), 0, j.n)
           /\ policy = "fifo" => j = Group(b, j.n, 0, 0, j.n)
BY DEF Jobs, Payload, Group, DueOf, Policies

LEMMA AddedRounds ==
  ASSUME NEW b \in Builds, policy = "round-robin", NEW n \in DOMAIN Groups[b]
  PROVE  Group(b, n, Least(call[b].base + Index(b, n), Lowest), 0, n) \in Jobs(b)
BY DEF Jobs, Payload

GroupFieldsOf(b, n, p, d, w, j) ==
  /\ j \in [of : Builds, n : Nat, priority : 0..Lowest, deadline : Nat,
            tried : BOOLEAN, at : Int]
  /\ j.of = b /\ j.n = n /\ ~j.tried /\ j.priority = p /\ j.deadline = d /\ j.at = pushes + w
  /\ pushes < j.at /\ j.at <= pushes + Len(Groups[b])

LEMMA GroupFields ==
  ASSUME pushes \in Nat, Lowest \in Nat, NEW b \in Builds, NEW n \in DOMAIN Groups[b],
         NEW p \in 0..Lowest, NEW d \in Nat, NEW w \in 1..Len(Groups[b]),
         NEW j, j = Group(b, n, p, d, w)
  PROVE  GroupFieldsOf(b, n, p, d, w, j)
<1>1. Len(Groups[b]) \in Nat /\ n \in Nat
  BY GroupsAreNumbered
<1>2. w \in Int /\ 1 <= w /\ w <= Len(Groups[b])
  BY <1>1
<1>3. j = [of |-> b, n |-> n, priority |-> p, deadline |-> d, tried |-> FALSE, at |-> pushes + w]
  BY DEF Group
<1>4. pushes + w \in Int
  BY <1>2
<1>5. j \in [of : Builds, n : Nat, priority : 0..Lowest, deadline : Nat, tried : BOOLEAN, at : Int]
  BY <1>1, <1>3, <1>4
<1>6. j.of = b /\ j.n = n /\ ~j.tried /\ j.priority = p /\ j.deadline = d /\ j.at = pushes + w
  BY <1>3
<1>7. pushes < pushes + w /\ pushes + w <= pushes + Len(Groups[b])
  BY <1>1, <1>2
<1> QED  BY <1>5, <1>6, <1>7 DEF GroupFieldsOf

LEMMA AddedFields ==
  ASSUME TypeOK, ReadIsValid, NEW b \in Builds, call[b].pc = "read", NEW j \in Jobs(b)
  PROVE  /\ j \in [of : Builds, n : Nat, priority : 0..Lowest, deadline : Nat,
                   tried : BOOLEAN, at : Int]
         /\ j.of = b /\ j.n \in DOMAIN Groups[b] /\ ~j.tried
         /\ pushes < j.at /\ j.at <= pushes + Len(Groups[b])
         /\ policy = "fifo" => j.priority = 0
         /\ policy # "fifo" => j.priority >= 1
<1>0. pushes \in Nat /\ Lowest \in Nat /\ Lowest >= 1 /\ policy \in Policies
  BY CaptureQueueAssumption DEF TypeOK
<1>1. /\ j.n \in DOMAIN Groups[b] /\ Len(Groups[b]) \in Nat
      /\ j.n \in 1..Len(Groups[b]) /\ Index(b, j.n) \in Nat
      /\ InterleaveBrowsers(b)[j.n] \in 1..Len(Groups[b])
  BY <1>0, AddedJobs, GroupsAreNumbered, IndexIsNat, PlaceInRange
<1>2. DueOf(b) \in Nat /\ call[b].base \in Int
  BY DueIsLater
<1>3. CASE policy = "deadline"
  <2> DEFINE p == DeadlinePriority(DueOf(b), call[b].base)
             w == InterleaveBrowsers(b)[j.n]
  <2>1. p \in 0..Lowest /\ p >= 1
    BY <1>0, <1>2 DEF DeadlinePriority, Least, Most
  <2>2. j = Group(b, j.n, p, DueOf(b), w)
    BY <1>0, <1>3, AddedJobs
  <2>3. w \in 1..Len(Groups[b])
    BY <1>1
  <2> HIDE DEF p, w
  <2>4. GroupFieldsOf(b, j.n, p, DueOf(b), w, j)
    BY <1>0, <1>1, <1>2, <2>1, <2>2, <2>3, GroupFields
  <2> QED  BY <1>1, <1>3, <2>1, <2>4 DEF GroupFieldsOf
<1>4. CASE policy = "round-robin"
  <2> DEFINE p == Least(call[b].base + Index(b, j.n), Lowest)
  <2>1. p \in 0..Lowest /\ p >= 1
    BY <1>0, <1>1, <1>4 DEF ReadIsValid, Least
  <2>2. j = Group(b, j.n, p, 0, j.n)
    BY <1>0, <1>4, AddedJobs
  <2> HIDE DEF p
  <2>3. GroupFieldsOf(b, j.n, p, 0, j.n, j)
    BY <1>0, <1>1, <2>1, <2>2, GroupFields
  <2> QED  BY <1>1, <1>4, <2>1, <2>3 DEF GroupFieldsOf
<1>5. CASE policy = "fifo"
  <2>1. j = Group(b, j.n, 0, 0, j.n)
    BY <1>0, <1>5, AddedJobs
  <2>2. 0 \in 0..Lowest
    BY <1>0
  <2>3. GroupFieldsOf(b, j.n, 0, 0, j.n, j)
    BY <1>0, <1>1, <2>1, <2>2, GroupFields
  <2> QED  BY <1>1, <1>5, <2>3 DEF GroupFieldsOf
<1> QED  BY <1>0, <1>3, <1>4, <1>5 DEF Policies

LEMMA AddedOnce ==
  ASSUME NEW b \in Builds, policy \in Policies, NEW j \in Jobs(b), NEW k \in Jobs(b), j.n = k.n
  PROVE  j = k
BY AddedJobs DEF Policies

-----------------------------------------------------------------------------
LEMMA StillJob ==
  ASSUME policy' = policy, pushes \in Nat, pushes' \in Nat, pushes <= pushes', NEW j, IsJob(j)
  PROVE  IsJob(j)'
BY DEF IsJob

LEMMA TakenIsJob ==
  ASSUME pushes \in Nat, NEW j, IsJob(j)
  PROVE  /\ IsJob(Taken(j)) /\ Taken(j).tried
         /\ Taken(j).of = j.of /\ Taken(j).n = j.n /\ Taken(j).priority = j.priority
<1> DEFINE m == [j EXCEPT !.tried = TRUE]
           k == [m EXCEPT !.at = 0]
<1>1. Taken(j) = k
  BY DEF IsJob, Taken
<1>2. IsJob(m) /\ m.tried = TRUE /\ m.of = j.of /\ m.n = j.n /\ m.priority = j.priority
  BY DEF IsJob
<1>3. 0 \in (-pushes)..pushes
  OBVIOUS
<1> HIDE DEF m
<1>4. IsJob(k) /\ k.tried = m.tried /\ k.of = m.of /\ k.n = m.n /\ k.priority = m.priority
  BY <1>2, <1>3 DEF IsJob
<1> QED  BY <1>1, <1>2, <1>4

LEMMA MovedIsJob ==
  ASSUME pushes \in Nat, policy' = policy, pushes' = pushes + 1, NEW j, IsJob(j),
         NEW at \in {pushes + 1, -(pushes + 1)}, NEW k, k = [j EXCEPT !.at = at]
  PROVE  /\ IsJob(k)' /\ k.tried = j.tried
         /\ k.of = j.of /\ k.n = j.n /\ k.priority = j.priority
<1>1. at \in (-pushes')..pushes'
  OBVIOUS
<1> QED  BY <1>1 DEF IsJob

LEMMA FirstIsJob ==
  ASSUME NEW j, IsJob(j), NEW k, k = [j EXCEPT !.priority = 0]
  PROVE  IsJob(k) /\ k.tried = j.tried /\ k.of = j.of /\ k.n = j.n /\ k.priority = 0
<1>1. Lowest \in Nat
  BY CaptureQueueAssumption
<1>2. 0 \in 0..Lowest
  BY <1>1
<1> QED  BY <1>2 DEF IsJob

LEMMA TurnIsTyped ==
  ASSUME NEW j, IsJob(j)
  PROVE  Turn(j) \in Builds \X Browsers
BY GroupsAreNumbered DEF Turn, IsJob

LEMMA InitTyped == Init => TypeInv
<1> SUFFICES ASSUME Init PROVE TypeInv
  OBVIOUS
<1>1. TypeOK
  <2>1. MaxNow \in Nat /\ MaxEvents \in Nat
    BY CaptureQueueAssumption
  <2>2. call \in [Builds -> [pc : {"idle", "begun", "read", "done"}, now : 0..MaxNow, base : Int]]
    BY <2>1 DEF Init, Idle
  <2>3. passed \in [Builds -> SUBSET (Builds \X Browsers)]
    BY DEF Init
  <2>4. now \in 0..MaxNow /\ events \in 0..MaxEvents
    BY <2>1 DEF Init
  <2> QED  BY <2>2, <2>3, <2>4 DEF Init, TypeOK
<1>2. OnceAdded /\ ReadIsValid /\ AsAdded
  BY DEF Init, OnceAdded, ReadIsValid, AsAdded, Untried, Idle
<1> QED  BY <1>1, <1>2 DEF TypeInv

LEMMA NextTyped ==
  ASSUME TypeInv, [Next]_vars
  PROVE  TypeOK'
<1>0. TypeOK /\ OnceAdded /\ ReadIsValid
  BY DEF TypeInv
<1>a. /\ pushes \in Nat /\ MaxNow \in Nat /\ MaxEvents \in Nat /\ events \in 0..MaxEvents
      /\ now \in 0..MaxNow
  BY <1>0, CaptureQueueAssumption DEF TypeOK
<1> USE DEF jobVars
<1>1. CASE Tick
  BY <1>0, <1>a, <1>1 DEF Tick, TypeOK, IsJob
<1>2. ASSUME NEW b \in Builds, Begin(b) PROVE TypeOK'
  BY <1>0, <1>a, <1>2 DEF Begin, TypeOK, IsJob
<1>3. ASSUME NEW b \in Builds, ReadHead(b) PROVE TypeOK'
  <2>1. PICK next \in NextPrioritized : call' = [call EXCEPT ![b] = [@ EXCEPT !.pc = "read", !.base = Base(next, call[b].now)]]
    BY <1>3 DEF ReadHead
  <2>2. next.priority \in Int /\ next.deadline \in Int
    BY <1>0 DEF NextPrioritized, NoGroup, TypeOK, IsJob
  <2>3. Base(next, call[b].now) \in Int
    BY <1>0, <1>a, <2>2 DEF Base, DeadlineEpoch, CurrentRound, Least, Most, TypeOK, Policies
  <2>4. call' \in [Builds -> [pc : {"idle", "begun", "read", "done"}, now : 0..MaxNow, base : Int]]
    BY <1>0, <2>1, <2>3 DEF TypeOK
  <2> QED  BY <1>0, <1>3, <2>4 DEF ReadHead, TypeOK, IsJob
<1>4. ASSUME NEW b \in Builds, Add(b) PROVE TypeOK'
  <2>0. Len(Groups[b]) \in Nat
    BY GroupsAreNumbered
  <2>1. pushes' = pushes + Len(Groups[b]) /\ policy' = policy
    BY <1>4 DEF Add
  <2>2. pushes' \in Nat /\ pushes <= pushes'
    BY <1>a, <2>0, <2>1
  <2>3. \A j : IsJob(j) => IsJob(j)'
    BY <1>a, <2>1, <2>2, StillJob
  <2>4. call[b].pc = "read"
    BY <1>4 DEF Add
  <2>5. ASSUME NEW j \in Jobs(b)
        PROVE  IsJob(j)' /\ (policy = "fifo" \/ j.priority >= 1)
    BY <1>0, <1>a, <2>0, <2>1, <2>2, <2>4, AddedFields DEF IsJob
  <2>6. IF policy = "fifo" THEN wait' = wait \cup Jobs(b) /\ queue' = queue
        ELSE queue' = queue \cup Jobs(b) /\ wait' = wait
    BY <1>4 DEF Add, Jobs
  <2>7. call' \in [Builds -> [pc : {"idle", "begun", "read", "done"}, now : 0..MaxNow, base : Int]]
    BY <1>0, <1>4, <1>a DEF Add, TypeOK, Idle
  <2>8. /\ \A j \in queue' : IsJob(j)' /\ j.priority >= 1
        /\ \A j \in wait' : IsJob(j)' /\ (policy = "fifo" \/ j.tried)
    BY <1>0, <2>3, <2>5, <2>6 DEF TypeOK
  <2>9. \A j \in delayed \cup active : IsJob(j)' /\ j.tried
    BY <1>0, <2>3 DEF TypeOK
  <2> QED  BY <1>0, <1>4, <2>2, <2>7, <2>8, <2>9 DEF Add, TypeOK
<1>5. ASSUME NEW j \in wait, TakeWaiting(j) PROVE TypeOK'
  <2>0. IsJob(j)
    BY <1>0 DEF TypeOK
  <2>1. IsJob(j) /\ IsJob(Taken(j)) /\ Taken(j).tried
    BY <1>a, <2>0, TakenIsJob
  <2> QED  BY <1>0, <1>5, <2>1 DEF TakeWaiting, TypeOK, IsJob
<1>6. ASSUME NEW j \in queue, TakePrioritized(j) PROVE TypeOK'
  <2>0. IsJob(j)
    BY <1>0 DEF TypeOK
  <2>1. IsJob(j) /\ IsJob(Taken(j)) /\ Taken(j).tried
    BY <1>a, <2>0, TakenIsJob
  <2>2. passed' \in [Builds -> SUBSET (Builds \X Browsers)]
    <3>1. Turn(j) \in Builds \X Browsers
      BY <2>1, TurnIsTyped
    <3>2. \A b \in Builds : passed[b] \subseteq Builds \X Browsers
      BY <1>0 DEF TypeOK
    <3>3. \A b \in Builds : passed'[b] \subseteq Builds \X Browsers
      BY <1>6, <3>1, <3>2 DEF TakePrioritized
    <3>4. passed' = [b \in Builds |-> passed'[b]]
      BY <1>6 DEF TakePrioritized
    <3> QED  BY <3>3, <3>4
  <2>3. raced' \in BOOLEAN
    BY <1>0, <1>6 DEF TakePrioritized, TypeOK
  <2> QED  BY <1>0, <1>6, <2>1, <2>2, <2>3 DEF TakePrioritized, TypeOK, IsJob
<1>7. ASSUME NEW j \in active, Finish(j) PROVE TypeOK'
  BY <1>0, <1>7 DEF Finish, TypeOK, IsJob
<1>8. ASSUME NEW j \in active, Fail(j) PROVE TypeOK'
  BY <1>0, <1>a, <1>8 DEF Fail, Event, TypeOK, IsJob
<1>9. ASSUME NEW j \in active, Stall(j) PROVE TypeOK'
  <2>0. PICK s : s = [j EXCEPT !.at = -(pushes + 1)]
    OBVIOUS
  <2>1. \A k : IsJob(k) => IsJob(k)'
    BY <1>9, <1>a, StillJob DEF Stall
  <2>2. IsJob(s)' /\ s.tried
    <3>1. IsJob(j) /\ j.tried
      BY <1>0 DEF TypeOK
    <3> QED  BY <1>9, <1>a, <2>0, <3>1, MovedIsJob DEF Stall
  <2>3. wait' = wait \cup {s} /\ active' = active \ {j} /\ UNCHANGED <<queue, delayed>>
    BY <1>9, <2>0 DEF Stall
  <2>4. /\ \A k \in queue' : IsJob(k)' /\ k.priority >= 1
        /\ \A k \in wait' : IsJob(k)' /\ (policy = "fifo" \/ k.tried)
        /\ \A k \in delayed' \cup active' : IsJob(k)' /\ k.tried
    BY <1>0, <2>1, <2>2, <2>3 DEF TypeOK
  <2> QED  BY <1>0, <1>9, <1>a, <2>4 DEF Stall, Event, TypeOK
<1>10. ASSUME NEW j \in delayed \cup queue, RetryFirst(j) PROVE TypeOK'
  <2>0. PICK first : first = [j EXCEPT !.priority = 0]
    OBVIOUS
  <2>1. pushes' \in Nat /\ pushes <= pushes' /\ policy' = policy
    BY <1>10, <1>a DEF RetryFirst
  <2>2. \A k : IsJob(k) => IsJob(k)'
    BY <1>a, <2>1, StillJob
  <2>3. IsJob(j) /\ j.tried
    BY <1>0, <1>10 DEF TypeOK, RetryFirst
  <2>4. IsJob(first) /\ first.tried
    BY <2>0, <2>3, FirstIsJob
  <2>5. CASE delayed' = (delayed \ {j}) \cup {first} /\ UNCHANGED <<queue, wait, pushes>>
    BY <1>0, <1>10, <2>1, <2>2, <2>4, <2>5 DEF RetryFirst, TypeOK
  <2>6. CASE queue' = queue \ {j} /\ wait' = wait \cup {Push(first)} /\ pushes' = pushes + 1 /\ UNCHANGED delayed
    <3>0. PICK pushed : pushed = Push(first)
      OBVIOUS
    <3>1. IsJob(pushed)' /\ pushed.tried
      BY <1>a, <2>1, <2>4, <2>6, <3>0, MovedIsJob DEF Push
    <3>2. UNCHANGED <<policy, now, call, active, passed, raced, strayed, events>>
      BY <1>10 DEF RetryFirst
    <3>3. /\ \A k \in queue' : IsJob(k)' /\ k.priority >= 1
          /\ \A k \in wait' : IsJob(k)' /\ (policy = "fifo" \/ k.tried)
          /\ \A k \in delayed' \cup active' : IsJob(k)' /\ k.tried
      BY <1>0, <2>2, <2>6, <3>0, <3>1, <3>2 DEF TypeOK
    <3> QED  BY <1>0, <2>1, <3>2, <3>3 DEF TypeOK
  <2> QED  BY <1>10, <2>0, <2>5, <2>6 DEF RetryFirst
<1>11. ASSUME NEW j \in delayed, Due(j) PROVE TypeOK'
  <2>1. pushes' = pushes + 1 /\ policy' = policy
    BY <1>11 DEF Due
  <2>2. \A k : IsJob(k) => IsJob(k)'
    BY <1>a, <2>1, StillJob
  <2>3. PICK k : k = Push(j)
    OBVIOUS
  <2>4. IsJob(j) /\ j.tried /\ j.priority \in 0..Lowest /\ Lowest \in Nat
    BY <1>0, CaptureQueueAssumption DEF TypeOK, IsJob
  <2>5. IsJob(k)' /\ k.tried /\ k.priority = j.priority
    BY <1>a, <2>1, <2>3, <2>4, MovedIsJob DEF Push
  <2>6. /\ \A i \in queue' : IsJob(i)' /\ i.priority >= 1
        /\ \A i \in wait' : IsJob(i)' /\ (policy = "fifo" \/ i.tried)
        /\ \A i \in delayed' \cup active' : IsJob(i)' /\ i.tried
    BY <1>0, <1>11, <2>2, <2>3, <2>4, <2>5 DEF Due, TypeOK
  <2>7. UNCHANGED <<policy, now, call, active, passed, raced, events>> /\ strayed' \in BOOLEAN
    BY <1>0, <1>11 DEF Due, TypeOK
  <2>8. pushes' \in Nat
    BY <1>a, <2>1
  <2> QED  BY <1>0, <2>6, <2>7, <2>8 DEF TypeOK
<1>12. ASSUME NEW b \in Builds, CancelJobs(b) PROVE TypeOK'
  BY <1>0, <1>a, <1>12 DEF CancelJobs, Event, TypeOK, IsJob
<1>13. CASE UNCHANGED vars
  BY <1>0, <1>13 DEF vars, TypeOK, IsJob
<1> QED
  BY <1>1, <1>2, <1>3, <1>4, <1>5, <1>6, <1>7, <1>8, <1>9, <1>10, <1>11, <1>12, <1>13 DEF Next, QueueStep

-----------------------------------------------------------------------------
Present == queue \cup wait \cup delayed \cup active

\* Records of jobs, whatever their place.
LEMMA JobFields ==
  ASSUME TypeOK, NEW j \in Present
  PROVE  /\ IsJob(j) /\ j.of \in Builds /\ j.n \in Nat /\ j.n \in DOMAIN Groups[j.of]
         /\ j.priority \in 0..Lowest /\ j.priority \in Nat /\ j.deadline \in Nat
         /\ j.at \in Int /\ j.at <= pushes
         /\ Index(j.of, j.n) \in Nat /\ IndexOf(j) \in Nat
<1>1. IsJob(j) /\ pushes \in Nat /\ Lowest \in Nat
  BY CaptureQueueAssumption DEF TypeOK, Present
<1>2. j.of \in Builds /\ j.n \in DOMAIN Groups[j.of]
  BY <1>1 DEF IsJob
<1> QED  BY <1>1, <1>2, IndexIsNat DEF IsJob, IndexOf

LEMMA CallsEnd ==
  ASSUME TypeInv, [Next]_vars, NEW b \in Builds, call[b].pc = "done"
  PROVE  call'[b].pc = "done"
<1>0. call \in [Builds -> [pc : {"idle", "begun", "read", "done"}, now : 0..MaxNow, base : Int]]
  BY DEF TypeInv, TypeOK
<1>1. ASSUME NEW c \in Builds, Begin(c) \/ ReadHead(c) \/ Add(c)
      PROVE  c # b /\ \E v : call' = [call EXCEPT ![c] = v]
  BY <1>1 DEF Begin, ReadHead, Add
<1>2. ASSUME NEW c \in Builds, Begin(c) \/ ReadHead(c) \/ Add(c)
      PROVE  call'[b].pc = "done"
  BY <1>0, <1>1, <1>2
<1>3. CASE call' = call
  BY <1>3
<1> QED
  BY <1>2, <1>3 DEF Next, QueueStep, vars, Tick, TakeWaiting, TakePrioritized, Finish, Fail, Stall,
                    RetryFirst, Due, CancelJobs

\* Every step but Add only moves jobs there are.
LEMMA JobsAreMoved ==
  ASSUME TypeOK, [Next]_vars, \A b \in Builds : ~Add(b)
  PROVE  \A k \in Present' : \E j \in Present : k.of = j.of
<1>0. pushes \in Nat /\ \A j \in Present : IsJob(j)
  BY JobFields DEF TypeOK
<1>1. \A j \in Present, at \in Int : [j EXCEPT !.at = at].of = j.of
  BY <1>0 DEF IsJob
<1>2. \A j \in Present : Taken(j).of = j.of
  BY <1>0, TakenIsJob
<1>3. \A j \in Present : [j EXCEPT !.priority = 0].of = j.of /\ Push([j EXCEPT !.priority = 0]).of = j.of
  BY <1>0 DEF IsJob, Push
<1>4. \A j \in Present : Push(j).of = j.of
  BY <1>0, <1>1 DEF Push
<1>5. ASSUME NEW j \in wait, TakeWaiting(j)
      PROVE  \A k \in Present' : k \in Present \/ k = Taken(j)
  BY <1>5 DEF TakeWaiting, Present
<1>6. ASSUME NEW j \in queue, TakePrioritized(j)
      PROVE  \A k \in Present' : k \in Present \/ k = Taken(j)
  BY <1>6 DEF TakePrioritized, Present
<1>7. ASSUME NEW j \in active, Stall(j)
      PROVE  \A k \in Present' : k \in Present \/ k = [j EXCEPT !.at = -(pushes + 1)]
  BY <1>7 DEF Stall, Present
<1>8. ASSUME NEW j \in delayed \cup queue, RetryFirst(j)
      PROVE  \A k \in Present' : \/ k \in Present \/ k = [j EXCEPT !.priority = 0]
                                 \/ k = Push([j EXCEPT !.priority = 0])
  BY <1>8 DEF RetryFirst, Present
<1>9. ASSUME NEW j \in delayed, Due(j)
      PROVE  \A k \in Present' : k \in Present \/ k = Push(j)
  BY <1>9 DEF Due, Present
<1>10. CASE \/ Tick \/ UNCHANGED vars
            \/ \E b \in Builds : Begin(b) \/ ReadHead(b) \/ CancelJobs(b)
            \/ \E j \in active : Finish(j) \/ Fail(j)
  <2>1. Present' \subseteq Present
    BY <1>10 DEF Tick, vars, jobVars, Begin, ReadHead, CancelJobs, Finish, Fail, Present
  <2> QED  BY <2>1
<1>11. ASSUME NEW j \in wait, TakeWaiting(j) PROVE \A k \in Present' : \E i \in Present : k.of = i.of
  BY <1>2, <1>5, <1>11 DEF Present
<1>12. ASSUME NEW j \in queue, TakePrioritized(j) PROVE \A k \in Present' : \E i \in Present : k.of = i.of
  BY <1>2, <1>6, <1>12 DEF Present
<1>13. ASSUME NEW j \in active, Stall(j) PROVE \A k \in Present' : \E i \in Present : k.of = i.of
  <2>1. -(pushes + 1) \in Int /\ j \in Present
    BY <1>0 DEF Present
  <2>2. [j EXCEPT !.at = -(pushes + 1)].of = j.of
    BY <1>1, <2>1
  <2> QED  BY <1>7, <1>13, <2>1, <2>2
<1>14. ASSUME NEW j \in delayed \cup queue, RetryFirst(j) PROVE \A k \in Present' : \E i \in Present : k.of = i.of
  <2>1. j \in Present
    BY DEF Present
  <2> QED  BY <1>3, <1>8, <1>14, <2>1
<1>15. ASSUME NEW j \in delayed, Due(j) PROVE \A k \in Present' : \E i \in Present : k.of = i.of
  <2>1. j \in Present
    BY DEF Present
  <2> QED  BY <1>4, <1>9, <1>15, <2>1
<1> QED
  BY <1>10, <1>11, <1>12, <1>13, <1>14, <1>15 DEF Next, QueueStep

LEMMA NextOnceAdded ==
  ASSUME TypeInv, [Next]_vars
  PROVE  OnceAdded'
<1>0. TypeOK /\ OnceAdded /\ ReadIsValid
  BY DEF TypeInv
<1>1. \A b \in Builds : call[b].pc = "done" => call'[b].pc = "done"
  BY CallsEnd
<1>2. \A j \in Present : j.of \in Builds /\ call[j.of].pc = "done"
  BY <1>0, JobFields DEF OnceAdded, Present
<1>3. \A k \in Present' : call'[k.of].pc = "done"
  <2>1. CASE \A b \in Builds : ~Add(b)
    BY <1>0, <1>1, <1>2, <2>1, JobsAreMoved
  <2>2. ASSUME NEW b \in Builds, Add(b) PROVE \A k \in Present' : call'[k.of].pc = "done"
    <3>1. call[b].pc = "read" /\ call'[b].pc = "done"
      BY <1>0, <2>2 DEF Add, Idle, TypeOK
    <3>2. \A k \in Present' : k \in Present \/ k \in Jobs(b)
      BY <2>2 DEF Add, Jobs, Present
    <3>3. \A k \in Jobs(b) : k.of = b
      BY <1>0, <3>1, AddedFields
    <3> QED  BY <1>1, <1>2, <3>1, <3>2, <3>3
  <2> QED  BY <2>1, <2>2
<1>4. \A b \in Builds : /\ passed'[b] # {} => call'[b].pc = "done"
                        /\ \A t \in passed'[b] : call'[t[1]].pc = "done"
  <2>0. /\ passed \in [Builds -> SUBSET (Builds \X Browsers)]
        /\ \A b \in Builds : /\ passed[b] # {} => call[b].pc = "done"
                             /\ \A t \in passed[b] : call[t[1]].pc = "done" /\ t[1] \in Builds
    BY <1>0 DEF OnceAdded, TypeOK
  <2>1. CASE passed' = passed
    BY <1>1, <2>0, <2>1
  <2>2. ASSUME NEW j \in queue, TakePrioritized(j), NEW b \in Builds, NEW t \in passed'[b]
        PROVE  call'[b].pc = "done" /\ call'[t[1]].pc = "done"
    <3>1. CASE t \in passed[b]
      BY <1>1, <2>0, <3>1
    <3>2. CASE t \notin passed[b]
      <4>1. t = Turn(j) /\ HasWaiting(b, t[2])
        BY <2>2, <3>2 DEF TakePrioritized
      <4>2. PICK i \in queue : Turn(i) = <<b, t[2]>>
        BY <4>1 DEF HasWaiting
      <4>3. i.of = b /\ t[1] = j.of
        BY <4>1, <4>2 DEF Turn
      <4> QED  BY <1>1, <1>2, <4>3 DEF Present
    <3> QED  BY <3>1, <3>2
  <2>3. passed' = passed \/ \E j \in queue : TakePrioritized(j)
    BY DEF Next, QueueStep, vars, jobVars, Tick, Begin, ReadHead, Add, TakeWaiting, Finish, Fail, Stall,
           RetryFirst, Due, CancelJobs
  <2> QED  BY <2>1, <2>2, <2>3
<1> QED  BY <1>3, <1>4 DEF OnceAdded, Present

LEMMA NextReadIsValid ==
  ASSUME TypeInv, [Next]_vars
  PROVE  ReadIsValid'
<1>0. TypeOK /\ OnceAdded /\ ReadIsValid
  BY DEF TypeInv
<1>a. /\ now \in Nat /\ Lowest \in Nat \ {0} /\ policy' = policy
      /\ call \in [Builds -> [pc : {"idle", "begun", "read", "done"}, now : 0..MaxNow, base : Int]]
      /\ \A b \in Builds : call[b].now \in Nat
  <2>1. policy' = policy
    BY DEF Next, QueueStep, vars, Tick, Begin, ReadHead, Add, TakeWaiting, TakePrioritized, Finish, Fail,
           Stall, RetryFirst, Due, CancelJobs
  <2>2. MaxNow \in Nat /\ Lowest \in Nat \ {0}
    BY CaptureQueueAssumption
  <2> QED  BY <1>0, <2>1, <2>2 DEF TypeOK
<1>1. CASE Tick
  BY <1>0, <1>a, <1>1 DEF Tick, ReadIsValid
<1>2. ASSUME NEW b \in Builds, Begin(b) PROVE ReadIsValid'
  <2>1. now' = now /\ call' = [call EXCEPT ![b] = [@ EXCEPT !.pc = "begun", !.now = now]]
    BY <1>2 DEF Begin
  <2>2. call'[b].pc = "begun" /\ call'[b].now = now /\ \A c \in Builds \ {b} : call'[c] = call[c]
    BY <1>a, <2>1
  <2> QED  BY <1>0, <1>a, <2>1, <2>2 DEF ReadIsValid
<1>3. ASSUME NEW b \in Builds, ReadHead(b) PROVE ReadIsValid'
  <2>1. PICK next \in NextPrioritized : call' = [call EXCEPT ![b] = [@ EXCEPT !.pc = "read", !.base = Base(next, call[b].now)]]
    BY <1>3 DEF ReadHead
  <2>2. /\ call'[b].now = call[b].now /\ call'[b].base = Base(next, call[b].now)
        /\ \A c \in Builds \ {b} : call'[c] = call[c]
    BY <1>a, <2>1
  <2>3. next.priority \in 0..Lowest
    BY <1>0, <1>a DEF NextPrioritized, NoGroup, TypeOK, IsJob
  <2>4. policy = "round-robin" => call'[b].base \in 1..Lowest
    BY <1>a, <2>2, <2>3 DEF Base, CurrentRound, Most
  <2>5. now' = now
    BY <1>3 DEF ReadHead
  <2> QED  BY <1>0, <1>a, <2>2, <2>4, <2>5 DEF ReadIsValid
<1>4. ASSUME NEW b \in Builds, Add(b) PROVE ReadIsValid'
  <2>1. now' = now /\ call' = [call EXCEPT ![b] = [Idle EXCEPT !.pc = "done"]]
    BY <1>4 DEF Add
  <2>2. call'[b].pc = "done" /\ call'[b].now = 0 /\ \A c \in Builds \ {b} : call'[c] = call[c]
    BY <1>a, <2>1 DEF Idle
  <2> QED  BY <1>0, <1>a, <2>1, <2>2 DEF ReadIsValid
<1>5. CASE call' = call /\ now' = now
  BY <1>0, <1>a, <1>5 DEF ReadIsValid
<1> QED
  BY <1>1, <1>2, <1>3, <1>4, <1>5 DEF Next, QueueStep, vars, TakeWaiting, TakePrioritized, Finish, Fail,
           Stall, RetryFirst, Due, CancelJobs

LEMMA AddedAsAdded ==
  ASSUME TypeOK, ReadIsValid, NEW b \in Builds, call[b].pc = "read", NEW j \in Jobs(b), NEW k \in Jobs(b)
  PROVE  /\ j.n = k.n => j = k
         /\ policy = "deadline" =>
              /\ j.priority = k.priority /\ j.deadline = k.deadline
              /\ Before(b, j.n, k.n) => j.at < k.at
         /\ policy = "round-robin" =>
              /\ j.n < k.n => j.at < k.at
              /\ Index(b, j.n) <= Index(b, k.n)
                   => k.priority = Least(j.priority + Index(b, k.n) - Index(b, j.n), Lowest)
<1>0. policy \in Policies /\ pushes \in Nat /\ Lowest \in Nat /\ call[b].base \in Int
  BY CaptureQueueAssumption, DueIsLater DEF TypeOK
<1>1. j.n \in DOMAIN Groups[b] /\ k.n \in DOMAIN Groups[b] /\ j.n \in Nat /\ k.n \in Nat
  BY <1>0, AddedJobs, GroupsAreNumbered
<1>2. CASE policy = "deadline"
  <2> DEFINE v == InterleaveBrowsers(b)[j.n]
             w == InterleaveBrowsers(b)[k.n]
             p == DeadlinePriority(DueOf(b), call[b].base)
  <2>1. j = Group(b, j.n, p, DueOf(b), v) /\ k = Group(b, k.n, p, DueOf(b), w)
    BY <1>0, <1>2, AddedJobs
  <2>2. Before(b, j.n, k.n) => v < w
    BY <1>1, PlaceGrows
  <2>3. v \in Int /\ w \in Int
    <3>1. v \in 1..Len(Groups[b]) /\ w \in 1..Len(Groups[b])
      BY <1>1, PlaceInRange
    <3> QED  BY <3>1, GroupsAreNumbered
  <2> HIDE DEF v, w, p
  <2>4. /\ j.priority = p /\ k.priority = p /\ j.deadline = DueOf(b) /\ k.deadline = DueOf(b)
        /\ j.at = pushes + v /\ k.at = pushes + w
    BY <2>1 DEF Group
  <2> QED  BY <1>0, <1>2, <2>2, <2>3, <2>4, AddedOnce
<1>3. CASE policy = "round-robin"
  <2> DEFINE v == Index(b, j.n)
             w == Index(b, k.n)
  <2>1. /\ j = Group(b, j.n, Least(call[b].base + v, Lowest), 0, j.n)
        /\ k = Group(b, k.n, Least(call[b].base + w, Lowest), 0, k.n)
    BY <1>0, <1>3, AddedJobs
  <2>2. v \in Nat /\ w \in Nat
    BY <1>1, IndexIsNat
  <2> HIDE DEF v, w
  <2>3. /\ j.priority = Least(call[b].base + v, Lowest) /\ k.priority = Least(call[b].base + w, Lowest)
        /\ j.at = pushes + j.n /\ k.at = pushes + k.n
    BY <2>1 DEF Group
  <2>4. j.n < k.n => j.at < k.at
    BY <1>0, <1>1, <2>3
  <2>5. v <= w => k.priority = Least(j.priority + w - v, Lowest)
    BY <1>0, <2>2, <2>3 DEF Least
  <2>6. j.n = k.n => j = k
    BY <1>0, AddedOnce
  <2> QED  BY <1>3, <2>4, <2>5, <2>6 DEF v, w
<1>4. CASE policy = "fifo"
  BY <1>0, <1>4, AddedOnce
<1> QED  BY <1>0, <1>2, <1>3, <1>4 DEF Policies

LEMMA UntriedKept ==
  ASSUME TypeOK, [Next]_vars, \A b \in Builds : ~Add(b)
  PROVE  Untried' \subseteq Untried
<1>1. ASSUME NEW j \in delayed, Due(j) PROVE Untried' \subseteq Untried
  <2>1. Push(j).tried
    BY JobFields DEF Push, TypeOK, IsJob, Present
  <2> QED  BY <1>1, <2>1 DEF Due, Untried
<1>2. CASE queue' \subseteq queue
  BY <1>2 DEF Untried
<1> QED
  BY <1>1, <1>2 DEF Next, QueueStep, vars, jobVars, Tick, Begin, ReadHead, TakeWaiting, TakePrioritized,
           Finish, Fail, Stall, RetryFirst, CancelJobs

LEMMA NextAsAdded ==
  ASSUME TypeInv, [Next]_vars
  PROVE  AsAdded'
<1>0. TypeOK /\ OnceAdded /\ ReadIsValid /\ AsAdded
  BY DEF TypeInv
<1>1. policy' = policy
  BY DEF Next, QueueStep, vars, Tick, Begin, ReadHead, Add, TakeWaiting, TakePrioritized, Finish, Fail,
         Stall, RetryFirst, Due, CancelJobs
<1>2. CASE \A b \in Builds : ~Add(b)
  BY <1>0, <1>1, <1>2, UntriedKept DEF AsAdded
<1>3. ASSUME NEW b \in Builds, Add(b) PROVE AsAdded'
  <2>1. call[b].pc = "read" /\ (queue' = queue \cup Jobs(b) \/ queue' = queue)
    BY <1>3 DEF Add, Jobs
  <2>2. Untried' \subseteq Untried \cup Jobs(b)
    BY <2>1 DEF Untried
  <2>3. \A j \in Jobs(b) : j.of = b
    BY <1>0, <2>1, AddedFields
  <2>4. \A j \in Untried : j.of # b
    BY <1>0, <2>1 DEF OnceAdded, Untried
  <2>5. SUFFICES ASSUME NEW j \in Untried', NEW k \in Untried', j.of = k.of
        PROVE  /\ j.n = k.n => j = k
               /\ policy = "deadline" =>
                    /\ j.priority = k.priority /\ j.deadline = k.deadline
                    /\ Before(j.of, j.n, k.n) => j.at < k.at
               /\ policy = "round-robin" =>
                    /\ j.n < k.n => j.at < k.at
                    /\ IndexOf(j) <= IndexOf(k)
                         => k.priority = Least(j.priority + IndexOf(k) - IndexOf(j), Lowest)
    BY <1>1 DEF AsAdded
  <2>6. CASE j \in Untried /\ k \in Untried
    BY <1>0, <2>5, <2>6 DEF AsAdded
  <2>7. CASE j \in Jobs(b) /\ k \in Jobs(b)
    BY <1>0, <2>1, <2>3, <2>7, AddedAsAdded DEF IndexOf
  <2> QED  BY <2>2, <2>3, <2>4, <2>5, <2>6, <2>7
<1> QED  BY <1>2, <1>3

LEMMA NextTypeInv ==
  ASSUME TypeInv, [Next]_vars
  PROVE  TypeInv'
BY NextTyped, NextOnceAdded, NextReadIsValid, NextAsAdded DEF TypeInv

\* Whatever builds queue, drain, cancel or see fail in between, under every policy: a
\* priority given to BullMQ is one it takes, and only a group that was tried goes to the
\* wait list of a policy with priorities (enqueueCaptureGroups, runCaptureGroupRetryFirst).
THEOREM PrioritiesTaken == Spec => []TypeOK
<1>1. TypeInv => TypeOK
  BY DEF TypeInv
<1> QED  BY <1>1, InitTyped, NextTypeInv, PTL DEF Spec

\* A build's groups that wait as they were added alternate its browsers.
LEMMA AddedAlternate == TypeInv => BrowsersAlternate
<1> SUFFICES ASSUME TypeInv, policy # "fifo", NEW j \in queue, NEW k \in queue,
                    j.of = k.of, ~j.tried, ~k.tried, policy = "deadline" \/ k.priority < Lowest,
                    Index(j.of, j.n) < Index(k.of, k.n)
             PROVE  Ahead(j, k)
  BY DEF BrowsersAlternate
<1>1. TypeOK /\ AsAdded /\ j \in Untried /\ k \in Untried /\ Lowest \in Nat
      /\ policy \in Policies
  BY CaptureQueueAssumption DEF TypeInv, Untried, TypeOK
<1>2. j.priority \in Nat /\ k.priority \in Nat /\ IndexOf(j) \in Nat /\ IndexOf(k) \in Nat
  BY <1>1, JobFields DEF Present
<1>3. CASE policy = "deadline"
  BY <1>1, <1>3 DEF AsAdded, Before, Ahead
<1>4. CASE policy = "round-robin"
  <2>1. k.priority = Least(j.priority + IndexOf(k) - IndexOf(j), Lowest) /\ k.priority < Lowest
    BY <1>1, <1>2, <1>4 DEF AsAdded, IndexOf
  <2> QED  BY <1>1, <1>2, <2>1 DEF Least, Ahead, IndexOf
<1> QED  BY <1>1, <1>3, <1>4 DEF Policies

\* For every build, however many groups it has in a browser and whatever else waits.
THEOREM BrowsersTakenInTurn == Spec => []BrowsersAlternate
BY InitTyped, NextTypeInv, AddedAlternate, PTL DEF Spec

-----------------------------------------------------------------------------
LEMMA HistoryKept ==
  ASSUME TypeOK, [Next]_vars
  PROVE  policy' = policy /\ (raced => raced') /\ (strayed => strayed')
<1>1. policy' = policy
  BY DEF Next, QueueStep, vars, Tick, Begin, ReadHead, Add, TakeWaiting, TakePrioritized, Finish, Fail,
         Stall, RetryFirst, Due, CancelJobs
<1>2. raced' = raced \/ (\E b \in Builds : Begin(b)) \/ \E j \in queue : TakePrioritized(j)
  BY DEF Next, QueueStep, vars, Tick, ReadHead, Add, TakeWaiting, Finish, Fail, Stall, RetryFirst, Due,
         CancelJobs
<1>3. strayed' = strayed \/ strayed' = TRUE
  BY DEF Next, QueueStep, vars, Tick, Begin, ReadHead, Add, TakeWaiting, TakePrioritized, Finish, Fail,
         Stall, RetryFirst, Due, CancelJobs
<1>4. raced => raced'
  BY <1>2 DEF Begin, TakePrioritized
<1> QED  BY <1>1, <1>3, <1>4

\* Groups that failed go to the wait list, or the policy is not kept.
LEMMA QueueShrinks ==
  ASSUME [Next]_vars, ~strayed', \A b \in Builds : ~Add(b)
  PROVE  queue' \subseteq queue
BY DEF Next, QueueStep, vars, jobVars, Tick, Begin, ReadHead, TakeWaiting, TakePrioritized, Finish, Fail,
       Stall, RetryFirst, Due, CancelJobs

LEMMA CallsChange ==
  ASSUME TypeOK, [Next]_vars, \A b \in Builds : ~Begin(b) /\ ~ReadHead(b) /\ ~Add(b)
  PROVE  call' = call
BY DEF Next, QueueStep, vars, Tick, TakeWaiting, TakePrioritized, Finish, Fail,
       Stall, RetryFirst, Due, CancelJobs

LEMMA CallFields ==
  ASSUME TypeOK
  PROVE  \A b \in Builds :
           /\ Begin(b) => /\ call'[b] = [call[b] EXCEPT !.pc = "begun", !.now = now]
                          /\ call[b].pc = "idle" /\ call'[b].pc = "begun" /\ call'[b].now = now
           /\ ReadHead(b) => /\ call[b].pc = "begun" /\ call'[b].pc = "read" /\ call'[b].now = call[b].now
                             /\ \E next \in NextPrioritized : call'[b].base = Base(next, call[b].now)
           /\ Add(b) => call[b].pc = "read" /\ call'[b].pc = "done" /\ call'[b].now = 0
           /\ Begin(b) \/ ReadHead(b) \/ Add(b) => \A c \in Builds \ {b} : call'[c] = call[c]
<1>1. call \in [Builds -> [pc : {"idle", "begun", "read", "done"}, now : 0..MaxNow, base : Int]]
  BY DEF TypeOK
<1> SUFFICES ASSUME NEW b \in Builds
             PROVE  /\ Begin(b) => /\ call'[b] = [call[b] EXCEPT !.pc = "begun", !.now = now]
                                   /\ call[b].pc = "idle" /\ call'[b].pc = "begun" /\ call'[b].now = now
                    /\ ReadHead(b) => /\ call[b].pc = "begun" /\ call'[b].pc = "read" /\ call'[b].now = call[b].now
                                      /\ \E next \in NextPrioritized : call'[b].base = Base(next, call[b].now)
                    /\ Add(b) => call[b].pc = "read" /\ call'[b].pc = "done" /\ call'[b].now = 0
                    /\ Begin(b) \/ ReadHead(b) \/ Add(b) => \A c \in Builds \ {b} : call'[c] = call[c]
  OBVIOUS
<1>2. call[b] \in [pc : {"idle", "begun", "read", "done"}, now : 0..MaxNow, base : Int]
  BY <1>1
<1>3. CASE Begin(b)
  <2>1. call' = [call EXCEPT ![b] = [@ EXCEPT !.pc = "begun", !.now = now]] /\ call[b].pc = "idle"
    BY <1>3 DEF Begin
  <2> QED  BY <1>1, <1>2, <2>1 DEF ReadHead, Add
<1>4. CASE ReadHead(b)
  <2>1. PICK next \in NextPrioritized :
          call' = [call EXCEPT ![b] = [@ EXCEPT !.pc = "read", !.base = Base(next, call[b].now)]]
    BY <1>4 DEF ReadHead
  <2>2. call[b].pc = "begun"
    BY <1>4 DEF ReadHead
  <2>3. /\ call'[b].pc = "read" /\ call'[b].now = call[b].now /\ call'[b].base = Base(next, call[b].now)
        /\ \A c \in Builds \ {b} : call'[c] = call[c]
    BY <1>1, <1>2, <2>1
  <2> QED  BY <2>2, <2>3 DEF Begin, Add
<1>5. CASE Add(b)
  <2>1. call' = [call EXCEPT ![b] = [Idle EXCEPT !.pc = "done"]] /\ call[b].pc = "read"
    BY <1>5 DEF Add
  <2>2. [Idle EXCEPT !.pc = "done"].pc = "done" /\ [Idle EXCEPT !.pc = "done"].now = 0
    BY DEF Idle
  <2>3. /\ call'[b].pc = "done" /\ call'[b].now = 0
        /\ \A c \in Builds \ {b} : call'[c] = call[c]
    BY <1>1, <2>1, <2>2
  <2> QED  BY <2>1, <2>3 DEF Begin, ReadHead
<1> QED  BY <1>3, <1>4, <1>5

LEMMA OneCallKept ==
  ASSUME TypeOK, OneCall, [Next]_vars, ~raced'
  PROVE  OneCall'
<1>1. ASSUME NEW b \in Builds, Begin(b) PROVE OneCall'
  <2>1. \A c \in Builds : ~Open(c)
    BY <1>1 DEF Begin
  <2>2. \A c \in Builds \ {b} : call'[c] = call[c]
    BY <1>1, CallFields
  <2> QED  BY <2>1, <2>2 DEF OneCall, Open
<1>2. ASSUME NEW b \in Builds, ReadHead(b) \/ Add(b) PROVE OneCall'
  <2>1. Open(b) /\ \A c \in Builds \ {b} : call'[c] = call[c]
    BY <1>2, CallFields DEF Open
  <2> QED  BY <2>1 DEF OneCall, Open
<1>3. CASE call' = call
  BY <1>3 DEF OneCall, Open
<1> QED  BY <1>1, <1>2, <1>3, CallsChange

LEMMA QueuedFields ==
  ASSUME TypeOK
  PROVE  \A j \in queue : /\ j.priority \in 1..Lowest /\ j.priority \in Nat /\ j.deadline \in Nat
                          /\ Epoch(j) \in Int /\ j.of \in Builds /\ j.n \in DOMAIN Groups[j.of]
                          /\ j.at \in Int /\ j.at <= pushes /\ IndexOf(j) \in Nat
<1> SUFFICES ASSUME NEW j \in queue
             PROVE  /\ j.priority \in 1..Lowest /\ j.priority \in Nat /\ j.deadline \in Nat
                    /\ Epoch(j) \in Int /\ j.of \in Builds /\ j.n \in DOMAIN Groups[j.of]
                    /\ j.at \in Int /\ j.at <= pushes /\ IndexOf(j) \in Nat
  OBVIOUS
<1>1. j.priority >= 1 /\ j \in Present
  BY DEF TypeOK, Present
<1>2. /\ j.priority \in 0..Lowest /\ j.deadline \in Nat /\ j.of \in Builds /\ j.n \in DOMAIN Groups[j.of]
      /\ j.at \in Int /\ j.at <= pushes /\ IndexOf(j) \in Nat /\ j.priority \in Nat
  BY <1>1, JobFields
<1>3. Lowest \in Nat
  BY CaptureQueueAssumption
<1> QED  BY <1>1, <1>2, <1>3 DEF Epoch

LEMMA InitDeadline == Init => DeadlineInv
BY DEF Init, DeadlineInv, OneCall, OneEpoch, Open, Idle

LEMMA NextDeadline ==
  ASSUME TypeInv, DeadlineInv, [Next]_vars
  PROVE  DeadlineInv'
<1> SUFFICES ASSUME policy' = "deadline", ~raced', ~strayed'
             PROVE  OneCall' /\ OneEpoch'
  BY DEF DeadlineInv
<1>0. /\ TypeOK /\ OnceAdded /\ ReadIsValid /\ OneCall /\ OneEpoch
      /\ policy = "deadline" /\ ~strayed
  BY HistoryKept DEF TypeInv, DeadlineInv
<1>1. OneCall'
  BY <1>0, OneCallKept
<1>a. /\ \A j \in queue : Epoch(j) \in Int /\ j.priority \in Nat /\ j.deadline \in Nat
      /\ \A b \in Builds : call[b].now \in Nat /\ call[b].base \in Int /\ call[b].now <= now
      /\ now \in Nat /\ Lowest \in Nat
  BY <1>0, QueuedFields, DueIsLater, CaptureQueueAssumption DEF TypeOK, ReadIsValid
<1>2. ASSUME NEW b \in Builds, Begin(b) PROVE OneEpoch'
  <2>1. now' = now /\ queue' = queue
    BY <1>2 DEF Begin, jobVars
  <2>2. call'[b].pc = "begun" /\ call'[b].now = now /\ \A c \in Builds \ {b} : call'[c] = call[c]
    BY <1>0, <1>2, CallFields
  <2> QED  BY <1>0, <2>1, <2>2 DEF OneEpoch, Open
<1>3. ASSUME NEW b \in Builds, ReadHead(b) PROVE OneEpoch'
  <2>1. now' = now /\ queue' = queue
    BY <1>3 DEF ReadHead, jobVars
  <2>2. /\ call[b].pc = "begun" /\ call'[b].pc = "read" /\ call'[b].now = call[b].now
        /\ \A c \in Builds \ {b} : call'[c] = call[c]
    BY <1>0, <1>3, CallFields
  <2>3. PICK next \in NextPrioritized : call'[b].base = Base(next, call[b].now)
    BY <1>0, <1>3, CallFields
  <2>4. call'[b].base = DeadlineEpoch(next, call[b].now)
    BY <1>0, <2>3 DEF Base
  <2>5. \A j \in queue : InRange(j) => Epoch(j) < call[b].now
    BY <1>0, <2>2 DEF OneEpoch, Open
  <2>6. /\ call'[b].base < call'[b].now
        /\ \A j \in queue : InRange(j) => Epoch(j) = call'[b].base
    <3>1. CASE queue = {}
      BY <1>a, <2>2, <2>3, <2>4, <3>1 DEF NextPrioritized, NoGroup, DeadlineEpoch
    <3>2. CASE queue # {}
      <4>1. next \in queue /\ \A k \in queue : ~Ahead(k, next)
        BY <2>3, <3>2 DEF NextPrioritized, IsNext
      <4>2. next.priority \in Nat /\ next.priority # 0 /\ Epoch(next) \in Int
        BY <1>0, <1>a, <4>1 DEF TypeOK
      <4>3. call'[b].base = Least(Epoch(next), call[b].now - 1)
        BY <2>4, <4>2 DEF DeadlineEpoch, Epoch
      <4>4. ASSUME NEW j \in queue, InRange(j) PROVE Epoch(j) = call'[b].base
        <5>1. InRange(next)
          BY <1>a, <4>1, <4>2, <4>4 DEF Ahead, InRange
        <5>2. Epoch(j) = Epoch(next) /\ Epoch(next) < call[b].now
          BY <1>0, <2>5, <4>1, <4>4, <5>1 DEF OneEpoch
        <5> QED  BY <1>a, <4>2, <4>3, <5>2 DEF Least
      <4>5. call'[b].base < call'[b].now
        BY <1>a, <2>2, <4>2, <4>3 DEF Least
      <4> QED  BY <4>4, <4>5
    <3> QED  BY <3>1, <3>2
  <2> QED  BY <1>0, <2>1, <2>2, <2>6 DEF OneEpoch, Open
<1>4. ASSUME NEW b \in Builds, Add(b) PROVE OneEpoch'
  <2>1. now' = now /\ queue' = queue \cup Jobs(b)
    BY <1>0, <1>4 DEF Add, Jobs
  <2>2. call[b].pc = "read" /\ call'[b].pc = "done" /\ \A c \in Builds \ {b} : call'[c] = call[c]
    BY <1>0, <1>4, CallFields
  <2>3. \A c \in Builds : call'[c].pc \notin {"begun", "read"}
    BY <1>0, <2>2 DEF OneCall, Open
  <2>4. \A j \in queue : InRange(j) => Epoch(j) = call[b].base
    BY <1>0, <2>2 DEF OneEpoch
  <2>5. ASSUME NEW j \in Jobs(b), InRange(j) PROVE Epoch(j) = call[b].base
    <3>1. j = Group(b, j.n, DeadlinePriority(DueOf(b), call[b].base), DueOf(b), InterleaveBrowsers(b)[j.n])
      BY <1>0, AddedJobs DEF TypeOK
    <3>2. j.priority = DeadlinePriority(DueOf(b), call[b].base) /\ j.deadline = DueOf(b)
      BY <3>1 DEF Group
    <3>3. call[b].base < call[b].now /\ call[b].now <= DueOf(b) /\ DueOf(b) \in Nat
      BY <1>0, <2>2, DueIsLater DEF OneEpoch
    <3> HIDE DEF DueOf
    <3>4. DueOf(b) - call[b].base >= 1
      BY <1>a, <3>3
    <3> QED  BY <1>a, <2>5, <3>2, <3>3, <3>4 DEF InRange, Epoch, DeadlinePriority, Least, Most
  <2>6. call[b].base < now
    BY <1>0, <1>a, <2>2 DEF OneEpoch
  <2> HIDE DEF Epoch, InRange
  <2>7. \A j \in queue' : InRange(j) => Epoch(j) = call[b].base
    BY <2>1, <2>4, <2>5
  <2> QED  BY <2>1, <2>3, <2>6, <2>7 DEF OneEpoch, Open
<1>5. CASE \A b \in Builds : ~Begin(b) /\ ~ReadHead(b) /\ ~Add(b)
  <2>1. call' = call /\ queue' \subseteq queue
    BY <1>0, <1>5, CallsChange, QueueShrinks
  <2>2. now' \in Nat /\ now <= now'
    <3>1. Tick \/ now' = now
      BY <1>5 DEF Next, QueueStep, vars, TakeWaiting, TakePrioritized, Finish, Fail,
                  Stall, RetryFirst, Due, CancelJobs
    <3> QED  BY <1>a, <3>1 DEF Tick
  <2>3. \A j \in queue' : InRange(j) => Epoch(j) < now'
    <3> HIDE DEF Epoch, InRange
    <3> QED  BY <1>0, <1>a, <2>1, <2>2 DEF OneEpoch
  <2>4. /\ \A j, k \in queue' : InRange(j) /\ InRange(k) => Epoch(j) = Epoch(k)
        /\ \A b \in Builds : call[b].pc \in {"begun", "read"} =>
             \A j \in queue' : InRange(j) => Epoch(j) < call[b].now
        /\ \A b \in Builds : call[b].pc = "read" =>
             /\ call[b].base < call[b].now
             /\ \A j \in queue' : InRange(j) => Epoch(j) = call[b].base
    <3> HIDE DEF Epoch, InRange
    <3> QED  BY <1>0, <2>1 DEF OneEpoch, Open
  <2> HIDE DEF Epoch, InRange
  <2> QED  BY <1>1, <2>1, <2>3, <2>4 DEF OneEpoch, Open
<1> QED  BY <1>1, <1>2, <1>3, <1>4, <1>5

\* The group that is next is the one due first.
LEMMA NextIsDueFirst ==
  ASSUME TypeInv, DeadlineInv, policy = "deadline", ~raced, ~strayed,
         NEW j \in queue, IsNext(j), NEW k \in queue, k.priority < Lowest
  PROVE  j.deadline <= k.deadline
<1>1. /\ j.priority \in Nat /\ k.priority \in Nat /\ j.deadline \in Nat /\ k.deadline \in Nat /\ Lowest \in Nat
  BY QueuedFields, CaptureQueueAssumption DEF TypeInv
<1>2. j.priority <= k.priority
  BY <1>1 DEF IsNext, Ahead
<1>3. Epoch(j) = Epoch(k)
  BY <1>1, <1>2 DEF DeadlineInv, OneEpoch, InRange
<1> QED  BY <1>1, <1>2, <1>3 DEF Epoch

\* For any sizes of builds and any clock, however the queue drained, was canceled or saw
\* failures in between (captureQueuePolicySchema, deadlineEpoch).
THEOREM DueFirstIsTaken == Spec => EarliestDueFirst
<1>1. TypeInv /\ DeadlineInv => DueFirst
  BY NextIsDueFirst DEF DueFirst, TakePrioritized
<1> QED  BY <1>1, InitTyped, NextTypeInv, InitDeadline, NextDeadline, PTL DEF Spec, EarliestDueFirst

-----------------------------------------------------------------------------
\* Groups of one turn wait in the order of their indexes.
LEMMA OrderInTurn ==
  ASSUME TypeInv, policy = "round-robin", NoneTried,
         NEW j \in queue, NEW k \in queue, SameTurn(j, k)
  PROVE  /\ IndexOf(j) = IndexOf(k) => j = k
         /\ IndexOf(j) < IndexOf(k) =>
              /\ j.at < k.at /\ j.priority <= k.priority
              /\ InRange(k) => j.priority < k.priority
         /\ IndexOf(k) = IndexOf(j) + 1 => k.priority <= j.priority + 1
<1>1. j \in Untried /\ k \in Untried /\ AsAdded /\ Lowest \in Nat /\ TypeOK
  BY CaptureQueueAssumption DEF NoneTried, Untried, TypeInv
<1>2. /\ j.of = k.of /\ BrowserOf(j.of, j.n) = BrowserOf(k.of, k.n)
  BY DEF SameTurn, Turn
<1>3. /\ j.of \in Builds /\ j.n \in DOMAIN Groups[j.of] /\ k.n \in DOMAIN Groups[j.of]
      /\ IndexOf(j) \in Nat /\ IndexOf(k) \in Nat /\ j.priority \in Nat /\ k.priority \in Nat
      /\ j.at \in Int /\ k.at \in Int /\ j.priority <= Lowest
  BY <1>1, <1>2, QueuedFields
<1>4. /\ IndexOf(j) = IndexOf(k) => j.n = k.n
      /\ IndexOf(j) < IndexOf(k) => j.n < k.n
  BY <1>2, <1>3, SameIndex DEF IndexOf
<1>5. /\ j.n = k.n => j = k
      /\ j.n < k.n => j.at < k.at
      /\ IndexOf(j) <= IndexOf(k) => k.priority = Least(j.priority + IndexOf(k) - IndexOf(j), Lowest)
  BY <1>1, <1>2 DEF AsAdded
<1> QED  BY <1>1, <1>3, <1>4, <1>5 DEF Least, InRange

\* The next group is the first of its turn, and the one after it is at most a round later.
LEMMA NextOfTurn ==
  ASSUME TypeInv, policy = "round-robin", NoneTried, Contiguous,
         NEW h \in queue, IsNext(h), NEW j \in queue, SameTurn(h, j), j # h
  PROVE  /\ IndexOf(h) < IndexOf(j)
         /\ \E i \in queue \ {h} : SameTurn(i, j) /\ i.priority <= h.priority + 1
<1>1. /\ IndexOf(j) \in Nat /\ IndexOf(h) \in Nat /\ j.priority \in Nat /\ h.priority \in Nat
      /\ j.at \in Int /\ h.at \in Int
  BY QueuedFields DEF TypeInv
<1>2. SameTurn(j, h)
  BY DEF SameTurn
<1>3. ~(IndexOf(j) < IndexOf(h))
  BY <1>1, <1>2, OrderInTurn DEF IsNext, Ahead
<1>4. IndexOf(h) < IndexOf(j)
  BY <1>1, <1>3, OrderInTurn
<1>5. PICK i \in queue : SameTurn(i, h) /\ IndexOf(i) = IndexOf(h) + 1
  BY <1>4 DEF Contiguous
<1>6. SameTurn(h, i) /\ SameTurn(i, j) /\ i # h
  BY <1>1, <1>5 DEF SameTurn
<1>7. i.priority <= h.priority + 1
  BY <1>5, <1>6, OrderInTurn
<1> QED  BY <1>4, <1>6, <1>7

-----------------------------------------------------------------------------
\* A worker takes a group while no call has read the queue.
LEMMA TakeInRounds ==
  ASSUME TypeInv, policy = "round-robin", InRounds, NEW h \in queue, TakePrioritized(h),
         \A b \in Builds : call'[b].pc # "read"
  PROVE  InRounds'
<1>0. NoneTried /\ Contiguous /\ InBlocks /\ Abreast /\ AheadIsOlder /\ PassedOnce
  BY DEF InRounds
<1>1. queue' = queue \ {h} /\ IsNext(h)
  BY DEF TakePrioritized
<1>2. \A j \in queue : /\ IndexOf(j) \in Nat /\ j.priority \in Nat /\ j.at \in Int
                       /\ ~Ahead(j, h)
  BY <1>1, QueuedFields DEF TypeInv, IsNext
<1>3. NoneTried' /\ InBlocks'
  BY <1>0, <1>1 DEF NoneTried, InBlocks
<1>4. Contiguous'
  <2> SUFFICES ASSUME NEW j \in queue', NEW k \in queue', SameTurn(j, k), IndexOf(j) < IndexOf(k)
               PROVE  \E i \in queue' : SameTurn(i, j) /\ IndexOf(i) = IndexOf(j) + 1
    BY DEF Contiguous
  <2>1. PICK i \in queue : SameTurn(i, j) /\ IndexOf(i) = IndexOf(j) + 1
    BY <1>0, <1>1 DEF Contiguous
  <2>2. i # h
    <3>1. SUFFICES ASSUME i = h PROVE FALSE
      OBVIOUS
    <3>2. SameTurn(h, j) /\ j # h /\ j \in queue
      BY <1>1, <2>1, <3>1
    <3>3. IndexOf(h) < IndexOf(j)
      BY <1>0, <1>1, <3>2, NextOfTurn
    <3> QED  BY <1>2, <2>1, <3>1, <3>2, <3>3
  <2> QED  BY <1>1, <2>1, <2>2
<1>5. Abreast'
  <2> SUFFICES ASSUME NEW j \in queue', NEW k \in queue'
               PROVE  \E i \in queue' : SameTurn(i, k) /\ i.priority <= j.priority + 1
    BY DEF Abreast
  <2>1. PICK i \in queue : SameTurn(i, k) /\ i.priority <= j.priority + 1
    BY <1>0, <1>1 DEF Abreast
  <2>2. CASE i # h
    BY <1>1, <2>1, <2>2
  <2>3. CASE i = h
    <3>1. k \in queue /\ k # h /\ SameTurn(h, k) /\ j \in queue
      BY <1>1, <2>1, <2>3
    <3>2. PICK g \in queue \ {h} : SameTurn(g, k) /\ g.priority <= h.priority + 1
      BY <1>0, <1>1, <3>1, NextOfTurn
    <3>3. h.priority <= j.priority
      BY <1>2, <3>1 DEF Ahead
    <3> QED  BY <1>1, <1>2, <3>1, <3>2, <3>3
  <2> QED  BY <2>2, <2>3
<1>6. ReadAbreast'
  BY DEF ReadAbreast
<1>7. AheadIsOlder'
  <2> SUFFICES ASSUME NEW j \in queue', NEW k \in queue', j.of # k.of, Turn(j)[2] = Turn(k)[2],
                      \A i \in queue' : SameTurn(i, k) => j.priority < i.priority
               PROVE  k.at < j.at
    BY DEF AheadIsOlder
  <2>1. j \in queue /\ k \in queue /\ j # h /\ k # h
    BY <1>1
  <2>2. CASE ~SameTurn(h, k)
    <3>1. \A i \in queue : SameTurn(i, k) => j.priority < i.priority
      BY <1>1, <2>2
    <3> QED  BY <1>0, <2>1, <3>1 DEF AheadIsOlder
  <2>3. CASE SameTurn(h, k)
    <3>1. PICK g \in queue \ {h} : SameTurn(g, k) /\ g.priority <= h.priority + 1
      BY <1>0, <1>1, <2>1, <2>3, NextOfTurn
    <3>2. j.priority < g.priority
      BY <1>1, <3>1
    <3>3. h.priority <= j.priority
      BY <1>2, <2>1 DEF Ahead
    <3>4. h.priority = j.priority
      BY <1>2, <2>1, <3>1, <3>2, <3>3
    <3>5. h.at <= j.at
      BY <1>2, <2>1, <3>4 DEF Ahead
    <3>6. h.of = k.of
      BY <2>3 DEF SameTurn, Turn
    <3>7. h.at < j.at
      BY <1>0, <1>2, <2>1, <3>5 DEF InBlocks
    <3> QED  BY <1>0, <2>1, <3>6, <3>7 DEF InBlocks
  <2> QED  BY <2>2, <2>3
<1>8. PassedOnce'
  <2> SUFFICES ASSUME NEW b \in Builds, NEW k \in queue', Turn(k) \in passed'[b], k.of # b, InRange(k),
                      HasWaiting(b, Turn(k)[2])'
               PROVE  \E i \in queue' : Turn(i) = <<b, Turn(k)[2]>> /\ Ahead(i, k)
    BY DEF PassedOnce, Turn
  <2>1. k \in queue /\ k # h
    BY <1>1
  <2>2. PICK g \in queue' : Turn(g) = <<b, Turn(k)[2]>>
    BY DEF HasWaiting, Turn
  <2>3. HasWaiting(b, Turn(k)[2]) /\ g \in queue
    BY <1>1, <2>2 DEF HasWaiting
  <2>4. \A i : Turn(i)[1] = i.of
    BY DEF Turn
  <2>5. passed'[b] = IF b = h.of THEN {t \in passed[b] : t[2] # Turn(h)[2]}
                     ELSE passed[b] \cup {t \in {Turn(h)} : HasWaiting(b, t[2])}
    BY DEF TakePrioritized
  <2>6. CASE Turn(k) \in passed[b]
    <3>1. PICK i \in queue : Turn(i) = <<b, Turn(k)[2]>> /\ Ahead(i, k)
      BY <1>0, <2>1, <2>3, <2>6 DEF PassedOnce
    <3>2. i # h
      <4>1. CASE b = h.of
        BY <2>5, <3>1, <4>1
      <4>2. CASE b # h.of
        BY <2>4, <3>1, <4>2
      <4> QED  BY <4>1, <4>2
    <3> QED  BY <1>1, <3>1, <3>2
  <2>7. CASE Turn(k) \notin passed[b]
    <3>1. b # h.of /\ Turn(k) = Turn(h)
      BY <2>5, <2>7
    <3>2. h.priority < k.priority /\ h.at < k.at
      <4>1. SameTurn(h, k)
        BY <3>1 DEF SameTurn
      <4>2. IndexOf(h) < IndexOf(k)
        BY <1>0, <1>1, <2>1, <4>1, NextOfTurn
      <4> QED  BY <1>0, <2>1, <4>1, <4>2, OrderInTurn
    <3>3. g.of = b /\ g # h
      BY <2>2, <2>4, <3>1
    <3>4. PICK i \in queue : SameTurn(i, g) /\ i.priority <= h.priority + 1
      BY <1>0, <2>3 DEF Abreast
    <3>5. \A z \in queue : SameTurn(z, g) => z # h /\ Turn(z) = <<b, Turn(k)[2]>>
      BY <2>2, <2>4, <3>1 DEF SameTurn
    <3>6. CASE i.priority < k.priority
      BY <1>1, <3>4, <3>5, <3>6 DEF Ahead
    <3>7. CASE \E z \in queue : SameTurn(z, g) /\ z.priority <= h.priority
      <4>1. PICK z \in queue : SameTurn(z, g) /\ z.priority <= h.priority
        BY <3>7
      <4>2. Ahead(z, k)
        BY <1>2, <2>1, <3>2, <4>1 DEF Ahead
      <4> QED  BY <1>1, <3>5, <4>1, <4>2
    <3>8. CASE ~(i.priority < k.priority) /\ \A z \in queue : SameTurn(z, g) => ~(z.priority <= h.priority)
      <4>1. i.priority = k.priority
        BY <1>2, <2>1, <3>2, <3>4, <3>8
      <4>2. \A z \in queue : SameTurn(z, i) => h.priority < z.priority
        BY <1>2, <3>4, <3>8 DEF SameTurn
      <4>3. h.of # i.of /\ Turn(h)[2] = Turn(i)[2]
        BY <2>2, <2>4, <3>1, <3>4, <3>5
      <4>4. i.at < h.at
        BY <1>0, <4>2, <4>3 DEF AheadIsOlder
      <4>5. Ahead(i, k)
        BY <1>2, <2>1, <3>2, <4>1, <4>4 DEF Ahead
      <4> QED  BY <1>1, <3>4, <3>5, <4>5
    <3> QED  BY <3>6, <3>7, <3>8
  <2> QED  BY <2>6, <2>7
<1> QED  BY <1>3, <1>4, <1>5, <1>6, <1>7, <1>8 DEF InRounds

LEMMA CancelInRounds ==
  ASSUME TypeInv, policy = "round-robin", InRounds, NEW c \in Builds, CancelJobs(c)
  PROVE  InRounds'
<1>0. NoneTried /\ Contiguous /\ InBlocks /\ Abreast /\ ReadAbreast /\ AheadIsOlder /\ PassedOnce
  BY DEF InRounds
<1>1. call' = call /\ passed' = passed /\ \A j : j \in queue' <=> j \in queue /\ j.of # c
  BY DEF CancelJobs
<1>2. \A i, j : SameTurn(i, j) => i.of = j.of
  BY DEF SameTurn, Turn
<1>3. NoneTried' /\ InBlocks'
  BY <1>0, <1>1 DEF NoneTried, InBlocks
<1>4. Contiguous'
  BY <1>0, <1>1, <1>2 DEF Contiguous
<1>5. Abreast'
  BY <1>0, <1>1, <1>2 DEF Abreast
<1>6. ReadAbreast'
  BY <1>0, <1>1, <1>2 DEF ReadAbreast
<1>7. AheadIsOlder'
  BY <1>0, <1>1, <1>2 DEF AheadIsOlder
<1>8. PassedOnce'
  <2> SUFFICES ASSUME NEW b \in Builds, NEW k \in queue', Turn(k) \in passed[b], k.of # b, InRange(k),
                      HasWaiting(b, Turn(k)[2])'
               PROVE  \E i \in queue' : Turn(i) = <<b, Turn(k)[2]>> /\ Ahead(i, k)
    BY <1>1 DEF PassedOnce, Turn
  <2>1. PICK g \in queue' : Turn(g) = <<b, Turn(k)[2]>>
    BY DEF HasWaiting, Turn
  <2>2. HasWaiting(b, Turn(k)[2]) /\ k \in queue /\ b # c
    BY <1>1, <2>1 DEF HasWaiting, Turn
  <2>3. PICK i \in queue : Turn(i) = <<b, Turn(k)[2]>> /\ Ahead(i, k)
    BY <1>0, <2>2 DEF PassedOnce
  <2>4. i.of = b
    BY <2>3 DEF Turn
  <2> QED  BY <1>1, <2>2, <2>3, <2>4
<1> QED  BY <1>3, <1>4, <1>5, <1>6, <1>7, <1>8 DEF InRounds

\* A build joins the round of the group that was next when its call read the queue.
LEMMA AddedJoin ==
  ASSUME TypeInv, policy = "round-robin", NEW b \in Builds, call[b].pc = "read"
  PROVE  /\ call[b].base \in Nat /\ pushes \in Nat
         /\ \A j \in Jobs(b) :
              /\ j.of = b /\ j.n \in DOMAIN Groups[b] /\ ~j.tried
              /\ j.at \in Int /\ pushes < j.at
              /\ j.priority \in Nat /\ call[b].base <= j.priority
              /\ \E z \in Jobs(b) : SameTurn(z, j) /\ z.priority = call[b].base
         /\ \A n \in DOMAIN Groups[b] : \E z \in Jobs(b) : z.n = n /\ z.of = b
<1>0. TypeOK /\ ReadIsValid /\ policy \in Policies /\ Lowest \in Nat /\ pushes \in Nat
  BY CaptureQueueAssumption DEF TypeInv, TypeOK
<1>1. call[b].base \in Nat /\ call[b].base <= Lowest
  BY <1>0 DEF ReadIsValid
<1>2. ASSUME NEW n \in DOMAIN Groups[b]
      PROVE  \E z \in Jobs(b) : z.n = n /\ z.of = b /\ z.priority = Least(call[b].base + Index(b, n), Lowest)
  <2> DEFINE p == Least(call[b].base + Index(b, n), Lowest)
             z == Group(b, n, p, 0, n)
  <2>1. z \in Jobs(b)
    BY AddedRounds
  <2>2. z.n = n /\ z.of = b /\ z.priority = p
    BY DEF Group
  <2> QED  BY <2>1, <2>2
<1>3. ASSUME NEW j \in Jobs(b)
      PROVE  /\ j.of = b /\ j.n \in DOMAIN Groups[b] /\ ~j.tried
             /\ j.at \in Int /\ pushes < j.at
             /\ j.priority \in Nat /\ call[b].base <= j.priority
  <2>1. j.of = b /\ j.n \in DOMAIN Groups[b] /\ ~j.tried /\ j.at \in Int /\ pushes < j.at
    BY <1>0, AddedFields
  <2>2. j.priority = Least(call[b].base + Index(b, j.n), Lowest)
    <3> DEFINE p == Least(call[b].base + Index(b, j.n), Lowest)
    <3>1. j = Group(b, j.n, p, 0, j.n)
      BY <1>0, AddedJobs
    <3> HIDE DEF p
    <3>2. j.priority = p
      BY <3>1 DEF Group
    <3> QED  BY <3>2 DEF p
  <2>3. Index(b, j.n) \in Nat
    BY <2>1, IndexIsNat
  <2> QED  BY <1>0, <1>1, <2>1, <2>2, <2>3 DEF Least
<1>4. ASSUME NEW j \in Jobs(b)
      PROVE  \E z \in Jobs(b) : SameTurn(z, j) /\ z.priority = call[b].base
  <2>1. j.of = b /\ j.n \in DOMAIN Groups[b]
    BY <1>3
  <2>2. PICK m \in DOMAIN Groups[b] : BrowserOf(b, m) = BrowserOf(b, j.n) /\ Index(b, m) = 0
    BY <2>1, FirstIndex
  <2>3. PICK z \in Jobs(b) : z.n = m /\ z.of = b /\ z.priority = Least(call[b].base + Index(b, m), Lowest)
    BY <1>2
  <2>4. z.priority = call[b].base
    BY <1>0, <1>1, <2>2, <2>3 DEF Least
  <2> QED  BY <2>1, <2>2, <2>3, <2>4 DEF SameTurn, Turn
<1> QED  BY <1>0, <1>1, <1>2, <1>3, <1>4

LEMMA AddInRounds ==
  ASSUME TypeInv, policy = "round-robin", OneCall, InRounds, NEW b \in Builds, Add(b)
  PROVE  InRounds'
<1>0. NoneTried /\ Contiguous /\ InBlocks /\ Abreast /\ ReadAbreast /\ AheadIsOlder /\ PassedOnce
  BY DEF InRounds
<1>a. TypeOK /\ ReadIsValid /\ OnceAdded
  BY DEF TypeInv
<1>1. queue' = queue \cup Jobs(b) /\ passed' = passed
  BY DEF Add, Jobs
<1>2. call[b].pc = "read" /\ call'[b].pc = "done" /\ \A c \in Builds \ {b} : call'[c] = call[c]
  BY <1>a, CallFields
<1> DEFINE r == call[b].base
<1>3. \A j \in queue : /\ j.of # b /\ j.priority \in Nat /\ j.at \in Int /\ j.at <= pushes
                       /\ r <= j.priority
                       /\ \E i \in queue : SameTurn(i, j) /\ i.priority <= r + 1
  BY <1>0, <1>a, <1>2, QueuedFields DEF OnceAdded, ReadAbreast
<1>4. /\ r \in Nat /\ pushes \in Nat
      /\ \A j \in Jobs(b) :
           /\ j.of = b /\ j.n \in DOMAIN Groups[b] /\ ~j.tried
           /\ j.at \in Int /\ pushes < j.at
           /\ j.priority \in Nat /\ r <= j.priority
           /\ \E z \in Jobs(b) : SameTurn(z, j) /\ z.priority = r
      /\ \A n \in DOMAIN Groups[b] : \E z \in Jobs(b) : z.n = n /\ z.of = b
  BY <1>2, AddedJoin
<1> HIDE DEF r
<1>5. \A i, j : SameTurn(i, j) => i.of = j.of
  BY DEF SameTurn, Turn
<1>6. NoneTried'
  BY <1>0, <1>1, <1>4 DEF NoneTried
<1>7. Contiguous'
  <2> SUFFICES ASSUME NEW j \in queue', NEW k \in queue', SameTurn(j, k), IndexOf(j) < IndexOf(k)
               PROVE  \E i \in queue' : SameTurn(i, j) /\ IndexOf(i) = IndexOf(j) + 1
    BY DEF Contiguous
  <2>1. CASE j \in queue /\ k \in queue
    BY <1>0, <1>1, <2>1 DEF Contiguous
  <2>2. CASE j \in Jobs(b) /\ k \in Jobs(b)
    <3>1. /\ j.of = b /\ k.of = b /\ j.n \in DOMAIN Groups[b] /\ k.n \in DOMAIN Groups[b]
          /\ BrowserOf(b, j.n) = BrowserOf(b, k.n)
      BY <1>4, <2>2 DEF SameTurn, Turn
    <3>2. PICK p \in DOMAIN Groups[b] :
            BrowserOf(b, p) = BrowserOf(b, k.n) /\ Index(b, p) = Index(b, j.n) + 1
      BY <3>1, NextIndex DEF IndexOf
    <3>3. PICK z \in Jobs(b) : z.n = p /\ z.of = b
      BY <1>4
    <3> QED  BY <1>1, <3>1, <3>2, <3>3 DEF SameTurn, Turn, IndexOf
  <2> QED  BY <1>1, <1>3, <1>4, <1>5, <2>1, <2>2
<1>8. InBlocks'
  <2> SUFFICES ASSUME NEW j \in queue', NEW k \in queue'
               PROVE  /\ j.at = k.at => j = k
                      /\ \A i \in queue' : k.of = j.of /\ i.of # j.of => (j.at < i.at <=> k.at < i.at)
    BY DEF InBlocks
  <2>1. j.at = k.at => j = k
    <3>1. CASE j \in queue /\ k \in queue
      BY <1>0, <3>1 DEF InBlocks
    <3>2. CASE j \in Jobs(b) /\ k \in Jobs(b)
      <4>1. /\ j.n = k.n => j = k
            /\ j.n < k.n => j.at < k.at
            /\ k.n < j.n => k.at < j.at
        BY <1>a, <1>2, <3>2, AddedAsAdded
      <4>2. j.n \in Nat /\ k.n \in Nat /\ j.at \in Int /\ k.at \in Int
        <5>1. j.n \in DOMAIN Groups[b] /\ k.n \in DOMAIN Groups[b] /\ j.at \in Int /\ k.at \in Int
          BY <1>4, <3>2
        <5>2. DOMAIN Groups[b] \subseteq Nat
          BY GroupsAreNumbered
        <5> QED  BY <5>1, <5>2
      <4> QED  BY <4>1, <4>2
    <3> QED  BY <1>1, <1>3, <1>4, <3>1, <3>2
  <2>2. ASSUME NEW i \in queue', k.of = j.of, i.of # j.of
        PROVE  j.at < i.at <=> k.at < i.at
    <3>1. CASE j \in queue /\ k \in queue /\ i \in queue
      BY <1>0, <2>2, <3>1 DEF InBlocks
    <3>2. CASE j \in queue /\ k \in queue /\ i \in Jobs(b)
      BY <1>3, <1>4, <3>2
    <3>3. CASE j \in Jobs(b) /\ k \in Jobs(b) /\ i \in queue
      BY <1>3, <1>4, <3>3
    <3> QED  BY <1>1, <1>3, <1>4, <2>2, <3>1, <3>2, <3>3
  <2> QED  BY <2>1, <2>2
<1>9. Abreast'
  <2> SUFFICES ASSUME NEW j \in queue', NEW k \in queue'
               PROVE  \E i \in queue' : SameTurn(i, k) /\ i.priority <= j.priority + 1
    BY DEF Abreast
  <2>1. j.priority \in Nat /\ r <= j.priority
    BY <1>1, <1>3, <1>4
  <2>2. CASE k \in queue
    <3>1. CASE j \in queue
      BY <1>0, <1>1, <2>2, <3>1 DEF Abreast
    <3>2. PICK i \in queue : SameTurn(i, k) /\ i.priority <= r + 1
      BY <1>3, <2>2
    <3>3. i.priority \in Nat
      BY <1>3
    <3> QED  BY <1>1, <1>4, <2>1, <3>2, <3>3
  <2>3. CASE k \in Jobs(b)
    BY <1>1, <1>4, <2>1, <2>3
  <2> QED  BY <1>1, <2>2, <2>3
<1>10. ReadAbreast'
  <2>1. \A c \in Builds : call'[c].pc # "read"
    BY <1>2 DEF OneCall, Open
  <2> QED  BY <2>1 DEF ReadAbreast
<1>11. AheadIsOlder'
  <2> SUFFICES ASSUME NEW j \in queue', NEW k \in queue', j.of # k.of, Turn(j)[2] = Turn(k)[2],
                      \A i \in queue' : SameTurn(i, k) => j.priority < i.priority
               PROVE  k.at < j.at
    BY DEF AheadIsOlder
  <2>1. CASE k \in Jobs(b)
    <3>1. PICK z \in Jobs(b) : SameTurn(z, k) /\ z.priority = r
      BY <1>4, <2>1
    <3>2. j.priority < r
      BY <1>1, <3>1
    <3>3. j.priority \in Nat /\ r <= j.priority
      BY <1>1, <1>3, <1>4
    <3> QED  BY <1>4, <3>2, <3>3
  <2>2. CASE k \in queue /\ j \in queue
    <3>1. \A i \in queue : SameTurn(i, k) => j.priority < i.priority
      BY <1>1
    <3> QED  BY <1>0, <2>2, <3>1 DEF AheadIsOlder
  <2>3. CASE k \in queue /\ j \in Jobs(b)
    BY <1>3, <1>4, <2>3
  <2> QED  BY <1>1, <2>1, <2>2, <2>3
<1>12. PassedOnce'
  <2> SUFFICES ASSUME NEW c \in Builds, NEW k \in queue', Turn(k) \in passed[c], k.of # c, InRange(k),
                      HasWaiting(c, Turn(k)[2])'
               PROVE  \E i \in queue' : Turn(i) = <<c, Turn(k)[2]>> /\ Ahead(i, k)
    BY <1>1 DEF PassedOnce, Turn
  <2>1. call[c].pc = "done" /\ call[k.of].pc = "done"
    <3>1. Turn(k)[1] = k.of
      BY DEF Turn
    <3> QED  BY <1>a, <3>1 DEF OnceAdded
  <2>2. PICK g \in queue' : Turn(g) = <<c, Turn(k)[2]>>
    BY DEF HasWaiting, Turn
  <2>3. g.of = c
    BY <2>2 DEF Turn
  <2>4. k \in queue /\ g \in queue
    BY <1>1, <1>2, <1>4, <2>1, <2>3
  <2>5. HasWaiting(c, Turn(k)[2])
    BY <2>2, <2>4 DEF HasWaiting
  <2> QED  BY <1>0, <1>1, <2>4, <2>5 DEF PassedOnce
<1> QED  BY <1>6, <1>7, <1>8, <1>9, <1>10, <1>11, <1>12 DEF InRounds

LEMMA ReadInRounds ==
  ASSUME TypeInv, policy = "round-robin", OneCall, InRounds, NEW b \in Builds, ReadHead(b)
  PROVE  InRounds'
<1>0. NoneTried /\ Contiguous /\ InBlocks /\ Abreast /\ ReadAbreast /\ AheadIsOlder /\ PassedOnce
      /\ TypeOK
  BY DEF InRounds, TypeInv
<1>1. queue' = queue /\ passed' = passed
  BY DEF ReadHead, jobVars
<1>2. NoneTried' /\ Contiguous' /\ InBlocks' /\ Abreast' /\ AheadIsOlder'
  BY <1>0, <1>1 DEF NoneTried, Contiguous, InBlocks, Abreast, AheadIsOlder
<1>3. PassedOnce'
  BY <1>0, <1>1 DEF PassedOnce, HasWaiting, Turn
<1>4. ReadAbreast'
  <2>1. PICK next \in NextPrioritized : call'[b].base = Base(next, call[b].now)
    BY <1>0, CallFields
  <2>2. call'[b].base = Most(next.priority, 1)
    BY <2>1 DEF Base, CurrentRound
  <2>3. \A c \in Builds \ {b} : call'[c].pc # "read"
    <3>1. Open(b) /\ \A c \in Builds \ {b} : call'[c] = call[c]
      BY <1>0, CallFields DEF Open
    <3> QED  BY <3>1 DEF OneCall, Open
  <2>4. ASSUME NEW j \in queue
        PROVE  /\ call'[b].base <= j.priority
               /\ \E i \in queue : SameTurn(i, j) /\ i.priority <= call'[b].base + 1
    <3>1. next \in queue /\ \A k \in queue : ~Ahead(k, next)
      BY <2>1, <2>4 DEF NextPrioritized, IsNext
    <3>2. next.priority \in Nat /\ next.priority >= 1 /\ j.priority \in Nat
      BY <1>0, <3>1, QueuedFields DEF TypeOK
    <3>3. call'[b].base = next.priority
      BY <2>2, <3>2 DEF Most
    <3>4. next.priority <= j.priority
      BY <3>1, <3>2 DEF Ahead
    <3>5. \E i \in queue : SameTurn(i, j) /\ i.priority <= next.priority + 1
      BY <1>0, <3>1 DEF Abreast
    <3> QED  BY <3>3, <3>4, <3>5
  <2> QED  BY <1>1, <2>3, <2>4 DEF ReadAbreast
<1> QED  BY <1>2, <1>3, <1>4 DEF InRounds

LEMMA InitRounds == Init => RoundInv
BY DEF Init, RoundInv, OneCall, Open, Idle, InRounds, NoneTried, Contiguous, InBlocks, Abreast,
       ReadAbreast, AheadIsOlder, PassedOnce

LEMMA NextRounds ==
  ASSUME TypeInv, RoundInv, [Next]_vars
  PROVE  RoundInv'
<1> SUFFICES ASSUME policy' = "round-robin", ~raced', ~strayed'
             PROVE  OneCall' /\ InRounds'
  BY DEF RoundInv
<1>0. TypeOK /\ OneCall /\ InRounds /\ policy = "round-robin"
  BY HistoryKept DEF TypeInv, RoundInv
<1>1. OneCall'
  BY <1>0, OneCallKept
<1>2. ASSUME NEW h \in queue, TakePrioritized(h) PROVE InRounds'
  <2>1. call' = call /\ \A b \in Builds : call[b].pc # "read"
    BY <1>0, <1>2 DEF TakePrioritized
  <2> QED  BY <1>0, <1>2, <2>1, TakeInRounds
<1>3. ASSUME NEW b \in Builds, Add(b) PROVE InRounds'
  BY <1>0, <1>3, AddInRounds
<1>4. ASSUME NEW b \in Builds, ReadHead(b) PROVE InRounds'
  BY <1>0, <1>4, ReadInRounds
<1>5. ASSUME NEW b \in Builds, CancelJobs(b) PROVE InRounds'
  BY <1>0, <1>5, CancelInRounds
<1>6. CASE /\ queue' = queue /\ passed' = passed
           /\ \A b \in Builds : call'[b] = call[b] \/ call'[b].pc = "begun"
  <2>1. NoneTried' /\ Contiguous' /\ InBlocks' /\ Abreast' /\ AheadIsOlder'
    BY <1>0, <1>6 DEF InRounds, NoneTried, Contiguous, InBlocks, Abreast, AheadIsOlder
  <2>2. PassedOnce'
    BY <1>0, <1>6 DEF InRounds, PassedOnce, HasWaiting, Turn
  <2>3. ReadAbreast'
    BY <1>0, <1>6 DEF InRounds, ReadAbreast
  <2> QED  BY <1>1, <2>1, <2>2, <2>3 DEF InRounds
<1>7. ASSUME NEW b \in Builds, Begin(b) PROVE InRounds'
  <2>1. queue' = queue /\ passed' = passed
    BY <1>7 DEF Begin, jobVars
  <2> QED  BY <1>0, <1>6, <1>7, <2>1, CallFields
<1>8. ASSUME NEW j \in delayed \cup queue, RetryFirst(j) PROVE InRounds'
  <2>1. queue' = queue
    BY <1>0, <1>8 DEF RetryFirst, InRounds, NoneTried
  <2> QED  BY <1>6, <1>8, <2>1 DEF RetryFirst
<1>9. ASSUME NEW j \in delayed, Due(j) PROVE InRounds'
  <2>1. queue' = queue
    BY <1>9 DEF Due
  <2> QED  BY <1>6, <1>9, <2>1 DEF Due
<1>10. CASE UNCHANGED <<queue, passed, call>>
  BY <1>6, <1>10
<1> QED
  BY <1>1, <1>2, <1>3, <1>4, <1>5, <1>7, <1>8, <1>9, <1>10
  DEF Next, QueueStep, vars, jobVars, Tick, TakeWaiting, Finish, Fail, Stall

\* For any number of builds, groups and browsers, whenever the builds are queued, canceled
\* or fail (currentRound, enqueueCaptureGroups).
THEOREM TurnsAreTaken == Spec => TakesTurns
<1>1. TypeInv /\ RoundInv /\ [Next]_vars => InTurn
  <2> SUFFICES ASSUME TypeInv, RoundInv, [Next]_vars, policy = "round-robin", ~raced', ~strayed,
                      NEW k \in queue, TakePrioritized(k), k.priority < Lowest,
                      NEW b \in Builds \ {k.of}, HasWaiting(b, Turn(k)[2]), Turn(k) \in passed[b]
               PROVE  FALSE
    BY DEF InTurn
  <2>1. ~raced
    BY HistoryKept DEF TypeInv
  <2>2. PassedOnce
    BY <2>1 DEF RoundInv, InRounds
  <2>3. \E i \in queue : Ahead(i, k)
    BY <2>2 DEF PassedOnce, InRange
  <2> QED  BY <2>3 DEF TakePrioritized, IsNext
<1> QED  BY <1>1, InitTyped, NextTypeInv, InitRounds, NextRounds, PTL DEF Spec, TakesTurns

-----------------------------------------------------------------------------
(***************************************************************************)
(* The publish of a commit status, for every number of attempts, changes   *)
(* and faults: as long as the git provider has another status than the     *)
(* build's, somebody is still to read the build and send it, unless a      *)
(* call, a job or a late request was lost, or a finalization wrote over a  *)
(* newer status without publishing it.                                     *)
(***************************************************************************)
\* NothingForgotten is inductive with what relates the job to its handler, which works while
\* the job is active, and with what holds of the status it is about to send.
JobOfSender ==
  /\ job.st \in {"none", "waiting", "active"}
  /\ job.st = "active" <=> sender.pc # "idle"
  /\ sender.pc \in {"idle", "read", "send"}
  /\ owed \in Nat

\* A status about to be sent that is no longer the build's is followed by another one.
StaleIsFollowed ==
  sender.pc = "send" => sender.status = BuildMapped \/ owed > 0 \/ job.next \/ lost

StatusInv == JobOfSender /\ StaleIsFollowed /\ NothingForgotten

Job == [st : {"none", "waiting", "active"}, tries : Nat, next : BOOLEAN]

\* The records are what the actions take them for.
Shape == job \in Job /\ sender \in [pc : {"idle", "read", "send"}, status : MappedStatus \cup {Nothing}]

LEMMA JobsAreTyped ==
  /\ NoJob \in Job /\ NewJob \in Job
  /\ NewJob.st = "waiting" /\ NewJob.next = FALSE
  /\ NoJob.st = "none" /\ NoJob.next = FALSE
BY DEF NoJob, NewJob, Job

\* What mapBuildStatus returns is a status.
LEMMA MappedIsTyped == BuildMapped \in MappedStatus
BY DEF BuildMapped, ReviewMapped, MappedStatus, Passed, Failed

LEMMA EndedIsTyped ==
  ASSUME job \in Job
  PROVE  EndedJob \in Job /\ EndedJob.st = IF job.next THEN "waiting" ELSE "none"
BY JobsAreTyped DEF EndedJob, Job

LEMMA PublishedIsTyped ==
  ASSUME job \in Job
  PROVE  /\ PublishedJob \in Job
         /\ PublishedJob.st = IF job.st = "none" THEN "waiting" ELSE job.st
         /\ job.st = "active" => PublishedJob.next
BY JobsAreTyped DEF PublishedJob, Job

\* An ended job leaves somebody to read the build, or nothing is left and it is lost.
LEMMA EndedForgetsNothing ==
  ASSUME Shape, StatusInv, sender.pc # "idle", sender' = IdleSender, job' = EndedJob, owed' = owed,
         lost' = (lost \/ ~StillPublishing)
  PROVE  Shape' /\ JobOfSender' /\ StaleIsFollowed' /\ NothingForgotten'
<1>1. job \in Job
  BY DEF Shape
<1>2. job' \in Job /\ job'.st = IF job.next THEN "waiting" ELSE "none"
  BY <1>1, EndedIsTyped
<1>3. sender'.pc = "idle" /\ sender' \in [pc : {"idle", "read", "send"}, status : MappedStatus \cup {Nothing}]
  BY DEF IdleSender
<1>4. Shape' /\ JobOfSender'
  BY <1>2, <1>3 DEF Shape, StatusInv, JobOfSender
<1>5. StaleIsFollowed' /\ NothingForgotten'
  BY <1>2, <1>3 DEF StatusInv, JobOfSender, NothingForgotten, StaleIsFollowed, StillPublishing
<1> QED  BY <1>4, <1>5

\* What a call writes is published, or lost, or somebody is to read the build anyhow.
LEMMA ResultForgetsNothing ==
  ASSUME Shape, StatusInv, NEW read, NEW result, ResultWritten(read, result)
  PROVE  Shape' /\ StatusInv'
<1>1. UNCHANGED <<job, sender, shown>> /\ owed \in Nat
  BY DEF ResultWritten, publishVars, StatusInv, JobOfSender
<1>2. CASE result # read
  <2>1. owed' = owed + 1
    BY <1>2 DEF ResultWritten
  <2>2. owed' \in Nat /\ owed' > 0
    BY <1>1, <2>1
  <2> QED  BY <1>1, <2>2 DEF Shape, StatusInv, JobOfSender, NothingForgotten, StaleIsFollowed
<1>3. CASE result = read
  <2>1. owed' = owed /\ lost' = (lost \/ (BuildMapped' # BuildMapped /\ ~StillRead))
    BY <1>3 DEF ResultWritten
  <2>2. Shape' /\ JobOfSender'
    BY <1>1, <2>1 DEF Shape, StatusInv, JobOfSender
  <2>3. CASE BuildMapped' = BuildMapped
    BY <1>1, <2>1, <2>2, <2>3 DEF StatusInv, NothingForgotten, StaleIsFollowed
  <2>4. CASE StillRead
    <3>1. sender.pc = "send" => job.st = "active"
      BY DEF StatusInv, JobOfSender
    <3> QED  BY <1>1, <2>1, <2>2, <2>4, <3>1
             DEF StatusInv, NothingForgotten, StaleIsFollowed, StillRead, StillPublishing
  <2>5. CASE BuildMapped' # BuildMapped /\ ~StillRead
    BY <1>1, <2>1, <2>2, <2>5 DEF StatusInv, NothingForgotten, StaleIsFollowed
  <2> QED  BY <2>3, <2>4, <2>5
<1> QED  BY <1>2, <1>3

LEMMA InitForgetsNothing == StatusInit => Shape /\ StatusInv
<1> SUFFICES ASSUME StatusInit PROVE Shape /\ StatusInv
  OBVIOUS
<1>1. sender.pc = "idle" /\ job.st = "none" /\ owed = 1
  BY JobsAreTyped DEF StatusInit, IdleSender
<1>2. Shape
  BY JobsAreTyped DEF StatusInit, Shape, IdleSender
<1> QED  BY <1>1, <1>2 DEF StatusInv, JobOfSender, NothingForgotten, StaleIsFollowed

LEMMA NextForgetsNothing ==
  ASSUME Shape, StatusInv, [StatusNext]_statusVars
  PROVE  Shape' /\ StatusInv'
<1> USE DEF StatusInv, buildVars
<1>0. job \in Job /\ owed \in Nat
  BY DEF Shape, JobOfSender
<1>1. CASE BuildChanges
  <2>1. UNCHANGED <<job, sender, shown, lost>> /\ owed' \in Nat /\ owed' > 0
    BY <1>0, <1>1 DEF BuildChanges, publishVars
  <2> QED  BY <2>1 DEF Shape, JobOfSender, NothingForgotten, StaleIsFollowed
<1>1a. CASE Finalized \/ Voted
  <2>1. PICK read, result : ResultWritten(read, result)
    BY <1>1a DEF Finalized, Voted
  <2> QED  BY <1>0, <2>1, ResultForgetsNothing
<1>2. CASE Publish
  <2>1. PublishedJob \in Job /\ PublishedJob.st # "none" /\ (PublishedJob.st = "active" => PublishedJob.next)
        /\ (PublishedJob.st = "active" <=> job.st = "active")
    BY <1>0, PublishedIsTyped DEF Job
  <2>2. job' = PublishedJob /\ sender' = sender /\ owed' = owed - 1 /\ owed > 0
    BY <1>2 DEF Publish
  <2>3. Shape'
    BY <2>1, <2>2 DEF Shape
  <2>4. JobOfSender'
    BY <1>0, <2>1, <2>2, <2>3 DEF JobOfSender, Shape, Job
  <2>5. StaleIsFollowed' /\ NothingForgotten'
    BY <2>1, <2>2, <2>4 DEF JobOfSender, NothingForgotten, StaleIsFollowed
  <2> QED  BY <2>3, <2>4, <2>5
<1>3. CASE PublishRun
  BY <1>0, <1>3 DEF PublishRun, Shape, Job, JobOfSender, NothingForgotten, StaleIsFollowed
<1>4. CASE PublishRead
  <2>1. sender'.pc = "send" /\ sender'.status = BuildMapped /\ BuildMapped' = BuildMapped
    BY <1>4 DEF PublishRead, BuildMapped, ReviewMapped
  <2>2. Shape' /\ JobOfSender'
    BY <1>4, <2>1, MappedIsTyped DEF PublishRead, Shape, JobOfSender
  <2> QED  BY <2>1, <2>2 DEF NothingForgotten, StaleIsFollowed
<1>5. CASE PublishSent
  <2>1. sender'.pc = "idle" /\ sender' \in [pc : {"idle", "read", "send"}, status : MappedStatus \cup {Nothing}]
    BY <1>5 DEF PublishSent, IdleSender
  <2>2. job' \in Job /\ job'.st = IF job.next THEN "waiting" ELSE "none"
    BY <1>0, <1>5, EndedIsTyped DEF PublishSent
  <2>3. Shape' /\ JobOfSender'
    BY <1>5, <2>1, <2>2 DEF PublishSent, Shape, JobOfSender
  <2>4. StaleIsFollowed'
    BY <2>1 DEF StaleIsFollowed
  <2>5. NothingForgotten'
    <3>1. BuildMapped' = BuildMapped
      BY <1>5 DEF PublishSent, BuildMapped, ReviewMapped
    <3>2. sender.pc = "send" /\ shown' = sender.status /\ owed' = owed /\ job.st = "active"
      BY <1>5 DEF PublishSent, JobOfSender
    <3>3. lost' = (lost /\ sender.status # BuildMapped)
      BY <1>5 DEF PublishSent
    <3>4. CASE sender.status = BuildMapped
      BY <3>1, <3>2, <3>4 DEF NothingForgotten
    <3>5. CASE lost /\ sender.status # BuildMapped
      <4>1. lost'
        BY <3>3, <3>5
      <4> QED  BY <4>1 DEF NothingForgotten
    <3>6. CASE owed > 0 \/ job.next
      BY <2>2, <3>2, <3>6 DEF NothingForgotten
    <3>7. sender.status = BuildMapped \/ owed > 0 \/ job.next \/ lost
      BY <3>2 DEF StaleIsFollowed
    <3> QED  BY <3>4, <3>5, <3>6, <3>7
  <2> QED  BY <2>3, <2>4, <2>5
<1>6. CASE PublishLost
  BY <1>0, <1>6 DEF PublishLost, publishVars, Shape, JobOfSender, NothingForgotten, StaleIsFollowed
<1>7. CASE PublishThrows
  <2>1. sender.pc # "idle" /\ sender' = IdleSender /\ owed' = owed
    BY <1>7 DEF PublishThrows
  <2>2. CASE job.tries + 1 < Attempts
    <3>1. job' = [job EXCEPT !.st = "waiting", !.tries = @ + 1]
      BY <1>7, <2>2 DEF PublishThrows
    <3>2. job' \in Job /\ job'.st = "waiting"
      <4>1. job.tries \in Nat /\ job.tries + 1 \in Nat
        BY <1>0 DEF Job
      <4> QED  BY <1>0, <3>1, <4>1 DEF Job
    <3>3. Shape' /\ JobOfSender'
      BY <1>0, <2>1, <3>2 DEF Shape, JobOfSender, IdleSender
    <3> QED  BY <2>1, <3>2, <3>3 DEF NothingForgotten, StaleIsFollowed, IdleSender
  <2>3. CASE ~(job.tries + 1 < Attempts)
    <3>1. job' = EndedJob /\ lost' = (lost \/ ~StillPublishing)
      BY <1>7, <2>3 DEF PublishThrows
    <3> QED  BY <2>1, <3>1, EndedForgetsNothing
  <2> QED  BY <2>2, <2>3
<1>8. CASE PublishGivesUp
  <2>1. sender.pc # "idle" /\ sender' = IdleSender /\ job' = EndedJob /\ owed' = owed
        /\ lost' = (lost \/ ~StillPublishing)
    BY <1>8 DEF PublishGivesUp
  <2> QED  BY <2>1, EndedForgetsNothing
<1>9. CASE PublishStalls
  <2>1. job' \in Job /\ job'.st = "waiting" /\ sender' = IdleSender /\ owed' = owed
    BY <1>0, <1>9 DEF PublishStalls, Job
  <2>2. Shape' /\ JobOfSender'
    BY <1>0, <2>1 DEF Shape, JobOfSender, IdleSender
  <2> QED  BY <2>1, <2>2 DEF NothingForgotten, StaleIsFollowed, IdleSender
<1>10. CASE StrayArrives
  <2>1. UNCHANGED <<processing, review, owed, job, sender>>
        /\ (\E s \in strays : shown' = s
              /\ lost' = (lost \/ (s # BuildMapped /\ ~StillRead)))
    BY <1>10 DEF StrayArrives, buildVars, publishVars
  <2>2. BuildMapped' = BuildMapped
    BY <2>1 DEF BuildMapped, ReviewMapped
  <2>3. Shape' /\ JobOfSender'
    BY <2>1 DEF Shape, JobOfSender
  <2>4. lost' \/ shown' = BuildMapped \/ StillRead
    BY <2>1
  <2>5. StaleIsFollowed' /\ NothingForgotten'
    BY <2>1, <2>2, <2>4 DEF NothingForgotten, StaleIsFollowed, StillRead, StillPublishing
  <2> QED  BY <2>3, <2>5
<1>11. CASE UNCHANGED statusVars
  <2>1. UNCHANGED <<processing, review, owed, job, sender, shown, lost>>
    BY <1>11 DEF statusVars
  <2>2. BuildMapped' = BuildMapped
    BY <2>1 DEF BuildMapped, ReviewMapped
  <2> QED  BY <2>1, <2>2 DEF Shape, JobOfSender, NothingForgotten, StaleIsFollowed
<1> QED
  BY <1>1, <1>1a, <1>2, <1>3, <1>4, <1>5, <1>6, <1>7, <1>8, <1>9, <1>10, <1>11 DEF StatusNext, Worker

\* However the publishes of a build interleave with its changes, are retried, collapse or
\* fail, a status the provider does not have yet is still to be read and sent, unless it was
\* lost, or a finalization kept it back (publishStatus, enqueuePublishStatus, finalizeBuild,
\* publishBuildStatus).
THEOREM StatusNeverForgotten == StatusSpec => []NothingForgotten
<1>1. Shape /\ StatusInv /\ [StatusNext]_statusVars => (Shape /\ StatusInv)'
  BY NextForgetsNothing
<1>2. StatusInv => NothingForgotten
  BY DEF StatusInv
<1> QED  BY <1>1, <1>2, InitForgetsNothing, PTL DEF StatusSpec

-----------------------------------------------------------------------------
\* What is sent is a status, so that what arrives late is one.
SendsStatus == sender.pc = "send" => sender.status \in MappedStatus

LEMMA StatusTypesKept ==
  ASSUME Shape, Shape', StatusInv, StatusInv', StatusTypeOK, SendsStatus, [StatusNext]_statusVars
  PROVE  StatusTypeOK' /\ SendsStatus'
<1>0. job' \in Job /\ sender' \in [pc : {"idle", "read", "send"}, status : MappedStatus \cup {Nothing}]
      /\ owed' \in Nat
  BY DEF Shape, StatusInv, JobOfSender
<1> USE <1>0, BoundsAssumption DEF StatusTypeOK, SendsStatus, Job, buildVars, publishVars
<1>1. CASE BuildChanges
  <2>1. processing' \in Life!InProgress \cup Life!Settled \cup {"canceled"}
    BY <1>1 DEF BuildChanges, Life!Next, Life!Start, Life!Settle, Life!Cancel, Life!Requeue,
                Life!InProgress, Life!Settled
  <2>2. seen' \subseteq (Life!InProgress \cup Life!Settled) \X ReviewStatus
    BY <1>1, <2>1 DEF BuildChanges, Read
  <2> QED  BY <1>1, <2>1, <2>2 DEF BuildChanges, Changed
<1>1a. CASE Finalized \/ Voted
  <2>1. PICK read, result \in (Life!InProgress \cup Life!Settled) \X ReviewStatus :
             ResultWritten(read, result)
    <3>1. CASE Finalized
      BY <1>1a, <3>1, VerdictsAssumption DEF Finalized
    <3>2. CASE Voted
      <4>1. PICK read \in seen : \E r \in Verdicts \ {read[2]} : ResultWritten(read, <<read[1], r>>)
        BY <3>2 DEF Voted
      <4>2. PICK r \in Verdicts : ResultWritten(read, <<read[1], r>>)
        BY <4>1
      <4>3. read[1] \in Life!InProgress \cup Life!Settled /\ r \in ReviewStatus
        BY VerdictsAssumption
      <4> QED  BY <4>2, <4>3
    <3> QED  BY <1>1a, <3>1, <3>2
  <2>2. result[1] \in Life!InProgress \cup Life!Settled /\ result[2] \in ReviewStatus
    BY <2>1
  <2>3. processing' \in Life!InProgress \cup Life!Settled \cup {"canceled"} /\ review' \in ReviewStatus
    BY <2>1, <2>2 DEF ResultWritten
  <2>4. seen' \subseteq (Life!InProgress \cup Life!Settled) \X ReviewStatus
    BY <2>1, <2>3 DEF ResultWritten, Read
  <2>5. lost' \in BOOLEAN
    <3>1. CASE result # read
      BY <2>1, <3>1 DEF ResultWritten
    <3>2. CASE result = read
      <4>1. lost' = (lost \/ (BuildMapped' # BuildMapped /\ ~StillRead))
        BY <2>1, <3>2 DEF ResultWritten
      <4> QED  BY <4>1
    <3> QED  BY <3>1, <3>2
  <2>6. changes' \in 0..MaxChanges /\ UNCHANGED <<job, sender, strays, shown, faults>>
    BY <2>1 DEF ResultWritten, Changed
  <2> QED  BY <2>3, <2>4, <2>5, <2>6
<1>2. CASE Publish
  BY <1>2 DEF Publish
<1>3. CASE PublishRun
  BY <1>3 DEF PublishRun
<1>4. CASE PublishRead
  BY <1>4, MappedIsTyped DEF PublishRead
<1>5. CASE PublishSent
  <2>1. shown' = sender.status /\ sender.status \in MappedStatus /\ sender'.pc = "idle"
        /\ lost' = (lost /\ sender.status # BuildMapped)
    BY <1>5 DEF PublishSent, IdleSender
  <2> QED  BY <1>5, <2>1 DEF PublishSent
<1>6. CASE PublishLost
  BY <1>6 DEF PublishLost, Faulted
<1>7. CASE PublishThrows
  <2>1. strays' \subseteq MappedStatus /\ sender'.pc = "idle"
    BY <1>7 DEF PublishThrows, IdleSender
  <2>2. lost' \in BOOLEAN
    BY <1>7 DEF PublishThrows
  <2>3. faults' \in 0..MaxFaults
    BY <1>7 DEF PublishThrows, Faulted
  <2> QED  BY <1>7, <2>1, <2>2, <2>3 DEF PublishThrows
<1>8. CASE PublishGivesUp
  BY <1>8 DEF PublishGivesUp, Faulted, IdleSender
<1>9. CASE PublishStalls
  BY <1>9 DEF PublishStalls, Faulted, IdleSender
<1>10. CASE StrayArrives
  <2>1. PICK s \in strays : shown' = s /\ strays' = strays \ {s}
    BY <1>10 DEF StrayArrives
  <2>2. lost' \in BOOLEAN
    BY <1>10 DEF StrayArrives
  <2>3. UNCHANGED <<buildVars, owed, job, sender, changes, faults>>
    BY <1>10 DEF StrayArrives
  <2>4. shown' \in MappedStatus /\ strays' \subseteq MappedStatus
    BY <2>1
  <2> QED  BY <2>2, <2>3, <2>4
<1>11. CASE UNCHANGED statusVars
  BY <1>11 DEF statusVars
<1> QED
  BY <1>1, <1>1a, <1>2, <1>3, <1>4, <1>5, <1>6, <1>7, <1>8, <1>9, <1>10, <1>11 DEF StatusNext, Worker

\* The build, and what calls have read of it, keep to its statuses, its changes and faults to
\* their bounds, and what is sent, arrives late or is shown is a status of mapBuildStatus.
THEOREM StatusTypeCorrect == StatusSpec => []StatusTypeOK
<1>1. StatusInit => StatusTypeOK /\ SendsStatus
  <2> SUFFICES ASSUME StatusInit PROVE StatusTypeOK /\ SendsStatus
    OBVIOUS
  <2>1. Shape
    BY InitForgetsNothing
  <2>2. SendsStatus
    BY DEF StatusInit, IdleSender, SendsStatus
  <2>3. processing \in Life!InProgress /\ review \in ReviewStatus
        /\ seen \subseteq (Life!InProgress \cup Life!Settled) \X ReviewStatus
    BY DEF StatusInit, ReviewStatus, Life!InProgress
  <2>4. owed \in Nat /\ strays = {} /\ shown = Nothing /\ lost = FALSE
        /\ changes \in 0..MaxChanges /\ faults \in 0..MaxFaults
    BY BoundsAssumption DEF StatusInit
  <2> QED  BY <2>1, <2>2, <2>3, <2>4 DEF StatusTypeOK, Shape, Job
<1>2. Shape /\ StatusInv /\ StatusTypeOK /\ SendsStatus /\ [StatusNext]_statusVars
        => (Shape /\ StatusInv /\ StatusTypeOK /\ SendsStatus)'
  BY NextForgetsNothing, StatusTypesKept
<1> QED  BY <1>1, <1>2, InitForgetsNothing, PTL DEF StatusSpec
=============================================================================
