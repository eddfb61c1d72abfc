--------------------------- MODULE BaselinesProofs ---------------------------
(***************************************************************************)
(* Theorems about Baselines, for any number of builds, any images, pinned  *)
(* builds and batch size.                                                  *)
(*                                                                         *)
(* BaselineKept and NoLeakedFiles lean on each other: a build that is      *)
(* promoted has its files because it exists, and the files of the baseline *)
(* are never deleted because only builds that are gone are in the outbox.  *)
(*                                                                         *)
(* CalmBranchSeesItsBase needs to know of every build that exists, not     *)
(* only of the branch's base, what main looked like then and that the      *)
(* first revision after it, if it is still there, says so.                 *)
(***************************************************************************)
EXTENDS Baselines, TLAPS

\* Only files of builds that are gone are listed for deletion.
OutboxGone == \A b \in outbox : status[b] = "gone"

Inv == TypeOK /\ BaselineIsNewest /\ BaselineKept /\ NoLeakedFiles /\ OutboxGone

-----------------------------------------------------------------------------
(* Types *)

LEMMA InitType == Init => TypeOK
  BY NBuildsAssumption DEF Init, TypeOK, NoJob, NoBranch, Builds, Status, Review, NoBuild

JobRecord ==
  [did : {"nothing", "read", "written", "promoted"},
   against : Builds \cup {NoBuild}, review : Review]

LEMMA JobUpdates ==
  ASSUME NEW r \in JobRecord, NEW c \in Builds \cup {NoBuild}, NEW v \in Review
  PROVE  /\ [r EXCEPT !.did = "read", !.against = c] \in JobRecord
         /\ [r EXCEPT !.did = "written", !.review = v] \in JobRecord
         /\ [r EXCEPT !.did = "promoted"] \in JobRecord
  BY DEF JobRecord

LEMMA BuildStepType ==
  ASSUME TypeOK, NEW b \in Builds, MainBuild(b)
  PROVE  TypeOK'
<1>1. ASSUME NEW img \in Images \cup {NoImage}, Create(b, img) PROVE TypeOK'
  <2>1. status' \in [Builds -> Status]
    BY <1>1 DEF Create, TypeOK, Status
  <2> QED BY <2>1, <1>1 DEF Create, TypeOK
<1>2. CASE Cancel(b) \/ FinishWithout(b)
  BY <1>2 DEF Cancel, FinishWithout, TypeOK, purgeVars, Status
<1>3. CASE DiffRead(b)
  <2> DEFINE new == [job[b] EXCEPT !.did = "read", !.against = baseline]
  <2>a. job[b] \in JobRecord
    BY DEF TypeOK, JobRecord
  <2>b. baseline \in Builds \cup {NoBuild} /\ "none" \in Review
    BY DEF TypeOK, Review
  <2>1. new \in JobRecord
    BY <2>a, <2>b, JobUpdates
  <2>2. job' = [job EXCEPT ![b] = new]
    BY <1>3 DEF DiffRead
  <2> HIDE DEF new
  <2>3. job' \in [Builds -> JobRecord]
    BY <2>1, <2>2 DEF TypeOK, JobRecord
  <2> QED BY <2>3, <1>3 DEF DiffRead, TypeOK, JobRecord, purgeVars
<1>4. CASE DiffWrite(b)
  <2> DEFINE new == [job[b] EXCEPT !.did = "written",
                                   !.review = IF Changed(b) THEN "auto_approved" ELSE "unchanged"]
  <2>a. job[b] \in JobRecord
    BY DEF TypeOK, JobRecord
  <2>b. (IF Changed(b) THEN "auto_approved" ELSE "unchanged") \in Review
    BY DEF Review
  <2>c. NoBuild \in Builds \cup {NoBuild}
    OBVIOUS
  <2>1. new \in JobRecord
    BY <2>a, <2>b, <2>c, JobUpdates
  <2>2. job' = [job EXCEPT ![b] = new]
    BY <1>4 DEF DiffWrite
  <2> HIDE DEF new
  <2>3. job' \in [Builds -> JobRecord]
    BY <2>1, <2>2 DEF TypeOK, JobRecord
  <2> QED BY <2>3, <1>4 DEF DiffWrite, TypeOK, JobRecord, purgeVars
<1>5. CASE Promote(b)
  <2>a. job[b].against \in Builds \cup {NoBuild}
    BY DEF TypeOK
  <2>b. [build |-> b, previous |-> job[b].against,
         replacedExisting |-> job[b].against # NoBuild] \in Revision
    BY <2>a DEF Revision
  <2>1. revisions' \subseteq Revision
    BY <2>b, <1>5 DEF Promote, TypeOK
  <2>2. job' \in [Builds -> [did : {"nothing", "read", "written", "promoted"},
                             against : Builds \cup {NoBuild}, review : Review]]
    <3> DEFINE new == [job[b] EXCEPT !.did = "promoted"]
    <3>a. job[b] \in JobRecord
      BY DEF TypeOK, JobRecord
    <3>b. NoBuild \in Builds \cup {NoBuild} /\ "none" \in Review
      BY DEF Review
    <3>1. new \in JobRecord
      BY <3>a, <3>b, JobUpdates
    <3>2. job' = [job EXCEPT ![b] = new]
      BY <1>5 DEF Promote
    <3> HIDE DEF new
    <3> QED BY <3>1, <3>2 DEF TypeOK, JobRecord
  <2>3. calm' \in BOOLEAN
    BY <1>5 DEF Promote
  <2> QED BY <2>1, <2>2, <2>3, <1>5 DEF Promote, TypeOK, purgeVars
<1>6. CASE DiffDone(b)
  BY <1>6 DEF DiffDone, TypeOK, purgeVars, Status, NoJob, NoBuild, Review
<1>7. CASE DiffThrows(b)
  BY <1>7 DEF DiffThrows, TypeOK, purgeVars, Status, NoJob, NoBuild, Review
<1> QED BY <1>1, <1>2, <1>3, <1>4, <1>5, <1>6, <1>7 DEF MainBuild

LEMMA PurgeStepType ==
  ASSUME TypeOK, Purge
  PROVE  TypeOK'
<1>1. CASE TimePasses
  BY <1>1, NBuildsAssumption DEF TimePasses, TypeOK, mainVars
<1>2. CASE PurgeFind
  BY <1>2, NBuildsAssumption DEF PurgeFind, TypeOK, mainVars, Expired, Builds
<1>3. CASE PurgeTx
  <2>1. status' \in [Builds -> Status]
    BY <1>3 DEF PurgeTx, TypeOK, Status
  <2>2. job' \in [Builds -> [did : {"nothing", "read", "written", "promoted"},
                             against : Builds \cup {NoBuild}, review : Review]]
    BY <1>3 DEF PurgeTx, TypeOK
  <2>3. revisions' \subseteq Revision
    BY <1>3 DEF PurgeTx, TypeOK, Revision
  <2>4. calm' \in BOOLEAN
    BY <1>3 DEF PurgeTx
  <2> QED BY <2>1, <2>2, <2>3, <2>4, <1>3 DEF PurgeTx, TypeOK
<1>4. CASE PurgeEnds
  BY <1>4 DEF PurgeEnds, TypeOK, mainVars
<1>5. ASSUME NEW b \in Builds, DeleteFiles(b) \/ ForgetPrefix(b) PROVE TypeOK'
  BY <1>5 DEF DeleteFiles, ForgetPrefix, TypeOK, mainVars
<1> QED BY <1>1, <1>2, <1>3, <1>4, <1>5 DEF Purge

LEMMA BranchStepType ==
  ASSUME TypeOK, Branch
  PROVE  TypeOK'
<1>1. ASSUME NEW b \in Builds, BranchStart(b) PROVE TypeOK'
  BY <1>1 DEF BranchStart, TypeOK, mainVars, purgeVars
<1>2. CASE BranchReadLatest
  BY <1>2 DEF BranchReadLatest, TypeOK, mainVars, purgeVars
<1>3. CASE BranchReadRevision
  BY <1>3 DEF BranchReadRevision, FirstAfter, TypeOK, mainVars, purgeVars
<1>4. CASE BranchCompare
  BY <1>4 DEF BranchCompare, NoBranch, TypeOK, mainVars, purgeVars
<1> QED BY <1>1, <1>2, <1>3, <1>4 DEF Branch

-----------------------------------------------------------------------------
(* The baseline and the files *)

LEMMA InitInv == Init => Inv
  BY InitType DEF Init, Inv, BaselineIsNewest, BaselineKept, NoLeakedFiles, OutboxGone, Exists

LEMMA BuildStepInv ==
  ASSUME Inv, NEW b \in Builds, MainBuild(b)
  PROVE  Inv'
<1>1. TypeOK'
  BY BuildStepType DEF Inv
<1> USE DEF Inv, TypeOK, BaselineIsNewest, BaselineKept, NoLeakedFiles, OutboxGone, Exists
<1>2. ASSUME NEW img \in Images \cup {NoImage}, Create(b, img) PROVE Inv'
  <2>1. \A c \in Builds : /\ Exists(c)' <=> (c = b \/ Exists(c))
                          /\ status'[c] = "gone" <=> status[c] = "gone"
    BY <1>2 DEF Create
  <2>2. b \notin outbox
    BY <1>2 DEF Create
  <2> QED BY <1>1, <1>2, <2>1, <2>2 DEF Create
<1>3. CASE Cancel(b) \/ FinishWithout(b)
  BY <1>1, <1>3 DEF Cancel, FinishWithout, purgeVars
<1>4. CASE DiffRead(b) \/ DiffWrite(b)
  BY <1>1, <1>4 DEF DiffRead, DiffWrite, purgeVars
<1>5. CASE Promote(b)
  <2>1. BaselineIsNewest'
    <3>1. CASE NotOlder(b)
      BY <1>5, <3>1, NBuildsAssumption DEF Promote, NotOlder, Builds, NoBuild
    <3>2. CASE ~NotOlder(b)
      BY <1>5, <3>2, NBuildsAssumption DEF Promote, NotOlder, Builds, NoBuild
    <3> QED BY <3>1, <3>2
  <2>2. BaselineKept'
    BY <1>5 DEF Promote, purgeVars
  <2>3. NoLeakedFiles' /\ OutboxGone'
    BY <1>5 DEF Promote, purgeVars
  <2> QED BY <1>1, <2>1, <2>2, <2>3
<1>6. CASE DiffDone(b)
  BY <1>1, <1>6 DEF DiffDone, purgeVars
<1>7. CASE DiffThrows(b)
  BY <1>1, <1>7 DEF DiffThrows, purgeVars
<1> QED BY <1>2, <1>3, <1>4, <1>5, <1>6, <1>7 DEF MainBuild

LEMMA PurgeStepInv ==
  ASSUME Inv, Purge
  PROVE  Inv'
<1>1. TypeOK'
  BY PurgeStepType DEF Inv
<1> USE DEF Inv, TypeOK, BaselineIsNewest, BaselineKept, NoLeakedFiles, OutboxGone, Exists
<1>2. CASE TimePasses \/ PurgeFind \/ PurgeEnds
  BY <1>1, <1>2 DEF TimePasses, PurgeFind, PurgeEnds, mainVars
<1>3. CASE PurgeTx
  <2>1. \A c \in Builds : status'[c] = IF c \in page THEN "gone" ELSE status[c]
    BY <1>3 DEF PurgeTx
  <2>2. BaselineKept'
    BY <1>3, <2>1 DEF PurgeTx, Removable
  <2>3. NoLeakedFiles' /\ OutboxGone'
    BY <1>3, <2>1 DEF PurgeTx
  <2> QED BY <1>1, <1>3, <2>2, <2>3 DEF PurgeTx
<1>4. ASSUME NEW b \in Builds, DeleteFiles(b) PROVE Inv'
  <2>1. status[b] = "gone" /\ baseline # b
    BY <1>4 DEF DeleteFiles, NoBuild, Builds
  <2> QED BY <1>1, <1>4, <2>1 DEF DeleteFiles, mainVars
<1>5. ASSUME NEW b \in Builds, ForgetPrefix(b) PROVE Inv'
  BY <1>1, <1>5 DEF ForgetPrefix, mainVars
<1> QED BY <1>2, <1>3, <1>4, <1>5 DEF Purge

LEMMA BranchStepInv ==
  ASSUME Inv, Branch
  PROVE  Inv'
<1>1. TypeOK'
  BY BranchStepType DEF Inv
<1>2. UNCHANGED <<mainVars, purgeVars>>
  BY DEF Branch, BranchStart, BranchReadLatest, BranchReadRevision, BranchCompare
<1> QED BY <1>1, <1>2 DEF Inv, BaselineIsNewest, BaselineKept, NoLeakedFiles, OutboxGone,
                          Exists, mainVars, purgeVars

LEMMA InvHolds == Spec => []Inv
<1>1. Inv /\ [Next]_vars => Inv'
  <2> SUFFICES ASSUME Inv, [Next]_vars PROVE Inv'
    OBVIOUS
  <2>1. CASE UNCHANGED vars
    BY <2>1 DEF vars, mainVars, purgeVars, Inv, TypeOK, BaselineIsNewest, BaselineKept,
                NoLeakedFiles, OutboxGone, Exists
  <2> QED BY <2>1, BuildStepInv, PurgeStepInv, BranchStepInv DEF Next
<1> QED BY InitInv, <1>1, PTL DEF Spec

\* In whatever order main builds finish, are retried, superseded or purged, the baseline is
\* that of the newest build whose promotion has run.
THEOREM BaselineAlwaysNewest == Spec => []BaselineIsNewest
  BY InvHolds, PTL DEF Inv

\* The purge never takes away the build that holds the baseline, nor its files.
THEOREM BaselineAlwaysKept == Spec => []BaselineKept
  BY InvHolds, PTL DEF Inv

\* A build that exists has its files, and files that are left over are in the outbox.
THEOREM FilesNeverLeaked == Spec => []NoLeakedFiles
  BY InvHolds, PTL DEF Inv

-----------------------------------------------------------------------------
(* What a branch is compared with *)

\* Builds are created in the order of their numbers.
InOrder ==
  \A b \in Builds : status[b] # "absent" => \A c \in Builds : c < b => status[c] # "absent"

\* What was promoted, is being compared or is past retention has been created.
Looked ==
  \A b \in Builds : b \in promoted \/ job[b].did # "nothing" \/ b \in page => status[b] # "absent"

\* What a diff or a revision refers to has held the baseline.
Known ==
  /\ \A b \in Builds : job[b].against \in promoted \cup {NoBuild}
  /\ \A r \in revisions : /\ r.build \in promoted
                          /\ r.previous \in promoted \cup {NoBuild}
                          /\ r.previous # NoBuild => r.replacedExisting

LastOne(b) == \A c \in promoted : c <= b

\* As long as no newer build has been promoted, a diff is against the baseline.
JobsFit ==
  \A b \in Builds :
    /\ job[b].did = "nothing" => job[b] = NoJob
    /\ job[b].did \in {"read", "written"} /\ LastOne(b) => job[b].against = baseline
    /\ job[b].did = "written" /\ LastOne(b)
         => job[b].review = IF Changed(b) THEN "auto_approved" ELSE "unchanged"

MainKnown == \A e \in Builds : MainAsOf(e) \in promoted \cup {NoBuild}

\* Main looks the same from a build on until the next revision.
SameUntilChanged ==
  \A e \in Builds, q \in promoted :
    Exists(e) /\ q > e /\ (\A r \in revisions : ~(e < r.build /\ r.build <= q))
      => image[q] = ImageOf(MainAsOf(e))

\* The first revision after a build replaced what main looked like then.
PreviousSame ==
  \A e \in Builds, r \in revisions :
    Exists(e) /\ r \in FirstAfter(e)
      => \/ r.replacedExisting /\ r.previous = NoBuild
         \/ ImageOf(r.previous) = ImageOf(MainAsOf(e))

\* Of the revisions after a build one is the first.
HasFirst ==
  \A e \in Builds : Exists(e) /\ (\E r \in revisions : r.build > e) => FirstAfter(e) # {}

Story == MainKnown /\ SameUntilChanged /\ PreviousSame /\ HasFirst

\* While the branch is compared, nothing it has read has changed.
BranchFits ==
  \/ branch = NoBranch
  \/ /\ branch.base \in Builds /\ Exists(branch.base)
     /\ branch.latest \subseteq {baseline}
     /\ branch.revision \subseteq {FirstAfter(branch.base)}

ViewInv ==
  /\ Inv /\ InOrder /\ Looked /\ Known
  /\ calm => JobsFit /\ Story /\ BranchFits

LEMMA InitView == Init => ViewInv
<1> SUFFICES ASSUME Init PROVE ViewInv
  OBVIOUS
<1> USE DEF Init
<1>1. Inv
  BY InitInv
<1>2. InOrder /\ Looked /\ Known /\ JobsFit /\ BranchFits
  BY DEF InOrder, Looked, Known, JobsFit, BranchFits, NoJob
<1>3. MainKnown
  BY DEF MainKnown, MainAsOf
<1>4. SameUntilChanged /\ PreviousSame /\ HasFirst
  BY DEF SameUntilChanged, PreviousSame, HasFirst
<1> QED BY <1>1, <1>2, <1>3, <1>4 DEF ViewInv, Story

LEMMA StoryStays ==
  ASSUME Story, UNCHANGED <<image, promoted, revisions>>,
         \A e \in Builds : Exists(e)' => Exists(e)
  PROVE  Story'
<1>1. \A e : MainAsOf(e)' = MainAsOf(e) /\ FirstAfter(e)' = FirstAfter(e)
  BY DEF MainAsOf, FirstAfter
<1>2. \A c : ImageOf(c)' = ImageOf(c)
  BY DEF ImageOf
<1>3. MainKnown'
  BY <1>1 DEF Story, MainKnown
<1>4. SameUntilChanged'
  BY <1>1, <1>2 DEF Story, SameUntilChanged
<1>5. PreviousSame'
  BY <1>1, <1>2 DEF Story, PreviousSame
<1>6. HasFirst'
  BY <1>1 DEF Story, HasFirst
<1> QED BY <1>3, <1>4, <1>5, <1>6 DEF Story

LEMMA CreateView ==
  ASSUME ViewInv, NEW b \in Builds, NEW img, Create(b, img), Inv'
  PROVE  ViewInv'
<1> USE DEF Create
<1>t. TypeOK /\ BaselineIsNewest /\ InOrder /\ Looked /\ Known
  BY DEF ViewInv, Inv
<1>p. (\A c \in promoted : c \in Nat) /\ \A c \in Builds : c \in Nat
  BY <1>t, NBuildsAssumption DEF TypeOK, Builds
<1>1. \A c \in promoted : c < b
  BY <1>t, NBuildsAssumption DEF TypeOK, Looked, InOrder, Builds
<1>2. \A c \in Builds : status'[c] = IF c = b THEN "running" ELSE status[c]
  BY <1>t DEF TypeOK
<1>3. InOrder'
  BY <1>t, <1>2, NBuildsAssumption DEF InOrder, Builds
<1>4. Looked' /\ Known'
  BY <1>t, <1>2 DEF Looked, Known
<1>5. ASSUME calm PROVE JobsFit' /\ Story' /\ BranchFits'
  <2>1. JobsFit /\ Story /\ BranchFits
    BY <1>5 DEF ViewInv
  <2>2. \A c \in promoted \cup {NoBuild} : c # b /\ image'[c] = image[c]
                                           /\ ImageOf(c)' = ImageOf(c)
    BY <1>1, <1>t, NBuildsAssumption DEF TypeOK, ImageOf, Builds, NoBuild
  <2>3. \A e : MainAsOf(e)' = MainAsOf(e) /\ FirstAfter(e)' = FirstAfter(e)
    BY DEF MainAsOf, FirstAfter
  <2>4. \A e \in Builds : Exists(e)' => e = b \/ Exists(e)
    BY <1>2 DEF Exists
  <2>5. JobsFit'
    <3> SUFFICES ASSUME NEW c \in Builds
                 PROVE  /\ job[c].did = "nothing" => job[c] = NoJob
                        /\ job[c].did \in {"read", "written"} /\ LastOne(c)
                             => job[c].against = baseline
                        /\ job[c].did = "written" /\ LastOne(c)
                             => job[c].review = IF Changed(c)' THEN "auto_approved"
                                                ELSE "unchanged"
      BY DEF JobsFit, LastOne
    <3>1. job[c].did # "nothing" => c # b
      BY <1>t DEF Looked
    <3>2. job[c].did # "nothing" => Changed(c)' = Changed(c)
      BY <3>1, <2>2, <1>t DEF Changed, Known, TypeOK
    <3> QED BY <3>2, <2>1 DEF JobsFit
  <2>6. MainKnown'
    BY <2>1, <2>3 DEF Story, MainKnown
  <2>7. SameUntilChanged'
    <3> SUFFICES ASSUME NEW e \in Builds, NEW q \in promoted, Exists(e)', q > e,
                        \A r \in revisions : ~(e < r.build /\ r.build <= q)
                 PROVE  image'[q] = ImageOf(MainAsOf(e))'
      BY DEF SameUntilChanged
    <3>1. e # b
      BY <1>1, <1>t, NBuildsAssumption DEF TypeOK, Builds
    <3>2. image[q] = ImageOf(MainAsOf(e))
      BY <3>1, <2>4, <2>1 DEF Story, SameUntilChanged
    <3>3. MainAsOf(e) \in promoted \cup {NoBuild}
      BY <2>1 DEF Story, MainKnown
    <3> QED BY <3>2, <3>3, <2>2, <2>3 DEF ImageOf
  <2>8. PreviousSame'
    <3> SUFFICES ASSUME NEW e \in Builds, NEW r \in revisions, Exists(e)', r \in FirstAfter(e)
                 PROVE  \/ r.replacedExisting /\ r.previous = NoBuild
                        \/ ImageOf(r.previous)' = ImageOf(MainAsOf(e))'
      BY <2>3 DEF PreviousSame
    <3>0. r.build \in promoted /\ r.build > e
      BY <1>t DEF Known, FirstAfter
    <3>1. e # b
      BY <3>0, <1>1, <1>p
    <3>2. \/ r.replacedExisting /\ r.previous = NoBuild
          \/ ImageOf(r.previous) = ImageOf(MainAsOf(e))
      BY <3>1, <2>4, <2>1 DEF Story, PreviousSame
    <3>3. MainAsOf(e) \in promoted \cup {NoBuild} /\ r.previous \in promoted \cup {NoBuild}
      BY <2>1, <1>t DEF Story, MainKnown, Known
    <3> QED BY <3>2, <3>3, <2>2, <2>3 DEF ImageOf
  <2>9. HasFirst'
    <3> SUFFICES ASSUME NEW e \in Builds, Exists(e)', NEW r \in revisions, r.build > e
                 PROVE  FirstAfter(e) # {}
      BY <2>3 DEF HasFirst
    <3>1. e # b
      <4>1. r.build \in promoted
        BY <1>t DEF Known
      <4> QED BY <4>1, <1>1, <1>p
    <3> QED BY <3>1, <2>4, <2>1 DEF Story, HasFirst
  <2>10. BranchFits'
    BY <2>1, <2>3, <1>2 DEF BranchFits, Exists
  <2> QED BY <2>5, <2>6, <2>7, <2>8, <2>9, <2>10 DEF Story
<1> QED BY <1>3, <1>4, <1>5 DEF ViewInv

\* A build is promoted in its turn: what main looked like before it is what it replaces.
LEMMA PromoteView ==
  ASSUME ViewInv, NEW b \in Builds, Promote(b), Inv'
  PROVE  ViewInv'
<1> USE DEF Promote
<1>t. TypeOK /\ BaselineIsNewest /\ InOrder /\ Looked /\ Known
  BY DEF ViewInv, Inv
<1>p. (\A c \in promoted : c \in Nat) /\ \A c \in Builds : c \in Nat
  BY <1>t, NBuildsAssumption DEF TypeOK, Builds
<1>a. job[b] \in JobRecord
  BY <1>t DEF TypeOK, JobRecord
<1>j. \A c \in Builds : c # b => job'[c] = job[c]
  BY <1>t DEF TypeOK
<1>k. job'[b] = [job[b] EXCEPT !.did = "promoted"]
  BY <1>t DEF TypeOK
<1>l. job'[b].did = "promoted" /\ job'[b].against = job[b].against
  BY <1>k, <1>a DEF JobRecord
<1>1. InOrder'
  BY <1>t DEF InOrder
<1>2. Looked'
  BY <1>t, <1>j DEF Looked, purgeVars
<1>3. Known'
  <2>1. \A c \in Builds : job'[c].against \in promoted' \cup {NoBuild}
    BY <1>t, <1>j, <1>l DEF Known
  <2>2. \A r \in revisions' : \/ r \in revisions
                              \/ r = [build |-> b, previous |-> job[b].against,
                                      replacedExisting |-> job[b].against # NoBuild]
    OBVIOUS
  <2>3. \A r \in revisions' : /\ r.build \in promoted'
                              /\ r.previous \in promoted' \cup {NoBuild}
                              /\ r.previous # NoBuild => r.replacedExisting
    <3> TAKE r \in revisions'
    <3>1. CASE r \in revisions
      BY <3>1, <1>t DEF Known
    <3>2. CASE r = [build |-> b, previous |-> job[b].against,
                    replacedExisting |-> job[b].against # NoBuild]
      <4>1. job[b].against \in promoted \cup {NoBuild}
        BY <1>t DEF Known
      <4> HIDE DEF Promote
      <4>2. promoted' = promoted \cup {b}
        BY DEF Promote
      <4> QED BY <3>2, <4>1, <4>2
    <3> QED BY <2>2, <3>1, <3>2
  <2> QED BY <2>1, <2>3 DEF Known
<1>4. ASSUME calm' PROVE JobsFit' /\ Story' /\ BranchFits'
  <2>1. calm /\ branch = NoBranch /\ \A c \in Builds : c > b => ~Begun(c)
    BY <1>4
  <2>2. JobsFit /\ Story
    BY <2>1 DEF ViewInv
  <2>s. MainKnown /\ SameUntilChanged /\ PreviousSame /\ HasFirst
    BY <2>2 DEF Story
  <2>3. \A c \in promoted' : c <= b
    BY <2>1, <1>t, NBuildsAssumption DEF Begun, TypeOK, Builds
  <2>4. LastOne(b)
    BY <2>3 DEF LastOne
  <2>5. job[b].against = baseline /\ baseline \in promoted \cup {NoBuild}
        /\ \A c \in promoted : c <= baseline
    BY <2>2, <2>4, <1>t DEF JobsFit, BaselineIsNewest
  <2>6. job[b].review = IF Changed(b) THEN "auto_approved" ELSE "unchanged"
    BY <2>2, <2>4 DEF JobsFit
  <2>7. baseline = NoBuild \/ baseline <= b
    BY <2>5, <2>4 DEF LastOne
  <2>8. baseline' = b
    BY <2>7 DEF NotOlder
  <2> DEFINE new == [build |-> b, previous |-> baseline,
                     replacedExisting |-> baseline # NoBuild]
  <2>9. revisions' = IF Changed(b) THEN revisions \cup {new} ELSE revisions
    BY <2>5, <2>6, <2>7 DEF NotOlder
  <2>n. new.build = b /\ new.previous = baseline /\ new.replacedExisting = (baseline # NoBuild)
    OBVIOUS
  <2> HIDE DEF new
  <2>10. Changed(b) <=> (baseline = NoBuild \/ image[baseline] # image[b])
    BY <2>5 DEF Changed
  <2>11. \A c : ImageOf(c)' = ImageOf(c)
    BY DEF ImageOf
  <2>12. \A r \in revisions : r.build \in promoted /\ r.build \in Builds /\ r.build <= b
    BY <1>t, <2>4 DEF Known, TypeOK, LastOne
  <2>13. \A e \in Builds : e < b => MainAsOf(e)' = MainAsOf(e)
    <3> TAKE e \in Builds
    <3> HAVE e < b
    <3>0. ~(b <= e) /\ promoted' = promoted \cup {b}
      BY <1>p
    <3>1. {c \in promoted' : c <= e} = {c \in promoted : c <= e}
      BY <3>0
    <3> DEFINE old == {c \in promoted : c <= e}
               new1 == {c \in promoted' : c <= e}
    <3>2. MainAsOf(e) = IF old = {} THEN NoBuild ELSE CHOOSE c \in old : \A d \in old : d <= c
      BY DEF MainAsOf
    <3>3. MainAsOf(e)' = IF new1 = {} THEN NoBuild
                         ELSE CHOOSE c \in new1 : \A d \in new1 : d <= c
      BY DEF MainAsOf
    <3>4. new1 = old
      BY <3>1
    <3> HIDE DEF old, new1
    <3> QED BY <3>2, <3>3, <3>4
  <2>14. \A e \in Builds : b <= e => MainAsOf(e)' = b
    <3> TAKE e \in Builds
    <3> HAVE b <= e
    <3> DEFINE before == {c \in promoted' : c <= e}
    <3>1. b \in before /\ \A d \in before : d <= b
      BY <2>3
    <3>2. \A c \in before : (\A d \in before : d <= c) => c = b
      BY <3>1, <1>t, NBuildsAssumption DEF TypeOK, Builds
    <3>3. MainAsOf(e)' = IF before = {} THEN NoBuild
                         ELSE CHOOSE c \in before : \A d \in before : d <= c
      BY DEF MainAsOf
    <3> HIDE DEF before
    <3> QED BY <3>1, <3>2, <3>3
  \* What main looked like at a build no newer one has followed is the baseline.
  <2>15. \A e \in Builds : baseline <= e /\ baseline # NoBuild => MainAsOf(e) = baseline
    <3> TAKE e \in Builds
    <3> HAVE baseline <= e /\ baseline # NoBuild
    <3> DEFINE before == {c \in promoted : c <= e}
    <3>1. baseline \in before /\ \A d \in before : d <= baseline
      BY <2>5
    <3>2. \A c \in before : (\A d \in before : d <= c) => c = baseline
      BY <3>1, <1>t, NBuildsAssumption DEF TypeOK, Builds
    <3>3. MainAsOf(e) = IF before = {} THEN NoBuild
                        ELSE CHOOSE c \in before : \A d \in before : d <= c
      BY DEF MainAsOf
    <3> HIDE DEF before
    <3> QED BY <3>1, <3>2, <3>3
  <2>16. baseline = NoBuild => \A e \in Builds : MainAsOf(e) = NoBuild
    BY <1>t DEF BaselineIsNewest, MainAsOf
  <2>17. BranchFits'
    BY <2>1 DEF BranchFits
  <2>18. JobsFit'
    <3> SUFFICES ASSUME NEW c \in Builds
                 PROVE  /\ job'[c].did = "nothing" => job'[c] = NoJob
                        /\ ~LastOne(c)' \/ job'[c].did \notin {"read", "written"}
      BY DEF JobsFit
    <3>1. CASE c = b
      BY <3>1, <1>l
    <3>2. CASE c < b
      <4>1. ~LastOne(c)'
        BY <3>2, <1>p DEF LastOne
      <4>2. job'[c] = job[c]
        BY <3>2, <1>j, <1>p
      <4> QED BY <4>1, <4>2, <2>2 DEF JobsFit
    <3>3. CASE c > b
      BY <3>3, <2>1, <1>j, <1>p DEF Begun, NoJob
    <3> QED BY <3>1, <3>2, <3>3, <1>p
  <2>19. CASE b \in promoted
    <3>1. baseline = b
      BY <2>19, <2>7, <2>5, <1>t, NBuildsAssumption DEF TypeOK, Builds, NoBuild
    <3>2. ~Changed(b)
      BY <3>1, <2>10, NBuildsAssumption DEF NoBuild, Builds
    <3>3. UNCHANGED <<image, promoted, revisions>> /\ \A e : Exists(e)' = Exists(e)
      BY <3>2, <2>9, <2>19 DEF Exists
    <3> QED BY <3>3, <2>2, <2>17, <2>18, StoryStays
  <2>20. CASE b \notin promoted
    <3>1. \A r \in revisions : r.build < b
      BY <2>20, <2>12, <1>p
    <3>2. baseline < b
      BY <2>20, <2>5, <2>7, <1>p, NBuildsAssumption DEF NoBuild, Builds
    \* Without a revision since, the baseline looks like main did at an older build.
    <3>3. ASSUME NEW e \in Builds, Exists(e), e < b, \A r \in revisions : ~(e < r.build)
          PROVE  ImageOf(baseline) = ImageOf(MainAsOf(e))
      <4>1. CASE baseline = NoBuild
        BY <4>1, <2>16
      <4>2. CASE baseline # NoBuild /\ baseline <= e
        BY <3>3, <4>2, <2>15
      <4>3. CASE baseline # NoBuild /\ ~(baseline <= e)
        <5>1. baseline \in promoted /\ baseline > e
          BY <4>3, <2>5, <1>p
        <5>2. image[baseline] = ImageOf(MainAsOf(e))
          BY <5>1, <3>3, <2>s DEF SameUntilChanged
        <5> QED BY <5>2, <4>3 DEF ImageOf
      <4> QED BY <4>1, <4>2, <4>3
    <3>4. \A e : Exists(e)' = Exists(e)
      BY DEF Exists
    <3>5. MainKnown'
      <4> SUFFICES ASSUME NEW e \in Builds PROVE MainAsOf(e)' \in promoted' \cup {NoBuild}
        BY DEF MainKnown
      <4>1. CASE e < b
        BY <4>1, <2>13, <2>s DEF MainKnown
      <4>2. CASE b <= e
        BY <4>2, <2>14
      <4> QED BY <4>1, <4>2, <1>p
    <3>6. SameUntilChanged'
      <4> SUFFICES ASSUME NEW e \in Builds, NEW q \in promoted', Exists(e), q > e,
                          \A r \in revisions' : ~(e < r.build /\ r.build <= q)
                   PROVE  image[q] = ImageOf(MainAsOf(e)')
        BY <3>4 DEF SameUntilChanged, ImageOf
      <4>0. e < b /\ MainAsOf(e)' = MainAsOf(e)
        BY <2>3, <2>13, <1>p
      <4>1. \A r \in revisions : r \in revisions'
        BY <2>9
      <4>2. CASE q \in promoted
        BY <4>0, <4>1, <4>2, <2>s DEF SameUntilChanged
      <4>3. CASE q = b
        <5>1. ~Changed(b)
          BY <4>3, <2>9, <2>n, <4>0, <1>p
        <5>2. baseline # NoBuild /\ image[b] = image[baseline]
          BY <5>1, <2>10
        <5>3. \A r \in revisions : ~(e < r.build)
          BY <4>1, <4>3, <2>12
        <5> QED BY <5>2, <5>3, <3>3, <4>0, <4>3 DEF ImageOf
      <4> QED BY <4>2, <4>3
    <3>7. PreviousSame'
      <4> SUFFICES ASSUME NEW e \in Builds, NEW r \in revisions', Exists(e), r \in FirstAfter(e)'
                   PROVE  \/ r.replacedExisting /\ r.previous = NoBuild
                          \/ ImageOf(r.previous) = ImageOf(MainAsOf(e)')
        BY <3>4, <2>11 DEF PreviousSame, ImageOf
      <4>1. r.build > e /\ \A q \in revisions' : q.build > e => r.build <= q.build
        BY DEF FirstAfter
      <4>2. \A q \in revisions : q \in revisions'
        BY <2>9
      <4>3. CASE r \in revisions
        <5>1. r \in FirstAfter(e)
          BY <4>1, <4>2, <4>3 DEF FirstAfter
        <5>2. e < b
          BY <4>1, <4>3, <3>1, <2>12, <1>p
        <5> QED BY <5>1, <5>2, <4>3, <2>13, <2>s DEF PreviousSame
      <4>4. CASE r = new
        <5>1. e < b
          BY <4>1, <4>4, <2>n
        <5>2. \A q \in revisions : ~(e < q.build)
          BY <4>1, <4>2, <4>4, <2>n, <3>1, <2>12, <1>p
        <5> QED BY <5>1, <5>2, <3>3, <4>4, <2>n, <2>13
      <4> QED BY <4>3, <4>4, <2>9
    <3>8. HasFirst'
      <4> SUFFICES ASSUME NEW e \in Builds, Exists(e), NEW r \in revisions', r.build > e
                   PROVE  FirstAfter(e)' # {}
        BY <3>4 DEF HasFirst
      <4>1. CASE \E q \in revisions : q.build > e
        <5>1. PICK f \in FirstAfter(e) : TRUE
          BY <4>1, <2>s DEF HasFirst
        <5>2. f \in revisions /\ f.build > e /\ \A q \in revisions : q.build > e => f.build <= q.build
          BY DEF FirstAfter
        <5>3. f \in revisions' /\ \A q \in revisions' : q.build > e => f.build <= q.build
          BY <5>2, <2>9, <2>n, <2>12
        <5> QED BY <5>2, <5>3 DEF FirstAfter
      <4>2. CASE ~\E q \in revisions : q.build > e
        <5>1. r = new /\ r.build = b
          BY <4>2, <2>9, <2>n
        <5>2. \A q \in revisions' : q.build > e => r.build <= q.build
          BY <5>1, <4>2, <2>9, <2>n, <1>p
        <5> QED BY <5>2 DEF FirstAfter
      <4> QED BY <4>1, <4>2
    <3> QED BY <3>5, <3>6, <3>7, <3>8, <2>17, <2>18 DEF Story
  <2> QED BY <2>19, <2>20
<1> QED BY <1>1, <1>2, <1>3, <1>4 DEF ViewInv

LEMMA PurgeTxView ==
  ASSUME ViewInv, PurgeTx, Inv'
  PROVE  ViewInv'
<1> USE DEF PurgeTx
<1>t. TypeOK /\ BaselineIsNewest /\ InOrder /\ Looked /\ Known
  BY DEF ViewInv, Inv
<1>p. (\A c \in promoted : c \in Nat) /\ \A c \in Builds : c \in Nat
  BY <1>t, NBuildsAssumption DEF TypeOK, Builds
<1>1. \A b \in Builds : status'[b] = IF b \in page THEN "gone" ELSE status[b]
  OBVIOUS
<1>2. \A b \in Builds :
        \/ job'[b] = job[b]
        \/ /\ job[b].did \in {"written", "promoted"} /\ job[b].against \in page
           /\ job'[b] = [job[b] EXCEPT !.against = NoBuild]
  OBVIOUS
<1>3. \A b \in Builds : /\ job'[b].did = job[b].did
                        /\ job'[b].review = job[b].review
                        /\ job'[b].against \in {job[b].against, NoBuild}
  <2> TAKE b \in Builds
  <2>1. job[b] \in JobRecord
    BY <1>t DEF TypeOK, JobRecord
  <2> QED BY <2>1, <1>2 DEF JobRecord
<1>4. \A s \in revisions' : \E r \in revisions :
        /\ r.build \notin page /\ s.build = r.build /\ s.replacedExisting = r.replacedExisting
        /\ s.previous = IF r.previous \in page THEN NoBuild ELSE r.previous
  <2> TAKE s \in revisions'
  <2>1. PICK r \in revisions :
          r.build \notin page
          /\ s = [r EXCEPT !.previous = IF r.previous \in page THEN NoBuild ELSE r.previous]
    OBVIOUS
  <2>2. r \in Revision
    BY <1>t DEF TypeOK
  <2> QED BY <2>1, <2>2 DEF Revision
<1>5. \A r \in revisions : r.build \notin page => \E s \in revisions' : s.build = r.build
  <2> TAKE r \in revisions
  <2> HAVE r.build \notin page
  <2> DEFINE s == [r EXCEPT !.previous = IF r.previous \in page THEN NoBuild ELSE r.previous]
  <2>1. s \in revisions'
    OBVIOUS
  <2>2. r \in Revision
    BY <1>t DEF TypeOK
  <2>3. s.build = r.build
    BY <2>2 DEF Revision
  <2> QED BY <2>1, <2>3
<1>6. InOrder'
  BY <1>t, <1>1 DEF InOrder, Looked, TypeOK
<1>7. Looked'
  BY <1>t, <1>1, <1>3 DEF Looked
<1>8. Known'
  <2>1. \A b \in Builds : job'[b].against \in promoted' \cup {NoBuild}
    BY <1>t, <1>3 DEF Known
  <2>2. \A s \in revisions' : /\ s.build \in promoted'
                              /\ s.previous \in promoted' \cup {NoBuild}
                              /\ s.previous # NoBuild => s.replacedExisting
    <3> TAKE s \in revisions'
    <3>1. PICK r \in revisions :
            /\ s.build = r.build /\ s.replacedExisting = r.replacedExisting
            /\ s.previous = IF r.previous \in page THEN NoBuild ELSE r.previous
      BY <1>4
    <3> QED BY <3>1, <1>t DEF Known
  <2> QED BY <2>1, <2>2 DEF Known
<1>9. ASSUME calm' PROVE JobsFit' /\ Story' /\ BranchFits'
  <2>1. calm /\ branch = NoBranch
        /\ \A b \in page \cap promoted : \A c \in 1..(b - 1) : Exists(c) => c \in page
    BY <1>9
  <2>2. JobsFit /\ MainKnown /\ SameUntilChanged /\ PreviousSame /\ HasFirst
    BY <2>1 DEF ViewInv, Story
  <2>3. \A e \in Builds : Exists(e)' => Exists(e) /\ e \notin page
    BY <1>1 DEF Exists
  <2>4. \A e \in Builds, c \in promoted : Exists(e)' /\ c > e => c \notin page
    <3> SUFFICES ASSUME NEW e \in Builds, NEW c \in promoted, Exists(e)', c > e, c \in page
                 PROVE  FALSE
      OBVIOUS
    <3>1. e \in 1..(c - 1)
      BY <1>p, NBuildsAssumption DEF Builds
    <3> QED BY <3>1, <2>1, <2>3
  <2>5. \A e : MainAsOf(e)' = MainAsOf(e)
    BY DEF MainAsOf
  <2>6. \A c : ImageOf(c)' = ImageOf(c)
    BY DEF ImageOf
  \* Past a build that stays, the same builds have revisions.
  <2>7. \A e \in Builds : Exists(e)' =>
          /\ \A r \in revisions : r.build > e => \E s \in revisions' : s.build = r.build
          /\ \A s \in revisions' : \E r \in revisions : s.build = r.build
    BY <2>4, <1>4, <1>5, <1>t DEF Known
  <2>8. JobsFit'
    <3> SUFFICES ASSUME NEW b \in Builds
                 PROVE  /\ job'[b].did = "nothing" => job'[b] = NoJob
                        /\ job'[b].did \in {"read", "written"} /\ LastOne(b)
                             => job'[b].against = baseline
                        /\ job'[b].did = "written" /\ LastOne(b)
                             => job'[b].review = IF Changed(b)' THEN "auto_approved"
                                                 ELSE "unchanged"
      BY DEF JobsFit, LastOne
    <3>1. CASE job'[b] = job[b]
      BY <3>1, <2>2 DEF JobsFit, Changed
    <3>2. CASE /\ job[b].did \in {"written", "promoted"} /\ job[b].against \in page
               /\ job'[b].did = job[b].did
      BY <3>2, <2>2 DEF JobsFit, Removable
    <3> QED BY <3>1, <3>2, <1>2, <1>3
  <2>9. MainKnown'
    BY <2>2, <2>5 DEF MainKnown
  <2>10. SameUntilChanged'
    <3> SUFFICES ASSUME NEW e \in Builds, NEW q \in promoted, Exists(e)', q > e,
                        \A s \in revisions' : ~(e < s.build /\ s.build <= q)
                 PROVE  image[q] = ImageOf(MainAsOf(e))
      BY <2>5, <2>6 DEF SameUntilChanged
    <3>1. \A r \in revisions : ~(e < r.build /\ r.build <= q)
      <4> SUFFICES ASSUME NEW r \in revisions, e < r.build, r.build <= q PROVE FALSE
        OBVIOUS
      <4>1. r.build > e
        BY <1>t, <1>p DEF Known
      <4>2. PICK s \in revisions' : s.build = r.build
        BY <4>1, <2>7
      <4> QED BY <4>2
    <3> QED BY <3>1, <2>2, <2>3 DEF SameUntilChanged
  <2>11. PreviousSame'
    <3> SUFFICES ASSUME NEW e \in Builds, NEW s \in revisions', Exists(e)', s \in FirstAfter(e)'
                 PROVE  \/ s.replacedExisting /\ s.previous = NoBuild
                        \/ ImageOf(s.previous) = ImageOf(MainAsOf(e))
      BY <2>5, <2>6 DEF PreviousSame
    <3>1. PICK r \in revisions :
            /\ s.build = r.build /\ s.replacedExisting = r.replacedExisting
            /\ s.previous = IF r.previous \in page THEN NoBuild ELSE r.previous
      BY <1>4
    <3>2. r \in FirstAfter(e)
      <4>1. s.build > e /\ \A q \in revisions' : q.build > e => s.build <= q.build
        BY DEF FirstAfter
      <4>2. \A q \in revisions : q.build > e => r.build <= q.build
        BY <4>1, <3>1, <2>7
      <4> QED BY <4>1, <4>2, <3>1 DEF FirstAfter
    <3>3. \/ r.replacedExisting /\ r.previous = NoBuild
          \/ ImageOf(r.previous) = ImageOf(MainAsOf(e))
      BY <3>2, <2>2, <2>3 DEF PreviousSame
    <3>4. CASE r.previous \in page
      <4>1. r.previous # NoBuild
        BY <3>4, <1>t DEF TypeOK, Builds, NoBuild
      <4> QED BY <4>1, <3>4, <3>1, <1>t DEF Known
    <3>5. CASE r.previous \notin page
      BY <3>5, <3>1, <3>3
    <3> QED BY <3>4, <3>5
  <2>12. HasFirst'
    <3> SUFFICES ASSUME NEW e \in Builds, Exists(e)', NEW s \in revisions', s.build > e
                 PROVE  FirstAfter(e)' # {}
      BY DEF HasFirst
    <3>1. \E r \in revisions : r.build > e
      BY <2>7
    <3>2. PICK f \in FirstAfter(e) : TRUE
      BY <3>1, <2>2, <2>3 DEF HasFirst
    <3>3. f \in revisions /\ f.build > e /\ \A q \in revisions : q.build > e => f.build <= q.build
      BY DEF FirstAfter
    <3>4. PICK g \in revisions' : g.build = f.build
      BY <3>3, <2>7
    <3>5. \A q \in revisions' : q.build > e => g.build <= q.build
      BY <3>3, <3>4, <2>7
    <3> QED BY <3>3, <3>4, <3>5 DEF FirstAfter
  <2>13. BranchFits'
    BY <2>1 DEF BranchFits
  <2> QED BY <2>8, <2>9, <2>10, <2>11, <2>12, <2>13 DEF Story
<1> QED BY <1>6, <1>7, <1>8, <1>9 DEF ViewInv

LEMMA OtherStepsView ==
  ASSUME ViewInv, Inv',
         \/ \E b \in Builds : \/ Cancel(b) \/ FinishWithout(b) \/ DiffRead(b)
                              \/ DiffWrite(b) \/ DiffDone(b) \/ DiffThrows(b)
         \/ TimePasses \/ PurgeFind \/ PurgeEnds
         \/ \E b \in Builds : DeleteFiles(b) \/ ForgetPrefix(b)
  PROVE  ViewInv'
<1>t. TypeOK /\ BaselineIsNewest /\ InOrder /\ Looked /\ Known
  BY DEF ViewInv, Inv
<1>1. UNCHANGED <<image, baseline, revisions, promoted, branch, calm>>
  BY DEF Cancel, FinishWithout, DiffRead, DiffWrite, DiffDone, DiffThrows, TimePasses,
         PurgeFind, PurgeEnds, DeleteFiles, ForgetPrefix, mainVars, purgeVars
<1>2. \A b \in Builds : Exists(b)' = Exists(b) /\ (status'[b] = "absent" <=> status[b] = "absent")
  <2>1. ASSUME NEW b \in Builds, Cancel(b) \/ FinishWithout(b) \/ DiffDone(b) \/ DiffThrows(b)
        PROVE  \A c \in Builds : \/ status'[c] = status[c]
                                 \/ /\ status[c] = "running"
                                    /\ status'[c] \in {"success", "error", "canceled"}
    BY <2>1, <1>t DEF Cancel, FinishWithout, DiffDone, DiffThrows, TypeOK
  <2>2. CASE \/ \E b \in Builds : \/ Cancel(b) \/ FinishWithout(b) \/ DiffDone(b) \/ DiffThrows(b)
    <3>1. \A c \in Builds : \/ status'[c] = status[c]
                            \/ /\ status[c] = "running"
                               /\ status'[c] \in {"success", "error", "canceled"}
      BY <2>1, <2>2
    <3> QED BY <3>1 DEF Exists
  <2>3. CASE UNCHANGED status
    BY <2>3 DEF Exists
  <2>4. \/ \E b \in Builds : \/ Cancel(b) \/ FinishWithout(b) \/ DiffDone(b) \/ DiffThrows(b)
        \/ UNCHANGED status
    BY DEF DiffRead, DiffWrite, TimePasses, PurgeFind, PurgeEnds, DeleteFiles, ForgetPrefix,
           mainVars
  <2> QED BY <2>2, <2>3, <2>4
<1>3. \A b \in Builds : /\ job'[b].did # "nothing" => job[b].did # "nothing" \/ status[b] # "absent"
                        /\ b \in page' => b \in page \/ status[b] # "absent"
                        /\ job'[b].against \in promoted \cup {NoBuild}
                        /\ \/ job'[b] = job[b]
                           \/ job'[b] = NoJob
                           \/ job'[b].did = "read" /\ job'[b].against = baseline
                           \/ /\ job[b].did = "read" /\ job'[b].did = "written"
                              /\ job'[b].against = job[b].against
                              /\ job'[b].review = IF Changed(b) THEN "auto_approved"
                                                  ELSE "unchanged"
  <2>n. NoJob.did = "nothing" /\ NoJob.against = NoBuild
    BY DEF NoJob
  <2>b. baseline \in promoted \cup {NoBuild}
    BY <1>t DEF BaselineIsNewest
  <2>r. \A b \in Builds : job[b] \in JobRecord /\ job[b].against \in promoted \cup {NoBuild}
    BY <1>t DEF TypeOK, JobRecord, Known
  <2>1. ASSUME NEW c \in Builds, DiffRead(c)
        PROVE  /\ page' = page
               /\ \A b \in Builds : b # c => job'[b] = job[b]
               /\ job'[c].did = "read" /\ job'[c].against = baseline /\ status[c] # "absent"
    <3> DEFINE new == [job[c] EXCEPT !.did = "read", !.against = baseline]
    <3>1. job' = [job EXCEPT ![c] = new] /\ status[c] # "absent" /\ page' = page
      BY <2>1 DEF DiffRead, purgeVars
    <3>2. new.did = "read" /\ new.against = baseline
      BY <2>r DEF JobRecord
    <3> HIDE DEF new
    <3> QED BY <3>1, <3>2, <1>t DEF TypeOK
  <2>2. ASSUME NEW c \in Builds, DiffWrite(c)
        PROVE  /\ page' = page
               /\ \A b \in Builds : b # c => job'[b] = job[b]
               /\ job[c].did = "read" /\ job'[c].did = "written"
               /\ job'[c].against = job[c].against
               /\ job'[c].review = IF Changed(c) THEN "auto_approved" ELSE "unchanged"
    <3> DEFINE v == IF Changed(c) THEN "auto_approved" ELSE "unchanged"
               new == [job[c] EXCEPT !.did = "written", !.review = v]
    <3>1. job' = [job EXCEPT ![c] = new] /\ job[c].did = "read" /\ page' = page
      BY <2>2 DEF DiffWrite, purgeVars
    <3>2. new.did = "written" /\ new.against = job[c].against /\ new.review = v
      BY <2>r DEF JobRecord
    <3> HIDE DEF new
    <3> QED BY <3>1, <3>2, <1>t DEF TypeOK
  <2>3. ASSUME NEW c \in Builds, DiffDone(c) \/ DiffThrows(c)
        PROVE  page' = page /\ \A b \in Builds : job'[b] = job[b] \/ job'[b] = NoJob
    BY <2>3, <1>t DEF DiffDone, DiffThrows, TypeOK, purgeVars
  <2>4. CASE PurgeFind
    <3>1. \A b \in page' : status[b] # "absent"
      BY <2>4 DEF PurgeFind, Expired, Exists
    <3>2. job' = job
      BY <2>4 DEF PurgeFind, mainVars
    <3> QED BY <3>1, <3>2, <2>r
  <2>5. CASE \/ \E c \in Builds : Cancel(c) \/ FinishWithout(c) \/ DeleteFiles(c) \/ ForgetPrefix(c)
             \/ TimePasses \/ PurgeEnds
    <3>1. job' = job /\ page' \subseteq page
      BY <2>5 DEF Cancel, FinishWithout, DeleteFiles, ForgetPrefix, TimePasses, PurgeEnds,
                  mainVars, purgeVars
    <3> QED BY <3>1, <2>r
  <2>6. CASE \E c \in Builds : DiffRead(c)
    BY <2>6, <2>1, <2>r, <2>b
  <2>7. CASE \E c \in Builds : DiffWrite(c)
    BY <2>7, <2>2, <2>r
  <2>8. CASE \E c \in Builds : DiffDone(c) \/ DiffThrows(c)
    BY <2>8, <2>3, <2>r, <2>n
  <2> QED BY <2>4, <2>5, <2>6, <2>7, <2>8
<1>4. InOrder' /\ Looked'
  BY <1>t, <1>1, <1>2, <1>3 DEF InOrder, Looked
<1>5. Known'
  BY <1>t, <1>1, <1>3 DEF Known
<1>6. ASSUME calm PROVE JobsFit' /\ Story' /\ BranchFits'
  <2>1. JobsFit /\ Story /\ BranchFits
    BY <1>6 DEF ViewInv
  <2>2. Story'
    BY <2>1, <1>1, <1>2, StoryStays
  <2>3. BranchFits'
    BY <2>1, <1>1, <1>2 DEF BranchFits, FirstAfter
  <2>4. JobsFit'
    <3> SUFFICES ASSUME NEW b \in Builds
                 PROVE  /\ job'[b].did = "nothing" => job'[b] = NoJob
                        /\ job'[b].did \in {"read", "written"} /\ LastOne(b)
                             => job'[b].against = baseline
                        /\ job'[b].did = "written" /\ LastOne(b)
                             => job'[b].review = IF Changed(b)' THEN "auto_approved"
                                                 ELSE "unchanged"
      BY <1>1 DEF JobsFit, LastOne
    <3>1. job'[b].against = job[b].against => Changed(b)' = Changed(b)
      BY <1>1 DEF Changed
    <3>2. CASE job'[b] = job[b]
      BY <3>1, <3>2, <2>1 DEF JobsFit
    <3>3. CASE job'[b] = NoJob
      BY <3>3 DEF NoJob
    <3>4. CASE job'[b].did = "read" /\ job'[b].against = baseline
      BY <3>4
    <3>5. CASE /\ job[b].did = "read" /\ job'[b].did = "written"
               /\ job'[b].against = job[b].against
               /\ job'[b].review = IF Changed(b) THEN "auto_approved" ELSE "unchanged"
      BY <3>1, <3>5, <2>1 DEF JobsFit
    <3> QED BY <3>2, <3>3, <3>4, <3>5, <1>3
  <2> QED BY <2>2, <2>3, <2>4
<1> QED BY <1>1, <1>4, <1>5, <1>6 DEF ViewInv

LEMMA BranchView ==
  ASSUME ViewInv, Branch, Inv'
  PROVE  ViewInv'
<1>1. UNCHANGED <<mainVars, purgeVars, calm>>
  BY DEF Branch, BranchStart, BranchReadLatest, BranchReadRevision, BranchCompare
<1> USE <1>1 DEF mainVars, purgeVars
<1>2. \A e : Exists(e)' = Exists(e) /\ FirstAfter(e)' = FirstAfter(e)
  BY DEF Exists, FirstAfter
<1>3. InOrder' /\ Looked' /\ Known'
  BY DEF ViewInv, InOrder, Looked, Known
<1>4. ASSUME calm PROVE JobsFit' /\ Story' /\ BranchFits'
  <2>1. JobsFit /\ Story /\ BranchFits
    BY <1>4 DEF ViewInv
  <2>2. JobsFit'
    BY <2>1 DEF JobsFit, LastOne, Changed
  <2>3. Story'
    BY <2>1, <1>2, StoryStays
  <2>t. branch \in [base : Builds \cup {NoBuild}, latest : SUBSET (Builds \cup {NoBuild}),
                    revision : SUBSET (SUBSET Revision)]
    BY DEF ViewInv, Inv, TypeOK
  <2>4. ASSUME NEW b \in Builds, BranchStart(b) PROVE BranchFits'
    <3>1. branch' = [base |-> b, latest |-> {}, revision |-> {}]
      BY <2>4, <2>t DEF BranchStart, NoBranch
    <3>2. Exists(b)
      BY <2>4 DEF BranchStart, Exists
    <3> QED BY <3>1, <3>2, <1>2 DEF BranchFits
  <2>n. NoBranch.base = NoBuild
    BY DEF NoBranch
  <2>5. ASSUME BranchReadLatest PROVE BranchFits'
    <3>1. /\ branch'.base = branch.base /\ branch'.revision = branch.revision
          /\ branch'.latest = {baseline}
      BY <2>5, <2>t DEF BranchReadLatest
    <3>2. branch.base \in Builds /\ Exists(branch.base)
          /\ branch.revision \subseteq {FirstAfter(branch.base)}
      BY <2>5, <2>1, <2>n DEF BranchReadLatest, BranchFits
    <3> QED BY <3>1, <3>2, <1>2 DEF BranchFits
  <2>6. ASSUME BranchReadRevision PROVE BranchFits'
    <3>1. /\ branch'.base = branch.base /\ branch'.latest = branch.latest
          /\ branch'.revision = {FirstAfter(branch.base)}
      BY <2>6, <2>t DEF BranchReadRevision
    <3>2. branch.base \in Builds /\ Exists(branch.base) /\ branch.latest \subseteq {baseline}
      BY <2>6, <2>1, <2>n DEF BranchReadRevision, BranchFits
    <3> QED BY <3>1, <3>2, <1>2 DEF BranchFits
  <2>7. ASSUME BranchCompare PROVE BranchFits'
    BY <2>7 DEF BranchCompare, BranchFits, NoBranch
  <2>8. BranchFits'
    BY <2>4, <2>5, <2>6, <2>7 DEF Branch
  <2> QED BY <2>2, <2>3, <2>8
<1> QED BY <1>3, <1>4 DEF ViewInv

LEMMA ViewHolds == Spec => []ViewInv
<1>1. ViewInv /\ Inv' /\ [Next]_vars => ViewInv'
  <2> SUFFICES ASSUME ViewInv, Inv', [Next]_vars PROVE ViewInv'
    OBVIOUS
  <2>1. CASE UNCHANGED vars
    <3> USE <2>1 DEF vars, mainVars, purgeVars
    <3>1. InOrder' /\ Looked' /\ Known' /\ (JobsFit => JobsFit')
      BY DEF ViewInv, InOrder, Looked, Known, JobsFit, LastOne, Changed
    <3>2. \A e : Exists(e)' = Exists(e) /\ FirstAfter(e)' = FirstAfter(e)
      BY DEF Exists, FirstAfter
    <3>3. Story => Story'
      BY <3>2, StoryStays
    <3>4. BranchFits => BranchFits'
      BY <3>2 DEF BranchFits
    <3> QED BY <3>1, <3>3, <3>4 DEF ViewInv
  <2>2. CASE Branch
    BY <2>2, BranchView
  <2>3. CASE Purge
    BY <2>3, PurgeTxView, OtherStepsView DEF Purge
  <2>4. ASSUME NEW b \in Builds, MainBuild(b) PROVE ViewInv'
    BY <2>4, CreateView, PromoteView, OtherStepsView DEF MainBuild
  <2> QED BY <2>1, <2>2, <2>3, <2>4 DEF Next
<1> QED BY InitView, InvHolds, <1>1, PTL DEF Spec

LEMMA ViewSees == ViewInv => CalmBranchSeesItsBase
<1> SUFFICES ASSUME ViewInv, calm, Compared, Source # "expired"
             PROVE  ImageOf(ComparisonBaseline) = ImageOf(MainAsOf(branch.base))
  BY DEF CalmBranchSeesItsBase
<1> DEFINE base == branch.base
<1>1. /\ BaselineIsNewest /\ MainKnown /\ SameUntilChanged /\ PreviousSame /\ HasFirst
      /\ BranchFits /\ TypeOK
  BY DEF ViewInv, Inv, Story
<1>p. (\A c \in promoted : c \in Nat) /\ \A c \in Builds : c \in Nat
  BY <1>1, NBuildsAssumption DEF TypeOK, Builds
<1>2. /\ base \in Builds /\ Exists(base)
      /\ branch.latest = {baseline} /\ branch.revision = {FirstAfter(base)}
  BY <1>1 DEF Compared, BranchFits, NoBranch
<1>3. Latest = baseline /\ UNION branch.revision = FirstAfter(base)
  BY <1>2 DEF Latest
<1>4. CASE FirstAfter(base) = {}
  <2>1. ComparisonBaseline = baseline
    BY <1>3, <1>4 DEF ComparisonBaseline, Source, MainChangedIt
  <2>2. CASE baseline = NoBuild
    BY <2>1, <2>2, <1>1 DEF BaselineIsNewest, MainAsOf
  <2>3. CASE baseline # NoBuild /\ baseline <= base
    <3> DEFINE before == {c \in promoted : c <= base}
    <3>1. baseline \in before /\ \A d \in before : d <= baseline
      BY <2>3, <1>1 DEF BaselineIsNewest
    <3>2. \A c \in before : (\A d \in before : d <= c) => c = baseline
      BY <3>1, <1>p
    <3>3. MainAsOf(base) = IF before = {} THEN NoBuild
                           ELSE CHOOSE c \in before : \A d \in before : d <= c
      BY DEF MainAsOf
    <3>4. MainAsOf(base) = baseline
      <4> HIDE DEF before
      <4> QED BY <3>1, <3>2, <3>3
    <3> QED BY <3>4, <2>1
  <2>4. CASE baseline # NoBuild /\ ~(baseline <= base)
    <3>1. baseline \in promoted /\ baseline > base
      BY <2>4, <1>1, <1>2, <1>p DEF BaselineIsNewest
    <3>2. \A r \in revisions : ~(base < r.build)
      <4> SUFFICES ASSUME NEW r \in revisions, base < r.build PROVE FALSE
        OBVIOUS
      <4>1. r.build \in promoted
        BY DEF ViewInv, Known
      <4>2. r.build > base
        BY <4>1, <1>p, <1>2
      <4> QED BY <4>2, <1>1, <1>2, <1>4 DEF HasFirst
    <3>3. image[baseline] = ImageOf(MainAsOf(base))
      BY <3>1, <3>2, <1>1, <1>2 DEF SameUntilChanged
    <3> QED BY <3>3, <2>1, <2>4 DEF ImageOf
  <2> QED BY <2>2, <2>3, <2>4
<1>5. CASE FirstAfter(base) # {}
  <2>1. Revised \in FirstAfter(base)
    BY <1>3, <1>5 DEF Revised
  <2>2. Revised \in revisions
    BY <2>1 DEF FirstAfter
  <2>3. /\ ~(Revised.replacedExisting /\ Revised.previous = NoBuild)
        /\ ComparisonBaseline = Revised.previous
    BY <1>3, <1>5 DEF ComparisonBaseline, Source, MainChangedIt
  <2> QED BY <2>1, <2>2, <2>3, <1>1, <1>2 DEF PreviousSame
<1> QED BY <1>4, <1>5

\* A branch is compared with what main looked like when its base was built, unless that
\* screenshot has been removed, as long as main and the purge keep to their order.
THEOREM CalmBranchesSeeTheirBase == Spec => []CalmBranchSeesItsBase
  BY ViewHolds, ViewSees, PTL
=============================================================================
