------------------------------ MODULE Baselines ------------------------------
(***************************************************************************)
(* The baseline of one target (a story in one browser and viewport) of one *)
(* project: main-branch builds promote their snapshot of it, branch builds *)
(* are compared with main as it was at their merge base, and the retention *)
(* purge removes builds that are past it, with their files.                *)
(*                                                                         *)
(* Main builds are numbered in the order of builds.createdAt.  A build has *)
(* at most one snapshot of the target, so a snapshot goes by its build.    *)
(* What a build looks like is one of a few images; two snapshots differ by *)
(* more than the threshold when their images do.                           *)
(***************************************************************************)
EXTENDS Naturals, FiniteSets

CONSTANTS
  NBuilds,     \* bound: main builds
  Images,      \* what the target may look like
  Pinned,      \* builds that hold the baseline of another target
  BatchSize    \* builds the purge removes in one transaction

ASSUME NBuildsAssumption == NBuilds \in Nat
ASSUME BatchSizeAssumption == BatchSize \in Nat \ {0}

Builds == 1..NBuilds
NoBuild == 0
NoImage == "none"

ASSUME ImagesAssumption == NoImage \notin Images
ASSUME PinnedAssumption == Pinned \subseteq Builds

VARIABLES
  status,      \* processing status of a main build; "gone" once it is purged
  image,       \* the build's snapshot of the target, NoImage when it has none to compare
  job,         \* the diff handler and the diff it writes: reviewStatus, baselineSnapshotId
  baseline,    \* baselines.snapshotId, NoBuild without a row
  revisions,   \* the target's rows of baseline_revisions
  cutoff,      \* builds up to this one are past the retention period
  page,        \* the expired builds a purge run has found and not yet removed
  outbox,      \* storage_outbox
  stored,      \* builds whose files are in object storage
  branch,      \* the diff handler of a branch build: its base and what it has read so far
  promoted,    \* history: builds whose promotion has run
  calm         \* history: main and the purge kept to their order, see CalmBranchSeesItsBase

mainVars == <<status, image, job, baseline, revisions, promoted>>
purgeVars == <<cutoff, page, outbox, stored>>
vars == <<mainVars, purgeVars, branch, calm>>

Status == {"absent", "running", "success", "error", "canceled", "gone"}
Review == {"none", "unchanged", "auto_approved"}
Revision == [build : Builds, previous : Builds \cup {NoBuild}, replacedExisting : BOOLEAN]

TypeOK ==
  /\ status \in [Builds -> Status]
  /\ image \in [Builds -> Images \cup {NoImage}]
  /\ job \in [Builds -> [did : {"nothing", "read", "written", "promoted"},
                         against : Builds \cup {NoBuild}, review : Review]]
  /\ baseline \in Builds \cup {NoBuild}
  /\ revisions \subseteq Revision
  /\ cutoff \in 0..NBuilds
  /\ page \subseteq Builds
  /\ outbox \subseteq Builds /\ stored \subseteq Builds
  /\ branch \in [base : Builds \cup {NoBuild}, latest : SUBSET (Builds \cup {NoBuild}),
                 revision : SUBSET (SUBSET Revision)]
  /\ promoted \subseteq Builds
  /\ calm \in BOOLEAN

NoJob == [did |-> "nothing", against |-> NoBuild, review |-> "none"]
NoBranch == [base |-> NoBuild, latest |-> {}, revision |-> {}]

Init ==
  /\ status = [b \in Builds |-> "absent"]
  /\ image = [b \in Builds |-> NoImage]
  /\ job = [b \in Builds |-> NoJob]
  /\ baseline = NoBuild /\ revisions = {}
  /\ cutoff = 0 /\ page = {}
  /\ outbox = {} /\ stored = {}
  /\ branch = NoBranch
  /\ promoted = {} /\ calm = TRUE

\* The build has a row.
Exists(b) == status[b] \notin {"absent", "gone"}

\* The target has been looked at in this build.
Begun(b) ==
  job[b] # NoJob \/ b \in promoted \/ status[b] \notin {"absent", "running", "canceled"}
-----------------------------------------------------------------------------
(* Main builds: packages/builds createBuild, packages/capture diffSnapshot *)

\* createBuild, with what the capture will find.
Create(b, img) ==
  /\ status[b] = "absent" /\ \A c \in 1..(b - 1) : status[c] # "absent"
  /\ status' = [status EXCEPT ![b] = "running"]
  /\ image' = [image EXCEPT ![b] = img]
  /\ stored' = stored \cup {b}
  /\ UNCHANGED <<job, baseline, revisions, promoted, cutoff, page, outbox, branch, calm>>

\* cancelInProgressBuild: a newer build supersedes this one, or somebody cancels it.  Its
\* handler goes on.
Cancel(b) ==
  /\ status[b] = "running"
  /\ status' = [status EXCEPT ![b] = "canceled"]
  /\ UNCHANGED <<image, job, baseline, revisions, promoted, purgeVars, branch, calm>>

\* A build whose snapshot of the target was skipped or errored has nothing to compare.
FinishWithout(b) ==
  /\ status[b] = "running" /\ image[b] = NoImage
  /\ status' = [status EXCEPT ![b] = "success"]
  /\ UNCHANGED <<image, job, baseline, revisions, promoted, purgeVars, branch, calm>>

\* diffSnapshot up to the comparison: a canceled build is left alone, main is compared with
\* its latest baseline.
DiffRead(b) ==
  /\ status[b] = "running" /\ image[b] # NoImage
  /\ job[b].did = "nothing"
  /\ job' = [job EXCEPT ![b] = [@ EXCEPT !.did = "read", !.against = baseline]]
  /\ UNCHANGED <<status, image, baseline, revisions, promoted, purgeVars, branch, calm>>

Changed(b) == job[b].against = NoBuild \/ image[job[b].against] # image[b]

\* updateResult; the foreign key refuses a baseline that has been purged since it was read.
DiffWrite(b) ==
  /\ Exists(b) /\ job[b].did = "read"
  /\ job[b].against # NoBuild => Exists(job[b].against)
  /\ job' = [job EXCEPT ![b] = [@ EXCEPT !.did = "written",
                                         !.review = IF Changed(b) THEN "auto_approved"
                                                    ELSE "unchanged"]]
  /\ UNCHANGED <<status, image, baseline, revisions, promoted, purgeVars, branch, calm>>

\* Mutant: the baseline is replaced whoever set it.
AnyBuild(b) == TRUE

\* getNotOlderBuildFilter
NotOlder(b) == baseline = NoBuild \/ baseline <= b

\* promoteBaseline, one transaction: a change of the baseline is recorded.
Promote(b) ==
  /\ Exists(b) /\ job[b].did = "written"
  /\ IF NotOlder(b)
     THEN /\ baseline' = b
          /\ revisions' = IF job[b].review = "auto_approved"
                          THEN revisions \cup
                               {[build |-> b, previous |-> job[b].against,
                                 replacedExisting |-> job[b].against # NoBuild]}
                          ELSE revisions
     ELSE UNCHANGED <<baseline, revisions>>
  /\ promoted' = promoted \cup {b}
  /\ job' = [job EXCEPT ![b] = [@ EXCEPT !.did = "promoted"]]
  /\ calm' = (calm /\ branch = NoBranch /\ \A c \in Builds : c > b => ~Begun(c))
  /\ UNCHANGED <<status, image, purgeVars, branch>>

\* The handler ends, and the build is finalized unless it was canceled.
DiffDone(b) ==
  /\ job[b].did = "promoted"
  /\ job' = [job EXCEPT ![b] = NoJob]
  /\ status' = [status EXCEPT ![b] = IF @ = "running" THEN "success" ELSE @]
  /\ UNCHANGED <<image, baseline, revisions, promoted, purgeVars, branch, calm>>

\* The handler throws or its worker dies, before or after any of its writes: it is retried
\* from the start, or this was its last attempt and the build is finalized as an error.
DiffThrows(b) ==
  /\ job[b].did # "nothing"
  /\ job' = [job EXCEPT ![b] = NoJob]
  /\ \/ UNCHANGED status
     \/ status[b] = "running" /\ status' = [status EXCEPT ![b] = "error"]
  /\ UNCHANGED <<image, baseline, revisions, promoted, purgeVars, branch, calm>>
-----------------------------------------------------------------------------
(* The retention purge: packages/builds purgeExpiredBuilds *)

\* The retention period is days long: a build is not in progress at its end.
TimePasses ==
  /\ cutoff < NBuilds /\ status[cutoff + 1] \notin {"absent", "running"}
  /\ cutoff' = cutoff + 1
  /\ UNCHANGED <<mainVars, page, outbox, stored, branch, calm>>

Expired == {b \in 1..cutoff : Exists(b) /\ b # baseline /\ b \notin Pinned}

\* findExpiredPage: the oldest expired builds that hold no baseline.
PurgeFind ==
  /\ page = {} /\ Expired # {}
  /\ page' = {b \in Expired : Cardinality({c \in Expired : c < b}) < BatchSize}
  /\ UNCHANGED <<mainVars, cutoff, outbox, stored, branch, calm>>

\* Mutant: snapshots are removed with their build although a baseline refers to them.
AnyPage == TRUE

\* The foreign key of baselines.snapshotId
Removable == baseline \notin page

\* One transaction: outbox rows in, builds out.  The builds' snapshots, diffs and revisions
\* go with them, and what refers to their snapshots from elsewhere is set to null.
PurgeTx ==
  /\ page # {} /\ Removable
  /\ status' = [b \in Builds |-> IF b \in page THEN "gone" ELSE status[b]]
  /\ outbox' = outbox \cup page
  /\ job' = [b \in Builds |-> IF job[b].did \in {"written", "promoted"} /\ job[b].against \in page
                              THEN [job[b] EXCEPT !.against = NoBuild] ELSE job[b]]
  /\ revisions' = {[r EXCEPT !.previous = IF @ \in page THEN NoBuild ELSE @] :
                     r \in {r \in revisions : r.build \notin page}}
  /\ page' = {}
  /\ calm' = (calm /\ branch = NoBranch
              /\ \A b \in page \cap promoted : \A c \in 1..(b - 1) : Exists(c) => c \in page)
  /\ UNCHANGED <<image, baseline, promoted, cutoff, stored, branch>>

\* A build of the page was promoted meanwhile, so the transaction is rolled back; or the job
\* throws, runs out of its time budget or dies.  The next purge starts over.
PurgeEnds ==
  /\ page # {}
  /\ page' = {}
  /\ UNCHANGED <<mainVars, cutoff, outbox, stored, branch, calm>>

\* drainStorageOutbox, which starts a run and follows each batch; deleting again what is
\* deleted does no harm.
DeleteFiles(b) ==
  /\ page = {} /\ b \in outbox
  /\ stored' = stored \ {b}
  /\ UNCHANGED <<mainVars, cutoff, page, outbox, branch, calm>>

\* Mutant: the entry is removed whether or not its files are all deleted.
ForgetIncomplete(b) ==
  /\ page = {} /\ b \in outbox
  /\ outbox' = outbox \ {b}
  /\ UNCHANGED <<mainVars, cutoff, page, stored, branch, calm>>

\* The entry goes once deletePrefix is complete.
ForgetPrefix(b) ==
  /\ page = {} /\ b \in outbox \ stored
  /\ outbox' = outbox \ {b}
  /\ UNCHANGED <<mainVars, cutoff, page, stored, branch, calm>>
-----------------------------------------------------------------------------
(* A branch build: resolveBaseBuildId, diffSnapshot, findComparisonBaseline *)

\* The build is created with a successful main build as its base, and its handler has read
\* that build.  A base that is purged before that counts as none, and is left out.
BranchStart(b) ==
  /\ branch = NoBranch /\ status[b] = "success"
  /\ branch' = [branch EXCEPT !.base = b]
  /\ UNCHANGED <<mainVars, purgeVars, calm>>

\* Mutant: the base's own change counts as one made after it.
FirstFrom(b) ==
  {r \in revisions : r.build >= b /\ \A q \in revisions : q.build >= b => r.build <= q.build}

\* findFirstAfter: no row or one
FirstAfter(b) ==
  {r \in revisions : r.build > b /\ \A q \in revisions : q.build > b => r.build <= q.build}

\* Two queries side by side, in either order; each answer is kept as a set of one.
BranchReadLatest ==
  /\ branch.base # NoBuild /\ branch.latest = {}
  /\ branch' = [branch EXCEPT !.latest = {baseline}]
  /\ UNCHANGED <<mainVars, purgeVars, calm>>

BranchReadRevision ==
  /\ branch.base # NoBuild /\ branch.revision = {}
  /\ branch' = [branch EXCEPT !.revision = {FirstAfter(branch.base)}]
  /\ UNCHANGED <<mainVars, purgeVars, calm>>

\* Both have answered.  The handler goes on to compare with ComparisonBaseline.
BranchCompare ==
  /\ branch.latest # {} /\ branch.revision # {}
  /\ branch' = NoBranch
  /\ UNCHANGED <<mainVars, purgeVars, calm>>
-----------------------------------------------------------------------------
MainBuild(b) ==
  \/ \E img \in Images \cup {NoImage} : Create(b, img)
  \/ Cancel(b) \/ FinishWithout(b)
  \/ DiffRead(b) \/ DiffWrite(b) \/ Promote(b) \/ DiffDone(b) \/ DiffThrows(b)

Purge ==
  \/ TimePasses \/ PurgeFind \/ PurgeTx \/ PurgeEnds
  \/ \E b \in Builds : DeleteFiles(b) \/ ForgetPrefix(b)

Branch ==
  \/ BranchReadLatest \/ BranchReadRevision \/ BranchCompare
  \/ \E b \in Builds : BranchStart(b)

Next == Purge \/ Branch \/ \E b \in Builds : MainBuild(b)

Spec == Init /\ [][Next]_vars
-----------------------------------------------------------------------------
(* findComparisonBaseline, once both queries have answered *)

Latest == CHOOSE b \in branch.latest : TRUE
Revised == CHOOSE r \in UNION branch.revision : TRUE
MainChangedIt == UNION branch.revision # {}

Source ==
  IF ~MainChangedIt THEN "latest"
  ELSE IF Revised.replacedExisting /\ Revised.previous = NoBuild THEN "expired" ELSE "merge_base"

ComparisonBaseline == IF Source = "merge_base" THEN Revised.previous ELSE Latest
-----------------------------------------------------------------------------
(* Properties *)

ImageOf(b) == IF b = NoBuild THEN NoImage ELSE image[b]

\* The build whose snapshot was the baseline on main when build b had been compared.
MainAsOf(b) ==
  LET before == {c \in promoted : c <= b}
  IN IF before = {} THEN NoBuild ELSE CHOOSE c \in before : \A d \in before : d <= c

\* In whatever order main builds finish, are retried or canceled, the baseline is the newest
\* build's whose promotion has run: no late build takes it back (baselines.upsert).
BaselineIsNewest ==
  /\ baseline = NoBuild => promoted = {}
  /\ baseline # NoBuild => baseline \in promoted
  /\ \A b \in promoted : b <= baseline

\* The purge never removes the build that holds the baseline, nor its files, although it
\* reads the expired builds before a promotion it does not see (purgeExpiredBuilds).
BaselineKept == baseline # NoBuild => Exists(baseline) /\ baseline \in stored

\* Files and rows go together: a build that exists has its files, and the files of a purged
\* build are deleted or still listed in the outbox, wherever a purge stopped
\* (purgeExpiredBuilds, drainStorageOutbox).
NoLeakedFiles ==
  \A b \in Builds : /\ Exists(b) => b \in stored
                    /\ status[b] = "gone" /\ b \in stored => b \in outbox

Compared == branch.latest # {} /\ branch.revision # {}

\* What a branch is compared with looks like main did when its base was built, unless that
\* screenshot has been removed, as long as no main build was promoted after a newer one was
\* compared, none was purged before an older one, and nothing was promoted or purged while
\* the branch was compared (findComparisonBaseline).
CalmBranchSeesItsBase ==
  calm /\ Compared /\ Source # "expired"
    => ImageOf(ComparisonBaseline) = ImageOf(MainAsOf(branch.base))
=============================================================================
