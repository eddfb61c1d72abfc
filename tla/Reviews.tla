------------------------------ MODULE Reviews ------------------------------
(***************************************************************************)
(* Votes on the diffs of one build.  Every vote is stored, then the diff's *)
(* review status is computed from its votes, then the build's from its     *)
(* diffs: separate statements of concurrent calls, between which other     *)
(* calls, the finalization and a rebuild may come.                         *)
(*                                                                         *)
(* The pipeline is what BuildPipeline details, one step per write.  A diff *)
(* row is created and compared in one step: until then it counts for       *)
(* nothing here.                                                           *)
(***************************************************************************)
EXTENDS FiniteSets, Naturals

CONSTANTS
  Snapshots, Reviewers,
  Admins,             \* reviewers who may remove the vote of another
  Required,           \* projects.requiredReviewerCount
  Outcomes,           \* what comparisons come to
  MaxEvents           \* bound: calls, rebuilds, and things that go wrong, altogether

ASSUME ReviewersAssumption == Admins \subseteq Reviewers
ASSUME OutcomesAssumption ==
  Outcomes \subseteq {"unchanged", "auto_approved", "needs_review", "error"}
ASSUME BoundsAssumption ==
  Required \in Nat \ {0} /\ MaxEvents \in Nat

VARIABLES
  processing, review, \* builds.processingStatus and reviewStatus
  latest,             \* no newer build of the branch
  diff,               \* the diff row of a snapshot: its id and statuses
  votes,              \* diff_reviews of that row, by reviewer
  verdicts,           \* history: what the votes on that row have amounted to
  finalizer,          \* the finalize job
  call,               \* the review call of each reviewer
  clashed,            \* history: snapshots whose votes were stored or lost out of turn
  raced,              \* history: so was the build's review since it was last finalized
  events

dbVars == <<processing, review, latest, diff, votes, verdicts>>
ghosts == <<clashed, raced>>
vars == <<dbVars, finalizer, call, ghosts, events>>

InProgress == {"queued", "processing"}
BuildStatus == InProgress \cup {"success", "error", "canceled"}
Ids == Snapshots \X (1..(MaxEvents + 1))
Votes == {"none", "approve", "reject"}
Verdicts == {"needs_review", "approved", "rejected"}
ReviewStatus == {"not_required", "unchanged", "auto_approved"} \cup Verdicts

NoCall == [pc |-> "idle", kind |-> "cast", ids |-> {}, of |-> {}, vote |-> "none", todo |-> {},
           processing |-> "queued", review |-> "not_required"]

Calls == [pc : {"idle", "store", "recompute", "write", "build", "diffs", "update"},
          kind : {"cast", "remove", "bulk"}, ids : SUBSET Ids, of : SUBSET Reviewers, vote : Votes,
          todo : SUBSET (Ids \X Verdicts), processing : BuildStatus, review : ReviewStatus]

TypeOK ==
  /\ processing \in BuildStatus /\ review \in ReviewStatus /\ latest \in BOOLEAN
  /\ diff \in [Snapshots -> [id : 0..(MaxEvents + 1), processing : {"none", "success", "error"},
                             review : ReviewStatus]]
  /\ votes \in [Snapshots -> [Reviewers -> Votes]]
  /\ verdicts \in [Snapshots -> SUBSET Verdicts]
  /\ finalizer \in [pc : {"none", "queued", "write"}, processing : BuildStatus, review : ReviewStatus]
  /\ call \in [Reviewers -> Calls]
  /\ clashed \subseteq Snapshots /\ raced \in BOOLEAN
  /\ events \in 0..MaxEvents

NoVotes == [r \in Reviewers |-> "none"]
NoFinalize == [pc |-> "none", processing |-> "queued", review |-> "not_required"]

Init ==
  /\ processing = "processing" /\ review = "not_required" /\ latest = TRUE
  /\ diff = [s \in Snapshots |-> [id |-> 0, processing |-> "none", review |-> "not_required"]]
  /\ votes = [s \in Snapshots |-> NoVotes]
  /\ verdicts = [s \in Snapshots |-> {}]
  /\ finalizer = NoFinalize
  /\ call = [r \in Reviewers |-> NoCall]
  /\ clashed = {} /\ raced = FALSE
  /\ events = 0

-----------------------------------------------------------------------------
(* What votes and diffs amount to *)

\* Mutant: a diff without votes left counts as unchanged.
ComputeUnvoted(vs) == IF \A r \in Reviewers : vs[r] = "none" THEN "unchanged" ELSE "needs_review"

\* computeReviewStatus
ComputeReview(vs) ==
  IF \E r \in Reviewers : vs[r] = "reject" THEN "rejected"
  ELSE IF Cardinality({r \in Reviewers : vs[r] = "approve"}) >= Required THEN "approved"
  ELSE "needs_review"

HasDiff(s) == diff[s].processing # "none"

\* computeBuildReviewStatus
ComputeBuildReview ==
  LET shown == {diff[s].review : s \in {t \in Snapshots : HasDiff(t)}} IN
  CASE "rejected" \in shown -> "rejected"
    [] "needs_review" \in shown /\ "rejected" \notin shown -> "needs_review"
    [] "approved" \in shown /\ shown \cap {"rejected", "needs_review"} = {} -> "approved"
    [] "auto_approved" \in shown /\ shown \cap Verdicts = {} -> "auto_approved"
    [] OTHER -> "unchanged"

\* Mutant: rows are found by their snapshot.
ExistsForSnapshot(id) == HasDiff(id[1])

\* The row is still there: a rebuild deletes it, and its votes with it.
Exists(id) == HasDiff(id[1]) /\ diff[id[1]].id = id[2]

\* isDiffReviewable
Reviewable(s) == HasDiff(s) /\ diff[s].review \in {"needs_review", "approved", "rejected"}

Busy(r) == call[r].pc # "idle"
\* A call that has stored a vote on s and not yet the status of s.
Counting(r, s) == /\ call[r].pc \in {"recompute", "write"}
                  /\ \E id \in call[r].ids : id[1] = s /\ Exists(id)

Event == events < MaxEvents /\ events' = events + 1

-----------------------------------------------------------------------------
(* The pipeline *)

AllCompared == \A s \in Snapshots : HasDiff(s)

\* compareSnapshot and checkAllDoneAndFinalize, for one snapshot.
Compare(s) ==
  /\ processing \in InProgress /\ ~HasDiff(s)
  /\ \E result \in Outcomes :
       diff' = [diff EXCEPT ![s] =
         [id |-> @.id + 1, processing |-> IF result = "error" THEN "error" ELSE "success",
          review |-> IF result = "error" THEN "not_required" ELSE result]]
  /\ finalizer' = IF AllCompared' /\ finalizer.pc = "none"
                  THEN [finalizer EXCEPT !.pc = "queued"] ELSE finalizer
  /\ UNCHANGED <<processing, review, latest, votes, verdicts, call, ghosts, events>>

\* A worker that lost its diff job to another one writes its own result late, which may be
\* after votes were counted.
CompareAgain(s) ==
  /\ HasDiff(s) /\ Event
  /\ \E result \in Outcomes :
       diff' = IF result = "error" THEN [diff EXCEPT ![s].processing = "error"]
               ELSE [diff EXCEPT ![s].processing = "success", ![s].review = result]
  /\ clashed' = clashed \cup {s}
  /\ raced' = TRUE
  /\ UNCHANGED <<processing, review, latest, votes, verdicts, finalizer, call>>

\* finalizeBuild
FinalizeRead ==
  /\ finalizer.pc = "queued"
  /\ finalizer' =
       IF processing = "canceled" THEN NoFinalize
       ELSE [pc |-> "write", review |-> ComputeBuildReview,
             processing |-> IF \E s \in Snapshots : diff[s].processing = "error" THEN "error" ELSE "success"]
  /\ raced' = (~AllCompared \/ \E r \in Reviewers : Busy(r))
  /\ UNCHANGED <<dbVars, call, clashed, events>>

\* Mutant: the update spares no build.
BuildEvenIfCanceled(p, v) == processing' = p /\ review' = v

\* builds.updateResult
BuildUnlessCanceled(p, v) ==
  IF processing = "canceled" THEN UNCHANGED <<processing, review>>
  ELSE processing' = p /\ review' = v

FinalizeWrite ==
  /\ finalizer.pc = "write"
  /\ BuildUnlessCanceled(finalizer.processing, finalizer.review)
  /\ finalizer' = NoFinalize
  /\ UNCHANGED <<latest, diff, votes, verdicts, call, ghosts, events>>

\* The reaper errors a build that nothing is left to finish.
Reap ==
  /\ processing \in InProgress /\ AllCompared /\ finalizer.pc = "none"
  /\ processing' = "error"
  /\ UNCHANGED <<review, latest, diff, votes, verdicts, finalizer, call, ghosts, events>>

\* rebuildSnapshots, up to its transaction
Rebuild(rows) ==
  /\ latest /\ processing # "canceled" /\ Event
  /\ processing \in InProgress => \A s \in rows : HasDiff(s)
  /\ diff' = [s \in Snapshots |->
       IF s \in rows THEN [diff[s] EXCEPT !.processing = "none", !.review = "not_required"] ELSE diff[s]]
  /\ votes' = [s \in Snapshots |-> IF s \in rows THEN NoVotes ELSE votes[s]]
  /\ verdicts' = [s \in Snapshots |-> IF s \in rows THEN {} ELSE verdicts[s]]
  /\ processing' = IF processing \in InProgress THEN processing ELSE "queued"
  /\ clashed' = clashed \ rows
  /\ raced' = TRUE
  /\ UNCHANGED <<review, latest, finalizer, call>>

\* cancelBuild, or a newer build of the branch that supersedes this one (createBuild)
Stop ==
  /\ \/ processing \in InProgress /\ UNCHANGED latest
     \/ latest /\ latest' = FALSE
  /\ processing' = IF processing \in InProgress THEN "canceled" ELSE processing
  /\ UNCHANGED <<review, diff, votes, verdicts, finalizer, call, ghosts, events>>

-----------------------------------------------------------------------------
(* packages/reviews: the calls *)

Start(r, c) ==
  /\ ~Busy(r) /\ Event
  /\ call' = [call EXCEPT ![r] = c]
  /\ UNCHANGED <<dbVars, finalizer, ghosts>>

Id(s) == <<s, diff[s].id>>

\* castVote checks the build, the snapshot and the diff.
CastVote(r) ==
  \E s \in Snapshots, v \in {"approve", "reject"} :
    /\ latest /\ Reviewable(s) /\ diff[s].processing # "error"
    /\ Start(r, [NoCall EXCEPT !.pc = "store", !.ids = {Id(s)}, !.of = {r}, !.vote = v])

\* removeVote
RemoveVote(r) ==
  \E s \in Snapshots, of \in IF r \in Admins THEN Reviewers ELSE {r} :
    /\ latest /\ Reviewable(s)
    /\ Start(r, [NoCall EXCEPT !.pc = "store", !.kind = "remove", !.ids = {Id(s)}, !.of = {of}])

\* bulkCastVote
BulkCastVote(r) ==
  \E v \in {"approve", "reject"} :
    LET targets == {s \in Snapshots : Reviewable(s)} IN
    /\ processing = "success" /\ latest /\ targets # {}
    /\ Start(r, [NoCall EXCEPT !.pc = "store", !.kind = "bulk", !.ids = {Id(s) : s \in targets},
                               !.of = {r}, !.vote = v])

\* A vote on a deleted diff violates the foreign key, and with it the whole insert.
Storable(r) == call[r].kind = "remove" \/ \A id \in call[r].ids : Exists(id)

\* diffReviews.upsertVote, upsertVotes and removeVote
StoreVote(r) ==
  /\ call[r].pc = "store"
  /\ IF Storable(r)
     THEN LET on == {id[1] : id \in {i \in call[r].ids : Exists(i)}}
          IN /\ votes' = [s \in Snapshots |->
                  IF s \in on THEN [of \in Reviewers |-> IF of \in call[r].of THEN call[r].vote ELSE votes[s][of]]
                  ELSE votes[s]]
             /\ verdicts' = [s \in Snapshots |->
                  IF s \in on THEN verdicts[s] \cup {ComputeReview(votes'[s])} ELSE verdicts[s]]
             /\ clashed' = clashed \cup {s \in on : \E q \in Reviewers \ {r} : Counting(q, s)}
             /\ raced' = (raced \/ finalizer.pc = "write"
                                \/ \E q \in Reviewers \ {r} : call[q].pc \notin {"idle", "store"})
             /\ call' = [call EXCEPT ![r].pc = "recompute", ![r].of = {}, ![r].vote = "none"]
     ELSE /\ call' = [call EXCEPT ![r] = NoCall]
          /\ UNCHANGED <<votes, verdicts, ghosts>>
  /\ UNCHANGED <<processing, review, latest, diff, finalizer, events>>

\* The votes of a diff that is gone are gone.
VotesOf(id) == IF Exists(id) THEN votes[id[1]] ELSE NoVotes

\* recomputeReviewStatus throws without its diff; bulkCastVote does not look.
Recompute(r) ==
  /\ call[r].pc = "recompute"
  /\ call' = [call EXCEPT ![r] =
       IF call[r].kind # "bulk" /\ \E id \in call[r].ids : ~Exists(id) THEN NoCall
       ELSE [@ EXCEPT !.pc = "write", !.todo = {<<id, ComputeReview(VotesOf(id))>> : id \in call[r].ids}]]
  /\ UNCHANGED <<dbVars, finalizer, ghosts, events>>

\* Mutant: the diffs of one status are updated and the rest forgotten.
OneGroup(r, status) == {}

\* The updates still to make after those to one status.
Remaining(r, status) == {t \in call[r].todo : t[2] # status}

\* diffs.updateReviewStatus and updateReviewStatusMany: one statement per status.
WriteStatus(r) ==
  /\ call[r].pc = "write"
  /\ \E status \in {t[2] : t \in call[r].todo} :
       LET ids == {t[1] : t \in {u \in call[r].todo : u[2] = status}} IN
       /\ diff' = [s \in Snapshots |->
            IF \E id \in ids : id[1] = s /\ Exists(id) THEN [diff[s] EXCEPT !.review = status] ELSE diff[s]]
       /\ call' = [call EXCEPT ![r] = IF Remaining(r, status) = {} THEN [NoCall EXCEPT !.pc = "build"]
                                      ELSE [@ EXCEPT !.todo = Remaining(r, status)]]
  /\ UNCHANGED <<processing, review, latest, votes, verdicts, finalizer, ghosts, events>>

\* updateBuildReviewStatus
ReadBuild(r) ==
  /\ call[r].pc = "build"
  /\ call' = [call EXCEPT ![r] =
       IF processing = "canceled" THEN NoCall
       ELSE [@ EXCEPT !.pc = "diffs", !.processing = processing, !.review = review]]
  /\ UNCHANGED <<dbVars, finalizer, ghosts, events>>

\* Mutant: a build that is reviewed once is not updated again.
ReadDiffsOnce(r) ==
  /\ call[r].pc = "diffs"
  /\ call' = [call EXCEPT ![r] =
       IF call[r].review # "needs_review" THEN NoCall
       ELSE [@ EXCEPT !.pc = "update", !.review = ComputeBuildReview]]
  /\ UNCHANGED <<dbVars, finalizer, ghosts, events>>

ReadDiffs(r) ==
  /\ call[r].pc = "diffs"
  /\ call' = [call EXCEPT ![r] =
       IF ComputeBuildReview = call[r].review THEN NoCall
       ELSE [@ EXCEPT !.pc = "update", !.review = ComputeBuildReview]]
  /\ UNCHANGED <<dbVars, finalizer, ghosts, events>>

UpdateBuild(r) ==
  /\ call[r].pc = "update"
  /\ BuildUnlessCanceled(call[r].processing, call[r].review)
  /\ call' = [call EXCEPT ![r] = NoCall]
  /\ UNCHANGED <<latest, diff, votes, verdicts, finalizer, ghosts, events>>

\* The web process dies, or a statement of the call fails.
CallDies(r) ==
  /\ Busy(r) /\ Event
  /\ call' = [call EXCEPT ![r] = NoCall]
  /\ clashed' = clashed \cup {s \in Snapshots : Counting(r, s)}
  /\ raced' = TRUE
  /\ UNCHANGED <<dbVars, finalizer>>

-----------------------------------------------------------------------------
Pipeline ==
  \/ \E s \in Snapshots : Compare(s) \/ CompareAgain(s)
  \/ FinalizeRead \/ FinalizeWrite \/ Reap \/ Stop
  \/ \E rows \in SUBSET Snapshots \ {{}} : Rebuild(rows)

Voting(r) ==
  \/ CastVote(r) \/ RemoveVote(r) \/ BulkCastVote(r)
  \/ StoreVote(r) \/ Recompute(r) \/ WriteStatus(r)
  \/ ReadBuild(r) \/ ReadDiffs(r) \/ UpdateBuild(r)

Next == Pipeline \/ \E r \in Reviewers : Voting(r) \/ CallDies(r)

Spec == Init /\ [][Next]_vars
-----------------------------------------------------------------------------
(* Properties *)

\* However votes, removals, rebuilds and repeated comparisons interleave, a diff is shown
\* approved or rejected only if the votes on this very diff once amounted to that: a verdict
\* never outlives the image it was given for (castVote, rebuildSnapshots).
VerdictsAreVoted ==
  \A s \in Snapshots :
    HasDiff(s) /\ diff[s].review \in {"approved", "rejected"} => diff[s].review \in verdicts[s]

\* When the calls on a diff came one after the other, whatever others did meanwhile, its
\* status is what its votes amount to (recomputeReviewStatus, bulkCastVote).
VotesCount ==
  \A s \in Snapshots \ clashed :
    Reviewable(s) /\ (\A r \in Reviewers : ~Counting(r, s)) => diff[s].review = ComputeReview(votes[s])

\* When the calls since the build was finalized came one after the other, its review status
\* is what its diffs amount to (updateBuildReviewStatus, finalizeBuild).
BuildFollowsDiffs ==
  processing = "success" /\ ~raced /\ finalizer.pc # "write" /\ (\A r \in Reviewers : ~Busy(r))
    => review = ComputeBuildReview

\* A canceled build keeps the review status it had, also from calls that began before.
CanceledKeepsReview == [][processing = "canceled" => UNCHANGED <<processing, review>>]_vars

\* "leaves a still-processing build's processing status alone" (builds.integration.test.ts):
\* a vote never changes whether a build is being processed.
VotesKeepProcessing == [][(\E r \in Reviewers : Voting(r)) => UNCHANGED processing]_vars

=============================================================================
