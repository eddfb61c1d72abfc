--------------------------- MODULE ReviewsProofs ---------------------------
(***************************************************************************)
(* For every number of snapshots, reviewers, approvals required and calls: *)
(* a diff is approved or rejected only by votes given for it; its status   *)
(* and the build's follow the votes and the diffs where calls do not       *)
(* cross; the review of a canceled build does not change.                  *)
(***************************************************************************)
EXTENDS Reviews, FiniteSetTheorems, TLAPS

RowIds == Snapshots \X Nat
Rows == [id : Nat, processing : {"none", "success", "error"}, review : ReviewStatus]
Call == [pc : {"idle", "store", "recompute", "write", "build", "diffs", "update"},
         kind : {"cast", "remove", "bulk"}, ids : SUBSET RowIds, of : SUBSET Reviewers, vote : Votes,
         todo : SUBSET (RowIds \X Verdicts), processing : BuildStatus, review : ReviewStatus]

\* The types of TypeOK, without its bounds.
BuildShape ==
  /\ processing \in BuildStatus /\ review \in ReviewStatus
  /\ finalizer \in [pc : {"none", "queued", "write"}, processing : BuildStatus, review : ReviewStatus]
RowShape ==
  /\ diff \in [Snapshots -> Rows]
  /\ votes \in [Snapshots -> [Reviewers -> Votes]]
  /\ verdicts \in [Snapshots -> SUBSET Verdicts]
CallShape == call \in [Reviewers -> Call]

\* Calls hold only rows that exist or existed.
IdsAreOld ==
  \A r \in Reviewers :
    /\ \A id \in call[r].ids : id[2] <= diff[id[1]].id
    /\ \A t \in call[r].todo : t[1][2] <= diff[t[1][1]].id

Final == {"approved", "rejected"}

\* What a call is about to write was voted, if the diff is still there.
TodoIsVoted ==
  \A r \in Reviewers : \A t \in call[r].todo :
    Exists(t[1]) /\ t[2] \in Final => t[2] \in verdicts[t[1][1]]

\* What the votes amount to now is among what they amounted to.
VotesAreCounted ==
  \A s \in Snapshots : ComputeReview(votes[s]) \in Final => ComputeReview(votes[s]) \in verdicts[s]

Shape == BuildShape /\ RowShape /\ CallShape
IInv == Shape /\ IdsAreOld /\ TodoIsVoted /\ VotesAreCounted /\ VerdictsAreVoted

\* A diff without votes needs a review: at least one approval is required.
LEMMA NoVotesNeedReview == ComputeReview(NoVotes) = "needs_review"
<1>1. {r \in Reviewers : NoVotes[r] = "approve"} = {}
  BY DEF NoVotes
<1>2. Cardinality({r \in Reviewers : NoVotes[r] = "approve"}) = 0
  BY <1>1, FS_EmptySet
<1>3. ~(\E r \in Reviewers : NoVotes[r] = "reject")
  BY DEF NoVotes
<1>4. ~(0 >= Required)
  BY BoundsAssumption
<1> QED  BY <1>2, <1>3, <1>4 DEF ComputeReview

LEMMA ComputeIsVerdict == \A vs : ComputeReview(vs) \in Verdicts
BY DEF ComputeReview, Verdicts

LEMMA NoCallIsCall == NoCall \in Call /\ NoCall.ids = {} /\ NoCall.todo = {}
BY DEF NoCall, Call, Votes, BuildStatus, InProgress, ReviewStatus, Verdicts

LEMMA InitVoted == Init => IInv
<1> SUFFICES ASSUME Init PROVE IInv
  OBVIOUS
<1>1. BuildShape
  BY DEF Init, BuildShape, BuildStatus, InProgress, ReviewStatus, NoFinalize
<1>2. RowShape
  BY DEF Init, RowShape, Rows, ReviewStatus, NoVotes, Votes
<1>3. CallShape /\ IdsAreOld /\ TodoIsVoted
  BY NoCallIsCall DEF Init, CallShape, IdsAreOld, TodoIsVoted
<1>4. VotesAreCounted
  BY NoVotesNeedReview DEF Init, VotesAreCounted, Final
<1>5. VerdictsAreVoted
  BY DEF Init, VerdictsAreVoted, HasDiff
<1> QED  BY <1>1, <1>2, <1>3, <1>4, <1>5 DEF IInv, Shape

\* A step that leaves the rows alone and one call empty, or as it was.
LEMMA RowsKept ==
  ASSUME IInv, UNCHANGED <<diff, votes, verdicts>>, CallShape', BuildShape',
         \A q \in Reviewers : call'[q].ids \subseteq call[q].ids /\ call'[q].todo \subseteq call[q].todo
  PROVE  IInv'
<1>1. RowShape'
  BY DEF IInv, Shape, RowShape
<1>2. IdsAreOld'
  BY DEF IInv, IdsAreOld
<1>3. TodoIsVoted'
  BY DEF IInv, TodoIsVoted, Exists, HasDiff
<1>4. VotesAreCounted' /\ VerdictsAreVoted'
  BY DEF IInv, VotesAreCounted, VerdictsAreVoted, HasDiff
<1> QED  BY <1>1, <1>2, <1>3, <1>4 DEF IInv, Shape

\* The build is finalized, errored or canceled.
LEMMA BuildStepVoted ==
  ASSUME IInv, FinalizeRead \/ FinalizeWrite \/ Reap \/ Stop
  PROVE  IInv'
<1>1. UNCHANGED <<diff, votes, verdicts, call>>
  BY DEF FinalizeRead, FinalizeWrite, Reap, Stop, dbVars
<1>2. CallShape'
  BY <1>1 DEF IInv, Shape, CallShape
<1>3. BuildShape'
  <2>1. ComputeBuildReview \in ReviewStatus
    BY DEF ComputeBuildReview, ReviewStatus, Verdicts
  <2>2. CASE FinalizeRead
    BY <2>1, <2>2 DEF FinalizeRead, dbVars, IInv, Shape, BuildShape, NoFinalize, BuildStatus, InProgress,
                      ReviewStatus
  <2>3. CASE FinalizeWrite
    BY <2>3 DEF FinalizeWrite, BuildUnlessCanceled, IInv, Shape, BuildShape, NoFinalize, BuildStatus,
                InProgress, ReviewStatus
  <2>4. CASE Reap \/ Stop
    BY <2>4 DEF Reap, Stop, IInv, Shape, BuildShape, BuildStatus, InProgress
  <2> QED  BY <2>2, <2>3, <2>4
<1> QED  BY <1>1, <1>2, <1>3, RowsKept

\* A row whose comparison ends, once or again, awaits a review or needs none.
LEMMA CompareVoted ==
  ASSUME IInv, NEW s \in Snapshots, Compare(s) \/ CompareAgain(s)
  PROVE  IInv'
<1>1. UNCHANGED <<votes, verdicts, call, processing, review>>
  BY DEF Compare, CompareAgain
<1>2. PICK row \in Rows :
        /\ diff' = [diff EXCEPT ![s] = row]
        /\ row.id = diff[s].id + 1 \/ (row.id = diff[s].id /\ HasDiff(s))
        /\ row.processing # "none"
        /\ row.review \in Final => row.review = diff[s].review /\ row.id = diff[s].id
  <2>1. diff[s] \in Rows /\ diff[s].id + 1 \in Nat
    BY DEF IInv, Shape, RowShape, Rows
  <2>2. CASE Compare(s)
    <3> PICK result \in Outcomes :
          diff' = [diff EXCEPT ![s] =
            [id |-> diff[s].id + 1, processing |-> IF result = "error" THEN "error" ELSE "success",
             review |-> IF result = "error" THEN "not_required" ELSE result]]
      BY <2>2 DEF Compare
    <3> DEFINE row == [id |-> diff[s].id + 1, processing |-> IF result = "error" THEN "error" ELSE "success",
                       review |-> IF result = "error" THEN "not_required" ELSE result]
    <3>1. row.review \notin Final /\ row \in Rows
      BY <2>1, OutcomesAssumption DEF Rows, ReviewStatus, Verdicts, Final
    <3> QED  BY <3>1
  <2>3. CASE CompareAgain(s)
    <3> PICK result \in Outcomes :
          diff' = IF result = "error" THEN [diff EXCEPT ![s].processing = "error"]
                  ELSE [diff EXCEPT ![s].processing = "success", ![s].review = result]
      BY <2>3 DEF CompareAgain
    <3>0. HasDiff(s) /\ diff \in [Snapshots -> Rows]
      BY <2>3 DEF CompareAgain, IInv, Shape, RowShape
    <3>1. CASE result = "error"
      <4> DEFINE row == [diff[s] EXCEPT !.processing = "error"]
      <4>1. row \in Rows /\ row.id = diff[s].id /\ row.processing # "none" /\ row.review = diff[s].review
        BY <2>1 DEF Rows
      <4>2. diff' = [diff EXCEPT ![s] = row]
        BY <3>0, <3>1
      <4> QED  BY <3>0, <4>1, <4>2
    <3>2. CASE result # "error"
      <4> DEFINE row == [diff[s] EXCEPT !.processing = "success", !.review = result]
      <4>1. row \in Rows /\ row.id = diff[s].id /\ row.processing # "none" /\ row.review \notin Final
        BY <2>1, <3>2, OutcomesAssumption DEF Rows, ReviewStatus, Verdicts, Final
      <4>2. diff' = [diff EXCEPT ![s] = row]
        BY <3>0, <3>2
      <4> QED  BY <3>0, <4>1, <4>2
    <3> QED  BY <3>1, <3>2
  <2> QED  BY <2>2, <2>3
<1>3. diff \in [Snapshots -> Rows] /\ diff' \in [Snapshots -> Rows] /\ diff'[s] = row
      /\ \A t \in Snapshots \ {s} : diff'[t] = diff[t]
  BY <1>2 DEF IInv, Shape, RowShape
<1>4. \A t \in Snapshots : diff[t].id \in Nat /\ diff'[t].id \in Nat /\ diff'[t].id >= diff[t].id
  BY <1>2, <1>3 DEF Rows
<1>5. CallShape' /\ RowShape'
  BY <1>1, <1>3 DEF IInv, Shape, RowShape, CallShape
<1>6. BuildShape'
  BY DEF Compare, CompareAgain, IInv, Shape, BuildShape
<1>7. \A r \in Reviewers : /\ \A id \in call[r].ids : id[1] \in Snapshots /\ id[2] \in Nat
                           /\ \A t \in call[r].todo : t[1][1] \in Snapshots /\ t[1][2] \in Nat
  BY DEF IInv, Shape, CallShape, Call, RowIds
<1>8. IdsAreOld'
  <2> SUFFICES ASSUME NEW r \in Reviewers
               PROVE  /\ \A id \in call[r].ids : id[2] <= diff'[id[1]].id
                      /\ \A t \in call[r].todo : t[1][2] <= diff'[t[1][1]].id
    BY <1>1 DEF IdsAreOld
  <2> QED  BY <1>4, <1>7 DEF IInv, IdsAreOld
<1>9. TodoIsVoted'
  <2> SUFFICES ASSUME NEW r \in Reviewers, NEW t \in call[r].todo, Exists(t[1])', t[2] \in Final
               PROVE  t[2] \in verdicts[t[1][1]]
    BY <1>1 DEF TodoIsVoted
  <2>1. Exists(t[1])
    <3>1. t[1][1] \in Snapshots /\ t[1][2] \in Nat /\ t[1][2] <= diff[t[1][1]].id
      BY <1>7 DEF IInv, IdsAreOld
    <3>2. diff'[t[1][1]].id = t[1][2]
      BY DEF Exists
    <3>3. CASE t[1][1] = s
      BY <1>2, <1>3, <1>4, <3>1, <3>2, <3>3 DEF Exists
    <3>4. CASE t[1][1] # s
      BY <1>3, <3>1, <3>4 DEF Exists, HasDiff
    <3> QED  BY <3>3, <3>4
  <2> QED  BY <2>1 DEF IInv, TodoIsVoted
<1>10. VotesAreCounted'
  BY <1>1 DEF IInv, VotesAreCounted
<1>11. VerdictsAreVoted'
  <2> SUFFICES ASSUME NEW t \in Snapshots, HasDiff(t)', diff'[t].review \in Final
               PROVE  diff'[t].review \in verdicts[t]
    BY <1>1 DEF VerdictsAreVoted, Final
  <2>1. HasDiff(t) /\ diff'[t].review = diff[t].review
    BY <1>2, <1>3, <1>4 DEF HasDiff, Rows
  <2> QED  BY <2>1 DEF IInv, VerdictsAreVoted, Final
<1> QED  BY <1>5, <1>6, <1>8, <1>9, <1>10, <1>11 DEF IInv, Shape

\* A rebuild takes a row, its votes and its verdicts away together.
LEMMA RebuildVoted ==
  ASSUME IInv, NEW rows \in SUBSET Snapshots, Rebuild(rows)
  PROVE  IInv'
<1>1. call' = call /\ finalizer' = finalizer /\ review' = review
      /\ processing' \in {processing, "queued"}
  BY DEF Rebuild
<1>2. \A s \in Snapshots :
        /\ diff[s] \in Rows /\ diff'[s].id = diff[s].id
        /\ HasDiff(s)' => s \notin rows /\ diff'[s] = diff[s]
        /\ votes'[s] = IF s \in rows THEN NoVotes ELSE votes[s]
        /\ verdicts'[s] = IF s \in rows THEN {} ELSE verdicts[s]
  BY DEF Rebuild, HasDiff, IInv, Shape, RowShape, Rows
<1>3. RowShape'
  <2>1. NoVotes \in [Reviewers -> Votes]
    BY DEF NoVotes, Votes
  <2>2. \A s \in Snapshots : [diff[s] EXCEPT !.processing = "none", !.review = "not_required"] \in Rows
    BY <1>2 DEF Rows, ReviewStatus
  <2> QED  BY <2>1, <2>2 DEF Rebuild, IInv, Shape, RowShape
<1>4. Shape'
  BY <1>1, <1>3 DEF IInv, Shape, BuildShape, CallShape, BuildStatus, InProgress
<1>5. \A r \in Reviewers : /\ \A id \in call[r].ids : id[1] \in Snapshots
                           /\ \A t \in call[r].todo : t[1][1] \in Snapshots
  BY DEF IInv, Shape, CallShape, Call, RowIds
<1>6. IdsAreOld'
  BY <1>1, <1>2, <1>5 DEF IInv, IdsAreOld
<1>7. TodoIsVoted'
  BY <1>1, <1>2, <1>5 DEF IInv, TodoIsVoted, Exists, HasDiff
<1>8. VotesAreCounted'
  BY <1>2, NoVotesNeedReview DEF IInv, VotesAreCounted, Final
<1>9. VerdictsAreVoted'
  BY <1>2 DEF IInv, VerdictsAreVoted, HasDiff
<1> QED  BY <1>4, <1>6, <1>7, <1>8, <1>9 DEF IInv

\* A call begins with rows that exist.
LEMMA StartVoted ==
  ASSUME IInv, NEW r \in Reviewers, NEW c \in Call, Start(r, c), c.todo = {},
         \A id \in c.ids : id[1] \in Snapshots /\ id[2] = diff[id[1]].id
  PROVE  IInv'
<1>1. UNCHANGED <<processing, review, finalizer, diff, votes, verdicts>>
      /\ call' = [call EXCEPT ![r] = c]
  BY DEF Start, dbVars
<1>2. \A q \in Reviewers : call'[q] = IF q = r THEN c ELSE call[q]
  BY <1>1 DEF IInv, Shape, CallShape
<1>3. Shape'
  BY <1>1 DEF IInv, Shape, BuildShape, RowShape, CallShape
<1>4. \A s \in Snapshots : diff[s].id \in Nat
  BY DEF IInv, Shape, RowShape, Rows
<1>5. IdsAreOld'
  BY <1>1, <1>2, <1>4 DEF IInv, IdsAreOld
<1>6. TodoIsVoted'
  BY <1>1, <1>2 DEF IInv, TodoIsVoted, Exists, HasDiff
<1>7. VotesAreCounted' /\ VerdictsAreVoted'
  BY <1>1 DEF IInv, VotesAreCounted, VerdictsAreVoted, HasDiff
<1> QED  BY <1>3, <1>5, <1>6, <1>7 DEF IInv

\* A call starts with a vote to store, on one row unless it is a bulk vote.
Storing(c) ==
  /\ c \in Call /\ c.pc = "store" /\ c.todo = {}
  /\ c.kind # "bulk" => \A i, j \in c.ids : i = j
  /\ \A id \in c.ids : id[1] \in Snapshots /\ Exists(id)

LEMMA StartFacts ==
  ASSUME IInv, NEW r \in Reviewers, CastVote(r) \/ RemoveVote(r) \/ BulkCastVote(r)
  PROVE  \E c : Start(r, c) /\ Storing(c)
<1>1. ASSUME NEW s \in Snapshots, Reviewable(s)
      PROVE  Id(s) \in RowIds /\ Id(s)[1] \in Snapshots /\ Exists(Id(s))
  BY <1>1 DEF IInv, Shape, RowShape, Rows, RowIds, Id, Exists, Reviewable
<1>2. CASE CastVote(r)
  <2> PICK s \in Snapshots, v \in {"approve", "reject"} :
        /\ Reviewable(s)
        /\ Start(r, [NoCall EXCEPT !.pc = "store", !.ids = {Id(s)}, !.of = {r}, !.vote = v])
    BY <1>2 DEF CastVote
  <2> DEFINE c == [NoCall EXCEPT !.pc = "store", !.ids = {Id(s)}, !.of = {r}, !.vote = v]
  <2>1. c \in Call /\ c.pc = "store" /\ c.todo = {} /\ c.ids = {Id(s)}
    BY <1>1, NoCallIsCall DEF Call, Votes
  <2>2. Start(r, c)
    OBVIOUS
  <2> HIDE DEF c
  <2>3. Storing(c)
    BY <1>1, <2>1 DEF Storing
  <2> QED  BY <2>2, <2>3
<1>3. CASE RemoveVote(r)
  <2> PICK s \in Snapshots, of \in Reviewers :
        /\ Reviewable(s)
        /\ Start(r, [NoCall EXCEPT !.pc = "store", !.kind = "remove", !.ids = {Id(s)}, !.of = {of}])
    BY <1>3, ReviewersAssumption DEF RemoveVote
  <2> DEFINE c == [NoCall EXCEPT !.pc = "store", !.kind = "remove", !.ids = {Id(s)}, !.of = {of}]
  <2>1. c \in Call /\ c.pc = "store" /\ c.todo = {} /\ c.ids = {Id(s)}
    BY <1>1, NoCallIsCall DEF Call, Votes
  <2>2. Start(r, c)
    OBVIOUS
  <2> HIDE DEF c
  <2>3. Storing(c)
    BY <1>1, <2>1 DEF Storing
  <2> QED  BY <2>2, <2>3
<1>4. CASE BulkCastVote(r)
  <2> DEFINE targets == {s \in Snapshots : Reviewable(s)}
  <2> PICK v \in {"approve", "reject"} :
        Start(r, [NoCall EXCEPT !.pc = "store", !.kind = "bulk", !.ids = {Id(s) : s \in targets},
                                !.of = {r}, !.vote = v])
    BY <1>4 DEF BulkCastVote
  <2> DEFINE c == [NoCall EXCEPT !.pc = "store", !.kind = "bulk", !.ids = {Id(s) : s \in targets},
                                 !.of = {r}, !.vote = v]
  <2>1. {Id(s) : s \in targets} \in SUBSET RowIds
    BY <1>1
  <2>2. c \in Call /\ c.pc = "store" /\ c.todo = {} /\ c.kind = "bulk" /\ c.ids = {Id(s) : s \in targets}
    BY <2>1, NoCallIsCall DEF Call, Votes
  <2>3. Start(r, c)
    OBVIOUS
  <2> HIDE DEF c
  <2>4. \A id \in c.ids : id[1] \in Snapshots /\ Exists(id)
    BY <1>1, <2>2
  <2>5. Storing(c)
    BY <2>2, <2>4 DEF Storing
  <2> QED  BY <2>3, <2>5
<1> QED  BY <1>2, <1>3, <1>4

LEMMA CallsStartVoted ==
  ASSUME IInv, NEW r \in Reviewers, CastVote(r) \/ RemoveVote(r) \/ BulkCastVote(r)
  PROVE  IInv'
<1>1. PICK c : Start(r, c) /\ Storing(c)
  BY StartFacts
<1> QED  BY <1>1, StartVoted DEF Storing, Exists

\* A vote is stored, and what the votes now amount to with it.
LEMMA StoreVoted ==
  ASSUME IInv, NEW r \in Reviewers, StoreVote(r)
  PROVE  IInv'
<1>1. UNCHANGED <<processing, review, finalizer, diff>>
  BY DEF StoreVote
<1>2. BuildShape'
  BY <1>1 DEF IInv, Shape, BuildShape
<1>3. call[r] \in Call /\ call \in [Reviewers -> Call]
  BY DEF IInv, Shape, CallShape
<1>4. CASE ~Storable(r)
  <2>1. UNCHANGED <<votes, verdicts>> /\ call' = [call EXCEPT ![r] = NoCall]
    BY <1>4 DEF StoreVote
  <2> QED  BY <1>1, <1>2, <1>3, <2>1, NoCallIsCall, RowsKept DEF CallShape
<1>5. CASE Storable(r)
  <2> DEFINE on == {id[1] : id \in {i \in call[r].ids : Exists(i)}}
  <2>1. /\ votes' = [s \in Snapshots |->
             IF s \in on THEN [of \in Reviewers |-> IF of \in call[r].of THEN call[r].vote ELSE votes[s][of]]
             ELSE votes[s]]
        /\ verdicts' = [s \in Snapshots |->
             IF s \in on THEN verdicts[s] \cup {ComputeReview(votes'[s])} ELSE verdicts[s]]
        /\ call' = [call EXCEPT ![r].pc = "recompute", ![r].of = {}, ![r].vote = "none"]
    BY <1>5 DEF StoreVote
  <2> HIDE DEF on
  <2>2. /\ call' \in [Reviewers -> Call]
        /\ \A q \in Reviewers : call'[q].ids = call[q].ids /\ call'[q].todo = call[q].todo
    <3> DEFINE c == [call[r] EXCEPT !.pc = "recompute", !.of = {}, !.vote = "none"]
    <3>1. c \in Call /\ c.ids = call[r].ids /\ c.todo = call[r].todo
      BY <1>3 DEF Call, Votes
    <3>2. call' = [call EXCEPT ![r] = c]
      BY <1>3, <2>1
    <3> HIDE DEF c
    <3> QED  BY <1>3, <3>1, <3>2
  <2>3. votes' \in [Snapshots -> [Reviewers -> Votes]]
    BY <1>3, <2>1 DEF IInv, Shape, RowShape, Call
  <2>4. verdicts' \in [Snapshots -> SUBSET Verdicts]
    BY <2>1, ComputeIsVerdict DEF IInv, Shape, RowShape
  <2>5. Shape'
    BY <1>1, <1>2, <2>2, <2>3, <2>4 DEF IInv, Shape, RowShape, CallShape
  <2>6. \A s \in Snapshots : verdicts[s] \subseteq verdicts'[s]
    BY <2>1
  <2>7. IdsAreOld'
    BY <1>1, <2>2 DEF IInv, IdsAreOld
  <2>8. TodoIsVoted'
    <3>1. \A q \in Reviewers : \A t \in call[q].todo : t[1][1] \in Snapshots
      BY DEF IInv, Shape, CallShape, Call, RowIds
    <3> QED  BY <1>1, <2>2, <2>6, <3>1 DEF IInv, TodoIsVoted, Exists, HasDiff
  <2>9. VotesAreCounted'
    BY <2>1 DEF IInv, VotesAreCounted
  <2>10. VerdictsAreVoted'
    BY <1>1, <2>6 DEF IInv, VerdictsAreVoted, HasDiff
  <2> QED  BY <2>5, <2>7, <2>8, <2>9, <2>10 DEF IInv
<1> QED  BY <1>4, <1>5

\* What is computed from votes that were counted was voted.
LEMMA RecomputeVoted ==
  ASSUME IInv, NEW r \in Reviewers, Recompute(r)
  PROVE  IInv'
<1>1. UNCHANGED <<processing, review, finalizer, diff, votes, verdicts>>
  BY DEF Recompute, dbVars
<1>2. BuildShape' /\ RowShape'
  BY <1>1 DEF IInv, Shape, BuildShape, RowShape
<1>3. call[r] \in Call /\ call \in [Reviewers -> Call]
  BY DEF IInv, Shape, CallShape
<1>4. CASE call' = [call EXCEPT ![r] = NoCall]
  BY <1>1, <1>2, <1>3, <1>4, NoCallIsCall, RowsKept DEF CallShape
<1>5. CASE call' # [call EXCEPT ![r] = NoCall]
  <2> DEFINE todo == {<<id, ComputeReview(VotesOf(id))>> : id \in call[r].ids}
             c == [call[r] EXCEPT !.pc = "write", !.todo = todo]
  <2>1. call' = [call EXCEPT ![r] = c]
    BY <1>3, <1>5 DEF Recompute
  <2>2. todo \in SUBSET (RowIds \X Verdicts)
    BY <1>3, ComputeIsVerdict DEF Call
  <2> HIDE DEF todo
  <2>3. c \in Call /\ c.ids = call[r].ids /\ c.todo = todo
    BY <1>3, <2>2 DEF Call
  <2> HIDE DEF c
  <2>4. \A q \in Reviewers : call'[q] = IF q = r THEN c ELSE call[q]
    BY <1>3, <2>1
  <2>5. CallShape'
    BY <1>3, <2>1, <2>3 DEF CallShape
  <2>6. \A t \in todo : t[1] \in call[r].ids /\ t[2] = ComputeReview(VotesOf(t[1]))
    BY DEF todo
  <2>7. IdsAreOld'
    BY <1>1, <2>3, <2>4, <2>6 DEF IInv, IdsAreOld
  <2>8. \A t \in todo : Exists(t[1]) /\ t[2] \in Final => t[2] \in verdicts[t[1][1]]
    <3> SUFFICES ASSUME NEW t \in todo, Exists(t[1]), t[2] \in Final
                 PROVE  t[2] \in verdicts[t[1][1]]
      OBVIOUS
    <3>1. t[1][1] \in Snapshots
      BY <1>3, <2>6 DEF Call, RowIds
    <3>2. t[2] = ComputeReview(votes[t[1][1]])
      BY <2>6 DEF VotesOf
    <3> QED  BY <3>1, <3>2 DEF IInv, VotesAreCounted
  <2>9. TodoIsVoted'
    BY <1>1, <2>3, <2>4, <2>8 DEF IInv, TodoIsVoted, Exists, HasDiff
  <2>10. VotesAreCounted' /\ VerdictsAreVoted'
    BY <1>1 DEF IInv, VotesAreCounted, VerdictsAreVoted, HasDiff
  <2> QED  BY <1>2, <2>5, <2>7, <2>9, <2>10 DEF IInv, Shape
<1> QED  BY <1>4, <1>5

\* Statuses are written to the rows they were computed for.
LEMMA WriteVoted ==
  ASSUME IInv, NEW r \in Reviewers, WriteStatus(r)
  PROVE  IInv'
<1>1. UNCHANGED <<processing, review, finalizer, votes, verdicts>>
  BY DEF WriteStatus
<1> PICK status \in {t[2] : t \in call[r].todo} :
      LET ids == {t[1] : t \in {u \in call[r].todo : u[2] = status}} IN
      /\ diff' = [s \in Snapshots |->
           IF \E id \in ids : id[1] = s /\ Exists(id) THEN [diff[s] EXCEPT !.review = status] ELSE diff[s]]
      /\ call' = [call EXCEPT ![r] = IF Remaining(r, status) = {} THEN [NoCall EXCEPT !.pc = "build"]
                                     ELSE [@ EXCEPT !.todo = Remaining(r, status)]]
  BY DEF WriteStatus
<1> DEFINE ids == {t[1] : t \in {u \in call[r].todo : u[2] = status}}
<1>2. diff' = [s \in Snapshots |->
        IF \E id \in ids : id[1] = s /\ Exists(id) THEN [diff[s] EXCEPT !.review = status] ELSE diff[s]]
  OBVIOUS
<1>3. \A id \in ids : <<id, status>> \in call[r].todo
  BY DEF IInv, Shape, CallShape, Call
<1>4. call[r] \in Call /\ call \in [Reviewers -> Call] /\ status \in Verdicts
  BY DEF IInv, Shape, CallShape, Call
<1> HIDE DEF ids
<1>5. \A s \in Snapshots : /\ diff'[s] \in Rows /\ diff'[s].id = diff[s].id
                           /\ diff'[s].processing = diff[s].processing
                           /\ diff'[s].review \in {diff[s].review, status}
                           /\ diff'[s].review # diff[s].review =>
                                \E id \in ids : id[1] = s /\ Exists(id)
  <2> SUFFICES ASSUME NEW s \in Snapshots
               PROVE  /\ diff'[s] \in Rows /\ diff'[s].id = diff[s].id
                      /\ diff'[s].processing = diff[s].processing
                      /\ diff'[s].review \in {diff[s].review, status}
                      /\ diff'[s].review # diff[s].review => \E id \in ids : id[1] = s /\ Exists(id)
    OBVIOUS
  <2>1. diff[s] \in Rows /\ status \in ReviewStatus
    BY <1>4 DEF IInv, Shape, RowShape, ReviewStatus
  <2>2. CASE diff'[s] = diff[s]
    BY <2>1, <2>2
  <2>3. CASE diff'[s] # diff[s]
    <3>1. (\E id \in ids : id[1] = s /\ Exists(id)) /\ diff'[s] = [diff[s] EXCEPT !.review = status]
      BY <1>2, <2>3
    <3>2. diff'[s] \in Rows /\ diff'[s].id = diff[s].id /\ diff'[s].processing = diff[s].processing
          /\ diff'[s].review = status
      BY <2>1, <3>1 DEF Rows
    <3> QED  BY <3>1, <3>2
  <2> QED  BY <2>2, <2>3
<1>6. RowShape' /\ BuildShape'
  BY <1>1, <1>2, <1>5 DEF IInv, Shape, RowShape, BuildShape
<1>7. CallShape' /\ \A q \in Reviewers : call'[q].ids \subseteq call[q].ids /\ call'[q].todo \subseteq call[q].todo
  <2> PICK c : /\ call' = [call EXCEPT ![r] = c]
               /\ c = IF Remaining(r, status) = {} THEN [NoCall EXCEPT !.pc = "build"]
                      ELSE [call[r] EXCEPT !.todo = Remaining(r, status)]
    BY <1>4
  <2>1. Remaining(r, status) \subseteq call[r].todo
    BY DEF Remaining
  <2>2. c \in Call /\ c.ids \subseteq call[r].ids /\ c.todo \subseteq call[r].todo
    BY <1>4, <2>1, NoCallIsCall DEF Call
  <2> QED  BY <1>4, <2>2 DEF CallShape
<1>8. \A q \in Reviewers : /\ \A id \in call[q].ids : id[1] \in Snapshots
                           /\ \A t \in call[q].todo : t[1][1] \in Snapshots
  BY DEF IInv, Shape, CallShape, Call, RowIds
<1>9. IdsAreOld'
  BY <1>5, <1>7, <1>8 DEF IInv, IdsAreOld
<1>10. TodoIsVoted'
  BY <1>1, <1>5, <1>7, <1>8 DEF IInv, TodoIsVoted, Exists, HasDiff
<1>11. VotesAreCounted'
  BY <1>1 DEF IInv, VotesAreCounted
<1>12. VerdictsAreVoted'
  <2> SUFFICES ASSUME NEW s \in Snapshots, HasDiff(s)', diff'[s].review \in Final
               PROVE  diff'[s].review \in verdicts[s]
    BY <1>1 DEF VerdictsAreVoted, Final
  <2>1. HasDiff(s)
    BY <1>5 DEF HasDiff
  <2>2. CASE diff'[s].review = diff[s].review
    BY <2>1, <2>2 DEF IInv, VerdictsAreVoted, Final
  <2>3. CASE diff'[s].review # diff[s].review
    <3> PICK id \in ids : id[1] = s /\ Exists(id)
      BY <1>5, <2>3
    <3>1. diff'[s].review = status /\ <<id, status>> \in call[r].todo
      BY <1>3, <1>5, <2>3
    <3> QED  BY <3>1 DEF IInv, TodoIsVoted
  <2> QED  BY <2>2, <2>3
<1> QED  BY <1>6, <1>7, <1>9, <1>10, <1>11, <1>12 DEF IInv, Shape

\* The rest of a call is about the build.
LEMMA BuildUpdateVoted ==
  ASSUME IInv, NEW r \in Reviewers, ReadBuild(r) \/ ReadDiffs(r) \/ UpdateBuild(r) \/ CallDies(r)
  PROVE  IInv'
<1>1. UNCHANGED <<diff, votes, verdicts, finalizer>>
  BY DEF ReadBuild, ReadDiffs, UpdateBuild, CallDies, dbVars
<1>2. call[r] \in Call /\ call \in [Reviewers -> Call]
  BY DEF IInv, Shape, CallShape
<1>3. ComputeBuildReview \in ReviewStatus
  BY DEF ComputeBuildReview, ReviewStatus, Verdicts
<1>4. PICK c \in Call : call' = [call EXCEPT ![r] = c] /\ c.ids \subseteq call[r].ids /\ c.todo \subseteq call[r].todo
  <2>1. CASE call' = [call EXCEPT ![r] = NoCall]
    BY <2>1, NoCallIsCall
  <2>2. CASE ReadBuild(r) /\ call' # [call EXCEPT ![r] = NoCall]
    <3> DEFINE c == [call[r] EXCEPT !.pc = "diffs", !.processing = processing, !.review = review]
    <3>1. c \in Call /\ c.ids = call[r].ids /\ c.todo = call[r].todo
      BY <1>2 DEF Call, IInv, Shape, BuildShape
    <3>2. call' = [call EXCEPT ![r] = c]
      BY <1>2, <2>2 DEF ReadBuild
    <3> HIDE DEF c
    <3> QED  BY <3>1, <3>2
  <2>3. CASE ReadDiffs(r) /\ call' # [call EXCEPT ![r] = NoCall]
    <3> DEFINE c == [call[r] EXCEPT !.pc = "update", !.review = ComputeBuildReview]
    <3>1. c \in Call /\ c.ids = call[r].ids /\ c.todo = call[r].todo
      BY <1>2, <1>3 DEF Call
    <3>2. call' = [call EXCEPT ![r] = c]
      BY <1>2, <2>3 DEF ReadDiffs
    <3> HIDE DEF c
    <3> QED  BY <3>1, <3>2
  <2> QED  BY <2>1, <2>2, <2>3 DEF UpdateBuild, CallDies
<1>5. CallShape' /\ \A q \in Reviewers : call'[q].ids \subseteq call[q].ids /\ call'[q].todo \subseteq call[q].todo
  BY <1>2, <1>4 DEF CallShape
<1>6. BuildShape'
  <2>1. CASE UpdateBuild(r)
    BY <1>1, <1>2, <2>1 DEF UpdateBuild, BuildUnlessCanceled, IInv, Shape, BuildShape, Call
  <2>2. CASE ~UpdateBuild(r)
    BY <1>1, <2>2 DEF ReadBuild, ReadDiffs, CallDies, dbVars, IInv, Shape, BuildShape
  <2> QED  BY <2>1, <2>2
<1> QED  BY <1>1, <1>5, <1>6, RowsKept

\* Every step of the pipeline and of every call.
LEMMA StepVoted == IInv /\ [Next]_vars => IInv'
<1> SUFFICES ASSUME IInv, [Next]_vars PROVE IInv'
  OBVIOUS
<1>1. CASE Pipeline
  BY <1>1, CompareVoted, BuildStepVoted, RebuildVoted DEF Pipeline
<1>2. ASSUME NEW r \in Reviewers, Voting(r) \/ CallDies(r) PROVE IInv'
  BY <1>2, CallsStartVoted, StoreVoted, RecomputeVoted, WriteVoted, BuildUpdateVoted DEF Voting
<1>3. CASE UNCHANGED vars
  <2>1. Shape'
    BY <1>3 DEF vars, dbVars, IInv, Shape, BuildShape, RowShape, CallShape
  <2> QED  BY <1>3, <2>1, RowsKept DEF vars, dbVars, Shape
<1> QED  BY <1>1, <1>2, <1>3 DEF Next

\* However votes, removals, bulk votes, rebuilds, repeated comparisons and failures interleave,
\* a diff is approved or rejected only if the votes on this very diff once amounted to that
\* (castVote, removeVote, bulkCastVote, rebuildSnapshots).
THEOREM VotedVerdicts == Spec => []VerdictsAreVoted
<1>1. IInv => VerdictsAreVoted
  BY DEF IInv
<1> QED  BY <1>1, InitVoted, StepVoted, PTL DEF Spec

\* A canceled build stays canceled, with the review status it had: no finalization and no
\* call that began before the cancellation writes either (builds.updateResult).
THEOREM CanceledIsFrozen == Spec => CanceledKeepsReview
<1>1. ASSUME [Next]_vars, processing = "canceled" PROVE UNCHANGED <<processing, review>>
  <2>1. CASE Pipeline
    <3>1. ASSUME NEW s \in Snapshots, Compare(s) \/ CompareAgain(s)
          PROVE  UNCHANGED <<processing, review>>
      BY <3>1 DEF Compare, CompareAgain
    <3>2. CASE FinalizeRead \/ FinalizeWrite
      BY <1>1, <3>2 DEF FinalizeRead, FinalizeWrite, BuildUnlessCanceled, dbVars
    <3>3. CASE Reap \/ Stop
      BY <1>1, <3>3 DEF Reap, Stop, InProgress
    <3>4. ASSUME NEW rows \in SUBSET Snapshots, Rebuild(rows) PROVE FALSE
      BY <1>1, <3>4 DEF Rebuild
    <3> QED  BY <2>1, <3>1, <3>2, <3>3, <3>4 DEF Pipeline
  <2>2. ASSUME NEW r \in Reviewers, Voting(r) \/ CallDies(r)
        PROVE  UNCHANGED <<processing, review>>
    <3>1. CASE UpdateBuild(r)
      BY <1>1, <3>1 DEF UpdateBuild, BuildUnlessCanceled
    <3>2. CASE ~UpdateBuild(r)
      BY <2>2, <3>2 DEF Voting, CastVote, RemoveVote, BulkCastVote, Start, StoreVote, Recompute, WriteStatus,
                        ReadBuild, ReadDiffs, CallDies, dbVars
    <3> QED  BY <3>1, <3>2
  <2>3. CASE UNCHANGED vars
    BY <2>3 DEF vars, dbVars
  <2> QED  BY <1>1, <2>1, <2>2, <2>3 DEF Next
<1> QED  BY <1>1, PTL DEF Spec, CanceledKeepsReview

-----------------------------------------------------------------------------
(* The status of a diff and its votes *)

\* A vote is kept only with the row it is on.
VotesNeedRow == \A s \in Snapshots : ~HasDiff(s) => votes[s] = NoVotes

\* A single vote is for one row, and what a call is to write is for its rows.
CallIsOwn ==
  \A r \in Reviewers :
    /\ call[r].kind # "bulk" => \A i, j \in call[r].ids : i = j
    /\ \A t \in call[r].todo : t[1] \in call[r].ids

\* Unless the votes of a row have clashed, one call at a time counts them.
OneCounts ==
  \A s \in Snapshots \ clashed : \A q, r \in Reviewers : Counting(q, s) /\ Counting(r, s) => q = r

\* A call that writes statuses is to write what the votes amount to, or has written it.
WritesAreRight ==
  \A r \in Reviewers : call[r].pc = "write" =>
    \A id \in call[r].ids : Exists(id) /\ id[1] \notin clashed =>
      /\ \A t \in call[r].todo : t[1] = id => t[2] = ComputeReview(votes[id[1]])
      /\ (\A t \in call[r].todo : t[1] # id) => diff[id[1]].review = ComputeReview(votes[id[1]])

CountInv == VotesNeedRow /\ CallIsOwn /\ OneCounts /\ WritesAreRight /\ VotesCount

\* The rows of calls are rows of snapshots, told apart by their numbers.
LEMMA CallIds ==
  ASSUME IInv, NEW r \in Reviewers
  PROVE  /\ call[r] \in Call
         /\ \A i \in call[r].ids : i[1] \in Snapshots /\ i[2] \in Nat /\ i[2] <= diff[i[1]].id
         /\ \A i, j \in call[r].ids : Exists(i) /\ Exists(j) /\ i[1] = j[1] => i = j
<1>1. call[r] \in Call /\ call[r].ids \in SUBSET RowIds
  BY DEF IInv, Shape, CallShape, Call
<1>2. \A i \in call[r].ids : i = <<i[1], i[2]>> /\ i[1] \in Snapshots /\ i[2] \in Nat
  BY <1>1 DEF RowIds
<1> QED  BY <1>1, <1>2 DEF IInv, IdsAreOld, Exists

LEMMA InitCounts == Init => CountInv
<1> SUFFICES ASSUME Init PROVE CountInv
  OBVIOUS
<1>1. \A r \in Reviewers : call[r] = NoCall
  BY DEF Init
<1>2. VotesNeedRow /\ VotesCount
  BY DEF Init, VotesNeedRow, VotesCount, Reviewable, HasDiff
<1>3. CallIsOwn
  BY <1>1, NoCallIsCall DEF CallIsOwn
<1>4. OneCounts /\ WritesAreRight
  BY <1>1 DEF OneCounts, WritesAreRight, Counting, NoCall
<1> QED  BY <1>2, <1>3, <1>4 DEF CountInv

\* A step that changes no row, in which calls stop or start and none begins to count.
LEMMA CountKept ==
  ASSUME CountInv, UNCHANGED <<diff, votes>>, clashed \subseteq clashed',
         \A q \in Reviewers :
           \/ call'[q] = call[q]
           \/ /\ call'[q].pc \notin {"recompute", "write"}
              /\ call'[q].kind # "bulk" => \A i, j \in call'[q].ids : i = j
              /\ \A t \in call'[q].todo : t[1] \in call'[q].ids
              /\ \A s \in Snapshots \ clashed' : ~Counting(q, s)
  PROVE  CountInv'
<1>1. \A q \in Reviewers : \A s \in Snapshots \ clashed' : Counting(q, s)' <=> Counting(q, s)
  BY DEF Counting, Exists, HasDiff
<1>2. VotesNeedRow' /\ CallIsOwn'
  BY DEF CountInv, VotesNeedRow, HasDiff, CallIsOwn
<1>3. OneCounts'
  BY <1>1 DEF CountInv, OneCounts
<1>4. VotesCount'
  BY <1>1 DEF CountInv, VotesCount, Reviewable, HasDiff
<1>5. WritesAreRight'
  <2> SUFFICES ASSUME NEW r \in Reviewers, call'[r].pc = "write", NEW id \in call'[r].ids,
                      Exists(id)', id[1] \notin clashed'
               PROVE  /\ \A t \in call'[r].todo : t[1] = id => t[2] = ComputeReview(votes[id[1]])
                      /\ (\A t \in call'[r].todo : t[1] # id) =>
                            diff[id[1]].review = ComputeReview(votes[id[1]])
    BY DEF WritesAreRight
  <2>1. call'[r] = call[r]
    OBVIOUS
  <2>2. Exists(id) /\ id[1] \notin clashed
    BY DEF Exists, HasDiff
  <2> QED  BY <2>1, <2>2 DEF CountInv, WritesAreRight
<1> QED  BY <1>2, <1>3, <1>4, <1>5 DEF CountInv

\* A step of the pipeline: a row that changes has no votes and no calls, or is clashed.
LEMMA CountRows ==
  ASSUME IInv, CountInv, call' = call,
         \A s \in Snapshots :
           \/ diff'[s] = diff[s] /\ votes'[s] = votes[s] /\ (s \in clashed => s \in clashed')
           \/ HasDiff(s)' /\ s \in clashed'
           \/ /\ \A q \in Reviewers : \A id \in call[q].ids : id[1] = s => ~Exists(id)'
              /\ votes'[s] = NoVotes
              /\ Reviewable(s)' => diff'[s].review = "needs_review"
  PROVE  CountInv'
<1> DEFINE Same(s) == diff'[s] = diff[s] /\ votes'[s] = votes[s] /\ s \notin clashed
           Gone(s) == /\ \A q \in Reviewers : \A id \in call[q].ids : id[1] = s => ~Exists(id)'
                      /\ votes'[s] = NoVotes
                      /\ Reviewable(s)' => diff'[s].review = "needs_review"
<1>1. \A s \in Snapshots \ clashed' : Same(s) \/ Gone(s)
  OBVIOUS
<1>2. ASSUME NEW s \in Snapshots, Same(s), NEW q \in Reviewers
      PROVE  /\ Counting(q, s)' <=> Counting(q, s)
             /\ \A id \in call[q].ids : id[1] = s => (Exists(id)' <=> Exists(id))
  BY <1>2 DEF Counting, Exists, HasDiff
<1>3. ASSUME NEW s \in Snapshots, Gone(s), NEW q \in Reviewers PROVE ~Counting(q, s)'
  BY <1>3 DEF Counting
<1>4. VotesNeedRow'
  BY DEF CountInv, VotesNeedRow, HasDiff
<1>5. CallIsOwn'
  BY DEF CountInv, CallIsOwn
<1>6. OneCounts'
  <2> SUFFICES ASSUME NEW s \in Snapshots \ clashed', NEW q \in Reviewers, NEW r \in Reviewers,
                      Counting(q, s)', Counting(r, s)'
               PROVE  q = r
    BY DEF OneCounts
  <2>1. Same(s)
    BY <1>1, <1>3
  <2> QED  BY <1>2, <2>1 DEF CountInv, OneCounts
<1>7. WritesAreRight'
  <2> SUFFICES ASSUME NEW r \in Reviewers, call[r].pc = "write", NEW id \in call[r].ids,
                      Exists(id)', id[1] \notin clashed'
               PROVE  /\ \A t \in call[r].todo : t[1] = id => t[2] = ComputeReview(votes'[id[1]])
                      /\ (\A t \in call[r].todo : t[1] # id) =>
                            diff'[id[1]].review = ComputeReview(votes'[id[1]])
    BY DEF WritesAreRight, ComputeReview
  <2>1. id[1] \in Snapshots
    BY CallIds
  <2>2. Same(id[1]) /\ Exists(id)
    BY <1>1, <1>2, <2>1
  <2> QED  BY <2>2 DEF CountInv, WritesAreRight
<1>8. VotesCount'
  <2> SUFFICES ASSUME NEW s \in Snapshots \ clashed', Reviewable(s)', \A r \in Reviewers : ~Counting(r, s)'
               PROVE  diff'[s].review = ComputeReview(votes'[s])
    BY DEF VotesCount, ComputeReview
  <2>1. CASE Same(s)
    <3>1. Reviewable(s) /\ \A r \in Reviewers : ~Counting(r, s)
      BY <1>2, <2>1 DEF Reviewable, HasDiff
    <3> QED  BY <2>1, <3>1 DEF CountInv, VotesCount
  <2>2. CASE Gone(s)
    BY <2>2, NoVotesNeedReview
  <2> QED  BY <1>1, <2>1, <2>2
<1> QED  BY <1>4, <1>5, <1>6, <1>7, <1>8 DEF CountInv

\* Comparisons and rebuilds.
LEMMA RowsCount ==
  ASSUME IInv, CountInv,
         \/ \E s \in Snapshots : Compare(s) \/ CompareAgain(s)
         \/ \E rows \in SUBSET Snapshots : Rebuild(rows)
  PROVE  CountInv'
<1>0. diff \in [Snapshots -> Rows]
  BY DEF IInv, Shape, RowShape
<1>1. ASSUME NEW s \in Snapshots, Compare(s) PROVE CountInv'
  <2> PICK result \in Outcomes :
        diff' = [diff EXCEPT ![s] =
          [id |-> diff[s].id + 1, processing |-> IF result = "error" THEN "error" ELSE "success",
           review |-> IF result = "error" THEN "not_required" ELSE result]]
    BY <1>1 DEF Compare
  <2>1. ~HasDiff(s) /\ UNCHANGED <<call, votes, clashed>>
    BY <1>1 DEF Compare, ghosts
  <2>2. diff'[s].id = diff[s].id + 1 /\ diff'[s].review \in Outcomes \cup {"not_required"}
        /\ \A t \in Snapshots \ {s} : diff'[t] = diff[t]
    BY <1>0
  <2>3. \A q \in Reviewers : \A id \in call[q].ids : id[1] = s => ~Exists(id)'
    <3>1. diff[s].id \in Nat
      BY <1>0 DEF Rows
    <3> QED  BY <2>2, <3>1, CallIds DEF Exists
  <2>4. votes'[s] = NoVotes
    BY <2>1 DEF CountInv, VotesNeedRow
  <2>5. Reviewable(s)' => diff'[s].review = "needs_review"
    BY <2>2, OutcomesAssumption DEF Reviewable
  <2> QED  BY <2>1, <2>2, <2>3, <2>4, <2>5, CountRows
<1>2. ASSUME NEW s \in Snapshots, CompareAgain(s) PROVE CountInv'
  <2>1. HasDiff(s) /\ UNCHANGED <<call, votes>> /\ clashed' = clashed \cup {s}
    BY <1>2 DEF CompareAgain
  <2> PICK result \in Outcomes :
        diff' = IF result = "error" THEN [diff EXCEPT ![s].processing = "error"]
                ELSE [diff EXCEPT ![s].processing = "success", ![s].review = result]
    BY <1>2 DEF CompareAgain
  <2>2. HasDiff(s)' /\ \A t \in Snapshots \ {s} : diff'[t] = diff[t]
    BY <1>0, <2>1 DEF HasDiff, Rows
  <2> QED  BY <2>1, <2>2, CountRows
<1>3. ASSUME NEW rows \in SUBSET Snapshots, Rebuild(rows) PROVE CountInv'
  <2>1. call' = call /\ clashed' = clashed \ rows
    BY <1>3 DEF Rebuild
  <2>2. \A s \in Snapshots \ rows : diff'[s] = diff[s] /\ votes'[s] = votes[s]
    BY <1>3 DEF Rebuild
  <2>3. \A s \in rows : ~HasDiff(s)' /\ votes'[s] = NoVotes
    <3> SUFFICES ASSUME NEW s \in rows PROVE ~HasDiff(s)' /\ votes'[s] = NoVotes
      OBVIOUS
    <3>1. diff'[s] = [diff[s] EXCEPT !.processing = "none", !.review = "not_required"] /\ diff[s] \in Rows
      BY <1>0, <1>3 DEF Rebuild
    <3>2. votes'[s] = NoVotes
      BY <1>3 DEF Rebuild
    <3> QED  BY <3>1, <3>2 DEF HasDiff, Rows
  <2>4. \A s \in rows : ~Reviewable(s)' /\ \A id : id[1] = s => ~Exists(id)'
    BY <2>3 DEF Reviewable, Exists
  <2> QED  BY <2>1, <2>2, <2>3, <2>4, CountRows
<1> QED  BY <1>1, <1>2, <1>3

\* Calls start, end, read, and the build is written.
LEMMA CallsCount ==
  ASSUME IInv, CountInv,
         \/ FinalizeRead \/ FinalizeWrite \/ Reap \/ Stop
         \/ \E r \in Reviewers : \/ CastVote(r) \/ RemoveVote(r) \/ BulkCastVote(r)
                                 \/ ReadBuild(r) \/ ReadDiffs(r) \/ UpdateBuild(r) \/ CallDies(r)
  PROVE  CountInv'
<1>0. call \in [Reviewers -> Call]
  BY DEF IInv, Shape, CallShape
<1>1. CASE FinalizeRead \/ FinalizeWrite \/ Reap \/ Stop
  <2>1. UNCHANGED <<diff, votes, clashed, call>>
    BY <1>1 DEF FinalizeRead, FinalizeWrite, Reap, Stop, dbVars, ghosts
  <2> QED  BY <2>1, CountKept
<1>2. ASSUME NEW r \in Reviewers, NEW c, call' = [call EXCEPT ![r] = c], UNCHANGED <<diff, votes>>,
             clashed \subseteq clashed', c.pc \notin {"recompute", "write"},
             c.kind # "bulk" => \A i, j \in c.ids : i = j,
             \A t \in c.todo : t[1] \in c.ids, \A s \in Snapshots \ clashed' : ~Counting(r, s)
      PROVE  CountInv'
  <2>1. call'[r] = c /\ \A q \in Reviewers \ {r} : call'[q] = call[q]
    BY <1>0, <1>2
  <2> QED  BY <1>2, <2>1, CountKept
<1>3. ASSUME NEW r \in Reviewers, NEW c, Start(r, c), c.pc = "store", c.todo = {},
             c.kind # "bulk" => \A i, j \in c.ids : i = j
      PROVE  CountInv'
  <2>1. call' = [call EXCEPT ![r] = c] /\ UNCHANGED <<diff, votes, clashed>> /\ \A s : ~Counting(r, s)
    BY <1>3 DEF Start, dbVars, ghosts, Busy, Counting
  <2> QED  BY <1>2, <1>3, <2>1
<1>4. ASSUME NEW r \in Reviewers, CastVote(r) \/ RemoveVote(r) \/ BulkCastVote(r) PROVE CountInv'
  <2> PICK c : Start(r, c) /\ Storing(c)
    BY <1>4, StartFacts
  <2> QED  BY <1>3 DEF Storing
<1>5. ASSUME NEW r \in Reviewers, ReadBuild(r) \/ ReadDiffs(r) \/ UpdateBuild(r) PROVE CountInv'
  <2>1. UNCHANGED <<diff, votes, clashed>> /\ \A s : ~Counting(r, s)
    BY <1>5 DEF ReadBuild, ReadDiffs, UpdateBuild, dbVars, ghosts, Counting
  <2>2. CASE call' = [call EXCEPT ![r] = NoCall]
    <3>1. NoCall.pc \notin {"recompute", "write"} /\ NoCall.ids = {} /\ NoCall.todo = {}
      BY DEF NoCall
    <3> QED  BY <1>2, <2>1, <2>2, <3>1
  <2>3. CASE call' # [call EXCEPT ![r] = NoCall]
    <3> PICK c : /\ call' = [call EXCEPT ![r] = c] /\ c.pc \in {"diffs", "update"}
                 /\ c.ids = call[r].ids /\ c.todo = call[r].todo /\ c.kind = call[r].kind
      <4>1. call[r] \in Call
        BY <1>0
      <4>2. CASE ReadBuild(r)
        <5> DEFINE c == [call[r] EXCEPT !.pc = "diffs", !.processing = processing, !.review = review]
        <5>1. call' = [call EXCEPT ![r] = c]
          BY <1>0, <2>3, <4>2 DEF ReadBuild
        <5>2. c.pc = "diffs" /\ c.ids = call[r].ids /\ c.todo = call[r].todo /\ c.kind = call[r].kind
          BY <4>1 DEF Call
        <5> HIDE DEF c
        <5> QED  BY <5>1, <5>2
      <4>3. CASE ReadDiffs(r)
        <5> DEFINE c == [call[r] EXCEPT !.pc = "update", !.review = ComputeBuildReview]
        <5>1. call' = [call EXCEPT ![r] = c]
          BY <1>0, <2>3, <4>3 DEF ReadDiffs
        <5>2. c.pc = "update" /\ c.ids = call[r].ids /\ c.todo = call[r].todo /\ c.kind = call[r].kind
          BY <4>1 DEF Call
        <5> HIDE DEF c
        <5> QED  BY <5>1, <5>2
      <4> QED  BY <1>5, <2>3, <4>2, <4>3 DEF UpdateBuild
    <3>1. /\ c.kind # "bulk" => \A i, j \in c.ids : i = j
          /\ \A t \in c.todo : t[1] \in c.ids
      BY DEF CountInv, CallIsOwn
    <3> QED  BY <1>2, <2>1, <3>1
  <2> QED  BY <2>2, <2>3
<1>6. ASSUME NEW r \in Reviewers, CallDies(r) PROVE CountInv'
  <2>1. /\ call' = [call EXCEPT ![r] = NoCall] /\ UNCHANGED <<diff, votes>>
        /\ clashed' = clashed \cup {s \in Snapshots : Counting(r, s)}
    BY <1>6 DEF CallDies, dbVars
  <2>2. NoCall.pc \notin {"recompute", "write"} /\ NoCall.ids = {} /\ NoCall.todo = {}
    BY DEF NoCall
  <2> QED  BY <1>2, <2>1, <2>2
<1> QED  BY <1>1, <1>4, <1>5, <1>6

\* A vote on a row that another call counts is a clash; on any other it begins the count.
LEMMA StoreCounts ==
  ASSUME IInv, CountInv, NEW r \in Reviewers, StoreVote(r)
  PROVE  CountInv'
<1>0. call \in [Reviewers -> Call] /\ call[r] \in Call /\ diff' = diff /\ call[r].pc = "store"
  BY DEF IInv, Shape, CallShape, StoreVote
<1>1. \A s : ~Counting(r, s)
  BY <1>0 DEF Counting
<1>2. CASE ~Storable(r)
  <2>1. call' = [call EXCEPT ![r] = NoCall] /\ UNCHANGED <<votes, clashed>>
    BY <1>2 DEF StoreVote, ghosts
  <2>2. \A q \in Reviewers : call'[q] = IF q = r THEN NoCall ELSE call[q]
    BY <1>0, <2>1
  <2> QED  BY <1>0, <1>1, <2>1, <2>2, CountKept DEF NoCall
<1>3. CASE Storable(r)
  <2> DEFINE on == {id[1] : id \in {i \in call[r].ids : Exists(i)}}
  <2>1. /\ votes' = [s \in Snapshots |->
             IF s \in on THEN [of \in Reviewers |-> IF of \in call[r].of THEN call[r].vote ELSE votes[s][of]]
             ELSE votes[s]]
        /\ clashed' = clashed \cup {s \in on : \E q \in Reviewers \ {r} : Counting(q, s)}
        /\ call' = [call EXCEPT ![r].pc = "recompute", ![r].of = {}, ![r].vote = "none"]
    BY <1>3 DEF StoreVote
  <2>2. \A s : s \in on <=> \E id \in call[r].ids : id[1] = s /\ Exists(id)
    OBVIOUS
  <2> HIDE DEF on
  <2>3. /\ call'[r].pc = "recompute" /\ call'[r].ids = call[r].ids /\ call'[r].todo = call[r].todo
        /\ call'[r].kind = call[r].kind
        /\ \A q \in Reviewers \ {r} : call'[q] = call[q]
    BY <1>0, <2>1 DEF Call
  <2>4. \A id : Exists(id)' <=> Exists(id)
    BY <1>0 DEF Exists, HasDiff
  <2>5. \A s : /\ Counting(r, s)' <=> s \in on
               /\ \A q \in Reviewers \ {r} : Counting(q, s)' <=> Counting(q, s)
    BY <2>2, <2>3, <2>4 DEF Counting
  <2>6. \A s \in Snapshots \ on : votes'[s] = votes[s]
    BY <2>1
  <2>7. \A s \in on : s \notin clashed' => \A q \in Reviewers \ {r} : ~Counting(q, s)
    BY <2>1
  <2>8. VotesNeedRow'
    <3>1. \A s \in Snapshots : ~HasDiff(s)' => ~HasDiff(s) /\ s \notin on
      BY <1>0, <2>2 DEF Exists, HasDiff
    <3> QED  BY <2>6, <3>1 DEF CountInv, VotesNeedRow
  <2>9. CallIsOwn'
    BY <2>3 DEF CountInv, CallIsOwn
  <2>10. OneCounts'
    <3> SUFFICES ASSUME NEW s \in Snapshots \ clashed', NEW p \in Reviewers, NEW q \in Reviewers,
                        Counting(p, s)', Counting(q, s)'
                 PROVE  p = q
      BY DEF OneCounts
    <3>1. CASE s \in on
      BY <2>5, <2>7, <3>1
    <3>2. CASE s \notin on
      BY <2>1, <2>5, <3>2 DEF CountInv, OneCounts
    <3> QED  BY <3>1, <3>2
  <2>11. WritesAreRight'
    <3> SUFFICES ASSUME NEW q \in Reviewers, call'[q].pc = "write", NEW id \in call'[q].ids,
                        Exists(id)', id[1] \notin clashed'
                 PROVE  /\ \A t \in call'[q].todo : t[1] = id => t[2] = ComputeReview(votes'[id[1]])
                        /\ (\A t \in call'[q].todo : t[1] # id) =>
                              diff'[id[1]].review = ComputeReview(votes'[id[1]])
      BY DEF WritesAreRight, ComputeReview
    <3>1. q # r /\ call'[q] = call[q]
      BY <2>3
    <3>2. Counting(q, id[1]) /\ id[1] \in Snapshots
      BY <2>4, <3>1, CallIds DEF Counting
    <3>3. votes'[id[1]] = votes[id[1]] /\ id[1] \notin clashed
      BY <2>1, <2>6, <2>7, <3>1, <3>2
    <3> QED  BY <1>0, <2>4, <3>1, <3>3 DEF CountInv, WritesAreRight
  <2>12. VotesCount'
    <3> SUFFICES ASSUME NEW s \in Snapshots \ clashed', Reviewable(s)', \A q \in Reviewers : ~Counting(q, s)'
                 PROVE  diff'[s].review = ComputeReview(votes'[s])
      BY DEF VotesCount, ComputeReview
    <3>1. s \notin on /\ s \notin clashed /\ Reviewable(s) /\ \A q \in Reviewers : ~Counting(q, s)
      BY <1>0, <1>1, <2>1, <2>5 DEF Reviewable, HasDiff
    <3> QED  BY <1>0, <2>6, <3>1 DEF CountInv, VotesCount
  <2> QED  BY <2>8, <2>9, <2>10, <2>11, <2>12 DEF CountInv
<1> QED  BY <1>2, <1>3

\* What a call is to write is computed from the votes as they are.
LEMMA RecomputeCounts ==
  ASSUME IInv, CountInv, NEW r \in Reviewers, Recompute(r)
  PROVE  CountInv'
<1>0. call \in [Reviewers -> Call] /\ call[r] \in Call /\ UNCHANGED <<diff, votes, clashed>>
      /\ call[r].pc = "recompute"
  BY DEF IInv, Shape, CallShape, Recompute, dbVars, ghosts
<1>1. CASE call[r].kind # "bulk" /\ \E id \in call[r].ids : ~Exists(id)
  <2>1. call' = [call EXCEPT ![r] = NoCall]
    BY <1>1 DEF Recompute
  <2>2. \A q \in Reviewers : call'[q] = IF q = r THEN NoCall ELSE call[q]
    BY <1>0, <2>1
  <2>3. \A s : ~Counting(r, s)
    BY <1>1 DEF CountInv, CallIsOwn, Counting
  <2> QED  BY <1>0, <2>2, <2>3, CountKept DEF NoCall
<1>2. CASE ~(call[r].kind # "bulk" /\ \E id \in call[r].ids : ~Exists(id))
  <2> DEFINE todo == {<<id, ComputeReview(VotesOf(id))>> : id \in call[r].ids}
  <2>1. call' = [call EXCEPT ![r] = [call[r] EXCEPT !.pc = "write", !.todo = todo]]
    BY <1>0, <1>2 DEF Recompute
  <2>2. /\ \A t \in todo : t[1] \in call[r].ids /\ t[2] = ComputeReview(VotesOf(t[1]))
        /\ \A id \in call[r].ids : \E t \in todo : t[1] = id
    <3>1. ASSUME NEW id \in call[r].ids PROVE \E t \in todo : t[1] = id
      <4>1. <<id, ComputeReview(VotesOf(id))>> \in todo
        OBVIOUS
      <4> QED  BY <4>1
    <3>2. \A t \in todo : t[1] \in call[r].ids /\ t[2] = ComputeReview(VotesOf(t[1]))
      OBVIOUS
    <3> QED  BY <3>1, <3>2
  <2> HIDE DEF todo
  <2>3. /\ call'[r].pc = "write" /\ call'[r].ids = call[r].ids /\ call'[r].todo = todo
        /\ call'[r].kind = call[r].kind
        /\ \A q \in Reviewers \ {r} : call'[q] = call[q]
    BY <1>0, <2>1 DEF Call
  <2>4. \A id : Exists(id)' <=> Exists(id)
    BY <1>0 DEF Exists, HasDiff
  <2>5. \A s : \A q \in Reviewers : Counting(q, s)' <=> Counting(q, s)
    BY <1>0, <2>3, <2>4 DEF Counting
  <2>6. VotesNeedRow' /\ CallIsOwn'
    BY <1>0, <2>2, <2>3 DEF CountInv, VotesNeedRow, HasDiff, CallIsOwn
  <2>7. OneCounts'
    BY <1>0, <2>5 DEF CountInv, OneCounts
  <2>8. VotesCount'
    BY <1>0, <2>5 DEF CountInv, VotesCount, Reviewable, HasDiff
  <2>9. WritesAreRight'
    <3> SUFFICES ASSUME NEW q \in Reviewers, call'[q].pc = "write", NEW id \in call'[q].ids,
                        Exists(id)', id[1] \notin clashed'
                 PROVE  /\ \A t \in call'[q].todo : t[1] = id => t[2] = ComputeReview(votes[id[1]])
                        /\ (\A t \in call'[q].todo : t[1] # id) =>
                              diff[id[1]].review = ComputeReview(votes[id[1]])
      BY <1>0 DEF WritesAreRight
    <3>1. CASE q = r
      BY <2>2, <2>3, <2>4, <3>1 DEF VotesOf
    <3>2. CASE q # r
      BY <1>0, <2>3, <2>4, <3>2 DEF CountInv, WritesAreRight
    <3> QED  BY <3>1, <3>2
  <2> QED  BY <2>6, <2>7, <2>8, <2>9 DEF CountInv
<1> QED  BY <1>1, <1>2

\* What a write of one status does to the rows and to the call.
LEMMA WriteFacts ==
  ASSUME IInv, CountInv, NEW r \in Reviewers, WriteStatus(r)
  PROVE  \E status \in Verdicts :
           /\ \A s \in Snapshots :
                /\ diff'[s].id = diff[s].id /\ diff'[s].processing = diff[s].processing
                /\ diff'[s].review = IF \E id \in call[r].ids : /\ id[1] = s /\ Exists(id)
                                                                /\ <<id, status>> \in call[r].todo
                                     THEN status ELSE diff[s].review
           /\ IF Remaining(r, status) = {} THEN call'[r] = [NoCall EXCEPT !.pc = "build"]
              ELSE /\ call'[r].pc = "write" /\ call'[r].ids = call[r].ids
                   /\ call'[r].kind = call[r].kind /\ call'[r].todo = Remaining(r, status)
<1>1. call \in [Reviewers -> Call] /\ call[r] \in Call /\ diff \in [Snapshots -> Rows] /\ call[r].pc = "write"
  BY DEF IInv, Shape, CallShape, RowShape, WriteStatus
<1>2. \A t \in call[r].todo : t = <<t[1], t[2]>> /\ t[1] \in call[r].ids /\ t[2] \in Verdicts
  BY <1>1 DEF Call, CountInv, CallIsOwn
<1> PICK status \in {t[2] : t \in call[r].todo} :
      LET ids == {t[1] : t \in {u \in call[r].todo : u[2] = status}} IN
      /\ diff' = [s \in Snapshots |->
           IF \E id \in ids : id[1] = s /\ Exists(id) THEN [diff[s] EXCEPT !.review = status] ELSE diff[s]]
      /\ call' = [call EXCEPT ![r] = IF Remaining(r, status) = {} THEN [NoCall EXCEPT !.pc = "build"]
                                     ELSE [@ EXCEPT !.todo = Remaining(r, status)]]
  BY DEF WriteStatus
<1> DEFINE ids == {t[1] : t \in {u \in call[r].todo : u[2] = status}}
           Hit(s) == \E id \in ids : id[1] = s /\ Exists(id)
<1>3. \A id : id \in ids <=> id \in call[r].ids /\ <<id, status>> \in call[r].todo
  BY <1>2
<1>4. diff' = [s \in Snapshots |-> IF Hit(s) THEN [diff[s] EXCEPT !.review = status] ELSE diff[s]]
  OBVIOUS
<1>5. call' = [call EXCEPT ![r] = IF Remaining(r, status) = {} THEN [NoCall EXCEPT !.pc = "build"]
                                  ELSE [call[r] EXCEPT !.todo = Remaining(r, status)]]
  BY <1>1
<1>6. status \in Verdicts
  BY <1>2
<1>7. IF Remaining(r, status) = {} THEN call'[r] = [NoCall EXCEPT !.pc = "build"]
      ELSE /\ call'[r].pc = "write" /\ call'[r].ids = call[r].ids
           /\ call'[r].kind = call[r].kind /\ call'[r].todo = Remaining(r, status)
  BY <1>1, <1>5 DEF Call
<1> HIDE DEF ids
<1>8. \A s \in Snapshots :
        /\ diff'[s].id = diff[s].id /\ diff'[s].processing = diff[s].processing
        /\ diff'[s].review = IF Hit(s) THEN status ELSE diff[s].review
  BY <1>1, <1>4 DEF Rows
<1>9. \A s : Hit(s) <=> \E id \in call[r].ids : id[1] = s /\ Exists(id) /\ <<id, status>> \in call[r].todo
  BY <1>3
<1>10. \A s \in Snapshots :
         /\ diff'[s].id = diff[s].id /\ diff'[s].processing = diff[s].processing
         /\ diff'[s].review = IF \E id \in call[r].ids : /\ id[1] = s /\ Exists(id)
                                                          /\ <<id, status>> \in call[r].todo
                              THEN status ELSE diff[s].review
  BY <1>8, <1>9
<1> QED  BY <1>6, <1>7, <1>10

\* A row that is not clashed gets what its votes amount to, and keeps it.
LEMMA WriteCounts ==
  ASSUME IInv, CountInv, NEW r \in Reviewers, WriteStatus(r)
  PROVE  CountInv'
<1>0. call \in [Reviewers -> Call] /\ call[r] \in Call /\ UNCHANGED <<votes, clashed>>
      /\ call[r].pc = "write"
  BY DEF IInv, Shape, CallShape, WriteStatus, ghosts
<1>1. PICK status \in Verdicts :
        /\ \A s \in Snapshots :
             /\ diff'[s].id = diff[s].id /\ diff'[s].processing = diff[s].processing
             /\ diff'[s].review = IF \E id \in call[r].ids : /\ id[1] = s /\ Exists(id)
                                                             /\ <<id, status>> \in call[r].todo
                                  THEN status ELSE diff[s].review
        /\ IF Remaining(r, status) = {} THEN call'[r] = [NoCall EXCEPT !.pc = "build"]
           ELSE /\ call'[r].pc = "write" /\ call'[r].ids = call[r].ids
                /\ call'[r].kind = call[r].kind /\ call'[r].todo = Remaining(r, status)
  BY WriteFacts
<1>2. \A q \in Reviewers \ {r} : call'[q] = call[q]
  BY <1>0 DEF WriteStatus
<1>3. \A s \in Snapshots : HasDiff(s)' <=> HasDiff(s)
  BY <1>1 DEF HasDiff
<1>4. \A id : id[1] \in Snapshots => (Exists(id)' <=> Exists(id))
  BY <1>1, <1>3 DEF Exists
<1>5. ASSUME NEW q \in Reviewers, NEW s \in Snapshots, Counting(q, s)' PROVE Counting(q, s)
  <2>1. q # r \/ call'[r].ids = call[r].ids
    BY <1>1, <1>5 DEF Counting, NoCall
  <2> QED  BY <1>0, <1>2, <1>4, <1>5, <2>1 DEF Counting
<1>6. ASSUME NEW id \in call[r].ids, Exists(id), id[1] \notin clashed
      PROVE  /\ \A t \in Remaining(r, status) : t[1] = id => t[2] = ComputeReview(votes[id[1]])
             /\ (\A t \in Remaining(r, status) : t[1] # id) => diff'[id[1]].review = ComputeReview(votes[id[1]])
  <2>1. /\ \A t \in call[r].todo : t[1] = id => t[2] = ComputeReview(votes[id[1]])
        /\ (\A t \in call[r].todo : t[1] # id) => diff[id[1]].review = ComputeReview(votes[id[1]])
    BY <1>0, <1>6 DEF CountInv, WritesAreRight
  <2>2. \A t \in Remaining(r, status) : t[1] = id => t[2] = ComputeReview(votes[id[1]])
    BY <2>1 DEF Remaining
  <2>3. ASSUME \A t \in Remaining(r, status) : t[1] # id
        PROVE  diff'[id[1]].review = ComputeReview(votes[id[1]])
    <3>0. id[1] \in Snapshots /\ \A j \in call[r].ids : Exists(j) /\ j[1] = id[1] => j = id
      BY <1>6, CallIds
    <3>1. \A t \in call[r].todo : t = <<t[1], t[2]>>
      BY <1>0 DEF Call
    <3>2. CASE \E t \in call[r].todo : t[1] = id
      <4> PICK t \in call[r].todo : t[1] = id
        BY <3>2
      <4>1. t[2] = status /\ <<id, status>> \in call[r].todo
        BY <2>3, <3>1 DEF Remaining
      <4> QED  BY <1>1, <1>6, <2>1, <3>0, <4>1
    <3>3. CASE \A t \in call[r].todo : t[1] # id
      <4>1. diff'[id[1]].review = diff[id[1]].review
        BY <1>1, <3>0, <3>3
      <4> QED  BY <2>1, <3>3, <4>1
    <3> QED  BY <3>2, <3>3
  <2> QED  BY <2>2, <2>3
<1>7. ASSUME NEW s \in Snapshots, ~Counting(r, s) PROVE diff'[s].review = diff[s].review
  BY <1>0, <1>1, <1>7 DEF Counting
<1>8. VotesNeedRow'
  BY <1>0, <1>3 DEF CountInv, VotesNeedRow
<1>9. CallIsOwn'
  <2>1. CASE Remaining(r, status) = {}
    BY <1>1, <1>2, <2>1 DEF CountInv, CallIsOwn, NoCall
  <2>2. CASE Remaining(r, status) # {}
    BY <1>1, <1>2, <2>2 DEF CountInv, CallIsOwn, Remaining
  <2> QED  BY <2>1, <2>2
<1>10. OneCounts'
  BY <1>0, <1>5 DEF CountInv, OneCounts
<1>11. WritesAreRight'
  <2> SUFFICES ASSUME NEW q \in Reviewers, call'[q].pc = "write", NEW id \in call'[q].ids,
                      Exists(id)', id[1] \notin clashed'
               PROVE  /\ \A t \in call'[q].todo : t[1] = id => t[2] = ComputeReview(votes[id[1]])
                      /\ (\A t \in call'[q].todo : t[1] # id) =>
                            diff'[id[1]].review = ComputeReview(votes[id[1]])
    BY <1>0 DEF WritesAreRight
  <2>1. CASE q = r
    <3>1. call'[r].ids = call[r].ids /\ call'[r].todo = Remaining(r, status)
      BY <1>1, <2>1 DEF NoCall
    <3>2. Exists(id) /\ id[1] \notin clashed
      BY <1>0, <1>4, <2>1, <3>1, CallIds
    <3> QED  BY <1>6, <2>1, <3>1, <3>2
  <2>2. CASE q # r
    <3>1. call'[q] = call[q] /\ id[1] \in Snapshots
      BY <1>2, <2>2, CallIds
    <3>2. Exists(id) /\ id[1] \notin clashed
      BY <1>0, <1>4, <3>1
    <3>3. ~Counting(r, id[1])
      BY <2>2, <3>1, <3>2 DEF CountInv, OneCounts, Counting
    <3> QED  BY <1>7, <3>1, <3>2, <3>3 DEF CountInv, WritesAreRight
  <2> QED  BY <2>1, <2>2
<1>12. VotesCount'
  <2> SUFFICES ASSUME NEW s \in Snapshots \ clashed, Reviewable(s)', \A q \in Reviewers : ~Counting(q, s)'
               PROVE  diff'[s].review = ComputeReview(votes[s])
    BY <1>0 DEF VotesCount
  <2>1. CASE Counting(r, s)
    <3> PICK id \in call[r].ids : id[1] = s /\ Exists(id)
      BY <2>1 DEF Counting
    <3>1. Remaining(r, status) = {}
      BY <1>1, <1>4 DEF Counting
    <3> QED  BY <1>6, <3>1
  <2>2. CASE ~Counting(r, s)
    <3>1. diff'[s].review = diff[s].review /\ Reviewable(s)
      BY <1>3, <1>7, <2>2 DEF Reviewable
    <3>2. \A q \in Reviewers : ~Counting(q, s)
      BY <1>2, <1>4, <2>2 DEF Counting
    <3> QED  BY <3>1, <3>2 DEF CountInv, VotesCount
  <2> QED  BY <2>1, <2>2
<1> QED  BY <1>8, <1>9, <1>10, <1>11, <1>12 DEF CountInv

LEMMA StepCounts == IInv /\ CountInv /\ [Next]_vars => CountInv'
<1> SUFFICES ASSUME IInv, CountInv, [Next]_vars PROVE CountInv'
  OBVIOUS
<1>1. CASE Pipeline
  BY <1>1, RowsCount, CallsCount DEF Pipeline
<1>2. ASSUME NEW r \in Reviewers, Voting(r) \/ CallDies(r) PROVE CountInv'
  BY <1>2, CallsCount, StoreCounts, RecomputeCounts, WriteCounts DEF Voting
<1>3. CASE UNCHANGED vars
  BY <1>3, CountKept DEF vars, dbVars, ghosts
<1> QED  BY <1>1, <1>2, <1>3 DEF Next

\* Where the calls on a diff came one after the other, the status it ends with is what its
\* votes amount to, whatever calls on other diffs, comparisons and rebuilds came between
\* (recomputeReviewStatus, bulkCastVote, updateReviewStatusMany).
THEOREM StatusIsVoted == Spec => []VotesCount
<1>1. CountInv => VotesCount
  BY DEF CountInv
<1> QED  BY <1>1, InitVoted, StepVoted, InitCounts, StepCounts, PTL DEF Spec

-----------------------------------------------------------------------------
(* The review of the build and its diffs *)

\* A call that may have changed a vote or the status of a row.
Past(r) == call[r].pc \notin {"idle", "store"}

\* Calls that do not come one after the other, race.
OneAtATime == ~raced => \A q, r \in Reviewers : Past(q) /\ Past(r) => q = r

\* While a finalization is about to write, nothing it has read changes.
FinalizeIsFresh ==
  ~raced /\ finalizer.pc = "write" =>
    AllCompared /\ (\A r \in Reviewers : ~Past(r)) /\ finalizer.review = ComputeBuildReview

Finalized == ~raced /\ finalizer.pc # "write" /\ processing = "success"

\* A finalized build's review is behind its diffs only while a call is about to update it.
FollowsUnlessVoting ==
  Finalized => /\ AllCompared /\ finalizer.pc = "none"
               /\ (\A r \in Reviewers : call[r].pc \in {"idle", "store", "recompute"})
                    => review = ComputeBuildReview

\* That call has read the review as it is, or holds what it is to become.
VoterIsFresh ==
  \A r \in Reviewers :
    /\ ~raced /\ call[r].pc \in {"diffs", "update"} /\ call[r].processing = "success" => Finalized
    /\ Finalized /\ call[r].pc = "diffs" => call[r].review = review
    /\ Finalized /\ call[r].pc = "update" => call[r].review = ComputeBuildReview

FollowInv == OneAtATime /\ FinalizeIsFresh /\ FollowsUnlessVoting /\ VoterIsFresh

LEMMA InitFollows == Init => FollowInv
BY DEF Init, FollowInv, OneAtATime, FinalizeIsFresh, FollowsUnlessVoting, VoterIsFresh, Past, Finalized,
       NoCall, NoFinalize

\* What the diffs amount to depends on the diffs alone.
LEMMA ReviewOfDiffs ==
  ASSUME diff' = diff
  PROVE  ComputeBuildReview' = ComputeBuildReview /\ (AllCompared' <=> AllCompared)
BY DEF ComputeBuildReview, AllCompared, HasDiff

\* A race is noted, and nothing is promised until the build is finalized again.
LEMMA RacedFollows ==
  ASSUME raced' = TRUE
  PROVE  FollowInv'
BY DEF FollowInv, OneAtATime, FinalizeIsFresh, FollowsUnlessVoting, VoterIsFresh, Finalized

\* Without a race, a call that may change a diff is the only one, and no finalization is under way.
LEMMA VoterAlone ==
  ASSUME FollowInv, ~raced, NEW r \in Reviewers, Past(r)
  PROVE  finalizer.pc # "write" /\ \A q \in Reviewers \ {r} : ~Past(q)
BY DEF FollowInv, OneAtATime, FinalizeIsFresh

\* A build that is in progress is not finalized.
LEMMA PipelineFollows ==
  ASSUME IInv, FollowInv, Pipeline
  PROVE  FollowInv'
<1>1. ASSUME NEW s \in Snapshots, Compare(s) PROVE FollowInv'
  <2>1. /\ processing \in InProgress /\ ~HasDiff(s) /\ UNCHANGED <<processing, call, raced>>
        /\ finalizer'.pc = "write" => finalizer.pc = "write"
    BY <1>1 DEF Compare, ghosts, IInv, Shape, BuildShape
  <2>2. processing # "success" /\ ~AllCompared
    BY <2>1 DEF InProgress, AllCompared
  <2>3. OneAtATime'
    BY <2>1 DEF FollowInv, OneAtATime, Past
  <2>4. FinalizeIsFresh'
    BY <2>1, <2>2 DEF FollowInv, FinalizeIsFresh
  <2>5. FollowsUnlessVoting' /\ VoterIsFresh'
    BY <2>1, <2>2 DEF FollowInv, FollowsUnlessVoting, VoterIsFresh, Finalized
  <2> QED  BY <2>3, <2>4, <2>5 DEF FollowInv
<1>2. ASSUME NEW s \in Snapshots, CompareAgain(s) PROVE FollowInv'
  BY <1>2, RacedFollows DEF CompareAgain
<1>3. CASE FinalizeRead
  <2>1. UNCHANGED <<processing, review, diff, call>>
        /\ raced' = (~AllCompared \/ \E r \in Reviewers : Busy(r))
    BY <1>3 DEF FinalizeRead, dbVars
  <2>2. CASE raced'
    BY <2>1, <2>2, RacedFollows
  <2>3. CASE ~raced'
    <3>1. AllCompared /\ \A r \in Reviewers : call[r].pc = "idle"
      BY <2>1, <2>3 DEF Busy
    <3>2. /\ processing = "canceled" => finalizer'.pc = "none"
          /\ processing # "canceled" => finalizer'.pc = "write" /\ finalizer'.review = ComputeBuildReview
      BY <1>3 DEF FinalizeRead, NoFinalize
    <3>3. OneAtATime' /\ VoterIsFresh'
      BY <2>1, <3>1 DEF OneAtATime, VoterIsFresh, Past
    <3>4. FinalizeIsFresh'
      BY <2>1, <3>1, <3>2, ReviewOfDiffs DEF FinalizeIsFresh, Past
    <3>5. FollowsUnlessVoting'
      BY <2>1, <3>2 DEF FollowsUnlessVoting, Finalized
    <3> QED  BY <3>3, <3>4, <3>5 DEF FollowInv
  <2> QED  BY <2>2, <2>3
<1>4. CASE FinalizeWrite
  <2>1. /\ UNCHANGED <<diff, call, raced>> /\ finalizer.pc = "write" /\ finalizer'.pc = "none"
        /\ \/ processing = "canceled" /\ processing' = processing
           \/ review' = finalizer.review
    BY <1>4 DEF FinalizeWrite, BuildUnlessCanceled, ghosts, NoFinalize
  <2>2. ~raced => AllCompared /\ (\A r \in Reviewers : ~Past(r)) /\ finalizer.review = ComputeBuildReview
    BY <2>1 DEF FollowInv, FinalizeIsFresh
  <2>3. OneAtATime' /\ FinalizeIsFresh'
    BY <2>1 DEF FollowInv, OneAtATime, FinalizeIsFresh, Past
  <2>4. FollowsUnlessVoting'
    BY <2>1, <2>2, ReviewOfDiffs DEF FollowsUnlessVoting, Finalized
  <2>5. VoterIsFresh'
    BY <2>1, <2>2 DEF VoterIsFresh, Finalized, Past
  <2> QED  BY <2>3, <2>4, <2>5 DEF FollowInv
<1>5. CASE Reap \/ Stop
  <2>1. /\ UNCHANGED <<diff, call, raced, finalizer, review>>
        /\ processing' = "success" <=> processing = "success"
    BY <1>5 DEF Reap, Stop, ghosts, InProgress
  <2>2. Finalized' <=> Finalized
    BY <2>1 DEF Finalized
  <2>3. OneAtATime' /\ FinalizeIsFresh'
    BY <2>1, ReviewOfDiffs DEF FollowInv, OneAtATime, FinalizeIsFresh, Past
  <2>4. FollowsUnlessVoting' /\ VoterIsFresh'
    BY <2>1, <2>2, ReviewOfDiffs DEF FollowInv, FollowsUnlessVoting, VoterIsFresh
  <2> QED  BY <2>3, <2>4 DEF FollowInv
<1>6. ASSUME NEW rows \in SUBSET Snapshots, Rebuild(rows) PROVE FollowInv'
  BY <1>6, RacedFollows DEF Rebuild
<1> QED  BY <1>1, <1>2, <1>3, <1>4, <1>5, <1>6 DEF Pipeline

\* A call that starts, or stops before its vote is stored, changes nothing of the build.
LEMMA IdleFollows ==
  ASSUME FollowInv, UNCHANGED <<processing, review, diff, finalizer, raced>>,
         \A q \in Reviewers : \/ call'[q] = call[q]
                              \/ /\ call[q].pc \in {"idle", "store", "recompute"}
                                 /\ call'[q].pc \in {"idle", "store"}
  PROVE  FollowInv'
<1>1. \A q \in Reviewers : Past(q)' => Past(q) /\ call'[q] = call[q]
  BY DEF Past
<1>2. (\A q \in Reviewers : call'[q].pc \in {"idle", "store", "recompute"})
        => \A q \in Reviewers : call[q].pc \in {"idle", "store", "recompute"}
  OBVIOUS
<1>3. Finalized' <=> Finalized
  BY DEF Finalized
<1>4. OneAtATime' /\ FinalizeIsFresh'
  BY <1>1, ReviewOfDiffs DEF FollowInv, OneAtATime, FinalizeIsFresh
<1>5. FollowsUnlessVoting'
  BY <1>2, <1>3, ReviewOfDiffs DEF FollowInv, FollowsUnlessVoting
<1>6. VoterIsFresh'
  <2> SUFFICES ASSUME NEW r \in Reviewers, call'[r].pc \in {"diffs", "update"}
               PROVE  /\ ~raced /\ call'[r].processing = "success" => Finalized
                      /\ Finalized /\ call'[r].pc = "diffs" => call'[r].review = review
                      /\ Finalized /\ call'[r].pc = "update" => call'[r].review = ComputeBuildReview
    BY <1>3, ReviewOfDiffs DEF VoterIsFresh
  <2>1. call'[r] = call[r]
    BY <1>1 DEF Past
  <2> QED  BY <2>1 DEF FollowInv, VoterIsFresh
<1> QED  BY <1>4, <1>5, <1>6 DEF FollowInv

\* The step of a call that may have changed a vote, the only one of its kind.
LEMMA VoterFollows ==
  ASSUME IInv, FollowInv, NEW r \in Reviewers, Past(r), UNCHANGED <<finalizer, raced>>,
         AllCompared' <=> AllCompared, \A q \in Reviewers \ {r} : call'[q] = call[q],
         ~raced =>
           /\ Finalized' => Finalized
           /\ Finalized /\ Finalized' /\ call'[r].pc \in {"idle", "store", "recompute"}
                => review' = ComputeBuildReview'
           /\ call'[r].pc \in {"diffs", "update"} /\ call'[r].processing = "success" => Finalized'
           /\ Finalized' /\ call'[r].pc = "diffs" => call'[r].review = review'
           /\ Finalized' /\ call'[r].pc = "update" => call'[r].review = ComputeBuildReview'
  PROVE  FollowInv'
<1>1. CASE raced
  BY <1>1, RacedFollows
<1>2. CASE ~raced
  <2>1. finalizer.pc # "write" /\ \A q \in Reviewers \ {r} : ~Past(q)
    BY <1>2, VoterAlone
  <2>2. \A q \in Reviewers \ {r} : ~Past(q)'
    BY <2>1 DEF Past
  <2>3. OneAtATime' /\ FinalizeIsFresh'
    BY <2>1, <2>2 DEF OneAtATime, FinalizeIsFresh
  <2>4. FollowsUnlessVoting'
    BY <1>2 DEF FollowInv, FollowsUnlessVoting
  <2>5. VoterIsFresh'
    <3>1. \A q \in Reviewers \ {r} : call'[q].pc \notin {"diffs", "update"}
      BY <2>2 DEF Past
    <3> QED  BY <1>2, <3>1 DEF VoterIsFresh
  <2> QED  BY <2>3, <2>4, <2>5 DEF FollowInv
<1> QED  BY <1>1, <1>2

\* Votes change what the diffs amount to, and the build follows at the end of the call.
LEMMA VotingFollows ==
  ASSUME IInv, CountInv, FollowInv, NEW r \in Reviewers, Voting(r) \/ CallDies(r)
  PROVE  FollowInv'
<1>0. call \in [Reviewers -> Call] /\ call[r] \in Call
  BY DEF IInv, Shape, CallShape
<1>1. ASSUME NEW c, Start(r, c), c.pc = "store" PROVE FollowInv'
  <2>1. UNCHANGED <<processing, review, diff, finalizer, raced>> /\ call[r].pc = "idle"
        /\ call' = [call EXCEPT ![r] = c]
    BY <1>1 DEF Start, dbVars, ghosts, Busy
  <2>2. call'[r] = c /\ \A q \in Reviewers \ {r} : call'[q] = call[q]
    BY <1>0, <2>1
  <2> QED  BY <1>1, <2>1, <2>2, IdleFollows
<1>2. CASE CastVote(r) \/ RemoveVote(r) \/ BulkCastVote(r)
  <2> PICK c : Start(r, c) /\ Storing(c)
    BY <1>2, StartFacts
  <2> QED  BY <1>1 DEF Storing
<1>3. CASE StoreVote(r)
  <2>1. UNCHANGED <<processing, review, diff, finalizer>> /\ call[r].pc = "store"
    BY <1>3 DEF StoreVote
  <2>2. CASE ~Storable(r)
    <3>1. call' = [call EXCEPT ![r] = NoCall] /\ raced' = raced
      BY <1>3, <2>2 DEF StoreVote, ghosts
    <3>2. call'[r].pc = "idle" /\ \A q \in Reviewers \ {r} : call'[q] = call[q]
      BY <1>0, <3>1 DEF NoCall
    <3> QED  BY <2>1, <3>1, <3>2, IdleFollows
  <2>3. CASE Storable(r)
    <3>1. /\ raced' = (raced \/ finalizer.pc = "write"
                             \/ \E q \in Reviewers \ {r} : call[q].pc \notin {"idle", "store"})
          /\ call' = [call EXCEPT ![r].pc = "recompute", ![r].of = {}, ![r].vote = "none"]
      BY <1>3, <2>3 DEF StoreVote
    <3>2. call'[r].pc = "recompute" /\ \A q \in Reviewers \ {r} : call'[q] = call[q]
      BY <1>0, <3>1 DEF Call
    <3>3. CASE raced'
      <4>1. raced' = TRUE
        BY <3>1, <3>3
      <4> QED  BY <4>1, RacedFollows
    <3>4. CASE ~raced'
      <4>1. ~raced /\ finalizer.pc # "write" /\ \A q \in Reviewers \ {r} : ~Past(q)
        BY <3>1, <3>4 DEF Past
      <4>2. \A q \in Reviewers \ {r} : ~Past(q)'
        BY <3>2, <4>1 DEF Past
      <4>3. Finalized' => Finalized
        BY <2>1, <4>1 DEF Finalized
      <4>4. OneAtATime' /\ FinalizeIsFresh'
        BY <2>1, <4>1, <4>2 DEF OneAtATime, FinalizeIsFresh
      <4>5. FollowsUnlessVoting'
        <5>1. Finalized => (\A q \in Reviewers : call[q].pc \in {"idle", "store", "recompute"})
          BY <2>1, <4>1 DEF Past
        <5> QED  BY <2>1, <4>3, <5>1, ReviewOfDiffs DEF FollowInv, FollowsUnlessVoting
      <4>6. VoterIsFresh'
        BY <3>2, <4>2 DEF VoterIsFresh, Past
      <4> QED  BY <4>4, <4>5, <4>6 DEF FollowInv
    <3> QED  BY <3>3, <3>4
  <2> QED  BY <2>2, <2>3
<1>4. CASE Recompute(r)
  <2>1. UNCHANGED <<processing, review, diff, finalizer, raced>> /\ call[r].pc = "recompute"
    BY <1>4 DEF Recompute, dbVars, ghosts
  <2>2. \A q \in Reviewers \ {r} : call'[q] = call[q]
    BY <1>0, <1>4 DEF Recompute
  <2>3. call'[r].pc \in {"idle", "write"}
    BY <1>0, <1>4 DEF Recompute, NoCall, Call
  <2>4. CASE call'[r].pc = "idle"
    BY <2>1, <2>2, <2>4, IdleFollows
  <2>5. CASE call'[r].pc = "write"
    <3>1. Past(r) /\ (Finalized' <=> Finalized)
      BY <2>1 DEF Past, Finalized
    <3> QED  BY <2>1, <2>2, <2>5, <3>1, VoterFollows, ReviewOfDiffs
  <2> QED  BY <2>3, <2>4, <2>5
<1>5. CASE WriteStatus(r)
  <2>1. UNCHANGED <<processing, review, finalizer, raced>> /\ call[r].pc = "write"
    BY <1>5 DEF WriteStatus, ghosts
  <2>2. \A q \in Reviewers \ {r} : call'[q] = call[q]
    BY <1>0, <1>5 DEF WriteStatus
  <2>3. call'[r].pc \in {"write", "build"} /\ \A s \in Snapshots : diff'[s].processing = diff[s].processing
    BY <1>5, WriteFacts DEF NoCall
  <2>4. AllCompared' <=> AllCompared
    BY <2>3 DEF AllCompared, HasDiff
  <2>5. Past(r) /\ (Finalized' <=> Finalized)
    BY <2>1 DEF Past, Finalized
  <2> QED  BY <2>1, <2>2, <2>3, <2>4, <2>5, VoterFollows
<1>6. CASE ReadBuild(r)
  <2>1. UNCHANGED <<processing, review, diff, finalizer, raced>> /\ call[r].pc = "build"
    BY <1>6 DEF ReadBuild, dbVars, ghosts
  <2>2. \A q \in Reviewers \ {r} : call'[q] = call[q]
    BY <1>0, <1>6 DEF ReadBuild
  <2>3. IF processing = "canceled" THEN call'[r].pc = "idle"
        ELSE call'[r].pc = "diffs" /\ call'[r].processing = processing /\ call'[r].review = review
    BY <1>0, <1>6 DEF ReadBuild, NoCall, Call
  <2>4. Past(r) /\ (Finalized' <=> Finalized)
    BY <2>1 DEF Past, Finalized
  <2>5. ~raced => finalizer.pc # "write"
    BY <2>4, VoterAlone
  <2>6. processing = "canceled" => ~Finalized
    BY DEF Finalized
  <2>7. ~raced /\ processing = "success" => Finalized
    BY <2>5 DEF Finalized
  <2> QED  BY <2>1, <2>2, <2>3, <2>4, <2>6, <2>7, VoterFollows, ReviewOfDiffs
<1>7. CASE ReadDiffs(r)
  <2>1. UNCHANGED <<processing, review, diff, finalizer, raced>> /\ call[r].pc = "diffs"
    BY <1>7 DEF ReadDiffs, dbVars, ghosts
  <2>2. \A q \in Reviewers \ {r} : call'[q] = call[q]
    BY <1>0, <1>7 DEF ReadDiffs
  <2>3. IF ComputeBuildReview = call[r].review THEN call'[r].pc = "idle"
        ELSE /\ call'[r].pc = "update" /\ call'[r].processing = call[r].processing
             /\ call'[r].review = ComputeBuildReview
    BY <1>0, <1>7 DEF ReadDiffs, NoCall, Call
  <2>4. Past(r) /\ (Finalized' <=> Finalized)
    BY <2>1 DEF Past, Finalized
  <2>5. /\ ~raced /\ call[r].processing = "success" => Finalized
        /\ Finalized => call[r].review = review
    BY <2>1 DEF FollowInv, VoterIsFresh
  <2> QED  BY <2>1, <2>2, <2>3, <2>4, <2>5, VoterFollows, ReviewOfDiffs
<1>8. CASE UpdateBuild(r)
  <2>1. UNCHANGED <<diff, finalizer, raced>> /\ call[r].pc = "update"
    BY <1>8 DEF UpdateBuild, ghosts
  <2>2. call'[r].pc = "idle" /\ \A q \in Reviewers \ {r} : call'[q] = call[q]
    BY <1>0, <1>8 DEF UpdateBuild, NoCall
  <2>3. IF processing = "canceled" THEN processing' = "canceled"
        ELSE processing' = call[r].processing /\ review' = call[r].review
    BY <1>8 DEF UpdateBuild, BuildUnlessCanceled
  <2>4. Past(r)
    BY <2>1 DEF Past
  <2>5. /\ ~raced /\ call[r].processing = "success" => Finalized
        /\ Finalized => call[r].review = ComputeBuildReview
    BY <2>1 DEF FollowInv, VoterIsFresh
  <2>6. ~raced /\ Finalized' => Finalized /\ review' = ComputeBuildReview
    BY <2>3, <2>5 DEF Finalized
  <2> QED  BY <2>1, <2>2, <2>4, <2>6, VoterFollows, ReviewOfDiffs
<1>9. CASE CallDies(r)
  BY <1>9, RacedFollows DEF CallDies
<1> QED  BY <1>2, <1>3, <1>4, <1>5, <1>6, <1>7, <1>8, <1>9 DEF Voting

LEMMA StepFollows == IInv /\ CountInv /\ FollowInv /\ [Next]_vars => FollowInv'
<1> SUFFICES ASSUME IInv, CountInv, FollowInv, [Next]_vars PROVE FollowInv'
  OBVIOUS
<1>1. CASE UNCHANGED vars
  BY <1>1, IdleFollows DEF vars, dbVars, ghosts
<1> QED  BY <1>1, PipelineFollows, VotingFollows DEF Next

\* Where the calls since the build was finalized came one after the other, the build's review
\* is what its diffs amount to as soon as none is under way (updateBuildReviewStatus,
\* finalizeBuild).
THEOREM BuildIsReviewed == Spec => []BuildFollowsDiffs
<1>1. FollowInv => BuildFollowsDiffs
  BY DEF FollowInv, FollowsUnlessVoting, Finalized, BuildFollowsDiffs, Busy
<1> QED
  BY <1>1, InitVoted, StepVoted, InitCounts, StepCounts, InitFollows, StepFollows, PTL DEF Spec

-----------------------------------------------------------------------------
(* Types, with the bound on the rows of a snapshot *)

CountersTyped ==
  /\ latest \in BOOLEAN /\ clashed \subseteq Snapshots /\ raced \in BOOLEAN
  /\ events \in 0..MaxEvents

\* Every row of a snapshot after its first takes a rebuild.
RowsNumbered ==
  \A s \in Snapshots :
    /\ diff[s].id <= events + 1
    /\ HasDiff(s) => 1 <= diff[s].id
    /\ ~HasDiff(s) => diff[s].id <= events

CallsNumbered == \A r \in Reviewers : \A id \in call[r].ids : 1 <= id[2]

Numbered == CountersTyped /\ RowsNumbered /\ CallsNumbered

LEMMA InitNumbered == Init => Numbered
<1> SUFFICES ASSUME Init PROVE Numbered
  OBVIOUS
<1>1. CountersTyped
  <2>1. latest \in BOOLEAN /\ raced \in BOOLEAN /\ clashed \subseteq Snapshots
    BY DEF Init
  <2>2. events \in 0..MaxEvents
    BY BoundsAssumption DEF Init
  <2> QED  BY <2>1, <2>2 DEF CountersTyped
<1>2. RowsNumbered
  BY DEF Init, RowsNumbered, HasDiff
<1>3. CallsNumbered
  BY NoCallIsCall DEF Init, CallsNumbered
<1> QED  BY <1>1, <1>2, <1>3 DEF Numbered

\* A step that leaves the numbers of the rows alone, and gives calls none.
LEMMA NumbersKept ==
  ASSUME IInv, Numbered, CountersTyped', events <= events',
         \A s \in Snapshots : diff'[s].id = diff[s].id /\ (HasDiff(s)' <=> HasDiff(s)),
         \A q \in Reviewers : call'[q].ids \subseteq call[q].ids
  PROVE  Numbered'
<1>1. RowsNumbered'
  <2>1. \A s \in Snapshots : diff[s].id \in Nat
    BY DEF IInv, Shape, RowShape, Rows
  <2> QED  BY <2>1 DEF Numbered, RowsNumbered, CountersTyped
<1>2. CallsNumbered'
  BY DEF Numbered, CallsNumbered
<1> QED  BY <1>1, <1>2 DEF Numbered

LEMMA StepNumbered ==
  ASSUME IInv, CountInv, Numbered, [Next]_vars
  PROVE  Numbered'
<1>0. /\ call \in [Reviewers -> Call] /\ diff \in [Snapshots -> Rows]
      /\ events \in 0..MaxEvents /\ events \in Nat
  BY BoundsAssumption DEF IInv, Shape, CallShape, RowShape, Numbered, CountersTyped
<1>1. ASSUME Event PROVE events' \in 0..MaxEvents /\ events' = events + 1
  BY <1>0, <1>1, BoundsAssumption DEF Event
<1>2. ASSUME UNCHANGED <<latest, clashed, raced, events>> PROVE CountersTyped' /\ events <= events'
  BY <1>0, <1>2 DEF Numbered, CountersTyped
<1>3. ASSUME NEW s \in Snapshots, Compare(s) PROVE Numbered'
  <2> PICK result \in Outcomes :
        diff' = [diff EXCEPT ![s] =
          [id |-> diff[s].id + 1, processing |-> IF result = "error" THEN "error" ELSE "success",
           review |-> IF result = "error" THEN "not_required" ELSE result]]
    BY <1>3 DEF Compare
  <2>1. ~HasDiff(s) /\ UNCHANGED <<latest, clashed, raced, events, call>>
    BY <1>3 DEF Compare, ghosts
  <2>2. diff'[s].id = diff[s].id + 1 /\ HasDiff(s)' /\ \A t \in Snapshots \ {s} : diff'[t] = diff[t]
    BY <1>0 DEF HasDiff
  <2>3. diff[s].id \in Nat
    BY <1>0 DEF Rows
  <2>4. RowsNumbered'
    BY <1>0, <2>1, <2>2, <2>3 DEF Numbered, RowsNumbered, HasDiff
  <2>5. CallsNumbered'
    BY <2>1 DEF Numbered, CallsNumbered
  <2> QED  BY <1>2, <2>1, <2>4, <2>5 DEF Numbered
<1>4. ASSUME NEW s \in Snapshots, CompareAgain(s) PROVE Numbered'
  <2> PICK result \in Outcomes :
        diff' = IF result = "error" THEN [diff EXCEPT ![s].processing = "error"]
                ELSE [diff EXCEPT ![s].processing = "success", ![s].review = result]
    BY <1>4 DEF CompareAgain
  <2>1. HasDiff(s) /\ Event /\ UNCHANGED <<latest, call>> /\ clashed' = clashed \cup {s} /\ raced' = TRUE
    BY <1>4 DEF CompareAgain
  <2>2. \A t \in Snapshots : diff'[t].id = diff[t].id /\ (HasDiff(t)' <=> HasDiff(t))
    BY <1>0, <2>1 DEF HasDiff, Rows
  <2>3. CountersTyped' /\ events <= events'
    BY <1>0, <1>1, <2>1 DEF Numbered, CountersTyped
  <2> QED  BY <2>1, <2>2, <2>3, NumbersKept
<1>5. ASSUME NEW rows \in SUBSET Snapshots, Rebuild(rows) PROVE Numbered'
  <2>1. Event /\ UNCHANGED <<latest, call>> /\ clashed' = clashed \ rows /\ raced' = TRUE
    BY <1>5 DEF Rebuild
  <2>2. ASSUME NEW s \in Snapshots PROVE diff'[s].id = diff[s].id /\ (HasDiff(s)' => HasDiff(s))
    <3>1. diff[s] \in Rows
          /\ diff'[s] = IF s \in rows THEN [diff[s] EXCEPT !.processing = "none", !.review = "not_required"]
                        ELSE diff[s]
      BY <1>0, <1>5 DEF Rebuild
    <3> QED  BY <3>1 DEF HasDiff, Rows
  <2>3. \A s \in Snapshots : diff[s].id \in Nat
    BY <1>0 DEF Rows
  <2>4. CountersTyped'
    BY <1>1, <2>1 DEF Numbered, CountersTyped
  <2>5. RowsNumbered'
    BY <1>0, <1>1, <2>1, <2>2, <2>3 DEF Numbered, RowsNumbered
  <2>6. CallsNumbered'
    BY <2>1 DEF Numbered, CallsNumbered
  <2> QED  BY <2>4, <2>5, <2>6 DEF Numbered
<1>6. CASE FinalizeRead
  <2>1. UNCHANGED <<latest, clashed, events, diff, call>> /\ raced' \in BOOLEAN
    BY <1>6 DEF FinalizeRead, dbVars
  <2>2. CountersTyped' /\ events <= events'
    BY <1>0, <2>1 DEF Numbered, CountersTyped
  <2> QED  BY <2>1, <2>2, NumbersKept DEF HasDiff
<1>7. CASE FinalizeWrite \/ Reap \/ Stop
  <2>1. UNCHANGED <<clashed, raced, events, diff, call>> /\ latest' \in BOOLEAN
    BY <1>7 DEF FinalizeWrite, Reap, Stop, ghosts, Numbered, CountersTyped
  <2>2. CountersTyped' /\ events <= events'
    BY <1>0, <2>1 DEF Numbered, CountersTyped
  <2> QED  BY <2>1, <2>2, NumbersKept DEF HasDiff
<1>8. ASSUME NEW r \in Reviewers, CastVote(r) \/ RemoveVote(r) \/ BulkCastVote(r) PROVE Numbered'
  <2>1. PICK c : Start(r, c) /\ Storing(c)
    BY <1>8, StartFacts
  <2>2. Event /\ UNCHANGED <<latest, clashed, raced, diff>> /\ call' = [call EXCEPT ![r] = c]
    BY <2>1 DEF Start, dbVars, ghosts
  <2>3. CountersTyped'
    BY <1>0, <1>1, <2>2 DEF Numbered, CountersTyped
  <2>4. RowsNumbered'
    <3>1. \A s \in Snapshots : diff[s].id \in Nat
      BY <1>0 DEF Rows
    <3> QED  BY <1>0, <1>1, <2>2, <3>1 DEF Numbered, RowsNumbered, HasDiff
  <2>5. CallsNumbered'
    <3> SUFFICES ASSUME NEW q \in Reviewers, NEW id \in call'[q].ids PROVE 1 <= id[2]
      BY DEF CallsNumbered
    <3>1. CASE q = r
      <4>1. id[1] \in Snapshots /\ Exists(id)
        BY <1>0, <2>1, <2>2, <3>1 DEF Storing
      <4> QED  BY <4>1 DEF Exists, Numbered, RowsNumbered
    <3>2. CASE q # r
      BY <1>0, <2>2, <3>2 DEF Numbered, CallsNumbered
    <3> QED  BY <3>1, <3>2
  <2> QED  BY <2>3, <2>4, <2>5 DEF Numbered
<1>9. ASSUME NEW r \in Reviewers, StoreVote(r) PROVE Numbered'
  <2>1. diff' = diff /\ latest' = latest /\ events' = events
    BY <1>9 DEF StoreVote
  <2>2. \A q \in Reviewers : call'[q].ids \subseteq call[q].ids
    BY <1>0, <1>9 DEF StoreVote, Call, NoCall
  <2>3. clashed' \subseteq Snapshots /\ raced' \in BOOLEAN
    <3>1. {id[1] : id \in {i \in call[r].ids : Exists(i)}} \subseteq Snapshots
      BY CallIds
    <3>2. CASE Storable(r)
      BY <1>9, <3>1, <3>2 DEF StoreVote, Numbered, CountersTyped
    <3>3. CASE ~Storable(r)
      BY <1>9, <3>3 DEF StoreVote, ghosts, Numbered, CountersTyped
    <3> QED  BY <3>2, <3>3
  <2>4. CountersTyped' /\ events <= events'
    BY <1>0, <2>1, <2>3 DEF Numbered, CountersTyped
  <2> QED  BY <2>1, <2>2, <2>4, NumbersKept DEF HasDiff
<1>10. ASSUME NEW r \in Reviewers, WriteStatus(r) PROVE Numbered'
  <2>1. UNCHANGED <<latest, clashed, raced, events>>
    BY <1>10 DEF WriteStatus, ghosts
  <2>2. call'[r].ids \subseteq call[r].ids
        /\ \A s \in Snapshots : diff'[s].id = diff[s].id /\ diff'[s].processing = diff[s].processing
    BY <1>10, WriteFacts DEF NoCall
  <2>3. \A q \in Reviewers \ {r} : call'[q] = call[q]
    BY <1>0, <1>10 DEF WriteStatus
  <2> QED  BY <1>2, <2>1, <2>2, <2>3, NumbersKept DEF HasDiff
<1>11. ASSUME NEW r \in Reviewers, Recompute(r) \/ ReadBuild(r) \/ ReadDiffs(r) \/ UpdateBuild(r) PROVE Numbered'
  <2>1. UNCHANGED <<latest, clashed, raced, events, diff>>
    BY <1>11 DEF Recompute, ReadBuild, ReadDiffs, UpdateBuild, dbVars, ghosts
  <2>2. \A q \in Reviewers \ {r} : call'[q] = call[q]
    BY <1>0, <1>11 DEF Recompute, ReadBuild, ReadDiffs, UpdateBuild
  <2>3. call'[r].ids \subseteq call[r].ids
    <3>1. call[r] \in Call
      BY <1>0
    <3>2. CASE Recompute(r)
      BY <1>0, <3>1, <3>2 DEF Recompute, Call, NoCall
    <3>3. CASE ReadBuild(r)
      BY <1>0, <3>1, <3>3 DEF ReadBuild, Call, NoCall
    <3>4. CASE ReadDiffs(r)
      BY <1>0, <3>1, <3>4 DEF ReadDiffs, Call, NoCall
    <3>5. CASE UpdateBuild(r)
      BY <1>0, <3>1, <3>5 DEF UpdateBuild, NoCall
    <3> QED  BY <1>11, <3>2, <3>3, <3>4, <3>5
  <2> QED  BY <1>2, <2>1, <2>2, <2>3, NumbersKept DEF HasDiff
<1>12. ASSUME NEW r \in Reviewers, CallDies(r) PROVE Numbered'
  <2>1. /\ Event /\ UNCHANGED <<latest, diff>> /\ raced' = TRUE /\ call' = [call EXCEPT ![r] = NoCall]
        /\ clashed' = clashed \cup {s \in Snapshots : Counting(r, s)}
    BY <1>12 DEF CallDies, dbVars
  <2>2. CountersTyped' /\ events <= events'
    BY <1>0, <1>1, <2>1 DEF Numbered, CountersTyped
  <2>3. \A q \in Reviewers : call'[q].ids \subseteq call[q].ids
    BY <1>0, <2>1, NoCallIsCall
  <2> QED  BY <2>1, <2>2, <2>3, NumbersKept DEF HasDiff
<1>13. CASE UNCHANGED vars
  <2>1. UNCHANGED <<latest, clashed, raced, events, diff, call>>
    BY <1>13 DEF vars, dbVars, ghosts
  <2> QED  BY <1>2, <2>1, NumbersKept DEF HasDiff
<1>14. CASE Pipeline
  BY <1>3, <1>4, <1>5, <1>6, <1>7, <1>14 DEF Pipeline
<1>15. ASSUME NEW r \in Reviewers, Voting(r) \/ CallDies(r) PROVE Numbered'
  BY <1>8, <1>9, <1>10, <1>11, <1>12, <1>15 DEF Voting
<1> QED  BY <1>13, <1>14, <1>15 DEF Next

\* The type invariant, and with it that no row of a snapshot comes without a rebuild.
THEOREM ReviewsTyped == Spec => []TypeOK
<1>1. ASSUME IInv, CountInv, Numbered PROVE TypeOK
  <2>0. MaxEvents \in Nat /\ events \in 0..MaxEvents
    BY <1>1, BoundsAssumption DEF Numbered, CountersTyped
  <2>1. diff \in [Snapshots -> [id : 0..(MaxEvents + 1), processing : {"none", "success", "error"},
                                review : ReviewStatus]]
    <3>1. diff \in [Snapshots -> Rows]
      BY <1>1 DEF IInv, Shape, RowShape
    <3>2. \A s \in Snapshots : diff[s].id \in 0..(MaxEvents + 1)
      BY <1>1, <2>0, <3>1 DEF Numbered, RowsNumbered, Rows
    <3>3. \A s \in Snapshots :
            diff[s] \in [id : 0..(MaxEvents + 1), processing : {"none", "success", "error"}, review : ReviewStatus]
      BY <3>1, <3>2 DEF Rows
    <3> QED  BY <3>1, <3>3
  <2>2. ASSUME NEW r \in Reviewers PROVE call[r] \in Calls
    <3>1. call[r] \in Call
      BY <1>1 DEF IInv, Shape, CallShape
    <3>2. \A id \in call[r].ids : id \in Ids
      <4> SUFFICES ASSUME NEW id \in call[r].ids PROVE id \in Ids
        OBVIOUS
      <4>1. id \in RowIds
        BY <3>1 DEF Call
      <4>2. id[1] \in Snapshots /\ id[2] \in Nat /\ 1 <= id[2] /\ id[2] <= diff[id[1]].id
        BY <1>1, <4>1, CallIds DEF Numbered, CallsNumbered, RowIds
      <4>3. diff[id[1]].id \in 0..(MaxEvents + 1)
        BY <2>1, <4>2
      <4>4. id[2] \in 1..(MaxEvents + 1)
        BY <2>0, <4>2, <4>3
      <4> QED  BY <4>1, <4>2, <4>4 DEF RowIds, Ids
    <3>3. \A t \in call[r].todo : t \in Ids \X Verdicts
      <4> SUFFICES ASSUME NEW t \in call[r].todo PROVE t \in Ids \X Verdicts
        OBVIOUS
      <4>1. t \in RowIds \X Verdicts /\ t[1] \in Ids
        BY <1>1, <3>1, <3>2 DEF Call, CountInv, CallIsOwn
      <4> QED  BY <4>1
    <3> QED  BY <3>1, <3>2, <3>3 DEF Call, Calls
  <2>3. call \in [Reviewers -> Calls]
    BY <1>1, <2>2 DEF IInv, Shape, CallShape
  <2>4. processing \in BuildStatus /\ review \in ReviewStatus
        /\ finalizer \in [pc : {"none", "queued", "write"}, processing : BuildStatus, review : ReviewStatus]
    BY <1>1 DEF IInv, Shape, BuildShape
  <2>5. votes \in [Snapshots -> [Reviewers -> Votes]] /\ verdicts \in [Snapshots -> SUBSET Verdicts]
    BY <1>1 DEF IInv, Shape, RowShape
  <2>6. latest \in BOOLEAN /\ clashed \subseteq Snapshots /\ raced \in BOOLEAN /\ events \in 0..MaxEvents
    BY <1>1 DEF Numbered, CountersTyped
  <2> QED  BY <2>1, <2>3, <2>4, <2>5, <2>6 DEF TypeOK
<1> QED
  BY <1>1, InitVoted, StepVoted, InitCounts, StepCounts, InitNumbered, StepNumbered, PTL DEF Spec
=============================================================================
