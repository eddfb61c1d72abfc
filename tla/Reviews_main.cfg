\* Two snapshots, two reviewers both admins, two approvals required.
SPECIFICATION Spec
CONSTANTS
  s1 = s1
  s2 = s2
  r1 = r1
  r2 = r2
  Snapshots = {s1, s2}
  Reviewers = {r1, r2}
  Admins = {r1, r2}
  Required = 2
  Outcomes = {"auto_approved", "needs_review", "error"}
  MaxEvents = 3
SYMMETRY Interchangeable
INVARIANTS TypeOK VerdictsAreVoted VotesCount BuildFollowsDiffs
PROPERTIES CanceledKeepsReview
CHECK_DEADLOCK FALSE
