\* One snapshot, one reviewer: a vote while the build is finalized.
SPECIFICATION Spec
CONSTANTS
  s1 = s1
  s2 = s2
  r1 = r1
  r2 = r2
  Snapshots = {s1}
  Reviewers = {r1}
  Admins = {}
  Required = 1
  Outcomes = {"needs_review"}
  MaxEvents = 1
PROPERTIES VotesKeepProcessing
CHECK_DEADLOCK FALSE
