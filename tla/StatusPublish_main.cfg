\* A build that changes four times, with two requests or calls that go wrong.
SPECIFICATION StatusSpec
CONSTANTS
  Verdicts = {"unchanged", "needs_review", "approved"}
  Attempts = 2
  MaxChanges = 3
  MaxFaults = 2
INVARIANTS NothingForgotten
PROPERTIES LatestShown
CHECK_DEADLOCK FALSE
