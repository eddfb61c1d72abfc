\* Confirm, extract, capture, diff, finalize and cancel: two stories on two pages, and one
\* web call that fails or is cut short.
SPECIFICATION Spec
CONSTANTS
  Stories = {a, b}
  Pages = {chromium, firefox}
  PageOf <- OwnPages
  MaxPendingUploads = 1
  MaxUnreadable = 1
  Attempts = 2
  MaxStalled = 1
  Faulty = {"web"}
  Reaping = TRUE
  MaxRuns = 1
  MaxConfirms = 2
  MaxCancels = 1
  MaxRebuilds = 0
  MaxFaults = 1
INVARIANTS NoStrandedBuild CancelLeavesNothing
PROPERTIES CanceledIsFinal CanceledDiffOnlyPasses FinalizeNeverEarly
CHECK_DEADLOCK FALSE
