\* A rebuild of a settled build or of one still running, racing captures and comparisons of the
\* first round, the reaper, and one handler or web call that throws or dies for good; faults of
\* capture groups are left to Pipeline_faults.
SPECIFICATION Spec
CONSTANTS
  Stories = {a}
  Pages = {chromium}
  PageOf <- OnePage
  MaxPendingUploads = 1
  MaxUnreadable = 0
  Attempts = 1
  MaxStalled = 0
  Faulty = {"extract", "diff", "finalize", "web", "reaper"}
  Reaping = TRUE
  MaxRuns = 1
  MaxConfirms = 1
  MaxCancels = 0
  MaxRebuilds = 1
  MaxFaults = 1
INVARIANTS TypeOK PassedDiffHasImage
PROPERTIES ImplementsLifecycle
CHECK_DEADLOCK FALSE
