\* Handlers that throw, processes that die and jobs that stall, failed handlers that are lost
\* too, without the reaper: a job that throws fails for good, one that stalls runs once more,
\* and an extraction that does inserts its rows and queues its groups a second time.
SPECIFICATION Spec
CONSTANTS
  Stories = {a}
  Pages = {chromium}
  PageOf <- OnePage
  MaxPendingUploads = 1
  MaxUnreadable = 1
  Attempts = 1
  MaxStalled = 1
  Faulty = {"extract", "capture", "diff", "finalize", "web"}
  Reaping = FALSE
  MaxRuns = 2
  MaxConfirms = 1
  MaxCancels = 0
  MaxRebuilds = 0
  MaxFaults = 2
INVARIANTS SuccessHidesNothing
CHECK_DEADLOCK FALSE
