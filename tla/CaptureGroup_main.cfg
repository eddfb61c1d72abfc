\* Two snapshots, of which one uploads while the next is taken; two attempts and a fault.
SPECIFICATION Spec
CONSTANTS
  GroupSize = 2
  Attempts = 2
  MaxPendingUploads = 1
  MaxFaults = 1
INVARIANTS CompletedIsSettled ImageOfRow
PROPERTIES CanceledStays GroupEnds
CHECK_DEADLOCK FALSE
