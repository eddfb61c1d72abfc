\* The three policies; due times a second per snapshot apart, so that priorities
\* reach the limit and a build can be queued after another's deadline.
CONSTANTS
  Groups <- ThreeSizes
  Seconds = 1
  Lowest = 5
  Workers = 1
  MaxNow = 3
  MaxEvents = 1
SPECIFICATION Spec
INVARIANTS TypeOK BrowsersAlternate
PROPERTIES EarliestDueFirst TakesTurns
CHECK_DEADLOCK FALSE
