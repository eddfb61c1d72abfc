\* One request and one image on a page that serves two stories; what is stuck is given up on well
\* within the budget, as it is by default.
SPECIFICATION Spec
CONSTANTS
  Requests = {data}
  Images = {hero}
  NetworkQuiet = 1
  DomQuiet = 2
  DomSettle = 4
  Budget = 7
  AbandonAfter = 3
  MinPaint = 1
  MaxTime = 18
  MaxEvents = 4
INVARIANTS KeepsToBudget StuckIsGivenUp
PROPERTIES QuietIsQuiet
CHECK_DEADLOCK FALSE
