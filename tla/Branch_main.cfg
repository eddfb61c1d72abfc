\* Two uploads that may each ask twice, one rebuild, three events.
SPECIFICATION Spec
CONSTANTS
  u1 = u1
  u2 = u2
  r1 = r1
  Uploads = {u1, u2}
  Rebuilds = {r1}
  MaxRequests = 2
  MaxEvents = 3
SYMMETRY Interchangeable
INVARIANTS NewestSurvives OneInFlight PublishedIsQueued RefusedHasEnded
PROPERTIES RowsFollowLife
CHECK_DEADLOCK FALSE
