SPECIFICATION Spec
CONSTANTS
  Peers = {p1}
  MaxRows = 1
  MaxAttempts = 4
  MaxArrivals = 0
  MaxMatches = 0
  MaxStarts = 1
  TimeoutChoices = {TRUE}
INVARIANTS
  SentWasHanded
CHECK_DEADLOCK FALSE
