SPECIFICATION FairSpec
CONSTANTS
  Peers = {p1}
  MaxRows = 2
  MaxAttempts = 4
  MaxArrivals = 3
  MaxMatches = 2
  MaxStarts = 1
  TimeoutChoices = {TRUE}
INVARIANTS
  NeverWaitsInDequeue
  InboundOrder
PROPERTIES
  InboundHandled
  QuitEnds
CHECK_DEADLOCK FALSE
