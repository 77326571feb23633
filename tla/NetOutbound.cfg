SPECIFICATION MainFairSpec
CONSTANTS
  Peers = {p1, p2}
  MaxRows = 2
  MaxAttempts = 2
  MaxArrivals = 0
  MaxMatches = 0
  MaxStarts = 2
  TimeoutChoices = {TRUE}
INVARIANTS
  TypeOK
  CursorOK
  StatusSound
  NothingLost
PROPERTIES
  StatusFinal
  OutboxRefined
  UpdateEnds
  ResultsCollected
CHECK_DEADLOCK FALSE
