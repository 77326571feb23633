SPECIFICATION FairSpec
CONSTANTS
  Peers = {p1}
  MaxRows = 1
  MaxAttempts = 4
  MaxArrivals = 0
  MaxMatches = 1
  MaxStarts = 1
  TimeoutChoices = {TRUE, FALSE}
PROPERTIES
  QuitEnds
CHECK_DEADLOCK FALSE
