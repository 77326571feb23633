SPECIFICATION Spec
CONSTANTS
  LongText = 200
  Windows <- OneWindow
  Views <- OneView
  EmptyRead = {"nul"}
  MaxTyped = 1
  MaxResizes = 0
INVARIANTS
  LinesInside
CHECK_DEADLOCK FALSE
