SPECIFICATION FairSpec
CONSTANTS
  LongText = 200
  Windows <- SomeWindows
  Views <- SomeViews
  EmptyRead = {"nul", "key", "esc", "ctrl_q"}
  MaxTyped = 3
  MaxResizes = 2
INVARIANTS
  TypeOK
  WritesInside
  CommitInside
  SizeFollowsWindow
  ModeFitsRead
  TerminalRestored
PROPERTIES
  QuitHonoured
CHECK_DEADLOCK FALSE
