SPECIFICATION Spec
CONSTANTS
  n1 = n1
  n2 = n2
  ann = ann
  bob = bob
  c1 = c1
  c2 = c2
  Node = {n1, n2}
  Name <- Names
  UserName = {ann, bob}
  ChatName = {c1, c2}
  Text = {hi, long}
  Long = {long}
  Tables <- SomeTables
  MaxRows = 1
  MaxFaults = 1
  MaxChanges = 1
INVARIANTS
  TypeOK
  ReceivedWasWritten
  NothingVanishes
CHECK_DEADLOCK FALSE
