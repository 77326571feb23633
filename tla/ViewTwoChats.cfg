SPECIFICATION ViewSpec
CONSTANTS
  ChatName = {c1}
  UserName = {me}
  Own = me
  Addr = {here}
  MaxChats = 2
  MaxUsers = 2
  MaxMessages = 0
  MaxCrashes = 1
  OldChats = 2
  OldUsers = 2
  Opens = {"add_user"}
  MaxListeners = 2
INVARIANTS
  ConfirmsPossible
CHECK_DEADLOCK FALSE
