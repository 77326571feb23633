SPECIFICATION ViewSpec
CONSTANTS
  ChatName = {c1}
  UserName = {me}
  Own = me
  Addr = {here}
  MaxChats = 1
  MaxUsers = 2
  MaxMessages = 0
  MaxCrashes = 1
  OldChats = 0
  OldUsers = 1
  Opens = {"create_user", "create_chat", "add_user"}
  MaxListeners = 2
INVARIANTS
  SavesComplete
  HeardOnce
  ConfirmsPossible
PROPERTIES
  EscCloses
CHECK_DEADLOCK FALSE
