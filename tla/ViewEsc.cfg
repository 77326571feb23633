SPECIFICATION ViewSpec
CONSTANTS
  ChatName = {c1}
  UserName = {me}
  Own = me
  Addr = {here}
  MaxChats = 2
  MaxUsers = 2
  MaxMessages = 0
  MaxCrashes = 1
  OldChats = 2
  OldUsers = 2
  Opens = {"create_user", "create_chat", "add_user", "remove_user"}
  MaxListeners = 2
PROPERTIES
  EscCloses
CHECK_DEADLOCK FALSE
