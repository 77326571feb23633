SPECIFICATION ViewSpec
CONSTANTS
  ChatName = {c1}
  UserName = {me}
  Own = me
  Addr = {here}
  MaxChats = 2
  MaxUsers = 2
  MaxMessages = 1
  MaxCrashes = 1
  OldChats = 2
  OldUsers = 2
  Opens = {"add_user", "remove_user"}
  MaxListeners = 2
INVARIANTS
  ViewTypeOK
  CursorOnRow
  ListHasChat
  MembersShown
PROPERTIES
  StepsOfAppState
  StoredWhereShown
CHECK_DEADLOCK FALSE
