SPECIFICATION Spec
CONSTANTS
  ChatName = {c1}
  UserName = {me, peer}
  Own = me
  Addr = {here, there}
  MaxChats = 2
  MaxUsers = 2
  MaxMessages = 2
  MaxCrashes = 1
SYMMETRY AddrSymmetry
INVARIANTS
  TypeOK
  CachesCoherent
  ReferentialIntegrity
  OrphansBounded
  InFlight
PROPERTIES
  FanOutExact
  ReceivedFromMember
