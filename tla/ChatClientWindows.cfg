SPECIFICATION FairSpec
CONSTANTS
  Friend = {bob, carol}
  Window = {w1, w2, w3}
  MaxFd = 9
  Stdin = Stdin
  Server = Server
  Nobody = Nobody
INVARIANTS
  TypeOK
  LiveChatsApart
  LinesReachFriend
  MsgReachesWindow
PROPERTIES
  LoginAgrees
  LoginFinishes
SYMMETRY Symmetry
CHECK_DEADLOCK FALSE
