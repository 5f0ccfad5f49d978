SPECIFICATION Spec
CONSTANTS
  Friend = {bob, carol}
  Window = {w1, w2, w3}
  MaxFd = 9
  Stdin = Stdin
  Server = Server
  Nobody = Nobody
INVARIANTS
  LogoutClosesAll
SYMMETRY Symmetry
CHECK_DEADLOCK FALSE
