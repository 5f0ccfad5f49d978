SPECIFICATION Spec
CONSTANTS
  Name = {alice, bob}
  Password = {p1, weak}
  Valid = {p1}
  Fd = {f1, f2, f3}
  MaxRec = 4
  Thread = {t1, t2}
  HasAccounts = TRUE
  NoName = NoName
  NoPassword = NoPassword
  NoFd = NoFd
SYMMETRY Symmetry
INVARIANTS
  TypeOK
PROPERTIES
  ServesUntilClash
