SPECIFICATION SteadySpec
CONSTANTS
  Name = {alice, bob}
  Password = {p1, weak}
  Valid = {p1}
  Fd = {f1, f2}
  Rec = {r1, r2}
  Thread = {t1, t2}
  Pooled = TRUE
  HasAccounts = TRUE
  NoName = NoName
  NoPassword = NoPassword
  NoFd = NoFd
  NoRec = NoRec
  Nobody = Nobody
  Orphaned = Orphaned
PROPERTIES
  LoginsEnd
  MainReturns
  GoneUsersLeave
