SPECIFICATION FairSpec
CONSTANTS
  Name = {alice}
  Password = {p1, weak}
  Valid = {p1}
  Fd = {f1, f2}
  Rec = {r1}
  Thread = {t1, t2}
  Pooled = FALSE
  HasAccounts = FALSE
  NoName = NoName
  NoPassword = NoPassword
  NoFd = NoFd
  NoRec = NoRec
  Nobody = Nobody
  Orphaned = Orphaned
PROPERTIES
  MainReturns
