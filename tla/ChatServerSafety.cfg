SPECIFICATION Spec
CONSTANTS
  Name = {alice, bob}
  Password = {p1, p2, weak}
  Valid = {p1, p2}
  Fd = {f1, f2, f3}
  Rec = {r1, r2}
  Thread = {t1, t2}
  Pooled = FALSE
  HasAccounts = TRUE
  NoName = NoName
  NoPassword = NoPassword
  NoFd = NoFd
  NoRec = NoRec
  Nobody = Nobody
  Orphaned = Orphaned
SYMMETRY Symmetry
INVARIANTS
  TypeOK
  UniqueNames
  SessionsSound
  OneReader
  PointersListed
  AccountsMatchDb
PROPERTIES
  ImplementsChat
  AccountsStay
