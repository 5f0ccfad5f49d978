SPECIFICATION FairSpec
CONSTANTS
  Conn = {c1, c2}
  Node = {n1, n2}
  Worker = {w1, w2}
  Main = Main
  Nobody = Nobody
  NULL = NULL
INVARIANTS
  TypeOK
  ListIntact
  NoUseAfterFree
  CountMatches
  PopFindsNode
  OneOwner
PROPERTIES
  ImplementsService
  NotStranded
