SPECIFICATION Spec
CONSTANTS
  Text <- MCText
  Event <- MCEvent
  Command <- MCCommand
  MaxLog = 3
  MaxOpen = 3
  NoCommand = NoCommand
  Null = Null
  Client = {c1, c2}
  Chatting = {c1}
  MaxSignals = 1
  NoClient = NoClient
  Char <- MCChar
  CloseLine <- MCCloseLine
  Field = {3, 5}
  MaxLine = 3
  MaxMessages = 2
INVARIANTS
  TypeOK
  AnswersCommand
  LinesWhole
PROPERTIES
  ModificationsRead
  EditsInText
  LockComesBack
CHECK_DEADLOCK FALSE
