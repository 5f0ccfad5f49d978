------------------------- MODULE ChatProgramProofs -------------------------
(***************************************************************************)
(* Theorems of ChatProgram, for any characters, any sizes of the field and *)
(* any bounds.                                                             *)
(*                                                                         *)
(* That the program implements LineEditor needs little of its state: the   *)
(* line is a sequence, the cursor a number, and between two keys the       *)
(* cursor as the program has it is the one the user sees (moved is 0).     *)
(* That the cursor stays in the largest field needs nothing of the size it *)
(* is moved under: moveCursor stops below whatever size there is, and a    *)
(* size that shrinks under it leaves it below the old one.                 *)
(***************************************************************************)
EXTENDS ChatProgram, TLAPS

MovedInv == key = "none" => moved = 0

-----------------------------------------------------------------------------
(* What the helpers make of a line, as long as the position is in it. *)
LEMMA InsertedChar ==
  ASSUME NEW s \in Seq(Char), NEW c \in Char, NEW pos \in Int
  PROVE  /\ InsertChar(s, c, pos) \in Seq(Char)
         /\ Len(InsertChar(s, c, pos)) <= Len(s) + 1
         /\ pos \in 0..Len(s) =>
              InsertChar(s, c, pos) = Append(SubSeq(s, 1, pos), c) \o SubSeq(s, pos + 1, Len(s))
<1>0. Len(s) \in Nat
  OBVIOUS
<1>1. CASE pos \notin 0..Len(s)
  <2>1. InsertChar(s, c, pos) = <<>> /\ ~(pos \in 0..Len(s))
    BY <1>0, <1>1 DEF InsertChar
  <2>2. <<>> \in Seq(Char) /\ Len(<<>>) = 0
    OBVIOUS
  <2>3. /\ InsertChar(s, c, pos) \in Seq(Char)
        /\ Len(InsertChar(s, c, pos)) <= Len(s) + 1
    BY <1>0, <2>1, <2>2
  <2> QED
    BY <2>1, <2>3, Zenon
<1>2. CASE pos \in 0..Len(s)
  <2> DEFINE a == SubSeq(s, 1, pos)
             b == SubSeq(s, pos + 1, Len(s))
  <2>1. a \in Seq(Char) /\ Len(a) = pos
    BY <1>0, <1>2
  <2>2. b \in Seq(Char) /\ Len(b) = Len(s) - pos
    BY <1>0, <1>2
  <2>3. InsertChar(s, c, pos) = a \o <<c>> \o b
    BY <1>2, Zenon DEF InsertChar
  <2> HIDE DEF a, b
  <2>4. a \o <<c>> = Append(a, c)
    BY <2>1
  <2>5. Append(a, c) \in Seq(Char) /\ Len(Append(a, c)) = pos + 1
    BY <2>1
  <2>6. Append(a, c) \o b \in Seq(Char) /\ Len(Append(a, c) \o b) = Len(s) + 1
    BY <2>2, <2>5
  <2>7. InsertChar(s, c, pos) = Append(a, c) \o b
    BY <2>3, <2>4
  <2>8. /\ InsertChar(s, c, pos) \in Seq(Char)
        /\ Len(InsertChar(s, c, pos)) <= Len(s) + 1
    BY <1>0, <2>6, <2>7
  <2> QED
    BY <2>7, <2>8, Zenon DEF a, b
<1> QED
  BY <1>1, <1>2

LEMMA RemovedChar ==
  ASSUME NEW s \in Seq(Char), NEW pos \in Int
  PROVE  /\ RemoveChar(s, pos) \in Seq(Char)
         /\ Len(RemoveChar(s, pos)) <= Len(s)
<1>0. Len(s) \in Nat
  OBVIOUS
<1>1. CASE pos \notin 0..(Len(s) - 1)
  <2>1. RemoveChar(s, pos) = <<>>
    BY <1>1 DEF RemoveChar
  <2>2. <<>> \in Seq(Char) /\ Len(<<>>) = 0
    OBVIOUS
  <2> QED
    BY <1>0, <2>1, <2>2
<1>2. CASE pos \in 0..(Len(s) - 1)
  <2> DEFINE a == SubSeq(s, 1, pos)
             b == SubSeq(s, pos + 2, Len(s))
  <2>1. a \in Seq(Char) /\ Len(a) = pos
    BY <1>0, <1>2
  <2>2. b \in Seq(Char) /\ Len(b) = Len(s) - pos - 1
    BY <1>0, <1>2
  <2>3. RemoveChar(s, pos) = a \o b
    BY <1>2, Zenon DEF RemoveChar
  <2> HIDE DEF a, b
  <2>4. a \o b \in Seq(Char) /\ Len(a \o b) = Len(s) - 1
    BY <2>1, <2>2
  <2> QED
    BY <1>0, <2>3, <2>4
<1> QED
  BY <1>1, <1>2

(* A cursor that some field has. *)
InField(pos) == pos \in Int /\ pos >= -1 /\ \E f \in Field : pos < f

LEMMA CursorMoves ==
  ASSUME InField(cursor), size \in Field, MoveLeft \/ MoveRight
  PROVE  InField(cursor') /\ size' \in Field /\ shown' \in {0, shown}
<1>1. size \in Nat /\ size >= 2 /\ cursor \in Int /\ cursor >= -1
  BY ChatProgramAssumption DEF InField
<1>2. PICK f \in Field : cursor < f
  BY DEF InField
<1>3. f \in Nat /\ f >= 2
  BY ChatProgramAssumption
<1>4. CASE MoveLeft
  <2>1. cursor' \in Int /\ cursor' >= -1 /\ cursor' < f
    BY <1>1, <1>2, <1>3, <1>4 DEF MoveLeft, Left
  <2> QED
    BY <1>4, <2>1 DEF MoveLeft, InField
<1>5. CASE MoveRight
  <2>1. cursor' \in Int /\ cursor' >= -1 /\ (cursor' < f \/ cursor' < size)
    BY <1>1, <1>2, <1>3, <1>5 DEF MoveRight, Right
  <2> QED
    BY <1>5, <2>1 DEF MoveRight, InField
<1> QED
  BY <1>4, <1>5

LEMMA Home == InField(0)
<1>1. PICK f \in Field : TRUE
  BY ChatProgramAssumption
<1>2. f \in Nat /\ f >= 2
  BY ChatProgramAssumption
<1> QED
  BY <1>2 DEF InField

-----------------------------------------------------------------------------
LEMMA InitTypeOK == ChatInit => ChatTypeOK
BY ChatProgramAssumption, Home DEF ChatInit, ChatTypeOK, InField

LEMMA TypeOKInductive == ChatTypeOK /\ [ChatNext]_chatVars => ChatTypeOK'
<1> SUFFICES ASSUME ChatTypeOK, [ChatNext]_chatVars PROVE ChatTypeOK'
  OBVIOUS
<1> USE ChatProgramAssumption
<1>0. size \in Nat /\ cursor \in Int /\ InField(cursor) /\ messages \in Nat /\ scroll_pointer \in Nat
  BY DEF ChatTypeOK, InField
<1>1. ASSUME NEW c \in Char, TypeChar(c) PROVE ChatTypeOK'
  <2>1. cmd \in Seq(Char) /\ Len(cmd) \in Nat /\ Len(cmd) < MaxLine
    BY <1>1 DEF TypeChar, ChatTypeOK
  <2>2. InsertChar(cmd, c, cursor) \in Seq(Char) /\ Len(InsertChar(cmd, c, cursor)) <= MaxLine
    <3> DEFINE s == InsertChar(cmd, c, cursor)
    <3>1. s \in Seq(Char) /\ Len(s) <= Len(cmd) + 1
      BY <1>0, <2>1, InsertedChar, Zenon
    <3> HIDE DEF s
    <3>2. Len(s) \in Nat
      BY <3>1
    <3> QED
      BY <2>1, <3>1, <3>2 DEF s
  <2> QED
    BY <1>1, <2>1, <2>2 DEF TypeChar, ChatTypeOK, listVars
<1>2. CASE TypeCharMoves
  <2>1. MoveRight /\ size \in Field
    BY <1>2 DEF TypeCharMoves, ChatTypeOK
  <2>2. InField(cursor') /\ size' \in Field /\ shown' \in {0, shown}
    BY <1>0, <2>1, CursorMoves
  <2> QED
    BY <1>2, <2>2 DEF TypeCharMoves, ChatTypeOK, InField
<1>3. CASE EraseChar
  <2>1. MoveLeft /\ size \in Field
    BY <1>3 DEF EraseChar, ChatTypeOK
  <2>2. InField(cursor') /\ size' \in Field /\ shown' \in {0, shown}
    BY <1>0, <2>1, CursorMoves
  <2> QED
    BY <1>3, <2>2 DEF EraseChar, ChatTypeOK, InField
<1>4. CASE EraseCharRemoves
  BY <1>0, <1>4, RemovedChar DEF EraseCharRemoves, ChatTypeOK, listVars
<1>5. CASE Arrow
  <2>1. (MoveLeft \/ MoveRight) /\ size \in Field
    BY <1>5 DEF Arrow, ChatTypeOK
  <2>2. InField(cursor') /\ size' \in Field /\ shown' \in {0, shown}
    BY <1>0, <2>1, CursorMoves
  <2> QED
    BY <1>5, <2>2 DEF Arrow, ChatTypeOK, InField
<1>6. CASE Return
  <2>1. <<>> \in Seq(Char) /\ Len(<<>>) <= MaxLine
    OBVIOUS
  <2>2. CASE cmd = CloseLine
    BY <1>6, <2>2 DEF Return, ChatTypeOK, listVars
  <2>3. CASE cmd # CloseLine
    <3>1. /\ sent' = cmd /\ cmd' = <<>> /\ cursor' = 0
          /\ UNCHANGED <<running, size, key, moved, messages, scroll_pointer, shown>>
      BY <1>6, <2>3 DEF Return, listVars
    <3>2. cmd' \in Seq(Char) /\ Len(cmd') <= MaxLine
      BY <2>1, <3>1
    <3> QED
      BY <3>1, <3>2, Home DEF ChatTypeOK, InField
  <2> QED
    BY <2>2, <2>3
<1>7. CASE Winch
  BY <1>7, Home DEF Winch, InitValues, InField, ChatTypeOK
<1>8. CASE Receive
  BY <1>0, <1>8 DEF Receive, AddMessageList, Show, ChatTypeOK, editVars
<1>9. CASE ChatScrollUp
  BY <1>0, <1>9 DEF ChatScrollUp, Show, ChatTypeOK, editVars
<1>10. CASE ChatScrollDown
  BY <1>0, <1>10 DEF ChatScrollDown, Show, ChatTypeOK, editVars
<1>11. CASE UNCHANGED chatVars
  BY <1>11 DEF chatVars, editVars, listVars, ChatTypeOK
<1> QED
  BY <1>1, <1>2, <1>3, <1>4, <1>5, <1>6, <1>7, <1>8, <1>9, <1>10, <1>11 DEF ChatNext

(* However SIGWINCH cuts keys in two, or moveCursor, and whatever sizes the  *)
(* window gets, the cursor stays below the largest field and above -2; the   *)
(* scroll position stays in the list, and the display shows the message that *)
(* is scrolled to, or nothing.                                               *)
THEOREM TypeCorrect == ChatSpec => []ChatTypeOK
<1> QED
  BY InitTypeOK, TypeOKInductive, PTL DEF ChatSpec

-----------------------------------------------------------------------------
LEMMA MovedInductive == MovedInv /\ [ChatNext]_chatVars => MovedInv'
<1> SUFFICES ASSUME MovedInv, [ChatNext]_chatVars PROVE MovedInv'
  OBVIOUS
<1> USE DEF MovedInv, listVars, editVars
<1>1. ASSUME NEW c \in Char, TypeChar(c) PROVE MovedInv'
  BY <1>1 DEF TypeChar
<1>2. CASE TypeCharMoves \/ EraseCharRemoves
  BY <1>2 DEF TypeCharMoves, EraseCharRemoves
<1>3. CASE EraseChar
  BY <1>3 DEF EraseChar
<1>4. CASE Arrow \/ Return \/ Winch
  BY <1>4 DEF Arrow, Return, Winch
<1>5. CASE Receive \/ ChatScrollUp \/ ChatScrollDown
  BY <1>5 DEF Receive, ChatScrollUp, ChatScrollDown
<1>6. CASE UNCHANGED chatVars
  BY <1>6 DEF chatVars
<1> QED
  BY <1>1, <1>2, <1>3, <1>4, <1>5, <1>6 DEF ChatNext

(* A step that leaves the line as it is moves the user's cursor at most. *)
LEMMA OnlyMoves ==
  ASSUME ChatTypeOK, ChatTypeOK', InText', UNCHANGED <<cmd, sent>>
  PROVE  Editor!Next
<1>1. At' \in 0..Len(cmd)
  BY DEF InText
<1>2. Editor!Move
  BY <1>1 DEF Editor!Move
<1> QED
  BY <1>2 DEF Editor!Next

(* Every step, as the user sees it, is one of LineEditor or changes nothing. *)
LEMMA StepRefines ==
  ASSUME ChatTypeOK, ChatTypeOK', MovedInv, [ChatNext]_chatVars,
         running', InText, InText', ~ErasesAhead
  PROVE  [Editor!Next]_(Editor!vars)
<1>0. cmd \in Seq(Char) /\ Len(cmd) \in Nat /\ cursor \in Int /\ moved \in {0, 1}
  BY DEF ChatTypeOK
<1>1. ASSUME NEW c \in Char, TypeChar(c) PROVE Editor!Next
  <2>1. CASE UNCHANGED cmd
    BY <1>1, <2>1, OnlyMoves DEF TypeChar
  <2>2. CASE moved' = 1 /\ cmd' = InsertChar(cmd, c, cursor)
    <3>1. At = cursor /\ At' = At + 1 /\ At \in 0..Len(cmd) /\ UNCHANGED sent
      BY <1>0, <1>1, <2>2 DEF TypeChar, Ready, MovedInv, At, InText
    <3>2. cmd' = Append(SubSeq(cmd, 1, At), c) \o SubSeq(cmd, At + 1, Len(cmd))
      BY <1>0, <2>2, <3>1, InsertedChar
    <3>3. Editor!Type(c)
      BY <3>1, <3>2 DEF Editor!Type, Editor!Before, Editor!After
    <3> QED
      BY <3>3 DEF Editor!Next
  <2> QED
    BY <1>1, <2>1, <2>2 DEF TypeChar
<1>2. CASE EraseCharRemoves
  <2>1. /\ moved = 1 /\ moved' = 0 /\ cmd' = RemoveChar(cmd, cursor)
        /\ UNCHANGED <<cursor, sent>>
    BY <1>0, <1>2 DEF EraseCharRemoves, ErasesAhead
  <2>2. At = cursor + 1 /\ At' = cursor /\ cursor >= 0 /\ cursor < Len(cmd)
    <3>1. At = cursor + 1 /\ At' = cursor
      BY <1>0, <2>1 DEF At
    <3>2. At \in 0..Len(cmd) /\ At' >= 0
      BY DEF InText
    <3> QED
      BY <1>0, <3>1, <3>2
  <2>3. /\ cmd' = SubSeq(cmd, 1, At - 1) \o SubSeq(cmd, At + 1, Len(cmd))
        /\ At > 0 /\ At' = At - 1
    <3>1. cursor \in 0..(Len(cmd) - 1)
      BY <1>0, <2>2
    <3>2. cmd' = SubSeq(cmd, 1, cursor) \o SubSeq(cmd, cursor + 2, Len(cmd))
      BY <2>1, <3>1, Zenon DEF RemoveChar
    <3>3. At - 1 = cursor /\ At + 1 = cursor + 2
      BY <1>0, <2>2
    <3> QED
      BY <1>0, <2>2, <3>2, <3>3
  <2>4. Editor!Erase
    BY <2>1, <2>3 DEF Editor!Erase, Editor!After
  <2> QED
    BY <2>4 DEF Editor!Next
<1>3. CASE TypeCharMoves \/ EraseChar \/ Arrow \/ Winch
  BY <1>3, OnlyMoves DEF TypeCharMoves, EraseChar, Arrow, Winch
<1>4. CASE Return
  <2>1. sent' = cmd /\ cmd' = <<>> /\ cursor' = 0 /\ moved' = 0
    BY <1>4 DEF Return, Ready, MovedInv
  <2>2. At' = 0
    BY <2>1 DEF At
  <2>3. Editor!Enter
    BY <2>1, <2>2 DEF Editor!Enter
  <2> QED
    BY <2>3 DEF Editor!Next
<1>5. CASE Receive \/ ChatScrollUp \/ ChatScrollDown
  BY <1>5, OnlyMoves DEF Receive, ChatScrollUp, ChatScrollDown, editVars
<1>6. CASE UNCHANGED chatVars
  BY <1>6, OnlyMoves DEF chatVars, editVars
<1> QED
  BY <1>1, <1>2, <1>3, <1>4, <1>5, <1>6 DEF ChatNext

(* As long as the cursor is in the text the program is the line editor its   *)
(* user expects (insertCharIntoString, removeCharFromString, moveCursor),    *)
(* wherever handle_winch strikes and whatever size the field gets.           *)
THEOREM ChatIsLineEditor == ChatSpec => EditsInText
<1> DEFINE Step == running' /\ InText /\ InText' /\ ~ErasesAhead => Editor!Next
<1>1. ChatInit => Editor!Init /\ MovedInv
  BY DEF ChatInit, Editor!Init, At, MovedInv
<1>2. ChatTypeOK /\ ChatTypeOK' /\ MovedInv /\ [ChatNext]_chatVars => [Step]_(Editor!vars)
  BY StepRefines
<1> HIDE DEF Step
<1>3. ChatSpec => Editor!Init /\ [][Step]_(Editor!vars)
  BY <1>1, <1>2, TypeCorrect, MovedInductive, PTL DEF ChatSpec
<1> QED
  BY <1>3 DEF EditsInText, Step
=============================================================================
