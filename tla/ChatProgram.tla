----------------------------- MODULE ChatProgram -----------------------------
(***************************************************************************)
(* The program in a chat window, hw6/chat.c: the edited line with its      *)
(* cursor (ncursesReadInput, insertCharIntoString, removeCharFromString,   *)
(* moveCursor), the messages with the position they are scrolled to, and   *)
(* the handler of SIGWINCH, which can run at any point and sends the       *)
(* cursor home, inside moveCursor too.                                     *)
(*                                                                         *)
(* A key that changes both the line and the cursor takes two steps, in the *)
(* order of the code.  What a message says, and how lines are broken, is   *)
(* left out; a message is handled when its last character has arrived.     *)
(***************************************************************************)
EXTENDS Integers, Sequences, SequencesExt

CONSTANTS Char,        \* the characters that can be typed
          CloseLine,   \* "/close"
          Field,       \* the sizes the window gives the text field
          MaxLine,     \* bound on the length of a typed line
          MaxMessages  \* bound on the messages received

ASSUME ChatProgramAssumption ==
  /\ CloseLine \in Seq(Char)
  /\ Field \subseteq Nat \ {0, 1} /\ Field # {}
  /\ MaxLine \in Nat /\ MaxMessages \in Nat

VARIABLES
  running,   \* the program has not exited
  cmd,       \* the line
  cursor,    \* chat_cursor
  size,      \* text_field_size, times the lines of the field
  key,       \* "none", or the key whose second half comes next
  moved,     \* by how much that key's first half moved cmd or chat_cursor
  sent,      \* the last line written to the socket
  messages,  \* how many messages are in the list
  scroll_pointer,    \* 1 is the oldest message, 0 NULL
  shown      \* the message at the bottom of the display, 0 if it is blank

editVars == <<cmd, cursor, size, key, moved, sent>>
listVars == <<messages, scroll_pointer, shown>>
chatVars == <<running, editVars, listVars>>

ChatInit ==
  /\ running = TRUE
  /\ cmd = <<>> /\ cursor = 0 /\ size \in Field
  /\ key = "none" /\ moved = 0 /\ sent = <<>>
  /\ messages = 0 /\ scroll_pointer = 0 /\ shown = 0

-----------------------------------------------------------------------------
(* The two helpers give an empty line for a position outside of it. *)

(* MUTANT of InsertChar: the characters after the cursor are overwritten. *)
OverwriteChar(s, c, pos) ==
  IF pos \notin 0..Len(s) THEN <<>> ELSE SubSeq(s, 1, pos) \o <<c>> \o SubSeq(s, pos + 2, Len(s))

(* insertCharIntoString(newString, s, c, pos) *)
InsertChar(s, c, pos) ==
  IF pos \notin 0..Len(s) THEN <<>> ELSE SubSeq(s, 1, pos) \o <<c>> \o SubSeq(s, pos + 1, Len(s))

(* removeCharFromString(newString, s, pos) *)
RemoveChar(s, pos) ==
  IF pos \notin 0..(Len(s) - 1) THEN <<>> ELSE SubSeq(s, 1, pos) \o SubSeq(s, pos + 2, Len(s))

(* moveCursor: the text's length plays no part. *)
Left(pos) == IF pos <= 0 THEN pos ELSE pos - 1
Right(pos) == IF pos > 0 /\ pos + 1 >= size THEN pos ELSE pos + 1

(* SIGWINCH between moveCursor's test of the cursor and its store: home is   *)
(* where the cursor is decremented from, or the store overwrites it.         *)
MoveLeft ==
  \/ cursor' = Left(cursor) /\ UNCHANGED <<size, shown>>
  \/ cursor > 0 /\ cursor' \in {cursor - 1, -1} /\ size' \in Field /\ shown' = 0

MoveRight ==
  \/ cursor' = Right(cursor) /\ UNCHANGED <<size, shown>>
  \/ Right(cursor) # cursor /\ cursor' = cursor + 1 /\ size' \in Field /\ shown' = 0

Ready == running /\ key = "none"

(* A character: insertCharIntoString unless the field is full, then right. *)
TypeChar(c) ==
  /\ Ready /\ Len(cmd) < MaxLine
  /\ IF cursor + 1 >= size
       THEN moved' = 0 /\ UNCHANGED cmd
       ELSE moved' = 1 /\ cmd' = InsertChar(cmd, c, cursor)
  /\ key' = "char"
  /\ UNCHANGED <<running, cursor, size, sent, listVars>>

TypeCharMoves ==
  /\ running /\ key = "char"
  /\ MoveRight /\ key' = "none" /\ moved' = 0
  /\ UNCHANGED <<running, cmd, sent, messages, scroll_pointer>>

(* The erase key: left, then removeCharFromString. *)
EraseChar ==
  /\ Ready
  /\ MoveLeft
  /\ moved' = IF cursor > 0 THEN 1 ELSE 0
  /\ key' = "erase"
  /\ UNCHANGED <<running, cmd, sent, messages, scroll_pointer>>

EraseCharRemoves ==
  /\ running /\ key = "erase"
  /\ cmd' = RemoveChar(cmd, cursor) /\ key' = "none" /\ moved' = 0
  /\ UNCHANGED <<running, cursor, size, sent, listVars>>

Arrow ==
  /\ Ready
  /\ MoveLeft \/ MoveRight
  /\ UNCHANGED <<running, cmd, key, moved, sent, messages, scroll_pointer>>

(* Enter: handleMessage, then an empty line. *)
Return ==
  /\ Ready
  /\ IF cmd = CloseLine
       THEN running' = FALSE /\ UNCHANGED <<cmd, cursor, sent>>
       ELSE sent' = cmd /\ cmd' = <<>> /\ cursor' = 0 /\ UNCHANGED running
  /\ UNCHANGED <<size, key, moved, listVars>>

(* initValues: the cursor goes home, and the sizes are the window's.         *)
InitValues == size' \in Field /\ cursor' = 0

(* handle_winch, in the middle of a key too: the screen is cleared and       *)
(* initialised again; neither the line nor the messages are printed again.   *)
Winch ==
  /\ running
  /\ InitValues /\ shown' = 0
  /\ UNCHANGED <<running, cmd, key, moved, sent, messages, scroll_pointer>>

-----------------------------------------------------------------------------
(* clearChatDisplay and printChatDisplay, from a message on. *)
Show(m) == shown' = m

(* addMessageList: the new message is the head, and scroll_pointer goes there. *)
AddMessageList == messages' = messages + 1 /\ scroll_pointer' = messages'

(* The socket is read when no key waits.  Its end is never read: the window  *)
(* has inherited the client's end as well.                                   *)

(* recvCommand *)
Receive ==
  /\ Ready /\ messages < MaxMessages
  /\ AddMessageList /\ Show(messages')
  /\ UNCHANGED <<running, editVars>>

(* scrollUp: at the oldest message too, the display is printed again. *)
ChatScrollUp ==
  /\ Ready /\ scroll_pointer # 0
  /\ scroll_pointer' = IF scroll_pointer = 1 THEN scroll_pointer ELSE scroll_pointer - 1
  /\ Show(scroll_pointer')
  /\ UNCHANGED <<running, editVars, messages>>

(* scrollDown: nothing at the newest. *)
ChatScrollDown ==
  /\ Ready /\ scroll_pointer # 0 /\ scroll_pointer < messages
  /\ scroll_pointer' = scroll_pointer + 1 /\ Show(scroll_pointer')
  /\ UNCHANGED <<running, editVars, messages>>

ChatNext ==
  \/ \E c \in Char : TypeChar(c)
  \/ TypeCharMoves \/ EraseChar \/ EraseCharRemoves \/ Arrow \/ Return \/ Winch
  \/ Receive \/ ChatScrollUp \/ ChatScrollDown

ChatSpec == ChatInit /\ [][ChatNext]_chatVars

-----------------------------------------------------------------------------
(* The cursor stays in the largest field, or at -1 when SIGWINCH has struck  *)
(* inside moveCursor; the display shows the message that is scrolled to, or  *)
(* nothing since the window was resized.                                     *)
ChatTypeOK ==
  /\ running \in BOOLEAN
  /\ cmd \in Seq(Char) /\ Len(cmd) <= MaxLine
  /\ size \in Field
  /\ cursor \in Int /\ cursor >= -1 /\ \E f \in Field : cursor < f
  /\ key \in {"none", "char", "erase"} /\ moved \in {0, 1}
  /\ sent \in Seq(Char)
  /\ messages \in 0 .. MaxMessages /\ scroll_pointer \in 0 .. messages
  /\ shown \in {0, scroll_pointer}

(* The cursor as the user sees it, in the middle of a key too. *)
At == cursor + moved

Editor == INSTANCE LineEditor WITH line <- cmd, at <- At

InText == At \in 0..Len(cmd)

(* The erase key at the start of the line removes the first character.       *)
ErasesAhead == key = "erase" /\ moved = 0 /\ key' = "none"

(* As long as the cursor is in the text, the program is the line editor its  *)
(* user expects, wherever SIGWINCH strikes and however the field's size      *)
(* changes: one key changes one character, the one at the cursor, and what   *)
(* is sent is what was typed.  moveCursor lets the cursor run past the end,  *)
(* and a SIGWINCH inside of it before the start; there the next character or *)
(* the erase key empties the line.                                           *)
EditsInText ==
  Editor!Init /\
  [][running' /\ InText /\ InText' /\ ~ErasesAhead => Editor!Next]_(Editor!vars)
=============================================================================
