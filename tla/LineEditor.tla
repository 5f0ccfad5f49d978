------------------------------ MODULE LineEditor ------------------------------
(***************************************************************************)
(* What someone who types into one line expects: a character goes in       *)
(* before the cursor, the erase key takes the one before the cursor, the   *)
(* cursor moves within the text, and Enter sends what the line shows.      *)
(* ChatProgram implements this module as far as its cursor stays in the    *)
(* text.                                                                   *)
(***************************************************************************)
EXTENDS Naturals, Sequences

CONSTANT Char

VARIABLES line,   \* the text
          at,     \* how many of its characters are before the cursor
          sent    \* the last line sent

vars == <<line, at, sent>>

Before == SubSeq(line, 1, at)
After == SubSeq(line, at + 1, Len(line))

Init == line = <<>> /\ at = 0 /\ sent = <<>>

Type(c) ==
  /\ line' = Append(Before, c) \o After
  /\ at' = at + 1
  /\ UNCHANGED sent

Erase ==
  /\ at > 0
  /\ line' = SubSeq(line, 1, at - 1) \o After
  /\ at' = at - 1
  /\ UNCHANGED sent

(* An arrow key, or a new window size. *)
Move == at' \in 0 .. Len(line) /\ UNCHANGED <<line, sent>>

Enter == sent' = line /\ line' = <<>> /\ at' = 0

Next == Erase \/ Move \/ Enter \/ \E c \in Char : Type(c)

Spec == Init /\ [][Next]_vars
=============================================================================
