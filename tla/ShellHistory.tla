---------------------------- MODULE ShellHistory ----------------------------
(***************************************************************************)
(* The command history of hw4/320sh.c: an array of Size lines (50 in the   *)
(* code), the index at which the next command is stored, the offset that   *)
(* the arrow keys move, and the file that the array is saved to at the end *)
(* and loaded from at the start.  The file's name is relative: it lies in  *)
(* the directory the shell is started in, or where cd has gone since.      *)
(*                                                                         *)
(* A line is a sequence of characters, because the file is one: it is      *)
(* written over from the beginning, line by line, and never truncated, and *)
(* the shell can be killed between any two writes.  Characters are         *)
(* positive numbers and Newline is 0.  Quotes are resolved: a line is what *)
(* the quote buffer holds when it is executed.  The shell stores a line    *)
(* before it executes it, exit and clear-history included; which line it   *)
(* is that exits or changes the directory is left open.  One shell at a    *)
(* time uses the files, and may write in the directories it goes to.       *)
(***************************************************************************)
EXTENDS Integers, FiniteSetsExt, SequencesExt

CONSTANTS Size,      \* lines in the array
          Line,      \* lines that are typed
          Dir,       \* directories
          MaxSaves   \* bound on the saves

ASSUME HistoryAssumption ==
  /\ Size \in Nat /\ Size >= 3
  /\ Line \subseteq Seq(Nat \ {0}) \ {<<>>}
  /\ MaxSaves \in Nat

VARIABLES history,             \* the array
          currHistory,         \* index to where the current is in the history
          currHistoryOffset,   \* the line shown, relative to currHistory
          cmd,                 \* the line being edited, as recalled
          dir,                 \* the shell's directory
          disk,                \* the characters of each directory's CSE320.txt
          session,             \* "off", "on", "overrun" (written past the
                               \*   array), or where the save is: "line", "newline"
          unsaved,             \* the lines it has still to write
          pos,                 \* the file's position
          saves,               \* how many saves have begun
          entered,             \* history variable: the lines stored since the
                               \*   start, as long as the array has free slots
          kept                 \* history variable: the lines written since the
                               \*   last save began, for each directory

sessionVars == <<history, currHistory, currHistoryOffset, cmd, entered>>
saveVars == <<disk, unsaved, pos, saves, kept>>
historyVars == <<sessionVars, dir, session, saveVars>>

Newline == 0
Space == 1
Index == 0..(Size - 1)
NoLines == [i \in Index |-> <<>>]

-----------------------------------------------------------------------------
NewlinesIn(s) == Cardinality({i \in DOMAIN s : s[i] = Newline})

(* The n-th line of the file, complete or not.                               *)
LineOf(s, n) ==
  LET at == {i \in DOMAIN s :
               s[i] # Newline /\ NewlinesIn(SubSeq(s, 1, i)) = n - 1}
  IN IF at = {} THEN <<>> ELSE SubSeq(s, Min(at), Max(at))

(* storeHistoryToFile: the lines that are not blank.                         *)
NotBlank(h) ==
  LET upTo[k \in 0..Size] ==
        IF k = 0 THEN <<>>
        ELSE IF h[k - 1] = <<>> THEN upTo[k - 1]
        ELSE Append(upTo[k - 1], h[k - 1])
  IN upTo[Size]

(* MUTANT of WrittenAt: the file is opened with O_APPEND. *)
Appended(old, at, chars) == old \o chars

(* write(history_fd, chars), the file having been opened without O_TRUNC.    *)
WrittenAt(old, at, chars) ==
  SubSeq(old, 1, at) \o chars \o SubSeq(old, at + Len(chars) + 1, Len(old))

-----------------------------------------------------------------------------
HistoryInit ==
  /\ history = NoLines /\ currHistory = 0 /\ currHistoryOffset = 0
  /\ cmd = <<>> /\ entered = <<>> /\ session = "off" /\ dir \in Dir
  /\ disk = [d \in Dir |-> <<>>] /\ kept = [d \in Dir |-> <<>>]
  /\ unsaved = <<>> /\ pos = 0 /\ saves = 0

(* getHistoryFromFile: a line for each newline.  What does not fit is        *)
(* written behind the array; the index stops at the last line.               *)
StartSession(d) ==
  /\ session = "off" /\ dir' = d
  /\ LET n == NewlinesIn(disk[d])
         fits == n \in Index \/ (n = Size /\ LineOf(disk[d], n + 1) = <<>>)
     IN /\ session' = IF fits THEN "on" ELSE "overrun"
        /\ history' = [i \in Index |-> LineOf(disk[d], i + 1)]
        /\ currHistory' = Min({n, Size - 1})
  /\ UNCHANGED <<currHistoryOffset, cmd, entered, saveVars>>

(* storeHistory: with the index at the last line everything moves up; from   *)
(* the last line but one the index moves no further.  A line that starts     *)
(* with a space is not stored, and leaves the offset where the arrow keys    *)
(* have moved it.                                                            *)
Stored(line) ==
  LET up == [i \in Index |-> IF i < Size - 1 THEN history[i + 1] ELSE <<>>]
  IN [IF currHistory < Size - 1 THEN history ELSE up EXCEPT ![currHistory] = line]

HasFreeSlot == currHistory < Size - 2

(* MUTANT of NextIndex: the last line does not stop the index. *)
IndexAfter == currHistory + 1

NextIndex == IF HasFreeSlot THEN currHistory + 1 ELSE currHistory

StoreHistory(line) ==
  IF line[1] = Space
    THEN UNCHANGED <<history, currHistory, currHistoryOffset, entered>>
    ELSE /\ history' = Stored(line) /\ currHistory' = NextIndex
         /\ currHistoryOffset' = 0
         /\ entered' = IF HasFreeSlot THEN Append(entered, line) ELSE <<>>

(* A program's line, recalled or typed, or a cd to another directory.        *)
EnterLine(line) ==
  /\ session = "on" /\ line # <<>>
  /\ StoreHistory(line)
  /\ cmd' = <<>> /\ dir' \in Dir
  /\ UNCHANGED <<session, saveVars>>

(* An empty line is not even given to storeHistory: the offset stays.        *)
EnterNothing ==
  /\ session = "on" /\ cmd' = <<>>
  /\ UNCHANGED <<history, currHistory, currHistoryOffset, entered, dir, session, saveVars>>

(* The guards of loadHistory.                                                *)
MayGoUp == currHistoryOffset + currHistory > 0
MayGoDown == currHistoryOffset + currHistory < Size - 1

(* MUTANT of Recall: the line is copied before the offset moves. *)
RecallFirst(by) ==
  /\ currHistoryOffset' = currHistoryOffset + by
  /\ cmd' = history[currHistory + currHistoryOffset]

(* loadHistory: an arrow that may not move clears the line all the same.     *)
Recall(by) ==
  /\ currHistoryOffset' = currHistoryOffset + by
  /\ cmd' = history[currHistory + currHistoryOffset + by]

ClearLineOnly == cmd' = <<>> /\ UNCHANGED currHistoryOffset

ArrowKey ==
  /\ session = "on"
  /\ \/ MayGoUp /\ Recall(-1)
     \/ ~MayGoUp /\ ClearLineOnly
     \/ MayGoDown /\ Recall(1)
     \/ ~MayGoDown /\ ClearLineOnly
  /\ UNCHANGED <<history, currHistory, entered, dir, session, saveVars>>

(* clear-history: the index has moved for the line itself, unless that       *)
(* starts with a space, and stays there; the file is removed and made anew.  *)
ClearHistory ==
  /\ session = "on"
  /\ \/ currHistory' = NextIndex /\ currHistoryOffset' = 0
     \/ UNCHANGED <<currHistory, currHistoryOffset>>
  /\ history' = NoLines /\ cmd' = <<>> /\ entered' = <<>>
  /\ disk' = [disk EXCEPT ![dir] = <<>>] /\ kept' = [kept EXCEPT ![dir] = <<>>]
  /\ UNCHANGED <<dir, session, unsaved, pos, saves>>

-----------------------------------------------------------------------------
(* What a new process of the shell starts with.                              *)
SessionOver ==
  /\ session' = "off"
  /\ history' = NoLines /\ currHistory' = 0 /\ currHistoryOffset' = 0
  /\ cmd' = <<>> /\ entered' = <<>> /\ unsaved' = <<>> /\ pos' = 0
  /\ UNCHANGED dir

(* exit, or the input ends in the middle of a line: the line is stored, and  *)
(* storeHistoryToFile opens the file.                                        *)
BeginSave(line) ==
  /\ session = "on" /\ line # <<>> /\ saves < MaxSaves
  /\ StoreHistory(line) /\ saves' = saves + 1
  /\ session' = "line" /\ unsaved' = NotBlank(history') /\ pos' = 0
  /\ UNCHANGED <<cmd, dir, disk, kept>>

WriteChars(chars) ==
  /\ disk' = [disk EXCEPT ![dir] = WrittenAt(@, pos, chars)]
  /\ pos' = pos + Len(chars)

(* The two writes for a line; with the first the old history is gone.        *)
SaveLine ==
  /\ session = "line" /\ unsaved # <<>>
  /\ WriteChars(Head(unsaved)) /\ session' = "newline"
  /\ kept' = IF pos = 0 THEN [kept EXCEPT ![dir] = <<>>] ELSE kept
  /\ UNCHANGED <<sessionVars, dir, unsaved, saves>>

SaveNewline ==
  /\ session = "newline"
  /\ WriteChars(<<Newline>>) /\ session' = "line"
  /\ kept' = [kept EXCEPT ![dir] = Append(@, Head(unsaved))]
  /\ unsaved' = Tail(unsaved)
  /\ UNCHANGED <<sessionVars, dir, saves>>

EndSave ==
  /\ session = "line" /\ unsaved = <<>>
  /\ SessionOver /\ UNCHANGED <<disk, saves, kept>>

(* The shell is killed, by Ctrl-C or from outside, in the save too.          *)
KillShell ==
  /\ session \in {"on", "line", "newline"}
  /\ SessionOver /\ UNCHANGED <<disk, saves, kept>>

HistoryNext ==
  \/ \E d \in Dir : StartSession(d)
  \/ \E line \in Line \cup {cmd} : EnterLine(line) \/ BeginSave(line)
  \/ EnterNothing \/ ArrowKey \/ ClearHistory
  \/ SaveLine \/ SaveNewline \/ EndSave \/ KillShell

HistorySpec == HistoryInit /\ [][HistoryNext]_historyVars

-----------------------------------------------------------------------------
Text == Seq(Nat \ {0})

(* The index and every line the arrow keys can reach lie in the array        *)
(* (storeHistory, loadHistory, getHistoryFromFile).                          *)
HistoryTypeOK ==
  /\ \A i \in Index : history[i] \in Text
  /\ DOMAIN history = Index
  /\ currHistory \in Index /\ currHistoryOffset \in Int
  /\ currHistory + currHistoryOffset \in Index
  /\ cmd \in Text /\ entered \in Seq(Text)
  /\ dir \in Dir /\ disk \in [Dir -> Seq(Nat)] /\ kept \in [Dir -> Seq(Text)]
  /\ session \in {"off", "on", "overrun", "line", "newline"}
  /\ unsaved \in Seq(Text) /\ pos \in Nat /\ saves \in 0..MaxSaves

(* The arrow keys walk through the lines entered, the latest first, and back *)
(* again: k lines up from where storeHistory left the index is the line      *)
(* stored k-th before, whatever was loaded and cleared.  A line that is not  *)
(* stored, being empty or starting with a space, does not bring the keys     *)
(* back to the latest: the next one goes on from the line shown before.      *)
(* Nothing is claimed once the last free slot is taken, where each line      *)
(* replaces the one before it (entered is empty then).                       *)
RecallsInOrder ==
  (session = "on" /\ cmd # <<>> /\ -currHistoryOffset \in 1..Len(entered))
    => cmd = entered[Len(entered) + 1 + currHistoryOffset]

(* A shell's history starts with the lines last saved in the directory it is *)
(* started in, in their order, whatever older end of the file follows them,  *)
(* wherever that save was broken off and however many shells ended there or  *)
(* elsewhere without one; and a save that was not broken off has saved every *)
(* line of the array.                                                        *)
HistorySurvives ==
  [][/\ session = "off" /\ session' = "on" =>
          \A i \in DOMAIN kept[dir'] : history'[i - 1] = kept[dir'][i]
     /\ EndSave /\ pos > 0 => kept[dir] = NotBlank(history)]_historyVars
=============================================================================
