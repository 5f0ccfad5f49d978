------------------------------ MODULE MCAuditor ------------------------------
(***************************************************************************)
(* The auditor, the log it reads and the chat program, for TLC.  The       *)
(* auditor sees of the writers only that a line is there (its action       *)
(* WriteLog), and nothing of the chat program's screen matters to the log, *)
(* so that their behaviours are explored one at a time: part tells which.  *)
(***************************************************************************)
EXTENDS Auditor, AuditLog, ChatProgram

VARIABLE part    \* "auditor", "log" or "chat"

vars == <<auditorVars, logVars, chatVars, part>>

Init ==
  /\ AuditorInit /\ LogInit /\ ChatInit
  /\ \/ part = "auditor" /\ size = 3
     \/ part = "log" /\ log = <<>> /\ size = 3
     \/ part = "chat" /\ log = <<>>

Next ==
  /\ UNCHANGED part
  /\ \/ part = "auditor" /\ AuditorNext /\ UNCHANGED <<logVars, chatVars>>
     \/ part = "log" /\ LogNext /\ UNCHANGED <<auditorVars, chatVars>>
     \/ part = "chat" /\ ChatNext /\ UNCHANGED <<auditorVars, logVars>>

Spec == Init /\ [][Next]_vars /\ AuditorFairness /\ LogFairness

(* The three modules' type invariants, with what each says of the states     *)
(* beside their types: the scroll positions lie in their lists, the cursor   *)
(* in its field, and who writes or reads the log holds its lock.             *)
TypeOK == AuditorTypeOK /\ LogTypeOK /\ ChatTypeOK

(* Records that differ in every column, one of them without a name and one   *)
(* without a time, and commands of every shape.                              *)
MCText == 1..2
Rec(t, n, c, i) == [time |-> t, name |-> n, cmd |-> c, info |-> i]
MCEvent == {Rec(1, 2, 1, 2), Rec(2, 1, 1, 0), Rec(2, 0, 2, 1), Rec(0, 1, 2, 1)}

Cmd(w, f, c, a) == [word |-> w, filter |-> f, col |-> c, asc |-> a]
All == [is |-> "keyword", texts |-> 0..2]
One == [is |-> "keyword", texts |-> {1}]
Between(a, b) == [is |-> "range", from |-> a, to |-> b]
MCCommand ==
  {Cmd("", All, "none", -1), Cmd("-h", All, "none", -1), Cmd("-r", All, "none", -1),
   Cmd("other", One, "none", -1), Cmd("other", One, "cmd", 1),
   Cmd("other", All, "name", 0),
   Cmd("other", Between(1, 1), "time", -1), Cmd("other", Between(2, 2), "none", -1)}

(* Two characters and a line that closes the window.                         *)
MCChar == {"a", "b"}
MCCloseLine == <<"b", "b">>
=============================================================================
