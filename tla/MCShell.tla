------------------------------- MODULE MCShell -------------------------------
(***************************************************************************)
(* The shell for TLC.  Only a command line passes from its history to its  *)
(* jobs, so that the two are explored one at a time: part tells which.     *)
(***************************************************************************)
EXTENDS ShellHistory, ShellJobs

VARIABLE part    \* "history" or "jobs"

vars == <<historyVars, jobsVars, part>>

Init ==
  /\ HistoryInit /\ JobsInit
  /\ part = "history" \/ (part = "jobs" /\ dir = CHOOSE d \in Dir : TRUE)

Next ==
  /\ UNCHANGED part
  /\ \/ part = "history" /\ HistoryNext /\ UNCHANGED jobsVars
     \/ part = "jobs" /\ JobsNext /\ UNCHANGED historyVars

Spec == Init /\ [][Next]_vars /\ JobsFairness

(* A line, a longer one, and one that starts with a space.                   *)
MCLine == {<<2>>, <<3, 3>>, <<Space>>}

(* Pipelines whose programs write more than a pipe holds at the first or at  *)
(* a later stage, builtins among the stages and at their end, background     *)
(* jobs, and fg.                                                             *)
Program(amp, big) ==
  [what |-> "program", amp |-> amp, big |-> big, long |-> FALSE, jid |-> 0]
Built(what, long, jid) ==
  [what |-> what, amp |-> FALSE, big |-> FALSE, long |-> long, jid |-> jid]

Small == Program(FALSE, FALSE)
Amp == Program(TRUE, FALSE)
Big == Program(FALSE, TRUE)
Echo == Built("builtin", FALSE, 0)

MCCommand ==
  {<<Small>>, <<Amp>>, <<Small, Small>>, <<Small, Amp>>, <<Big, Small>>, <<Big, Amp>>,
   <<Small, Big, Small>>, <<Small, Echo>>, <<Small, Echo, Small>>,
   <<Built("builtin", TRUE, 0)>>, <<Built("fg", FALSE, 1)>>, <<Built("fg", FALSE, 2)>>}
=============================================================================
