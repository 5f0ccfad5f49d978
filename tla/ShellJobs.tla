------------------------------ MODULE ShellJobs ------------------------------
(***************************************************************************)
(* Jobs in hw4/320sh.c: the shell, one process that starts the stages of a *)
(* pipeline in turn and, in the foreground, waits after each one; the job  *)
(* list; the control keys, which reach the shell as characters while it is *)
(* at the prompt (launcher.sh turns the terminal's signals off); and the   *)
(* programs, which run, read to the end of their input and end at any time.*)
(*                                                                         *)
(* A command is its sequence of stages, a stage a record:                  *)
(*   what   "program", "builtin", or "fg" with the job number in jid       *)
(*   amp    the stage has an argument &                                    *)
(*   big    the program writes more than a pipe holds                      *)
(*   long   the builtin's line is longer than the 13 bytes of cmdCmp       *)
(* A program's pid is its index in proc and is not used again; group 0 is  *)
(* the shell's own.  Redirected stages, which neither read nor write a     *)
(* pipe, are left out, and so are programs that read the terminal: started *)
(* in a group of their own without tcsetpgrp, they are stopped by it.      *)
(***************************************************************************)
EXTENDS Integers, Sequences, FiniteSetsExt

CONSTANTS Command,    \* the commands that are typed
          MaxJobs,    \* bound on commands
          MaxProcs    \* bound on programs started

Stage == [what : {"program", "builtin", "fg"}, amp : BOOLEAN, big : BOOLEAN,
          long : BOOLEAN, jid : Nat]

ASSUME JobsAssumption ==
  /\ Command \subseteq Seq(Stage) \ {<<>>}
  /\ MaxJobs \in Nat /\ MaxProcs \in Nat

VARIABLES proc,        \* the programs started, by pid
          job,         \* the jobs made, in order; the last is being executed
          jobList,     \* the jobs in the list behind jobHead, as positions in
                       \*   job; the list is in the same order
          rest,        \* the stages that are not done (tempProcess)
          fileIn,      \* the program whose pipe the next program reads, or 0
          writeEnds,   \* the programs whose pipe's write end the shell holds
          shell        \* "prompt", "run", "wait", "waitpid", "dead", "stopped"

jobsVars == <<proc, job, jobList, rest, fileIn, writeEnds, shell>>

Current == Len(job)
Programs(stages) == Cardinality({i \in DOMAIN stages : stages[i].what = "program"})

Running(p) == proc[p].st = "running"
Alive(p) == proc[p].st \in {"running", "stopped"}
Zombie(p) == proc[p].st \in {"exited", "killed"}
Reaped(p) == proc[p].st = "reaped"

JobsInit ==
  /\ proc = <<>> /\ job = <<>> /\ jobList = {} /\ rest = <<>>
  /\ fileIn = 0 /\ writeEnds = {} /\ shell = "prompt"

-----------------------------------------------------------------------------
(* MUTANT of NextJid: the number after that of the list's first job. *)
AfterFirstJid == IF jobList = {} THEN 1 ELSE 1 + job[Min(jobList)].jid

(* assignJid.                                                                *)
NextJid == 1 + Max({0} \cup {job[j].jid : j \in jobList})

(* scanForBackgroundCharacter: the last stage decides.                       *)
IsBackground(stages) == stages[Len(stages)].amp

(* A line is parsed and its job added to the list.                           *)
EnterCommand(stages) ==
  /\ shell = "prompt" /\ Current < MaxJobs
  /\ Len(proc) + Programs(stages) <= MaxProcs
  /\ job' = Append(job, [jid |-> NextJid, bg |-> IsBackground(stages), pgid |-> 0])
  /\ jobList' = jobList \cup {Current + 1}
  /\ rest' = stages /\ fileIn' = 0 /\ shell' = "run"
  /\ UNCHANGED <<proc, writeEnds>>

(* executeJob goes on to the next stage, or returns to the prompt.           *)
NextStage ==
  /\ rest' = Tail(rest)
  /\ shell' = IF Len(rest) = 1 THEN "prompt" ELSE "run"

AtStage(what) == shell = "run" /\ rest[1].what = what

(* A builtin stage neither waits, nor removes its job, nor closes its pipe.  *)
(* Its line is copied to cmdCmp: too long, it may end the shell.             *)
Builtin ==
  /\ AtStage("builtin")
  /\ \/ NextStage
     \/ rest[1].long /\ shell' = "dead" /\ UNCHANGED rest
  /\ UNCHANGED <<proc, job, jobList, fileIn, writeEnds>>

InShellsGroup == {p \in DOMAIN proc : proc[p].grp = 0 /\ ~Reaped(p)}

(* fg: the pid of a process structure is never set, so waitpid is called     *)
(* with 0 and waits for a child in the shell's own group, if there is one.   *)
Fg ==
  /\ AtStage("fg")
  /\ IF InShellsGroup # {} /\ \E j \in jobList : job[j].jid = rest[1].jid
       THEN shell' = "waitpid" /\ UNCHANGED rest
       ELSE NextStage
  /\ UNCHANGED <<proc, job, jobList, fileIn, writeEnds>>

FgReturns(p) ==
  /\ shell = "waitpid" /\ p \in InShellsGroup /\ Zombie(p)
  /\ proc' = [proc EXCEPT ![p].st = "reaped"]
  /\ NextStage
  /\ UNCHANGED <<job, jobList, fileIn, writeEnds>>

(* setpgid: the job's first program leads a new group.  A later one joins it *)
(* while it exists, that is until its members are reaped, and stays in the   *)
(* shell's group after that.                                                 *)
GroupOf(p, pgid) ==
  CASE pgid = 0 -> p
    [] pgid # 0 /\ \E q \in DOMAIN proc : proc[q].grp = pgid /\ ~Reaped(q) -> pgid
    [] OTHER -> 0

(* MUTANT of Awaited: only the last stage is waited for. *)
AwaitedLast == ~job[Current].bg /\ Len(rest) = 1

(* "Wait if in foreground".                                                  *)
Awaited == ~job[Current].bg

(* fork and exec of a program, up to the wait; without one the parent closes *)
(* its pipe's write end at once.                                             *)
Fork ==
  /\ AtStage("program")
  /\ LET p == Len(proc) + 1
         piped == Len(rest) > 1
     IN /\ proc' = Append(proc,
             [st |-> "running", grp |-> GroupOf(p, job[Current].pgid),
              bg |-> job[Current].bg, big |-> rest[1].big /\ piped, src |-> fileIn])
        /\ job' = [job EXCEPT ![Current].pgid = IF @ = 0 THEN p ELSE @]
        /\ \/ ~Awaited /\ NextStage /\ fileIn' = p /\ UNCHANGED writeEnds
           \/ /\ Awaited /\ shell' = "wait" /\ UNCHANGED <<rest, fileIn>>
              /\ writeEnds' = writeEnds \cup (IF piped THEN {p} ELSE {})
  /\ UNCHANGED jobList

(* checkAndRemoveFinalProcess.                                               *)
RemoveIfFinal ==
  jobList' = IF Len(rest) > 1 THEN jobList ELSE jobList \ {Current}

(* MUTANT of CloseWriteEnd: the parent forgets to close fileOut. *)
KeepWriteEnd == UNCHANGED writeEnds

CloseWriteEnd == writeEnds' = writeEnds \ {Len(proc)}

(* The wait of a foreground job returns with any child that has ended.       *)
WaitReturns(p) ==
  /\ shell = "wait" /\ p \in DOMAIN proc /\ Zombie(p)
  /\ proc' = [proc EXCEPT ![p].st = "reaped"]
  /\ RemoveIfFinal /\ CloseWriteEnd
  /\ fileIn' = Len(proc)
  /\ NextStage
  /\ UNCHANGED job

-----------------------------------------------------------------------------
(* MUTANT of KeyReaches: background jobs too. *)
KeyReachesAll(j) == TRUE

KeyReaches(j) == ~job[j].bg

(* The jobs controlC and controlZ signal, in the list's order.  One without  *)
(* a program has pgid 0: kill(0) reaches the shell's own group, the shell    *)
(* with it, and the loop ends there.                                         *)
Signalled ==
  LET reached == {j \in jobList : KeyReaches(j)}
  IN {job[j].pgid : j \in {k \in reached : \A m \in reached : m < k => job[m].pgid # 0}}

Hit(p) == p \in Signalled \/ (0 \in Signalled /\ proc[p].grp = 0)

ControlKey(hit, st, own) ==
  /\ shell = "prompt"
  /\ proc' = [p \in DOMAIN proc |->
                IF Hit(p) /\ proc[p].st \in hit THEN [proc[p] EXCEPT !.st = st] ELSE proc[p]]
  /\ shell' = IF 0 \in Signalled THEN own ELSE shell
  /\ UNCHANGED <<job, jobList, rest, fileIn, writeEnds>>

ControlC == ControlKey({"running", "stopped"}, "killed", "dead")
ControlZ == ControlKey({"running"}, "stopped", "stopped")

-----------------------------------------------------------------------------
(* A program can run to its end when its input has one and somebody reads    *)
(* what does not fit into its pipe.                                          *)
CanEnd(p) ==
  /\ proc[p].src # 0 => ~Alive(proc[p].src) /\ proc[p].src \notin writeEnds
  /\ proc[p].big => \E q \in DOMAIN proc : proc[q].src = p /\ Running(q)

(* It may also end before that.                                              *)
Exit(p) ==
  /\ p \in DOMAIN proc /\ Running(p)
  /\ proc' = [proc EXCEPT ![p].st = "exited"]
  /\ UNCHANGED <<job, jobList, rest, fileIn, writeEnds, shell>>

Finish(p) == p \in DOMAIN proc /\ CanEnd(p) /\ Exit(p)

ShellStep ==
  \/ Builtin \/ Fork \/ Fg
  \/ \E p \in 1..MaxProcs : WaitReturns(p) \/ FgReturns(p)

JobsNext ==
  \/ \E stages \in Command : EnterCommand(stages)
  \/ ShellStep \/ ControlC \/ ControlZ
  \/ \E p \in 1..MaxProcs : Exit(p)

JobsSpec == JobsInit /\ [][JobsNext]_jobsVars

(* The shell runs on, and a program that can end does.                       *)
JobsFairness ==
  /\ WF_jobsVars(ShellStep)
  /\ \A p \in 1..MaxProcs : WF_jobsVars(Finish(p))

FairJobsSpec == JobsSpec /\ JobsFairness

-----------------------------------------------------------------------------
(* The shell waits only with a child to wait for, the list holds jobs with   *)
(* numbers of their own, and groups are led by a job's first program.        *)
JobsTypeOK ==
  /\ \A p \in DOMAIN proc :
       /\ proc[p].st \in {"running", "stopped", "exited", "killed", "reaped"}
       /\ proc[p].grp \in 0..p /\ proc[p].src \in 0..(p - 1)
  /\ \A j \in DOMAIN job : job[j].jid \in Nat \ {0} /\ job[j].pgid \in 0..Len(proc)
  /\ jobList \subseteq DOMAIN job
  /\ \A i, k \in jobList : i # k => job[i].jid # job[k].jid
  /\ rest \in Seq(Stage) /\ (shell \in {"run", "wait", "waitpid"} => rest # <<>>)
  /\ fileIn \in 0..Len(proc) /\ writeEnds \subseteq DOMAIN proc
  /\ shell \in {"prompt", "run", "wait", "waitpid", "dead", "stopped"}

(* "Wait if in foreground" (executeJob): every program of a foreground job   *)
(* is paid for by one wait.  Since a wait takes any child, a foreground      *)
(* program can be left running at the prompt, but only as many as waits took *)
(* the end of a background program instead.                                  *)
WaitsMatch ==
  shell = "prompt" =>
    Cardinality({p \in DOMAIN proc : ~proc[p].bg /\ ~Reaped(p)})
      <= Cardinality({p \in DOMAIN proc : proc[p].bg /\ Reaped(p)})

(* Ctrl-C and Ctrl-Z, which go through the whole list and can end the shell  *)
(* itself, never kill or stop a program of a background job.                 *)
BackgroundSurvives ==
  [][\A p \in DOMAIN proc :
       proc[p].bg => proc'[p].st \notin {"killed", "stopped"}]_jobsVars

(* A program has filled its pipe and nobody reads it.  It waits for ever: it *)
(* has inherited its own pipe's read end, so that no SIGPIPE comes.          *)
Clogged(p) ==
  Alive(p) /\ proc[p].big /\ ~\E q \in DOMAIN proc : proc[q].src = p /\ Running(q)

(* executeJob waits for such a program before it starts the reader.          *)
WaitHangs == shell = "wait" /\ Clogged(Len(proc))

(* fg waits for a child in the shell's group, and there is such a program:   *)
(* it was left running when wait took another child, and its reader ended.   *)
FgHangs == shell = "waitpid" /\ \E p \in InShellsGroup : Clogged(p)

(* Every command gives the prompt back in the end, unless the shell itself   *)
(* ended or stopped, or hangs on a full pipe, in executeJob's wait or in     *)
(* fg's waitpid: no pipeline waits for an end of file that a descriptor left *)
(* open in the shell keeps away, and no wait is for a child that is not.     *)
PromptReturns ==
  []<>(shell \in {"prompt", "dead", "stopped"}) \/ <>[]WaitHangs \/ <>[]FgHangs
=============================================================================
