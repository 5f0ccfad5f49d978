------------------------------ MODULE AuditLog ------------------------------
(***************************************************************************)
(* The audit log that several clients and their chat windows write:        *)
(* writeLogEvent, writeTimestamp, writeAuditLogToTerminal and the signal   *)
(* handlers of hw6/client.c, sfwrite of hw6/sfwrite.c, and writeLogEvent   *)
(* of hw6/chat.c.                                                          *)
(*                                                                         *)
(* A line is three pieces: the time, the user, and the event with its      *)
(* newline.  A client takes flock, puts the pieces into its stdio buffer,  *)
(* each under a mutex of its own that is not recursive, flushes them in    *)
(* one append and releases flock.  SIGINT and SIGTERM are handled wherever *)
(* the client is; their handlers log the logout in the same way, with the  *)
(* same buffer and mutex and on the same open file, to which flock gives a *)
(* lock it has already, and exit without going back.  A chat window        *)
(* inherits that open file and appends each piece by itself, with no lock. *)
(***************************************************************************)
EXTENDS Naturals, SequencesExt, FiniteSetsExt

CONSTANTS Client,      \* clients that log to the same file
          Chatting,    \* those of them that open a chat window
          MaxSignals,  \* bound on the handlers called in a client
          NoClient

ASSUME AuditLogAssumption ==
  /\ NoClient \notin Client /\ Chatting \subseteq Client
  /\ MaxSignals \in 0 .. 2

VARIABLES
  file,     \* the end of the file: the last append, and what was written
            \*   before it in the same line
  flock,    \* the client whose open file holds the lock, or NoClient
  alive,    \* the client's process runs
  place,    \* where it is: "main", in writeLogEvent, or at /audit ("read")
  put,      \* how many pieces of the line it writes are in the buffer
  mx,       \* its mutex: "free", held by the code that runs ("here"), or by
            \*   code that a handler has interrupted ("below")
  buf,      \* its stdio buffer
  sigs,     \* how many handlers have been called
  window    \* its chat window: pieces of its line written, or "none", "shut"

logVars == <<file, flock, alive, place, put, mx, buf, sigs, window>>

Piece(w, c, part) == [who |-> w, of |-> c, part |-> part]
ClientPiece(c) == Piece("client", c, put[c] + 1)

(* A write in append mode. *)
Write(pieces) ==
  file' = (IF file # <<>> /\ Last(file).part = 3 THEN <<>> ELSE file) \o pieces

LogInit ==
  /\ file = <<>> /\ flock = NoClient
  /\ alive = [c \in Client |-> TRUE]
  /\ place = [c \in Client |-> "main"]
  /\ put = [c \in Client |-> 0]
  /\ mx = [c \in Client |-> "free"]
  /\ buf = [c \in Client |-> <<>>]
  /\ sigs = [c \in Client |-> 0]
  /\ window = [c \in Client |-> "none"]

Is(c, label) == alive[c] /\ place[c] = label

-----------------------------------------------------------------------------
(* writeLogEvent, in the client's main code or in a handler. *)

Begin(c) ==
  /\ Is(c, "main")
  /\ place' = [place EXCEPT ![c] = "lock"]
  /\ UNCHANGED <<file, flock, alive, put, mx, buf, sigs, window>>

(* MUTANT of Lock: with LOCK_NB, whose failure is not looked at. *)
LockNoWait(c) ==
  /\ Is(c, "lock")
  /\ flock' = IF flock = NoClient THEN c ELSE flock
  /\ place' = [place EXCEPT ![c] = "pieces"]
  /\ UNCHANGED <<file, alive, put, mx, buf, sigs, window>>

(* flock(fd, LOCK_EX) *)
Lock(c) ==
  /\ Is(c, "lock") /\ flock \in {NoClient, c}
  /\ flock' = c
  /\ place' = [place EXCEPT ![c] = "pieces"]
  /\ UNCHANGED <<file, alive, put, mx, buf, sigs, window>>

(* sfwrite takes the mutex: never again, if interrupted code holds it. *)
TakeMutex(c) ==
  /\ Is(c, "pieces") /\ put[c] < 3 /\ mx[c] = "free"
  /\ mx' = [mx EXCEPT ![c] = "here"]
  /\ UNCHANGED <<file, flock, alive, place, put, buf, sigs, window>>

(* MUTANT of Put: the stream is not buffered. *)
PutThrough(c) ==
  /\ Is(c, "pieces") /\ mx[c] = "here"
  /\ Write(<<ClientPiece(c)>>)
  /\ put' = [put EXCEPT ![c] = @ + 1]
  /\ mx' = [mx EXCEPT ![c] = "free"]
  /\ UNCHANGED <<flock, alive, place, buf, sigs, window>>

(* vfprintf puts the piece into the buffer; sfwrite releases the mutex. *)
Put(c) ==
  /\ Is(c, "pieces") /\ mx[c] = "here"
  /\ buf' = [buf EXCEPT ![c] = Append(@, ClientPiece(c))]
  /\ put' = [put EXCEPT ![c] = @ + 1]
  /\ mx' = [mx EXCEPT ![c] = "free"]
  /\ UNCHANGED <<file, flock, alive, place, sigs, window>>

(* fflush: one append. *)
Flush(c) ==
  /\ Is(c, "pieces") /\ put[c] = 3
  /\ Write(buf[c])
  /\ buf' = [buf EXCEPT ![c] = <<>>]
  /\ place' = [place EXCEPT ![c] = "unlock"]
  /\ UNCHANGED <<flock, alive, put, mx, sigs, window>>

(* MUTANT of Unlock: LOCK_UN is forgotten. *)
UnlockNot(c) ==
  /\ Is(c, "unlock")
  /\ place' = [place EXCEPT ![c] = IF sigs[c] = 0 THEN "main" ELSE "logout"]
  /\ put' = [put EXCEPT ![c] = 0]
  /\ UNCHANGED <<file, flock, alive, mx, buf, sigs, window>>

(* flock(fd, LOCK_UN) *)
Unlock(c) ==
  /\ Is(c, "unlock")
  /\ flock' = NoClient
  /\ place' = [place EXCEPT ![c] = IF sigs[c] = 0 THEN "main" ELSE "logout"]
  /\ put' = [put EXCEPT ![c] = 0]
  /\ UNCHANGED <<file, alive, mx, buf, sigs, window>>

-----------------------------------------------------------------------------
(* The end of a client. *)

(* catchCtrlC or catchSigQuit starts with writeLogoutEvent.  A signal is     *)
(* blocked while its own handler runs, and there are two of them.  The       *)
(* output of /audit goes through sfwrite too, whose mutex may be held then.  *)
Signal(c) ==
  /\ alive[c] /\ sigs[c] < MaxSignals
  /\ sigs' = [sigs EXCEPT ![c] = @ + 1]
  /\ place' = [place EXCEPT ![c] = "lock"]
  /\ put' = [put EXCEPT ![c] = 0]
  /\ \/ mx' = [mx EXCEPT ![c] = IF @ = "here" THEN "below" ELSE @]
     \/ place[c] = "read" /\ mx' = [mx EXCEPT ![c] = "below"]
  /\ UNCHANGED <<file, flock, alive, buf, window>>

(* The process is gone; flock goes with the last end of its open file.       *)
Dead(c) ==
  /\ alive' = [alive EXCEPT ![c] = FALSE]
  /\ place' = [place EXCEPT ![c] = "main"]
  /\ put' = [put EXCEPT ![c] = 0]
  /\ mx' = [mx EXCEPT ![c] = "free"]
  /\ buf' = [buf EXCEPT ![c] = <<>>]
  /\ UNCHANGED <<file, sigs>>

Released(c) == IF flock = c THEN NoClient ELSE flock

(* doLogout: closeAllChats kills the window, and exit. *)
Logout(c) ==
  /\ place[c] \in {"main", "logout"} /\ alive[c] /\ Dead(c)
  /\ window' = [window EXCEPT ![c] = "shut"]
  /\ flock' = Released(c)

(* SIGKILL. *)
KillClient(c) ==
  /\ alive[c] /\ Dead(c)
  /\ flock' = IF window[c] \in {"none", "shut"} THEN Released(c) ELSE flock
  /\ UNCHANGED window

-----------------------------------------------------------------------------
(* /audit: writeAuditLogToTerminal reads the log under the lock. *)
BeginAudit(c) ==
  /\ Is(c, "main") /\ flock = NoClient
  /\ flock' = c
  /\ place' = [place EXCEPT ![c] = "read"]
  /\ UNCHANGED <<file, alive, put, mx, buf, sigs, window>>

EndAudit(c) ==
  /\ Is(c, "read")
  /\ flock' = NoClient
  /\ place' = [place EXCEPT ![c] = "main"]
  /\ UNCHANGED <<file, alive, put, mx, buf, sigs, window>>

-----------------------------------------------------------------------------
(* The chat window. *)
OpenWindow(c) ==
  /\ Is(c, "main") /\ c \in Chatting /\ window[c] = "none"
  /\ window' = [window EXCEPT ![c] = "0"]
  /\ UNCHANGED <<file, flock, alive, place, put, mx, buf, sigs>>

Written(c) == CASE window[c] = "0" -> 0 [] window[c] = "1" -> 1 [] OTHER -> 2

(* /close: writeLogEvent's three sfwrites, each flushed by itself, and exit. *)
WindowWrites(c) ==
  /\ window[c] \in {"0", "1", "2"}
  /\ Write(<<Piece("window", c, Written(c) + 1)>>)
  /\ window' = [window EXCEPT ![c] = <<"1", "2", "shut">>[Written(c) + 1]]
  /\ flock' = IF window[c] = "2" /\ ~alive[c] THEN Released(c) ELSE flock
  /\ UNCHANGED <<alive, place, put, mx, buf, sigs>>

(* It is closed by hand.  The death of its client does not end it: it has     *)
(* inherited the client's end of its socket too, and reads no end of input.  *)
WindowShut(c) ==
  /\ window[c] \in {"0", "1", "2"}
  /\ window' = [window EXCEPT ![c] = "shut"]
  /\ flock' = IF alive[c] THEN flock ELSE Released(c)
  /\ UNCHANGED <<file, alive, place, put, mx, buf, sigs>>

-----------------------------------------------------------------------------
GoesOn(c) ==
  \/ TakeMutex(c) \/ Put(c) \/ Flush(c) \/ Unlock(c) \/ EndAudit(c)
  \/ sigs[c] # 0 /\ Logout(c)

LogNext ==
  \E c \in Client :
    \/ Begin(c) \/ Lock(c) \/ TakeMutex(c) \/ Put(c) \/ Flush(c) \/ Unlock(c) \/ Logout(c)
    \/ BeginAudit(c) \/ EndAudit(c)
    \/ Signal(c) \/ KillClient(c)
    \/ OpenWindow(c) \/ WindowWrites(c) \/ WindowShut(c)

LogFairness ==
  \A c \in Client :
    /\ WF_logVars(GoesOn(c)) /\ SF_logVars(Lock(c))

(* Types, and flock's purpose: who writes or reads the log holds its lock,   *)
(* though a handler can interrupt, and lock and unlock for a second time.    *)
LogTypeOK ==
  /\ flock \in Client \cup {NoClient}
  /\ alive \in [Client -> BOOLEAN]
  /\ place \in [Client -> {"main", "lock", "pieces", "unlock", "logout", "read"}]
  /\ put \in [Client -> 0 .. 3]
  /\ mx \in [Client -> {"free", "here", "below"}]
  /\ sigs \in [Client -> 0 .. MaxSignals]
  /\ window \in [Client -> {"none", "0", "1", "2", "shut"}]
  /\ \A c \in Client : place[c] \in {"pieces", "unlock", "read"} => alive[c] /\ flock = c

(* Up to a newline, a line that no window has written in is one client's and *)
(* ends in one event's three pieces, and there is nothing before them unless *)
(* a signal has struck that client: whatever the clients' turns, kills       *)
(* included.                                                                 *)
Ends == {i \in DOMAIN file : file[i].part = 3}
LineTo(i) == SubSeq(file, Max({0} \cup {j \in Ends : j < i}) + 1, i)
Event3(c) == [k \in 1 .. 3 |-> Piece("client", c, k)]

LinesWhole ==
  \A i \in Ends :
    \/ \E piece \in Range(LineTo(i)) : piece.who = "window"
    \/ \E c \in Client :
         \/ LineTo(i) = Event3(c)
         \/ sigs[c] > 0 /\ IsSuffix(Event3(c), LineTo(i))
              /\ \A piece \in Range(LineTo(i)) : piece.of = c

(* A client that wants to log gets the lock, or there is one that keeps it:  *)
(* a client whose handler waits for the mutex of the code it has interrupted *)
(* (then every other client hangs at its next line), or a chat window whose  *)
(* client was killed in writeLogEvent or writeAuditLogToTerminal.            *)
Hung(c) == Is(c, "pieces") /\ mx[c] = "below"
Keeps(c) == flock = c /\ ~alive[c]

LockComesBack ==
  \A c \in Client : Is(c, "lock") ~> ~Is(c, "lock") \/ \E d \in Client : Hung(d) \/ Keeps(d)
=============================================================================
