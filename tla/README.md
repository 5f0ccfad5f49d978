# irC: specification, model checking and proofs

A TLA+ development of the chat system in `src/hw6` (server, client, chat
windows, the audit log and its auditor), of the server's first version in
`src/hw5`, and of the shell in `src/hw4`. Every definition is translated from
the C source. Names are the source's names where TLA+ allows it.
`PROJECT.json` maps each definition to its lines.

## 1. The system

| Part | Source | State it keeps | Operations |
|---|---|---|---|
| Main thread of the server | `hw6/server.c` `selectLoop`, `handleClientCommands`, `handleCommand`, `readInput`, `addToFDSet` | `readfds`, the socket and record being handled | accept; TIME, LISTU, MSG, BYE; vanished clients; /users, /accts, /listq, /shutdown |
| Login threads | `loginProtocol`, `loginThread`, `loginThreadLimit`, `checkClientCrash` | the connection, the claimed name, the found record | the WOLFIE dialogue; one thread per connection, or a pool of THREAD_COUNT threads |
| User list | `addUserList`, `removeUserListByFD`, `loginUser`, `disconnectUser`, `getUser` ... | records from `head`: name, connected, descriptor, password | register, log in, disconnect |
| Login queue | `addLoginQueue`, `popLoginQueue`, `printLoginQueue` | list from `login_head` to `login_tail`, semaphore `queueItems` | add, pop, list |
| Accounts | `createUserTable`, `addUserToDatabase`, `setUpDatabase` | the rows of table `users` in an SQLite file | insert, load at start |
| Client, login | `hw6/client.c` `handleLoginProtocol`, `handleNewUserLoginProtocol` | position in the dialogue | IAM or IAMNEW, password, HI, MOTD |
| Client, windows | `client.c` `selectLoop`, `createChat`, `addToChats`, `getChatByFd`, `closeChatWindow`, `catchSigChild`, `logout` | list of chats (name, descriptors, pid, flags), child processes | MSG, UOFF, typed lines, closed windows, /logout, signals |
| Chat program | `hw6/chat.c` | edited line with its cursor, message list with its scroll position, sizes of the window | keys, messages, SIGWINCH, /close |
| Audit log | `writeLogEvent` of `client.c` and `chat.c`, `sfwrite.c` | one file, its flock, the client's stdio buffer and mutex | append, /audit, logout in a signal handler |
| Auditor | `hw6/parser.c`, `hw6/auditor.c` | the records read, the list shown, scroll position, the log opened once more at each reading | filter, search, help, reload |
| First version | `hw5/server.c` | user list, accounts table with one global handle, a thread for each connection, no mutex | accept, log in, register, BYE, vanish |
| Shell, history | `hw4/320sh.c` `storeHistory`, `loadHistory`, `getHistoryFromFile`, `storeHistoryToFile`, `clearHistoryFile` | array of 50 lines, its index and offset, a file in the current directory | store, arrow keys, clear-history, cd, start, exit |
| Shell, jobs | `320sh.c` `executeJob`, `callProgram`, `addJobToList`, `assignJid`, `fg`, `controlC`, `controlZ` | job list, process groups, pipe ends | pipelines, `&`, fg, Ctrl-C, Ctrl-Z |

Interaction. The main thread and the login threads share the user list, the
queue and the sockets under one recursive mutex, which is not held everywhere
it is needed and is held across network reads where it is not. Client and
server share only the order of messages on a TCP connection. The client and
its windows share socketpairs whose descriptor numbers the kernel reuses, and
SIGCHLD runs a handler of the client at any instruction. A window inherits
everything its client has open: the client's end of their own socket, so that
it never reads the end of input, and the log with its flock. The handlers of
SIGINT and SIGTERM write the log with the code they may have interrupted.
SIGWINCH moves the cursor of a chat window between two steps of a key. The
auditor shares only the log file and its flock with the programs that write
it, and learns of changes by inotify. The shell shares pipes and process
groups with its programs; a command line is all that passes from its history
to its jobs.

What is hard to test: the interleavings of logins with one another and with
the main thread; clients that vanish in the middle of anything; a mutex that
is held by a thread that ends; messages that cross a login; descriptor numbers
that are closed, reused and still remembered; windows that die while a message
to them is handled; a server that is killed between two steps of a
registration; a log that grows while it is read; a background program that
ends while the shell waits for another; a history that outlives its shell, and
one whose shell is killed while it saves. `hazards` in `PROJECT.json` lists
them, each at its line and with the properties that watch it.

What makes each part correct:

* queue: every connection is logged in by one thread, in the order of
  arrival, and no wake-up is lost;
* server: a name belongs to one account, an account has one session at most,
  a session one socket, a socket one reader; accounts survive whatever
  happens; the main thread stays responsive; gone users are logged out;
* client: it and the server agree whether a login succeeded; a line reaches
  the friend in whose window it was typed; a message is shown in its
  sender's window; /logout closes every window;
* first version: the same promise as the server's, for as long as no two
  threads are at work on one account, one record or the database's handle;
* chat program: a key changes the character at the cursor and nothing else;
* audit log: a line is one event of one client, and the lock comes back;
* auditor: what is shown answers the last command and follows the log, as long
  as the log's lock comes back;
* shell: what was saved of a history comes back in the same directory, the
  arrow keys walk through the lines in their order, waits match foreground
  programs, background programs are left alone by the control keys, and the
  prompt comes back.

## 2. Modules

    LoginService  <--implements--  LoginQueue   <- LoginQueueProofs
                                       ^          MCLoginQueue
                                       | (abstracted to a sequence)
    ChatService   <--implements--  ChatServer   <- ChatServerProofs
          ^                            ^          MCChatServer
          |                            | (its login dialogue, message by message)
          |                        ChatClient   <- ChatClientProofs
          |                                       MCChatClient
          +--implements,
             until a clash-------  FirstServer  <- FirstServerProofs
                                                  MCFirstServer

    LineEditor    <--implements--  ChatProgram  <- ChatProgramProofs
                    in its text        |
    Auditor, AuditLog, ChatProgram  <- MCAuditor  <- AuditProofs
    ShellHistory, ShellJobs         <- MCShell
                                    <- ShellProofs
                          ListLemmas  <- AuditProofs, ShellProofs

**LoginQueue** is `addLoginQueue`, `popLoginQueue` and `printLoginQueue` with
the pool's loop, pointer by pointer: `prev`, `next` and `user` are functions
on node addresses, `live` the addresses calloc has given out. Critical
sections are split at every read or write another thread could come between
if the mutex were not held, so that the mutex's part is checked and not
assumed. `contents` is a history variable: no action decides by it.
**LoginService** is what the queue promises: first come, first served.

**ChatServer** is the whole server. An action is what a thread does between
two points at which another could see it: taking or releasing the mutex, a
read that waits for the client, an access to shared data without the mutex.
`pc`, `fdOf`, `nm`, `found` are the locals of each login thread, `mpc`,
`todo`, `currfd`, `cur`, `to` those of the main thread. A socket's peer is
`"live"` or `"gone"`; a read returns any message of the protocol, or nothing
once the peer is gone. `Orphaned` is the state of the mutex after its holder
ended by `pthread_exit`. `Halt` and `Start` are the end of the process and its
restart from the accounts table. **ChatService** is what the server promises
about accounts and sessions, without threads, mutex or messages.

**ChatClient** composes the client's side of the login with the server's
side over two channels, and then models the select loop with its windows: the
chat list, the kernel's numbering of descriptors (the lowest free one), the
fork of a window, SIGCHLD pending and handled at any point, the round of
ready descriptors computed once and handled in order. `Type`, `Die` and
`Interrupt` are the user's and the kernel's doing.

**FirstServer** is the server of `hw5`: every connection has a record in the
list from accept on, without a name until its login is through, and a thread
that leads the login and then serves the connection. Its actions lie between
two reads of the socket, and are split where another thread can see half of a
change: `DisconnectUser` and `Off`; `Enter`; and `OpenDatabase`, `Insert` and
`CloseDatabase`, since `addUserToDatabase` keeps its handle in the global
variable `database`, which all threads share. An insert over a handle that
another thread has closed, or into a file that another one may have locked,
can fail unseen, and the use of a closed handle can end the server
(`UseAfterClose`). `clash` is a history variable: it becomes true when two
threads are at work on one account or one record, or are both in
`addUserToDatabase`, whatever names they insert; nothing in the program looks
at it. The server is compared with the same **ChatService** as its successor.

**AuditLog** is `writeLogEvent` in two or more clients and their windows: the
three pieces of a line, the buffer they are collected in, `sfwrite`'s mutex,
`flock`, one append per flush. `Signal` starts a handler at any place of the
client; it logs the logout with the same buffer and the same mutex, and does
not go back. The file is modelled by its end, the last append and what stands
before it in its line: whatever is further back was an end when it was written.

**ChatProgram** is `chat.c`'s loop: a key that changes both the line and the
cursor takes two steps (`TypeChar`, `TypeCharMoves`; `EraseChar`,
`EraseCharRemoves`), because `handle_winch` can come between, and it can come
inside `moveCursor` as well (`MoveLeft`, `MoveRight`), between the test of the
cursor and the store: then the cursor may be where it would have been, or be
decremented from its new home to -1. `moved` is what the first half of a key
has done, a history variable with which the cursor the user sees (`At`) is
defined. **LineEditor** is what someone who types expects.

**Auditor** is `parser.c` with the inotify loop of `auditor.c`: the log read
into a list, `insertSorted` with the blank record it relies on, the filter,
range and search commands, the shown list with its scroll position, and the
loop that reads one event and then the whole log. Reading the log is two
steps: `OpenLog`, which frees the old list and opens the file, and `Fill`,
once `flock` gives the lock that the clients take (`locked`, `ClientLocks`),
which they may keep for ever. The file is never closed: `opened` counts, and
at `MaxOpen` the auditor crashes. `Answer` is what the code computes,
`Answers` what a reader of the log would call right. A record may have an
empty name, and an empty time, which is what is left of a line when another
one has come between the three writes of a chat window. `WriteLog` is any
program that appends a line.

**MCAuditor** explores `Auditor`, `AuditLog` and `ChatProgram` one at a time:
the auditor sees of the writers only that a line is there, and the log nothing
of a chat window's screen.

**ShellHistory** is the array with the index `currHistory` and the offset the
arrow keys move, the shell's directory, and each directory's file as the
characters it consists of, because exit writes a new history over the
beginning of the old one. The save is one step for each write (`SaveLine`,
`SaveNewline`), and the shell may be killed before any of them (`KillShell`).
Lines that begin with a space and empty lines leave the offset alone, which
the code does by never getting to its reset. `entered` and `kept` are history
variables. **ShellJobs** is the shell as one process between prompt, stage and
wait, its children with their states and groups, and the pipe ends that the
shell has open. Programs end at any time. **MCShell** explores the two one at
a time, since only a command line passes between them.

Abstractions, all of them named here:

* message texts are reduced to their verb, names and passwords to model
  values; `from` in MSG is the sender's name, as the client writes it;
* what is printed, logged or sent is left out unless a property depends on
  when; `-v` output is left out;
* SIGPIPE is ignored (`server.c:1000`), so a write to a vanished client has
  no effect;
* a message is read whole; `readInput`'s loop over a message that comes in
  pieces is one wait (a half-sent request keeps the main thread waiting, as
  a request that never comes would);
* the order of the user list shows only in what LISTU and /users print;
* malloc, fork, socketpair and, but for `FirstServer`'s insert, SQLite do not
  fail; a name with a quote in it, which the text of the insert does not
  escape, does not occur; accept fails when descriptors run out
  (`AcceptFails`, the server's exit), and the auditor's fopen when it has
  opened as many files as it may (`OpenLog`);
* `FirstServer`: each walk over the list, and each linking or unlinking, is
  one step, and so is each call of SQLite. Two threads that change one link at
  the same time, and the static pointer of `strtok` that all threads share,
  are undefined behaviour of which anything may come, and left out;
* what the events in the log say is left out of `AuditLog`, and how a line is
  broken on the screen out of `ChatProgram`, where a message counts as
  received with its last character;
* a text in the log is its rank in `strcmp`'s order, a time its rank in time
  (as a text too: a log of one day, in the half of it that its times are
  written for), and a keyword is the set of texts that contain it; fields
  longer than 50 characters do not occur;
* a client's or a window's line appears in the auditor's log as a whole; when
  another came between a window's writes, what is left of it is a record with
  an empty time, and the time in front of the other, which then has two, is
  not told from a single one;
* a line of the shell is what its quotes leave; a command is a sequence of
  stages with the traits that matter (program or builtin, `&`, more output
  than a pipe holds, a line too long for `cmdCmp`); which line it is that
  changes the directory, clears the history or exits is left open, so that
  each may; one shell at a time writes to a history file; a redirected stage
  reads or writes no pipe and is left out; so are programs that read the
  terminal (they are stopped by it, since no group but the shell's own is ever
  in its foreground) and the end of the shell's input;
* pids are not used again;
* once the client is in its select loop the server is its environment:
  `EnterLoop` resets the variables of the dialogue.

## 3. Runs

| Run | Instance | Shows |
|---|---|---|
| `login_queue` | 2 connections, 2 nodes, 2 pool threads | `ListIntact`, `NoUseAfterFree`, `CountMatches`, `PopFindsNode`, `OneOwner`, `ImplementsService`; `NotStranded`: no lost wake-up |
| `chat_server_threads` | 2 names, 2 valid passwords and one invalid, 3 descriptors, 2 records, 2 threads, database; symmetry | `UniqueNames`, `SessionsSound`, `OneReader`, `PointersListed`, `AccountsMatchDb`, `AccountsStay`, `ImplementsChat` |
| `chat_server_steady` | pool of 2 threads, 2 descriptors | `LoginsEnd`, `MainReturns`, `GoneUsersLeave` |
| `chat_server_orphan` | 1 name, 2 threads | **violated**: `MainReturns` |
| `chat_server_message_lost` | 2 names, no database | **violated**: `MsgReachesAddressee` |
| `chat_server_stale_uoff` | 2 names, no database | **violated**: `UoffMeansGone` |
| `chat_server_crash_leak` | 1 name | **violated**: `GoneUsersClosed` |
| `chat_client` | 2 friends, 3 windows, 9 descriptors; symmetry | `LiveChatsApart`, `LinesReachFriend`, `MsgReachesWindow`, `LoginAgrees`, `LoginFinishes` |
| `chat_client_logout` | the same | **violated**: `LogoutClosesAll` |
| `first_server` | 2 names, 1 valid password and one invalid, 3 descriptors, 4 records, 2 threads, database; symmetry | `ServesUntilClash` |
| `auditor` | 4 records, one without a time and one without a name, logs of up to 3 lines, 8 commands, 3 files; 2 clients, one with a window, one signal each; 2 characters, lines of up to 3, fields of 3 and 5 | `AnswersCommand`, `ModificationsRead`; `LinesWhole`, `LockComesBack`; `EditsInText` |
| `shell` | array of 4 lines, 3 texts, one of which begins with a space, 2 directories, 2 saves, any number of shells; 4 commands of 12 shapes, 4 programs | `RecallsInOrder`, `HistorySurvives`; `WaitsMatch`, `BackgroundSurvives`, `PromptReturns` |

Why the bounds are enough to meet the interesting cases. Two connections and
two pool threads meet at the queue's ends in every way, down to its last node;
a third would only lengthen the middle. The races of the server are between
two logins, or a login and the main thread: two threads, two names and three
descriptors (one closed and accepted again while two are in use) give all of
them, and the two records suffice because a refused login adds none. The
client needs a friend who leaves and comes back (two windows), a second friend
who is given the numbers the first one's window left, and nine descriptors:
three for each window. The auditor needs two records that tie in a column, one
that is out of order, one without a time that stands between two others, and a
line that comes while another is read; three openings of the log, of the
thousand a process may have, are the first list, one more and the last. The
first version needs two logins of one name, a third connection whose
descriptor is leaked or used again, and records left behind by both. Two
clients contend for the log; the one with a window has three appends that come
between the other's, and one handler in each reaches every place of
`writeLogEvent`, its own lock and mutex included (a second one would only find
the client where the first has left it). A line of three characters has a
start, a middle and an end for the cursor, and can be erased from either; a
field of 3 is full before the line is, one of 5 never. An array of four lines
has two free slots before the one at which the shell's index sticks, which is
what two lines and an arrow key between them need, and short and long lines
make a file shorter than the one it is written over. Two saves are an old
history and the new one that is written over it, to its end or not; two
directories are the one that a shell started in and the one it exits in; the
shells that only look at the files, clear them or are killed are not counted.
Four programs are a pipeline of three with a big writer in its middle and the
background job that ends in its wait, or two short pipelines, of which each
can end in the other's wait; a command more is the `fg` that waits for what is
left. Every passing run but `chat_server_steady` also checks `TypeOK`, the
type invariant of its components, which for some says more than types:
`LogTypeOK`, that one client at most is between its lock and its unlock of the
log; `JobsTypeOK`, that no two jobs of the list have one number;
`HistoryTypeOK`, that the index and the arrow keys stay in the array;
`ChatTypeOK`, that the cursor stays below the largest field and never goes
below -1. In every passing run each action fires; deadlock is not checked
where the program may really stop (the client, the auditor, the shell).

What the properties except is stated in them, and is what the code really
does. `ServesUntilClash` says nothing once `clash` is true: two logins
of one account both succeed in the first version, a vanished client's nameless
look-up disconnects another, or of two registrations that overlap, of
different names too, one is not in the table, because a thread has closed the
handle the other one uses or has the file locked, and the account is gone
after a restart. `LinesWhole` leaves out lines a window has
written in, and what a signalled client had in its buffer already stays before
its logout event. `LockComesBack` names the two states in which the lock is
kept: `Hung`, a handler that waits for the mutex its own process holds, and
`Keeps`, a killed client whose window has inherited the locked file.
`EditsInText` speaks of the cursor in the text: `moveCursor` lets it leave the
text on the right, and a SIGWINCH inside it on the left, to -1, where the next
character or the erase key empties the line; and the erase key at the start
removes the character after the cursor.

`PromptReturns` allows two hangs, and names them. `WaitHangs`: `executeJob`
waits for a program that fills its pipe before its reader is started.
`FgHangs`: a program has inherited its own pipe's read end, so that no SIGPIPE
comes when its reader has ended; if a wait has taken a background program in
its place, the pipeline goes on without it, the prompt comes back, and `fg`
then waits for it for ever, provided that it is in the shell's own group,
having been started when that of its job was gone. `RecallsInOrder` says which
line the k-th one up is, counted from where the last line was stored, and not
that the first up arrow shows the latest: after a line that begins with a
space, or an empty one, the keys go on from where they were. It ends with the
last free slot: from the 49th command on the index stays at 48 and each
command takes the place of the one before. `HistorySurvives` says that what a
save has written, up to the point a kill has stopped it, is what the next
shell in the same directory starts with. After a `cd` that is another
directory than the history was loaded from: the lines go there, and the old
file stays as it was. What follows the saved lines is the rest of a longer old
file, and with enough of it the next start reads past the array (`session =
"overrun"`).

`AnswersCommand` asks for ascending order, which is what `filterBy` and the
searches are written to give, but not of a command with -d. The help page
(`auditor.c:665`) promises descending order for that, and does not keep the
promise: `parseCmd` hands on its filter array, which may be empty but is never
NULL (`auditor.c:731`), so that `sortBy` is never called and `filterBy`
answers in ascending order. Between two records of which one, or one between
them, has no time, no order is asked for. `ModificationsRead` supposes that
the log's lock is free again and again, which `Hung` and `Keeps` (hazards at
`client.c:1722` and `:181`) can make false for ever: the auditor then waits
with the clients. It exempts the help page, which reads nothing, and the
auditor that has ended: the first modification before any command, or a line
of blanks, gives `strcpy` a null pointer, and `fillAudit`, which never closes
the log, some day gives `fileno` one (`Crash`).

Each property of a passing run has a mutant in `PROJECT.json`: a changed
definition, as a slip in that code would change it, under which TLC finds the
property violated. The mutated forms stand next to the definitions.

### Findings

1. `MainReturns` (`server.c:1373`): a client that vanishes at its password
   prompt ends, by `pthread_exit`, the holder of the global mutex; the server
   never answers anyone again.
2. `MsgReachesAddressee` (`server.c:1595`): a MSG for a user inside
   `loginUser` goes to descriptor -1 with no error, or is read as his MOTD.
3. `UoffMeansGone` (`server.c:1573`): a user who logs in between
   `disconnectUser` and the broadcast is announced as gone.
4. `GoneUsersClosed` (`server.c:250`): the socket of a vanished user is never
   closed; `close` is given the -1 that `disconnectUser` has stored.
5. `LogoutClosesAll` (`client.c:861`): a friend who left and writes again
   gets a second window; the first is forgotten and survives /logout.

### Fairness

*Queue.* Weak fairness of each thread's steps: a thread that can run does
run. Strong fairness of the pool thread's lock (`PopLock`): the mutex is held
for a few instructions at the pace of accepts, so a thread that finds it free
again and again gets it. Nothing is assumed of connections, of the operator or
of the length of a login.

*Server.* `ThreadFairness`: strong fairness of the main thread's and of each
login thread's own steps, because what disables them is the mutex, and
`pthread_mutex_lock` is not passed over for ever; strong fairness of handling
a socket whose peer is gone, because `select` reports it in every round.
`ClientFairness`: a client that is asked for something answers or goes: no
timeout in the code would end the wait. `SteadySpec` excludes clients that
vanish in their own login; finding 1 is what happens with them.

*Client.* `WF(ClientLogin)`: the user answers the password prompt and the
client's process runs. `WF(ServerLogin)`: the login thread gets its turns,
which is what `chat_server_steady` establishes. The run uses symmetry in
friends, windows: `LoginFinishes` speaks of the dialogue only, during which
all of those are in their initial, symmetric state, so that the reduction
identifies no two states of it.

*Auditor.* `WF(ReadEvent)`, and weak fairness of leaving "reload": the select
loop turns, because keys come slower than it does. Strong fairness of leaving
"fill": whoever waits in `flock` is woken when the lock comes back, and gets
it if that happens again and again. Nothing is assumed of the clients, which
may keep the lock: `ModificationsRead` says for itself that it must come back.

*Audit log.* `WF(GoesOn(c))`: a client that can run does run. `SF(Lock(c))`:
the kernel hands flock to waiting processes in turn, so that one is not passed
over for ever. Signals, kills, windows and users may do what they like.

*Shell.* `WF(ShellStep)`: the shell goes on when it can. `WF(Finish(p))`: a
program whose input ends and whose output is read ends, which is what the
filters a pipeline is made of do; a program that never ends keeps the prompt
away by right.

## 4. Proofs

For all values of the constants (under the `ASSUME`s of the modules):

`LoginQueueProofs` - the inductive invariant is the list's shape at every
step of every critical section: `MutexInv` (who is inside), `PendingInv` (what
a half-done push or pop has changed so far, as a function of `contents`),
`LocalsInv` (what the locals point to) and `CountMatches`. From it
`TypeCorrect`, `ListAlwaysIntact`, `NoFreedNodeUsed`, `CountAlwaysMatches`,
`PopAlwaysFindsNode`; with `OwnerInv`, `OneOwnerAlways`; and
`QueueImplementsService`, where the push's last write and the pop's unlink map
to `Arrive` and `Take` and every other step to a stutter. That the list is
intact when the mutex is free is not inductive: a step inside a section needs
what the section has done so far.

`ChatServerProofs` - a socket has one owner at a time: a login thread, the
queue, a listed record, or the main thread between accept and enqueue
(`RecordsInv`, `ThreadsInv`, `ThreadsApart`, `QueueApart`, `MainInv`). Together
with `MutexInv` (who is inside the critical section that spans a login's name
test and its end) this is what keeps a refused login's `removeUserListByFD`
from hitting another's record, names from being taken twice, and pointers
valid. From it `TypeCorrect`, `NamesUnique`, `SessionsAreSound`,
`OneReaderAtATime`, `PointersStayListed`, `DbMatchesList`, `NoAccountLeaves`,
`SessionsStay`, and `ServerImplementsChat`: `SaveDb` maps to `Register`,
`LoginFd` to `Login`, the disconnects to `Logout`, `Halt` to `Stop`, all else
to stutters.

`ChatClientProofs` - `WindowsInv`: a chat in use carries its own window's
socket or a closed number, and no two carry the same (`OwnInv`, `ApartInv`);
the list has one record for a friend (`ListInv`); between fork and
`addToChats` the new socket is open and the friend's (`PlaceInv`, `ShowInv`).
This is not inductive without `StuckInv`. `closeChatWindow` can close a number
that a chat in use has by then, and the next MSG from a third friend would be
given that number; it never comes, because `select` fails on the closed number
from then on and the loop calls it for ever. From it `TypeCorrect`,
`ChatsStayApart`, `LinesAlwaysReachFriend`, `MessagesAlwaysReachWindow`.
`LoginInv` goes through the dialogue place by place, with the messages on
their way; from it `LoginsAgree`. That three descriptors are free and distinct
is counted with `FiniteSetTheorems`; that a lowest one exists, with
`WellFoundedInduction`.

`ChatProgramProofs` - `TypeCorrect`, the cursor's bounds among the types, and
`ChatIsLineEditor`: each of the two halves of a key, cut by SIGWINCH or not,
maps to a step of `LineEditor` or to a stutter, for any sizes and characters.
`MovedInv` (between two keys nothing is half done) is all it needs beside the
types; the lemmas say what `InsertChar` and `RemoveChar` make of a line, and
that `moveCursor` stays in the field or at -1 (`CursorMoves`).

`ShellProofs`, the history - `ArrayInv` (index and offset stay in the array),
`ShownInv` (what an arrow key shows is the slot it points to), `EnteredInv`
(the slots before the index hold the lines entered, in their order, whatever
the offset is): `RecalledInOrder`. For the files, `DiskInv`: each directory's
file begins with the lines last written to it (`Begins`, `HasLine`: the i-th
line stands between the newlines i - 1 and i), whatever older text follows.
It is not inductive during a save. `SaveInv` says what has been written so far
and that it and the lines still to write are the array's (`Remains`): at a
line's start, or with a line but not its newline, which is what a kill leaves
(`SaveLineKeepsFiles`, `SaveNewlineKeepsFiles`; `WriteAt` for the old end
behind them). What `getHistoryFromFile` makes of a file is `LineRead`. From it
`HistoryAlwaysSurvives`, and `HistoryTypeCorrect`: no access outside the array
but the load of a file that is too long (`overrun`).

`ShellProofs`, the jobs - a job's group is led by its first program, and a
background job's leader is not reaped before its last program is started,
since no wait comes in between (`LeadersInv`, `LeaderInv`, `BackgroundInv`):
`JobsSound`, `BackgroundSpared`. With a count of what each wait has taken,
`WaitsAlwaysMatch`. `assignJid` takes a maximum over the list: a finite list
has one (`NumbersBounded`), so that the new number differs from those of the
list (`NextJidIsNew`, `NumbersInv`); with `OrderInv`, a program's group and
pipe belong to programs started no later: `JobsTypeCorrect`. The shell has one
write end at most, of the pipe of the program it waits for (`WaitInv`), whose
reader would be started later: `EndOfFileComes`, what there is of safety in
`PromptReturns`.

`FirstServerProofs` - whatever clashes there are, a connection whose login is
not over has a record of its own, which only it gives a name (`LoginInv`):
`TypeCorrect`. A clash ends what else can be said, so the invariant is
`TypeInv /\ (clash \/ (Quiet /\ ~Clashing))`. `Quiet` says that a descriptor or
a name leads to one record (`ListQuiet`), that threads have descriptors of
their own (`ApartQuiet`), what each thread's record is like at its place
(`ThreadsQuiet`), and that the table holds the accounts of the list
(`DbQuiet`). Each thread depends on a few records (`Own`), no two threads on
one (`OwnApart`), so that a step of one leaves alone what the others rely on
(`Frame`). Only one thread is at the database, so that the shared handle is
open when it inserts (`HandleQuiet`) and the row is not lost. From it
`ServesWithoutClash`, the refinement of `ChatService` up to the first clash:
the insert maps to `Register` (without a file, what stands in its place), the
accepted password to `Login`, a BYE or a vanished connection to `Logout`,
`Halt` to `Stop`. A walk over the list or a change of its links is one step
here too.

`AuditProofs`, the log - `LinesAlwaysWhole` for `LogSpec`, the log's actions
without fairness. The property speaks of the file alone and is not inductive.
`BufInv` says that a buffer ends with the pieces of the line its client is at,
that every newline in it closes one event, and that nothing else is in it
unless a handler has taken over from interrupted code; `FileInv` that only
windows' pieces stand in the file without a newline behind them, since a flush
ends with one. `flock` is in neither: what keeps lines whole is the single
append, and the lock would only be needed if the stream were not buffered.
That the lock does what it is there for is `LogTypeCorrect`: who is between
lock and unlock is alive and holds it. That a dead client is at no such place
is needed for it, because a window that ends releases its dead client's lock.
`LockNeverLost` says who can have the lock at all, which is the safety in
`LockComesBack`.

`AuditProofs`, the auditor - `AnswerAnswers` says what a filter, a range or a
search returns, for any log, texts and column: each named record that was
asked for as often as it is in the log, nothing else, in order, then the blank
record. `Sorted` is a function defined by recursion over the log. `SortedRuns`
derives its equations: for each length a function that satisfies them on all
shorter prefixes exists. Then `Built` is carried along the log, prefix by
prefix; one insertion (`insertSorted`) preserves it, where the counting of
equal records is `InsertedAt` and `CountsOn`, and the order `OrderStays`: a
record without a time is passed by none and passes none, so that it parts the
list into runs, each of which is in order. With these, `AuditorTypeCorrect`
and `AnswersAlways` are a step per action.

`PartsTypeCorrect`, in `AuditProofs` - a behaviour of `MCAuditor` is one of
each of its parts, so that the run's `TypeOK` follows from the parts' theorems
(`ChatProgramProofs`' `TypeCorrect` among them).

`ListLemmas` - what both rest on. An induction theorem with a predicate as its
parameter cannot be used here, but one about a set can: `UpTo` (a set that
holds 0 and with k - 1 also k, up to n, holds all of them, by the least number
that is missing) and `Recursion` (a function defined by recursion over 0..n
exists), with `LeastIs`, `GreatestIs` and the lemmas on positions.

Assumptions on the constants: lines of the history are non-empty sequences of
characters, and its array has three of them or more; otherwise only that sets
and bounds are what their names say.

Every safety property that a passing run checks is a theorem. Only
model-checked: the liveness properties (`NotStranded`, `LoginsEnd`,
`MainReturns`, `GoneUsersLeave`, `LoginFinishes`, `ModificationsRead`,
`LockComesBack`, `PromptReturns`), because liveness under fairness is out of
the prover's reach.

## 5. Not modelled

`PROJECT.json` lists every part with its reason. In short:

* `validPassword`, a test without state: the constant `Valid` of the server
  modules stands for whatever it accepts. (`src/README.md:106` asks for a
  symbol; one of its ranges, 91 to 68 in `server.c:1094`, is empty, so that
  some symbols do not count.) `getCommands`, which runs before there is any
  state; hashing and salt, library calls;
* curses output, colours, tokenizing, help texts, `-v` output, `test.c`,
  build files;
* the client, the chat program and the OSX server in `src/hw5`, earlier
  copies of code that is modelled from `src/hw6` or `hw5/server.c`;
* in the shell: redirections, programs that read the terminal, tokenizing,
  the edited line with its quotes, and the builtins that touch neither history
  nor jobs (set, echo, pwd). `openHistoryFile` also appends a name to the
  string that `getenv("HOME")` returns (`320sh.c:583`), into the environment
  behind it, and uses the result nowhere but in an `unlink`: what that
  overwrites is undefined, and left out;
* in the auditor: sizes of fields, and the edited command line.

## 6. Plan

Done, in this order: queue, server, their proofs, client, auditor, shell,
first version, audit log, chat program, and the proofs of client, chat
program, shell, first version, audit log and auditor. What could be added:

1. *Liveness, its safety half*, as `LockNeverLost` and `EndOfFileComes` state
   it for the log and the shell: the same for the server's mutex and for the
   dialogue of the login.
2. *Operators*: `validPassword` over classes of characters and `getCommands`
   over argument vectors, with the ranges no character satisfies.
