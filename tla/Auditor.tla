------------------------------- MODULE Auditor -------------------------------
(***************************************************************************)
(* The auditor of hw6/auditor.c and hw6/parser.c: it reads the audit log   *)
(* into a list, answers the operator's command with a list of its own      *)
(* (sorted, filtered or searched), scrolls in it, and answers the last     *)
(* command again whenever inotify reports that the log was modified.       *)
(* Every reading opens the log once more, never to close it, and waits for *)
(* the lock that the clients take to write it.                             *)
(*                                                                         *)
(* A text is its rank in strcmp's order and a time its rank in time, 0     *)
(* being the empty text: a chat window appends its line in three writes,   *)
(* and a line that comes between leaves the rest of it without a time.  A  *)
(* keyword is the set of texts that contain it; AnyText is the empty one.  *)
(* A list is a sequence from its head; only the lists insertSorted builds  *)
(* have prev pointers.  What the screen shows starts at scroll_pointer.    *)
(***************************************************************************)
EXTENDS Integers, SequencesExt, FiniteSetsExt

CONSTANTS Text,     \* texts and times that occur in the log
          Event,    \* the records that writers append
          Command,  \* command lines, as parseCmd reads them
          MaxLog,   \* bound on the log's length
          MaxOpen,  \* files that a process may have open
          NoCommand, Null

Column == {"time", "name", "cmd", "info"}
AuditRecord == [Column -> Text \cup {0}]
AnyText == Text \cup {0}
Keyword == [is : {"keyword"}, texts : SUBSET AnyText]
TimeRange == [is : {"range"}, from : Text, to : Text]    \* <time>*<time>

(* word is the second word of a command line, which is where -h and -r are   *)
(* looked for, or "" for a line of blanks.                                   *)
CommandLine ==
  [word : {"", "-h", "-r", "other"}, filter : Keyword \cup TimeRange,
   col : Column \cup {"none"}, asc : {-1, 0, 1}]

ASSUME AuditorAssumption ==
  /\ Text \subseteq Nat \ {0} /\ MaxLog \in Nat /\ MaxOpen \in Nat \ {0}
  /\ Event \subseteq AuditRecord
  /\ Null \notin Keyword \cup TimeRange
  /\ NoCommand \notin Command
  /\ Command \subseteq CommandLine

VARIABLES log,          \* the file's lines
          locked,       \* a client holds the file's lock
          opened,       \* how often the auditor has opened the file
          modified,     \* inotify has an event to read
          audit_head,   \* what fillAudit read last
          view,         \* curr_auditlog
          linked,       \* view has prev pointers
          scroll,       \* position of scroll_pointer in view; 0 is NULL
          curr_filter,  \* the last command
          at            \* the auditor's place

auditorVars ==
  <<log, locked, opened, modified, audit_head, view, linked, scroll, curr_filter, at>>

-----------------------------------------------------------------------------
(* parser.c                                                                  *)

Blank == [c \in Column |-> 0]

Compare(col, r, s) ==
  IF col = "time"
    THEN IF r.time > s.time /\ s.time # 0 THEN 1 ELSE 0
    ELSE r[col] - s[col]

Passes(col, asc, r, s) ==
  IF asc = 1 THEN Compare(col, r, s) > 0 ELSE Compare(col, r, s) < 0

(* Before the first record that the new one does not pass, or before the     *)
(* last.  A record without a name is dropped.                                *)
InsertSorted(col, asc, list, r) ==
  LET stops == {i \in DOMAIN list : ~Passes(col, asc, r, list[i])} IN
  IF r.name = 0 THEN list
  ELSE InsertAt(list, Min(stops \cup {Len(list)}), r)

(* The records at the positions asked for, one by one.  The lists start with *)
(* the empty record of their calloc, and keep it.                            *)
Sorted(col, asc, records, asked) ==
  LET upTo[k \in 0 .. Len(records)] ==
        IF k = 0 THEN <<Blank>>
        ELSE IF k \in asked THEN InsertSorted(col, asc, upTo[k - 1], records[k])
        ELSE upTo[k - 1]
  IN upTo[Len(records)]

SortBy(records, col, asc) == Sorted(col, asc, records, DOMAIN records)

CheckFilter(col, k, r) == r[col] \in k.texts

(* MUTANT of CheckKeyword: the tests are chained, and the last column counts. *)
CheckLastColumn(k, r) == r.info \in k.texts

CheckKeyword(k, r) == \E c \in Column : r[c] \in k.texts
CheckTimeRange(k, r) == r.time <= k.to /\ k.from <= r.time

FilterBy(records, col, k) ==
  Sorted(col, 1, records, {i \in DOMAIN records : CheckFilter(col, k, records[i])})
FilterByTimeRange(records, k) ==
  Sorted("time", 1, records, {i \in DOMAIN records : CheckTimeRange(k, records[i])})
SearchByKeyword(records, k) ==
  Sorted("time", 1, records, {i \in DOMAIN records : CheckKeyword(k, records[i])})

-----------------------------------------------------------------------------
(* auditor.c                                                                 *)

(* filterPrintCmd: with filter and col both given, either a time range,      *)
(* whatever the column, or a column's filter; a range without a column is    *)
(* searched for as it stands, and nothing contains a "*".  parseCmd's filter *)
(* is never NULL, so that its sort is never reached.                         *)
Answer(records, filter, col, asc) ==
  CASE filter # Null /\ col # "none" /\ filter.is = "range" ->
         FilterByTimeRange(records, filter)
    [] filter # Null /\ col # "none" /\ filter.is = "keyword" ->
         FilterBy(records, col, filter)
    [] filter # Null /\ col = "none" ->
         SearchByKeyword(records,
           IF filter.is = "range" THEN [is |-> "keyword", texts |-> {}] ELSE filter)
    [] filter = Null /\ asc # -1 /\ col # "none" -> SortBy(records, col, asc)

(* With the log's lock: fillAudit reads the log, and the answer is shown.    *)
FilterPrintCmd(filter, col, asc) ==
  LET raw == filter = Null /\ col = "none" /\ asc = -1 IN
  /\ audit_head' = log
  /\ view' = IF raw THEN log ELSE Answer(log, filter, col, asc)
  /\ linked' = ~raw
  /\ scroll' = IF view' = <<>> THEN 0 ELSE 1

(* The process ends: in strcpy(_, NULL), because tokenize finds no word, or  *)
(* in fileno(NULL), because fopen fails.                                     *)
Crash ==
  /\ at' = "crashed" /\ modified' = FALSE /\ opened' = 0
  /\ audit_head' = <<>> /\ view' = <<>> /\ linked' = FALSE /\ scroll' = 0

(* MUTANT of OpenLog: a log that cannot be opened is passed over. *)
OpenLogOrGoOn ==
  IF opened = MaxOpen
    THEN /\ at' = "loop"
         /\ UNCHANGED <<opened, modified, audit_head, view, linked, scroll>>
    ELSE /\ opened' = opened + 1 /\ audit_head' = <<>> /\ at' = "fill"
         /\ UNCHANGED <<modified, view, linked, scroll>>

(* fillAudit up to its flock: it frees what it read last and opens the log.  *)
OpenLog ==
  IF opened = MaxOpen THEN Crash
  ELSE /\ opened' = opened + 1 /\ audit_head' = <<>> /\ at' = "fill"
       /\ UNCHANGED <<modified, view, linked, scroll>>

ParseCmd(c) ==
  CASE c = NoCommand -> Crash
    [] c # NoCommand /\ c.word = "" -> Crash
    [] c # NoCommand /\ c.word = "-h" ->
         at' = "loop" /\ UNCHANGED <<opened, modified, audit_head, view, linked, scroll>>
    [] OTHER -> OpenLog

AuditorInit ==
  /\ log \in SeqOf(Event, MaxLog) /\ locked \in BOOLEAN
  /\ opened = 0 /\ modified = FALSE
  /\ audit_head = <<>> /\ view = <<>> /\ linked = FALSE /\ scroll = 0
  /\ curr_filter = NoCommand /\ at = "start"

(* The list is shown before the log is watched. *)
Start ==
  /\ at = "start" /\ ~locked /\ at' = "watch"
  /\ opened' = 1
  /\ FilterPrintCmd(Null, "none", -1)
  /\ UNCHANGED <<log, locked, modified, curr_filter>>

AddWatch ==
  /\ at = "watch" /\ at' = "loop"
  /\ UNCHANGED <<log, locked, opened, modified, audit_head, view, linked, scroll, curr_filter>>

(* A client takes the lock to write, or for /audit, and gives it back. *)
ClientLocks ==
  /\ locked' = ~locked
  /\ UNCHANGED <<log, opened, modified, audit_head, view, linked, scroll, curr_filter, at>>

(* A line is there: a client's, which has the lock, or a chat window's. *)
WriteLog(r) ==
  /\ Len(log) < MaxLog
  /\ log' = Append(log, r)
  /\ modified' = (modified \/ at \in {"loop", "reload", "fill"})
  /\ UNCHANGED <<locked, opened, audit_head, view, linked, scroll, curr_filter, at>>

(* handleMessage, for a line that is not empty. *)
Enter(c) ==
  /\ at = "loop"
  /\ curr_filter' = c
  /\ ParseCmd(c)
  /\ UNCHANGED <<log, locked>>

ScrollUp ==
  /\ at = "loop" /\ scroll \in 1..(Len(view) - 1)
  /\ scroll' = scroll + 1
  /\ UNCHANGED <<log, locked, opened, modified, audit_head, view, linked, curr_filter, at>>

ScrollDown ==
  /\ at = "loop" /\ linked /\ scroll > 1
  /\ scroll' = scroll - 1
  /\ UNCHANGED <<log, locked, opened, modified, audit_head, view, linked, curr_filter, at>>

ReadEvent ==
  /\ at = "loop" /\ modified
  /\ modified' = FALSE /\ at' = "reload"
  /\ UNCHANGED <<log, locked, opened, audit_head, view, linked, scroll, curr_filter>>

Reload ==
  /\ at = "reload"
  /\ ParseCmd(curr_filter)
  /\ UNCHANGED <<log, locked, curr_filter>>

(* The rest of the command, once fillAudit gets the lock.  fillAudit gives   *)
(* the lock back before the list is made, which only reads audit_head.       *)
Fill ==
  /\ at = "fill" /\ ~locked /\ at' = "loop"
  /\ IF curr_filter.word = "-r" THEN FilterPrintCmd(Null, "none", -1)
     ELSE FilterPrintCmd(curr_filter.filter, curr_filter.col, curr_filter.asc)
  /\ UNCHANGED <<log, locked, opened, modified, curr_filter>>

AuditorNext ==
  \/ Start \/ AddWatch \/ ReadEvent \/ Reload \/ Fill \/ ScrollUp \/ ScrollDown
  \/ ClientLocks
  \/ \E r \in Event : WriteLog(r)
  \/ \E c \in Command : Enter(c)

(* The loop looks at the keyboard first and at the log when no key is there; *)
(* keys come slower than it turns.  flock wakes who waits for it whenever    *)
(* the lock comes back; nothing is assumed of the clients.  Reload is the    *)
(* step that leaves "reload", Fill the one that leaves "fill".               *)
LeavesReload == at = "reload" /\ at' \in {"loop", "fill", "crashed"}
LeavesFill == at = "fill" /\ at' = "loop"
AuditorFairness == WF_auditorVars(ReadEvent) /\ WF_at(LeavesReload) /\ SF_at(LeavesFill)

AuditorSpec == AuditorInit /\ [][AuditorNext]_auditorVars

-----------------------------------------------------------------------------
(* Types of the auditor's state; the scroll position is in the list.         *)
AuditorTypeOK ==
  /\ log \in Seq(Event) /\ audit_head \in Seq(Event)
  /\ locked \in BOOLEAN /\ opened \in 0..MaxOpen
  /\ view \in Seq(AuditRecord)
  /\ modified \in BOOLEAN /\ linked \in BOOLEAN
  /\ scroll \in 0..Len(view)
  /\ curr_filter \in Command \cup {NoCommand}
  /\ at \in {"start", "watch", "loop", "reload", "fill", "crashed"}

(* What a list of records should be: the records asked for, as often as they *)
(* are in the log, in ascending order, and then the blank line.  Two records *)
(* are in the order of time unless there is one without a time among them,   *)
(* which compare calls neither earlier nor later than any other.             *)
InOrder(list, col) ==
  \A i, j \in 1..(Len(list) - 1) :
    i < j /\ (col = "time" => \A k \in i..j : list[k].time # 0) => list[i][col] <= list[j][col]

Times(s, r) == Cardinality({i \in DOMAIN s : s[i] = r})

ListOf(list, records, asked) ==
  /\ Last(list) = Blank
  /\ \A r \in Event : r.name # 0 =>
       Times(list, r) = IF r \in asked THEN Times(records, r) ELSE 0
  /\ \A i \in 1..(Len(list) - 1) : list[i] \in Event /\ list[i].name # 0

(* What a list shows of the records for a keyword or a range of times: in    *)
(* the column's order if the column is filtered (filterBy), else by time     *)
(* (searchByKeyword, filterByTimeRange).  The help page promises descending  *)
(* order for -d, which only sortBy would make of it and nothing does: of the *)
(* order after a -d nothing is claimed.                                      *)
Answers(list, records, k, col, asc) ==
  CASE col # "none" /\ k.is = "keyword" ->
         /\ ListOf(list, records, {r \in Event : r[col] \in k.texts})
         /\ asc # 0 => InOrder(list, col)
    [] col # "none" /\ k.is = "range" ->
         /\ ListOf(list, records, {r \in Event : r.time \in k.from..k.to})
         /\ asc # 0 => InOrder(list, "time")
    [] OTHER ->
         /\ ListOf(list, records,
                   {r \in Event : k.is = "keyword" /\ \E c \in Column : r[c] \in k.texts})
         /\ asc # 0 => InOrder(list, "time")

(* When the auditor waits for a key, the list on the screen has what the     *)
(* operator's last command asks for: every named record of the log as it was *)
(* read last that matches, as often as it was logged, nothing else, and in   *)
(* ascending order unless -d asks for another: for a list that was opened,   *)
(* scrolled and reloaded over a log that grows, with lines that a window's   *)
(* writes have mixed.                                                        *)
AnswersCommand ==
  at = "loop" /\ linked /\ curr_filter.word = "other" =>
    Answers(view, audit_head, curr_filter.filter, curr_filter.col, curr_filter.asc)

(* A modification that inotify has reported is read in the end, even if the  *)
(* log is modified again between the reading of the event and of the log     *)
(* (selectLoop) or while fillAudit waits for the lock, if the lock is free   *)
(* again and again: unless the operator looks at the help page or the        *)
(* auditor crashes.                                                          *)
Helping == curr_filter # NoCommand /\ curr_filter.word = "-h"
ModificationsRead ==
  []<>(~locked) => (modified ~> audit_head = log \/ Helping \/ at = "crashed")
=============================================================================
