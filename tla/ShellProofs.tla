---------------------------- MODULE ShellProofs ----------------------------
(***************************************************************************)
(* Theorems of ShellHistory, for an array of any size, any lines and any   *)
(* directories, and of ShellJobs, for any commands and any bounds.         *)
(*                                                                         *)
(* The history.  What the arrow keys show is the line of the array at      *)
(* index + offset, or nothing; and as long as slots are free, the slots    *)
(* below the index hold what was stored since the start, the latest on     *)
(* top.  A directory's file begins with the lines last written there: the  *)
(* i-th stands between its newlines i - 1 and i, and nothing behind it is  *)
(* read for it, however much of an older file is left.  In the middle of a *)
(* save the characters up to the file's position are these lines, or these *)
(* and the next without its newline, and the lines not yet written are the *)
(* rest of the array's.                                                    *)
(*                                                                         *)
(* The jobs.  A job's group is the pid of its first program, or 0 while it *)
(* has none.  A background job's programs are all in that group: nothing   *)
(* reaps the leader before the last of them is started, because no wait    *)
(* comes in between.  So a control key, which signals groups of foreground *)
(* jobs and perhaps the shell's own, reaches none of them.  And since a    *)
(* wait follows each foreground program, those not reaped are outnumbered  *)
(* by the background programs that waits took instead, but for the one     *)
(* that is being waited for.  A new job's number is greater than those of  *)
(* the list, which are finitely many.                                      *)
(***************************************************************************)
EXTENDS ShellHistory, ShellJobs, ListLemmas, SequenceTheorems

-----------------------------------------------------------------------------
(* The array.                                                                *)

(* The index lies in the array, and so does every line that can be shown. *)
ArrayTypes ==
  /\ \A i \in Index : history[i] \in Text
  /\ DOMAIN history = Index
  /\ currHistory \in Index /\ currHistoryOffset \in Int
  /\ currHistory + currHistoryOffset \in Index
  /\ cmd \in Text /\ entered \in Seq(Text)

(* A new process has nothing on its line and has stored nothing yet. *)
NewProcess == currHistoryOffset = 0 /\ cmd = <<>> /\ entered = <<>>

ArrayInv == ArrayTypes /\ (session = "off" => NewProcess)

LEMMA SizeIs == Size \in Nat /\ Size >= 3
BY HistoryAssumption

LEMMA EmptyTexts ==
  /\ <<>> \in Text /\ <<>> \in Seq(Text) /\ 0 \in Index /\ 0 + 0 \in Index
  /\ DOMAIN NoLines = Index /\ \A i \in Index : NoLines[i] \in Text
<1>1. <<>> \in Text /\ <<>> \in Seq(Text)
  BY DEF Text
<1> QED
  BY <1>1, SizeIs DEF NoLines, Index

LEMMA LinesAreTexts == ArrayTypes => Line \cup {cmd} \subseteq Text
BY HistoryAssumption DEF ArrayTypes, Text

(* A number of lines, bounded by the last slot's, is a slot's. *)
LEMMA FirstFreeSlot ==
  ASSUME NEW n \in Nat PROVE Min({n, Size - 1}) \in Index
<1>1. Size - 1 \in Nat
  BY SizeIs
<1>2. \E x \in {n, Size - 1} : \A y \in {n, Size - 1} : x <= y
  BY <1>1
<1>3. Min({n, Size - 1}) \in {n, Size - 1} /\ Min({n, Size - 1}) <= Size - 1
  BY <1>1, <1>2 DEF Min
<1> QED
  BY <1>1, <1>3 DEF Index

-----------------------------------------------------------------------------
(* The file's characters.                                                    *)

(* The newlines among the first i characters. *)
NewlinesTo(s, i) == Cardinality({k \in 1..i : s[k] = Newline})

LEMMA NewlinesUpTo ==
  ASSUME NEW s \in Seq(Nat), NEW i \in 0..Len(s)
  PROVE  /\ NewlinesTo(s, i) \in Nat
         /\ \A j \in 0..i : NewlinesTo(s, j) <= NewlinesTo(s, i)
         /\ i # 0 => NewlinesTo(s, i) = NewlinesTo(s, i - 1) + (IF s[i] = Newline THEN 1 ELSE 0)
<1> DEFINE P == {k \in 1..Len(s) : s[k] = Newline}
<1>1. Len(s) \in Nat /\ i \in Nat /\ i <= Len(s)
  OBVIOUS
<1>2. ASSUME NEW j \in 0..i PROVE {k \in 1..j : s[k] = Newline} = P \cap (1..j)
  BY <1>1
<1>3. ASSUME NEW j \in 0..i PROVE NewlinesTo(s, j) = Cardinality(P \cap (1..j))
  BY <1>2 DEF NewlinesTo
<1>4. IsFiniteSet(P \cap (1..i))
  <2>1. IsFiniteSet(1..i) /\ P \cap (1..i) \subseteq 1..i
    BY <1>1, FS_Interval
  <2> QED
    BY <2>1, FS_Subset
<1>5. i \in 0..i
  BY <1>1
<1>6. NewlinesTo(s, i) \in Nat
  BY <1>3, <1>4, <1>5, FS_CardinalityType
<1>7. ASSUME NEW j \in 0..i PROVE NewlinesTo(s, j) <= NewlinesTo(s, i)
  <2>1. P \cap (1..j) \subseteq P \cap (1..i)
    BY <1>1
  <2>2. Cardinality(P \cap (1..j)) <= Cardinality(P \cap (1..i))
    BY <1>4, <2>1, FS_Subset
  <2> QED
    BY <1>3, <1>5, <2>2
<1>8. ASSUME i # 0
      PROVE  NewlinesTo(s, i) = NewlinesTo(s, i - 1) + (IF s[i] = Newline THEN 1 ELSE 0)
  <2>1. i \in Nat \ {0} /\ i - 1 \in 0..i /\ (i \in P <=> s[i] = Newline)
    BY <1>1, <1>8
  <2>2. Cardinality(P \cap (1..i))
          = Cardinality(P \cap (1..i - 1)) + (IF i \in P THEN 1 ELSE 0)
    BY <2>1, CountsOn
  <2> QED
    BY <1>3, <1>5, <2>1, <2>2
<1> QED
  BY <1>6, <1>7, <1>8

LEMMA NewlinesOfPrefix ==
  ASSUME NEW s \in Seq(Nat), NEW i \in 0..Len(s)
  PROVE  NewlinesIn(SubSeq(s, 1, i)) = NewlinesTo(s, i)
<1> DEFINE t == SubSeq(s, 1, i)
<1>1. DOMAIN t = 1..i /\ \A k \in 1..i : t[k] = s[k]
  OBVIOUS
<1> HIDE DEF t
<1>2. {k \in DOMAIN t : t[k] = Newline} = {k \in 1..i : s[k] = Newline}
  BY <1>1
<1> QED
  BY <1>2 DEF NewlinesIn, NewlinesTo, t

LEMMA NewlinesOfAll ==
  ASSUME NEW s \in Seq(Nat) PROVE NewlinesIn(s) = NewlinesTo(s, Len(s))
BY DEF NewlinesIn, NewlinesTo

(* The positions of the n-th line. *)
InLineNo(s, n) == {i \in 1..Len(s) : s[i] # Newline /\ NewlinesTo(s, i) = n - 1}

LEMMA LineOfIs ==
  ASSUME NEW s \in Seq(Nat), NEW n
  PROVE  LineOf(s, n) = IF InLineNo(s, n) = {} THEN <<>>
                        ELSE SubSeq(s, Min(InLineNo(s, n)), Max(InLineNo(s, n)))
<1> DEFINE at == {i \in DOMAIN s : s[i] # Newline /\ NewlinesIn(SubSeq(s, 1, i)) = n - 1}
<1>1. DOMAIN s = 1..Len(s) /\ \A i \in 1..Len(s) : i \in 0..Len(s)
  OBVIOUS
<1>2. at = InLineNo(s, n)
  BY <1>1, NewlinesOfPrefix DEF InLineNo
<1> QED
  BY <1>2 DEF LineOf

(* A line, complete or not, has no newline. *)
Printable == Nat \ {0}

LEMMA LineOfType ==
  ASSUME NEW s \in Seq(Nat), NEW n \in Nat
  PROVE  LineOf(s, n) \in Seq(Printable)
<1> DEFINE at == InLineNo(s, n)
           a == Min(at)
           b == Max(at)
<1>1. CASE at = {}
  <2>1. LineOf(s, n) = <<>>
    BY <1>1, LineOfIs
  <2> QED
    BY <2>1
<1>2. CASE at # {}
  <2>1. at \subseteq Nat /\ at \subseteq 0..Len(s) /\ Len(s) \in Nat
    BY DEF InLineNo
  <2>2. a \in at /\ b \in at /\ \A y \in at : a <= y /\ y <= b
    <3> HIDE DEF at
    <3>1. a \in at /\ \A y \in at : a <= y
      BY <1>2, <2>1, LeastIs
    <3>2. b \in at /\ \A y \in at : b >= y
      BY <1>2, <2>1, GreatestIs
    <3> QED
      BY <2>1, <3>1, <3>2
  <2> HIDE DEF a, b
  <2>3. a \in 1..Len(s) /\ b \in 1..Len(s) /\ a <= b /\ a \in Nat /\ b \in Nat
    BY <2>1, <2>2 DEF InLineNo
  <2>4. NewlinesTo(s, a) = n - 1 /\ NewlinesTo(s, b) = n - 1 /\ s[a] # Newline
    BY <2>2 DEF InLineNo
  <2>5. ASSUME NEW i \in a..b PROVE s[i] \in Printable
    <3>1. i \in 0..Len(s) /\ i # 0 /\ i \in 1..Len(s) /\ b \in 0..Len(s) /\ i \in 0..b
      BY <2>1, <2>3
    <3>2. s[i] \in Nat
      BY <3>1
    <3>3. CASE s[i] # Newline
      BY <3>2, <3>3 DEF Printable, Newline
    <3>4. CASE s[i] = Newline
      <4>1. a <= i - 1 /\ a \in 0..(i - 1) /\ i - 1 \in 0..Len(s)
        BY <2>1, <2>3, <2>4, <3>1, <3>4
      <4>2. NewlinesTo(s, a) <= NewlinesTo(s, i - 1) /\ NewlinesTo(s, i - 1) \in Nat
        BY <4>1, NewlinesUpTo
      <4>3. NewlinesTo(s, i) = NewlinesTo(s, i - 1) + 1
        BY <3>1, <3>4, NewlinesUpTo
      <4>4. NewlinesTo(s, i) <= NewlinesTo(s, b)
        BY <3>1, NewlinesUpTo
      <4> QED
        BY <2>4, <4>2, <4>3, <4>4
    <3> QED
      BY <3>3, <3>4
  <2>6. SubSeq(s, a, b) \in Seq(Printable)
    BY <2>3, <2>5
  <2> QED
    BY <1>2, <2>6, LineOfIs DEF a, b
<1> QED
  BY <1>1, <1>2

(* The n-th line of s starts behind position p and is complete. *)
HasLine(s, n, line, p) ==
  /\ p + Len(line) + 1 \in 1..Len(s)
  /\ \A j \in 1..Len(line) : s[p + j] = line[j]
  /\ s[p + Len(line) + 1] = Newline
  /\ p # 0 => s[p] = Newline
  /\ NewlinesTo(s, p) = n - 1

LEMMA LineRead ==
  ASSUME NEW s \in Seq(Nat), NEW n \in Nat, NEW line \in Seq(Printable), line # <<>>,
         NEW p \in Nat, HasLine(s, n, line, p)
  PROVE  LineOf(s, n) = line
<1> DEFINE m == Len(line)
           at == InLineNo(s, n)
<1>1. /\ m \in Nat /\ m >= 1 /\ Len(s) \in Nat /\ p + m + 1 <= Len(s)
      /\ \A j \in 1..m : line[j] \in Printable
  BY DEF HasLine
<1>2. /\ \A j \in 1..m : s[p + j] = line[j]
      /\ s[p + m + 1] = Newline
      /\ p # 0 => s[p] = Newline
      /\ NewlinesTo(s, p) = n - 1
  BY DEF HasLine
<1> HIDE DEF m
<1>3. ASSUME NEW i \in (p + 1)..(p + m) PROVE i \in at
  <2>1. i \in 0..Len(s) /\ i # 0 /\ i \in 1..Len(s) /\ p \in 0..i
    BY <1>1
  <2>2. \A k \in (p + 1)..(p + m) : s[k] # Newline
    <3> SUFFICES ASSUME NEW k \in (p + 1)..(p + m) PROVE s[k] # Newline
      OBVIOUS
    <3>1. k - p \in 1..m /\ p + (k - p) = k
      BY <1>1
    <3>2. s[k] = line[k - p] /\ line[k - p] \in Printable
      BY <1>1, <1>2, <3>1
    <3> QED
      BY <3>2 DEF Printable, Newline
  <2>3. {k \in 1..i : s[k] = Newline} = {k \in 1..p : s[k] = Newline}
    BY <1>1, <2>2
  <2>4. NewlinesTo(s, i) = n - 1
    BY <1>2, <2>3 DEF NewlinesTo
  <2> QED
    BY <2>1, <2>2, <2>4 DEF InLineNo
<1>4. ASSUME NEW i \in at PROVE i \in (p + 1)..(p + m)
  <2>1. i \in 1..Len(s) /\ s[i] # Newline /\ NewlinesTo(s, i) = n - 1
    BY DEF InLineNo
  <2>2. CASE i <= p
    <3>1. p # 0 /\ s[p] = Newline /\ i \in 0..(p - 1) /\ p - 1 \in 0..Len(s) /\ p \in 0..Len(s)
      BY <1>1, <1>2, <2>1, <2>2
    <3>2. NewlinesTo(s, i) <= NewlinesTo(s, p - 1) /\ NewlinesTo(s, p - 1) \in Nat
      BY <3>1, NewlinesUpTo
    <3>3. NewlinesTo(s, p) = NewlinesTo(s, p - 1) + 1
      BY <3>1, NewlinesUpTo
    <3> QED
      BY <1>2, <2>1, <3>2, <3>3
  <2>3. CASE i > p + m
    <3> DEFINE e == p + m + 1
    <3>1. e \in 0..Len(s) /\ e # 0 /\ e - 1 \in 0..Len(s) /\ e \in 0..i /\ p \in 0..(e - 1)
          /\ i \in 0..Len(s)
      BY <1>1, <2>1, <2>3
    <3>2. s[e] = Newline
      BY <1>2
    <3> HIDE DEF e
    <3>3. NewlinesTo(s, e) = NewlinesTo(s, e - 1) + 1
      BY <3>1, <3>2, NewlinesUpTo
    <3>4. NewlinesTo(s, p) <= NewlinesTo(s, e - 1) /\ NewlinesTo(s, e - 1) \in Nat
      BY <3>1, NewlinesUpTo
    <3>5. NewlinesTo(s, e) <= NewlinesTo(s, i)
      BY <3>1, NewlinesUpTo
    <3> QED
      BY <1>2, <2>1, <3>3, <3>4, <3>5
  <2> QED
    BY <1>1, <2>1, <2>2, <2>3
<1>5. p + 1 \in at /\ p + m \in at /\ at # {}
  BY <1>1, <1>3
<1>6. at \subseteq Nat /\ at \subseteq 0..Len(s)
  BY DEF InLineNo
<1>7. Min(at) = p + 1
  <2>1. Min(at) \in at /\ \A y \in at : Min(at) <= y
    <3> HIDE DEF at
    <3> QED
      BY <1>5, <1>6, LeastIs
  <2>2. Min(at) >= p + 1 /\ Min(at) <= p + 1 /\ Min(at) \in Nat
    <3>1. Min(at) \in (p + 1)..(p + m)
      BY <1>4, <2>1
    <3>2. Min(at) <= p + 1
      BY <1>5, <2>1
    <3> HIDE DEF at
    <3> QED
      BY <1>1, <3>1, <3>2
  <2> HIDE DEF at
  <2> QED
    BY <2>2
<1>8. Max(at) = p + m
  <2>1. Max(at) \in at /\ \A y \in at : Max(at) >= y
    <3> HIDE DEF at
    <3> QED
      BY <1>1, <1>5, <1>6, GreatestIs
  <2>2. Max(at) >= p + m /\ Max(at) <= p + m /\ Max(at) \in Nat
    <3>1. Max(at) \in (p + 1)..(p + m)
      BY <1>4, <2>1
    <3>2. Max(at) >= p + m
      BY <1>5, <2>1
    <3> HIDE DEF at
    <3> QED
      BY <1>1, <3>1, <3>2
  <2>3. p + m \in Nat
    BY <1>1
  <2> HIDE DEF at
  <2> QED
    BY <2>2, <2>3
<1>9. SubSeq(s, p + 1, p + m) = line
  <2>1. SubSeq(s, p + 1, p + m) = [j \in 1..m |-> s[p + j]]
    BY <1>1
  <2>2. line = [j \in 1..m |-> line[j]]
    BY DEF m
  <2> QED
    BY <1>2, <2>1, <2>2
<1>10. LineOf(s, n) = SubSeq(s, Min(at), Max(at))
  BY <1>5, LineOfIs
<1> QED
  BY <1>7, <1>8, <1>9, <1>10

-----------------------------------------------------------------------------
(* What exit writes.                                                         *)
FileLine == Seq(Printable) \ {<<>>}

(* The lines that are not blank, of the slots up to k. *)
LEMMA NotBlankIs ==
  ASSUME NEW h, \A i \in Index : h[i] \in Seq(Printable)
  PROVE  NotBlank(h) \in Seq(FileLine) /\ Len(NotBlank(h)) <= Size
<1> DEFINE T == Seq(FileLine)
           More(lines, k) == IF h[k - 1] = <<>> THEN lines ELSE Append(lines, h[k - 1])
           G == [q \in (1..Size) \X T |-> More(q[2], q[1])]
           Runs(f) == f = [k \in 0..Size |-> IF k = 0 THEN <<>> ELSE More(f[k - 1], k)]
<1>1. Size \in Nat
  BY SizeIs
<1>2. ASSUME NEW lines \in T, NEW k \in 1..Size
      PROVE  More(lines, k) \in T /\ Len(More(lines, k)) <= Len(lines) + 1
  <2>1. h[k - 1] \in Seq(Printable)
    BY <1>1 DEF Index
  <2>2. h[k - 1] # <<>> => h[k - 1] \in FileLine
    BY <2>1 DEF FileLine
  <2> HIDE DEF FileLine
  <2> QED
    BY <2>2
<1>3. <<>> \in T
  OBVIOUS
<1>4. G \in [(1..Size) \X T -> T]
  BY <1>2
<1>5. PICK f \in [0..Size -> T] : f[0] = <<>> /\ \A k \in 1..Size : f[k] = G[<<k, f[k - 1]>>]
  <2> HIDE DEF G, T
  <2>1. PICK f \in [0..Size -> T] : Recurs(f, Size, <<>>, G)
    BY <1>1, <1>3, <1>4, Recursion
  <2> QED
    BY <2>1 DEF Recurs
<1>6. Runs(f)
  <2>1. ASSUME NEW k \in 0..Size PROVE f[k] = IF k = 0 THEN <<>> ELSE More(f[k - 1], k)
    <3>1. CASE k = 0
      BY <1>5, <3>1
    <3>2. CASE k # 0
      <4>1. k \in 1..Size /\ k - 1 \in 0..Size
        BY <1>1, <3>2
      <4>2. f[k - 1] \in T
        BY <4>1
      <4>3. G[<<k, f[k - 1]>>] = More(f[k - 1], k)
        <5> HIDE DEF T, More
        <5> QED
          BY <4>1, <4>2
      <4> QED
        BY <1>5, <3>2, <4>1, <4>3
    <3> QED
      BY <3>1, <3>2
  <2>2. f = [k \in 0..Size |-> f[k]]
    OBVIOUS
  <2> HIDE DEF More, T
  <2> QED
    BY <2>1, <2>2
<1> DEFINE u == CHOOSE g : Runs(g)
<1>7. Runs(u)
  BY <1>6, Zenon
<1>8. NotBlank(h) = u[Size]
  BY Zenon DEF NotBlank
<1> HIDE DEF u
<1>9. u[0] = <<>> /\ \A k \in 1..Size : u[k] = More(u[k - 1], k)
  <2> HIDE DEF More
  <2> QED
    BY <1>1, <1>7
<1> HIDE DEF Runs, G, More
<1> DEFINE good == {k \in 0..Size : u[k] \in T /\ Len(u[k]) <= k}
<1>10. 0 \in good
  <2>1. Len(<<>>) <= 0 /\ 0 \in 0..Size
    BY <1>1
  <2> HIDE DEF T
  <2> QED
    BY <1>3, <1>9, <2>1
<1>11. ASSUME NEW k \in 1..Size, k - 1 \in good PROVE k \in good
  <2>1. u[k] = More(u[k - 1], k) /\ u[k - 1] \in T /\ Len(u[k - 1]) <= k - 1
    BY <1>9, <1>11
  <2>2. u[k] \in T /\ Len(u[k]) <= Len(u[k - 1]) + 1
    BY <1>2, <2>1
  <2>3. Len(u[k - 1]) \in Nat /\ Len(u[k]) \in Nat
    <3> HIDE DEF FileLine
    <3> QED
      BY <2>1, <2>2
  <2>4. k \in 0..Size /\ k \in Nat
    BY <1>1
  <2> HIDE DEF T
  <2> QED
    BY <2>1, <2>2, <2>3, <2>4
<1>12. Size \in good
  <2>1. Size \in 0..Size
    BY <1>1
  <2> HIDE DEF good
  <2> QED
    BY <1>1, <1>10, <1>11, <2>1, UpTo
<1> QED
  BY <1>8, <1>12

(* A complete line stays where it is when the file grows. *)
LEMMA HasLineStays ==
  ASSUME NEW s \in Seq(Nat), NEW t \in Seq(Nat), NEW n \in Nat, NEW line \in Seq(Printable),
         NEW p \in Nat, HasLine(s, n, line, p)
  PROVE  HasLine(s \o t, n, line, p)
<1> DEFINE st == s \o t
           m == Len(line)
<1>1. /\ p + m + 1 \in 1..Len(s)
      /\ \A j \in 1..m : s[p + j] = line[j]
      /\ s[p + m + 1] = Newline
      /\ p # 0 => s[p] = Newline
      /\ NewlinesTo(s, p) = n - 1
  BY DEF HasLine
<1>2. m \in Nat /\ Len(s) \in Nat /\ Len(t) \in Nat
  OBVIOUS
<1>3. Len(st) = Len(s) + Len(t) /\ \A k \in 1..Len(s) : st[k] = s[k]
  BY Joined
<1> HIDE DEF st, m
<1>0. /\ p + m + 1 <= Len(s) /\ Len(s) <= Len(st) /\ Len(st) \in Nat
      /\ p # 0 => p \in 1..Len(s)
      /\ \A j \in 1..m : p + j \in 1..Len(s)
      /\ \A k \in 1..p : k \in 1..Len(s)
  BY <1>1, <1>2, <1>3
<1>4. p + m + 1 \in 1..Len(st) /\ st[p + m + 1] = Newline
  <2>1. st[p + m + 1] = s[p + m + 1]
    BY <1>1, <1>3
  <2> QED
    BY <1>0, <1>1, <1>2, <2>1
<1>5. \A j \in 1..m : st[p + j] = line[j]
  BY <1>0, <1>1, <1>3
<1>6. p # 0 => st[p] = Newline
  BY <1>0, <1>1, <1>3
<1>7. NewlinesTo(st, p) = NewlinesTo(s, p)
  <2>1. {k \in 1..p : st[k] = Newline} = {k \in 1..p : s[k] = Newline}
    BY <1>0, <1>3
  <2> QED
    BY <2>1 DEF NewlinesTo
<1> QED
  BY <1>1, <1>4, <1>5, <1>6, <1>7 DEF HasLine, st, m

(* What the file is after k lines. *)
Begins(s, lines, k) ==
  \A n \in 1..k : \E p \in Nat : HasLine(s, n, lines[n], p)

Written(s, lines, k) ==
  /\ s \in Seq(Nat) /\ Begins(s, lines, k)
  /\ NewlinesTo(s, Len(s)) = k
  /\ Len(s) # 0 => s[Len(s)] = Newline

LEMMA WrittenStep ==
  ASSUME NEW lines \in Seq(FileLine), NEW k \in 1..Len(lines), NEW s,
         Written(s, lines, k - 1)
  PROVE  Written(s \o Append(lines[k], Newline), lines, k)
<1> DEFINE line == lines[k]
           m == Len(line)
           q == Len(s)
           end == Append(line, Newline)
           t == s \o end
<1>1. line \in FileLine /\ k \in Nat /\ k >= 1
  OBVIOUS
<1>2. line \in Seq(Printable) /\ line # <<>>
  BY <1>1 DEF FileLine
<1>3. line \in Seq(Nat) /\ m \in Nat /\ \A j \in 1..m : line[j] \in Nat /\ line[j] # Newline
  BY <1>2 DEF Printable, Newline
<1>4. s \in Seq(Nat) /\ q \in Nat
  BY DEF Written
<1>5. /\ end \in Seq(Nat) /\ Len(end) = m + 1 /\ end[m + 1] = Newline
      /\ \A j \in 1..m : end[j] = line[j]
  BY <1>3 DEF Newline
<1>6. s \o Append(lines[k], Newline) = t
  OBVIOUS
<1> HIDE DEF line, m, q, end, t
<1>7. /\ t \in Seq(Nat) /\ Len(t) = q + m + 1
      /\ \A i \in 1..q : t[i] = s[i]
      /\ \A i \in 1..m + 1 : t[q + i] = end[i]
  <2>1. s \o end \in Seq(Nat) /\ Len(s \o end) = Len(s) + Len(end)
    BY <1>4, <1>5, Joined
  <2>2. \A i \in 1..Len(s) : (s \o end)[i] = s[i]
    BY <1>4, <1>5, Joined
  <2>3. \A i \in 1..Len(end) : (s \o end)[Len(s) + i] = end[i]
    BY <1>4, <1>5, Joined
  <2>4. Len(s) = q /\ Len(end) = m + 1 /\ q + (m + 1) = q + m + 1
    BY <1>3, <1>4, <1>5 DEF q
  <2> QED
    BY <2>1, <2>2, <2>3, <2>4 DEF t
<1>8. t[q + m + 1] = Newline /\ \A j \in 1..m : t[q + j] = line[j]
  <2>1. m + 1 \in 1..m + 1 /\ q + (m + 1) = q + m + 1
    BY <1>3, <1>4
  <2>2. \A j \in 1..m : j \in 1..m + 1
    BY <1>3
  <2> QED
    BY <1>5, <1>7, <2>1, <2>2
<1>9. NewlinesTo(t, q) = k - 1
  <2>1. {i \in 1..q : t[i] = Newline} = {i \in 1..q : s[i] = Newline}
    BY <1>7
  <2>2. NewlinesTo(s, q) = k - 1
    BY DEF Written, q
  <2> QED
    BY <2>1, <2>2 DEF NewlinesTo
<1>10. HasLine(t, k, line, q)
  <2>1. q # 0 => t[q] = Newline
    <3>1. q # 0 => s[q] = Newline
      BY DEF Written, q
    <3>2. q # 0 => q \in 1..q
      BY <1>4
    <3> QED
      BY <1>7, <3>1, <3>2
  <2>2. q + m + 1 \in 1..Len(t)
    BY <1>3, <1>4, <1>7
  <2> QED
    BY <1>8, <1>9, <2>1, <2>2 DEF HasLine, m
<1>11. NewlinesTo(t, Len(t)) = k
  <2> DEFINE e == q + m + 1
  <2>1. e \in 0..Len(t) /\ e # 0 /\ e - 1 = q + m
    BY <1>3, <1>4, <1>7
  <2>2. t[e] = Newline
    BY <1>8
  <2>3. {i \in 1..q + m : t[i] = Newline} = {i \in 1..q : t[i] = Newline}
    <3>1. ASSUME NEW i \in 1..q + m, ~(i <= q) PROVE t[i] # Newline
      <4>1. i - q \in 1..m /\ q + (i - q) = i
        BY <1>3, <1>4, <3>1
      <4>2. t[i] = line[i - q]
        BY <1>8, <4>1
      <4> QED
        BY <1>3, <4>1, <4>2
    <3> QED
      BY <1>3, <1>4, <3>1
  <2>4. NewlinesTo(t, q + m) = k - 1
    BY <1>9, <2>3 DEF NewlinesTo
  <2> HIDE DEF e
  <2>5. NewlinesTo(t, e) = NewlinesTo(t, e - 1) + 1
    BY <1>7, <2>1, <2>2, NewlinesUpTo
  <2>6. NewlinesTo(t, e) = k
    BY <1>1, <2>1, <2>4, <2>5
  <2> QED
    BY <1>7, <2>6 DEF e
<1>12. Begins(t, lines, k)
  <2> SUFFICES ASSUME NEW n \in 1..k PROVE \E p \in Nat : HasLine(t, n, lines[n], p)
    BY DEF Begins
  <2>1. CASE n = k
    BY <1>4, <1>10, <2>1 DEF line
  <2>2. CASE n # k
    <3>1. n \in 1..k - 1 /\ n \in Nat /\ n \in 1..Len(lines)
      BY <2>2
    <3>2. lines[n] \in Seq(Printable)
      BY <3>1 DEF FileLine
    <3>3. PICK p \in Nat : HasLine(s, n, lines[n], p)
      BY <3>1 DEF Written, Begins
    <3>4. HasLine(t, n, lines[n], p)
      BY <1>4, <1>5, <3>1, <3>2, <3>3, HasLineStays DEF t
    <3> QED
      BY <3>4
  <2> QED
    BY <2>1, <2>2
<1>13. Len(t) # 0 => t[Len(t)] = Newline
  BY <1>7, <1>8
<1>14. Written(t, lines, k)
  BY <1>7, <1>11, <1>12, <1>13 DEF Written
<1> QED
  BY <1>6, <1>14

LEMMA BeginsStays ==
  ASSUME NEW lines \in Seq(FileLine), NEW s \in Seq(Nat), NEW t \in Seq(Nat),
         Begins(s, lines, Len(lines))
  PROVE  Begins(s \o t, lines, Len(lines))
<1> SUFFICES ASSUME NEW n \in 1..Len(lines) PROVE \E p \in Nat : HasLine(s \o t, n, lines[n], p)
  BY DEF Begins
<1>1. lines[n] \in Seq(Printable) /\ n \in Nat
  BY DEF FileLine
<1>2. PICK p \in Nat : HasLine(s, n, lines[n], p)
  BY DEF Begins
<1>3. HasLine(s \o t, n, lines[n], p)
  BY <1>1, <1>2, HasLineStays
<1> QED
  BY <1>3

(* An old file's end is a text, whatever its length. *)
LEMMA OldEnd ==
  ASSUME NEW s \in Seq(Nat), NEW k \in Nat
  PROVE  SubSeq(s, k + 1, Len(s)) \in Seq(Nat)
<1>1. CASE k + 1 <= Len(s)
  BY <1>1
<1>2. CASE ~(k + 1 <= Len(s))
  BY <1>2
<1> QED
  BY <1>1, <1>2

-----------------------------------------------------------------------------
(* The array keeps its types, the files having theirs.                       *)

LEMMA StartKeepsArray ==
  ASSUME ArrayInv, NEW d \in Dir, disk[d] \in Seq(Nat), StartSession(d) PROVE ArrayInv'
<1>1. ArrayTypes /\ NewProcess
  BY DEF ArrayInv, StartSession
<1>2. ASSUME NEW i \in Index PROVE history'[i] \in Text
  <2>1. i + 1 \in Nat
    BY SizeIs DEF Index
  <2>2. LineOf(disk[d], i + 1) \in Seq(Printable)
    BY <2>1, LineOfType
  <2> QED
    BY <2>2 DEF StartSession, Printable, Text
<1>3. currHistory' \in Index
  <2>1. NewlinesIn(disk[d]) \in Nat
    <3>1. Len(disk[d]) \in 0..Len(disk[d])
      OBVIOUS
    <3> QED
      BY <3>1, NewlinesOfAll, NewlinesUpTo
  <2> QED
    BY <2>1, FirstFreeSlot DEF StartSession
<1>4. DOMAIN history' = Index /\ session' # "off"
  BY DEF StartSession
<1>5. UNCHANGED <<currHistoryOffset, cmd, entered>>
  BY DEF StartSession
<1>6. currHistory' + currHistoryOffset' \in Index
  <2>1. \A x \in Index : x + 0 = x
    BY SizeIs DEF Index
  <2> QED
    BY <1>1, <1>3, <1>5, <2>1 DEF NewProcess
<1> QED
  BY <1>1, <1>2, <1>3, <1>4, <1>5, <1>6 DEF ArrayInv, ArrayTypes

(* A line that is stored keeps the array's type. *)
LEMMA StoredType ==
  ASSUME ArrayTypes, NEW line \in Text
  PROVE  DOMAIN Stored(line) = Index /\ \A i \in Index : Stored(line)[i] \in Text
<1> DEFINE moved == [i \in Index |-> IF i < Size - 1 THEN history[i + 1] ELSE <<>>]
           old == IF currHistory < Size - 1 THEN history ELSE moved
<1>1. \A i \in Index : history[i] \in Text /\ (i < Size - 1 => i + 1 \in Index)
  BY SizeIs DEF ArrayTypes, Index
<1>2. DOMAIN old = Index /\ \A i \in Index : old[i] \in Text
  BY <1>1, EmptyTexts DEF ArrayTypes
<1>3. Stored(line) = [old EXCEPT ![currHistory] = line]
  BY DEF Stored
<1> HIDE DEF old
<1> QED
  BY <1>2, <1>3

LEMMA NextIndexType ==
  ASSUME ArrayTypes PROVE NextIndex \in Index /\ NextIndex + 0 \in Index
BY SizeIs DEF ArrayTypes, NextIndex, HasFreeSlot, Index

LEMMA StoreKeepsTypes ==
  ASSUME ArrayTypes, NEW line \in Text, StoreHistory(line), cmd' \in Text
  PROVE  ArrayTypes'
<1>1. CASE line[1] = Space
  BY <1>1 DEF StoreHistory, ArrayTypes
<1>2. CASE line[1] # Space
  <2>1. history' = Stored(line) /\ currHistory' = NextIndex /\ currHistoryOffset' = 0
    BY <1>2 DEF StoreHistory
  <2>2. DOMAIN history' = Index /\ \A i \in Index : history'[i] \in Text
    BY <2>1, StoredType
  <2>3. currHistory' \in Index /\ currHistory' + currHistoryOffset' \in Index
    BY <2>1, NextIndexType
  <2>4. entered' \in Seq(Text)
    <3>1. entered' = IF HasFreeSlot THEN Append(entered, line) ELSE <<>>
      BY <1>2 DEF StoreHistory
    <3>2. Append(entered, line) \in Seq(Text)
      BY DEF ArrayTypes
    <3> QED
      BY <3>1, <3>2, EmptyTexts
  <2> QED
    BY <2>1, <2>2, <2>3, <2>4 DEF ArrayTypes
<1> QED
  BY <1>1, <1>2

LEMMA ArrowKeepsArray == ArrayInv /\ ArrowKey => ArrayInv'
<1> SUFFICES ASSUME ArrayInv, ArrowKey PROVE ArrayInv'
  OBVIOUS
<1>1. /\ UNCHANGED <<history, currHistory, entered, session>> /\ session = "on"
      /\ ArrayTypes
  BY DEF ArrowKey, ArrayInv
<1>2. CASE ClearLineOnly
  BY <1>1, <1>2, EmptyTexts DEF ClearLineOnly, ArrayInv, ArrayTypes
<1>3. ASSUME NEW by \in Int, Recall(by), currHistory + currHistoryOffset + by \in Index
      PROVE  ArrayInv'
  <2>1. currHistoryOffset' = currHistoryOffset + by
    BY <1>3 DEF Recall
  <2>2. currHistory' + currHistoryOffset' = currHistory + currHistoryOffset + by
    BY <1>1, <2>1, SizeIs DEF ArrayTypes, Index
  <2>3. cmd' \in Text /\ currHistoryOffset' \in Int
    BY <1>1, <1>3, <2>1 DEF Recall, ArrayTypes
  <2> QED
    BY <1>1, <1>3, <2>2, <2>3 DEF ArrayInv, ArrayTypes
<1>4. CASE MayGoUp /\ Recall(-1)
  <2>1. currHistory + currHistoryOffset + (-1) \in Index
    BY <1>1, <1>4, SizeIs DEF MayGoUp, ArrayTypes, Index
  <2> QED
    BY <1>3, <1>4, <2>1
<1>5. CASE MayGoDown /\ Recall(1)
  <2>1. currHistory + currHistoryOffset + 1 \in Index
    BY <1>1, <1>5, SizeIs DEF MayGoDown, ArrayTypes, Index
  <2> QED
    BY <1>3, <1>5, <2>1
<1> QED
  BY <1>2, <1>4, <1>5 DEF ArrowKey

LEMMA ClearKeepsArray == ArrayInv /\ ClearHistory => ArrayInv'
<1> SUFFICES ASSUME ArrayInv, ClearHistory PROVE ArrayInv'
  OBVIOUS
<1>1. ArrayTypes /\ session' # "off"
  BY DEF ArrayInv, ClearHistory
<1>2. currHistory' \in Index /\ currHistory' + currHistoryOffset' \in Index
  BY <1>1, NextIndexType DEF ClearHistory, ArrayTypes
<1>3. history' = NoLines /\ cmd' = <<>> /\ entered' = <<>> /\ currHistoryOffset' \in Int
  BY <1>1 DEF ClearHistory, ArrayTypes
<1> QED
  BY <1>1, <1>2, <1>3, EmptyTexts DEF ArrayInv, ArrayTypes

LEMMA OverKeepsArray == SessionOver => ArrayInv'
BY EmptyTexts DEF SessionOver, ArrayInv, ArrayTypes, NewProcess

(* Every step keeps the array's types. *)
LEMMA ArrayInductive ==
  ASSUME ArrayInv, disk \in [Dir -> Seq(Nat)], [HistoryNext]_historyVars
  PROVE  ArrayInv'
<1>0. ArrayTypes
  BY DEF ArrayInv
<1>1. ASSUME NEW d \in Dir, StartSession(d) PROVE ArrayInv'
  <2>1. disk[d] \in Seq(Nat)
    OBVIOUS
  <2> QED
    BY <1>1, <2>1, StartKeepsArray
<1>2. ASSUME NEW line \in Line \cup {cmd}, EnterLine(line) PROVE ArrayInv'
  <2>1. line \in Text
    BY <1>0, LinesAreTexts
  <2>2. StoreHistory(line) /\ cmd' = <<>> /\ session' = "on"
    BY <1>2 DEF EnterLine
  <2>3. cmd' \in Text
    BY <2>2, EmptyTexts
  <2> QED
    BY <1>0, <2>1, <2>2, <2>3, StoreKeepsTypes DEF ArrayInv
<1>3. ASSUME NEW line \in Line \cup {cmd}, BeginSave(line) PROVE ArrayInv'
  <2>1. line \in Text
    BY <1>0, LinesAreTexts
  <2>2. StoreHistory(line) /\ cmd' = cmd /\ session' = "line"
    BY <1>3 DEF BeginSave
  <2>3. cmd' \in Text
    BY <1>0, <2>2 DEF ArrayTypes
  <2> QED
    BY <1>0, <2>1, <2>2, <2>3, StoreKeepsTypes DEF ArrayInv
<1>4. CASE EnterNothing
  <2>1. cmd' = <<>> /\ session' = session /\ session = "on"
        /\ UNCHANGED <<history, currHistory, currHistoryOffset, entered>>
    BY <1>4 DEF EnterNothing
  <2> QED
    BY <1>0, <2>1, EmptyTexts DEF ArrayInv, ArrayTypes
<1>5. CASE SaveLine \/ SaveNewline
  <2>1. UNCHANGED sessionVars /\ session' # "off"
    BY <1>5 DEF SaveLine, SaveNewline
  <2> QED
    BY <1>0, <2>1 DEF ArrayInv, ArrayTypes, sessionVars
<1>6. CASE EndSave \/ KillShell
  BY <1>6, OverKeepsArray DEF EndSave, KillShell
<1>7. CASE UNCHANGED historyVars
  BY <1>7 DEF historyVars, sessionVars, ArrayInv, ArrayTypes, NewProcess
<1> QED
  BY <1>1, <1>2, <1>3, <1>4, <1>5, <1>6, <1>7, ArrowKeepsArray, ClearKeepsArray
  DEF HistoryNext

-----------------------------------------------------------------------------
(* What the arrow keys show.                                                 *)

(* The edited line, unless it is blank, is the recalled slot's. *)
ShownInv == cmd # <<>> => cmd = history[currHistory + currHistoryOffset]

(* The slots below the index hold the lines stored, the latest on top. *)
EnteredInv ==
  \A k \in 1..Len(entered) :
    currHistory - k \in Index /\ history[currHistory - k] = entered[Len(entered) + 1 - k]

RecallInv == session = "on" => ShownInv /\ EnteredInv

LEMMA StoreKeepsEntered ==
  ASSUME ArrayTypes, EnteredInv, NEW line \in Text, StoreHistory(line)
  PROVE  EnteredInv'
<1>1. CASE line[1] = Space
  BY <1>1 DEF StoreHistory, EnteredInv
<1>2. CASE line[1] # Space /\ ~HasFreeSlot
  <2>1. entered' = <<>> /\ Len(<<>>) = 0
    BY <1>2 DEF StoreHistory
  <2> QED
    BY <2>1 DEF EnteredInv
<1>3. CASE line[1] # Space /\ HasFreeSlot
  <2> DEFINE n == Len(entered)
             c == currHistory
  <2>1. n \in Nat /\ c \in Nat /\ Size \in Nat /\ c < Size - 2 /\ DOMAIN history = Index
    BY <1>3, SizeIs DEF ArrayTypes, HasFreeSlot, Index
  <2>2. history' = [history EXCEPT ![c] = line] /\ currHistory' = c + 1
    <3>1. history' = Stored(line) /\ currHistory' = NextIndex
      BY <1>3 DEF StoreHistory
    <3>2. currHistory < Size - 1
      BY <2>1
    <3>3. Stored(line) = [history EXCEPT ![currHistory] = line]
      BY <3>2, Zenon DEF Stored
    <3>4. NextIndex = c + 1
      BY <1>3 DEF NextIndex
    <3> QED
      BY <3>1, <3>3, <3>4
  <2>3. entered' = Append(entered, line)
    BY <1>3 DEF StoreHistory
  <2>4. /\ Len(entered') = n + 1 /\ entered'[n + 1] = line
        /\ \A i \in 1..n : entered'[i] = entered[i]
    <3>1. entered \in Seq(Text)
      BY DEF ArrayTypes
    <3> QED
      BY <2>3, <3>1, AppendProperties
  <2>5. ASSUME NEW k \in 1..(n + 1)
        PROVE  currHistory' - k \in Index /\ history'[currHistory' - k] = entered'[n + 2 - k]
    <3>1. CASE k = 1
      <4>1. c \in Index /\ currHistory' - k = c /\ n + 2 - k = n + 1
        BY <2>1, <2>2, <3>1 DEF Index
      <4> QED
        BY <2>1, <2>2, <2>4, <4>1
    <3>2. CASE k # 1
      <4> DEFINE j == k - 1
      <4>1. j \in 1..n /\ currHistory' - k = c - j /\ n + 2 - k = n + 1 - j
            /\ n + 1 - j \in 1..n
        BY <2>1, <2>2, <3>2
      <4>2. c - j \in Index /\ history[c - j] = entered[n + 1 - j]
        BY <4>1 DEF EnteredInv
      <4>3. c - j # c
        BY <2>1, <4>1
      <4> HIDE DEF j
      <4> QED
        BY <2>1, <2>2, <2>4, <4>1, <4>2, <4>3
    <3> QED
      BY <3>1, <3>2
  <2>6. Len(entered') + 1 = n + 2
    BY <2>1, <2>4
  <2> QED
    BY <2>4, <2>5, <2>6 DEF EnteredInv
<1> QED
  BY <1>1, <1>2, <1>3

LEMMA RecallInductive ==
  ASSUME ArrayInv, RecallInv, [HistoryNext]_historyVars PROVE RecallInv'
<1>0. ArrayTypes /\ Len(<<>>) = 0
  BY DEF ArrayInv
<1>1. ASSUME NEW d \in Dir, StartSession(d) PROVE RecallInv'
  BY <1>0, <1>1 DEF StartSession, ArrayInv, NewProcess, RecallInv, ShownInv, EnteredInv
<1>2. ASSUME NEW line \in Line \cup {cmd}, EnterLine(line) PROVE RecallInv'
  <2>1. line \in Text
    BY <1>0, LinesAreTexts
  <2>2. StoreHistory(line) /\ cmd' = <<>> /\ EnteredInv
    BY <1>2 DEF EnterLine, RecallInv
  <2>3. EnteredInv'
    BY <1>0, <2>1, <2>2, StoreKeepsEntered
  <2> QED
    BY <2>2, <2>3 DEF RecallInv, ShownInv
<1>3. ASSUME NEW line \in Line \cup {cmd}, BeginSave(line) PROVE RecallInv'
  BY <1>3 DEF BeginSave, RecallInv
<1>4. CASE EnterNothing
  BY <1>4 DEF EnterNothing, RecallInv, ShownInv, EnteredInv
<1>5. CASE ArrowKey
  <2>1. /\ UNCHANGED <<history, currHistory, entered>> /\ ShownInv /\ EnteredInv
    BY <1>5 DEF ArrowKey, RecallInv
  <2>2. EnteredInv'
    BY <2>1 DEF EnteredInv
  <2>3. ShownInv'
    <3>1. CASE ClearLineOnly
      BY <3>1 DEF ClearLineOnly, ShownInv
    <3>2. ASSUME NEW by \in Int, Recall(by) PROVE ShownInv'
      <4>1. currHistory + (currHistoryOffset + by) = currHistory + currHistoryOffset + by
        BY <1>0, SizeIs DEF ArrayTypes, Index
      <4> QED
        BY <2>1, <3>2, <4>1 DEF Recall, ShownInv
    <3> QED
      BY <1>5, <3>1, <3>2 DEF ArrowKey
  <2> QED
    BY <2>2, <2>3 DEF RecallInv
<1>6. CASE ClearHistory
  BY <1>0, <1>6 DEF ClearHistory, RecallInv, ShownInv, EnteredInv
<1>7. CASE SaveLine \/ SaveNewline \/ EndSave \/ KillShell
  BY <1>7 DEF SaveLine, SaveNewline, EndSave, KillShell, SessionOver, RecallInv
<1>8. CASE UNCHANGED historyVars
  BY <1>8 DEF historyVars, sessionVars, RecallInv, ShownInv, EnteredInv
<1> QED
  BY <1>1, <1>2, <1>3, <1>4, <1>5, <1>6, <1>7, <1>8 DEF HistoryNext

-----------------------------------------------------------------------------
(* The files.                                                                *)

(* Each directory's file begins with the lines last written to it. *)
DiskInv ==
  /\ disk \in [Dir -> Seq(Nat)] /\ kept \in [Dir -> Seq(FileLine)]
  /\ \A d \in Dir : Len(kept[d]) <= Size /\ Begins(disk[d], kept[d], Len(kept[d]))

(* Where the shell is, and where in the file. *)
PlaceInv ==
  /\ dir \in Dir /\ session \in {"off", "on", "overrun", "line", "newline"}
  /\ pos \in Nat /\ saves \in 0..MaxSaves /\ unsaved \in Seq(FileLine)
  /\ session \notin {"line", "newline"} => pos = 0

(* The lines written and the lines still to write are the array's. *)
Remains == NotBlank(history) = kept[dir] \o unsaved

LineComplete(s) == Written(s, kept[dir], Len(kept[dir])) /\ Remains

LineBegun(s) ==
  unsaved # <<>> /\ \E r \in Seq(Nat) : LineComplete(r) /\ s = r \o Head(unsaved)

(* The characters up to the file's position, and those behind it. *)
SaveAt(s, behind) ==
  /\ disk[dir] = s \o behind /\ pos = Len(s)
  /\ \/ session = "line" /\ pos = 0 /\ unsaved = NotBlank(history)
     \/ session = "line" /\ pos # 0 /\ LineComplete(s)
     \/ session = "newline" /\ pos # 0 /\ LineBegun(s)

SaveInv == session \in {"line", "newline"} =>
             \E s \in Seq(Nat), behind \in Seq(Nat) : SaveAt(s, behind)

FilesInv == DiskInv /\ PlaceInv /\ SaveInv

LEMMA FileLines == FileLine \subseteq Seq(Nat) /\ FileLine \subseteq Text
BY DEF FileLine, Printable, Text

LEMMA NothingWritten == Written(<<>>, <<>>, 0) /\ Begins(<<>>, <<>>, 0)
<1>1. <<>> \in Seq(Nat) /\ Len(<<>>) = 0
  OBVIOUS
<1>2. Begins(<<>>, <<>>, 0)
  BY DEF Begins
<1>3. NewlinesTo(<<>>, 0) = 0
  <2>1. {k \in 1..0 : <<>>[k] = Newline} = {}
    OBVIOUS
  <2> QED
    BY <2>1, FS_EmptySet DEF NewlinesTo
<1> QED
  BY <1>1, <1>2, <1>3 DEF Written

(* One directory's file and its lines change. *)
LEMMA FileReplaced ==
  ASSUME DiskInv, dir \in Dir, NEW f \in Seq(Nat), NEW lines \in Seq(FileLine),
         Len(lines) <= Size, Begins(f, lines, Len(lines)),
         disk' = [disk EXCEPT ![dir] = f], kept' = [kept EXCEPT ![dir] = lines]
  PROVE  DiskInv'
<1>1. disk' \in [Dir -> Seq(Nat)] /\ kept' \in [Dir -> Seq(FileLine)]
  BY DEF DiskInv
<1>2. ASSUME NEW d \in Dir
      PROVE  Len(kept'[d]) <= Size /\ Begins(disk'[d], kept'[d], Len(kept'[d]))
  <2>1. CASE d = dir
    <3>1. disk'[d] = f /\ kept'[d] = lines
      BY <2>1 DEF DiskInv
    <3> QED
      BY <3>1
  <2>2. CASE d # dir
    <3>1. disk'[d] = disk[d] /\ kept'[d] = kept[d]
      BY <2>2 DEF DiskInv
    <3> QED
      BY <3>1 DEF DiskInv
  <2> QED
    BY <2>1, <2>2
<1> QED
  BY <1>1, <1>2 DEF DiskInv

(* Writing at the position replaces as many of the characters behind it. *)
LEMMA WriteAt ==
  ASSUME NEW s \in Seq(Nat), NEW behind \in Seq(Nat), NEW chars \in Seq(Nat)
  PROVE  \E after \in Seq(Nat) : WrittenAt(s \o behind, Len(s), chars) = (s \o chars) \o after
<1> DEFINE old == s \o behind
           after == SubSeq(old, Len(s) + Len(chars) + 1, Len(old))
<1>1. old \in Seq(Nat) /\ Len(s) \in Nat /\ Len(chars) \in Nat
      /\ Len(s) \in 0..Len(old) /\ \A i \in 1..Len(s) : old[i] = s[i]
  BY ConcatProperties
<1> HIDE DEF old
<1>2. after \in Seq(Nat)
  <2>1. Len(s) + Len(chars) \in Nat
    BY <1>1
  <2> QED
    BY <1>1, <2>1, OldEnd
<1>3. SubSeq(old, 1, Len(s)) = s
  <2>1. \A i \in 1..Len(s) : old[i] \in Nat
    BY <1>1
  <2>2. /\ SubSeq(old, 1, Len(s)) \in Seq(Nat) /\ Len(SubSeq(old, 1, Len(s))) = Len(s)
        /\ \A i \in 1..Len(s) : SubSeq(old, 1, Len(s))[i] = old[i]
    BY <1>1, <2>1
  <2> QED
    BY <1>1, <2>2, SeqEqual
<1>4. WrittenAt(old, Len(s), chars) = (s \o chars) \o after
  BY <1>3 DEF WrittenAt
<1> QED
  BY <1>2, <1>4 DEF old

(* A line moves from the ones still to write to the ones written. *)
LEMMA OneMore ==
  ASSUME NEW S, NEW s \in Seq(S), NEW u \in Seq(S), u # <<>>
  PROVE  Append(s, Head(u)) \o Tail(u) = s \o u
<1>1. Head(u) \in S /\ Tail(u) \in Seq(S) /\ <<Head(u)>> \in Seq(S)
  BY HeadTailProperties
<1>2. Append(s, Head(u)) = s \o <<Head(u)>>
  BY <1>1, AppendIsConcat
<1>3. <<Head(u)>> \o Tail(u) = u
  OBVIOUS
<1>4. (s \o <<Head(u)>>) \o Tail(u) = s \o (<<Head(u)>> \o Tail(u))
  BY <1>1, ConcatAssociative
<1> QED
  BY <1>2, <1>3, <1>4

LEMMA BeginKeepsFiles ==
  ASSUME FilesInv, ArrayTypes, NEW line \in Text, BeginSave(line) PROVE FilesInv'
<1>1. ArrayTypes'
  <2>1. StoreHistory(line) /\ cmd' = cmd
    BY DEF BeginSave
  <2> QED
    BY <2>1, StoreKeepsTypes DEF ArrayTypes
<1>2. NotBlank(history') \in Seq(FileLine)
  <2>1. \A i \in Index : history'[i] \in Seq(Printable)
    BY <1>1 DEF ArrayTypes, Printable, Text
  <2> QED
    BY <2>1, NotBlankIs
<1>3. UNCHANGED <<dir, disk, kept>> /\ session' = "line" /\ pos' = 0
      /\ unsaved' = NotBlank(history') /\ saves' = saves + 1 /\ saves < MaxSaves
  BY DEF BeginSave
<1>4. DiskInv'
  BY <1>3 DEF FilesInv, DiskInv
<1>5. PlaceInv'
  <2>1. saves' \in 0..MaxSaves
    BY <1>3, HistoryAssumption DEF FilesInv, PlaceInv
  <2> HIDE DEF FileLine
  <2> QED
    BY <1>2, <1>3, <2>1 DEF FilesInv, PlaceInv
<1>6. SaveInv'
  <2>1. disk[dir] \in Seq(Nat) /\ <<>> \in Seq(Nat) /\ Len(<<>>) = 0
    BY DEF FilesInv, DiskInv, PlaceInv
  <2>2. disk[dir] = <<>> \o disk[dir]
    BY <2>1, ConcatEmptySeq
  <2>3. SaveAt(<<>>, disk[dir])'
    BY <1>3, <2>1, <2>2 DEF SaveAt
  <2> QED
    BY <1>3, <2>1, <2>3 DEF SaveInv
<1> QED
  BY <1>4, <1>5, <1>6 DEF FilesInv

LEMMA SaveLineKeepsFiles == FilesInv /\ ArrayTypes /\ SaveLine => FilesInv'
<1> SUFFICES ASSUME FilesInv, ArrayTypes, SaveLine PROVE FilesInv'
  OBVIOUS
<1> DEFINE chars == Head(unsaved)
           lines == IF pos = 0 THEN <<>> ELSE kept[dir]
<1>1. /\ session = "line" /\ session' = "newline" /\ unsaved # <<>>
      /\ UNCHANGED <<sessionVars, dir, unsaved, saves>>
      /\ pos' = pos + Len(chars)
      /\ disk' = [disk EXCEPT ![dir] = WrittenAt(disk[dir], pos, chars)]
      /\ kept' = IF pos = 0 THEN [kept EXCEPT ![dir] = <<>>] ELSE kept
  BY DEF SaveLine, WriteChars
<1>2. DiskInv /\ PlaceInv /\ dir \in Dir /\ pos \in Nat /\ unsaved \in Seq(FileLine)
      /\ disk[dir] \in Seq(Nat) /\ kept[dir] \in Seq(FileLine) /\ Len(kept[dir]) <= Size
  BY DEF FilesInv, DiskInv, PlaceInv
<1>3. chars \in FileLine /\ chars \in Seq(Nat) /\ Len(chars) \in Nat \ {0}
  <2>1. chars \in FileLine
    <3> HIDE DEF FileLine
    <3> QED
      BY <1>1, <1>2, HeadTailProperties
  <2>2. chars \in Seq(Nat) /\ chars # <<>>
    BY <2>1, FileLines DEF FileLine
  <2> QED
    BY <2>1, <2>2, EmptySeq
<1>4. PICK s \in Seq(Nat), behind \in Seq(Nat) : SaveAt(s, behind)
  BY <1>1 DEF FilesInv, SaveInv
<1>5. /\ lines \in Seq(FileLine) /\ Len(lines) <= Size
      /\ Written(s, lines, Len(lines)) /\ NotBlank(history) = lines \o unsaved
  <2>1. CASE pos = 0
    <3>1. lines = <<>> /\ Len(<<>>) = 0 /\ <<>> \in Seq(FileLine) /\ 0 <= Size
      BY <2>1, SizeIs
    <3>2. s = <<>>
      <4>1. Len(s) = 0
        BY <2>1, <1>4 DEF SaveAt
      <4> QED
        BY <4>1, EmptySeq
    <3>3. <<>> \o unsaved = unsaved
      <4> HIDE DEF FileLine
      <4> QED
        BY <1>2, ConcatEmptySeq
    <3>4. NotBlank(history) = unsaved
      BY <1>4, <1>1, <2>1 DEF SaveAt
    <3> QED
      BY <3>1, <3>2, <3>3, <3>4, NothingWritten
  <2>2. CASE pos # 0
    <3>1. LineComplete(s) /\ lines = kept[dir]
      BY <1>1, <1>4, <2>2 DEF SaveAt
    <3> QED
      BY <1>2, <3>1 DEF LineComplete, Remains
  <2> QED
    BY <2>1, <2>2
<1>6. kept' = [kept EXCEPT ![dir] = lines]
  <2>1. CASE pos = 0
    BY <1>1, <2>1
  <2>2. CASE pos # 0
    <3>1. kept = [kept EXCEPT ![dir] = kept[dir]]
      BY <1>2 DEF DiskInv
    <3> QED
      BY <1>1, <2>2, <3>1
  <2> QED
    BY <2>1, <2>2
<1>7. kept'[dir] = lines
  BY <1>2, <1>6 DEF DiskInv
<1> HIDE DEF lines, chars
<1>8. PICK after \in Seq(Nat) : WrittenAt(s \o behind, Len(s), chars) = (s \o chars) \o after
  BY <1>3, WriteAt
<1>9. disk' = [disk EXCEPT ![dir] = (s \o chars) \o after]
  BY <1>1, <1>4, <1>8 DEF SaveAt
<1>10. disk'[dir] = (s \o chars) \o after
  BY <1>2, <1>9 DEF DiskInv
<1>11. /\ s \o chars \in Seq(Nat) /\ (s \o chars) \o after \in Seq(Nat)
       /\ Len(s \o chars) = Len(s) + Len(chars)
  BY <1>3, ConcatProperties
<1>12. Begins((s \o chars) \o after, lines, Len(lines))
  <2>1. Begins(s, lines, Len(lines))
    BY <1>5 DEF Written
  <2>2. Begins(s \o chars, lines, Len(lines))
    BY <1>3, <1>5, <2>1, BeginsStays
  <2> QED
    BY <1>5, <1>11, <2>2, BeginsStays
<1>13. DiskInv'
  BY <1>2, <1>5, <1>6, <1>9, <1>11, <1>12, FileReplaced
<1>14. PlaceInv'
  <2>1. pos' \in Nat
    BY <1>1, <1>2, <1>3 DEF chars
  <2> HIDE DEF FileLine
  <2> QED
    BY <1>1, <1>2, <2>1 DEF PlaceInv
<1>15. PICK t \in Seq(Nat) : t = s \o chars
  BY <1>11
<1>16. SaveAt(t, after)'
  <2>1. history' = history
    BY <1>1 DEF sessionVars
  <2>2. LineComplete(s)'
    BY <1>1, <1>5, <1>7, <2>1 DEF LineComplete, Remains
  <2>3. t = s \o Head(unsaved')
    BY <1>1, <1>15 DEF chars
  <2>4. LineBegun(t)'
    BY <1>1, <2>2, <2>3 DEF LineBegun
  <2>5. pos' = Len(t) /\ pos' # 0
    BY <1>1, <1>2, <1>3, <1>4, <1>11, <1>15 DEF SaveAt, chars
  <2>6. disk'[dir'] = t \o after
    BY <1>1, <1>10, <1>15
  <2> QED
    BY <1>1, <2>4, <2>5, <2>6 DEF SaveAt
<1>17. SaveInv'
  BY <1>16 DEF SaveInv
<1> QED
  BY <1>13, <1>14, <1>17 DEF FilesInv

LEMMA JoinedThree ==
  \A a, b, c \in Seq(Nat) : (a \o b) \o c = a \o (b \o c)
<1> SUFFICES ASSUME NEW a \in Seq(Nat), NEW b \in Seq(Nat), NEW c \in Seq(Nat)
             PROVE  (a \o b) \o c = a \o (b \o c)
  OBVIOUS
<1> QED
  BY ConcatAssociative

LEMMA SaveNewlineKeepsFiles == FilesInv /\ ArrayTypes /\ SaveNewline => FilesInv'
<1> SUFFICES ASSUME FilesInv, ArrayTypes, SaveNewline PROVE FilesInv'
  OBVIOUS
<1> DEFINE lines == Append(kept[dir], Head(unsaved))
           line == Head(unsaved)
           nl == <<Newline>>
<1>1. /\ session = "newline" /\ session' = "line"
      /\ UNCHANGED <<sessionVars, dir, saves>>
      /\ pos' = pos + Len(<<Newline>>)
      /\ disk' = [disk EXCEPT ![dir] = WrittenAt(disk[dir], pos, <<Newline>>)]
      /\ kept' = [kept EXCEPT ![dir] = lines]
      /\ unsaved' = Tail(unsaved)
  BY DEF SaveNewline, WriteChars
<1>2. DiskInv /\ PlaceInv /\ dir \in Dir /\ pos \in Nat /\ unsaved \in Seq(FileLine)
      /\ disk[dir] \in Seq(Nat) /\ kept[dir] \in Seq(FileLine) /\ Len(kept[dir]) <= Size
  BY DEF FilesInv, DiskInv, PlaceInv
<1>3. PICK s \in Seq(Nat), behind \in Seq(Nat) : SaveAt(s, behind)
  BY <1>1 DEF FilesInv, SaveInv
<1>4. LineBegun(s) /\ pos = Len(s) /\ disk[dir] = s \o behind /\ pos # 0
  BY <1>1, <1>3 DEF SaveAt
<1>5. PICK r \in Seq(Nat) : LineComplete(r) /\ s = r \o Head(unsaved)
  BY <1>4 DEF LineBegun
<1>6. /\ unsaved # <<>> /\ Head(unsaved) \in FileLine /\ Head(unsaved) \in Seq(Nat)
      /\ Tail(unsaved) \in Seq(FileLine)
  <2>1. unsaved # <<>>
    BY <1>4 DEF LineBegun
  <2>2. Head(unsaved) \in FileLine /\ Tail(unsaved) \in Seq(FileLine)
    <3> HIDE DEF FileLine
    <3> QED
      BY <1>2, <2>1, HeadTailProperties
  <2> QED
    BY <2>1, <2>2, FileLines
<1>7. /\ lines \in Seq(FileLine) /\ Len(lines) = Len(kept[dir]) + 1
      /\ \A i \in 1..Len(kept[dir]) : lines[i] = kept[dir][i]
      /\ lines[Len(kept[dir]) + 1] = Head(unsaved)
  <2> HIDE DEF FileLine
  <2> QED
    BY <1>2, <1>6, AppendProperties
<1>8. NotBlank(history) = lines \o Tail(unsaved)
  <2>1. NotBlank(history) = kept[dir] \o unsaved
    BY <1>5 DEF LineComplete, Remains
  <2> HIDE DEF FileLine
  <2> QED
    BY <1>2, <1>6, <2>1, OneMore
<1>9. Len(lines) <= Size
  <2>1. Len(NotBlank(history)) <= Size
    <3>1. \A i \in Index : history[i] \in Seq(Printable)
      BY DEF ArrayTypes, Printable, Text
    <3> QED
      BY <3>1, NotBlankIs
  <2>2. Len(lines \o Tail(unsaved)) = Len(lines) + Len(Tail(unsaved))
        /\ Len(lines) \in Nat /\ Len(Tail(unsaved)) \in Nat
    <3> HIDE DEF FileLine, lines
    <3> QED
      BY <1>6, <1>7, ConcatProperties, LenProperties
  <2> HIDE DEF lines
  <2> QED
    BY <1>8, <2>1, <2>2, SizeIs
<1>10. kept'[dir] = lines
  BY <1>1, <1>2 DEF DiskInv
<1> HIDE DEF lines
<1>11. nl \in Seq(Nat) /\ Len(nl) = 1 /\ pos' = pos + Len(nl)
  BY <1>1 DEF Newline
<1> HIDE DEF nl
<1>12. PICK after \in Seq(Nat) :
         WrittenAt(s \o behind, Len(s), nl) = (s \o nl) \o after
  BY <1>11, WriteAt
<1>0. nl \in Seq(Nat) /\ line \in Seq(Nat)
  BY <1>6, <1>11
<1> HIDE DEF line
<1>13. PICK t \in Seq(Nat) : t = s \o nl
  <2>1. s \o nl \in Seq(Nat)
    BY <1>0, ConcatProperties
  <2> QED
    BY <2>1
<1>14. t \o after \in Seq(Nat) /\ Len(t) = Len(s) + 1 /\ Len(s) \in Nat
  <2>1. Len(s \o nl) = Len(s) + Len(nl) /\ Len(s) \in Nat
    BY <1>0, ConcatProperties, LenProperties
  <2>2. t \o after \in Seq(Nat)
    BY ConcatProperties
  <2> QED
    BY <1>11, <1>13, <2>1, <2>2
<1>15. disk' = [disk EXCEPT ![dir] = t \o after]
  BY <1>1, <1>4, <1>12, <1>13 DEF nl
<1>16. t = r \o Append(Head(unsaved), Newline)
  <2>1. Append(line, Newline) = line \o nl
    BY <1>0, AppendIsConcat DEF Newline, nl
  <2>2. (r \o line) \o nl = r \o (line \o nl)
    BY <1>0, JoinedThree
  <2> QED
    BY <1>5, <1>13, <2>1, <2>2 DEF line
<1>17. Written(t, lines, Len(lines))
  <2> DEFINE n == Len(kept[dir])
  <2>1. n \in Nat /\ Len(lines) \in 1..Len(lines) /\ Len(lines) - 1 = n
    BY <1>2, <1>7
  <2>2. Written(r, kept[dir], n)
    BY <1>5 DEF LineComplete
  <2>3. Written(r, lines, n)
    BY <1>7, <2>2 DEF Written, Begins
  <2>4. lines[Len(lines)] = Head(unsaved)
    BY <1>7
  <2> HIDE DEF n
  <2>5. Written(r \o Append(lines[Len(lines)], Newline), lines, Len(lines))
    BY <1>7, <2>1, <2>3, WrittenStep
  <2> QED
    BY <1>16, <2>4, <2>5
<1>18. Begins(t \o after, lines, Len(lines))
  <2>1. Begins(t, lines, Len(lines))
    BY <1>17 DEF Written
  <2> QED
    BY <1>7, <2>1, BeginsStays
<1>19. DiskInv'
  <2>1. kept' = [kept EXCEPT ![dir] = lines]
    BY <1>1 DEF lines
  <2> QED
    BY <1>2, <1>7, <1>9, <1>14, <1>15, <1>18, <2>1, FileReplaced
<1>20. PlaceInv'
  <2>1. pos' \in Nat
    BY <1>1, <1>2, <1>11
  <2> HIDE DEF FileLine
  <2> QED
    BY <1>1, <1>2, <1>6, <2>1 DEF PlaceInv
<1>21. SaveAt(t, after)'
  <2>1. history' = history
    BY <1>1 DEF sessionVars
  <2>2. LineComplete(t)'
    BY <1>1, <1>8, <1>10, <1>17, <2>1 DEF LineComplete, Remains
  <2>3. pos' = Len(t) /\ pos' # 0
    BY <1>1, <1>4, <1>11, <1>14
  <2>4. disk'[dir'] = t \o after
    BY <1>1, <1>2, <1>15 DEF DiskInv
  <2> QED
    BY <1>1, <2>2, <2>3, <2>4 DEF SaveAt
<1>22. SaveInv'
  BY <1>21 DEF SaveInv
<1> QED
  BY <1>19, <1>20, <1>22 DEF FilesInv

LEMMA ClearKeepsFiles == FilesInv /\ ClearHistory => FilesInv'
<1> SUFFICES ASSUME FilesInv, ClearHistory PROVE FilesInv'
  OBVIOUS
<1>1. DiskInv /\ PlaceInv /\ dir \in Dir /\ <<>> \in Seq(Nat) /\ <<>> \in Seq(FileLine)
      /\ Len(<<>>) = 0 /\ 0 <= Size
  BY SizeIs DEF FilesInv, PlaceInv
<1>2. disk' = [disk EXCEPT ![dir] = <<>>] /\ kept' = [kept EXCEPT ![dir] = <<>>]
      /\ session = "on" /\ UNCHANGED <<dir, session, unsaved, pos, saves>>
  BY DEF ClearHistory
<1>3. DiskInv'
  BY <1>1, <1>2, NothingWritten, FileReplaced
<1> QED
  BY <1>1, <1>2, <1>3 DEF FilesInv, PlaceInv, SaveInv

LEMMA OverKeepsFiles ==
  ASSUME FilesInv, SessionOver, UNCHANGED <<disk, saves, kept>> PROVE FilesInv'
<1>1. DiskInv'
  BY DEF FilesInv, DiskInv
<1>2. <<>> \in Seq(FileLine)
  OBVIOUS
<1>3. PlaceInv'
  <2> HIDE DEF FileLine
  <2> QED
    BY <1>2 DEF FilesInv, PlaceInv, SessionOver
<1> QED
  BY <1>1, <1>3 DEF FilesInv, SaveInv, SessionOver

(* Every step keeps what the files begin with. *)
LEMMA FilesInductive ==
  ASSUME FilesInv, ArrayTypes, [HistoryNext]_historyVars PROVE FilesInv'
<1>1. ASSUME NEW d \in Dir, StartSession(d) PROVE FilesInv'
  <2>1. session = "off" /\ session' \in {"on", "overrun"} /\ dir' = d /\ UNCHANGED saveVars
    BY <1>1 DEF StartSession
  <2>2. DiskInv'
    BY <2>1 DEF FilesInv, DiskInv, saveVars
  <2>3. PlaceInv'
    BY <2>1 DEF FilesInv, PlaceInv, saveVars
  <2> QED
    BY <2>1, <2>2, <2>3 DEF FilesInv, SaveInv
<1>2. ASSUME NEW line \in Line \cup {cmd}, BeginSave(line) PROVE FilesInv'
  <2>1. line \in Text
    BY LinesAreTexts
  <2> QED
    BY <1>2, <2>1, BeginKeepsFiles
<1>3. ASSUME session = "on", session' = session, dir' \in Dir, UNCHANGED saveVars
      PROVE  FilesInv'
  <2>1. DiskInv'
    BY <1>3 DEF FilesInv, DiskInv, saveVars
  <2>2. PlaceInv'
    BY <1>3 DEF FilesInv, PlaceInv, saveVars
  <2> QED
    BY <1>3, <2>1, <2>2 DEF FilesInv, SaveInv
<1>4. ASSUME NEW line \in Line \cup {cmd}, EnterLine(line) PROVE FilesInv'
  BY <1>3, <1>4 DEF EnterLine
<1>5. dir \in Dir
  BY DEF FilesInv, PlaceInv
<1>6. CASE EnterNothing \/ ArrowKey
  BY <1>3, <1>5, <1>6 DEF EnterNothing, ArrowKey
<1>7. CASE EndSave \/ KillShell
  BY <1>7, OverKeepsFiles DEF EndSave, KillShell
<1>8. CASE UNCHANGED historyVars
  <2>1. UNCHANGED <<history, dir, session, disk, unsaved, pos, saves, kept>>
    BY <1>8 DEF historyVars, sessionVars, saveVars
  <2>2. DiskInv' /\ PlaceInv'
    BY <2>1 DEF FilesInv, DiskInv, PlaceInv
  <2>3. SaveInv'
    BY <2>1 DEF FilesInv, SaveInv, SaveAt, LineBegun, LineComplete, Remains
  <2> QED
    BY <2>2, <2>3 DEF FilesInv
<1> QED
  BY <1>1, <1>2, <1>4, <1>6, <1>7, <1>8, SaveLineKeepsFiles, SaveNewlineKeepsFiles,
     ClearKeepsFiles
  DEF HistoryNext

-----------------------------------------------------------------------------
(* The history's theorems.                                                   *)

HistoryInv == ArrayInv /\ RecallInv /\ FilesInv

LEMMA InitHistory == HistoryInit => HistoryInv
<1> SUFFICES ASSUME HistoryInit PROVE HistoryInv
  OBVIOUS
<1>1. ArrayInv /\ RecallInv
  BY EmptyTexts DEF HistoryInit, ArrayInv, ArrayTypes, NewProcess, RecallInv
<1>2. <<>> \in Seq(Nat) /\ <<>> \in Seq(FileLine) /\ Len(<<>>) = 0 /\ 0 <= Size
      /\ 0 \in 0..MaxSaves
  BY SizeIs, HistoryAssumption
<1>3. disk = [d \in Dir |-> <<>>] /\ kept = [d \in Dir |-> <<>>] /\ dir \in Dir
      /\ session = "off" /\ unsaved = <<>> /\ pos = 0 /\ saves = 0
  BY DEF HistoryInit
<1>4. DiskInv
  <2> HIDE DEF FileLine
  <2> QED
    BY <1>2, <1>3, NothingWritten DEF DiskInv
<1>5. PlaceInv /\ SaveInv
  <2> HIDE DEF FileLine
  <2> QED
    BY <1>2, <1>3 DEF PlaceInv, SaveInv
<1> QED
  BY <1>1, <1>4, <1>5 DEF HistoryInv, FilesInv

LEMMA HistoryInductive == HistoryInv /\ [HistoryNext]_historyVars => HistoryInv'
<1> SUFFICES ASSUME HistoryInv, [HistoryNext]_historyVars PROVE HistoryInv'
  OBVIOUS
<1>1. ArrayInv /\ ArrayTypes /\ RecallInv /\ FilesInv /\ disk \in [Dir -> Seq(Nat)]
  BY DEF HistoryInv, ArrayInv, FilesInv, DiskInv
<1>2. ArrayInv'
  BY <1>1, ArrayInductive
<1>3. RecallInv'
  BY <1>1, RecallInductive
<1>4. FilesInv'
  BY <1>1, FilesInductive
<1> QED
  BY <1>2, <1>3, <1>4 DEF HistoryInv

LEMMA HistoryAlways == HistorySpec => []HistoryInv
BY InitHistory, HistoryInductive, PTL DEF HistorySpec

(* The history keeps its types over every file that saves, broken off or     *)
(* not, clears and kills can leave: every line that the arrow keys read, and *)
(* the slot a command is stored at, lie in the array.  Loading a file with   *)
(* too many lines is the one access outside of it; the session is over with  *)
(* that (overrun).                                                           *)
THEOREM HistoryTypeCorrect == HistorySpec => []HistoryTypeOK
<1>1. HistoryInv => HistoryTypeOK
  <2> SUFFICES ASSUME HistoryInv PROVE HistoryTypeOK
    OBVIOUS
  <2>1. ArrayTypes /\ DiskInv /\ PlaceInv
    BY DEF HistoryInv, ArrayInv, FilesInv
  <2>2. Seq(FileLine) \subseteq Seq(Text)
    <3>1. \A x \in FileLine : x \in Text
      BY FileLines
    <3> HIDE DEF FileLine, Text
    <3> QED
      BY <3>1
  <2>3. kept \in [Dir -> Seq(Text)] /\ unsaved \in Seq(Text)
    <3> HIDE DEF FileLine, Text
    <3> QED
      BY <2>1, <2>2 DEF DiskInv, PlaceInv
  <2> QED
    BY <2>1, <2>3 DEF HistoryTypeOK, ArrayTypes, DiskInv, PlaceInv
<1> QED
  BY <1>1, HistoryAlways, PTL

(* RecallsInOrder: k lines up from where storeHistory left the index is the  *)
(* line stored k-th before, over every file that was loaded, every clear     *)
(* and every line that was not stored.                                       *)
THEOREM RecalledInOrder == HistorySpec => []RecallsInOrder
<1>1. HistoryInv => RecallsInOrder
  <2> SUFFICES ASSUME HistoryInv, session = "on", cmd # <<>>,
                      -currHistoryOffset \in 1..Len(entered)
               PROVE  cmd = entered[Len(entered) + 1 + currHistoryOffset]
    BY DEF RecallsInOrder
  <2> DEFINE k == -currHistoryOffset
             n == Len(entered)
  <2>1. ArrayTypes /\ ShownInv /\ EnteredInv
    BY DEF HistoryInv, ArrayInv, RecallInv
  <2>2. currHistory - k = currHistory + currHistoryOffset
        /\ n + 1 - k = n + 1 + currHistoryOffset
    <3>1. n \in Nat /\ currHistory \in Int /\ currHistoryOffset \in Int
      BY <2>1, SizeIs DEF ArrayTypes, Index
    <3> HIDE DEF n
    <3> QED
      BY <3>1
  <2>3. history[currHistory - k] = entered[n + 1 - k]
    BY <2>1 DEF EnteredInv
  <2> HIDE DEF k, n
  <2> QED
    BY <2>1, <2>2, <2>3 DEF ShownInv, n
<1> QED
  BY <1>1, HistoryAlways, PTL

(* HistorySurvives: a new shell's history starts with the lines last written *)
(* in its directory, wherever that save was broken off and whatever older    *)
(* end the file still has; and a save that ends has written all the array's. *)
THEOREM HistoryAlwaysSurvives == HistorySpec => HistorySurvives
<1> DEFINE Loads == session = "off" /\ session' = "on"
                      => \A i \in DOMAIN kept[dir'] : history'[i - 1] = kept[dir'][i]
           SavesAll == EndSave /\ pos > 0 => kept[dir] = NotBlank(history)
<1>1. HistoryInv /\ [HistoryNext]_historyVars => Loads
  <2> SUFFICES ASSUME HistoryInv, [HistoryNext]_historyVars, session = "off", session' = "on",
                      NEW i \in DOMAIN kept[dir']
               PROVE  history'[i - 1] = kept[dir'][i]
    OBVIOUS
  <2>1. PICK d \in Dir : StartSession(d)
    BY DEF HistoryNext, historyVars, ArrowKey, ClearHistory, EnterNothing, BeginSave, SaveLine,
           SaveNewline, EndSave, KillShell, EnterLine
  <2>2. dir' = d
    BY <2>1 DEF StartSession
  <2>3. disk[d] \in Seq(Nat) /\ kept[d] \in Seq(FileLine) /\ Len(kept[d]) <= Size
        /\ Begins(disk[d], kept[d], Len(kept[d]))
    BY DEF HistoryInv, FilesInv, DiskInv
  <2>4. i \in 1..Len(kept[d]) /\ i \in Nat /\ kept[d][i] \in FileLine
    BY <2>2, <2>3
  <2>5. i - 1 \in Index /\ (i - 1) + 1 = i
    <3>1. Len(kept[d]) \in Nat
      BY <2>3
    <3> QED
      BY <2>3, <2>4, <3>1, SizeIs DEF Index
  <2>6. PICK p \in Nat : HasLine(disk[d], i, kept[d][i], p)
    BY <2>3, <2>4 DEF Begins
  <2>7. LineOf(disk[d], i) = kept[d][i]
    BY <2>3, <2>4, <2>6, LineRead DEF FileLine
  <2> QED
    BY <2>1, <2>2, <2>5, <2>7 DEF StartSession
<1>2. HistoryInv => SavesAll
  <2> SUFFICES ASSUME HistoryInv, EndSave, pos > 0 PROVE kept[dir] = NotBlank(history)
    OBVIOUS
  <2>1. session = "line" /\ unsaved = <<>>
    BY DEF EndSave
  <2>2. PICK s \in Seq(Nat), behind \in Seq(Nat) : SaveAt(s, behind)
    BY <2>1 DEF HistoryInv, FilesInv, SaveInv
  <2>3. NotBlank(history) = kept[dir] \o <<>>
    BY <2>1, <2>2 DEF SaveAt, LineComplete, Remains, HistoryInv, FilesInv, PlaceInv
  <2>4. kept[dir] \in Seq(FileLine)
    BY DEF HistoryInv, FilesInv, DiskInv, PlaceInv
  <2> HIDE DEF FileLine
  <2> QED
    BY <2>3, <2>4, ConcatEmptySeq
<1> QED
  BY <1>1, <1>2, HistoryAlways, PTL DEF HistorySpec, HistorySurvives

-----------------------------------------------------------------------------
(* The jobs.                                                                 *)

Process ==
  [st : {"running", "stopped", "exited", "killed", "reaped"}, grp : Nat,
   bg : BOOLEAN, big : BOOLEAN, src : Nat]

(* A job's number is left open: it takes no part in what is proved. *)
Job(numbers) == [jid : numbers, bg : BOOLEAN, pgid : Nat]

ProcInv == proc \in Seq(Process)
JobInv == \E numbers : job \in Seq(Job(numbers))

StagesInv ==
  /\ rest \in Seq(Stage) /\ fileIn \in Nat /\ jobList \subseteq DOMAIN job
  /\ shell \in {"run", "wait", "waitpid"} => rest # <<>> /\ job # <<>>
  /\ shell = "wait" => ~job[Current].bg

(* A job's group is led by a program of the job's kind. *)
LeadersInv ==
  \A j \in DOMAIN job : job[j].pgid # 0 =>
    /\ job[j].pgid \in DOMAIN proc
    /\ proc[job[j].pgid].bg = job[j].bg
    /\ proc[job[j].pgid].grp = job[j].pgid

(* While a background job is being started its leader can be joined. *)
LeaderInv ==
  shell \in {"run", "waitpid"} /\ job[Current].bg /\ job[Current].pgid # 0 =>
    ~Reaped(job[Current].pgid)

(* Background programs are not in the shell's group and not signalled. *)
BackgroundInv ==
  \A p \in DOMAIN proc : proc[p].bg =>
    proc[p].grp # 0 /\ proc[p].st \notin {"killed", "stopped"}

JobsInv == ProcInv /\ JobInv /\ StagesInv /\ LeadersInv /\ LeaderInv /\ BackgroundInv

-----------------------------------------------------------------------------
(* NextStage leaves a stage to do, or returns to the prompt. *)
LEMMA NextStageRest ==
  ASSUME rest \in Seq(Stage), rest # <<>>, NextStage
  PROVE  /\ rest' \in Seq(Stage) /\ shell' \in {"run", "prompt"}
         /\ shell' = "run" => rest' # <<>>
<1>1. /\ Tail(rest) \in Seq(Stage) /\ Len(rest) \in Nat
      /\ Len(Tail(rest)) = Len(rest) - 1
  OBVIOUS
<1>2. Len(rest) # 1 => Tail(rest) # <<>>
  BY <1>1
<1> QED
  BY <1>1, <1>2 DEF NextStage

(* A new state of one process. *)
LEMMA OneProcess ==
  ASSUME ProcInv, NEW p \in DOMAIN proc,
         NEW st \in {"running", "stopped", "exited", "killed", "reaped"},
         proc' = [proc EXCEPT ![p].st = st]
  PROVE  /\ ProcInv' /\ DOMAIN proc' = DOMAIN proc
         /\ \A q \in DOMAIN proc : /\ proc'[q].bg = proc[q].bg
                                   /\ proc'[q].grp = proc[q].grp
                                   /\ proc'[q].src = proc[q].src
                                   /\ proc'[q].st = IF q = p THEN st ELSE proc[q].st
<1>1. \A q \in DOMAIN proc : proc[q] \in Process
  BY DEF ProcInv
<1>2. proc' = [q \in DOMAIN proc |-> IF q = p THEN [proc[q] EXCEPT !.st = st] ELSE proc[q]]
  BY DEF ProcInv
<1>3. \A q \in DOMAIN proc : [proc[q] EXCEPT !.st = st] \in Process
  BY <1>1 DEF Process
<1>4. proc' \in Seq(Process)
  BY <1>1, <1>2, <1>3 DEF ProcInv
<1>5. \A q \in DOMAIN proc : /\ proc'[q].bg = proc[q].bg
                             /\ proc'[q].grp = proc[q].grp
                             /\ proc'[q].src = proc[q].src
                             /\ proc'[q].st = IF q = p THEN st ELSE proc[q].st
  BY <1>1, <1>2 DEF Process
<1> QED
  BY <1>2, <1>4, <1>5 DEF ProcInv

(* The same of many. *)
LEMMA SomeProcesses ==
  ASSUME ProcInv, NEW H,
         NEW st \in {"running", "stopped", "exited", "killed", "reaped"},
         proc' = [p \in DOMAIN proc |-> IF p \in H THEN [proc[p] EXCEPT !.st = st] ELSE proc[p]]
  PROVE  /\ ProcInv' /\ DOMAIN proc' = DOMAIN proc
         /\ \A q \in DOMAIN proc : /\ proc'[q].bg = proc[q].bg
                                   /\ proc'[q].grp = proc[q].grp
                                   /\ proc'[q].src = proc[q].src
                                   /\ q \notin H => proc'[q].st = proc[q].st
<1>1. \A q \in DOMAIN proc : proc[q] \in Process
  BY DEF ProcInv
<1>2. \A q \in DOMAIN proc : [proc[q] EXCEPT !.st = st] \in Process
  BY <1>1 DEF Process
<1>3. proc' \in Seq(Process)
  BY <1>1, <1>2 DEF ProcInv
<1>4. \A q \in DOMAIN proc : /\ proc'[q].bg = proc[q].bg
                             /\ proc'[q].grp = proc[q].grp
                             /\ proc'[q].src = proc[q].src
                             /\ q \notin H => proc'[q].st = proc[q].st
  BY <1>1 DEF Process
<1> QED
  BY <1>3, <1>4 DEF ProcInv

(* What holds of every job stays so while the jobs do. *)
LEMMA JobsStay ==
  ASSUME LeadersInv, UNCHANGED job, DOMAIN proc' = DOMAIN proc,
         \A q \in DOMAIN proc : proc'[q].bg = proc[q].bg /\ proc'[q].grp = proc[q].grp
  PROVE  LeadersInv'
  BY DEF LeadersInv

LEMMA CurrentIsJob ==
  ASSUME JobInv, job # <<>>
  PROVE  Current \in DOMAIN job /\ DOMAIN job = 1..Current /\ Current \in Nat
<1>1. PICK numbers : job \in Seq(Job(numbers))
  BY DEF JobInv
<1> HIDE DEF Job
<1> QED
  BY <1>1 DEF Current

-----------------------------------------------------------------------------
LEMMA EnterKeepsInv ==
  ASSUME JobsInv, NEW stages \in Command, EnterCommand(stages)
  PROVE  JobsInv'
<1> DEFINE new == [jid |-> NextJid, bg |-> IsBackground(stages), pgid |-> 0]
<1>1. stages \in Seq(Stage) /\ stages # <<>>
  BY JobsAssumption
<1>2. new.bg \in BOOLEAN /\ new.pgid = 0
  <2>1. stages[Len(stages)] \in Stage
    BY <1>1
  <2> QED
    BY <2>1 DEF IsBackground, Stage
<1>3. PICK numbers : job \in Seq(Job(numbers))
  BY DEF JobsInv, JobInv
<1> DEFINE more == numbers \cup {NextJid}
<1>4. \A x \in Job(numbers) : x \in Job(more)
  BY DEF Job
<1>5. new \in Job(more)
  BY <1>2 DEF Job
<1>6. job' = Append(job, new)
  BY DEF EnterCommand
<1> HIDE DEF new
<1> HIDE DEF more
<1>7. job \in Seq(Job(more))
  BY <1>3, <1>4
<1>8. job' \in Seq(Job(more))
  BY <1>5, <1>6, <1>7
<1>9. /\ Current \in Nat /\ Current' = Current + 1 /\ job' # <<>>
      /\ DOMAIN job' = DOMAIN job \cup {Current + 1}
      /\ job'[Current'] = new
      /\ \A j \in DOMAIN job : job'[j] = job[j]
  BY <1>3, <1>6 DEF Current
<1>10. rest' = stages /\ fileIn' = 0 /\ shell' = "run" /\ UNCHANGED proc
       /\ jobList' = jobList \cup {Current + 1}
  BY DEF EnterCommand
<1>11. ProcInv' /\ JobInv' /\ BackgroundInv'
  BY <1>8, <1>10 DEF JobsInv, ProcInv, JobInv, BackgroundInv
<1>12. StagesInv'
  BY <1>1, <1>9, <1>10 DEF JobsInv, StagesInv
<1>13. LeadersInv'
  BY <1>2, <1>9, <1>10 DEF JobsInv, LeadersInv
<1>14. LeaderInv'
  BY <1>2, <1>9 DEF LeaderInv
<1> QED
  BY <1>11, <1>12, <1>13, <1>14 DEF JobsInv

LEMMA BuiltinKeepsInv == JobsInv /\ Builtin => JobsInv'
<1> SUFFICES ASSUME JobsInv, Builtin PROVE JobsInv'
  OBVIOUS
<1>1. UNCHANGED <<proc, job, jobList, fileIn>> /\ shell = "run"
  BY DEF Builtin, AtStage
<1>2. /\ rest' \in Seq(Stage) /\ shell' \in {"run", "prompt", "dead"}
      /\ shell' = "run" => rest' # <<>>
  BY <1>1, NextStageRest DEF Builtin, JobsInv, StagesInv
<1>3. StagesInv'
  BY <1>1, <1>2 DEF JobsInv, StagesInv
<1> QED
  BY <1>1, <1>2, <1>3
  DEF JobsInv, ProcInv, JobInv, LeadersInv, LeaderInv, BackgroundInv, Current, Reaped

LEMMA FgKeepsInv == JobsInv /\ Fg => JobsInv'
<1> SUFFICES ASSUME JobsInv, Fg PROVE JobsInv'
  OBVIOUS
<1>1. UNCHANGED <<proc, job, jobList, fileIn>> /\ shell = "run"
  BY DEF Fg, AtStage
<1>2. /\ rest' \in Seq(Stage) /\ shell' \in {"run", "prompt", "waitpid"}
      /\ shell' \in {"run", "waitpid"} => rest' # <<>>
  BY <1>1, NextStageRest DEF Fg, JobsInv, StagesInv
<1>3. StagesInv'
  BY <1>1, <1>2 DEF JobsInv, StagesInv
<1> QED
  BY <1>1, <1>2, <1>3
  DEF JobsInv, ProcInv, JobInv, LeadersInv, LeaderInv, BackgroundInv, Current, Reaped

(* waitpid takes a program of the shell's group, and no leader is in it. *)
LEMMA FgReturnsKeepsInv ==
  ASSUME JobsInv, NEW p, FgReturns(p) PROVE JobsInv'
<1>1. /\ p \in DOMAIN proc /\ proc[p].grp = 0
      /\ proc' = [proc EXCEPT ![p].st = "reaped"]
      /\ UNCHANGED <<job, jobList, fileIn>> /\ shell = "waitpid"
  BY DEF FgReturns, InShellsGroup
<1>2. /\ rest' \in Seq(Stage) /\ shell' \in {"run", "prompt"}
      /\ shell' = "run" => rest' # <<>>
  BY <1>1, NextStageRest DEF FgReturns, JobsInv, StagesInv
<1>3. /\ ProcInv' /\ DOMAIN proc' = DOMAIN proc
      /\ \A q \in DOMAIN proc : /\ proc'[q].bg = proc[q].bg
                                /\ proc'[q].grp = proc[q].grp
                                /\ proc'[q].st = IF q = p THEN "reaped" ELSE proc[q].st
  BY <1>1, OneProcess DEF JobsInv
<1>4. LeadersInv'
  BY <1>1, <1>3, JobsStay DEF JobsInv
<1>5. StagesInv' /\ JobInv'
  BY <1>1, <1>2 DEF JobsInv, StagesInv, JobInv
<1>6. LeaderInv'
  <2> SUFFICES ASSUME shell' = "run", job[Current].bg, job[Current].pgid # 0
               PROVE  proc'[job[Current].pgid].st # "reaped"
    BY <1>1, <1>2 DEF LeaderInv, Current, Reaped
  <2>1. Current \in DOMAIN job
    BY <1>1, CurrentIsJob DEF JobsInv, StagesInv
  <2>2. /\ job[Current].pgid \in DOMAIN proc
        /\ proc[job[Current].pgid].grp = job[Current].pgid
    BY <2>1 DEF JobsInv, LeadersInv
  <2>3. ~Reaped(job[Current].pgid)
    BY <1>1 DEF JobsInv, LeaderInv
  <2> QED
    BY <1>1, <1>3, <2>2, <2>3 DEF Reaped
<1>7. BackgroundInv'
  BY <1>3 DEF JobsInv, BackgroundInv
<1> QED
  BY <1>3, <1>4, <1>5, <1>6, <1>7 DEF JobsInv

(* A wait takes any child, but only a foreground job waits. *)
LEMMA WaitKeepsInv ==
  ASSUME JobsInv, NEW p, WaitReturns(p) PROVE JobsInv'
<1>1. /\ p \in DOMAIN proc /\ proc' = [proc EXCEPT ![p].st = "reaped"]
      /\ UNCHANGED job /\ shell = "wait" /\ fileIn' = Len(proc)
      /\ jobList' \subseteq jobList
  BY DEF WaitReturns, RemoveIfFinal
<1>2. /\ rest' \in Seq(Stage) /\ shell' \in {"run", "prompt"}
      /\ shell' = "run" => rest' # <<>>
  BY <1>1, NextStageRest DEF WaitReturns, JobsInv, StagesInv
<1>3. /\ ProcInv' /\ DOMAIN proc' = DOMAIN proc
      /\ \A q \in DOMAIN proc : /\ proc'[q].bg = proc[q].bg
                                /\ proc'[q].grp = proc[q].grp
                                /\ proc'[q].st = IF q = p THEN "reaped" ELSE proc[q].st
  BY <1>1, OneProcess DEF JobsInv
<1>4. LeadersInv'
  BY <1>1, <1>3, JobsStay DEF JobsInv
<1>5. fileIn' \in Nat
  BY <1>1 DEF JobsInv, ProcInv
<1>6. StagesInv' /\ JobInv'
  BY <1>1, <1>2, <1>5 DEF JobsInv, StagesInv, JobInv
<1>7. LeaderInv'
  BY <1>1, <1>2 DEF JobsInv, StagesInv, LeaderInv, Current
<1>8. BackgroundInv'
  BY <1>3 DEF JobsInv, BackgroundInv
<1> QED
  BY <1>3, <1>4, <1>6, <1>7, <1>8 DEF JobsInv

LEMMA ExitKeepsInv ==
  ASSUME JobsInv, NEW p, Exit(p) PROVE JobsInv'
<1>1. /\ p \in DOMAIN proc /\ proc' = [proc EXCEPT ![p].st = "exited"]
      /\ UNCHANGED <<job, jobList, rest, fileIn, shell>>
  BY DEF Exit
<1>2. /\ ProcInv' /\ DOMAIN proc' = DOMAIN proc
      /\ \A q \in DOMAIN proc : /\ proc'[q].bg = proc[q].bg
                                /\ proc'[q].grp = proc[q].grp
                                /\ proc'[q].st = IF q = p THEN "exited" ELSE proc[q].st
  BY <1>1, OneProcess DEF JobsInv
<1>3. LeadersInv'
  BY <1>1, <1>2, JobsStay DEF JobsInv
<1>4. StagesInv' /\ JobInv'
  BY <1>1 DEF JobsInv, StagesInv, JobInv, Current
<1>5. LeaderInv'
  <2> SUFFICES ASSUME shell \in {"run", "waitpid"}, job[Current].bg, job[Current].pgid # 0
               PROVE  proc'[job[Current].pgid].st # "reaped"
    BY <1>1 DEF LeaderInv, Current, Reaped
  <2>1. Current \in DOMAIN job
    BY <1>1, CurrentIsJob DEF JobsInv, StagesInv
  <2>2. job[Current].pgid \in DOMAIN proc
    BY <2>1 DEF JobsInv, LeadersInv
  <2>3. ~Reaped(job[Current].pgid)
    BY DEF JobsInv, LeaderInv
  <2> QED
    BY <1>2, <2>2, <2>3 DEF Reaped
<1>6. BackgroundInv'
  BY <1>2 DEF JobsInv, BackgroundInv
<1> QED
  BY <1>2, <1>3, <1>4, <1>5, <1>6 DEF JobsInv

(* No control key reaches a background program. *)
LEMMA KeysMiss ==
  ASSUME JobsInv, NEW p \in DOMAIN proc, proc[p].bg
  PROVE  ~Hit(p)
<1>1. p # 0
  BY DEF JobsInv, ProcInv
<1>2. proc[p].grp # 0
  BY DEF JobsInv, BackgroundInv
<1>3. p \notin Signalled
  <2> SUFFICES ASSUME NEW j \in jobList, ~job[j].bg, job[j].pgid = p PROVE FALSE
    BY DEF Signalled, KeyReaches
  <2>1. j \in DOMAIN job
    BY DEF JobsInv, StagesInv
  <2> QED
    BY <1>1, <2>1 DEF JobsInv, LeadersInv
<1> QED
  BY <1>2, <1>3 DEF Hit

LEMMA ControlKeyKeepsInv ==
  ASSUME JobsInv, NEW hit,
         NEW st \in {"running", "stopped", "exited", "killed", "reaped"},
         NEW own \in {"dead", "stopped"}, ControlKey(hit, st, own)
  PROVE  /\ JobsInv' /\ DOMAIN proc' = DOMAIN proc
         /\ \A p \in DOMAIN proc : /\ proc'[p].bg = proc[p].bg
                                   /\ proc'[p].grp = proc[p].grp
                                   /\ proc'[p].src = proc[p].src
                                   /\ proc[p].bg => proc'[p].st = proc[p].st
<1> DEFINE H == {p \in DOMAIN proc : Hit(p) /\ proc[p].st \in hit}
<1>1. /\ proc' = [p \in DOMAIN proc |-> IF p \in H THEN [proc[p] EXCEPT !.st = st] ELSE proc[p]]
      /\ UNCHANGED <<job, jobList, rest, fileIn>>
      /\ shell' \in {"prompt", "dead", "stopped"}
  BY DEF ControlKey
<1>2. \A p \in DOMAIN proc : proc[p].bg => p \notin H
  BY KeysMiss
<1> HIDE DEF H
<1>3. /\ ProcInv' /\ DOMAIN proc' = DOMAIN proc
      /\ \A q \in DOMAIN proc : /\ proc'[q].bg = proc[q].bg
                                /\ proc'[q].grp = proc[q].grp
                                /\ proc'[q].src = proc[q].src
                                /\ q \notin H => proc'[q].st = proc[q].st
  BY <1>1, SomeProcesses DEF JobsInv
<1>4. LeadersInv'
  BY <1>1, <1>3, JobsStay DEF JobsInv
<1>5. StagesInv' /\ JobInv' /\ LeaderInv'
  BY <1>1 DEF JobsInv, StagesInv, JobInv, LeaderInv
<1>6. BackgroundInv'
  BY <1>2, <1>3 DEF JobsInv, BackgroundInv
<1> QED
  BY <1>2, <1>3, <1>4, <1>5, <1>6 DEF JobsInv

-----------------------------------------------------------------------------
(* The group a program is put in is its job's, if the leader is there. *)
LEMMA GroupOfJob ==
  ASSUME JobsInv, shell = "run"
  PROVE  LET p == Len(proc) + 1
             g == GroupOf(p, job[Current].pgid)
         IN /\ g \in 0 .. p
            /\ job[Current].pgid = 0 => g = p
            /\ job[Current].bg => g # 0
<1> DEFINE p == Len(proc) + 1
           g == GroupOf(p, job[Current].pgid)
<1>1. p \in Nat \ {0}
  BY DEF JobsInv, ProcInv
<1>2. Current \in DOMAIN job
  BY CurrentIsJob DEF JobsInv, StagesInv
<1> HIDE DEF p
<1>3. CASE job[Current].pgid = 0
  BY <1>1, <1>3 DEF GroupOf
<1>4. CASE job[Current].pgid # 0
  <2>1. /\ job[Current].pgid \in DOMAIN proc
        /\ proc[job[Current].pgid].grp = job[Current].pgid
    BY <1>2, <1>4 DEF JobsInv, LeadersInv
  <2>2. job[Current].pgid \in 0 .. p
    BY <2>1 DEF JobsInv, ProcInv, p
  <2>3. g \in {job[Current].pgid, 0}
    BY <1>4 DEF GroupOf
  <2>4. job[Current].bg => ~Reaped(job[Current].pgid)
    BY <1>4 DEF JobsInv, LeaderInv
  <2>5. job[Current].bg => g = job[Current].pgid
    BY <1>4, <2>1, <2>4 DEF GroupOf
  <2> QED
    BY <1>4, <2>2, <2>3, <2>5 DEF p
<1> QED
  BY <1>3, <1>4 DEF p

LEMMA ForkKeepsInv ==
  ASSUME JobsInv, Fork
  PROVE  /\ JobsInv'
         /\ DOMAIN proc' = DOMAIN proc \cup {Len(proc) + 1}
         /\ Len(proc) + 1 \notin DOMAIN proc
         /\ \A q \in DOMAIN proc : proc'[q] = proc[q]
         /\ proc'[Len(proc) + 1].bg = job[Current].bg
         /\ proc'[Len(proc) + 1].st = "running"
         /\ proc'[Len(proc) + 1].grp \in 0 .. (Len(proc) + 1)
         /\ proc'[Len(proc) + 1].src = fileIn
         /\ DOMAIN job' = DOMAIN job
         /\ \A j \in DOMAIN job : job'[j].jid = job[j].jid
<1> DEFINE p == Len(proc) + 1
           new == [st |-> "running", grp |-> GroupOf(p, job[Current].pgid),
                   bg |-> job[Current].bg, big |-> rest[1].big /\ Len(rest) > 1,
                   src |-> fileIn]
           pgid == job[Current].pgid
           lead == IF pgid = 0 THEN p ELSE pgid
<1>1. PICK numbers : job \in Seq(Job(numbers))
  BY DEF JobsInv, JobInv
<1>2. /\ shell = "run" /\ proc' = Append(proc, new)
      /\ job' = [job EXCEPT ![Current].pgid = IF @ = 0 THEN p ELSE @]
      /\ UNCHANGED jobList
      /\ \/ NextStage /\ fileIn' = p
         \/ ~job[Current].bg /\ shell' = "wait" /\ UNCHANGED <<rest, fileIn>>
  BY DEF Fork, AtStage, Awaited
<1>3. /\ Current \in DOMAIN job /\ Current \in Nat /\ p \in Nat \ {0}
      /\ DOMAIN proc = 1..Len(proc)
  BY <1>2, CurrentIsJob DEF JobsInv, StagesInv, ProcInv
<1>4. job[Current] \in Job(numbers) /\ rest[1] \in Stage /\ fileIn \in Nat
  <2> HIDE DEF Job
  <2>1. job[Current] \in Job(numbers)
    BY <1>1, <1>3
  <2>2. rest[1] \in Stage
    BY <1>2 DEF JobsInv, StagesInv
  <2> QED
    BY <2>1, <2>2 DEF JobsInv, StagesInv
<1>5. /\ new.grp \in 0 .. p
      /\ pgid = 0 => new.grp = p
      /\ job[Current].bg => new.grp # 0
  BY <1>2, GroupOfJob
<1>6. /\ new \in Process /\ new.st = "running" /\ new.bg = job[Current].bg
      /\ new.src = fileIn
  BY <1>4, <1>5 DEF Process, Stage, Job
<1>7. lead \in Nat /\ lead # 0
  BY <1>3, <1>4 DEF Job
<1>8. job' = [j \in DOMAIN job |-> IF j = Current THEN [job[j] EXCEPT !.pgid = lead] ELSE job[j]]
  BY <1>2
<1>9. [job[Current] EXCEPT !.pgid = lead] \in Job(numbers)
  BY <1>4, <1>7 DEF Job
<1>10. /\ job'[Current].pgid = lead /\ job'[Current].bg = job[Current].bg
       /\ job'[Current].jid = job[Current].jid
       /\ \A j \in DOMAIN job : j # Current => job'[j] = job[j]
  BY <1>3, <1>4, <1>8 DEF Job
<1> HIDE DEF new
<1> HIDE DEF Job
<1> HIDE DEF Process
<1>11. job' \in Seq(Job(numbers)) /\ DOMAIN job' = DOMAIN job /\ Current' = Current
  <2>1. \A j \in DOMAIN job : job'[j] \in Job(numbers)
    BY <1>1, <1>8, <1>9
  <2>2. DOMAIN job' = DOMAIN job
    BY <1>8
  <2>3. DOMAIN job = 1..Len(job) /\ Len(job) \in Nat
    BY <1>1
  <2>4. job' \in Seq(Job(numbers))
    BY <1>8, <2>1, <2>2, <2>3
  <2> QED
    BY <2>2, <2>3, <2>4 DEF Current
<1>12. /\ ProcInv' /\ DOMAIN proc' = DOMAIN proc \cup {p} /\ p \notin DOMAIN proc
       /\ proc'[p] = new /\ \A q \in DOMAIN proc : proc'[q] = proc[q]
  BY <1>2, <1>3, <1>6 DEF JobsInv, ProcInv
<1>13. JobInv'
  BY <1>11 DEF JobInv
<1>14. StagesInv'
  <2>1. CASE NextStage /\ fileIn' = p
    BY <1>2, <1>3, <1>11, <2>1, NextStageRest DEF JobsInv, StagesInv
  <2>2. CASE ~job[Current].bg /\ shell' = "wait" /\ UNCHANGED <<rest, fileIn>>
    BY <1>2, <1>3, <1>10, <1>11, <2>2 DEF JobsInv, StagesInv
  <2> QED
    BY <1>2, <2>1, <2>2
<1>15. LeadersInv'
  <2> SUFFICES ASSUME NEW j \in DOMAIN job, job'[j].pgid # 0
               PROVE  /\ job'[j].pgid \in DOMAIN proc'
                      /\ proc'[job'[j].pgid].bg = job'[j].bg
                      /\ proc'[job'[j].pgid].grp = job'[j].pgid
    BY <1>11 DEF LeadersInv
  <2>1. CASE j = Current /\ pgid = 0
    BY <1>5, <1>6, <1>10, <1>12, <2>1
  <2>2. CASE j = Current /\ pgid # 0
    BY <1>10, <1>12, <2>2 DEF JobsInv, LeadersInv
  <2>3. CASE j # Current
    BY <1>10, <1>12, <2>3 DEF JobsInv, LeadersInv
  <2> QED
    BY <2>1, <2>2, <2>3
<1>16. LeaderInv'
  <2> SUFFICES ASSUME job[Current].bg PROVE proc'[lead].st # "reaped"
    BY <1>10, <1>11 DEF LeaderInv, Reaped
  <2>1. CASE pgid = 0
    BY <1>6, <1>12, <2>1
  <2>2. CASE pgid # 0
    BY <1>2, <1>3, <1>12, <2>2 DEF JobsInv, LeadersInv, LeaderInv, Reaped
  <2> QED
    BY <2>1, <2>2
<1>17. BackgroundInv'
  BY <1>5, <1>6, <1>12 DEF JobsInv, BackgroundInv
<1> QED
  BY <1>5, <1>6, <1>10, <1>11, <1>12, <1>13, <1>14, <1>15, <1>16, <1>17 DEF JobsInv

-----------------------------------------------------------------------------
LEMMA InitJobsInv == JobsInit => JobsInv
<1> SUFFICES ASSUME JobsInit PROVE JobsInv
  OBVIOUS
<1>1. proc \in Seq(Process) /\ job \in Seq(Job({})) /\ rest \in Seq(Stage)
  BY DEF JobsInit
<1> QED
  BY <1>1
  DEF JobsInit, JobsInv, ProcInv, JobInv, StagesInv, LeadersInv, LeaderInv, BackgroundInv

LEMMA JobsInvInductive == JobsInv /\ [JobsNext]_jobsVars => JobsInv'
<1> SUFFICES ASSUME JobsInv, [JobsNext]_jobsVars PROVE JobsInv'
  OBVIOUS
<1>1. ASSUME NEW stages \in Command, EnterCommand(stages) PROVE JobsInv'
  BY <1>1, EnterKeepsInv
<1>2. CASE Builtin
  BY <1>2, BuiltinKeepsInv
<1>3. CASE Fork
  BY <1>3, ForkKeepsInv
<1>4. CASE Fg
  BY <1>4, FgKeepsInv
<1>5. ASSUME NEW p, WaitReturns(p) PROVE JobsInv'
  BY <1>5, WaitKeepsInv
<1>6. ASSUME NEW p, FgReturns(p) PROVE JobsInv'
  BY <1>6, FgReturnsKeepsInv
<1>7. CASE ControlC
  BY <1>7, ControlKeyKeepsInv DEF ControlC
<1>8. CASE ControlZ
  BY <1>8, ControlKeyKeepsInv DEF ControlZ
<1>9. ASSUME NEW p, Exit(p) PROVE JobsInv'
  BY <1>9, ExitKeepsInv
<1>10. CASE UNCHANGED jobsVars
  BY <1>10 DEF jobsVars, JobsInv, ProcInv, JobInv, StagesInv, LeadersInv, LeaderInv,
               BackgroundInv, Current, Reaped
<1> QED
  BY <1>1, <1>2, <1>3, <1>4, <1>5, <1>6, <1>7, <1>8, <1>9, <1>10 DEF JobsNext, ShellStep

(* A command is executed on what the code takes for granted: while stages    *)
(* remain there is a job, a wait is a foreground job's, and every job's      *)
(* group is led by one of its own programs, which a background job's later   *)
(* programs find alive or unreaped.                                          *)
THEOREM JobsSound == JobsSpec => []JobsInv
<1> QED
  BY InitJobsInv, JobsInvInductive, PTL DEF JobsSpec

(* Ctrl-C and Ctrl-Z (controlC, controlZ), which signal every foreground job *)
(* of the list and may reach the shell's own group, never kill or stop a     *)
(* program of a background job.                                              *)
THEOREM BackgroundSpared == JobsSpec => BackgroundSurvives
<1> DEFINE Spared == \A p \in DOMAIN proc :
                       proc[p].bg => proc'[p].st \notin {"killed", "stopped"}
<1>1. JobsInv /\ JobsInv' /\ [JobsNext]_jobsVars => [Spared]_jobsVars
  <2> SUFFICES ASSUME JobsInv, JobsInv', JobsNext PROVE Spared
    OBVIOUS
  <2> SUFFICES ASSUME NEW p \in DOMAIN proc, proc[p].bg
               PROVE  proc'[p].st \notin {"killed", "stopped"}
    OBVIOUS
  <2>1. p \in DOMAIN proc' /\ proc'[p].bg
    <3>1. CASE UNCHANGED proc
      BY <3>1
    <3>2. CASE Fork
      BY <3>2, ForkKeepsInv
    <3>3. ASSUME NEW q, NEW st \in {"running", "stopped", "exited", "killed", "reaped"},
                 q \in DOMAIN proc, proc' = [proc EXCEPT ![q].st = st]
          PROVE  p \in DOMAIN proc' /\ proc'[p].bg
      BY <3>3, OneProcess DEF JobsInv
    <3>4. CASE ControlC \/ ControlZ
      BY <3>4, ControlKeyKeepsInv DEF ControlC, ControlZ
    <3> QED
      BY <3>1, <3>2, <3>3, <3>4
      DEF JobsNext, ShellStep, EnterCommand, Builtin, Fg, FgReturns, InShellsGroup, WaitReturns, Exit
  <2> QED
    BY <2>1 DEF JobsInv, BackgroundInv
<1>2. JobsSpec => [][Spared]_jobsVars
  BY <1>1, JobsSound, PTL DEF JobsSpec
<1> QED
  BY <1>2 DEF BackgroundSurvives

-----------------------------------------------------------------------------
(* A program is in a group led by itself or an earlier one, or the shell's,  *)
(* and reads an earlier one's pipe.                                          *)
OrderInv ==
  /\ \A p \in DOMAIN proc : proc[p].grp \in 0 .. p /\ proc[p].src \in 0 .. (p - 1)
  /\ fileIn \in 0 .. Len(proc) /\ writeEnds \subseteq DOMAIN proc
  /\ shell \in {"prompt", "run", "wait", "waitpid", "dead", "stopped"}

(* Jobs of the list have numbers of their own. *)
NumbersInv ==
  /\ \A j \in DOMAIN job : job[j].jid \in Nat \ {0}
  /\ \A i, k \in jobList : i # k => job[i].jid # job[k].jid

(* Finitely many numbers have a greatest. *)
LEMMA NumbersBounded ==
  ASSUME NEW n \in Nat, NEW f, \A j \in 1 .. n : f[j] \in Nat
  PROVE  \E m \in Nat : \A j \in 1 .. n : f[j] <= m
<1> DEFINE good == {k \in 0 .. n : \E m \in Nat : \A j \in 1 .. k : f[j] <= m}
<1>1. 0 \in good
  OBVIOUS
<1>2. ASSUME NEW k \in 1 .. n, k - 1 \in good PROVE k \in good
  <2>1. PICK m \in Nat : \A j \in 1 .. (k - 1) : f[j] <= m
    BY <1>2
  <2>2. PICK b \in Nat : m <= b /\ f[k] <= b
    <3>1. f[k] \in Nat
      OBVIOUS
    <3>2. m <= m + f[k] /\ f[k] <= m + f[k] /\ m + f[k] \in Nat
      BY <3>1
    <3> QED
      BY <3>2
  <2>3. \A j \in 1 .. k : f[j] <= b
    <3> SUFFICES ASSUME NEW j \in 1 .. k PROVE f[j] <= b
      OBVIOUS
    <3>1. CASE j = k
      BY <2>2, <3>1
    <3>2. CASE j # k
      <4>1. j \in 1 .. (k - 1) /\ f[j] \in Nat
        BY <3>2
      <4> QED
        BY <2>1, <2>2, <4>1
    <3> QED
      BY <3>1, <3>2
  <2> QED
    BY <2>3
<1>3. \A k \in 0 .. n : k \in good
  <2> HIDE DEF good
  <2> QED
    BY <1>1, <1>2, UpTo
<1>4. n \in good
  <2> HIDE DEF good
  <2> QED
    BY <1>3
<1> QED
  BY <1>4

(* assignJid: the new number is greater than those of the list. *)
LEMMA NextJidIsNew ==
  ASSUME JobsInv, NumbersInv
  PROVE  NextJid \in Nat \ {0} /\ \A j \in jobList : job[j].jid # NextJid
<1> DEFINE f == [j \in DOMAIN job |-> job[j].jid]
           S == {0} \cup {job[j].jid : j \in jobList}
<1>1. Len(job) \in Nat /\ DOMAIN job = 1 .. Len(job)
  <2>1. PICK numbers : job \in Seq(Job(numbers))
    BY DEF JobsInv, JobInv
  <2> HIDE DEF Job
  <2> QED
    BY <2>1
<1>2. \A j \in 1 .. Len(job) : f[j] = job[j].jid /\ f[j] \in Nat
  BY <1>1 DEF NumbersInv
<1> HIDE DEF f
<1>3. PICK m \in Nat : \A j \in 1 .. Len(job) : f[j] <= m
  BY <1>1, <1>2, NumbersBounded
<1>4. \A j \in jobList : job[j].jid \in 0 .. m
  <2>1. \A j \in jobList : j \in 1 .. Len(job)
    BY <1>1 DEF JobsInv, StagesInv
  <2> QED
    BY <1>2, <1>3, <2>1
<1>5. S \subseteq 0 .. m /\ S # {}
  BY <1>4
<1>6. \A j \in jobList : job[j].jid \in S
  OBVIOUS
<1>7. NextJid = 1 + Max(S)
  BY DEF NextJid
<1> HIDE DEF S
<1>8. Max(S) \in S /\ \A y \in S : Max(S) >= y
  BY <1>5, GreatestIs
<1>9. Max(S) \in Nat
  <2>1. Max(S) \in 0 .. m
    BY <1>5, <1>8
  <2> QED
    BY <2>1
<1>10. \A j \in jobList : Max(S) >= job[j].jid
  BY <1>6, <1>8
<1> QED
  BY <1>4, <1>7, <1>9, <1>10

(* A step that starts no job and no program. *)
LEMMA NumbersStay ==
  ASSUME NumbersInv, DOMAIN job' = DOMAIN job, jobList' \subseteq jobList,
         jobList \subseteq DOMAIN job, \A j \in DOMAIN job : job'[j].jid = job[j].jid
  PROVE  NumbersInv'
<1>1. \A j \in jobList' : j \in jobList /\ job'[j].jid = job[j].jid
  OBVIOUS
<1>2. \A i, k \in jobList' : i # k => job'[i].jid # job'[k].jid
  BY <1>1 DEF NumbersInv
<1> QED
  BY <1>2 DEF NumbersInv

LEMMA OrderStays ==
  ASSUME JobsInv, OrderInv, ProcInv', DOMAIN proc' = DOMAIN proc,
         \A q \in DOMAIN proc : proc'[q].grp = proc[q].grp /\ proc'[q].src = proc[q].src
  PROVE  /\ \A p \in DOMAIN proc' : proc'[p].grp \in 0 .. p /\ proc'[p].src \in 0 .. (p - 1)
         /\ Len(proc') = Len(proc) /\ Len(proc) \in Nat
<1>1. /\ DOMAIN proc = 1 .. Len(proc) /\ Len(proc) \in Nat
      /\ DOMAIN proc' = 1 .. Len(proc') /\ Len(proc') \in Nat
  BY DEF JobsInv, ProcInv
<1>2. Len(proc') = Len(proc)
  BY <1>1
<1> QED
  BY <1>1, <1>2 DEF OrderInv

LEMMA EnterNumbers ==
  ASSUME JobsInv, OrderInv, NumbersInv, NEW stages \in Command, EnterCommand(stages)
  PROVE  OrderInv' /\ NumbersInv'
<1> DEFINE new == [jid |-> NextJid, bg |-> IsBackground(stages), pgid |-> 0]
<1>1. /\ job' = Append(job, new) /\ new.jid = NextJid
      /\ jobList' = jobList \cup {Current + 1}
      /\ fileIn' = 0 /\ shell' = "run" /\ UNCHANGED <<proc, writeEnds>>
  BY DEF EnterCommand
<1>2. PICK numbers : job \in Seq(Job(numbers))
  BY DEF JobsInv, JobInv
<1> HIDE DEF new, Job
<1>3. /\ DOMAIN job' = DOMAIN job \cup {Current + 1} /\ Current + 1 \notin DOMAIN job
      /\ job'[Current + 1] = new /\ \A j \in DOMAIN job : job'[j] = job[j]
  BY <1>1, <1>2 DEF Current
<1>4. NextJid \in Nat \ {0} /\ \A j \in jobList : job[j].jid # NextJid
  BY NextJidIsNew
<1>5. jobList \subseteq DOMAIN job
  BY DEF JobsInv, StagesInv
<1>6. \A j \in DOMAIN job' : job'[j].jid \in Nat \ {0}
  BY <1>1, <1>3, <1>4 DEF NumbersInv
<1>7. \A i, k \in jobList' : i # k => job'[i].jid # job'[k].jid
  <2> SUFFICES ASSUME NEW i \in jobList', NEW k \in jobList', i # k
               PROVE  job'[i].jid # job'[k].jid
    OBVIOUS
  <2>1. CASE i = Current + 1
    BY <1>1, <1>3, <1>4, <1>5, <2>1
  <2>2. CASE k = Current + 1
    BY <1>1, <1>3, <1>4, <1>5, <2>2
  <2>3. CASE i # Current + 1 /\ k # Current + 1
    BY <1>1, <1>3, <1>5, <2>3 DEF NumbersInv
  <2> QED
    BY <2>1, <2>2, <2>3
<1>8. Len(proc) \in Nat
  BY DEF JobsInv, ProcInv
<1>9. OrderInv'
  BY <1>1, <1>8 DEF OrderInv
<1> QED
  BY <1>6, <1>7, <1>9 DEF NumbersInv

LEMMA ForkNumbers ==
  ASSUME JobsInv, OrderInv, NumbersInv, Fork
  PROVE  OrderInv' /\ NumbersInv'
<1> DEFINE p == Len(proc) + 1
<1>1. /\ ProcInv' /\ DOMAIN proc' = DOMAIN proc \cup {p}
      /\ \A q \in DOMAIN proc : proc'[q] = proc[q]
      /\ proc'[p].grp \in 0 .. p /\ proc'[p].src = fileIn
      /\ DOMAIN job' = DOMAIN job /\ \A j \in DOMAIN job : job'[j].jid = job[j].jid
  BY ForkKeepsInv DEF JobsInv
<1>2. /\ UNCHANGED jobList /\ fileIn' \in {fileIn, p} /\ writeEnds' \subseteq writeEnds \cup {p}
      /\ shell' \in {"run", "prompt", "wait"}
  BY DEF Fork, NextStage
<1>3. jobList \subseteq DOMAIN job
  BY DEF JobsInv, StagesInv
<1>4. NumbersInv'
  BY <1>1, <1>2, <1>3, NumbersStay
<1>5. /\ DOMAIN proc = 1 .. Len(proc) /\ Len(proc) \in Nat
      /\ DOMAIN proc' = 1 .. Len(proc') /\ Len(proc') \in Nat
  <2>1. proc \in Seq(Process) /\ proc' \in Seq(Process)
    BY <1>1 DEF JobsInv, ProcInv
  <2> QED
    BY <2>1
<1>6. Len(proc') = p /\ p = Len(proc) + 1
  BY <1>1, <1>5
<1> HIDE DEF p
<1>7. \A q \in DOMAIN proc' : proc'[q].grp \in 0 .. q /\ proc'[q].src \in 0 .. (q - 1)
  <2> SUFFICES ASSUME NEW q \in DOMAIN proc'
               PROVE  proc'[q].grp \in 0 .. q /\ proc'[q].src \in 0 .. (q - 1)
    OBVIOUS
  <2>1. CASE q = p
    BY <1>1, <1>5, <1>6, <2>1 DEF OrderInv
  <2>2. CASE q # p
    BY <1>1, <2>2 DEF OrderInv
  <2> QED
    BY <2>1, <2>2
<1>8. fileIn' \in 0 .. Len(proc')
  BY <1>2, <1>5, <1>6 DEF OrderInv
<1>9. writeEnds' \subseteq DOMAIN proc'
  BY <1>1, <1>2 DEF OrderInv
<1> QED
  BY <1>2, <1>4, <1>7, <1>8, <1>9 DEF OrderInv

LEMMA ReapNumbers ==
  ASSUME JobsInv, OrderInv, NumbersInv, NEW p, WaitReturns(p) \/ FgReturns(p)
  PROVE  OrderInv' /\ NumbersInv'
<1>1. /\ p \in DOMAIN proc /\ proc' = [proc EXCEPT ![p].st = "reaped"]
      /\ UNCHANGED job /\ jobList' \subseteq jobList /\ fileIn' \in {fileIn, Len(proc)}
      /\ writeEnds' \subseteq writeEnds /\ shell' \in {"run", "prompt"}
  BY DEF WaitReturns, FgReturns, InShellsGroup, RemoveIfFinal, CloseWriteEnd, NextStage
<1>2. /\ ProcInv' /\ DOMAIN proc' = DOMAIN proc
      /\ \A q \in DOMAIN proc : proc'[q].grp = proc[q].grp /\ proc'[q].src = proc[q].src
  BY <1>1, OneProcess DEF JobsInv
<1>3. NumbersInv'
  BY <1>1, NumbersStay DEF JobsInv, StagesInv
<1>4. /\ \A q \in DOMAIN proc' : proc'[q].grp \in 0 .. q /\ proc'[q].src \in 0 .. (q - 1)
      /\ Len(proc') = Len(proc) /\ Len(proc) \in Nat
  BY <1>2, OrderStays
<1> QED
  BY <1>1, <1>2, <1>3, <1>4 DEF OrderInv

LEMMA NumbersInductive ==
  JobsInv /\ OrderInv /\ NumbersInv /\ [JobsNext]_jobsVars => OrderInv' /\ NumbersInv'
<1> SUFFICES ASSUME JobsInv, OrderInv, NumbersInv, [JobsNext]_jobsVars
             PROVE  OrderInv' /\ NumbersInv'
  OBVIOUS
<1>1. ASSUME NEW stages \in Command, EnterCommand(stages) PROVE OrderInv' /\ NumbersInv'
  BY <1>1, EnterNumbers
<1>2. CASE Builtin \/ Fg
  BY <1>2 DEF Builtin, Fg, NextStage, OrderInv, NumbersInv
<1>3. CASE Fork
  BY <1>3, ForkNumbers
<1>4. ASSUME NEW p, WaitReturns(p) \/ FgReturns(p) PROVE OrderInv' /\ NumbersInv'
  BY <1>4, ReapNumbers
<1>5. CASE ControlC \/ ControlZ
  <2>1. /\ ProcInv' /\ DOMAIN proc' = DOMAIN proc
        /\ \A q \in DOMAIN proc : proc'[q].grp = proc[q].grp /\ proc'[q].src = proc[q].src
    BY <1>5, ControlKeyKeepsInv DEF ControlC, ControlZ, JobsInv
  <2>2. /\ UNCHANGED <<job, jobList, fileIn, writeEnds>>
        /\ shell' \in {shell, "dead", "stopped"}
    BY <1>5 DEF ControlC, ControlZ, ControlKey
  <2>3. /\ \A q \in DOMAIN proc' : proc'[q].grp \in 0 .. q /\ proc'[q].src \in 0 .. (q - 1)
        /\ Len(proc') = Len(proc)
    BY <2>1, OrderStays
  <2> QED
    BY <2>1, <2>2, <2>3 DEF OrderInv, NumbersInv
<1>6. ASSUME NEW p, Exit(p) PROVE OrderInv' /\ NumbersInv'
  <2>1. /\ p \in DOMAIN proc /\ proc' = [proc EXCEPT ![p].st = "exited"]
        /\ UNCHANGED <<job, jobList, fileIn, writeEnds, shell>>
    BY <1>6 DEF Exit
  <2>2. /\ ProcInv' /\ DOMAIN proc' = DOMAIN proc
        /\ \A q \in DOMAIN proc : proc'[q].grp = proc[q].grp /\ proc'[q].src = proc[q].src
    BY <2>1, OneProcess DEF JobsInv
  <2>3. /\ \A q \in DOMAIN proc' : proc'[q].grp \in 0 .. q /\ proc'[q].src \in 0 .. (q - 1)
        /\ Len(proc') = Len(proc)
    BY <2>2, OrderStays
  <2> QED
    BY <2>1, <2>2, <2>3 DEF OrderInv, NumbersInv
<1>7. CASE UNCHANGED jobsVars
  BY <1>7 DEF jobsVars, OrderInv, NumbersInv
<1> QED
  BY <1>1, <1>2, <1>3, <1>4, <1>5, <1>6, <1>7 DEF JobsNext, ShellStep

(* The jobs of the list keep numbers of their own, so that "fg %n" names one *)
(* job whatever order jobs end and are removed in; programs' groups and      *)
(* pipes are those of programs that were started before; and the shell waits *)
(* only with a stage to go on from.                                          *)
THEOREM JobsTypeCorrect == JobsSpec => []JobsTypeOK
<1>1. JobsInit => OrderInv /\ NumbersInv
  BY DEF JobsInit, OrderInv, NumbersInv
<1>2. JobsInv /\ OrderInv /\ NumbersInv => JobsTypeOK
  <2> SUFFICES ASSUME JobsInv, OrderInv, NumbersInv PROVE JobsTypeOK
    OBVIOUS
  <2>1. \A p \in DOMAIN proc :
          proc[p].st \in {"running", "stopped", "exited", "killed", "reaped"}
    <3> SUFFICES ASSUME NEW p \in DOMAIN proc
                 PROVE  proc[p].st \in {"running", "stopped", "exited", "killed", "reaped"}
      OBVIOUS
    <3>1. proc[p] \in Process
      BY DEF JobsInv, ProcInv
    <3> QED
      BY <3>1 DEF Process
  <2>2. Len(proc) \in Nat /\ DOMAIN proc = 1 .. Len(proc)
    BY DEF JobsInv, ProcInv
  <2>3. \A j \in DOMAIN job : job[j].pgid \in 0 .. Len(proc)
    BY <2>2 DEF JobsInv, LeadersInv
  <2> QED
    BY <2>1, <2>3 DEF JobsInv, StagesInv, OrderInv, NumbersInv, JobsTypeOK
<1> QED
  BY <1>1, <1>2, NumbersInductive, JobsSound, PTL DEF JobsSpec

-----------------------------------------------------------------------------
(* The shell holds the write end of one pipe at most, that of the program it *)
(* waits for, and that program is still there to be waited for.              *)
WaitInv ==
  /\ writeEnds \subseteq IF shell = "wait" THEN {Len(proc)} ELSE {}
  /\ shell = "wait" => proc # <<>> /\ ~Reaped(Len(proc))

LEMMA WaitStep == JobsInv /\ WaitInv /\ [JobsNext]_jobsVars => WaitInv'
<1> SUFFICES ASSUME JobsInv, WaitInv, [JobsNext]_jobsVars PROVE WaitInv'
  OBVIOUS
<1>1. ASSUME NEW stages \in Command, EnterCommand(stages) PROVE WaitInv'
  BY <1>1 DEF EnterCommand, WaitInv
<1>2. CASE Builtin \/ Fg
  BY <1>2 DEF Builtin, Fg, AtStage, NextStage, WaitInv
<1>3. CASE Fork
  <2>1. /\ DOMAIN proc' = DOMAIN proc \cup {Len(proc) + 1}
        /\ proc'[Len(proc) + 1].st = "running" /\ ProcInv'
    BY <1>3, ForkKeepsInv DEF JobsInv
  <2>2. Len(proc') = Len(proc) + 1 /\ proc' # <<>>
    <3>1. proc \in Seq(Process)
      BY DEF JobsInv, ProcInv
    <3> QED
      BY <1>3, <3>1 DEF Fork
  <2>3. /\ writeEnds' \subseteq writeEnds \cup {Len(proc) + 1}
        /\ shell' # "wait" => shell' \in {"run", "prompt"} /\ UNCHANGED writeEnds
    BY <1>3 DEF Fork, NextStage
  <2>4. shell = "run"
    BY <1>3 DEF Fork, AtStage
  <2> QED
    BY <2>1, <2>2, <2>3, <2>4 DEF WaitInv, Reaped
<1>4. ASSUME NEW p, WaitReturns(p) PROVE WaitInv'
  BY <1>4 DEF WaitReturns, CloseWriteEnd, NextStage, WaitInv
<1>5. ASSUME NEW p, FgReturns(p) PROVE WaitInv'
  BY <1>5 DEF FgReturns, NextStage, WaitInv
<1>6. CASE ControlC \/ ControlZ
  BY <1>6 DEF ControlC, ControlZ, ControlKey, WaitInv
<1>7. ASSUME NEW p, Exit(p) PROVE WaitInv'
  <2>1. /\ p \in DOMAIN proc /\ proc' = [proc EXCEPT ![p].st = "exited"]
        /\ UNCHANGED <<writeEnds, shell>>
    BY <1>7 DEF Exit
  <2>2. /\ ProcInv' /\ DOMAIN proc' = DOMAIN proc
        /\ \A q \in DOMAIN proc : proc'[q].st = IF q = p THEN "exited" ELSE proc[q].st
    BY <2>1, OneProcess DEF JobsInv
  <2>3. Len(proc') = Len(proc) /\ (proc # <<>> => proc' # <<>> /\ Len(proc) \in DOMAIN proc)
    <3>1. proc \in Seq(Process) /\ proc' \in Seq(Process)
      BY <2>2 DEF JobsInv, ProcInv
    <3> QED
      BY <2>2, <3>1
  <2> QED
    BY <2>1, <2>2, <2>3 DEF WaitInv, Reaped
<1>8. CASE UNCHANGED jobsVars
  BY <1>8 DEF jobsVars, WaitInv, Reaped
<1> QED
  BY <1>1, <1>2, <1>3, <1>4, <1>5, <1>6, <1>7, <1>8 DEF JobsNext, ShellStep

(* The safety half of PromptReturns: no program reads a pipe whose write end *)
(* the shell has open, so that none waits for an end of file that the shell  *)
(* keeps away; and a wait in the foreground has the program it is for.       *)
EndsLeft ==
  /\ \A p \in DOMAIN proc : proc[p].src \notin writeEnds
  /\ shell = "wait" => Len(proc) \in DOMAIN proc /\ ~Reaped(Len(proc))

THEOREM EndOfFileComes == JobsSpec => []EndsLeft
<1>1. JobsInit => OrderInv /\ NumbersInv /\ WaitInv
  BY DEF JobsInit, OrderInv, NumbersInv, WaitInv
<1>2. JobsInv /\ OrderInv /\ WaitInv => EndsLeft
  <2> SUFFICES ASSUME JobsInv, OrderInv, WaitInv PROVE EndsLeft
    OBVIOUS
  <2>1. DOMAIN proc = 1 .. Len(proc) /\ Len(proc) \in Nat
    BY DEF JobsInv, ProcInv
  <2>2. \A p \in DOMAIN proc : proc[p].src # Len(proc)
    BY <2>1 DEF OrderInv
  <2>3. writeEnds \subseteq {Len(proc)}
    BY DEF WaitInv
  <2>4. proc # <<>> => Len(proc) \in DOMAIN proc
    <3>1. proc \in Seq(Process)
      BY DEF JobsInv, ProcInv
    <3> QED
      BY <3>1
  <2> QED
    BY <2>2, <2>3, <2>4 DEF EndsLeft, WaitInv
<1> QED
  BY <1>1, <1>2, NumbersInductive, WaitStep, JobsSound, PTL DEF JobsSpec

-----------------------------------------------------------------------------
ForegroundLeft == {p \in DOMAIN proc : ~proc[p].bg /\ ~Reaped(p)}
BackgroundReaped == {p \in DOMAIN proc : proc[p].bg /\ Reaped(p)}

(* Every wait takes one program, a foreground one or, instead, another.      *)
CountInv ==
  Cardinality(ForegroundLeft)
    <= Cardinality(BackgroundReaped) + (IF shell = "wait" THEN 1 ELSE 0)

LEMMA CountsFinite ==
  ASSUME ProcInv
  PROVE  /\ IsFiniteSet(ForegroundLeft) /\ IsFiniteSet(BackgroundReaped)
         /\ Cardinality(ForegroundLeft) \in Nat /\ Cardinality(BackgroundReaped) \in Nat
<1>1. DOMAIN proc = 1..Len(proc) /\ Len(proc) \in Nat
  BY DEF ProcInv
<1>2. IsFiniteSet(DOMAIN proc)
  BY <1>1, FS_Interval
<1>3. IsFiniteSet(ForegroundLeft) /\ IsFiniteSet(BackgroundReaped)
  BY <1>2, FS_Subset DEF ForegroundLeft, BackgroundReaped
<1> QED
  BY <1>3, FS_CardinalityType

(* While no program is reaped or started both sets stay as they are. *)
LEMMA SameSets ==
  ASSUME DOMAIN proc' = DOMAIN proc,
         \A q \in DOMAIN proc : /\ proc'[q].bg = proc[q].bg
                               /\ (proc'[q].st = "reaped") = Reaped(q)
  PROVE  ForegroundLeft' = ForegroundLeft /\ BackgroundReaped' = BackgroundReaped
BY DEF ForegroundLeft, BackgroundReaped, Reaped

(* A reaped program leaves the one set or enters the other. *)
LEMMA ReapCounts ==
  ASSUME ProcInv, NEW p \in DOMAIN proc, Zombie(p),
         proc' = [proc EXCEPT ![p].st = "reaped"]
  PROVE  \/ /\ ~proc[p].bg
            /\ Cardinality(ForegroundLeft') = Cardinality(ForegroundLeft) - 1
            /\ Cardinality(BackgroundReaped') = Cardinality(BackgroundReaped)
         \/ /\ proc[p].bg
            /\ Cardinality(ForegroundLeft') = Cardinality(ForegroundLeft)
            /\ Cardinality(BackgroundReaped') = Cardinality(BackgroundReaped) + 1
<1>1. /\ DOMAIN proc' = DOMAIN proc
      /\ \A q \in DOMAIN proc : /\ proc'[q].bg = proc[q].bg
                                /\ proc'[q].st = IF q = p THEN "reaped" ELSE proc[q].st
  BY OneProcess
<1>2. ~Reaped(p)
  BY DEF Zombie, Reaped
<1>3. CASE ~proc[p].bg
  <2>1. /\ p \in ForegroundLeft /\ ForegroundLeft' = ForegroundLeft \ {p}
        /\ BackgroundReaped' = BackgroundReaped
    BY <1>1, <1>2, <1>3 DEF ForegroundLeft, BackgroundReaped, Reaped
  <2> QED
    BY <1>3, <2>1, CountsFinite, FS_RemoveElement
<1>4. CASE proc[p].bg
  <2>1. /\ p \notin BackgroundReaped /\ BackgroundReaped' = BackgroundReaped \cup {p}
        /\ ForegroundLeft' = ForegroundLeft
    BY <1>1, <1>2, <1>4 DEF ForegroundLeft, BackgroundReaped, Reaped
  <2> QED
    BY <1>4, <2>1, CountsFinite, FS_AddElement
<1> QED
  BY <1>3, <1>4

LEMMA ControlKeyReapsNone ==
  ASSUME ProcInv, NEW hit, NEW st, NEW own, ControlKey(hit, st, own),
         "reaped" \notin hit, st # "reaped"
  PROVE  /\ DOMAIN proc' = DOMAIN proc
         /\ \A q \in DOMAIN proc : /\ proc'[q].bg = proc[q].bg
                                   /\ (proc'[q].st = "reaped") = Reaped(q)
<1>1. \A q \in DOMAIN proc : proc[q] \in Process
  BY DEF ProcInv
<1>2. proc' = [q \in DOMAIN proc |->
                 IF Hit(q) /\ proc[q].st \in hit THEN [proc[q] EXCEPT !.st = st] ELSE proc[q]]
  BY DEF ControlKey
<1> QED
  BY <1>1, <1>2 DEF Process, Reaped

LEMMA CountInductive == JobsInv /\ CountInv /\ [JobsNext]_jobsVars => CountInv'
<1> SUFFICES ASSUME JobsInv, CountInv, [JobsNext]_jobsVars PROVE CountInv'
  OBVIOUS
<1>0. ProcInv
  BY DEF JobsInv
<1> USE CountsFinite
<1>1. ASSUME UNCHANGED proc, shell' = "wait" <=> shell = "wait" PROVE CountInv'
  BY <1>1 DEF CountInv, ForegroundLeft, BackgroundReaped, Reaped
<1>2. ASSUME NEW stages \in Command, EnterCommand(stages) PROVE CountInv'
  BY <1>1, <1>2 DEF EnterCommand
<1>3. CASE Builtin
  BY <1>1, <1>3 DEF Builtin, AtStage, NextStage
<1>4. CASE Fg
  BY <1>1, <1>4 DEF Fg, AtStage, NextStage
<1>5. CASE Fork
  <2> DEFINE p == Len(proc) + 1
  <2>1. /\ DOMAIN proc' = DOMAIN proc \cup {p} /\ p \notin DOMAIN proc
        /\ \A q \in DOMAIN proc : proc'[q] = proc[q]
        /\ proc'[p].bg = job[Current].bg /\ proc'[p].st = "running"
    BY <1>5, ForkKeepsInv
  <2>2. /\ shell = "run"
        /\ shell' = "wait" => ~job[Current].bg
        /\ ~job[Current].bg => shell' = "wait"
    BY <1>5 DEF Fork, AtStage, Awaited, NextStage
  <2> HIDE DEF p
  <2>3. BackgroundReaped' = BackgroundReaped
    BY <2>1 DEF BackgroundReaped, Reaped
  <2>4. CASE job[Current].bg
    <3>1. ForegroundLeft' = ForegroundLeft
      BY <2>1, <2>4 DEF ForegroundLeft, Reaped
    <3> QED
      BY <2>2, <2>3, <2>4, <3>1 DEF CountInv
  <2>5. CASE ~job[Current].bg
    <3>1. ForegroundLeft' = ForegroundLeft \cup {p} /\ p \notin ForegroundLeft
      BY <2>1, <2>5 DEF ForegroundLeft, Reaped
    <3>2. Cardinality(ForegroundLeft') = Cardinality(ForegroundLeft) + 1
      BY <1>0, <3>1, FS_AddElement
    <3> QED
      BY <1>0, <2>2, <2>3, <2>5, <3>2 DEF CountInv
  <2> QED
    BY <2>4, <2>5
<1>6. ASSUME NEW p, WaitReturns(p) PROVE CountInv'
  <2>1. /\ p \in DOMAIN proc /\ Zombie(p) /\ proc' = [proc EXCEPT ![p].st = "reaped"]
        /\ shell = "wait" /\ shell' # "wait"
    BY <1>6 DEF WaitReturns, NextStage
  <2>2. \/ /\ ~proc[p].bg
           /\ Cardinality(ForegroundLeft') = Cardinality(ForegroundLeft) - 1
           /\ Cardinality(BackgroundReaped') = Cardinality(BackgroundReaped)
        \/ /\ proc[p].bg
           /\ Cardinality(ForegroundLeft') = Cardinality(ForegroundLeft)
           /\ Cardinality(BackgroundReaped') = Cardinality(BackgroundReaped) + 1
    BY <1>0, <2>1, ReapCounts
  <2>3. Cardinality(ForegroundLeft) \in Nat /\ Cardinality(BackgroundReaped) \in Nat
    BY <1>0
  <2> QED
    BY <2>1, <2>2, <2>3 DEF CountInv
<1>7. ASSUME NEW p, FgReturns(p) PROVE CountInv'
  <2>1. /\ p \in DOMAIN proc /\ Zombie(p) /\ proc' = [proc EXCEPT ![p].st = "reaped"]
        /\ shell = "waitpid" /\ shell' # "wait" /\ ~proc[p].bg
    BY <1>7 DEF FgReturns, InShellsGroup, NextStage, JobsInv, BackgroundInv
  <2>2. \/ /\ ~proc[p].bg
           /\ Cardinality(ForegroundLeft') = Cardinality(ForegroundLeft) - 1
           /\ Cardinality(BackgroundReaped') = Cardinality(BackgroundReaped)
        \/ /\ proc[p].bg
           /\ Cardinality(ForegroundLeft') = Cardinality(ForegroundLeft)
           /\ Cardinality(BackgroundReaped') = Cardinality(BackgroundReaped) + 1
    BY <1>0, <2>1, ReapCounts
  <2>3. Cardinality(ForegroundLeft) \in Nat /\ Cardinality(BackgroundReaped) \in Nat
    BY <1>0
  <2> QED
    BY <2>1, <2>2, <2>3 DEF CountInv
<1>8. CASE ControlC \/ ControlZ
  <2>1. ForegroundLeft' = ForegroundLeft /\ BackgroundReaped' = BackgroundReaped
    BY <1>0, <1>8, ControlKeyReapsNone, SameSets DEF ControlC, ControlZ
  <2>2. shell = "prompt" /\ shell' # "wait"
    BY <1>8 DEF ControlC, ControlZ, ControlKey
  <2> QED
    BY <2>1, <2>2 DEF CountInv
<1>9. ASSUME NEW p, Exit(p) PROVE CountInv'
  <2>1. /\ p \in DOMAIN proc /\ Running(p) /\ proc' = [proc EXCEPT ![p].st = "exited"]
        /\ shell' = shell
    BY <1>9 DEF Exit
  <2>2. ForegroundLeft' = ForegroundLeft /\ BackgroundReaped' = BackgroundReaped
    BY <1>0, <2>1, OneProcess, SameSets DEF Running, Reaped
  <2> QED
    BY <2>1, <2>2 DEF CountInv
<1>10. CASE UNCHANGED jobsVars
  BY <1>1, <1>10 DEF jobsVars
<1> QED
  BY <1>2, <1>3, <1>4, <1>5, <1>6, <1>7, <1>8, <1>9, <1>10 DEF JobsNext, ShellStep

(* "Wait if in foreground" (executeJob): at the prompt, no more foreground   *)
(* programs are left than waits have taken background programs instead.      *)
THEOREM WaitsAlwaysMatch == JobsSpec => []WaitsMatch
<1>1. JobsInit => CountInv
  <2> SUFFICES ASSUME JobsInit PROVE CountInv
    OBVIOUS
  <2>1. ForegroundLeft = {} /\ BackgroundReaped = {}
    BY DEF JobsInit, ForegroundLeft, BackgroundReaped
  <2> QED
    BY <2>1, FS_EmptySet DEF CountInv
<1>2. JobsInv /\ CountInv => WaitsMatch
  <2> SUFFICES ASSUME JobsInv, CountInv, shell = "prompt"
               PROVE  Cardinality(ForegroundLeft) <= Cardinality(BackgroundReaped)
    BY DEF WaitsMatch, ForegroundLeft, BackgroundReaped
  <2> QED
    BY CountsFinite DEF CountInv, JobsInv
<1> QED
  BY <1>1, <1>2, JobsSound, CountInductive, PTL DEF JobsSpec
=============================================================================
