---------------------------- MODULE AuditProofs ----------------------------
(***************************************************************************)
(* Theorems of AuditLog and of Auditor, which reads what AuditLog writes.  *)
(*                                                                         *)
(* AuditLog, for any number of clients: lines stay whole.  It owes nothing *)
(* to flock.  What a client has put into its buffer ends with the pieces   *)
(* of the line it is at, and each newline in it closes one event (BufInv), *)
(* even if a handler has gone on with what interrupted code had left       *)
(* there; and only a chat window's pieces can be in the file without a     *)
(* newline behind them (FileInv), since a flush ends with one.             *)
(*                                                                         *)
(* Auditor, for any texts, commands and lengths of the log.  What the      *)
(* filter, the range and the search build (insertSorted) is defined by     *)
(* recursion over the log.  Its equations are derived first (SortedRuns),  *)
(* from the existence of a function that satisfies them on every prefix;   *)
(* then an invariant of the loop (Built) is carried along the log.  It     *)
(* says of every prefix: the list ends with the blank record, holds each   *)
(* named record as often as it was asked for, and is in order.             *)
(***************************************************************************)
EXTENDS MCAuditor, ChatProgramProofs, ListLemmas

-----------------------------------------------------------------------------
(* The audit log. *)
Pieces == [who : {"client", "window"}, of : Client, part : 1 .. 3]

(* Position i of s closes an event of client c. *)
EventAt(s, c, i) ==
  i \in DOMAIN s /\ i >= 3 /\ s[i] = Piece("client", c, 3)
    /\ s[i - 1] = Piece("client", c, 2) /\ s[i - 2] = Piece("client", c, 1)

BufOf(c) ==
  /\ buf[c] \in Seq(Pieces)
  /\ \A i \in DOMAIN buf[c] : buf[c][i].who = "client" /\ buf[c][i].of = c
  /\ \A i \in DOMAIN buf[c] : buf[c][i].part = 3 => EventAt(buf[c], c, i)
  /\ place[c] \notin {"pieces", "unlock"} => put[c] = 0
  /\ place[c] = "unlock" => buf[c] = <<>>
  /\ place[c] # "unlock" =>
       /\ Len(buf[c]) >= put[c]
       /\ \A k \in 1 .. put[c] : buf[c][Len(buf[c]) - put[c] + k] = Piece("client", c, k)
       /\ sigs[c] = 0 => Len(buf[c]) = put[c]
  /\ mx[c] = "here" => put[c] < 3

BufInv == buf \in [Client -> Seq(Pieces)] /\ \A c \in Client : BufOf(c)

(* Position k of s is in the line that position i is in, and not behind it. *)
InLine(s, k, i) == k \in 1 .. i /\ \A m \in k .. i - 1 : s[m].part # 3

WholeAt(s, i) ==
  \/ \E k \in 1 .. i : InLine(s, k, i) /\ s[k].who = "window"
  \/ \E c \in Client :
       /\ EventAt(s, c, i)
       /\ \/ i = 3
          \/ sigs[c] > 0 /\ \A k \in 1 .. i : InLine(s, k, i) => s[k].of = c

FileInv ==
  /\ file \in Seq(Pieces)
  /\ file # <<>> /\ Last(file).part # 3 =>
       \A i \in DOMAIN file : file[i].who = "window" /\ file[i].part # 3
  /\ \A i \in DOMAIN file : file[i].part = 3 => WholeAt(file, i)

Inv == LogTypeOK /\ BufInv /\ FileInv

-----------------------------------------------------------------------------
(* What InLine says of positions is what LineTo cuts out. *)
LEMMA LineCut ==
  ASSUME file \in Seq(Pieces), NEW i \in Ends
  PROVE  \E p \in 0 .. i - 1 :
           /\ LineTo(i) = SubSeq(file, p + 1, i)
           /\ p # 0 => file[p].part = 3
           /\ \A k \in 1 .. i : InLine(file, k, i) <=> k > p
<1> DEFINE S == {0} \cup {j \in Ends : j < i}
           p == Max(S)
<1>1. i \in Nat /\ i >= 1 /\ i \in DOMAIN file /\ DOMAIN file = 1 .. Len(file) /\ Len(file) \in Nat
  BY DEF Ends
<1>2. S \subseteq 0 .. i - 1 /\ S # {} /\ i - 1 \in Nat
  BY <1>1 DEF Ends
<1>3. p \in S /\ \A y \in S : p >= y
  <2> HIDE DEF S
  <2> QED
    BY <1>2, GreatestIs
<1>4. p \in 0 .. i - 1 /\ (p # 0 => file[p].part = 3)
  BY <1>2, <1>3 DEF Ends
<1>5. \A m \in 1 .. i - 1 : file[m].part = 3 => m \in S
  BY <1>1 DEF Ends
<1>6. LineTo(i) = SubSeq(file, p + 1, i)
  BY DEF LineTo
<1> HIDE DEF S, p
<1>7. ASSUME NEW k \in 1 .. i PROVE InLine(file, k, i) <=> k > p
  <2>1. CASE k > p
    <3>1. \A m \in k .. i - 1 : file[m].part # 3
      BY <1>1, <1>3, <1>4, <1>5, <2>1
    <3> QED
      BY <2>1, <3>1 DEF InLine
  <2>2. CASE ~(k > p)
    <3>1. p \in k .. i - 1 /\ p # 0
      BY <1>1, <1>4, <2>2
    <3> QED
      BY <1>4, <2>2, <3>1 DEF InLine
  <2> QED
    BY <2>1, <2>2
<1> QED
  BY <1>4, <1>6, <1>7

LEMMA EventIs ==
  ASSUME NEW c
  PROVE  /\ Event3(c) \in Seq([who : {"client"}, of : {c}, part : 1 .. 3]) /\ Len(Event3(c)) = 3
         /\ \A k \in 1 .. 3 : Event3(c)[k] = Piece("client", c, k)
BY DEF Event3, Piece

LEMMA ThreeSame ==
  ASSUME NEW S, NEW T, NEW s \in Seq(S), NEW t \in Seq(T), Len(s) = 3, Len(t) = 3,
         \A k \in 1 .. 3 : s[k] = t[k]
  PROVE  s = t
<1>1. s = [k \in 1 .. 3 |-> s[k]]
  OBVIOUS
<1>2. t = [k \in 1 .. 3 |-> t[k]]
  OBVIOUS
<1> QED
  BY <1>1, <1>2

LEMMA ReverseIs ==
  ASSUME NEW S, NEW s \in Seq(S)
  PROVE  /\ Reverse(s) \in Seq(S) /\ Len(Reverse(s)) = Len(s)
         /\ \A k \in 1 .. Len(s) : Reverse(s)[k] = s[(Len(s) - k) + 1]
<1> DEFINE n == Len(s)
<1>1. n \in Nat /\ \A k \in 1 .. n : (n - k) + 1 \in 1 .. n
  OBVIOUS
<1>2. \A k \in 1 .. n : s[(n - k) + 1] \in S
  BY <1>1
<1>3. Reverse(s) = [k \in 1 .. n |-> s[(n - k) + 1]]
  BY DEF Reverse
<1> HIDE DEF n
<1>4. Reverse(s) \in Seq(S) /\ Len(Reverse(s)) = n
  BY <1>1, <1>2, <1>3
<1> QED
  BY <1>3, <1>4 DEF n

LEMMA FirstThree ==
  ASSUME NEW S, NEW s \in Seq(S), Len(s) >= 3
  PROVE  /\ SubSeq(s, 1, 3) \in Seq(S) /\ Len(SubSeq(s, 1, 3)) = 3
         /\ \A k \in 1 .. 3 : SubSeq(s, 1, 3)[k] = s[k]
<1>1. Len(s) \in Nat
  OBVIOUS
<1>2. SubSeq(s, 1, 3) = [k \in 1 .. 3 |-> s[k]]
  BY <1>1
<1>3. \A k \in 1 .. 3 : s[k] \in S
  BY <1>1
<1> QED
  BY <1>2, <1>3

LEMMA SuffixIs ==
  ASSUME NEW S, NEW T, NEW s \in Seq(S), NEW t \in Seq(T), Len(s) = 3, Len(t) >= 3,
         \A k \in 1 .. 3 : s[k] = t[Len(t) - 3 + k]
  PROVE  IsSuffix(s, t)
<1> DEFINE n == Len(t)
           rs == Reverse(s)
           rt == Reverse(t)
<1>1. n \in Nat /\ n >= 3
  OBVIOUS
<1>2. /\ rs \in Seq(S) /\ Len(rs) = 3 /\ rt \in Seq(T) /\ Len(rt) = n
      /\ \A k \in 1 .. 3 : rs[k] = s[(3 - k) + 1]
      /\ \A k \in 1 .. n : rt[k] = t[(n - k) + 1]
  <2>1. /\ rs \in Seq(S) /\ Len(rs) = Len(s)
        /\ \A k \in 1 .. Len(s) : rs[k] = s[(Len(s) - k) + 1]
    BY ReverseIs
  <2>2. /\ rt \in Seq(T) /\ Len(rt) = Len(t)
        /\ \A k \in 1 .. Len(t) : rt[k] = t[(Len(t) - k) + 1]
    BY ReverseIs
  <2> QED
    BY <2>1, <2>2
<1>3. \A k \in 1 .. 3 : s[k] = t[n - 3 + k]
  OBVIOUS
<1> HIDE DEF n, rs, rt
<1>4. ASSUME NEW k \in 1 .. 3 PROVE rs[k] = rt[k]
  <2>1. (3 - k) + 1 \in 1 .. 3 /\ n - 3 + ((3 - k) + 1) = (n - k) + 1 /\ k \in 1 .. n
    BY <1>1
  <2> QED
    BY <1>2, <1>3, <2>1
<1> DEFINE a == SubSeq(rs, 1, 3)
           b == SubSeq(rt, 1, 3)
<1>5. a \in Seq(S) /\ Len(a) = 3 /\ \A k \in 1 .. 3 : a[k] = rs[k]
  <2>1. rs \in Seq(S) /\ Len(rs) >= 3
    BY <1>2
  <2> QED
    BY <2>1, FirstThree
<1>6. b \in Seq(T) /\ Len(b) = 3 /\ \A k \in 1 .. 3 : b[k] = rt[k]
  <2>1. rt \in Seq(T)
    BY <1>2
  <2>2. Len(rt) >= 3
    BY <1>1, <1>2
  <2> QED
    BY <2>1, <2>2, FirstThree
<1> HIDE DEF a, b
<1>7. a = b
  <2>1. \A k \in 1 .. 3 : a[k] = b[k]
    BY <1>4, <1>5, <1>6
  <2> QED
    BY <1>5, <1>6, <2>1, ThreeSame
<1> QED
  BY <1>1, <1>2, <1>7 DEF IsPrefix, IsSuffix, a, b, rs, rt, n

LEMMA InvWhole == Inv => LinesWhole
<1> SUFFICES ASSUME Inv, NEW i \in Ends
             PROVE  \/ \E piece \in Range(LineTo(i)) : piece.who = "window"
                    \/ \E c \in Client :
                         \/ LineTo(i) = Event3(c)
                         \/ sigs[c] > 0 /\ IsSuffix(Event3(c), LineTo(i))
                              /\ \A piece \in Range(LineTo(i)) : piece.of = c
  BY DEF LinesWhole
<1>1. file \in Seq(Pieces) /\ WholeAt(file, i) /\ i \in 1 .. Len(file) /\ Len(file) \in Nat
  BY DEF Inv, FileInv, Ends
<1>2. PICK p \in 0 .. i - 1 : /\ LineTo(i) = SubSeq(file, p + 1, i)
                              /\ p # 0 => file[p].part = 3
                              /\ \A k \in 1 .. i : InLine(file, k, i) <=> k > p
  BY <1>1, LineCut
<1> DEFINE line == LineTo(i)
<1>3. /\ line \in Seq(Pieces) /\ Len(line) = i - p
      /\ \A k \in 1 .. i - p : line[k] = file[p + k]
  BY <1>1, <1>2
<1> HIDE DEF line, Pieces
<1>4. DOMAIN line = 1 .. i - p /\ i \in Nat /\ p \in Nat /\ p < i
  BY <1>1, <1>2, <1>3
<1>5. \A k \in 1 .. i : k > p => file[k] \in Range(line)
  <2> SUFFICES ASSUME NEW k \in 1 .. i, k > p PROVE file[k] \in Range(line)
    OBVIOUS
  <2>1. k - p \in 1 .. i - p /\ p + (k - p) = k
    BY <1>4
  <2> QED
    BY <1>3, <1>4, <2>1 DEF Range
<1>6. \A piece \in Range(line) : \E k \in 1 .. i : k > p /\ piece = file[k]
  <2> SUFFICES ASSUME NEW k \in 1 .. i - p PROVE p + k \in 1 .. i /\ p + k > p
    BY <1>3, <1>4 DEF Range
  <2> QED
    BY <1>4
<1>7. CASE \E k \in 1 .. i : InLine(file, k, i) /\ file[k].who = "window"
  BY <1>2, <1>5, <1>7 DEF line
<1>8. ASSUME NEW c \in Client, EventAt(file, c, i),
             \/ i = 3
             \/ sigs[c] > 0 /\ \A k \in 1 .. i : InLine(file, k, i) => file[k].of = c
      PROVE  \/ line = Event3(c)
             \/ sigs[c] > 0 /\ IsSuffix(Event3(c), line) /\ \A piece \in Range(line) : piece.of = c
  <2>1. /\ i >= 3 /\ file[i] = Piece("client", c, 3) /\ file[i - 1] = Piece("client", c, 2)
        /\ file[i - 2] = Piece("client", c, 1)
    BY <1>8 DEF EventAt
  <2>2. file[i - 1].part = 2 /\ file[i - 2].part = 1
    BY <2>1 DEF Piece
  <2>3. p <= i - 3
    <3>1. p # i - 1 /\ p # i - 2
      BY <1>2, <1>4, <2>1, <2>2
    <3> QED
      BY <1>4, <2>1, <3>1
  <2>4. \A k \in 1 .. 3 : Event3(c)[k] = line[(i - p) - 3 + k]
    <3>1. /\ line[(i - p) - 2] = file[i - 2] /\ line[(i - p) - 1] = file[i - 1]
          /\ line[i - p] = file[i]
      <4>1. /\ (i - p) - 2 \in 1 .. i - p /\ p + ((i - p) - 2) = i - 2
            /\ (i - p) - 1 \in 1 .. i - p /\ p + ((i - p) - 1) = i - 1
            /\ i - p \in 1 .. i - p /\ p + (i - p) = i
        BY <1>4, <2>3
      <4> QED
        BY <1>3, <4>1
    <3>2. /\ (i - p) - 3 + 1 = (i - p) - 2 /\ (i - p) - 3 + 2 = (i - p) - 1
          /\ (i - p) - 3 + 3 = i - p
      BY <1>4
    <3>3. /\ Event3(c)[1] = Piece("client", c, 1) /\ Event3(c)[2] = Piece("client", c, 2)
          /\ Event3(c)[3] = Piece("client", c, 3)
      BY DEF Event3
    <3>4. \A k \in 1 .. 3 : k = 1 \/ k = 2 \/ k = 3
      OBVIOUS
    <3> QED
      BY <2>1, <3>1, <3>2, <3>3, <3>4
  <2>5. CASE i = 3
    <3>1. p = 0
      BY <1>4, <2>3, <2>5
    <3>2. Len(line) = 3 /\ \A k \in 1 .. 3 : Event3(c)[k] = line[k]
      BY <1>3, <2>4, <2>5, <3>1
    <3>3. Event3(c) \in Seq([who : {"client"}, of : {c}, part : 1 .. 3]) /\ Len(Event3(c)) = 3
      BY EventIs
    <3>4. line = Event3(c)
      BY <1>3, <3>2, <3>3, ThreeSame
    <3> QED
      BY <3>4
  <2>6. CASE sigs[c] > 0 /\ \A k \in 1 .. i : InLine(file, k, i) => file[k].of = c
    <3>1. IsSuffix(Event3(c), line)
      <4>1. Event3(c) \in Seq([who : {"client"}, of : {c}, part : 1 .. 3]) /\ Len(Event3(c)) = 3
        BY EventIs
      <4>2. Len(line) >= 3 /\ \A k \in 1 .. 3 : Event3(c)[k] = line[Len(line) - 3 + k]
        BY <1>3, <1>4, <2>3, <2>4
      <4> QED
        BY <1>3, <4>1, <4>2, SuffixIs
    <3>2. \A piece \in Range(line) : piece.of = c
      BY <1>2, <1>6, <2>6
    <3> QED
      BY <2>6, <3>1, <3>2
  <2> QED
    BY <1>8, <2>5, <2>6
<1>9. CASE \E c \in Client :
             /\ EventAt(file, c, i)
             /\ \/ i = 3
                \/ sigs[c] > 0 /\ \A k \in 1 .. i : InLine(file, k, i) => file[k].of = c
  BY <1>8, <1>9 DEF line
<1> QED
  BY <1>1, <1>7, <1>9 DEF WholeAt

-----------------------------------------------------------------------------
(* What a step does to the file. *)
Base == IF file # <<>> /\ Last(file).part = 3 THEN <<>> ELSE file

LEMMA BaseIs ==
  ASSUME FileInv
  PROVE  Base \in Seq(Pieces) /\ \A i \in DOMAIN Base : Base[i].who = "window" /\ Base[i].part # 3
<1>1. CASE file # <<>> /\ Last(file).part = 3
  BY <1>1 DEF Base
<1>2. CASE file = <<>>
  <2>1. Base = <<>>
    BY <1>2 DEF Base
  <2> QED
    BY <2>1
<1>3. CASE file # <<>> /\ Last(file).part # 3
  <2>1. Base = file
    BY <1>3 DEF Base
  <2> QED
    BY <1>3, <2>1 DEF FileInv
<1> QED
  BY <1>1, <1>2, <1>3

LEMMA SameFile ==
  ASSUME FileInv, file' = file, \A c \in Client : sigs[c] > 0 => sigs'[c] > 0
  PROVE  FileInv'
BY DEF FileInv, WholeAt, EventAt, InLine

LEMMA FlushFile ==
  ASSUME Inv, NEW c \in Client, place[c] = "pieces", put[c] = 3, Write(buf[c]), sigs' = sigs
  PROVE  FileInv'
<1> DEFINE a == Base
           b == buf[c]
           s == a \o b
<1>1. file' = s
  BY DEF Write, Base
<1>2. /\ a \in Seq(Pieces) /\ Len(a) \in Nat
      /\ \A i \in 1 .. Len(a) : a[i].who = "window" /\ a[i].part # 3
  BY BaseIs DEF Inv
<1>3. BufOf(c) /\ b \in Seq(Pieces) /\ Len(b) \in Nat /\ DOMAIN b = 1 .. Len(b)
  <2>1. BufOf(c)
    BY DEF Inv, BufInv
  <2>2. b \in Seq(Pieces)
    BY <2>1 DEF BufOf
  <2> HIDE DEF b, Pieces
  <2> QED
    BY <2>1, <2>2
<1>4. /\ \A i \in 1 .. Len(b) : b[i].who = "client" /\ b[i].of = c
      /\ \A i \in 1 .. Len(b) : b[i].part = 3 => EventAt(b, c, i)
      /\ Len(b) >= 3 /\ \A k \in 1 .. 3 : b[(Len(b) - 3) + k] = Piece("client", c, k)
      /\ sigs[c] = 0 => Len(b) = 3
  BY <1>3 DEF BufOf
<1> HIDE DEF a, b
<1>5. /\ s \in Seq(Pieces) /\ Len(s) = Len(a) + Len(b)
      /\ \A k \in 1 .. Len(a) : s[k] = a[k]
      /\ \A k \in 1 .. Len(b) : s[Len(a) + k] = b[k]
  BY <1>2, <1>3, Joined
<1> HIDE DEF s
<1>6. DOMAIN s = 1 .. Len(a) + Len(b)
  BY <1>5
<1>7. s # <<>> /\ Last(s).part = 3
  <2>1. 3 \in 1 .. 3 /\ (Len(b) - 3) + 3 = Len(b) /\ Len(b) \in 1 .. Len(b)
    BY <1>3, <1>4
  <2>2. b[Len(b)].part = 3
    BY <1>4, <2>1 DEF Piece
  <2>3. Last(s) = b[Len(b)]
    BY <1>5, <2>1 DEF Last
  <2>4. s # <<>>
    BY <1>2, <1>3, <1>4, <1>5
  <2> QED
    BY <2>2, <2>3, <2>4
<1>8. ASSUME NEW i \in DOMAIN s, s[i].part = 3 PROVE WholeAt(s, i)
  <2>1. PICK j \in 1 .. Len(b) : i = Len(a) + j /\ s[i] = b[j]
    <3>1. CASE i <= Len(a)
      <4>1. i \in 1 .. Len(a)
        BY <1>2, <1>3, <1>6, <3>1
      <4> QED
        BY <1>2, <1>5, <1>8, <4>1
    <3>2. CASE i > Len(a)
      <4>1. i - Len(a) \in 1 .. Len(b) /\ i = Len(a) + (i - Len(a))
        BY <1>2, <1>3, <1>6, <3>2
      <4> QED
        BY <1>5, <4>1
    <3> QED
      BY <1>2, <1>6, <3>1, <3>2
  <2>2. EventAt(b, c, j)
    BY <1>4, <1>8, <2>1
  <2>3. /\ j >= 3 /\ b[j] = Piece("client", c, 3) /\ b[j - 1] = Piece("client", c, 2)
        /\ b[j - 2] = Piece("client", c, 1)
    BY <2>2 DEF EventAt
  <2>4. /\ j - 1 \in 1 .. Len(b) /\ j - 2 \in 1 .. Len(b) /\ i >= 3
        /\ i - 1 = Len(a) + (j - 1) /\ i - 2 = Len(a) + (j - 2)
    BY <1>2, <1>3, <2>1, <2>3
  <2>5. s[i - 1] = b[j - 1] /\ s[i - 2] = b[j - 2]
    BY <1>5, <2>4
  <2>6. EventAt(s, c, i)
    BY <2>1, <2>3, <2>4, <2>5 DEF EventAt
  <2>7. CASE \E k \in 1 .. i : InLine(s, k, i) /\ s[k].who = "window"
    BY <2>7 DEF WholeAt
  <2>8. CASE ~ \E k \in 1 .. i : InLine(s, k, i) /\ s[k].who = "window"
    <3>1. CASE sigs[c] > 0
      <4>1. ASSUME NEW k \in 1 .. i, InLine(s, k, i) PROVE s[k].of = c
        <5>1. ~(k <= Len(a))
          <6>1. SUFFICES ASSUME k <= Len(a) PROVE FALSE
            OBVIOUS
          <6>2. k \in 1 .. Len(a)
            BY <1>2, <6>1
          <6>3. s[k].who = "window"
            BY <1>2, <1>5, <6>2
          <6> QED
            BY <2>8, <4>1, <6>3
        <5>2. k - Len(a) \in 1 .. Len(b) /\ k = Len(a) + (k - Len(a))
          BY <1>2, <1>3, <2>1, <5>1
        <5>3. PICK m \in 1 .. Len(b) : k = Len(a) + m
          BY <5>2
        <5>4. s[k] = b[m]
          BY <1>5, <5>3
        <5>5. b[m].of = c
          BY <1>4
        <5> QED
          BY <5>4, <5>5
      <4> QED
        BY <2>6, <3>1, <4>1 DEF WholeAt
    <3>2. CASE ~(sigs[c] > 0)
      <4>1. sigs[c] = 0
        BY <3>2, AuditLogAssumption DEF Inv, LogTypeOK
      <4>2. j = 3 /\ Len(b) = 3
        <5>1. Len(b) = 3
          BY <1>4, <4>1
        <5> QED
          BY <2>1, <2>3, <5>1
      <4>3. CASE Len(a) = 0
        <5>1. i = 3
          BY <2>1, <4>2, <4>3
        <5> QED
          BY <2>6, <5>1 DEF WholeAt
      <4>4. CASE Len(a) # 0
        <5>1. Len(a) \in 1 .. Len(a) /\ Len(a) \in 1 .. i /\ i - 3 = Len(a)
          BY <1>2, <2>1, <4>2, <4>4
        <5>2. s[Len(a)].who = "window" /\ s[Len(a)].part # 3
          BY <1>2, <1>5, <5>1
        <5>3. s[i - 1].part # 3 /\ s[i - 2].part # 3
          BY <2>3, <2>5 DEF Piece
        <5>4. \A m \in Len(a) .. i - 1 : m = Len(a) \/ m = i - 1 \/ m = i - 2
          BY <1>2, <2>1, <4>2
        <5>5. InLine(s, Len(a), i)
          BY <5>1, <5>2, <5>3, <5>4 DEF InLine
        <5> QED
          BY <2>8, <5>1, <5>2, <5>5
      <4> QED
        BY <4>3, <4>4
    <3> QED
      BY <3>1, <3>2
  <2> QED
    BY <2>7, <2>8
<1> QED
  <2>1. \A i \in DOMAIN file' : file'[i].part = 3 => WholeAt(file, i)'
    BY <1>1, <1>8 DEF WholeAt, InLine, EventAt
  <2> QED
    BY <1>1, <1>5, <1>7, <2>1 DEF FileInv

LEMMA WindowFile ==
  ASSUME Inv, NEW c \in Client, NEW n \in 1 .. 3, Write(<<Piece("window", c, n)>>), sigs' = sigs
  PROVE  FileInv'
<1> DEFINE a == Base
           b == <<Piece("window", c, n)>>
           s == a \o b
           last == Len(a) + 1
<1>1. file' = s
  BY DEF Write, Base
<1>2. /\ a \in Seq(Pieces) /\ Len(a) \in Nat
      /\ \A i \in 1 .. Len(a) : a[i].who = "window" /\ a[i].part # 3
  BY BaseIs DEF Inv
<1>3. b \in Seq(Pieces) /\ Len(b) = 1 /\ b[1].who = "window" /\ b[1].part = n
  BY DEF Piece, Pieces
<1> HIDE DEF a, b
<1>4. /\ s \in Seq(Pieces) /\ Len(s) = Len(a) + Len(b)
      /\ \A k \in 1 .. Len(a) : s[k] = a[k]
      /\ \A k \in 1 .. Len(b) : s[Len(a) + k] = b[k]
  BY <1>2, <1>3, Joined
<1> HIDE DEF s
<1>5. DOMAIN s = 1 .. last /\ Len(s) = last /\ last \in Nat /\ last \in 1 .. last
  BY <1>2, <1>3, <1>4
<1>6. s[last].who = "window" /\ s[last].part = n
  BY <1>3, <1>4
<1>7. \A k \in 1 .. last : k = last \/ k \in 1 .. Len(a)
  BY <1>2
<1>8. \A k \in 1 .. last : s[k].who = "window" /\ (s[k].part = 3 => k = last)
  BY <1>2, <1>4, <1>6, <1>7
<1>9. s # <<>> /\ Last(s) = s[last]
  BY <1>4, <1>5 DEF Last
<1> HIDE DEF last
<1>10. ASSUME s # <<>>, Last(s).part # 3, NEW i \in DOMAIN s
       PROVE  s[i].who = "window" /\ s[i].part # 3
  BY <1>5, <1>8, <1>9, <1>10
<1>11. ASSUME NEW i \in DOMAIN s, s[i].part = 3 PROVE WholeAt(s, i)
  <2>1. i = last
    BY <1>5, <1>8, <1>11
  <2>2. InLine(s, i, i)
    BY <1>5, <2>1 DEF InLine
  <2> QED
    BY <1>5, <1>6, <2>1, <2>2 DEF WholeAt
<1> QED
  <2>1. \A i \in DOMAIN file' : file'[i].part = 3 => WholeAt(file, i)'
    BY <1>1, <1>11 DEF WholeAt, InLine, EventAt
  <2> QED
    BY <1>1, <1>4, <1>10, <2>1 DEF FileInv

-----------------------------------------------------------------------------
(* What a step does to the buffers.  Every action is one client's. *)
LEMMA BufFrame ==
  ASSUME BufInv, NEW c \in Client, buf' \in [Client -> Seq(Pieces)],
         \A d \in Client : d # c =>
           /\ buf'[d] = buf[d] /\ place'[d] = place[d] /\ put'[d] = put[d]
           /\ sigs'[d] = sigs[d] /\ mx'[d] = mx[d],
         BufOf(c)'
  PROVE  BufInv'
<1>1. ASSUME NEW d \in Client PROVE BufOf(d)'
  <2>1. BufOf(d)
    BY DEF BufInv
  <2>2. CASE d = c
    BY <2>2
  <2>3. CASE d # c
    BY <2>1, <2>3 DEF BufOf, EventAt
  <2> QED
    BY <2>2, <2>3
<1> QED
  BY <1>1 DEF BufInv

(* The buffer itself stays, and the client is as far into its line, or at a  *)
(* new one.                                                                  *)
LEMMA BufKept ==
  ASSUME BufInv, NEW c \in Client, LogTypeOK, LogTypeOK', buf' = buf,
         \A d \in Client : d # c =>
           place'[d] = place[d] /\ put'[d] = put[d] /\ sigs'[d] = sigs[d] /\ mx'[d] = mx[d],
         place'[c] # "unlock",
         \/ /\ put'[c] = put[c] /\ sigs'[c] = sigs[c] /\ place[c] # "unlock"
            /\ place'[c] # "pieces" => put[c] = 0
            /\ mx'[c] = "here" => put[c] < 3
         \/ /\ put'[c] = 0
            /\ sigs'[c] = 0 => buf[c] = <<>>
  PROVE  BufInv'
<1>1. BufOf(c) /\ buf \in [Client -> Seq(Pieces)]
  BY DEF BufInv
<1>2. put[c] \in Nat /\ sigs[c] \in Nat
  BY AuditLogAssumption DEF LogTypeOK
<1>3. /\ buf'[c] \in Seq(Pieces)
      /\ \A i \in DOMAIN buf'[c] : buf'[c][i].who = "client" /\ buf'[c][i].of = c
  BY <1>1 DEF BufOf
<1>4. Len(buf[c]) \in Nat
  <2>1. buf[c] \in Seq(Pieces)
    BY <1>1
  <2> HIDE DEF Pieces
  <2> QED
    BY <2>1
<1>5. \A i \in DOMAIN buf'[c] : buf'[c][i].part = 3 => EventAt(buf[c], c, i)'
  BY <1>1 DEF BufOf, EventAt
<1>6. /\ Len(buf'[c]) >= put'[c]
      /\ \A k \in 1 .. put'[c] : buf'[c][Len(buf'[c]) - put'[c] + k] = Piece("client", c, k)
      /\ sigs'[c] = 0 => Len(buf'[c]) = put'[c]
  <2>1. CASE put'[c] = put[c] /\ sigs'[c] = sigs[c] /\ place[c] # "unlock"
    BY <1>1, <2>1 DEF BufOf
  <2>2. CASE put'[c] = 0 /\ (sigs'[c] = 0 => buf[c] = <<>>)
    BY <1>4, <2>2
  <2> QED
    BY <2>1, <2>2
<1>7. (mx'[c] = "here" => put'[c] < 3) /\ (place'[c] \notin {"pieces", "unlock"} => put'[c] = 0)
  OBVIOUS
<1>8. BufOf(c)'
  BY <1>3, <1>5, <1>6, <1>7 DEF BufOf
<1> QED
  BY <1>1, <1>8, BufFrame

(* The buffer is emptied, at the end of a line or of the client. *)
LEMMA BufEmptied ==
  ASSUME BufInv, NEW c \in Client, LogTypeOK, buf' = [buf EXCEPT ![c] = <<>>],
         \A d \in Client : d # c =>
           place'[d] = place[d] /\ put'[d] = put[d] /\ sigs'[d] = sigs[d] /\ mx'[d] = mx[d],
         mx'[c] # "here",
         \/ place'[c] = "unlock"
         \/ place'[c] # "unlock" /\ put'[c] = 0
  PROVE  BufInv'
<1>1. buf \in [Client -> Seq(Pieces)]
  BY DEF BufInv
<1>2. /\ buf' \in [Client -> Seq(Pieces)] /\ buf'[c] = <<>>
      /\ \A d \in Client : d # c => buf'[d] = buf[d]
  <2>1. <<>> \in Seq(Pieces)
    OBVIOUS
  <2> HIDE DEF Pieces
  <2> QED
    BY <1>1, <2>1
<1>3. BufOf(c)'
  BY <1>2 DEF BufOf
<1> QED
  BY <1>2, <1>3, BufFrame

(* A piece is added. *)
LEMMA BufGrows ==
  ASSUME BufInv, NEW c \in Client, LogTypeOK, Put(c)
  PROVE  BufInv'
<1> DEFINE b == buf[c]
           n == Len(b)
           x == ClientPiece(c)
           t == Append(b, x)
<1>1. BufOf(c) /\ buf \in [Client -> Seq(Pieces)]
  BY DEF BufInv
<1>2. /\ place[c] = "pieces" /\ mx[c] = "here" /\ put[c] \in 0 .. 2 /\ place' = place
      /\ sigs' = sigs /\ put'[c] = put[c] + 1 /\ mx'[c] = "free"
      /\ buf' = [buf EXCEPT ![c] = t]
      /\ \A d \in Client : d # c => put'[d] = put[d] /\ mx'[d] = mx[d]
  BY <1>1 DEF Put, Is, BufOf, LogTypeOK
<1>3. x \in Pieces /\ x = Piece("client", c, put[c] + 1)
  BY <1>2 DEF ClientPiece, Piece, Pieces
<1>4. /\ b \in Seq(Pieces)
      /\ \A i \in DOMAIN b : b[i].who = "client" /\ b[i].of = c
      /\ \A i \in DOMAIN b : b[i].part = 3 => EventAt(b, c, i)
      /\ n >= put[c] /\ \A k \in 1 .. put[c] : b[n - put[c] + k] = Piece("client", c, k)
      /\ sigs[c] = 0 => n = put[c]
  BY <1>1, <1>2 DEF BufOf
<1>5. /\ t \in Seq(Pieces) /\ Len(t) = n + 1 /\ n \in Nat /\ DOMAIN b = 1 .. n
      /\ DOMAIN t = 1 .. n + 1
      /\ t[n + 1] = x /\ \A i \in 1 .. n : t[i] = b[i]
  <2> HIDE DEF Pieces, x, b
  <2> QED
    BY <1>3, <1>4
<1>6. /\ buf' \in [Client -> Seq(Pieces)] /\ buf'[c] = t
      /\ \A d \in Client : d # c => buf'[d] = buf[d]
  <2> HIDE DEF Pieces, t
  <2> QED
    BY <1>1, <1>2, <1>5
<1> HIDE DEF t, b, n, x
<1>7. \A i \in 1 .. n + 1 : i = n + 1 \/ i \in 1 .. n
  BY <1>5
<1>8. x.who = "client" /\ x.of = c /\ x.part = put[c] + 1
  BY <1>3 DEF Piece
<1>9. \A i \in DOMAIN t : t[i].who = "client" /\ t[i].of = c
  BY <1>4, <1>5, <1>7, <1>8
<1>10. \A k \in 1 .. put[c] + 1 : t[(n + 1) - (put[c] + 1) + k] = Piece("client", c, k)
  <2> SUFFICES ASSUME NEW k \in 1 .. put[c] + 1
               PROVE  t[(n + 1) - (put[c] + 1) + k] = Piece("client", c, k)
    OBVIOUS
  <2>1. CASE k = put[c] + 1
    <3>1. (n + 1) - (put[c] + 1) + k = n + 1
      BY <1>2, <1>5, <2>1
    <3> QED
      BY <1>3, <1>5, <2>1, <3>1
  <2>2. CASE k # put[c] + 1
    <3>1. k \in 1 .. put[c] /\ n - put[c] + k \in 1 .. n
          /\ (n + 1) - (put[c] + 1) + k = n - put[c] + k
      BY <1>2, <1>4, <1>5, <2>2
    <3> QED
      BY <1>4, <1>5, <3>1
  <2> QED
    BY <2>1, <2>2
<1>11. ASSUME NEW i \in DOMAIN t, t[i].part = 3 PROVE EventAt(t, c, i)
  <2>1. CASE i = n + 1
    <3>1. put[c] = 2
      BY <1>2, <1>5, <1>8, <1>11, <2>1
    <3>2. t[(n + 1) - 3 + 1] = Piece("client", c, 1) /\ t[(n + 1) - 3 + 2] = Piece("client", c, 2)
          /\ t[(n + 1) - 3 + 3] = Piece("client", c, 3)
      BY <1>10, <3>1
    <3>3. /\ (n + 1) - 3 + 1 = i - 2 /\ (n + 1) - 3 + 2 = i - 1 /\ (n + 1) - 3 + 3 = i
          /\ i >= 3
      BY <1>4, <1>5, <2>1, <3>1
    <3> QED
      BY <3>2, <3>3 DEF EventAt
  <2>2. CASE i \in 1 .. n
    <3>1. EventAt(b, c, i)
      BY <1>4, <1>5, <1>11, <2>2
    <3>2. i - 1 \in 1 .. n /\ i - 2 \in 1 .. n
      BY <1>5, <2>2, <3>1 DEF EventAt
    <3> QED
      BY <1>5, <2>2, <3>1, <3>2 DEF EventAt
  <2> QED
    BY <1>5, <1>7, <2>1, <2>2
<1>12. BufOf(c)'
  <2>1. /\ Len(buf'[c]) >= put'[c]
        /\ \A k \in 1 .. put'[c] : buf'[c][Len(buf'[c]) - put'[c] + k] = Piece("client", c, k)
        /\ sigs'[c] = 0 => Len(buf'[c]) = put'[c]
    BY <1>2, <1>4, <1>5, <1>6, <1>10
  <2>2. \A i \in DOMAIN buf'[c] : buf'[c][i].part = 3 => EventAt(buf[c], c, i)'
    BY <1>6, <1>11 DEF EventAt
  <2> QED
    BY <1>2, <1>5, <1>6, <1>9, <2>1, <2>2 DEF BufOf
<1> QED
  BY <1>2, <1>6, <1>12, BufFrame

LEMMA BufSame ==
  ASSUME BufInv, UNCHANGED <<buf, place, put, sigs, mx>>
  PROVE  BufInv'
BY DEF BufInv, BufOf, EventAt

-----------------------------------------------------------------------------
(* The invariant, action by action. *)
LEMMA LogTypeStep ==
  ASSUME LogTypeOK, BufInv, LogNext
  PROVE  LogTypeOK'
<1> PICK c \in Client :
      \/ Begin(c) \/ Lock(c) \/ TakeMutex(c) \/ Put(c) \/ Flush(c) \/ Unlock(c) \/ Logout(c)
      \/ BeginAudit(c) \/ EndAudit(c)
      \/ Signal(c) \/ KillClient(c)
      \/ OpenWindow(c) \/ WindowWrites(c) \/ WindowShut(c)
  BY DEF LogNext
<1> USE DEF LogTypeOK, Is
<1>1. CASE Begin(c)
  BY <1>1 DEF Begin
<1>2. CASE Lock(c)
  BY <1>2, AuditLogAssumption DEF Lock
<1>3. CASE TakeMutex(c)
  BY <1>3 DEF TakeMutex
<1>4. CASE Put(c)
  <2>1. put[c] \in 0 .. 2
    BY <1>4 DEF BufInv, BufOf, Put
  <2> QED
    BY <1>4, <2>1 DEF Put
<1>5. CASE Flush(c)
  BY <1>5 DEF Flush
<1>6. CASE Unlock(c)
  BY <1>6 DEF Unlock
<1>7. CASE Logout(c)
  BY <1>7 DEF Logout, Dead, Released
<1>8. CASE BeginAudit(c)
  BY <1>8, AuditLogAssumption DEF BeginAudit
<1>9. CASE EndAudit(c)
  BY <1>9 DEF EndAudit
<1>10. CASE Signal(c)
  <2>1. sigs'[c] \in 0 .. MaxSignals
    BY <1>10, AuditLogAssumption DEF Signal
  <2> QED
    BY <1>10, <2>1 DEF Signal
<1>11. CASE KillClient(c)
  BY <1>11 DEF KillClient, Dead, Released
<1>12. CASE OpenWindow(c)
  BY <1>12 DEF OpenWindow
<1>13. CASE WindowWrites(c)
  BY <1>13 DEF WindowWrites, Written, Released
<1>14. CASE WindowShut(c)
  BY <1>14 DEF WindowShut, Released
<1> QED
  BY <1>1, <1>2, <1>3, <1>4, <1>5, <1>6, <1>7, <1>8, <1>9, <1>10, <1>11, <1>12, <1>13, <1>14

LEMMA InvStep ==
  ASSUME Inv, [LogNext]_logVars
  PROVE  Inv'
<1>1. CASE UNCHANGED logVars
  <2>1. LogTypeOK'
    BY <1>1 DEF Inv, LogTypeOK, logVars
  <2>2. BufInv'
    BY <1>1, BufSame DEF Inv, logVars
  <2>3. FileInv'
    BY <1>1, SameFile DEF Inv, logVars
  <2> QED
    BY <2>1, <2>2, <2>3 DEF Inv
<1>2. CASE LogNext
  <2>1. LogTypeOK /\ BufInv /\ FileInv /\ LogTypeOK'
    BY <1>2, LogTypeStep DEF Inv
  <2>2. PICK c \in Client :
      \/ Begin(c) \/ Lock(c) \/ TakeMutex(c) \/ Put(c) \/ Flush(c) \/ Unlock(c) \/ Logout(c)
      \/ BeginAudit(c) \/ EndAudit(c)
      \/ Signal(c) \/ KillClient(c)
      \/ OpenWindow(c) \/ WindowWrites(c) \/ WindowShut(c)
    BY <1>2 DEF LogNext
  <2>3. /\ place[c] \notin {"pieces", "unlock"} => put[c] = 0
        /\ place[c] = "unlock" => buf[c] = <<>>
        /\ mx[c] = "here" => put[c] < 3
        /\ put[c] \in Nat
    <3>1. put[c] \in Nat
      BY <2>1 DEF LogTypeOK
    <3>2. BufOf(c)
      BY <2>1 DEF BufInv
    <3> QED
      BY <3>1, <3>2 DEF BufOf
  <2>4. CASE Begin(c)
    <3>1. BufInv'
      <4>1. /\ buf' = buf /\ place'[c] = "lock"
            /\ \A d \in Client : d # c => place'[d] = place[d]
            /\ UNCHANGED <<put, mx, sigs>>
        BY <2>1, <2>4 DEF Begin, Is, LogTypeOK
      <4>2. place[c] # "unlock" /\ put[c] = 0
        BY <2>1, <2>3, <2>4 DEF Begin, Is, LogTypeOK
      <4> QED
        BY <2>1, <2>3, <4>1, <4>2, BufKept
    <3>2. FileInv'
      BY <2>1, <2>4, SameFile DEF Begin
    <3> QED
      BY <2>1, <3>1, <3>2 DEF Inv
  <2>5. CASE Lock(c)
    <3>1. BufInv'
      <4>1. /\ buf' = buf /\ place'[c] = "pieces"
            /\ \A d \in Client : d # c => place'[d] = place[d]
            /\ UNCHANGED <<put, mx, sigs>>
        BY <2>1, <2>5 DEF Lock, Is, LogTypeOK
      <4>2. place[c] # "unlock" /\ put[c] = 0
        BY <2>1, <2>3, <2>5 DEF Lock, Is, LogTypeOK
      <4> QED
        BY <2>1, <2>3, <4>1, <4>2, BufKept
    <3>2. FileInv'
      BY <2>1, <2>5, SameFile DEF Lock
    <3> QED
      BY <2>1, <3>1, <3>2 DEF Inv
  <2>6. CASE TakeMutex(c)
    <3>1. BufInv'
      <4>1. /\ buf' = buf /\ place'[c] = "pieces" /\ place[c] = "pieces"
            /\ UNCHANGED <<place, put, sigs>>
            /\ \A d \in Client : d # c => mx'[d] = mx[d]
        BY <2>1, <2>6 DEF TakeMutex, Is, LogTypeOK
      <4>2. put[c] < 3
        BY <2>6 DEF TakeMutex
      <4> QED
        BY <2>1, <4>1, <4>2, BufKept
    <3>2. FileInv'
      BY <2>1, <2>6, SameFile DEF TakeMutex
    <3> QED
      BY <2>1, <3>1, <3>2 DEF Inv
  <2>7. CASE Put(c)
    <3>1. BufInv'
      BY <2>1, <2>7, BufGrows
    <3>2. FileInv'
      BY <2>1, <2>7, SameFile DEF Put
    <3> QED
      BY <2>1, <3>1, <3>2 DEF Inv
  <2>8. CASE Flush(c)
    <3>1. BufInv'
      <4>1. /\ buf' = [buf EXCEPT ![c] = <<>>] /\ mx'[c] # "here" /\ place'[c] = "unlock"
            /\ \A d \in Client : d # c =>
                 place'[d] = place[d] /\ put'[d] = put[d] /\ sigs'[d] = sigs[d] /\ mx'[d] = mx[d]
        BY <2>1, <2>3, <2>8 DEF Flush, LogTypeOK
      <4> QED
        BY <2>1, <4>1, BufEmptied
    <3>2. FileInv'
      BY <2>8, FlushFile DEF Flush, Is
    <3> QED
      BY <2>1, <3>1, <3>2 DEF Inv
  <2>9. CASE Unlock(c)
    <3>1. BufInv'
      <4>1. /\ buf' = buf /\ place'[c] # "unlock" /\ put'[c] = 0
            /\ \A d \in Client : d # c => place'[d] = place[d] /\ put'[d] = put[d]
            /\ UNCHANGED <<mx, sigs>>
        BY <2>1, <2>9 DEF Unlock, Is, LogTypeOK
      <4>2. buf[c] = <<>>
        BY <2>3, <2>9 DEF Unlock, Is
      <4> QED
        BY <2>1, <4>1, <4>2, BufKept
    <3>2. FileInv'
      BY <2>1, <2>9, SameFile DEF Unlock
    <3> QED
      BY <2>1, <3>1, <3>2 DEF Inv
  <2>10. CASE Logout(c)
    <3>1. BufInv'
      <4>1. /\ buf' = [buf EXCEPT ![c] = <<>>] /\ mx'[c] # "here" /\ place'[c] = "main" /\ put'[c] = 0
            /\ \A d \in Client : d # c =>
                 place'[d] = place[d] /\ put'[d] = put[d] /\ sigs'[d] = sigs[d] /\ mx'[d] = mx[d]
        BY <2>1, <2>10 DEF Logout, Dead, LogTypeOK
      <4> QED
        BY <2>1, <4>1, BufEmptied
    <3>2. FileInv'
      BY <2>1, <2>10, SameFile DEF Logout, Dead
    <3> QED
      BY <2>1, <3>1, <3>2 DEF Inv
  <2>11. CASE BeginAudit(c)
    <3>1. BufInv'
      <4>1. /\ buf' = buf /\ place'[c] = "read"
            /\ \A d \in Client : d # c => place'[d] = place[d]
            /\ UNCHANGED <<put, mx, sigs>>
        BY <2>1, <2>11 DEF BeginAudit, Is, LogTypeOK
      <4>2. place[c] # "unlock" /\ put[c] = 0
        BY <2>1, <2>3, <2>11 DEF BeginAudit, Is, LogTypeOK
      <4> QED
        BY <2>1, <2>3, <4>1, <4>2, BufKept
    <3>2. FileInv'
      BY <2>1, <2>11, SameFile DEF BeginAudit
    <3> QED
      BY <2>1, <3>1, <3>2 DEF Inv
  <2>12. CASE EndAudit(c)
    <3>1. BufInv'
      <4>1. /\ buf' = buf /\ place'[c] = "main"
            /\ \A d \in Client : d # c => place'[d] = place[d]
            /\ UNCHANGED <<put, mx, sigs>>
        BY <2>1, <2>12 DEF EndAudit, Is, LogTypeOK
      <4>2. place[c] # "unlock" /\ put[c] = 0
        BY <2>1, <2>3, <2>12 DEF EndAudit, Is, LogTypeOK
      <4> QED
        BY <2>1, <2>3, <4>1, <4>2, BufKept
    <3>2. FileInv'
      BY <2>1, <2>12, SameFile DEF EndAudit
    <3> QED
      BY <2>1, <3>1, <3>2 DEF Inv
  <2>13. CASE Signal(c)
    <3>1. sigs'[c] > 0 /\ \A d \in Client : sigs[d] > 0 => sigs'[d] > 0
      BY <2>1, <2>13, AuditLogAssumption DEF Signal, LogTypeOK
    <3>2. BufInv'
      <4>1. /\ buf' = buf /\ place'[c] = "lock" /\ put'[c] = 0 /\ sigs'[c] # 0
            /\ \A d \in Client : d # c =>
                 place'[d] = place[d] /\ put'[d] = put[d] /\ sigs'[d] = sigs[d] /\ mx'[d] = mx[d]
        BY <2>1, <2>13, <3>1 DEF Signal, LogTypeOK
      <4> QED
        BY <2>1, <4>1, BufKept
    <3>3. FileInv'
      BY <2>1, <2>13, <3>1, SameFile DEF Signal
    <3> QED
      BY <2>1, <3>2, <3>3 DEF Inv
  <2>14. CASE KillClient(c)
    <3>1. BufInv'
      <4>1. /\ buf' = [buf EXCEPT ![c] = <<>>] /\ mx'[c] # "here" /\ place'[c] = "main" /\ put'[c] = 0
            /\ \A d \in Client : d # c =>
                 place'[d] = place[d] /\ put'[d] = put[d] /\ sigs'[d] = sigs[d] /\ mx'[d] = mx[d]
        BY <2>1, <2>14 DEF KillClient, Dead, LogTypeOK
      <4> QED
        BY <2>1, <4>1, BufEmptied
    <3>2. FileInv'
      BY <2>1, <2>14, SameFile DEF KillClient, Dead
    <3> QED
      BY <2>1, <3>1, <3>2 DEF Inv
  <2>15. CASE OpenWindow(c)
    <3>1. BufInv' /\ FileInv'
      BY <2>1, <2>15, BufSame, SameFile DEF OpenWindow
    <3> QED
      BY <2>1, <3>1 DEF Inv
  <2>16. CASE WindowWrites(c)
    <3>1. Written(c) + 1 \in 1 .. 3
      BY DEF Written
    <3>2. BufInv'
      BY <2>1, <2>16, BufSame DEF WindowWrites
    <3>3. FileInv'
      BY <2>16, <3>1, WindowFile DEF WindowWrites
    <3> QED
      BY <2>1, <3>2, <3>3 DEF Inv
  <2>17. CASE WindowShut(c)
    <3>1. BufInv' /\ FileInv'
      BY <2>1, <2>17, BufSame, SameFile DEF WindowShut
    <3> QED
      BY <2>1, <3>1 DEF Inv
  <2> QED
    BY <2>2, <2>4, <2>5, <2>6, <2>7, <2>8, <2>9, <2>10, <2>11, <2>12, <2>13, <2>14, <2>15,
       <2>16, <2>17
<1> QED
  BY <1>1, <1>2

LEMMA InvInit == LogInit => Inv
<1> SUFFICES ASSUME LogInit PROVE Inv
  OBVIOUS
<1>1. LogTypeOK
  BY AuditLogAssumption DEF LogInit, LogTypeOK
<1>2. buf \in [Client -> Seq(Pieces)] /\ file \in Seq(Pieces) /\ file = <<>>
  <2>1. <<>> \in Seq(Pieces)
    OBVIOUS
  <2> HIDE DEF Pieces
  <2> QED
    BY <2>1 DEF LogInit
<1>3. \A c \in Client : BufOf(c)
  BY <1>2 DEF LogInit, BufOf
<1> QED
  BY <1>1, <1>2, <1>3 DEF Inv, BufInv, FileInv

-----------------------------------------------------------------------------
(* The clients and their windows, without the fairness that only             *)
(* LockComesBack needs.                                                      *)
LogSpec == LogInit /\ [][LogNext]_logVars

LEMMA InvAlways == LogSpec => []Inv
<1>1. LogInit => Inv
  BY InvInit
<1>2. Inv /\ [LogNext]_logVars => Inv'
  BY InvStep
<1> QED
  BY <1>1, <1>2, PTL DEF LogSpec

(* flock, whatever handlers interrupt, and whoever is killed while its       *)
(* window inherits the open file: at any time one client at most is between  *)
(* its lock and its unlock, and no event has more than three pieces.         *)
THEOREM LogTypeCorrect == LogSpec => []LogTypeOK
<1>1. Inv => LogTypeOK
  BY DEF Inv
<1> QED
  BY <1>1, InvAlways, PTL

(* The safety half of LockComesBack: the log's lock is never lost.  Whoever  *)
(* has it is a client at work on the log, or is dead and has left a window   *)
(* that still has the file open.                                             *)
LockAccounted ==
  flock # NoClient =>
    \/ alive[flock] /\ place[flock] \in {"lock", "pieces", "unlock", "read"}
    \/ ~alive[flock] /\ window[flock] \in {"0", "1", "2"}

(* The holder's place is what counts, so a step of another changes nothing. *)
LEMMA LockStep == LogTypeOK /\ LockAccounted /\ [LogNext]_logVars => LockAccounted'
<1> SUFFICES ASSUME LogTypeOK, LockAccounted, [LogNext]_logVars PROVE LockAccounted'
  OBVIOUS
<1>1. CASE UNCHANGED logVars
  BY <1>1 DEF logVars, LockAccounted
<1>2. ASSUME NEW c \in Client,
             Begin(c) \/ Lock(c) \/ TakeMutex(c) \/ Put(c) \/ Flush(c) \/ Unlock(c)
      PROVE  LockAccounted'
  BY <1>2, AuditLogAssumption
  DEF LockAccounted, LogTypeOK, Is, Begin, Lock, TakeMutex, Put, Flush, Unlock
<1>3. ASSUME NEW c \in Client, BeginAudit(c) \/ EndAudit(c) \/ Signal(c)
      PROVE  LockAccounted'
  BY <1>3, AuditLogAssumption DEF LockAccounted, LogTypeOK, Is, BeginAudit, EndAudit, Signal
<1>4. ASSUME NEW c \in Client, Logout(c) PROVE LockAccounted'
  BY <1>4, AuditLogAssumption DEF LockAccounted, LogTypeOK, Logout, Dead, Released
<1>5. ASSUME NEW c \in Client, KillClient(c) PROVE LockAccounted'
  BY <1>5, AuditLogAssumption DEF LockAccounted, LogTypeOK, KillClient, Dead, Released
<1>6. ASSUME NEW c \in Client, OpenWindow(c) PROVE LockAccounted'
  BY <1>6, AuditLogAssumption DEF LockAccounted, LogTypeOK, OpenWindow, Is
<1>7. ASSUME NEW c \in Client, WindowWrites(c) PROVE LockAccounted'
  BY <1>7, AuditLogAssumption DEF LockAccounted, LogTypeOK, WindowWrites, Written, Released
<1>8. ASSUME NEW c \in Client, WindowShut(c) PROVE LockAccounted'
  BY <1>8, AuditLogAssumption DEF LockAccounted, LogTypeOK, WindowShut, Released
<1> QED
  BY <1>1, <1>2, <1>3, <1>4, <1>5, <1>6, <1>7, <1>8 DEF LogNext

(* writeLogEvent, writeAuditLogToTerminal and every way a process ends:      *)
(* nobody else, and no client that went back to its loop, keeps the lock.    *)
THEOREM LockNeverLost == LogSpec => []LockAccounted
<1>1. LogInit => LockAccounted
  BY DEF LogInit, LockAccounted
<1>2. Inv => LogTypeOK
  BY DEF Inv
<1> QED
  BY <1>1, <1>2, LockStep, InvAlways, PTL DEF LogSpec

(* writeLogEvent's flush, over a stdio buffer that it shares with the        *)
(* handlers that interrupt it: up to a newline, a line of the log that no    *)
(* chat window has written in is one client's, ends in one event, and holds  *)
(* nothing else unless a signal has struck that client.                      *)
THEOREM LinesAlwaysWhole == LogSpec => []LinesWhole
<1>1. Inv => LinesWhole
  BY InvWhole
<1> QED
  BY <1>1, InvAlways, PTL

-----------------------------------------------------------------------------
(* The loop that builds a list. *)
OneMore(col, asc, records, asked, list, k) ==
  IF k \in asked THEN InsertSorted(col, asc, list, records[k]) ELSE list

(* u[k] is the list after k records. *)
IsRun(col, asc, records, asked, u) ==
  /\ u[0] = <<Blank>>
  /\ \A k \in 1 .. Len(records) : u[k] = OneMore(col, asc, records, asked, u[k - 1], k)
  /\ Sorted(col, asc, records, asked) = u[Len(records)]

LEMMA SortedRuns ==
  ASSUME NEW col, NEW asc, NEW records, NEW asked, Len(records) \in Nat
  PROVE  \E u : IsRun(col, asc, records, asked, u)
<1> DEFINE n == Len(records)
           Step(f, k) == OneMore(col, asc, records, asked, f[k - 1], k)
           Runs(f, m) == f = [k \in 0 .. m |-> IF k = 0 THEN <<Blank>> ELSE Step(f, k)]
           good == {m \in 0 .. n : \E f : Runs(f, m)}
<1>1. 0 \in good
  <2>1. Runs([k \in 0 .. 0 |-> <<Blank>>], 0)
    OBVIOUS
  <2>2. 0 \in 0 .. n
    OBVIOUS
  <2> HIDE DEF Runs
  <2> QED
    BY <2>1, <2>2
<1>2. ASSUME NEW m \in 1 .. n, m - 1 \in good PROVE m \in good
  <2>1. PICK f : Runs(f, m - 1)
    BY <1>2
  <2>2. f[0] = <<Blank>> /\ \A k \in 1 .. m - 1 : f[k] = Step(f, k)
    BY <2>1
  <2> DEFINE g == [k \in 0 .. m |-> IF k < m THEN f[k] ELSE Step(f, m)]
  <2>3. ASSUME NEW k \in 0 .. m PROVE g[k] = IF k = 0 THEN <<Blank>> ELSE Step(g, k)
    <3>1. CASE k = 0
      BY <2>2, <3>1
    <3>2. CASE k # 0
      <4>1. k - 1 \in 0 .. m /\ k - 1 < m /\ k \in 1 .. m
        BY <3>2
      <4>2. g[k - 1] = f[k - 1]
        BY <4>1
      <4>3. g[k] = Step(f, k)
        BY <2>2, <4>1
      <4> QED
        BY <3>2, <4>2, <4>3
    <3> QED
      BY <3>1, <3>2
  <2>4. g = [k \in 0 .. m |-> g[k]]
    OBVIOUS
  <2> HIDE DEF g
  <2>5. Runs(g, m)
    BY <2>3, <2>4
  <2> QED
    BY <2>5
<1>3. n \in good
  <2>1. n \in Nat /\ n \in 0 .. n
    OBVIOUS
  <2> HIDE DEF n, good
  <2> QED
    BY <1>1, <1>2, <2>1, UpTo
<1> DEFINE u == CHOOSE f : Runs(f, n)
<1>4. Runs(u, n)
  BY <1>3, Zenon
<1>5. Sorted(col, asc, records, asked) = u[n]
  BY Zenon DEF Sorted, OneMore
<1> HIDE DEF u
<1>6. u[0] = <<Blank>> /\ \A k \in 1 .. n : u[k] = Step(u, k)
  BY <1>4
<1> QED
  BY <1>5, <1>6 DEF IsRun

-----------------------------------------------------------------------------
(* One record is inserted. *)
Listed(list) ==
  /\ list \in Seq(AuditRecord) /\ Len(list) >= 1 /\ list[Len(list)] = Blank
  /\ \A i \in 1 .. Len(list) - 1 : list[i] \in Event /\ list[i].name # 0

LEMMA EventIsRecord ==
  /\ Event \subseteq AuditRecord
  /\ \A r \in AuditRecord, col \in Column : r[col] \in Nat
  /\ Blank \in AuditRecord /\ Blank.name = 0
<1>1. Event \subseteq AuditRecord
  BY AuditorAssumption
<1>2. Text \cup {0} \subseteq Nat
  BY AuditorAssumption
<1>3. \A r \in AuditRecord, col \in Column : r[col] \in Nat
  BY <1>2 DEF AuditRecord
<1>4. Blank \in AuditRecord /\ Blank.name = 0
  BY DEF Blank, AuditRecord, Column
<1> QED
  BY <1>1, <1>3, <1>4

(* Where insertSorted puts it. *)
LEMMA InsertSortedIs ==
  ASSUME NEW col, NEW asc, NEW list, Listed(list), NEW r \in Event, r.name # 0
  PROVE  \E p \in 1 .. Len(list) :
           /\ InsertSorted(col, asc, list, r) = InsertAt(list, p, r)
           /\ \A i \in 1 .. p - 1 : Passes(col, asc, r, list[i])
           /\ p < Len(list) => ~Passes(col, asc, r, list[p])
<1> DEFINE n == Len(list)
           stops == {i \in DOMAIN list : ~Passes(col, asc, r, list[i])}
           S == stops \cup {n}
           p == Min(S)
<1>1. n \in Nat /\ n >= 1 /\ DOMAIN list = 1 .. n
  <2>1. list \in Seq(AuditRecord) /\ n >= 1
    BY DEF Listed
  <2> HIDE DEF AuditRecord
  <2> QED
    BY <2>1
<1>2. S \subseteq 1 .. n /\ S \subseteq Nat /\ S # {}
  BY <1>1
<1>3. p \in S /\ \A y \in S : p <= y
  <2> HIDE DEF S
  <2> QED
    BY <1>2, LeastIs
<1>4. InsertSorted(col, asc, list, r) = InsertAt(list, p, r)
  BY DEF InsertSorted
<1> HIDE DEF p
<1>5. p \in 1 .. n
  BY <1>2, <1>3
<1>6. ASSUME NEW i \in 1 .. p - 1 PROVE Passes(col, asc, r, list[i])
  <2>1. i \in DOMAIN list /\ ~(p <= i)
    BY <1>1, <1>5
  <2> QED
    BY <1>3, <2>1
<1>7. p < n => ~Passes(col, asc, r, list[p])
  BY <1>3, <1>5
<1> QED
  BY <1>4, <1>5, <1>6, <1>7

LEMMA ListedStays ==
  ASSUME NEW list, Listed(list), NEW r \in Event, r.name # 0, NEW p \in 1 .. Len(list)
  PROVE  Listed(InsertAt(list, p, r))
<1> DEFINE n == Len(list)
           new == InsertAt(list, p, r)
<1>1. list \in Seq(AuditRecord) /\ r \in AuditRecord
  BY EventIsRecord DEF Listed
<1>2. /\ new \in Seq(AuditRecord) /\ Len(new) = n + 1 /\ new[p] = r
      /\ \A i \in 1 .. p - 1 : new[i] = list[i]
      /\ \A i \in p .. n : new[i + 1] = list[i]
  <2>1. new \in Seq(AuditRecord)
    BY <1>1, InsertedAt
  <2>2. Len(new) = n + 1
    BY <1>1, InsertedAt
  <2>3. new[p] = r
    BY <1>1, InsertedAt
  <2>4. \A i \in 1 .. p - 1 : new[i] = list[i]
    BY <1>1, InsertedAt
  <2>5. \A i \in p .. n : new[i + 1] = list[i]
    BY <1>1, InsertedAt
  <2> HIDE DEF n, new
  <2> QED
    BY <2>1, <2>2, <2>3, <2>4, <2>5
<1>3. n \in Nat /\ p \in Nat /\ 1 <= p /\ p <= n
  <2> HIDE DEF AuditRecord
  <2> QED
    BY <1>1
<1> HIDE DEF new, n
<1>4. list[n] = Blank /\ \A i \in 1 .. n - 1 : list[i] \in Event /\ list[i].name # 0
  BY DEF Listed, n
<1>5. new[n + 1] = Blank
  BY <1>2, <1>3, <1>4
<1>6. ASSUME NEW i \in 1 .. n PROVE new[i] \in Event /\ new[i].name # 0
  <2>1. CASE i < p
    BY <1>2, <1>3, <1>4, <2>1
  <2>2. CASE i = p
    BY <1>2, <2>2
  <2>3. CASE i > p
    <3>1. i - 1 \in p .. n /\ (i - 1) + 1 = i /\ i - 1 \in 1 .. n - 1
      BY <1>3, <2>3
    <3>2. new[i] = list[i - 1]
      BY <1>2, <3>1
    <3> QED
      BY <1>4, <3>1, <3>2
  <2> QED
    BY <1>3, <2>1, <2>2, <2>3
<1>7. Len(new) >= 1 /\ Len(new) - 1 = n
  BY <1>2, <1>3
<1> QED
  BY <1>2, <1>5, <1>6, <1>7 DEF Listed, new

(* Every record before the new one may stand there, and the one after it.    *)
LEMMA PassedPrecede ==
  ASSUME NEW col \in Column, NEW r \in Event, NEW s \in Event, Passes(col, 1, r, s)
  PROVE  s[col] <= r[col]
<1>1. r[col] \in Nat /\ s[col] \in Nat /\ r.time \in Nat /\ s.time \in Nat
  BY EventIsRecord DEF Column
<1>2. CASE col = "time"
  BY <1>1, <1>2 DEF Passes, Compare
<1>3. CASE col # "time"
  BY <1>1, <1>3 DEF Passes, Compare
<1> QED
  BY <1>2, <1>3

LEMMA NotPassedFollow ==
  ASSUME NEW col \in Column, NEW r \in Event, NEW s \in Event, ~Passes(col, 1, r, s),
         col = "time" => s.time # 0
  PROVE  r[col] <= s[col]
<1>1. r[col] \in Nat /\ s[col] \in Nat /\ r.time \in Nat /\ s.time \in Nat
  BY EventIsRecord DEF Column
<1>2. CASE col = "time"
  BY <1>1, <1>2 DEF Passes, Compare
<1>3. CASE col # "time"
  BY <1>1, <1>3 DEF Passes, Compare
<1> QED
  BY <1>2, <1>3

(* No record without a time from i to j, if it is the time that counts. *)
HaveTimes(col, list, i, j) == col = "time" => \A k \in i..j : list[k].time # 0

LEMMA OrderStays ==
  ASSUME NEW col \in Column, NEW list, Listed(list),
         InOrder(list, col), NEW r \in Event, NEW p \in 1 .. Len(list),
         \A i \in 1 .. p - 1 : Passes(col, 1, r, list[i]),
         p < Len(list) => ~Passes(col, 1, r, list[p])
  PROVE  InOrder(InsertAt(list, p, r), col)
<1> DEFINE n == Len(list)
           new == InsertAt(list, p, r)
<1>1. list \in Seq(AuditRecord) /\ r \in AuditRecord
  BY EventIsRecord DEF Listed
<1>2. /\ Len(new) = n + 1 /\ new[p] = r
      /\ \A i \in 1 .. p - 1 : new[i] = list[i]
      /\ \A i \in p .. n : new[i + 1] = list[i]
  <2>1. Len(new) = n + 1
    BY <1>1, InsertedAt
  <2>2. new[p] = r
    BY <1>1, InsertedAt
  <2>3. \A i \in 1 .. p - 1 : new[i] = list[i]
    BY <1>1, InsertedAt
  <2>4. \A i \in p .. n : new[i + 1] = list[i]
    BY <1>1, InsertedAt
  <2> HIDE DEF n, new
  <2> QED
    BY <2>1, <2>2, <2>3, <2>4
<1>3. n \in Nat /\ p \in Nat /\ 1 <= p /\ p <= n
  <2> HIDE DEF AuditRecord
  <2> QED
    BY <1>1
<1> HIDE DEF new, n
<1>4. \A i \in 1 .. n - 1 : list[i] \in Event /\ list[i][col] \in Nat
  BY EventIsRecord DEF Listed, n
<1>5. \A i, j \in 1 .. n - 1 : i < j /\ HaveTimes(col, list, i, j) => list[i][col] <= list[j][col]
  BY DEF InOrder, HaveTimes, n
<1>6. ASSUME NEW i \in 1 .. p - 1 PROVE list[i][col] <= r[col]
  <2>1. list[i] \in Event
    BY <1>3, <1>4
  <2> QED
    BY <2>1, PassedPrecede
<1>7. ASSUME NEW i \in p .. n - 1, HaveTimes(col, list, p, i) PROVE r[col] <= list[i][col]
  <2>1. i \in 1 .. n - 1 /\ p \in 1 .. n - 1 /\ p < n /\ p \in p .. i
    BY <1>3
  <2>2. r[col] <= list[p][col]
    <3>1. list[p] \in Event /\ ~Passes(col, 1, r, list[p])
      BY <1>4, <2>1 DEF n
    <3>2. col = "time" => list[p].time # 0
      BY <1>7, <2>1 DEF HaveTimes
    <3> QED
      BY <3>1, <3>2, NotPassedFollow
  <2>3. CASE i = p
    BY <2>2, <2>3
  <2>4. CASE i # p
    <3>1. p < i
      BY <1>3, <2>4
    <3>2. list[p][col] <= list[i][col]
      BY <1>5, <1>7, <2>1, <3>1
    <3>3. r[col] \in Nat /\ list[p][col] \in Nat /\ list[i][col] \in Nat
      BY <1>1, <1>4, <2>1, EventIsRecord
    <3> QED
      BY <2>2, <3>2, <3>3
  <2> QED
    BY <2>3, <2>4
<1>8. ASSUME NEW i \in 1 .. n, NEW j \in 1 .. n, i < j, HaveTimes(col, new, i, j)
      PROVE  new[i][col] <= new[j][col]
  <2>1. CASE j < p
    <3>1. new[i] = list[i] /\ new[j] = list[j] /\ i \in 1 .. n - 1 /\ j \in 1 .. n - 1
      BY <1>2, <1>3, <1>8, <2>1
    <3>2. HaveTimes(col, list, i, j)
      <4>1. \A k \in i .. j : new[k] = list[k]
        BY <1>2, <1>3, <2>1
      <4> QED
        BY <1>8, <4>1 DEF HaveTimes
    <3> QED
      BY <1>5, <1>8, <3>1, <3>2
  <2>2. CASE j = p
    <3>1. new[i] = list[i] /\ new[j] = r /\ i \in 1 .. p - 1
      BY <1>2, <1>3, <1>8, <2>2
    <3> QED
      BY <1>6, <3>1
  <2>3. CASE p < j /\ i < p
    <3>1. j - 1 \in p .. n /\ (j - 1) + 1 = j
      BY <1>3, <2>3
    <3>2. new[i] = list[i] /\ new[j] = list[j - 1]
      BY <1>2, <1>3, <2>3, <3>1
    <3>3. i \in 1 .. n - 1 /\ j - 1 \in 1 .. n - 1 /\ i < j - 1
      BY <1>3, <2>3
    <3>4. HaveTimes(col, list, i, j - 1)
      <4>1. ASSUME NEW k \in i .. j - 1 PROVE \E m \in i .. j : new[m] = list[k]
        <5>1. CASE k < p
          BY <1>2, <1>3, <2>3, <5>1
        <5>2. CASE ~(k < p)
          <6>1. k \in p .. n /\ k + 1 \in i .. j
            BY <1>3, <2>3, <5>2
          <6> QED
            BY <1>2, <6>1
        <5> QED
          BY <5>1, <5>2
      <4> QED
        BY <1>8, <4>1 DEF HaveTimes
    <3> QED
      BY <1>5, <3>2, <3>3, <3>4
  <2>4. CASE p < j /\ p <= i
    <3>1. /\ j - 1 \in p .. n - 1 /\ j - 1 \in p .. n /\ (j - 1) + 1 = j
          /\ \A k \in i .. j - 1 : k \in p .. n /\ k + 1 \in i .. j
      BY <1>3, <2>4
    <3>2. new[j] = list[j - 1] /\ \A k \in i .. j - 1 : new[k + 1] = list[k]
      BY <1>2, <3>1
    <3>3. HaveTimes(col, list, i, j - 1)
      BY <1>8, <3>1, <3>2 DEF HaveTimes
    <3>4. CASE i = p
      BY <1>2, <1>7, <3>1, <3>2, <3>3, <3>4
    <3>5. CASE i # p
      <4>1. /\ i - 1 \in p .. n /\ (i - 1) + 1 = i
            /\ i - 1 \in 1 .. n - 1 /\ j - 1 \in 1 .. n - 1 /\ i - 1 < j - 1
        BY <1>3, <1>8, <2>4, <3>5
      <4>2. new[i] = list[i - 1]
        BY <1>2, <4>1
      <4>3. HaveTimes(col, list, i - 1, j - 1)
        <5>1. \A k \in i - 1 .. j - 1 : k = i - 1 \/ k \in i .. j - 1
          BY <1>3
        <5>2. i \in i .. j
          BY <1>3, <1>8
        <5> QED
          BY <1>8, <3>3, <4>2, <5>1, <5>2 DEF HaveTimes
      <4> QED
        BY <1>5, <3>2, <4>1, <4>2, <4>3
    <3> QED
      BY <3>4, <3>5
  <2> QED
    BY <1>3, <2>1, <2>2, <2>3, <2>4
<1>9. Len(new) - 1 = n
  BY <1>2, <1>3
<1> QED
  BY <1>8, <1>9 DEF InOrder, HaveTimes, new

(* The positions of a list after one element is inserted. *)
LEMMA TimesInserted ==
  ASSUME NEW S, NEW list \in Seq(S), NEW r \in S, NEW p \in 1 .. Len(list), NEW q
  PROVE  /\ Times(list, q) \in Nat
         /\ Times(InsertAt(list, p, r), q) = Times(list, q) + (IF r = q THEN 1 ELSE 0)
<1> DEFINE n == Len(list)
           new == InsertAt(list, p, r)
           before == {i \in 1 .. n : list[i] = q}
           after == {i \in 1 .. n + 1 : new[i] = q}
           rest == after \ {p}
           shifted == [i \in before |-> IF i < p THEN i ELSE i + 1]
<1>1. DOMAIN list = 1 .. n /\ n \in Nat /\ p \in Nat /\ 1 <= p /\ p <= n
  OBVIOUS
<1>2. DOMAIN new = 1 .. n + 1
  <2>1. new \in Seq(S)
    BY InsertedAt
  <2>2. Len(new) = n + 1
    BY InsertedAt
  <2> HIDE DEF new, n
  <2> QED
    BY <2>1, <2>2
<1>3. new[p] = r
  BY InsertedAt
<1>4. \A i \in 1 .. p - 1 : new[i] = list[i]
  BY InsertedAt
<1>5. \A i \in p .. n : new[i + 1] = list[i]
  BY InsertedAt
<1>6. Times(list, q) = Cardinality(before) /\ Times(new, q) = Cardinality(after)
  BY <1>1, <1>2 DEF Times
<1> HIDE DEF n, new
<1>7. IsFiniteSet(before) /\ IsFiniteSet(after)
  <2>1. IsFiniteSet(1 .. n) /\ IsFiniteSet(1 .. n + 1)
    BY <1>1, FS_Interval
  <2>2. before \subseteq 1 .. n /\ after \subseteq 1 .. n + 1
    OBVIOUS
  <2> HIDE DEF before, after
  <2> QED
    BY <2>1, <2>2, FS_Subset
<1>8. ASSUME NEW i \in before PROVE shifted[i] \in rest
  <2>1. i \in 1 .. n /\ list[i] = q
    OBVIOUS
  <2>2. CASE i < p
    <3>1. i \in 1 .. p - 1 /\ shifted[i] = i /\ i # p /\ i \in 1 .. n + 1
      BY <1>1, <2>1, <2>2
    <3> QED
      BY <1>4, <2>1, <3>1
  <2>3. CASE ~(i < p)
    <3>1. i \in p .. n /\ shifted[i] = i + 1 /\ i + 1 # p /\ i + 1 \in 1 .. n + 1
      BY <1>1, <2>1, <2>3
    <3> QED
      BY <1>5, <2>1, <3>1
  <2> QED
    BY <2>2, <2>3
<1>9. ASSUME NEW i \in before, NEW j \in before, shifted[i] = shifted[j] PROVE i = j
  BY <1>1, <1>9
<1>10. ASSUME NEW k \in rest PROVE \E i \in before : shifted[i] = k
  <2>1. k \in 1 .. n + 1 /\ new[k] = q /\ k # p
    OBVIOUS
  <2>2. CASE k < p
    <3>1. k \in 1 .. p - 1 /\ k \in 1 .. n
      BY <1>1, <2>1, <2>2
    <3>2. k \in before /\ shifted[k] = k
      BY <1>4, <2>1, <2>2, <3>1
    <3> QED
      BY <3>2
  <2>3. CASE k > p
    <3>1. k - 1 \in p .. n /\ (k - 1) + 1 = k /\ k - 1 \in 1 .. n /\ ~(k - 1 < p)
      BY <1>1, <2>1, <2>3
    <3>2. k - 1 \in before
      BY <1>5, <2>1, <3>1
    <3>3. shifted[k - 1] = k
      BY <3>1, <3>2
    <3> QED
      BY <3>2, <3>3
  <2>4. k < p \/ k > p
    BY <1>1, <2>1
  <2> QED
    BY <2>2, <2>3, <2>4
<1>11. ExistsBijection(before, rest)
  <2>1. DOMAIN shifted = before /\ shifted = [i \in before |-> shifted[i]]
    OBVIOUS
  <2> HIDE DEF before, rest, shifted
  <2>2. shifted \in [before -> rest]
    BY <1>8, <2>1
  <2>3. shifted \in Injection(before, rest)
    BY <1>9, <2>2 DEF Injection, IsInjective
  <2>4. shifted \in Surjection(before, rest)
    BY <1>10, <2>2 DEF Surjection
  <2> QED
    BY <2>3, <2>4 DEF ExistsBijection, Bijection
<1>12. Cardinality(rest) = Cardinality(before)
  <2> HIDE DEF before, rest
  <2> QED
    BY <1>7, <1>11, FS_Bijection
<1>13. Cardinality(before) \in Nat /\ Cardinality(after) \in Nat
  <2> HIDE DEF before, after
  <2> QED
    BY <1>7, FS_CardinalityType
<1>14. Cardinality(rest) = IF p \in after THEN Cardinality(after) - 1 ELSE Cardinality(after)
  <2> HIDE DEF after
  <2> QED
    BY <1>7, FS_RemoveElement
<1>15. p \in after <=> r = q
  <2>1. p \in 1 .. n + 1
    BY <1>1
  <2> QED
    BY <1>3, <2>1
<1> HIDE DEF before, after, rest
<1>16. Cardinality(after) = Cardinality(before) + (IF r = q THEN 1 ELSE 0)
  BY <1>12, <1>13, <1>14, <1>15
<1> QED
  BY <1>6, <1>13, <1>16 DEF new

-----------------------------------------------------------------------------
(* The invariant of the loop: what a list is after k records. *)
Hits(records, asked, q) == {i \in asked : records[i] = q}

Built(col, records, asked, list, k) ==
  /\ Listed(list)
  /\ \A q \in Event : q.name # 0 =>
       Times(list, q) = Cardinality(Hits(records, asked, q) \cap (1 .. k))
  /\ InOrder(list, col)

LEMMA BuiltInit ==
  ASSUME NEW col, NEW records, NEW asked
  PROVE  Built(col, records, asked, <<Blank>>, 0)
<1> DEFINE list == <<Blank>>
<1>1. /\ list \in Seq(AuditRecord) /\ Len(list) = 1 /\ list[1] = Blank
      /\ DOMAIN list = 1 .. 1
  BY EventIsRecord
<1> HIDE DEF list
<1>2. Listed(list)
  BY <1>1 DEF Listed
<1>3. ASSUME NEW q \in Event, q.name # 0
      PROVE  Times(list, q) = Cardinality(Hits(records, asked, q) \cap (1 .. 0))
  <2>1. {i \in DOMAIN list : list[i] = q} = {}
    BY <1>1, <1>3, EventIsRecord
  <2>2. Hits(records, asked, q) \cap (1 .. 0) = {}
    OBVIOUS
  <2> QED
    BY <2>1, <2>2 DEF Times
<1>4. InOrder(list, col)
  BY <1>1 DEF InOrder
<1> QED
  BY <1>1, <1>2, <1>3, <1>4 DEF Built, list

LEMMA BuiltStep ==
  ASSUME NEW col \in Column, NEW records \in Seq(Event), NEW asked,
         NEW k \in 1 .. Len(records), NEW list,
         Built(col, records, asked, list, k - 1)
  PROVE  Built(col, records, asked, OneMore(col, 1, records, asked, list, k), k)
<1> DEFINE r == records[k]
           new == OneMore(col, 1, records, asked, list, k)
           Wanted == k \in asked /\ r.name # 0
<1>1. /\ r \in Event /\ k \in Nat \ {0} /\ k <= Len(records) /\ Len(records) \in Nat
      /\ DOMAIN records = 1 .. Len(records)
  OBVIOUS
<1>2. /\ Listed(list)
      /\ \A q \in Event : q.name # 0 =>
           Times(list, q) = Cardinality(Hits(records, asked, q) \cap (1 .. k - 1))
      /\ InOrder(list, col)
  BY DEF Built
<1>3. ASSUME NEW q \in Event, q.name # 0
      PROVE  Cardinality(Hits(records, asked, q) \cap (1 .. k))
               = Times(list, q) + (IF Wanted /\ r = q THEN 1 ELSE 0)
  <2>1. k \in Hits(records, asked, q) <=> Wanted /\ r = q
    BY <1>3 DEF Hits
  <2>2. Cardinality(Hits(records, asked, q) \cap (1 .. k))
          = Cardinality(Hits(records, asked, q) \cap (1 .. k - 1))
              + (IF k \in Hits(records, asked, q) THEN 1 ELSE 0)
    BY <1>1, CountsOn
  <2> QED
    BY <1>2, <1>3, <2>1, <2>2
<1>4. CASE ~Wanted
  <2>1. new = list
    BY <1>4 DEF OneMore, InsertSorted
  <2>2. \A q \in Event : q.name # 0 =>
          Times(list, q) = Cardinality(Hits(records, asked, q) \cap (1 .. k))
    <3> SUFFICES ASSUME NEW q \in Event, q.name # 0
                 PROVE  Times(list, q) = Cardinality(Hits(records, asked, q) \cap (1 .. k))
      OBVIOUS
    <3>1. Cardinality(Hits(records, asked, q) \cap (1 .. k - 1)) \in Nat
      BY <1>1, CountsOn
    <3>2. Times(list, q) = Cardinality(Hits(records, asked, q) \cap (1 .. k - 1))
      BY <1>2
    <3>3. Cardinality(Hits(records, asked, q) \cap (1 .. k)) = Times(list, q) + 0
      BY <1>3, <1>4
    <3> HIDE DEF Wanted, r
    <3> QED
      BY <3>1, <3>2, <3>3
  <2> HIDE DEF new
  <2> QED
    BY <1>2, <2>1, <2>2 DEF Built, new
<1>5. CASE Wanted
  <2>1. new = InsertSorted(col, 1, list, r)
    BY <1>5 DEF OneMore
  <2>2. PICK p \in 1 .. Len(list) :
          /\ InsertSorted(col, 1, list, r) = InsertAt(list, p, r)
          /\ \A i \in 1 .. p - 1 : Passes(col, 1, r, list[i])
          /\ p < Len(list) => ~Passes(col, 1, r, list[p])
    BY <1>1, <1>2, <1>5, InsertSortedIs
  <2>3. new = InsertAt(list, p, r)
    BY <2>1, <2>2
  <2> HIDE DEF new, r
  <2>4. Listed(new)
    BY <1>1, <1>2, <1>5, <2>3, ListedStays
  <2>5. list \in Seq(AuditRecord) /\ r \in AuditRecord
    BY <1>1, <1>2, EventIsRecord DEF Listed
  <2>6. \A q \in Event : q.name # 0 =>
          Times(new, q) = Cardinality(Hits(records, asked, q) \cap (1 .. k))
    <3> SUFFICES ASSUME NEW q \in Event, q.name # 0
                 PROVE  Times(new, q) = Cardinality(Hits(records, asked, q) \cap (1 .. k))
      OBVIOUS
    <3>1. Times(InsertAt(list, p, r), q) = Times(list, q) + (IF r = q THEN 1 ELSE 0)
      BY <2>5, TimesInserted
    <3> QED
      BY <1>3, <1>5, <2>3, <3>1
  <2>7. InOrder(new, col)
    <3>1. InOrder(InsertAt(list, p, r), col)
      BY <1>1, <1>2, <2>2, OrderStays
    <3> QED
      BY <2>3, <3>1
  <2> QED
    BY <2>4, <2>6, <2>7 DEF Built, new
<1> QED
  BY <1>4, <1>5

LEMMA SortedIs ==
  ASSUME NEW col \in Column, NEW records \in Seq(Event), NEW asked
  PROVE  Built(col, records, asked, Sorted(col, 1, records, asked), Len(records))
<1>1. Len(records) \in Nat
  OBVIOUS
<1>2. PICK u : IsRun(col, 1, records, asked, u)
  BY <1>1, SortedRuns
<1> DEFINE n == Len(records)
<1>0. /\ u[0] = <<Blank>>
      /\ \A k \in 1 .. n : u[k] = OneMore(col, 1, records, asked, u[k - 1], k)
      /\ Sorted(col, 1, records, asked) = u[n]
  BY <1>2 DEF IsRun
<1> DEFINE good == {k \in 0 .. n : Built(col, records, asked, u[k], k)}
<1>3. 0 \in good
  <2>1. Built(col, records, asked, u[0], 0)
    BY <1>0, BuiltInit
  <2> QED
    BY <1>1, <2>1
<1>4. ASSUME NEW k \in 1 .. n, k - 1 \in good PROVE k \in good
  <2>1. Built(col, records, asked, u[k - 1], k - 1)
    BY <1>4
  <2>2. Built(col, records, asked, OneMore(col, 1, records, asked, u[k - 1], k), k)
    BY <2>1, BuiltStep
  <2>3. u[k] = OneMore(col, 1, records, asked, u[k - 1], k)
    BY <1>0
  <2>4. k \in 0 .. n
    BY <1>1
  <2> QED
    BY <2>2, <2>3, <2>4
<1>5. n \in good
  <2>1. n \in 0 .. n
    BY <1>1
  <2> HIDE DEF good, n
  <2>2. n \in Nat
    BY <1>1 DEF n
  <2> QED
    BY <1>3, <1>4, <2>1, <2>2, UpTo
<1> QED
  BY <1>0, <1>5

(* A list that has been built is the list of the records asked for. *)
LEMMA BuiltLists ==
  ASSUME NEW col, NEW records \in Seq(Event), NEW asked \in SUBSET DOMAIN records,
         NEW list, Built(col, records, asked, list, Len(records)),
         NEW wanted, \A i \in DOMAIN records : i \in asked <=> records[i] \in wanted
  PROVE  ListOf(list, records, wanted)
<1>1. /\ Listed(list)
      /\ \A q \in Event : q.name # 0 =>
           Times(list, q) = Cardinality(Hits(records, asked, q) \cap (1 .. Len(records)))
  BY DEF Built
<1>2. DOMAIN records = 1 .. Len(records)
  OBVIOUS
<1>3. ASSUME NEW q \in Event, q.name # 0
      PROVE  Times(list, q) = IF q \in wanted THEN Times(records, q) ELSE 0
  <2>1. CASE q \in wanted
    <3>1. Hits(records, asked, q) \cap (1 .. Len(records)) = {i \in DOMAIN records : records[i] = q}
      BY <1>2, <2>1 DEF Hits
    <3> QED
      BY <1>1, <1>3, <2>1, <3>1 DEF Times
  <2>2. CASE q \notin wanted
    <3>1. Hits(records, asked, q) \cap (1 .. Len(records)) = {}
      BY <1>2, <2>2 DEF Hits
    <3> QED
      BY <1>1, <1>3, <2>2, <3>1, FS_EmptySet
  <2> QED
    BY <2>1, <2>2
<1> QED
  BY <1>1, <1>3 DEF ListOf, Listed, Last

LEMMA SortedAnswers ==
  ASSUME NEW col \in Column, NEW records \in Seq(Event), NEW wanted,
         NEW asked \in SUBSET DOMAIN records,
         \A i \in DOMAIN records : i \in asked <=> records[i] \in wanted
  PROVE  LET list == Sorted(col, 1, records, asked)
         IN /\ list \in Seq(AuditRecord) /\ Len(list) >= 1
            /\ ListOf(list, records, wanted)
            /\ InOrder(list, col)
<1> DEFINE list == Sorted(col, 1, records, asked)
<1>1. Built(col, records, asked, list, Len(records))
  BY SortedIs
<1> HIDE DEF list
<1>2. ListOf(list, records, wanted)
  BY <1>1, BuiltLists
<1>3. Listed(list) /\ InOrder(list, col)
  BY <1>1 DEF Built
<1> QED
  BY <1>2, <1>3 DEF Listed, list

-----------------------------------------------------------------------------
(* parser.c's operations, but for sortBy, which the auditor never reaches.    *)

(* filterBy, filterByTimeRange and searchByKeyword list what is asked for. *)
LEMMA FilterByLists ==
  ASSUME NEW col \in Column, NEW k, NEW records \in Seq(Event)
  PROVE  LET list == FilterBy(records, col, k)
         IN /\ list \in Seq(AuditRecord) /\ Len(list) >= 1
            /\ ListOf(list, records, {r \in Event : r[col] \in k.texts})
            /\ InOrder(list, col)
<1> DEFINE asked == {i \in DOMAIN records : CheckFilter(col, k, records[i])}
           wanted == {r \in Event : r[col] \in k.texts}
<1>1. asked \in SUBSET DOMAIN records
      /\ \A i \in DOMAIN records : i \in asked <=> records[i] \in wanted
  BY DEF CheckFilter
<1>2. FilterBy(records, col, k) = Sorted(col, 1, records, asked)
  BY DEF FilterBy
<1> HIDE DEF asked, wanted
<1> DEFINE list == Sorted(col, 1, records, asked)
<1>3. list \in Seq(AuditRecord) /\ Len(list) >= 1
  BY <1>1, SortedAnswers
<1>4. ListOf(list, records, wanted)
  BY <1>1, SortedAnswers
<1>6. InOrder(list, col)
  BY <1>1, SortedAnswers
<1> QED
  BY <1>2, <1>3, <1>4, <1>6 DEF wanted

LEMMA FilterByTimeRangeLists ==
  ASSUME NEW k \in TimeRange, NEW records \in Seq(Event)
  PROVE  LET list == FilterByTimeRange(records, k)
         IN /\ list \in Seq(AuditRecord) /\ Len(list) >= 1
            /\ ListOf(list, records, {r \in Event : r.time \in k.from .. k.to})
            /\ InOrder(list, "time")
<1> DEFINE asked == {i \in DOMAIN records : CheckTimeRange(k, records[i])}
           wanted == {r \in Event : r.time \in k.from .. k.to}
<1>1. k.from \in Nat /\ k.to \in Nat
  BY AuditorAssumption DEF TimeRange
<1>2. ASSUME NEW i \in DOMAIN records PROVE i \in asked <=> records[i] \in wanted
  <2>1. records[i] \in Event /\ records[i].time \in Nat
    BY EventIsRecord DEF Column
  <2> QED
    BY <1>1, <2>1 DEF CheckTimeRange
<1>3. FilterByTimeRange(records, k) = Sorted("time", 1, records, asked) /\ "time" \in Column
  BY DEF FilterByTimeRange, Column
<1>4. asked \in SUBSET DOMAIN records
  OBVIOUS
<1> HIDE DEF asked, wanted
<1> DEFINE list == Sorted("time", 1, records, asked)
<1>5. list \in Seq(AuditRecord) /\ Len(list) >= 1
  BY <1>2, <1>3, <1>4, SortedAnswers
<1>6. ListOf(list, records, wanted)
  BY <1>2, <1>3, <1>4, SortedAnswers
<1>8. InOrder(list, "time")
  BY <1>2, <1>3, <1>4, SortedAnswers
<1> QED
  BY <1>3, <1>5, <1>6, <1>8 DEF wanted

LEMMA SearchByKeywordLists ==
  ASSUME NEW k, NEW records \in Seq(Event)
  PROVE  LET list == SearchByKeyword(records, k)
         IN /\ list \in Seq(AuditRecord) /\ Len(list) >= 1
            /\ ListOf(list, records, {r \in Event : \E c \in Column : r[c] \in k.texts})
            /\ InOrder(list, "time")
<1> DEFINE asked == {i \in DOMAIN records : CheckKeyword(k, records[i])}
           wanted == {r \in Event : \E c \in Column : r[c] \in k.texts}
<1>1. asked \in SUBSET DOMAIN records
      /\ \A i \in DOMAIN records : i \in asked <=> records[i] \in wanted
  BY DEF CheckKeyword
<1>2. SearchByKeyword(records, k) = Sorted("time", 1, records, asked) /\ "time" \in Column
  BY DEF SearchByKeyword, Column
<1> HIDE DEF asked, wanted
<1> DEFINE list == Sorted("time", 1, records, asked)
<1>3. list \in Seq(AuditRecord) /\ Len(list) >= 1
  BY <1>1, <1>2, SortedAnswers
<1>4. ListOf(list, records, wanted)
  BY <1>1, <1>2, SortedAnswers
<1>6. InOrder(list, "time")
  BY <1>1, <1>2, SortedAnswers
<1> QED
  BY <1>2, <1>3, <1>4, <1>6 DEF wanted

(* filterPrintCmd's choice between them answers the command. *)
THEOREM AnswerAnswers ==
  ASSUME NEW records \in Seq(Event), NEW filter \in Keyword \cup TimeRange,
         NEW col \in Column \cup {"none"}, NEW asc
  PROVE  LET list == Answer(records, filter, col, asc)
         IN /\ list \in Seq(AuditRecord) /\ Len(list) >= 1
            /\ Answers(list, records, filter, col, asc)
<1>1. filter # Null /\ filter.is \in {"keyword", "range"} /\ "none" \notin Column
  BY AuditorAssumption DEF Keyword, TimeRange, Column
<1> DEFINE list == Answer(records, filter, col, asc)
<1>2. CASE col # "none" /\ filter.is = "range"
  <2>1. list = FilterByTimeRange(records, filter)
    BY <1>1, <1>2 DEF Answer
  <2>2. filter \in TimeRange
    BY <1>2 DEF Keyword
  <2> HIDE DEF list
  <2>3. /\ list \in Seq(AuditRecord) /\ Len(list) >= 1
        /\ ListOf(list, records, {r \in Event : r.time \in filter.from .. filter.to})
        /\ InOrder(list, "time")
    BY <2>1, <2>2, FilterByTimeRangeLists
  <2> QED
    BY <1>2, <2>3 DEF Answers, list
<1>3. CASE col # "none" /\ filter.is = "keyword"
  <2>1. list = FilterBy(records, col, filter)
    BY <1>1, <1>3 DEF Answer
  <2>2. col \in Column
    BY <1>3
  <2> HIDE DEF list
  <2>3. /\ list \in Seq(AuditRecord) /\ Len(list) >= 1
        /\ ListOf(list, records, {r \in Event : r[col] \in filter.texts})
        /\ InOrder(list, col)
    BY <2>1, <2>2, FilterByLists
  <2> QED
    BY <1>3, <2>3 DEF Answers, list
<1>4. CASE col = "none"
  <2> DEFINE k == IF filter.is = "range" THEN [is |-> "keyword", texts |-> {}] ELSE filter
             wanted == {r \in Event : \E c \in Column : r[c] \in k.texts}
             asked == {r \in Event : filter.is = "keyword" /\ \E c \in Column : r[c] \in filter.texts}
  <2>1. list = SearchByKeyword(records, k)
    BY <1>1, <1>4 DEF Answer
  <2>2. wanted = asked
    BY <1>1
  <2> HIDE DEF list, k, asked
  <2>3. /\ list \in Seq(AuditRecord) /\ Len(list) >= 1
        /\ ListOf(list, records, wanted)
        /\ InOrder(list, "time")
    BY <2>1, SearchByKeywordLists
  <2> HIDE DEF wanted
  <2>4. ListOf(list, records, asked) /\ InOrder(list, "time")
    BY <2>2, <2>3
  <2>5. Answers(list, records, filter, col, asc)
    BY <1>4, <2>4 DEF Answers, asked
  <2> QED
    BY <2>3, <2>5 DEF list
<1> QED
  BY <1>1, <1>2, <1>3, <1>4

-----------------------------------------------------------------------------
(* The auditor's steps.                                                      *)

(* Besides the types: the list on the screen has prev pointers only if a     *)
(* command built it, fillAudit only waits for a command that reads the log,  *)
(* and when a key is waited for, the list answers the last command.          *)
AuditorInv ==
  /\ AuditorTypeOK
  /\ linked => curr_filter # NoCommand /\ at # "watch"
  /\ at = "fill" => curr_filter # NoCommand /\ curr_filter.word \in {"-r", "other"}
  /\ AnswersCommand

LEMMA InitAuditorInv == AuditorInit => AuditorInv
<1> SUFFICES ASSUME AuditorInit PROVE AuditorInv
  OBVIOUS
<1>1. log \in Seq(Event)
  BY DEF AuditorInit, SeqOf
<1>2. <<>> \in Seq(Event) /\ <<>> \in Seq(AuditRecord) /\ Len(<<>>) = 0
  OBVIOUS
<1>3. AuditorTypeOK
  <2>1. audit_head \in Seq(Event) /\ view \in Seq(AuditRecord) /\ scroll \in 0 .. Len(view)
    BY <1>2 DEF AuditorInit
  <2>2. opened \in 0 .. MaxOpen
    BY AuditorAssumption DEF AuditorInit
  <2> QED
    BY <1>1, <2>1, <2>2 DEF AuditorInit, AuditorTypeOK
<1> QED
  BY <1>3 DEF AuditorInit, AuditorInv, AnswersCommand

(* A list is read and shown from its head. *)
LEMMA ShownFromHead ==
  ASSUME NEW list \in Seq(AuditRecord)
  PROVE  (IF list = <<>> THEN 0 ELSE 1) \in 0 .. Len(list)
<1>1. list # <<>> => Len(list) >= 1
  OBVIOUS
<1>2. Len(list) \in Nat
  OBVIOUS
<1> HIDE DEF AuditRecord
<1> QED
  BY <1>1, <1>2

LEMMA LogIsList ==
  ASSUME NEW s \in Seq(Event) PROVE s \in Seq(AuditRecord)
BY EventIsRecord

LEMMA RawStep ==
  ASSUME AuditorTypeOK, FilterPrintCmd(Null, "none", -1)
  PROVE  /\ audit_head' \in Seq(Event) /\ view' \in Seq(AuditRecord)
         /\ linked' = FALSE /\ scroll' \in 0 .. Len(view')
<1>1. /\ audit_head' = log /\ view' = log /\ linked' = FALSE
      /\ scroll' = IF view' = <<>> THEN 0 ELSE 1
  BY DEF FilterPrintCmd
<1>2. log \in Seq(Event)
  BY DEF AuditorTypeOK
<1>3. view' \in Seq(AuditRecord)
  BY <1>1, <1>2, LogIsList
<1> QED
  BY <1>1, <1>2, <1>3, ShownFromHead

LEMMA AnswerStep ==
  ASSUME AuditorTypeOK, NEW c \in Command, FilterPrintCmd(c.filter, c.col, c.asc)
  PROVE  /\ audit_head' \in Seq(Event) /\ view' \in Seq(AuditRecord)
         /\ linked' = TRUE /\ scroll' \in 0 .. Len(view')
         /\ Answers(view', audit_head', c.filter, c.col, c.asc)
<1>1. c.filter \in Keyword \cup TimeRange /\ c.col \in Column \cup {"none"} /\ c.filter # Null
  BY AuditorAssumption DEF CommandLine
<1>2. /\ audit_head' = log /\ view' = Answer(log, c.filter, c.col, c.asc) /\ linked' = TRUE
      /\ scroll' = IF view' = <<>> THEN 0 ELSE 1
  BY <1>1 DEF FilterPrintCmd
<1>3. log \in Seq(Event)
  BY DEF AuditorTypeOK
<1>4. view' \in Seq(AuditRecord) /\ Answers(view', log, c.filter, c.col, c.asc)
  BY <1>1, <1>2, <1>3, AnswerAnswers
<1> QED
  BY <1>2, <1>3, <1>4, ShownFromHead

LEMMA CrashStep ==
  ASSUME AuditorInv, Crash, log' \in Seq(Event), locked' \in BOOLEAN,
         curr_filter' \in Command \cup {NoCommand}
  PROVE  AuditorInv'
<1>1. <<>> \in Seq(Event) /\ <<>> \in Seq(AuditRecord) /\ Len(<<>>) = 0
  OBVIOUS
<1>2. audit_head' \in Seq(Event) /\ view' \in Seq(AuditRecord) /\ scroll' \in 0 .. Len(view')
  BY <1>1 DEF Crash
<1>3. opened' \in 0 .. MaxOpen
  BY AuditorAssumption DEF Crash
<1>4. AuditorTypeOK'
  BY <1>2, <1>3 DEF AuditorTypeOK, Crash
<1> QED
  BY <1>4 DEF Crash, AuditorInv, AnswersCommand

(* parseCmd for the command that is, or becomes, the last one, up to flock.  *)
LEMMA ParseCmdStep ==
  ASSUME AuditorInv, NEW c \in Command \cup {NoCommand}, ParseCmd(c), curr_filter' = c,
         UNCHANGED <<log, locked>>
  PROVE  AuditorInv'
<1>1. AuditorTypeOK /\ log' \in Seq(Event) /\ locked' \in BOOLEAN
  BY DEF AuditorInv, AuditorTypeOK
<1>2. CASE Crash
  BY <1>1, <1>2, CrashStep
<1>3. CASE c = NoCommand \/ (c # NoCommand /\ c.word = "")
  BY <1>2, <1>3 DEF ParseCmd
<1>4. CASE c # NoCommand /\ c.word # ""
  <2>1. c \in Command /\ c.word \in {"-h", "-r", "other"}
    BY <1>4, AuditorAssumption DEF CommandLine
  <2>2. CASE c.word = "-h"
    <3>1. at' = "loop" /\ UNCHANGED <<opened, modified, audit_head, view, linked, scroll>>
      BY <1>4, <2>2 DEF ParseCmd
    <3>2. AuditorTypeOK'
      BY <1>1, <2>1, <3>1 DEF AuditorTypeOK
    <3> QED
      BY <1>4, <2>2, <3>1, <3>2 DEF AuditorInv, AnswersCommand
  <2>3. CASE c.word # "-h"
    <3>1. OpenLog
      BY <1>4, <2>3 DEF ParseCmd
    <3>2. CASE opened = MaxOpen
      BY <1>2, <3>1, <3>2 DEF OpenLog
    <3>3. CASE opened # MaxOpen
      <4>1. /\ opened' = opened + 1 /\ audit_head' = <<>> /\ at' = "fill"
            /\ UNCHANGED <<modified, view, linked, scroll>>
        BY <3>1, <3>3 DEF OpenLog
      <4>2. opened' \in 0 .. MaxOpen
        BY <1>1, <3>3, <4>1, AuditorAssumption DEF AuditorTypeOK
      <4>3. audit_head' \in Seq(Event)
        BY <4>1
      <4>4. AuditorTypeOK'
        BY <1>1, <2>1, <4>1, <4>2, <4>3 DEF AuditorTypeOK
      <4> QED
        BY <1>4, <2>1, <2>3, <4>1, <4>4 DEF AuditorInv, AnswersCommand
    <3> QED
      BY <3>2, <3>3
  <2> QED
    BY <2>2, <2>3
<1> QED
  BY <1>3, <1>4

(* The rest of the command. *)
LEMMA FillStep == AuditorInv /\ Fill => AuditorInv'
<1> SUFFICES ASSUME AuditorInv, Fill PROVE AuditorInv'
  OBVIOUS
<1>1. /\ AuditorTypeOK /\ curr_filter \in Command
      /\ curr_filter.word \in {"-r", "other"} /\ curr_filter # NoCommand
  BY DEF AuditorInv, AuditorTypeOK, Fill
<1>2. at' = "loop" /\ UNCHANGED <<log, locked, opened, modified, curr_filter>>
  BY DEF Fill
<1>3. CASE curr_filter.word = "-r"
  <2>1. FilterPrintCmd(Null, "none", -1)
    BY <1>3 DEF Fill
  <2>2. /\ audit_head' \in Seq(Event) /\ view' \in Seq(AuditRecord)
        /\ linked' = FALSE /\ scroll' \in 0 .. Len(view')
    BY <1>1, <2>1, RawStep
  <2>3. AuditorTypeOK'
    BY <1>1, <1>2, <2>2 DEF AuditorTypeOK
  <2> QED
    BY <1>2, <2>2, <2>3 DEF AuditorInv, AnswersCommand
<1>4. CASE curr_filter.word = "other"
  <2>1. PICK c \in Command : c = curr_filter
    BY <1>1
  <2>2. FilterPrintCmd(c.filter, c.col, c.asc)
    BY <1>4, <2>1 DEF Fill
  <2>3. /\ audit_head' \in Seq(Event) /\ view' \in Seq(AuditRecord)
        /\ linked' = TRUE /\ scroll' \in 0 .. Len(view')
        /\ Answers(view', audit_head', c.filter, c.col, c.asc)
    BY <1>1, <2>2, AnswerStep
  <2>4. AuditorTypeOK'
    BY <1>1, <1>2, <2>3 DEF AuditorTypeOK
  <2>5. curr_filter' = c
    BY <1>2, <2>1
  <2>6. AnswersCommand'
    BY <2>3, <2>5 DEF AnswersCommand
  <2> QED
    BY <1>1, <1>2, <2>4, <2>6 DEF AuditorInv
<1> QED
  BY <1>1, <1>3, <1>4

LEMMA AuditorInductive == AuditorInv /\ [AuditorNext]_auditorVars => AuditorInv'
<1> SUFFICES ASSUME AuditorInv, [AuditorNext]_auditorVars PROVE AuditorInv'
  OBVIOUS
<1>0. AuditorTypeOK
  BY DEF AuditorInv
<1>1. CASE Start
  <2>1. /\ audit_head' \in Seq(Event) /\ view' \in Seq(AuditRecord)
        /\ linked' = FALSE /\ scroll' \in 0 .. Len(view')
    BY <1>0, <1>1, RawStep DEF Start
  <2>2. opened' \in 0 .. MaxOpen
    BY <1>1, AuditorAssumption DEF Start
  <2>3. AuditorTypeOK'
    BY <1>0, <1>1, <2>1, <2>2 DEF AuditorTypeOK, Start
  <2> QED
    BY <1>1, <2>1, <2>3 DEF AuditorInv, AnswersCommand, Start
<1>2. CASE AddWatch
  <2>1. ~linked
    BY <1>2 DEF AddWatch, AuditorInv
  <2> QED
    BY <1>2, <2>1 DEF AddWatch, AuditorInv, AuditorTypeOK, AnswersCommand
<1>3. CASE ReadEvent
  BY <1>3 DEF ReadEvent, AuditorInv, AuditorTypeOK, AnswersCommand
<1>4. CASE Reload
  <2>1. curr_filter \in Command \cup {NoCommand}
    BY <1>0 DEF AuditorTypeOK
  <2> QED
    BY <1>4, <2>1, ParseCmdStep DEF Reload
<1>5. ASSUME NEW c \in Command, Enter(c) PROVE AuditorInv'
  BY <1>5, ParseCmdStep DEF Enter
<1>6. ASSUME NEW r \in Event, WriteLog(r) PROVE AuditorInv'
  <2>1. log' \in Seq(Event)
    BY <1>0, <1>6 DEF AuditorTypeOK, WriteLog
  <2>2. modified' \in BOOLEAN
    BY <1>6 DEF WriteLog
  <2>3. UNCHANGED <<locked, opened, audit_head, view, linked, scroll, curr_filter, at>>
    BY <1>6 DEF WriteLog
  <2> QED
    BY <2>1, <2>2, <2>3 DEF AuditorInv, AuditorTypeOK, AnswersCommand
<1>7. CASE ScrollUp
  <2>1. UNCHANGED <<log, locked, opened, modified, audit_head, view, linked, curr_filter, at>>
    BY <1>7 DEF ScrollUp
  <2>2. Len(view) \in Nat
    BY <1>0 DEF AuditorTypeOK
  <2>3. scroll' \in 0 .. Len(view')
    BY <1>7, <2>1, <2>2 DEF ScrollUp
  <2> QED
    BY <2>1, <2>3 DEF AuditorInv, AuditorTypeOK, AnswersCommand
<1>8. CASE ScrollDown
  <2>1. UNCHANGED <<log, locked, opened, modified, audit_head, view, linked, curr_filter, at>>
    BY <1>8 DEF ScrollDown
  <2>2. Len(view) \in Nat /\ scroll \in 0 .. Len(view)
    BY <1>0 DEF AuditorTypeOK
  <2>3. scroll' \in 0 .. Len(view')
    BY <1>8, <2>1, <2>2 DEF ScrollDown
  <2> QED
    BY <2>1, <2>3 DEF AuditorInv, AuditorTypeOK, AnswersCommand
<1>9. CASE Fill
  BY <1>9, FillStep
<1>10. CASE ClientLocks
  <2>1. locked' \in BOOLEAN
    BY <1>10 DEF ClientLocks
  <2>2. UNCHANGED <<log, opened, modified, audit_head, view, linked, scroll, curr_filter, at>>
    BY <1>10 DEF ClientLocks
  <2> QED
    BY <2>1, <2>2 DEF AuditorInv, AuditorTypeOK, AnswersCommand
<1>11. CASE UNCHANGED auditorVars
  BY <1>11 DEF auditorVars, AuditorInv, AuditorTypeOK, AnswersCommand
<1> QED
  BY <1>1, <1>2, <1>3, <1>4, <1>5, <1>6, <1>7, <1>8, <1>9, <1>10, <1>11 DEF AuditorNext

LEMMA AuditorSound == AuditorSpec => []AuditorInv
BY InitAuditorInv, AuditorInductive, PTL DEF AuditorSpec

(* The auditor's state keeps its types: above all, scroll_pointer stays      *)
(* inside the list that is shown, whatever replaces it.                      *)
THEOREM AuditorTypeCorrect == AuditorSpec => []AuditorTypeOK
<1>1. AuditorInv => AuditorTypeOK
  BY DEF AuditorInv
<1> QED
  BY <1>1, AuditorSound, PTL

(* Whatever is logged and typed, and however often the log is read again,    *)
(* the list answers the last command (filterPrintCmd).                       *)
THEOREM AnswersAlways == AuditorSpec => []AnswersCommand
<1>1. AuditorInv => AnswersCommand
  BY DEF AuditorInv
<1> QED
  BY <1>1, AuditorSound, PTL

-----------------------------------------------------------------------------
(* MCAuditor's behaviours, which are those of one of its parts at a time,    *)
(* keep the type invariants of all three, for all values of the constants.   *)
THEOREM PartsTypeCorrect == Spec => []TypeOK
<1>1. Init => AuditorInit /\ LogInit /\ ChatInit
  BY DEF Init
<1>2. [Next]_vars => [AuditorNext]_auditorVars
  BY DEF Next, vars
<1>3. [Next]_vars => [LogNext]_logVars
  BY DEF Next, vars
<1>4. [Next]_vars => [ChatNext]_chatVars
  BY DEF Next, vars
<1>5. Spec => AuditorSpec /\ LogSpec /\ ChatSpec
  BY <1>1, <1>2, <1>3, <1>4, PTL DEF Spec, AuditorSpec, LogSpec, ChatSpec
<1> QED
  BY <1>5, AuditorTypeCorrect, LogTypeCorrect, TypeCorrect, PTL DEF TypeOK
=============================================================================
