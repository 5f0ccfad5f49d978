---------------------------- MODULE ListLemmas ----------------------------
(***************************************************************************)
(* Lemmas about numbers, positions and sequences that the proofs of        *)
(* several components rest on: the least and the greatest member of a set, *)
(* induction up to n, sequences that are joined or get one element more,   *)
(* and the counting of positions.                                          *)
(***************************************************************************)
EXTENDS Integers, SequencesExt, FiniteSetsExt, FiniteSetTheorems,
        WellFoundedInduction, TLAPS

(* The least and the greatest member. *)
LessThan == {pair \in Nat \X Nat : pair[1] < pair[2]}

LEMMA LeastNumber ==
  ASSUME NEW S, S \subseteq Nat, S # {}
  PROVE  \E m \in S : \A y \in S : m <= y
<1>1. LessThan = OpToRel(<, Nat)
  BY DEF OpToRel, LessThan
<1>2. IsWellFoundedOn(LessThan, Nat)
  BY <1>1, NatLessThanWellFounded
<1>3. PICK x \in S : \A y \in S : ~ (<<y, x>> \in LessThan)
  BY <1>2, WFMin
<1> QED
  <2> SUFFICES ASSUME NEW y \in S PROVE x <= y
    OBVIOUS
  <2>1. x \in Nat /\ y \in Nat
    OBVIOUS
  <2>2. ~(y < x)
    BY <1>3, <2>1 DEF LessThan
  <2> QED
    BY <2>1, <2>2

LEMMA LeastIs ==
  ASSUME NEW S, S \subseteq Nat, S # {}
  PROVE  Min(S) \in S /\ \A y \in S : Min(S) <= y
<1>1. \E m \in S : \A y \in S : m <= y
  BY LeastNumber
<1> QED
  BY <1>1, Zenon DEF Min

LEMMA GreatestIs ==
  ASSUME NEW n \in Nat, NEW S, S \subseteq 0 .. n, S # {}
  PROVE  Max(S) \in S /\ \A y \in S : Max(S) >= y
<1> DEFINE T == {n - x : x \in S}
<1>1. T \subseteq Nat /\ T # {}
  <2>1. \A x \in S : n - x \in Nat
    OBVIOUS
  <2> QED
    BY <2>1
<1>2. PICK x \in T : \A y \in T : x <= y
  <2> HIDE DEF T
  <2> QED
    BY <1>1, LeastNumber
<1>3. PICK m \in S : x = n - m
  OBVIOUS
<1>4. \A y \in S : m >= y
  BY <1>2, <1>3
<1>5. \E z \in S : \A y \in S : z >= y
  BY <1>4
<1> QED
  BY <1>5, Zenon DEF Max

(* Induction up to n, over a set instead of a predicate. *)
LEMMA UpTo ==
  ASSUME NEW n \in Nat, NEW S, 0 \in S, \A k \in 1 .. n : k - 1 \in S => k \in S
  PROVE  \A k \in 0 .. n : k \in S
<1> DEFINE missing == {k \in 0 .. n : k \notin S}
<1>1. SUFFICES ASSUME missing # {} PROVE FALSE
  OBVIOUS
<1>2. PICK m \in missing : \A k \in missing : m <= k
  <2>1. missing \subseteq Nat
    OBVIOUS
  <2> HIDE DEF missing
  <2> QED
    BY <1>1, <2>1, LeastNumber
<1>3. m \in 1 .. n /\ m - 1 \in 0 .. n /\ m - 1 \notin missing
  BY <1>2
<1> QED
  BY <1>3

(* A function that is defined by recursion over 0..n exists. *)
Recurs(f, n, x, G) == f[0] = x /\ \A k \in 1 .. n : f[k] = G[<<k, f[k - 1]>>]

LEMMA Recursion ==
  ASSUME NEW n \in Nat, NEW T, NEW x \in T, NEW G \in [(1 .. n) \X T -> T]
  PROVE  \E f \in [0 .. n -> T] : Recurs(f, n, x, G)
<1> DEFINE good == {m \in 0 .. n : \E f \in [0 .. m -> T] : Recurs(f, m, x, G)}
<1>1. 0 \in good
  <2> DEFINE f == [k \in 0 .. 0 |-> x]
  <2>1. f \in [0 .. 0 -> T] /\ f[0] = x /\ \A k \in 1 .. 0 : f[k] = G[<<k, f[k - 1]>>]
    OBVIOUS
  <2>2. 0 \in 0 .. n
    OBVIOUS
  <2> HIDE DEF f
  <2> QED
    BY <2>1, <2>2 DEF Recurs
<1>2. ASSUME NEW m \in 1 .. n, m - 1 \in good PROVE m \in good
  <2>1. PICK f \in [0 .. (m - 1) -> T] : Recurs(f, m - 1, x, G)
    BY <1>2
  <2>2. f[0] = x /\ \A k \in 1 .. m - 1 : f[k] = G[<<k, f[k - 1]>>]
    BY <2>1 DEF Recurs
  <2> DEFINE y == G[<<m, f[m - 1]>>]
             g == [k \in 0 .. m |-> IF k < m THEN f[k] ELSE y]
  <2>3. y \in T
    <3>1. <<m, f[m - 1]>> \in (1 .. n) \X T
      OBVIOUS
    <3> QED
      BY <3>1
  <2>4. g \in [0 .. m -> T] /\ g[0] = x
    <3>1. \A k \in 0 .. m : k < m => k \in 0 .. (m - 1)
      OBVIOUS
    <3> HIDE DEF y
    <3> QED
      BY <2>2, <2>3, <3>1
  <2>5. ASSUME NEW k \in 1 .. m PROVE g[k] = G[<<k, g[k - 1]>>]
    <3>1. g[k - 1] = f[k - 1]
      OBVIOUS
    <3>2. CASE k < m
      <4>1. k \in 1 .. m - 1 /\ g[k] = f[k]
        BY <3>2
      <4> QED
        BY <2>2, <3>1, <4>1
    <3>3. CASE k = m
      <4>1. g[k] = y
        BY <3>3
      <4>2. y = G[<<k, f[k - 1]>>]
        BY <3>3
      <4> HIDE DEF y, g
      <4> QED
        BY <3>1, <4>1, <4>2
    <3> QED
      BY <3>2, <3>3
  <2> HIDE DEF g
  <2>6. Recurs(g, m, x, G)
    BY <2>4, <2>5 DEF Recurs
  <2>7. m \in 0 .. n
    OBVIOUS
  <2> QED
    BY <2>4, <2>6, <2>7
<1>3. n \in good
  <2>1. n \in 0 .. n
    OBVIOUS
  <2> HIDE DEF good
  <2> QED
    BY <1>1, <1>2, <2>1, UpTo
<1> QED
  BY <1>3

-----------------------------------------------------------------------------
(* Sequences that are joined. *)
LEMMA Joined ==
  ASSUME NEW S, NEW a \in Seq(S), NEW b \in Seq(S)
  PROVE  /\ a \o b \in Seq(S) /\ Len(a \o b) = Len(a) + Len(b)
         /\ \A k \in 1 .. Len(a) : (a \o b)[k] = a[k]
         /\ \A k \in 1 .. Len(b) : (a \o b)[Len(a) + k] = b[k]
OBVIOUS

(* A list with one element more. *)
LEMMA InsertedAt ==
  ASSUME NEW S, NEW list \in Seq(S), NEW r \in S, NEW p \in 1 .. Len(list)
  PROVE  /\ InsertAt(list, p, r) \in Seq(S)
         /\ Len(InsertAt(list, p, r)) = Len(list) + 1
         /\ InsertAt(list, p, r)[p] = r
         /\ \A i \in 1 .. p - 1 : InsertAt(list, p, r)[i] = list[i]
         /\ \A i \in p .. Len(list) : InsertAt(list, p, r)[i + 1] = list[i]
<1>1. /\ Len(list) \in Nat /\ p \in Nat /\ 1 <= p /\ p <= Len(list)
      /\ \A i \in 1 .. Len(list) : list[i] \in S
  OBVIOUS
<1> DEFINE n == Len(list)
           a == SubSeq(list, 1, p - 1)
           b == SubSeq(list, p, n)
<1>2. a \in Seq(S) /\ Len(a) = p - 1 /\ \A i \in 1 .. p - 1 : a[i] = list[i]
  BY <1>1
<1>3. b \in Seq(S) /\ Len(b) = (n - p) + 1 /\ \A i \in 1 .. (n - p) + 1 : b[i] = list[(p + i) - 1]
  BY <1>1
<1>4. InsertAt(list, p, r) = (a \o <<r>>) \o b
  BY DEF InsertAt
<1> HIDE DEF a, b
<1> DEFINE ar == a \o <<r>>
<1>5. ar \in Seq(S) /\ Len(ar) = p /\ ar[p] = r /\ \A i \in 1 .. p - 1 : ar[i] = list[i]
  BY <1>1, <1>2
<1> HIDE DEF ar
<1> DEFINE s == ar \o b
<1>6. s \in Seq(S) /\ Len(s) = n + 1
  <2>1. s \in Seq(S) /\ Len(s) = Len(ar) + Len(b)
    BY <1>3, <1>5, Joined
  <2> QED
    BY <1>1, <1>3, <1>5, <2>1
<1>7. \A i \in 1 .. p : s[i] = ar[i]
  BY <1>3, <1>5, Joined
<1>8. ASSUME NEW i \in p .. n PROVE s[i + 1] = list[i]
  <2>1. (i - p) + 1 \in 1 .. (n - p) + 1 /\ i + 1 = p + ((i - p) + 1)
        /\ (p + ((i - p) + 1)) - 1 = i
    BY <1>1
  <2>2. s[p + ((i - p) + 1)] = b[(i - p) + 1]
    BY <1>3, <1>5, <2>1, Joined
  <2> QED
    BY <1>3, <2>1, <2>2
<1> QED
  BY <1>1, <1>4, <1>5, <1>6, <1>7, <1>8 DEF ar, s

LEMMA InsertedFrom ==
  ASSUME NEW S, NEW list \in Seq(S), NEW r \in S, NEW p \in 1 .. Len(list),
         NEW i \in 1 .. Len(InsertAt(list, p, r)) - 1
  PROVE  \/ InsertAt(list, p, r)[i] = r
         \/ \E a \in 1 .. Len(list) - 1 : InsertAt(list, p, r)[i] = list[a]
<1> DEFINE n == Len(list)
           new == InsertAt(list, p, r)
<1>1. n \in Nat /\ p \in Nat /\ 1 <= p /\ p <= n
  OBVIOUS
<1>2. Len(new) = n + 1
  BY InsertedAt
<1>3. new[p] = r
  BY InsertedAt
<1>4. \A a \in 1 .. p - 1 : new[a] = list[a]
  BY InsertedAt
<1>5. \A a \in p .. n : new[a + 1] = list[a]
  BY InsertedAt
<1> HIDE DEF n, new
<1>6. i \in 1 .. n
  BY <1>1, <1>2 DEF new
<1>7. CASE i < p
  <2>1. i \in 1 .. p - 1 /\ i \in 1 .. n - 1
    BY <1>1, <1>6, <1>7
  <2> QED
    BY <1>4, <2>1 DEF new, n
<1>8. CASE i = p
  BY <1>3, <1>8 DEF new
<1>9. CASE i > p
  <2>1. i - 1 \in p .. n /\ (i - 1) + 1 = i /\ i - 1 \in 1 .. n - 1
    BY <1>1, <1>6, <1>9
  <2>2. new[i] = list[i - 1]
    BY <1>5, <2>1
  <2> QED
    BY <2>1, <2>2 DEF new, n
<1> QED
  BY <1>1, <1>6, <1>7, <1>8, <1>9

-----------------------------------------------------------------------------
(* Counting the positions up to k. *)
LEMMA CountsOn ==
  ASSUME NEW P, NEW k \in Nat \ {0}
  PROVE  /\ Cardinality(P \cap (1 .. k)) \in Nat
         /\ Cardinality(P \cap (1 .. k - 1)) \in Nat
         /\ Cardinality(P \cap (1 .. k))
              = Cardinality(P \cap (1 .. k - 1)) + (IF k \in P THEN 1 ELSE 0)
<1> DEFINE A == P \cap (1 .. k - 1)
           B == P \cap (1 .. k)
<1>1. IsFiniteSet(1 .. k) /\ IsFiniteSet(1 .. k - 1)
  BY FS_Interval
<1>2. IsFiniteSet(A) /\ IsFiniteSet(B)
  <2>1. A \subseteq 1 .. k - 1 /\ B \subseteq 1 .. k
    OBVIOUS
  <2> HIDE DEF A, B
  <2> QED
    BY <1>1, <2>1, FS_Subset
<1>3. k \notin A /\ (k \in P => B = A \cup {k}) /\ (k \notin P => B = A)
  OBVIOUS
<1> HIDE DEF A, B
<1>4. Cardinality(A) \in Nat /\ Cardinality(B) \in Nat
  BY <1>2, FS_CardinalityType
<1>5. Cardinality(A \cup {k}) = Cardinality(A) + 1
  BY <1>2, <1>3, FS_AddElement
<1>6. Cardinality(B) = Cardinality(A) + (IF k \in P THEN 1 ELSE 0)
  BY <1>3, <1>4, <1>5
<1> QED
  BY <1>4, <1>6 DEF A, B
=============================================================================
