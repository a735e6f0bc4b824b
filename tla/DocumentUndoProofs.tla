------------------------- MODULE DocumentUndoProofs -------------------------
(***************************************************************************)
(* Proofs about DocumentUndo, for any number of edits, commits and saves,  *)
(* any keys and icons.                                                     *)
(*                                                                         *)
(* The history of rows is followed by HistoryInv: the rows are a tree of   *)
(* two levels whose nodes are distinct and were given in the order of the  *)
(* events (TreeOK), the iterators point into it (CursorOK), and the rows   *)
(* on either side of the current one are the two stacks (Mirrors).  For    *)
(* each operator of EventLog a lemma (...Facts) says what it makes of such *)
(* a tree; for each function of DocumentUndo a lemma (...Is) says what it  *)
(* changes, and another (...OK) that HistoryInv is kept.                   *)
(*                                                                         *)
(* The logs are followed by LogsInv: the content is what was settled and   *)
(* then what is pending, and what was settled ends with the undo stack; no *)
(* edit is there twice, the redo stack included, and unless a transaction  *)
(* was not complete they are in the order in which they were made (Fits).  *)
(*                                                                         *)
(* What the file holds is followed by SaveInv: if the saved row is still   *)
(* there, the file holds the content that undoing or redoing to it would   *)
(* give (Filed, Place), unless the row was blurred.  A row keeps its place *)
(* when events are added behind it (...Places) or undone (Moves), and when *)
(* old ones expire (Cut), all rows being shifted; then the saved row must  *)
(* still show the event it did, no two of which are the same (Named).      *)
(*                                                                         *)
(* A limit of one event is excluded by the premise UndoSize > 1: with it   *)
(* the row that the history is at expires (event-log.cpp:181), and the     *)
(* properties of the history are false.                                    *)
(***************************************************************************)
EXTENDS DocumentUndo, SequenceTheorems, WellFoundedInduction, TLAPS

-----------------------------------------------------------------------------
(* Induction and recursion over an interval.                               *)

LEMMA LeastOf ==
  ASSUME NEW S \in SUBSET Nat, S # {}
  PROVE  \E m \in S : \A k \in S : m <= k
<1>1. PICK m \in S : \A k \in S : ~(<<k, m>> \in OpToRel(<, Nat))
  <2>1. IsWellFoundedOn(OpToRel(<, Nat), Nat)
    BY NatLessThanWellFounded
  <2> QED BY <2>1, WFMin
<1>2. \A k \in S : ~(k < m)
  BY <1>1 DEF OpToRel
<1> QED BY <1>2

LEMMA GreatestOf ==
  ASSUME NEW n \in Nat, NEW S \in SUBSET (1..n), S # {}
  PROVE  \E m \in S : \A k \in S : k <= m
<1> DEFINE T == {n - k : k \in S}
<1>1. T \in SUBSET Nat /\ T # {}
  <2>1. \A k \in S : n - k \in Nat
    OBVIOUS
  <2> QED BY <2>1
<1>2. \A k \in S : n - k \in T
  OBVIOUS
<1>3. \A t \in T : \E k \in S : t = n - k
  OBVIOUS
<1> HIDE DEF T
<1>4. PICK t \in T : \A x \in T : t <= x
  BY <1>1, LeastOf
<1>5. PICK m \in S : t = n - m
  BY <1>3
<1>6. \A k \in S : n - m <= n - k
  BY <1>2, <1>4, <1>5
<1>7. \A k \in S : k \in Int /\ m \in Int
  OBVIOUS
<1> QED BY <1>6, <1>7

LEMMA Induct ==
  ASSUME NEW n \in Nat, NEW S, 0 \in S, \A k \in 1..n : k - 1 \in S => k \in S
  PROVE  \A k \in 0..n : k \in S
<1> SUFFICES ASSUME NEW j \in 0..n, j \notin S PROVE FALSE
  OBVIOUS
<1> DEFINE B == {k \in 0..n : k \notin S}
<1>1. B \in SUBSET Nat /\ B # {}
  OBVIOUS
<1>2. PICK m \in B : \A k \in B : m <= k
  BY <1>1, LeastOf
<1>3. m \in 0..n /\ m \notin S /\ m # 0
  OBVIOUS
<1>4. m \in 1..n /\ m - 1 \in 0..n
  BY <1>3
<1>5. m - 1 \notin B
  BY <1>2, <1>3
<1>6. m - 1 \in S
  BY <1>4, <1>5
<1> QED BY <1>3, <1>4, <1>6

\* The function that is given by its first value and by a step.
Recursive(f, n, V, a, g) ==
  f \in [0..n -> V] /\ f[0] = a /\ \A k \in 1..n : f[k] = g[<<f[k - 1], k>>]

LEMMA Recursion ==
  ASSUME NEW n \in Nat, NEW V, NEW a \in V, NEW g \in [V \X (1..n) -> V]
  PROVE  \E f : Recursive(f, n, V, a, g)
<1> DEFINE S == {m \in 0..n : \E f \in [0..m -> V] :
                   f[0] = a /\ \A k \in 1..m : f[k] = g[<<f[k - 1], k>>]}
<1>1. 0 \in S
  <2> DEFINE f == [k \in 0..0 |-> a]
  <2>1. f \in [0..0 -> V] /\ f[0] = a
    OBVIOUS
  <2>2. \A k \in 1..0 : FALSE
    OBVIOUS
  <2> HIDE DEF f
  <2> QED BY <2>1, <2>2
<1>2. ASSUME NEW m \in 1..n, m - 1 \in S PROVE m \in S
  <2>1. PICK f \in [0..(m - 1) -> V] : f[0] = a /\ \A k \in 1..(m - 1) : f[k] = g[<<f[k - 1], k>>]
    BY <1>2
  <2> DEFINE h == [k \in 0..m |-> IF k = m THEN g[<<f[m - 1], m>>] ELSE f[k]]
  <2>2. \A k \in 0..(m - 1) : f[k] \in V /\ h[k] = f[k]
    BY <2>1
  <2>3. g[<<f[m - 1], m>>] \in V /\ h[m] = g[<<f[m - 1], m>>]
    BY <2>2
  <2>4. h \in [0..m -> V]
    BY <2>2, <2>3
  <2>5. h[0] = a
    BY <2>1, <2>2
  <2>6. ASSUME NEW k \in 1..m PROVE h[k] = g[<<h[k - 1], k>>]
    <3> HIDE DEF h
    <3>1. CASE k = m
      <4>1. h[k - 1] = f[k - 1]
        BY <2>2, <3>1
      <4> QED BY <2>3, <3>1, <4>1
    <3>2. CASE k # m
      <4>1. k \in 1..(m - 1) /\ k \in 0..(m - 1) /\ k - 1 \in 0..(m - 1)
        BY <3>2
      <4> QED BY <2>1, <2>2, <4>1
    <3> QED BY <3>1, <3>2
  <2> HIDE DEF h
  <2> QED BY <2>4, <2>5, <2>6
<1> HIDE DEF S
<1>3. n \in S
  BY <1>1, <1>2, Induct
<1> QED BY <1>3 DEF S, Recursive

-----------------------------------------------------------------------------
(* Sequences.                                                              *)

Distinct(s) == \A i, j \in DOMAIN s : s[i] = s[j] => i = j

Increasing(s) == \A i, j \in DOMAIN s : i < j => s[i] < s[j]

Reversed(s) == [i \in 1..Len(s) |-> s[Len(s) + 1 - i]]

LEMMA Members ==
  ASSUME NEW S, NEW s \in Seq(S)
  PROVE  /\ Range(s) \subseteq S /\ \A i \in 1..Len(s) : s[i] \in Range(s)
         /\ \A x \in Range(s) : \E i \in 1..Len(s) : x = s[i]
<1>1. DOMAIN s = 1..Len(s) /\ \A i \in 1..Len(s) : s[i] \in S
  OBVIOUS
<1> QED BY <1>1 DEF Range

LEMMA Parts ==
  ASSUME NEW S, NEW s \in Seq(S), NEW t \in Seq(S)
  PROVE  /\ s \o t \in Seq(S) /\ DOMAIN (s \o t) = 1..(Len(s) + Len(t))
         /\ DOMAIN s = 1..Len(s) /\ DOMAIN t = 1..Len(t) /\ Len(s) \in Nat /\ Len(t) \in Nat
         /\ \A i \in 1..Len(s) : (s \o t)[i] = s[i]
         /\ \A i \in 1..Len(t) : (s \o t)[Len(s) + i] = t[i]
         /\ \A i \in 1..(Len(s) + Len(t)) : i \in 1..Len(s) \/ \E j \in 1..Len(t) : i = Len(s) + j
<1>1. /\ s \o t \in Seq(S) /\ Len(s \o t) = Len(s) + Len(t)
      /\ \A i \in 1 .. Len(s) + Len(t) : (s \o t)[i] = IF i <= Len(s) THEN s[i] ELSE t[i - Len(s)]
  BY ConcatProperties
<1>2. Len(s) \in Nat /\ Len(t) \in Nat /\ DOMAIN s = 1..Len(s) /\ DOMAIN t = 1..Len(t)
  OBVIOUS
<1>3. DOMAIN (s \o t) = 1..(Len(s) + Len(t))
  BY <1>1
<1>4. \A i \in 1..Len(s) : (s \o t)[i] = s[i]
  BY <1>1, <1>2
<1>5. \A i \in 1..Len(t) : (s \o t)[Len(s) + i] = t[i]
  <2> TAKE i \in 1..Len(t)
  <2>1. Len(s) + i \in 1..(Len(s) + Len(t)) /\ ~(Len(s) + i <= Len(s)) /\ Len(s) + i - Len(s) = i
    BY <1>2
  <2> QED BY <1>1, <2>1
<1>6. \A i \in 1..(Len(s) + Len(t)) : i \in 1..Len(s) \/ \E j \in 1..Len(t) : i = Len(s) + j
  <2> TAKE i \in 1..(Len(s) + Len(t))
  <2>1. CASE i > Len(s)
    <3>1. i - Len(s) \in 1..Len(t) /\ i = Len(s) + (i - Len(s))
      BY <1>2, <2>1
    <3> QED BY <3>1
  <2>2. CASE ~(i > Len(s))
    BY <1>2, <2>2
  <2> QED BY <2>1, <2>2
<1> QED BY <1>1, <1>2, <1>3, <1>4, <1>5, <1>6

LEMMA DistinctConcat ==
  ASSUME NEW S, NEW s \in Seq(S), NEW t \in Seq(S)
  PROVE  Distinct(s \o t) <=> Distinct(s) /\ Distinct(t) /\ Range(s) \cap Range(t) = {}
<1> DEFINE c == s \o t
           m == Len(s)
           n == Len(t)
<1>1. /\ DOMAIN c = 1..(m + n) /\ DOMAIN s = 1..m /\ DOMAIN t = 1..n /\ m \in Nat /\ n \in Nat
      /\ \A i \in 1..m : c[i] = s[i]
      /\ \A i \in 1..n : c[m + i] = t[i]
      /\ \A i \in 1..(m + n) : i \in 1..m \/ \E j \in 1..n : i = m + j
  BY Parts
<1>2. /\ \A i \in 1..m : s[i] \in Range(s)
      /\ \A i \in 1..n : t[i] \in Range(t)
      /\ \A x \in Range(s) : \E i \in 1..m : x = s[i]
      /\ \A x \in Range(t) : \E i \in 1..n : x = t[i]
  BY Members
<1> HIDE DEF c, m, n
<1>3. ASSUME Distinct(c) PROVE Distinct(s) /\ Distinct(t) /\ Range(s) \cap Range(t) = {}
  <2>1. \A i, j \in 1..(m + n) : c[i] = c[j] => i = j
    BY <1>1, <1>3 DEF Distinct
  <2>2. Distinct(s)
    <3>1. ASSUME NEW i \in 1..m, NEW j \in 1..m, s[i] = s[j] PROVE i = j
      <4>1. i \in 1..(m + n) /\ j \in 1..(m + n)
        BY <1>1
      <4> QED BY <1>1, <2>1, <3>1, <4>1
    <3> QED BY <1>1, <3>1 DEF Distinct
  <2>3. Distinct(t)
    <3>1. ASSUME NEW i \in 1..n, NEW j \in 1..n, t[i] = t[j] PROVE i = j
      <4>1. m + i \in 1..(m + n) /\ m + j \in 1..(m + n)
        BY <1>1
      <4>2. m + i = m + j
        BY <1>1, <2>1, <3>1, <4>1
      <4> QED BY <1>1, <4>2
    <3> QED BY <1>1, <3>1 DEF Distinct
  <2>4. ASSUME NEW x \in Range(s), x \in Range(t) PROVE FALSE
    <3>1. PICK i \in 1..m : x = s[i]
      BY <1>2
    <3>2. PICK j \in 1..n : x = t[j]
      BY <1>2, <2>4
    <3>3. i \in 1..(m + n) /\ m + j \in 1..(m + n) /\ i # m + j
      BY <1>1
    <3> QED BY <1>1, <2>1, <3>1, <3>2, <3>3
  <2> QED BY <2>2, <2>3, <2>4
<1>4. ASSUME Distinct(s), Distinct(t), Range(s) \cap Range(t) = {} PROVE Distinct(c)
  <2>1. ASSUME NEW i \in 1..(m + n), NEW j \in 1..(m + n), c[i] = c[j] PROVE i = j
    <3>1. CASE i \in 1..m /\ j \in 1..m
      BY <1>1, <1>4, <2>1, <3>1 DEF Distinct
    <3>2. CASE i \notin 1..m /\ j \notin 1..m
      <4>1. PICK x \in 1..n : i = m + x
        BY <1>1, <3>2
      <4>2. PICK y \in 1..n : j = m + y
        BY <1>1, <3>2
      <4>3. t[x] = t[y]
        BY <1>1, <2>1, <4>1, <4>2
      <4> QED BY <1>1, <1>4, <4>1, <4>2, <4>3 DEF Distinct
    <3>3. CASE i \in 1..m /\ j \notin 1..m
      <4>1. PICK y \in 1..n : j = m + y
        BY <1>1, <3>3
      <4>2. s[i] = t[y]
        BY <1>1, <2>1, <3>3, <4>1
      <4> QED BY <1>2, <1>4, <3>3, <4>2
    <3>4. CASE i \notin 1..m /\ j \in 1..m
      <4>1. PICK y \in 1..n : i = m + y
        BY <1>1, <3>4
      <4>2. s[j] = t[y]
        BY <1>1, <2>1, <3>4, <4>1
      <4> QED BY <1>2, <1>4, <3>4, <4>2
    <3> QED BY <3>1, <3>2, <3>3, <3>4
  <2> QED BY <1>1, <2>1 DEF Distinct
<1> QED BY <1>3, <1>4 DEF c

LEMMA IncreasingConcat ==
  ASSUME NEW s \in Seq(Nat), NEW t \in Seq(Nat)
  PROVE  Increasing(s \o t) <=> /\ Increasing(s) /\ Increasing(t)
                                /\ \A x \in Range(s), y \in Range(t) : x < y
<1> DEFINE c == s \o t
           m == Len(s)
           n == Len(t)
<1>1. /\ DOMAIN c = 1..(m + n) /\ DOMAIN s = 1..m /\ DOMAIN t = 1..n /\ m \in Nat /\ n \in Nat
      /\ \A i \in 1..m : c[i] = s[i]
      /\ \A i \in 1..n : c[m + i] = t[i]
      /\ \A i \in 1..(m + n) : i \in 1..m \/ \E j \in 1..n : i = m + j
  BY Parts
<1>2. /\ \A i \in 1..m : s[i] \in Range(s)
      /\ \A i \in 1..n : t[i] \in Range(t)
      /\ \A x \in Range(s) : \E i \in 1..m : x = s[i]
      /\ \A x \in Range(t) : \E i \in 1..n : x = t[i]
  BY Members
<1> HIDE DEF c, m, n
<1>3. ASSUME Increasing(c)
      PROVE  Increasing(s) /\ Increasing(t) /\ \A x \in Range(s), y \in Range(t) : x < y
  <2>1. \A i, j \in 1..(m + n) : i < j => c[i] < c[j]
    BY <1>1, <1>3 DEF Increasing
  <2>2. Increasing(s)
    <3>1. ASSUME NEW i \in 1..m, NEW j \in 1..m, i < j PROVE s[i] < s[j]
      <4>1. i \in 1..(m + n) /\ j \in 1..(m + n)
        BY <1>1
      <4> QED BY <1>1, <2>1, <3>1, <4>1
    <3> QED BY <1>1, <3>1 DEF Increasing
  <2>3. Increasing(t)
    <3>1. ASSUME NEW i \in 1..n, NEW j \in 1..n, i < j PROVE t[i] < t[j]
      <4>1. m + i \in 1..(m + n) /\ m + j \in 1..(m + n) /\ m + i < m + j
        BY <1>1, <3>1
      <4>2. c[m + i] < c[m + j]
        BY <2>1, <4>1
      <4> QED BY <1>1, <4>2
    <3> QED BY <1>1, <3>1 DEF Increasing
  <2>4. ASSUME NEW x \in Range(s), NEW y \in Range(t) PROVE x < y
    <3>1. PICK i \in 1..m : x = s[i]
      BY <1>2
    <3>2. PICK j \in 1..n : y = t[j]
      BY <1>2
    <3>3. i \in 1..(m + n) /\ m + j \in 1..(m + n) /\ i < m + j
      BY <1>1
    <3>4. c[i] < c[m + j]
      BY <2>1, <3>3
    <3> QED BY <1>1, <3>1, <3>2, <3>4
  <2> QED BY <2>2, <2>3, <2>4
<1>4. ASSUME Increasing(s), Increasing(t), \A x \in Range(s), y \in Range(t) : x < y
      PROVE  Increasing(c)
  <2>1. ASSUME NEW i \in 1..(m + n), NEW j \in 1..(m + n), i < j PROVE c[i] < c[j]
    <3>1. CASE i \in 1..m /\ j \in 1..m
      BY <1>1, <1>4, <2>1, <3>1 DEF Increasing
    <3>2. CASE i \notin 1..m
      <4>1. PICK x \in 1..n : i = m + x
        BY <1>1, <3>2
      <4>2. j \notin 1..m
        BY <1>1, <2>1, <4>1
      <4>3. PICK y \in 1..n : j = m + y
        BY <1>1, <4>2
      <4>4. x < y
        BY <1>1, <2>1, <4>1, <4>3
      <4>5. t[x] < t[y]
        BY <1>1, <1>4, <4>4 DEF Increasing
      <4> QED BY <1>1, <4>1, <4>3, <4>5
    <3>3. CASE i \in 1..m /\ j \notin 1..m
      <4>1. PICK y \in 1..n : j = m + y
        BY <1>1, <3>3
      <4>2. s[i] < t[y]
        BY <1>2, <1>4, <3>3
      <4> QED BY <1>1, <3>3, <4>1, <4>2
    <3> QED BY <3>1, <3>2, <3>3
  <2> QED BY <1>1, <2>1 DEF Increasing
<1> QED BY <1>3, <1>4 DEF c

LEMMA IncreasingDistinct ==
  ASSUME NEW s \in Seq(Nat), Increasing(s)
  PROVE  Distinct(s)
<1>1. DOMAIN s = 1..Len(s) /\ \A i \in 1..Len(s) : s[i] \in Nat
  OBVIOUS
<1>2. ASSUME NEW i \in 1..Len(s), NEW j \in 1..Len(s), s[i] = s[j] PROVE i = j
  <2>1. ~(s[i] < s[j]) /\ ~(s[j] < s[i])
    BY <1>1, <1>2
  <2>2. ~(i < j) /\ ~(j < i)
    BY <1>1, <2>1 DEF Increasing
  <2> QED BY <2>2
<1> QED BY <1>1, <1>2 DEF Distinct

LEMMA ReversedFacts ==
  ASSUME NEW S, NEW s \in Seq(S)
  PROVE  /\ Reversed(s) \in Seq(S) /\ Len(Reversed(s)) = Len(s)
         /\ \A i \in 1..Len(s) : Reversed(s)[i] = s[Len(s) + 1 - i]
         /\ \A e \in S : Reversed(Append(s, e)) = <<e>> \o Reversed(s)
<1>1. \A t \in Seq(S) : Reversed(t) \in Seq(S) /\ Len(Reversed(t)) = Len(t)
                        /\ \A i \in 1..Len(t) : Reversed(t)[i] = t[Len(t) + 1 - i]
  <2> TAKE t \in Seq(S)
  <2>1. Len(t) \in Nat /\ \A i \in 1..Len(t) : t[Len(t) + 1 - i] \in S
    OBVIOUS
  <2> QED BY <2>1 DEF Reversed
<1>2. ASSUME NEW e \in S PROVE Reversed(Append(s, e)) = <<e>> \o Reversed(s)
  <2> DEFINE a == Append(s, e)
             r == Reversed(s)
             b == <<e>> \o r
             n == Len(s)
  <2>1. /\ a \in Seq(S) /\ Len(a) = n + 1 /\ a[n + 1] = e /\ n \in Nat
        /\ \A i \in 1..n : a[i] = s[i]
    BY AppendProperties
  <2>2. /\ Reversed(a) \in Seq(S) /\ Len(Reversed(a)) = n + 1
        /\ \A i \in 1..(n + 1) : Reversed(a)[i] = a[n + 2 - i]
    <3>1. Len(a) + 1 = n + 2
      BY <2>1
    <3> HIDE DEF a, n
    <3> QED BY <1>1, <2>1, <3>1
  <2>3. r \in Seq(S) /\ Len(r) = n /\ \A i \in 1..n : r[i] = s[n + 1 - i]
    BY <1>1
  <2>4. /\ b \in Seq(S) /\ Len(b) = n + 1 /\ b[1] = e
        /\ \A i \in 2..(n + 1) : b[i] = r[i - 1]
    <3> HIDE DEF r, n
    <3> QED BY <2>1, <2>3, ConcatProperties
  <2> HIDE DEF a, b, r, n
  <2>5. ASSUME NEW i \in 1..(n + 1) PROVE Reversed(a)[i] = b[i]
    <3>1. CASE i = 1
      <4>1. n + 2 - i = n + 1
        BY <2>1, <3>1
      <4> QED BY <2>1, <2>2, <2>4, <3>1, <4>1
    <3>2. CASE i # 1
      <4>1. i \in 2..(n + 1) /\ n + 2 - i \in 1..n /\ i - 1 \in 1..n /\ n + 1 - (i - 1) = n + 2 - i
        BY <2>1, <3>2
      <4>2. b[i] = s[n + 2 - i]
        BY <2>3, <2>4, <4>1
      <4>3. Reversed(a)[i] = s[n + 2 - i]
        BY <2>1, <2>2, <4>1
      <4> QED BY <4>2, <4>3
    <3> QED BY <3>1, <3>2
  <2>6. Reversed(a) = b
    BY <2>2, <2>4, <2>5, SeqEqual
  <2> QED BY <2>6 DEF a, b, r
<1> QED BY <1>1, <1>2

-----------------------------------------------------------------------------
(* The rows and the iterators of the EventLog.                             *)

\* cancel() commits an event without an icon.
EventIcons == Icons \cup {""}

Rows == [node : Nat, event : Nat \cup {Null},
         icon : EventIcons \cup {"document-new"}, child : BOOLEAN]

Logs == [rows : Seq(Rows), curr : Nat, last : Nat \cup {End},
         parent : Nat \cup {Null}, saved : Nat]

IsParent(el, i, j) ==
  /\ j \in 1..i /\ ~el.rows[j].child
  /\ \A k \in (j + 1)..i : el.rows[k].child

\* The tree: nodes are used once, and neither the first row nor the one after
\* it is a child.
TreeOK(el) ==
  /\ el \in Logs
  /\ Len(el.rows) \in Nat \ {0}
  /\ \A i, j \in 1..Len(el.rows) : el.rows[i].node = el.rows[j].node => i = j
  /\ ~el.rows[1].child /\ el.rows[1].icon = "document-new"
  /\ 2 <= Len(el.rows) => ~el.rows[2].child

\* The iterators, the cursor being at row c.
CursorOK(el, c) ==
  /\ c \in 1..Len(el.rows)
  /\ el.curr = el.rows[c].node
  /\ el.parent = IF el.rows[c].child THEN ParentOf(el, c) ELSE Null
  /\ el.last = End \/ el.last = el.rows[Len(el.rows)].node

LogOK(el, c) == TreeOK(el) /\ CursorOK(el, c)

LEMMA RowType ==
  ASSUME NEW el \in Logs, NEW i \in 1..Len(el.rows)
  PROVE  /\ el.rows \in Seq(Rows) /\ el.rows[i] \in Rows /\ el.rows[i].node \in Nat
         /\ el.rows[i].event \in Nat \cup {Null} /\ el.rows[i].child \in BOOLEAN
<1>1. el.rows \in Seq(Rows)
  BY DEF Logs
<1>2. el.rows[i] \in Rows
  BY <1>1
<1> QED BY <1>1, <1>2 DEF Rows

LEMMA AtIs ==
  ASSUME NEW el, TreeOK(el), NEW i \in 1..Len(el.rows)
  PROVE  At(el, el.rows[i].node) = i
<1>1. DOMAIN el.rows = 1..Len(el.rows)
  BY DEF TreeOK, Logs
<1>2. \A j \in DOMAIN el.rows : el.rows[j].node = el.rows[i].node => j = i
  BY <1>1 DEF TreeOK
<1> QED BY <1>1, <1>2 DEF At

LEMMA NodesAre ==
  ASSUME NEW el, TreeOK(el)
  PROVE  /\ \A i \in 1..Len(el.rows) : el.rows[i].node \in NodesOf(el)
         /\ \A x \in NodesOf(el) : \E i \in 1..Len(el.rows) : x = el.rows[i].node
<1>1. DOMAIN el.rows = 1..Len(el.rows)
  BY DEF TreeOK, Logs
<1> QED BY <1>1 DEF NodesOf

\* A child has one parent.
LEMMA ParentIs ==
  ASSUME NEW el, NEW i \in Nat, NEW j, IsParent(el, i, j)
  PROVE  ParentOf(el, i) = el.rows[j].node
<1>1. ASSUME NEW k \in 1..i, IsParent(el, i, k) PROVE k = j
  <2>1. j \in 1..i
    BY DEF IsParent
  <2>2. CASE k < j
    <3>1. j \in (k + 1)..i
      BY <2>1, <2>2
    <3> QED BY <1>1, <3>1 DEF IsParent
  <2>3. CASE j < k
    <3>1. k \in (j + 1)..i
      BY <2>1, <2>3
    <3> QED BY <1>1, <3>1 DEF IsParent
  <2> QED BY <2>1, <2>2, <2>3
<1> DEFINE P(k) == ~el.rows[k].child /\ \A m \in (k + 1)..i : el.rows[m].child
<1>2. j \in 1..i /\ P(j)
  BY DEF IsParent
<1>3. \A k \in 1..i : P(k) => k = j
  BY <1>1 DEF IsParent
<1>4. (CHOOSE k \in 1..i : P(k)) = j
  <2> HIDE DEF P
  <2> QED BY <1>2, <1>3
<1> QED BY <1>4 DEF ParentOf

LEMMA ParentExists ==
  ASSUME NEW el, TreeOK(el), NEW i \in 1..Len(el.rows)
  PROVE  \E j \in 1..i : IsParent(el, i, j)
<1> DEFINE S == {k \in 1..i : ~el.rows[k].child}
<1>1. S \in SUBSET (1..i) /\ 1 \in S
  BY DEF TreeOK
<1>2. PICK m \in S : \A k \in S : k <= m
  <2> HIDE DEF S
  <2>1. i \in Nat
    BY DEF TreeOK
  <2> QED BY <1>1, <2>1, GreatestOf
<1>3. \A k \in (m + 1)..i : el.rows[k].child
  <2> TAKE k \in (m + 1)..i
  <2>1. k \in 1..i /\ ~(k <= m)
    BY <1>1
  <2>2. k \notin S
    BY <1>2, <2>1
  <2> QED BY <2>1, <2>2
<1> QED BY <1>3 DEF IsParent

\* A branch goes on as long as the rows are children.
LEMMA ParentBelow ==
  ASSUME NEW el, NEW i \in Nat \ {0}, NEW j, el.rows[i + 1].child
  PROVE  IsParent(el, i + 1, j) <=> IsParent(el, i, j)
<1>1. ASSUME IsParent(el, i + 1, j) PROVE IsParent(el, i, j)
  <2>1. j \in 1..(i + 1) /\ ~el.rows[j].child
    BY <1>1 DEF IsParent
  <2>2. j # i + 1
    BY <2>1
  <2>3. j \in 1..i /\ \A k \in (j + 1)..i : k \in (j + 1)..(i + 1)
    BY <2>1, <2>2
  <2> QED BY <1>1, <2>3 DEF IsParent
<1>2. ASSUME IsParent(el, i, j) PROVE IsParent(el, i + 1, j)
  <2>1. j \in 1..i
    BY <1>2 DEF IsParent
  <2>2. j \in 1..(i + 1) /\ \A k \in (j + 1)..(i + 1) : k \in (j + 1)..i \/ k = i + 1
    BY <2>1
  <2> QED BY <1>2, <2>2 DEF IsParent
<1> QED BY <1>1, <1>2

LEMMA MoveUndoFacts ==
  ASSUME NEW el, NEW c, LogOK(el, c), c > 1
  PROVE  /\ LogOK(MoveUndo(el), c - 1)
         /\ MoveUndo(el).rows = el.rows /\ MoveUndo(el).saved = el.saved
         /\ UndoEvent(el) = el.rows[c].event
<1> DEFINE m == MoveUndo(el)
<1>1. el \in Logs /\ c \in 1..Len(el.rows) /\ Len(el.rows) \in Nat /\ el.curr = el.rows[c].node
  BY DEF LogOK, TreeOK, CursorOK
<1>2. At(el, el.curr) = c
  BY <1>1, AtIs DEF LogOK
<1>3. c - 1 \in 1..Len(el.rows)
  BY <1>1
<1>4. /\ el.rows[c - 1].node \in Nat /\ el.rows[c - 1].child \in BOOLEAN
      /\ el.rows[c].child \in BOOLEAN
  BY <1>1, <1>3, RowType
<1>5. PICK j \in 1..(c - 1) : IsParent(el, c - 1, j)
  BY <1>3, ParentExists DEF LogOK
<1>6. ParentOf(el, c - 1) = el.rows[j].node /\ el.rows[j].node \in Nat
  <2>1. j \in 1..Len(el.rows) /\ c - 1 \in Nat
    BY <1>1
  <2> QED BY <1>1, <1>5, <2>1, ParentIs, RowType
<1>7. /\ m = [el EXCEPT !.curr = el.rows[c - 1].node, !.parent = m.parent]
      /\ m.parent = IF el.rows[c].child /\ ~el.rows[c - 1].child THEN Null
                ELSE IF ~el.rows[c].child /\ el.rows[c - 1].child
                THEN ParentOf(el, c - 1) ELSE el.parent
  BY <1>1, <1>2 DEF MoveUndo, Logs
<1>8. m.parent = IF el.rows[c - 1].child THEN ParentOf(el, c - 1) ELSE Null
  <2>1. el.parent = IF el.rows[c].child THEN ParentOf(el, c) ELSE Null
    BY DEF LogOK, CursorOK
  <2>2. CASE el.rows[c].child /\ el.rows[c - 1].child
    <3>1. c - 1 \in Nat \ {0} /\ (c - 1) + 1 = c /\ c \in Nat
      BY <1>1
    <3>2. IsParent(el, c, j)
      BY <1>5, <2>2, <3>1, ParentBelow
    <3>3. ParentOf(el, c) = el.rows[j].node
      BY <3>1, <3>2, ParentIs
    <3> QED BY <1>6, <1>7, <2>1, <2>2, <3>3
  <2> QED BY <1>4, <1>7, <2>1, <2>2
<1> HIDE DEF m
<1>9. m.parent \in Nat \cup {Null}
  BY <1>6, <1>8
<1>10. /\ m \in Logs /\ m.rows = el.rows /\ m.curr = el.rows[c - 1].node
       /\ m.last = el.last /\ m.saved = el.saved
  BY <1>1, <1>4, <1>7, <1>9 DEF Logs
<1>11. LogOK(m, c - 1)
  <2>1. TreeOK(m)
    BY <1>10 DEF LogOK, TreeOK
  <2>2. ParentOf(m, c - 1) = ParentOf(el, c - 1)
    BY <1>10 DEF ParentOf
  <2>3. CursorOK(m, c - 1)
    BY <1>3, <1>8, <1>10, <2>2 DEF LogOK, CursorOK
  <2> QED BY <2>1, <2>3 DEF LogOK
<1>12. UndoEvent(el) = el.rows[c].event
  BY <1>2 DEF UndoEvent
<1> QED BY <1>10, <1>11, <1>12 DEF m

LEMMA MoveRedoFacts ==
  ASSUME NEW el, NEW c, LogOK(el, c), c < Len(el.rows)
  PROVE  /\ LogOK(MoveRedo(el), c + 1)
         /\ MoveRedo(el).rows = el.rows /\ MoveRedo(el).saved = el.saved
         /\ RedoEvent(el) = el.rows[c + 1].event
<1> DEFINE m == MoveRedo(el)
<1>1. el \in Logs /\ c \in 1..Len(el.rows) /\ Len(el.rows) \in Nat /\ el.curr = el.rows[c].node
  BY DEF LogOK, TreeOK, CursorOK
<1>2. At(el, el.curr) = c
  BY <1>1, AtIs DEF LogOK
<1>3. c + 1 \in 1..Len(el.rows)
  BY <1>1
<1>4. /\ el.rows[c + 1].node \in Nat /\ el.rows[c + 1].child \in BOOLEAN
      /\ el.rows[c].child \in BOOLEAN /\ el.rows[c].node \in Nat
  BY <1>1, <1>3, RowType
<1>5. PICK j \in 1..c : IsParent(el, c, j)
  BY <1>1, ParentExists DEF LogOK
<1>6. ParentOf(el, c) = el.rows[j].node /\ el.rows[j].node \in Nat
  <2>1. j \in 1..Len(el.rows) /\ c \in Nat
    BY <1>1
  <2> QED BY <1>1, <1>5, <2>1, ParentIs, RowType
<1>7. /\ m = [el EXCEPT !.curr = el.rows[c + 1].node, !.parent = m.parent]
      /\ m.parent = IF ~el.rows[c].child /\ el.rows[c + 1].child THEN el.curr
                    ELSE IF el.rows[c].child /\ ~el.rows[c + 1].child THEN Null
                    ELSE el.parent
  BY <1>1, <1>2 DEF MoveRedo, Logs
<1>8. m.parent = IF el.rows[c + 1].child THEN ParentOf(el, c + 1) ELSE Null
  <2>1. el.parent = IF el.rows[c].child THEN ParentOf(el, c) ELSE Null
    BY DEF LogOK, CursorOK
  <2>2. CASE el.rows[c + 1].child
    <3>1. c \in Nat \ {0} /\ c + 1 \in Nat
      BY <1>1
    <3>2. IsParent(el, c + 1, j)
      BY <1>5, <2>2, <3>1, ParentBelow
    <3>3. ParentOf(el, c + 1) = el.rows[j].node
      BY <3>1, <3>2, ParentIs
    <3>4. CASE el.rows[c].child
      BY <1>4, <1>6, <1>7, <2>1, <2>2, <3>3, <3>4
    <3>5. CASE ~el.rows[c].child
      <4>1. j = c
        BY <3>1, <1>5, <3>5 DEF IsParent
      <4> QED BY <1>1, <1>7, <2>2, <3>3, <3>5, <4>1
    <3> QED BY <3>4, <3>5
  <2> QED BY <1>4, <1>7, <2>1, <2>2
<1> HIDE DEF m
<1>9. m.parent \in Nat \cup {Null}
  BY <1>1, <1>4, <1>6, <1>7 DEF Logs
<1>10. /\ m \in Logs /\ m.rows = el.rows /\ m.curr = el.rows[c + 1].node
       /\ m.last = el.last /\ m.saved = el.saved
  BY <1>1, <1>4, <1>7, <1>9 DEF Logs
<1>11. LogOK(m, c + 1)
  <2>1. TreeOK(m)
    BY <1>10 DEF LogOK, TreeOK
  <2>2. ParentOf(m, c + 1) = ParentOf(el, c + 1)
    BY <1>10 DEF ParentOf
  <2>3. CursorOK(m, c + 1)
    BY <1>3, <1>8, <1>10, <2>2 DEF LogOK, CursorOK
  <2> QED BY <2>1, <2>3 DEF LogOK
<1>12. RedoEvent(el) = el.rows[c + 1].event
  <2>1. c # Len(el.rows) /\ Len(el.rows) \in 1..Len(el.rows)
    BY <1>1
  <2>2. el.rows[c].node # el.rows[Len(el.rows)].node
    BY <1>1, <2>1 DEF LogOK, TreeOK
  <2>3. el.curr # el.last
    BY <1>1, <1>4, <2>2, IteratorsAssumption DEF LogOK, CursorOK
  <2> QED BY <1>2, <2>1, <2>3 DEF RedoEvent
<1> QED BY <1>10, <1>11, <1>12 DEF m

Above(el, n) == \A x \in NodesOf(el) : x < n

\* A commit with the cursor at the last row adds one below it.
LEMMA CommitRowFacts ==
  ASSUME NEW el, NEW c, LogOK(el, c), ~(c < Len(el.rows)), NEW n \in Nat, Above(el, n),
         NEW icon \in EventIcons
  PROVE  LET m == CommitRow(el, n, n, icon) IN
         /\ LogOK(m, c + 1) /\ m.saved = el.saved
         /\ \E row \in Rows : row.node = n /\ row.event = n /\ m.rows = Append(el.rows, row)
<1> DEFINE m == CommitRow(el, n, n, icon)
           same == icon = el.rows[c].icon
           row == Row(n, n, icon, same)
<1>1. /\ el \in Logs /\ c \in 1..Len(el.rows) /\ c \in Nat \ {0} /\ el.curr = el.rows[c].node
      /\ el.rows \in Seq(Rows) /\ c = Len(el.rows)
  <2>1. /\ el \in Logs /\ c \in 1..Len(el.rows) /\ Len(el.rows) \in Nat
        /\ el.curr = el.rows[c].node /\ el.rows \in Seq(Rows)
    BY DEF LogOK, TreeOK, CursorOK, Logs
  <2>2. c \in Nat \ {0} /\ c = Len(el.rows)
    BY <2>1
  <2> QED BY <2>1, <2>2
<1>2. At(el, el.curr) = c
  BY <1>1, AtIs DEF LogOK
<1>3. /\ row \in Rows /\ row.node = n /\ row.event = n /\ row.child = same
  BY DEF Row, Rows
<1>4. PICK j \in 1..c : IsParent(el, c, j)
  BY <1>1, ParentExists DEF LogOK
<1>5. /\ ParentOf(el, c) = el.rows[j].node /\ el.rows[j].node \in Nat
      /\ At(el, el.rows[j].node) = j /\ el.rows[c].child \in BOOLEAN
  BY <1>1, <1>4, ParentIs, RowType, AtIs DEF LogOK
<1>6. (IF el.parent = Null THEN el.curr ELSE el.parent) = el.rows[j].node
  <2>1. CASE el.rows[c].child
    <3>1. el.parent = el.rows[j].node
      BY <1>5, <2>1 DEF LogOK, CursorOK
    <3> QED BY <1>5, <3>1, IteratorsAssumption
  <2>2. CASE ~el.rows[c].child
    <3>1. j = c
      BY <1>1, <1>4, <2>2 DEF IsParent
    <3>2. el.parent = Null
      BY <2>2 DEF LogOK, CursorOK
    <3> QED BY <1>1, <3>1, <3>2
  <2> QED BY <1>5, <2>1, <2>2
<1>7. BranchEnd(el, j) = c
  <2> DEFINE P(k) == ~IsChild(el, k + 1) /\ \A i \in (j + 1)..k : el.rows[i].child
  <2>1. DOMAIN el.rows = 1..c
    BY <1>1
  <2>2. c + 1 \notin DOMAIN el.rows /\ c \in j..c
    BY <1>1, <1>4, <2>1
  <2>3. P(c)
    BY <1>4, <2>2 DEF IsParent, IsChild
  <2>4. ASSUME NEW k \in j..c, P(k) PROVE k = c
    <3>1. k # c => k + 1 \in DOMAIN el.rows /\ k + 1 \in (j + 1)..c
      BY <1>1, <1>4, <2>1
    <3>2. k # c => el.rows[k + 1].child
      BY <1>4, <3>1 DEF IsParent
    <3> QED BY <2>4, <3>1, <3>2 DEF IsChild
  <2>5. (CHOOSE k \in j..Len(el.rows) : P(k)) = c
    <3> HIDE DEF P
    <3>1. Len(el.rows) = c
      BY <1>1
    <3> QED BY <2>2, <2>3, <2>4, <3>1
  <2> QED BY <2>5 DEF BranchEnd
<1>8. SubSeq(el.rows, 1, c) \o <<row>> \o SubSeq(el.rows, c + 1, c) = Append(el.rows, row)
  <2>1. SubSeq(el.rows, 1, c) = el.rows
    BY <1>1
  <2>2. SubSeq(el.rows, c + 1, c) = << >>
    BY <1>1
  <2>3. el.rows \o <<row>> = Append(el.rows, row)
    <3> HIDE DEF row
    <3> QED BY <1>1, <1>3
  <2>4. Append(el.rows, row) \o << >> = Append(el.rows, row)
    <3> HIDE DEF row
    <3> QED BY <1>1, <1>3
  <2> QED BY <2>1, <2>2, <2>3, <2>4
<1>9. /\ m = [rows |-> Append(el.rows, row), curr |-> n, last |-> n, parent |-> m.parent,
              saved |-> el.saved]
      /\ m.parent = IF same THEN el.rows[j].node ELSE Null
  <2>1. CASE same
    <3>1. m = [el EXCEPT
             !.rows = SubSeq(@, 1, c) \o <<row>> \o SubSeq(@, c + 1, Len(@)),
             !.parent = el.rows[j].node, !.curr = n, !.last = n]
      <4> DEFINE parent == IF el.parent = Null THEN el.curr ELSE el.parent
                 k == BranchEnd(el, At(el, parent))
      <4>1. m = [el EXCEPT
             !.rows = SubSeq(@, 1, k) \o <<row>> \o SubSeq(@, k + 1, Len(@)),
             !.parent = parent, !.curr = n, !.last = n]
        BY <1>2, <2>1 DEF CommitRow
      <4>2. parent = el.rows[j].node
        BY <1>6
      <4>3. At(el, parent) = j
        BY <1>5, <4>2
      <4>4. k = c
        BY <1>7, <4>3
      <4> HIDE DEF parent, k, m, row
      <4> QED BY <4>1, <4>2, <4>4
    <3> HIDE DEF row, m, same
    <3>2. el = [rows |-> el.rows, curr |-> el.curr, last |-> el.last, parent |-> el.parent, saved |-> el.saved]
      BY <1>1 DEF Logs
    <3> QED BY <1>1, <1>8, <2>1, <3>1, <3>2
  <2>2. CASE ~same
    <3>1. m = [el EXCEPT
          !.rows = Append(@, row),
          !.parent = Null, !.curr = n, !.last = n]
      BY <1>2, <2>2 DEF CommitRow
    <3> HIDE DEF row, m, same
    <3>2. el = [rows |-> el.rows, curr |-> el.curr, last |-> el.last, parent |-> el.parent, saved |-> el.saved]
      BY <1>1 DEF Logs
    <3> QED BY <2>2, <3>1, <3>2
  <2> QED BY <2>1, <2>2
<1>10. c = 1 => ~same
  <2>1. icon # "document-new"
    BY IconsAssumption, Zenon DEF EventIcons
  <2>2. el.rows[1].icon = "document-new"
    BY DEF LogOK, TreeOK
  <2> QED BY <2>1, <2>2
<1> HIDE DEF row, m, same
<1>11. m.parent \in Nat \cup {Null}
  BY <1>5, <1>9
<1>12. /\ m.rows \in Seq(Rows) /\ Len(m.rows) = c + 1 /\ m.rows[c + 1] = row
       /\ \A i \in 1..c : m.rows[i] = el.rows[i]
  <2>1. m.rows = Append(el.rows, row)
    BY <1>9
  <2>2. Len(el.rows) = c
    BY <1>1
  <2> QED BY <1>1, <1>3, <2>1, <2>2, AppendProperties
<1>13. m \in Logs /\ m.curr = n /\ m.last = n /\ m.saved = el.saved
  <2>1. m.rows \in Seq(Rows)
    BY <1>12
  <2>2. el.saved \in Nat
    BY <1>1 DEF Logs
  <2>3. /\ m.curr = n /\ m.last = n /\ m.saved = el.saved
    BY <1>9
  <2>4. m = [rows |-> m.rows, curr |-> m.curr, last |-> m.last, parent |-> m.parent, saved |-> m.saved]
    BY <1>9
  <2>5. m \in Logs
    BY <1>11, <2>1, <2>2, <2>3, <2>4 DEF Logs
  <2> QED BY <2>3, <2>5
<1>14. TreeOK(m)
  <2>1. \A i \in 1..(c + 1) : i \in 1..c \/ i = c + 1
    BY <1>1
  <2>2. \A i \in 1..c : m.rows[i].node < n /\ m.rows[i].node \in Nat
    <3>1. \A i \in 1..c : el.rows[i].node \in NodesOf(el) /\ el.rows[i].node \in Nat
      BY <1>1, NodesAre, RowType DEF LogOK
    <3> QED BY <1>12, <3>1 DEF Above
  <2>3. m.rows[c + 1].node = n
    BY <1>3, <1>12
  <2>4. \A i, k \in 1..c : m.rows[i].node = m.rows[k].node => i = k
    BY <1>1, <1>12 DEF LogOK, TreeOK
  <2>5. \A i, k \in 1..(c + 1) : m.rows[i].node = m.rows[k].node => i = k
    <3> TAKE i, k \in 1..(c + 1)
    <3>1. CASE i \in 1..c /\ k \in 1..c
      BY <2>4, <3>1
    <3>2. CASE i \in 1..c /\ k = c + 1
      BY <2>2, <2>3, <3>2
    <3>3. CASE i = c + 1 /\ k \in 1..c
      BY <2>2, <2>3, <3>3
    <3> QED BY <2>1, <3>1, <3>2, <3>3
  <2>6. ~m.rows[1].child /\ m.rows[1].icon = "document-new"
    <3>1. 1 \in 1..c
      BY <1>1
    <3>2. ~el.rows[1].child /\ el.rows[1].icon = "document-new"
      BY DEF LogOK, TreeOK
    <3> QED BY <1>12, <3>1, <3>2
  <2>7. ~m.rows[2].child
    <3>1. CASE c = 1
      <4>1. m.rows[2] = row
        BY <1>12, <3>1
      <4> QED BY <1>3, <1>10, <3>1, <4>1
    <3>2. CASE c # 1
      <4>1. c \in Nat /\ c >= 2
        <5>1. c \in Nat /\ c # 0
          BY <1>1
        <5> QED BY <3>2, <5>1
      <4>1a. 2 \in 1..c /\ 2 <= c
        BY <4>1
      <4>2. ~el.rows[2].child
        BY <1>1, <4>1a DEF LogOK, TreeOK
      <4> QED BY <1>12, <4>1a, <4>2
    <3> QED BY <3>1, <3>2
  <2>8. Len(m.rows) \in Nat \ {0}
    BY <1>1, <1>12
  <2> QED BY <1>12, <1>13, <2>5, <2>6, <2>7, <2>8 DEF TreeOK
<1>15. CursorOK(m, c + 1)
  <2>1. c + 1 \in 1..Len(m.rows)
    BY <1>1, <1>12
  <2>2. m.curr = m.rows[c + 1].node /\ m.last = m.rows[Len(m.rows)].node
    BY <1>3, <1>12, <1>13
  <2>3. m.rows[c + 1].child = same
    BY <1>3, <1>12
  <2>4. same => ParentOf(m, c + 1) = el.rows[j].node
    <3> HAVE same
    <3>1. IsParent(m, c, j)
      <4>1. \A k \in (j + 1)..c : k \in 1..c
        BY <1>1, <1>4
      <4>2. j \in 1..c /\ ~el.rows[j].child /\ \A k \in (j + 1)..c : el.rows[k].child
        BY <1>4 DEF IsParent
      <4> QED BY <1>12, <4>1, <4>2 DEF IsParent
    <3>2. IsParent(m, c + 1, j)
      BY <1>1, <2>3, <3>1, ParentBelow
    <3>3. c + 1 \in Nat
      BY <1>1
    <3> QED BY <1>12, <3>2, <3>3, ParentIs
  <2> QED BY <1>9, <2>1, <2>2, <2>3, <2>4 DEF CursorOK
<1>16. m.rows = Append(el.rows, row)
  BY <1>9
<1>17. LogOK(m, c + 1)
  BY <1>14, <1>15 DEF LogOK
<1>18. \E x \in Rows : x.node = n /\ x.event = n /\ m.rows = Append(el.rows, x)
  BY <1>3, <1>16
<1> QED BY <1>13, <1>17, <1>18 DEF m

LEMMA ClearRedoRowsFacts ==
  ASSUME NEW el, NEW c, LogOK(el, c), c < Len(el.rows)
  PROVE  LET m == ClearRedoRows(el) IN
         /\ LogOK(m, c) /\ m.saved = el.saved /\ m.rows = SubSeq(el.rows, 1, c)
<1> DEFINE m == ClearRedoRows(el)
<1>1. /\ el \in Logs /\ c \in 1..Len(el.rows) /\ Len(el.rows) \in Nat
      /\ el.curr = el.rows[c].node /\ el.rows \in Seq(Rows)
  BY DEF LogOK, TreeOK, CursorOK, Logs
<1>2. At(el, el.curr) = c
  BY <1>1, AtIs DEF LogOK
<1>3. el.curr # el.last
  <2>1. c # Len(el.rows) /\ Len(el.rows) \in 1..Len(el.rows)
    BY <1>1
  <2>2. el.rows[c].node # el.rows[Len(el.rows)].node
    BY <1>1, <2>1 DEF LogOK, TreeOK
  <2>3. el.rows[c].node \in Nat
    BY <1>1, RowType
  <2> QED BY <1>1, <2>2, <2>3, IteratorsAssumption DEF LogOK, CursorOK
<1>4. m = [el EXCEPT !.rows = SubSeq(@, 1, c), !.last = End]
  BY <1>2, <1>3 DEF ClearRedoRows
<1> HIDE DEF m
<1>5. /\ m.rows = SubSeq(el.rows, 1, c) /\ m.curr = el.curr /\ m.last = End
      /\ m.parent = el.parent /\ m.saved = el.saved
      /\ m = [rows |-> m.rows, curr |-> m.curr, last |-> m.last, parent |-> m.parent, saved |-> m.saved]
  BY <1>1, <1>4 DEF Logs
<1>6. /\ m.rows \in Seq(Rows) /\ Len(m.rows) = c
      /\ \A i \in 1..c : m.rows[i] = el.rows[i]
  <2>1. \A i \in 1..c : i \in 1..Len(el.rows)
    BY <1>1
  <2> DEFINE s == SubSeq(el.rows, 1, c)
  <2>2. /\ s \in Seq(Rows) /\ Len(s) = c /\ \A i \in 1..c : s[i] = el.rows[i]
    BY <1>1
  <2> QED BY <1>5, <2>2
<1>7. m \in Logs
  BY <1>1, <1>5, <1>6 DEF Logs
<1>8. \A i \in 1..c : i \in 1..Len(el.rows)
  BY <1>1
<1>9. TreeOK(m)
  <2>1. \A i, k \in 1..c : m.rows[i].node = m.rows[k].node => i = k
    BY <1>6, <1>8 DEF LogOK, TreeOK
  <2>2. 1 \in 1..c /\ c \in Nat \ {0}
    BY <1>1
  <2>3. ~m.rows[1].child /\ m.rows[1].icon = "document-new"
    BY <1>6, <2>2 DEF LogOK, TreeOK
  <2>4. 2 <= c => ~m.rows[2].child
    <3> HAVE 2 <= c
    <3>1. 2 \in 1..c /\ 2 <= Len(el.rows)
      BY <1>1
    <3>2. ~el.rows[2].child
      BY <3>1 DEF LogOK, TreeOK
    <3> QED BY <1>6, <3>1, <3>2
  <2> QED BY <1>6, <1>7, <2>1, <2>2, <2>3, <2>4 DEF TreeOK
<1>10. CursorOK(m, c)
  <2>1. c \in 1..c
    BY <1>1
  <2>2. PICK j \in 1..c : IsParent(el, c, j)
    BY <1>1, ParentExists DEF LogOK
  <2>3. IsParent(m, c, j)
    <3>1. \A k \in (j + 1)..c : k \in 1..c
      BY <1>1
    <3>2. j \in 1..c /\ ~el.rows[j].child /\ \A k \in (j + 1)..c : el.rows[k].child
      BY <2>2 DEF IsParent
    <3> QED BY <1>6, <3>1, <3>2 DEF IsParent
  <2>4. c \in Nat
    BY <1>1
  <2>5. ParentOf(m, c) = ParentOf(el, c)
    BY <1>6, <2>2, <2>3, <2>4, ParentIs
  <2>6. el.parent = IF el.rows[c].child THEN ParentOf(el, c) ELSE Null
    BY DEF LogOK, CursorOK
  <2> QED BY <1>1, <1>5, <1>6, <2>1, <2>5, <2>6 DEF CursorOK
<1> QED BY <1>5, <1>9, <1>10 DEF LogOK, m

LEMMA Spliced ==
  ASSUME NEW S, NEW s \in Seq(S), NEW n \in Nat, n = Len(s), n >= 3, NEW e \in S
  PROVE  /\ LET t == SubSeq(s, 1, 1) \o <<e>> \o SubSeq(s, 4, n) IN
            /\ t \in Seq(S) /\ Len(t) = n - 1 /\ t[1] = s[1] /\ t[2] = e
            /\ \A i \in 3..(n - 1) : t[i] = s[i + 1]
         /\ LET t == SubSeq(s, 1, 1) \o SubSeq(s, 3, n) IN
            /\ t \in Seq(S) /\ Len(t) = n - 1 /\ t[1] = s[1] /\ t[2] = s[3]
            /\ \A i \in 3..(n - 1) : t[i] = s[i + 1]
<1> DEFINE a == SubSeq(s, 1, 1)
           b == SubSeq(s, 4, n)
           c == SubSeq(s, 3, n)
           d == a \o <<e>>
           t == d \o b
           u == a \o c
<1>1. a \in Seq(S) /\ Len(a) = 1 /\ a[1] = s[1]
  OBVIOUS
<1>2. b \in Seq(S) /\ Len(b) = n - 3 /\ \A i \in 1..(n - 3) : b[i] = s[i + 3]
  OBVIOUS
<1>3. c \in Seq(S) /\ Len(c) = n - 2 /\ \A i \in 1..(n - 2) : c[i] = s[i + 2]
  OBVIOUS
<1> HIDE DEF a, b, c
<1>4. d \in Seq(S) /\ Len(d) = 2 /\ d[1] = s[1] /\ d[2] = e
  <2>1. d = Append(a, e)
    BY <1>1
  <2> HIDE DEF d
  <2>2. /\ Append(a, e) \in Seq(S) /\ Len(Append(a, e)) = Len(a) + 1
        /\ Append(a, e)[Len(a) + 1] = e
        /\ \A i \in 1..Len(a) : Append(a, e)[i] = a[i]
    <3>1. a \in Seq(S)
      BY <1>1
    <3> QED BY <3>1, AppendProperties
  <2>3. 1 \in 1..Len(a) /\ Len(a) + 1 = 2
    BY <1>1
  <2> QED BY <1>1, <2>1, <2>2, <2>3
<1> HIDE DEF d
<1>5. /\ t \in Seq(S) /\ Len(t) = n - 1
      /\ \A i \in 1 .. 2 + (n - 3) : t[i] = IF i <= 2 THEN d[i] ELSE b[i - 2]
  <2>1. /\ t \in Seq(S) /\ Len(t) = Len(d) + Len(b)
        /\ \A i \in 1 .. Len(d) + Len(b) : t[i] = IF i <= Len(d) THEN d[i] ELSE b[i - Len(d)]
    BY <1>2, <1>4, ConcatProperties
  <2> HIDE DEF t
  <2> QED BY <1>2, <1>4, <2>1
<1>6. /\ u \in Seq(S) /\ Len(u) = n - 1
      /\ \A i \in 1 .. 1 + (n - 2) : u[i] = IF i <= 1 THEN a[i] ELSE c[i - 1]
  <2>1. /\ u \in Seq(S) /\ Len(u) = Len(a) + Len(c)
        /\ \A i \in 1 .. Len(a) + Len(c) : u[i] = IF i <= Len(a) THEN a[i] ELSE c[i - Len(a)]
    BY <1>1, <1>3, ConcatProperties
  <2> HIDE DEF u
  <2>2. 1 + (n - 2) = n - 1 /\ Len(a) = 1 /\ Len(c) = n - 2
    BY <1>1, <1>3
  <2> QED BY <2>1, <2>2
<1> HIDE DEF t, u
<1>7. t[1] = s[1] /\ t[2] = e
  BY <1>4, <1>5
<1>8. u[1] = s[1] /\ u[2] = s[3]
  BY <1>1, <1>3, <1>6
<1>9. ASSUME NEW i \in 3..(n - 1) PROVE t[i] = s[i + 1] /\ u[i] = s[i + 1]
  <2>1. i \in 1..(n - 1) /\ ~(i <= 2) /\ i - 2 \in 1..(n - 3) /\ (i - 2) + 3 = i + 1
    OBVIOUS
  <2>2. i - 1 \in 1..(n - 2) /\ (i - 1) + 2 = i + 1 /\ ~(i <= 1)
    OBVIOUS
  <2> QED BY <1>2, <1>3, <1>5, <1>6, <2>1, <2>2
<1> QED BY <1>5, <1>6, <1>7, <1>8, <1>9 DEF t, u, d, a, b, c

\* The oldest event leaves the tree, the later ones keep their order; three
\* events are enough for the current row to survive.
LEMMA ExpireRowFacts ==
  ASSUME NEW el, NEW c \in Nat, LogOK(el, c), c >= 4
  PROVE  LET m == ExpireRow(el) IN
         /\ LogOK(m, c - 1) /\ Len(m.rows) = Len(el.rows) - 1 /\ m.saved = el.saved
         /\ \A i \in 2..(Len(el.rows) - 1) : m.rows[i].event = el.rows[i + 1].event
         /\ NodesOf(m) \subseteq NodesOf(el) /\ m.rows[1] = el.rows[1]
<1> DEFINE m == ExpireRow(el)
           r == el.rows
           n == Len(el.rows)
<1>1. /\ el \in Logs /\ c \in 1..n /\ n \in Nat /\ el.curr = r[c].node /\ r \in Seq(Rows)
  BY DEF LogOK, TreeOK, CursorOK, Logs
<1>2. n >= 4 /\ {1, 2, 3} \subseteq 1..n
  BY <1>1
<1>3. ~r[1].child /\ ~r[2].child
  BY <1>2 DEF LogOK, TreeOK
<1>4. OldestRow(el) = 2
  <2> DEFINE P(i) == ~r[i].child /\ \A j \in 2..(i - 1) : r[j].child
  <2>1. 2 \in 2..n
    BY <1>2
  <2>2. P(2)
    BY <1>3
  <2>3. ASSUME NEW i \in 2..n, P(i) PROVE i = 2
    <3>1. i # 2 => 2 \in 2..(i - 1)
      OBVIOUS
    <3> QED BY <1>3, <2>3, <3>1
  <2>4. (CHOOSE i \in 2..n : P(i)) = 2
    <3> HIDE DEF P, n
    <3> QED BY <2>1, <2>2, <2>3
  <2> QED BY <2>4 DEF OldestRow
<1>5. ~\A j \in 2..n : r[j].child
  BY <1>2, <1>3
<1>6. r[2] \in Rows /\ r[3] \in Rows
  BY <1>1, <1>2, RowType
<1> DEFINE row == IF r[3].child THEN [r[2] EXCEPT !.event = r[3].event] ELSE r[3]
<1>7. row \in Rows /\ ~row.child /\ row.event = r[3].event
  BY <1>3, <1>6 DEF Rows
<1>8. row.node = IF r[3].child THEN r[2].node ELSE r[3].node
  BY <1>6 DEF Rows
<1>9. /\ m = [el EXCEPT !.rows = m.rows]
      /\ m.rows = IF r[3].child THEN SubSeq(r, 1, 1) \o <<row>> \o SubSeq(r, 4, n)
                  ELSE SubSeq(r, 1, 1) \o SubSeq(r, 3, n)
  <2>1. IsChild(el, 3) <=> r[3].child
    <3>1. DOMAIN r = 1..n
      BY <1>1
    <3> QED BY <1>2, <3>1 DEF IsChild
  <2>2. CASE r[3].child
    <3>1. m = [el EXCEPT !.rows = SubSeq(@, 1, 2 - 1) \o <<[@[2] EXCEPT !.event = r[2 + 1].event]>>
                                   \o SubSeq(@, 2 + 2, Len(@))]
      BY <1>4, <1>5, <2>1, <2>2 DEF ExpireRow
    <3>2. m = [el EXCEPT !.rows = SubSeq(r, 1, 1) \o <<row>> \o SubSeq(r, 4, n)]
      <4>1. 2 - 1 = 1 /\ 2 + 1 = 3 /\ 2 + 2 = 4
        OBVIOUS
      <4> HIDE DEF m
      <4> QED BY <2>2, <3>1, <4>1
    <3> HIDE DEF m, row, r, n
    <3> QED BY <1>1, <2>2, <3>2 DEF Logs
  <2>3. CASE ~r[3].child
    <3>1. m = [el EXCEPT !.rows = SubSeq(@, 1, 2 - 1) \o SubSeq(@, 2 + 1, Len(@))]
      BY <1>4, <1>5, <2>1, <2>3 DEF ExpireRow
    <3>2. m = [el EXCEPT !.rows = SubSeq(r, 1, 1) \o SubSeq(r, 3, n)]
      <4>1. 2 - 1 = 1 /\ 2 + 1 = 3
        OBVIOUS
      <4> HIDE DEF m
      <4> QED BY <3>1, <4>1
    <3> HIDE DEF m, row, r, n
    <3> QED BY <1>1, <2>3, <3>2 DEF Logs
  <2> QED BY <2>2, <2>3
<1> HIDE DEF m
<1>10. /\ m.rows \in Seq(Rows) /\ Len(m.rows) = n - 1 /\ m.rows[1] = r[1] /\ m.rows[2] = row
       /\ \A i \in 3..(n - 1) : m.rows[i] = r[i + 1]
  <2> HIDE DEF row, r
  <2>1. n \in Nat /\ n = Len(r) /\ n >= 3
    BY <1>1, <1>2 DEF r
  <2> HIDE DEF n
  <2>2. CASE r[3].child
    <3>1. m.rows = SubSeq(r, 1, 1) \o <<row>> \o SubSeq(r, 4, n)
      BY <1>9, <2>2
    <3> QED BY <1>1, <1>7, <2>1, <3>1, Spliced
  <2>3. CASE ~r[3].child
    <3>1. m.rows = SubSeq(r, 1, 1) \o SubSeq(r, 3, n)
      BY <1>9, <2>3
    <3>2. row = r[3]
      BY <2>3 DEF row
    <3> QED BY <1>1, <1>7, <2>1, <3>1, <3>2, Spliced
  <2> QED BY <2>2, <2>3
<1> DEFINE b == IF r[3].child THEN 2 ELSE 3
           from(i) == IF i = 1 THEN 1 ELSE IF i = 2 THEN b ELSE i + 1
<1>11. row.node = r[b].node /\ b \in {2, 3}
  <2> HIDE DEF row
  <2> QED BY <1>8
<1> HIDE DEF row, b, r, n
<1>12. ASSUME NEW i \in 1..(n - 1) PROVE from(i) \in 1..n /\ m.rows[i].node = r[from(i)].node
  <2>1. CASE i = 1
    BY <1>2, <1>10, <2>1
  <2>2. CASE i = 2
    BY <1>2, <1>10, <1>11, <2>2
  <2>3. CASE i # 1 /\ i # 2
    <3>1. i \in 3..(n - 1) /\ i + 1 \in 1..n
      BY <1>1, <2>3
    <3> QED BY <1>10, <2>3, <3>1
  <2> QED BY <2>1, <2>2, <2>3
<1>13. \A i, k \in 1..(n - 1) : from(i) = from(k) => i = k
  BY <1>1, <1>11
<1> HIDE DEF from
<1>14. \A i \in 2..(n - 1) : m.rows[i].event = r[i + 1].event
  <2> TAKE i \in 2..(n - 1)
  <2>1. CASE i = 2
    BY <1>7, <1>10, <2>1
  <2>2. CASE i # 2
    <3>1. i \in 3..(n - 1)
      BY <1>1, <2>2
    <3> QED BY <1>10, <3>1
  <2> QED BY <2>1, <2>2
<1>15. /\ m \in Logs /\ m.curr = el.curr /\ m.last = el.last
       /\ m.parent = el.parent /\ m.saved = el.saved
  <2>1. m = [el EXCEPT !.rows = m.rows]
    BY <1>9
  <2>2. m.rows \in Seq(Rows)
    BY <1>10
  <2> QED BY <1>1, <2>1, <2>2 DEF Logs
<1>16. TreeOK(m)
  <2>1. \A i, k \in 1..(n - 1) : m.rows[i].node = m.rows[k].node => i = k
    <3> TAKE i, k \in 1..(n - 1)
    <3> HAVE m.rows[i].node = m.rows[k].node
    <3>1. r[from(i)].node = r[from(k)].node /\ from(i) \in 1..n /\ from(k) \in 1..n
      BY <1>12
    <3>2. from(i) = from(k)
      BY <3>1 DEF LogOK, TreeOK, r, n
    <3> QED BY <1>13, <3>2
  <2>2. Len(m.rows) \in Nat \ {0}
    BY <1>1, <1>2, <1>10
  <2>3. ~m.rows[1].child /\ ~m.rows[2].child
    BY <1>3, <1>7, <1>10
  <2>4. m.rows[1].icon = "document-new"
    BY <1>10 DEF LogOK, TreeOK, r
  <2> QED BY <1>10, <1>15, <2>1, <2>2, <2>3, <2>4 DEF TreeOK
<1>17. CursorOK(m, c - 1)
  <2>1. c - 1 \in 3..(n - 1) /\ (c - 1) + 1 = c /\ c - 1 \in Nat /\ c - 1 \in 1..(n - 1)
    BY <1>1
  <2>2. m.rows[c - 1] = r[c]
    BY <1>10, <2>1
  <2>3. m.last = End \/ m.last = m.rows[Len(m.rows)].node
    <3>1. n - 1 \in 3..(n - 1) /\ (n - 1) + 1 = n
      BY <1>1, <1>2
    <3>2. m.rows[n - 1] = r[n]
      BY <1>10, <3>1
    <3>3. el.last = End \/ el.last = r[n].node
      BY DEF LogOK, CursorOK, r, n
    <3> QED BY <1>10, <1>15, <3>2, <3>3
  <2>4. PICK j \in 1..c : IsParent(el, c, j)
    BY <1>1, ParentExists DEF LogOK, n
  <2>5. /\ ~r[j].child /\ \A k \in (j + 1)..c : r[k].child
    BY <2>4 DEF IsParent, r
  <2>6. ParentOf(el, c) = r[j].node
    BY <2>4, ParentIs DEF r
  <2>7. ParentOf(m, c - 1) = r[j].node
    <3>1. j # 1
      <4>1. 2 \in (1 + 1)..c
        OBVIOUS
      <4> QED BY <1>3, <2>5, <4>1
    <3>2. CASE j = 2
      <4>1. 3 \in (j + 1)..c
        BY <3>2
      <4>2. r[3].child
        BY <2>5, <4>1
      <4>3. m.rows[2].node = r[2].node
        BY <1>10, <1>11, <4>2 DEF b
      <4>4. \A k \in (2 + 1)..(c - 1) : k \in 3..(n - 1) /\ k + 1 \in (j + 1)..c
        BY <1>1, <3>2
      <4>5. \A k \in (2 + 1)..(c - 1) : m.rows[k].child
        BY <1>10, <2>5, <4>4
      <4>6. 2 \in 1..(c - 1) /\ ~m.rows[2].child
        BY <1>7, <1>10
      <4>7. IsParent(m, c - 1, 2)
        BY <4>5, <4>6 DEF IsParent
      <4> QED BY <2>1, <3>2, <4>3, <4>7, ParentIs
    <3>3. CASE j # 2
      <4>1. j \in 3..c /\ j - 1 \in 1..(c - 1)
        BY <3>1, <3>3
      <4>2. m.rows[j - 1].node = r[j].node /\ ~m.rows[j - 1].child
        <5>1. CASE j = 3
          <6>1. ~r[3].child
            BY <2>5, <5>1
          <6>2. m.rows[2].node = r[3].node
            BY <1>10, <1>11, <6>1 DEF b
          <6>3. j - 1 = 2
            BY <5>1
          <6> QED BY <1>7, <1>10, <5>1, <6>2, <6>3
        <5>2. CASE j # 3
          <6>1. j - 1 \in 3..(n - 1) /\ (j - 1) + 1 = j
            BY <1>1, <4>1, <5>2
          <6> QED BY <1>10, <2>5, <6>1
        <5> QED BY <5>1, <5>2
      <4>3. \A k \in ((j - 1) + 1)..(c - 1) : k \in 3..(n - 1) /\ k + 1 \in (j + 1)..c
        BY <1>1, <4>1
      <4>4. \A k \in ((j - 1) + 1)..(c - 1) : m.rows[k].child
        BY <1>10, <2>5, <4>3
      <4>5. IsParent(m, c - 1, j - 1)
        BY <4>1, <4>2, <4>4 DEF IsParent
      <4> QED BY <2>1, <4>2, <4>5, ParentIs
    <3> QED BY <3>2, <3>3
  <2>8. el.parent = IF r[c].child THEN ParentOf(el, c) ELSE Null
    BY DEF LogOK, CursorOK, r
  <2> QED BY <1>1, <1>10, <1>15, <2>1, <2>2, <2>3, <2>6, <2>7, <2>8 DEF CursorOK
<1>18. NodesOf(m) \subseteq NodesOf(el)
  <2> SUFFICES ASSUME NEW x \in NodesOf(m) PROVE x \in NodesOf(el)
    OBVIOUS
  <2>1. PICK i \in 1..(n - 1) : x = m.rows[i].node
    BY <1>10, <1>16, NodesAre
  <2>2. from(i) \in 1..n /\ x = r[from(i)].node
    BY <1>12, <2>1
  <2> QED BY <2>2, NodesAre DEF LogOK, r, n
<1>19. m.saved = el.saved
  BY <1>15
<1> QED BY <1>10, <1>14, <1>16, <1>17, <1>18, <1>19 DEF LogOK, m, r, n

-----------------------------------------------------------------------------
(* The functions of DocumentUndo, field by field, for a document with any  *)
(* EventLog in E.                                                          *)

Docs(E) == [content : Seq(Edits), log : Seq(Edits), partial : Seq(Edits),
            undo : Seq(Events), redo : Seq(Events), actionkey : Keys \cup {NoKey},
            sensitive : BOOLEAN, modified : BOOLEAN, born : 0..MaxCommits, el : E]

\* The end of a stack.
LEMMA LastFacts ==
  ASSUME NEW S, NEW s \in Seq(S), s # << >>
  PROVE  /\ Len(s) \in Nat \ {0} /\ Front(s) \in Seq(S) /\ Last(s) \in S
         /\ Last(s) = s[Len(s)]
         /\ Len(Front(s)) = Len(s) - 1 /\ s = Append(Front(s), Last(s))
         /\ \A i \in 1..(Len(s) - 1) : Front(s)[i] = s[i]
<1>1. Len(s) \in Nat \ {0} /\ Len(s) \in 1..Len(s)
  OBVIOUS
<1>2. Last(s) \in S /\ Last(s) = s[Len(s)]
  BY <1>1 DEF Last
<1>3. /\ Front(s) \in Seq(S) /\ Len(Front(s)) = Len(s) - 1
      /\ \A i \in 1..(Len(s) - 1) : Front(s)[i] = s[i]
  <2> DEFINE z == Len(s) - 1
  <2>1. z \in Nat /\ z <= Len(s) /\ Front(s) = SubSeq(s, 1, z)
    BY <1>1 DEF Front
  <2> HIDE DEF z
  <2>2. SubSeq(s, 1, z) \in Seq(S) /\ Len(SubSeq(s, 1, z)) = z
        /\ \A i \in 1..z : SubSeq(s, 1, z)[i] = s[i]
    BY <1>1, <2>1
  <2> QED BY <2>1, <2>2 DEF z
<1>4. s = Append(Front(s), Last(s))
  <2> DEFINE a == Append(Front(s), Last(s))
  <2>1. /\ a \in Seq(S) /\ Len(a) = Len(Front(s)) + 1
        /\ \A i \in 1..Len(Front(s)) : a[i] = Front(s)[i]
        /\ a[Len(Front(s)) + 1] = Last(s)
    BY <1>2, <1>3, AppendProperties
  <2> HIDE DEF a
  <2>2. Len(a) = Len(s) /\ \A i \in 1..(Len(s) - 1) : a[i] = s[i]
    BY <1>1, <1>3, <2>1
  <2>3. a[Len(s)] = s[Len(s)]
    BY <1>1, <1>2, <1>3, <2>1
  <2>4. \A i \in 1..Len(s) : a[i] = s[i]
    BY <1>1, <2>2, <2>3
  <2>5. a = s
    BY <2>1, <2>2, <2>4, SeqEqual
  <2> QED BY <2>5 DEF a
<1> QED BY <1>1, <1>2, <1>3, <1>4

LEMMA AddedToFacts ==
  ASSUME NEW s \in Seq(Events), s # << >>, NEW q \in Seq(Edits)
  PROVE  /\ AddedTo(s, q) \in Seq(Events) /\ Len(AddedTo(s, q)) = Len(s)
         /\ AddedTo(s, q) # << >>
         /\ \A i \in 1..Len(s) : AddedTo(s, q)[i].id = s[i].id
         /\ \A i \in 1..(Len(s) - 1) : AddedTo(s, q)[i] = s[i]
<1> DEFINE e == [Last(s) EXCEPT !.edits = @ \o q]
           a == Append(Front(s), e)
<1>1. /\ Len(s) \in Nat \ {0} /\ Front(s) \in Seq(Events) /\ Last(s) \in Events
      /\ Last(s) = s[Len(s)] /\ Len(Front(s)) = Len(s) - 1
      /\ \A i \in 1..(Len(s) - 1) : Front(s)[i] = s[i]
  BY LastFacts
<1>2. e \in Events /\ e.id = s[Len(s)].id
  <2>1. Last(s).edits \o q \in Seq(Edits)
    <3>1. Last(s).edits \in Seq(Edits)
      BY <1>1 DEF Events
    <3> QED BY <3>1, ConcatProperties
  <2> QED BY <1>1, <2>1 DEF Events
<1> HIDE DEF e
<1>3. /\ a \in Seq(Events) /\ Len(a) = Len(Front(s)) + 1
      /\ \A i \in 1..Len(Front(s)) : a[i] = Front(s)[i]
      /\ a[Len(Front(s)) + 1] = e /\ a # << >>
  BY <1>1, <1>2, AppendProperties
<1>4. a = AddedTo(s, q)
  BY DEF AddedTo, e
<1> HIDE DEF a
<1>5. Len(a) = Len(s) /\ (\A i \in 1..(Len(s) - 1) : a[i] = s[i]) /\ a[Len(s)] = e
  BY <1>1, <1>3
<1>6. \A i \in 1..Len(s) : a[i].id = s[i].id
  BY <1>1, <1>2, <1>5
<1> QED BY <1>3, <1>4, <1>5, <1>6

LEMMA PendingType ==
  ASSUME NEW E, NEW d \in Docs(E)
  PROVE  Pending(d) \in Seq(Edits) /\ d.partial \in Seq(Edits) /\ d.log \in Seq(Edits)
<1>1. d.partial \in Seq(Edits) /\ d.log \in Seq(Edits)
  BY DEF Docs
<1> QED BY <1>1, ConcatProperties DEF Pending

LEMMA DocRetype ==
  ASSUME NEW E, NEW F, NEW d \in Docs(E), d.el \in F
  PROVE  d \in Docs(F)
BY DEF Docs

LEMMA VirginityIs ==
  ASSUME NEW E, NEW d \in Docs(E)
  PROVE  LET m == CheckForVirginity(d) IN
         /\ m \in Docs({d.el}) /\ m.el = d.el
         /\ m.content = d.content /\ m.log = d.log /\ m.partial = d.partial
         /\ m.undo = d.undo /\ m.redo = d.redo /\ m.born = d.born
         /\ m.actionkey = d.actionkey /\ m.sensitive = d.sensitive
         /\ m.modified = (d.modified /\ d.el.curr # d.el.saved)
<1> DEFINE x == d.modified /\ d.el.curr # d.el.saved
           m == CheckForVirginity(d)
<1>1. m = [d EXCEPT !.modified = x] /\ x \in BOOLEAN
  BY DEF CheckForVirginity
<1> HIDE DEF x, m
<1>2. m.modified = x /\ m.el = d.el
  BY <1>1 DEF Docs
<1>3. m \in Docs({d.el})
  BY <1>1 DEF Docs
<1>4. /\ m.content = d.content /\ m.log = d.log /\ m.partial = d.partial
      /\ m.undo = d.undo /\ m.redo = d.redo /\ m.born = d.born
      /\ m.actionkey = d.actionkey /\ m.sensitive = d.sensitive
  BY <1>1 DEF Docs
<1> QED BY <1>2, <1>3, <1>4 DEF x, m

LEMMA ClearRedoIs ==
  ASSUME NEW E, NEW d \in Docs(E)
  PROVE  LET m == ClearRedo(d) IN
         /\ m \in Docs({m.el}) /\ m.redo = << >>
         /\ m.el = IF d.redo = << >> THEN d.el ELSE ClearRedoRows(d.el)
         /\ m.content = d.content /\ m.log = d.log /\ m.partial = d.partial
         /\ m.undo = d.undo /\ m.born = d.born
         /\ m.actionkey = d.actionkey /\ m.sensitive = d.sensitive /\ m.modified = d.modified
<1>1. CASE d.redo = << >>
  BY <1>1 DEF ClearRedo, Docs
<1>2. CASE d.redo # << >>
  <2> DEFINE m == [d EXCEPT !.redo = << >>, !.el = ClearRedoRows(@)]
  <2>1. ClearRedo(d) = m
    BY <1>2 DEF ClearRedo
  <2>2. m \in Docs({m.el}) /\ m.redo = << >> /\ m.el = ClearRedoRows(d.el)
    <3>1. << >> \in Seq(Events)
      OBVIOUS
    <3> DEFINE r == ClearRedoRows(d.el)
    <3> HIDE DEF r
    <3>2. [d EXCEPT !.redo = << >>, !.el = r] \in Docs({r})
      BY <3>1 DEF Docs
    <3>3. [d EXCEPT !.redo = << >>, !.el = r].redo = << >> /\ [d EXCEPT !.redo = << >>, !.el = r].el = r
      BY DEF Docs
    <3> QED BY <3>2, <3>3 DEF r
  <2>3. /\ m.content = d.content /\ m.log = d.log /\ m.partial = d.partial
        /\ m.undo = d.undo /\ m.born = d.born
        /\ m.actionkey = d.actionkey /\ m.sensitive = d.sensitive /\ m.modified = d.modified
    BY DEF Docs
  <2> QED BY <1>2, <2>1, <2>2, <2>3
<1> QED BY <1>1, <1>2

LEMMA CoalesceIs ==
  ASSUME NEW E, NEW d \in Docs(E), d.undo # << >>
  PROVE  LET m == Coalesce(d) IN
         /\ m \in Docs({d.el}) /\ m.undo = AddedTo(d.undo, Pending(d)) /\ m.el = d.el
         /\ m.content = d.content /\ m.log = d.log /\ m.partial = d.partial
         /\ m.redo = d.redo /\ m.born = d.born
         /\ m.actionkey = d.actionkey /\ m.sensitive = d.sensitive /\ m.modified = d.modified
<1> DEFINE m == Coalesce(d)
           u == AddedTo(d.undo, Pending(d))
<1>1. d.undo \in Seq(Events)
  BY DEF Docs
<1>2. u \in Seq(Events)
  <2>1. Pending(d) \in Seq(Edits)
    BY PendingType
  <2> QED BY <1>1, <2>1, AddedToFacts
<1>3. m = [d EXCEPT !.undo = u]
  BY DEF Coalesce
<1> HIDE DEF m, u
<1>4. m \in Docs({d.el}) /\ m.undo = u /\ m.el = d.el
  BY <1>2, <1>3 DEF Docs
<1>5. /\ m.content = d.content /\ m.log = d.log /\ m.partial = d.partial
      /\ m.redo = d.redo /\ m.born = d.born
      /\ m.actionkey = d.actionkey /\ m.sensitive = d.sensitive /\ m.modified = d.modified
  BY <1>3 DEF Docs
<1> QED BY <1>4, <1>5 DEF m, u

NewEvent(d, zone) == [id |-> d.born + 1, edits |-> Pending(d), zone |-> zone]

LEMMA PushIs ==
  ASSUME NEW E, NEW d \in Docs(E), d.born < MaxCommits, NEW icon, NEW zone \in BOOLEAN
  PROVE  LET m == Push(d, icon, zone) IN
         /\ m \in Docs({m.el}) /\ m.undo = Append(d.undo, NewEvent(d, zone))
         /\ NewEvent(d, zone) \in Events /\ m.born = d.born + 1
         /\ m.el = CommitRow(d.el, d.born + 1, d.born + 1, icon)
         /\ m.content = d.content /\ m.log = d.log /\ m.partial = d.partial
         /\ m.redo = d.redo
         /\ m.actionkey = d.actionkey /\ m.sensitive = d.sensitive
<1> DEFINE e == NewEvent(d, zone)
           el == CommitRow(d.el, d.born + 1, d.born + 1, icon)
           x == [d EXCEPT !.undo = Append(@, e), !.born = d.born + 1, !.el = el]
<1>1. d.undo \in Seq(Events) /\ d.born \in 0..MaxCommits /\ Pending(d) \in Seq(Edits)
  BY PendingType DEF Docs
<1>2. d.born + 1 \in 1..MaxCommits /\ d.born + 1 \in 0..MaxCommits
  BY <1>1, BoundsAssumption
<1>3. e \in Events
  BY <1>1, <1>2 DEF NewEvent, Events
<1>4. Push(d, icon, zone) = CheckForVirginity(x)
  BY DEF Push, NewEvent
<1> HIDE DEF e, el
<1>5. Append(d.undo, e) \in Seq(Events)
  BY <1>1, <1>3, AppendProperties
<1>6. x \in Docs({el}) /\ x.undo = Append(d.undo, e) /\ x.born = d.born + 1 /\ x.el = el
  BY <1>2, <1>5 DEF Docs
<1>7. /\ x.content = d.content /\ x.log = d.log /\ x.partial = d.partial
      /\ x.redo = d.redo /\ x.actionkey = d.actionkey /\ x.sensitive = d.sensitive
  BY DEF Docs
<1> HIDE DEF x
<1> DEFINE m == Push(d, icon, zone)
<1>8. /\ m \in Docs({m.el}) /\ m.el = el /\ m.undo = Append(d.undo, e) /\ m.born = d.born + 1
      /\ m.content = d.content /\ m.log = d.log /\ m.partial = d.partial
      /\ m.redo = d.redo /\ m.actionkey = d.actionkey /\ m.sensitive = d.sensitive
  <2> DEFINE v == CheckForVirginity(x)
  <2>1. /\ v \in Docs({x.el}) /\ v.el = x.el
         /\ v.content = x.content /\ v.log = x.log /\ v.partial = x.partial
         /\ v.undo = x.undo /\ v.redo = x.redo /\ v.born = x.born
         /\ v.actionkey = x.actionkey /\ v.sensitive = x.sensitive
    BY <1>6, VirginityIs
  <2> HIDE DEF v, m
  <2>2. v = m
    BY <1>4 DEF v, m
  <2> QED BY <1>6, <1>7, <2>1, <2>2
<1> QED BY <1>3, <1>8 DEF m, e, el

Filters(f, S, s, t) ==
  /\ f \in [0..Len(s) -> Seq(S)] /\ f[0] = << >> /\ Without(s, t) = f[Len(s)]
  /\ \A k \in 1..Len(s) : f[k] = IF \E i \in DOMAIN t : t[i] = s[k] THEN f[k - 1]
                                 ELSE Append(f[k - 1], s[k])

LEMMA WithoutIs ==
  ASSUME NEW S, NEW s \in Seq(S), NEW t \in Seq(S)
  PROVE  \E f : Filters(f, S, s, t)
<1> DEFINE n == Len(s)
           V == Seq(S)
           In(k) == \E i \in DOMAIN t : t[i] = s[k]
           g == [x \in V \X (1..n) |-> IF In(x[2]) THEN x[1] ELSE Append(x[1], s[x[2]])]
           body(f) == [k \in 0..n |-> IF k = 0 THEN << >> ELSE IF In(k) THEN f[k - 1]
                                      ELSE Append(f[k - 1], s[k])]
<1>1. n \in Nat /\ << >> \in V /\ \A k \in 1..n : s[k] \in S
  OBVIOUS
<1>2. \A v \in V, k \in 1..n : Append(v, s[k]) \in V
  BY <1>1, AppendProperties
<1>3. g \in [V \X (1..n) -> V] /\ \A v \in V, k \in 1..n : g[<<v, k>>] = IF In(k) THEN v ELSE Append(v, s[k])
  <2> HIDE DEF In, V, n
  <2> QED BY <1>2
<1> HIDE DEF g, n, In, V
<1>4. PICK h : h \in [0..n -> V] /\ h[0] = << >> /\ \A k \in 1..n : h[k] = g[<<h[k - 1], k>>]
  <2>1. n \in Nat /\ << >> \in V /\ g \in [V \X (1..n) -> V]
    BY <1>1, <1>3
  <2>2. \E h : Recursive(h, n, V, << >>, g)
    BY <2>1, Recursion
  <2> QED BY <2>2 DEF Recursive
<1>5. \A k \in 1..n : h[k] = IF In(k) THEN h[k - 1] ELSE Append(h[k - 1], s[k])
  <2> TAKE k \in 1..n
  <2>1. k - 1 \in 0..n
    BY <1>1
  <2> QED BY <1>3, <1>4, <2>1
<1>6. h = body(h)
  <2>1. \A k \in 0..n : k = 0 \/ k \in 1..n
    BY <1>1
  <2> QED BY <1>4, <1>5, <2>1
<1> DEFINE f == CHOOSE x : x = body(x)
<1>7. f = body(f)
  <2> HIDE DEF body
  <2> QED BY <1>6
<1>8. Without(s, t) = f[n]
  BY DEF Without, n, In
<1> HIDE DEF f
<1>9. f[0] = << >> /\ \A k \in 1..n : f[k] = IF In(k) THEN f[k - 1] ELSE Append(f[k - 1], s[k])
  <2>1. 0 \in 0..n /\ \A k \in 1..n : k \in 0..n /\ k # 0
    BY <1>1
  <2> QED BY <1>7, <2>1
<1>10. f \in [0..n -> V]
  <2> DEFINE T == {k \in 0..n : f[k] \in V}
  <2>1. 0 \in T
    BY <1>1, <1>9
  <2>2. ASSUME NEW k \in 1..n, k - 1 \in T PROVE k \in T
    <3>1. f[k - 1] \in V /\ k \in 0..n
      BY <1>1, <2>2
    <3> QED BY <1>2, <1>9, <3>1
  <2> HIDE DEF T
  <2>3. \A k \in 0..n : k \in T
    BY <1>1, <2>1, <2>2, Induct
  <2>4. \A k \in 0..n : f[k] \in V
    BY <2>3 DEF T
  <2>5. f = [k \in 0..n |-> f[k]]
    BY <1>7
  <2> QED BY <2>4, <2>5
<1> QED BY <1>8, <1>9, <1>10 DEF n, V, In, Filters

LEMMA WithoutType ==
  ASSUME NEW S, NEW s \in Seq(S), NEW t \in Seq(S)
  PROVE  Without(s, t) \in Seq(S)
<1>1. PICK f : f \in [0..Len(s) -> Seq(S)] /\ Without(s, t) = f[Len(s)]
  BY WithoutIs DEF Filters
<1>2. Len(s) \in 0..Len(s)
  OBVIOUS
<1> QED BY <1>1, <1>2

LEMMA ExpireIs ==
  ASSUME NEW E, NEW d \in Docs(E)
  PROVE  LET m == Expire(d)
             n == IF Len(d.undo) > UndoSize THEN Len(d.undo) - UndoSize ELSE 0
         IN
         /\ m \in Docs({m.el}) /\ m.undo = SubSeq(d.undo, n + 1, Len(d.undo))
         /\ m.content = d.content /\ m.log = d.log /\ m.partial = d.partial
         /\ m.redo = d.redo /\ m.born = d.born
         /\ m.actionkey = d.actionkey /\ m.sensitive = d.sensitive /\ m.modified = d.modified
<1> DEFINE n == IF Len(d.undo) > UndoSize THEN Len(d.undo) - UndoSize ELSE 0
           s == SubSeq(d.undo, n + 1, Len(d.undo))
           m == Expire(d)
<1>1. d.undo \in Seq(Events) /\ Len(d.undo) \in Nat
  BY DEF Docs
<1>2. n \in Nat /\ n <= Len(d.undo)
  BY <1>1, UndoSizeAssumption
<1>3. s \in Seq(Events)
  <2>1. n + 1 \in Int /\ Len(d.undo) \in Int /\ \A i \in (n + 1)..Len(d.undo) : d.undo[i] \in Events
    BY <1>1, <1>2
  <2> QED BY <2>1, SubSeqProperties
<1>4. PICK x : m = [d EXCEPT !.undo = SubSeq(@, n + 1, Len(@)), !.el = x]
  BY Zenon DEF Expire
<1>5. m = [d EXCEPT !.undo = s, !.el = x]
  BY <1>4
<1> HIDE DEF m, s
<1>6. m.undo = s /\ m.el = x
  BY <1>5 DEF Docs
<1>7. m \in Docs({x})
  BY <1>3, <1>5 DEF Docs
<1>8. /\ m.content = d.content /\ m.log = d.log /\ m.partial = d.partial
      /\ m.redo = d.redo /\ m.born = d.born
      /\ m.actionkey = d.actionkey /\ m.sensitive = d.sensitive /\ m.modified = d.modified
  BY <1>5 DEF Docs
<1> QED BY <1>6, <1>7, <1>8 DEF m, s, n

\* What finish_incomplete_transaction() leaves, the key being cleared first.
Finished(d) == FinishIncomplete([d EXCEPT !.actionkey = NoKey])

LEMMA FinishedIs ==
  ASSUME NEW E, NEW d \in Docs(E)
  PROVE  LET m == Finished(d) IN
         /\ m \in Docs({d.el}) /\ m.el = d.el /\ m.log = << >> /\ m.partial = << >>
         /\ m.undo = IF d.undo = << >> THEN << >> ELSE AddedTo(d.undo, Pending(d))
         /\ m.content = d.content /\ m.redo = d.redo /\ m.born = d.born
         /\ m.actionkey = NoKey /\ m.sensitive = d.sensitive /\ m.modified = d.modified
<1> DEFINE x == [d EXCEPT !.actionkey = NoKey]
           u == IF d.undo = << >> THEN << >> ELSE AddedTo(d.undo, Pending(d))
           m == Finished(d)
<1>1. d.undo \in Seq(Events) /\ Pending(d) \in Seq(Edits) /\ << >> \in Seq(Edits)
  BY PendingType DEF Docs
<1>2. u \in Seq(Events)
  <2>1. d.undo # << >> => AddedTo(d.undo, Pending(d)) \in Seq(Events)
    BY <1>1, AddedToFacts
  <2> QED BY <1>1, <2>1
<1>3. x.undo = d.undo /\ Pending(x) = Pending(d)
  BY DEF Docs, Pending
<1>4. m = [x EXCEPT !.undo = u, !.log = << >>, !.partial = << >>]
  <2>1. m = [x EXCEPT !.undo = IF x.undo = << >> THEN x.undo ELSE AddedTo(x.undo, Pending(x)),
                      !.log = << >>, !.partial = << >>]
    BY DEF Finished, FinishIncomplete
  <2>2. (IF x.undo = << >> THEN x.undo ELSE AddedTo(x.undo, Pending(x))) = u
    BY <1>3
  <2> HIDE DEF x, u, m
  <2> QED BY <2>1, <2>2
<1> HIDE DEF u, m
<1>5. m = [d EXCEPT !.actionkey = NoKey, !.undo = u, !.log = << >>, !.partial = << >>]
  BY <1>4
<1>6. NoKey \in Keys \cup {NoKey}
  OBVIOUS
<1>7. m \in Docs({d.el})
  BY <1>1, <1>2, <1>5, <1>6 DEF Docs
<1>8. /\ m.el = d.el /\ m.log = << >> /\ m.partial = << >> /\ m.undo = u
      /\ m.content = d.content /\ m.redo = d.redo /\ m.born = d.born
      /\ m.actionkey = NoKey /\ m.sensitive = d.sensitive /\ m.modified = d.modified
  BY <1>5 DEF Docs
<1> QED BY <1>7, <1>8 DEF m, u

\* undo() with something to undo.
LEMMA UndoTopIs ==
  ASSUME NEW E, NEW d \in Docs(E), d.undo # << >>
  PROVE  LET m == UndoTop(d)
             u == AddedTo(d.undo, Pending(d))
         IN
         /\ m \in Docs({d.el}) /\ m.el = d.el /\ m.log = << >> /\ m.partial = << >>
         /\ m.undo = Front(u) /\ m.redo = Append(d.redo, Last(u))
         /\ m.content = Without(d.content, Last(u).edits)
         /\ m.born = d.born /\ m.sensitive = d.sensitive /\ m.modified = TRUE
<1> DEFINE m == UndoTop(d)
           u == AddedTo(d.undo, Pending(d))
           f == Finished(d)
           w == Without(d.content, Last(u).edits)
<1>1. /\ d.undo \in Seq(Events) /\ d.redo \in Seq(Events) /\ d.content \in Seq(Edits)
      /\ Pending(d) \in Seq(Edits)
  BY PendingType DEF Docs
<1>2. /\ f \in Docs({d.el}) /\ f.el = d.el /\ f.log = << >> /\ f.partial = << >>
      /\ f.undo = u /\ f.content = d.content /\ f.redo = d.redo /\ f.born = d.born
      /\ f.sensitive = d.sensitive /\ f.modified = d.modified
  BY FinishedIs
<1>3. u \in Seq(Events) /\ u # << >>
  BY <1>1, AddedToFacts
<1> HIDE DEF u
<1>4. Front(u) \in Seq(Events) /\ Last(u) \in Events
  BY <1>3, LastFacts
<1>5. Append(d.redo, Last(u)) \in Seq(Events)
  BY <1>1, <1>4, AppendProperties
<1>6. w \in Seq(Edits)
  <2>1. Last(u).edits \in Seq(Edits)
    BY <1>4 DEF Events
  <2> QED BY <1>1, <2>1, WithoutType
<1>7. m = [f EXCEPT !.content = Without(@, Last(f.undo).edits),
                    !.undo = Front(@), !.redo = Append(@, Last(f.undo)),
                    !.modified = TRUE]
  <2>1. f.undo # << >>
    BY <1>2, <1>3
  <2> QED BY <2>1 DEF UndoTop, Finished
<1> HIDE DEF f, m
<1>8. m = [f EXCEPT !.content = w, !.undo = Front(u), !.redo = Append(d.redo, Last(u)),
                    !.modified = TRUE]
  BY <1>2, <1>7
<1> HIDE DEF w
<1>9. m \in Docs({d.el})
  BY <1>2, <1>4, <1>5, <1>6, <1>8 DEF Docs
<1>10. /\ m.el = d.el /\ m.log = << >> /\ m.partial = << >>
       /\ m.undo = Front(u) /\ m.redo = Append(d.redo, Last(u)) /\ m.content = w
       /\ m.born = d.born /\ m.sensitive = d.sensitive /\ m.modified = TRUE
  BY <1>2, <1>8 DEF Docs
<1> QED BY <1>9, <1>10 DEF m, u, w

\* redo() with something to redo.
LEMMA RedoTopIs ==
  ASSUME NEW E, NEW d \in Docs(E), d.redo # << >>
  PROVE  LET m == RedoTop(d)
             u == IF d.undo = << >> THEN << >> ELSE AddedTo(d.undo, Pending(d))
         IN
         /\ m \in Docs({d.el}) /\ m.el = d.el /\ m.log = << >> /\ m.partial = << >>
         /\ m.redo = Front(d.redo) /\ m.undo = Append(u, Last(d.redo))
         /\ m.content = d.content \o Last(d.redo).edits
         /\ m.born = d.born /\ m.sensitive = d.sensitive /\ m.modified = TRUE
<1> DEFINE m == RedoTop(d)
           u == IF d.undo = << >> THEN << >> ELSE AddedTo(d.undo, Pending(d))
           f == Finished(d)
           w == d.content \o Last(d.redo).edits
<1>1. /\ d.undo \in Seq(Events) /\ d.redo \in Seq(Events) /\ d.content \in Seq(Edits)
      /\ Pending(d) \in Seq(Edits)
  BY PendingType DEF Docs
<1>2. /\ f \in Docs({d.el}) /\ f.el = d.el /\ f.log = << >> /\ f.partial = << >>
      /\ f.undo = u /\ f.content = d.content /\ f.redo = d.redo /\ f.born = d.born
      /\ f.sensitive = d.sensitive /\ f.modified = d.modified
  BY FinishedIs
<1> HIDE DEF u
<1>3. u \in Seq(Events)
  BY <1>2 DEF Docs
<1>4. Front(d.redo) \in Seq(Events) /\ Last(d.redo) \in Events
  BY <1>1, LastFacts
<1>5. Append(u, Last(d.redo)) \in Seq(Events)
  BY <1>3, <1>4, AppendProperties
<1>6. w \in Seq(Edits)
  <2>1. Last(d.redo).edits \in Seq(Edits)
    BY <1>4 DEF Events
  <2> QED BY <1>1, <2>1, ConcatProperties
<1>7. m = [f EXCEPT !.content = @ \o Last(f.redo).edits,
                    !.redo = Front(@), !.undo = Append(@, Last(f.redo)),
                    !.modified = TRUE]
  <2>1. f.redo # << >>
    BY <1>2
  <2> QED BY <2>1 DEF RedoTop, Finished
<1> HIDE DEF f, m
<1>8. m = [f EXCEPT !.content = w, !.redo = Front(d.redo), !.undo = Append(u, Last(d.redo)),
                    !.modified = TRUE]
  BY <1>2, <1>7
<1> HIDE DEF w
<1>9. m \in Docs({d.el})
  BY <1>2, <1>4, <1>5, <1>6, <1>8 DEF Docs
<1>10. /\ m.el = d.el /\ m.log = << >> /\ m.partial = << >>
       /\ m.redo = Front(d.redo) /\ m.undo = Append(u, Last(d.redo)) /\ m.content = w
       /\ m.born = d.born /\ m.sensitive = d.sensitive /\ m.modified = TRUE
  BY <1>2, <1>8 DEF Docs
<1> QED BY <1>9, <1>10 DEF m, u, w

\* undo() and redo() with nothing to do still finish the transaction.
LEMMA NothingIs ==
  ASSUME NEW E, NEW d \in Docs(E)
  PROVE  /\ d.undo = << >> => UndoTop(d) = Finished(d)
         /\ d.redo = << >> => RedoTop(d) = Finished(d)
<1>1. /\ Finished(d).undo = IF d.undo = << >> THEN << >> ELSE AddedTo(d.undo, Pending(d))
      /\ Finished(d).redo = d.redo
  BY FinishedIs
<1>2. d.undo = << >> => UndoTop(d) = Finished(d)
  BY <1>1 DEF UndoTop, Finished
<1>3. d.redo = << >> => RedoTop(d) = Finished(d)
  BY <1>1 DEF RedoTop, Finished
<1> QED BY <1>2, <1>3

LEMMA SensitiveIs ==
  ASSUME NEW E, NEW d \in Docs(E), NEW b \in BOOLEAN
  PROVE  LET m == SetUndoSensitive(d, b) IN
         /\ m \in Docs({d.el}) /\ m.el = d.el /\ m.log = << >> /\ m.sensitive = b
         /\ m.partial = (IF b THEN d.partial ELSE Pending(d))
         /\ m.undo = d.undo /\ m.redo = d.redo /\ m.content = d.content
         /\ m.born = d.born /\ m.actionkey = d.actionkey /\ m.modified = d.modified
<1> DEFINE m == SetUndoSensitive(d, b)
           p == IF b THEN d.partial ELSE Pending(d)
<1>1. Pending(d) \in Seq(Edits) /\ d.partial \in Seq(Edits) /\ << >> \in Seq(Edits)
  BY PendingType
<1>2. p \in Seq(Edits)
  BY <1>1
<1>3. m = [d EXCEPT !.sensitive = b, !.partial = p, !.log = << >>]
  <2>1. m = [d EXCEPT !.sensitive = b, !.partial = IF b THEN @ ELSE Pending(d), !.log = << >>]
    BY DEF SetUndoSensitive
  <2>2. (IF b THEN d.partial ELSE Pending(d)) = p
    OBVIOUS
  <2> HIDE DEF m, p
  <2> QED BY <2>1, <2>2
<1> HIDE DEF m, p
<1>4. m \in Docs({d.el})
  BY <1>1, <1>2, <1>3 DEF Docs
<1>5. /\ m.el = d.el /\ m.log = << >> /\ m.sensitive = b /\ m.partial = p
      /\ m.undo = d.undo /\ m.redo = d.redo /\ m.content = d.content
      /\ m.born = d.born /\ m.actionkey = d.actionkey /\ m.modified = d.modified
  BY <1>3 DEF Docs
<1> QED BY <1>4, <1>5 DEF m, p

\* A save: what is open is put aside, the mark and the iterator are set.
LEMMA SavedIs ==
  ASSUME NEW E, NEW d \in Docs(E), NEW official \in BOOLEAN
  PROVE  LET m == Saved(d, official) IN
         /\ m \in Docs({m.el}) /\ m.el = [d.el EXCEPT !.saved = d.el.curr]
         /\ m.log = << >> /\ m.partial = Pending(d) /\ m.sensitive = TRUE
         /\ m.undo = d.undo /\ m.redo = d.redo /\ m.content = d.content
         /\ m.born = d.born /\ m.actionkey = d.actionkey
         /\ m.modified = (~official /\ d.modified)
<1> DEFINE x == SetUndoSensitive(d, FALSE)
           y == SetUndoSensitive(x, TRUE)
           l == [d.el EXCEPT !.saved = d.el.curr]
           f == ~official /\ d.modified
           m == Saved(d, official)
<1>1. /\ x \in Docs({d.el}) /\ x.el = d.el /\ x.log = << >> /\ x.partial = Pending(d)
      /\ x.undo = d.undo /\ x.redo = d.redo /\ x.content = d.content
      /\ x.born = d.born /\ x.actionkey = d.actionkey /\ x.modified = d.modified
  BY SensitiveIs
<1> HIDE DEF x
<1>2. /\ y \in Docs({x.el}) /\ y.el = x.el /\ y.log = << >> /\ y.partial = x.partial
      /\ y.sensitive = TRUE /\ y.undo = x.undo /\ y.redo = x.redo /\ y.content = x.content
      /\ y.born = x.born /\ y.actionkey = x.actionkey /\ y.modified = x.modified
  BY <1>1, SensitiveIs
<1> HIDE DEF y
<1>3. /\ y \in Docs({d.el}) /\ y.el = d.el /\ y.log = << >> /\ y.partial = Pending(d)
      /\ y.sensitive = TRUE /\ y.undo = d.undo /\ y.redo = d.redo /\ y.content = d.content
      /\ y.born = d.born /\ y.actionkey = d.actionkey /\ y.modified = d.modified
  BY <1>1, <1>2
<1>4. m = [y EXCEPT !.modified = f, !.el = l]
  <2>1. m = [y EXCEPT !.modified = IF official THEN FALSE ELSE @, !.el.saved = d.el.curr]
    BY DEF Saved, x, y
  <2>2. m = [y EXCEPT !.modified = IF official THEN FALSE ELSE y.modified,
                      !.el = [y.el EXCEPT !.saved = d.el.curr]]
    BY <2>1
  <2>3. (IF official THEN FALSE ELSE d.modified) = f
    <3>1. d.modified \in BOOLEAN
      BY DEF Docs
    <3> QED BY <3>1, Zenon
  <2> HIDE DEF m, f
  <2> QED BY <1>3, <2>2, <2>3
<1>5. f \in BOOLEAN
  BY DEF Docs
<1> HIDE DEF m, l, f
<1>6. m \in Docs({l}) /\ m.el = l
  BY <1>3, <1>4, <1>5 DEF Docs
<1>7. /\ m.log = << >> /\ m.partial = Pending(d) /\ m.sensitive = TRUE
      /\ m.undo = d.undo /\ m.redo = d.redo /\ m.content = d.content
      /\ m.born = d.born /\ m.actionkey = d.actionkey /\ m.modified = f
  BY <1>3, <1>4 DEF Docs
<1> QED BY <1>6, <1>7 DEF m, l, f

\* A commit marks the document and closes the transaction.
Marked(d, key) ==
  [d EXCEPT !.log = << >>, !.partial = << >>, !.actionkey = key, !.modified = TRUE]

LEMMA MarkedIs ==
  ASSUME NEW E, NEW d \in Docs(E), NEW key \in Keys \cup {NoKey}
  PROVE  LET m == Marked(d, key) IN
         /\ m \in Docs({d.el}) /\ m.el = d.el /\ m.log = << >> /\ m.partial = << >>
         /\ m.undo = d.undo /\ m.redo = d.redo /\ m.content = d.content
         /\ m.born = d.born /\ m.sensitive = d.sensitive /\ m.modified = TRUE
<1> DEFINE m == Marked(d, key)
<1>1. m = [d EXCEPT !.log = << >>, !.partial = << >>, !.actionkey = key, !.modified = TRUE]
  BY DEF Marked
<1>2. << >> \in Seq(Edits)
  OBVIOUS
<1> HIDE DEF m
<1>3. m \in Docs({d.el})
  BY <1>1, <1>2 DEF Docs
<1>4. /\ m.el = d.el /\ m.log = << >> /\ m.partial = << >>
      /\ m.undo = d.undo /\ m.redo = d.redo /\ m.content = d.content
      /\ m.born = d.born /\ m.sensitive = d.sensitive /\ m.modified = TRUE
  BY <1>1 DEF Docs
<1> QED BY <1>3, <1>4 DEF m

LEMMA MaybeDoneCases ==
  ASSUME NEW E, NEW d \in Docs(E), NEW key, NEW expired \in BOOLEAN, NEW icon, NEW zone
  PROVE  LET m == MaybeDone(d, key, expired, icon, zone)
             c == ClearRedo(d)
         IN
         /\ Pending(c) = Pending(d)
         /\ Pending(d) = << >> => m = c
         /\ Pending(d) # << >> =>
              \E a : /\ \/ a = Push(c, icon, zone)
                        \/ a = Coalesce(c) /\ c.undo # << >> /\ key # NoKey
                     /\ m = Marked(a, key) \/ m = Expire(Marked(a, key))
<1> DEFINE c == ClearRedo(d)
           m == MaybeDone(d, key, expired, icon, zone)
           a == IF Merges(c, key) /\ ~expired THEN Coalesce(c) ELSE Push(c, icon, zone)
<1>1. Pending(c) = Pending(d)
  BY ClearRedoIs DEF Pending
<1>2. m = IF Pending(c) = << >> THEN c
          ELSE IF key = NoKey THEN Expire(Marked(a, key)) ELSE Marked(a, key)
  BY Zenon DEF MaybeDone, Marked
<1>3. \/ a = Push(c, icon, zone)
      \/ a = Coalesce(c) /\ c.undo # << >> /\ key # NoKey
  BY DEF Merges
<1> HIDE DEF a, m, c
<1>4. ASSUME Pending(d) # << >>
      PROVE  m = Marked(a, key) \/ m = Expire(Marked(a, key))
  BY <1>1, <1>2, <1>4
<1>5. Pending(d) = << >> => m = c
  BY <1>1, <1>2
<1>6. Pending(d) # << >> =>
        \E x : /\ \/ x = Push(c, icon, zone)
                  \/ x = Coalesce(c) /\ c.undo # << >> /\ key # NoKey
               /\ m = Marked(x, key) \/ m = Expire(Marked(x, key))
  BY <1>3, <1>4
<1> QED BY <1>1, <1>5, <1>6 DEF c, m

-----------------------------------------------------------------------------
(* The EventLog shows the stacks: the rows up to the current one are the   *)
(* undo stack, those below it the redo stack.                              *)

Mirrors(d) ==
  /\ LogOK(d.el, Len(d.undo) + 1)
  /\ Len(d.el.rows) = Len(d.undo) + 1 + Len(d.redo)
  /\ \A i \in 1..Len(d.undo) : d.el.rows[i + 1].event = d.undo[i].id
  /\ \A i \in 1..Len(d.redo) : d.el.rows[Len(d.el.rows) + 1 - i].event = d.redo[i].id
  /\ Above(d.el, d.born + 1) /\ d.el.saved \in 0..d.born

DocOK(d) == d \in Docs(Logs) /\ Mirrors(d)

LEMMA DocTypes ==
  ASSUME NEW E, NEW d \in Docs(E)
  PROVE  /\ d.undo \in Seq(Events) /\ d.redo \in Seq(Events) /\ d.content \in Seq(Edits)
         /\ d.log \in Seq(Edits) /\ d.partial \in Seq(Edits)
         /\ Len(d.undo) \in Nat /\ Len(d.redo) \in Nat
         /\ d.born \in 0..MaxCommits /\ d.born \in Nat /\ d.el \in E
         /\ d.modified \in BOOLEAN /\ d.sensitive \in BOOLEAN
<1>1. /\ d.undo \in Seq(Events) /\ d.redo \in Seq(Events) /\ d.content \in Seq(Edits)
      /\ d.log \in Seq(Edits) /\ d.partial \in Seq(Edits)
      /\ d.born \in 0..MaxCommits /\ d.el \in E
      /\ d.modified \in BOOLEAN /\ d.sensitive \in BOOLEAN
  BY DEF Docs
<1>2. Len(d.undo) \in Nat /\ Len(d.redo) \in Nat /\ d.born \in Nat
  BY <1>1
<1> QED BY <1>1, <1>2

\* What the two stacks have of the log is the length and the names.
Alike(s, t) == Len(s) = Len(t) /\ \A i \in 1..Len(s) : s[i].id = t[i].id

LEMMA MirrorsFrame ==
  ASSUME NEW d, DocOK(d), NEW E, NEW m \in Docs(E), m.el = d.el, m.born = d.born,
         Alike(m.undo, d.undo), Alike(m.redo, d.redo)
  PROVE  DocOK(m)
<1>1. d.el \in Logs
  BY DEF DocOK, Docs
<1>2. m \in Docs(Logs)
  BY <1>1, DocRetype
<1>3. Mirrors(m)
  BY DEF DocOK, Mirrors, Alike
<1> QED BY <1>2, <1>3 DEF DocOK

LEMMA ClearRedoOK ==
  ASSUME NEW d, DocOK(d)
  PROVE  DocOK(ClearRedo(d)) /\ ClearRedo(d).el.saved = d.el.saved
<1> DEFINE m == ClearRedo(d)
           c == Len(d.undo) + 1
<1>1. d \in Docs(Logs) /\ Mirrors(d)
  BY DEF DocOK
<1>2. /\ m \in Docs({m.el}) /\ m.redo = << >>
      /\ m.el = IF d.redo = << >> THEN d.el ELSE ClearRedoRows(d.el)
      /\ m.undo = d.undo /\ m.born = d.born
  BY <1>1, ClearRedoIs
<1>3. /\ d.redo \in Seq(Events) /\ Len(d.undo) \in Nat /\ Len(d.redo) \in Nat /\ d.el \in Logs
      /\ d.born \in Nat
  BY <1>1, DocTypes
<1> HIDE DEF m
<1>4. CASE d.redo = << >>
  <2>1. m.redo = d.redo /\ m.el = d.el
    BY <1>2, <1>4
  <2>2. Alike(m.undo, d.undo) /\ Alike(m.redo, d.redo)
    BY <1>2, <2>1 DEF Alike
  <2> QED BY <1>2, <2>1, <2>2, MirrorsFrame DEF m
<1>5. CASE d.redo # << >>
  <2> DEFINE el == ClearRedoRows(d.el)
  <2>1. Len(d.redo) > 0
    BY <1>3, <1>5
  <2>2. c < Len(d.el.rows)
    <3> DEFINE u == Len(d.undo)
               r == Len(d.redo)
               n == Len(d.el.rows)
    <3>1. u \in Nat /\ r \in Nat /\ r > 0
      BY <1>3, <2>1
    <3>2. n = u + 1 + r
      BY <1>1 DEF Mirrors
    <3> HIDE DEF u, r, n
    <3>3. u + 1 < n
      BY <3>1, <3>2
    <3> QED BY <3>3 DEF u, n
  <2>3. LogOK(d.el, c) /\ c \in Nat
    BY <1>1, <1>3 DEF Mirrors
  <2>4. LogOK(el, c) /\ el.saved = d.el.saved /\ el.rows = SubSeq(d.el.rows, 1, c)
    BY <2>2, <2>3, ClearRedoRowsFacts
  <2>5. m.el = el
    BY <1>2, <1>5
  <2> HIDE DEF el, c
  <2>6. Len(el.rows) = c /\ \A i \in 1..c : el.rows[i] = d.el.rows[i] /\ i \in 1..Len(d.el.rows)
    <3>1. d.el.rows \in Seq(Rows) /\ Len(d.el.rows) \in Nat
      BY <1>3 DEF Logs
    <3> QED BY <2>2, <2>3, <2>4, <3>1
  <2>7. m \in Docs(Logs)
    <3>1. el \in Logs
      BY <2>4 DEF LogOK, TreeOK
    <3> QED BY <1>2, <2>5, <3>1, DocRetype
  <2>8. Above(el, d.born + 1)
    <3> SUFFICES ASSUME NEW x \in NodesOf(el) PROVE x < d.born + 1
      BY DEF Above
    <3>1. PICK i \in 1..c : x = el.rows[i].node
      BY <2>4, <2>6, NodesAre DEF LogOK
    <3>2. x \in NodesOf(d.el)
      BY <2>3, <2>6, <3>1, NodesAre DEF LogOK
    <3> QED BY <1>1, <3>2 DEF Mirrors, Above
  <2>9. \A i \in 1..Len(d.undo) : el.rows[i + 1].event = d.undo[i].id
    <3>1. \A i \in 1..Len(d.undo) : i + 1 \in 1..c
      BY <1>3 DEF c
    <3> QED BY <1>1, <2>6, <3>1 DEF Mirrors
  <2>10. Mirrors(m)
    <3>1. Len(m.redo) = 0 /\ Len(m.undo) + 1 = c /\ Len(m.undo) = Len(d.undo)
      BY <1>2 DEF c
    <3>2. LogOK(m.el, Len(m.undo) + 1)
      BY <2>4, <2>5, <3>1
    <3>3. Len(m.el.rows) = Len(m.undo) + 1 + Len(m.redo)
      BY <1>3, <2>5, <2>6, <3>1
    <3>4. \A i \in 1..Len(m.undo) : m.el.rows[i + 1].event = m.undo[i].id
      BY <1>2, <2>5, <2>9
    <3>5. \A i \in 1..Len(m.redo) : FALSE
      BY <3>1
    <3>6. Above(m.el, m.born + 1) /\ m.el.saved \in 0..m.born
      BY <1>1, <1>2, <2>4, <2>5, <2>8 DEF Mirrors
    <3> QED BY <3>2, <3>3, <3>4, <3>5, <3>6 DEF Mirrors
  <2> QED BY <2>4, <2>5, <2>7, <2>10 DEF DocOK, m
<1> QED BY <1>4, <1>5

LEMMA CoalesceOK ==
  ASSUME NEW d, DocOK(d), d.undo # << >>
  PROVE  DocOK(Coalesce(d)) /\ Coalesce(d).el = d.el
<1> DEFINE m == Coalesce(d)
<1>1. d \in Docs(Logs)
  BY DEF DocOK
<1>2. /\ m \in Docs({d.el}) /\ m.undo = AddedTo(d.undo, Pending(d)) /\ m.el = d.el
      /\ m.redo = d.redo /\ m.born = d.born
  BY <1>1, CoalesceIs
<1>3. d.undo \in Seq(Events) /\ Pending(d) \in Seq(Edits)
  BY <1>1, DocTypes, PendingType
<1> HIDE DEF m
<1>4. Alike(m.undo, d.undo)
  BY <1>2, <1>3, AddedToFacts DEF Alike
<1>5. Alike(m.redo, d.redo)
  BY <1>2 DEF Alike
<1> QED BY <1>2, <1>4, <1>5, MirrorsFrame DEF m

LEMMA FinishedOK ==
  ASSUME NEW d, DocOK(d)
  PROVE  DocOK(Finished(d)) /\ Finished(d).el = d.el
<1> DEFINE m == Finished(d)
<1>1. d \in Docs(Logs)
  BY DEF DocOK
<1>2. /\ m \in Docs({d.el}) /\ m.undo = (IF d.undo = << >> THEN << >> ELSE AddedTo(d.undo, Pending(d)))
      /\ m.el = d.el /\ m.redo = d.redo /\ m.born = d.born
  BY <1>1, FinishedIs
<1>3. d.undo \in Seq(Events) /\ Pending(d) \in Seq(Edits)
  BY <1>1, DocTypes, PendingType
<1> HIDE DEF m
<1>4. Alike(m.undo, d.undo)
  <2>1. CASE d.undo = << >>
    BY <1>2, <2>1 DEF Alike
  <2>2. CASE d.undo # << >>
    BY <1>2, <1>3, <2>2, AddedToFacts DEF Alike
  <2> QED BY <2>1, <2>2
<1>5. Alike(m.redo, d.redo)
  BY <1>2 DEF Alike
<1> QED BY <1>2, <1>4, <1>5, MirrorsFrame DEF m

LEMMA MarkedOK ==
  ASSUME NEW d, DocOK(d), NEW key \in Keys \cup {NoKey}
  PROVE  DocOK(Marked(d, key)) /\ Marked(d, key).el = d.el
<1> DEFINE m == Marked(d, key)
<1>1. d \in Docs(Logs)
  BY DEF DocOK
<1>2. m \in Docs({d.el}) /\ m.undo = d.undo /\ m.el = d.el /\ m.redo = d.redo /\ m.born = d.born
  BY <1>1, MarkedIs
<1> HIDE DEF m
<1>3. Alike(m.undo, d.undo) /\ Alike(m.redo, d.redo)
  BY <1>2 DEF Alike
<1> QED BY <1>2, <1>3, MirrorsFrame DEF m

LEMMA VirginityOK ==
  ASSUME NEW d, DocOK(d)
  PROVE  DocOK(CheckForVirginity(d)) /\ CheckForVirginity(d).el = d.el
<1> DEFINE m == CheckForVirginity(d)
<1>1. d \in Docs(Logs)
  BY DEF DocOK
<1>2. m \in Docs({d.el}) /\ m.undo = d.undo /\ m.el = d.el /\ m.redo = d.redo /\ m.born = d.born
  BY <1>1, VirginityIs
<1> HIDE DEF m
<1>3. Alike(m.undo, d.undo) /\ Alike(m.redo, d.redo)
  BY <1>2 DEF Alike
<1> QED BY <1>2, <1>3, MirrorsFrame DEF m

LEMMA SensitiveOK ==
  ASSUME NEW d, DocOK(d), NEW b \in BOOLEAN
  PROVE  DocOK(SetUndoSensitive(d, b)) /\ SetUndoSensitive(d, b).el = d.el
<1> DEFINE m == SetUndoSensitive(d, b)
<1>1. d \in Docs(Logs)
  BY DEF DocOK
<1>2. m \in Docs({d.el}) /\ m.undo = d.undo /\ m.el = d.el /\ m.redo = d.redo /\ m.born = d.born
  BY <1>1, SensitiveIs
<1> HIDE DEF m
<1>3. Alike(m.undo, d.undo) /\ Alike(m.redo, d.redo)
  BY <1>2 DEF Alike
<1> QED BY <1>2, <1>3, MirrorsFrame DEF m

LEMMA PushOK ==
  ASSUME NEW d, DocOK(d), d.redo = << >>, d.born < MaxCommits,
         NEW icon \in EventIcons, NEW zone \in BOOLEAN
  PROVE  LET m == Push(d, icon, zone) IN
         /\ DocOK(m) /\ m.el.saved = d.el.saved
         /\ \E row \in Rows : /\ row.node = d.born + 1 /\ row.event = d.born + 1
                            /\ m.el.rows = Append(d.el.rows, row)
<1> DEFINE m == Push(d, icon, zone)
           n == d.born + 1
           c == Len(d.undo) + 1
           e == NewEvent(d, zone)
           el == CommitRow(d.el, n, n, icon)
<1>1. d \in Docs(Logs) /\ Mirrors(d)
  BY DEF DocOK
<1>2. /\ m \in Docs({m.el}) /\ m.undo = Append(d.undo, e) /\ e \in Events /\ m.born = n
      /\ m.el = el /\ m.redo = d.redo
  BY <1>1, PushIs
<1>3. /\ d.undo \in Seq(Events) /\ Len(d.undo) \in Nat /\ d.el \in Logs /\ d.born \in Nat
      /\ n \in Nat /\ c \in Nat
  BY <1>1, DocTypes
<1>4. LogOK(d.el, c) /\ Above(d.el, n)
  BY <1>1 DEF Mirrors
<1>5. c = Len(d.el.rows)
  <2>1. Len(d.el.rows) = Len(d.undo) + 1 + Len(d.redo)
    BY <1>1 DEF Mirrors
  <2> QED BY <1>3, <2>1
<1>6. ~(c < Len(d.el.rows))
  BY <1>3, <1>5
<1>7. e.id = n
  BY DEF NewEvent
<1> HIDE DEF m, n, c, e
<1>8. /\ LogOK(el, c + 1) /\ el.saved = d.el.saved
      /\ \E row \in Rows : row.node = n /\ row.event = n /\ el.rows = Append(d.el.rows, row)
  BY <1>3, <1>4, <1>6, CommitRowFacts
<1> HIDE DEF el
<1>9. PICK row \in Rows : row.node = n /\ row.event = n /\ el.rows = Append(d.el.rows, row)
  BY <1>8
<1>10. /\ Len(el.rows) = c + 1 /\ el.rows[c + 1] = row
       /\ \A i \in 1..c : el.rows[i] = d.el.rows[i]
  <2>1. d.el.rows \in Seq(Rows)
    BY <1>3 DEF Logs
  <2> QED BY <1>5, <1>9, <2>1, AppendProperties
<1>11. m \in Docs(Logs)
  <2>1. el \in Logs
    BY <1>8 DEF LogOK, TreeOK
  <2> QED BY <1>2, <2>1, DocRetype
<1>12. /\ Len(m.undo) = c /\ m.undo[c] = e /\ \A i \in 1..Len(d.undo) : m.undo[i] = d.undo[i]
       /\ c = Len(d.undo) + 1
  <2>1. c = Len(d.undo) + 1
    BY DEF c
  <2> QED BY <1>2, <1>3, <2>1, AppendProperties
<1>13. \A i \in 1..Len(m.undo) : el.rows[i + 1].event = m.undo[i].id
  <2> SUFFICES ASSUME NEW i \in 1..c PROVE el.rows[i + 1].event = m.undo[i].id
    BY <1>12
  <2>1. CASE i = c
    BY <1>7, <1>9, <1>10, <1>12, <2>1
  <2>2. CASE i # c
    <3>1. i \in 1..Len(d.undo) /\ i + 1 \in 1..c
      BY <1>3, <1>12, <2>2
    <3>2. d.el.rows[i + 1].event = d.undo[i].id
      BY <1>1, <3>1 DEF Mirrors
    <3> QED BY <1>10, <1>12, <3>1, <3>2
  <2> QED BY <2>1, <2>2
<1>14. Above(el, n + 1)
  <2> SUFFICES ASSUME NEW x \in NodesOf(el) PROVE x < n + 1
    BY DEF Above
  <2>1. PICK i \in 1..(c + 1) : x = el.rows[i].node
    BY <1>8, <1>10, NodesAre DEF LogOK
  <2>2. CASE i = c + 1
    BY <1>3, <1>9, <1>10, <2>1, <2>2
  <2>3. CASE i # c + 1
    <3>1. i \in 1..c
      BY <1>3, <2>3
    <3>2. x = d.el.rows[i].node /\ i \in 1..Len(d.el.rows)
      BY <1>5, <1>10, <2>1, <3>1
    <3>3. x \in NodesOf(d.el) /\ x \in Nat
      BY <1>3, <1>4, <3>2, NodesAre, RowType DEF LogOK
    <3>4. x < n
      BY <1>4, <3>3 DEF Above
    <3> QED BY <1>3, <3>3, <3>4
  <2> QED BY <2>2, <2>3
<1>15. el.saved \in 0..n
  <2>1. d.el.saved \in 0..d.born
    BY <1>1 DEF Mirrors
  <2> QED BY <1>3, <1>8, <2>1 DEF n
<1>16. Mirrors(m)
  <2>1. Len(m.redo) = 0
    BY <1>2
  <2>2. Len(m.el.rows) = Len(m.undo) + 1 + Len(m.redo)
    BY <1>2, <1>3, <1>10, <1>12, <2>1
  <2>3. \A i \in 1..Len(m.redo) : FALSE
    BY <2>1
  <2>4. LogOK(m.el, Len(m.undo) + 1)
    BY <1>2, <1>8, <1>12
  <2>5. Above(m.el, m.born + 1) /\ m.el.saved \in 0..m.born
    BY <1>2, <1>14, <1>15
  <2> QED BY <1>2, <1>13, <2>2, <2>3, <2>4, <2>5 DEF Mirrors
<1> QED BY <1>2, <1>8, <1>9, <1>11, <1>16 DEF DocOK, m, el, n

\* The EventLog x, in which el has lost the k oldest of its events.
Outlives(x, el, c, k) ==
  /\ LogOK(x, c - k) /\ Len(x.rows) = Len(el.rows) - k /\ x.saved = el.saved
  /\ \A i \in 2..(Len(el.rows) - k) : x.rows[i].event = el.rows[i + k].event
  /\ NodesOf(x) \subseteq NodesOf(el) /\ x.rows[1] = el.rows[1]
  /\ k = 0 => x = el

LEMMA OutlivesStep ==
  ASSUME NEW el \in Logs, NEW c \in Nat, NEW k \in Nat \ {0}, c - k >= 3,
         NEW x, Outlives(x, el, c, k - 1)
  PROVE  Outlives(ExpireRow(x), el, c, k)
<1> DEFINE y == ExpireRow(x)
           b == c - (k - 1)
           n == Len(el.rows)
           l == Len(x.rows)
<1>1. /\ LogOK(x, b) /\ l = n - (k - 1) /\ x.saved = el.saved
      /\ \A i \in 2..(n - (k - 1)) : x.rows[i].event = el.rows[i + (k - 1)].event
      /\ NodesOf(x) \subseteq NodesOf(el) /\ x.rows[1] = el.rows[1]
  BY DEF Outlives
<1>2. b \in Nat /\ b >= 4 /\ b - 1 = c - k
  OBVIOUS
<1>3. n \in Nat
  <2>1. el.rows \in Seq(Rows)
    BY DEF Logs
  <2> QED BY <2>1
<1> HIDE DEF b
<1>4. /\ LogOK(y, b - 1) /\ Len(y.rows) = l - 1 /\ y.saved = x.saved
      /\ \A i \in 2..(l - 1) : y.rows[i].event = x.rows[i + 1].event
      /\ NodesOf(y) \subseteq NodesOf(x) /\ y.rows[1] = x.rows[1]
  BY <1>1, <1>2, ExpireRowFacts
<1> HIDE DEF y, n, l
<1>5. Len(y.rows) = n - k
  BY <1>1, <1>3, <1>4
<1>6. \A i \in 2..(n - k) : y.rows[i].event = el.rows[i + k].event
  <2> TAKE i \in 2..(n - k)
  <2>1. i \in 2..(l - 1) /\ i + 1 \in 2..(n - (k - 1)) /\ (i + 1) + (k - 1) = i + k
    BY <1>1, <1>3
  <2>2. x.rows[i + 1].event = el.rows[(i + 1) + (k - 1)].event
    BY <1>1, <2>1
  <2> QED BY <1>4, <2>1, <2>2
<1>7. NodesOf(y) \subseteq NodesOf(el)
  BY <1>1, <1>4
<1>8. y.saved = el.saved /\ y.rows[1] = el.rows[1]
  BY <1>1, <1>4
<1> QED BY <1>2, <1>4, <1>5, <1>6, <1>7, <1>8 DEF Outlives, y, n

Expired(el, n) ==
  LET expired[k \in 0..n] == IF k = 0 THEN el ELSE ExpireRow(expired[k - 1])
  IN expired[n]

LEMMA ExpiredFacts ==
  ASSUME NEW el \in Logs, NEW c \in Nat, LogOK(el, c), NEW n \in Nat, n = 0 \/ c - n >= 3
  PROVE  Outlives(Expired(el, n), el, c, n)
<1> DEFINE V == Logs
           g == [x \in V \X (1..n) |-> IF ExpireRow(x[1]) \in V THEN ExpireRow(x[1]) ELSE x[1]]
           body(f) == [k \in 0..n |-> IF k = 0 THEN el ELSE ExpireRow(f[k - 1])]
           P(x, k) == Outlives(x, el, c, k)
<1>1. P(el, 0)
  <2>1. Len(el.rows) \in Nat /\ c - 0 = c /\ Len(el.rows) - 0 = Len(el.rows)
    BY DEF LogOK, TreeOK
  <2>2. \A i \in 2..Len(el.rows) : i + 0 = i
    OBVIOUS
  <2> QED BY <2>1, <2>2 DEF Outlives
<1>2. ASSUME NEW k \in 1..n, NEW x, P(x, k - 1) PROVE P(ExpireRow(x), k)
  <2>1. k \in Nat \ {0} /\ c - k >= 3
    OBVIOUS
  <2> QED BY <1>2, <2>1, OutlivesStep
<1>3. \A x, k : P(x, k) => x \in V
  BY DEF Outlives, LogOK, TreeOK
<1> HIDE DEF P, V
<1>4. g \in [V \X (1..n) -> V] /\ el \in V
  BY <1>1, <1>3
<1>5. \A v \in V, k \in 1..n : g[<<v, k>>] = IF ExpireRow(v) \in V THEN ExpireRow(v) ELSE v
  OBVIOUS
<1> HIDE DEF g
<1>6. PICK h : h \in [0..n -> V] /\ h[0] = el /\ \A k \in 1..n : h[k] = g[<<h[k - 1], k>>]
  <2>1. \E h : Recursive(h, n, V, el, g)
    BY <1>4, Recursion
  <2> QED BY <2>1 DEF Recursive
<1>7. \A k \in 1..n : P(h[k - 1], k - 1) => P(h[k], k) /\ h[k] = ExpireRow(h[k - 1])
  <2> SUFFICES ASSUME NEW k \in 1..n, P(h[k - 1], k - 1)
               PROVE  P(h[k], k) /\ h[k] = ExpireRow(h[k - 1])
    OBVIOUS
  <2>1. P(ExpireRow(h[k - 1]), k)
    BY <1>2
  <2>2. ExpireRow(h[k - 1]) \in V /\ h[k - 1] \in V
    BY <1>3, <2>1
  <2>3. h[k] = ExpireRow(h[k - 1])
    BY <1>5, <1>6, <2>2
  <2> QED BY <2>1, <2>3
<1>8. \A k \in 0..n : P(h[k], k)
  <2> DEFINE T == {k \in 0..n : P(h[k], k)}
  <2>1. 0 \in T
    BY <1>1, <1>6
  <2>2. \A k \in 1..n : k - 1 \in T => k \in T
    BY <1>7
  <2> HIDE DEF T
  <2>3. \A k \in 0..n : k \in T
    BY <2>1, <2>2, Induct
  <2> QED BY <2>3 DEF T
<1>9. h = body(h)
  <2>1. \A k \in 1..n : k - 1 \in 0..n
    OBVIOUS
  <2>2. \A k \in 1..n : h[k] = ExpireRow(h[k - 1])
    BY <1>7, <1>8, <2>1
  <2>3. \A k \in 0..n : k = 0 \/ k \in 1..n
    OBVIOUS
  <2> QED BY <1>6, <2>2, <2>3
<1> DEFINE f == CHOOSE x : x = body(x)
<1>10. f = body(f)
  <2> HIDE DEF body
  <2> QED BY <1>9
<1>11. Expired(el, n) = f[n]
  BY DEF Expired
<1> HIDE DEF f
<1>12. f[0] = el /\ \A k \in 1..n : f[k] = ExpireRow(f[k - 1])
  <2>1. 0 \in 0..n /\ \A k \in 1..n : k \in 0..n /\ k # 0
    OBVIOUS
  <2> QED BY <1>10, <2>1
<1>13. \A k \in 0..n : P(f[k], k)
  <2> DEFINE T == {k \in 0..n : P(f[k], k)}
  <2>1. 0 \in T
    BY <1>1, <1>12
  <2>2. \A k \in 1..n : k - 1 \in T => k \in T
    BY <1>2, <1>12
  <2> HIDE DEF T
  <2>3. \A k \in 0..n : k \in T
    BY <2>1, <2>2, Induct
  <2> QED BY <2>3 DEF T
<1> QED BY <1>11, <1>13 DEF P

\* With the limit at two or more, what expires leaves the history in order.
LEMMA ExpireOK ==
  ASSUME NEW d, DocOK(d), d.redo = << >>, UndoSize > 1
  PROVE  LET m == Expire(d)
             n == IF Len(d.undo) > UndoSize THEN Len(d.undo) - UndoSize ELSE 0
         IN
         DocOK(m) /\ Outlives(m.el, d.el, Len(d.undo) + 1, n)
<1> DEFINE m == Expire(d)
           l == Len(d.undo)
           n == IF l > UndoSize THEN l - UndoSize ELSE 0
           c == l + 1
           s == SubSeq(d.undo, n + 1, l)
           r == Len(d.el.rows)
<1>1. d \in Docs(Logs) /\ Mirrors(d)
  BY DEF DocOK
<1>2. /\ m \in Docs({m.el}) /\ m.undo = s /\ m.redo = d.redo /\ m.born = d.born
  BY <1>1, ExpireIs
<1>3. m.el = Expired(d.el, n)
  <2> DEFINE x == Expired(d.el, n)
  <2>1. m = [d EXCEPT !.undo = SubSeq(@, n + 1, Len(@)), !.el = x]
    BY Zenon DEF Expire, Expired
  <2> HIDE DEF x, m
  <2> QED BY <1>1, <2>1 DEF Docs, x
<1>4. /\ d.undo \in Seq(Events) /\ l \in Nat /\ d.el \in Logs /\ d.born \in Nat
  BY <1>1, DocTypes
<1> HIDE DEF m, l
<1>5. /\ n \in Nat /\ n <= l /\ c \in Nat /\ c = l + 1
  BY <1>4, UndoSizeAssumption
<1>6. n = 0 \/ c - n >= 3
  BY <1>4, UndoSizeAssumption
<1> HIDE DEF n, c
<1>7. Outlives(m.el, d.el, c, n)
  <2>1. LogOK(d.el, c)
    BY <1>1 DEF Mirrors, c, l
  <2> QED BY <1>3, <1>4, <1>5, <1>6, <2>1, ExpiredFacts
<1>8. s \in Seq(Events) /\ Len(s) = l - n /\ \A i \in 1..(l - n) : s[i] = d.undo[i + n]
  <2>1. n + 1 \in Int /\ l \in Int /\ \A i \in (n + 1)..l : d.undo[i] \in Events
    BY <1>4, <1>5 DEF l
  <2>2. /\ s \in Seq(Events) /\ Len(s) = IF n + 1 <= l THEN l - (n + 1) + 1 ELSE 0
        /\ \A i \in 1..(l - (n + 1) + 1) : s[i] = d.undo[(n + 1) + i - 1]
    BY <2>1, SubSeqProperties
  <2>3. l - (n + 1) + 1 = l - n /\ \A i \in 1..(l - n) : (n + 1) + i - 1 = i + n
    BY <1>4, <1>5
  <2> HIDE DEF s
  <2> QED BY <1>4, <1>5, <2>2, <2>3
<1> HIDE DEF s
<1>9. /\ LogOK(m.el, c - n) /\ Len(m.el.rows) = r - n /\ m.el.saved = d.el.saved
      /\ \A i \in 2..(r - n) : m.el.rows[i].event = d.el.rows[i + n].event
      /\ NodesOf(m.el) \subseteq NodesOf(d.el)
  BY <1>7 DEF Outlives
<1>10. r = c
  <2>1. Len(d.redo) = 0
    OBVIOUS
  <2>2. Len(d.el.rows) = Len(d.undo) + 1 + Len(d.redo)
    BY <1>1 DEF Mirrors
  <2>3. r = l + 1 + 0
    BY <2>1, <2>2 DEF l
  <2> HIDE DEF r
  <2> QED BY <1>4, <1>5, <2>3
<1> HIDE DEF r
<1>11. m \in Docs(Logs)
  <2>1. m.el \in Logs
    BY <1>9 DEF LogOK, TreeOK
  <2> QED BY <1>2, <2>1, DocRetype
<1>12. Mirrors(m)
  <2>1. Len(m.undo) = l - n /\ Len(m.redo) = 0 /\ (l - n) + 1 = c - n
    BY <1>2, <1>4, <1>5, <1>8
  <2>2. LogOK(m.el, Len(m.undo) + 1)
    BY <1>9, <2>1
  <2>3. Len(m.el.rows) = Len(m.undo) + 1 + Len(m.redo)
    BY <1>4, <1>5, <1>9, <1>10, <2>1
  <2>4. \A i \in 1..Len(m.undo) : m.el.rows[i + 1].event = m.undo[i].id
    <3> SUFFICES ASSUME NEW i \in 1..(l - n) PROVE m.el.rows[i + 1].event = s[i].id
      BY <1>2, <2>1
    <3>1. i + 1 \in 2..(r - n) /\ (i + 1) + n = (i + n) + 1 /\ i + n \in 1..l
      BY <1>4, <1>5, <1>10
    <3>2. m.el.rows[i + 1].event = d.el.rows[(i + n) + 1].event
      BY <1>9, <3>1
    <3>3. d.el.rows[(i + n) + 1].event = d.undo[i + n].id
      BY <1>1, <3>1 DEF Mirrors, l
    <3> QED BY <1>8, <3>2, <3>3
  <2>5. \A i \in 1..Len(m.redo) : FALSE
    BY <2>1
  <2>6. Above(m.el, m.born + 1) /\ m.el.saved \in 0..m.born
    BY <1>1, <1>2, <1>9 DEF Mirrors, Above
  <2> QED BY <2>2, <2>3, <2>4, <2>5, <2>6 DEF Mirrors
<1> QED BY <1>7, <1>11, <1>12 DEF DocOK, m, n, c, l

LEMMA MaybeDoneOK ==
  ASSUME NEW d, DocOK(d), d.born < MaxCommits, UndoSize > 1, NEW key \in Keys \cup {NoKey},
         NEW expired \in BOOLEAN, NEW icon \in EventIcons, NEW zone \in BOOLEAN
  PROVE  DocOK(MaybeDone(d, key, expired, icon, zone))
<1> DEFINE m == MaybeDone(d, key, expired, icon, zone)
           c == ClearRedo(d)
<1>1. d \in Docs(Logs)
  BY DEF DocOK
<1>2. DocOK(c) /\ c.redo = << >> /\ c.born < MaxCommits
  BY <1>1, ClearRedoOK, ClearRedoIs
<1>3. /\ Pending(d) = << >> => m = c
      /\ Pending(d) # << >> =>
           \E a : /\ \/ a = Push(c, icon, zone)
                     \/ a = Coalesce(c) /\ c.undo # << >> /\ key # NoKey
                  /\ m = Marked(a, key) \/ m = Expire(Marked(a, key))
  BY <1>1, MaybeDoneCases
<1> HIDE DEF m, c
<1>4. CASE Pending(d) = << >>
  BY <1>2, <1>3, <1>4 DEF m
<1>5. CASE Pending(d) # << >>
  <2>1. PICK a : /\ \/ a = Push(c, icon, zone)
                    \/ a = Coalesce(c) /\ c.undo # << >> /\ key # NoKey
                 /\ m = Marked(a, key) \/ m = Expire(Marked(a, key))
    BY <1>3, <1>5
  <2>2. c \in Docs(Logs)
    BY <1>2 DEF DocOK
  <2>3. DocOK(a) /\ a.redo = << >>
    <3>1. CASE a = Push(c, icon, zone)
      <4>1. DocOK(Push(c, icon, zone))
        BY <1>2, PushOK
      <4>2. Push(c, icon, zone).redo = c.redo
        BY <1>2, <2>2, PushIs
      <4> QED BY <1>2, <3>1, <4>1, <4>2
    <3>2. CASE a = Coalesce(c) /\ c.undo # << >>
      <4>1. DocOK(Coalesce(c))
        BY <1>2, <3>2, CoalesceOK
      <4>2. Coalesce(c).redo = c.redo
        BY <2>2, <3>2, CoalesceIs
      <4> QED BY <1>2, <3>2, <4>1, <4>2
    <3> QED BY <2>1, <3>1, <3>2
  <2> DEFINE k == Marked(a, key)
  <2>4. DocOK(k) /\ k.redo = << >>
    <3>1. a \in Docs(Logs)
      BY <2>3 DEF DocOK
    <3>2. DocOK(k)
      BY <2>3, MarkedOK
    <3>3. k.redo = a.redo
      BY <3>1, MarkedIs
    <3> QED BY <2>3, <3>2, <3>3
  <2> HIDE DEF k
  <2>5. DocOK(Expire(k))
    BY <2>4, ExpireOK
  <2>6. m = k \/ m = Expire(k)
    BY <2>1 DEF k
  <2> QED BY <2>4, <2>5, <2>6 DEF m
<1> QED BY <1>4, <1>5

\* The iterators follow an undo or a redo.
Moved(d, el) == [d EXCEPT !.el = el]

LEMMA MovedIs ==
  ASSUME NEW E, NEW d \in Docs(E), NEW el
  PROVE  LET m == Moved(d, el) IN
         /\ m \in Docs({el}) /\ m.el = el
         /\ m.content = d.content /\ m.log = d.log /\ m.partial = d.partial
         /\ m.undo = d.undo /\ m.redo = d.redo /\ m.born = d.born
         /\ m.actionkey = d.actionkey /\ m.sensitive = d.sensitive /\ m.modified = d.modified
<1> DEFINE m == Moved(d, el)
<1>1. m = [d EXCEPT !.el = el]
  BY DEF Moved
<1> HIDE DEF m
<1>2. m \in Docs({el}) /\ m.el = el
  BY <1>1 DEF Docs
<1>3. /\ m.content = d.content /\ m.log = d.log /\ m.partial = d.partial
      /\ m.undo = d.undo /\ m.redo = d.redo /\ m.born = d.born
      /\ m.actionkey = d.actionkey /\ m.sensitive = d.sensitive /\ m.modified = d.modified
  BY <1>1 DEF Docs
<1> QED BY <1>2, <1>3 DEF m

LEMMA UndoMoveOK ==
  ASSUME NEW d, DocOK(d), d.undo # << >>
  PROVE  /\ DocOK(Moved(UndoTop(d), MoveUndo(d.el))) /\ UndoTop(d).el = d.el
         /\ UndoEvent(d.el) = Last(UndoTop(d).redo).id
         /\ MoveUndo(d.el).rows = d.el.rows /\ MoveUndo(d.el).saved = d.el.saved
<1> DEFINE t == UndoTop(d)
           u == AddedTo(d.undo, Pending(d))
           el == MoveUndo(d.el)
           m == Moved(t, el)
           l == Len(d.undo)
           k == Len(d.redo)
           r == d.el.rows
<1>1. d \in Docs(Logs) /\ Mirrors(d)
  BY DEF DocOK
<1>2. /\ t \in Docs({d.el}) /\ t.el = d.el /\ t.undo = Front(u)
      /\ t.redo = Append(d.redo, Last(u)) /\ t.born = d.born
  BY <1>1, UndoTopIs
<1>3. /\ m \in Docs({el}) /\ m.el = el /\ m.undo = t.undo /\ m.redo = t.redo /\ m.born = t.born
  BY <1>2, MovedIs
<1>4. /\ d.undo \in Seq(Events) /\ d.redo \in Seq(Events) /\ l \in Nat /\ k \in Nat /\ d.el \in Logs
      /\ Pending(d) \in Seq(Edits)
  BY <1>1, DocTypes, PendingType
<1>5. l > 0
  BY <1>4
<1>6. /\ u \in Seq(Events) /\ Len(u) = l /\ u # << >> /\ \A i \in 1..l : u[i].id = d.undo[i].id
  BY <1>4, AddedToFacts
<1> HIDE DEF t, u, m, el
<1>7. /\ Front(u) \in Seq(Events) /\ Len(Front(u)) = l - 1 /\ Last(u) \in Events /\ Last(u) = u[l]
      /\ \A i \in 1..(l - 1) : Front(u)[i] = u[i]
  BY <1>6, LastFacts
<1>8. /\ t.redo \in Seq(Events) /\ Len(t.redo) = k + 1 /\ t.redo[k + 1] = Last(u)
      /\ \A i \in 1..k : t.redo[i] = d.redo[i]
  BY <1>2, <1>4, <1>7, AppendProperties
<1>9. /\ LogOK(d.el, l + 1) /\ Len(r) = l + 1 + k
      /\ \A i \in 1..l : r[i + 1].event = d.undo[i].id
      /\ \A i \in 1..k : r[Len(r) + 1 - i].event = d.redo[i].id
      /\ Above(d.el, d.born + 1) /\ d.el.saved \in 0..d.born
  BY <1>1 DEF Mirrors
<1> HIDE DEF l, k, r
<1>10. l + 1 > 1 /\ (l + 1) - 1 = l
  BY <1>4, <1>5
<1>11. /\ LogOK(el, (l + 1) - 1) /\ el.rows = r /\ el.saved = d.el.saved
       /\ UndoEvent(d.el) = r[l + 1].event
  BY <1>9, <1>10, MoveUndoFacts DEF el, r
<1>12. r[l + 1].event = Last(u).id
  BY <1>4, <1>5, <1>6, <1>7, <1>9
<1>13. Last(t.redo) = Last(u)
  BY <1>4, <1>8 DEF Last
<1>14. m \in Docs(Logs)
  <2>1. el \in Logs
    BY <1>11 DEF LogOK, TreeOK
  <2> QED BY <1>3, <2>1, DocRetype
<1>15. Mirrors(m)
  <2>1. /\ Len(m.undo) = l - 1 /\ Len(m.redo) = k + 1 /\ (l - 1) + 1 = l /\ m.el.rows = r
        /\ m.el = el
    BY <1>2, <1>3, <1>4, <1>7, <1>8, <1>11
  <2>2. LogOK(m.el, Len(m.undo) + 1)
    BY <1>10, <1>11, <2>1
  <2>3. Len(m.el.rows) = Len(m.undo) + 1 + Len(m.redo)
    BY <1>4, <1>9, <2>1
  <2>4. \A i \in 1..Len(m.undo) : m.el.rows[i + 1].event = m.undo[i].id
    <3> SUFFICES ASSUME NEW i \in 1..(l - 1) PROVE r[i + 1].event = m.undo[i].id
      BY <2>1
    <3>1. i \in 1..l
      BY <1>4
    <3>2. m.undo[i] = u[i]
      BY <1>2, <1>3, <1>7
    <3>3. r[i + 1].event = u[i].id
      BY <1>6, <1>9, <3>1
    <3> QED BY <3>2, <3>3
  <2>5. \A i \in 1..Len(m.redo) : m.el.rows[Len(m.el.rows) + 1 - i].event = m.redo[i].id
    <3> SUFFICES ASSUME NEW i \in 1..(k + 1) PROVE r[Len(r) + 1 - i].event = t.redo[i].id
      BY <1>3, <2>1
    <3>1. CASE i = k + 1
      <4>1. Len(r) + 1 - i = l + 1
        BY <1>4, <1>9, <3>1
      <4> QED BY <1>8, <1>12, <3>1, <4>1
    <3>2. CASE i # k + 1
      <4>1. i \in 1..k
        BY <1>4, <3>2
      <4> QED BY <1>8, <1>9, <4>1
    <3> QED BY <3>1, <3>2
  <2>6. Above(m.el, m.born + 1) /\ m.el.saved \in 0..m.born
    <3>1. NodesOf(el) = NodesOf(d.el)
      BY <1>11 DEF NodesOf, r
    <3> QED BY <1>2, <1>3, <1>9, <1>11, <3>1 DEF Above
  <2> QED BY <2>2, <2>3, <2>4, <2>5, <2>6 DEF Mirrors
<1> QED BY <1>2, <1>11, <1>12, <1>13, <1>14, <1>15 DEF DocOK, m, t, el, r

LEMMA RedoMoveOK ==
  ASSUME NEW d, DocOK(d), d.redo # << >>
  PROVE  /\ DocOK(Moved(RedoTop(d), MoveRedo(d.el))) /\ RedoTop(d).el = d.el
         /\ RedoEvent(d.el) = Last(RedoTop(d).undo).id
         /\ MoveRedo(d.el).rows = d.el.rows /\ MoveRedo(d.el).saved = d.el.saved
<1> DEFINE t == RedoTop(d)
           u == IF d.undo = << >> THEN << >> ELSE AddedTo(d.undo, Pending(d))
           el == MoveRedo(d.el)
           m == Moved(t, el)
           l == Len(d.undo)
           k == Len(d.redo)
           r == d.el.rows
           e == Last(d.redo)
<1>1. d \in Docs(Logs) /\ Mirrors(d)
  BY DEF DocOK
<1>2. /\ t \in Docs({d.el}) /\ t.el = d.el /\ t.undo = Append(u, e)
      /\ t.redo = Front(d.redo) /\ t.born = d.born
  BY <1>1, RedoTopIs
<1>3. /\ m \in Docs({el}) /\ m.el = el /\ m.undo = t.undo /\ m.redo = t.redo /\ m.born = t.born
  <2> HIDE DEF t, el, u, e
  <2>1. t \in Docs({d.el})
    BY <1>2
  <2> QED BY <2>1, MovedIs
<1>4. /\ d.undo \in Seq(Events) /\ d.redo \in Seq(Events) /\ l \in Nat /\ k \in Nat /\ d.el \in Logs
      /\ Pending(d) \in Seq(Edits)
  BY <1>1, DocTypes, PendingType
<1>5. k > 0
  BY <1>4
<1>6. /\ u \in Seq(Events) /\ Len(u) = l /\ \A i \in 1..l : u[i].id = d.undo[i].id
  <2>1. CASE d.undo = << >>
    <3>1. u = << >> /\ l = 0
      BY <2>1
    <3>2. \A i \in 1..0 : FALSE
      OBVIOUS
    <3> QED BY <3>1, <3>2
  <2>2. CASE d.undo # << >>
    <3>1. u = AddedTo(d.undo, Pending(d))
      BY <2>2
    <3> QED BY <1>4, <2>2, <3>1, AddedToFacts
  <2> QED BY <2>1, <2>2
<1> HIDE DEF t, u, m, el, e
<1>7. /\ Front(d.redo) \in Seq(Events) /\ Len(Front(d.redo)) = k - 1 /\ e \in Events /\ e = d.redo[k]
      /\ \A i \in 1..(k - 1) : Front(d.redo)[i] = d.redo[i]
  BY <1>4, LastFacts DEF e
<1>8. /\ t.undo \in Seq(Events) /\ Len(t.undo) = l + 1 /\ t.undo[l + 1] = e
      /\ \A i \in 1..l : t.undo[i] = u[i]
  BY <1>2, <1>4, <1>6, <1>7, AppendProperties
<1>9. /\ LogOK(d.el, l + 1) /\ Len(r) = l + 1 + k
      /\ \A i \in 1..l : r[i + 1].event = d.undo[i].id
      /\ \A i \in 1..k : r[Len(r) + 1 - i].event = d.redo[i].id
      /\ Above(d.el, d.born + 1) /\ d.el.saved \in 0..d.born
  BY <1>1 DEF Mirrors
<1> HIDE DEF l, k
<1>10. l + 1 < Len(r)
  <2> DEFINE n == Len(r)
  <2>1. n = l + 1 + k
    BY <1>9
  <2> HIDE DEF n
  <2>2. l + 1 < n
    BY <1>4, <1>5, <2>1
  <2> QED BY <2>2 DEF n
<1>11. /\ LogOK(el, (l + 1) + 1) /\ el.rows = r /\ el.saved = d.el.saved
       /\ RedoEvent(d.el) = r[(l + 1) + 1].event
  BY <1>9, <1>10, MoveRedoFacts DEF el, r
<1> HIDE DEF r
<1>12. r[(l + 1) + 1].event = e.id
  <2>1. Len(r) + 1 - k = (l + 1) + 1 /\ k \in 1..k
    BY <1>4, <1>5, <1>9
  <2> QED BY <1>7, <1>9, <2>1
<1>13. Last(t.undo) = e
  BY <1>4, <1>8 DEF Last
<1>14. m \in Docs(Logs)
  <2>1. el \in Logs
    BY <1>11 DEF LogOK, TreeOK
  <2> QED BY <1>3, <2>1, DocRetype
<1>15. Mirrors(m)
  <2>1. Len(m.undo) = l + 1 /\ Len(m.redo) = k - 1 /\ m.el.rows = r /\ m.el = el
    BY <1>2, <1>3, <1>7, <1>8, <1>11
  <2>2. LogOK(m.el, Len(m.undo) + 1)
    BY <1>11, <2>1
  <2>3. Len(m.el.rows) = Len(m.undo) + 1 + Len(m.redo)
    <3>1. Len(m.el.rows) = l + 1 + k
      BY <1>9, <2>1
    <3>2. (l + 1) + 1 + (k - 1) = l + 1 + k
      BY <1>4
    <3> QED BY <2>1, <3>1, <3>2
  <2>4. \A i \in 1..Len(m.undo) : m.el.rows[i + 1].event = m.undo[i].id
    <3> SUFFICES ASSUME NEW i \in 1..(l + 1) PROVE r[i + 1].event = t.undo[i].id
      BY <1>3, <2>1
    <3>1. CASE i = l + 1
      BY <1>8, <1>12, <3>1
    <3>2. CASE i # l + 1
      <4>1. i \in 1..l
        BY <1>4, <3>2
      <4> QED BY <1>6, <1>8, <1>9, <4>1
    <3> QED BY <3>1, <3>2
  <2>5. \A i \in 1..Len(m.redo) : m.el.rows[Len(m.el.rows) + 1 - i].event = m.redo[i].id
    <3> SUFFICES ASSUME NEW i \in 1..(k - 1) PROVE r[Len(r) + 1 - i].event = t.redo[i].id
      BY <1>3, <2>1
    <3>1. i \in 1..k
      BY <1>4
    <3> QED BY <1>2, <1>7, <1>9, <3>1
  <2>6. Above(m.el, m.born + 1) /\ m.el.saved \in 0..m.born
    <3>1. NodesOf(el) = NodesOf(d.el)
      BY <1>11 DEF NodesOf, r
    <3> QED BY <1>2, <1>3, <1>9, <1>11, <3>1 DEF Above
  <2> QED BY <2>2, <2>3, <2>4, <2>5, <2>6 DEF Mirrors
<1> QED BY <1>2, <1>11, <1>12, <1>13, <1>14, <1>15 DEF DocOK, m, t, el, r

\* undo(), redo(): the event is the one that the EventLog expects.
LEMMA UndoIs ==
  ASSUME NEW d, DocOK(d)
  PROVE  Undo(d) = IF d.undo = << >> THEN Finished(d)
                   ELSE CheckForVirginity(Moved(UndoTop(d), MoveUndo(d.el)))
<1>1. d \in Docs(Logs)
  BY DEF DocOK
<1>2. CASE d.undo = << >>
  <2>1. UndoTop(d) = Finished(d)
    BY <1>1, <1>2, NothingIs
  <2> QED BY <1>2, <2>1 DEF Undo
<1>3. CASE d.undo # << >>
  <2> DEFINE u == UndoTop(d)
  <2>1. u.el = d.el /\ UndoEvent(d.el) = Last(u.redo).id
    BY <1>3, UndoMoveOK
  <2>2. Undo(d) = CheckForVirginity([u EXCEPT !.el = MoveUndo(@)])
    <3>1. UndoEvent(u.el) = Last(u.redo).id
      BY <2>1
    <3> QED BY <1>3, <3>1 DEF Undo
  <2> HIDE DEF u
  <2>3. [u EXCEPT !.el = MoveUndo(@)] = Moved(u, MoveUndo(d.el))
    BY <2>1 DEF Moved
  <2> QED BY <1>3, <2>2, <2>3 DEF u
<1> QED BY <1>2, <1>3

LEMMA RedoIs ==
  ASSUME NEW d, DocOK(d)
  PROVE  Redo(d) = IF d.redo = << >> THEN Finished(d)
                   ELSE CheckForVirginity(Moved(RedoTop(d), MoveRedo(d.el)))
<1>1. d \in Docs(Logs)
  BY DEF DocOK
<1>2. CASE d.redo = << >>
  <2>1. RedoTop(d) = Finished(d)
    BY <1>1, <1>2, NothingIs
  <2> QED BY <1>2, <2>1 DEF Redo
<1>3. CASE d.redo # << >>
  <2> DEFINE u == RedoTop(d)
  <2>1. u.el = d.el /\ RedoEvent(d.el) = Last(u.undo).id
    BY <1>3, RedoMoveOK
  <2>2. Redo(d) = CheckForVirginity([u EXCEPT !.el = MoveRedo(@)])
    <3>1. RedoEvent(u.el) = Last(u.undo).id
      BY <2>1
    <3> QED BY <1>3, <3>1 DEF Redo
  <2> HIDE DEF u
  <2>3. [u EXCEPT !.el = MoveRedo(@)] = Moved(u, MoveRedo(d.el))
    BY <2>1 DEF Moved
  <2> QED BY <1>3, <2>2, <2>3 DEF u
<1> QED BY <1>2, <1>3

LEMMA UndoOK ==
  ASSUME NEW d, DocOK(d)
  PROVE  DocOK(Undo(d))
<1>1. CASE d.undo = << >>
  BY <1>1, UndoIs, FinishedOK
<1>2. CASE d.undo # << >>
  BY <1>2, UndoIs, UndoMoveOK, VirginityOK
<1> QED BY <1>1, <1>2

LEMMA RedoOK ==
  ASSUME NEW d, DocOK(d)
  PROVE  DocOK(Redo(d))
<1>1. CASE d.redo = << >>
  BY <1>1, RedoIs, FinishedOK
<1>2. CASE d.redo # << >>
  BY <1>2, RedoIs, RedoMoveOK, VirginityOK
<1> QED BY <1>1, <1>2

LEMMA CancelOK ==
  ASSUME NEW d, DocOK(d), d.born < MaxCommits, UndoSize > 1
  PROVE  DocOK(Cancel(d))
<1> DEFINE c == MaybeDone(d, NoKey, FALSE, "", TRUE)
<1>1. DocOK(c)
  <2>1. "" \in EventIcons
    BY Zenon DEF EventIcons
  <2> QED BY <2>1, MaybeDoneOK
<1>2. DocOK(ClearRedo(Undo(c)))
  BY <1>1, UndoOK, ClearRedoOK
<1>3. Cancel(d) = c \/ Cancel(d) = ClearRedo(Undo(c))
  BY Zenon DEF Cancel
<1> QED BY <1>1, <1>2, <1>3

LEMMA SavedOK ==
  ASSUME NEW d, DocOK(d), NEW official \in BOOLEAN
  PROVE  DocOK(Saved(d, official))
<1> DEFINE m == Saved(d, official)
           el == [d.el EXCEPT !.saved = d.el.curr]
           c == Len(d.undo) + 1
<1>1. d \in Docs(Logs) /\ Mirrors(d)
  BY DEF DocOK
<1>2. /\ m \in Docs({m.el}) /\ m.el = el
      /\ m.undo = d.undo /\ m.redo = d.redo /\ m.born = d.born
  <2>1. d \in Docs(Logs)
    BY <1>1
  <2>2. m \in Docs({m.el}) /\ m.el = [d.el EXCEPT !.saved = d.el.curr]
    BY <2>1, SavedIs
  <2>3. m.undo = d.undo /\ m.redo = d.redo /\ m.born = d.born
    BY <2>1, SavedIs
  <2> QED BY <2>2, <2>3
<1> HIDE DEF m
<1>3. LogOK(d.el, c) /\ d.el \in Logs /\ d.born \in Nat /\ Len(d.undo) \in Nat
  BY <1>1, DocTypes DEF Mirrors
<1>4. c \in 1..Len(d.el.rows) /\ d.el.curr = d.el.rows[c].node
  BY <1>3 DEF LogOK, CursorOK
<1>5. d.el.curr \in Nat /\ d.el.curr \in NodesOf(d.el)
  BY <1>3, <1>4, RowType, NodesAre DEF LogOK
<1>6. d.el.curr \in 0..d.born
  <2>1. d.el.curr < d.born + 1
    BY <1>1, <1>5 DEF Mirrors, Above
  <2> QED BY <1>3, <1>5, <2>1
<1>7. /\ el \in Logs /\ el.rows = d.el.rows /\ el.curr = d.el.curr /\ el.last = d.el.last
      /\ el.parent = d.el.parent /\ el.saved = d.el.curr
  BY <1>3, <1>5 DEF Logs
<1> HIDE DEF el, c
<1>8. LogOK(el, c)
  <2>1. TreeOK(el)
    BY <1>3, <1>7 DEF LogOK, TreeOK
  <2>2. ParentOf(el, c) = ParentOf(d.el, c)
    BY <1>7 DEF ParentOf
  <2>3. CursorOK(el, c)
    BY <1>3, <1>7, <2>2 DEF LogOK, CursorOK
  <2> QED BY <2>1, <2>3 DEF LogOK
<1>9. Above(el, d.born + 1)
  BY <1>1, <1>7 DEF Mirrors, Above, NodesOf
<1>10. m \in Docs(Logs)
  BY <1>2, <1>7, DocRetype
<1>11. Mirrors(m)
  <2>1. LogOK(m.el, Len(m.undo) + 1)
    BY <1>2, <1>8 DEF c
  <2>2. Above(m.el, m.born + 1) /\ m.el.saved \in 0..m.born
    BY <1>2, <1>6, <1>7, <1>9
  <2>3. m.el.rows = d.el.rows
    BY <1>2, <1>7
  <2> QED BY <1>1, <1>2, <2>1, <2>2, <2>3 DEF Mirrors
<1> QED BY <1>10, <1>11 DEF DocOK, m

\* The strengthening of TypeOK and LogMirrorsStacks that each step preserves.
HistoryInv ==
  /\ DocOK(doc)
  /\ filed \in Seq(Edits) /\ blurred \in BOOLEAN /\ mended \in BOOLEAN
  /\ edits \in 0..MaxEdits /\ saves \in 0..MaxSaves
  /\ target # Null => target \in NodesOf(doc.el) /\ target # doc.el.curr

LEMMA HistoryInit == Init => HistoryInv
<1> SUFFICES ASSUME Init PROVE HistoryInv
  OBVIOUS
<1> DEFINE row == Row(0, Null, "document-new", FALSE)
           el == InitLog(0)
           r == <<row>>
<1>1. /\ doc = InitDoc /\ edits = 0 /\ saves = 0 /\ target = Null /\ filed = << >>
      /\ blurred = FALSE /\ mended = FALSE
  BY DEF Init
<1>2. /\ row \in Rows /\ row.node = 0 /\ ~row.child /\ row.icon = "document-new"
      /\ row.event = Null
  BY Zenon DEF Row, Rows
<1>3. el = [rows |-> r, curr |-> 0, last |-> 0, parent |-> Null, saved |-> 0]
  BY DEF InitLog
<1> HIDE DEF row, el
<1>4. r \in Seq(Rows) /\ Len(r) = 1 /\ r[1] = row
  BY <1>2
<1> HIDE DEF r
<1>5. /\ el \in Logs /\ el.rows = r /\ el.curr = 0 /\ el.last = 0 /\ el.parent = Null
      /\ el.saved = 0
  BY <1>3, <1>4 DEF Logs
<1>6. LogOK(el, 1)
  <2>1. el.rows[1] = row /\ Len(el.rows) = 1 /\ \A i \in 1..1 : i = 1
    BY <1>4, <1>5
  <2>2. TreeOK(el)
    <3>1. \A i, j \in 1..Len(el.rows) : el.rows[i].node = el.rows[j].node => i = j
      BY <2>1
    <3>2. Len(el.rows) \in Nat \ {0} /\ ~(2 <= Len(el.rows))
      BY <2>1
    <3>3. ~el.rows[1].child /\ el.rows[1].icon = "document-new"
      BY <1>2, <2>1
    <3> QED BY <1>5, <3>1, <3>2, <3>3 DEF TreeOK
  <2>3. CursorOK(el, 1)
    <3>1. 1 \in 1..Len(el.rows) /\ el.curr = el.rows[1].node /\ el.last = el.rows[Len(el.rows)].node
      BY <1>2, <1>5, <2>1
    <3>2. el.parent = IF el.rows[1].child THEN ParentOf(el, 1) ELSE Null
      BY <1>2, <1>5, <2>1
    <3> QED BY <3>1, <3>2 DEF CursorOK
  <2> QED BY <2>2, <2>3 DEF LogOK
<1>7. /\ doc.content = << >> /\ doc.log = << >> /\ doc.partial = << >> /\ doc.undo = << >>
      /\ doc.redo = << >> /\ doc.actionkey = NoKey /\ doc.sensitive = TRUE
      /\ doc.modified = FALSE /\ doc.born = 0 /\ doc.el = el
  BY <1>1 DEF InitDoc, el
<1>8. doc = [content |-> << >>, log |-> << >>, partial |-> << >>, undo |-> << >>,
             redo |-> << >>, actionkey |-> NoKey, sensitive |-> TRUE,
             modified |-> FALSE, born |-> 0, el |-> el]
  BY <1>1 DEF InitDoc, el
<1>9. doc \in Docs(Logs)
  <2>1. << >> \in Seq(Edits) /\ << >> \in Seq(Events) /\ 0 \in 0..MaxCommits
    BY BoundsAssumption
  <2>2. NoKey \in Keys \cup {NoKey}
    OBVIOUS
  <2> QED BY <1>5, <1>8, <2>1, <2>2 DEF Docs
<1>10. Mirrors(doc)
  <2>1. Len(doc.undo) = 0 /\ Len(doc.redo) = 0
    BY <1>7
  <2>2. LogOK(doc.el, Len(doc.undo) + 1) /\ Len(doc.el.rows) = Len(doc.undo) + 1 + Len(doc.redo)
    BY <1>4, <1>5, <1>6, <1>7, <2>1
  <2>3. (\A i \in 1..Len(doc.undo) : FALSE) /\ (\A i \in 1..Len(doc.redo) : FALSE)
    BY <2>1
  <2>4. Above(doc.el, doc.born + 1)
    <3> SUFFICES ASSUME NEW x \in NodesOf(el) PROVE x < 0 + 1
      BY <1>7 DEF Above
    <3>1. PICK i \in 1..Len(r) : x = r[i].node
      BY <1>5, <1>6, NodesAre DEF LogOK
    <3>2. i = 1
      BY <1>4, <3>1
    <3> QED BY <1>2, <1>4, <3>1, <3>2
  <2>5. doc.el.saved \in 0..doc.born
    BY <1>5, <1>7
  <2> QED BY <2>2, <2>3, <2>4, <2>5 DEF Mirrors
<1>11. << >> \in Seq(Edits) /\ 0 \in 0..MaxEdits /\ 0 \in 0..MaxSaves
  BY BoundsAssumption
<1> QED BY <1>1, <1>9, <1>10, <1>11 DEF HistoryInv, DocOK

LEMMA SeekStepOK ==
  ASSUME HistoryInv, SeekStep
  PROVE  /\ DocOK(doc') /\ doc'.el.rows = doc.el.rows /\ doc'.el.saved = doc.el.saved
         /\ target' # Null => target' = target /\ target' # doc'.el.curr
         /\ \E t, el : /\ \/ /\ doc.undo # << >> /\ t = UndoTop(doc) /\ el = MoveUndo(doc.el)
                          \/ /\ doc.redo # << >> /\ t = RedoTop(doc) /\ el = MoveRedo(doc.el)
                       /\ DocOK(Moved(t, el))
                       /\ doc' = Moved(t, el) \/ doc' = CheckForVirginity(Moved(t, el))
<1> DEFINE up == At(doc.el, target) < At(doc.el, doc.el.curr)
           d == IF up THEN UndoTop(doc) ELSE RedoTop(doc)
           moved == [d EXCEPT !.el = IF up THEN MoveUndo(@) ELSE MoveRedo(@)]
           l == Len(doc.undo)
           k == Len(doc.redo)
           n == Len(doc.el.rows)
<1>1. /\ DocOK(doc) /\ target \in NodesOf(doc.el) /\ target # doc.el.curr
  BY DEF HistoryInv, SeekStep
<1>2. /\ target # Null
      /\ IF moved.el.curr = target
         THEN doc' = CheckForVirginity(moved) /\ target' = Null
         ELSE doc' = moved /\ target' = target
  BY Zenon DEF SeekStep
<1>3. /\ doc \in Docs(Logs) /\ LogOK(doc.el, l + 1) /\ n = l + 1 + k
  BY <1>1 DEF DocOK, Mirrors
<1>4. l \in Nat /\ k \in Nat /\ doc.undo \in Seq(Events) /\ doc.redo \in Seq(Events)
  BY <1>3, DocTypes
<1>5. l + 1 \in 1..n /\ doc.el.curr = doc.el.rows[l + 1].node
  BY <1>3 DEF LogOK, CursorOK
<1>6. PICK i \in 1..n : target = doc.el.rows[i].node
  BY <1>1, <1>3, NodesAre DEF LogOK
<1>7. At(doc.el, target) = i /\ At(doc.el, doc.el.curr) = l + 1
  BY <1>3, <1>5, <1>6, AtIs DEF LogOK
<1>8. i # l + 1
  BY <1>1, <1>5, <1>6
<1> HIDE DEF l, k, n
<1>9. \E t, el : /\ \/ /\ doc.undo # << >> /\ t = UndoTop(doc) /\ el = MoveUndo(doc.el)
                    \/ /\ doc.redo # << >> /\ t = RedoTop(doc) /\ el = MoveRedo(doc.el)
                 /\ moved = Moved(t, el) /\ DocOK(Moved(t, el)) /\ t \in Docs({doc.el})
                 /\ el.rows = doc.el.rows /\ el.saved = doc.el.saved
  <2>1. CASE i < l + 1
    <3>1. l > 0
      BY <1>4, <1>6, <2>1
    <3>2. doc.undo # << >>
      BY <3>1 DEF l
    <3>3. up
      BY <1>7, <2>1
    <3>4. /\ DocOK(Moved(UndoTop(doc), MoveUndo(doc.el))) /\ UndoTop(doc).el = doc.el
          /\ MoveUndo(doc.el).rows = doc.el.rows /\ MoveUndo(doc.el).saved = doc.el.saved
      BY <1>1, <3>2, UndoMoveOK
    <3>5. UndoTop(doc) \in Docs({doc.el})
      BY <1>3, <3>2, UndoTopIs
    <3>6. moved = [UndoTop(doc) EXCEPT !.el = MoveUndo(@)]
      BY <3>3
    <3> HIDE DEF moved
    <3>7. moved = Moved(UndoTop(doc), MoveUndo(doc.el))
      BY <3>4, <3>6 DEF Moved
    <3> QED BY <3>2, <3>4, <3>5, <3>7
  <2>2. CASE ~(i < l + 1)
    <3>1. k > 0
      BY <1>3, <1>4, <1>6, <1>8, <2>2
    <3>2. doc.redo # << >>
      BY <3>1 DEF k
    <3>3. ~up
      BY <1>7, <2>2
    <3>4. /\ DocOK(Moved(RedoTop(doc), MoveRedo(doc.el))) /\ RedoTop(doc).el = doc.el
          /\ MoveRedo(doc.el).rows = doc.el.rows /\ MoveRedo(doc.el).saved = doc.el.saved
      BY <1>1, <3>2, RedoMoveOK
    <3>5. RedoTop(doc) \in Docs({doc.el})
      BY <1>3, <3>2, RedoTopIs
    <3>6. moved = [RedoTop(doc) EXCEPT !.el = MoveRedo(@)]
      BY <3>3
    <3> HIDE DEF moved
    <3>7. moved = Moved(RedoTop(doc), MoveRedo(doc.el))
      BY <3>4, <3>6 DEF Moved
    <3> QED BY <3>2, <3>4, <3>5, <3>7
  <2> QED BY <2>1, <2>2
<1> HIDE DEF moved
<1>10. PICK t, el : /\ \/ /\ doc.undo # << >> /\ t = UndoTop(doc) /\ el = MoveUndo(doc.el)
                       \/ /\ doc.redo # << >> /\ t = RedoTop(doc) /\ el = MoveRedo(doc.el)
                    /\ moved = Moved(t, el) /\ DocOK(Moved(t, el)) /\ t \in Docs({doc.el})
                    /\ el.rows = doc.el.rows /\ el.saved = doc.el.saved
  BY <1>9
<1>11. moved.el = el /\ DocOK(moved)
  <2>1. t \in Docs({doc.el})
    BY <1>10
  <2>2. Moved(t, el).el = el
    BY <2>1 DEF Moved, Docs
  <2> QED BY <1>10, <2>2
<1>12. DocOK(CheckForVirginity(moved)) /\ CheckForVirginity(moved).el = moved.el
  BY <1>11, VirginityOK
<1>13. /\ DocOK(doc') /\ doc'.el = el
       /\ doc' = Moved(t, el) \/ doc' = CheckForVirginity(Moved(t, el))
  BY <1>2, <1>10, <1>11, <1>12
<1>14. target' # Null => target' = target /\ target' # doc'.el.curr
  BY <1>2, <1>11, <1>13
<1>15. doc'.el.rows = doc.el.rows /\ doc'.el.saved = doc.el.saved
  BY <1>10, <1>13
<1> QED BY <1>10, <1>13, <1>14, <1>15

LEMMA HistoryStep ==
  ASSUME HistoryInv, [Next]_vars, UndoSize > 1
  PROVE  HistoryInv'
<1> DEFINE Rest == /\ filed \in Seq(Edits) /\ blurred \in BOOLEAN /\ mended \in BOOLEAN
                   /\ edits \in 0..MaxEdits /\ saves \in 0..MaxSaves
<1>1. DocOK(doc) /\ Rest /\ doc \in Docs(Logs)
  BY DEF HistoryInv, DocOK
<1>2. DocOK(doc') /\ Rest' /\ target' = Null => HistoryInv'
  BY DEF HistoryInv
<1>3. CASE Edit
  <2> DEFINE e == edits'
  <2>1. /\ target' = Null /\ edits < MaxEdits /\ e = edits + 1
        /\ doc' = [doc EXCEPT !.content = Append(@, e), !.log = Append(@, e)]
        /\ UNCHANGED <<saves, filed, blurred, mended>>
    BY <1>3 DEF Edit
  <2>2. e \in 1..MaxEdits /\ edits' \in 0..MaxEdits
    BY <1>1, <2>1, BoundsAssumption
  <2>3. Append(doc.content, e) \in Seq(Edits) /\ Append(doc.log, e) \in Seq(Edits)
    <3>1. e \in Edits /\ doc.content \in Seq(Edits) /\ doc.log \in Seq(Edits)
      BY <1>1, <2>2, DocTypes DEF Edits
    <3> QED BY <3>1, AppendProperties
  <2> HIDE DEF e
  <2>4. doc' \in Docs({doc.el})
    BY <1>1, <2>1, <2>3 DEF Docs
  <2>5. /\ doc'.el = doc.el /\ doc'.born = doc.born /\ doc'.undo = doc.undo
        /\ doc'.redo = doc.redo
    BY <1>1, <2>1 DEF Docs
  <2>6. Alike(doc'.undo, doc.undo) /\ Alike(doc'.redo, doc.redo)
    BY <2>5 DEF Alike
  <2>7. DocOK(doc')
    BY <1>1, <2>4, <2>5, <2>6, MirrorsFrame
  <2> QED BY <1>1, <1>2, <2>1, <2>2, <2>7
<1>4. CASE CancelDone
  <2>1. /\ target' = Null /\ doc.born < MaxCommits /\ doc' = Cancel(doc)
        /\ blurred' \in BOOLEAN /\ UNCHANGED <<edits, saves, filed, mended>>
    BY <1>4 DEF CancelDone
  <2>2. DocOK(doc')
    BY <1>1, <2>1, CancelOK
  <2> QED BY <1>1, <1>2, <2>1, <2>2
<1>5. CASE UndoLast
  <2>1. /\ target' = Null /\ doc' = Undo(doc)
        /\ mended' \in BOOLEAN /\ UNCHANGED <<edits, saves, filed, blurred>>
    BY <1>5 DEF UndoLast, Mends
  <2>2. DocOK(doc')
    BY <1>1, <2>1, UndoOK
  <2> QED BY <1>1, <1>2, <2>1, <2>2
<1>6. CASE RedoLast
  <2>1. /\ target' = Null /\ doc' = Redo(doc)
        /\ mended' \in BOOLEAN /\ UNCHANGED <<edits, saves, filed, blurred>>
    BY <1>6 DEF RedoLast, Mends
  <2>2. DocOK(doc')
    BY <1>1, <2>1, RedoOK
  <2> QED BY <1>1, <1>2, <2>1, <2>2
<1>7. CASE ResetKey
  <2>1. /\ target' = Null /\ doc' = [doc EXCEPT !.actionkey = NoKey]
        /\ UNCHANGED <<edits, saves, filed, blurred, mended>>
    BY <1>7 DEF ResetKey
  <2>2. NoKey \in Keys \cup {NoKey}
    OBVIOUS
  <2>3. doc' \in Docs({doc.el})
    BY <1>1, <2>1, <2>2 DEF Docs
  <2>4. /\ doc'.el = doc.el /\ doc'.born = doc.born /\ doc'.undo = doc.undo
        /\ doc'.redo = doc.redo
    BY <1>1, <2>1 DEF Docs
  <2>5. Alike(doc'.undo, doc.undo) /\ Alike(doc'.redo, doc.redo)
    BY <2>4 DEF Alike
  <2>6. DocOK(doc')
    BY <1>1, <2>3, <2>4, <2>5, MirrorsFrame
  <2> QED BY <1>1, <1>2, <2>1, <2>6
<1>8. CASE ToggleSensitive
  <2>1. /\ target' = Null /\ doc' = SetUndoSensitive(doc, ~doc.sensitive)
        /\ UNCHANGED <<edits, saves, filed, blurred, mended>>
    BY <1>8 DEF ToggleSensitive
  <2>2. (~doc.sensitive) \in BOOLEAN
    OBVIOUS
  <2>3. DocOK(doc')
    BY <1>1, <2>1, <2>2, SensitiveOK
  <2> QED BY <1>1, <1>2, <2>1, <2>3
<1>9. CASE SeekStep
  <2>1. /\ DocOK(doc') /\ doc'.el.rows = doc.el.rows
        /\ target' # Null => target' = target /\ target' # doc'.el.curr
    BY <1>9, SeekStepOK
  <2>2. mended' \in BOOLEAN /\ UNCHANGED <<edits, saves, filed, blurred>> /\ target # Null
    BY <1>9 DEF SeekStep, Mends
  <2>3. target \in NodesOf(doc'.el)
    <3>1. target \in NodesOf(doc.el)
      BY <2>2 DEF HistoryInv
    <3> QED BY <2>1, <3>1 DEF NodesOf
  <2> QED BY <1>1, <2>1, <2>2, <2>3 DEF HistoryInv
<1>10. CASE \E key \in Keys \cup {NoKey}, expired \in BOOLEAN, icon \in Icons :
              Done(key, expired, icon)
  <2>1. PICK key \in Keys \cup {NoKey}, expired \in BOOLEAN, icon \in Icons :
              Done(key, expired, icon)
    BY <1>10
  <2>2. /\ target' = Null /\ doc.born < MaxCommits
        /\ doc' = MaybeDone(doc, key, expired, icon, FALSE)
        /\ blurred' \in BOOLEAN /\ UNCHANGED <<edits, saves, filed, mended>>
    BY <2>1 DEF Done
  <2>3. icon \in EventIcons
    BY Zenon DEF EventIcons
  <2>4. DocOK(doc')
    BY <1>1, <2>2, <2>3, MaybeDoneOK
  <2> QED BY <1>1, <1>2, <2>2, <2>4
<1>11. CASE \E kind \in SaveKinds : Save(kind)
  <2>1. PICK kind \in SaveKinds : Save(kind)
    BY <1>11
  <2>2. /\ target' = Null /\ saves < MaxSaves /\ saves' = saves + 1
        /\ doc' = Saved(doc, kind = "official")
        /\ filed' = doc.content \/ filed' = filed
        /\ UNCHANGED <<edits, mended>>
    BY <2>1 DEF Save
  <2>3. blurred' \in BOOLEAN
    BY <1>1, <2>1 DEF Save
  <2>4. saves' \in 0..MaxSaves
    BY <1>1, <2>2, BoundsAssumption
  <2>5. filed' \in Seq(Edits)
    BY <1>1, <2>2, DocTypes
  <2>6. DocOK(doc')
    <3> DEFINE b == kind = "official"
    <3>1. b \in BOOLEAN
      OBVIOUS
    <3> HIDE DEF b
    <3>2. DocOK(Saved(doc, b))
      BY <1>1, <3>1, SavedOK
    <3> QED BY <2>2, <3>2 DEF b
  <2> QED BY <1>1, <1>2, <2>2, <2>3, <2>4, <2>5, <2>6
<1>12. CASE \E node \in NodesOf(doc.el) : Seek(node)
  <2>1. PICK node \in NodesOf(doc.el) : Seek(node)
    BY <1>12
  <2>2. /\ node # doc.el.curr /\ target' = node
        /\ UNCHANGED <<doc, edits, saves, filed, blurred, mended>>
    BY <2>1 DEF Seek
  <2> QED BY <1>1, <2>2 DEF HistoryInv
<1>13. CASE UNCHANGED vars
  BY <1>13 DEF HistoryInv, vars
<1> QED BY <1>3, <1>4, <1>5, <1>6, <1>7, <1>8, <1>9, <1>10, <1>11, <1>12, <1>13 DEF Next

\* The rows, the iterators and the stacks are consistent in every state.
THEOREM HistoryHolds == ASSUME UndoSize > 1 PROVE Spec => []HistoryInv
<1>1. HistoryInv /\ [Next]_vars => HistoryInv'
  BY HistoryStep
<1> QED BY <1>1, HistoryInit, PTL DEF Spec

LEMMA HistoryTypes == HistoryInv => TypeOK
<1> SUFFICES ASSUME HistoryInv PROVE TypeOK
  OBVIOUS
<1>1. doc \in Docs(Logs) /\ Mirrors(doc)
  BY DEF HistoryInv, DocOK
<1>2. {doc.content, doc.log, doc.partial, filed} \subseteq Seq(Edits)
  BY <1>1, DocTypes DEF HistoryInv
<1>3. {doc.undo, doc.redo} \subseteq Seq(Events)
  BY <1>1, DocTypes
<1>4. doc.actionkey \in Keys \cup {NoKey} /\ doc.born \in 0..MaxCommits
  BY <1>1 DEF Docs
<1>5. {doc.sensitive, doc.modified, blurred, mended} \subseteq BOOLEAN
  BY <1>1, DocTypes DEF HistoryInv
<1> DEFINE c == Len(doc.undo) + 1
           el == doc.el
<1>6. LogOK(el, c)
  BY <1>1 DEF Mirrors
<1>7. /\ c \in 1..Len(el.rows) /\ el.curr = el.rows[c].node /\ Len(el.rows) \in 1..Len(el.rows)
      /\ el.parent = (IF el.rows[c].child THEN ParentOf(el, c) ELSE Null)
      /\ el.last = End \/ el.last = el.rows[Len(el.rows)].node
  BY <1>6 DEF LogOK, TreeOK, CursorOK
<1>8. el.curr \in NodesOf(el) /\ el.last \in NodesOf(el) \cup {End}
  BY <1>6, <1>7, NodesAre DEF LogOK
<1>9. el.parent \in NodesOf(el) \cup {Null}
  <2>1. PICK j \in 1..c : IsParent(el, c, j)
    BY <1>6, <1>7, ParentExists DEF LogOK
  <2>2. c \in Nat /\ j \in 1..Len(el.rows)
    BY <1>6, <1>7 DEF LogOK, TreeOK
  <2>3. ParentOf(el, c) = el.rows[j].node
    BY <2>1, <2>2, ParentIs
  <2>4. ParentOf(el, c) \in NodesOf(el)
    BY <1>6, <2>2, <2>3, NodesAre DEF LogOK
  <2> QED BY <1>7, <2>4
<1>10. el.saved \in Nodes
  <2>1. el.saved \in 0..doc.born /\ doc.born \in 0..MaxCommits
    BY <1>1, <1>4 DEF Mirrors
  <2> QED BY <2>1, BoundsAssumption DEF Nodes
<1>11. /\ target \in NodesOf(el) \cup {Null} /\ edits \in 0..MaxEdits /\ saves \in 0..MaxSaves
  BY DEF HistoryInv
<1> QED BY <1>2, <1>3, <1>4, <1>5, <1>8, <1>9, <1>10, <1>11 DEF TypeOK

LEMMA HistoryMirrors == HistoryInv => LogMirrorsStacks
<1> SUFFICES ASSUME HistoryInv PROVE LogMirrorsStacks
  OBVIOUS
<1> DEFINE l == Len(doc.undo)
           k == Len(doc.redo)
           el == doc.el
           c == At(el, el.curr)
           n == Len(el.rows)
<1>1. doc \in Docs(Logs) /\ Mirrors(doc)
  BY DEF HistoryInv, DocOK
<1>2. /\ LogOK(el, l + 1) /\ n = l + 1 + k
      /\ \A i \in 1..l : el.rows[i + 1].event = doc.undo[i].id
      /\ \A i \in 1..k : el.rows[n + 1 - i].event = doc.redo[i].id
  BY <1>1 DEF Mirrors
<1>3. l \in Nat /\ k \in Nat /\ DOMAIN doc.undo = 1..l /\ DOMAIN doc.redo = 1..k
  BY <1>1, DocTypes
<1>4. c = l + 1
  <2>1. l + 1 \in 1..n /\ el.curr = el.rows[l + 1].node
    BY <1>2 DEF LogOK, CursorOK
  <2> QED BY <1>2, <2>1, AtIs DEF LogOK
<1>5. el.parent = IF el.rows[c].child THEN ParentOf(el, c) ELSE Null
  BY <1>2, <1>4 DEF LogOK, CursorOK
<1> HIDE DEF l, k, n, c, el
<1>6. l = c - 1 /\ k = n - c
  BY <1>2, <1>3, <1>4
<1>7. \A i \in 1..k : el.rows[n + 1 - i].event = doc.redo[i].id
  BY <1>2
<1> QED BY <1>2, <1>3, <1>5, <1>6, <1>7 DEF LogMirrorsStacks, l, k, n, c, el

\* The document, its two stacks and the iterators into the history are of the
\* types that DocumentUndo and EventLog give them; in particular the current
\* row, its parent and the row that seekTo() looks for exist whenever the code
\* dereferences them.
THEOREM TypesAreKept == ASSUME UndoSize > 1 PROVE Spec => []TypeOK
<1>1. HistoryInv => TypeOK
  BY HistoryTypes
<1> QED BY <1>1, HistoryHolds, PTL

\* The history shows the stacks: after commits, merges, expiry, clearing,
\* undo, redo, cancel and seeking in any order, the rows up to the current one
\* are the events that can be undone, those below it the events that can be
\* redone, and the branch of the current row is known.
THEOREM HistoryShowsStacks == ASSUME UndoSize > 1 PROVE Spec => []LogMirrorsStacks
<1>1. HistoryInv => LogMirrorsStacks
  BY HistoryMirrors
<1> QED BY <1>1, HistoryHolds, PTL

-----------------------------------------------------------------------------
(* The edits of a stack.                                                   *)

LEMMA EditsConcat ==
  /\ \A s, t \in Seq(Edits) : s \o t \in Seq(Edits)
  /\ \A s \in Seq(Edits) : s \o << >> = s /\ << >> \o s = s
  /\ \A s, t, u \in Seq(Edits) : (s \o t) \o u = s \o (t \o u)
BY ConcatProperties, ConcatEmptySeq, ConcatAssociative

\* Induction on sequences that grow at their end.
LEMMA SeqInduct ==
  ASSUME NEW S, NEW T, << >> \in T, \A s \in Seq(S), e \in S : s \in T => Append(s, e) \in T
  PROVE  Seq(S) \subseteq T
<1> SUFFICES ASSUME NEW s \in Seq(S) PROVE s \in T
  OBVIOUS
<1> DEFINE n == Len(s)
           P(k) == SubSeq(s, 1, k) \in T
           U == {k \in 0..n : P(k)}
<1>1. n \in Nat /\ \A k \in 1..n : s[k] \in S
  OBVIOUS
<1>2. 0 \in U
  <2>1. SubSeq(s, 1, 0) = << >>
    BY SubSeqEmpty
  <2>2. P(0)
    BY <2>1
  <2> HIDE DEF P
  <2> QED BY <1>1, <2>2
<1>3. ASSUME NEW k \in 1..n, k - 1 \in U PROVE k \in U
  <2> DEFINE u == SubSeq(s, 1, k - 1)
  <2>1. k - 1 \in 0..n /\ u \in T
    BY <1>3
  <2>2. u \in Seq(S)
    <3>1. \A i \in 1..(k - 1) : s[i] \in S
      BY <1>1
    <3>2. 1 \in Int /\ k - 1 \in Int
      BY <1>1
    <3> QED BY <3>1, <3>2, SubSeqProperties
  <2>3. SubSeq(s, 1, k) = u \o <<s[k]>>
    <3>1. 1 \in 1..Len(s) /\ k \in 1..Len(s)
      BY <1>1
    <3> QED BY <3>1, SubSeqRecursiveSecond
  <2> HIDE DEF u
  <2>4. SubSeq(s, 1, k) = Append(u, s[k])
    BY <1>1, <2>2, <2>3, AppendIsConcat
  <2>5. Append(u, s[k]) \in T
    BY <1>1, <2>1, <2>2
  <2>6. P(k)
    BY <2>4, <2>5
  <2> HIDE DEF P
  <2> QED BY <1>1, <2>6
<1> HIDE DEF U, P, n
<1>4. n \in U
  <2>1. \A k \in 0..n : k \in U
    BY <1>1, <1>2, <1>3, Induct
  <2> QED BY <1>1, <2>1
<1>5. SubSeq(s, 1, n) = s
  BY SubSeqFull DEF n
<1> QED BY <1>4, <1>5 DEF U, P

LEMMA EditsOfIs ==
  ASSUME NEW s \in Seq(Events)
  PROVE  \E f \in [0..Len(s) -> Seq(Edits)] :
           /\ f[0] = << >> /\ EditsOf(s) = f[Len(s)]
           /\ \A k \in 1..Len(s) : f[k] = f[k - 1] \o s[k].edits
<1> DEFINE n == Len(s)
           V == Seq(Edits)
           g == [x \in V \X (1..n) |-> x[1] \o s[x[2]].edits]
           body(f) == [k \in 0..n |-> IF k = 0 THEN << >> ELSE f[k - 1] \o s[k].edits]
<1>1. n \in Nat /\ << >> \in V /\ \A k \in 1..n : s[k].edits \in V
  <2>1. n \in Nat /\ \A k \in 1..n : s[k] \in Events
    OBVIOUS
  <2> QED BY <2>1 DEF Events
<1>2. \A v \in V, k \in 1..n : v \o s[k].edits \in V
  BY <1>1, ConcatProperties
<1>3. g \in [V \X (1..n) -> V] /\ \A v \in V, k \in 1..n : g[<<v, k>>] = v \o s[k].edits
  <2> HIDE DEF V, n
  <2> QED BY <1>2
<1> HIDE DEF g, n, V
<1>4. PICK h : h \in [0..n -> V] /\ h[0] = << >> /\ \A k \in 1..n : h[k] = g[<<h[k - 1], k>>]
  <2>1. n \in Nat /\ << >> \in V /\ g \in [V \X (1..n) -> V]
    BY <1>1, <1>3
  <2>2. \E h : Recursive(h, n, V, << >>, g)
    BY <2>1, Recursion
  <2> QED BY <2>2 DEF Recursive
<1>5. \A k \in 1..n : h[k] = h[k - 1] \o s[k].edits
  <2> TAKE k \in 1..n
  <2>1. k - 1 \in 0..n
    BY <1>1
  <2> QED BY <1>3, <1>4, <2>1
<1>6. h = body(h)
  <2>1. \A k \in 0..n : k = 0 \/ k \in 1..n
    BY <1>1
  <2> QED BY <1>4, <1>5, <2>1
<1> DEFINE f == CHOOSE x : x = body(x)
<1>7. f = body(f)
  <2> HIDE DEF body
  <2> QED BY <1>6
<1>8. EditsOf(s) = f[n]
  BY DEF EditsOf, n
<1> HIDE DEF f
<1>9. f[0] = << >> /\ \A k \in 1..n : f[k] = f[k - 1] \o s[k].edits
  <2>1. 0 \in 0..n /\ \A k \in 1..n : k \in 0..n /\ k # 0
    BY <1>1
  <2> QED BY <1>7, <2>1
<1>10. f \in [0..n -> V]
  <2> DEFINE T == {k \in 0..n : f[k] \in V}
  <2>1. 0 \in T
    BY <1>1, <1>9
  <2>2. ASSUME NEW k \in 1..n, k - 1 \in T PROVE k \in T
    <3>1. f[k - 1] \in V /\ k \in 0..n
      BY <1>1, <2>2
    <3> QED BY <1>2, <1>9, <3>1
  <2> HIDE DEF T
  <2>3. \A k \in 0..n : k \in T
    BY <1>1, <2>1, <2>2, Induct
  <2>4. \A k \in 0..n : f[k] \in V
    BY <2>3 DEF T
  <2>5. f = [k \in 0..n |-> f[k]]
    BY <1>7
  <2> QED BY <2>4, <2>5
<1> QED BY <1>8, <1>9, <1>10 DEF n, V

LEMMA EditsOfGrows ==
  /\ EditsOf(<< >>) = << >>
  /\ \A s \in Seq(Events) : EditsOf(s) \in Seq(Edits)
  /\ \A s \in Seq(Events), e \in Events : EditsOf(Append(s, e)) = EditsOf(s) \o e.edits
<1>1. EditsOf(<< >>) = << >>
  <2>1. << >> \in Seq(Events) /\ Len(<< >>) = 0
    OBVIOUS
  <2>2. PICK f \in [0..Len(<< >>) -> Seq(Edits)] : f[0] = << >> /\ EditsOf(<< >>) = f[Len(<< >>)]
    BY <2>1, EditsOfIs
  <2> QED BY <2>1, <2>2
<1>2. ASSUME NEW s \in Seq(Events) PROVE EditsOf(s) \in Seq(Edits)
  <2>1. PICK f \in [0..Len(s) -> Seq(Edits)] : EditsOf(s) = f[Len(s)]
    BY EditsOfIs
  <2>2. Len(s) \in 0..Len(s)
    OBVIOUS
  <2> QED BY <2>1, <2>2
<1>3. ASSUME NEW s \in Seq(Events), NEW e \in Events
      PROVE  EditsOf(Append(s, e)) = EditsOf(s) \o e.edits
  <2> DEFINE a == Append(s, e)
             n == Len(s)
  <2>1. /\ a \in Seq(Events) /\ Len(a) = n + 1 /\ n \in Nat
        /\ (\A i \in 1..n : a[i] = s[i]) /\ a[n + 1] = e
    BY AppendProperties
  <2>2. PICK f \in [0..n -> Seq(Edits)] :
           /\ f[0] = << >> /\ EditsOf(s) = f[n]
           /\ \A k \in 1..n : f[k] = f[k - 1] \o s[k].edits
    BY EditsOfIs
  <2>3. PICK g \in [0..Len(a) -> Seq(Edits)] :
           /\ g[0] = << >> /\ EditsOf(a) = g[Len(a)]
           /\ \A k \in 1..Len(a) : g[k] = g[k - 1] \o a[k].edits
    BY <2>1, EditsOfIs
  <2> HIDE DEF a, n
  <2> DEFINE T == {k \in 0..n : g[k] = f[k]}
  <2>4. 0 \in T
    BY <2>1, <2>2, <2>3
  <2>5. ASSUME NEW k \in 1..n, k - 1 \in T PROVE k \in T
    <3>1. k \in 1..Len(a) /\ k \in 0..n /\ g[k - 1] = f[k - 1] /\ a[k] = s[k]
      BY <2>1, <2>5
    <3> QED BY <2>2, <2>3, <3>1
  <2> HIDE DEF T
  <2>6. n \in T
    <3>1. \A k \in 0..n : k \in T
      BY <2>1, <2>4, <2>5, Induct
    <3> QED BY <2>1, <3>1
  <2>7. g[n] = f[n]
    BY <2>6 DEF T
  <2>8. n + 1 \in 1..Len(a) /\ n + 1 - 1 = n
    BY <2>1
  <2>9. g[n + 1] = g[n] \o e.edits
    <3>1. g[n + 1] = g[n + 1 - 1] \o a[n + 1].edits
      BY <2>3, <2>8
    <3> QED BY <2>1, <2>8, <3>1
  <2> QED BY <2>1, <2>2, <2>3, <2>7, <2>9 DEF a
<1> QED BY <1>1, <1>2, <1>3

LEMMA EditsOfConcat ==
  ASSUME NEW s \in Seq(Events), NEW t \in Seq(Events)
  PROVE  EditsOf(s \o t) = EditsOf(s) \o EditsOf(t)
<1> DEFINE T == {u \in Seq(Events) : EditsOf(s \o u) = EditsOf(s) \o EditsOf(u)}
<1>1. << >> \in T
  <2>1. s \o << >> = s
    BY ConcatEmptySeq
  <2>2. EditsOf(s) \o << >> = EditsOf(s)
    BY EditsOfGrows, ConcatEmptySeq
  <2> QED BY <2>1, <2>2, EditsOfGrows
<1>2. ASSUME NEW u \in Seq(Events), NEW e \in Events, u \in T PROVE Append(u, e) \in T
  <2>1. e.edits \in Seq(Edits)
    BY DEF Events
  <2>2. Append(u, e) \in Seq(Events)
    BY AppendProperties
  <2>3. s \o Append(u, e) = Append(s \o u, e)
    <3>1. s \o u \in Seq(Events) /\ <<e>> \in Seq(Events)
      BY ConcatProperties
    <3>2. Append(u, e) = u \o <<e>> /\ Append(s \o u, e) = (s \o u) \o <<e>>
      BY <3>1, AppendIsConcat
    <3> QED BY <3>1, <3>2, ConcatAssociative
  <2>4. EditsOf(s \o Append(u, e)) = (EditsOf(s) \o EditsOf(u)) \o e.edits
    <3>1. s \o u \in Seq(Events) /\ EditsOf(s \o u) = EditsOf(s) \o EditsOf(u)
      BY <1>2, ConcatProperties
    <3> QED BY <2>3, <3>1, EditsOfGrows
  <2>5. (EditsOf(s) \o EditsOf(u)) \o e.edits = EditsOf(s) \o (EditsOf(u) \o e.edits)
    <3>1. EditsOf(s) \in Seq(Edits) /\ EditsOf(u) \in Seq(Edits)
      BY EditsOfGrows
    <3> QED BY <2>1, <3>1, EditsConcat, Zenon
  <2>6. EditsOf(u) \o e.edits = EditsOf(Append(u, e))
    BY EditsOfGrows
  <2> QED BY <2>2, <2>4, <2>5, <2>6
<1> HIDE DEF T
<1>3. t \in T
  BY <1>1, <1>2, SeqInduct
<1> QED BY <1>3 DEF T

\* What is done to a stack: an event is added, edits are added to its last
\* event, events are taken from either end, it is read in reverse.
LEMMA EditsOfStacks ==
  ASSUME NEW s \in Seq(Events)
  PROVE  /\ EditsOf(s) \in Seq(Edits)
         /\ s # << >> => /\ EditsOf(s) = EditsOf(Front(s)) \o Last(s).edits
                         /\ \A q \in Seq(Edits) : EditsOf(AddedTo(s, q)) = EditsOf(s) \o q
         /\ \A n \in 0..Len(s) :
              EditsOf(s) = EditsOf(SubSeq(s, 1, n)) \o EditsOf(SubSeq(s, n + 1, Len(s)))
         /\ \A e \in Events : EditsOf(Reversed(Append(s, e))) = e.edits \o EditsOf(Reversed(s))
<1>1. EditsOf(s) \in Seq(Edits)
  BY EditsOfGrows
<1>2. ASSUME s # << >>
      PROVE  /\ EditsOf(s) = EditsOf(Front(s)) \o Last(s).edits
             /\ \A q \in Seq(Edits) : EditsOf(AddedTo(s, q)) = EditsOf(s) \o q
  <2> DEFINE f == Front(s)
             l == Last(s)
  <2>1. f \in Seq(Events) /\ l \in Events /\ s = Append(f, l)
    BY <1>2, LastFacts
  <2> HIDE DEF f, l
  <2>2. EditsOf(s) = EditsOf(f) \o l.edits
    BY <2>1, EditsOfGrows
  <2>3. ASSUME NEW q \in Seq(Edits) PROVE EditsOf(AddedTo(s, q)) = EditsOf(s) \o q
    <3> DEFINE x == [l EXCEPT !.edits = @ \o q]
    <3>1. l.edits \in Seq(Edits) /\ EditsOf(f) \in Seq(Edits)
      BY <2>1, EditsOfGrows DEF Events
    <3>2. l.edits \o q \in Seq(Edits)
      BY <3>1, ConcatProperties
    <3>3. x \in Events /\ x.edits = l.edits \o q
      BY <2>1, <3>2 DEF Events
    <3>4. AddedTo(s, q) = Append(f, x)
      BY DEF AddedTo, f, l
    <3> HIDE DEF x
    <3>5. EditsOf(Append(f, x)) = EditsOf(f) \o (l.edits \o q)
      BY <2>1, <3>3, EditsOfGrows, Zenon
    <3>6. EditsOf(f) \o (l.edits \o q) = (EditsOf(f) \o l.edits) \o q
      BY <3>1, EditsConcat, Zenon
    <3> QED BY <2>2, <3>4, <3>5, <3>6
  <2> QED BY <2>2, <2>3 DEF f, l
<1>3. ASSUME NEW n \in 0..Len(s)
      PROVE  EditsOf(s) = EditsOf(SubSeq(s, 1, n)) \o EditsOf(SubSeq(s, n + 1, Len(s)))
  <2> DEFINE a == SubSeq(s, 1, n)
             b == SubSeq(s, n + 1, Len(s))
  <2>1. Len(s) \in Nat /\ n \in Nat /\ \A i \in 1..Len(s) : s[i] \in Events
    OBVIOUS
  <2>2. a \in Seq(Events) /\ b \in Seq(Events)
    <3>1. \A i \in 1..n : s[i] \in Events
      BY <2>1
    <3>2. \A i \in (n + 1)..Len(s) : s[i] \in Events
      BY <2>1
    <3>3. 1 \in Int /\ n \in Int /\ n + 1 \in Int /\ Len(s) \in Int
      BY <2>1
    <3> QED BY <3>1, <3>2, <3>3, SubSeqProperties
  <2>3. a \o b = s
    <3>1. 1 \in 1..(Len(s) + 1) /\ n \in (1 - 1)..Len(s) /\ Len(s) \in n..Len(s)
      BY <2>1
    <3>2. a \o b = SubSeq(s, 1, Len(s))
      BY <3>1, ConcatAdjacentSubSeq
    <3> QED BY <3>2, SubSeqFull
  <2> HIDE DEF a, b
  <2> QED BY <2>2, <2>3, EditsOfConcat DEF a, b
<1>4. ASSUME NEW e \in Events
      PROVE  EditsOf(Reversed(Append(s, e))) = e.edits \o EditsOf(Reversed(s))
  <2>1. Reversed(Append(s, e)) = <<e>> \o Reversed(s) /\ Reversed(s) \in Seq(Events)
    BY ReversedFacts
  <2>2. <<e>> \in Seq(Events) /\ << >> \in Seq(Events) /\ <<e>> = Append(<< >>, e)
    OBVIOUS
  <2>3. EditsOf(<<e>>) = e.edits
    <3>1. e.edits \in Seq(Edits)
      BY DEF Events
    <3>2. EditsOf(<<e>>) = << >> \o e.edits
      BY <2>2, EditsOfGrows
    <3> QED BY <3>1, <3>2, ConcatEmptySeq
  <2> QED BY <2>1, <2>2, <2>3, EditsOfConcat
<1> QED BY <1>1, <1>2, <1>3, <1>4

\* Undoing takes out the last edits, if they are different from the others.
LEMMA WithoutFacts ==
  ASSUME NEW S, NEW s \in Seq(S), NEW t \in Seq(S), Range(s) \cap Range(t) = {}
  PROVE  Without(s \o t, t) = s
<1> DEFINE c == s \o t
           n == Len(s)
           m == Len(t)
           P(k) == SubSeq(s, 1, k)
<1>1. /\ c \in Seq(S) /\ DOMAIN c = 1..(n + m) /\ DOMAIN t = 1..m /\ n \in Nat /\ m \in Nat
      /\ \A i \in 1..n : c[i] = s[i]
      /\ \A i \in 1..m : c[n + i] = t[i]
  BY Parts
<1>2. Len(c) = n + m
  BY ConcatProperties
<1>3. \A k \in 1..n : s[k] \in S /\ \A i \in DOMAIN t : t[i] # s[k]
  <2> TAKE k \in 1..n
  <2>1. s[k] \in S /\ s[k] \in Range(s)
    BY Members
  <2>2. ASSUME NEW i \in DOMAIN t PROVE t[i] # s[k]
    <3>1. i \in 1..Len(t)
      BY <1>1
    <3>2. t[i] \in Range(t)
      BY <3>1, Members
    <3> QED BY <2>1, <3>2
  <2> QED BY <2>1, <2>2
<1>4. PICK f :
         /\ f \in [0..Len(c) -> Seq(S)] /\ f[0] = << >> /\ Without(c, t) = f[Len(c)]
         /\ \A k \in 1..Len(c) : f[k] = IF \E i \in DOMAIN t : t[i] = c[k] THEN f[k - 1]
                                        ELSE Append(f[k - 1], c[k])
  <2> HIDE DEF c
  <2>1. c \in Seq(S)
    BY <1>1
  <2>2. \E f : Filters(f, S, c, t)
    BY <2>1, WithoutIs
  <2> QED BY <2>2 DEF Filters
<1>5. P(0) = << >> /\ P(n) = s
  BY SubSeqEmpty, SubSeqFull
<1>6. \A k \in 1..n : P(k) = Append(P(k - 1), s[k])
  <2> TAKE k \in 1..n
  <2>1. P(k - 1) \in Seq(S)
    <3>1. \A i \in 1..(k - 1) : s[i] \in S
      BY <1>1, <1>3
    <3>2. 1 \in Int /\ k - 1 \in Int
      BY <1>1
    <3> QED BY <3>1, <3>2, SubSeqProperties
  <2>2. P(k) = P(k - 1) \o <<s[k]>>
    <3>1. 1 \in 1..Len(s) /\ k \in 1..Len(s)
      BY <1>1
    <3> QED BY <3>1, SubSeqRecursiveSecond
  <2> HIDE DEF P
  <2> QED BY <1>3, <2>1, <2>2, AppendIsConcat
<1> HIDE DEF c, n, m, P
<1> DEFINE T == {k \in 0..n : f[k] = P(k)}
           U == {k \in 0..m : f[n + k] = s}
<1>7. 0 \in T
  BY <1>1, <1>4, <1>5
<1>8. ASSUME NEW k \in 1..n, k - 1 \in T PROVE k \in T
  <2>1. k \in 1..Len(c) /\ k \in 0..n /\ f[k - 1] = P(k - 1) /\ c[k] = s[k]
    BY <1>1, <1>2, <1>8
  <2>2. f[k] = Append(f[k - 1], c[k])
    BY <1>3, <1>4, <2>1
  <2>3. f[k] = P(k)
    BY <1>6, <2>1, <2>2
  <2> QED BY <2>1, <2>3
<1> HIDE DEF T
<1>9. f[n] = s
  <2>1. \A k \in 0..n : k \in T
    BY <1>1, <1>7, <1>8, Induct
  <2>2. n \in T
    BY <1>1, <2>1
  <2> QED BY <1>5, <2>2 DEF T
<1>10. 0 \in U
  <2>1. n + 0 = n /\ 0 \in 0..m
    BY <1>1
  <2> QED BY <1>9, <2>1
<1>11. ASSUME NEW k \in 1..m, k - 1 \in U PROVE k \in U
  <2>1. PICK x : x = n + k
    OBVIOUS
  <2>2. x \in 1..Len(c) /\ x - 1 = n + (k - 1) /\ k \in 0..m /\ c[x] = t[k] /\ k \in DOMAIN t
    BY <1>1, <1>2, <2>1
  <2>3. f[x - 1] = s
    <3>1. f[n + (k - 1)] = s
      BY <1>11
    <3> QED BY <2>2, <3>1
  <2>4. \E i \in DOMAIN t : t[i] = c[x]
    BY <2>2
  <2>5. f[x] = s
    BY <1>4, <2>2, <2>3, <2>4
  <2> QED BY <2>1, <2>2, <2>5
<1> HIDE DEF U
<1>12. f[n + m] = s
  <2>1. \A k \in 0..m : k \in U
    BY <1>1, <1>10, <1>11, Induct
  <2>2. m \in U
    BY <1>1, <2>1
  <2> QED BY <2>2 DEF U
<1> QED BY <1>2, <1>4, <1>12 DEF c

-----------------------------------------------------------------------------
(* The edits of a document are distinct, and but for transactions that were *)
(* not complete they are in the order in which they were made: those of s   *)
(* can be undone or were, those of q are pending, those of r can be redone. *)

InOrder(s, q, r, n, m) ==
  /\ Distinct((s \o q) \o r) /\ Range((s \o q) \o r) \subseteq 1..n
  /\ ~m => Increasing(s \o q) /\ Increasing(s \o r)

LEMMA EditsFacts ==
  /\ \A s \in Seq(Edits) : s \in Seq(Nat)
  /\ Distinct(<< >>) /\ Increasing(<< >>) /\ Range(<< >>) = {} /\ << >> \in Seq(Edits)
  /\ \A s, t \in Seq(Edits) :
       /\ Range(s \o t) = Range(s) \cup Range(t)
       /\ Distinct(s \o t) <=> Distinct(s) /\ Distinct(t) /\ Range(s) \cap Range(t) = {}
       /\ Increasing(s \o t) <=> /\ Increasing(s) /\ Increasing(t)
                                 /\ \A x \in Range(s), y \in Range(t) : x < y
<1>1. \A s \in Seq(Edits) : s \in Seq(Nat)
  <2>1. Edits \subseteq Nat
    BY BoundsAssumption DEF Edits
  <2> QED BY <2>1, SeqMonotonic
<1>2. Distinct(<< >>) /\ Increasing(<< >>) /\ Range(<< >>) = {} /\ << >> \in Seq(Edits)
  BY DEF Distinct, Increasing, Range
<1>3. ASSUME NEW s \in Seq(Edits), NEW t \in Seq(Edits)
      PROVE  /\ Range(s \o t) = Range(s) \cup Range(t)
             /\ Distinct(s \o t) <=> Distinct(s) /\ Distinct(t) /\ Range(s) \cap Range(t) = {}
             /\ Increasing(s \o t) <=> /\ Increasing(s) /\ Increasing(t)
                                       /\ \A x \in Range(s), y \in Range(t) : x < y
  <2>1. s \in Seq(Nat) /\ t \in Seq(Nat)
    BY <1>1
  <2>2. Range(s \o t) = Range(s) \cup Range(t)
    BY RangeConcatenation
  <2>3. Distinct(s \o t) <=> Distinct(s) /\ Distinct(t) /\ Range(s) \cap Range(t) = {}
    BY DistinctConcat
  <2>4. Increasing(s \o t) <=> /\ Increasing(s) /\ Increasing(t)
                               /\ \A x \in Range(s), y \in Range(t) : x < y
    BY <2>1, IncreasingConcat
  <2> QED BY <2>2, <2>3, <2>4
<1> QED BY <1>1, <1>2, <1>3

LEMMA Forgotten ==
  ASSUME NEW s \in Seq(Edits), NEW q \in Seq(Edits), NEW r \in Seq(Edits),
         NEW n, NEW m \in BOOLEAN, InOrder(s, q, r, n, m)
  PROVE  InOrder(s, q, << >>, n, m)
<1> DEFINE c == s \o q
<1>1. c \in Seq(Edits) /\ c \o << >> = c /\ s \o << >> = s
  BY EditsConcat
<1>2. Distinct(c \o r) /\ Range(c \o r) \subseteq 1..n /\ (~m => Increasing(c))
  BY DEF InOrder
<1>3. ~m => Increasing(s)
  BY <1>2, EditsFacts, Zenon
<1> HIDE DEF c
<1>4. Distinct(c) /\ Range(c) \subseteq 1..n
  BY <1>1, <1>2, EditsFacts
<1> QED BY <1>1, <1>2, <1>3, <1>4 DEF InOrder, c

LEMMA Settled ==
  ASSUME NEW s \in Seq(Edits), NEW q \in Seq(Edits), NEW r \in Seq(Edits),
         NEW n, NEW m \in BOOLEAN, InOrder(s, q, r, n, m)
  PROVE  /\ InOrder(s \o q, << >>, r, n, m \/ q # << >>)
         /\ r = << >> => InOrder(s \o q, << >>, r, n, m)
<1> DEFINE c == s \o q
<1>1. c \in Seq(Edits) /\ c \o << >> = c
  BY EditsConcat
<1>2. Distinct(c \o r) /\ Range(c \o r) \subseteq 1..n /\ (~m => Increasing(c) /\ Increasing(s \o r))
  BY DEF InOrder
<1>3. q = << >> => c = s
  BY EditsConcat
<1> HIDE DEF c
<1>4. InOrder(c, << >>, r, n, m \/ q # << >>)
  <2>1. ~(m \/ q # << >>) => Increasing(c) /\ Increasing(c \o r)
    BY <1>2, <1>3
  <2> HIDE DEF c
  <2> QED BY <1>1, <1>2, <2>1 DEF InOrder
<1>5. r = << >> => InOrder(c, << >>, r, n, m)
  BY <1>1, <1>2 DEF InOrder
<1> QED BY <1>4, <1>5 DEF c

LEMMA Shifted ==
  ASSUME NEW s \in Seq(Edits), NEW t \in Seq(Edits), NEW r \in Seq(Edits),
         NEW n, NEW m
  PROVE  InOrder(s \o t, << >>, r, n, m) <=> InOrder(s, << >>, t \o r, n, m)
<1> DEFINE c == s \o t
           u == t \o r
<1>1. c \in Seq(Edits) /\ c \o << >> = c /\ s \o << >> = s /\ c \o r = s \o u
  BY EditsConcat
<1>2. u \in Seq(Edits)
  BY EditsConcat
<1> HIDE DEF c, u
<1>3. Increasing(s \o u) => Increasing(s)
  BY <1>2, EditsFacts
<1>4. Increasing(c \o r) => Increasing(c)
  BY <1>1, EditsFacts
<1>5. InOrder(c, << >>, r, n, m) <=> InOrder(s, << >>, u, n, m)
  BY <1>1, <1>3, <1>4 DEF InOrder
<1> QED BY <1>5 DEF c, u

LEMMA Edited ==
  ASSUME NEW s \in Seq(Edits), NEW q \in Seq(Edits), NEW r \in Seq(Edits),
         NEW n \in Nat, n + 1 \in Edits, NEW m \in BOOLEAN, InOrder(s, q, r, n, m)
  PROVE  /\ InOrder(s, Append(q, n + 1), r, n + 1, m)
         /\ s \o Append(q, n + 1) = Append(s \o q, n + 1)
<1> DEFINE e == n + 1
           c == s \o q
           one == <<e>>
           d == c \o one
<1>1. /\ one \in Seq(Edits) /\ Append(q, e) = q \o one /\ Append(c, e) = d /\ c \in Seq(Edits)
      /\ d \in Seq(Edits)
  <2>1. one \in Seq(Edits) /\ c \in Seq(Edits)
    BY EditsConcat
  <2>2. Append(q, e) = q \o one /\ Append(c, e) = d
    <3> HIDE DEF c
    <3> QED BY <2>1, AppendIsConcat
  <2> QED BY <2>1, <2>2, EditsConcat
<1>2. s \o Append(q, e) = d
  BY <1>1, EditsConcat
<1>3. Range(one) = {e} /\ Distinct(one) /\ Increasing(one)
  <2>1. DOMAIN one = {1} /\ one[1] = e
    OBVIOUS
  <2> HIDE DEF one
  <2> QED BY <2>1 DEF Range, Distinct, Increasing
<1>4. Distinct(c \o r) /\ Range(c \o r) \subseteq 1..n /\ (~m => Increasing(c) /\ Increasing(s \o r))
  BY DEF InOrder
<1> HIDE DEF c, one, d, e
<1>5. /\ Distinct(c) /\ Distinct(r) /\ Range(c) \cap Range(r) = {}
      /\ Range(c) \subseteq 1..n /\ Range(r) \subseteq 1..n
  BY <1>1, <1>4, EditsFacts
<1>6. e \notin 1..n /\ (\A x \in 1..n : x < e /\ x \in 1..(n + 1)) /\ e \in 1..(n + 1)
  BY DEF e
<1>7. /\ Range(d) = Range(c) \cup {e}
      /\ Distinct(d) <=> Distinct(c) /\ Range(c) \cap {e} = {}
      /\ Increasing(d) <=> Increasing(c) /\ \A x \in Range(c) : x < e
  <2>1. Range(d) = Range(c) \cup {e}
    BY <1>1, <1>3, EditsFacts DEF d
  <2>2. Distinct(d) <=> Distinct(c) /\ Range(c) \cap {e} = {}
    BY <1>1, <1>3, EditsFacts DEF d
  <2>3. Increasing(d) <=> Increasing(c) /\ \A x \in Range(c) : x < e
    BY <1>1, <1>3, EditsFacts DEF d
  <2> QED BY <2>1, <2>2, <2>3
<1>8. Distinct(d) /\ (~m => Increasing(d)) /\ Range(d) \subseteq 1..(n + 1)
  BY <1>4, <1>5, <1>6, <1>7
<1>9. Range(d) \cap Range(r) = {}
  BY <1>5, <1>6, <1>7
<1>10. Distinct(d \o r) /\ Range(d \o r) = Range(d) \cup Range(r)
  BY <1>1, <1>5, <1>8, <1>9, EditsFacts
<1>11. Range(d \o r) \subseteq 1..(n + 1)
  BY <1>5, <1>6, <1>8, <1>10
<1>12. InOrder(s, Append(q, e), r, n + 1, m)
  BY <1>2, <1>4, <1>8, <1>10, <1>11 DEF InOrder
<1> QED BY <1>1, <1>2, <1>12 DEF c, d, e

-----------------------------------------------------------------------------
(* The logs of a document fit its content: what was settled, s, is followed *)
(* in the content by what is pending, and s ends with the undo stack.       *)

Holds(d, s, n, m) ==
  /\ d.content = s \o Pending(d)
  /\ InOrder(s, Pending(d), EditsOf(Reversed(d.redo)), n, m)

Fits(d, n, m) ==
  /\ d \in Docs({d.el}) /\ n \in 0..MaxEdits /\ m \in BOOLEAN
  /\ ~d.sensitive => d.log = << >>
  /\ \E p \in Seq(Edits) : Holds(d, p \o EditsOf(d.undo), n, m)

LEMMA FitsTypes ==
  ASSUME NEW E, NEW d \in Docs(E)
  PROVE  /\ d \in Docs({d.el}) /\ d.undo \in Seq(Events) /\ d.redo \in Seq(Events)
         /\ d.content \in Seq(Edits) /\ Pending(d) \in Seq(Edits)
         /\ EditsOf(d.undo) \in Seq(Edits) /\ EditsOf(Reversed(d.redo)) \in Seq(Edits)
<1>1. d \in Docs({d.el})
  <2>1. d.el \in {d.el}
    OBVIOUS
  <2> QED BY <2>1, DocRetype
<1>2. d.undo \in Seq(Events) /\ d.redo \in Seq(Events) /\ d.content \in Seq(Edits)
  BY DocTypes
<1>3. Pending(d) \in Seq(Edits)
  BY PendingType
<1>4. Reversed(d.redo) \in Seq(Events)
  BY <1>2, ReversedFacts
<1> QED BY <1>1, <1>2, <1>3, <1>4, EditsOfGrows

LEMMA FitsFrame ==
  ASSUME NEW d, NEW n, NEW m, Fits(d, n, m), NEW E, NEW x \in Docs(E),
         x.content = d.content, x.undo = d.undo, x.redo = d.redo,
         Pending(x) = Pending(d), ~x.sensitive => x.log = << >>
  PROVE  Fits(x, n, m)
<1>1. x \in Docs({x.el})
  BY FitsTypes
<1>2. PICK p \in Seq(Edits) : Holds(d, p \o EditsOf(d.undo), n, m)
  BY DEF Fits
<1>3. Holds(x, p \o EditsOf(x.undo), n, m)
  BY <1>2 DEF Holds
<1> QED BY <1>1, <1>3 DEF Fits

\* The oldest events may be forgotten.
LEMMA OlderFits ==
  ASSUME NEW d, NEW n, NEW m, Fits(d, n, m), NEW E, NEW x \in Docs(E),
         NEW k \in 0..Len(d.undo),
         x.undo = SubSeq(d.undo, k + 1, Len(d.undo)),
         x.content = d.content, x.redo = d.redo,
         Pending(x) = Pending(d), ~x.sensitive => x.log = << >>
  PROVE  Fits(x, n, m)
<1>1. x \in Docs({x.el}) /\ EditsOf(x.undo) \in Seq(Edits)
  BY FitsTypes
<1>2. PICK p \in Seq(Edits) : Holds(d, p \o EditsOf(d.undo), n, m)
  BY DEF Fits
<1>3. d.undo \in Seq(Events)
  BY FitsTypes DEF Fits
<1> DEFINE a == EditsOf(SubSeq(d.undo, 1, k))
<1>4. EditsOf(d.undo) = a \o EditsOf(x.undo)
  BY <1>3, EditsOfStacks
<1>5. a \in Seq(Edits)
  <2>1. \A i \in 1..k : d.undo[i] \in Events
    <3>1. \A i \in 1..k : i \in 1..Len(d.undo)
      BY <1>3
    <3> QED BY <1>3, <3>1
  <2>2. 1 \in Int /\ k \in Int
    BY <1>3
  <2>3. SubSeq(d.undo, 1, k) \in Seq(Events)
    BY <2>1, <2>2, SubSeqProperties
  <2> QED BY <2>3, EditsOfGrows
<1> HIDE DEF a
<1>6. p \o EditsOf(d.undo) = (p \o a) \o EditsOf(x.undo)
  <2> DEFINE b == EditsOf(x.undo)
  <2>1. b \in Seq(Edits)
    BY <1>1
  <2>2. EditsOf(d.undo) = a \o b
    BY <1>4
  <2> HIDE DEF b
  <2>3. p \o (a \o b) = (p \o a) \o b
    BY <1>5, <2>1, EditsConcat, Zenon
  <2> QED BY <2>2, <2>3 DEF b
<1>7. p \o a \in Seq(Edits)
  BY <1>5, EditsConcat
<1>8. Holds(x, (p \o a) \o EditsOf(x.undo), n, m)
  BY <1>2, <1>6 DEF Holds
<1> QED BY <1>1, <1>7, <1>8 DEF Fits

\* What is pending becomes part of an event, or of what cannot be undone.
LEMMA SettledFits ==
  ASSUME NEW d, NEW n, NEW m, Fits(d, n, m), NEW E, NEW x \in Docs(E),
         x.content = d.content, x.log = << >>, x.partial = << >>, x.redo = d.redo,
         \/ EditsOf(x.undo) = EditsOf(d.undo) \o Pending(d)
         \/ d.undo = << >> /\ x.undo = << >>
  PROVE  /\ Pending(x) = << >>
         /\ Fits(x, n, m \/ Pending(d) # << >>)
         /\ d.redo = << >> => Fits(x, n, m)
<1> DEFINE q == Pending(d)
           r == EditsOf(Reversed(d.redo))
           u == EditsOf(d.undo)
           v == EditsOf(x.undo)
<1>1. x \in Docs({x.el}) /\ v \in Seq(Edits)
  BY FitsTypes
<1>2. PICK p \in Seq(Edits) : Holds(d, p \o u, n, m)
  BY DEF Fits
<1>3. q \in Seq(Edits) /\ r \in Seq(Edits) /\ u \in Seq(Edits) /\ n \in 0..MaxEdits /\ m \in BOOLEAN
  BY FitsTypes DEF Fits
<1>4. Pending(x) = << >>
  BY DEF Pending
<1> DEFINE s == p \o u
<1>5. s \in Seq(Edits)
  BY <1>3, EditsConcat
<1>6. d.content = s \o q /\ InOrder(s, q, r, n, m)
  BY <1>2 DEF Holds
<1> HIDE DEF s
<1>7. s \o q \in Seq(Edits) /\ (s \o q) \o << >> = s \o q
  BY <1>3, <1>5, EditsConcat
<1>8. \E z \in Seq(Edits) : s \o q = z \o v
  <2>1. CASE v = u \o q
    <3> HIDE DEF q, u, v
    <3>1. s \o q = p \o v
      BY <1>3, <2>1, EditsConcat, Zenon DEF s
    <3> QED BY <3>1
  <2>2. CASE d.undo = << >> /\ x.undo = << >>
    <3>1. v = << >>
      BY <2>2, EditsOfGrows
    <3> HIDE DEF v
    <3> QED BY <1>7, <3>1
  <2> QED BY <2>1, <2>2
<1> HIDE DEF q, r, u, v
<1>9. PICK z \in Seq(Edits) : s \o q = z \o v
  BY <1>8
<1>10. /\ InOrder(s \o q, << >>, r, n, m \/ q # << >>)
       /\ r = << >> => InOrder(s \o q, << >>, r, n, m)
  BY <1>3, <1>5, <1>6, Settled
<1>11. d.redo = << >> => r = << >>
  <2> SUFFICES ASSUME d.redo = << >> PROVE r = << >>
    OBVIOUS
  <2>1. Reversed(<< >>) = << >>
    BY DEF Reversed
  <2> QED BY <2>1, EditsOfGrows DEF r
<1>12. ASSUME NEW k \in BOOLEAN, InOrder(s \o q, << >>, r, n, k)
       PROVE  Fits(x, n, k)
  <2>1. Holds(x, z \o v, n, k)
    BY <1>4, <1>6, <1>7, <1>9, <1>12 DEF Holds, r
  <2> QED BY <1>1, <1>3, <2>1 DEF Fits, v
<1>13. (m \/ q # << >>) \in BOOLEAN
  BY <1>3
<1>14. Fits(x, n, m \/ q # << >>)
  BY <1>10, <1>12, <1>13
<1>15. d.redo = << >> => Fits(x, n, m)
  BY <1>3, <1>10, <1>11, <1>12
<1> QED BY <1>4, <1>14, <1>15 DEF q

LEMMA ClearRedoFits ==
  ASSUME NEW d, NEW n, NEW m, Fits(d, n, m)
  PROVE  Fits(ClearRedo(d), n, m)
<1> DEFINE x == ClearRedo(d)
           q == Pending(d)
           r == EditsOf(Reversed(d.redo))
           u == EditsOf(d.undo)
<1>1. d \in Docs({d.el}) /\ n \in 0..MaxEdits /\ m \in BOOLEAN /\ (~d.sensitive => d.log = << >>)
  BY DEF Fits
<1>2. /\ x \in Docs({x.el}) /\ x.redo = << >> /\ x.content = d.content /\ x.log = d.log
      /\ x.partial = d.partial /\ x.undo = d.undo /\ x.sensitive = d.sensitive
  BY <1>1, ClearRedoIs
<1>3. q \in Seq(Edits) /\ r \in Seq(Edits) /\ u \in Seq(Edits)
  BY <1>1, FitsTypes
<1>4. PICK p \in Seq(Edits) : Holds(d, p \o u, n, m)
  BY DEF Fits
<1>5. p \o u \in Seq(Edits) /\ d.content = (p \o u) \o q /\ InOrder(p \o u, q, r, n, m)
  BY <1>3, <1>4, EditsConcat DEF Holds
<1> HIDE DEF x, q, r, u
<1>6. InOrder(p \o u, q, << >>, n, m)
  BY <1>1, <1>3, <1>5, Forgotten
<1>7. EditsOf(Reversed(x.redo)) = << >>
  <2>1. Reversed(<< >>) = << >>
    BY DEF Reversed
  <2> QED BY <1>2, <2>1, EditsOfGrows
<1>8. Pending(x) = q
  BY <1>2 DEF Pending, q
<1>9. Holds(x, p \o EditsOf(x.undo), n, m)
  BY <1>2, <1>5, <1>6, <1>7, <1>8 DEF Holds, u
<1> QED BY <1>1, <1>2, <1>9 DEF Fits, x

LEMMA FinishedFits ==
  ASSUME NEW d, NEW n, NEW m, Fits(d, n, m)
  PROVE  Fits(Finished(d), n, m \/ Pending(d) # << >>) /\ Pending(Finished(d)) = << >>
<1> DEFINE x == Finished(d)
<1>1. d \in Docs({d.el})
  BY DEF Fits
<1>2. /\ x \in Docs({d.el}) /\ x.log = << >> /\ x.partial = << >>
      /\ x.undo = (IF d.undo = << >> THEN << >> ELSE AddedTo(d.undo, Pending(d)))
      /\ x.content = d.content /\ x.redo = d.redo
  BY <1>1, FinishedIs
<1>3. d.undo \in Seq(Events) /\ Pending(d) \in Seq(Edits)
  BY <1>1, FitsTypes
<1> HIDE DEF x
<1>4. \/ EditsOf(x.undo) = EditsOf(d.undo) \o Pending(d)
      \/ d.undo = << >> /\ x.undo = << >>
  <2>1. CASE d.undo = << >>
    BY <1>2, <2>1
  <2>2. CASE d.undo # << >>
    <3>1. EditsOf(AddedTo(d.undo, Pending(d))) = EditsOf(d.undo) \o Pending(d)
      BY <1>3, <2>2, EditsOfStacks
    <3> QED BY <1>2, <2>2, <3>1
  <2> QED BY <2>1, <2>2
<1> QED BY <1>2, <1>4, SettledFits DEF x

LEMMA UndoTopFits ==
  ASSUME NEW d, NEW n, NEW m, Fits(d, n, m)
  PROVE  Fits(UndoTop(d), n, m \/ Pending(d) # << >>)
<1>1. d \in Docs({d.el})
  BY DEF Fits
<1> DEFINE f == Finished(d)
           x == UndoTop(d)
           k == m \/ Pending(d) # << >>
<1>2. Fits(f, n, k) /\ Pending(f) = << >>
  BY FinishedFits
<1>3. CASE d.undo = << >>
  BY <1>1, <1>2, <1>3, NothingIs
<1>4. CASE d.undo # << >>
  <2> DEFINE u == AddedTo(d.undo, Pending(d))
  <2>1. /\ x \in Docs({d.el}) /\ x.log = << >> /\ x.partial = << >>
        /\ x.undo = Front(u) /\ x.redo = Append(d.redo, Last(u))
        /\ x.content = Without(d.content, Last(u).edits)
    BY <1>1, <1>4, UndoTopIs
  <2>2. f.undo = u /\ f.content = d.content /\ f.redo = d.redo
    BY <1>1, <1>4, FinishedIs
  <2>3. f \in Docs({f.el}) /\ n \in 0..MaxEdits /\ k \in BOOLEAN
    BY <1>2 DEF Fits
  <2>4. u \in Seq(Events) /\ u # << >> /\ d.redo \in Seq(Events)
    <3>1. f.undo \in Seq(Events) /\ f.redo \in Seq(Events)
      BY <2>3, FitsTypes
    <3>2. d.undo \in Seq(Events) /\ Pending(d) \in Seq(Edits)
      BY <1>1, FitsTypes
    <3>3. u # << >>
      BY <1>4, <3>2, AddedToFacts
    <3> HIDE DEF u, f
    <3> QED BY <2>2, <3>1, <3>3
  <2> HIDE DEF u, x, f, k
  <2> DEFINE a == EditsOf(Front(u))
             t == Last(u).edits
             r == EditsOf(Reversed(d.redo))
  <2>5. a \in Seq(Edits) /\ t \in Seq(Edits) /\ r \in Seq(Edits) /\ Last(u) \in Events
    <3>1. Front(u) \in Seq(Events) /\ Last(u) \in Events
      BY <2>4, LastFacts
    <3>2. t \in Seq(Edits)
      BY <3>1 DEF Events
    <3>3. Reversed(d.redo) \in Seq(Events)
      BY <2>4, ReversedFacts
    <3> QED BY <3>1, <3>2, <3>3, EditsOfGrows
  <2>6. EditsOf(u) = a \o t
    BY <2>4, EditsOfStacks
  <2>7. EditsOf(Reversed(x.redo)) = t \o r
    <3>1. EditsOf(Reversed(Append(d.redo, Last(u)))) = t \o r
      BY <2>4, <2>5, EditsOfStacks
    <3> QED BY <2>1, <3>1
  <2>8. PICK p \in Seq(Edits) : Holds(f, p \o EditsOf(f.undo), n, k)
    BY <1>2 DEF Fits
  <2> DEFINE s == p \o a
  <2>9. s \in Seq(Edits) /\ p \o EditsOf(f.undo) = s \o t
    <3> HIDE DEF a, t
    <3>1. s \in Seq(Edits)
      BY <2>5, EditsConcat
    <3>2. p \o (a \o t) = (p \o a) \o t
      <4>1. p \in Seq(Edits) /\ a \in Seq(Edits) /\ t \in Seq(Edits)
        BY <2>5
      <4> QED BY <4>1, EditsConcat
    <3> QED BY <2>2, <2>6, <3>1, <3>2
  <2>10. s \o t \in Seq(Edits) /\ (s \o t) \o << >> = s \o t /\ s \o << >> = s
    <3> HIDE DEF s, t
    <3> QED BY <2>5, <2>9, EditsConcat
  <2>11. d.content = s \o t /\ InOrder(s \o t, << >>, r, n, k)
    BY <1>2, <2>2, <2>8, <2>9, <2>10 DEF Holds
  <2> HIDE DEF s, t, r
  <2>12. InOrder(s, << >>, t \o r, n, k)
    BY <2>5, <2>9, <2>11, Shifted
  <2>13. x.content = s
    <3>1. Distinct((s \o t) \o << >> \o r)
      BY <2>11 DEF InOrder
    <3>2. Distinct((s \o t) \o r)
      BY <2>10, <3>1
    <3>3. Distinct(s \o t)
      BY <2>5, <2>10, <3>2, EditsFacts
    <3>4. Range(s) \cap Range(t) = {}
      BY <2>5, <2>9, <3>3, EditsFacts
    <3>5. Without(s \o t, t) = s
      BY <2>5, <2>9, <3>4, WithoutFacts
    <3> QED BY <2>1, <2>11, <3>5 DEF t
  <2>14. Pending(x) = << >>
    BY <2>1 DEF Pending
  <2>15. Holds(x, p \o EditsOf(x.undo), n, k)
    <3>1. p \o EditsOf(x.undo) = s
      BY <2>1 DEF s, a
    <3> QED BY <2>7, <2>10, <2>12, <2>13, <2>14, <3>1 DEF Holds
  <2>16. x \in Docs({x.el})
    BY <2>1, FitsTypes
  <2> QED BY <2>1, <2>3, <2>15, <2>16 DEF Fits, x, k
<1> QED BY <1>3, <1>4

LEMMA RedoTopFits ==
  ASSUME NEW d, NEW n, NEW m, Fits(d, n, m)
  PROVE  Fits(RedoTop(d), n, m \/ Pending(d) # << >>)
<1>1. d \in Docs({d.el})
  BY DEF Fits
<1> DEFINE f == Finished(d)
           x == RedoTop(d)
           k == m \/ Pending(d) # << >>
<1>2. Fits(f, n, k) /\ Pending(f) = << >>
  BY FinishedFits
<1>3. CASE d.redo = << >>
  BY <1>1, <1>2, <1>3, NothingIs
<1>4. CASE d.redo # << >>
  <2> DEFINE l == Last(d.redo)
             t == l.edits
             o == Front(d.redo)
  <2>1. /\ x \in Docs({d.el}) /\ x.log = << >> /\ x.partial = << >>
        /\ x.redo = o /\ x.content = d.content \o t
        /\ x.undo = Append(IF d.undo = << >> THEN << >> ELSE AddedTo(d.undo, Pending(d)), l)
    BY <1>1, <1>4, RedoTopIs
  <2>2. /\ f.undo = (IF d.undo = << >> THEN << >> ELSE AddedTo(d.undo, Pending(d)))
        /\ f.content = d.content /\ f.redo = d.redo
    BY <1>1, FinishedIs
  <2>3. f \in Docs({f.el}) /\ n \in 0..MaxEdits /\ k \in BOOLEAN
    BY <1>2 DEF Fits
  <2> HIDE DEF x, f, k
  <2>4. x.undo = Append(f.undo, l) /\ f.undo \in Seq(Events) /\ EditsOf(f.undo) \in Seq(Edits)
    <3>1. f.undo \in Seq(Events) /\ EditsOf(f.undo) \in Seq(Edits)
      BY <2>3, FitsTypes
    <3> QED BY <2>1, <2>2, <3>1
  <2>5. o \in Seq(Events) /\ l \in Events /\ d.redo = Append(o, l)
    <3>1. d.redo \in Seq(Events)
      BY <1>1, FitsTypes
    <3> QED BY <1>4, <3>1, LastFacts
  <2> HIDE DEF l, o
  <2>6. t \in Seq(Edits) /\ Reversed(o) \in Seq(Events)
    BY <2>5, ReversedFacts DEF Events
  <2> DEFINE r == EditsOf(Reversed(o))
             u == EditsOf(f.undo)
  <2>7. r \in Seq(Edits)
    BY <2>6, EditsOfGrows
  <2>8. EditsOf(Reversed(f.redo)) = t \o r
    <3>1. EditsOf(Reversed(Append(o, l))) = t \o r
      BY <2>5, EditsOfStacks
    <3> QED BY <2>2, <2>5, <3>1
  <2>9. EditsOf(x.undo) = u \o t
    <3>1. EditsOf(Append(f.undo, l)) = u \o t
      BY <2>4, <2>5, EditsOfGrows
    <3> QED BY <2>4, <3>1
  <2>10. PICK p \in Seq(Edits) : Holds(f, p \o u, n, k)
    BY <1>2 DEF Fits
  <2> DEFINE s == p \o u
  <2>11. s \in Seq(Edits) /\ p \o EditsOf(x.undo) = s \o t
    <3> HIDE DEF u, t
    <3>1. s \in Seq(Edits)
      BY <2>4, EditsConcat DEF u
    <3>2. p \o (u \o t) = s \o t
      BY <2>4, <2>6, EditsConcat, Zenon DEF u
    <3> QED BY <2>9, <3>1, <3>2
  <2>12. s \o t \in Seq(Edits) /\ (s \o t) \o << >> = s \o t /\ s \o << >> = s
    <3> HIDE DEF s, t
    <3> QED BY <2>6, <2>11, EditsConcat
  <2>13. d.content = s /\ InOrder(s, << >>, t \o r, n, k)
    BY <1>2, <2>2, <2>8, <2>10, <2>12 DEF Holds
  <2> HIDE DEF s, t, r
  <2>14. InOrder(s \o t, << >>, r, n, k)
    BY <2>6, <2>7, <2>11, <2>13, Shifted
  <2>15. Pending(x) = << >>
    BY <2>1 DEF Pending
  <2>16. Holds(x, p \o EditsOf(x.undo), n, k)
    BY <2>1, <2>11, <2>12, <2>13, <2>14, <2>15 DEF Holds, r, t
  <2>17. x \in Docs({x.el})
    BY <2>1, FitsTypes
  <2> QED BY <2>1, <2>3, <2>16, <2>17 DEF Fits, x, k
<1> QED BY <1>3, <1>4

LEMMA MaybeDoneFits ==
  ASSUME NEW d, NEW n, NEW m, Fits(d, n, m), d.born < MaxCommits,
         NEW key \in Keys \cup {NoKey}, NEW expired \in BOOLEAN, NEW icon, NEW zone \in BOOLEAN
  PROVE  LET x == MaybeDone(d, key, expired, icon, zone) IN
         Fits(x, n, m) /\ Pending(x) = << >>
<1> DEFINE c == ClearRedo(d)
           x == MaybeDone(d, key, expired, icon, zone)
<1>1. d \in Docs({d.el})
  BY DEF Fits
<1>2. Fits(c, n, m)
  BY ClearRedoFits
<1>3. c \in Docs({c.el}) /\ c.redo = << >> /\ c.born = d.born
  BY <1>1, ClearRedoIs
<1>4. /\ Pending(c) = Pending(d)
      /\ Pending(d) = << >> => x = c
      /\ Pending(d) # << >> =>
           \E a : /\ \/ a = Push(c, icon, zone)
                     \/ a = Coalesce(c) /\ c.undo # << >> /\ key # NoKey
                  /\ x = Marked(a, key) \/ x = Expire(Marked(a, key))
  BY <1>1, MaybeDoneCases
<1>5. CASE Pending(d) = << >>
  BY <1>2, <1>4, <1>5
<1>6. CASE Pending(d) # << >>
  <2>1. PICK a : /\ \/ a = Push(c, icon, zone)
                    \/ a = Coalesce(c) /\ c.undo # << >> /\ key # NoKey
                 /\ x = Marked(a, key) \/ x = Expire(Marked(a, key))
    BY <1>4, <1>6
  <2> HIDE DEF x, c
  <2>2. c.undo \in Seq(Events) /\ Pending(c) \in Seq(Edits)
    BY <1>3, FitsTypes
  <2>3. /\ a \in Docs({a.el}) /\ a.content = c.content /\ a.redo = c.redo
        /\ EditsOf(a.undo) = EditsOf(c.undo) \o Pending(c)
    <3>1. CASE a = Push(c, icon, zone)
      <4> DEFINE e == NewEvent(c, zone)
      <4>1. /\ a \in Docs({a.el}) /\ a.content = c.content /\ a.redo = c.redo
            /\ a.undo = Append(c.undo, e) /\ e \in Events
        BY <1>3, <3>1, PushIs
      <4>2. e.edits = Pending(c)
        BY DEF NewEvent
      <4> HIDE DEF e
      <4>3. EditsOf(Append(c.undo, e)) = EditsOf(c.undo) \o e.edits
        BY <2>2, <4>1, EditsOfGrows
      <4> QED BY <4>1, <4>2, <4>3
    <3>2. CASE a = Coalesce(c) /\ c.undo # << >>
      <4>1. /\ a \in Docs({c.el}) /\ a.content = c.content /\ a.redo = c.redo
            /\ a.undo = AddedTo(c.undo, Pending(c)) /\ a.el = c.el
        BY <1>3, <3>2, CoalesceIs
      <4>2. EditsOf(AddedTo(c.undo, Pending(c))) = EditsOf(c.undo) \o Pending(c)
        BY <2>2, <3>2, EditsOfStacks
      <4> QED BY <4>1, <4>2
    <3> QED BY <2>1, <3>1, <3>2
  <2> DEFINE y == Marked(a, key)
  <2>4. /\ y \in Docs({a.el}) /\ y.log = << >> /\ y.partial = << >> /\ y.undo = a.undo
        /\ y.redo = a.redo /\ y.content = a.content
    BY <2>3, MarkedIs
  <2> HIDE DEF y
  <2>5. Fits(y, n, m) /\ Pending(y) = << >>
    <3>1. /\ y.content = c.content /\ y.redo = c.redo
          /\ EditsOf(y.undo) = EditsOf(c.undo) \o Pending(c)
      BY <2>3, <2>4
    <3> QED BY <1>2, <1>3, <2>4, <3>1, SettledFits
  <2>6. Fits(Expire(y), n, m) /\ Pending(Expire(y)) = << >>
    <3> DEFINE z == Expire(y)
               k == IF Len(y.undo) > UndoSize THEN Len(y.undo) - UndoSize ELSE 0
    <3>1. /\ z \in Docs({z.el}) /\ z.undo = SubSeq(y.undo, k + 1, Len(y.undo))
          /\ z.content = y.content /\ z.log = y.log /\ z.partial = y.partial
          /\ z.redo = y.redo
      BY <2>4, ExpireIs
    <3>2. k \in 0..Len(y.undo)
      <4>1. Len(y.undo) \in Nat
        BY <2>4, DocTypes
      <4> QED BY <4>1, UndoSizeAssumption
    <3> HIDE DEF z, k
    <3>3. Pending(z) = Pending(y)
      BY <3>1 DEF Pending
    <3>4. Fits(z, n, m)
      BY <2>4, <2>5, <3>1, <3>2, <3>3, OlderFits
    <3> QED BY <2>5, <3>3, <3>4 DEF z
  <2> QED BY <2>1, <2>5, <2>6 DEF x, y
<1> QED BY <1>5, <1>6

\* What the EventLog makes of a document concerns its mark and the history.
LEMMA ToldFits ==
  ASSUME NEW d, NEW n, NEW m, Fits(d, n, m), NEW el
  PROVE  /\ Fits(Moved(d, el), n, m) /\ Fits(CheckForVirginity(Moved(d, el)), n, m)
         /\ Pending(Moved(d, el)) = Pending(d)
         /\ Pending(CheckForVirginity(Moved(d, el))) = Pending(d)
<1> DEFINE x == Moved(d, el)
           y == CheckForVirginity(x)
<1>1. d \in Docs({d.el}) /\ (~d.sensitive => d.log = << >>)
  BY DEF Fits
<1>2. /\ x \in Docs({el}) /\ x.content = d.content /\ x.log = d.log /\ x.partial = d.partial
      /\ x.undo = d.undo /\ x.redo = d.redo /\ x.sensitive = d.sensitive
  BY <1>1, MovedIs
<1> HIDE DEF x
<1>3. /\ y \in Docs({x.el}) /\ y.content = x.content /\ y.log = x.log /\ y.partial = x.partial
      /\ y.undo = x.undo /\ y.redo = x.redo /\ y.sensitive = x.sensitive
  BY <1>2, VirginityIs
<1> HIDE DEF y
<1>4. Pending(x) = Pending(d) /\ Pending(y) = Pending(d)
  BY <1>2, <1>3 DEF Pending
<1>5. Fits(x, n, m)
  BY <1>1, <1>2, <1>4, FitsFrame
<1>6. Fits(y, n, m)
  <2>1. /\ y.content = d.content /\ y.undo = d.undo /\ y.redo = d.redo
        /\ (~y.sensitive => y.log = << >>)
    BY <1>1, <1>2, <1>3
  <2> QED BY <1>3, <1>4, <2>1, FitsFrame
<1> QED BY <1>4, <1>5, <1>6 DEF x, y

LEMMA UndoneFits ==
  ASSUME NEW d, NEW n, NEW m, Fits(d, n, m)
  PROVE  /\ Fits(Undo(d), n, m \/ Pending(d) # << >>)
         /\ Fits(Redo(d), n, m \/ Pending(d) # << >>)
<1> DEFINE u == UndoTop(d)
           r == RedoTop(d)
           k == m \/ Pending(d) # << >>
<1>1. Fits(u, n, k) /\ Fits(r, n, k)
  BY UndoTopFits, RedoTopFits
<1>2. Undo(d) = u \/ Undo(d) = CheckForVirginity(Moved(u, MoveUndo(u.el)))
  <2>1. [u EXCEPT !.el = MoveUndo(@)] = Moved(u, MoveUndo(u.el))
    BY DEF Moved
  <2> HIDE DEF u
  <2> QED BY <2>1, Zenon DEF Undo, u
<1>3. Redo(d) = r \/ Redo(d) = CheckForVirginity(Moved(r, MoveRedo(r.el)))
  <2>1. [r EXCEPT !.el = MoveRedo(@)] = Moved(r, MoveRedo(r.el))
    BY DEF Moved
  <2> HIDE DEF r
  <2> QED BY <2>1, Zenon DEF Redo, r
<1> HIDE DEF u, r, k
<1>4. Fits(Undo(d), n, k)
  BY <1>1, <1>2, ToldFits
<1>5. Fits(Redo(d), n, k)
  BY <1>1, <1>3, ToldFits
<1> QED BY <1>4, <1>5 DEF k

LEMMA CancelFits ==
  ASSUME NEW d, NEW n, NEW m, Fits(d, n, m), d.born < MaxCommits
  PROVE  Fits(Cancel(d), n, m)
<1> DEFINE c == MaybeDone(d, NoKey, FALSE, "", TRUE)
<1>1. Fits(c, n, m) /\ Pending(c) = << >>
  <2>1. NoKey \in Keys \cup {NoKey} /\ FALSE \in BOOLEAN /\ TRUE \in BOOLEAN
    OBVIOUS
  <2> QED BY <2>1, MaybeDoneFits, Zenon
<1>2. Cancel(d) = c \/ Cancel(d) = ClearRedo(Undo(c))
  BY Zenon DEF Cancel
<1> HIDE DEF c
<1>3. Fits(Undo(c), n, m \/ Pending(c) # << >>)
  BY <1>1, UndoneFits
<1>4. (m \/ Pending(c) # << >>) = m
  <2>1. m \in BOOLEAN
    BY DEF Fits
  <2> QED BY <1>1, <2>1
<1>5. Fits(Undo(c), n, m)
  BY <1>3, <1>4, Zenon
<1>6. Fits(ClearRedo(Undo(c)), n, m)
  BY <1>5, ClearRedoFits
<1> QED BY <1>1, <1>2, <1>6

LEMMA SensitiveFits ==
  ASSUME NEW d, NEW n, NEW m, Fits(d, n, m), NEW b \in BOOLEAN
  PROVE  ~(d.sensitive /\ b) => Fits(SetUndoSensitive(d, b), n, m)
<1> SUFFICES ASSUME ~(d.sensitive /\ b) PROVE Fits(SetUndoSensitive(d, b), n, m)
  OBVIOUS
<1> DEFINE x == SetUndoSensitive(d, b)
<1>1. d \in Docs({d.el}) /\ (~d.sensitive => d.log = << >>)
  BY DEF Fits
<1>2. /\ x \in Docs({d.el}) /\ x.log = << >> /\ x.sensitive = b
      /\ x.partial = (IF b THEN d.partial ELSE Pending(d))
      /\ x.undo = d.undo /\ x.redo = d.redo /\ x.content = d.content
  BY <1>1, SensitiveIs
<1>3. Pending(d) \in Seq(Edits) /\ d.partial \in Seq(Edits)
  BY <1>1, PendingType
<1> HIDE DEF x
<1>4. Pending(x) = Pending(d)
  <2>1. CASE b
    <3>1. d.log = << >>
      BY <1>1, <2>1
    <3> QED BY <1>2, <2>1, <3>1 DEF Pending
  <2>2. CASE ~b
    <3>1. Pending(x) = Pending(d) \o << >>
      BY <1>2, <2>2 DEF Pending
    <3> QED BY <1>3, <3>1, ConcatEmptySeq
  <2> QED BY <2>1, <2>2
<1>5. Fits(x, n, m)
  BY <1>2, <1>4, FitsFrame
<1> QED BY <1>5 DEF x

LEMMA SavedFits ==
  ASSUME NEW d, NEW n, NEW m, Fits(d, n, m), NEW official \in BOOLEAN
  PROVE  Fits(Saved(d, official), n, m)
<1> DEFINE x == Saved(d, official)
<1>1. d \in Docs({d.el})
  BY DEF Fits
<1>2. /\ x \in Docs({x.el}) /\ x.log = << >> /\ x.partial = Pending(d)
      /\ x.undo = d.undo /\ x.redo = d.redo /\ x.content = d.content
  <2>1. x \in Docs({x.el}) /\ x.log = << >> /\ x.partial = Pending(d)
    BY <1>1, SavedIs
  <2>2. x.undo = d.undo /\ x.redo = d.redo /\ x.content = d.content
    BY <1>1, SavedIs
  <2> QED BY <2>1, <2>2
<1>3. Pending(d) \in Seq(Edits)
  BY <1>1, PendingType
<1> HIDE DEF x
<1>4. Pending(x) = Pending(d)
  BY <1>2, <1>3, ConcatEmptySeq DEF Pending
<1>5. Fits(x, n, m)
  BY <1>2, <1>4, FitsFrame
<1> QED BY <1>5 DEF x

\* The strengthening of LogsFitContent that each step preserves.
LogsInv == Fits(doc, edits, mended)

LEMMA LogsInit == Init => LogsInv
<1> SUFFICES ASSUME Init PROVE LogsInv
  OBVIOUS
<1> DEFINE el == InitLog(0)
<1>1. edits = 0 /\ mended = FALSE
  BY DEF Init
<1>2. doc = [content |-> << >>, log |-> << >>, partial |-> << >>, undo |-> << >>,
             redo |-> << >>, actionkey |-> NoKey, sensitive |-> TRUE,
             modified |-> FALSE, born |-> 0, el |-> el]
  BY DEF Init, InitDoc
<1> HIDE DEF el
<1>3. /\ doc.content = << >> /\ doc.log = << >> /\ doc.partial = << >> /\ doc.undo = << >>
      /\ doc.redo = << >> /\ doc.el = el
  BY <1>2
<1>4. doc \in Docs({el})
  <2>1. << >> \in Seq(Edits) /\ << >> \in Seq(Events) /\ 0 \in 0..MaxCommits
    BY BoundsAssumption
  <2>2. NoKey \in Keys \cup {NoKey}
    OBVIOUS
  <2> QED BY <1>2, <2>1, <2>2 DEF Docs
<1>5. << >> \in Seq(Edits) /\ << >> \o << >> = << >>
  BY EditsConcat, EditsFacts
<1>6. Pending(doc) = << >>
  BY <1>3, <1>5 DEF Pending
<1>7. EditsOf(doc.undo) = << >> /\ EditsOf(Reversed(doc.redo)) = << >>
  <2>1. Reversed(<< >>) = << >>
    BY DEF Reversed
  <2> QED BY <1>3, <2>1, EditsOfGrows
<1>8. InOrder(<< >>, << >>, << >>, 0, FALSE)
  <2>1. Range(<< >>) \subseteq 1..0
    BY EditsFacts
  <2> QED BY <1>5, <2>1, EditsFacts DEF InOrder
<1>9. Holds(doc, << >> \o EditsOf(doc.undo), edits, mended)
  BY <1>1, <1>3, <1>5, <1>6, <1>7, <1>8 DEF Holds
<1>10. edits \in 0..MaxEdits /\ mended \in BOOLEAN
  <2>1. 0 \in 0..MaxEdits
    BY BoundsAssumption
  <2> QED BY <1>1, <2>1, Zenon
<1>11. doc \in Docs({doc.el})
  BY <1>3, <1>4
<1> QED BY <1>3, <1>5, <1>9, <1>10, <1>11 DEF LogsInv, Fits

\* An edit is added to the content, and to what is pending.
LEMMA EditIs ==
  ASSUME LogsInv, Edit
  PROVE  /\ edits + 1 \in Edits /\ edits \in Nat /\ edits' = edits + 1
         /\ doc' \in Docs({doc.el}) /\ doc.sensitive /\ doc'.sensitive
         /\ doc'.el = doc.el /\ doc'.undo = doc.undo /\ doc'.redo = doc.redo
         /\ doc'.born = doc.born /\ doc'.modified = doc.modified
         /\ doc'.content = Append(doc.content, edits + 1)
         /\ Pending(doc') = Append(Pending(doc), edits + 1)
<1> DEFINE e == edits + 1
           q == Pending(doc)
<1>1. /\ edits < MaxEdits /\ edits' = e /\ doc.sensitive
      /\ doc' = [doc EXCEPT !.content = Append(@, e), !.log = Append(@, e)]
  BY DEF Edit
<1>2. doc \in Docs({doc.el}) /\ edits \in 0..MaxEdits
  BY DEF LogsInv, Fits
<1>3. e \in Edits /\ edits \in Nat
  BY <1>1, <1>2, BoundsAssumption DEF Edits
<1> HIDE DEF e
<1>4. /\ doc.content \in Seq(Edits) /\ doc.log \in Seq(Edits) /\ doc.partial \in Seq(Edits)
      /\ q \in Seq(Edits)
  BY <1>2, PendingType, FitsTypes
<1>5. Append(doc.content, e) \in Seq(Edits) /\ Append(doc.log, e) \in Seq(Edits)
  BY <1>3, <1>4, AppendProperties
<1>6. doc' \in Docs({doc.el})
  BY <1>1, <1>2, <1>5 DEF Docs
<1>7. /\ doc'.el = doc.el /\ doc'.undo = doc.undo /\ doc'.redo = doc.redo
      /\ doc'.born = doc.born /\ doc'.modified = doc.modified
      /\ doc'.content = Append(doc.content, e) /\ doc'.log = Append(doc.log, e)
      /\ doc'.partial = doc.partial /\ doc'.sensitive = doc.sensitive
  BY <1>1, <1>2 DEF Docs
<1>8. Pending(doc') = Append(q, e)
  <2> DEFINE one == <<e>>
  <2>1. one \in Seq(Edits) /\ Append(doc.log, e) = doc.log \o one
    BY <1>3, <1>4, AppendIsConcat
  <2>2. Append(q, e) = q \o one
    <3> HIDE DEF q
    <3> QED BY <1>3, <1>4, AppendIsConcat
  <2> HIDE DEF one
  <2>3. doc.partial \o (doc.log \o one) = q \o one
    <3>1. doc.partial \in Seq(Edits) /\ doc.log \in Seq(Edits) /\ one \in Seq(Edits)
      BY <1>4, <2>1
    <3>2. doc.partial \o (doc.log \o one) = (doc.partial \o doc.log) \o one
      BY <3>1, EditsConcat, Zenon
    <3> QED BY <3>2 DEF Pending
  <2> QED BY <1>7, <2>1, <2>2, <2>3 DEF Pending
<1> QED BY <1>1, <1>3, <1>6, <1>7, <1>8 DEF e

LEMMA LogsStep ==
  ASSUME LogsInv, [Next]_vars
  PROVE  LogsInv'
<1> DEFINE n == edits
           m == mended
           k == mended \/ Pending(doc) # << >>
<1>1. Fits(doc, n, m) /\ doc \in Docs({doc.el}) /\ n \in 0..MaxEdits /\ m \in BOOLEAN
  BY DEF LogsInv, Fits
<1>2. CASE Edit
  <2> DEFINE e == n + 1
             q == Pending(doc)
             r == EditsOf(Reversed(doc.redo))
             u == EditsOf(doc.undo)
  <2>1. mended' = m
    BY <1>2 DEF Edit
  <2>2. /\ e \in Edits /\ n \in Nat /\ edits' = e /\ doc' \in Docs({doc.el})
        /\ doc'.sensitive /\ doc'.undo = doc.undo /\ doc'.redo = doc.redo
        /\ doc'.content = Append(doc.content, e) /\ Pending(doc') = Append(q, e)
    BY <1>2, EditIs
  <2>3. e \in 0..MaxEdits
    BY <2>2 DEF Edits
  <2>4. /\ doc.content \in Seq(Edits) /\ q \in Seq(Edits) /\ r \in Seq(Edits)
        /\ u \in Seq(Edits)
    BY <1>1, FitsTypes
  <2>5. PICK p \in Seq(Edits) : Holds(doc, p \o u, n, m)
    BY <1>1 DEF Fits
  <2> DEFINE s == p \o u
  <2>6. s \in Seq(Edits) /\ doc.content = s \o q /\ InOrder(s, q, r, n, m)
    BY <2>4, <2>5, EditsConcat DEF Holds
  <2> HIDE DEF q, r, u, s
  <2>7. InOrder(s, Append(q, e), r, e, m) /\ s \o Append(q, e) = Append(s \o q, e)
    BY <1>1, <2>2, <2>4, <2>6, Edited
  <2> HIDE DEF e
  <2>8. Holds(doc', s, e, m)
    BY <2>2, <2>6, <2>7 DEF Holds, r
  <2>9. doc' \in Docs({doc'.el})
    BY <2>2, FitsTypes
  <2>10. Fits(doc', e, m)
    BY <1>1, <2>2, <2>3, <2>8, <2>9 DEF Fits, s, u
  <2> QED BY <2>1, <2>2, <2>10 DEF LogsInv
<1>3. CASE CancelDone
  <2>1. doc.born < MaxCommits /\ doc' = Cancel(doc) /\ edits' = n /\ mended' = m
    BY <1>3 DEF CancelDone
  <2>2. Fits(Cancel(doc), n, m)
    BY <1>1, <2>1, CancelFits
  <2> QED BY <2>1, <2>2 DEF LogsInv
<1>4. CASE UndoLast
  <2>1. doc' = Undo(doc) /\ edits' = n /\ mended' = k
    BY <1>4 DEF UndoLast, Mends
  <2>2. Fits(Undo(doc), n, k)
    BY <1>1, UndoneFits
  <2> QED BY <2>1, <2>2 DEF LogsInv
<1>5. CASE RedoLast
  <2>1. doc' = Redo(doc) /\ edits' = n /\ mended' = k
    BY <1>5 DEF RedoLast, Mends
  <2>2. Fits(Redo(doc), n, k)
    BY <1>1, UndoneFits
  <2> QED BY <2>1, <2>2 DEF LogsInv
<1>6. CASE ResetKey
  <2>1. doc' = [doc EXCEPT !.actionkey = NoKey] /\ edits' = n /\ mended' = m
    BY <1>6 DEF ResetKey
  <2>2. NoKey \in Keys \cup {NoKey}
    OBVIOUS
  <2>3. /\ doc' \in Docs({doc.el}) /\ doc'.content = doc.content /\ doc'.undo = doc.undo
        /\ doc'.redo = doc.redo /\ doc'.log = doc.log /\ doc'.partial = doc.partial
        /\ doc'.sensitive = doc.sensitive
    <3>1. doc' \in Docs({doc.el})
      BY <1>1, <2>1, <2>2 DEF Docs
    <3> QED BY <1>1, <2>1, <3>1 DEF Docs
  <2>4. Pending(doc') = Pending(doc) /\ (~doc'.sensitive => doc'.log = << >>)
    BY <1>1, <2>3 DEF Pending, Fits
  <2>5. Fits(doc', n, m)
    BY <1>1, <2>3, <2>4, FitsFrame
  <2> QED BY <2>1, <2>5 DEF LogsInv
<1>7. CASE ToggleSensitive
  <2>1. doc' = SetUndoSensitive(doc, ~doc.sensitive) /\ edits' = n /\ mended' = m
    BY <1>7 DEF ToggleSensitive
  <2>2. (~doc.sensitive) \in BOOLEAN
    OBVIOUS
  <2>3. Fits(SetUndoSensitive(doc, ~doc.sensitive), n, m)
    BY <1>1, <2>2, SensitiveFits
  <2> QED BY <2>1, <2>3 DEF LogsInv
<1>8. CASE SeekStep
  <2> DEFINE up == At(doc.el, target) < At(doc.el, doc.el.curr)
             d == IF up THEN UndoTop(doc) ELSE RedoTop(doc)
             el == IF up THEN MoveUndo(d.el) ELSE MoveRedo(d.el)
             moved == [d EXCEPT !.el = IF up THEN MoveUndo(@) ELSE MoveRedo(@)]
  <2>1. /\ doc' = CheckForVirginity(moved) \/ doc' = moved
        /\ edits' = n /\ mended' = k
    BY <1>8, Zenon DEF SeekStep, Mends
  <2>2. Fits(d, n, k)
    BY <1>1, UndoTopFits, RedoTopFits
  <2>3. moved = Moved(d, el)
    BY DEF Moved
  <2> HIDE DEF d, el, moved, k
  <2>4. Fits(doc', n, k)
    BY <2>1, <2>2, <2>3, ToldFits
  <2> QED BY <2>1, <2>4 DEF LogsInv
<1>9. CASE \E key \in Keys \cup {NoKey}, expired \in BOOLEAN, icon \in Icons :
             Done(key, expired, icon)
  <2>1. PICK key \in Keys \cup {NoKey}, expired \in BOOLEAN, icon \in Icons :
               Done(key, expired, icon)
    BY <1>9
  <2>2. /\ doc.born < MaxCommits /\ doc' = MaybeDone(doc, key, expired, icon, FALSE)
        /\ edits' = n /\ mended' = m
    BY <2>1 DEF Done
  <2>3. Fits(MaybeDone(doc, key, expired, icon, FALSE), n, m)
    BY <1>1, <2>2, MaybeDoneFits
  <2> QED BY <2>2, <2>3 DEF LogsInv
<1>10. CASE \E kind \in SaveKinds : Save(kind)
  <2>1. PICK kind \in SaveKinds : Save(kind)
    BY <1>10
  <2> DEFINE b == kind = "official"
  <2>2. doc' = Saved(doc, b) /\ edits' = n /\ mended' = m /\ b \in BOOLEAN
    BY <2>1 DEF Save
  <2> HIDE DEF b
  <2>3. Fits(Saved(doc, b), n, m)
    BY <1>1, <2>2, SavedFits
  <2> QED BY <2>2, <2>3 DEF LogsInv
<1>11. CASE \E node \in NodesOf(doc.el) : Seek(node)
  <2>1. doc' = doc /\ edits' = n /\ mended' = m
    BY <1>11 DEF Seek
  <2> QED BY <1>1, <2>1 DEF LogsInv
<1>12. CASE UNCHANGED vars
  BY <1>1, <1>12 DEF LogsInv, vars
<1> QED BY <1>2, <1>3, <1>4, <1>5, <1>6, <1>7, <1>8, <1>9, <1>10, <1>11, <1>12 DEF Next

\* An edit of an event on a stack is an edit of the stack.
LEMMA EditsOfMembers ==
  ASSUME NEW s \in Seq(Events), NEW i \in 1..Len(s)
  PROVE  Range(s[i].edits) \subseteq Range(EditsOf(s))
<1> DEFINE T == {u \in Seq(Events) : \A j \in 1..Len(u) : Range(u[j].edits) \subseteq Range(EditsOf(u))}
<1>1. << >> \in T
  <2>1. << >> \in Seq(Events) /\ \A j \in 1..Len(<< >>) : FALSE
    OBVIOUS
  <2> QED BY <2>1
<1>2. ASSUME NEW u \in Seq(Events), NEW e \in Events, u \in T PROVE Append(u, e) \in T
  <2> DEFINE a == Append(u, e)
  <2>1. /\ a \in Seq(Events) /\ Len(a) = Len(u) + 1 /\ a[Len(u) + 1] = e
        /\ \A j \in 1..Len(u) : a[j] = u[j]
    BY AppendProperties
  <2>2. e.edits \in Seq(Edits) /\ EditsOf(u) \in Seq(Edits)
    BY EditsOfGrows DEF Events
  <2>3. EditsOf(a) = EditsOf(u) \o e.edits
    BY EditsOfGrows
  <2>4. Range(EditsOf(a)) = Range(EditsOf(u)) \cup Range(e.edits)
    BY <2>2, <2>3, EditsFacts
  <2> HIDE DEF a
  <2>5. ASSUME NEW j \in 1..Len(a) PROVE Range(a[j].edits) \subseteq Range(EditsOf(a))
    <3>1. CASE j \in 1..Len(u)
      <4>1. Range(u[j].edits) \subseteq Range(EditsOf(u)) /\ a[j] = u[j]
        BY <1>2, <2>1, <3>1
      <4> QED BY <2>4, <4>1
    <3>2. CASE j \notin 1..Len(u)
      <4>1. Len(u) \in Nat
        OBVIOUS
      <4>2. j = Len(u) + 1
        BY <2>1, <3>2, <4>1
      <4> QED BY <2>1, <2>4, <4>2
    <3> QED BY <3>1, <3>2
  <2> QED BY <2>1, <2>5 DEF a
<1> HIDE DEF T
<1>3. s \in T
  BY <1>1, <1>2, SeqInduct
<1> QED BY <1>3 DEF T

LEMMA LogsAreFit == LogsInv => LogsFitContent
<1> SUFFICES ASSUME LogsInv PROVE UndoFitsContent /\ RedoFitsContent
  BY DEF LogsFitContent
<1> DEFINE q == Pending(doc)
           w == Reversed(doc.redo)
           r == EditsOf(w)
           u == EditsOf(doc.undo)
<1>1. PICK p \in Seq(Edits) : Holds(doc, p \o u, edits, mended)
  BY DEF LogsInv, Fits
<1>2. /\ q \in Seq(Edits) /\ r \in Seq(Edits) /\ u \in Seq(Edits) /\ doc.redo \in Seq(Events)
      /\ mended \in BOOLEAN /\ doc.content \in Seq(Edits)
  BY FitsTypes DEF LogsInv, Fits
<1> DEFINE s == p \o u
           tail == u \o q
<1>3. s \in Seq(Edits) /\ tail \in Seq(Edits) /\ s \o q = p \o tail
  <2> HIDE DEF u, q
  <2>1. s \in Seq(Edits) /\ tail \in Seq(Edits)
    BY <1>2, EditsConcat
  <2>2. (p \o u) \o q = p \o (u \o q)
    <3>1. u \in Seq(Edits) /\ q \in Seq(Edits)
      BY <1>2
    <3> QED BY <3>1, EditsConcat, Zenon
  <2> QED BY <2>1, <2>2
<1>4. doc.content = s \o q /\ InOrder(s, q, r, edits, mended)
  BY <1>1 DEF Holds
<1>5. UndoFitsContent
  <2> DEFINE c == doc.content
             l == Len(p)
             t == Len(tail)
  <2> HIDE DEF tail, s
  <2>1. c = p \o tail
    BY <1>3, <1>4
  <2>2. Len(c) = l + t /\ l \in Nat /\ t \in Nat
    BY <1>3, <2>1, ConcatProperties
  <2>3. tail = SubSeq(c, l + 1, l + t)
    <3>1. CASE t = 0
      <4>1. l + 1 \in Int /\ l + t \in Int /\ l + t < l + 1
        BY <2>2, <3>1
      <4>2. tail = << >>
        BY <1>3, <3>1
      <4> HIDE DEF l, t
      <4> QED BY <4>1, <4>2, SubSeqEmpty
    <3>2. CASE t # 0
      <4>1. l + 1 \in (l + 1)..(l + t) /\ l + t \in (l + 1)..(l + t)
        BY <2>2, <3>2
      <4>2. SubSeq(p \o tail, l + 1, l + t) = SubSeq(tail, l + 1 - l, l + t - l)
        <5> HIDE DEF c
        <5> QED BY <1>3, <4>1, SubSeqOfConcat2
      <4>3. l + 1 - l = 1 /\ l + t - l = t
        BY <2>2
      <4>4. SubSeq(tail, 1, t) = tail
        BY <1>3, SubSeqFull
      <4> HIDE DEF l, t
      <4> QED BY <2>1, <4>2, <4>3, <4>4
    <3> QED BY <3>1, <3>2
  <2> HIDE DEF l, t, c
  <2>4. Len(c) - t + 1 = l + 1 /\ t <= Len(c)
    BY <2>2
  <2>5. tail = SubSeq(c, Len(c) - t + 1, Len(c)) /\ t <= Len(c)
    BY <2>2, <2>3, <2>4
  <2> QED BY <2>5 DEF UndoFitsContent, c, t, tail, u, q
<1>6. RedoFitsContent
  <2> SUFFICES ASSUME ~mended, q = << >>,
                      NEW i \in DOMAIN doc.redo, NEW j \in DOMAIN doc.redo[i].edits,
                      NEW k \in DOMAIN doc.content
               PROVE  doc.content[k] < doc.redo[i].edits[j]
    BY DEF RedoFitsContent
  <2>1. doc.content = s
    <3> HIDE DEF s
    <3> QED BY <1>3, <1>4, EditsConcat
  <2>2. doc.content[k] \in Range(s)
    BY <2>1 DEF Range
  <2> HIDE DEF s, r, q
  <2>3. \A x \in Range(s), y \in Range(r) : x < y
    <3>1. Increasing(s \o r)
      BY <1>4 DEF InOrder
    <3> QED BY <1>2, <1>3, <3>1, EditsFacts
  <2>4. doc.redo[i].edits[j] \in Range(r)
    <3> DEFINE l == Len(doc.redo)
    <3>1. i \in 1..l /\ l \in Nat
      BY <1>2
    <3>2. w \in Seq(Events) /\ Len(w) = l /\ \A x \in 1..l : w[x] = doc.redo[l + 1 - x]
      BY <1>2, ReversedFacts
    <3> HIDE DEF l, w
    <3> DEFINE x == l + 1 - i
    <3>3. x \in 1..l /\ l + 1 - x = i
      BY <3>1
    <3>4. w[x] = doc.redo[i] /\ x \in 1..Len(w)
      BY <3>2, <3>3
    <3> HIDE DEF x
    <3>5. Range(w[x].edits) \subseteq Range(EditsOf(w))
      BY <3>2, <3>4, EditsOfMembers
    <3>6. doc.redo[i].edits[j] \in Range(doc.redo[i].edits)
      BY DEF Range
    <3> QED BY <3>4, <3>5, <3>6 DEF r
  <2> QED BY <2>2, <2>3, <2>4
<1> QED BY <1>5, <1>6

\* Each log on either stack fits the tree on which it will be performed: what
\* can be undone is the end of what was applied to the document, in its order,
\* with the open transaction last, and an event that can be redone is younger
\* than all that is in the document.  Interrupted and unfinished transactions,
\* merges, expiry, cancel and saves do not change that, whatever the limit of
\* the stack, and whatever the history makes of them.
THEOREM LogsAlwaysFit == Spec => []LogsFitContent
<1>1. LogsInv /\ [Next]_vars => LogsInv'
  BY LogsStep
<1> QED BY <1>1, LogsInit, LogsAreFit, PTL DEF Spec

\* The events of a document, those that were undone after the others.
Line(d) == d.undo \o Reversed(d.redo)

\* The content at row i, if what cannot be undone is p.
Place(d, p, i) == p \o EditsOf(SubSeq(Line(d), 1, i - 1))

LEMMA Prefix ==
  ASSUME NEW S, NEW s \in Seq(S), NEW n \in 0..Len(s)
  PROVE  /\ SubSeq(s, 1, n) \in Seq(S) /\ Len(SubSeq(s, 1, n)) = n
         /\ \A i \in 1..n : SubSeq(s, 1, n)[i] = s[i]
<1>1. Len(s) \in Nat /\ n \in Nat /\ \A i \in 1..n : s[i] \in S
  OBVIOUS
<1>2. /\ SubSeq(s, 1, n) \in Seq(S)
      /\ Len(SubSeq(s, 1, n)) = IF 1 <= n THEN n - 1 + 1 ELSE 0
      /\ \A i \in 1..(n - 1 + 1) : SubSeq(s, 1, n)[i] = s[1 + i - 1]
  BY <1>1, SubSeqProperties
<1>3. n - 1 + 1 = n /\ \A i \in 1..n : 1 + i - 1 = i
  BY <1>1
<1> QED BY <1>1, <1>2, <1>3

LEMMA SamePrefix ==
  ASSUME NEW S, NEW s \in Seq(S), NEW t \in Seq(S), NEW n \in 0..Len(s), n \in 0..Len(t),
         \A i \in 1..n : s[i] = t[i]
  PROVE  SubSeq(s, 1, n) = SubSeq(t, 1, n)
<1> DEFINE a == SubSeq(s, 1, n)
           b == SubSeq(t, 1, n)
<1>1. a \in Seq(S) /\ Len(a) = n /\ \A i \in 1..n : a[i] = s[i]
  BY Prefix
<1>2. b \in Seq(S) /\ Len(b) = n /\ \A i \in 1..n : b[i] = t[i]
  BY Prefix
<1> HIDE DEF a, b
<1>3. a = b
  BY <1>1, <1>2, SeqEqual
<1> QED BY <1>3 DEF a, b

LEMMA LineFacts ==
  ASSUME NEW E, NEW d \in Docs(E)
  PROVE  /\ Line(d) \in Seq(Events) /\ Len(Line(d)) = Len(d.undo) + Len(d.redo)
         /\ Len(d.undo) \in Nat /\ Len(d.redo) \in Nat
         /\ \A i \in 1..Len(d.undo) : Line(d)[i] = d.undo[i]
         /\ d.redo = << >> => Line(d) = d.undo
<1> DEFINE u == d.undo
           r == Reversed(d.redo)
           c == u \o r
<1>1. u \in Seq(Events) /\ d.redo \in Seq(Events) /\ Len(u) \in Nat /\ Len(d.redo) \in Nat
  BY DocTypes
<1>2. r \in Seq(Events) /\ Len(r) = Len(d.redo)
  BY <1>1, ReversedFacts
<1>3. d.redo = << >> => r = << >>
  BY DEF Reversed
<1> HIDE DEF u, r
<1>4. /\ c \in Seq(Events) /\ Len(c) = Len(u) + Len(r)
      /\ \A i \in 1..(Len(u) + Len(r)) : c[i] = IF i <= Len(u) THEN u[i] ELSE r[i - Len(u)]
  BY <1>1, <1>2, ConcatProperties
<1>5. \A i \in 1..Len(u) : c[i] = u[i]
  <2>1. \A i \in 1..Len(u) : i \in 1..(Len(u) + Len(r)) /\ i <= Len(u)
    BY <1>1, <1>2
  <2> QED BY <1>4, <2>1
<1>6. r = << >> => c = u
  BY <1>1, ConcatEmptySeq
<1>7. Line(d) = c
  BY DEF Line, u, r
<1> HIDE DEF c
<1> QED BY <1>1, <1>2, <1>3, <1>4, <1>5, <1>6, <1>7 DEF u

LEMMA PlacesAlike ==
  ASSUME NEW E, NEW d \in Docs(E), NEW F, NEW x \in Docs(F), NEW n \in 0..Len(Line(d)),
         n \in 0..Len(Line(x)), \A i \in 1..n : Line(x)[i] = Line(d)[i]
  PROVE  \A p, i : i \in 1..(n + 1) => Place(x, p, i) = Place(d, p, i)
<1> SUFFICES ASSUME NEW p, NEW i, i \in 1..(n + 1) PROVE Place(x, p, i) = Place(d, p, i)
  OBVIOUS
<1> DEFINE k == i - 1
<1>1. /\ Line(d) \in Seq(Events) /\ Line(x) \in Seq(Events)
  BY LineFacts
<1>2. n \in Nat /\ Len(Line(d)) \in Nat /\ Len(Line(x)) \in Nat
  BY <1>1
<1>3. k \in 0..Len(Line(x)) /\ k \in 0..Len(Line(d)) /\ k \in 0..n
  BY <1>2
<1> HIDE DEF k
<1>4. \A j \in 1..k : Line(x)[j] = Line(d)[j]
  <2>1. \A j \in 1..k : j \in 1..n
    BY <1>2, <1>3
  <2> QED BY <2>1
<1>5. SubSeq(Line(x), 1, k) = SubSeq(Line(d), 1, k)
  BY <1>1, <1>3, <1>4, SamePrefix
<1> QED BY <1>5 DEF Place, k

\* What is behind the current row is all that is lost.
LEMMA ClearRedoPlaces ==
  ASSUME NEW d, DocOK(d)
  PROVE  LET x == ClearRedo(d) IN
         /\ DocOK(x) /\ x.redo = << >> /\ x.undo = d.undo
         /\ x.el.saved = d.el.saved /\ x.el.curr = d.el.curr /\ x.modified = d.modified
         /\ x.content = d.content /\ Pending(x) = Pending(d) /\ x.born = d.born
         /\ Len(x.el.rows) = Len(d.undo) + 1 /\ Len(x.el.rows) <= Len(d.el.rows)
         /\ \A i \in 1..Len(x.el.rows) :
              /\ x.el.rows[i] = d.el.rows[i]
              /\ \A p : Place(x, p, i) = Place(d, p, i)
<1> DEFINE x == ClearRedo(d)
           u == Len(d.undo)
           r == Len(d.redo)
<1>1. d \in Docs(Logs) /\ Mirrors(d)
  BY DEF DocOK
<1>2. /\ x \in Docs({x.el}) /\ x.redo = << >> /\ x.undo = d.undo /\ x.modified = d.modified
      /\ x.el = (IF d.redo = << >> THEN d.el ELSE ClearRedoRows(d.el))
      /\ x.content = d.content /\ x.log = d.log /\ x.partial = d.partial /\ x.born = d.born
  BY <1>1, ClearRedoIs
<1>3. DocOK(x) /\ x.el.saved = d.el.saved
  BY ClearRedoOK
<1>4. Pending(x) = Pending(d)
  BY <1>2 DEF Pending
<1> HIDE DEF x, u, r
<1>5. u \in Nat /\ r \in Nat /\ Len(d.el.rows) = u + 1 + r /\ Len(x.el.rows) = u + 1
  <2>1. Len(d.el.rows) = u + 1 + r /\ u \in Nat /\ r \in Nat
    BY <1>1, DocTypes DEF Mirrors, u, r
  <2>2. Len(x.el.rows) = u + 1 + 0
    <3>1. Len(x.el.rows) = Len(x.undo) + 1 + Len(x.redo)
      BY <1>3 DEF DocOK, Mirrors
    <3>2. Len(x.redo) = 0
      BY <1>2
    <3> QED BY <1>2, <3>1, <3>2 DEF u
  <2> QED BY <2>1, <2>2
<1>6. LogOK(d.el, u + 1) /\ d.el.rows \in Seq(Rows) /\ d.el.curr = d.el.rows[u + 1].node
  <2>1. LogOK(d.el, u + 1)
    BY <1>1 DEF Mirrors, u
  <2>2. d.el \in Logs /\ d.el.curr = d.el.rows[u + 1].node
    BY <2>1 DEF LogOK, TreeOK, CursorOK
  <2> QED BY <2>1, <2>2 DEF Logs
<1>7. \A i \in 1..(u + 1) : x.el.rows[i] = d.el.rows[i]
  <2>1. CASE d.redo = << >>
    BY <1>2, <2>1
  <2>2. CASE d.redo # << >>
    <3>1. r > 0
      <4>1. d.redo \in Seq(Events)
        BY <1>1, DocTypes
      <4> QED BY <1>5, <2>2, <4>1 DEF r
    <3>2. u + 1 < Len(d.el.rows) /\ u + 1 \in 0..Len(d.el.rows)
      BY <1>5, <3>1
    <3>3. x.el.rows = SubSeq(d.el.rows, 1, u + 1)
      BY <1>2, <1>6, <2>2, <3>2, ClearRedoRowsFacts
    <3> QED BY <1>6, <3>2, <3>3, Prefix
  <2> QED BY <2>1, <2>2
<1>8. x.el.curr = d.el.curr
  <2>1. x.el.curr = x.el.rows[u + 1].node
    BY <1>2, <1>3 DEF DocOK, Mirrors, LogOK, CursorOK, u
  <2>2. u + 1 \in 1..(u + 1)
    BY <1>5
  <2> QED BY <1>6, <1>7, <2>1, <2>2
<1>9. \A p, i : i \in 1..(u + 1) => Place(x, p, i) = Place(d, p, i)
  <2>1. /\ Line(d) \in Seq(Events) /\ Len(Line(d)) = u + r
        /\ \A i \in 1..u : Line(d)[i] = d.undo[i]
    BY <1>1, LineFacts DEF u, r
  <2>2. Line(x) = d.undo
    BY <1>2, LineFacts
  <2>3. u \in 0..Len(Line(d)) /\ u \in 0..Len(Line(x)) /\ \A i \in 1..u : Line(x)[i] = Line(d)[i]
    BY <1>5, <2>1, <2>2 DEF u
  <2> QED BY <1>1, <1>2, <2>3, PlacesAlike
<1>10. Len(x.el.rows) = Len(d.undo) + 1 /\ Len(x.el.rows) <= Len(d.el.rows)
  BY <1>5 DEF u
<1>11. \A i \in 1..Len(x.el.rows) : x.el.rows[i] = d.el.rows[i] /\ \A p : Place(x, p, i) = Place(d, p, i)
  BY <1>5, <1>7, <1>9
<1> QED BY <1>2, <1>3, <1>4, <1>8, <1>10, <1>11 DEF x

\* A new event has a row of its own, which was never saved.
LEMMA PushPlaces ==
  ASSUME NEW d, DocOK(d), d.redo = << >>, d.born < MaxCommits,
         NEW icon \in EventIcons, NEW zone \in BOOLEAN
  PROVE  LET x == Push(d, icon, zone) IN
         /\ DocOK(x) /\ x.redo = << >> /\ x.el.saved = d.el.saved
         /\ x.content = d.content /\ x.born = d.born + 1
         /\ EditsOf(x.undo) = EditsOf(d.undo) \o Pending(d)
         /\ Len(x.undo) = Len(d.undo) + 1
         /\ \A i \in 1..Len(d.undo) : x.undo[i] = d.undo[i]
         /\ Len(x.el.rows) = Len(d.el.rows) + 1
         /\ x.el.rows[Len(d.el.rows) + 1].node # d.el.saved
         /\ x.el.rows[Len(d.el.rows) + 1].event = d.born + 1
         /\ \A i \in 1..Len(d.el.rows) :
              /\ x.el.rows[i] = d.el.rows[i]
              /\ \A p : Place(x, p, i) = Place(d, p, i)
<1> DEFINE x == Push(d, icon, zone)
           u == Len(d.undo)
           e == NewEvent(d, zone)
           n == Len(d.el.rows)
<1>1. d \in Docs(Logs) /\ Mirrors(d)
  BY DEF DocOK
<1>2. /\ x \in Docs({x.el}) /\ x.undo = Append(d.undo, e) /\ e \in Events
      /\ x.redo = d.redo /\ x.content = d.content /\ x.born = d.born + 1
  BY <1>1, PushIs
<1>3. /\ DocOK(x) /\ x.el.saved = d.el.saved
      /\ \E row \in Rows : /\ row.node = d.born + 1 /\ row.event = d.born + 1
                           /\ x.el.rows = Append(d.el.rows, row)
  BY PushOK
<1>4. e.edits = Pending(d)
  BY DEF NewEvent
<1> HIDE DEF x, u, e, n
<1>5. PICK row \in Rows : /\ row.node = d.born + 1 /\ row.event = d.born + 1
                          /\ x.el.rows = Append(d.el.rows, row)
  BY <1>3
<1>6. /\ d.undo \in Seq(Events) /\ u \in Nat /\ d.el.rows \in Seq(Rows) /\ n \in Nat
      /\ n = u + 1 /\ d.el.saved \in 0..d.born /\ d.born \in Nat
  <2>1. d.undo \in Seq(Events) /\ u \in Nat /\ d.el \in Logs /\ d.born \in Nat
    BY <1>1, DocTypes DEF u
  <2>2. d.el.rows \in Seq(Rows) /\ n \in Nat
    BY <2>1 DEF Logs, n
  <2>3. Len(d.redo) = 0
    OBVIOUS
  <2>4. n = u + 1 + 0 /\ d.el.saved \in 0..d.born
    BY <1>1, <2>3 DEF Mirrors, u, n
  <2> QED BY <2>1, <2>2, <2>4
<1>7. /\ Len(x.el.rows) = n + 1 /\ x.el.rows[n + 1] = row
      /\ \A i \in 1..n : x.el.rows[i] = d.el.rows[i]
  BY <1>5, <1>6, AppendProperties DEF n
<1>8. Len(x.undo) = u + 1 /\ \A i \in 1..u : x.undo[i] = d.undo[i]
  BY <1>2, <1>6, AppendProperties DEF u
<1>9. EditsOf(x.undo) = EditsOf(d.undo) \o Pending(d)
  BY <1>2, <1>4, <1>6, EditsOfGrows
<1>10. x.el.rows[n + 1].node # d.el.saved
  BY <1>5, <1>6, <1>7
<1>11. \A p, i : i \in 1..n => Place(x, p, i) = Place(d, p, i)
  <2>1. Line(d) = d.undo /\ Line(x) = x.undo
    BY <1>1, <1>2, LineFacts
  <2>2. u \in 0..Len(Line(d)) /\ u \in 0..Len(Line(x)) /\ \A i \in 1..u : Line(x)[i] = Line(d)[i]
    BY <1>6, <1>8, <2>1 DEF u
  <2>3. \A p, i : i \in 1..(u + 1) => Place(x, p, i) = Place(d, p, i)
    BY <1>1, <1>2, <2>2, PlacesAlike
  <2> QED BY <1>6, <2>3
<1>12. \A i \in 1..n : x.el.rows[i] = d.el.rows[i] /\ \A p : Place(x, p, i) = Place(d, p, i)
  BY <1>7, <1>11
<1> QED BY <1>2, <1>3, <1>5, <1>7, <1>8, <1>9, <1>10, <1>12 DEF x, u, n

\* A change that joins the last event alters the current row only.
LEMMA CoalescePlaces ==
  ASSUME NEW d, DocOK(d), d.redo = << >>, d.undo # << >>
  PROVE  LET x == Coalesce(d) IN
         /\ DocOK(x) /\ x.redo = << >> /\ x.el = d.el
         /\ x.content = d.content /\ x.born = d.born
         /\ EditsOf(x.undo) = EditsOf(d.undo) \o Pending(d)
         /\ Len(x.undo) = Len(d.undo)
         /\ \A i \in 1..Len(d.undo) : x.undo[i].id = d.undo[i].id
         /\ \A i \in 1..Len(d.el.rows) :
              d.el.rows[i].node # d.el.curr => \A p : Place(x, p, i) = Place(d, p, i)
<1> DEFINE x == Coalesce(d)
           u == Len(d.undo)
           n == Len(d.el.rows)
<1>1. d \in Docs(Logs) /\ Mirrors(d)
  BY DEF DocOK
<1>2. /\ x \in Docs({d.el}) /\ x.undo = AddedTo(d.undo, Pending(d)) /\ x.el = d.el
      /\ x.redo = d.redo /\ x.content = d.content /\ x.born = d.born
  BY <1>1, CoalesceIs
<1>3. DocOK(x)
  BY CoalesceOK
<1> HIDE DEF x, u, n
<1>4. /\ d.undo \in Seq(Events) /\ u \in Nat /\ n \in Nat /\ n = u + 1
      /\ Pending(d) \in Seq(Edits) /\ d.el.curr = d.el.rows[u + 1].node
  <2>1. d.undo \in Seq(Events) /\ u \in Nat
    BY <1>1, DocTypes DEF u
  <2>2. Len(d.redo) = 0
    OBVIOUS
  <2>3. n = u + 1 + 0 /\ LogOK(d.el, u + 1)
    BY <1>1, <2>2 DEF Mirrors, u, n
  <2>4. d.el.curr = d.el.rows[u + 1].node
    BY <2>3 DEF LogOK, CursorOK
  <2> QED BY <1>1, <2>1, <2>3, <2>4, PendingType
<1>5. /\ Len(x.undo) = u /\ \A i \in 1..u : x.undo[i].id = d.undo[i].id
  BY <1>2, <1>4, AddedToFacts DEF u
<1>6. \A i \in 1..(u - 1) : x.undo[i] = d.undo[i]
  BY <1>2, <1>4, AddedToFacts DEF u
<1>7. EditsOf(x.undo) = EditsOf(d.undo) \o Pending(d)
  BY <1>2, <1>4, EditsOfStacks
<1>8. u > 0
  BY <1>4 DEF u
<1>9. \A p, i : i \in 1..u => Place(x, p, i) = Place(d, p, i)
  <2>1. Line(d) = d.undo /\ Line(x) = x.undo
    BY <1>1, <1>2, LineFacts
  <2> DEFINE k == u - 1
  <2>2. k \in 0..Len(Line(d)) /\ k \in 0..Len(Line(x)) /\ \A i \in 1..k : Line(x)[i] = Line(d)[i]
    BY <1>4, <1>5, <1>6, <1>8, <2>1 DEF u
  <2>3. k + 1 = u
    BY <1>4
  <2> HIDE DEF k
  <2>4. \A p, i : i \in 1..(k + 1) => Place(x, p, i) = Place(d, p, i)
    BY <1>1, <1>2, <2>2, PlacesAlike
  <2> QED BY <2>3, <2>4
<1>10. \A i \in 1..n : d.el.rows[i].node # d.el.curr => \A p : Place(x, p, i) = Place(d, p, i)
  <2> SUFFICES ASSUME NEW i \in 1..n, d.el.rows[i].node # d.el.curr
               PROVE  \A p : Place(x, p, i) = Place(d, p, i)
    OBVIOUS
  <2>1. i # u + 1
    BY <1>4
  <2>2. i \in 1..u
    BY <1>4, <2>1
  <2> QED BY <1>9, <2>2
<1> QED BY <1>2, <1>3, <1>5, <1>7, <1>10 DEF x, u, n

LEMMA EditsOfCut ==
  ASSUME NEW s \in Seq(Events), NEW k \in 0..Len(s), NEW j \in 0..(Len(s) - k)
  PROVE  LET a == SubSeq(s, 1, k)
             w == SubSeq(s, k + 1, Len(s))
         IN
         /\ a \in Seq(Events) /\ w \in Seq(Events) /\ Len(w) = Len(s) - k
         /\ \A i \in 1..Len(w) : w[i] = s[i + k]
         /\ EditsOf(SubSeq(s, 1, k + j)) = EditsOf(a) \o EditsOf(SubSeq(w, 1, j))
<1> DEFINE a == SubSeq(s, 1, k)
           w == SubSeq(s, k + 1, Len(s))
           b == SubSeq(w, 1, j)
           v == SubSeq(s, k + 1, k + j)
           l == Len(s)
<1>1. l \in Nat /\ k \in Nat /\ j \in Nat /\ k <= l /\ j <= l - k /\ \A i \in 1..l : s[i] \in Events
  OBVIOUS
<1>2. a \in Seq(Events)
  BY Prefix
<1>3. w \in Seq(Events) /\ Len(w) = l - k /\ \A i \in 1..(l - k) : w[i] = s[i + k]
  <2>1. k + 1 \in Int /\ l \in Int /\ \A i \in (k + 1)..l : s[i] \in Events
    BY <1>1
  <2>2. /\ w \in Seq(Events) /\ Len(w) = (IF k + 1 <= l THEN l - (k + 1) + 1 ELSE 0)
        /\ \A i \in 1..(l - (k + 1) + 1) : w[i] = s[(k + 1) + i - 1]
    BY <2>1, SubSeqProperties
  <2>3. l - (k + 1) + 1 = l - k /\ \A i \in 1..(l - k) : (k + 1) + i - 1 = i + k
    BY <1>1
  <2> HIDE DEF w, l
  <2> QED BY <1>1, <2>2, <2>3
<1>4. /\ v \in Seq(Events) /\ Len(v) = j /\ \A i \in 1..j : v[i] = s[i + k]
  <2>1. k + 1 \in Int /\ k + j \in Int /\ \A i \in (k + 1)..(k + j) : s[i] \in Events
    BY <1>1
  <2>2. /\ v \in Seq(Events) /\ Len(v) = (IF k + 1 <= k + j THEN (k + j) - (k + 1) + 1 ELSE 0)
        /\ \A i \in 1..((k + j) - (k + 1) + 1) : v[i] = s[(k + 1) + i - 1]
    BY <2>1, SubSeqProperties
  <2>3. (k + j) - (k + 1) + 1 = j /\ \A i \in 1..j : (k + 1) + i - 1 = i + k
    BY <1>1
  <2> HIDE DEF v
  <2> QED BY <1>1, <2>2, <2>3
<1>5. a \o v = SubSeq(s, 1, k + j)
  <2>1. 1 \in 1..(l + 1) /\ k \in (1 - 1)..l /\ k + j \in k..l
    BY <1>1
  <2> QED BY <2>1, ConcatAdjacentSubSeq
<1> HIDE DEF a, w, v, l
<1>6. b \in Seq(Events) /\ Len(b) = j /\ \A i \in 1..j : b[i] = w[i]
  <2>1. j \in 0..Len(w)
    BY <1>1, <1>3
  <2> QED BY <1>3, <2>1, Prefix
<1> HIDE DEF b
<1>7. b = v
  <2>1. \A i \in 1..j : b[i] = v[i]
    <3>1. \A i \in 1..j : i \in 1..(l - k)
      BY <1>1
    <3> QED BY <1>3, <1>4, <1>6, <3>1
  <2> QED BY <1>4, <1>6, <2>1, SeqEqual
<1>8. EditsOf(SubSeq(s, 1, k + j)) = EditsOf(a) \o EditsOf(b)
  <2>1. EditsOf(a \o v) = EditsOf(a) \o EditsOf(v)
    BY <1>2, <1>4, EditsOfConcat
  <2> QED BY <1>5, <1>7, <2>1
<1> QED BY <1>2, <1>3, <1>8 DEF a, w, b, l

\* What the oldest k events did cannot be undone any more.
Cut(z, x, k, a) ==
  /\ k \in Nat /\ a \in Seq(Edits)
  /\ k # 0 => Len(z.undo) = UndoSize + k
  /\ Len(x.undo) = Len(z.undo) - k /\ Len(x.el.rows) = Len(z.el.rows) - k
  /\ \A i \in 1..Len(x.undo) : x.undo[i] = z.undo[i + k]
  /\ Outlives(x.el, z.el, Len(z.undo) + 1, k)
  /\ EditsOf(z.undo) = a \o EditsOf(x.undo)
  /\ \A p \in Seq(Edits) : \A i \in 1..Len(x.el.rows) : Place(x, p \o a, i) = Place(z, p, i + k)

LEMMA ExpirePlaces ==
  ASSUME NEW z, DocOK(z), z.redo = << >>, UndoSize > 1
  PROVE  LET x == Expire(z) IN
         /\ DocOK(x) /\ x.redo = << >> /\ x.content = z.content
         /\ Pending(x) = Pending(z) /\ x.born = z.born /\ x.modified = z.modified
         /\ \E k, a : Cut(z, x, k, a)
<1> DEFINE x == Expire(z)
           l == Len(z.undo)
           k == IF l > UndoSize THEN l - UndoSize ELSE 0
           a == EditsOf(SubSeq(z.undo, 1, k))
           w == SubSeq(z.undo, k + 1, l)
<1>1. z \in Docs(Logs) /\ Mirrors(z)
  BY DEF DocOK
<1>2. /\ x \in Docs({x.el}) /\ x.undo = w /\ x.content = z.content /\ x.log = z.log
      /\ x.partial = z.partial /\ x.redo = z.redo /\ x.born = z.born /\ x.modified = z.modified
  BY <1>1, ExpireIs
<1>3. DocOK(x) /\ Outlives(x.el, z.el, l + 1, k)
  BY ExpireOK
<1>4. z.undo \in Seq(Events) /\ l \in Nat
  BY <1>1, DocTypes
<1>5. Pending(x) = Pending(z)
  BY <1>2 DEF Pending
<1> HIDE DEF x, l
<1>6. k \in 0..l /\ k \in Nat /\ (k # 0 => l = UndoSize + k)
  BY <1>4, UndoSizeAssumption
<1>7. Len(z.el.rows) = l + 1
  <2>1. Len(z.redo) = 0
    OBVIOUS
  <2>2. Len(z.el.rows) = l + 1 + 0
    BY <1>1, <2>1 DEF Mirrors, l
  <2> QED BY <1>4, <2>2
<1> HIDE DEF k, w, a
<1>8. ASSUME NEW j \in 0..(l - k)
      PROVE  /\ SubSeq(z.undo, 1, k) \in Seq(Events) /\ w \in Seq(Events) /\ Len(w) = l - k
             /\ \A i \in 1..Len(w) : w[i] = z.undo[i + k]
             /\ EditsOf(SubSeq(z.undo, 1, k + j)) = a \o EditsOf(SubSeq(w, 1, j))
  BY <1>4, <1>6, EditsOfCut DEF w, a, l
<1>9. l - k \in 0..(l - k) /\ k + (l - k) = l
  BY <1>4, <1>6
<1>10. /\ SubSeq(z.undo, 1, k) \in Seq(Events) /\ w \in Seq(Events) /\ Len(w) = l - k
       /\ \A i \in 1..Len(w) : w[i] = z.undo[i + k]
  BY <1>8, <1>9
<1>11. a \in Seq(Edits)
  BY <1>10, EditsOfGrows DEF a
<1>12. EditsOf(z.undo) = a \o EditsOf(x.undo)
  <2>1. EditsOf(SubSeq(z.undo, 1, k + (l - k))) = a \o EditsOf(SubSeq(w, 1, l - k))
    BY <1>8, <1>9
  <2>2. SubSeq(z.undo, 1, l) = z.undo
    BY <1>4, SubSeqFull DEF l
  <2>3. SubSeq(w, 1, Len(w)) = w
    BY <1>10, SubSeqFull
  <2> QED BY <1>2, <1>9, <1>10, <2>1, <2>2, <2>3
<1>13. Len(x.el.rows) = Len(z.el.rows) - k /\ Len(x.el.rows) = (l - k) + 1
  <2>1. Len(x.el.rows) = Len(z.el.rows) - k
    BY <1>3 DEF Outlives
  <2> QED BY <1>4, <1>6, <1>7, <2>1
<1>14. ASSUME NEW p \in Seq(Edits), NEW i \in 1..((l - k) + 1)
       PROVE  Place(x, p \o a, i) = Place(z, p, i + k)
  <2> DEFINE j == i - 1
             b == EditsOf(SubSeq(w, 1, j))
  <2>1. j \in 0..(l - k) /\ (i + k) - 1 = k + j
    BY <1>4, <1>6
  <2>2. Line(z) = z.undo /\ Line(x) = w
    <3>1. x.redo = << >>
      BY <1>2
    <3> QED BY <1>1, <1>2, <3>1, LineFacts
  <2>3. Place(x, p \o a, i) = (p \o a) \o b
    BY <2>2 DEF Place
  <2> HIDE DEF j
  <2>4. EditsOf(SubSeq(z.undo, 1, k + j)) = a \o b
    BY <1>8, <2>1
  <2>5. Place(z, p, i + k) = p \o (a \o b)
    BY <2>1, <2>2, <2>4 DEF Place
  <2>6. b \in Seq(Edits)
    <3>1. j \in 0..Len(w)
      BY <1>10, <2>1
    <3>2. SubSeq(w, 1, j) \in Seq(Events)
      BY <1>10, <3>1, Prefix
    <3> QED BY <3>2, EditsOfGrows
  <2> HIDE DEF b
  <2>7. (p \o a) \o b = p \o (a \o b)
    BY <1>11, <2>6, EditsConcat, Zenon
  <2> QED BY <2>3, <2>5, <2>7
<1>15. Cut(z, x, k, a)
  <2>1. Len(x.undo) = Len(z.undo) - k
    BY <1>2, <1>10 DEF l
  <2>2. \A i \in 1..Len(x.undo) : x.undo[i] = z.undo[i + k]
    BY <1>2, <1>10
  <2>3. \A p \in Seq(Edits) : \A i \in 1..Len(x.el.rows) : Place(x, p \o a, i) = Place(z, p, i + k)
    BY <1>13, <1>14
  <2>4. Outlives(x.el, z.el, Len(z.undo) + 1, k) /\ (k # 0 => Len(z.undo) = UndoSize + k)
    BY <1>3, <1>6 DEF l
  <2> QED BY <1>6, <1>11, <1>12, <1>13, <2>1, <2>2, <2>3, <2>4 DEF Cut
<1>16. \E h, b : Cut(z, x, h, b)
  BY <1>15
<1> QED BY <1>2, <1>3, <1>5, <1>16 DEF x

-----------------------------------------------------------------------------
(* No two rows show the same event, but for the first, which shows none.   *)

Named(el, b) ==
  \A i \in 2..Len(el.rows) :
    /\ el.rows[i].event \in 1..b
    /\ \A j \in 2..Len(el.rows) : el.rows[i].event = el.rows[j].event => i = j

LEMMA NamedPrefix ==
  ASSUME NEW el, NEW b, Named(el, b), NEW x, Len(el.rows) \in Nat, Len(x.rows) \in Nat,
         Len(x.rows) <= Len(el.rows),
         \A i \in 1..Len(x.rows) : x.rows[i] = el.rows[i]
  PROVE  Named(x, b)
<1> DEFINE n == Len(x.rows)
           l == Len(el.rows)
<1> HIDE DEF n, l
<1>1. \A i \in 2..n : i \in 1..n /\ i \in 2..l
  BY DEF n, l
<1>2. \A i \in 2..n : x.rows[i] = el.rows[i]
  BY <1>1 DEF n
<1>3. \A i \in 2..l : el.rows[i].event \in 1..b
                      /\ \A j \in 2..l : el.rows[i].event = el.rows[j].event => i = j
  BY DEF Named, l
<1>4. \A i \in 2..n : x.rows[i].event \in 1..b
                      /\ \A j \in 2..n : x.rows[i].event = x.rows[j].event => i = j
  BY <1>1, <1>2, <1>3
<1> QED BY <1>4 DEF Named, n

LEMMA NamedGrows ==
  ASSUME NEW el, NEW b \in Nat, Named(el, b), NEW x, Len(el.rows) \in Nat,
         Len(x.rows) = Len(el.rows) + 1, x.rows[Len(el.rows) + 1].event = b + 1,
         \A i \in 1..Len(el.rows) : x.rows[i] = el.rows[i]
  PROVE  Named(x, b + 1)
<1> DEFINE l == Len(el.rows)
           n == Len(x.rows)
<1> HIDE DEF l, n
<1>1. l \in Nat /\ n = l + 1 /\ x.rows[n].event = b + 1
  BY DEF l, n
<1>2. \A i \in 2..n : i = n \/ (i \in 2..l /\ i \in 1..l)
  BY <1>1
<1>3. \A i \in 2..l : x.rows[i] = el.rows[i]
  <2>1. \A i \in 2..l : i \in 1..l
    BY <1>1
  <2> QED BY <2>1 DEF l
<1>4. \A i \in 2..l : el.rows[i].event \in 1..b
                      /\ \A j \in 2..l : el.rows[i].event = el.rows[j].event => i = j
  BY DEF Named, l
<1>5. b + 1 \notin 1..b /\ b + 1 \in 1..(b + 1) /\ \A e \in 1..b : e \in 1..(b + 1)
  OBVIOUS
<1>6. ASSUME NEW i \in 2..n
      PROVE  /\ x.rows[i].event \in 1..(b + 1)
             /\ \A j \in 2..n : x.rows[i].event = x.rows[j].event => i = j
  <2>1. CASE i = n
    <3>1. x.rows[i].event = b + 1
      BY <1>1, <2>1
    <3>2. \A j \in 2..n : j = n \/ x.rows[j].event \in 1..b
      BY <1>2, <1>3, <1>4
    <3> QED BY <1>5, <2>1, <3>1, <3>2
  <2>2. CASE i # n
    <3>1. i \in 2..l /\ x.rows[i] = el.rows[i]
      BY <1>2, <1>3, <2>2
    <3>2. x.rows[i].event \in 1..b
      BY <1>4, <3>1
    <3>3. ASSUME NEW j \in 2..n, x.rows[i].event = x.rows[j].event PROVE i = j
      <4>1. j # n
        BY <1>1, <1>5, <3>2, <3>3
      <4>2. j \in 2..l /\ x.rows[j] = el.rows[j]
        BY <1>2, <1>3, <4>1
      <4> QED BY <1>4, <3>1, <3>3, <4>2
    <3> QED BY <1>5, <3>2, <3>3
  <2> QED BY <2>1, <2>2
<1> QED BY <1>6 DEF Named, n

LEMMA NamedCut ==
  ASSUME NEW el, NEW b, Named(el, b), NEW x, NEW k \in Nat, NEW c, Outlives(x, el, c, k),
         Len(el.rows) \in Nat
  PROVE  Named(x, b)
<1> DEFINE l == Len(el.rows)
           n == Len(x.rows)
<1>1. n = l - k /\ \A i \in 2..(l - k) : x.rows[i].event = el.rows[i + k].event
  BY DEF Outlives
<1>2. \A i \in 2..l : el.rows[i].event \in 1..b
                      /\ \A j \in 2..l : el.rows[i].event = el.rows[j].event => i = j
  BY DEF Named
<1> HIDE DEF n
<1>3. \A i \in 2..n : i + k \in 2..l /\ \A j \in 2..n : i + k = j + k => i = j
  BY <1>1
<1> HIDE DEF l
<1>4. \A i \in 2..n : x.rows[i].event = el.rows[i + k].event
  BY <1>1
<1>5. \A i \in 2..n : x.rows[i].event \in 1..b
                      /\ \A j \in 2..n : x.rows[i].event = x.rows[j].event => i = j
  BY <1>2, <1>3, <1>4
<1> QED BY <1>5 DEF Named, n

-----------------------------------------------------------------------------
(* The row that was saved last, if it is still there, stands for what the   *)
(* file holds.                                                              *)

AtSaved(d, i) == i \in 1..Len(d.el.rows) /\ d.el.rows[i].node = d.el.saved

Filed(d, f) ==
  \E p \in Seq(Edits) :
    /\ d.content = (p \o EditsOf(d.undo)) \o Pending(d)
    /\ \A i : AtSaved(d, i) => f = Place(d, p, i)

\* What is pending has become part of an event, of which z is not told yet
\* that older ones may have to go; b: the saved row is not the one altered.
Committed(d, z, b) ==
  /\ DocOK(z) /\ z.redo = << >> /\ Pending(z) = << >> /\ z.modified
  /\ Named(z.el, z.born)
  /\ z.el.saved = d.el.saved /\ z.content = d.content
  /\ EditsOf(z.undo) = EditsOf(d.undo) \o Pending(d)
  /\ Len(z.undo) \in {Len(d.undo), Len(d.undo) + 1}
  /\ \A i \in 1..Len(d.undo) : z.undo[i].id = d.undo[i].id
  /\ \A i : AtSaved(z, i) => /\ AtSaved(d, i) /\ z.el.rows[i] = d.el.rows[i]
                             /\ b => \A p : Place(z, p, i) = Place(d, p, i)

LEMMA DocRows ==
  ASSUME NEW d, DocOK(d)
  PROVE  /\ d \in Docs(Logs) /\ TreeOK(d.el) /\ d.el.rows \in Seq(Rows)
         /\ Len(d.el.rows) \in Nat \ {0} /\ Len(d.undo) \in Nat /\ d.born \in Nat
         /\ Len(d.undo) + 1 \in 1..Len(d.el.rows)
         /\ d.el.curr = d.el.rows[Len(d.undo) + 1].node
         /\ \A i \in 1..Len(d.undo) : d.el.rows[i + 1].event = d.undo[i].id
         /\ d.redo = << >> => Len(d.el.rows) = Len(d.undo) + 1
<1>1. d \in Docs(Logs) /\ Mirrors(d)
  BY DEF DocOK
<1>2. LogOK(d.el, Len(d.undo) + 1)
  BY <1>1 DEF Mirrors
<1>3. TreeOK(d.el) /\ CursorOK(d.el, Len(d.undo) + 1) /\ d.el \in Logs
  BY <1>2 DEF LogOK, TreeOK
<1>4. d.el.rows \in Seq(Rows)
  BY <1>3 DEF Logs
<1>5. Len(d.el.rows) \in Nat \ {0}
  BY <1>3 DEF TreeOK
<1>6. Len(d.undo) \in Nat /\ d.born \in Nat
  BY <1>1, DocTypes
<1>7. Len(d.undo) + 1 \in 1..Len(d.el.rows) /\ d.el.curr = d.el.rows[Len(d.undo) + 1].node
  BY <1>3 DEF CursorOK
<1>8. \A i \in 1..Len(d.undo) : d.el.rows[i + 1].event = d.undo[i].id
  BY <1>1 DEF Mirrors
<1>9. ASSUME d.redo = << >> PROVE Len(d.el.rows) = Len(d.undo) + 1
  <2>1. Len(d.redo) = 0
    BY <1>9
  <2>2. Len(d.el.rows) = Len(d.undo) + 1 + Len(d.redo)
    BY <1>1 DEF Mirrors
  <2> DEFINE u == Len(d.undo)
  <2>3. Len(d.el.rows) = u + 1 + 0 /\ u \in Nat
    BY <1>6, <2>1, <2>2
  <2> HIDE DEF u
  <2>4. Len(d.el.rows) = u + 1
    BY <2>3
  <2> QED BY <2>4 DEF u
<1> QED BY <1>1, <1>3, <1>4, <1>5, <1>6, <1>7, <1>8, <1>9

LEMMA CommitIs ==
  ASSUME NEW d, DocOK(d), Named(d.el, d.born), d.born < MaxCommits, Pending(d) # << >>,
         NEW key \in Keys \cup {NoKey}, NEW icon \in EventIcons, NEW zone \in BOOLEAN,
         NEW a, \/ a = Push(ClearRedo(d), icon, zone)
                \/ a = Coalesce(ClearRedo(d)) /\ ClearRedo(d).undo # << >>
  PROVE  LET z == Marked(a, key)
             b == a = Push(ClearRedo(d), icon, zone) \/ d.el.saved # d.el.curr
         IN
         /\ Committed(d, z, b)
         /\ z.born = IF a = Push(ClearRedo(d), icon, zone) THEN d.born + 1 ELSE d.born
<1> DEFINE c == ClearRedo(d)
           z == Marked(a, key)
<1>1. /\ DocOK(c) /\ c.redo = << >> /\ c.undo = d.undo
      /\ c.el.saved = d.el.saved /\ c.el.curr = d.el.curr
      /\ c.content = d.content /\ Pending(c) = Pending(d) /\ c.born = d.born
      /\ Len(c.el.rows) = Len(d.undo) + 1 /\ Len(c.el.rows) <= Len(d.el.rows)
      /\ \A i \in 1..Len(c.el.rows) :
           /\ c.el.rows[i] = d.el.rows[i]
           /\ \A p : Place(c, p, i) = Place(d, p, i)
  BY ClearRedoPlaces
<1> HIDE DEF c
<1>2. /\ Len(d.el.rows) \in Nat /\ Len(c.el.rows) \in Nat /\ d.born \in Nat /\ Len(d.undo) \in Nat
      /\ Len(c.undo) + 1 = Len(c.el.rows) /\ c \in Docs(Logs)
  BY <1>1, DocRows
<1>3. Named(c.el, c.born)
  BY <1>1, <1>2, NamedPrefix
<1>4. CASE a = Push(c, icon, zone)
  <2> DEFINE n == Len(c.el.rows)
  <2>1. /\ DocOK(a) /\ a.redo = << >> /\ a.el.saved = c.el.saved
        /\ a.content = c.content /\ a.born = c.born + 1
        /\ EditsOf(a.undo) = EditsOf(c.undo) \o Pending(c)
        /\ Len(a.undo) = Len(c.undo) + 1
        /\ \A i \in 1..Len(c.undo) : a.undo[i] = c.undo[i]
        /\ Len(a.el.rows) = n + 1
        /\ a.el.rows[n + 1].node # c.el.saved
        /\ a.el.rows[n + 1].event = c.born + 1
        /\ \A i \in 1..n : /\ a.el.rows[i] = c.el.rows[i]
                           /\ \A p : Place(a, p, i) = Place(c, p, i)
    <3>1. c.born < MaxCommits
      BY <1>1
    <3>2. DocOK(c) /\ c.redo = << >>
      BY <1>1
    <3> QED BY <1>4, <3>1, <3>2, PushPlaces
  <2>2. Named(a.el, a.born)
    <3>1. c.born \in Nat /\ n \in Nat
      BY <1>1, <1>2
    <3> QED BY <1>3, <2>1, <3>1, NamedGrows
  <2>3. a \in Docs(Logs)
    BY <2>1 DEF DocOK
  <2>4. /\ DocOK(z) /\ z.el = a.el /\ z.log = << >> /\ z.partial = << >>
        /\ z.undo = a.undo /\ z.redo = a.redo /\ z.content = a.content
        /\ z.born = a.born /\ z.modified = TRUE
    BY <2>1, <2>3, MarkedIs, MarkedOK
  <2> HIDE DEF z
  <2>5. Pending(z) = << >>
    BY <2>4 DEF Pending
  <2>6. ASSUME NEW i, AtSaved(z, i)
        PROVE  /\ AtSaved(d, i) /\ z.el.rows[i] = d.el.rows[i]
               /\ \A p : Place(z, p, i) = Place(d, p, i)
    <3>1. i \in 1..(n + 1) /\ a.el.rows[i].node = c.el.saved
      BY <2>1, <2>4, <2>6 DEF AtSaved
    <3>2. i # n + 1
      BY <2>1, <3>1
    <3>3. i \in 1..n /\ i \in 1..Len(d.el.rows)
      <4> DEFINE l == Len(d.el.rows)
      <4>1. n \in Nat /\ l \in Nat /\ n <= l
        BY <1>1, <1>2
      <4> HIDE DEF n, l
      <4>2. i \in 1..n /\ i \in 1..l
        BY <3>1, <3>2, <4>1
      <4> QED BY <4>2 DEF l
    <3>4. a.el.rows[i] = c.el.rows[i] /\ c.el.rows[i] = d.el.rows[i]
      BY <1>1, <2>1, <3>3
    <3>5. \A p : Place(z, p, i) = Place(a, p, i)
      BY <2>4 DEF Place, Line
    <3>6. \A p : Place(a, p, i) = Place(c, p, i) /\ Place(c, p, i) = Place(d, p, i)
      BY <1>1, <2>1, <3>3
    <3>7. AtSaved(d, i)
      BY <1>1, <3>1, <3>3, <3>4 DEF AtSaved
    <3> QED BY <2>4, <3>4, <3>5, <3>6, <3>7
  <2>7. Committed(d, z, TRUE)
    <3>1. z.el.saved = d.el.saved /\ z.content = d.content /\ z.redo = << >> /\ z.modified
      BY <1>1, <2>1, <2>4
    <3>2. EditsOf(z.undo) = EditsOf(d.undo) \o Pending(d) /\ Len(z.undo) = Len(d.undo) + 1
      BY <1>1, <2>1, <2>4
    <3>3. \A i \in 1..Len(d.undo) : z.undo[i].id = d.undo[i].id
      BY <1>1, <2>1, <2>4
    <3>4. Named(z.el, z.born)
      BY <2>2, <2>4
    <3> QED BY <2>4, <2>5, <2>6, <3>1, <3>2, <3>3, <3>4 DEF Committed
  <2>8. (a = Push(c, icon, zone) \/ d.el.saved # d.el.curr) = TRUE
    BY <1>4
  <2>9. z.born = d.born + 1
    BY <1>1, <2>1, <2>4
  <2> QED BY <1>4, <2>7, <2>8, <2>9, Zenon DEF z, c
<1>5. CASE a # Push(c, icon, zone)
  <2> DEFINE b == a = Push(c, icon, zone) \/ d.el.saved # d.el.curr
             n == Len(c.el.rows)
  <2>0. a = Coalesce(c) /\ c.undo # << >>
    BY <1>5 DEF c
  <2>1. /\ DocOK(a) /\ a.redo = << >> /\ a.el = c.el
        /\ a.content = c.content /\ a.born = c.born
        /\ EditsOf(a.undo) = EditsOf(c.undo) \o Pending(c)
        /\ Len(a.undo) = Len(c.undo)
        /\ \A i \in 1..Len(c.undo) : a.undo[i].id = c.undo[i].id
        /\ \A i \in 1..n :
             c.el.rows[i].node # c.el.curr => \A p : Place(a, p, i) = Place(c, p, i)
    BY <1>1, <2>0, CoalescePlaces
  <2>3. a \in Docs(Logs)
    BY <2>1 DEF DocOK
  <2>4. /\ DocOK(z) /\ z.el = a.el /\ z.log = << >> /\ z.partial = << >>
        /\ z.undo = a.undo /\ z.redo = a.redo /\ z.content = a.content
        /\ z.born = a.born /\ z.modified = TRUE
    BY <2>1, <2>3, MarkedIs, MarkedOK
  <2> HIDE DEF z
  <2>5. Pending(z) = << >>
    BY <2>4 DEF Pending
  <2>6. ASSUME NEW i, AtSaved(z, i)
        PROVE  /\ AtSaved(d, i) /\ z.el.rows[i] = d.el.rows[i]
               /\ b => \A p : Place(z, p, i) = Place(d, p, i)
    <3>1. i \in 1..n /\ c.el.rows[i].node = c.el.saved
      BY <2>1, <2>4, <2>6 DEF AtSaved
    <3>2. i \in 1..Len(d.el.rows) /\ c.el.rows[i] = d.el.rows[i]
      BY <1>1, <1>2, <3>1
    <3>3. AtSaved(d, i)
      BY <1>1, <3>1, <3>2 DEF AtSaved
    <3>4. ASSUME b PROVE \A p : Place(z, p, i) = Place(d, p, i)
      <4>1. c.el.rows[i].node # c.el.curr
        BY <1>1, <1>5, <3>1, <3>4
      <4>2. \A p : Place(a, p, i) = Place(c, p, i) /\ Place(c, p, i) = Place(d, p, i)
        BY <1>1, <2>1, <3>1, <4>1
      <4>3. \A p : Place(z, p, i) = Place(a, p, i)
        BY <2>4 DEF Place, Line
      <4> QED BY <4>2, <4>3
    <3> QED BY <2>1, <2>4, <3>2, <3>3, <3>4
  <2> HIDE DEF b
  <2>7. Committed(d, z, b)
    <3>1. z.el.saved = d.el.saved /\ z.content = d.content /\ z.redo = << >> /\ z.modified
      BY <1>1, <2>1, <2>4
    <3>2. EditsOf(z.undo) = EditsOf(d.undo) \o Pending(d) /\ Len(z.undo) = Len(d.undo)
      BY <1>1, <2>1, <2>4
    <3>3. \A i \in 1..Len(d.undo) : z.undo[i].id = d.undo[i].id
      BY <1>1, <2>1, <2>4
    <3>4. Named(z.el, z.born)
      BY <1>3, <2>1, <2>4
    <3> QED BY <2>4, <2>5, <2>6, <3>1, <3>2, <3>3, <3>4 DEF Committed
  <2>8. z.born = d.born
    BY <1>1, <2>1, <2>4
  <2> QED BY <1>5, <2>7, <2>8, Zenon DEF z, c, b
<1> QED BY <1>4, <1>5 DEF c

\* The saved row, at i in x, still shows the event it did in d.
Untouched(d, x, i) ==
  /\ d.el.saved # d.el.rows[1].node
  /\ x.el.rows[i].event = EventAt(d.el, d.el.saved)

\* As Filed, k events having expired since d.
Refiled(d, x, f) ==
  \E k, p :
    /\ k \in Nat /\ p \in Seq(Edits) /\ x.content = p \o EditsOf(x.undo)
    /\ k # 0 => d.undo # << >> /\ (x.undo = << >> \/ x.undo[1].id # d.undo[1].id)
    /\ \A i : AtSaved(x, i) /\ (k = 0 \/ Untouched(d, x, i)) => f = Place(x, p, i)

LEMMA CommittedFiles ==
  ASSUME NEW d, DocOK(d), NEW z, Committed(d, z, TRUE), NEW f, Filed(d, f)
  PROVE  \E p \in Seq(Edits) : /\ z.content = p \o EditsOf(z.undo)
                               /\ \A i : AtSaved(z, i) => f = Place(z, p, i)
<1>1. PICK p \in Seq(Edits) : /\ d.content = (p \o EditsOf(d.undo)) \o Pending(d)
                              /\ \A i : AtSaved(d, i) => f = Place(d, p, i)
  BY DEF Filed
<1>2. /\ z.content = d.content /\ EditsOf(z.undo) = EditsOf(d.undo) \o Pending(d)
      /\ \A i : AtSaved(z, i) => AtSaved(d, i) /\ \A q : Place(z, q, i) = Place(d, q, i)
  BY DEF Committed
<1>3. EditsOf(d.undo) \in Seq(Edits) /\ Pending(d) \in Seq(Edits)
  BY FitsTypes DEF DocOK
<1>4. (p \o EditsOf(d.undo)) \o Pending(d) = p \o (EditsOf(d.undo) \o Pending(d))
  <2> DEFINE u == EditsOf(d.undo)
             q == Pending(d)
  <2> HIDE DEF u, q
  <2>1. u \in Seq(Edits) /\ q \in Seq(Edits)
    BY <1>3 DEF u, q
  <2>2. (p \o u) \o q = p \o (u \o q)
    BY <2>1, EditsConcat, Zenon
  <2> QED BY <2>2 DEF u, q
<1>5. z.content = p \o EditsOf(z.undo)
  BY <1>1, <1>2, <1>4
<1>6. \A i : AtSaved(z, i) => f = Place(z, p, i)
  BY <1>1, <1>2
<1> QED BY <1>5, <1>6

LEMMA CommitRefiles ==
  ASSUME NEW d, DocOK(d), NEW z, Committed(d, z, TRUE), NEW f, Filed(d, f)
  PROVE  Refiled(d, z, f)
<1>1. PICK p \in Seq(Edits) : /\ z.content = p \o EditsOf(z.undo)
                              /\ \A i : AtSaved(z, i) => f = Place(z, p, i)
  BY CommittedFiles
<1>2. 0 \in Nat
  OBVIOUS
<1> QED BY <1>1, <1>2 DEF Refiled

LEMMA ExpireRefiles ==
  ASSUME NEW d, DocOK(d), NEW z, Committed(d, z, TRUE), NEW f, Filed(d, f), UndoSize > 1
  PROVE  Refiled(d, Expire(z), f)
<1> DEFINE x == Expire(z)
           r == d.el.rows
<1>1. PICK p \in Seq(Edits) : /\ z.content = p \o EditsOf(z.undo)
                              /\ \A i : AtSaved(z, i) => f = Place(z, p, i)
  BY CommittedFiles
<1>2. /\ DocOK(z) /\ z.redo = << >> /\ Named(z.el, z.born) /\ z.el.saved = d.el.saved
      /\ Len(z.undo) \in {Len(d.undo), Len(d.undo) + 1}
      /\ \A i \in 1..Len(d.undo) : z.undo[i].id = d.undo[i].id
      /\ \A i : AtSaved(z, i) => AtSaved(d, i) /\ z.el.rows[i] = d.el.rows[i]
  BY DEF Committed
<1>3. DocOK(x) /\ x.content = z.content /\ \E k, a : Cut(z, x, k, a)
  BY <1>2, ExpirePlaces
<1> HIDE DEF x
<1>4. PICK k, a : Cut(z, x, k, a)
  BY <1>3
<1>5. /\ k \in Nat /\ a \in Seq(Edits) /\ (k # 0 => Len(z.undo) = UndoSize + k)
      /\ Len(x.undo) = Len(z.undo) - k /\ Len(x.el.rows) = Len(z.el.rows) - k
      /\ \A i \in 1..Len(x.undo) : x.undo[i] = z.undo[i + k]
      /\ EditsOf(z.undo) = a \o EditsOf(x.undo)
      /\ \A q \in Seq(Edits) : \A i \in 1..Len(x.el.rows) : Place(x, q \o a, i) = Place(z, q, i + k)
  BY <1>4 DEF Cut
<1>6. /\ x.el.saved = z.el.saved /\ (k = 0 => x.el = z.el) /\ x.el.rows[1] = z.el.rows[1]
      /\ \A i \in 2..(Len(z.el.rows) - k) : x.el.rows[i].event = z.el.rows[i + k].event
      /\ NodesOf(x.el) \subseteq NodesOf(z.el)
  BY <1>4 DEF Cut, Outlives
<1>7. /\ TreeOK(z.el) /\ Len(z.el.rows) \in Nat \ {0} /\ Len(z.undo) \in Nat
      /\ Len(z.el.rows) = Len(z.undo) + 1
      /\ \A i \in 1..Len(z.undo) : z.el.rows[i + 1].event = z.undo[i].id
  BY <1>2, DocRows
<1>8. Len(d.undo) \in Nat /\ TreeOK(d.el) /\ d.undo \in Seq(Events)
  <2>1. d \in Docs(Logs) /\ Len(d.undo) \in Nat /\ TreeOK(d.el)
    BY DocRows
  <2> QED BY <2>1, DocTypes
<1>9. TreeOK(x.el) /\ Len(x.el.rows) \in Nat /\ x \in Docs(Logs)
  BY <1>3, DocRows
<1>10. p \o a \in Seq(Edits) /\ x.content = (p \o a) \o EditsOf(x.undo)
  <2> DEFINE b == EditsOf(x.undo)
  <2>1. b \in Seq(Edits)
    BY <1>9, FitsTypes
  <2>2. EditsOf(z.undo) = a \o b
    BY <1>5
  <2> HIDE DEF b
  <2>3. (p \o a) \o b = p \o (a \o b) /\ p \o a \in Seq(Edits)
    BY <1>5, <2>1, EditsConcat, Zenon
  <2> QED BY <1>1, <1>3, <2>2, <2>3 DEF b
<1>11. ASSUME k # 0 PROVE d.undo # << >> /\ x.undo[1].id # d.undo[1].id
  <2> DEFINE l == Len(z.undo)
             u == Len(d.undo)
             m == Len(x.undo)
  <2>1. l = UndoSize + k /\ m = l - k /\ l \in {u, u + 1} /\ u \in Nat /\ l \in Nat
        /\ k \in Nat /\ k # 0 /\ UndoSize \in Nat
    BY <1>2, <1>5, <1>7, <1>8, <1>11, UndoSizeAssumption
  <2> HIDE DEF l, u, m
  <2>2. /\ m > 1 /\ u > 1 /\ 1 \in 1..m /\ 1 + k \in 1..l /\ 1 \in 1..l
        /\ k + 2 \in 2..(l + 1) /\ 2 \in 2..(l + 1) /\ 1 \in 1..u
    <3>1. m = UndoSize /\ l > 2
      BY <2>1
    <3>2. u > 1
      BY <2>1, <3>1
    <3> QED BY <2>1, <3>1, <3>2
  <2>3. d.undo # << >>
    <3>1. Len(d.undo) # 0
      BY <2>1, <2>2 DEF u
    <3> QED BY <3>1
  <2>4. x.undo[1].id = z.el.rows[k + 2].event
    <3>1. x.undo[1] = z.undo[1 + k]
      BY <1>5, <2>2 DEF m
    <3>2. z.el.rows[(1 + k) + 1].event = z.undo[1 + k].id
      BY <1>7, <2>2 DEF l
    <3>3. (1 + k) + 1 = k + 2
      BY <1>5
    <3> QED BY <3>1, <3>2, <3>3
  <2>5. d.undo[1].id = z.el.rows[2].event
    <3>1. z.undo[1].id = d.undo[1].id
      BY <1>2, <2>2 DEF u
    <3>2. z.el.rows[1 + 1].event = z.undo[1].id
      BY <1>7, <2>2 DEF l
    <3> QED BY <3>1, <3>2
  <2>6. z.el.rows[k + 2].event # z.el.rows[2].event
    <3>1. k + 2 # 2 /\ k + 2 \in 2..Len(z.el.rows) /\ 2 \in 2..Len(z.el.rows)
      BY <1>5, <1>7, <1>11, <2>2 DEF l
    <3> QED BY <1>2, <3>1 DEF Named
  <2> QED BY <2>3, <2>4, <2>5, <2>6
<1>12. ASSUME NEW i, AtSaved(x, i), k = 0 \/ Untouched(d, x, i)
       PROVE  f = Place(x, p \o a, i)
  <2>1. i \in 1..Len(x.el.rows) /\ x.el.rows[i].node = z.el.saved
    BY <1>6, <1>12 DEF AtSaved
  <2>2. Place(x, p \o a, i) = Place(z, p, i + k)
    BY <1>5, <2>1
  <2>3. CASE k = 0
    <3>1. i + k = i /\ AtSaved(z, i)
      BY <1>6, <2>1, <2>3 DEF AtSaved
    <3> QED BY <1>1, <2>2, <3>1
  <2>4. CASE k # 0
    <3>1. d.el.saved # r[1].node /\ x.el.rows[i].event = EventAt(d.el, d.el.saved)
      BY <1>12, <2>4 DEF Untouched
    <3>2. PICK j \in 1..Len(z.el.rows) : z.el.rows[j].node = z.el.saved
      <4>1. x.el.rows[i].node \in NodesOf(x.el)
        BY <1>9, <2>1, NodesAre
      <4>2. z.el.saved \in NodesOf(z.el)
        BY <1>6, <2>1, <4>1
      <4> QED BY <1>7, <4>2, NodesAre
    <3>3. AtSaved(z, j) /\ AtSaved(d, j) /\ z.el.rows[j] = r[j]
      BY <1>2, <3>2 DEF AtSaved
    <3>4. j # 1 /\ r[j].node = d.el.saved /\ j \in 1..Len(r)
      BY <3>1, <3>3 DEF AtSaved
    <3>5. EventAt(d.el, d.el.saved) = z.el.rows[j].event
      <4>1. At(d.el, r[j].node) = j
        BY <1>8, <3>4, AtIs
      <4> QED BY <3>3, <3>4, <4>1 DEF EventAt
    <3>6. i # 1
      <4>1. 1 \in 1..Len(z.el.rows)
        BY <1>7
      <4>2. z.el.rows[1].node # z.el.saved
        BY <1>7, <3>2, <3>4, <4>1 DEF TreeOK
      <4> QED BY <1>6, <2>1, <4>2
    <3> DEFINE n == Len(z.el.rows)
    <3>7. i \in 2..(n - k) /\ i + k \in 2..n /\ j \in 2..n
      <4>1. i \in 1..(n - k) /\ j \in 1..n /\ n \in Nat
        BY <1>5, <1>7, <2>1, <3>2
      <4> HIDE DEF n
      <4> QED BY <1>5, <3>4, <3>6, <4>1
    <3>8. z.el.rows[i + k].event = z.el.rows[j].event
      BY <1>6, <3>1, <3>5, <3>7
    <3>9. i + k = j
      BY <1>2, <3>7, <3>8 DEF Named
    <3> QED BY <1>1, <2>2, <3>3, <3>9
  <2> QED BY <2>3, <2>4
<1>13. Refiled(d, x, f)
  <2> DEFINE q == p \o a
  <2>1. q \in Seq(Edits) /\ x.content = q \o EditsOf(x.undo)
    BY <1>10
  <2>2. \A i : AtSaved(x, i) /\ (k = 0 \/ Untouched(d, x, i)) => f = Place(x, q, i)
    BY <1>12
  <2>3. k # 0 => d.undo # << >> /\ (x.undo = << >> \/ x.undo[1].id # d.undo[1].id)
    BY <1>11
  <2> HIDE DEF q
  <2>4. /\ k \in Nat /\ q \in Seq(Edits) /\ x.content = q \o EditsOf(x.undo)
        /\ k # 0 => d.undo # << >> /\ (x.undo = << >> \/ x.undo[1].id # d.undo[1].id)
        /\ \A i : AtSaved(x, i) /\ (k = 0 \/ Untouched(d, x, i)) => f = Place(x, q, i)
    BY <1>5, <2>1, <2>2, <2>3
  <2> QED BY <2>4 DEF Refiled
<1> QED BY <1>13 DEF x

\* A transaction is committed, or there is none and the redo stack is cleared.
LEMMA MaybeDoneRefiles ==
  ASSUME NEW d, DocOK(d), Named(d.el, d.born), d.born < MaxCommits, UndoSize > 1,
         NEW key \in Keys \cup {NoKey}, NEW expired \in BOOLEAN, NEW icon \in EventIcons,
         NEW zone \in BOOLEAN
  PROVE  LET x == MaybeDone(d, key, expired, icon, zone)
             b == \/ key = NoKey \/ x.born # d.born \/ Pending(d) = << >>
                  \/ d.el.saved # d.el.curr
         IN
         /\ DocOK(x) /\ Named(x.el, x.born) /\ x.el.saved = d.el.saved
         /\ Pending(x) = << >> /\ x.content = d.content
         /\ x.modified \/ (x.modified = d.modified /\ x.el.curr = d.el.curr)
         /\ b => \A f : Filed(d, f) => Refiled(d, x, f)
<1> DEFINE x == MaybeDone(d, key, expired, icon, zone)
           c == ClearRedo(d)
           b == \/ key = NoKey \/ x.born # d.born \/ Pending(d) = << >>
                \/ d.el.saved # d.el.curr
<1>1. d \in Docs(Logs) /\ d.born \in Nat
  BY DocRows
<1>2. DocOK(x)
  BY MaybeDoneOK
<1>3. /\ Pending(d) = << >> => x = c
      /\ Pending(d) # << >> =>
           \E a : /\ \/ a = Push(c, icon, zone)
                     \/ a = Coalesce(c) /\ c.undo # << >> /\ key # NoKey
                  /\ x = Marked(a, key) \/ x = Expire(Marked(a, key))
  BY <1>1, MaybeDoneCases
<1> HIDE DEF x
<1>4. CASE Pending(d) = << >>
  <2>1. /\ DocOK(x) /\ x.redo = << >> /\ x.undo = d.undo
        /\ x.el.saved = d.el.saved /\ x.el.curr = d.el.curr /\ x.modified = d.modified
        /\ x.content = d.content /\ Pending(x) = Pending(d) /\ x.born = d.born
        /\ Len(x.el.rows) <= Len(d.el.rows)
        /\ \A i \in 1..Len(x.el.rows) : /\ x.el.rows[i] = d.el.rows[i]
                                        /\ \A p : Place(x, p, i) = Place(d, p, i)
    BY <1>3, <1>4, ClearRedoPlaces
  <2>2. Len(x.el.rows) \in Nat /\ Len(d.el.rows) \in Nat
    BY <1>2, DocRows
  <2>3. Named(x.el, x.born)
    BY <2>1, <2>2, NamedPrefix
  <2>4. ASSUME NEW f, Filed(d, f) PROVE Refiled(d, x, f)
    <3>1. PICK p \in Seq(Edits) : /\ d.content = (p \o EditsOf(d.undo)) \o Pending(d)
                                  /\ \A i : AtSaved(d, i) => f = Place(d, p, i)
      BY <2>4 DEF Filed
    <3>2. x.content = p \o EditsOf(x.undo)
      <4> DEFINE u == EditsOf(d.undo)
      <4>1. u \in Seq(Edits)
        BY <1>1, FitsTypes
      <4>2. d.content = (p \o u) \o << >>
        BY <1>4, <3>1
      <4> HIDE DEF u
      <4>3. p \o u \in Seq(Edits)
        BY <4>1, EditsConcat
      <4>4. d.content = p \o u
        BY <4>2, <4>3, EditsConcat
      <4> QED BY <2>1, <4>4 DEF u
    <3>3. ASSUME NEW i, AtSaved(x, i) PROVE f = Place(x, p, i)
      <4>1. AtSaved(d, i) /\ Place(x, p, i) = Place(d, p, i)
        BY <2>1, <2>2, <3>3 DEF AtSaved
      <4> QED BY <3>1, <4>1
    <3>4. 0 \in Nat
      OBVIOUS
    <3> QED BY <3>2, <3>3, <3>4 DEF Refiled
  <2> QED BY <1>4, <2>1, <2>3, <2>4 DEF x
<1>5. CASE Pending(d) # << >>
  <2>1. PICK a : /\ \/ a = Push(c, icon, zone)
                    \/ a = Coalesce(c) /\ c.undo # << >> /\ key # NoKey
                 /\ x = Marked(a, key) \/ x = Expire(Marked(a, key))
    BY <1>3, <1>5
  <2> DEFINE z == Marked(a, key)
             g == a = Push(c, icon, zone) \/ d.el.saved # d.el.curr
  <2>2. /\ Committed(d, z, g)
        /\ z.born = IF a = Push(c, icon, zone) THEN d.born + 1 ELSE d.born
    BY <1>5, <2>1, CommitIs
  <2> HIDE DEF z
  <2>3. /\ DocOK(z) /\ z.redo = << >> /\ Pending(z) = << >> /\ z.modified
        /\ Named(z.el, z.born) /\ z.el.saved = d.el.saved /\ z.content = d.content
    BY <2>2 DEF Committed
  <2>4. x = z \/ x = Expire(z)
    BY <2>1 DEF z
  <2>5. ASSUME x = Expire(z)
        PROVE  /\ x.content = z.content /\ Pending(x) = Pending(z) /\ x.born = z.born
               /\ x.modified = z.modified /\ Named(x.el, x.born) /\ x.el.saved = z.el.saved
    <3>1. /\ x.content = z.content /\ Pending(x) = Pending(z) /\ x.born = z.born
          /\ x.modified = z.modified /\ \E k, e : Cut(z, x, k, e)
      BY <2>3, <2>5, ExpirePlaces
    <3>2. PICK k, e : Cut(z, x, k, e)
      BY <3>1
    <3>3. k \in Nat /\ Outlives(x.el, z.el, Len(z.undo) + 1, k)
      BY <3>2 DEF Cut
    <3>4. x.el.saved = z.el.saved
      BY <3>3 DEF Outlives
    <3>5. Len(z.el.rows) \in Nat
      BY <2>3, DocRows
    <3>6. Named(x.el, z.born)
      BY <2>3, <3>3, <3>5, NamedCut
    <3> QED BY <3>1, <3>4, <3>6
  <2>6. /\ x.content = d.content /\ Pending(x) = << >> /\ x.born = z.born
        /\ x.modified /\ Named(x.el, x.born) /\ x.el.saved = d.el.saved
    BY <2>3, <2>4, <2>5
  <2>7. ASSUME b, NEW f, Filed(d, f) PROVE Refiled(d, x, f)
    <3>1. g
      <4>1. ASSUME a # Push(c, icon, zone) PROVE d.el.saved # d.el.curr
        BY <1>5, <2>1, <2>2, <2>6, <2>7, <4>1
      <4> QED BY <4>1
    <3>2. Committed(d, z, TRUE)
      <4>1. g = TRUE
        BY <3>1
      <4> HIDE DEF g
      <4> QED BY <2>2, <4>1
    <3>3. Refiled(d, z, f)
      BY <2>7, <3>2, CommitRefiles
    <3>4. Refiled(d, Expire(z), f)
      BY <2>7, <3>2, ExpireRefiles
    <3> QED BY <2>4, <3>3, <3>4
  <2> QED BY <1>2, <2>6, <2>7 DEF x
<1> QED BY <1>4, <1>5

\* ExpiryBlurs of the step from d to x.
Blurs(d, x) ==
  /\ d.undo # << >>
  /\ x.undo = << >> \/ x.undo[1].id # d.undo[1].id
  /\ d.el.saved \in NodesOf(x.el)
  /\ \/ d.el.saved = d.el.rows[1].node
     \/ EventAt(x.el, d.el.saved) # EventAt(d.el, d.el.saved)

LEMMA RefiledIsFiled ==
  ASSUME NEW d, NEW x, DocOK(x), Pending(x) = << >>, x.el.saved = d.el.saved, ~Blurs(d, x),
         NEW f, Refiled(d, x, f)
  PROVE  Filed(x, f)
<1>1. PICK k, p :
        /\ k \in Nat /\ p \in Seq(Edits) /\ x.content = p \o EditsOf(x.undo)
        /\ k # 0 => d.undo # << >> /\ (x.undo = << >> \/ x.undo[1].id # d.undo[1].id)
        /\ \A i : AtSaved(x, i) /\ (k = 0 \/ Untouched(d, x, i)) => f = Place(x, p, i)
  BY DEF Refiled
<1>2. TreeOK(x.el) /\ x \in Docs(Logs)
  BY DocRows
<1>3. ASSUME NEW i, AtSaved(x, i) PROVE k = 0 \/ Untouched(d, x, i)
  <2> SUFFICES ASSUME k # 0 PROVE Untouched(d, x, i)
    OBVIOUS
  <2>1. i \in 1..Len(x.el.rows) /\ x.el.rows[i].node = d.el.saved
    BY <1>3 DEF AtSaved
  <2>2. d.el.saved \in NodesOf(x.el)
    BY <1>2, <2>1, NodesAre
  <2>3. At(x.el, d.el.saved) = i
    BY <1>2, <2>1, AtIs
  <2>4. EventAt(x.el, d.el.saved) = x.el.rows[i].event
    BY <2>3 DEF EventAt
  <2> QED BY <1>1, <2>2, <2>4 DEF Blurs, Untouched
<1>4. \A i : AtSaved(x, i) => f = Place(x, p, i)
  BY <1>1, <1>3
<1>5. x.content = (p \o EditsOf(x.undo)) \o Pending(x)
  <2> DEFINE u == EditsOf(x.undo)
  <2>1. u \in Seq(Edits)
    BY <1>2, FitsTypes
  <2>2. x.content = p \o u
    BY <1>1
  <2> HIDE DEF u
  <2>3. p \o u \in Seq(Edits)
    BY <1>1, <2>1, EditsConcat
  <2>4. (p \o u) \o << >> = p \o u
    BY <2>3, EditsConcat
  <2> QED BY <2>2, <2>4 DEF u
<1> QED BY <1>1, <1>4, <1>5 DEF Filed

-----------------------------------------------------------------------------
(* Undo and redo with nothing pending go along the events of a document.    *)

LEMMA ContentDistinct ==
  ASSUME NEW d, NEW n, NEW m, Fits(d, n, m)
  PROVE  Distinct(d.content) /\ Range(d.content) \subseteq 1..n
<1>1. d \in Docs({d.el})
  BY DEF Fits
<1>2. PICK p \in Seq(Edits) : Holds(d, p \o EditsOf(d.undo), n, m)
  BY DEF Fits
<1> DEFINE r == EditsOf(Reversed(d.redo))
           c == d.content
<1>3. r \in Seq(Edits) /\ c \in Seq(Edits)
  BY <1>1, FitsTypes
<1>4. Distinct(c \o r) /\ Range(c \o r) \subseteq 1..n
  BY <1>2 DEF Holds, InOrder
<1> HIDE DEF r, c
<1>5. Distinct(c) /\ Range(c) \subseteq 1..n
  BY <1>3, <1>4, EditsFacts
<1> QED BY <1>5 DEF c

LEMMA AddedNothing ==
  ASSUME NEW s \in Seq(Events), s # << >>
  PROVE  AddedTo(s, << >>) = s
<1> DEFINE l == Last(s)
<1>1. l \in Events /\ s = Append(Front(s), l)
  BY LastFacts
<1>2. l.edits \in Seq(Edits)
  BY <1>1 DEF Events
<1>3. l.edits \o << >> = l.edits
  BY <1>2, EditsConcat
<1>4. [l EXCEPT !.edits = @ \o << >>] = l
  <2> HIDE DEF l
  <2>1. [l EXCEPT !.edits = l.edits] = l
    BY <1>1 DEF Events
  <2> QED BY <1>3, <2>1
<1>5. AddedTo(s, << >>) = Append(Front(s), [l EXCEPT !.edits = @ \o << >>])
  BY DEF AddedTo
<1> HIDE DEF l
<1> QED BY <1>1, <1>4, <1>5

LEMMA EventsConcat ==
  /\ \A s \in Seq(Events), e \in Events : s \o <<e>> = Append(s, e) /\ <<e>> \in Seq(Events)
  /\ \A s, t, u \in Seq(Events) : (s \o t) \o u = s \o (t \o u)
<1>1. ASSUME NEW s \in Seq(Events), NEW e \in Events
      PROVE  s \o <<e>> = Append(s, e) /\ <<e>> \in Seq(Events)
  <2>1. Append(s, e) = s \o <<e>>
    BY AppendIsConcat
  <2> QED BY <2>1
<1>2. \A s, t, u \in Seq(Events) : (s \o t) \o u = s \o (t \o u)
  BY ConcatAssociative
<1> QED BY <1>1, <1>2

\* What undo() and redo() leave of d, but for the iterators and the mark.
Along(d, t) ==
  /\ t \in Docs({d.el}) /\ t.el = d.el /\ t.born = d.born /\ Pending(t) = << >>
  /\ Pending(d) = << >> =>
       /\ Line(t) = Line(d)
       /\ \A p \in Seq(Edits) : d.content = p \o EditsOf(d.undo) => t.content = p \o EditsOf(t.undo)

LEMMA UndoTopAlong ==
  ASSUME NEW E, NEW d \in Docs(E), d.undo # << >>, NEW n, NEW m, Fits(d, n, m)
  PROVE  LET t == UndoTop(d) IN
         Along(d, t) /\ t.modified /\ (Pending(d) = << >> => t.undo = Front(d.undo))
<1> DEFINE t == UndoTop(d)
           u == AddedTo(d.undo, Pending(d))
<1>1. /\ t \in Docs({d.el}) /\ t.el = d.el /\ t.log = << >> /\ t.partial = << >>
      /\ t.undo = Front(u) /\ t.redo = Append(d.redo, Last(u))
      /\ t.content = Without(d.content, Last(u).edits)
      /\ t.born = d.born /\ t.modified = TRUE
  BY UndoTopIs
<1>2. d.undo \in Seq(Events) /\ d.redo \in Seq(Events) /\ d.content \in Seq(Edits)
  BY DocTypes
<1> HIDE DEF t, u
<1>3. Pending(t) = << >>
  BY <1>1 DEF Pending
<1>4. ASSUME Pending(d) = << >>
      PROVE  /\ t.undo = Front(d.undo) /\ Line(t) = Line(d)
             /\ \A p \in Seq(Edits) : d.content = p \o EditsOf(d.undo) => t.content = p \o EditsOf(t.undo)
  <2>1. u = d.undo
    BY <1>2, <1>4, AddedNothing DEF u
  <2> DEFINE o == Front(u)
             l == Last(u)
             r == Reversed(d.redo)
  <2>2. o \in Seq(Events) /\ l \in Events /\ u = Append(o, l)
    BY <1>2, <2>1, LastFacts
  <2>3. r \in Seq(Events) /\ Reversed(Append(d.redo, l)) = <<l>> \o r
    BY <1>2, <2>2, ReversedFacts
  <2> HIDE DEF o, l, r
  <2>4. o \o (<<l>> \o r) = u \o r
    <3> DEFINE one == <<l>>
    <3>1. one \in Seq(Events) /\ o \o one = u
      BY <2>2, EventsConcat
    <3> HIDE DEF one
    <3>2. (o \o one) \o r = o \o (one \o r)
      BY <2>2, <2>3, <3>1, EventsConcat, Zenon
    <3> QED BY <3>1, <3>2 DEF one
  <2>5. Line(t) = Line(d)
    <3>1. Line(t) = o \o Reversed(t.redo) /\ Line(d) = u \o r
      BY <1>1, <2>1 DEF Line, o, r
    <3>2. Reversed(t.redo) = <<l>> \o r
      BY <1>1, <2>3 DEF l
    <3> QED BY <2>4, <3>1, <3>2
  <2>6. ASSUME NEW p \in Seq(Edits), d.content = p \o EditsOf(d.undo)
        PROVE  t.content = p \o EditsOf(t.undo)
    <3> DEFINE a == EditsOf(o)
               b == l.edits
               s == p \o a
    <3>1. a \in Seq(Edits) /\ b \in Seq(Edits)
      BY <2>2, EditsOfGrows DEF Events
    <3>2. EditsOf(u) = a \o b
      BY <2>2, EditsOfGrows
    <3> HIDE DEF a, b
    <3>3. s \in Seq(Edits) /\ (p \o a) \o b = p \o (a \o b)
      BY <3>1, EditsConcat, Zenon
    <3>4. d.content = s \o b
      BY <2>1, <2>6, <3>2, <3>3
    <3> HIDE DEF s
    <3>5. Range(s) \cap Range(b) = {}
      <4>1. Distinct(d.content)
        BY ContentDistinct
      <4> QED BY <3>1, <3>3, <3>4, <4>1, EditsFacts
    <3>6. Without(s \o b, b) = s
      BY <3>1, <3>3, <3>5, WithoutFacts
    <3>7. t.content = s
      BY <1>1, <3>4, <3>6 DEF b, l
    <3> QED BY <1>1, <3>7 DEF s, a, o
  <2>7. t.undo = Front(d.undo)
    BY <1>1, <2>1
  <2> QED BY <2>5, <2>6, <2>7
<1>5. Along(d, t)
  BY <1>1, <1>3, <1>4 DEF Along
<1> QED BY <1>1, <1>4, <1>5 DEF t

LEMMA RedoTopAlong ==
  ASSUME NEW E, NEW d \in Docs(E), d.redo # << >>
  PROVE  Along(d, RedoTop(d)) /\ RedoTop(d).modified
<1> DEFINE t == RedoTop(d)
           u == IF d.undo = << >> THEN << >> ELSE AddedTo(d.undo, Pending(d))
<1>1. /\ t \in Docs({d.el}) /\ t.el = d.el /\ t.log = << >> /\ t.partial = << >>
      /\ t.redo = Front(d.redo) /\ t.undo = Append(u, Last(d.redo))
      /\ t.content = d.content \o Last(d.redo).edits
      /\ t.born = d.born /\ t.modified = TRUE
  BY RedoTopIs
<1>2. d.undo \in Seq(Events) /\ d.redo \in Seq(Events) /\ d.content \in Seq(Edits)
  BY DocTypes
<1> HIDE DEF t, u
<1>3. Pending(t) = << >>
  BY <1>1 DEF Pending
<1>4. ASSUME Pending(d) = << >>
      PROVE  /\ Line(t) = Line(d)
             /\ \A p \in Seq(Edits) : d.content = p \o EditsOf(d.undo) => t.content = p \o EditsOf(t.undo)
  <2>1. u = d.undo
    BY <1>2, <1>4, AddedNothing DEF u
  <2> DEFINE o == Front(d.redo)
             l == Last(d.redo)
             r == Reversed(o)
  <2>2. o \in Seq(Events) /\ l \in Events /\ d.redo = Append(o, l)
    BY <1>2, LastFacts
  <2>3. r \in Seq(Events) /\ Reversed(Append(o, l)) = <<l>> \o r
    <3> HIDE DEF o, l
    <3> QED BY <2>2, ReversedFacts
  <2> HIDE DEF o, l, r
  <2>4. u \o (<<l>> \o r) = Append(u, l) \o r
    <3> DEFINE one == <<l>>
    <3>1. one \in Seq(Events) /\ u \o one = Append(u, l) /\ u \in Seq(Events)
      BY <1>2, <2>1, <2>2, EventsConcat
    <3> HIDE DEF one
    <3>2. (u \o one) \o r = u \o (one \o r)
      BY <2>3, <3>1, EventsConcat, Zenon
    <3> QED BY <3>1, <3>2 DEF one
  <2>5. Line(t) = Line(d)
    <3>1. Line(t) = Append(u, l) \o r
      BY <1>1 DEF Line, o, r, l
    <3>2. Line(d) = u \o (<<l>> \o r)
      BY <2>1, <2>2, <2>3 DEF Line
    <3> QED BY <2>4, <3>1, <3>2
  <2>6. ASSUME NEW p \in Seq(Edits), d.content = p \o EditsOf(d.undo)
        PROVE  t.content = p \o EditsOf(t.undo)
    <3> DEFINE a == EditsOf(u)
               b == l.edits
    <3>1. a \in Seq(Edits) /\ b \in Seq(Edits)
      BY <1>2, <2>1, <2>2, EditsOfGrows DEF Events
    <3>2. EditsOf(Append(u, l)) = a \o b
      BY <1>2, <2>1, <2>2, EditsOfGrows
    <3>3. d.content = p \o a
      BY <2>1, <2>6
    <3> HIDE DEF a, b
    <3>4. (p \o a) \o b = p \o (a \o b)
      BY <3>1, EditsConcat, Zenon
    <3>5. t.content = (p \o a) \o b
      BY <1>1, <3>3 DEF b, l
    <3>6. EditsOf(t.undo) = a \o b
      BY <1>1, <3>2 DEF l
    <3> QED BY <3>4, <3>5, <3>6
  <2> QED BY <2>5, <2>6
<1>5. Along(d, t)
  BY <1>1, <1>3, <1>4 DEF Along
<1> QED BY <1>1, <1>5 DEF t

LEMMA FinishedAlong ==
  ASSUME NEW E, NEW d \in Docs(E)
  PROVE  Along(d, Finished(d)) /\ Finished(d).modified = d.modified
<1> DEFINE t == Finished(d)
<1>1. /\ t \in Docs({d.el}) /\ t.el = d.el /\ t.log = << >> /\ t.partial = << >>
      /\ t.undo = (IF d.undo = << >> THEN << >> ELSE AddedTo(d.undo, Pending(d)))
      /\ t.content = d.content /\ t.redo = d.redo /\ t.born = d.born
      /\ t.modified = d.modified
  BY FinishedIs
<1>2. d.undo \in Seq(Events)
  BY DocTypes
<1> HIDE DEF t
<1>3. Pending(t) = << >>
  BY <1>1 DEF Pending
<1>4. Pending(d) = << >> => t.undo = d.undo
  BY <1>1, <1>2, AddedNothing
<1>5. Along(d, t)
  BY <1>1, <1>3, <1>4 DEF Along, Line
<1> QED BY <1>1, <1>5 DEF t

\* x is d, moved along its events.
Moves(d, x) ==
  /\ x.el.rows = d.el.rows /\ x.el.saved = d.el.saved /\ x.born = d.born
  /\ Pending(x) = << >>
  /\ x.modified \/ x.el.curr = x.el.saved \/ (x.modified = d.modified /\ x.el.curr = d.el.curr)
  /\ Pending(d) = << >> =>
       /\ Line(x) = Line(d)
       /\ \A p \in Seq(Edits) : d.content = p \o EditsOf(d.undo) => x.content = p \o EditsOf(x.undo)

LEMMA AlongMoves ==
  ASSUME NEW d, NEW t, Along(d, t), t.modified, NEW el, el.rows = d.el.rows,
         el.saved = d.el.saved, NEW x, x = Moved(t, el) \/ x = CheckForVirginity(Moved(t, el))
  PROVE  Moves(d, x) /\ x.undo = t.undo
<1> DEFINE m == Moved(t, el)
           v == CheckForVirginity(m)
<1>1. /\ t \in Docs({d.el}) /\ t.born = d.born /\ Pending(t) = << >>
      /\ Pending(d) = << >> =>
           /\ Line(t) = Line(d)
           /\ \A p \in Seq(Edits) : d.content = p \o EditsOf(d.undo) => t.content = p \o EditsOf(t.undo)
  BY DEF Along
<1>2. /\ m \in Docs({el}) /\ m.el = el /\ m.content = t.content /\ m.log = t.log
      /\ m.partial = t.partial /\ m.undo = t.undo /\ m.redo = t.redo /\ m.born = t.born
      /\ m.modified = t.modified
  BY <1>1, MovedIs
<1> HIDE DEF m
<1>3. /\ v.el = m.el /\ v.content = m.content /\ v.log = m.log
      /\ v.partial = m.partial /\ v.undo = m.undo /\ v.redo = m.redo /\ v.born = m.born
      /\ v.modified = (m.modified /\ m.el.curr # m.el.saved)
  BY <1>2, VirginityIs
<1> HIDE DEF v
<1>4. /\ x.el = el /\ x.content = t.content /\ x.log = t.log /\ x.partial = t.partial
      /\ x.undo = t.undo /\ x.redo = t.redo /\ x.born = t.born
      /\ x.modified \/ el.curr = el.saved
  <2>1. x = m \/ x = v
    BY DEF m, v
  <2>2. CASE x = m
    BY <1>2, <2>2
  <2>3. CASE x = v
    BY <1>2, <1>3, <2>3
  <2> QED BY <2>1, <2>2, <2>3
<1>5. Pending(x) = Pending(t) /\ Line(x) = Line(t)
  BY <1>4 DEF Pending, Line
<1> QED BY <1>1, <1>4, <1>5 DEF Moves

LEMMA FinishedMoves ==
  ASSUME NEW E, NEW d \in Docs(E)
  PROVE  Moves(d, Finished(d))
BY FinishedAlong DEF Along, Moves

LEMMA UndoMoves ==
  ASSUME NEW d, DocOK(d), NEW n, NEW m, Fits(d, n, m)
  PROVE  /\ Moves(d, Undo(d))
         /\ d.undo # << >> /\ Pending(d) = << >> => Undo(d).undo = Front(d.undo)
<1>1. d \in Docs(Logs)
  BY DEF DocOK
<1>2. CASE d.undo = << >>
  <2>1. Undo(d) = Finished(d)
    BY <1>2, UndoIs
  <2> QED BY <1>1, <1>2, <2>1, FinishedMoves
<1>3. CASE d.undo # << >>
  <2> DEFINE t == UndoTop(d)
             el == MoveUndo(d.el)
             x == Undo(d)
  <2>1. x = CheckForVirginity(Moved(t, el))
    BY <1>3, UndoIs
  <2>2. el.rows = d.el.rows /\ el.saved = d.el.saved
    BY <1>3, UndoMoveOK
  <2>3. Along(d, t) /\ t.modified /\ (Pending(d) = << >> => t.undo = Front(d.undo))
    BY <1>1, <1>3, UndoTopAlong
  <2> HIDE DEF t, el, x
  <2>4. Moves(d, x) /\ x.undo = t.undo
    BY <2>1, <2>2, <2>3, AlongMoves
  <2> QED BY <2>3, <2>4 DEF x
<1> QED BY <1>2, <1>3

LEMMA RedoMoves ==
  ASSUME NEW d, DocOK(d)
  PROVE  Moves(d, Redo(d))
<1>1. d \in Docs(Logs)
  BY DEF DocOK
<1>2. CASE d.redo = << >>
  <2>1. Redo(d) = Finished(d)
    BY <1>2, RedoIs
  <2> QED BY <1>1, <2>1, FinishedMoves
<1>3. CASE d.redo # << >>
  <2> DEFINE t == RedoTop(d)
             el == MoveRedo(d.el)
             x == Redo(d)
  <2>1. x = CheckForVirginity(Moved(t, el))
    BY <1>3, RedoIs
  <2>2. el.rows = d.el.rows /\ el.saved = d.el.saved
    BY <1>3, RedoMoveOK
  <2>3. Along(d, t) /\ t.modified
    BY <1>1, <1>3, RedoTopAlong
  <2> HIDE DEF t, el, x
  <2>4. Moves(d, x)
    BY <2>1, <2>2, <2>3, AlongMoves
  <2> QED BY <2>4 DEF x
<1> QED BY <1>2, <1>3

LEMMA SeekMoves ==
  ASSUME HistoryInv, SeekStep, NEW n, NEW m, Fits(doc, n, m)
  PROVE  Moves(doc, doc')
<1>1. /\ DocOK(doc) /\ doc \in Docs(Logs)
  BY DEF HistoryInv, DocOK
<1>2. PICK t, el : /\ \/ /\ doc.undo # << >> /\ t = UndoTop(doc) /\ el = MoveUndo(doc.el)
                      \/ /\ doc.redo # << >> /\ t = RedoTop(doc) /\ el = MoveRedo(doc.el)
                   /\ doc' = Moved(t, el) \/ doc' = CheckForVirginity(Moved(t, el))
  BY SeekStepOK
<1>3. el.rows = doc.el.rows /\ el.saved = doc.el.saved
  <2>1. CASE doc.undo # << >> /\ el = MoveUndo(doc.el)
    BY <1>1, <2>1, UndoMoveOK
  <2>2. CASE doc.redo # << >> /\ el = MoveRedo(doc.el)
    BY <1>1, <2>2, RedoMoveOK
  <2> QED BY <1>2, <2>1, <2>2
<1>4. Along(doc, t) /\ t.modified
  <2>1. CASE doc.undo # << >> /\ t = UndoTop(doc)
    BY <1>1, <2>1, UndoTopAlong
  <2>2. CASE doc.redo # << >> /\ t = RedoTop(doc)
    BY <1>1, <2>2, RedoTopAlong
  <2> QED BY <1>2, <2>1, <2>2
<1> QED BY <1>2, <1>3, <1>4, AlongMoves

LEMMA MovesFiled ==
  ASSUME NEW E, NEW d \in Docs(E), NEW F, NEW x \in Docs(F), Moves(d, x), Pending(d) = << >>,
         NEW f, Filed(d, f)
  PROVE  Filed(x, f)
<1>1. PICK p \in Seq(Edits) : /\ d.content = (p \o EditsOf(d.undo)) \o Pending(d)
                              /\ \A i : AtSaved(d, i) => f = Place(d, p, i)
  BY DEF Filed
<1>2. /\ x.el.rows = d.el.rows /\ x.el.saved = d.el.saved /\ Pending(x) = << >>
      /\ Line(x) = Line(d)
      /\ d.content = p \o EditsOf(d.undo) => x.content = p \o EditsOf(x.undo)
  BY DEF Moves
<1>3. \A v \in Seq(Edits) : (p \o v) \o << >> = p \o v
  BY EditsConcat
<1>4. EditsOf(d.undo) \in Seq(Edits) /\ EditsOf(x.undo) \in Seq(Edits)
  BY FitsTypes
<1>5. x.content = (p \o EditsOf(x.undo)) \o Pending(x)
  BY <1>1, <1>2, <1>3, <1>4
<1>6. \A i : AtSaved(x, i) => AtSaved(d, i) /\ Place(x, p, i) = Place(d, p, i)
  BY <1>2 DEF AtSaved, Place
<1> QED BY <1>1, <1>5, <1>6 DEF Filed

LEMMA CancelIs ==
  ASSUME NEW d
  PROVE  \E icon \in EventIcons :
           LET c == MaybeDone(d, NoKey, FALSE, icon, TRUE) IN
           Cancel(d) = c \/ (c.undo # << >> /\ Cancel(d) = ClearRedo(Undo(c)))
<1>1. "" \in EventIcons
  BY Zenon DEF EventIcons
<1>2. LET c == MaybeDone(d, NoKey, FALSE, "", TRUE) IN
      Cancel(d) = c \/ (c.undo # << >> /\ Cancel(d) = ClearRedo(Undo(c)))
  BY Zenon DEF Cancel
<1> QED BY <1>1, <1>2, Zenon

\* A transaction is committed and undone, and cannot be redone.
LEMMA CancelRefiles ==
  ASSUME NEW d, DocOK(d), Named(d.el, d.born), d.born < MaxCommits, UndoSize > 1,
         NEW n, NEW m, Fits(d, n, m)
  PROVE  LET w == Cancel(d) IN
         /\ DocOK(w) /\ Named(w.el, w.born) /\ w.el.saved = d.el.saved /\ Pending(w) = << >>
         /\ \/ w.modified \/ w.el.curr = w.el.saved
            \/ w.modified = d.modified /\ w.el.curr = d.el.curr
         /\ \A f : Filed(d, f) => Refiled(d, w, f)
<1>1. PICK icon \in EventIcons :
        LET c == MaybeDone(d, NoKey, FALSE, icon, TRUE) IN
        Cancel(d) = c \/ (c.undo # << >> /\ Cancel(d) = ClearRedo(Undo(c)))
  BY CancelIs
<1> DEFINE x == MaybeDone(d, NoKey, FALSE, icon, TRUE)
           y == Undo(x)
           w == Cancel(d)
<1>2. NoKey \in Keys \cup {NoKey} /\ FALSE \in BOOLEAN /\ TRUE \in BOOLEAN
  OBVIOUS
<1>3. /\ DocOK(x) /\ Named(x.el, x.born) /\ x.el.saved = d.el.saved
      /\ Pending(x) = << >>
      /\ x.modified \/ (x.modified = d.modified /\ x.el.curr = d.el.curr)
      /\ \A f : Filed(d, f) => Refiled(d, x, f)
  BY <1>2, MaybeDoneRefiles
<1>4. Fits(x, n, m)
  BY <1>2, MaybeDoneFits
<1>5. w = x \/ (x.undo # << >> /\ w = ClearRedo(y))
  BY <1>1
<1>6. DocOK(y)
  BY <1>3, UndoOK
<1>7. Moves(x, y) /\ (x.undo # << >> => y.undo = Front(x.undo))
  BY <1>3, <1>4, UndoMoves
<1> HIDE DEF x, y, w
<1>8. CASE w = x
  BY <1>3, <1>8 DEF w
<1>9. CASE x.undo # << >> /\ w = ClearRedo(y)
  <2>1. /\ DocOK(w) /\ w.undo = y.undo /\ w.el.saved = y.el.saved /\ w.el.curr = y.el.curr
        /\ w.modified = y.modified /\ w.content = y.content /\ Pending(w) = Pending(y)
        /\ w.born = y.born /\ Len(w.el.rows) <= Len(y.el.rows)
        /\ \A i \in 1..Len(w.el.rows) : /\ w.el.rows[i] = y.el.rows[i]
                                        /\ \A p : Place(w, p, i) = Place(y, p, i)
    BY <1>6, <1>9, ClearRedoPlaces
  <2>2. /\ y.el.rows = x.el.rows /\ y.el.saved = x.el.saved /\ y.born = x.born
        /\ Pending(y) = << >> /\ Line(y) = Line(x)
        /\ \/ y.modified \/ y.el.curr = y.el.saved
           \/ y.modified = x.modified /\ y.el.curr = x.el.curr
        /\ \A p \in Seq(Edits) : x.content = p \o EditsOf(x.undo) => y.content = p \o EditsOf(y.undo)
    BY <1>3, <1>7 DEF Moves
  <2>3. Len(w.el.rows) \in Nat /\ Len(x.el.rows) \in Nat /\ x \in Docs(Logs)
    BY <1>3, <2>1, DocRows
  <2>4. Named(w.el, w.born)
    BY <1>3, <2>1, <2>2, <2>3, NamedPrefix
  <2>5. w.undo = << >> \/ w.undo[1] = x.undo[1]
    <3>1. x.undo \in Seq(Events)
      BY <2>3, DocTypes
    <3>2. Len(Front(x.undo)) = Len(x.undo) - 1 /\ Front(x.undo) \in Seq(Events)
          /\ \A i \in 1..(Len(x.undo) - 1) : Front(x.undo)[i] = x.undo[i]
      BY <1>9, <3>1, LastFacts
    <3>3. w.undo = Front(x.undo)
      BY <1>7, <1>9, <2>1
    <3> DEFINE s == Front(x.undo)
    <3>4. s = << >> \/ 1 \in 1..Len(s)
      <4>1. s \in Seq(Events)
        BY <3>2
      <4> HIDE DEF s
      <4> QED BY <4>1
    <3> QED BY <3>2, <3>3, <3>4
  <2>6. ASSUME NEW f, Filed(d, f) PROVE Refiled(d, w, f)
    <3>1. PICK k, p :
            /\ k \in Nat /\ p \in Seq(Edits) /\ x.content = p \o EditsOf(x.undo)
            /\ k # 0 => d.undo # << >> /\ (x.undo = << >> \/ x.undo[1].id # d.undo[1].id)
            /\ \A i : AtSaved(x, i) /\ (k = 0 \/ Untouched(d, x, i)) => f = Place(x, p, i)
      BY <1>3, <2>6 DEF Refiled
    <3>2. w.content = p \o EditsOf(w.undo)
      BY <2>1, <2>2, <3>1
    <3>3. k # 0 => d.undo # << >> /\ (w.undo = << >> \/ w.undo[1].id # d.undo[1].id)
      BY <1>9, <2>5, <3>1
    <3>4. ASSUME NEW i, AtSaved(w, i), k = 0 \/ Untouched(d, w, i)
          PROVE  f = Place(w, p, i)
      <4>1. i \in 1..Len(w.el.rows) /\ w.el.rows[i].node = x.el.saved
        BY <2>1, <2>2, <3>4 DEF AtSaved
      <4>2. i \in 1..Len(x.el.rows) /\ w.el.rows[i] = x.el.rows[i]
        BY <2>1, <2>2, <2>3, <4>1
      <4>3. AtSaved(x, i) /\ (k = 0 \/ Untouched(d, x, i))
        BY <3>4, <4>1, <4>2 DEF AtSaved, Untouched
      <4>4. Place(w, p, i) = Place(x, p, i)
        <5>1. Place(w, p, i) = Place(y, p, i)
          BY <2>1, <4>1
        <5>2. Place(y, p, i) = Place(x, p, i)
          BY <2>2 DEF Place
        <5> QED BY <5>1, <5>2
      <4> QED BY <3>1, <4>3, <4>4
    <3> QED BY <3>1, <3>2, <3>3, <3>4 DEF Refiled
  <2>7. \/ w.modified \/ w.el.curr = w.el.saved
        \/ w.modified = d.modified /\ w.el.curr = d.el.curr
    BY <1>3, <2>1, <2>2
  <2>8. w.el.saved = d.el.saved /\ Pending(w) = << >>
    BY <1>3, <2>1, <2>2
  <2> QED BY <2>1, <2>4, <2>6, <2>7, <2>8 DEF w
<1> QED BY <1>5, <1>8, <1>9

-----------------------------------------------------------------------------
(* The place of the current row is that of the undo stack.                 *)

LEMMA HereIs ==
  ASSUME NEW E, NEW d \in Docs(E), NEW p
  PROVE  Place(d, p, Len(d.undo) + 1) = p \o EditsOf(d.undo)
<1> DEFINE u == Len(d.undo)
           c == Line(d)
<1>1. /\ c \in Seq(Events) /\ Len(c) = u + Len(d.redo) /\ u \in Nat /\ Len(d.redo) \in Nat
      /\ \A i \in 1..u : c[i] = d.undo[i]
  BY LineFacts
<1>2. d.undo \in Seq(Events)
  BY DocTypes
<1>3. u \in 0..Len(c) /\ u \in 0..Len(d.undo)
  <2>1. u \in 0..Len(d.undo)
    BY <1>1
  <2> DEFINE r == Len(d.redo)
             l == Len(c)
  <2>2. l = u + r /\ u \in Nat /\ r \in Nat
    BY <1>1
  <2> HIDE DEF u, r, l
  <2>3. u \in 0..l
    BY <2>2
  <2> QED BY <2>1, <2>3 DEF l, u
<1>4. SubSeq(c, 1, u) = SubSeq(d.undo, 1, u)
  <2> HIDE DEF u, c
  <2> QED BY <1>1, <1>2, <1>3, SamePrefix
<1>5. SubSeq(d.undo, 1, u) = d.undo
  BY <1>2, SubSeqFull
<1> HIDE DEF c
<1>7. Place(d, p, u + 1) = p \o EditsOf(SubSeq(Line(d), 1, u))
  <2> DEFINE j == u + 1
  <2>1. j - 1 = u
    BY <1>1
  <2> HIDE DEF u, j
  <2>2. Place(d, p, j) = p \o EditsOf(SubSeq(Line(d), 1, j - 1))
    BY DEF Place
  <2>3. Place(d, p, j) = p \o EditsOf(SubSeq(Line(d), 1, u))
    BY <2>1, <2>2
  <2> QED BY <2>3 DEF j
<1> QED BY <1>4, <1>5, <1>7 DEF c, u

\* A document is where it was saved when its current row is the saved one.
LEMMA SavedHere ==
  ASSUME NEW d, DocOK(d)
  PROVE  /\ d.el.curr = d.el.saved => AtSaved(d, Len(d.undo) + 1)
         /\ d.el.curr = d.el.saved => \A i : AtSaved(d, i) => i = Len(d.undo) + 1
<1>1. /\ TreeOK(d.el) /\ Len(d.undo) + 1 \in 1..Len(d.el.rows)
      /\ d.el.curr = d.el.rows[Len(d.undo) + 1].node
  BY DocRows
<1>2. d.el.curr = d.el.saved => AtSaved(d, Len(d.undo) + 1)
  BY <1>1 DEF AtSaved
<1>3. ASSUME d.el.curr = d.el.saved, NEW i, AtSaved(d, i) PROVE i = Len(d.undo) + 1
  <2>1. i \in 1..Len(d.el.rows) /\ d.el.rows[i].node = d.el.rows[Len(d.undo) + 1].node
    BY <1>1, <1>3 DEF AtSaved
  <2> QED BY <1>1, <2>1 DEF TreeOK
<1> QED BY <1>2, <1>3

LEMMA FiledFrame ==
  ASSUME NEW d, NEW x, x.el = d.el, x.undo = d.undo, x.redo = d.redo,
         x.content = d.content, Pending(x) = Pending(d), NEW f, Filed(d, f)
  PROVE  Filed(x, f)
<1>1. PICK p \in Seq(Edits) : /\ d.content = (p \o EditsOf(d.undo)) \o Pending(d)
                              /\ \A i : AtSaved(d, i) => f = Place(d, p, i)
  BY DEF Filed
<1>2. \A i : AtSaved(x, i) => AtSaved(d, i) /\ Place(x, p, i) = Place(d, p, i)
  BY DEF AtSaved, Place, Line
<1> QED BY <1>1, <1>2 DEF Filed

LEMMA EditFiled ==
  ASSUME NEW E, NEW d \in Docs(E), NEW e \in Edits, NEW x, x.el = d.el, x.undo = d.undo, x.redo = d.redo,
         x.content = Append(d.content, e), Pending(x) = Append(Pending(d), e),
         NEW f, Filed(d, f)
  PROVE  Filed(x, f)
<1>1. PICK p \in Seq(Edits) : /\ d.content = (p \o EditsOf(d.undo)) \o Pending(d)
                              /\ \A i : AtSaved(d, i) => f = Place(d, p, i)
  BY DEF Filed
<1>2. \A i : AtSaved(x, i) => AtSaved(d, i) /\ Place(x, p, i) = Place(d, p, i)
  BY DEF AtSaved, Place, Line
<1>3. x.content = (p \o EditsOf(x.undo)) \o Pending(x)
  <2> DEFINE one == <<e>>
             q == Pending(d)
             u == EditsOf(d.undo)
             s == p \o u
             c == d.content
  <2>1. q \in Seq(Edits) /\ u \in Seq(Edits) /\ c \in Seq(Edits)
    BY FitsTypes
  <2>2. one \in Seq(Edits)
    OBVIOUS
  <2> HIDE DEF q, u, c
  <2>3. s \in Seq(Edits)
    BY <2>1, EditsConcat
  <2>4. Append(q, e) = q \o one /\ Append(c, e) = c \o one
    BY <2>1, AppendIsConcat
  <2> HIDE DEF s, one
  <2>5. (s \o q) \o one = s \o (q \o one)
    <3>1. s \in Seq(Edits) /\ q \in Seq(Edits) /\ one \in Seq(Edits)
      BY <2>1, <2>2, <2>3
    <3> QED BY <3>1, EditsConcat
  <2>6. c = s \o q
    BY <1>1 DEF c, s, u, q
  <2>7. x.content = c \o one /\ Pending(x) = q \o one /\ x.undo = d.undo
    BY <2>4 DEF c, q
  <2> QED BY <2>5, <2>6, <2>7 DEF s, u
<1> QED BY <1>1, <1>2, <1>3 DEF Filed

\* A document that is saved with nothing pending is what its file holds.
LEMMA SavedFiled ==
  ASSUME NEW d, DocOK(d), NEW n, NEW m, Fits(d, n, m), NEW official \in BOOLEAN,
         Pending(d) = << >>
  PROVE  Filed(Saved(d, official), d.content)
<1> DEFINE x == Saved(d, official)
<1>1. d \in Docs(Logs)
  BY DEF DocOK
<1>2. /\ x.el = [d.el EXCEPT !.saved = d.el.curr] /\ x.log = << >> /\ x.partial = Pending(d)
      /\ x.undo = d.undo /\ x.redo = d.redo /\ x.content = d.content
  BY <1>1, SavedIs
<1>3. DocOK(x)
  BY SavedOK
<1>4. x.el.saved = d.el.curr /\ x.el.curr = d.el.curr
  <2>1. d.el \in Logs
    BY <1>1, DocTypes
  <2> HIDE DEF x
  <2> QED BY <1>2, <2>1 DEF Logs
<1> HIDE DEF x
<1>5. PICK p \in Seq(Edits) : Holds(d, p \o EditsOf(d.undo), n, m)
  BY DEF Fits
<1>6. Pending(x) = << >>
  <2>1. << >> \o << >> = << >>
    OBVIOUS
  <2> QED BY <1>2, <2>1 DEF Pending
<1>7. x.content = (p \o EditsOf(x.undo)) \o Pending(x)
  BY <1>2, <1>5, <1>6 DEF Holds
<1>8. d.content = p \o EditsOf(x.undo)
  <2> DEFINE u == EditsOf(d.undo)
  <2>1. u \in Seq(Edits)
    BY <1>1, FitsTypes
  <2> HIDE DEF u
  <2>2. p \o u \in Seq(Edits)
    BY <2>1, EditsConcat
  <2>3. (p \o u) \o << >> = p \o u
    BY <2>2, EditsConcat
  <2> QED BY <1>2, <1>5, <2>3 DEF Holds, u
<1>9. ASSUME NEW i, AtSaved(x, i) PROVE d.content = Place(x, p, i)
  <2>1. i = Len(x.undo) + 1
    BY <1>3, <1>4, <1>9, SavedHere
  <2>2. x \in Docs(Logs)
    BY <1>3 DEF DocOK
  <2>3. Place(x, p, Len(x.undo) + 1) = p \o EditsOf(x.undo)
    BY <2>2, HereIs
  <2> QED BY <1>8, <2>1, <2>3
<1>10. Filed(x, d.content)
  BY <1>7, <1>9 DEF Filed
<1> QED BY <1>10 DEF x

\* Of a document that holds what its file holds, but nothing that is pending,
\* nothing is pending.
LEMMA NothingOpen ==
  ASSUME NEW d, NEW n, NEW m, Fits(d, n, m), Range(d.content) \cap Range(Pending(d)) = {}
  PROVE  Pending(d) = << >>
<1> DEFINE q == Pending(d)
<1>1. d \in Docs({d.el})
  BY DEF Fits
<1>2. PICK p \in Seq(Edits) : Holds(d, p \o EditsOf(d.undo), n, m)
  BY DEF Fits
<1> DEFINE s == p \o EditsOf(d.undo)
<1>3. q \in Seq(Edits) /\ EditsOf(d.undo) \in Seq(Edits)
  BY <1>1, FitsTypes
<1>4. s \in Seq(Edits)
  BY <1>3, EditsConcat
<1>5. d.content = s \o q
  BY <1>2 DEF Holds
<1>6. Range(q) \cap Range(q) = {}
  <2> HIDE DEF s, q
  <2>1. Range(d.content) = Range(s) \cup Range(q)
    BY <1>3, <1>4, <1>5, EditsFacts
  <2> QED BY <2>1 DEF q
<1> HIDE DEF q
<1>7. q = << >>
  <2> SUFFICES ASSUME q # << >> PROVE FALSE
    OBVIOUS
  <2>1. 1 \in DOMAIN q
    BY <1>3
  <2>2. q[1] \in Range(q)
    BY <2>1 DEF Range
  <2> QED BY <1>6, <2>2
<1> QED BY <1>7 DEF q

-----------------------------------------------------------------------------
(* The strengthening of UnmodifiedMeansSaved that each step preserves.     *)

Sound(d, f, n, b, m) ==
  /\ Named(d.el, d.born)
  /\ ~d.modified => d.el.curr = d.el.saved
  /\ Range(f) \subseteq 1..n
  /\ ~b => Range(f) \cap Range(Pending(d)) = {}
  /\ ~b /\ ~m => Filed(d, f)

SaveInv == Sound(doc, filed, edits, blurred, mended)

LEMMA SoundFrame ==
  ASSUME NEW d, NEW f, NEW n, NEW b, NEW m, Sound(d, f, n, b, m),
         NEW x, x.el = d.el, x.undo = d.undo, x.redo = d.redo, x.born = d.born,
         x.content = d.content, x.modified = d.modified, Pending(x) = Pending(d)
  PROVE  Sound(x, f, n, b, m)
<1>1. ~b /\ ~m => Filed(x, f)
  BY FiledFrame DEF Sound
<1> QED BY <1>1 DEF Sound

LEMMA SoundEdit ==
  ASSUME NEW E, NEW d \in Docs(E), NEW f, NEW n \in Nat, NEW b, NEW m, Sound(d, f, n, b, m),
         n + 1 \in Edits, NEW x, x.el = d.el, x.undo = d.undo, x.redo = d.redo,
         x.born = d.born, x.modified = d.modified,
         x.content = Append(d.content, n + 1), Pending(x) = Append(Pending(d), n + 1)
  PROVE  Sound(x, f, n + 1, b, m)
<1> DEFINE e == n + 1
           q == Pending(d)
<1>1. q \in Seq(Edits) /\ e \in Edits
  BY FitsTypes
<1>2. Range(f) \subseteq 1..n /\ (~b => Range(f) \cap Range(q) = {})
  BY DEF Sound
<1>3. Range(f) \subseteq 1..e /\ e \notin Range(f)
  BY <1>2
<1> HIDE DEF e, q
<1>4. Range(Append(q, e)) = Range(q) \cup {e}
  <2> DEFINE one == <<e>>
  <2>1. one \in Seq(Edits) /\ Append(q, e) = q \o one
    BY <1>1, AppendIsConcat
  <2>2. Range(one) = {e}
    BY DEF Range
  <2> HIDE DEF one
  <2> QED BY <1>1, <2>1, <2>2, EditsFacts
<1>5. ~b => Range(f) \cap Range(Pending(x)) = {}
  BY <1>2, <1>3, <1>4 DEF e, q
<1>6. ~b /\ ~m => Filed(x, f)
  <2> SUFFICES ASSUME Filed(d, f) PROVE Filed(x, f)
    BY DEF Sound
  <2>1. x.content = Append(d.content, e) /\ Pending(x) = Append(Pending(d), e)
    BY DEF e
  <2> QED BY <1>1, <2>1, EditFiled
<1>7. Range(f) \subseteq 1..(n + 1)
  BY <1>3 DEF e
<1> QED BY <1>5, <1>6, <1>7 DEF Sound

\* What is pending in d joins the event of the saved row.
Joins(d, x) == x.born = d.born /\ Pending(d) # << >> /\ d.el.saved = d.el.curr

\* x is d when its transaction has come to an end.
Concluded(d, x) ==
  /\ DocOK(x) /\ Named(x.el, x.born) /\ x.el.saved = d.el.saved /\ Pending(x) = << >>
  /\ x.modified \/ x.el.curr = x.el.saved \/ (x.modified = d.modified /\ x.el.curr = d.el.curr)

Refiles(d, x) == \A f : Filed(d, f) => Refiled(d, x, f)

LEMMA DoneConcludes ==
  ASSUME NEW d, DocOK(d), Named(d.el, d.born), d.born < MaxCommits, UndoSize > 1,
         NEW key \in Keys \cup {NoKey}, NEW expired \in BOOLEAN, NEW icon \in EventIcons,
         NEW zone \in BOOLEAN
  PROVE  LET x == MaybeDone(d, key, expired, icon, zone) IN
         Concluded(d, x) /\ (~Joins(d, x) => Refiles(d, x))
<1> DEFINE x == MaybeDone(d, key, expired, icon, zone)
<1>1. /\ DocOK(x) /\ Named(x.el, x.born) /\ x.el.saved = d.el.saved /\ Pending(x) = << >>
      /\ x.modified \/ (x.modified = d.modified /\ x.el.curr = d.el.curr)
      /\ (key = NoKey \/ x.born # d.born \/ Pending(d) = << >> \/ d.el.saved # d.el.curr)
           => \A g : Filed(d, g) => Refiled(d, x, g)
  BY MaybeDoneRefiles
<1> HIDE DEF x
<1>2. Concluded(d, x) /\ (~Joins(d, x) => Refiles(d, x))
  BY <1>1 DEF Concluded, Joins, Refiles
<1> QED BY <1>2 DEF x

LEMMA CancelConcludes ==
  ASSUME NEW d, DocOK(d), Named(d.el, d.born), d.born < MaxCommits, UndoSize > 1,
         NEW n, NEW m, Fits(d, n, m)
  PROVE  Concluded(d, Cancel(d)) /\ Refiles(d, Cancel(d))
BY CancelRefiles DEF Concluded, Refiles

LEMMA SoundConcluded ==
  ASSUME NEW d, NEW f, NEW n, NEW b, NEW m, Sound(d, f, n, b, m), NEW x, Concluded(d, x),
         NEW c, ~c => ~b /\ ~Blurs(d, x) /\ Refiles(d, x)
  PROVE  Sound(x, f, n, c, m)
<1>1. /\ DocOK(x) /\ Named(x.el, x.born) /\ x.el.saved = d.el.saved /\ Pending(x) = << >>
      /\ \/ x.modified \/ x.el.curr = x.el.saved
         \/ x.modified = d.modified /\ x.el.curr = d.el.curr
  BY DEF Concluded
<1>2. ~c /\ ~m => Filed(x, f)
  <2> SUFFICES ASSUME ~c, ~m PROVE Filed(x, f)
    OBVIOUS
  <2>1. Filed(d, f) /\ Refiled(d, x, f)
    BY DEF Sound, Refiles
  <2> QED BY <1>1, <2>1, RefiledIsFiled
<1>3. Range(f) \cap Range(Pending(x)) = {}
  BY <1>1, EditsFacts
<1>4. ~x.modified => x.el.curr = x.el.saved
  BY <1>1 DEF Sound
<1>5. Range(f) \subseteq 1..n
  BY DEF Sound
<1> QED BY <1>1, <1>2, <1>3, <1>4, <1>5 DEF Sound

LEMMA SoundMoves ==
  ASSUME NEW E, NEW d \in Docs(E), NEW f, NEW n, NEW b, NEW m \in BOOLEAN, Sound(d, f, n, b, m),
         NEW F, NEW x \in Docs(F), Moves(d, x)
  PROVE  Sound(x, f, n, b, m \/ Pending(d) # << >>)
<1>1. /\ x.el.rows = d.el.rows /\ x.el.saved = d.el.saved /\ x.born = d.born
      /\ Pending(x) = << >>
      /\ x.modified \/ x.el.curr = x.el.saved \/ (x.modified = d.modified /\ x.el.curr = d.el.curr)
  BY DEF Moves
<1>2. Named(x.el, x.born)
  BY <1>1 DEF Sound, Named
<1>3. ~x.modified => x.el.curr = x.el.saved
  BY <1>1 DEF Sound
<1>4. Range(f) \cap Range(Pending(x)) = {}
  BY <1>1, EditsFacts
<1>5. ~b /\ ~(m \/ Pending(d) # << >>) => Filed(x, f)
  <2> SUFFICES ASSUME Filed(d, f), Pending(d) = << >> PROVE Filed(x, f)
    BY DEF Sound
  <2> QED BY MovesFiled
<1> QED BY <1>2, <1>3, <1>4, <1>5 DEF Sound

\* An official save, or that of a copy, which the current row stands for too.
LEMMA SoundSave ==
  ASSUME NEW d, DocOK(d), NEW f, NEW n, NEW b \in BOOLEAN, NEW m, Sound(d, f, n, b, m),
         Fits(d, n, m), NEW official \in BOOLEAN, NEW g, NEW c \in BOOLEAN,
         official => g = d.content /\ (~c => Pending(d) = << >>),
         ~official => g = f /\ (~c => ~b /\ f = d.content)
  PROVE  Sound(Saved(d, official), g, n, c, m)
<1> DEFINE x == Saved(d, official)
           q == Pending(d)
<1>1. d \in Docs(Logs)
  BY DEF DocOK
<1>2. /\ x.log = << >> /\ x.partial = q /\ x.born = d.born
      /\ x.el = [d.el EXCEPT !.saved = d.el.curr]
      /\ x.modified = (~official /\ d.modified)
  BY <1>1, SavedIs
<1> HIDE DEF x
<1>3. x.el.saved = d.el.curr /\ x.el.curr = d.el.curr /\ x.el.rows = d.el.rows
  <2>1. d.el \in Logs
    BY <1>1, DocTypes
  <2> QED BY <1>2, <2>1 DEF Logs
<1>4. Pending(x) = q
  <2>1. q \in Seq(Edits)
    BY <1>1, FitsTypes
  <2> HIDE DEF q
  <2> QED BY <1>2, <2>1, EditsConcat DEF Pending
<1>5. Named(x.el, x.born)
  BY <1>2, <1>3 DEF Sound, Named
<1>6. Range(g) \subseteq 1..n
  BY ContentDistinct DEF Sound
<1>7. ~c => q = << >> /\ g = d.content
  <2> SUFFICES ASSUME ~c PROVE q = << >> /\ g = d.content
    OBVIOUS
  <2>1. CASE official
    BY <2>1
  <2>2. CASE ~official
    <3>1. ~b /\ g = f /\ f = d.content
      BY <2>2
    <3>2. Range(d.content) \cap Range(Pending(d)) = {}
      BY <3>1 DEF Sound
    <3> QED BY <3>1, <3>2, NothingOpen
  <2> QED BY <2>1, <2>2
<1>8. ~c => Range(g) \cap Range(Pending(x)) = {}
  <2> HIDE DEF q
  <2> QED BY <1>4, <1>7, EditsFacts
<1>9. ~c => Filed(x, g)
  <2> SUFFICES ASSUME ~c PROVE Filed(x, g)
    OBVIOUS
  <2>1. Pending(d) = << >> /\ g = d.content
    BY <1>7
  <2>2. Filed(Saved(d, official), d.content)
    BY <2>1, SavedFiled
  <2> QED BY <2>1, <2>2 DEF x
<1>10. Sound(x, g, n, c, m)
  BY <1>3, <1>5, <1>6, <1>8, <1>9 DEF Sound
<1> QED BY <1>10 DEF x

LEMMA SaveInit == Init => SaveInv
<1> SUFFICES ASSUME Init PROVE SaveInv
  OBVIOUS
<1>1. /\ doc = InitDoc /\ edits = 0 /\ filed = << >> /\ blurred = FALSE /\ mended = FALSE
  BY DEF Init
<1>2. LogsInv /\ HistoryInv
  BY LogsInit, HistoryInit
<1>3. /\ doc.content = << >> /\ doc.log = << >> /\ doc.partial = << >> /\ doc.undo = << >>
      /\ doc.redo = << >> /\ doc.el = InitLog(0)
  BY <1>1 DEF InitDoc
<1>4. DocOK(doc) /\ doc \in Docs(Logs)
  BY <1>2 DEF HistoryInv, DocOK
<1>5. Pending(doc) = << >> /\ EditsOf(doc.undo) = << >>
  <2>1. << >> \o << >> = << >>
    BY EditsFacts, EditsConcat
  <2> QED BY <1>3, <2>1, EditsOfGrows DEF Pending
<1>6. Len(doc.el.rows) = 1 /\ doc.el.curr = 0 /\ doc.el.saved = 0
  <2> DEFINE row == Row(0, Null, "document-new", FALSE)
             r == <<row>>
  <2>1. InitLog(0) = [rows |-> r, curr |-> 0, last |-> 0, parent |-> Null, saved |-> 0]
    BY DEF InitLog
  <2> HIDE DEF row
  <2>2. Len(r) = 1
    OBVIOUS
  <2> HIDE DEF r
  <2> QED BY <1>3, <2>1, <2>2
<1>7. Named(doc.el, doc.born)
  <2>1. \A i \in 2..Len(doc.el.rows) : FALSE
    BY <1>6
  <2> QED BY <2>1 DEF Named
<1>8. Filed(doc, << >>)
  <2> DEFINE e == << >>
  <2>1. e \in Seq(Edits) /\ (e \o e) \o e = e /\ e \o e = e
    BY EditsFacts, EditsConcat
  <2>2. ASSUME NEW i, AtSaved(doc, i) PROVE e = Place(doc, e, i)
    <3>1. i = Len(doc.undo) + 1
      BY <1>4, <1>6, <2>2, SavedHere
    <3>2. Place(doc, e, Len(doc.undo) + 1) = e \o EditsOf(doc.undo)
      BY <1>4, HereIs
    <3> QED BY <1>5, <2>1, <3>1, <3>2
  <2>3. doc.content = (e \o EditsOf(doc.undo)) \o Pending(doc)
    BY <1>3, <1>5, <2>1
  <2> QED BY <2>1, <2>2, <2>3 DEF Filed
<1>9. Range(filed) \subseteq 1..edits /\ Range(filed) \cap Range(Pending(doc)) = {}
  BY <1>1, EditsFacts
<1>10. doc.el.curr = doc.el.saved
  BY <1>6
<1> QED BY <1>1, <1>7, <1>8, <1>9, <1>10 DEF SaveInv, Sound

LEMMA SaveStep ==
  ASSUME HistoryInv, LogsInv, SaveInv, [Next]_vars, UndoSize > 1
  PROVE  SaveInv'
<1> DEFINE f == filed
           n == edits
           b == blurred
           m == mended
<1>1. /\ DocOK(doc) /\ doc \in Docs(Logs) /\ Fits(doc, n, m)
      /\ b \in BOOLEAN /\ m \in BOOLEAN
  BY DEF HistoryInv, DocOK, LogsInv
<1>2. Sound(doc, f, n, b, m)
  BY DEF SaveInv
<1>3. HistoryInv'
  BY HistoryStep
<1>4. DocOK(doc') /\ doc' \in Docs(Logs) /\ blurred' \in BOOLEAN
  BY <1>3 DEF HistoryInv, DocOK
<1>5. CASE Edit
  <2>1. UNCHANGED <<filed, blurred, mended>>
    BY <1>5 DEF Edit
  <2>2. /\ n + 1 \in Edits /\ n \in Nat /\ edits' = n + 1
        /\ doc'.el = doc.el /\ doc'.undo = doc.undo /\ doc'.redo = doc.redo
        /\ doc'.born = doc.born /\ doc'.modified = doc.modified
        /\ doc'.content = Append(doc.content, n + 1)
        /\ Pending(doc') = Append(Pending(doc), n + 1)
    BY <1>5, EditIs
  <2>3. Sound(doc', f, n + 1, b, m)
    BY <1>1, <1>2, <2>2, SoundEdit
  <2> QED BY <2>1, <2>2, <2>3 DEF SaveInv
<1>6. CASE CancelDone
  <2>1. /\ doc.born < MaxCommits /\ doc' = Cancel(doc)
        /\ blurred' = (b \/ Blurs(doc, doc')) /\ UNCHANGED <<edits, filed, mended>>
    BY <1>6 DEF CancelDone, ExpiryBlurs, Blurs
  <2>2. Named(doc.el, doc.born)
    BY <1>2 DEF Sound
  <2>3. Concluded(doc, Cancel(doc)) /\ Refiles(doc, Cancel(doc))
    BY <1>1, <2>1, <2>2, CancelConcludes
  <2>4. ~blurred' => ~b /\ ~Blurs(doc, doc') /\ Refiles(doc, doc')
    BY <2>1, <2>3
  <2>5. Sound(doc', f, n, blurred', m)
    <3> DEFINE c == blurred'
    <3>1. Concluded(doc, doc') /\ (~c => ~b /\ ~Blurs(doc, doc') /\ Refiles(doc, doc'))
      BY <2>1, <2>3, <2>4
    <3> HIDE DEF c
    <3>2. Sound(doc', f, n, c, m)
      BY <1>2, <3>1, SoundConcluded
    <3> QED BY <3>2 DEF c
  <2> QED BY <2>1, <2>5 DEF SaveInv
<1>7. CASE UndoLast
  <2>1. /\ doc' = Undo(doc) /\ mended' = (m \/ Pending(doc) # << >>)
        /\ UNCHANGED <<edits, filed, blurred>>
    BY <1>7 DEF UndoLast, Mends
  <2>2. Moves(doc, doc')
    BY <1>1, <2>1, UndoMoves
  <2>3. Sound(doc', f, n, b, m \/ Pending(doc) # << >>)
    BY <1>1, <1>2, <1>4, <2>2, SoundMoves
  <2> QED BY <2>1, <2>3 DEF SaveInv
<1>8. CASE RedoLast
  <2>1. /\ doc' = Redo(doc) /\ mended' = (m \/ Pending(doc) # << >>)
        /\ UNCHANGED <<edits, filed, blurred>>
    BY <1>8 DEF RedoLast, Mends
  <2>2. Moves(doc, doc')
    BY <1>1, <2>1, RedoMoves
  <2>3. Sound(doc', f, n, b, m \/ Pending(doc) # << >>)
    BY <1>1, <1>2, <1>4, <2>2, SoundMoves
  <2> QED BY <2>1, <2>3 DEF SaveInv
<1>9. CASE ResetKey
  <2>1. /\ doc' = [doc EXCEPT !.actionkey = NoKey]
        /\ UNCHANGED <<edits, filed, blurred, mended>>
    BY <1>9 DEF ResetKey
  <2>2. /\ doc'.el = doc.el /\ doc'.undo = doc.undo /\ doc'.redo = doc.redo
        /\ doc'.born = doc.born /\ doc'.content = doc.content /\ doc'.modified = doc.modified
        /\ doc'.log = doc.log /\ doc'.partial = doc.partial
    BY <1>1, <2>1 DEF Docs
  <2>3. Pending(doc') = Pending(doc)
    BY <2>2 DEF Pending
  <2>4. Sound(doc', f, n, b, m)
    BY <1>2, <2>2, <2>3, SoundFrame
  <2> QED BY <2>1, <2>4 DEF SaveInv
<1>10. CASE ToggleSensitive
  <2> DEFINE s == ~doc.sensitive
             x == SetUndoSensitive(doc, s)
  <2>1. doc' = x /\ UNCHANGED <<edits, filed, blurred, mended>>
    BY <1>10 DEF ToggleSensitive
  <2>2. s \in BOOLEAN
    OBVIOUS
  <2>3. /\ x.el = doc.el /\ x.log = << >> /\ x.partial = (IF s THEN doc.partial ELSE Pending(doc))
        /\ x.undo = doc.undo /\ x.redo = doc.redo /\ x.content = doc.content
        /\ x.born = doc.born /\ x.modified = doc.modified
    BY <1>1, <2>2, SensitiveIs
  <2>4. Pending(doc) \in Seq(Edits) /\ doc.partial \in Seq(Edits)
    BY <1>1, PendingType
  <2>5. s => doc.log = << >>
    BY <1>1 DEF Fits
  <2> HIDE DEF x
  <2>6. Pending(x) = Pending(doc)
    <3>1. CASE s
      BY <2>3, <2>5, <3>1 DEF Pending
    <3>2. CASE ~s
      <4>1. Pending(x) = Pending(doc) \o << >>
        BY <2>3, <3>2 DEF Pending
      <4> QED BY <2>4, <4>1, EditsConcat
    <3> QED BY <3>1, <3>2
  <2>7. Sound(x, f, n, b, m)
    BY <1>2, <2>3, <2>6, SoundFrame
  <2> QED BY <2>1, <2>7 DEF SaveInv
<1>11. CASE SeekStep
  <2>1. mended' = (m \/ Pending(doc) # << >>) /\ UNCHANGED <<edits, filed, blurred>>
    BY <1>11 DEF SeekStep, Mends
  <2>2. Moves(doc, doc')
    BY <1>1, <1>11, SeekMoves
  <2>3. Sound(doc', f, n, b, m \/ Pending(doc) # << >>)
    BY <1>1, <1>2, <1>4, <2>2, SoundMoves
  <2> QED BY <2>1, <2>3 DEF SaveInv
<1>12. CASE \E key \in Keys \cup {NoKey}, expired \in BOOLEAN, icon \in Icons :
              Done(key, expired, icon)
  <2>1. PICK key \in Keys \cup {NoKey}, expired \in BOOLEAN, icon \in Icons :
              Done(key, expired, icon)
    BY <1>12
  <2>2. /\ doc.born < MaxCommits /\ doc' = MaybeDone(doc, key, expired, icon, FALSE)
        /\ UNCHANGED <<edits, filed, mended>>
        /\ ~blurred' => ~b /\ ~Blurs(doc, doc') /\ ~Joins(doc, doc')
    BY <2>1 DEF Done, ExpiryBlurs, Blurs, Joins
  <2>3. icon \in EventIcons
    BY Zenon DEF EventIcons
  <2>4. Named(doc.el, doc.born)
    BY <1>2 DEF Sound
  <2> DEFINE x == MaybeDone(doc, key, expired, icon, FALSE)
  <2>5. Concluded(doc, x) /\ (~Joins(doc, x) => Refiles(doc, x))
    BY <1>1, <2>2, <2>3, <2>4, DoneConcludes
  <2> HIDE DEF x
  <2>6. Concluded(doc, doc') /\ (~blurred' => ~b /\ ~Blurs(doc, doc') /\ Refiles(doc, doc'))
    BY <2>2, <2>5 DEF x
  <2>7. Sound(doc', f, n, blurred', m)
    <3> DEFINE c == blurred'
    <3>1. Concluded(doc, doc') /\ (~c => ~b /\ ~Blurs(doc, doc') /\ Refiles(doc, doc'))
      BY <2>6
    <3> HIDE DEF c
    <3>2. Sound(doc', f, n, c, m)
      BY <1>2, <3>1, SoundConcluded
    <3> QED BY <3>2 DEF c
  <2> QED BY <2>2, <2>7 DEF SaveInv
<1>13. CASE \E kind \in SaveKinds : Save(kind)
  <2>1. PICK kind \in SaveKinds : Save(kind)
    BY <1>13
  <2> DEFINE o == kind = "official"
             g == filed'
             c == blurred'
  <2>2. /\ doc' = Saved(doc, o) /\ UNCHANGED <<edits, mended>>
        /\ o => g = doc.content /\ (~c => Pending(doc) = << >>)
        /\ ~o => g = f /\ (~c => ~b /\ f = doc.content)
    BY <2>1 DEF Save
  <2>3. o \in BOOLEAN /\ c \in BOOLEAN
    BY <1>4
  <2> HIDE DEF o, g, c
  <2>4. Sound(Saved(doc, o), g, n, c, m)
    BY <1>1, <1>2, <2>2, <2>3, SoundSave
  <2> QED BY <2>2, <2>4 DEF SaveInv, g, c
<1>14. CASE \E node \in NodesOf(doc.el) : Seek(node)
  <2>1. UNCHANGED <<doc, edits, filed, blurred, mended>>
    BY <1>14 DEF Seek
  <2> QED BY <1>2, <2>1 DEF SaveInv
<1>15. CASE UNCHANGED vars
  BY <1>2, <1>15 DEF SaveInv, vars
<1> QED BY <1>5, <1>6, <1>7, <1>8, <1>9, <1>10, <1>11, <1>12, <1>13, <1>14, <1>15 DEF Next

LEMMA SavedIsFiled == HistoryInv /\ SaveInv => UnmodifiedMeansSaved
<1> SUFFICES ASSUME HistoryInv, SaveInv, ~doc.modified, Pending(doc) = << >>, ~blurred, ~mended
             PROVE  doc.content = filed
  BY DEF UnmodifiedMeansSaved
<1>1. DocOK(doc) /\ doc \in Docs(Logs)
  BY DEF HistoryInv, DocOK
<1>2. doc.el.curr = doc.el.saved /\ Filed(doc, filed)
  BY DEF SaveInv, Sound
<1>3. PICK p \in Seq(Edits) : /\ doc.content = (p \o EditsOf(doc.undo)) \o Pending(doc)
                              /\ \A i : AtSaved(doc, i) => filed = Place(doc, p, i)
  BY <1>2 DEF Filed
<1>4. filed = p \o EditsOf(doc.undo)
  <2>1. AtSaved(doc, Len(doc.undo) + 1)
    BY <1>1, <1>2, SavedHere
  <2>2. Place(doc, p, Len(doc.undo) + 1) = p \o EditsOf(doc.undo)
    BY <1>1, HereIs
  <2> QED BY <1>3, <2>1, <2>2
<1>5. (p \o EditsOf(doc.undo)) \o << >> = p \o EditsOf(doc.undo)
  <2> DEFINE u == EditsOf(doc.undo)
  <2>1. u \in Seq(Edits)
    BY <1>1, FitsTypes
  <2> HIDE DEF u
  <2>2. p \o u \in Seq(Edits)
    BY <2>1, EditsConcat
  <2>3. (p \o u) \o << >> = p \o u
    BY <2>2, EditsConcat
  <2> QED BY <2>3 DEF u
<1> QED BY <1>3, <1>4, <1>5

\* A document that is not marked as modified, with no transaction open, is
\* what its file holds: the EventLog compares rows, not contents, and the row
\* that was saved still stands for what was written then, through commits,
\* expiry, cancel, undo, redo and seeking, but where UnmodifiedMeansSaved
\* says that it was blurred.
THEOREM UnmodifiedIsSaved == ASSUME UndoSize > 1 PROVE Spec => []UnmodifiedMeansSaved
<1> DEFINE I == HistoryInv /\ LogsInv /\ SaveInv
<1>1. Init => I
  BY HistoryInit, LogsInit, SaveInit
<1>2. I /\ [Next]_vars => I'
  BY HistoryStep, LogsStep, SaveStep
<1>3. I => UnmodifiedMeansSaved
  BY SavedIsFiled
<1> HIDE DEF I
<1> QED BY <1>1, <1>2, <1>3, PTL DEF Spec
=============================================================================
