------------------------- MODULE ObserverListProofs -------------------------
(***************************************************************************)
(* Machine-checked proofs, for any observers and any number of additions   *)
(* and of nested notifications, that the lists of ObserverList are the     *)
(* registries of Registry.  What makes it true is that every record has a  *)
(* place of its own: the loops point into _active, whose records stay      *)
(* where they are while there is a loop, marked or not, and whoever comes  *)
(* meanwhile is kept apart.                                                *)
(***************************************************************************)
EXTENDS ObserverList, SequenceTheorems, FiniteSetTheorems, WellFoundedInduction, TLAPS

\* No registration has two records.
Distinct(list) == \A i, j \in 1..Len(list) : list[i].id = list[j].id => i = j
Apart(a, b) == \A i \in 1..Len(a), j \in 1..Len(b) : a[i].id # b[j].id
Numbered(list, n) == \A i \in 1..Len(list) : list[i].id <= n

\* Nothing is marked in the list.
Clean(list) == \A i \in 1..Len(list) : ~list[i].marked

Loops == [at : 0..MaxAdds, calling : BOOLEAN]

\* A loop is at a record of the list, if it is calling the observer of it.
Inside(l, list) == l.at <= Len(list) /\ (l.calling => l.at >= 1)

ListInv ==
  /\ active \in Seq(Records) /\ pending \in Seq(Records)
  /\ Distinct(active) /\ Distinct(pending) /\ Apart(active, pending)
  /\ Numbered(active, added) /\ Numbered(pending, added)
  /\ Len(active) + Len(pending) <= added

LoopInv ==
  /\ loops \in Seq(Loops) /\ iterating = Len(loops)
  /\ \A i \in 1..Len(loops) : Inside(loops[i], active)

MarkInv ==
  /\ kind = "node" => activeMarked = MarkedIn(active) /\ pendingMarked = MarkedIn(pending)
  /\ iterating = 0 => pending = <<>> /\ Clean(active)

Inv == kind \in Kinds /\ added \in 0..MaxAdds /\ ListInv /\ LoopInv /\ MarkInv

-----------------------------------------------------------------------------
(* The operators on lists.                                                 *)

LEMMA LeastOf ==
  ASSUME NEW S \in SUBSET Nat, S # {}
  PROVE  \E m \in S : \A k \in S : m <= k
<1>1. PICK m \in S : \A k \in S : ~(<<k, m>> \in OpToRel(<, Nat))
  <2>1. IsWellFoundedOn(OpToRel(<, Nat), Nat)
    BY NatLessThanWellFounded
  <2> QED BY <2>1, WFMin
<1>2. \A k \in S : ~(k < m)
  BY <1>1 DEF OpToRel
<1> QED BY <1>2

LEMMA FirstIs ==
  ASSUME NEW S \in SUBSET Nat, S # {}
  PROVE  First(S) \in S /\ \A k \in S : First(S) <= k
BY LeastOf DEF First

LEMMA FoundIs ==
  ASSUME NEW list \in Seq(Records), NEW o, Found(list, o) # {}
  PROVE  /\ First(Found(list, o)) \in 1..Len(list)
         /\ list[First(Found(list, o))].observer = o
         /\ kind = "node" => ~list[First(Found(list, o))].marked
<1>1. Found(list, o) \in SUBSET Nat
  BY DEF Found
<1>2. First(Found(list, o)) \in Found(list, o)
  BY <1>1, FirstIs
<1> QED BY <1>2 DEF Found

\* The positions of what is marked are those of a finite set.
LEMMA MarksAreFinite ==
  ASSUME NEW list \in Seq(Records)
  PROVE  IsFiniteSet({i \in DOMAIN list : list[i].marked})
<1>1. IsFiniteSet(1..Len(list))
  BY FS_Interval
<1>2. {i \in DOMAIN list : list[i].marked} \subseteq 1..Len(list)
  OBVIOUS
<1> QED BY <1>1, <1>2, FS_Subset

LEMMA CleanMeansNone ==
  ASSUME NEW list \in Seq(Records)
  PROVE  MarkedIn(list) = 0 <=> Clean(list)
<1> DEFINE M == {i \in DOMAIN list : list[i].marked}
<1>1. IsFiniteSet(M)
  BY MarksAreFinite
<1>2. Cardinality(M) = 0 <=> M = {}
  BY <1>1, FS_EmptySet
<1>3. M = {} <=> Clean(list)
  BY DEF Clean
<1> QED BY <1>2, <1>3 DEF MarkedIn

\* new is the list with its i-th record marked.
IsMarked(new, list, i) ==
  /\ new \in Seq(Records) /\ Len(new) = Len(list)
  /\ \A j \in 1..Len(list) : j # i => new[j] = list[j]
  /\ new[i].id = list[i].id /\ new[i].observer = list[i].observer /\ new[i].marked
  /\ MarkedIn(new) = MarkedIn(list) + 1

LEMMA MarkIs ==
  ASSUME NEW list \in Seq(Records), NEW i \in 1..Len(list), ~list[i].marked
  PROVE  IsMarked([list EXCEPT ![i].marked = TRUE], list, i)
<1> DEFINE new == [list EXCEPT ![i].marked = TRUE]
<1> DEFINE r == [list[i] EXCEPT !.marked = TRUE]
<1>1. list[i] \in Records
  BY ElementOfSeq
<1>2. r \in Records /\ r.id = list[i].id /\ r.observer = list[i].observer /\ r.marked
  BY <1>1 DEF Records
<1>3. new = [list EXCEPT ![i] = r]
  OBVIOUS
<1> HIDE DEF r, new
<1>4. /\ new \in Seq(Records) /\ Len(new) = Len(list)
      /\ \A j \in 1..Len(list) : new[j] = IF j = i THEN r ELSE list[j]
  <2> DEFINE e == [list EXCEPT ![i] = r]
  <2>1. r \in Records
    BY <1>2
  <2>2. /\ e \in Seq(Records) /\ Len(e) = Len(list)
        /\ \A j \in 1..Len(list) : e[j] = IF j = i THEN r ELSE list[j]
    BY <2>1, ExceptSeq
  <2> QED BY <1>3, <2>2
<1> DEFINE M == {j \in DOMAIN list : list[j].marked}
           N == {j \in DOMAIN new : new[j].marked}
<1>5. N = M \cup {i} /\ i \notin M
  <2>1. DOMAIN new = 1..Len(list) /\ DOMAIN list = 1..Len(list)
    BY <1>4
  <2> QED BY <2>1, <1>2, <1>4
<1>6. IsFiniteSet(M)
  BY MarksAreFinite
<1> HIDE DEF M, N
<1>7. Cardinality(N) = Cardinality(M) + 1
  BY <1>5, <1>6, FS_AddElement
<1>8. IsMarked(new, list, i)
  BY <1>2, <1>4, <1>7 DEF MarkedIn, M, N, IsMarked
<1> QED BY <1>8 DEF new

LEMMA AppendIs ==
  ASSUME NEW list \in Seq(Records), NEW r \in Records, ~r.marked
  PROVE  /\ Append(list, r) \in Seq(Records) /\ Len(Append(list, r)) = Len(list) + 1
         /\ \A j \in 1..Len(list) : Append(list, r)[j] = list[j]
         /\ Append(list, r)[Len(list) + 1] = r
         /\ MarkedIn(Append(list, r)) = MarkedIn(list)
<1>1. /\ Append(list, r) \in Seq(Records) /\ Len(Append(list, r)) = Len(list) + 1
      /\ \A j \in 1..Len(list) : Append(list, r)[j] = list[j]
      /\ Append(list, r)[Len(list) + 1] = r
  BY AppendProperties
<1>2. /\ DOMAIN list = 1..Len(list) /\ Len(list) \in Nat
      /\ DOMAIN Append(list, r) = 1..(Len(list) + 1)
  BY <1>1, LenProperties
<1>3. {i \in DOMAIN Append(list, r) : Append(list, r)[i].marked} = {i \in DOMAIN list : list[i].marked}
  BY <1>1, <1>2
<1> QED BY <1>1, <1>3 DEF MarkedIn

\* What remove_one() leaves of a list from which the i-th record goes.
Without(list, i) ==
  IF kind = "node" /\ Len(list) > 3
  THEN Front([list EXCEPT ![i] = Last(list)])
  ELSE RemoveAt(list, i)

LEMMA WithoutIs ==
  ASSUME NEW list \in Seq(Records), NEW i \in 1..Len(list)
  PROVE  /\ Without(list, i) \in Seq(Records) /\ Len(Without(list, i)) = Len(list) - 1
         /\ \A j \in 1..Len(list) - 1 : \E k \in (1..Len(list)) \ {i} : Without(list, i)[j] = list[k]
         /\ \A k \in (1..Len(list)) \ {i} : \E j \in 1..Len(list) - 1 : Without(list, i)[j] = list[k]
         /\ Distinct(list) => Distinct(Without(list, i))
<1> DEFINE n == Len(list)
<1>n. n \in Nat /\ n >= 1 /\ i <= n /\ i >= 1
  OBVIOUS
<1>1. CASE kind = "node" /\ n > 3
  <2> DEFINE moved == [list EXCEPT ![i] = list[n]]
  <2>1. list[n] \in Records
    BY <1>n, ElementOfSeq
  <2>2. /\ moved \in Seq(Records) /\ Len(moved) = n
        /\ \A j \in 1..n : moved[j] = IF j = i THEN list[n] ELSE list[j]
    BY <2>1, ExceptSeq
  <2>3. Without(list, i) = SubSeq(moved, 1, n - 1)
    BY <1>1, <2>2 DEF Without, Front, Last
  <2> HIDE DEF moved
  <2>4. \A j \in 1..n - 1 : moved[j] \in Records
    BY <1>n, <2>2, ElementOfSeq
  <2>5. /\ SubSeq(moved, 1, n - 1) \in Seq(Records)
        /\ Len(SubSeq(moved, 1, n - 1)) = n - 1
        /\ \A j \in 1..n - 1 : SubSeq(moved, 1, n - 1)[j] = moved[j]
    BY <1>n, <2>2
  <2>6. \A j \in 1..n - 1 : Without(list, i)[j] = IF j = i THEN list[n] ELSE list[j]
    BY <1>n, <2>2, <2>3, <2>5
  <2>7. Without(list, i) \in Seq(Records) /\ Len(Without(list, i)) = n - 1
    BY <2>3, <2>5
  <2>8. \A k \in (1..n) \ {i} : Without(list, i)[IF k = n THEN i ELSE k] = list[k]
                                 /\ (IF k = n THEN i ELSE k) \in 1..n - 1
    BY <1>n, <2>6
  <2>9. \A j \in 1..n - 1 : /\ Without(list, i)[j] = list[IF j = i THEN n ELSE j]
                             /\ (IF j = i THEN n ELSE j) \in (1..n) \ {i}
    BY <1>n, <2>6
  <2>10. Distinct(list) => Distinct(Without(list, i))
    <3> SUFFICES ASSUME Distinct(list), NEW j \in 1..n - 1, NEW k \in 1..n - 1,
                        Without(list, i)[j].id = Without(list, i)[k].id
                 PROVE  j = k
      BY <2>7 DEF Distinct
    <3>1. PICK x \in 1..n : x = IF j = i THEN n ELSE j
      BY <1>n
    <3>2. PICK y \in 1..n : y = IF k = i THEN n ELSE k
      BY <1>n
    <3>3. Without(list, i)[j] = list[x] /\ Without(list, i)[k] = list[y]
      BY <3>1, <3>2, <2>9
    <3>4. x = y
      BY <3>3 DEF Distinct
    <3> QED BY <1>n, <3>1, <3>2, <3>4
  <2> QED BY <2>7, <2>8, <2>9, <2>10
<1>2. CASE ~(kind = "node" /\ n > 3)
  <2> DEFINE a == SubSeq(list, 1, i - 1)
             b == SubSeq(list, i + 1, n)
  <2>1. Without(list, i) = a \o b
    BY <1>2 DEF Without, RemoveAt
  <2>2. a \in Seq(Records) /\ Len(a) = i - 1 /\ \A j \in 1..i - 1 : a[j] = list[j]
    BY <1>n
  <2>3. b \in Seq(Records) /\ Len(b) = n - i /\ \A j \in 1..n - i : b[j] = list[i + j]
    BY <1>n
  <2> HIDE DEF a, b
  <2>4. /\ a \o b \in Seq(Records) /\ Len(a \o b) = n - 1
        /\ \A j \in 1..n - 1 : (a \o b)[j] = IF j <= i - 1 THEN a[j] ELSE b[j - (i - 1)]
    BY <1>n, <2>2, <2>3, ConcatProperties
  <2>6. \A j \in 1..n - 1 : Without(list, i)[j] = IF j < i THEN list[j] ELSE list[j + 1]
    <3> SUFFICES ASSUME NEW j \in 1..n - 1
                 PROVE  (a \o b)[j] = IF j < i THEN list[j] ELSE list[j + 1]
      BY <2>1
    <3>1. CASE j < i
      <4>1. j \in 1..i - 1
        BY <1>n, <3>1
      <4> QED BY <4>1, <3>1, <2>2, <2>4
    <3>2. CASE ~(j < i)
      <4>1. j - (i - 1) \in 1..n - i /\ i + (j - (i - 1)) = j + 1 /\ ~(j <= i - 1)
        BY <1>n, <3>2
      <4>2. b[j - (i - 1)] = list[j + 1]
        BY <4>1, <2>3
      <4> QED BY <4>1, <4>2, <3>2, <2>4
    <3> QED BY <3>1, <3>2
  <2>7. Without(list, i) \in Seq(Records) /\ Len(Without(list, i)) = n - 1
    BY <2>1, <2>4
  <2>8. \A k \in (1..n) \ {i} : /\ Without(list, i)[IF k < i THEN k ELSE k - 1] = list[k]
                                 /\ (IF k < i THEN k ELSE k - 1) \in 1..n - 1
    BY <1>n, <2>6
  <2>9. \A j \in 1..n - 1 : /\ Without(list, i)[j] = list[IF j < i THEN j ELSE j + 1]
                             /\ (IF j < i THEN j ELSE j + 1) \in (1..n) \ {i}
    BY <1>n, <2>6
  <2>10. Distinct(list) => Distinct(Without(list, i))
    BY <1>n, <2>6, <2>7 DEF Distinct
  <2> QED BY <2>7, <2>8, <2>9, <2>10
<1> QED BY <1>1, <1>2

-----------------------------------------------------------------------------
(* Sweeping.                                                               *)

LEMMA Induct ==
  ASSUME NEW n \in Nat, NEW S, 0 \in S, \A k \in 1..n : k - 1 \in S => k \in S
  PROVE  \A k \in 0..n : k \in S
<1> SUFFICES ASSUME NEW j \in 0..n, j \notin S PROVE FALSE
  OBVIOUS
<1> DEFINE B == {k \in 0..n : k \notin S}
<1>1. B \in SUBSET Nat /\ B # {}
  OBVIOUS
<1>2. PICK m \in B : \A k \in B : m <= k
  BY <1>1, LeastOf
<1>3. m \in 1..n /\ m - 1 \in 0..n /\ m \notin S
  OBVIOUS
<1>4. m - 1 \in S
  BY <1>2, <1>3
<1> QED BY <1>3, <1>4

\* s consists of the records among the first n of the list that are not marked.
Selects(s, list, n) ==
  /\ s \in Seq(Records) /\ Len(s) <= n
  /\ \A j \in 1..Len(s) : \E k \in 1..n : ~list[k].marked /\ s[j] = list[k]
  /\ \A k \in 1..n : ~list[k].marked => \E j \in 1..Len(s) : s[j] = list[k]
  /\ Distinct(list) => Distinct(s)

LEMMA SelectsNext ==
  ASSUME NEW list \in Seq(Records), NEW n \in 1..Len(list), NEW s, Selects(s, list, n - 1)
  PROVE  Selects(IF list[n].marked THEN s ELSE Append(s, list[n]), list, n)
<1>n. n \in Nat /\ n >= 1 /\ n \in 1..n /\ \A k \in 1..n - 1 : k \in 1..n /\ k # n /\ k \in 1..Len(list)
  OBVIOUS
<1>k. \A k \in 1..n : k = n \/ k \in 1..n - 1
  OBVIOUS
<1>r. list[n] \in Records
  BY ElementOfSeq
<1>s. s \in Seq(Records) /\ Len(s) \in Nat /\ Len(s) <= n - 1
  BY DEF Selects
<1>1. CASE list[n].marked
  BY <1>1, <1>n, <1>k, <1>s DEF Selects
<1>2. CASE ~list[n].marked
  <2> DEFINE t == Append(s, list[n])
  <2>1. /\ t \in Seq(Records) /\ Len(t) = Len(s) + 1
        /\ \A j \in 1..Len(s) : t[j] = s[j]
        /\ t[Len(s) + 1] = list[n]
    BY <1>r, <1>s, AppendProperties
  <2> HIDE DEF t
  <2>2. \A j \in 1..Len(t) : j \in 1..Len(s) \/ j = Len(s) + 1
    BY <1>s, <2>1
  <2>3. Len(s) + 1 \in 1..Len(t) /\ \A j \in 1..Len(s) : j \in 1..Len(t)
    BY <1>s, <2>1
  <2>4. \A j \in 1..Len(t) : \E k \in 1..n : ~list[k].marked /\ t[j] = list[k]
    <3> SUFFICES ASSUME NEW j \in 1..Len(t) PROVE \E k \in 1..n : ~list[k].marked /\ t[j] = list[k]
      OBVIOUS
    <3>1. CASE j \in 1..Len(s)
      <4>1. PICK k \in 1..n - 1 : ~list[k].marked /\ s[j] = list[k]
        BY <3>1 DEF Selects
      <4> QED BY <1>n, <2>1, <3>1, <4>1
    <3>2. CASE j = Len(s) + 1
      BY <1>2, <1>n, <2>1, <3>2
    <3> QED BY <2>2, <3>1, <3>2
  <2>5. \A k \in 1..n : ~list[k].marked => \E j \in 1..Len(t) : t[j] = list[k]
    BY <1>n, <1>k, <2>1, <2>3 DEF Selects
  <2>6. ASSUME Distinct(list) PROVE Distinct(t)
    <3> SUFFICES ASSUME NEW i \in 1..Len(t), NEW j \in 1..Len(t), t[i].id = t[j].id PROVE i = j
      BY DEF Distinct
    <3>1. ASSUME NEW x \in 1..Len(s) PROVE s[x].id # list[n].id
      <4>1. PICK k \in 1..n - 1 : s[x] = list[k]
        BY DEF Selects
      <4> QED BY <1>n, <2>6, <4>1 DEF Distinct
    <3>2. Distinct(s)
      BY <2>6 DEF Selects
    <3> QED BY <2>1, <2>2, <3>1, <3>2 DEF Distinct
  <2>7. Len(t) <= n
    BY <1>n, <1>s, <2>1
  <2> QED BY <1>2, <2>1, <2>4, <2>5, <2>6, <2>7 DEF Selects, t
<1> QED BY <1>1, <1>2

\* What Swept() computes, if it looks at all.
Body(list, f) ==
  [k \in 0..Len(list) |->
     IF k = 0 THEN << >>
     ELSE IF list[k].marked THEN f[k - 1]
     ELSE Append(f[k - 1], list[k])]

LEMMA BodyExists ==
  ASSUME NEW list \in Seq(Records)
  PROVE  \E f : f = Body(list, f)
<1> DEFINE n == Len(list)
           Next1(v, k) == IF list[k].marked THEN v ELSE Append(v, list[k])
           S == {m \in 0..n : \E f : f[0] = << >> /\ \A k \in 1..m : f[k] = Next1(f[k - 1], k)}
<1>n. n \in Nat
  OBVIOUS
<1>1. 0 \in S
  <2> DEFINE f == [k \in {0} |-> << >>]
  <2>1. f[0] = << >> /\ \A k \in 1..0 : FALSE
    OBVIOUS
  <2> HIDE DEF f, Next1
  <2> QED BY <1>n, <2>1
<1>2. ASSUME NEW m \in 1..n, m - 1 \in S PROVE m \in S
  <2> HIDE DEF Next1
  <2>1. PICK f : f[0] = << >> /\ \A k \in 1..m - 1 : f[k] = Next1(f[k - 1], k)
    BY <1>2
  <2> DEFINE h == [k \in 0..m |-> IF k = m THEN Next1(f[m - 1], m) ELSE f[k]]
  <2>2. h[m] = Next1(f[m - 1], m) /\ \A k \in 0..m - 1 : h[k] = f[k]
    OBVIOUS
  <2> HIDE DEF h
  <2>3. h[0] = << >>
    BY <2>1, <2>2
  <2>4. ASSUME NEW k \in 1..m PROVE h[k] = Next1(h[k - 1], k)
    <3>1. h[k - 1] = f[k - 1]
      BY <2>2
    <3>2. k = m \/ (k \in 1..m - 1 /\ k \in 0..m - 1)
      OBVIOUS
    <3> QED BY <2>1, <2>2, <3>1, <3>2
  <2> QED BY <2>3, <2>4
<1> HIDE DEF S
<1>3. n \in S
  <2> HIDE DEF n
  <2>1. \A k \in 0..n : k \in S
    BY <1>n, <1>1, <1>2, Induct
  <2> QED BY <1>n, <2>1
<1>4. PICK f : f[0] = << >> /\ \A k \in 1..n : f[k] = Next1(f[k - 1], k)
  BY <1>3 DEF S
<1> DEFINE g == [k \in 0..n |-> f[k]]
<1>5. \A k \in 0..n : g[k] = f[k] /\ (k = 0 \/ (k \in 1..n /\ k - 1 \in 0..n))
  BY <1>n
<1>6. \A k \in 0..n : g[k] = IF k = 0 THEN << >> ELSE Next1(g[k - 1], k)
  <2> HIDE DEF g, Next1
  <2> QED BY <1>4, <1>5
<1>7. g = Body(list, g)
  <2>1. g = [k \in 0..n |-> g[k]]
    OBVIOUS
  <2> HIDE DEF g
  <2> QED BY <1>6, <2>1 DEF Body
<1> QED BY <1>7

\* A list that is swept is rid of what is marked, and of nothing else.
LEMMA SweptIs ==
  ASSUME NEW list \in Seq(Records), NEW count, kind = "node" => count = MarkedIn(list)
  PROVE  Selects(Swept(list, count), list, Len(list))
<1> DEFINE f == CHOOSE x : x = Body(list, x)
           n == Len(list)
<1>n. n \in Nat
  OBVIOUS
<1>1. f = Body(list, f)
  BY BodyExists
<1>2. Swept(list, count) = IF kind = "node" /\ count = 0 THEN list ELSE f[n]
  BY DEF Swept, Body
<1> HIDE DEF f
<1>3. f[0] = << >> /\ \A k \in 1..n : f[k] = IF list[k].marked THEN f[k - 1] ELSE Append(f[k - 1], list[k])
  <2>1. 0 \in 0..n /\ \A k \in 1..n : k \in 0..n /\ k # 0
    BY <1>n
  <2> QED BY <1>1, <2>1 DEF Body
<1> DEFINE S == {k \in 0..n : Selects(f[k], list, k)}
<1>4. 0 \in S
  <2>1. Selects(<< >>, list, 0)
    BY DEF Selects, Distinct
  <2> QED BY <1>n, <1>3, <2>1
<1>5. ASSUME NEW k \in 1..n, k - 1 \in S PROVE k \in S
  <2>1. Selects(f[k - 1], list, k - 1)
    BY <1>5
  <2>2. Selects(IF list[k].marked THEN f[k - 1] ELSE Append(f[k - 1], list[k]), list, k)
    BY <2>1, SelectsNext
  <2>3. Selects(f[k], list, k)
    BY <1>3, <2>2
  <2> QED BY <1>n, <2>3
<1> HIDE DEF S
<1>6. n \in S
  <2> HIDE DEF n
  <2>1. \A k \in 0..n : k \in S
    BY <1>n, <1>4, <1>5, Induct
  <2> QED BY <1>n, <2>1
<1>7. Selects(f[n], list, n)
  BY <1>6 DEF S
<1>8. CASE kind = "node" /\ count = 0
  <2>1. Clean(list)
    BY <1>8, CleanMeansNone
  <2>2. Selects(list, list, n)
    BY <1>n, <2>1 DEF Selects, Clean
  <2> QED BY <1>2, <1>8, <2>2
<1>9. CASE ~(kind = "node" /\ count = 0)
  BY <1>2, <1>7, <1>9
<1> QED BY <1>8, <1>9

-----------------------------------------------------------------------------
(* The invariant.                                                          *)

LEMMA LoopIs ==
  ASSUME LoopInv
  PROVE  /\ Len(loops) \in Nat
         /\ loops # << >> => /\ Len(loops) >= 1 /\ Len(loops) \in 1..Len(loops)
                              /\ Last(loops) = loops[Len(loops)] /\ Last(loops) \in Loops
         /\ loops = << >> <=> iterating = 0
BY DEF LoopInv, Last

\* Loops that are added, taken off or replaced are inside the list.
LEMMA LoopAppend ==
  ASSUME NEW ls \in Seq(Loops), NEW list, NEW l \in Loops, Inside(l, list),
         \A i \in 1..Len(ls) : Inside(ls[i], list)
  PROVE  /\ Append(ls, l) \in Seq(Loops) /\ Len(Append(ls, l)) = Len(ls) + 1
         /\ \A i \in 1..Len(Append(ls, l)) : Inside(Append(ls, l)[i], list)
<1>1. /\ Append(ls, l) \in Seq(Loops) /\ Len(Append(ls, l)) = Len(ls) + 1
      /\ \A i \in 1..Len(ls) : Append(ls, l)[i] = ls[i]
      /\ Append(ls, l)[Len(ls) + 1] = l
  BY AppendProperties
<1>2. \A i \in 1..Len(ls) + 1 : i \in 1..Len(ls) \/ i = Len(ls) + 1
  OBVIOUS
<1> QED BY <1>1, <1>2

LEMMA LoopFront ==
  ASSUME NEW ls \in Seq(Loops), ls # << >>
  PROVE  /\ Front(ls) \in Seq(Loops) /\ Len(Front(ls)) = Len(ls) - 1
         /\ \A i \in 1..Len(ls) - 1 : Front(ls)[i] = ls[i] /\ i \in 1..Len(ls)
<1>1. Len(ls) \in Nat /\ Len(ls) >= 1
  OBVIOUS
<1>2. \A i \in 1..Len(ls) - 1 : ls[i] \in Loops /\ i \in 1..Len(ls)
  BY <1>1, ElementOfSeq
<1>3. /\ SubSeq(ls, 1, Len(ls) - 1) \in Seq(Loops)
      /\ Len(SubSeq(ls, 1, Len(ls) - 1)) = Len(ls) - 1
      /\ \A i \in 1..Len(ls) - 1 : SubSeq(ls, 1, Len(ls) - 1)[i] = ls[i]
  <2> DEFINE n == Len(ls) - 1
  <2>1. n \in Int /\ 1 \in Int /\ n >= 0 /\ \A i \in 1..n : ls[i] \in Loops
    BY <1>1, <1>2
  <2> HIDE DEF n
  <2>2. /\ SubSeq(ls, 1, n) \in Seq(Loops)
        /\ Len(SubSeq(ls, 1, n)) = IF 1 <= n THEN n - 1 + 1 ELSE 0
        /\ \A i \in 1..n - 1 + 1 : SubSeq(ls, 1, n)[i] = ls[1 + i - 1]
    BY <2>1, SubSeqProperties
  <2>3. Len(SubSeq(ls, 1, n)) = n /\ \A i \in 1..n : SubSeq(ls, 1, n)[i] = ls[i]
    BY <2>1, <2>2
  <2> QED BY <2>2, <2>3 DEF n
<1> QED BY <1>2, <1>3 DEF Front

LEMMA RecordIs ==
  ASSUME NEW o \in Observers, added \in 0..MaxAdds, added < MaxAdds
  PROVE  Record(o) \in Records /\ Record(o).id = added + 1 /\ ~Record(o).marked
         /\ Record(o).observer = o
<1>1. added + 1 \in 1..MaxAdds
  BY BoundsAssumption
<1> QED BY <1>1 DEF Record, Records

LEMMA AddKeeps ==
  ASSUME Inv, NEW o \in Observers, AddObserver(o)
  PROVE  Inv'
<1> DEFINE r == Record(o)
<1>0. added \in 0..MaxAdds /\ MaxAdds \in Nat /\ added < MaxAdds /\ added' = added + 1
  BY BoundsAssumption DEF Inv, AddObserver
<1>1. r \in Records /\ r.id = added + 1 /\ ~r.marked
  BY <1>0, RecordIs
<1> HIDE DEF r
<1>2. /\ active \in Seq(Records) /\ pending \in Seq(Records)
      /\ Len(active) \in Nat /\ Len(pending) \in Nat
  BY DEF Inv, ListInv
<1>3. CASE iterating > 0
  <2> DEFINE p == Append(pending, r)
  <2>1. pending' = p /\ active' = active
    BY <1>3 DEF AddObserver, r
  <2>2. /\ p \in Seq(Records) /\ Len(p) = Len(pending) + 1
        /\ \A j \in 1..Len(pending) : p[j] = pending[j]
        /\ p[Len(pending) + 1] = r
        /\ MarkedIn(p) = MarkedIn(pending)
    BY <1>1, <1>2, AppendIs
  <2>i. \A j \in 1..Len(p) : j \in 1..Len(pending) \/ j = Len(pending) + 1
    BY <1>2, <2>2
  <2> HIDE DEF p
  <2>o. /\ Distinct(active) /\ Distinct(pending) /\ Apart(active, pending)
        /\ \A j \in 1..Len(pending) : pending[j].id <= added /\ pending[j].id \in Nat
        /\ \A j \in 1..Len(active) : active[j].id <= added /\ active[j].id \in Nat
    <3>1. \A j \in 1..Len(pending) : pending[j] \in Records
      BY <1>2, ElementOfSeq
    <3>2. \A j \in 1..Len(active) : active[j] \in Records
      BY <1>2, ElementOfSeq
    <3> QED BY <1>0, <3>1, <3>2 DEF Inv, ListInv, Numbered, Records
  <2>3. Numbered(p, added + 1) /\ Numbered(active, added + 1)
    BY <1>0, <1>1, <2>2, <2>i, <2>o DEF Numbered
  <2>4. Distinct(p)
    BY <1>0, <1>1, <2>2, <2>i, <2>o DEF Distinct
  <2>5. Apart(active, p)
    BY <1>0, <1>1, <2>2, <2>i, <2>o DEF Apart
  <2>6. Len(active) + Len(p) <= added + 1
    BY <1>0, <1>2, <2>2 DEF Inv, ListInv
  <2>7. ListInv'
    BY <1>0, <1>2, <2>1, <2>2, <2>3, <2>4, <2>5, <2>6, <2>o DEF ListInv
  <2>8. LoopInv'
    BY <2>1 DEF Inv, LoopInv, AddObserver
  <2>9. MarkInv'
    BY <1>3, <2>1, <2>2 DEF Inv, LoopInv, MarkInv, AddObserver
  <2> QED BY <1>0, <2>7, <2>8, <2>9 DEF Inv, AddObserver
<1>4. CASE ~(iterating > 0)
  <2> DEFINE a == Append(active, r)
  <2>0. iterating = 0 /\ pending = << >> /\ loops = << >> /\ Clean(active)
    BY <1>4, LoopIs DEF Inv, LoopInv, MarkInv
  <2>1. pending' = pending /\ active' = a
    BY <1>4 DEF AddObserver, r
  <2>2. /\ a \in Seq(Records) /\ Len(a) = Len(active) + 1
        /\ \A j \in 1..Len(active) : a[j] = active[j]
        /\ a[Len(active) + 1] = r
        /\ MarkedIn(a) = MarkedIn(active)
    BY <1>1, <1>2, AppendIs
  <2>i. \A j \in 1..Len(a) : j \in 1..Len(active) \/ j = Len(active) + 1
    BY <1>2, <2>2
  <2> HIDE DEF a
  <2>o. /\ Distinct(active)
        /\ \A j \in 1..Len(active) : active[j].id <= added /\ active[j].id \in Nat
    <3>2. \A j \in 1..Len(active) : active[j] \in Records
      BY <1>2, ElementOfSeq
    <3> QED BY <1>0, <3>2 DEF Inv, ListInv, Numbered, Records
  <2>3. Numbered(a, added + 1)
    BY <1>0, <1>1, <2>2, <2>i, <2>o DEF Numbered
  <2>4. Distinct(a)
    BY <1>0, <1>1, <2>2, <2>i, <2>o DEF Distinct
  <2>5. Apart(a, << >>) /\ Distinct(<< >>) /\ Numbered(<< >>, added + 1) /\ Len(<< >>) = 0
    BY DEF Apart, Distinct, Numbered
  <2>6. Len(a) <= added + 1
    BY <1>0, <1>2, <2>2 DEF Inv, ListInv
  <2>7. ListInv'
    BY <1>0, <1>2, <2>0, <2>1, <2>2, <2>3, <2>4, <2>5, <2>6 DEF ListInv
  <2>8. LoopInv'
    BY <2>0, <2>1 DEF Inv, LoopInv, AddObserver
  <2>9. Clean(a)
    BY <1>1, <2>0, <2>2, <2>i DEF Clean
  <2>10. MarkInv'
    BY <2>0, <2>1, <2>2, <2>9 DEF Inv, MarkInv, AddObserver
  <2> QED BY <1>0, <2>7, <2>8, <2>10 DEF Inv, AddObserver
<1> QED BY <1>3, <1>4

\* An unmarked record is marked in one of the lists and counted for it.
MarksActive(i) ==
  /\ i \in 1..Len(active) /\ ~active[i].marked
  /\ active' = [active EXCEPT ![i].marked = TRUE] /\ pending' = pending
  /\ activeMarked' = Counted(activeMarked) /\ pendingMarked' = pendingMarked

MarksPending(i) ==
  /\ i \in 1..Len(pending) /\ ~pending[i].marked
  /\ pending' = [pending EXCEPT ![i].marked = TRUE] /\ active' = active
  /\ pendingMarked' = Counted(pendingMarked) /\ activeMarked' = activeMarked

LEMMA MarkOneIs ==
  ASSUME Inv, NEW o, MarkOne(o), kind = "undo" => ~Withdrawn(o)
  PROVE  (\E i : MarksActive(i)) \/ (\E i : MarksPending(i))
<1>1. active \in Seq(Records) /\ pending \in Seq(Records) /\ (kind = "node" \/ kind = "undo")
  BY KindsAssumption DEF Inv, ListInv
<1>2. /\ \A i \in 1..Len(active) : active[i] \in Range(active \o pending)
      /\ \A i \in 1..Len(pending) : pending[i] \in Range(active \o pending)
  <2>1. Range(active \o pending) = Range(active) \cup Range(pending)
    BY <1>1, RangeConcatenation
  <2>2. Range(active) = {active[i] : i \in 1..Len(active)} /\ Range(pending) = {pending[i] : i \in 1..Len(pending)}
    BY <1>1, RangeEquality
  <2> QED BY <2>1, <2>2
<1>3. CASE Found(active, o) # {}
  <2> DEFINE i == First(Found(active, o))
  <2>1. i \in 1..Len(active) /\ active[i].observer = o /\ (kind = "node" => ~active[i].marked)
    BY <1>1, <1>3, FoundIs
  <2>2. /\ active' = [active EXCEPT ![i].marked = TRUE] /\ pending' = pending
        /\ activeMarked' = Counted(activeMarked) /\ pendingMarked' = pendingMarked
    BY <1>3 DEF MarkOne, Mark
  <2> HIDE DEF i
  <2>3. ~active[i].marked
    BY <1>1, <1>2, <2>1 DEF Withdrawn
  <2>4. MarksActive(i)
    BY <2>1, <2>2, <2>3 DEF MarksActive
  <2> QED BY <2>4
<1>4. CASE Found(active, o) = {}
  <2> DEFINE i == First(Found(pending, o))
  <2>1. Found(pending, o) # {}
    BY <1>4 DEF MarkOne
  <2>2. i \in 1..Len(pending) /\ pending[i].observer = o /\ (kind = "node" => ~pending[i].marked)
    BY <1>1, <2>1, FoundIs
  <2>3. /\ pending' = [pending EXCEPT ![i].marked = TRUE] /\ active' = active
        /\ pendingMarked' = Counted(pendingMarked) /\ activeMarked' = activeMarked
    BY <1>4 DEF MarkOne, Mark
  <2> HIDE DEF i
  <2>4. ~pending[i].marked
    BY <1>1, <1>2, <2>2 DEF Withdrawn
  <2>5. MarksPending(i)
    BY <2>2, <2>3, <2>4 DEF MarksPending
  <2> QED BY <2>5
<1> QED BY <1>3, <1>4

LEMMA MarkKeeps ==
  ASSUME Inv, iterating > 0, UNCHANGED <<kind, iterating, loops, added>>,
         NEW i, MarksActive(i) \/ MarksPending(i)
  PROVE  Inv'
<1>0. kind \in Kinds /\ added \in 0..MaxAdds /\ active \in Seq(Records) /\ pending \in Seq(Records)
  BY DEF Inv, ListInv
<1>1. CASE MarksActive(i)
  <2> DEFINE a == active'
  <2>1. /\ a \in Seq(Records) /\ Len(a) = Len(active)
        /\ \A j \in 1..Len(active) : j # i => a[j] = active[j]
        /\ a[i].id = active[i].id
        /\ MarkedIn(a) = MarkedIn(active) + 1
    <3>1. i \in 1..Len(active) /\ ~active[i].marked /\ a = [active EXCEPT ![i].marked = TRUE]
      BY <1>1 DEF MarksActive
    <3>2. active \in Seq(Records)
      BY <1>0
    <3>3. IsMarked([active EXCEPT ![i].marked = TRUE], active, i)
      BY <3>1, <3>2, MarkIs
    <3>4. IsMarked(a, active, i)
      BY <3>1, <3>3
    <3> QED BY <3>4 DEF IsMarked
  <2>2. \A j \in 1..Len(active) : a[j].id = active[j].id
    BY <2>1
  <2>3. pending' = pending
    BY <1>1 DEF MarksActive
  <2> HIDE DEF a
  <2>4. Distinct(a) /\ Apart(a, pending) /\ Numbered(a, added) /\ Len(a) + Len(pending) <= added
    BY <2>1, <2>2 DEF Inv, ListInv, Distinct, Apart, Numbered
  <2>5. ListInv'
    BY <1>0, <2>1, <2>3, <2>4 DEF Inv, ListInv, a
  <2>6. LoopInv'
    BY <2>1 DEF Inv, LoopInv, Inside, a
  <2>7. MarkInv'
    BY <1>1, <2>1, <2>3 DEF Inv, MarkInv, MarksActive, Counted, a
  <2> QED BY <1>0, <2>5, <2>6, <2>7 DEF Inv
<1>2. CASE MarksPending(i)
  <2> DEFINE p == pending'
  <2>1. /\ p \in Seq(Records) /\ Len(p) = Len(pending)
        /\ \A j \in 1..Len(pending) : j # i => p[j] = pending[j]
        /\ p[i].id = pending[i].id
        /\ MarkedIn(p) = MarkedIn(pending) + 1
    <3>1. i \in 1..Len(pending) /\ ~pending[i].marked /\ p = [pending EXCEPT ![i].marked = TRUE]
      BY <1>2 DEF MarksPending
    <3>2. pending \in Seq(Records)
      BY <1>0
    <3>3. IsMarked([pending EXCEPT ![i].marked = TRUE], pending, i)
      BY <3>1, <3>2, MarkIs
    <3>4. IsMarked(p, pending, i)
      BY <3>1, <3>3
    <3> QED BY <3>4 DEF IsMarked
  <2>2. \A j \in 1..Len(pending) : p[j].id = pending[j].id
    BY <2>1
  <2>3. active' = active
    BY <1>2 DEF MarksPending
  <2> HIDE DEF p
  <2>4. Distinct(p) /\ Apart(active, p) /\ Numbered(p, added) /\ Len(active) + Len(p) <= added
    BY <2>1, <2>2 DEF Inv, ListInv, Distinct, Apart, Numbered
  <2>5. ListInv'
    BY <1>0, <2>1, <2>3, <2>4 DEF Inv, ListInv, p
  <2>6. LoopInv'
    BY <2>3 DEF Inv, LoopInv
  <2>7. MarkInv'
    BY <1>2, <2>1, <2>3 DEF Inv, MarkInv, MarksPending, Counted, p
  <2> QED BY <1>0, <2>5, <2>6, <2>7 DEF Inv
<1> QED BY <1>1, <1>2

\* Outside of notifications a record is taken out.
LEMMA RemoveOneIs ==
  ASSUME Inv, NEW o, RemoveOne(o)
  PROVE  \E i \in 1..Len(active) : active' = Without(active, i)
<1>1. First(Found(active, o)) \in 1..Len(active)
  BY FoundIs DEF Inv, ListInv, RemoveOne
<1>2. active' = Without(active, First(Found(active, o)))
  BY DEF RemoveOne, Without
<1> QED BY <1>1, <1>2

LEMMA WithoutKeeps ==
  ASSUME Inv, iterating = 0, UNCHANGED <<kind, iterating, loops, added>>,
         UNCHANGED <<pending, activeMarked, pendingMarked>>,
         NEW i \in 1..Len(active), active' = Without(active, i)
  PROVE  Inv'
<1>0. /\ kind \in Kinds /\ added \in 0..MaxAdds /\ active \in Seq(Records)
      /\ pending = << >> /\ Clean(active) /\ loops = << >> /\ Len(active) \in Nat
      /\ Len(active) <= added
  BY LoopIs DEF Inv, ListInv, MarkInv
<1> DEFINE a == active'
<1>1. /\ a \in Seq(Records) /\ Len(a) = Len(active) - 1
      /\ \A j \in 1..Len(active) - 1 : \E k \in 1..Len(active) : a[j] = active[k]
      /\ Distinct(a)
  <2> DEFINE w == Without(active, i)
  <2>1. active \in Seq(Records) /\ Distinct(active)
    BY DEF Inv, ListInv
  <2>2. /\ w \in Seq(Records) /\ Len(w) = Len(active) - 1
        /\ \A j \in 1..Len(active) - 1 : \E k \in (1..Len(active)) \ {i} : w[j] = active[k]
        /\ Distinct(w)
    BY <2>1, WithoutIs
  <2>3. a = w
    OBVIOUS
  <2> HIDE DEF a, w
  <2> QED BY <2>2, <2>3
<1> HIDE DEF a
<1>2. Clean(a) /\ Numbered(a, added)
  BY <1>0, <1>1 DEF Clean, Inv, ListInv, Numbered
<1>3. Len(a) + Len(<< >>) <= added /\ Apart(a, << >>) /\ << >> \in Seq(Records)
      /\ Distinct(<< >>) /\ Numbered(<< >>, added)
  BY <1>0, <1>1 DEF Apart, Distinct, Numbered
<1>4. ListInv'
  BY <1>0, <1>1, <1>2, <1>3 DEF ListInv, a
<1>5. LoopInv'
  BY <1>0 DEF Inv, LoopInv
<1>6. MarkedIn(a) = MarkedIn(active)
  BY <1>0, <1>1, <1>2, CleanMeansNone
<1>7. MarkInv'
  BY <1>0, <1>2, <1>6 DEF Inv, MarkInv, a
<1> QED BY <1>0, <1>4, <1>5, <1>7 DEF Inv

LEMMA RemoveKeeps ==
  ASSUME Inv, NEW o \in Observers, RemoveObserver(o)
  PROVE  Inv'
<1>1. CASE iterating > 0
  <2>1. MarkOne(o) /\ (kind = "undo" => ~Withdrawn(o)) /\ UNCHANGED <<kind, iterating, loops, added>>
    BY <1>1 DEF RemoveObserver
  <2>2. (\E i : MarksActive(i)) \/ (\E i : MarksPending(i))
    BY <2>1, MarkOneIs
  <2> QED BY <1>1, <2>1, <2>2, MarkKeeps
<1>2. CASE ~(iterating > 0)
  <2>1. iterating = 0
    BY <1>2 DEF Inv, LoopInv
  <2>2. RemoveOne(o) /\ UNCHANGED <<kind, iterating, loops, added>>
    BY <1>2 DEF RemoveObserver
  <2>3. PICK i \in 1..Len(active) : active' = Without(active, i)
    BY <2>2, RemoveOneIs
  <2>4. UNCHANGED <<pending, activeMarked, pendingMarked>>
    BY <2>2 DEF RemoveOne
  <2> QED BY <2>1, <2>2, <2>3, <2>4, WithoutKeeps
<1> QED BY <1>1, <1>2

LEMMA NotifyKeeps ==
  ASSUME Inv, Notify
  PROVE  Inv'
<1> DEFINE l == [at |-> 0, calling |-> FALSE]
<1>1. loops \in Seq(Loops) /\ iterating = Len(loops) /\ \A i \in 1..Len(loops) : Inside(loops[i], active)
  BY DEF Inv, LoopInv
<1>2. l \in Loops /\ Inside(l, active)
  <2>1. Len(active) \in Nat /\ MaxAdds \in Nat
    BY BoundsAssumption DEF Inv, ListInv
  <2> QED BY <2>1 DEF Loops, Inside
<1>3. loops' = Append(loops, l) /\ iterating' = iterating + 1
      /\ UNCHANGED <<kind, active, pending, activeMarked, pendingMarked, added>>
  BY DEF Notify
<1> HIDE DEF l
<1>4. LoopInv'
  <2>1. /\ Append(loops, l) \in Seq(Loops) /\ Len(Append(loops, l)) = Len(loops) + 1
        /\ \A i \in 1..Len(Append(loops, l)) : Inside(Append(loops, l)[i], active)
    BY <1>1, <1>2, LoopAppend
  <2> QED BY <1>1, <1>3, <2>1 DEF LoopInv
<1>5. iterating' # 0
  BY <1>1, <1>3
<1> QED BY <1>3, <1>4, <1>5 DEF Inv, ListInv, MarkInv

\* A loop goes on in the list as it is.
LEMMA TurnKeeps ==
  ASSUME Inv, loops # << >>, NEW l \in Loops, Inside(l, active), loops' = Append(Front(loops), l),
         UNCHANGED <<kind, iterating, active, pending, activeMarked, pendingMarked, added>>
  PROVE  Inv'
<1>1. loops \in Seq(Loops) /\ iterating = Len(loops) /\ \A i \in 1..Len(loops) : Inside(loops[i], active)
  BY DEF Inv, LoopInv
<1>2. /\ Front(loops) \in Seq(Loops) /\ Len(Front(loops)) = Len(loops) - 1
      /\ \A i \in 1..Len(loops) - 1 : Front(loops)[i] = loops[i] /\ i \in 1..Len(loops)
  BY <1>1, LoopFront
<1>3. \A i \in 1..Len(Front(loops)) : Inside(Front(loops)[i], active)
  BY <1>1, <1>2
<1>4. /\ Append(Front(loops), l) \in Seq(Loops) /\ Len(Append(Front(loops), l)) = Len(Front(loops)) + 1
      /\ \A i \in 1..Len(Append(Front(loops), l)) : Inside(Append(Front(loops), l)[i], active)
  BY <1>2, <1>3, LoopAppend
<1>5. LoopInv'
  <2>1. Len(loops) - 1 + 1 = Len(loops)
    BY <1>1
  <2> QED BY <1>1, <1>2, <1>4, <2>1 DEF LoopInv
<1> QED BY <1>5 DEF Inv, ListInv, MarkInv

\* The record that a loop comes to next.
LEMMA AheadIs ==
  ASSUME Inv, NEW l \in Loops, Ahead(l) # {}
  PROVE  /\ First(Ahead(l)) \in Ahead(l) /\ \A k \in Ahead(l) : First(Ahead(l)) <= k
         /\ First(Ahead(l)) \in 1..Len(active) /\ First(Ahead(l)) \in 1..MaxAdds
<1>1. active \in Seq(Records) /\ Len(active) <= added /\ added <= MaxAdds
      /\ added \in Nat /\ MaxAdds \in Nat /\ Len(active) \in Nat
  BY BoundsAssumption DEF Inv, ListInv
<1>2. Ahead(l) \in SUBSET Nat /\ \A k \in Ahead(l) : k \in 1..Len(active)
  BY <1>1 DEF Ahead
<1>3. First(Ahead(l)) \in Ahead(l) /\ \A k \in Ahead(l) : First(Ahead(l)) <= k
  BY <1>2, FirstIs
<1> QED BY <1>1, <1>2, <1>3

LEMMA CallKeeps ==
  ASSUME Inv, CallNext
  PROVE  Inv'
<1> DEFINE i == First(Ahead(Last(loops)))
           l == [at |-> i, calling |-> TRUE]
<1>1. loops # << >>
  BY DEF CallNext, ClientRuns
<1>2. Last(loops) \in Loops
  BY <1>1, LoopIs DEF Inv
<1>3. i \in 1..Len(active) /\ i \in 1..MaxAdds
  BY <1>2, AheadIs DEF CallNext
<1>4. loops' = Append(Front(loops), l)
      /\ UNCHANGED <<kind, iterating, active, pending, activeMarked, pendingMarked, added>>
  BY DEF CallNext
<1> HIDE DEF i
<1>5. l \in Loops /\ Inside(l, active)
  BY <1>3 DEF Loops, Inside
<1> HIDE DEF l
<1> QED BY <1>1, <1>4, <1>5, TurnKeeps

LEMMA ReturnKeeps ==
  ASSUME Inv, Return
  PROVE  Inv'
<1> DEFINE l == [Last(loops) EXCEPT !.calling = FALSE]
<1>1. loops # << >> /\ loops' = Append(Front(loops), l)
      /\ UNCHANGED <<kind, iterating, active, pending, activeMarked, pendingMarked, added>>
  BY DEF Return
<1>2. Last(loops) \in Loops /\ Inside(Last(loops), active)
  <2>1. Last(loops) = loops[Len(loops)] /\ Len(loops) \in 1..Len(loops) /\ Last(loops) \in Loops
    BY <1>1, LoopIs DEF Inv
  <2> QED BY <2>1 DEF Inv, LoopInv
<1>3. l \in Loops /\ Inside(l, active)
  BY <1>2 DEF Loops, Inside
<1> HIDE DEF l
<1> QED BY <1>1, <1>3, TurnKeeps

\* What the end of the outermost notification leaves: the records that are not
\* marked, of those that were there and of those that came.
LEMMA SweepIs ==
  ASSUME Inv
  PROVE  LET a == Swept(active, activeMarked)
             p == Swept(pending, pendingMarked)
         IN  /\ Selects(a, active, Len(active)) /\ Selects(p, pending, Len(pending))
             /\ a \o p \in Seq(Records) /\ Len(a \o p) = Len(a) + Len(p)
             /\ \A j \in 1..Len(a \o p) : \/ \E k \in 1..Len(active) : ~active[k].marked /\ (a \o p)[j] = active[k]
                                          \/ \E k \in 1..Len(pending) : ~pending[k].marked /\ (a \o p)[j] = pending[k]
             /\ \A k \in 1..Len(active) : ~active[k].marked => \E j \in 1..Len(a \o p) : (a \o p)[j] = active[k]
             /\ \A k \in 1..Len(pending) : ~pending[k].marked => \E j \in 1..Len(a \o p) : (a \o p)[j] = pending[k]
             /\ Clean(a \o p) /\ Distinct(a \o p)
<1> DEFINE a == Swept(active, activeMarked)
           p == Swept(pending, pendingMarked)
           s == a \o p
           m == Len(a)
           n == Len(p)
<1>1. active \in Seq(Records) /\ pending \in Seq(Records)
      /\ Distinct(active) /\ Distinct(pending) /\ Apart(active, pending)
  BY DEF Inv, ListInv
<1>2. Selects(a, active, Len(active)) /\ Selects(p, pending, Len(pending))
  BY <1>1, SweptIs DEF Inv, MarkInv
<1> HIDE DEF a, p
<1>3. /\ a \in Seq(Records) /\ p \in Seq(Records) /\ m \in Nat /\ n \in Nat
      /\ Distinct(a) /\ Distinct(p)
  BY <1>1, <1>2 DEF Selects
<1>4. /\ s \in Seq(Records) /\ Len(s) = m + n
      /\ \A j \in 1..m + n : s[j] = IF j <= m THEN a[j] ELSE p[j - m]
  BY <1>3, ConcatProperties
<1> HIDE DEF s, m, n
<1>5. \A j \in 1..m : s[j] = a[j] /\ j \in 1..m + n
  BY <1>3, <1>4
<1>6. \A j \in 1..n : s[m + j] = p[j] /\ m + j \in 1..m + n
  BY <1>3, <1>4
<1>7. \A j \in 1..m + n : j \in 1..m \/ \E k \in 1..n : j = m + k
  <2> SUFFICES ASSUME NEW j \in 1..m + n, j \notin 1..m PROVE \E k \in 1..n : j = m + k
    OBVIOUS
  <2>1. j - m \in 1..n /\ j = m + (j - m)
    BY <1>3
  <2> QED BY <2>1
<1>8. /\ \A j \in 1..m : \E k \in 1..Len(active) : ~active[k].marked /\ a[j] = active[k]
      /\ \A k \in 1..Len(active) : ~active[k].marked => \E j \in 1..m : a[j] = active[k]
      /\ \A j \in 1..n : \E k \in 1..Len(pending) : ~pending[k].marked /\ p[j] = pending[k]
      /\ \A k \in 1..Len(pending) : ~pending[k].marked => \E j \in 1..n : p[j] = pending[k]
  BY <1>2 DEF Selects, m, n
<1> DEFINE InActive(x)  == \E k \in 1..Len(active) : ~active[k].marked /\ x = active[k]
           InPending(x) == \E k \in 1..Len(pending) : ~pending[k].marked /\ x = pending[k]
<1>9. \A j \in 1..m + n : InActive(s[j]) \/ InPending(s[j])
  <2>1. \A j \in 1..m : InActive(s[j])
    <3>1. \A j \in 1..m : InActive(a[j])
      BY <1>8
    <3> HIDE DEF InActive
    <3> QED BY <1>5, <3>1
  <2>2. \A j \in 1..n : InPending(s[m + j])
    <3>1. \A j \in 1..n : InPending(p[j])
      BY <1>8
    <3> HIDE DEF InPending
    <3> QED BY <1>6, <3>1
  <2> HIDE DEF InActive, InPending
  <2> QED BY <1>7, <2>1, <2>2
<1>10. \A k \in 1..Len(active) : ~active[k].marked => \E j \in 1..m + n : s[j] = active[k]
  <2> SUFFICES ASSUME NEW k \in 1..Len(active), ~active[k].marked
               PROVE  \E j \in 1..m + n : s[j] = active[k]
    OBVIOUS
  <2>1. PICK j \in 1..m : a[j] = active[k]
    BY <1>8
  <2>2. s[j] = active[k] /\ j \in 1..m + n
    BY <1>5, <2>1
  <2> QED BY <2>2
<1>11. \A k \in 1..Len(pending) : ~pending[k].marked => \E j \in 1..m + n : s[j] = pending[k]
  <2> SUFFICES ASSUME NEW k \in 1..Len(pending), ~pending[k].marked
               PROVE  \E j \in 1..m + n : s[j] = pending[k]
    OBVIOUS
  <2>1. PICK j \in 1..n : p[j] = pending[k]
    BY <1>8
  <2>2. s[m + j] = pending[k] /\ m + j \in 1..m + n
    BY <1>6, <2>1
  <2> QED BY <2>2
<1>12. Clean(s)
  BY <1>4, <1>9 DEF Clean
<1>13. \A j \in 1..m, k \in 1..n : a[j].id # p[k].id
  <2> SUFFICES ASSUME NEW j \in 1..m, NEW k \in 1..n PROVE a[j].id # p[k].id
    OBVIOUS
  <2>1. PICK x \in 1..Len(active) : a[j] = active[x]
    BY <1>8
  <2>2. PICK y \in 1..Len(pending) : p[k] = pending[y]
    BY <1>8
  <2> QED BY <1>1, <2>1, <2>2 DEF Apart
<1>14. Distinct(s)
  <2> SUFFICES ASSUME NEW i \in 1..m + n, NEW j \in 1..m + n, s[i].id = s[j].id PROVE i = j
    BY <1>4 DEF Distinct
  <2>1. CASE i \in 1..m /\ j \in 1..m
    BY <1>3, <1>5, <2>1 DEF Distinct, m
  <2>2. CASE i \in 1..m /\ \E k \in 1..n : j = m + k
    BY <1>5, <1>6, <1>13, <2>2
  <2>3. CASE j \in 1..m /\ \E k \in 1..n : i = m + k
    BY <1>5, <1>6, <1>13, <2>3
  <2>4. CASE (\E k \in 1..n : i = m + k) /\ (\E k \in 1..n : j = m + k)
    <3>1. PICK x \in 1..n : i = m + x
      BY <2>4
    <3>2. PICK y \in 1..n : j = m + y
      BY <2>4
    <3>3. p[x].id = p[y].id
      BY <1>6, <3>1, <3>2
    <3>4. x = y
      BY <1>3, <3>3 DEF Distinct, n
    <3> QED BY <3>1, <3>2, <3>4
  <2> QED BY <1>7, <2>1, <2>2, <2>3, <2>4
<1> QED BY <1>2, <1>4, <1>9, <1>10, <1>11, <1>12, <1>14 DEF s, a, p, m, n

LEMMA FinishKeeps ==
  ASSUME Inv, FinishIteration
  PROVE  Inv'
<1>1. loops \in Seq(Loops) /\ iterating = Len(loops) /\ \A i \in 1..Len(loops) : Inside(loops[i], active)
  BY DEF Inv, LoopInv
<1>2. loops # << >> /\ loops' = Front(loops) /\ iterating' = iterating - 1 /\ UNCHANGED <<kind, added>>
  BY DEF FinishIteration, ClientRuns
<1>3. /\ Front(loops) \in Seq(Loops) /\ Len(Front(loops)) = Len(loops) - 1
      /\ \A i \in 1..Len(loops) - 1 : Front(loops)[i] = loops[i] /\ i \in 1..Len(loops)
  BY <1>1, <1>2, LoopFront
<1>4. iterating' \in Nat /\ iterating' = Len(Front(loops))
  BY <1>1, <1>2, <1>3
<1>5. CASE iterating' > 0
  <2>1. UNCHANGED <<active, pending, activeMarked, pendingMarked>>
    BY <1>5 DEF FinishIteration
  <2>2. LoopInv'
    BY <1>1, <1>2, <1>3, <1>4, <2>1 DEF LoopInv
  <2> QED BY <1>2, <1>5, <2>1, <2>2 DEF Inv, ListInv, MarkInv
<1>6. CASE ~(iterating' > 0)
  <2> DEFINE a == Swept(active, activeMarked)
             p == Swept(pending, pendingMarked)
  <2>1. active' = a \o p /\ pending' = << >> /\ activeMarked' = 0 /\ pendingMarked' = 0
    BY <1>6 DEF FinishIteration
  <2>2. /\ Selects(a, active, Len(active)) /\ Selects(p, pending, Len(pending))
        /\ a \o p \in Seq(Records) /\ Len(a \o p) = Len(a) + Len(p)
        /\ \A j \in 1..Len(a \o p) : \/ \E k \in 1..Len(active) : ~active[k].marked /\ (a \o p)[j] = active[k]
                                     \/ \E k \in 1..Len(pending) : ~pending[k].marked /\ (a \o p)[j] = pending[k]
        /\ Clean(a \o p) /\ Distinct(a \o p)
    BY SweepIs
  <2> DEFINE s == a \o p
  <2>3. Len(s) <= added
    <3>1. /\ Len(a) \in Nat /\ Len(p) \in Nat /\ Len(a) <= Len(active) /\ Len(p) <= Len(pending)
          /\ Len(s) = Len(a) + Len(p)
      BY <2>2 DEF Selects
    <3>2. Len(active) + Len(pending) <= added /\ Len(active) \in Nat /\ Len(pending) \in Nat /\ added \in Nat
      BY DEF Inv, ListInv
    <3> DEFINE x == Len(a)
               y == Len(p)
               z == Len(s)
    <3> HIDE DEF x, y, z
    <3>3. x \in Nat /\ y \in Nat /\ x <= Len(active) /\ y <= Len(pending) /\ z = x + y
      BY <3>1 DEF x, y, z
    <3>4. z <= added
      BY <3>2, <3>3
    <3> QED BY <3>4 DEF z
  <2>4. Numbered(s, added)
    <3> HIDE DEF s
    <3>1. \A k \in 1..Len(active) : active[k].id <= added
      BY DEF Inv, ListInv, Numbered
    <3>2. \A k \in 1..Len(pending) : pending[k].id <= added
      BY DEF Inv, ListInv, Numbered
    <3>3. ASSUME NEW j \in 1..Len(s) PROVE s[j].id <= added
      <4>1. \/ \E k \in 1..Len(active) : s[j] = active[k]
            \/ \E k \in 1..Len(pending) : s[j] = pending[k]
        BY <2>2 DEF s
      <4> QED BY <3>1, <3>2, <4>1
    <3> QED BY <3>3 DEF Numbered
  <2>5. s \in Seq(Records) /\ Clean(s) /\ Distinct(s) /\ active' = s
    BY <2>1, <2>2
  <2> HIDE DEF s
  <2>6. Len(s) + Len(<< >>) <= added /\ Apart(s, << >>) /\ << >> \in Seq(Records)
        /\ Distinct(<< >>) /\ Numbered(<< >>, added)
    BY <2>3, <2>5 DEF Apart, Distinct, Numbered
  <2>7. ListInv'
    BY <1>2, <2>1, <2>4, <2>5, <2>6 DEF ListInv
  <2>8. LoopInv'
    <3>1. Len(Front(loops)) = 0
      BY <1>4, <1>6
    <3>2. Len(loops') = 0 /\ loops' \in Seq(Loops) /\ iterating' = Len(loops')
      BY <1>2, <1>3, <1>4, <3>1
    <3>3. \A i \in 1..Len(loops') : FALSE
      BY <3>2
    <3> QED BY <3>2, <3>3 DEF LoopInv
  <2>9. MarkedIn(s) = 0 /\ MarkedIn(<< >>) = 0
    <3>1. << >> \in Seq(Records) /\ Clean(<< >>)
      BY DEF Clean
    <3> QED BY <2>5, <3>1, CleanMeansNone
  <2>10. MarkInv'
    BY <2>1, <2>5, <2>9 DEF MarkInv
  <2> QED BY <1>2, <2>7, <2>8, <2>10 DEF Inv
<1> QED BY <1>5, <1>6

THEOREM Invariance == Spec => []Inv
<1>1. Init => Inv
  <2> SUFFICES ASSUME Init PROVE Inv
    OBVIOUS
  <2>1. << >> \in Seq(Records) /\ << >> \in Seq(Loops) /\ Len(<< >>) = 0 /\ Clean(<< >>)
        /\ Distinct(<< >>) /\ Apart(<< >>, << >>) /\ Numbered(<< >>, 0)
    BY DEF Clean, Distinct, Apart, Numbered
  <2>2. MarkedIn(<< >>) = 0
    BY <2>1, CleanMeansNone
  <2>3. 0 \in 0..MaxAdds
    BY BoundsAssumption
  <2> QED BY <2>1, <2>2, <2>3 DEF Init, Inv, ListInv, LoopInv, MarkInv
<1>2. Inv /\ [Next]_vars => Inv'
  <2> SUFFICES ASSUME Inv, [Next]_vars PROVE Inv'
    OBVIOUS
  <2>1. ASSUME NEW o \in Observers, AddObserver(o) PROVE Inv'
    BY <2>1, AddKeeps
  <2>2. ASSUME NEW o \in Observers, RemoveObserver(o) PROVE Inv'
    BY <2>2, RemoveKeeps
  <2>3. CASE Notify
    BY <2>3, NotifyKeeps
  <2>4. CASE CallNext
    BY <2>4, CallKeeps
  <2>5. CASE Return
    BY <2>5, ReturnKeeps
  <2>6. CASE FinishIteration
    BY <2>6, FinishKeeps
  <2>7. CASE UNCHANGED vars
    BY <2>7 DEF vars, Inv, ListInv, LoopInv, MarkInv
  <2> QED BY <2>1, <2>2, <2>3, <2>4, <2>5, <2>6, <2>7 DEF Next
<1> QED BY <1>1, <1>2, PTL DEF Spec

\* The lists are of their types, a node's counts are those of its marks, and the
\* outermost notification leaves nothing marked and nobody waiting.
THEOREM TypesAreKept == Spec => []TypeOK
<1>1. Inv => TypeOK
  <2> SUFFICES ASSUME Inv PROVE TypeOK
    OBVIOUS
  <2>1. iterating = 0 => MarkedIn(active) = 0
    BY CleanMeansNone DEF Inv, ListInv, MarkInv
  <2> QED BY <2>1 DEF Inv, ListInv, LoopInv, MarkInv, TypeOK, Loops
<1> QED BY <1>1, Invariance, PTL

-----------------------------------------------------------------------------
(* The registry that the lists are.                                        *)

Registered == Unmarked(active \o pending)
Settled    == {Registration(r) : r \in Range(active)}
Round(l)   == [due  |-> {Registration(active[j]) : j \in Ahead(l)},
               told |-> IF l.calling THEN active[l.at].observer ELSE Nobody]
RoundsOf(ls) == [i \in DOMAIN ls |-> Round(ls[i])]

Registrations == [id : 1..MaxAdds, observer : Observers]
RoundSet      == [due : SUBSET Registrations, told : Observers \cup {Nobody}]

\* The registrations of the unmarked records of a list.
Standing(list) == {Registration(list[i]) : i \in {j \in 1..Len(list) : ~list[j].marked}}

LEMMA RegistrationIs ==
  ASSUME NEW r \in Records, NEW s \in Records
  PROVE  /\ Registration(r) \in Registrations /\ Registration(r).observer = r.observer
         /\ Registration(r).observer \in Observers
         /\ Registration(r) = Registration(s) => r.id = s.id
         /\ r.id = s.id /\ r.observer = s.observer => Registration(r) = Registration(s)
<1>1. r.id \in 1..MaxAdds /\ r.observer \in Observers
  BY DEF Records
<1>2. Registration(r).id = r.id /\ Registration(s).id = s.id /\ Registration(r).observer = r.observer
  BY DEF Registration
<1>3. Registration(r) \in Registrations
  BY <1>1 DEF Registration, Registrations
<1> QED BY <1>1, <1>2, <1>3 DEF Registration

LEMMA RegisteredIs ==
  ASSUME NEW a \in Seq(Records), NEW p \in Seq(Records)
  PROVE  Unmarked(a \o p) = Standing(a) \cup Standing(p)
<1>1. Range(a \o p) = Range(a) \cup Range(p)
  BY RangeConcatenation
<1>2. Range(a) = {a[i] : i \in 1..Len(a)} /\ Range(p) = {p[i] : i \in 1..Len(p)}
  BY RangeEquality
<1> QED BY <1>1, <1>2 DEF Unmarked, Standing

LEMMA SettledIs ==
  ASSUME Inv
  PROVE  Settled = {Registration(active[i]) : i \in 1..Len(active)}
<1>1. Range(active) = {active[i] : i \in 1..Len(active)}
  BY RangeEquality DEF Inv, ListInv
<1> QED BY <1>1 DEF Settled

LEMMA RoundIs ==
  ASSUME Inv, NEW l \in Loops, Inside(l, active)
  PROVE  /\ Round(l) \in RoundSet
         /\ Round(l).due = {Registration(active[j]) : j \in Ahead(l)}
         /\ Round(l).told = IF l.calling THEN active[l.at].observer ELSE Nobody
         /\ Round(l).told # Nobody <=> l.calling
<1>1. active \in Seq(Records) /\ \A j \in 1..Len(active) : active[j] \in Records
  BY ElementOfSeq DEF Inv, ListInv
<1>2. \A j \in Ahead(l) : j \in 1..Len(active)
  BY <1>1 DEF Ahead
<1>3. \A j \in 1..Len(active) : Registration(active[j]) \in Registrations
  BY <1>1, RegistrationIs
<1>4. {Registration(active[j]) : j \in Ahead(l)} \in SUBSET Registrations
  BY <1>2, <1>3
<1>5. ASSUME l.calling PROVE active[l.at].observer \in Observers
  <2>1. l.at \in 1..Len(active)
    BY <1>1, <1>5 DEF Inside, Loops
  <2> QED BY <1>1, <2>1 DEF Records
<1>6. Nobody \notin Observers
  BY ObserversAssumption
<1>7. l.calling \in BOOLEAN
  BY DEF Loops
<1> QED BY <1>4, <1>5, <1>6, <1>7 DEF Round, RoundSet

LEMMA RoundsAre ==
  ASSUME Inv, NEW ls \in Seq(Loops), \A i \in 1..Len(ls) : Inside(ls[i], active)
  PROVE  /\ RoundsOf(ls) \in Seq(RoundSet) /\ Len(RoundsOf(ls)) = Len(ls)
         /\ DOMAIN RoundsOf(ls) = 1..Len(ls)
         /\ \A i \in 1..Len(ls) : RoundsOf(ls)[i] = Round(ls[i])
         /\ RoundsOf(ls) = << >> <=> ls = << >>
<1>1. Len(ls) \in Nat /\ DOMAIN ls = 1..Len(ls) /\ \A i \in 1..Len(ls) : ls[i] \in Loops
  BY ElementOfSeq
<1>2. \A i \in 1..Len(ls) : Round(ls[i]) \in RoundSet
  BY <1>1, RoundIs
<1>3. RoundsOf(ls) \in [1..Len(ls) -> RoundSet]
  BY <1>1, <1>2 DEF RoundsOf
<1>4. RoundsOf(ls) \in Seq(RoundSet) /\ Len(RoundsOf(ls)) = Len(ls)
  BY <1>1, <1>3
<1>5. \A i \in 1..Len(ls) : RoundsOf(ls)[i] = Round(ls[i])
  BY <1>1 DEF RoundsOf
<1> QED BY <1>1, <1>3, <1>4, <1>5

LEMMA RoundsAppend ==
  ASSUME Inv, NEW ls \in Seq(Loops), \A i \in 1..Len(ls) : Inside(ls[i], active),
         NEW l \in Loops, Inside(l, active)
  PROVE  RoundsOf(Append(ls, l)) = Append(RoundsOf(ls), Round(l))
<1> DEFINE t == Append(ls, l)
           u == RoundsOf(t)
           v == Append(RoundsOf(ls), Round(l))
<1>1. /\ t \in Seq(Loops) /\ Len(t) = Len(ls) + 1 /\ \A i \in 1..Len(t) : Inside(t[i], active)
  BY LoopAppend
<1>2. /\ \A i \in 1..Len(ls) : t[i] = ls[i]
      /\ t[Len(ls) + 1] = l
  BY AppendProperties
<1> HIDE DEF t
<1>3. u \in Seq(RoundSet) /\ Len(u) = Len(ls) + 1 /\ \A i \in 1..Len(ls) + 1 : u[i] = Round(t[i])
  BY <1>1, RoundsAre
<1>4. RoundsOf(ls) \in Seq(RoundSet) /\ Len(RoundsOf(ls)) = Len(ls)
      /\ \A i \in 1..Len(ls) : RoundsOf(ls)[i] = Round(ls[i])
  BY RoundsAre
<1>5. Round(l) \in RoundSet
  BY RoundIs
<1>6. /\ v \in Seq(RoundSet) /\ Len(v) = Len(ls) + 1
      /\ \A i \in 1..Len(ls) : v[i] = RoundsOf(ls)[i]
      /\ v[Len(ls) + 1] = Round(l)
  BY <1>4, <1>5, AppendProperties
<1> HIDE DEF u, v
<1>7. \A i \in 1..Len(ls) + 1 : u[i] = v[i]
  <2>1. \A i \in 1..Len(ls) + 1 : i \in 1..Len(ls) \/ i = Len(ls) + 1
    OBVIOUS
  <2> QED BY <1>2, <1>3, <1>4, <1>6, <2>1
<1>8. u = v
  BY <1>3, <1>6, <1>7, SeqEqual
<1> QED BY <1>8 DEF u, v, t

LEMMA RoundsFront ==
  ASSUME Inv, loops # << >>
  PROVE  /\ RoundsOf(Front(loops)) = Front(RoundsOf(loops))
         /\ Front(loops) \in Seq(Loops) /\ \A i \in 1..Len(Front(loops)) : Inside(Front(loops)[i], active)
         /\ Last(RoundsOf(loops)) = Round(Last(loops))
<1> DEFINE n == Len(loops) - 1
           s == RoundsOf(loops)
           u == RoundsOf(Front(loops))
           v == Front(s)
<1>1. loops \in Seq(Loops) /\ \A i \in 1..Len(loops) : Inside(loops[i], active)
  BY DEF Inv, LoopInv
<1>2. /\ Front(loops) \in Seq(Loops) /\ Len(Front(loops)) = n
      /\ \A i \in 1..n : Front(loops)[i] = loops[i] /\ i \in 1..Len(loops)
  BY <1>1, LoopFront
<1>n. n \in Nat /\ Len(loops) = n + 1
  BY <1>1
<1>3. \A i \in 1..Len(Front(loops)) : Inside(Front(loops)[i], active)
  BY <1>1, <1>2
<1> HIDE DEF n
<1>4. u \in Seq(RoundSet) /\ Len(u) = n /\ \A i \in 1..n : u[i] = Round(loops[i])
  BY <1>2, <1>3, RoundsAre
<1>5. s \in Seq(RoundSet) /\ Len(s) = n + 1 /\ \A i \in 1..Len(loops) : s[i] = Round(loops[i])
  BY <1>1, <1>n, RoundsAre
<1> HIDE DEF s, u
<1>6. v \in Seq(RoundSet) /\ Len(v) = n /\ \A i \in 1..n : v[i] = s[i]
  <2>1. v = SubSeq(s, 1, n)
    BY <1>n, <1>5 DEF Front
  <2>2. 1 \in Int /\ n \in Int /\ \A i \in 1..n : s[i] \in RoundSet
    BY <1>n, <1>5, ElementOfSeq
  <2>3. /\ SubSeq(s, 1, n) \in Seq(RoundSet)
        /\ Len(SubSeq(s, 1, n)) = IF 1 <= n THEN n - 1 + 1 ELSE 0
        /\ \A i \in 1..n - 1 + 1 : SubSeq(s, 1, n)[i] = s[1 + i - 1]
    BY <2>2, SubSeqProperties
  <2>4. Len(SubSeq(s, 1, n)) = n /\ \A i \in 1..n : SubSeq(s, 1, n)[i] = s[i]
    BY <1>n, <2>3
  <2> QED BY <2>1, <2>3, <2>4
<1> HIDE DEF v
<1>7. \A i \in 1..n : u[i] = v[i]
  BY <1>2, <1>4, <1>5, <1>6
<1>8. u = v
  BY <1>4, <1>6, <1>7, SeqEqual
<1>9. Last(s) = Round(Last(loops))
  <2>1. n + 1 \in 1..Len(loops)
    BY <1>n
  <2> QED BY <1>n, <1>5, <2>1 DEF Last
<1> QED BY <1>2, <1>3, <1>8, <1>9 DEF u, v, s

\* The rounds, while the list stays as it is.
LEMMA SameRounds ==
  ASSUME active' = active
  PROVE  RoundsOf(loops)' = RoundsOf(loops') /\ Settled' = Settled
BY DEF RoundsOf, Round, Ahead, Settled

LEMMA RoundsExpand ==
  /\ [i \in DOMAIN loops |->
        [due  |-> {Registration(active[j]) : j \in Ahead(loops[i])},
         told |-> IF loops[i].calling THEN active[loops[i].at].observer ELSE Nobody]] = RoundsOf(loops)
  /\ [i \in DOMAIN loops |->
        [due  |-> {Registration(active[j]) : j \in Ahead(loops[i])},
         told |-> IF loops[i].calling THEN active[loops[i].at].observer ELSE Nobody]]' = RoundsOf(loops)'
BY DEF RoundsOf, Round

LEMMA ClientIs ==
  ASSUME Inv
  PROVE  /\ RoundsOf(loops) = << >> <=> loops = << >>
         /\ R!ClientRuns <=> ClientRuns
<1>1. RoundsOf(loops) = << >> <=> loops = << >>
  BY RoundsAre DEF Inv, LoopInv
<1>2. ASSUME loops # << >> PROVE Last(RoundsOf(loops)).told # Nobody <=> Last(loops).calling
  <2>1. Last(loops) = loops[Len(loops)] /\ Len(loops) \in 1..Len(loops) /\ Last(loops) \in Loops
    BY <1>2, LoopIs DEF Inv
  <2>2. Inside(Last(loops), active)
    BY <2>1 DEF Inv, LoopInv
  <2>3. Last(RoundsOf(loops)) = Round(Last(loops))
    BY <1>2, RoundsFront
  <2> QED BY <2>1, <2>2, <2>3, RoundIs
<1>3. R!ClientRuns <=> (RoundsOf(loops) # << >> => Last(RoundsOf(loops)).told # Nobody)
  BY RoundsExpand DEF R!ClientRuns, R!Last, Last
<1> QED BY <1>1, <1>2, <1>3 DEF ClientRuns

-----------------------------------------------------------------------------
(* Every step is one of the registry.                                      *)

LEMMA AddRefines ==
  ASSUME Inv, Inv', NEW o \in Observers, AddObserver(o)
  PROVE  R!Register
<1> DEFINE r == Record(o)
           x == Registration(r)
<1>0. added \in 0..MaxAdds /\ MaxAdds \in Nat /\ added < MaxAdds /\ added' = added + 1
      /\ loops' = loops /\ ClientRuns
  BY BoundsAssumption DEF Inv, AddObserver
<1>1. r \in Records /\ r.id = added + 1 /\ ~r.marked
  BY <1>0, RecordIs
<1>2. /\ active \in Seq(Records) /\ pending \in Seq(Records)
      /\ active' \in Seq(Records) /\ pending' \in Seq(Records)
      /\ Len(active) \in Nat /\ Len(pending) \in Nat
  BY DEF Inv, ListInv
<1> HIDE DEF r
<1>3. Registered = Standing(active) \cup Standing(pending)
      /\ Registered' = Standing(active') \cup Standing(pending')
  BY <1>2, RegisteredIs DEF Registered
<1>4. Settled = {Registration(active[i]) : i \in 1..Len(active)}
      /\ Settled' = {Registration(active'[i]) : i \in 1..Len(active')}
  <2>1. Range(active) = {active[i] : i \in 1..Len(active)} /\ Range(active') = {active'[i] : i \in 1..Len(active')}
    BY <1>2, RangeEquality
  <2> QED BY <2>1 DEF Settled
<1>5. x \in Registrations /\ x \notin Registered /\ x \notin Settled
  <2>1. \A i \in 1..Len(active) : active[i] \in Records /\ active[i].id <= added /\ active[i].id \in Nat
    <3>1. \A i \in 1..Len(active) : active[i] \in Records
      BY <1>2, ElementOfSeq
    <3> QED BY <3>1, <1>0 DEF Inv, ListInv, Numbered, Records
  <2>2. \A i \in 1..Len(pending) : pending[i] \in Records /\ pending[i].id <= added /\ pending[i].id \in Nat
    <3>1. \A i \in 1..Len(pending) : pending[i] \in Records
      BY <1>2, ElementOfSeq
    <3> QED BY <3>1, <1>0 DEF Inv, ListInv, Numbered, Records
  <2>3. \A i \in 1..Len(active) : x # Registration(active[i])
    <3> TAKE i \in 1..Len(active)
    <3>1. r.id # active[i].id /\ active[i] \in Records
      BY <1>0, <1>1, <2>1
    <3> QED BY <1>1, <3>1, RegistrationIs
  <2>4. \A i \in 1..Len(pending) : x # Registration(pending[i])
    <3> TAKE i \in 1..Len(pending)
    <3>1. r.id # pending[i].id /\ pending[i] \in Records
      BY <1>0, <1>1, <2>2
    <3> QED BY <1>1, <3>1, RegistrationIs
  <2>5. x \in Registrations
    BY <1>1, RegistrationIs
  <2> HIDE DEF x
  <2> QED BY <1>3, <1>4, <2>3, <2>4, <2>5 DEF Standing
<1>6. ASSUME NEW list \in Seq(Records)
      PROVE  Standing(Append(list, r)) = Standing(list) \cup {x}
  <2> DEFINE t == Append(list, r)
  <2>1. /\ Len(t) = Len(list) + 1 /\ \A j \in 1..Len(list) : t[j] = list[j]
        /\ t[Len(list) + 1] = r
    BY <1>1, AppendProperties
  <2>2. Len(list) \in Nat /\ \A j \in 1..Len(list) + 1 : j \in 1..Len(list) \/ j = Len(list) + 1
    OBVIOUS
  <2>3. \A j \in 1..Len(list) : j \in 1..Len(list) + 1
    OBVIOUS
  <2> HIDE DEF t, x
  <2>4. ASSUME NEW y \in Standing(t) PROVE y \in Standing(list) \cup {x}
    <3>1. PICK j \in 1..Len(t) : ~t[j].marked /\ y = Registration(t[j])
      BY <2>4 DEF Standing
    <3>2. CASE j \in 1..Len(list)
      BY <2>1, <3>1, <3>2 DEF Standing
    <3>3. CASE j = Len(list) + 1
      BY <2>1, <3>1, <3>3 DEF x
    <3> QED BY <2>1, <2>2, <3>1, <3>2, <3>3
  <2>5. ASSUME NEW y \in Standing(list) PROVE y \in Standing(t)
    <3>1. PICK j \in 1..Len(list) : ~list[j].marked /\ y = Registration(list[j])
      BY <2>5 DEF Standing
    <3>2. j \in 1..Len(t) /\ t[j] = list[j]
      BY <2>1, <2>3
    <3> QED BY <3>1, <3>2 DEF Standing
  <2>6. x \in Standing(t)
    <3>1. Len(list) + 1 \in 1..Len(t)
      BY <2>1, <2>2
    <3> QED BY <1>1, <2>1, <3>1 DEF Standing, x
  <2> QED BY <2>4, <2>5, <2>6 DEF t
<1> HIDE DEF x
<1>7. Registered' = Registered \cup {x}
  <2>1. CASE iterating > 0
    <3>1. active' = active /\ pending' = Append(pending, r)
      BY <2>1 DEF AddObserver, r
    <3> QED BY <1>2, <1>3, <1>6, <3>1
  <2>2. CASE ~(iterating > 0)
    <3>1. pending' = pending /\ active' = Append(active, r)
      BY <2>2 DEF AddObserver, r
    <3> QED BY <1>2, <1>3, <1>6, <3>1
  <2> QED BY <2>1, <2>2
<1>8. CASE iterating > 0
  <2>1. active' = active
    BY <1>8 DEF AddObserver
  <2>2. RoundsOf(loops)' = RoundsOf(loops) /\ Settled' = Settled
    BY <1>0, <2>1, SameRounds
  <2>3. RoundsOf(loops) # << >>
    <3>1. loops # << >>
      BY <1>8, LoopIs DEF Inv
    <3> QED BY <3>1, ClientIs
  <2> QED BY <1>0, <1>5, <1>7, <2>2, <2>3, ClientIs, RoundsExpand DEF R!Register, Registered, Settled, Registrations
<1>9. CASE ~(iterating > 0)
  <2>1. iterating = 0 /\ iterating' = 0
    BY <1>9 DEF Inv, LoopInv, AddObserver
  <2>2. loops = << >> /\ loops' = << >>
    BY <1>0, <2>1, LoopIs DEF Inv
  <2>3. RoundsOf(loops) = << >> /\ RoundsOf(loops)' = << >>
    BY <2>2 DEF RoundsOf
  <2>4. pending' = << >> /\ Clean(active')
    BY <2>1 DEF Inv, MarkInv
  <2>5. Settled' = Registered'
    BY <1>3, <1>4, <2>4 DEF Standing, Clean
  <2> QED BY <1>0, <1>5, <1>7, <2>3, <2>5, ClientIs, RoundsExpand DEF R!Register, Registered, Settled, Registrations
<1> QED BY <1>8, <1>9

\* A loop in the list a.
AheadIn(a, l) == {j \in DOMAIN a : j > l.at /\ ~a[j].marked}
RoundIn(a, l) == [due  |-> {Registration(a[j]) : j \in AheadIn(a, l)},
                  told |-> IF l.calling THEN a[l.at].observer ELSE Nobody]

LEMMA RoundsIn ==
  /\ RoundsOf(loops) = [i \in DOMAIN loops |-> RoundIn(active, loops[i])]
  /\ RoundsOf(loops)' = [i \in DOMAIN loops' |-> RoundIn(active', loops'[i])]
BY DEF RoundsOf, Round, RoundIn, Ahead, AheadIn

\* The registrations of all records of a list.
AllOf(list) == {Registration(list[j]) : j \in 1..Len(list)}

\* The round in which the registration x is no longer due.
LessDue(round, x) == [round EXCEPT !.due = @ \ {x}]

LEMMA LessDueIs ==
  ASSUME NEW d, NEW t, NEW x
  PROVE  LessDue([due |-> d, told |-> t], x) = [due |-> d \ {x}, told |-> t]
BY DEF LessDue

\* What marking the i-th record of the list a means for the registry.
LEMMA MarkedStands ==
  ASSUME NEW a \in Seq(Records), NEW i \in 1..Len(a), ~a[i].marked, Distinct(a),
         NEW new, IsMarked(new, a, i)
  PROVE  /\ Standing(new) = Standing(a) \ {Registration(a[i])}
         /\ Registration(a[i]) \in Standing(a)
         /\ AllOf(new) = AllOf(a)
<1> DEFINE x == Registration(a[i])
<1>1. \A j \in 1..Len(a) : a[j] \in Records
  BY ElementOfSeq
<1>2. /\ Len(new) = Len(a) /\ \A j \in 1..Len(a) : j # i => new[j] = a[j]
      /\ new[i].id = a[i].id /\ new[i].observer = a[i].observer /\ new[i].marked
  BY DEF IsMarked
<1>3. \A j \in 1..Len(a) : j # i => Registration(a[j]) # x
  <2> SUFFICES ASSUME NEW j \in 1..Len(a), Registration(a[j]) = x PROVE j = i
    OBVIOUS
  <2>1. a[j].id = a[i].id
    BY <1>1, RegistrationIs
  <2> QED BY <2>1 DEF Distinct
<1>4. Registration(new[i]) = x
  BY <1>2 DEF Registration
<1>5. \A j \in 1..Len(a) : Registration(new[j]) = Registration(a[j])
  BY <1>2, <1>4
<1>6. x \in Standing(a)
  BY DEF Standing
<1> HIDE DEF x
<1>7. Standing(new) = Standing(a) \ {x}
  BY <1>2, <1>3, <1>4, <1>5 DEF Standing, x
<1>8. AllOf(new) = AllOf(a)
  BY <1>2, <1>5 DEF AllOf
<1> QED BY <1>6, <1>7, <1>8 DEF x

LEMMA MarkedRound ==
  ASSUME NEW a \in Seq(Records), NEW i \in 1..Len(a), ~a[i].marked, Distinct(a),
         NEW new, IsMarked(new, a, i), NEW l \in Loops, Inside(l, a)
  PROVE  RoundIn(new, l) = LessDue(RoundIn(a, l), Registration(a[i]))
<1> DEFINE x == Registration(a[i])
<1>1. \A j \in 1..Len(a) : a[j] \in Records
  BY ElementOfSeq
<1>2. /\ Len(new) = Len(a) /\ new \in Seq(Records) /\ \A j \in 1..Len(a) : j # i => new[j] = a[j]
      /\ new[i].id = a[i].id /\ new[i].observer = a[i].observer /\ new[i].marked
  BY DEF IsMarked
<1>3. \A j \in 1..Len(a) : j # i => Registration(a[j]) # x
  <2> SUFFICES ASSUME NEW j \in 1..Len(a), Registration(a[j]) = x PROVE j = i
    OBVIOUS
  <2>1. a[j].id = a[i].id
    BY <1>1, RegistrationIs
  <2> QED BY <2>1 DEF Distinct
<1>4. DOMAIN new = 1..Len(a) /\ DOMAIN a = 1..Len(a)
  BY <1>2
<1>5. AheadIn(new, l) = AheadIn(a, l) \ {i}
  BY <1>2, <1>4 DEF AheadIn
<1>6. \A j \in AheadIn(a, l) : j \in 1..Len(a)
  BY <1>4 DEF AheadIn
<1>7. \A j \in AheadIn(new, l) : Registration(new[j]) = Registration(a[j]) /\ Registration(a[j]) # x
  BY <1>2, <1>3, <1>5, <1>6
<1>8. \A j \in AheadIn(a, l) : Registration(a[j]) # x => j \in AheadIn(new, l)
  BY <1>5
<1> HIDE DEF x
<1>9. {Registration(new[j]) : j \in AheadIn(new, l)} = {Registration(a[j]) : j \in AheadIn(a, l)} \ {x}
  BY <1>5, <1>7, <1>8
<1>10. l.calling => new[l.at].observer = a[l.at].observer
  <2> SUFFICES ASSUME l.calling PROVE new[l.at].observer = a[l.at].observer
    OBVIOUS
  <2>1. l.at \in 1..Len(a)
    BY DEF Inside, Loops
  <2> QED BY <1>2, <2>1
<1> DEFINE d == {Registration(a[j]) : j \in AheadIn(a, l)}
           t == IF l.calling THEN a[l.at].observer ELSE Nobody
<1>11. RoundIn(new, l) = [due |-> d \ {x}, told |-> t]
  BY <1>9, <1>10 DEF RoundIn
<1>12. RoundIn(a, l) = [due |-> d, told |-> t]
  BY DEF RoundIn
<1> HIDE DEF d, t
<1>13. RoundIn(new, l) = LessDue(RoundIn(a, l), x)
  <2>1. LessDue([due |-> d, told |-> t], x) = [due |-> d \ {x}, told |-> t]
    BY LessDueIs
  <2> QED BY <1>11, <1>12, <2>1
<1> QED BY <1>13 DEF x

LEMMA UnregisterFrom ==
  ASSUME Inv, iterating > 0, ClientRuns, loops' = loops,
         NEW i, MarksActive(i) \/ MarksPending(i)
  PROVE  R!Unregister
<1>1. /\ active \in Seq(Records) /\ pending \in Seq(Records)
      /\ Distinct(active) /\ Distinct(pending) /\ Apart(active, pending)
      /\ loops \in Seq(Loops) /\ \A j \in 1..Len(loops) : Inside(loops[j], active)
  BY DEF Inv, ListInv, LoopInv
<1>2. /\ \A j \in 1..Len(active) : active[j] \in Records
      /\ \A j \in 1..Len(pending) : pending[j] \in Records
      /\ \A j \in 1..Len(loops) : loops[j] \in Loops
  BY <1>1, ElementOfSeq
<1>3. Registered = Standing(active) \cup Standing(pending)
  BY <1>1, RegisteredIs DEF Registered
<1>4. Settled = {Registration(active[j]) : j \in 1..Len(active)}
  BY SettledIs
<1>5. RoundsOf(loops) # << >> /\ DOMAIN RoundsOf(loops) = 1..Len(loops) /\ DOMAIN loops = 1..Len(loops)
  <2>1. loops # << >>
    BY LoopIs DEF Inv
  <2> QED BY <1>1, <2>1, RoundsAre
<1>6. \A j \in 1..Len(active), k \in 1..Len(pending) : Registration(active[j]) # Registration(pending[k])
  BY <1>1, <1>2, RegistrationIs DEF Apart
<1>s. ASSUME NEW x \in Registered, Registered' = Registered \ {x}, Settled' = Settled,
             RoundsOf(loops)' = [j \in 1..Len(loops) |-> LessDue(RoundsOf(loops)[j], x)]
      PROVE  R!Unregister
  <2>1. RoundsOf(loops)' = [j \in DOMAIN RoundsOf(loops) |-> LessDue(RoundsOf(loops)[j], x)]
    BY <1>5, <1>s
  <2>2. R!ClientRuns
    BY ClientIs
  <2> DEFINE e == [k \in DOMAIN loops |->
                     [due  |-> {Registration(active[j]) : j \in Ahead(loops[k])},
                      told |-> IF loops[k].calling THEN active[loops[k].at].observer ELSE Nobody]]
  <2>3. e = RoundsOf(loops) /\ e' = RoundsOf(loops)'
    BY RoundsExpand
  <2> HIDE DEF e
  <2>4. e' = [k \in DOMAIN e |-> LessDue(e[k], x)] /\ e # << >>
    BY <1>5, <2>1, <2>3
  <2>5. /\ \E r \in Registered :
             /\ Registered' = Registered \ {r}
             /\ e' = [k \in DOMAIN e |-> [e[k] EXCEPT !.due = @ \ {r}]]
        /\ Settled' = IF e = << >> THEN Registered' ELSE Settled
    BY <1>s, <2>4 DEF LessDue
  <2> QED BY <2>2, <2>5 DEF R!Unregister, Registered, Settled, e
<1>7. \A j \in 1..Len(loops) : RoundsOf(loops)[j] = RoundIn(active, loops[j])
  BY <1>5, RoundsIn
<1>8. CASE MarksActive(i)
  <2> DEFINE a == active'
             x == Registration(active[i])
  <2>1. i \in 1..Len(active) /\ ~active[i].marked /\ a = [active EXCEPT ![i].marked = TRUE] /\ pending' = pending
    BY <1>8 DEF MarksActive
  <2>2. IsMarked([active EXCEPT ![i].marked = TRUE], active, i)
    BY <1>1, <2>1, MarkIs
  <2>3. IsMarked(a, active, i)
    BY <2>1, <2>2
  <2> HIDE DEF a
  <2>4. /\ Standing(a) = Standing(active) \ {x} /\ x \in Standing(active)
        /\ AllOf(a) = AllOf(active)
    <3> HIDE DEF x
    <3>1. /\ Standing(a) = Standing(active) \ {Registration(active[i])}
          /\ Registration(active[i]) \in Standing(active)
          /\ AllOf(a) = AllOf(active)
      BY <1>1, <2>1, <2>3, MarkedStands
    <3> QED BY <3>1 DEF x
  <2>5. x \notin Standing(pending)
    BY <1>6, <2>1 DEF Standing
  <2>6. a \in Seq(Records)
    BY <2>3 DEF IsMarked
  <2>7. Registered' = Registered \ {x}
    <3>1. Unmarked(a \o pending) = Standing(a) \cup Standing(pending)
      BY <1>1, <2>6, RegisteredIs
    <3>2. Registered' = Unmarked(a \o pending)
      BY <2>1 DEF Registered, a
    <3> QED BY <1>3, <2>4, <2>5, <3>1, <3>2
  <2>8. Settled' = Settled
    <3>1. Range(a) = {a[j] : j \in 1..Len(a)}
      BY <2>6, RangeEquality
    <3>2. Settled' = {Registration(r) : r \in Range(a)}
      BY DEF Settled, a
    <3> QED BY <1>4, <2>4, <3>1, <3>2 DEF AllOf
  <2>9. \A j \in 1..Len(loops) : RoundIn(a, loops[j]) = LessDue(RoundIn(active, loops[j]), x)
    BY <1>1, <1>2, <2>1, <2>3, MarkedRound
  <2>10. RoundsOf(loops)' = [j \in 1..Len(loops) |-> RoundIn(a, loops[j])]
    BY <1>5, RoundsIn DEF a
  <2> HIDE DEF x
  <2>11. RoundsOf(loops)' = [j \in 1..Len(loops) |-> LessDue(RoundsOf(loops)[j], x)]
    BY <1>7, <2>9, <2>10
  <2>12. x \in Registered
    BY <1>3, <2>4
  <2> QED BY <1>s, <2>7, <2>8, <2>11, <2>12
<1>9. CASE MarksPending(i)
  <2> DEFINE p == pending'
             x == Registration(pending[i])
  <2>1. i \in 1..Len(pending) /\ ~pending[i].marked /\ p = [pending EXCEPT ![i].marked = TRUE] /\ active' = active
    BY <1>9 DEF MarksPending
  <2>2. IsMarked([pending EXCEPT ![i].marked = TRUE], pending, i)
    BY <1>1, <2>1, MarkIs
  <2>3. IsMarked(p, pending, i)
    BY <2>1, <2>2
  <2> HIDE DEF p
  <2>4. Standing(p) = Standing(pending) \ {x} /\ x \in Standing(pending)
    BY <1>1, <2>1, <2>3, MarkedStands
  <2>5. x \notin Standing(active)
    BY <1>6, <2>1 DEF Standing
  <2>6. p \in Seq(Records)
    BY <2>3 DEF IsMarked
  <2>7. Registered' = Registered \ {x}
    <3>1. Unmarked(active \o p) = Standing(active) \cup Standing(p)
      BY <1>1, <2>6, RegisteredIs
    <3>2. Registered' = Unmarked(active \o p)
      BY <2>1 DEF Registered, p
    <3> QED BY <1>3, <2>4, <2>5, <3>1, <3>2
  <2>8. Settled' = Settled /\ RoundsOf(loops)' = RoundsOf(loops)
    BY <2>1, SameRounds
  <2>9. ASSUME NEW j \in 1..Len(loops)
        PROVE  LessDue(RoundsOf(loops)[j], x) = RoundsOf(loops)[j]
    <3> DEFINE d == {Registration(active[k]) : k \in AheadIn(active, loops[j])}
               t == IF loops[j].calling THEN active[loops[j].at].observer ELSE Nobody
    <3>1. RoundsOf(loops)[j] = [due |-> d, told |-> t]
      BY <1>7 DEF RoundIn
    <3>2. \A k \in AheadIn(active, loops[j]) : k \in 1..Len(active)
      BY <1>1 DEF AheadIn
    <3>3. x \notin d
      BY <1>6, <2>1, <3>2
    <3> HIDE DEF d, t
    <3>4. d \ {x} = d
      BY <3>3
    <3> QED BY <3>1, <3>4, LessDueIs
  <2> HIDE DEF x
  <2>10. RoundsOf(loops) = [j \in 1..Len(loops) |-> RoundsOf(loops)[j]]
    BY <1>5, RoundsIn
  <2>11. RoundsOf(loops)' = [j \in 1..Len(loops) |-> LessDue(RoundsOf(loops)[j], x)]
    BY <2>8, <2>9, <2>10
  <2>12. x \in Registered
    BY <1>3, <2>4
  <2> QED BY <1>s, <2>7, <2>8, <2>11, <2>12
<1> QED BY <1>8, <1>9

LEMMA UnregisterOutside ==
  ASSUME Inv, Inv', iterating = 0, ClientRuns, loops' = loops, pending' = pending,
         NEW i \in 1..Len(active), active' = Without(active, i), iterating' = iterating
  PROVE  R!Unregister
<1> DEFINE x == Registration(active[i])
           a == active'
<1>1. /\ active \in Seq(Records) /\ a \in Seq(Records) /\ << >> \in Seq(Records)
      /\ pending = << >> /\ pending' = << >> /\ Clean(active) /\ Clean(a) /\ Distinct(active)
  BY DEF Inv, ListInv, MarkInv
<1>2. loops = << >> /\ loops' = << >>
  BY LoopIs DEF Inv
<1>3. RoundsOf(loops) = << >> /\ RoundsOf(loops)' = << >>
  BY <1>2 DEF RoundsOf
<1>4. /\ Len(a) = Len(active) - 1
      /\ \A j \in 1..Len(active) - 1 : \E k \in (1..Len(active)) \ {i} : a[j] = active[k]
      /\ \A k \in (1..Len(active)) \ {i} : \E j \in 1..Len(active) - 1 : a[j] = active[k]
  <2> DEFINE w == Without(active, i)
  <2>1. /\ Len(w) = Len(active) - 1
        /\ \A j \in 1..Len(active) - 1 : \E k \in (1..Len(active)) \ {i} : w[j] = active[k]
        /\ \A k \in (1..Len(active)) \ {i} : \E j \in 1..Len(active) - 1 : w[j] = active[k]
    BY <1>1, WithoutIs
  <2>2. a = w
    OBVIOUS
  <2> HIDE DEF a, w
  <2> QED BY <2>1, <2>2
<1> HIDE DEF a
<1>5. \A j \in 1..Len(active) : active[j] \in Records
  BY <1>1, ElementOfSeq
<1>6. \A k \in (1..Len(active)) \ {i} : Registration(active[k]) # x
  <2> SUFFICES ASSUME NEW k \in 1..Len(active), Registration(active[k]) = x PROVE k = i
    OBVIOUS
  <2>1. active[k].id = active[i].id
    BY <1>5, RegistrationIs
  <2> QED BY <1>1, <2>1 DEF Distinct
<1>7. Registered = AllOf(active) /\ Registered' = AllOf(a)
  <2>1. Standing(<< >>) = {}
    BY DEF Standing
  <2>2. Standing(active) = AllOf(active) /\ Standing(a) = AllOf(a)
    BY <1>1 DEF Standing, AllOf, Clean
  <2>3. Unmarked(active \o << >>) = Standing(active) \cup Standing(<< >>)
        /\ Unmarked(a \o << >>) = Standing(a) \cup Standing(<< >>)
    BY <1>1, RegisteredIs
  <2>4. Registered = Unmarked(active \o << >>) /\ Registered' = Unmarked(a \o << >>)
    BY <1>1 DEF Registered, a
  <2> QED BY <2>1, <2>2, <2>3, <2>4
<1>8. Settled' = AllOf(a)
  <2>1. Range(a) = {a[j] : j \in 1..Len(a)}
    BY <1>1, RangeEquality
  <2>2. Settled' = {Registration(r) : r \in Range(a)}
    BY DEF Settled, a
  <2> QED BY <2>1, <2>2 DEF AllOf
<1> HIDE DEF x
<1>9. AllOf(a) = AllOf(active) \ {x}
  <2>1. ASSUME NEW y \in AllOf(a) PROVE y \in AllOf(active) \ {x}
    <3>1. PICK j \in 1..Len(a) : y = Registration(a[j])
      BY DEF AllOf
    <3>2. PICK k \in (1..Len(active)) \ {i} : a[j] = active[k]
      BY <1>4
    <3> QED BY <1>6, <3>1, <3>2 DEF AllOf
  <2>2. ASSUME NEW y \in AllOf(active), y # x PROVE y \in AllOf(a)
    <3>1. PICK k \in 1..Len(active) : y = Registration(active[k])
      BY DEF AllOf
    <3>2. k # i
      BY <2>2, <3>1 DEF x
    <3>3. PICK j \in 1..Len(active) - 1 : a[j] = active[k]
      BY <1>4, <3>2
    <3>4. j \in 1..Len(a)
      BY <1>4
    <3> QED BY <3>1, <3>3, <3>4 DEF AllOf
  <2> QED BY <2>1, <2>2
<1>10. x \in Registered
  BY <1>7 DEF AllOf, x
<1>11. R!ClientRuns
  BY ClientIs
<1> DEFINE e == [k \in DOMAIN loops |->
                   [due  |-> {Registration(active[j]) : j \in Ahead(loops[k])},
                    told |-> IF loops[k].calling THEN active[loops[k].at].observer ELSE Nobody]]
<1>12. e = RoundsOf(loops) /\ e' = RoundsOf(loops)'
  BY RoundsExpand
<1> HIDE DEF e
<1>13. e = << >> /\ e' = << >>
  BY <1>3, <1>12
<1>14. e' = [k \in DOMAIN e |-> [e[k] EXCEPT !.due = @ \ {x}]]
  <2>1. DOMAIN e = {}
    BY <1>13
  <2>2. << >> = [k \in {} |-> [e[k] EXCEPT !.due = @ \ {x}]]
    OBVIOUS
  <2> QED BY <1>13, <2>1, <2>2
<1>15. /\ \E r \in Registered :
           /\ Registered' = Registered \ {r}
           /\ e' = [k \in DOMAIN e |-> [e[k] EXCEPT !.due = @ \ {r}]]
       /\ Settled' = IF e = << >> THEN Registered' ELSE Settled
  BY <1>7, <1>8, <1>9, <1>10, <1>13, <1>14
<1> QED BY <1>11, <1>15 DEF R!Unregister, Registered, Settled, e

LEMMA RemoveRefines ==
  ASSUME Inv, Inv', NEW o \in Observers, RemoveObserver(o)
  PROVE  R!Unregister
<1>1. ClientRuns /\ loops' = loops /\ iterating' = iterating /\ iterating \in Nat
  BY DEF RemoveObserver, Inv, LoopInv
<1>2. CASE iterating > 0
  <2>1. MarkOne(o) /\ (kind = "undo" => ~Withdrawn(o))
    BY <1>2 DEF RemoveObserver
  <2>2. (\E i : MarksActive(i)) \/ (\E i : MarksPending(i))
    BY <2>1, MarkOneIs
  <2> QED BY <1>1, <1>2, <2>2, UnregisterFrom
<1>3. CASE ~(iterating > 0)
  <2>1. iterating = 0
    BY <1>1, <1>3
  <2>2. RemoveOne(o) /\ pending' = pending
    BY <1>3 DEF RemoveObserver, RemoveOne
  <2>3. PICK i \in 1..Len(active) : active' = Without(active, i)
    BY <2>2, RemoveOneIs
  <2> QED BY <1>1, <2>1, <2>2, <2>3, UnregisterOutside
<1> QED BY <1>2, <1>3

LEMMA NotifyRefines ==
  ASSUME Inv, Notify
  PROVE  R!Begin
<1> DEFINE l == [at |-> 0, calling |-> FALSE]
<1>1. /\ active \in Seq(Records) /\ pending \in Seq(Records)
      /\ Distinct(active) /\ Apart(active, pending)
      /\ loops \in Seq(Loops) /\ \A j \in 1..Len(loops) : Inside(loops[j], active)
  BY DEF Inv, ListInv, LoopInv
<1>2. l \in Loops /\ Inside(l, active)
  <2>1. Len(active) \in Nat /\ MaxAdds \in Nat
    BY <1>1, BoundsAssumption
  <2> QED BY <2>1 DEF Loops, Inside
<1>3. Round(l) = [due |-> Standing(active), told |-> Nobody]
  <2>1. l.at = 0 /\ ~l.calling
    OBVIOUS
  <2> HIDE DEF l
  <2>2. Ahead(l) = {j \in 1..Len(active) : ~active[j].marked}
    BY <1>1, <2>1 DEF Ahead
  <2> QED BY <2>1, <2>2 DEF Round, Standing
<1>4. Settled \cap Registered = Standing(active)
  <2>1. \A j \in 1..Len(active) : active[j] \in Records
    BY <1>1, ElementOfSeq
  <2>2. \A j \in 1..Len(pending) : pending[j] \in Records
    BY <1>1, ElementOfSeq
  <2>3. Registered = Standing(active) \cup Standing(pending)
    BY <1>1, RegisteredIs DEF Registered
  <2>4. Settled = {Registration(active[j]) : j \in 1..Len(active)}
    BY SettledIs
  <2>5. \A j \in 1..Len(active), k \in 1..Len(pending) : Registration(active[j]) # Registration(pending[k])
    BY <1>1, <2>1, <2>2, RegistrationIs DEF Apart
  <2>6. Settled \cap Standing(pending) = {}
    BY <2>4, <2>5 DEF Standing
  <2>7. Standing(active) \subseteq Settled
    BY <2>4 DEF Standing
  <2> QED BY <2>3, <2>6, <2>7
<1>5. loops' = Append(loops, l) /\ active' = active /\ pending' = pending /\ ClientRuns
  BY DEF Notify
<1> HIDE DEF l
<1>6. RoundsOf(Append(loops, l)) = Append(RoundsOf(loops), Round(l))
  BY <1>1, <1>2, RoundsAppend
<1>7. RoundsOf(loops)' = Append(RoundsOf(loops), [due |-> Settled \cap Registered, told |-> Nobody])
  BY <1>3, <1>4, <1>5, <1>6, SameRounds
<1>8. Registered' = Registered /\ Settled' = Settled
  BY <1>5, SameRounds DEF Registered
<1>9. R!ClientRuns
  BY <1>5, ClientIs
<1> QED BY <1>7, <1>8, <1>9, RoundsExpand DEF R!Begin, Registered, Settled

\* The innermost round, when its loop goes on.
LEMMA RoundTurns ==
  ASSUME Inv, loops # << >>, NEW l \in Loops, Inside(l, active), loops' = Append(Front(loops), l),
         active' = active
  PROVE  RoundsOf(loops)' = Append(Front(RoundsOf(loops)), Round(l))
<1>1. /\ RoundsOf(Front(loops)) = Front(RoundsOf(loops))
      /\ Front(loops) \in Seq(Loops) /\ \A i \in 1..Len(Front(loops)) : Inside(Front(loops)[i], active)
  BY RoundsFront
<1>2. RoundsOf(Append(Front(loops), l)) = Append(RoundsOf(Front(loops)), Round(l))
  BY <1>1, RoundsAppend
<1> QED BY <1>1, <1>2, SameRounds

LEMMA CallRefines ==
  ASSUME Inv, CallNext
  PROVE  R!Tell
<1> DEFINE c == Last(loops)
           i == First(Ahead(c))
           l == [at |-> i, calling |-> TRUE]
           x == Registration(active[i])
<1>1. loops # << >> /\ ~ClientRuns /\ Ahead(c) # {} /\ ~c.calling
      /\ loops' = Append(Front(loops), l) /\ active' = active /\ pending' = pending
  BY DEF CallNext, ClientRuns
<1>2. c \in Loops /\ Inside(c, active)
  <2>1. Last(loops) = loops[Len(loops)] /\ Len(loops) \in 1..Len(loops) /\ Last(loops) \in Loops
    BY <1>1, LoopIs DEF Inv
  <2> QED BY <2>1 DEF Inv, LoopInv
<1> HIDE DEF c
<1>3. i \in Ahead(c) /\ (\A k \in Ahead(c) : i <= k) /\ i \in 1..Len(active) /\ i \in 1..MaxAdds
  BY <1>1, <1>2, AheadIs
<1> HIDE DEF i
<1>4. l \in Loops /\ Inside(l, active) /\ l.at = i /\ l.calling
  BY <1>3 DEF Loops, Inside
<1>5. /\ active \in Seq(Records) /\ Distinct(active)
      /\ \A j \in 1..Len(active) : active[j] \in Records
  BY ElementOfSeq DEF Inv, ListInv
<1>6. RoundsOf(loops)' = Append(Front(RoundsOf(loops)), Round(l))
  <2> HIDE DEF l
  <2> QED BY <1>1, <1>4, RoundTurns
<1>7. Ahead(l) = Ahead(c) \ {i}
  <2> HIDE DEF l
  <2>1. \A k \in Ahead(c) : k \in Nat
    BY <1>5 DEF Ahead
  <2>2. c.at < i /\ c.at \in Nat /\ i \in Nat
    BY <1>2, <1>3 DEF Ahead, Loops
  <2> QED BY <1>3, <1>4, <1>5, <2>1, <2>2 DEF Ahead
<1>8. \A k \in Ahead(c) : k \in 1..Len(active)
  BY <1>5 DEF Ahead
<1>9. \A k \in Ahead(c) : k # i => Registration(active[k]) # x
  <2> SUFFICES ASSUME NEW k \in Ahead(c), Registration(active[k]) = x PROVE k = i
    OBVIOUS
  <2>1. active[k].id = active[i].id
    BY <1>3, <1>5, <1>8, RegistrationIs
  <2> QED BY <1>3, <1>5, <1>8, <2>1 DEF Distinct
<1>10. x.observer = active[i].observer
  BY <1>3, <1>5, RegistrationIs
<1>11. Round(c).due = {Registration(active[j]) : j \in Ahead(c)}
  BY <1>2, RoundIs
<1>12. x \in Round(c).due
  BY <1>3, <1>11
<1>13. {Registration(active[j]) : j \in Ahead(l)} = Round(c).due \ {x}
  <2> HIDE DEF l, x
  <2> QED BY <1>7, <1>9, <1>11 DEF x
<1> HIDE DEF x
<1>14. Round(l) = [due |-> Round(c).due \ {x}, told |-> x.observer]
  <2> HIDE DEF l
  <2> QED BY <1>4, <1>10, <1>13 DEF Round
<1>15. Last(RoundsOf(loops)) = Round(c)
  BY <1>1, RoundsFront DEF c
<1>16. \E r \in Last(RoundsOf(loops)).due :
          RoundsOf(loops)' = Append(Front(RoundsOf(loops)),
                                    [due |-> Last(RoundsOf(loops)).due \ {r}, told |-> r.observer])
  BY <1>6, <1>12, <1>14, <1>15
<1>17. Registered' = Registered /\ Settled' = Settled
  BY <1>1, SameRounds DEF Registered
<1>18. ~R!ClientRuns
  BY <1>1, ClientIs
<1> QED BY <1>16, <1>17, <1>18, RoundsExpand DEF R!Tell, R!Last, R!Front, Last, Front, Registered, Settled

LEMMA ReturnRefines ==
  ASSUME Inv, Return
  PROVE  R!Answer
<1> DEFINE c == Last(loops)
           l == [c EXCEPT !.calling = FALSE]
<1>1. loops # << >> /\ ClientRuns
      /\ loops' = Append(Front(loops), l) /\ active' = active /\ pending' = pending
  BY DEF Return
<1>2. c \in Loops /\ Inside(c, active)
  <2>1. Last(loops) = loops[Len(loops)] /\ Len(loops) \in 1..Len(loops) /\ Last(loops) \in Loops
    BY <1>1, LoopIs DEF Inv
  <2> QED BY <2>1 DEF Inv, LoopInv
<1> HIDE DEF c
<1>3. l \in Loops /\ Inside(l, active) /\ l.at = c.at /\ ~l.calling
  BY <1>2 DEF Loops, Inside
<1> HIDE DEF l
<1>4. RoundsOf(loops)' = Append(Front(RoundsOf(loops)), Round(l))
  BY <1>1, <1>3, RoundTurns
<1>5. Ahead(l) = Ahead(c)
  BY <1>3 DEF Ahead
<1>6. Round(l) = [Round(c) EXCEPT !.told = Nobody]
  <2> DEFINE d == {Registration(active[j]) : j \in Ahead(c)}
             t == IF c.calling THEN active[c.at].observer ELSE Nobody
  <2>1. Round(c) = [due |-> d, told |-> t]
    BY DEF Round
  <2>2. Round(l) = [due |-> d, told |-> Nobody]
    BY <1>3, <1>5 DEF Round
  <2> HIDE DEF d, t
  <2>3. [[due |-> d, told |-> t] EXCEPT !.told = Nobody] = [due |-> d, told |-> Nobody]
    OBVIOUS
  <2> QED BY <2>1, <2>2, <2>3
<1>7. Last(RoundsOf(loops)) = Round(c)
  BY <1>1, RoundsFront DEF c
<1>8. RoundsOf(loops)' = Append(Front(RoundsOf(loops)), [Last(RoundsOf(loops)) EXCEPT !.told = Nobody])
  BY <1>4, <1>6, <1>7
<1>9. Registered' = Registered /\ Settled' = Settled
  BY <1>1, SameRounds DEF Registered
<1>10. R!ClientRuns /\ RoundsOf(loops) # << >>
  BY <1>1, ClientIs
<1> QED BY <1>8, <1>9, <1>10, RoundsExpand DEF R!Answer, R!Last, R!Front, Last, Front, Registered, Settled

LEMMA FinishRefines ==
  ASSUME Inv, Inv', FinishIteration
  PROVE  R!End
<1> DEFINE c == Last(loops)
<1>1. loops # << >> /\ ~ClientRuns /\ Ahead(c) = {} /\ loops' = Front(loops) /\ iterating' = iterating - 1
  BY DEF FinishIteration, ClientRuns
<1>2. c \in Loops /\ Inside(c, active)
  <2>1. Last(loops) = loops[Len(loops)] /\ Len(loops) \in 1..Len(loops) /\ Last(loops) \in Loops
    BY <1>1, LoopIs DEF Inv
  <2> QED BY <2>1 DEF Inv, LoopInv
<1>3. Last(RoundsOf(loops)) = Round(c)
  BY <1>1, RoundsFront
<1>4. RoundsOf(Front(loops)) = Front(RoundsOf(loops))
  BY <1>1, RoundsFront
<1> HIDE DEF c
<1>5. Last(RoundsOf(loops)).due = {}
  <2>1. Round(c).due = {Registration(active[j]) : j \in Ahead(c)}
    BY <1>2, RoundIs
  <2> QED BY <1>1, <1>3, <2>1
<1>6. /\ active \in Seq(Records) /\ pending \in Seq(Records)
      /\ active' \in Seq(Records) /\ pending' \in Seq(Records)
      /\ iterating \in Nat /\ iterating' \in Nat
  BY DEF Inv, ListInv, LoopInv
<1>7. ~R!ClientRuns
  BY <1>1, ClientIs
<1>8. RoundsOf(loops)' = Front(RoundsOf(loops)) /\ Registered' = Registered
      /\ Settled' = IF RoundsOf(loops)' = << >> THEN Registered ELSE Settled
  <2>1. CASE iterating' > 0
    <3>1. active' = active /\ pending' = pending
      BY <2>1 DEF FinishIteration
    <3>2. loops' # << >> /\ loops' \in Seq(Loops) /\ \A i \in 1..Len(loops') : Inside(loops'[i], active)
      BY <2>1, <3>1 DEF Inv, LoopInv
    <3>3. RoundsOf(loops)' = RoundsOf(loops') /\ Settled' = Settled
      BY <3>1, SameRounds
    <3>4. RoundsOf(loops') # << >>
      BY <3>2, RoundsAre
    <3> QED BY <1>1, <1>4, <3>1, <3>3, <3>4 DEF Registered
  <2>2. CASE ~(iterating' > 0)
    <3>1. iterating' = 0
      BY <1>6, <2>2
    <3>2. loops' = << >>
      <4>1. loops' \in Seq(Loops) /\ Len(loops') = 0
        BY <3>1 DEF Inv, LoopInv
      <4> QED BY <4>1, EmptySeq
    <3>3. RoundsOf(loops)' = << >> /\ RoundsOf(Front(loops)) = << >>
      BY <1>1, <3>2 DEF RoundsOf
    <3> DEFINE a == Swept(active, activeMarked)
               p == Swept(pending, pendingMarked)
               s == a \o p
    <3>4. active' = s /\ pending' = << >>
      BY <2>2 DEF FinishIteration
    <3>5. /\ \A j \in 1..Len(s) : \/ \E k \in 1..Len(active) : ~active[k].marked /\ s[j] = active[k]
                                  \/ \E k \in 1..Len(pending) : ~pending[k].marked /\ s[j] = pending[k]
          /\ \A k \in 1..Len(active) : ~active[k].marked => \E j \in 1..Len(s) : s[j] = active[k]
          /\ \A k \in 1..Len(pending) : ~pending[k].marked => \E j \in 1..Len(s) : s[j] = pending[k]
          /\ Clean(s) /\ s \in Seq(Records)
      BY SweepIs
    <3> HIDE DEF s
    <3>6. Standing(s) = AllOf(s) /\ Standing(<< >>) = {}
      BY <3>5 DEF Standing, AllOf, Clean
    <3>7. AllOf(s) = Standing(active) \cup Standing(pending)
      <4>1. ASSUME NEW y \in AllOf(s) PROVE y \in Standing(active) \cup Standing(pending)
        <5>1. PICK j \in 1..Len(s) : y = Registration(s[j])
          BY DEF AllOf
        <5>2. \/ \E k \in 1..Len(active) : ~active[k].marked /\ s[j] = active[k]
              \/ \E k \in 1..Len(pending) : ~pending[k].marked /\ s[j] = pending[k]
          BY <3>5
        <5> QED BY <5>1, <5>2 DEF Standing
      <4>2. ASSUME NEW y \in Standing(active) PROVE y \in AllOf(s)
        <5>1. PICK k \in 1..Len(active) : ~active[k].marked /\ y = Registration(active[k])
          BY DEF Standing
        <5>2. PICK j \in 1..Len(s) : s[j] = active[k]
          BY <3>5, <5>1
        <5> QED BY <5>1, <5>2 DEF AllOf
      <4>3. ASSUME NEW y \in Standing(pending) PROVE y \in AllOf(s)
        <5>1. PICK k \in 1..Len(pending) : ~pending[k].marked /\ y = Registration(pending[k])
          BY DEF Standing
        <5>2. PICK j \in 1..Len(s) : s[j] = pending[k]
          BY <3>5, <5>1
        <5> QED BY <5>1, <5>2 DEF AllOf
      <4> QED BY <4>1, <4>2, <4>3
    <3>8. Registered = Standing(active) \cup Standing(pending)
      BY <1>6, RegisteredIs DEF Registered
    <3>9. Registered' = Standing(s)
      <4>1. << >> \in Seq(Records)
        OBVIOUS
      <4>2. Unmarked(s \o << >>) = Standing(s) \cup Standing(<< >>)
        BY <3>5, <4>1, RegisteredIs
      <4>3. Registered' = Unmarked(s \o << >>)
        BY <3>4 DEF Registered
      <4> QED BY <3>6, <4>2, <4>3
    <3>10. Settled' = AllOf(s)
      <4>1. Range(s) = {s[j] : j \in 1..Len(s)}
        BY <3>5, RangeEquality
      <4>2. Settled' = {Registration(r) : r \in Range(s)}
        BY <3>4 DEF Settled
      <4> QED BY <4>1, <4>2 DEF AllOf
    <3> QED BY <1>4, <3>3, <3>6, <3>7, <3>8, <3>9, <3>10
  <2> QED BY <2>1, <2>2
<1> QED BY <1>5, <1>7, <1>8, RoundsExpand DEF R!End, R!Last, R!Front, Last, Front, Registered, Settled

\* Both lists are registries, whatever observers do to them while they are
\* notified, for any number of observers, additions and nested notifications.
THEOREM ListsAreRegistries == Spec => ImplementsRegistry
<1>1. Init => R!RegistryInit
  <2> SUFFICES ASSUME Init PROVE R!RegistryInit
    OBVIOUS
  <2>1. << >> \in Seq(Records)
    OBVIOUS
  <2>2. Range(<< >>) = {} /\ Range(<< >> \o << >>) = {}
    BY DEF Range
  <2>3. Registered = {} /\ Settled = {}
    BY <2>2 DEF Init, Registered, Settled, Unmarked
  <2>4. RoundsOf(loops) = << >>
    BY DEF Init, RoundsOf
  <2> QED BY <2>3, <2>4, RoundsExpand DEF R!RegistryInit, Registered, Settled
<1>2. Inv /\ Inv' /\ [Next]_vars => [R!RegistryNext]_(R!registryVars)
  <2> SUFFICES ASSUME Inv, Inv', [Next]_vars PROVE R!RegistryNext \/ UNCHANGED R!registryVars
    OBVIOUS
  <2>1. ASSUME NEW o \in Observers, AddObserver(o) PROVE R!RegistryNext
    BY <2>1, AddRefines DEF R!RegistryNext
  <2>2. ASSUME NEW o \in Observers, RemoveObserver(o) PROVE R!RegistryNext
    BY <2>2, RemoveRefines DEF R!RegistryNext
  <2>3. CASE Notify
    BY <2>3, NotifyRefines DEF R!RegistryNext
  <2>4. CASE CallNext
    BY <2>4, CallRefines DEF R!RegistryNext
  <2>5. CASE Return
    BY <2>5, ReturnRefines DEF R!RegistryNext
  <2>6. CASE FinishIteration
    BY <2>6, FinishRefines DEF R!RegistryNext
  <2>7. CASE UNCHANGED vars
    <3>1. active' = active /\ pending' = pending /\ loops' = loops
      BY <2>7 DEF vars
    <3>2. Registered' = Registered /\ Settled' = Settled /\ RoundsOf(loops)' = RoundsOf(loops)
      BY <3>1, SameRounds DEF Registered
    <3> QED BY <3>2, RoundsExpand DEF R!registryVars, Registered, Settled
  <2> QED BY <2>1, <2>2, <2>3, <2>4, <2>5, <2>6, <2>7 DEF Next
<1> QED BY <1>1, <1>2, Invariance, PTL DEF Spec, ImplementsRegistry, R!RegistrySpec
=============================================================================
