------------------------- MODULE ObjectUpdateProofs -------------------------
(***************************************************************************)
(* Machine-checked proofs, for every tree of objects and every value of    *)
(* the bounds, that no request falls between the walks of ObjectUpdate:    *)
(* requests are known to whoever has to serve them, and all are served     *)
(* when ensureUpToDate() returns.                                          *)
(*                                                                         *)
(* An object's flags are moved, by a walk, from those of the update to     *)
(* those of the report, before the walk comes to its children.  So a child *)
(* that is still to be updated has a parent that will report, and may then *)
(* leave it to that.  UpdateInv says so; ReportInv is its counterpart.     *)
(***************************************************************************)
EXTENDS ObjectUpdate, SequenceTheorems, TLAPS

\* All containers look for both flags of a child, or the child has no children.
Accountable ==
  \A p \in Objects :
    \/ Kind[p] = "group"
    \/ Kind[p] = "tspan" /\ \A c \in Range(Children[p]) : Children[c] = <<>>

\* Walks go to children only, and an update leads to updates only.
WalkInv ==
  \A i \in 1..Len(stack) :
    /\ stack[i].op \in {"update", "modified"} =>
         Range(stack[i].todo) \subseteq Range(Children[stack[i].object])
    /\ stack[i].op = "update" => \A j \in i..Len(stack) : stack[j].op = "update"

LeafInv ==
  \A x \in Objects : Children[x] = <<>> => "child" \notin uflags[x] /\ "child" \notin mflags[x]

UpdateInv ==
  \A x \in Objects \ {Root} : uflags[x] # {} =>
    \/ uflags[Parent(x)] # {}
    \/ /\ ToBeVisited("update", x)
       /\ mflags[Parent(x)] # {} \/ ToBeVisited("modified", x)

ReportInv ==
  \A x \in Objects \ {Root} : mflags[x] # {} =>
    \/ mflags[Parent(x)] # {} \/ uflags[Parent(x)] # {}
    \/ ToBeVisited("modified", x)

\* The idle handler that is under way may have been disconnected.
ScheduleInv ==
  ~RootClean => idle \/ gaveUp \/ \E i \in 1..Len(stack) : stack[i].op = "ensure"

Inv == TypeOK /\ WalkInv /\ LeafInv /\ UpdateInv /\ ReportInv /\ ScheduleInv

Frames == Walks \cup DocumentCalls

-----------------------------------------------------------------------------
(* Sequences.                                                              *)

LEMMA TopFacts ==
  ASSUME NEW S, NEW s \in Seq(S), s # <<>>
  PROVE  /\ Len(s) \in Nat /\ Len(s) > 0
         /\ Last(s) = s[Len(s)] /\ Last(s) \in S
         /\ Front(s) \in Seq(S) /\ Len(Front(s)) = Len(s) - 1
         /\ \A i \in 1..(Len(s) - 1) : Front(s)[i] = s[i]
<1>1. Len(s) \in Nat /\ Len(s) > 0
  OBVIOUS
<1>2. Last(s) = s[Len(s)] /\ Front(s) = SubSeq(s, 1, Len(s) - 1)
  BY DEF Last, Front
<1>3. s[Len(s)] \in S
  BY <1>1
<1>4. /\ SubSeq(s, 1, Len(s) - 1) \in Seq(S) /\ Len(SubSeq(s, 1, Len(s) - 1)) = Len(s) - 1
      /\ \A i \in 1..(Len(s) - 1) : SubSeq(s, 1, Len(s) - 1)[i] = s[i]
  <2>1. Len(s) - 1 \in Int /\ 1 \in Int /\ \A i \in 1..(Len(s) - 1) : s[i] \in S
    BY <1>1
  <2> DEFINE n == Len(s) - 1
  <2>2. /\ SubSeq(s, 1, n) \in Seq(S)
        /\ Len(SubSeq(s, 1, n)) = IF 1 <= n THEN n - 1 + 1 ELSE 0
        /\ \A i \in 1..(n - 1 + 1) : SubSeq(s, 1, n)[i] = s[1 + i - 1]
    <3> HIDE DEF n
    <3> QED BY <2>1, SubSeqProperties DEF n
  <2>3. n \in Nat /\ \A i \in 1..n : 1 + i - 1 = i
    BY <1>1
  <2>4. (n - 1) + 1 = n
    BY <2>3
  <2> HIDE DEF n
  <2>5. Len(SubSeq(s, 1, n)) = n
    BY <2>2, <2>3, <2>4
  <2>6. \A i \in 1..n : SubSeq(s, 1, n)[i] = s[i]
    BY <2>2, <2>3, <2>4
  <2> QED BY <2>2, <2>5, <2>6 DEF n
<1> QED BY <1>1, <1>2, <1>3, <1>4

\* The last of s is replaced, and followed by h.
Replaced(s, g, h) == Append(Front(s), g) \o h

LEMMA ReplacedTop ==
  ASSUME NEW S, NEW s \in Seq(S), NEW g \in S, NEW h \in Seq(S), s # <<>>
  PROVE  /\ Replaced(s, g, h) \in Seq(S) /\ Len(Replaced(s, g, h)) = Len(s) + Len(h)
         /\ \A i \in 1..(Len(s) - 1) : Replaced(s, g, h)[i] = s[i]
         /\ Replaced(s, g, h)[Len(s)] = g
         /\ h # <<>> => Replaced(s, g, h)[Len(s) + 1] = h[1]
<1>1. /\ Len(s) \in Nat /\ Len(s) > 0
      /\ Front(s) \in Seq(S) /\ Len(Front(s)) = Len(s) - 1
      /\ \A i \in 1..(Len(s) - 1) : Front(s)[i] = s[i]
  BY TopFacts
<1> DEFINE a == Append(Front(s), g)
           t == Replaced(s, g, h)
<1>2. /\ a \in Seq(S) /\ Len(a) = Len(s) /\ a[Len(s)] = g
      /\ \A i \in 1..(Len(s) - 1) : a[i] = s[i]
  BY <1>1
<1> HIDE DEF a
<1>3. t = a \o h
  BY DEF a, Replaced
<1> HIDE DEF t
<1>4. Len(h) \in Nat
  OBVIOUS
<1>5. t \in Seq(S) /\ Len(t) = Len(a) + Len(h)
  BY <1>2, <1>3, ConcatProperties
<1>6. /\ \A i \in 1..Len(a) : t[i] = a[i]
      /\ \A i \in 1..Len(h) : t[Len(a) + i] = h[i]
  <2>1. /\ Len(a) \in Nat
        /\ \A i \in 1..(Len(a) + Len(h)) : t[i] = IF i <= Len(a) THEN a[i] ELSE h[i - Len(a)]
    BY <1>2, <1>3, ConcatProperties
  <2>2. ASSUME NEW i \in 1..Len(a) PROVE t[i] = a[i]
    <3>1. i \in 1..(Len(a) + Len(h)) /\ i <= Len(a)
      BY <1>4, <2>1
    <3> QED BY <2>1, <3>1
  <2>3. ASSUME NEW i \in 1..Len(h) PROVE t[Len(a) + i] = h[i]
    <3>1. Len(a) + i \in 1..(Len(a) + Len(h)) /\ ~(Len(a) + i <= Len(a)) /\ (Len(a) + i) - Len(a) = i
      BY <1>4, <2>1
    <3> QED BY <2>1, <3>1
  <2> QED BY <2>2, <2>3
<1>7. h # <<>> => 1 \in 1..Len(h)
  BY <1>4, EmptySeq
<1> QED BY <1>1, <1>2, <1>4, <1>5, <1>6, <1>7 DEF t

LEMMA AtMostOne ==
  ASSUME NEW S, NEW s \in Seq(S), Len(s) <= 1
  PROVE  \/ s = <<>> /\ Len(s) = 0
         \/ s # <<>> /\ Len(s) = 1 /\ 1 \in 1..Len(s) /\ s[1] \in S
<1>1. Len(s) \in Nat /\ (s # <<>> => Len(s) \in Nat \ {0}) /\ (s = <<>> => Len(s) = 0)
  BY LenProperties, EmptySeq
<1>2. Len(s) = 1 => 1 \in 1..Len(s) /\ s[1] \in S
  BY ElementOfSeq
<1>3. Len(s) = 0 \/ Len(s) = 1
  <2>1. \A n \in Nat : n <= 1 => n = 0 \/ n = 1
    OBVIOUS
  <2>2. Len(s) \in Nat /\ Len(s) <= 1
    BY <1>1
  <2> QED BY <2>1, <2>2, Zenon
<1> QED BY <1>1, <1>2, <1>3

LEMMA HeadTail ==
  ASSUME NEW S, NEW s \in Seq(S), s # <<>>
  PROVE  /\ Head(s) \in S /\ Tail(s) \in Seq(S)
         /\ Head(s) \in Range(s)
         /\ \A x \in Range(s) : x = Head(s) \/ x \in Range(Tail(s))
         /\ Range(Tail(s)) \subseteq Range(s)
<1>1. /\ Len(s) \in Nat \ {0} /\ Head(s) = s[1] /\ Head(s) \in S
      /\ Tail(s) \in Seq(S) /\ Len(Tail(s)) = Len(s) - 1
      /\ \A i \in 1..(Len(s) - 1) : Tail(s)[i] = s[i + 1]
  BY HeadTailProperties, EmptySeq
<1>2. /\ Range(s) = {s[i] : i \in 1..Len(s)}
      /\ Range(Tail(s)) = {Tail(s)[i] : i \in 1..Len(Tail(s))}
  BY <1>1, RangeEquality
<1>3. ASSUME NEW i \in 1..Len(s), i # 1 PROVE s[i] \in Range(Tail(s))
  <2>1. i - 1 \in 1..(Len(s) - 1) /\ (i - 1) + 1 = i
    BY <1>1, <1>3
  <2>2. Tail(s)[i - 1] = s[i]
    BY <1>1, <2>1
  <2> QED BY <1>1, <1>2, <2>1, <2>2
<1>4. Head(s) \in Range(s) /\ \A x \in Range(s) : x = Head(s) \/ x \in Range(Tail(s))
  BY <1>1, <1>2, <1>3
<1>5. \A i \in 1..(Len(s) - 1) : i + 1 \in 1..Len(s)
  BY <1>1
<1>6. Range(Tail(s)) \subseteq Range(s)
  BY <1>1, <1>2, <1>5
<1> QED BY <1>1, <1>4, <1>6

USE TreeAssumption, BoundsAssumption

-----------------------------------------------------------------------------
(* The tree.                                                               *)

LEMMA ParentType ==
  ASSUME NEW x \in Objects \ {Root}
  PROVE  Parent(x) \in Objects /\ x \in Range(Children[Parent(x)])
<1> QED BY DEF Parent

LEMMA AboveFacts ==
  ASSUME NEW x \in Objects
  PROVE  /\ x \in Above[x]
         /\ Above[x] \subseteq Objects
         /\ \A y \in Above[x] \ {Root} : Parent(y) \in Above[x]
         /\ \A S \in SUBSET Objects : x \in S /\ Upwards(S) => Above[x] \subseteq S
<1>1. Above[x] = {y \in Objects : \A S \in SUBSET Objects : x \in S /\ Upwards(S) => y \in S}
  BY DEF Above
<1>2. ASSUME NEW y \in Above[x] \ {Root}
      PROVE  Parent(y) \in Above[x]
  <2>1. Parent(y) \in Objects
    BY <1>1, ParentType
  <2>2. ASSUME NEW S \in SUBSET Objects, x \in S, Upwards(S)
        PROVE  Parent(y) \in S
    BY <1>1, <2>2 DEF Upwards
  <2> QED BY <1>1, <2>1, <2>2
<1> QED BY <1>1, <1>2

\* What is above the parent of an object is above the object.
LEMMA AboveParent ==
  ASSUME NEW x \in Objects, NEW y \in Above[x] \ {Root}
  PROVE  /\ Parent(y) \in Above[x]
         /\ Above[y] \subseteq {y} \cup Above[Parent(y)]
<1>1. y \in Objects /\ Parent(y) \in Objects /\ Parent(y) \in Above[x]
  BY AboveFacts, ParentType
<1> DEFINE S == {y} \cup Above[Parent(y)]
<1>2. S \subseteq Objects /\ Upwards(S)
  BY <1>1, AboveFacts DEF Upwards
<1>3. Above[y] \subseteq S
  BY <1>1, <1>2, AboveFacts
<1> QED BY <1>1, <1>3

LEMMA AboveRoot == Above[Root] = {Root}
<1>1. Upwards({Root})
  BY DEF Upwards
<1>2. Root \in Above[Root] /\ {Root} \in SUBSET Objects
  OBVIOUS
<1>3. Above[Root] \subseteq {Root}
  BY <1>1, <1>2, AboveFacts
<1> QED BY <1>2, <1>3

\* Whoever is above another object has a child.
LEMMA AboveHasChildren ==
  ASSUME NEW x \in Objects, NEW y \in Above[x], y # x
  PROVE  Children[y] # <<>>
<1> DEFINE S == {x} \cup {z \in Objects : Children[z] # <<>>}
<1>1. S \subseteq Objects
  OBVIOUS
<1>2. ASSUME NEW z \in S \ {Root} PROVE Parent(z) \in S
  <2>1. Parent(z) \in Objects /\ z \in Range(Children[Parent(z)])
    BY <1>1, ParentType
  <2>2. Children[Parent(z)] # <<>>
    BY <2>1 DEF Range
  <2> QED BY <2>1, <2>2
<1>3. Upwards(S)
  BY <1>2 DEF Upwards
<1>4. Above[x] \subseteq S
  BY <1>1, <1>3, AboveFacts
<1> QED BY <1>4

-----------------------------------------------------------------------------
(* Requests.                                                               *)

\* A request for x leaves everyone with flags below a parent with flags, if it
\* was so before, and flags the root anew only if it reaches it.
LEMMA RequestedEffect ==
  ASSUME NEW f \in [Objects -> SUBSET Own], NEW x \in Objects,
         NEW g, g = Requested(f, x, {"modified"})
  PROVE  /\ g \in [Objects -> SUBSET Own]
         /\ \A y \in Objects : f[y] \subseteq g[y]
         /\ \A y \in Objects \ {Root} : g[y] # {} => f[y] # {} \/ g[Parent(y)] # {}
         /\ \A y \in Objects : Children[y] = <<>> /\ "child" \in g[y] => "child" \in f[y]
         /\ f[Root] = {} /\ g[Root] # {} => Reaches(f, x)
<1>0. \A y \in Objects : f[y] \subseteq Own /\ (Flagged(f, y) <=> f[y] # {})
  BY DEF Flagged
<1> DEFINE Passes(y) == y \in Above[x] /\ \A z \in Above[x] \ Above[y] : f[z] = {}
<1>1. \A y \in Objects : g[y] = IF y = x THEN f[y] \cup {"modified"}
                               ELSE IF Passes(y) THEN f[y] \cup {"child"} ELSE f[y]
  BY <1>0, AboveFacts DEF Requested
<1>2. g \in [Objects -> SUBSET Own]
  BY <1>0, <1>1 DEF Requested, Own
<1>3. \A y \in Objects : f[y] \subseteq g[y]
  BY <1>1
<1>4. ASSUME NEW y \in Objects \ {Root}, g[y] # {}, f[y] = {}
      PROVE  g[Parent(y)] # {}
  <2>1. y \in Above[x] /\ \A z \in Above[x] \ Above[y] : f[z] = {}
    BY <1>1, <1>4, AboveFacts
  <2>2. Parent(y) \in Above[x] /\ Above[y] \subseteq {y} \cup Above[Parent(y)]
    BY <2>1, AboveParent
  <2>3. Passes(Parent(y))
    BY <1>4, <2>1, <2>2
  <2>4. Parent(y) \in Objects
    BY ParentType
  <2> HIDE DEF Passes
  <2> QED BY <1>1, <2>3, <2>4
<1>5. ASSUME NEW y \in Objects, Children[y] = <<>>, "child" \in g[y]
      PROVE  "child" \in f[y]
  <2>1. ~Passes(y) \/ y = x
    BY <1>5, AboveHasChildren
  <2> HIDE DEF Passes
  <2>2. g[y] = f[y] \cup {"modified"} \/ g[y] = f[y]
    BY <1>1, <2>1
  <2>3. "child" # "modified"
    OBVIOUS
  <2> QED BY <1>5, <2>2, <2>3
<1>6. ASSUME f[Root] = {}, g[Root] # {} PROVE Reaches(f, x)
  <2>1. CASE x = Root
    BY <1>0, <1>6, <2>1, AboveRoot DEF Reaches
  <2>2. CASE x # Root
    <3>1. Passes(Root)
      BY <1>1, <1>6, <2>2
    <3> QED BY <1>0, <1>6, <3>1, AboveRoot, AboveFacts DEF Reaches
  <2> QED BY <2>1, <2>2
<1> QED BY <1>2, <1>3, <1>4, <1>5, <1>6

-----------------------------------------------------------------------------
(* The stack of calls.                                                     *)

\* x is still to be come to by the innermost call.
ByTop(op, x) == Top.op = op /\ Top.object = Parent(x) /\ x \in Range(Top.todo)

Ensuring == \E i \in 1..Len(stack) : stack[i].op = "ensure"

LEMMA TopType ==
  ASSUME TypeOK, stack # <<>>
  PROVE  /\ Len(stack) \in Nat /\ Len(stack) > 0
         /\ DOMAIN stack = 1..Len(stack)
         /\ Top = stack[Len(stack)] /\ Top \in Frames
         /\ Front(stack) \in Seq(Frames) /\ Len(Front(stack)) = Len(stack) - 1
         /\ \A i \in 1..(Len(stack) - 1) : Front(stack)[i] = stack[i]
<1>1. stack \in Seq(Frames)
  BY DEF TypeOK, Frames
<1> QED BY <1>1, TopFacts, LenProperties DEF Top

LEMMA WalkTop ==
  ASSUME TypeOK, stack # <<>>, Top.op \in {"update", "modified"}
  PROVE  /\ Top \in Walks
         /\ Top.object \in Objects /\ Top.flags \in SUBSET Flags /\ Top.todo \in Seq(Objects)
<1>1. Top \in Frames
  BY TopType
<1>2. Top \in Walks
  BY <1>1 DEF Frames, DocumentCalls, Walks
<1> QED BY <1>2 DEF Walks

\* Only calls of updateDisplay() are inside one another.
LEMMA NoUpdates ==
  ASSUME TypeOK, WalkInv, stack # <<>> => Top.op # "update", NEW x
  PROVE  ~ToBeVisited("update", x)
<1>1. CASE stack = <<>>
  BY <1>1 DEF ToBeVisited
<1>2. CASE stack # <<>>
  <2>1. \A i \in 1..Len(stack) : Len(stack) \in i..Len(stack)
    BY <1>2, TopType
  <2>2. \A i \in 1..Len(stack) : stack[i].op # "update"
    BY <1>2, <2>1, TopType DEF WalkInv
  <2> QED BY <1>2, <2>2, TopType DEF ToBeVisited
<1> QED BY <1>1, <1>2

\* The innermost call goes on as g, and may make a call h.
LEMMA StackChange ==
  ASSUME TypeOK, WalkInv, stack # <<>>,
         NEW g \in Frames, g.op = Top.op,
         g.op \in {"update", "modified"} =>
           g.object = Top.object /\ Range(g.todo) \subseteq Range(Top.todo),
         NEW h \in Seq(Walks), Len(h) <= 1,
         h # <<>> => /\ Range(h[1].todo) \subseteq Range(Children[h[1].object])
                     /\ IF h[1].op = "update" THEN Top.op # "modified" ELSE Top.op # "update",
         Becomes(g, h)
  PROVE  /\ stack' \in Seq(Frames)
         /\ WalkInv'
         /\ Ensuring => Ensuring'
         /\ \A op \in {"update", "modified"} : \A x : ToBeVisited(op, x) /\ (ByTop(op, x) => x \in Range(g.todo))
                         => ToBeVisited(op, x)'
         /\ \A x : h # <<>> /\ Parent(x) = h[1].object /\ x \in Range(h[1].todo)
                     => ToBeVisited(h[1].op, x)'
<1> DEFINE n == Len(stack)
<1>1. /\ stack \in Seq(Frames) /\ h \in Seq(Frames) /\ Len(h) \in Nat
      /\ n \in Nat /\ n > 0 /\ Top = stack[n] /\ DOMAIN stack = 1..n
  <2>1. stack \in Seq(Frames) /\ h \in Seq(Frames)
    BY SeqMonotonic DEF TypeOK, Frames
  <2> QED BY <2>1, TopType
<1>2. /\ stack' \in Seq(Frames) /\ Len(stack') = n + Len(h)
      /\ \A i \in 1..(n - 1) : stack'[i] = stack[i]
      /\ stack'[n] = g
      /\ h # <<>> => stack'[n + 1] = h[1]
  <2>1. stack' = Replaced(stack, g, h)
    BY DEF Becomes, Replaced
  <2>2. stack \in Seq(Frames) /\ g \in Frames /\ h \in Seq(Frames) /\ stack # <<>>
    BY <1>1
  <2> HIDE DEF n
  <2>3. /\ stack' \in Seq(Frames) /\ Len(stack') = Len(stack) + Len(h)
        /\ \A i \in 1..(Len(stack) - 1) : stack'[i] = stack[i]
        /\ stack'[Len(stack)] = g
        /\ h # <<>> => stack'[Len(stack) + 1] = h[1]
    <3>1. Replaced(stack, g, h) \in Seq(Frames)
      BY <2>2, ReplacedTop
    <3>2. Len(Replaced(stack, g, h)) = Len(stack) + Len(h)
      BY <2>2, ReplacedTop
    <3>3. \A i \in 1..(Len(stack) - 1) : Replaced(stack, g, h)[i] = stack[i]
      BY <2>2, ReplacedTop
    <3>4. Replaced(stack, g, h)[Len(stack)] = g
      BY <2>2, ReplacedTop
    <3>5. h # <<>> => Replaced(stack, g, h)[Len(stack) + 1] = h[1]
      BY <2>2, ReplacedTop
    <3> QED BY <2>1, <3>1, <3>2, <3>3, <3>4, <3>5
  <2> QED BY <2>3 DEF n
<1>3. DOMAIN stack' = 1..Len(stack')
  BY <1>2, LenProperties
<1> HIDE DEF n
<1>4. \A i \in 1..Len(stack') : i \in 1..(n - 1) \/ i = n \/ (i = n + 1 /\ Len(h) = 1)
  <2>1. Len(h) = 0 \/ Len(h) = 1
    BY AtMostOne
  <2>2. Len(stack') = n \/ (Len(h) = 1 /\ Len(stack') = n + 1)
    BY <1>1, <1>2, <2>1
  <2> QED BY <1>1, <2>2
<1>5. Len(h) = 1 => h # <<>> /\ stack'[n + 1] = h[1] /\ h[1] \in Walks
  <2>1. Len(h) = 1 => h # <<>> /\ 1 \in 1..Len(h) /\ h[1] \in Walks
    <3>1. \/ h = <<>> /\ Len(h) = 0
          \/ h # <<>> /\ Len(h) = 1 /\ 1 \in 1..Len(h) /\ h[1] \in Walks
      BY AtMostOne, Zenon
    <3> QED BY <3>1
  <2> QED BY <1>2, <2>1
<1>6. h # <<>> => Len(h) = 1
  BY AtMostOne
<1>7. 1..(n - 1) \subseteq 1..n /\ n \in 1..n /\ n \in 1..Len(stack') /\ 1..n \subseteq 1..Len(stack')
  BY <1>1, <1>2
<1>8. \A i \in 1..n : stack'[i].op = stack[i].op
  <2>1. \A i \in 1..n : i \in 1..(n - 1) \/ i = n
    BY <1>1
  <2> QED BY <1>1, <1>2, <2>1
<1>9. WalkInv'
  <2>1. ASSUME NEW i \in 1..Len(stack'), stack'[i].op \in {"update", "modified"}
        PROVE  Range(stack'[i].todo) \subseteq Range(Children[stack'[i].object])
    <3>1. CASE i \in 1..(n - 1)
      BY <1>2, <1>7, <2>1, <3>1 DEF WalkInv, n
    <3>2. CASE i = n
      <4>1. Top.op \in {"update", "modified"} =>
              Range(Top.todo) \subseteq Range(Children[Top.object])
        BY <1>1, <1>7 DEF WalkInv, n
      <4> QED BY <1>2, <2>1, <3>2, <4>1
    <3>3. CASE i = n + 1 /\ Len(h) = 1
      BY <1>5, <3>3
    <3> QED BY <1>4, <3>1, <3>2, <3>3
  <2>2. ASSUME NEW i \in 1..Len(stack'), stack'[i].op = "update", NEW j \in i..Len(stack')
        PROVE  stack'[j].op = "update"
    <3>1. CASE i \in 1..n
      <4>1. stack[i].op = "update"
        BY <1>8, <2>2, <3>1
      <4>2. \A k \in i..n : stack[k].op = "update"
        BY <3>1, <4>1 DEF WalkInv, n
      <4>3. n \in i..n
        BY <1>1, <3>1
      <4>4. Top.op = "update"
        BY <1>1, <4>2, <4>3
      <4>5. CASE j \in 1..n
        <5>1. j \in i..n
          BY <1>1, <3>1, <4>5
        <5> QED BY <1>8, <4>2, <4>5, <5>1
      <4>6. CASE j = n + 1 /\ Len(h) = 1
        <5>1. h[1].op \in {"update", "modified"}
          BY <1>5, <4>6 DEF Walks
        <5> QED BY <1>5, <4>4, <4>6, <5>1
      <4>7. j \in 1..Len(stack')
        BY <1>1, <1>2
      <4> QED BY <1>4, <1>7, <4>5, <4>6, <4>7
    <3>2. CASE i = n + 1 /\ Len(h) = 1
      <4>1. j = i
        BY <1>1, <1>2, <3>2
      <4> QED BY <2>2, <4>1
    <3> QED BY <1>4, <1>7, <3>1, <3>2
  <2> QED BY <2>1, <2>2 DEF WalkInv
<1>10. Ensuring => Ensuring'
  BY <1>7, <1>8 DEF Ensuring, n
<1>11. ASSUME NEW op \in {"update", "modified"}, NEW x, ToBeVisited(op, x), ByTop(op, x) => x \in Range(g.todo)
       PROVE  ToBeVisited(op, x)'
  <2>1. PICK i \in 1..n : stack[i].op = op /\ stack[i].object = Parent(x) /\ x \in Range(stack[i].todo)
    BY <1>1, <1>11 DEF ToBeVisited
  <2>2. CASE i \in 1..(n - 1)
    BY <1>2, <1>3, <1>7, <2>1, <2>2 DEF ToBeVisited
  <2>3. CASE i = n
    <3>1. ByTop(op, x)
      BY <1>1, <2>1, <2>3 DEF ByTop
    <3>2. g.object = Top.object /\ g.op = op /\ x \in Range(g.todo)
      BY <1>11, <3>1 DEF ByTop
    <3> QED BY <1>1, <1>2, <1>3, <1>7, <2>1, <2>3, <3>2 DEF ToBeVisited
  <2>4. i \in 1..(n - 1) \/ i = n
    BY <1>1
  <2> QED BY <2>2, <2>3, <2>4
<1>12. ASSUME NEW x, h # <<>>, Parent(x) = h[1].object, x \in Range(h[1].todo)
       PROVE  ToBeVisited(h[1].op, x)'
  <2>1. n + 1 \in DOMAIN stack' /\ stack'[n + 1] = h[1]
    BY <1>1, <1>2, <1>3, <1>5, <1>6, <1>12
  <2> QED BY <1>12, <2>1 DEF ToBeVisited
<1> QED BY <1>2, <1>9, <1>10, <1>11, <1>12

\* The innermost call returns.
LEMMA StackReturn ==
  ASSUME TypeOK, WalkInv, stack # <<>>,
         Top.op \in {"update", "modified"} => Top.todo = <<>>,
         stack' = Front(stack)
  PROVE  /\ stack' \in Seq(Frames)
         /\ WalkInv'
         /\ Ensuring /\ Top.op # "ensure" => Ensuring'
         /\ \A op \in {"update", "modified"} : \A x : ToBeVisited(op, x) => ToBeVisited(op, x)'
<1> DEFINE n == Len(stack)
<1>1. /\ n \in Nat /\ n > 0 /\ Top = stack[n] /\ DOMAIN stack = 1..n
      /\ stack' \in Seq(Frames) /\ Len(stack') = n - 1
      /\ \A i \in 1..(n - 1) : stack'[i] = stack[i]
  BY TopType
<1>2. DOMAIN stack' = 1..(n - 1)
  BY <1>1, LenProperties
<1> HIDE DEF n
<1>3. 1..(n - 1) \subseteq 1..n /\ \A i \in 1..n : i \in 1..(n - 1) \/ i = n
  BY <1>1
<1>4. WalkInv'
  <2>1. ASSUME NEW i \in 1..(n - 1), stack'[i].op \in {"update", "modified"}
        PROVE  Range(stack'[i].todo) \subseteq Range(Children[stack'[i].object])
    BY <1>1, <1>3, <2>1 DEF WalkInv, n
  <2>2. ASSUME NEW i \in 1..(n - 1), stack'[i].op = "update", NEW j \in i..(n - 1)
        PROVE  stack'[j].op = "update"
    <3>1. j \in i..n /\ j \in 1..(n - 1) /\ i \in 1..n
      BY <1>1
    <3>2. stack[i].op = "update"
      BY <1>1, <2>2
    <3>3. stack[j].op = "update"
      BY <3>1, <3>2 DEF WalkInv, n
    <3> QED BY <1>1, <3>1, <3>3
  <2> QED BY <1>1, <2>1, <2>2 DEF WalkInv
<1>5. ASSUME Ensuring, Top.op # "ensure" PROVE Ensuring'
  <2>1. PICK i \in 1..n : stack[i].op = "ensure"
    BY <1>5 DEF Ensuring, n
  <2>2. i \in 1..(n - 1)
    BY <1>1, <1>3, <1>5, <2>1
  <2> QED BY <1>1, <2>1, <2>2 DEF Ensuring
<1>6. ASSUME NEW op \in {"update", "modified"}, NEW x, ToBeVisited(op, x)
      PROVE  ToBeVisited(op, x)'
  <2>1. PICK i \in 1..n : stack[i].op = op /\ stack[i].object = Parent(x) /\ x \in Range(stack[i].todo)
    BY <1>1, <1>6 DEF ToBeVisited
  <2>2. i # n
    <3>1. Range(<<>>) = {}
      BY DEF Range
    <3> QED BY <1>1, <2>1, <3>1
  <2>3. i \in 1..(n - 1)
    BY <1>3, <2>2
  <2> QED BY <1>1, <1>2, <2>1, <2>3 DEF ToBeVisited
<1> QED BY <1>1, <1>4, <1>5, <1>6

\* The document is called, from outside or by who is told of a modification.
LEMMA StackCall ==
  ASSUME TypeOK, WalkInv, stack # <<>> => Top.op # "update",
         NEW c \in DocumentCalls, stack' = Append(stack, c)
  PROVE  /\ stack' \in Seq(Frames)
         /\ WalkInv'
         /\ Ensuring => Ensuring'
         /\ c.op = "ensure" => Ensuring'
         /\ \A op, x : ToBeVisited(op, x) => ToBeVisited(op, x)'
<1> DEFINE n == Len(stack)
<1>1. stack \in Seq(Frames) /\ c \in Frames
  BY DEF TypeOK, Frames
<1>2. /\ n \in Nat /\ DOMAIN stack = 1..n
      /\ stack' \in Seq(Frames) /\ Len(stack') = n + 1
      /\ \A i \in 1..n : stack'[i] = stack[i]
      /\ stack'[n + 1] = c
  BY <1>1, AppendProperties, LenProperties
<1>3. DOMAIN stack' = 1..(n + 1)
  BY <1>2, LenProperties
<1>4. \A i \in 1..n : stack[i].op # "update"
  <2>1. CASE stack = <<>>
    <3>1. n = 0
      BY <2>1
    <3> QED BY <3>1
  <2>2. CASE stack # <<>>
    <3>1. \A i \in 1..n : n \in i..n
      BY <1>2
    <3>2. Top = stack[n]
      BY <2>2, TopType
    <3> QED BY <2>2, <3>1, <3>2 DEF WalkInv
  <2> QED BY <2>1, <2>2
<1> HIDE DEF n
<1>5. /\ 1..n \subseteq 1..(n + 1) /\ n + 1 \in 1..(n + 1)
      /\ \A i \in 1..(n + 1) : i \in 1..n \/ i = n + 1
  BY <1>2
<1>6. c.op \in {"idle", "ensure"}
  BY DEF DocumentCalls
<1>7. WalkInv'
  <2>1. ASSUME NEW i \in 1..(n + 1), stack'[i].op \in {"update", "modified"}
        PROVE  /\ Range(stack'[i].todo) \subseteq Range(Children[stack'[i].object])
               /\ stack'[i].op # "update"
    <3>1. i \in 1..n /\ stack'[i] = stack[i]
      BY <1>2, <1>5, <1>6, <2>1
    <3> QED BY <1>4, <2>1, <3>1 DEF WalkInv, n
  <2> QED BY <1>2, <2>1 DEF WalkInv
<1>8. (Ensuring => Ensuring') /\ (c.op = "ensure" => Ensuring')
  BY <1>2, <1>5 DEF Ensuring, n
<1>9. ASSUME NEW op, NEW x, ToBeVisited(op, x) PROVE ToBeVisited(op, x)'
  BY <1>2, <1>3, <1>5, <1>9 DEF ToBeVisited
<1> QED BY <1>2, <1>7, <1>8, <1>9

\* A walk looks at the first child it has to come to, and may go into it.
LEMMA Visit ==
  ASSUME TypeOK, WalkInv, stack # <<>>, NEW op \in {"update", "modified"},
         Top.op = op, Top.todo # <<>>, NEW fl \in SUBSET Flags,
         NEW c, c = Head(Top.todo), NEW h, h = <<>> \/ h = <<Walk(op, c, fl)>>,
         Becomes([Top EXCEPT !.todo = Tail(@)], h)
  PROVE  /\ Top \in Walks /\ c \in Objects /\ c \in Range(Children[Top.object])
         /\ stack' \in Seq(Frames)
         /\ WalkInv'
         /\ Ensuring => Ensuring'
         /\ \A o \in {"update", "modified"} : \A x :
              ToBeVisited(o, x) /\ (o # op \/ x # c) => ToBeVisited(o, x)'
         /\ \A x \in Objects \ {Root} : h # <<>> /\ Parent(x) = c => ToBeVisited(op, x)'
<1>1. Top \in Walks /\ Top.object \in Objects /\ Top.todo \in Seq(Objects)
  BY WalkTop
<1>2. /\ c \in Objects /\ Tail(Top.todo) \in Seq(Objects)
      /\ c \in Range(Top.todo)
      /\ \A x \in Range(Top.todo) : x = c \/ x \in Range(Tail(Top.todo))
      /\ Range(Tail(Top.todo)) \subseteq Range(Top.todo)
  BY <1>1, HeadTail
<1>3. c \in Range(Children[Top.object])
  <2>1. Len(stack) \in 1..Len(stack) /\ Top = stack[Len(stack)]
    BY TopType
  <2>2. Range(Top.todo) \subseteq Range(Children[Top.object])
    BY <2>1 DEF WalkInv
  <2> QED BY <1>2, <2>2
<1> DEFINE g == [Top EXCEPT !.todo = Tail(@)]
<1>4. /\ g \in Walks /\ g \in Frames /\ g.op = Top.op /\ g.object = Top.object
      /\ g.todo = Tail(Top.todo)
  BY <1>1, <1>2 DEF Walks, Frames
<1> DEFINE w == Walk(op, c, fl)
<1>5. w \in Walks /\ w.op = op /\ w.object = c /\ w.todo = Children[c]
  BY <1>2 DEF Walk, Walks
<1> HIDE DEF g, w
<1>6. /\ h \in Seq(Walks) /\ Len(h) <= 1
      /\ h # <<>> => h[1] = w
  <2>1. CASE h = <<>>
    BY <2>1, EmptySeq
  <2>2. CASE h = <<w>>
    BY <1>5, <2>2
  <2> QED BY <2>1, <2>2 DEF w
<1>7. /\ stack' \in Seq(Frames)
      /\ WalkInv'
      /\ Ensuring => Ensuring'
      /\ \A o \in {"update", "modified"} : \A x : ToBeVisited(o, x) /\ (ByTop(o, x) => x \in Range(g.todo))
                      => ToBeVisited(o, x)'
      /\ \A x : h # <<>> /\ Parent(x) = h[1].object /\ x \in Range(h[1].todo)
                  => ToBeVisited(h[1].op, x)'
  <2>1. g.op \in {"update", "modified"} =>
           g.object = Top.object /\ Range(g.todo) \subseteq Range(Top.todo)
    BY <1>2, <1>4
  <2>2. h # <<>> => /\ Range(h[1].todo) \subseteq Range(Children[h[1].object])
                    /\ IF h[1].op = "update" THEN Top.op # "modified" ELSE Top.op # "update"
    BY <1>5, <1>6
  <2>3. Becomes(g, h)
    BY DEF g
  <2> QED BY <1>4, <1>6, <2>1, <2>2, <2>3, StackChange
<1>8. ASSUME NEW o \in {"update", "modified"}, NEW x, ToBeVisited(o, x), o # op \/ x # c
      PROVE  ToBeVisited(o, x)'
  <2>1. ByTop(o, x) => x \in Range(g.todo)
    BY <1>2, <1>4, <1>8 DEF ByTop
  <2> QED BY <1>7, <1>8, <2>1
<1>9. ASSUME NEW x \in Objects \ {Root}, h # <<>>, Parent(x) = c
      PROVE  ToBeVisited(op, x)'
  <2>1. x \in Range(Children[c])
    BY <1>9, ParentType
  <2> QED BY <1>5, <1>6, <1>7, <1>9, <2>1
<1> QED BY <1>1, <1>2, <1>3, <1>7, <1>8, <1>9

\* Whom a walk does not go into has no flags.
LEMMA PassedOver ==
  ASSUME Accountable, TypeOK, LeafInv, NEW f \in Walks, NEW c \in Objects,
         c \in Range(Children[f.object])
  PROVE  /\ ~Updates(f, c) => uflags[c] = {}
         /\ ~Reports(f, c) => mflags[c] = {}
<1>1. f.object \in Objects
  BY DEF Walks
<1>2. uflags[c] \subseteq {"modified", "child"} /\ mflags[c] \subseteq {"modified", "child"}
  BY DEF TypeOK, Own
<1>3. CASE Kind[f.object] = "group"
  BY <1>2, <1>3 DEF Updates, Reports, Flagged, Own
<1>4. CASE Kind[f.object] = "tspan" /\ Children[c] = <<>>
  <2>1. "child" \notin uflags[c] /\ "child" \notin mflags[c]
    BY <1>4 DEF LeafInv
  <2>2. ~Updates(f, c) => "modified" \notin uflags[c]
    BY <1>4 DEF Updates
  <2>3. ~Reports(f, c) => "modified" \notin mflags[c]
    BY <1>4 DEF Reports
  <2> QED BY <1>2, <2>1, <2>2, <2>3
<1> QED BY <1>1, <1>3, <1>4 DEF Accountable

-----------------------------------------------------------------------------
(* The steps.                                                              *)

LEMMA VisitToUpdateInv ==
  ASSUME Accountable, Inv, VisitToUpdate
  PROVE  Inv'
<1> USE DEF Inv
<1> DEFINE c == Head(Top.todo)
           fl == Cascade(Top.flags) \cup uflags[c]
           h == IF Updates(Top, c) THEN <<Walk("update", c, fl)>> ELSE <<>>
<1>1. stack # <<>> /\ Top.op = "update" /\ Top.todo # <<>>
  BY DEF VisitToUpdate
<1>2. Top \in Walks /\ Top.flags \in SUBSET Flags /\ Top.todo \in Seq(Objects) /\ c \in Objects
  BY <1>1, WalkTop, HeadTail
<1>3. uflags \in [Objects -> SUBSET Own] /\ mflags \in [Objects -> SUBSET Own]
  BY DEF TypeOK
<1>4. fl \in SUBSET Flags
  BY <1>2, <1>3 DEF Cascade, Flags, Own
<1>5. /\ Becomes([Top EXCEPT !.todo = Tail(@)], h)
      /\ IF Updates(Top, c) THEN UpdateDisplay(c, Cascade(Top.flags))
                            ELSE UNCHANGED <<uflags, mflags>>
      /\ UNCHANGED <<idle, requests, calls, gaveUp>>
  BY DEF VisitToUpdate
<1> HIDE DEF fl
<1>6. h = <<>> \/ h = <<Walk("update", c, fl)>>
  OBVIOUS
<1>7. h # <<>> <=> Updates(Top, c)
  OBVIOUS
<1> HIDE DEF h, c
<1>8. /\ c \in Range(Children[Top.object])
      /\ stack' \in Seq(Frames)
      /\ WalkInv'
      /\ Ensuring => Ensuring'
      /\ \A o \in {"update", "modified"} : \A x :
           ToBeVisited(o, x) /\ (o # "update" \/ x # c) => ToBeVisited(o, x)'
      /\ \A x \in Objects \ {Root} : Updates(Top, c) /\ Parent(x) = c => ToBeVisited("update", x)'
  <2>1. /\ TypeOK /\ WalkInv /\ stack # <<>> /\ "update" \in {"update", "modified"}
        /\ Top.op = "update" /\ Top.todo # <<>> /\ fl \in SUBSET Flags /\ c = Head(Top.todo)
        /\ h = <<>> \/ h = <<Walk("update", c, fl)>>
        /\ Becomes([Top EXCEPT !.todo = Tail(@)], h)
    BY <1>1, <1>4, <1>5, <1>6 DEF c
  <2>2. c \in Range(Children[Top.object])
    BY <2>1, Visit
  <2>3. stack' \in Seq(Frames) /\ WalkInv' /\ (Ensuring => Ensuring')
    BY <2>1, Visit
  <2>4. \A o \in {"update", "modified"} : \A x :
           ToBeVisited(o, x) /\ (o # "update" \/ x # c) => ToBeVisited(o, x)'
    BY <2>1, Visit
  <2>5. \A x \in Objects \ {Root} : h # <<>> /\ Parent(x) = c => ToBeVisited("update", x)'
    BY <2>1, Visit
  <2> QED BY <1>7, <2>2, <2>3, <2>4, <2>5
<1>9. /\ uflags' \in [Objects -> SUBSET Own] /\ mflags' \in [Objects -> SUBSET Own]
      /\ \A x \in Objects \ {c} : uflags'[x] = uflags[x] /\ mflags'[x] = mflags[x]
      /\ uflags'[c] = {}
      /\ mflags'[c] = mflags[c] \cup uflags[c]
      /\ ~Updates(Top, c) => uflags[c] = {}
  <2>1. ~Updates(Top, c) => uflags[c] = {}
    BY <1>2, <1>8, PassedOver
  <2>2. CASE Updates(Top, c)
    <3>1. /\ mflags' = [mflags EXCEPT ![c] = @ \cup uflags[c]]
          /\ uflags' = [uflags EXCEPT ![c] = {}]
      BY <1>5, <2>2 DEF UpdateDisplay
    <3>2. uflags[c] \in SUBSET Own /\ mflags[c] \in SUBSET Own
      BY <1>2, <1>3
    <3> QED BY <1>2, <1>3, <2>2, <3>1, <3>2
  <2>3. CASE ~Updates(Top, c)
    BY <1>2, <1>3, <1>5, <2>1, <2>3
  <2> QED BY <2>1, <2>2, <2>3
<1>10. TypeOK'
  BY <1>5, <1>8, <1>9 DEF TypeOK, Frames
<1>11. LeafInv'
  BY <1>9 DEF LeafInv
<1>12. UpdateInv'
  <2> SUFFICES ASSUME NEW x \in Objects \ {Root}, uflags'[x] # {}
               PROVE  \/ uflags'[Parent(x)] # {}
                      \/ /\ ToBeVisited("update", x)'
                         /\ mflags'[Parent(x)] # {} \/ ToBeVisited("modified", x)'
    BY DEF UpdateInv, Parent
  <2>1. x # c /\ uflags[x] # {} /\ Parent(x) \in Objects
    BY <1>9, ParentType
  <2>2. CASE uflags[Parent(x)] # {} /\ Parent(x) # c
    BY <1>9, <2>1, <2>2
  <2>3. CASE uflags[Parent(x)] # {} /\ Parent(x) = c
    BY <1>8, <1>9, <2>3
  <2>4. CASE ToBeVisited("update", x) /\ (mflags[Parent(x)] # {} \/ ToBeVisited("modified", x))
    BY <1>8, <1>9, <2>1, <2>4
  <2> QED BY <2>1, <2>2, <2>3, <2>4 DEF UpdateInv
<1>13. ReportInv'
  <2> SUFFICES ASSUME NEW x \in Objects \ {Root}, mflags'[x] # {}
               PROVE  \/ mflags'[Parent(x)] # {} \/ uflags'[Parent(x)] # {}
                      \/ ToBeVisited("modified", x)'
    BY DEF ReportInv, Parent
  <2>1. Parent(x) \in Objects
    BY ParentType
  <2>2. mflags[Parent(x)] # {} \/ uflags[Parent(x)] # {} \/ ToBeVisited("modified", x)
    BY <1>9 DEF UpdateInv, ReportInv
  <2> QED BY <1>8, <1>9, <2>1, <2>2
<1>14. ScheduleInv'
  <2>1. RootClean => RootClean'
    BY <1>9 DEF RootClean
  <2> QED BY <1>5, <1>8, <2>1 DEF ScheduleInv, Ensuring
<1> QED BY <1>8, <1>10, <1>11, <1>12, <1>13, <1>14

LEMMA VisitToReportInv ==
  ASSUME Accountable, Inv, VisitToReport
  PROVE  Inv'
<1> USE DEF Inv
<1> DEFINE c == Head(Top.todo)
           fl == Cascade(Top.flags) \cup mflags[c]
           h == IF Reports(Top, c) THEN <<Walk("modified", c, fl)>> ELSE <<>>
<1>1. stack # <<>> /\ Top.op = "modified" /\ Top.todo # <<>>
  BY DEF VisitToReport
<1>2. Top \in Walks /\ Top.flags \in SUBSET Flags /\ Top.todo \in Seq(Objects) /\ c \in Objects
  BY <1>1, WalkTop, HeadTail
<1>3. uflags \in [Objects -> SUBSET Own] /\ mflags \in [Objects -> SUBSET Own]
  BY DEF TypeOK
<1>4. fl \in SUBSET Flags
  BY <1>2, <1>3 DEF Cascade, Flags, Own
<1>5. /\ Becomes([Top EXCEPT !.todo = Tail(@)], h)
      /\ IF Reports(Top, c) THEN EmitModified(c) ELSE UNCHANGED <<uflags, mflags>>
      /\ UNCHANGED <<idle, requests, calls, gaveUp>>
  BY DEF VisitToReport
<1> HIDE DEF fl
<1>6. h = <<>> \/ h = <<Walk("modified", c, fl)>>
  OBVIOUS
<1>7. h # <<>> <=> Reports(Top, c)
  OBVIOUS
<1> HIDE DEF h, c
<1>8. /\ c \in Range(Children[Top.object])
      /\ stack' \in Seq(Frames)
      /\ WalkInv'
      /\ Ensuring => Ensuring'
      /\ \A x : ToBeVisited("modified", x) /\ x # c => ToBeVisited("modified", x)'
      /\ \A x \in Objects \ {Root} : Reports(Top, c) /\ Parent(x) = c => ToBeVisited("modified", x)'
  <2>1. /\ TypeOK /\ WalkInv /\ stack # <<>> /\ "modified" \in {"update", "modified"}
        /\ Top.op = "modified" /\ Top.todo # <<>> /\ fl \in SUBSET Flags /\ c = Head(Top.todo)
        /\ h = <<>> \/ h = <<Walk("modified", c, fl)>>
        /\ Becomes([Top EXCEPT !.todo = Tail(@)], h)
    BY <1>1, <1>4, <1>5, <1>6 DEF c
  <2>2. c \in Range(Children[Top.object])
    BY <2>1, Visit
  <2>3. stack' \in Seq(Frames) /\ WalkInv' /\ (Ensuring => Ensuring')
    BY <2>1, Visit
  <2>4. \A o \in {"update", "modified"} : \A x :
           ToBeVisited(o, x) /\ (o # "modified" \/ x # c) => ToBeVisited(o, x)'
    BY <2>1, Visit
  <2>5. \A x \in Objects \ {Root} : h # <<>> /\ Parent(x) = c => ToBeVisited("modified", x)'
    BY <2>1, Visit
  <2> QED BY <1>7, <2>2, <2>3, <2>4, <2>5
<1>9. /\ uflags' = uflags /\ mflags' \in [Objects -> SUBSET Own]
      /\ \A x \in Objects \ {c} : mflags'[x] = mflags[x]
      /\ mflags'[c] = {}
      /\ ~Reports(Top, c) => mflags[c] = {}
  <2>1. ~Reports(Top, c) => mflags[c] = {}
    BY <1>2, <1>8, PassedOver
  <2>2. CASE Reports(Top, c)
    BY <1>2, <1>3, <1>5, <2>2 DEF EmitModified
  <2>3. CASE ~Reports(Top, c)
    BY <1>2, <1>3, <1>5, <2>1, <2>3
  <2> QED BY <2>1, <2>2, <2>3
<1>10. TypeOK'
  BY <1>3, <1>5, <1>8, <1>9 DEF TypeOK, Frames
<1>11. LeafInv'
  BY <1>9 DEF LeafInv
<1>12. UpdateInv'
  <2>1. \A x : ~ToBeVisited("update", x)
    BY <1>1, NoUpdates
  <2> QED BY <1>9, <2>1 DEF UpdateInv, Parent
<1>13. ReportInv'
  <2> SUFFICES ASSUME NEW x \in Objects \ {Root}, mflags'[x] # {}
               PROVE  \/ mflags'[Parent(x)] # {} \/ uflags'[Parent(x)] # {}
                      \/ ToBeVisited("modified", x)'
    BY DEF ReportInv, Parent
  <2>1. Parent(x) \in Objects /\ x # c /\ mflags[x] # {}
    BY <1>9, ParentType
  <2>2. mflags[Parent(x)] # {} \/ uflags[Parent(x)] # {} \/ ToBeVisited("modified", x)
    BY <2>1 DEF ReportInv
  <2>3. CASE mflags[Parent(x)] # {} /\ Parent(x) = c
    BY <1>8, <1>9, <2>3
  <2>4. CASE mflags[Parent(x)] # {} /\ Parent(x) # c
    BY <1>9, <2>1, <2>4
  <2> QED BY <1>8, <1>9, <2>1, <2>2, <2>3, <2>4
<1>14. ScheduleInv'
  <2>1. RootClean => RootClean'
    BY <1>9 DEF RootClean
  <2> QED BY <1>5, <1>8, <2>1 DEF ScheduleInv, Ensuring
<1> QED BY <1>8, <1>10, <1>11, <1>12, <1>13, <1>14

\* Steps that leave all flags as they are and nobody out of the walks.
LEMMA FlagsStay ==
  ASSUME Inv, UNCHANGED <<uflags, mflags>>,
         stack' \in Seq(Frames), WalkInv',
         \A op \in {"update", "modified"} : \A x : ToBeVisited(op, x) => ToBeVisited(op, x)',
         idle' \in BOOLEAN, gaveUp' \in BOOLEAN, requests' = requests, calls' \in 0..MaxCalls,
         ~RootClean => (idle \/ gaveUp \/ Ensuring => idle' \/ gaveUp' \/ Ensuring')
  PROVE  Inv'
<1> USE DEF Inv
<1>1. TypeOK'
  BY DEF TypeOK, Frames
<1>2. LeafInv'
  BY DEF LeafInv
<1>3. UpdateInv'
  BY DEF UpdateInv, Parent
<1>4. ReportInv'
  BY DEF ReportInv, Parent
<1>5. ScheduleInv'
  BY DEF ScheduleInv, Ensuring, RootClean
<1> QED BY <1>1, <1>2, <1>3, <1>4, <1>5

LEMMA ReturnInv ==
  ASSUME Inv, Return
  PROVE  Inv'
<1>1. /\ stack' \in Seq(Frames) /\ WalkInv'
      /\ Ensuring /\ Top.op # "ensure" => Ensuring'
      /\ \A op \in {"update", "modified"} : \A x : ToBeVisited(op, x) => ToBeVisited(op, x)'
  BY StackReturn DEF Return, Inv
<1>2. Top.op # "ensure"
  BY DEF Return
<1>3. UNCHANGED <<uflags, mflags, idle, requests, calls, gaveUp>>
  BY DEF Return
<1>4. idle \in BOOLEAN /\ gaveUp \in BOOLEAN /\ calls \in 0..MaxCalls
  BY DEF Inv, TypeOK
<1> QED BY <1>1, <1>2, <1>3, <1>4, FlagsStay

LEMMA CallType ==
  ASSUME NEW op \in {"idle", "ensure"}
  PROVE  Call(op) \in DocumentCalls /\ Call(op).op = op
<1> QED BY DEF Call, DocumentCalls

LEMMA IdleHandlerInv ==
  ASSUME Inv, IdleHandler
  PROVE  Inv'
<1>1. stack = <<>> /\ stack' = <<Call("idle")>>
      /\ UNCHANGED <<uflags, mflags, idle, requests, calls, gaveUp>>
  BY DEF IdleHandler
<1>2. stack' = Append(stack, Call("idle"))
  BY <1>1
<1>3. stack' \in Seq(Frames) /\ WalkInv' /\ (Ensuring => Ensuring')
  BY <1>1, <1>2, CallType, StackCall DEF Inv
<1>4. \A op \in {"update", "modified"} : \A x : ToBeVisited(op, x) => ToBeVisited(op, x)'
  BY <1>1, <1>2, CallType, StackCall DEF Inv
<1>5. idle \in BOOLEAN /\ gaveUp \in BOOLEAN /\ calls \in 0..MaxCalls
  BY DEF Inv, TypeOK
<1> QED BY <1>1, <1>3, <1>4, <1>5, FlagsStay

LEMMA EnsureUpToDateInv ==
  ASSUME Inv, EnsureUpToDate
  PROVE  Inv'
<1>1. /\ stack # <<>> => Top.op # "update"
      /\ stack' = Append(stack, Call("ensure"))
      /\ calls < MaxCalls /\ calls' = calls + 1
      /\ UNCHANGED <<uflags, mflags, idle, requests, gaveUp>>
  BY DEF EnsureUpToDate
<1>2. stack' \in Seq(Frames) /\ WalkInv' /\ Ensuring'
  BY <1>1, CallType, StackCall DEF Inv
<1>3. \A op \in {"update", "modified"} : \A x : ToBeVisited(op, x) => ToBeVisited(op, x)'
  BY <1>1, CallType, StackCall DEF Inv
<1>4. idle \in BOOLEAN /\ gaveUp \in BOOLEAN /\ calls' \in 0..MaxCalls
  BY <1>1 DEF Inv, TypeOK
<1> QED BY <1>1, <1>2, <1>3, <1>4, FlagsStay

LEMMA RequestInv ==
  ASSUME Inv, NEW x \in Objects, Request(x)
  PROVE  Inv'
<1> USE DEF Inv
<1>1. /\ requests < MaxRequests /\ requests' = requests + 1
      /\ UNCHANGED <<stack, calls, gaveUp>>
  BY DEF Request
<1>2. uflags \in [Objects -> SUBSET Own] /\ mflags \in [Objects -> SUBSET Own]
  BY DEF TypeOK
<1>3. /\ uflags' \in [Objects -> SUBSET Own] /\ mflags' \in [Objects -> SUBSET Own]
      /\ \A y \in Objects : uflags[y] \subseteq uflags'[y] /\ mflags[y] \subseteq mflags'[y]
      /\ \A y \in Objects \ {Root} : uflags'[y] # {} => uflags[y] # {} \/ uflags'[Parent(y)] # {}
      /\ \A y \in Objects \ {Root} : mflags'[y] # {} => mflags[y] # {} \/ mflags'[Parent(y)] # {}
      /\ \A y \in Objects : Children[y] = <<>> =>
           /\ "child" \in uflags'[y] => "child" \in uflags[y]
           /\ "child" \in mflags'[y] => "child" \in mflags[y]
      /\ idle => idle'
      /\ idle' \in BOOLEAN
      /\ RootClean /\ ~RootClean' => idle'
  <2>1. CASE /\ uflags' = Requested(uflags, x, {"modified"}) /\ mflags' = mflags
             /\ idle' = (idle \/ Reaches(uflags, x))
    <3>1. /\ uflags' \in [Objects -> SUBSET Own]
          /\ \A y \in Objects : uflags[y] \subseteq uflags'[y]
          /\ \A y \in Objects \ {Root} : uflags'[y] # {} => uflags[y] # {} \/ uflags'[Parent(y)] # {}
          /\ \A y \in Objects : Children[y] = <<>> /\ "child" \in uflags'[y] => "child" \in uflags[y]
          /\ uflags[Root] = {} /\ uflags'[Root] # {} => Reaches(uflags, x)
      BY <1>2, <2>1, RequestedEffect
    <3>2. idle' \in BOOLEAN /\ (idle => idle') /\ (Reaches(uflags, x) => idle')
      BY <2>1, Zenon DEF TypeOK, Reaches
    <3>3. RootClean /\ ~RootClean' => idle'
      BY <2>1, <3>1, <3>2 DEF RootClean
    <3> QED BY <1>2, <2>1, <3>1, <3>2, <3>3
  <2>2. CASE /\ mflags' = Requested(mflags, x, {"modified"}) /\ uflags' = uflags
             /\ idle' = (idle \/ Reaches(mflags, x))
    <3>1. /\ mflags' \in [Objects -> SUBSET Own]
          /\ \A y \in Objects : mflags[y] \subseteq mflags'[y]
          /\ \A y \in Objects \ {Root} : mflags'[y] # {} => mflags[y] # {} \/ mflags'[Parent(y)] # {}
          /\ \A y \in Objects : Children[y] = <<>> /\ "child" \in mflags'[y] => "child" \in mflags[y]
          /\ mflags[Root] = {} /\ mflags'[Root] # {} => Reaches(mflags, x)
      BY <1>2, <2>2, RequestedEffect
    <3>2. idle' \in BOOLEAN /\ (idle => idle') /\ (Reaches(mflags, x) => idle')
      BY <2>2, Zenon DEF TypeOK, Reaches
    <3>3. RootClean /\ ~RootClean' => idle'
      BY <2>2, <3>1, <3>2 DEF RootClean
    <3> QED BY <1>2, <2>2, <3>1, <3>2, <3>3
  <2> QED BY <2>1, <2>2 DEF Request
<1>4. \A op, y : ToBeVisited(op, y) => ToBeVisited(op, y)'
  BY <1>1 DEF ToBeVisited, Parent
<1>5. requests' \in 0..MaxRequests
  BY <1>1 DEF TypeOK
<1>6. TypeOK'
  BY <1>1, <1>3, <1>5 DEF TypeOK
<1>7. WalkInv'
  BY <1>1 DEF WalkInv
<1>8. LeafInv'
  BY <1>3 DEF LeafInv
<1>9. UpdateInv'
  <2> SUFFICES ASSUME NEW y \in Objects \ {Root}, uflags'[y] # {}, uflags'[Parent(y)] = {}
               PROVE  /\ ToBeVisited("update", y)'
                      /\ mflags'[Parent(y)] # {} \/ ToBeVisited("modified", y)'
    BY DEF UpdateInv, Parent
  <2>1. Parent(y) \in Objects
    BY ParentType
  <2>2. uflags[y] # {} /\ uflags[Parent(y)] = {}
    BY <1>3, <2>1
  <2>3. ToBeVisited("update", y) /\ (mflags[Parent(y)] # {} \/ ToBeVisited("modified", y))
    BY <2>2 DEF UpdateInv
  <2> QED BY <1>3, <1>4, <2>1, <2>3
<1>10. ReportInv'
  <2> SUFFICES ASSUME NEW y \in Objects \ {Root}, mflags'[y] # {},
                      mflags'[Parent(y)] = {}, uflags'[Parent(y)] = {}
               PROVE  ToBeVisited("modified", y)'
    BY DEF ReportInv, Parent
  <2>1. Parent(y) \in Objects
    BY ParentType
  <2>2. mflags[y] # {} /\ mflags[Parent(y)] = {} /\ uflags[Parent(y)] = {}
    BY <1>3, <2>1
  <2> QED BY <1>4, <2>2 DEF ReportInv
<1>11. ScheduleInv'
  BY <1>1, <1>3 DEF ScheduleInv
<1> QED BY <1>6, <1>7, <1>8, <1>9, <1>10, <1>11

\* A call of the document goes on, and may start a walk at the root.
LEMMA DocumentStep ==
  ASSUME TypeOK, WalkInv, stack # <<>>, Top.op \in {"idle", "ensure"},
         NEW g \in DocumentCalls, g.op = Top.op,
         NEW op \in {"update", "modified"}, NEW fl \in SUBSET Flags,
         NEW h, h = <<>> \/ h = <<Walk(op, Root, fl)>>,
         Becomes(g, h)
  PROVE  /\ stack' \in Seq(Frames)
         /\ WalkInv'
         /\ Ensuring => Ensuring'
         /\ \A o \in {"update", "modified"} : \A x : ToBeVisited(o, x) => ToBeVisited(o, x)'
         /\ \A x \in Objects \ {Root} : h # <<>> /\ Parent(x) = Root => ToBeVisited(op, x)'
<1> DEFINE w == Walk(op, Root, fl)
<1>1. w \in Walks /\ w.op = op /\ w.object = Root /\ w.todo = Children[Root]
  BY DEF Walk, Walks
<1> HIDE DEF w
<1>2. h \in Seq(Walks) /\ Len(h) <= 1 /\ (h # <<>> => h[1] = w)
  <2>1. CASE h = <<>>
    BY <2>1, EmptySeq
  <2>2. CASE h = <<w>>
    BY <1>1, <2>2
  <2> QED BY <2>1, <2>2 DEF w
<1>3. /\ stack' \in Seq(Frames)
      /\ WalkInv'
      /\ Ensuring => Ensuring'
      /\ \A o \in {"update", "modified"} : \A x : ToBeVisited(o, x) /\ (ByTop(o, x) => x \in Range(g.todo))
                      => ToBeVisited(o, x)'
      /\ \A x : h # <<>> /\ Parent(x) = h[1].object /\ x \in Range(h[1].todo)
                  => ToBeVisited(h[1].op, x)'
  <2>1. g \in Frames /\ ~(g.op \in {"update", "modified"})
    BY DEF Frames
  <2>2. h # <<>> => /\ Range(h[1].todo) \subseteq Range(Children[h[1].object])
                    /\ IF h[1].op = "update" THEN Top.op # "modified" ELSE Top.op # "update"
    BY <1>1, <1>2
  <2> QED BY <1>2, <2>1, <2>2, StackChange
<1>4. \A o \in {"update", "modified"} : \A x : ~ByTop(o, x)
  BY DEF ByTop
<1>5. ASSUME NEW x \in Objects \ {Root}, h # <<>>, Parent(x) = Root
      PROVE  ToBeVisited(op, x)'
  <2>1. x \in Range(Children[Root])
    BY <1>5, ParentType
  <2> QED BY <1>1, <1>2, <1>3, <1>5, <2>1
<1> QED BY <1>3, <1>4, <1>5

LEMMA InDocumentTop ==
  ASSUME TypeOK, stack # <<>>, Top.op \in {"idle", "ensure"}
  PROVE  Top \in DocumentCalls
<1>1. Top \in Frames
  BY TopType
<1> QED BY <1>1 DEF Frames, Walks, DocumentCalls

LEMMA BeginUpdateInv ==
  ASSUME Inv, BeginUpdate
  PROVE  Inv'
<1> USE DEF Inv
<1> DEFINE g == [Top EXCEPT !.phase = "report"]
           fl == uflags[Root]
           h == IF uflags[Root] # {} THEN <<Walk("update", Root, fl)>> ELSE <<>>
<1>1. /\ stack # <<>> /\ Top.op \in {"idle", "ensure"} /\ ~RootClean
      /\ Becomes(g, h)
      /\ IF uflags[Root] # {} THEN UpdateDisplay(Root, {}) ELSE UNCHANGED <<uflags, mflags>>
      /\ UNCHANGED <<idle, requests, calls, gaveUp>>
  BY DEF BeginUpdate, InDocument
<1>2. uflags \in [Objects -> SUBSET Own] /\ mflags \in [Objects -> SUBSET Own]
  BY DEF TypeOK
<1>3. g \in DocumentCalls /\ g.op = Top.op
  BY <1>1, InDocumentTop DEF DocumentCalls
<1>4. fl \in SUBSET Flags
  BY <1>2 DEF Flags, Own
<1> HIDE DEF g, fl
<1>5. /\ h = <<>> \/ h = <<Walk("update", Root, fl)>>
      /\ h # <<>> <=> uflags[Root] # {}
  OBVIOUS
<1> HIDE DEF h
<1>6. /\ stack' \in Seq(Frames)
      /\ WalkInv'
      /\ Ensuring => Ensuring'
      /\ \A o \in {"update", "modified"} : \A x : ToBeVisited(o, x) => ToBeVisited(o, x)'
      /\ \A x \in Objects \ {Root} :
           uflags[Root] # {} /\ Parent(x) = Root => ToBeVisited("update", x)'
  <2>1. "update" \in {"update", "modified"}
    OBVIOUS
  <2>2. stack' \in Seq(Frames) /\ WalkInv' /\ (Ensuring => Ensuring')
    BY <1>1, <1>3, <1>4, <1>5, <2>1, DocumentStep
  <2>3. \A o \in {"update", "modified"} : \A x : ToBeVisited(o, x) => ToBeVisited(o, x)'
    BY <1>1, <1>3, <1>4, <1>5, <2>1, DocumentStep
  <2>4. \A x \in Objects \ {Root} : h # <<>> /\ Parent(x) = Root => ToBeVisited("update", x)'
    BY <1>1, <1>3, <1>4, <1>5, <2>1, DocumentStep
  <2> QED BY <1>5, <2>2, <2>3, <2>4
<1>7. /\ uflags' \in [Objects -> SUBSET Own] /\ mflags' \in [Objects -> SUBSET Own]
      /\ \A x \in Objects \ {Root} : uflags'[x] = uflags[x] /\ mflags'[x] = mflags[x]
      /\ uflags'[Root] = {}
      /\ mflags'[Root] = mflags[Root] \cup uflags[Root]
  <2>1. CASE uflags[Root] # {}
    <3>1. /\ mflags' = [mflags EXCEPT ![Root] = @ \cup uflags[Root]]
          /\ uflags' = [uflags EXCEPT ![Root] = {}]
      BY <1>1, <2>1 DEF UpdateDisplay
    <3>2. uflags[Root] \in SUBSET Own /\ mflags[Root] \in SUBSET Own
      BY <1>2
    <3> QED BY <1>2, <3>1, <3>2
  <2>2. CASE uflags[Root] = {}
    BY <1>1, <1>2, <2>2
  <2> QED BY <2>1, <2>2
<1>8. TypeOK'
  BY <1>1, <1>6, <1>7 DEF TypeOK, Frames
<1>9. LeafInv'
  BY <1>7 DEF LeafInv
<1>10. UpdateInv'
  <2> SUFFICES ASSUME NEW x \in Objects \ {Root}, uflags'[x] # {}
               PROVE  \/ uflags'[Parent(x)] # {}
                      \/ /\ ToBeVisited("update", x)'
                         /\ mflags'[Parent(x)] # {} \/ ToBeVisited("modified", x)'
    BY DEF UpdateInv, Parent
  <2>1. ~ToBeVisited("update", x)
    BY <1>1, NoUpdates
  <2>2. uflags[Parent(x)] # {} /\ Parent(x) \in Objects
    BY <1>7, <2>1, ParentType DEF UpdateInv
  <2>3. CASE Parent(x) = Root
    BY <1>6, <1>7, <2>2, <2>3
  <2>4. CASE Parent(x) # Root
    BY <1>7, <2>2, <2>4
  <2> QED BY <2>3, <2>4
<1>11. ReportInv'
  <2> SUFFICES ASSUME NEW x \in Objects \ {Root}, mflags'[x] # {}
               PROVE  \/ mflags'[Parent(x)] # {} \/ uflags'[Parent(x)] # {}
                      \/ ToBeVisited("modified", x)'
    BY DEF ReportInv, Parent
  <2>1. Parent(x) \in Objects
    BY ParentType
  <2>2. mflags[Parent(x)] # {} \/ uflags[Parent(x)] # {} \/ ToBeVisited("modified", x)
    BY <1>7 DEF ReportInv
  <2> QED BY <1>6, <1>7, <2>1, <2>2
<1>12. ScheduleInv'
  BY <1>1, <1>6 DEF ScheduleInv, Ensuring
<1> QED BY <1>6, <1>8, <1>9, <1>10, <1>11, <1>12

LEMMA BeginReportInv ==
  ASSUME Inv, BeginReport
  PROVE  Inv'
<1> USE DEF Inv
<1> DEFINE g == [Top EXCEPT !.phase = "end"]
           fl == mflags[Root]
           h == <<Walk("modified", Root, fl)>>
<1>1. /\ stack # <<>> /\ Top.op \in {"idle", "ensure"}
      /\ Becomes(g, h)
      /\ EmitModified(Root)
      /\ UNCHANGED <<idle, requests, calls, gaveUp>>
  BY DEF BeginReport, InDocument
<1>2. uflags \in [Objects -> SUBSET Own] /\ mflags \in [Objects -> SUBSET Own]
  BY DEF TypeOK
<1>3. g \in DocumentCalls /\ g.op = Top.op
  BY <1>1, InDocumentTop DEF DocumentCalls
<1>4. fl \in SUBSET Flags
  BY <1>2 DEF Flags, Own
<1> HIDE DEF g, fl
<1>5. (h = <<>> \/ h = <<Walk("modified", Root, fl)>>) /\ h # <<>>
  OBVIOUS
<1> HIDE DEF h
<1>6. /\ stack' \in Seq(Frames)
      /\ WalkInv'
      /\ Ensuring => Ensuring'
      /\ \A o \in {"update", "modified"} : \A x : ToBeVisited(o, x) => ToBeVisited(o, x)'
      /\ \A x \in Objects \ {Root} : Parent(x) = Root => ToBeVisited("modified", x)'
  <2>1. "modified" \in {"update", "modified"}
    OBVIOUS
  <2>2. stack' \in Seq(Frames) /\ WalkInv' /\ (Ensuring => Ensuring')
    BY <1>1, <1>3, <1>4, <1>5, <2>1, DocumentStep
  <2>3. \A o \in {"update", "modified"} : \A x : ToBeVisited(o, x) => ToBeVisited(o, x)'
    BY <1>1, <1>3, <1>4, <1>5, <2>1, DocumentStep
  <2>4. \A x \in Objects \ {Root} : h # <<>> /\ Parent(x) = Root => ToBeVisited("modified", x)'
    BY <1>1, <1>3, <1>4, <1>5, <2>1, DocumentStep
  <2> QED BY <1>5, <2>2, <2>3, <2>4
<1>7. /\ uflags' = uflags /\ mflags' \in [Objects -> SUBSET Own]
      /\ \A x \in Objects \ {Root} : mflags'[x] = mflags[x]
      /\ mflags'[Root] = {}
  BY <1>1, <1>2 DEF EmitModified
<1>8. TypeOK'
  BY <1>1, <1>2, <1>6, <1>7 DEF TypeOK, Frames
<1>9. LeafInv'
  BY <1>7 DEF LeafInv
<1>10. UpdateInv'
  <2>1. \A x : ~ToBeVisited("update", x)
    BY <1>1, NoUpdates
  <2> QED BY <1>7, <2>1 DEF UpdateInv, Parent
<1>11. ReportInv'
  <2> SUFFICES ASSUME NEW x \in Objects \ {Root}, mflags'[x] # {}
               PROVE  \/ mflags'[Parent(x)] # {} \/ uflags'[Parent(x)] # {}
                      \/ ToBeVisited("modified", x)'
    BY DEF ReportInv, Parent
  <2>1. Parent(x) \in Objects
    BY ParentType
  <2>2. mflags[Parent(x)] # {} \/ uflags[Parent(x)] # {} \/ ToBeVisited("modified", x)
    BY <1>7 DEF ReportInv
  <2> QED BY <1>6, <1>7, <2>1, <2>2
<1>12. ScheduleInv'
  <2>1. RootClean => RootClean'
    BY <1>7 DEF RootClean
  <2> QED BY <1>1, <1>6, <2>1 DEF ScheduleInv, Ensuring
<1> QED BY <1>6, <1>8, <1>9, <1>10, <1>11, <1>12

LEMMA AnotherPass ==
  ASSUME NEW t \in DocumentCalls, t.counter > 0
  PROVE  /\ [t EXCEPT !.phase = "begin", !.counter = @ - 1] \in DocumentCalls
         /\ [t EXCEPT !.phase = "begin", !.counter = @ - 1].op = t.op
         /\ [t EXCEPT !.phase = "begin", !.pass = 2] \in DocumentCalls
         /\ [t EXCEPT !.phase = "begin", !.pass = 2].op = t.op
<1>1. t.counter \in 0..MaxIterations
  BY DEF DocumentCalls
<1>2. t.counter - 1 \in 0..MaxIterations
  BY <1>1
<1>3. 2 \in 1..2
  OBVIOUS
<1> QED BY <1>2, <1>3 DEF DocumentCalls

LEMMA AgainInv ==
  ASSUME Inv, TryAgain \/ SecondPass
  PROVE  Inv'
<1> USE DEF Inv
<1>1. stack # <<>> /\ Top.op = "ensure" /\ Top \in DocumentCalls /\ Top.counter > 0
  BY InDocumentTop DEF TryAgain, SecondPass, UpdateEnds, InDocument
<1>2. UNCHANGED <<uflags, mflags, idle, requests, calls, gaveUp>>
  BY DEF TryAgain, SecondPass
<1>3. PICK g \in DocumentCalls : g.op = "ensure" /\ Becomes(g, <<>>)
  <2>1. CASE TryAgain
    <3> DEFINE t == [Top EXCEPT !.phase = "begin", !.counter = @ - 1]
    <3>1. Becomes(t, <<>>)
      BY <2>1 DEF TryAgain
    <3>2. t \in DocumentCalls /\ t.op = "ensure"
      BY <1>1, AnotherPass
    <3> HIDE DEF t
    <3> QED BY <3>1, <3>2
  <2>2. CASE SecondPass
    <3> DEFINE t == [Top EXCEPT !.phase = "begin", !.pass = 2]
    <3>1. Becomes(t, <<>>)
      BY <2>2 DEF SecondPass
    <3>2. t \in DocumentCalls /\ t.op = "ensure"
      BY <1>1, AnotherPass
    <3> HIDE DEF t
    <3> QED BY <3>1, <3>2
  <2> QED BY <2>1, <2>2
<1>4. "update" \in {"update", "modified"} /\ {} \in SUBSET Flags
  OBVIOUS
<1>5. stack' \in Seq(Frames) /\ WalkInv' /\ (Ensuring => Ensuring')
  BY <1>1, <1>3, <1>4, DocumentStep
<1>6. \A op \in {"update", "modified"} : \A x : ToBeVisited(op, x) => ToBeVisited(op, x)'
  BY <1>1, <1>3, <1>4, DocumentStep
<1>7. idle \in BOOLEAN /\ gaveUp \in BOOLEAN /\ calls \in 0..MaxCalls
  BY DEF TypeOK
<1> QED BY <1>2, <1>5, <1>6, <1>7, FlagsStay

LEMMA ReturnsInv ==
  ASSUME Inv, IdleHandlerReturns \/ EnsureReturns
  PROVE  Inv'
<1> USE DEF Inv
<1>1. /\ stack # <<>> /\ Top.op \in {"idle", "ensure"} /\ stack' = Front(stack)
      /\ UNCHANGED <<uflags, mflags, requests, calls>>
  BY DEF IdleHandlerReturns, EnsureReturns, UpdateEnds, InDocument
<1>2. /\ stack' \in Seq(Frames) /\ WalkInv'
      /\ Ensuring /\ Top.op # "ensure" => Ensuring'
      /\ \A op \in {"update", "modified"} : \A x : ToBeVisited(op, x) => ToBeVisited(op, x)'
  BY <1>1, StackReturn
<1>3. idle \in BOOLEAN /\ gaveUp \in BOOLEAN /\ calls \in 0..MaxCalls
  BY DEF TypeOK
<1>4. /\ idle' \in BOOLEAN /\ gaveUp' \in BOOLEAN
      /\ ~RootClean => (idle \/ gaveUp \/ Ensuring => idle' \/ gaveUp' \/ Ensuring')
  <2>1. CASE IdleHandlerReturns
    <3>1. Top.op = "idle" /\ idle' = (idle /\ ~RootClean) /\ gaveUp' = gaveUp
      BY <2>1 DEF IdleHandlerReturns
    <3>2. idle' \in BOOLEAN /\ (~RootClean /\ idle => idle')
      BY <1>3, <3>1, Zenon DEF RootClean
    <3>3. Top.op # "ensure"
      BY <3>1
    <3> QED BY <1>2, <1>3, <3>1, <3>2, <3>3
  <2>2. CASE EnsureReturns
    <3>1. idle' = FALSE /\ gaveUp' = (gaveUp \/ ~RootClean)
      BY <2>2 DEF EnsureReturns
    <3>2. gaveUp' \in BOOLEAN /\ (~RootClean => gaveUp')
      BY <1>3, <3>1, Zenon DEF RootClean
    <3> QED BY <3>1, <3>2
  <2> QED BY <2>1, <2>2
<1> QED BY <1>1, <1>2, <1>3, <1>4, FlagsStay

-----------------------------------------------------------------------------
(* What follows.                                                           *)

LEMMA InitInv ==
  ASSUME Init
  PROVE  Inv
<1>1. /\ uflags = [x \in Objects |-> {}] /\ mflags = [x \in Objects |-> {}]
      /\ idle = FALSE /\ stack = <<>> /\ requests = 0 /\ calls = 0 /\ gaveUp = FALSE
  BY DEF Init
<1>2. TypeOK
  <2>1. stack \in Seq(Walks \cup DocumentCalls)
    BY <1>1
  <2>2. requests \in 0..MaxRequests /\ calls \in 0..MaxCalls
    BY <1>1
  <2>3. uflags \in [Objects -> SUBSET Own] /\ mflags \in [Objects -> SUBSET Own]
    BY <1>1
  <2>4. idle \in BOOLEAN /\ gaveUp \in BOOLEAN
    BY <1>1
  <2> QED BY <2>1, <2>2, <2>3, <2>4 DEF TypeOK
<1>3. WalkInv
  BY <1>1, EmptySeq DEF WalkInv
<1>4. LeafInv /\ UpdateInv /\ ReportInv
  BY <1>1, ParentType DEF LeafInv, UpdateInv, ReportInv
<1>5. ScheduleInv
  BY <1>1 DEF ScheduleInv, RootClean
<1> QED BY <1>2, <1>3, <1>4, <1>5 DEF Inv

LEMMA NextInv ==
  ASSUME Accountable, Inv, [Next]_vars
  PROVE  Inv'
<1>1. ASSUME NEW x \in Objects, Request(x) PROVE Inv'
  BY <1>1, RequestInv
<1>2. CASE EnsureUpToDate
  BY <1>2, EnsureUpToDateInv
<1>3. CASE VisitToUpdate
  BY <1>3, VisitToUpdateInv
<1>4. CASE VisitToReport
  BY <1>4, VisitToReportInv
<1>5. CASE Return
  BY <1>5, ReturnInv
<1>6. CASE IdleHandler
  BY <1>6, IdleHandlerInv
<1>7. CASE BeginUpdate
  BY <1>7, BeginUpdateInv
<1>8. CASE BeginReport
  BY <1>8, BeginReportInv
<1>9. CASE IdleHandlerReturns \/ EnsureReturns
  BY <1>9, ReturnsInv
<1>10. CASE TryAgain \/ SecondPass
  BY <1>10, AgainInv
<1>11. CASE UNCHANGED vars
  <2>1. UNCHANGED <<uflags, mflags, idle, stack, requests, calls, gaveUp>>
    BY <1>11 DEF vars
  <2>2. stack \in Seq(Frames) /\ idle \in BOOLEAN /\ gaveUp \in BOOLEAN /\ calls \in 0..MaxCalls
    BY DEF Inv, TypeOK, Frames
  <2>3. WalkInv'
    BY <2>1 DEF Inv, WalkInv
  <2>4. \A op \in {"update", "modified"} : \A x : ToBeVisited(op, x) => ToBeVisited(op, x)'
    BY <2>1 DEF ToBeVisited, Parent
  <2>5. Ensuring => Ensuring'
    BY <2>1 DEF Ensuring
  <2> QED BY <2>1, <2>2, <2>3, <2>4, <2>5, FlagsStay
<1> QED BY <1>1, <1>2, <1>3, <1>4, <1>5, <1>6, <1>7, <1>8, <1>9, <1>10, <1>11 DEF Next, Work

\* The invariant of the walks: flags below a parent without any are on the way
\* of a walk, and whoever is still to be updated has a parent that will report
\* (updateDisplay() moves the flags from one to the other before it goes down).
THEOREM WalksKnowWhatIsLeft == Accountable => (Spec => []Inv)
<1> SUFFICES ASSUME Accountable PROVE Spec => []Inv
  OBVIOUS
<1>1. Init => Inv
  BY InitInv
<1>2. Inv /\ [Next]_vars => Inv'
  BY NextInv
<1> QED BY <1>1, <1>2, PTL DEF Spec

\* Only flags that concern an object or what is in it are kept in it, and the
\* calls of the document and of the objects are nested in one stack.
THEOREM FlagsAreOfThemselves == Accountable => (Spec => []TypeOK)
<1>1. Inv => TypeOK
  BY DEF Inv
<1> QED BY <1>1, WalksKnowWhatIsLeft, PTL

\* requestDisplayUpdate() and requestModified() stop at the first object that
\* has flags before; still, whoever has flags is known to its parent or about
\* to be come to, and a document that is not up to date is known to the main
\* loop, to a call in progress, or was given up by ensureUpToDate().
THEOREM RequestsStayKnown == Accountable => (Spec => []RequestsAreKnown)
<1>1. Inv => RequestsAreKnown
  <2> SUFFICES ASSUME Inv PROVE RequestsAreKnown
    OBVIOUS
  <2> USE DEF Inv
  <2>1. FlagsAreAccounted
    BY DEF FlagsAreAccounted, UpdateInv, ReportInv
  <2>2. FlagsAreScheduled
    BY EmptySeq DEF FlagsAreScheduled, ScheduleInv
  <2> QED BY <2>1, <2>2 DEF RequestsAreKnown
<1> QED BY <1>1, WalksKnowWhatIsLeft, PTL

\* Without a walk in progress, flags anywhere lead up to the root.
LEMMA CleanFromTheRoot ==
  ASSUME Inv, RootClean, NEW x \in Objects,
         \A op \in {"update", "modified"} : \A y : ~ToBeVisited(op, y)
  PROVE  uflags[x] = {} /\ mflags[x] = {}
<1> DEFINE S == {y \in Objects : uflags[y] # {} \/ mflags[y] # {}}
<1>1. ASSUME NEW y \in S \ {Root} PROVE Parent(y) \in S
  <2>1. y \in Objects \ {Root} /\ Parent(y) \in Objects
    BY ParentType
  <2>2. uflags[Parent(y)] # {} \/ mflags[Parent(y)] # {}
    BY <2>1 DEF Inv, UpdateInv, ReportInv
  <2> QED BY <2>1, <2>2
<1>2. S \subseteq Objects /\ Upwards(S)
  BY <1>1 DEF Upwards
<1>3. Root \notin S
  BY DEF RootClean
<1>4. Root \in Above[x]
  OBVIOUS
<1>5. x \notin S
  <2> HIDE DEF S
  <2> QED BY <1>2, <1>3, <1>4, AboveFacts
<1> QED BY <1>5

\* When ensureUpToDate() returns to a caller outside of any update, and has not
\* used up its iterations, no object of the tree has anything left to be done.
THEOREM EnsuredIsUpToDate == Accountable => (Spec => EnsuredMeansUpToDate)
<1>1. ASSUME Inv, EnsureReturns, stack' = <<>>, ~gaveUp', NEW x \in Objects
      PROVE  uflags'[x] = {} /\ mflags'[x] = {}
  <2>1. /\ stack # <<>> /\ Top.op = "ensure" /\ stack' = Front(stack)
        /\ UNCHANGED <<uflags, mflags>> /\ RootClean
    BY <1>1 DEF EnsureReturns, UpdateEnds, InDocument
  <2>2. Len(stack) = 1
    <3>1. TypeOK
      BY <1>1 DEF Inv
    <3>2. Len(stack) \in Nat /\ Len(Front(stack)) = Len(stack) - 1 /\ Front(stack) = <<>>
      BY <1>1, <2>1, <3>1, TopType
    <3>3. Len(<<>>) = 0
      OBVIOUS
    <3> QED BY <3>2, <3>3
  <2>3. DOMAIN stack = 1..Len(stack) /\ Top = stack[Len(stack)]
    BY <1>1, <2>1, TopType DEF Inv
  <2>4. \A op \in {"update", "modified"} : \A y : ~ToBeVisited(op, y)
    <3>1. \A i \in DOMAIN stack : stack[i].op = "ensure"
      BY <2>1, <2>2, <2>3
    <3> QED BY <3>1 DEF ToBeVisited
  <2>5. uflags[x] = {} /\ mflags[x] = {}
    BY <1>1, <2>1, <2>4, CleanFromTheRoot
  <2> QED BY <2>1, <2>5
<1>2. Inv /\ [Next]_vars =>
        [EnsureReturns /\ stack' = <<>> /\ ~gaveUp' =>
           \A x \in Objects : uflags'[x] = {} /\ mflags'[x] = {}]_vars
  BY <1>1
<1> QED BY <1>2, WalksKnowWhatIsLeft, PTL DEF Spec, EnsuredMeansUpToDate
=============================================================================
