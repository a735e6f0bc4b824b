---------------------------- MODULE XmlTreeProofs ----------------------------
(***************************************************************************)
(* Machine-checked proofs, for any finite set of nodes, any fields and     *)
(* values and any number of edits: the links, counts and cached positions  *)
(* of XmlTree are those of one tree, no assertion fails, and its logs are  *)
(* the versions of Versions.                                               *)
(*                                                                         *)
(* What makes it true is told in terms of contents: the children of each   *)
(* node as a sequence, and the values.  A tree may hold a content (Holds); *)
(* an event may have the effect of leading from a content to another       *)
(* (Effect); a log leads through contents (Leads).  Undoing or replaying   *)
(* an event on a tree that holds the one end gives a tree that holds the   *)
(* other; optimising and joining logs does not change where they lead.     *)
(***************************************************************************)
EXTENDS XmlTree, SequenceTheorems, FiniteSetTheorems, WellFoundedInduction, TLAPS

\* A node or the null pointer.
Maybe == Nodes \cup {None}
NodeValues == [Nodes -> [Fields -> Values \cup {None}]]

Trees == [asserted : BOOLEAN, parent : Links, next : Links, prev : Links, first : Links,
          last : Links, count : [Nodes -> Int], position : [Nodes -> Int],
          valid : [Nodes -> BOOLEAN], value : NodeValues]

LEMMA NoNode == None \notin Nodes /\ Root \in Nodes /\ IsFiniteSet(Nodes)
BY NodesAssumption

LEMMA PutIs ==
  ASSUME NEW f \in Links, NEW k \in Maybe, NEW v \in Maybe
  PROVE  /\ Put(f, k, v) \in Links
         /\ \A n \in Nodes : Put(f, k, v)[n] = IF n = k THEN v ELSE f[n]
BY NoNode DEF Put, Links, Maybe

\* What AddChild() does, member by member; new is what it makes of t, and next
\* the sibling that c comes before.
Adds(new, t, p, c, r, next) ==
  /\ new \in Trees
  /\ next = IF r = None THEN t.first[p] ELSE t.next[r]
  /\ next \in Maybe
  /\ new.asserted = (t.asserted /\ t.parent[c] = None /\ (r # None => t.parent[r] = p))
  /\ \A n \in Nodes :
       /\ new.parent[n] = IF n = c THEN p ELSE t.parent[n]
       /\ new.next[n] = IF n = c THEN next ELSE IF n = r THEN c ELSE t.next[n]
       /\ new.prev[n] = IF n = next THEN c ELSE IF n = c /\ r # None THEN r ELSE t.prev[n]
       /\ new.first[n] = IF n = p /\ r = None THEN c ELSE t.first[n]
       /\ new.last[n] = IF n = p /\ next = None THEN c ELSE t.last[n]
       /\ new.count[n] = IF n = p THEN t.count[n] + 1 ELSE t.count[n]
       /\ new.valid[n] = IF n = p THEN next = None /\ (t.valid[n] \/ r = None) ELSE t.valid[n]
       /\ n # c => new.position[n] = t.position[n]
  /\ new.position[c] = IF next = None /\ r = None THEN 0
                       ELSE IF next = None /\ t.valid[p] THEN t.position[r] + 1
                       ELSE t.position[c]
  /\ new.value = t.value

LEMMA AddChildIs ==
  ASSUME NEW t \in Trees, NEW p \in Nodes, NEW c \in Nodes, NEW r \in Maybe
  PROVE  \E next \in Maybe : Adds(AddChild(t, p, c, r), t, p, c, r, next)
<1> DEFINE next == IF r = None THEN t.first[p] ELSE t.next[r]
<1>1. next \in Maybe
  BY DEF Trees, Links, Maybe
<1> DEFINE new == AddChild(t, p, c, r)
           moved == IF r = None THEN t.prev ELSE [t.prev EXCEPT ![c] = r]
           at == IF next = None /\ r = None THEN 0
                 ELSE IF next = None /\ t.valid[p] THEN t.position[r] + 1
                 ELSE t.position[c]
<1> DEFINE asserted == t.asserted /\ t.parent[c] = None /\ (r # None => t.parent[r] = p)
           parent == [t.parent EXCEPT ![c] = p]
           nexts == [Put(t.next, r, c) EXCEPT ![c] = next]
           prev == Put(moved, next, c)
           first == [t.first EXCEPT ![p] = IF r = None THEN c ELSE @]
           last == [t.last EXCEPT ![p] = IF next = None THEN c ELSE @]
           count == [t.count EXCEPT ![p] = @ + 1]
           position == [t.position EXCEPT ![c] = at]
           valid == [t.valid EXCEPT ![p] = next = None /\ (@ \/ r = None)]
<1>2. new = [t EXCEPT !.asserted = asserted, !.parent = parent, !.next = nexts, !.prev = prev,
                      !.first = first, !.last = last, !.count = count, !.position = position,
                      !.valid = valid]
  BY DEF Trees, AddChild
<1> HIDE DEF next, new
<1>t. /\ t.parent \in Links /\ t.next \in Links /\ t.prev \in Links /\ t.first \in Links /\ t.last \in Links
      /\ t.count \in [Nodes -> Int] /\ t.position \in [Nodes -> Int] /\ t.valid \in [Nodes -> BOOLEAN]
      /\ t.value \in NodeValues /\ t.asserted \in BOOLEAN
  BY DEF Trees
<1>4. moved \in Links /\ \A n \in Nodes : moved[n] = IF n = c /\ r # None THEN r ELSE t.prev[n]
  BY <1>t, NoNode DEF Links, Maybe
<1>5. prev \in Links /\ \A n \in Nodes : prev[n] = IF n = next THEN c ELSE moved[n]
  <2> HIDE DEF moved
  <2>1. c \in Maybe
    BY DEF Maybe
  <2> QED BY <1>1, <1>4, <2>1, PutIs
<1>6. nexts \in Links /\ \A n \in Nodes : nexts[n] = IF n = c THEN next ELSE IF n = r THEN c ELSE t.next[n]
  <2>1. c \in Maybe
    BY DEF Maybe
  <2> DEFINE g == t.next
             f == Put(g, r, c)
  <2>0. g \in Links
    BY <1>t
  <2> HIDE DEF g
  <2>2. f \in Links /\ \A n \in Nodes : f[n] = IF n = r THEN c ELSE g[n]
    BY <2>0, <2>1, PutIs
  <2>3. nexts = [f EXCEPT ![c] = next]
    BY DEF g
  <2> HIDE DEF f
  <2> QED BY <1>1, <2>2, <2>3 DEF g, Links, Maybe
<1>7. at \in Int
  BY <1>t, <1>1 DEF Maybe
<1> HIDE DEF at, moved
<1>8. /\ parent \in Links /\ \A n \in Nodes : parent[n] = IF n = c THEN p ELSE t.parent[n]
      /\ first \in Links /\ \A n \in Nodes : first[n] = IF n = p /\ r = None THEN c ELSE t.first[n]
      /\ last \in Links /\ \A n \in Nodes : last[n] = IF n = p /\ next = None THEN c ELSE t.last[n]
  BY <1>t DEF Links
<1>9. /\ count \in [Nodes -> Int] /\ \A n \in Nodes : count[n] = IF n = p THEN t.count[n] + 1 ELSE t.count[n]
      /\ position \in [Nodes -> Int]
      /\ \A n \in Nodes : n # c => position[n] = t.position[n]
      /\ position[c] = at
  BY <1>t, <1>7
<1>10. /\ valid \in [Nodes -> BOOLEAN]
       /\ \A n \in Nodes : valid[n] = IF n = p THEN next = None /\ (t.valid[n] \/ r = None) ELSE t.valid[n]
  BY <1>t
<1>11. asserted \in BOOLEAN
  OBVIOUS
<1>12. new \in Trees
  <2>2. /\ asserted \in BOOLEAN /\ parent \in Links /\ nexts \in Links /\ prev \in Links
        /\ first \in Links /\ last \in Links /\ count \in [Nodes -> Int]
        /\ position \in [Nodes -> Int] /\ valid \in [Nodes -> BOOLEAN]
    BY <1>5, <1>6, <1>8, <1>9, <1>10, <1>11
  <2> HIDE DEF asserted, parent, nexts, prev, first, last, count, position, valid
  <2> QED BY <1>2, <2>2 DEF Trees
<1>13. /\ new.asserted = asserted /\ new.parent = parent /\ new.next = nexts /\ new.prev = prev
       /\ new.first = first /\ new.last = last /\ new.count = count /\ new.position = position
       /\ new.valid = valid /\ new.value = t.value
  <2> HIDE DEF asserted, parent, nexts, prev, first, last, count, position, valid
  <2> QED BY <1>2 DEF Trees
<1>14. next = IF r = None THEN t.first[p] ELSE t.next[r]
  BY DEF next
<1> HIDE DEF parent, nexts, prev, first, last, count, position, valid
<1>15. Adds(new, t, p, c, r, next)
  BY <1>1, <1>4, <1>5, <1>6, <1>8, <1>9, <1>10, <1>12, <1>13, <1>14 DEF Adds, at
<1> QED BY <1>1, <1>15 DEF new

\* What RemoveChild() does, member by member.
Removes(new, t, p, c) ==
  /\ new \in Trees
  /\ new.asserted = (t.asserted /\ t.parent[c] = p)
  /\ \A n \in Nodes :
       /\ new.parent[n] = IF n = c THEN None ELSE t.parent[n]
       /\ new.next[n] = IF n = c THEN None ELSE IF n = t.prev[c] THEN t.next[c] ELSE t.next[n]
       /\ new.prev[n] = IF n = c THEN None ELSE IF n = t.next[c] THEN t.prev[c] ELSE t.prev[n]
       /\ new.first[n] = IF n = p /\ t.prev[c] = None THEN t.next[c] ELSE t.first[n]
       /\ new.last[n] = IF n = p /\ t.next[c] = None THEN t.prev[c] ELSE t.last[n]
       /\ new.count[n] = IF n = p THEN t.count[n] - 1 ELSE t.count[n]
       /\ new.valid[n] = IF n = p THEN t.valid[n] /\ t.next[c] = None ELSE t.valid[n]
       /\ new.position[n] = t.position[n]
  /\ new.value = t.value

LEMMA RemoveChildIs ==
  ASSUME NEW t \in Trees, NEW p \in Nodes, NEW c \in Nodes
  PROVE  Removes(RemoveChild(t, p, c), t, p, c)
<1> DEFINE ref == t.prev[c]
           next == t.next[c]
           new == RemoveChild(t, p, c)
           asserted == t.asserted /\ t.parent[c] = p
           parent == [t.parent EXCEPT ![c] = None]
           nexts == [Put(t.next, ref, next) EXCEPT ![c] = None]
           prev == [Put(t.prev, next, ref) EXCEPT ![c] = None]
           first == [t.first EXCEPT ![p] = IF ref = None THEN next ELSE @]
           last == [t.last EXCEPT ![p] = IF next = None THEN ref ELSE @]
           count == [t.count EXCEPT ![p] = @ - 1]
           valid == [t.valid EXCEPT ![p] = @ /\ next = None]
<1>1. ref \in Maybe /\ next \in Maybe
  BY DEF Trees, Links, Maybe
<1>2. new = [t EXCEPT !.asserted = asserted, !.parent = parent, !.next = nexts, !.prev = prev,
                      !.first = first, !.last = last, !.count = count, !.valid = valid]
  BY DEF Trees, RemoveChild
<1> HIDE DEF ref, next, new
<1>t. /\ t.parent \in Links /\ t.next \in Links /\ t.prev \in Links /\ t.first \in Links /\ t.last \in Links
      /\ t.count \in [Nodes -> Int] /\ t.valid \in [Nodes -> BOOLEAN] /\ t.asserted \in BOOLEAN
  BY DEF Trees
<1>3. nexts \in Links /\ \A n \in Nodes : nexts[n] = IF n = c THEN None ELSE IF n = ref THEN next ELSE t.next[n]
  <2> DEFINE g == t.next
             f == Put(g, ref, next)
  <2>0. g \in Links
    BY <1>t
  <2> HIDE DEF g
  <2>2. f \in Links /\ \A n \in Nodes : f[n] = IF n = ref THEN next ELSE g[n]
    BY <2>0, <1>1, PutIs
  <2>3. nexts = [f EXCEPT ![c] = None]
    BY DEF g
  <2> HIDE DEF f, nexts
  <2> QED BY <1>1, <2>2, <2>3 DEF g, Links, Maybe
<1>4. prev \in Links /\ \A n \in Nodes : prev[n] = IF n = c THEN None ELSE IF n = next THEN ref ELSE t.prev[n]
  <2> DEFINE g == t.prev
             f == Put(g, next, ref)
  <2>0. g \in Links
    BY <1>t
  <2> HIDE DEF g
  <2>2. f \in Links /\ \A n \in Nodes : f[n] = IF n = next THEN ref ELSE g[n]
    BY <2>0, <1>1, PutIs
  <2>3. prev = [f EXCEPT ![c] = None]
    BY DEF g
  <2> HIDE DEF f, prev
  <2> QED BY <1>1, <2>2, <2>3 DEF g, Links, Maybe
<1>5. /\ parent \in Links /\ \A n \in Nodes : parent[n] = IF n = c THEN None ELSE t.parent[n]
      /\ first \in Links /\ \A n \in Nodes : first[n] = IF n = p /\ ref = None THEN next ELSE t.first[n]
      /\ last \in Links /\ \A n \in Nodes : last[n] = IF n = p /\ next = None THEN ref ELSE t.last[n]
  BY <1>t, <1>1 DEF Links, Maybe
<1>6. /\ count \in [Nodes -> Int] /\ \A n \in Nodes : count[n] = IF n = p THEN t.count[n] - 1 ELSE t.count[n]
      /\ valid \in [Nodes -> BOOLEAN]
      /\ \A n \in Nodes : valid[n] = IF n = p THEN t.valid[n] /\ next = None ELSE t.valid[n]
      /\ asserted \in BOOLEAN
  BY <1>t
<1> HIDE DEF parent, nexts, prev, first, last, count, valid
<1>7. new \in Trees
  <2> HIDE DEF asserted
  <2> QED BY <1>2, <1>3, <1>4, <1>5, <1>6 DEF Trees
<1>8. /\ new.asserted = asserted /\ new.parent = parent /\ new.next = nexts /\ new.prev = prev
      /\ new.first = first /\ new.last = last /\ new.count = count /\ new.position = t.position
      /\ new.valid = valid /\ new.value = t.value
  <2> HIDE DEF asserted
  <2> QED BY <1>2 DEF Trees
<1> QED BY <1>3, <1>4, <1>5, <1>6, <1>7, <1>8 DEF Removes, ref, next, new

\* What ChangeOrder() does: a tree with a gap in place of c, and then the new one.
Gaps(gap, t, p, c) ==
  /\ gap \in Trees
  /\ gap.asserted = t.asserted /\ gap.parent = t.parent /\ gap.count = t.count
  /\ gap.valid = t.valid /\ gap.position = t.position /\ gap.value = t.value
  /\ \A n \in Nodes :
       /\ gap.next[n] = IF n = t.prev[c] THEN t.next[c] ELSE t.next[n]
       /\ gap.prev[n] = IF n = t.next[c] THEN t.prev[c] ELSE t.prev[n]
       /\ gap.first[n] = IF n = p /\ t.prev[c] = None THEN t.next[c] ELSE t.first[n]
       /\ gap.last[n] = IF n = p /\ t.next[c] = None THEN t.prev[c] ELSE t.last[n]

Fills(new, gap, p, c, r, next) ==
  /\ new \in Trees
  /\ new.asserted = gap.asserted /\ new.parent = gap.parent /\ new.count = gap.count
  /\ new.position = gap.position /\ new.value = gap.value
  /\ next = IF r = None THEN gap.first[p] ELSE gap.next[r]
  /\ next \in Maybe
  /\ \A n \in Nodes :
       /\ new.next[n] = IF n = c THEN next ELSE IF n = r THEN c ELSE gap.next[n]
       /\ new.prev[n] = IF n = c THEN r ELSE IF n = next THEN c ELSE gap.prev[n]
       /\ new.first[n] = IF n = p /\ r = None THEN c ELSE gap.first[n]
       /\ new.last[n] = IF n = p /\ next = None THEN c ELSE gap.last[n]
       /\ new.valid[n] = IF n = p THEN FALSE ELSE gap.valid[n]

LEMMA ChangeOrderIs ==
  ASSUME NEW t \in Trees, NEW p \in Nodes, NEW c \in Nodes, NEW r \in Maybe, Reorders(t, p, c, r)
  PROVE  \E gap, next : Gaps(gap, t, p, c) /\ Fills(ChangeOrder(t, p, c, r), gap, p, c, r, next)
<1> DEFINE ref == t.prev[c]
           after == t.next[c]
           nexts == Put(t.next, ref, after)
           prev == Put(t.prev, after, ref)
           first == [t.first EXCEPT ![p] = IF ref = None THEN after ELSE @]
           last == [t.last EXCEPT ![p] = IF after = None THEN ref ELSE @]
           gap == [t EXCEPT !.next = Put(@, ref, after),
                            !.first[p] = IF ref = None THEN after ELSE @,
                            !.prev = Put(@, after, ref),
                            !.last[p] = IF after = None THEN ref ELSE @]
           next == IF r = None THEN gap.first[p] ELSE gap.next[r]
<1>1. ref \in Maybe /\ after \in Maybe
  BY DEF Trees, Links, Maybe
<1>2. gap = [t EXCEPT !.next = nexts, !.first = first, !.prev = prev, !.last = last]
  BY DEF Trees
<1>3. ChangeOrder(t, p, c, r) =
        [gap EXCEPT !.next = [Put(@, r, c) EXCEPT ![c] = next],
                    !.first[p] = IF r = None THEN c ELSE @,
                    !.prev = [Put(@, next, c) EXCEPT ![c] = r],
                    !.last[p] = IF next = None THEN c ELSE @,
                    !.valid[p] = FALSE]
  BY DEF ChangeOrder
<1> HIDE DEF gap, ref, after
<1>t. /\ t.next \in Links /\ t.prev \in Links /\ t.first \in Links /\ t.last \in Links
  BY DEF Trees
<1>4. nexts \in Links /\ \A n \in Nodes : nexts[n] = IF n = ref THEN after ELSE t.next[n]
  <2> DEFINE g == t.next
  <2>0. g \in Links
    BY <1>t
  <2> HIDE DEF g
  <2>1. Put(g, ref, after) \in Links /\ \A n \in Nodes : Put(g, ref, after)[n] = IF n = ref THEN after ELSE g[n]
    BY <2>0, <1>1, PutIs
  <2> QED BY <2>1 DEF g
<1>5. prev \in Links /\ \A n \in Nodes : prev[n] = IF n = after THEN ref ELSE t.prev[n]
  <2> DEFINE g == t.prev
  <2>0. g \in Links
    BY <1>t
  <2> HIDE DEF g
  <2>1. Put(g, after, ref) \in Links /\ \A n \in Nodes : Put(g, after, ref)[n] = IF n = after THEN ref ELSE g[n]
    BY <2>0, <1>1, PutIs
  <2> QED BY <2>1 DEF g
<1>6. /\ first \in Links /\ \A n \in Nodes : first[n] = IF n = p /\ ref = None THEN after ELSE t.first[n]
      /\ last \in Links /\ \A n \in Nodes : last[n] = IF n = p /\ after = None THEN ref ELSE t.last[n]
  BY <1>t, <1>1 DEF Links, Maybe
<1> HIDE DEF nexts, prev, first, last
<1>7. gap \in Trees
  BY <1>2, <1>4, <1>5, <1>6 DEF Trees
<1>8. /\ gap.next = nexts /\ gap.prev = prev /\ gap.first = first /\ gap.last = last
      /\ gap.asserted = t.asserted /\ gap.parent = t.parent /\ gap.count = t.count
      /\ gap.valid = t.valid /\ gap.position = t.position /\ gap.value = t.value
  BY <1>2 DEF Trees
<1>9. Gaps(gap, t, p, c)
  BY <1>4, <1>5, <1>6, <1>7, <1>8 DEF Gaps, ref, after
<1> DEFINE new == ChangeOrder(t, p, c, r)
           nexts2 == [Put(gap.next, r, c) EXCEPT ![c] = next]
           prev2 == [Put(gap.prev, next, c) EXCEPT ![c] = r]
           first2 == [gap.first EXCEPT ![p] = IF r = None THEN c ELSE @]
           last2 == [gap.last EXCEPT ![p] = IF next = None THEN c ELSE @]
           valid2 == [gap.valid EXCEPT ![p] = FALSE]
<1>g. /\ gap.next \in Links /\ gap.prev \in Links /\ gap.first \in Links /\ gap.last \in Links
      /\ gap.valid \in [Nodes -> BOOLEAN]
  BY <1>7 DEF Trees
<1>10. next = IF r = None THEN gap.first[p] ELSE gap.next[r]
  OBVIOUS
<1>11. next \in Maybe /\ c \in Maybe
  BY <1>g DEF Links, Maybe
<1> HIDE DEF next
<1>12. new = [gap EXCEPT !.next = nexts2, !.first = first2, !.prev = prev2, !.last = last2, !.valid = valid2]
  BY <1>3, <1>7 DEF Trees
<1> HIDE DEF new
<1>13. nexts2 \in Links /\ \A n \in Nodes : nexts2[n] = IF n = c THEN next ELSE IF n = r THEN c ELSE gap.next[n]
  <2> DEFINE g == gap.next
             f == Put(g, r, c)
  <2>0. g \in Links
    BY <1>g
  <2> HIDE DEF g
  <2>2. f \in Links /\ \A n \in Nodes : f[n] = IF n = r THEN c ELSE g[n]
    BY <2>0, <1>11, PutIs
  <2>3. nexts2 = [f EXCEPT ![c] = next]
    BY DEF g
  <2> HIDE DEF f, nexts2
  <2> QED BY <1>11, <2>2, <2>3 DEF g, Links, Maybe
<1>14. prev2 \in Links /\ \A n \in Nodes : prev2[n] = IF n = c THEN r ELSE IF n = next THEN c ELSE gap.prev[n]
  <2> DEFINE g == gap.prev
             f == Put(g, next, c)
  <2>0. g \in Links
    BY <1>g
  <2> HIDE DEF g
  <2>2. f \in Links /\ \A n \in Nodes : f[n] = IF n = next THEN c ELSE g[n]
    BY <2>0, <1>11, PutIs
  <2>3. prev2 = [f EXCEPT ![c] = r]
    BY DEF g
  <2> HIDE DEF f, prev2
  <2> QED BY <1>11, <2>2, <2>3 DEF g, Links, Maybe
<1>15. /\ first2 \in Links /\ \A n \in Nodes : first2[n] = IF n = p /\ r = None THEN c ELSE gap.first[n]
       /\ last2 \in Links /\ \A n \in Nodes : last2[n] = IF n = p /\ next = None THEN c ELSE gap.last[n]
  BY <1>g, <1>11 DEF Links, Maybe
<1>16. valid2 \in [Nodes -> BOOLEAN] /\ \A n \in Nodes : valid2[n] = IF n = p THEN FALSE ELSE gap.valid[n]
  BY <1>g
<1> HIDE DEF nexts2, prev2, first2, last2, valid2
<1>17. new \in Trees
  BY <1>7, <1>12, <1>13, <1>14, <1>15, <1>16 DEF Trees
<1>18. /\ new.next = nexts2 /\ new.prev = prev2 /\ new.first = first2 /\ new.last = last2
       /\ new.valid = valid2
       /\ new.asserted = gap.asserted /\ new.parent = gap.parent /\ new.count = gap.count
       /\ new.position = gap.position /\ new.value = gap.value
  BY <1>7, <1>12 DEF Trees
<1>19. Fills(new, gap, p, c, r, next)
  BY <1>10, <1>11, <1>13, <1>14, <1>15, <1>16, <1>17, <1>18 DEF Fills
<1> QED BY <1>9, <1>19 DEF new

LEMMA SetValueIs ==
  ASSUME NEW t \in Trees, NEW n \in Nodes, NEW f \in Fields, NEW v \in Values \cup {None}
  PROVE  LET new == SetValue(t, n, f, v)
         IN  /\ new \in Trees
             /\ new.asserted = t.asserted /\ new.parent = t.parent /\ new.next = t.next
             /\ new.prev = t.prev /\ new.first = t.first /\ new.last = t.last
             /\ new.count = t.count /\ new.position = t.position /\ new.valid = t.valid
             /\ new.value = [t.value EXCEPT ![n][f] = v]
<1> DEFINE new == SetValue(t, n, f, v)
           value == [t.value EXCEPT ![n][f] = v]
<1>1. new = [t EXCEPT !.value = value]
  BY DEF Trees, SetValue
<1>2. value \in NodeValues
  BY DEF Trees, NodeValues
<1> HIDE DEF value, new
<1>3. /\ new \in Trees
      /\ new.asserted = t.asserted /\ new.parent = t.parent /\ new.next = t.next
      /\ new.prev = t.prev /\ new.first = t.first /\ new.last = t.last
      /\ new.count = t.count /\ new.position = t.position /\ new.valid = t.valid
      /\ new.value = value
  BY <1>1, <1>2 DEF Trees
<1> QED BY <1>3 DEF value, new

-----------------------------------------------------------------------------
(* What a tree holds, and how it is stored.                                *)

Contents == [children : [Nodes -> Seq(Nodes)], value : NodeValues]

\* Nobody is a child twice.
Sound(a) ==
  /\ a \in Contents
  /\ \A p, q \in Nodes : \A i \in 1..Len(a.children[p]), j \in 1..Len(a.children[q]) :
       a.children[p][i] = a.children[q][j] => p = q /\ i = j

At(s, i) == IF i \in 1..Len(s) THEN s[i] ELSE None

\* The links of t list s as the children of p, and so do its other members.
Linked(t, p, s) ==
  /\ t.first[p] = At(s, 1) /\ t.last[p] = At(s, Len(s))
  /\ \A i \in 1..Len(s) : t.next[s[i]] = At(s, i + 1) /\ t.prev[s[i]] = At(s, i - 1)

Lists(t, p, s) ==
  /\ Linked(t, p, s) /\ t.count[p] = Len(s)
  /\ \A i \in 1..Len(s) : t.parent[s[i]] = p /\ (t.valid[p] => t.position[s[i]] = i - 1)

\* The nodes of t, with all that simple-node.cpp keeps in them, hold the content a.
Holds(t, a) ==
  /\ t \in Trees /\ Sound(a) /\ t.asserted /\ t.value = a.value
  /\ \A n \in Nodes : t.position[n] \in 0..Cardinality(Nodes)
  /\ \A p \in Nodes : Lists(t, p, a.children[p])
  /\ \A n \in Nodes : t.parent[n] = None => t.next[n] = None /\ t.prev[n] = None
  /\ \A n \in Nodes : t.parent[n] # None =>
       \E i \in 1..Len(a.children[t.parent[n]]) : a.children[t.parent[n]][i] = n

\* u is s with k behind its first j nodes.
Inserts(s, u, j, k) ==
  /\ j \in 0..Len(s) /\ Len(u) = Len(s) + 1
  /\ \A i \in 1..j : u[i] = s[i]
  /\ u[j + 1] = k
  /\ \A i \in j + 1..Len(s) : u[i + 1] = s[i]

Orphan(a, k) == \A q \in Nodes : \A i \in 1..Len(a.children[q]) : a.children[q][i] # k

\* b is a with the orphan k as a child of p behind r, or as its first.
Inserted(a, b, p, k, r) ==
  /\ Sound(a) /\ Sound(b) /\ p \in Nodes /\ k \in Nodes /\ Orphan(a, k)
  /\ \E j \in 0..Len(a.children[p]) :
       At(a.children[p], j) = r /\ Inserts(a.children[p], b.children[p], j, k)
  /\ \A q \in Nodes : q # p => b.children[q] = a.children[q]
  /\ b.value = a.value

LEMMA ChildrenOf ==
  ASSUME NEW a, Sound(a), NEW p \in Nodes
  PROVE  /\ a.children[p] \in Seq(Nodes) /\ Len(a.children[p]) \in Nat
         /\ \A i \in 1..Len(a.children[p]) : a.children[p][i] \in Nodes /\ a.children[p][i] # None
<1>1. a.children[p] \in Seq(Nodes)
  BY DEF Sound, Contents
<1> QED BY <1>1, NoNode, ElementOfSeq, LenProperties

\* No node has more children than there are nodes.
LEMMA FewChildren ==
  ASSUME NEW a, Sound(a), NEW p \in Nodes
  PROVE  Cardinality(Nodes) \in Nat /\ Len(a.children[p]) <= Cardinality(Nodes)
<1> DEFINE s == a.children[p]
<1>1. s \in Seq(Nodes) /\ Len(s) \in Nat /\ \A i \in 1..Len(s) : s[i] \in Nodes
  BY ChildrenOf
<1>2. \A i, j \in 1..Len(s) : s[i] = s[j] => i = j
  BY DEF Sound
<1> HIDE DEF s
<1>3. Cardinality(Nodes) \in Nat
  BY NoNode, FS_CardinalityType
<1>4. IsFiniteSet(1..Len(s)) /\ Cardinality(1..Len(s)) = Len(s)
  <2>1. \A n \in Nat : IsFiniteSet(1..n) /\ Cardinality(1..n) = IF 1 > n THEN 0 ELSE n - 1 + 1
    BY FS_Interval
  <2>2. \A n \in Nat : (IF 1 > n THEN 0 ELSE n - 1 + 1) = n
    OBVIOUS
  <2> QED BY <1>1, <2>1, <2>2
<1> SUFFICES ASSUME ~(Len(s) <= Cardinality(Nodes)) PROVE FALSE
  BY <1>3 DEF s
<1>5. [i \in 1..Len(s) |-> s[i]] \in [1..Len(s) -> Nodes]
  BY <1>1
<1>6. \E x, y \in 1..Len(s) : x # y /\ [i \in 1..Len(s) |-> s[i]][x] = [i \in 1..Len(s) |-> s[i]][y]
  BY <1>1, <1>3, <1>4, <1>5, NoNode, FS_PigeonHole
<1> QED BY <1>2, <1>6

LEMMA InsertedAt ==
  ASSUME NEW a, NEW b, NEW p, NEW k, NEW r, Inserted(a, b, p, k, r)
  PROVE  /\ p \in Nodes /\ k \in Nodes /\ r \in Maybe
         /\ \E j \in 0..Len(a.children[p]) :
              /\ Inserts(a.children[p], b.children[p], j, k)
              /\ r = At(a.children[p], j)
<1>1. p \in Nodes /\ k \in Nodes /\ Sound(a)
  BY DEF Inserted
<1> DEFINE s == a.children[p]
<1>2. Len(s) \in Nat /\ \A i \in 1..Len(s) : s[i] \in Nodes
  BY <1>1, ChildrenOf
<1>3. PICK j \in 0..Len(s) : At(s, j) = r /\ Inserts(s, b.children[p], j, k)
  BY DEF Inserted
<1> HIDE DEF s
<1>4. r \in Maybe
  BY <1>2, <1>3 DEF At, Maybe
<1> QED BY <1>1, <1>3, <1>4 DEF s

\* A list of nodes, none of which is there twice.
Plain(s) == s \in Seq(Nodes) /\ \A x, y \in 1..Len(s) : s[x] = s[y] => x = y

Inserting(s, u, j, k) ==
  /\ Len(s) \in Nat /\ j \in 0..Len(s)
  /\ Len(u) = Len(s) + 1 /\ u[j + 1] = k
  /\ \A i \in 1..j : u[i] = s[i]
  /\ \A i \in j + 2..Len(u) : u[i] = s[i - 1] /\ i - 1 \in 1..Len(s)
  /\ \A i \in 1..Len(u) : i \in 1..j \/ i = j + 1 \/ i \in j + 2..Len(u)

LEMMA InsertsAt ==
  ASSUME NEW s, NEW u, NEW j, NEW k, Plain(s), Inserts(s, u, j, k)
  PROVE  Inserting(s, u, j, k)
<1>1. Len(s) \in Nat /\ j \in 0..Len(s)
  BY LenProperties DEF Plain, Inserts
<1>2. Len(u) = Len(s) + 1 /\ u[j + 1] = k /\ \A i \in 1..j : u[i] = s[i]
  BY DEF Inserts
<1>3. ASSUME NEW i \in j + 2..Len(u) PROVE u[i] = s[i - 1] /\ i - 1 \in 1..Len(s)
  <2>1. i - 1 \in j + 1..Len(s) /\ (i - 1) + 1 = i /\ i - 1 \in 1..Len(s)
    BY <1>1, <1>2
  <2> QED BY <2>1 DEF Inserts
<1> QED BY <1>1, <1>2, <1>3 DEF Inserting

\* The links of new are those of t with c put in behind r, before next.
Joined(new, t, p, c, r, next) ==
  /\ next = IF r = None THEN t.first[p] ELSE t.next[r]
  /\ \A n \in Nodes :
       /\ new.next[n] = IF n = c THEN next ELSE IF n = r THEN c ELSE t.next[n]
       /\ new.prev[n] = IF n = c THEN r ELSE IF n = next THEN c ELSE t.prev[n]
       /\ new.first[n] = IF n = p /\ r = None THEN c ELSE t.first[n]
       /\ new.last[n] = IF n = p /\ next = None THEN c ELSE t.last[n]

LEMMA NextIs ==
  ASSUME NEW t, NEW p, NEW s, NEW j \in 0..Len(s), NEW r, NEW next, Plain(s),
         r = At(s, j), next = IF r = None THEN t.first[p] ELSE t.next[r],
         Linked(t, p, s)
  PROVE  next = At(s, j + 1)
<1>1. Len(s) \in Nat /\ \A i \in 1..Len(s) : s[i] \in Nodes /\ s[i] # None
  BY ElementOfSeq, LenProperties, NoNode DEF Plain
<1>b. r = (IF j = 0 THEN None ELSE s[j]) /\ next = IF r = None THEN t.first[p] ELSE t.next[r]
  BY <1>1 DEF At
<1>2. CASE j = 0
  BY <1>2, <1>b DEF Linked
<1>3. CASE j # 0
  <2>1. j \in 1..Len(s) /\ r = s[j]
    BY <1>1, <1>3, <1>b
  <2> QED BY <2>1, <1>1, <1>b DEF Linked
<1> QED BY <1>2, <1>3

LEMMA LinkedJoined ==
  ASSUME NEW new, NEW t, NEW p \in Nodes, NEW k \in Nodes, NEW r, NEW next, NEW s, NEW u,
         NEW j \in 0..Len(s),
         Plain(s), Inserts(s, u, j, k), \A i \in 1..Len(s) : s[i] # k,
         r = At(s, j),
         Linked(t, p, s), Joined(new, t, p, k, r, next)
  PROVE  Linked(new, p, u)
<1>1. k \in Nodes /\ p \in Nodes /\ j \in 0..Len(s)
  BY DEF Inserts
<1>2. r = IF j = 0 THEN None ELSE s[j]
  BY <1>1 DEF At
<1>4. Joined(new, t, p, k, r, next)
  OBVIOUS
<1>s. Len(s) \in Nat /\ \A i \in 1..Len(s) : s[i] \in Nodes /\ s[i] # None
  BY ElementOfSeq, LenProperties, NoNode DEF Plain
<1>l. Linked(t, p, s)
  OBVIOUS
<1>d. /\ \A i \in 1..Len(s) : s[i] # k
      /\ \A x, y \in 1..Len(s) : s[x] = s[y] => x = y
  BY DEF Plain
<1>u. /\ Len(u) = Len(s) + 1 /\ u[j + 1] = k
      /\ \A i \in 1..j : u[i] = s[i]
      /\ \A i \in j + 2..Len(u) : u[i] = s[i - 1] /\ i - 1 \in 1..Len(s)
      /\ \A i \in 1..Len(u) : i \in 1..j \/ i = j + 1 \/ i \in j + 2..Len(u)
  BY InsertsAt DEF Inserting
<1>6. next = At(s, j + 1)
  <2>1. next = IF r = None THEN t.first[p] ELSE t.next[r]
    BY DEF Joined
  <2> QED BY <2>1, NextIs
<1>9. next = None <=> j = Len(s)
  BY <1>1, <1>6, <1>s DEF At
<1>11. new.first[p] = At(u, 1)
  BY <1>1, <1>2, <1>4, <1>s, <1>l, <1>u DEF Joined, Linked, At
<1>12. new.last[p] = At(u, Len(u))
  BY <1>1, <1>2, <1>4, <1>9, <1>s, <1>l, <1>u DEF Joined, Linked, At
<1>15. ASSUME NEW i \in 1..Len(u) PROVE new.next[u[i]] = At(u, i + 1)
  <2>1. CASE i \in 1..j
    <3>1. /\ s[i] \in Nodes /\ u[i] = s[i] /\ s[i] # k /\ i \in 1..Len(s)
          /\ t.next[s[i]] = At(s, i + 1) /\ (s[i] = r <=> i = j)
      BY <2>1, <1>2, <1>s, <1>d, <1>u, <1>l DEF Linked
    <3>2. new.next[u[i]] = IF i = j THEN k ELSE At(s, i + 1)
      BY <3>1, <1>4 DEF Joined
    <3>3. i # j => i + 1 \in 1..j /\ i + 1 \in 1..Len(s)
      BY <2>1, <1>s
    <3>4. i + 1 \in 1..Len(u)
      BY <2>1, <1>s, <1>u
    <3> QED BY <3>2, <3>3, <3>4, <1>u DEF At
  <2>2. CASE i = j + 1
    <3>1. new.next[u[i]] = At(s, j + 1)
      BY <2>2, <1>1, <1>4, <1>6, <1>u DEF Joined
    <3>2. CASE j = Len(s)
      BY <3>1, <3>2, <2>2, <1>s, <1>u DEF At
    <3>3. CASE j # Len(s)
      <4>1. i + 1 \in j + 2..Len(u) /\ i + 1 \in 1..Len(u) /\ (i + 1) - 1 = j + 1 /\ j + 1 \in 1..Len(s)
        BY <3>3, <2>2, <1>s, <1>u
      <4> QED BY <3>1, <4>1, <1>u DEF At
    <3> QED BY <3>2, <3>3
  <2>3. CASE i \in j + 2..Len(u)
    <3>1. /\ u[i] = s[i - 1] /\ i - 1 \in 1..Len(s) /\ s[i - 1] \in Nodes /\ s[i - 1] # k
          /\ t.next[s[i - 1]] = At(s, (i - 1) + 1) /\ (i - 1) + 1 = i
      BY <2>3, <1>s, <1>d, <1>u, <1>l DEF Linked
    <3>2. s[i - 1] # r
      <4>1. CASE j = 0
        BY <4>1, <3>1, <1>2, <1>s
      <4>2. CASE j # 0
        <5>1. r = s[j] /\ j \in 1..Len(s) /\ i - 1 # j
          BY <4>2, <2>3, <1>2, <1>s
        <5> QED BY <5>1, <3>1, <1>d
      <4> QED BY <4>1, <4>2
    <3>3. new.next[u[i]] = At(s, i)
      BY <3>1, <3>2, <1>4 DEF Joined
    <3>4. CASE i = Len(u)
      BY <3>3, <3>4, <1>s, <1>u DEF At
    <3>5. CASE i # Len(u)
      <4>1. i + 1 \in j + 2..Len(u) /\ i + 1 \in 1..Len(u) /\ (i + 1) - 1 = i /\ i \in 1..Len(s)
        BY <3>5, <2>3, <1>s, <1>u
      <4> QED BY <3>3, <4>1, <1>u DEF At
    <3> QED BY <3>4, <3>5
  <2> QED BY <2>1, <2>2, <2>3, <1>u
<1>16. ASSUME NEW i \in 1..Len(u) PROVE new.prev[u[i]] = At(u, i - 1)
  <2>1. CASE i \in 1..j
    <3>1. /\ s[i] \in Nodes /\ u[i] = s[i] /\ s[i] # k /\ i \in 1..Len(s)
          /\ t.prev[s[i]] = At(s, i - 1)
      BY <2>1, <1>2, <1>s, <1>d, <1>u, <1>l DEF Linked
    <3>2. s[i] # next
      BY <3>1, <2>1, <1>2, <1>6, <1>s, <1>d DEF At
    <3>3. new.prev[u[i]] = At(s, i - 1)
      BY <3>1, <3>2, <1>4 DEF Joined
    <3>4. i # 1 => i - 1 \in 1..j /\ i - 1 \in 1..Len(s) /\ i - 1 \in 1..Len(u)
      BY <2>1, <1>s, <1>u
    <3> QED BY <3>3, <3>4, <1>u DEF At
  <2>2. CASE i = j + 1
    <3>1. next # k
      BY <1>6, <1>s, <1>d, <1>1, NoNode DEF At
    <3>2. new.prev[u[i]] = r
      BY <3>1, <2>2, <1>1, <1>4, <1>u DEF Joined
    <3>3. j # 0 => j \in 1..j /\ j \in 1..Len(u) /\ i - 1 = j
      BY <2>2, <1>s, <1>u
    <3>4. j = 0 => i - 1 = 0
      BY <2>2
    <3> QED BY <3>2, <3>3, <3>4, <1>2, <1>u DEF At
  <2>3. CASE i \in j + 2..Len(u)
    <3>1. /\ u[i] = s[i - 1] /\ i - 1 \in 1..Len(s) /\ s[i - 1] \in Nodes /\ s[i - 1] # k
          /\ t.prev[s[i - 1]] = At(s, (i - 1) - 1) /\ i - 1 \in 1..Len(u)
      BY <2>3, <1>s, <1>d, <1>u, <1>l DEF Linked
    <3>2. CASE i = j + 2
      <4>1. s[i - 1] = next
        BY <3>1, <3>2, <1>6 DEF At
      <4>2. new.prev[u[i]] = k
        BY <4>1, <3>1, <1>4 DEF Joined
      <4>3. i - 1 = j + 1
        BY <3>2
      <4> QED BY <4>2, <4>3, <3>1, <1>u DEF At
    <3>3. CASE i # j + 2
      <4>1. /\ i - 1 \in j + 2..Len(u) /\ (i - 1) - 1 \in 1..Len(s) /\ i - 1 # j + 1
        BY <3>3, <2>3, <1>s, <1>u
      <4>2. s[i - 1] # next
        BY <3>1, <4>1, <1>6, <1>s, <1>d DEF At
      <4>3. new.prev[u[i]] = At(s, (i - 1) - 1)
        BY <4>2, <3>1, <1>4 DEF Joined
      <4> QED BY <4>1, <4>3, <3>1, <1>u DEF At
    <3> QED BY <3>2, <3>3
  <2> QED BY <2>1, <2>2, <2>3, <1>u
<1> QED BY <1>11, <1>12, <1>15, <1>16 DEF Linked

\* The other lists remain.
LEMMA LinkedElsewhere ==
  ASSUME NEW new, NEW t, NEW p \in Nodes, NEW q \in Nodes, NEW k, NEW r, NEW next, NEW v,
         q # p, Plain(v), \A i \in 1..Len(v) : v[i] # k /\ v[i] # r /\ v[i] # next,
         Linked(t, q, v), Joined(new, t, p, k, r, next)
  PROVE  Linked(new, q, v)
<1>1. \A i \in 1..Len(v) : v[i] \in Nodes
  BY ElementOfSeq DEF Plain
<1>2. \A i \in 1..Len(v) : new.next[v[i]] = t.next[v[i]] /\ new.prev[v[i]] = t.prev[v[i]]
  BY <1>1 DEF Joined
<1>3. new.first[q] = t.first[q] /\ new.last[q] = t.last[q]
  BY DEF Joined
<1> QED BY <1>2, <1>3 DEF Linked

LEMMA HoldsAdded ==
  ASSUME NEW t, NEW a, NEW b, NEW p, NEW k, NEW r, Holds(t, a), Inserted(a, b, p, k, r)
  PROVE  Holds(AddChild(t, p, k, r), b)
<1> DEFINE s == a.children[p]
           u == b.children[p]
           new == AddChild(t, p, k, r)
<1>1. p \in Nodes /\ k \in Nodes /\ r \in Maybe
  BY InsertedAt
<1>j. PICK j \in 0..Len(s) : Inserts(s, u, j, k) /\ r = At(s, j)
  BY InsertedAt
<1>2. Inserts(s, u, j, k) /\ r = IF j = 0 THEN None ELSE s[j]
  BY <1>j DEF At
<1>3. t \in Trees /\ Sound(a) /\ Sound(b)
  BY DEF Holds, Inserted
<1>4. PICK next \in Maybe : Adds(new, t, p, k, r, next)
  BY <1>1, <1>3, AddChildIs
<1>s. Len(s) \in Nat /\ \A i \in 1..Len(s) : s[i] \in Nodes /\ s[i] # None
  BY <1>1, <1>3, ChildrenOf
<1>l. Lists(t, p, s)
  BY <1>1 DEF Holds
<1>p. Plain(s)
  BY <1>1, <1>3, ChildrenOf DEF Plain, Sound
<1>5. t.parent[k] = None
  <2> SUFFICES ASSUME t.parent[k] # None PROVE FALSE
    OBVIOUS
  <2>1. t.parent[k] \in Nodes
    BY <1>1, <1>3 DEF Trees, Links
  <2>2. \E i \in 1..Len(a.children[t.parent[k]]) : a.children[t.parent[k]][i] = k
    BY <1>1 DEF Holds
  <2> QED BY <2>1, <2>2 DEF Inserted, Orphan
<1> HIDE DEF s, u, new
<1>6. next = At(s, j + 1)
  <2>1. next = IF r = None THEN t.first[p] ELSE t.next[r]
    BY <1>4 DEF Adds
  <2>2. Linked(t, p, s)
    BY <1>l DEF Lists
  <2> QED BY <2>1, <2>2, <1>j, <1>p, NextIs
<1>7. r # None => t.parent[r] = p /\ r \in Nodes
  BY <1>2, <1>s, <1>l DEF Lists
<1>8. next # None => next \in Nodes /\ t.parent[next] = p /\ t.prev[next] = r
  BY <1>2, <1>6, <1>s, <1>l DEF Lists, Linked, At
<1>9. next = None <=> j = Len(s)
  BY <1>2, <1>6, <1>s DEF At
<1>10. new.asserted /\ new \in Trees /\ new.value = b.value
  BY <1>4, <1>5, <1>7 DEF Adds, Holds, Inserted
<1>d. /\ \A i \in 1..Len(s) : s[i] # k
      /\ \A x, y \in 1..Len(s) : s[x] = s[y] => x = y
  BY <1>1, <1>3 DEF s, Sound, Inserted, Orphan
<1>u. /\ Len(u) = Len(s) + 1 /\ u[j + 1] = k
      /\ \A i \in 1..j : u[i] = s[i]
      /\ \A i \in j + 2..Len(u) : u[i] = s[i - 1] /\ i - 1 \in 1..Len(s)
      /\ \A i \in 1..Len(u) : i \in 1..j \/ i = j + 1 \/ i \in j + 2..Len(u)
  BY <1>2, <1>p, InsertsAt DEF Inserting
<1>n. Joined(new, t, p, k, r, next)
  <2>1. next # k
    BY <1>6, <1>s, <1>d, <1>1, NoNode DEF At
  <2>2. t.prev[k] = None
    BY <1>1, <1>5 DEF Holds
  <2> QED BY <2>1, <2>2, <1>1, <1>4 DEF Adds, Joined
<1>11. Lists(new, p, u)
  <2>1. Linked(new, p, u)
    BY <1>1, <1>j, <1>d, <1>n, <1>l, <1>p, LinkedJoined DEF Lists
  <2>3. new.count[p] = Len(u)
    BY <1>1, <1>4, <1>l, <1>u DEF Adds, Lists
  <2>4. ASSUME NEW i \in 1..Len(u) PROVE new.parent[u[i]] = p
    <3>1. CASE i = j + 1
      BY <3>1, <1>1, <1>4, <1>u DEF Adds
    <3>2. CASE i # j + 1
      <4>1. PICK x \in 1..Len(s) : u[i] = s[x]
        BY <3>2, <1>2, <1>s, <1>u
      <4>2. u[i] \in Nodes /\ t.parent[u[i]] = p
        BY <4>1, <1>s, <1>l DEF Lists
      <4> QED BY <4>2, <1>4 DEF Adds
    <3> QED BY <3>1, <3>2
  <2>7. ASSUME new.valid[p], NEW i \in 1..Len(u) PROVE new.position[u[i]] = i - 1
    <3>1. next = None /\ (t.valid[p] \/ r = None)
      BY <2>7, <1>1, <1>4 DEF Adds
    <3>2. j = Len(s)
      BY <3>1, <1>9
    <3>3. CASE i \in 1..j
      <4>1. t.valid[p] /\ s[i] # k /\ s[i] \in Nodes /\ u[i] = s[i] /\ i \in 1..Len(s)
        BY <3>1, <3>3, <1>2, <1>s, <1>d, <1>u
      <4> QED BY <4>1, <1>4, <1>l DEF Adds, Lists
    <3>4. CASE i = j + 1
      <4>1. CASE r = None
        BY <4>1, <3>1, <3>4, <1>2, <1>4, <1>s, <1>u DEF Adds
      <4>2. CASE r # None
        <5>1. t.valid[p] /\ j \in 1..Len(s) /\ r = s[j]
          BY <4>2, <3>1, <1>2, <1>s
        <5>2. t.position[r] = j - 1
          BY <5>1, <1>l DEF Lists
        <5> QED BY <5>1, <5>2, <4>2, <3>1, <3>4, <1>4, <1>u DEF Adds
      <4> QED BY <4>1, <4>2
    <3> QED BY <3>2, <3>3, <3>4, <1>u
  <2> QED BY <2>1, <2>3, <2>4, <2>7 DEF Lists
<1>12. ASSUME NEW q \in Nodes, q # p PROVE Lists(new, q, b.children[q])
  <2> DEFINE v == a.children[q]
  <2>1. b.children[q] = v
    BY <1>12 DEF Inserted
  <2>2. Lists(t, q, v) /\ \A i \in 1..Len(v) : v[i] \in Nodes /\ v[i] # k
    BY <1>3, ChildrenOf DEF Holds, Inserted, Orphan
  <2> HIDE DEF v
  <2>3. ASSUME NEW i \in 1..Len(v) PROVE v[i] \in Nodes /\ v[i] # k /\ v[i] # r /\ v[i] # next
    BY <2>2, <1>7, <1>8, <1>12, NoNode DEF Lists
  <2>4. \A i \in 1..Len(v) : new.parent[v[i]] = t.parent[v[i]] /\ new.position[v[i]] = t.position[v[i]]
    BY <2>3, <1>4 DEF Adds
  <2>5. new.count[q] = t.count[q] /\ new.valid[q] = t.valid[q]
    BY <1>4, <1>12 DEF Adds
  <2>6. Plain(v)
    BY <1>3, ChildrenOf DEF Plain, Sound, v
  <2>7. Linked(new, q, v)
    BY <2>2, <2>3, <2>6, <1>1, <1>12, <1>n, LinkedElsewhere DEF Lists
  <2> QED BY <2>1, <2>2, <2>4, <2>5, <2>7 DEF Lists
<1>13. \A n \in Nodes : new.position[n] \in 0..Cardinality(Nodes)
  <2>1. Cardinality(Nodes) \in Nat /\ Len(u) <= Cardinality(Nodes)
    BY <1>1, <1>3, FewChildren DEF u
  <2>2. \A n \in Nodes : t.position[n] \in 0..Cardinality(Nodes)
    BY DEF Holds
  <2>3. r # None /\ t.valid[p] => t.position[r] + 1 \in 0..Len(u)
    BY <1>2, <1>s, <1>u, <1>l DEF Lists
  <2>4. new.position[k] \in 0..Cardinality(Nodes)
    BY <1>1, <1>4, <2>1, <2>2, <2>3 DEF Adds
  <2> QED BY <2>2, <2>4, <1>4 DEF Adds
<1>14. \A n \in Nodes : new.parent[n] = None => new.next[n] = None /\ new.prev[n] = None
  <2> SUFFICES ASSUME NEW n \in Nodes, new.parent[n] = None PROVE new.next[n] = None /\ new.prev[n] = None
    OBVIOUS
  <2>1. n # k /\ t.parent[n] = None
    BY <1>1, <1>4, NoNode DEF Adds
  <2>2. n # r /\ n # next
    BY <2>1, <1>1, <1>7, <1>8, NoNode
  <2> QED BY <2>1, <2>2, <1>4 DEF Adds, Holds
<1>15. \A n \in Nodes : new.parent[n] # None =>
         \E i \in 1..Len(b.children[new.parent[n]]) : b.children[new.parent[n]][i] = n
  <2> SUFFICES ASSUME NEW n \in Nodes, new.parent[n] # None
               PROVE  \E i \in 1..Len(b.children[new.parent[n]]) : b.children[new.parent[n]][i] = n
    OBVIOUS
  <2>1. CASE n = k
    <3>1. new.parent[n] = p
      BY <2>1, <1>4 DEF Adds
    <3>2. j + 1 \in 1..Len(u) /\ u[j + 1] = n
      BY <2>1, <1>s, <1>u
    <3> QED BY <3>1, <3>2 DEF u
  <2>2. CASE n # k
    <3>1. new.parent[n] = t.parent[n]
      BY <2>2, <1>4 DEF Adds
    <3>2. t.parent[n] \in Nodes
      BY <3>1, <1>3 DEF Trees, Links
    <3>3. PICK i \in 1..Len(a.children[t.parent[n]]) : a.children[t.parent[n]][i] = n
      BY <3>1 DEF Holds
    <3>4. CASE t.parent[n] = p
      <4>1. i \in 1..Len(s) /\ s[i] = n
        BY <3>3, <3>4 DEF s
      <4>2. CASE i \in 1..j
        <5>1. i \in 1..Len(u) /\ u[i] = n
          BY <4>1, <4>2, <1>s, <1>u
        <5> QED BY <5>1, <3>1, <3>4 DEF u
      <4>3. CASE i \in j + 1..Len(s)
        <5>1. i + 1 \in j + 2..Len(u) /\ i + 1 \in 1..Len(u) /\ (i + 1) - 1 = i
          BY <4>3, <1>s, <1>u
        <5>2. u[i + 1] = n
          BY <5>1, <4>1, <1>u
        <5> QED BY <5>1, <5>2, <3>1, <3>4 DEF u
      <4> QED BY <4>1, <4>2, <4>3, <1>s
    <3>5. CASE t.parent[n] # p
      BY <3>1, <3>2, <3>3, <3>5 DEF Inserted
    <3> QED BY <3>4, <3>5
  <2> QED BY <2>1, <2>2
<1> QED BY <1>3, <1>10, <1>11, <1>12, <1>13, <1>14, <1>15 DEF Holds, u, new

LEMMA InsertsMembers ==
  ASSUME NEW s, NEW u, NEW j \in 0..Len(s), NEW k, Plain(s), Inserts(s, u, j, k)
  PROVE  /\ \E x \in 1..Len(u) : u[x] = k
         /\ \A i \in 1..Len(s) : \E x \in 1..Len(u) : u[x] = s[i]
         /\ \A x \in 1..Len(u) : u[x] = k \/ \E i \in 1..Len(s) : u[x] = s[i]
<1>u. /\ Len(s) \in Nat /\ Len(u) = Len(s) + 1 /\ u[j + 1] = k
      /\ \A i \in 1..j : u[i] = s[i]
      /\ \A i \in j + 2..Len(u) : u[i] = s[i - 1] /\ i - 1 \in 1..Len(s)
      /\ \A i \in 1..Len(u) : i \in 1..j \/ i = j + 1 \/ i \in j + 2..Len(u)
  BY InsertsAt DEF Inserting
<1>1. ASSUME NEW i \in 1..Len(s) PROVE \E x \in 1..Len(u) : u[x] = s[i]
  <2>1. CASE i \in 1..j
    <3>1. i \in 1..Len(u)
      BY <2>1, <1>u
    <3> QED BY <2>1, <3>1, <1>u
  <2>2. CASE i \notin 1..j
    <3>1. i + 1 \in j + 2..Len(u) /\ i + 1 \in 1..Len(u) /\ (i + 1) - 1 = i
      BY <2>2, <1>u
    <3> QED BY <3>1, <1>u
  <2> QED BY <2>1, <2>2
<1>2. ASSUME NEW x \in 1..Len(u) PROVE u[x] = k \/ \E i \in 1..Len(s) : u[x] = s[i]
  <2>1. CASE x \in 1..j
    <3>1. x \in 1..Len(s)
      BY <2>1, <1>u
    <3> QED BY <2>1, <3>1, <1>u
  <2>2. CASE x \in j + 2..Len(u)
    BY <2>2, <1>u
  <2> QED BY <2>1, <2>2, <1>u
<1>3. j + 1 \in 1..Len(u)
  BY <1>u
<1> QED BY <1>1, <1>2, <1>3, <1>u

\* The links of new are those of t without c.
CutOut(new, t, p, c) ==
  \A n \in Nodes :
    /\ n # c => /\ new.next[n] = IF n = t.prev[c] THEN t.next[c] ELSE t.next[n]
                /\ new.prev[n] = IF n = t.next[c] THEN t.prev[c] ELSE t.prev[n]
    /\ new.first[n] = IF n = p /\ t.prev[c] = None THEN t.next[c] ELSE t.first[n]
    /\ new.last[n] = IF n = p /\ t.next[c] = None THEN t.prev[c] ELSE t.last[n]

SiblingsAt(t, k, s, j) == t.prev[k] = At(s, j) /\ t.next[k] = At(s, j + 1)

LEMMA SiblingsAre ==
  ASSUME NEW t, NEW p \in Nodes, NEW k, NEW s, NEW u, NEW j \in 0..Len(s),
         Plain(s), Inserts(s, u, j, k), Linked(t, p, u)
  PROVE  SiblingsAt(t, k, s, j)
<1>u. /\ Len(s) \in Nat /\ Len(u) = Len(s) + 1 /\ u[j + 1] = k
      /\ \A i \in 1..j : u[i] = s[i]
      /\ \A i \in j + 2..Len(u) : u[i] = s[i - 1] /\ i - 1 \in 1..Len(s)
  BY InsertsAt DEF Inserting
<1>1. j + 1 \in 1..Len(u) /\ (j + 1) - 1 = j /\ (j + 1) + 1 = j + 2 /\ (j + 2) - 1 = j + 1
  BY <1>u
<1>2. t.prev[k] = At(u, j) /\ t.next[k] = At(u, j + 2)
  BY <1>1, <1>u DEF Linked
<1>3. At(u, j) = At(s, j)
  BY <1>u DEF At
<1>4. At(u, j + 2) = At(s, j + 1)
  <2>1. CASE j = Len(s)
    BY <2>1, <1>u DEF At
  <2>2. CASE j # Len(s)
    <3>1. j + 2 \in j + 2..Len(u) /\ j + 2 \in 1..Len(u) /\ j + 1 \in 1..Len(s)
      BY <2>2, <1>u
    <3> QED BY <3>1, <1>1, <1>u DEF At
  <2> QED BY <2>1, <2>2
<1> QED BY <1>2, <1>3, <1>4 DEF SiblingsAt

LEMMA LinkedCut ==
  ASSUME NEW new, NEW t, NEW p \in Nodes, NEW k \in Nodes, NEW s, NEW u, NEW j \in 0..Len(s),
         Plain(s), Inserts(s, u, j, k), \A i \in 1..Len(s) : s[i] # k,
         Linked(t, p, u), CutOut(new, t, p, k)
  PROVE  Linked(new, p, s)
<1>0. t.prev[k] = At(s, j) /\ t.next[k] = At(s, j + 1)
  <2>1. SiblingsAt(t, k, s, j)
    BY SiblingsAre
  <2> QED BY <2>1 DEF SiblingsAt
<1> DEFINE ref == t.prev[k]
           after == t.next[k]
<1>1. ref = (IF j = 0 THEN None ELSE s[j]) /\ after = At(s, j + 1)
  BY <1>0 DEF At
<1>2. /\ \A n \in Nodes : n # k => /\ new.next[n] = IF n = ref THEN after ELSE t.next[n]
                                   /\ new.prev[n] = IF n = after THEN ref ELSE t.prev[n]
      /\ new.first[p] = IF ref = None THEN after ELSE t.first[p]
      /\ new.last[p] = IF after = None THEN ref ELSE t.last[p]
  BY DEF CutOut
<1> HIDE DEF ref, after
<1>s. Len(s) \in Nat /\ \A i \in 1..Len(s) : s[i] \in Nodes /\ s[i] # None /\ s[i] # k
  BY ElementOfSeq, LenProperties, NoNode DEF Plain
<1>d. \A x, y \in 1..Len(s) : s[x] = s[y] => x = y
  BY DEF Plain
<1>u. /\ Len(u) = Len(s) + 1 /\ u[j + 1] = k
      /\ \A i \in 1..j : u[i] = s[i]
      /\ \A i \in j + 2..Len(u) : u[i] = s[i - 1] /\ i - 1 \in 1..Len(s)
  BY InsertsAt DEF Inserting
<1>l. /\ t.first[p] = At(u, 1) /\ t.last[p] = At(u, Len(u))
      /\ \A i \in 1..Len(u) : t.next[u[i]] = At(u, i + 1) /\ t.prev[u[i]] = At(u, i - 1)
  BY DEF Linked
<1>3. new.first[p] = At(s, 1)
  <2>1. CASE j = 0
    BY <2>1, <1>1, <1>2
  <2>2. CASE j # 0
    BY <2>2, <1>1, <1>2, <1>s, <1>u, <1>l DEF At
  <2> QED BY <2>1, <2>2
<1>4. new.last[p] = At(s, Len(s))
  <2>1. CASE j = Len(s)
    BY <2>1, <1>1, <1>2, <1>s DEF At
  <2>2. CASE j # Len(s)
    <3>1. after # None
      BY <2>2, <1>1, <1>s DEF At
    <3>2. Len(u) \in j + 2..Len(u) /\ Len(u) - 1 = Len(s) /\ Len(u) \in 1..Len(u) /\ Len(s) \in 1..Len(s)
      BY <2>2, <1>s, <1>u
    <3> QED BY <3>1, <3>2, <1>2, <1>u, <1>l DEF At
  <2> QED BY <2>1, <2>2
<1>5. ASSUME NEW i \in 1..Len(s) PROVE new.next[s[i]] = At(s, i + 1)
  <2>1. CASE i < j
    <3>1. i \in 1..j /\ i + 1 \in 1..j /\ i \in 1..Len(u) /\ i + 1 \in 1..Len(u) /\ i + 1 \in 1..Len(s)
      BY <2>1, <1>s, <1>u
    <3>2. s[i] # ref
      BY <2>1, <3>1, <1>1, <1>s, <1>d
    <3> QED BY <3>1, <3>2, <1>2, <1>s, <1>u, <1>l DEF At
  <2>2. CASE i = j
    BY <2>2, <1>1, <1>2, <1>s
  <2>3. CASE i > j
    <3>1. /\ i + 1 \in j + 2..Len(u) /\ (i + 1) - 1 = i /\ i + 1 \in 1..Len(u)
          /\ (i + 1) + 1 = i + 2
      BY <2>3, <1>s, <1>u
    <3>2. s[i] # ref
      BY <2>3, <1>1, <1>s, <1>d
    <3>3. new.next[s[i]] = At(u, i + 2)
      <4>1. u[i + 1] = s[i]
        BY <3>1, <1>u
      <4>2. t.next[s[i]] = At(u, (i + 1) + 1)
        BY <4>1, <3>1, <1>l
      <4> QED BY <4>2, <3>1, <3>2, <1>2, <1>s
    <3>4. CASE i = Len(s)
      BY <3>3, <3>4, <1>s, <1>u DEF At
    <3>5. CASE i # Len(s)
      <4>1. i + 2 \in j + 2..Len(u) /\ (i + 2) - 1 = i + 1 /\ i + 2 \in 1..Len(u) /\ i + 1 \in 1..Len(s)
        BY <3>5, <2>3, <1>s, <1>u
      <4> QED BY <4>1, <3>3, <1>u DEF At
    <3> QED BY <3>4, <3>5
  <2> QED BY <2>1, <2>2, <2>3, <1>s
<1>6. ASSUME NEW i \in 1..Len(s) PROVE new.prev[s[i]] = At(s, i - 1)
  <2>1. CASE i <= j
    <3>1. i \in 1..j /\ i \in 1..Len(u)
      BY <2>1, <1>s, <1>u
    <3>2. s[i] # after
      BY <2>1, <1>1, <1>s, <1>d DEF At
    <3>3. new.prev[s[i]] = At(u, i - 1)
      BY <3>1, <3>2, <1>2, <1>s, <1>u, <1>l
    <3>4. i # 1 => i - 1 \in 1..j /\ i - 1 \in 1..Len(u) /\ i - 1 \in 1..Len(s)
      BY <2>1, <1>s, <1>u
    <3> QED BY <3>3, <3>4, <1>u DEF At
  <2>2. CASE i = j + 1
    <3>1. s[i] = after
      BY <2>2, <1>1 DEF At
    <3>2. new.prev[s[i]] = ref /\ i - 1 = j
      BY <2>2, <3>1, <1>2, <1>s
    <3> QED BY <3>2, <1>1 DEF At
  <2>3. CASE i > j + 1
    <3>1. /\ i + 1 \in j + 2..Len(u) /\ (i + 1) - 1 = i /\ i + 1 \in 1..Len(u)
          /\ i \in j + 2..Len(u) /\ i \in 1..Len(u) /\ i - 1 \in 1..Len(s)
      BY <2>3, <1>s, <1>u
    <3>2. s[i] # after
      BY <2>3, <1>1, <1>s, <1>d DEF At
    <3>3. new.prev[s[i]] = At(u, i)
      <4>1. u[i + 1] = s[i]
        BY <3>1, <1>u
      <4>2. t.prev[s[i]] = At(u, (i + 1) - 1)
        BY <4>1, <3>1, <1>l
      <4> QED BY <4>2, <3>1, <3>2, <1>2, <1>s
    <3> QED BY <3>1, <3>3, <1>u DEF At
  <2> QED BY <2>1, <2>2, <2>3, <1>s
<1> QED BY <1>3, <1>4, <1>5, <1>6 DEF Linked

LEMMA LinkedBeside ==
  ASSUME NEW new, NEW t, NEW p \in Nodes, NEW q \in Nodes, NEW k, NEW v,
         q # p, Plain(v), \A i \in 1..Len(v) : v[i] # k /\ v[i] # t.prev[k] /\ v[i] # t.next[k],
         Linked(t, q, v), CutOut(new, t, p, k)
  PROVE  Linked(new, q, v)
<1>1. \A i \in 1..Len(v) : v[i] \in Nodes
  BY ElementOfSeq DEF Plain
<1>2. \A i \in 1..Len(v) : new.next[v[i]] = t.next[v[i]] /\ new.prev[v[i]] = t.prev[v[i]]
  BY <1>1 DEF CutOut
<1>3. new.first[q] = t.first[q] /\ new.last[q] = t.last[q]
  BY DEF CutOut
<1> QED BY <1>2, <1>3 DEF Linked

LEMMA PlainChildren ==
  ASSUME NEW a, Sound(a), NEW p \in Nodes
  PROVE  Plain(a.children[p])
BY ChildrenOf DEF Plain, Sound

LEMMA HoldsRemoved ==
  ASSUME NEW t, NEW a, NEW b, NEW p, NEW k, NEW r, Holds(t, b), Inserted(a, b, p, k, r)
  PROVE  Holds(RemoveChild(t, p, k), a)
<1> DEFINE s == a.children[p]
           u == b.children[p]
           new == RemoveChild(t, p, k)
<1>1. p \in Nodes /\ k \in Nodes /\ r \in Maybe
  BY InsertedAt
<1>j. PICK j \in 0..Len(s) : Inserts(s, u, j, k) /\ r = At(s, j)
  BY InsertedAt
<1>2. Inserts(s, u, j, k) /\ r = IF j = 0 THEN None ELSE s[j]
  BY <1>j DEF At
<1>3. t \in Trees /\ Sound(a) /\ Sound(b)
  BY DEF Holds, Inserted
<1>4. Removes(new, t, p, k)
  BY <1>1, <1>3, RemoveChildIs
<1>s. Len(s) \in Nat /\ \A i \in 1..Len(s) : s[i] \in Nodes /\ s[i] # None
  BY <1>1, <1>3, ChildrenOf
<1>p. Plain(s)
  BY <1>1, <1>3, PlainChildren
<1>l. Lists(t, p, u)
  BY <1>1 DEF Holds
<1>d. \A i \in 1..Len(s) : s[i] # k
  BY <1>1 DEF Inserted, Orphan
<1>h. u = b.children[p] /\ s = a.children[p]
  OBVIOUS
<1> HIDE DEF s, u, new
<1>u. /\ Len(u) = Len(s) + 1 /\ u[j + 1] = k
      /\ \A i \in 1..j : u[i] = s[i]
      /\ \A i \in j + 2..Len(u) : u[i] = s[i - 1] /\ i - 1 \in 1..Len(s)
  BY <1>2, <1>p, InsertsAt DEF Inserting
<1>m. /\ \A i \in 1..Len(s) : \E x \in 1..Len(u) : u[x] = s[i]
      /\ \A x \in 1..Len(u) : u[x] = k \/ \E i \in 1..Len(s) : u[x] = s[i]
      /\ \E x \in 1..Len(u) : u[x] = k
  BY <1>2, <1>p, InsertsMembers
<1>5. t.prev[k] = r /\ t.next[k] = At(s, j + 1)
  <2>1. Linked(t, p, u) /\ Inserts(s, u, j, k)
    BY <1>2, <1>l DEF Lists
  <2>2. SiblingsAt(t, k, s, j)
    BY <2>1, <1>1, <1>p, SiblingsAre
  <2> QED BY <2>2, <1>j DEF SiblingsAt
<1>6. \A i \in 1..Len(s) : t.parent[s[i]] = p
  BY <1>l, <1>m DEF Lists
<1>7. t.parent[k] = p
  BY <1>l, <1>m DEF Lists
<1>8. /\ t.prev[k] # None => t.prev[k] \in Nodes /\ t.parent[t.prev[k]] = p
      /\ t.next[k] # None => t.next[k] \in Nodes /\ t.parent[t.next[k]] = p
  BY <1>2, <1>5, <1>6, <1>s DEF At
<1>9. t.next[k] = None <=> j = Len(s)
  BY <1>2, <1>5, <1>s DEF At
<1>c. CutOut(new, t, p, k)
  BY <1>4 DEF Removes, CutOut
<1>10. new.asserted /\ new \in Trees /\ new.value = a.value
  BY <1>4, <1>7 DEF Removes, Holds, Inserted
<1>11. Lists(new, p, s)
  <2>1. Linked(new, p, s)
    BY <1>1, <1>2, <1>c, <1>d, <1>l, <1>p, LinkedCut DEF Lists
  <2>2. new.count[p] = Len(s)
    BY <1>1, <1>4, <1>l, <1>s, <1>u DEF Removes, Lists
  <2>3. ASSUME NEW i \in 1..Len(s) PROVE new.parent[s[i]] = p
    BY <1>4, <1>6, <1>d, <1>s DEF Removes
  <2>4. ASSUME new.valid[p], NEW i \in 1..Len(s) PROVE new.position[s[i]] = i - 1
    <3>1. t.valid[p] /\ t.next[k] = None
      BY <2>4, <1>1, <1>4 DEF Removes
    <3>2. i \in 1..j /\ i \in 1..Len(u) /\ u[i] = s[i]
      BY <3>1, <1>9, <1>s, <1>u
    <3>3. t.position[s[i]] = i - 1
      BY <3>1, <3>2, <1>l DEF Lists
    <3> QED BY <3>3, <1>4, <1>s DEF Removes
  <2> QED BY <2>1, <2>2, <2>3, <2>4 DEF Lists
<1>12. ASSUME NEW q \in Nodes, q # p PROVE Lists(new, q, a.children[q])
  <2> DEFINE v == a.children[q]
  <2>1. b.children[q] = v
    BY <1>12 DEF Inserted
  <2>2. Lists(t, q, v) /\ \A i \in 1..Len(v) : v[i] \in Nodes /\ v[i] # k
    BY <1>3, <2>1, ChildrenOf DEF Holds, Inserted, Orphan
  <2>6. Plain(v)
    BY <1>3, PlainChildren
  <2> HIDE DEF v
  <2>3. ASSUME NEW i \in 1..Len(v) PROVE v[i] \in Nodes /\ v[i] # k /\ v[i] # t.prev[k] /\ v[i] # t.next[k]
    BY <2>2, <1>8, <1>12, NoNode DEF Lists
  <2>4. \A i \in 1..Len(v) : new.parent[v[i]] = t.parent[v[i]] /\ new.position[v[i]] = t.position[v[i]]
    BY <2>3, <1>4 DEF Removes
  <2>5. new.count[q] = t.count[q] /\ new.valid[q] = t.valid[q]
    BY <1>4, <1>12 DEF Removes
  <2>7. Linked(new, q, v)
    BY <2>2, <2>3, <2>6, <1>1, <1>12, <1>c, LinkedBeside DEF Lists
  <2>8. Lists(new, q, v)
    BY <2>2, <2>4, <2>5, <2>7 DEF Lists
  <2> QED BY <2>8 DEF v
<1>13. \A n \in Nodes : new.position[n] \in 0..Cardinality(Nodes)
  <2>1. \A n \in Nodes : t.position[n] \in 0..Cardinality(Nodes)
    BY DEF Holds
  <2> QED BY <2>1, <1>4 DEF Removes
<1>14. \A n \in Nodes : new.parent[n] = None => new.next[n] = None /\ new.prev[n] = None
  <2> SUFFICES ASSUME NEW n \in Nodes, new.parent[n] = None PROVE new.next[n] = None /\ new.prev[n] = None
    OBVIOUS
  <2>1. CASE n = k
    BY <2>1, <1>4 DEF Removes
  <2>2. CASE n # k
    <3>1. t.parent[n] = None
      BY <2>2, <1>4 DEF Removes
    <3>2. n # t.prev[k] /\ n # t.next[k]
      BY <3>1, <1>1, <1>8, NoNode
    <3>3. t.next[n] = None /\ t.prev[n] = None
      BY <3>1 DEF Holds
    <3> QED BY <2>2, <3>2, <3>3, <1>4 DEF Removes
  <2> QED BY <2>1, <2>2
<1>15. \A n \in Nodes : new.parent[n] # None =>
         \E i \in 1..Len(a.children[new.parent[n]]) : a.children[new.parent[n]][i] = n
  <2> SUFFICES ASSUME NEW n \in Nodes, new.parent[n] # None
               PROVE  \E i \in 1..Len(a.children[new.parent[n]]) : a.children[new.parent[n]][i] = n
    OBVIOUS
  <2>1. n # k /\ new.parent[n] = t.parent[n]
    BY <1>4 DEF Removes
  <2>2. t.parent[n] \in Nodes
    BY <2>1, <1>3 DEF Trees, Links
  <2>3. PICK i \in 1..Len(b.children[t.parent[n]]) : b.children[t.parent[n]][i] = n
    BY <2>1 DEF Holds
  <2>4. CASE t.parent[n] = p
    <3>1. i \in 1..Len(u) /\ u[i] = n
      BY <2>3, <2>4, <1>h
    <3>2. \E x \in 1..Len(s) : s[x] = n
      BY <3>1, <2>1, <1>m
    <3> QED BY <3>2, <2>1, <2>4, <1>h
  <2>5. CASE t.parent[n] # p
    BY <2>1, <2>2, <2>3, <2>5 DEF Inserted
  <2> QED BY <2>4, <2>5
<1> QED BY <1>3, <1>10, <1>11, <1>12, <1>13, <1>14, <1>15, <1>h DEF Holds, new

LEMMA HoldsMoved ==
  ASSUME NEW t, NEW m, NEW b, NEW a, NEW p, NEW k, NEW old, NEW r,
         Holds(t, b), Inserted(m, b, p, k, old), Inserted(m, a, p, k, r), r # old
  PROVE  Reorders(t, p, k, r) /\ Holds(ChangeOrder(t, p, k, r), a)
<1> DEFINE s == m.children[p]
           u == b.children[p]
           w == a.children[p]
           new == ChangeOrder(t, p, k, r)
<1>1. p \in Nodes /\ k \in Nodes /\ r \in Maybe
  BY InsertedAt
<1>j. PICK j \in 0..Len(s) : Inserts(s, u, j, k) /\ old = At(s, j)
  BY InsertedAt
<1>2. Inserts(s, u, j, k) /\ old = IF j = 0 THEN None ELSE s[j]
  BY <1>j DEF At
<1>i. PICK i \in 0..Len(s) : Inserts(s, w, i, k) /\ r = At(s, i)
  BY InsertedAt
<1>3. Inserts(s, w, i, k) /\ r = IF i = 0 THEN None ELSE s[i]
  BY <1>i DEF At
<1>4. t \in Trees /\ Sound(a) /\ Sound(b) /\ Sound(m)
  BY DEF Holds, Inserted
<1>s. Len(s) \in Nat /\ \A x \in 1..Len(s) : s[x] \in Nodes /\ s[x] # None
  BY <1>1, <1>4, ChildrenOf
<1>p. Plain(s)
  BY <1>1, <1>4, PlainChildren
<1>l. Lists(t, p, u)
  BY <1>1 DEF Holds
<1>d. \A x \in 1..Len(s) : s[x] # k
  BY <1>1 DEF Inserted, Orphan
<1>h. u = b.children[p] /\ s = m.children[p] /\ w = a.children[p]
  OBVIOUS
<1> HIDE DEF s, u, w, new
<1>m. /\ \A y \in 1..Len(s) : \E x \in 1..Len(u) : u[x] = s[y]
      /\ \A x \in 1..Len(u) : u[x] = k \/ \E y \in 1..Len(s) : u[x] = s[y]
      /\ \E x \in 1..Len(u) : u[x] = k
  BY <1>2, <1>p, InsertsMembers
<1>w. /\ \A y \in 1..Len(s) : \E x \in 1..Len(w) : w[x] = s[y]
      /\ \A x \in 1..Len(w) : w[x] = k \/ \E y \in 1..Len(s) : w[x] = s[y]
      /\ \E x \in 1..Len(w) : w[x] = k
  BY <1>3, <1>p, InsertsMembers
<1>5. t.prev[k] = old /\ t.next[k] = At(s, j + 1)
  <2>1. Linked(t, p, u) /\ Inserts(s, u, j, k)
    BY <1>2, <1>l DEF Lists
  <2>2. SiblingsAt(t, k, s, j)
    BY <2>1, <1>1, <1>p, SiblingsAre
  <2> QED BY <2>2, <1>j DEF SiblingsAt
<1>6. t.parent[k] = p /\ \A x \in 1..Len(s) : t.parent[s[x]] = p
  BY <1>l, <1>m DEF Lists
<1>7. /\ t.prev[k] # None => t.prev[k] \in Nodes /\ t.parent[t.prev[k]] = p
      /\ t.next[k] # None => t.next[k] \in Nodes /\ t.parent[t.next[k]] = p
  BY <1>2, <1>5, <1>6, <1>s DEF At
<1>8. r # None => r \in Nodes /\ t.parent[r] = p
  BY <1>3, <1>6, <1>s
<1>9. r # k
  BY <1>1, <1>3, <1>d, <1>s, NoNode
<1>10. Reorders(t, p, k, r)
  BY <1>5, <1>6, <1>8, <1>9 DEF Reorders
<1>11. PICK gap, next : Gaps(gap, t, p, k) /\ Fills(new, gap, p, k, r, next)
  BY <1>1, <1>4, <1>10, ChangeOrderIs DEF new
<1>12. CutOut(gap, t, p, k) /\ Joined(new, gap, p, k, r, next)
  BY <1>11 DEF Gaps, Fills, CutOut, Joined
<1>13. Linked(gap, p, s)
  BY <1>1, <1>2, <1>12, <1>d, <1>l, <1>p, LinkedCut DEF Lists
<1>14. Linked(new, p, w)
  BY <1>1, <1>i, <1>12, <1>13, <1>d, <1>p, LinkedJoined
<1>15. next # None => next \in Nodes /\ t.parent[next] = p
  <2>1. next = IF r = None THEN gap.first[p] ELSE gap.next[r]
    BY <1>12 DEF Joined
  <2>2. next = At(s, i + 1)
    BY <2>1, <1>i, <1>13, <1>p, NextIs
  <2> QED BY <2>2, <1>6, <1>s DEF At
<1>16. /\ new \in Trees /\ new.asserted = t.asserted /\ new.parent = t.parent /\ new.count = t.count
       /\ new.position = t.position /\ new.value = t.value
       /\ \A n \in Nodes : new.valid[n] = IF n = p THEN FALSE ELSE t.valid[n]
  <2>1. /\ new \in Trees /\ new.asserted = t.asserted /\ new.parent = t.parent /\ new.count = t.count
        /\ new.position = t.position /\ new.value = t.value
    BY <1>11 DEF Gaps, Fills
  <2>2. gap.valid = t.valid
    BY <1>11 DEF Gaps
  <2>3. \A n \in Nodes : new.valid[n] = IF n = p THEN FALSE ELSE gap.valid[n]
    BY <1>11 DEF Fills
  <2> QED BY <2>1, <2>2, <2>3
<1>17. Lists(new, p, w)
  <2>1. Len(w) = Len(s) + 1 /\ Len(u) = Len(s) + 1
    BY <1>2, <1>3 DEF Inserts
  <2>2. new.count[p] = Len(w)
    BY <2>1, <1>16, <1>l DEF Lists
  <2>3. ASSUME NEW x \in 1..Len(w) PROVE new.parent[w[x]] = p
    <3>1. CASE w[x] = k
      BY <3>1, <1>6, <1>16
    <3>2. CASE w[x] # k
      <4>1. PICK y \in 1..Len(s) : w[x] = s[y]
        BY <3>2, <1>w
      <4> QED BY <4>1, <1>6, <1>16
    <3> QED BY <3>1, <3>2
  <2>4. ~new.valid[p]
    BY <1>1, <1>16
  <2> QED BY <2>2, <2>3, <2>4, <1>14 DEF Lists
<1>18. ASSUME NEW q \in Nodes, q # p PROVE Lists(new, q, a.children[q])
  <2> DEFINE v == m.children[q]
  <2>1. b.children[q] = v /\ a.children[q] = v
    BY <1>18 DEF Inserted
  <2>2. Lists(t, q, v) /\ \A x \in 1..Len(v) : v[x] \in Nodes /\ v[x] # k
    BY <1>4, <2>1, ChildrenOf DEF Holds, Inserted, Orphan
  <2>3. Plain(v)
    BY <1>4, PlainChildren
  <2> HIDE DEF v
  <2>4. ASSUME NEW x \in 1..Len(v)
        PROVE  /\ v[x] \in Nodes /\ v[x] # k /\ v[x] # t.prev[k] /\ v[x] # t.next[k]
               /\ v[x] # r /\ v[x] # next
    BY <2>2, <1>7, <1>8, <1>15, <1>18, NoNode DEF Lists
  <2>5. Linked(gap, q, v)
    BY <2>2, <2>3, <2>4, <1>1, <1>12, <1>18, LinkedBeside DEF Lists
  <2>6. Linked(new, q, v)
    BY <2>3, <2>4, <2>5, <1>1, <1>12, <1>18, LinkedElsewhere
  <2>7. Lists(new, q, v)
    BY <2>2, <2>6, <1>16, <1>18 DEF Lists
  <2> QED BY <2>1, <2>7
<1>19. \A n \in Nodes : new.parent[n] = None => new.next[n] = None /\ new.prev[n] = None
  <2> SUFFICES ASSUME NEW n \in Nodes, t.parent[n] = None PROVE new.next[n] = None /\ new.prev[n] = None
    BY <1>16
  <2>1. n # k /\ n # r /\ n # next /\ n # t.prev[k] /\ n # t.next[k]
    BY <1>1, <1>6, <1>7, <1>8, <1>15, NoNode
  <2>2. t.next[n] = None /\ t.prev[n] = None
    BY DEF Holds
  <2> QED BY <2>1, <2>2, <1>12 DEF CutOut, Joined
<1>20. \A n \in Nodes : new.parent[n] # None =>
         \E x \in 1..Len(a.children[new.parent[n]]) : a.children[new.parent[n]][x] = n
  <2> SUFFICES ASSUME NEW n \in Nodes, t.parent[n] # None
               PROVE  \E x \in 1..Len(a.children[t.parent[n]]) : a.children[t.parent[n]][x] = n
    BY <1>16
  <2>2. t.parent[n] \in Nodes
    BY <1>4 DEF Trees, Links
  <2>3. PICK x \in 1..Len(b.children[t.parent[n]]) : b.children[t.parent[n]][x] = n
    BY DEF Holds
  <2>4. CASE t.parent[n] = p
    <3>1. x \in 1..Len(u) /\ u[x] = n
      BY <2>3, <2>4, <1>h
    <3>2. \E y \in 1..Len(w) : w[y] = n
      BY <3>1, <1>m, <1>w
    <3> QED BY <3>2, <2>4, <1>h
  <2>5. CASE t.parent[n] # p
    BY <2>2, <2>3, <2>5 DEF Inserted
  <2> QED BY <2>4, <2>5
<1>21. new.value = a.value /\ new.asserted /\ \A n \in Nodes : new.position[n] \in 0..Cardinality(Nodes)
  BY <1>16 DEF Holds, Inserted
<1> QED BY <1>4, <1>10, <1>16, <1>17, <1>18, <1>19, <1>20, <1>21, <1>h DEF Holds, new

-----------------------------------------------------------------------------
(* What an event does to the content.                                      *)

LEMMA SameContent ==
  ASSUME NEW a \in Contents, NEW b \in Contents, a.value = b.value,
         \A p \in Nodes : a.children[p] = b.children[p]
  PROVE  a = b
<1>1. a.children = b.children
  BY DEF Contents
<1>2. a = [children |-> a.children, value |-> a.value] /\ b = [children |-> b.children, value |-> b.value]
  BY DEF Contents
<1> QED BY <1>1, <1>2

LEMMA InsertedOnce ==
  ASSUME NEW a, NEW b, NEW c, NEW p, NEW k, NEW r, Inserted(a, b, p, k, r), Inserted(a, c, p, k, r)
  PROVE  b = c
<1> DEFINE s == a.children[p]
           u == b.children[p]
           w == c.children[p]
<1>1. p \in Nodes /\ Sound(a) /\ Sound(b) /\ Sound(c)
  BY DEF Inserted
<1>2. PICK i \in 0..Len(s) : Inserts(s, u, i, k) /\ r = At(s, i)
  BY InsertedAt
<1>3. PICK j \in 0..Len(s) : Inserts(s, w, j, k) /\ r = At(s, j)
  BY InsertedAt
<1>4. Plain(s) /\ u \in Seq(Nodes) /\ w \in Seq(Nodes)
  BY <1>1, PlainChildren DEF Plain
<1>5. Len(s) \in Nat /\ \A x \in 1..Len(s) : s[x] # None
  BY <1>1, ChildrenOf
<1> HIDE DEF s, u, w
<1>6. i = j
  BY <1>2, <1>3, <1>4, <1>5 DEF At, Plain
<1>7. Inserts(s, w, i, k)
  BY <1>3, <1>6
<1>8. Inserting(s, u, i, k) /\ Inserting(s, w, i, k)
  BY <1>2, <1>4, <1>7, InsertsAt
<1>9. Len(u) = Len(w) /\ \A x \in 1..Len(u) : u[x] = w[x]
  BY <1>8 DEF Inserting
<1>10. u = w
  BY <1>4, <1>9, SeqEqual
<1>11. \A q \in Nodes : b.children[q] = c.children[q]
  BY <1>10 DEF Inserted, u, w
<1>12. b.value = c.value
  BY DEF Inserted
<1> QED BY <1>1, <1>11, <1>12, SameContent DEF Sound

LEMMA RemovedOnce ==
  ASSUME NEW a, NEW b, NEW c, NEW p, NEW k, NEW r, NEW x, Inserted(a, b, p, k, r), Inserted(c, b, p, k, x)
  PROVE  a = c /\ r = x
<1> DEFINE s == a.children[p]
           u == b.children[p]
           w == c.children[p]
<1>1. p \in Nodes /\ Sound(a) /\ Sound(b) /\ Sound(c)
  BY DEF Inserted
<1>2. PICK i \in 0..Len(s) : Inserts(s, u, i, k) /\ r = At(s, i)
  BY InsertedAt
<1>3. PICK j \in 0..Len(w) : Inserts(w, u, j, k) /\ x = At(w, j)
  BY InsertedAt
<1>4. Plain(s) /\ Plain(u) /\ Plain(w)
  BY <1>1, PlainChildren
<1> HIDE DEF s, u, w
<1>5. Inserting(s, u, i, k) /\ Inserting(w, u, j, k)
  BY <1>2, <1>3, <1>4, InsertsAt
<1>6. i = j /\ Len(s) = Len(w) /\ Len(s) \in Nat
  <2>1. /\ Len(s) = Len(w) /\ Len(s) \in Nat /\ i + 1 \in 1..Len(u) /\ j + 1 \in 1..Len(u)
        /\ u[i + 1] = u[j + 1]
    BY <1>5 DEF Inserting
  <2>2. i + 1 = j + 1
    BY <2>1, <1>4 DEF Plain
  <2> QED BY <2>1, <2>2
<1>7. ASSUME NEW y \in 1..Len(s) PROVE s[y] = w[y]
  <2>1. CASE y \in 1..i
    BY <2>1, <1>5, <1>6 DEF Inserting
  <2>2. CASE y \notin 1..i
    <3>1. y \in i + 1..Len(s)
      BY <2>2, <1>6
    <3> QED BY <3>1, <1>2, <1>3, <1>6 DEF Inserts
  <2> QED BY <2>1, <2>2
<1>8. s = w
  BY <1>4, <1>6, <1>7, SeqEqual DEF Plain
<1>9. r = x
  BY <1>2, <1>3, <1>6, <1>8
<1>10. \A q \in Nodes : a.children[q] = c.children[q]
  BY <1>8 DEF Inserted, s, w
<1>11. a.value = c.value
  BY DEF Inserted
<1> QED BY <1>1, <1>9, <1>10, <1>11, SameContent DEF Sound

\* Event e leads from the content a to the content b.
AddEffect(e, a, b) ==
  e.type = "add" /\ e.old = e.new /\ Inserted(a, b, e.repr, e.key, e.new)
DelEffect(e, a, b) ==
  e.type = "del" /\ e.old = e.new /\ Inserted(b, a, e.repr, e.key, e.old)
OrderEffect(e, a, b) ==
  /\ e.type = "order" /\ e.old # e.new
  /\ \E m : Inserted(m, a, e.repr, e.key, e.old) /\ Inserted(m, b, e.repr, e.key, e.new)
ValueEffect(e, a, b) ==
  /\ e.type = "value" /\ Sound(a) /\ Sound(b)
  /\ e.repr \in Nodes /\ e.key \in Fields
  /\ e.old \in Values \cup {None} /\ e.new \in Values \cup {None}
  /\ b.children = a.children
  /\ e.old = a.value[e.repr][e.key]
  /\ b.value = [a.value EXCEPT ![e.repr][e.key] = e.new]

Effect(e, a, b) ==
  /\ e \in Events
  /\ AddEffect(e, a, b) \/ DelEffect(e, a, b) \/ OrderEffect(e, a, b) \/ ValueEffect(e, a, b)

LEMMA EffectIsSound ==
  ASSUME NEW e, NEW a, NEW b, Effect(e, a, b)
  PROVE  Sound(a) /\ Sound(b)
BY DEF Effect, AddEffect, DelEffect, OrderEffect, ValueEffect, Inserted

LEMMA CancelsToNothing ==
  ASSUME NEW e, NEW older, NEW a, NEW m, NEW b, Effect(older, a, m), Effect(e, m, b), Cancels(e, older)
  PROVE  a = b
<1>1. e.repr = older.repr /\ e.key = older.key /\ older.old = e.new
  BY DEF Cancels
<1>2. CASE e.type = "add" /\ older.type = "del"
  <2>1. AddEffect(e, m, b) /\ DelEffect(older, a, m)
    BY <1>2 DEF Effect, AddEffect, DelEffect, OrderEffect, ValueEffect
  <2> QED BY <2>1, <1>1, InsertedOnce DEF AddEffect, DelEffect
<1>3. CASE e.type = "del" /\ older.type = "add"
  <2>1. DelEffect(e, m, b) /\ AddEffect(older, a, m)
    BY <1>3 DEF Effect, AddEffect, DelEffect, OrderEffect, ValueEffect
  <2> QED BY <2>1, <1>1, RemovedOnce DEF AddEffect, DelEffect
<1>4. CASE e.type = "order" /\ older.type = "order"
  <2>1. OrderEffect(e, m, b) /\ OrderEffect(older, a, m)
    BY <1>4 DEF Effect, AddEffect, DelEffect, OrderEffect, ValueEffect
  <2>2. PICK x : Inserted(x, a, e.repr, e.key, older.old) /\ Inserted(x, m, e.repr, e.key, older.new)
    BY <2>1, <1>1 DEF OrderEffect
  <2>3. PICK y : Inserted(y, m, e.repr, e.key, e.old) /\ Inserted(y, b, e.repr, e.key, e.new)
    BY <2>1 DEF OrderEffect
  <2>4. x = y
    BY <2>2, <2>3, RemovedOnce
  <2> QED BY <2>2, <2>3, <2>4, <1>1, InsertedOnce
<1> QED BY <1>2, <1>3, <1>4 DEF Cancels

LEMMA CombinesToOne ==
  ASSUME NEW e, NEW older, NEW a, NEW m, NEW b, Effect(older, a, m), Effect(e, m, b),
         Combines(e, older), ~Cancels(e, older)
  PROVE  Effect([e EXCEPT !.old = older.old], a, b)
<1> DEFINE new == [e EXCEPT !.old = older.old]
<1>1. e.repr = older.repr /\ e.key = older.key /\ e.type = older.type /\ e.type \in {"order", "value"}
  BY DEF Combines
<1>2. e \in Events /\ older \in Events
  BY DEF Effect
<1>3. /\ new \in Events /\ new.repr = e.repr /\ new.key = e.key /\ new.type = e.type
      /\ new.old = older.old /\ new.new = e.new
  BY <1>2 DEF Events
<1> HIDE DEF new
<1>4. CASE e.type = "order"
  <2>1. OrderEffect(e, m, b) /\ OrderEffect(older, a, m)
    BY <1>1, <1>4 DEF Effect, AddEffect, DelEffect, OrderEffect, ValueEffect
  <2>2. PICK x : Inserted(x, a, e.repr, e.key, older.old) /\ Inserted(x, m, e.repr, e.key, older.new)
    BY <2>1, <1>1 DEF OrderEffect
  <2>3. PICK y : Inserted(y, m, e.repr, e.key, e.old) /\ Inserted(y, b, e.repr, e.key, e.new)
    BY <2>1 DEF OrderEffect
  <2>4. x = y
    BY <2>2, <2>3, RemovedOnce
  <2>5. older.old # e.new
    BY <1>1, <1>4 DEF Cancels
  <2>6. OrderEffect(new, a, b)
    BY <2>2, <2>3, <2>4, <2>5, <1>3, <1>4 DEF OrderEffect
  <2> QED BY <2>6, <1>3 DEF Effect, new
<1>5. CASE e.type = "value"
  <2>1. ValueEffect(e, m, b) /\ ValueEffect(older, a, m)
    BY <1>1, <1>5 DEF Effect, AddEffect, DelEffect, OrderEffect, ValueEffect
  <2>2. a.value \in NodeValues
    BY <2>1 DEF ValueEffect, Sound, Contents
  <2>3. b.value = [[a.value EXCEPT ![e.repr][e.key] = older.new] EXCEPT ![e.repr][e.key] = e.new]
    BY <2>1, <1>1 DEF ValueEffect
  <2>4. b.value = [a.value EXCEPT ![e.repr][e.key] = e.new]
    BY <2>1, <2>2, <2>3 DEF ValueEffect, NodeValues
  <2>5. ValueEffect(new, a, b)
    BY <2>1, <2>4, <1>1, <1>3, <1>5 DEF ValueEffect
  <2> QED BY <2>5, <1>3 DEF Effect, new
<1> QED BY <1>1, <1>4, <1>5

LEMMA HoldsSet ==
  ASSUME NEW t, NEW a, NEW b, NEW n \in Nodes, NEW f \in Fields, NEW v \in Values \cup {None},
         Holds(t, a), Sound(b), b.children = a.children, b.value = [a.value EXCEPT ![n][f] = v]
  PROVE  Holds(SetValue(t, n, f, v), b)
<1> DEFINE new == SetValue(t, n, f, v)
<1>1. t \in Trees
  BY DEF Holds
<1>2. /\ new \in Trees
      /\ new.asserted = t.asserted /\ new.parent = t.parent /\ new.next = t.next
      /\ new.prev = t.prev /\ new.first = t.first /\ new.last = t.last
      /\ new.count = t.count /\ new.position = t.position /\ new.valid = t.valid
      /\ new.value = [t.value EXCEPT ![n][f] = v]
  BY <1>1, SetValueIs
<1> HIDE DEF new
<1>3. \A p \in Nodes : Lists(new, p, b.children[p])
  BY <1>2 DEF Holds, Lists, Linked
<1>4. new.asserted /\ new.value = b.value
  BY <1>2 DEF Holds
<1>5. /\ \A x \in Nodes : new.position[x] \in 0..Cardinality(Nodes)
      /\ \A x \in Nodes : new.parent[x] = None => new.next[x] = None /\ new.prev[x] = None
      /\ \A x \in Nodes : new.parent[x] # None =>
           \E i \in 1..Len(b.children[new.parent[x]]) : b.children[new.parent[x]][i] = x
  BY <1>2 DEF Holds
<1> QED BY <1>2, <1>3, <1>4, <1>5 DEF Holds, new

LEMMA PutBack ==
  ASSUME NEW g \in NodeValues, NEW n \in Nodes, NEW f \in Fields, NEW v \in Values \cup {None}
  PROVE  [[g EXCEPT ![n][f] = v] EXCEPT ![n][f] = g[n][f]] = g
<1> DEFINE h == [g EXCEPT ![n][f] = v]
           back == [h EXCEPT ![n][f] = g[n][f]]
           row == [g[n] EXCEPT ![f] = v]
<1>1. g \in [Nodes -> [Fields -> Values \cup {None}]] /\ g[n] \in [Fields -> Values \cup {None}]
  BY DEF NodeValues
<1>2. [row EXCEPT ![f] = g[n][f]] = g[n]
  BY <1>1
<1>3. h = [g EXCEPT ![n] = row] /\ h[n] = row
  BY <1>1
<1>4. back = [h EXCEPT ![n] = [h[n] EXCEPT ![f] = g[n][f]]]
  OBVIOUS
<1> HIDE DEF row
<1>5. back = [[g EXCEPT ![n] = row] EXCEPT ![n] = g[n]]
  BY <1>2, <1>3, <1>4
<1>6. back = g
  BY <1>1, <1>5
<1> QED BY <1>6

LEMMA HoldsUndone ==
  ASSUME NEW t, NEW e, NEW a, NEW b, Effect(e, a, b), Holds(t, b)
  PROVE  Holds(UndoOne(t, e), a)
<1>1. CASE AddEffect(e, a, b)
  <2>1. UndoOne(t, e) = RemoveChild(t, e.repr, e.key)
    BY <1>1 DEF AddEffect, UndoOne
  <2> QED BY <2>1, <1>1, HoldsRemoved DEF AddEffect
<1>2. CASE DelEffect(e, a, b)
  <2>1. UndoOne(t, e) = AddChild(t, e.repr, e.key, e.old)
    BY <1>2 DEF DelEffect, UndoOne
  <2> QED BY <2>1, <1>2, HoldsAdded DEF DelEffect
<1>3. CASE OrderEffect(e, a, b)
  <2>1. UndoOne(t, e) = ChangeOrder(t, e.repr, e.key, e.old)
    BY <1>3 DEF OrderEffect, UndoOne
  <2>2. PICK m : Inserted(m, a, e.repr, e.key, e.old) /\ Inserted(m, b, e.repr, e.key, e.new)
    BY <1>3 DEF OrderEffect
  <2>3. e.old # e.new
    BY <1>3 DEF OrderEffect
  <2> QED BY <2>1, <2>2, <2>3, HoldsMoved
<1>4. CASE ValueEffect(e, a, b)
  <2>1. UndoOne(t, e) = SetValue(t, e.repr, e.key, e.old)
    BY <1>4 DEF ValueEffect, UndoOne
  <2>2. a.value \in NodeValues
    BY <1>4 DEF ValueEffect, Sound, Contents
  <2>3. a.value = [b.value EXCEPT ![e.repr][e.key] = e.old]
    <3> DEFINE g == a.value
               n == e.repr
               f == e.key
               v == e.new
    <3>1. g \in NodeValues /\ n \in Nodes /\ f \in Fields /\ v \in Values \cup {None}
      BY <2>2, <1>4 DEF ValueEffect
    <3>2. b.value = [g EXCEPT ![n][f] = v] /\ e.old = g[n][f]
      BY <1>4 DEF ValueEffect
    <3> HIDE DEF g, n, f, v
    <3>3. [[g EXCEPT ![n][f] = v] EXCEPT ![n][f] = g[n][f]] = g
      BY <3>1, PutBack
    <3>4. [b.value EXCEPT ![n][f] = e.old] = g
      BY <3>2, <3>3
    <3> QED BY <3>4 DEF g, n, f
  <2>4. /\ e.repr \in Nodes /\ e.key \in Fields /\ e.old \in Values \cup {None}
        /\ a.children = b.children /\ Sound(a)
    BY <1>4 DEF ValueEffect
  <2> QED BY <2>1, <2>3, <2>4, HoldsSet
<1> QED BY <1>1, <1>2, <1>3, <1>4 DEF Effect

LEMMA HoldsReplayed ==
  ASSUME NEW t, NEW e, NEW a, NEW b, Effect(e, a, b), Holds(t, a)
  PROVE  Holds(ReplayOne(t, e), b)
<1>1. CASE AddEffect(e, a, b)
  <2>1. ReplayOne(t, e) = AddChild(t, e.repr, e.key, e.new)
    BY <1>1 DEF AddEffect, ReplayOne
  <2> QED BY <2>1, <1>1, HoldsAdded DEF AddEffect
<1>2. CASE DelEffect(e, a, b)
  <2>1. ReplayOne(t, e) = RemoveChild(t, e.repr, e.key)
    BY <1>2 DEF DelEffect, ReplayOne
  <2> QED BY <2>1, <1>2, HoldsRemoved DEF DelEffect
<1>3. CASE OrderEffect(e, a, b)
  <2>1. ReplayOne(t, e) = ChangeOrder(t, e.repr, e.key, e.new)
    BY <1>3 DEF OrderEffect, ReplayOne
  <2>2. PICK m : Inserted(m, a, e.repr, e.key, e.old) /\ Inserted(m, b, e.repr, e.key, e.new)
    BY <1>3 DEF OrderEffect
  <2>3. e.old # e.new
    BY <1>3 DEF OrderEffect
  <2> QED BY <2>1, <2>2, <2>3, HoldsMoved
<1>4. CASE ValueEffect(e, a, b)
  <2>1. ReplayOne(t, e) = SetValue(t, e.repr, e.key, e.new)
    BY <1>4 DEF ValueEffect, ReplayOne
  <2> QED BY <2>1, <1>4, HoldsSet DEF ValueEffect
<1> QED BY <1>1, <1>2, <1>3, <1>4 DEF Effect

-----------------------------------------------------------------------------
(* Logs.                                                                   *)

Sounds == {a \in Contents : Sound(a)}

\* The events of l, the newest first, lead through the contents h.
Through(l, h) ==
  /\ l \in Seq(Events) /\ h \in [0..Len(l) -> Sounds]
  /\ \A i \in 1..Len(l) : Effect(l[i], h[i], h[i - 1])

\* The log l leads from the content a to the content b.
Leads(l, a, b) == \E h : Through(l, h) /\ h[Len(l)] = a /\ h[0] = b

LEMMA LeadsIsTyped ==
  ASSUME NEW l, NEW a, NEW b, Leads(l, a, b)
  PROVE  l \in Seq(Events) /\ Len(l) \in Nat /\ Sound(a) /\ Sound(b) /\ a \in Contents /\ b \in Contents
<1>1. PICK h : Through(l, h) /\ h[Len(l)] = a /\ h[0] = b
  BY DEF Leads
<1>2. l \in Seq(Events) /\ Len(l) \in Nat /\ h \in [0..Len(l) -> Sounds]
  BY <1>1, LenProperties DEF Through
<1>3. h[Len(l)] \in Sounds /\ h[0] \in Sounds
  BY <1>2
<1> QED BY <1>1, <1>2, <1>3 DEF Sounds

LEMMA LeadsNowhere ==
  ASSUME NEW a, NEW b
  PROVE  Leads(<<>>, a, b) <=> a = b /\ Sound(a)
<1>1. << >> \in Seq(Events) /\ Len(<< >>) = 0
  BY EmptySeq
<1>2. ASSUME Leads(<<>>, a, b) PROVE a = b /\ Sound(a)
  BY <1>1, <1>2, LeadsIsTyped DEF Leads
<1>3. ASSUME a = b, Sound(a) PROVE Leads(<<>>, a, b)
  <2> DEFINE h == [i \in 0..Len(<< >>) |-> a]
  <2>1. a \in Sounds
    BY <1>3 DEF Sounds, Sound
  <2>2. h \in [0..Len(<< >>) -> Sounds] /\ h[0] = a
    BY <1>1, <2>1
  <2>3. \A i \in 1..0 : FALSE
    OBVIOUS
  <2> HIDE DEF h
  <2>4. Through(<< >>, h)
    BY <1>1, <2>2, <2>3 DEF Through
  <2> QED BY <1>1, <1>3, <2>2, <2>4 DEF Leads
<1> QED BY <1>2, <1>3

LEMMA LeadsByOne ==
  ASSUME NEW e, NEW a, NEW b, Effect(e, a, b)
  PROVE  Leads(<<e>>, a, b)
<1> DEFINE l == <<e>>
           h == [i \in 0..1 |-> IF i = 0 THEN b ELSE a]
<1>1. e \in Events /\ a \in Sounds /\ b \in Sounds
  BY EffectIsSound DEF Effect, Sounds, Sound
<1>2. l \in Seq(Events) /\ Len(l) = 1 /\ l[1] = e
  BY <1>1
<1>3. h \in [0..1 -> Sounds] /\ h[0] = b /\ h[1] = a
  BY <1>1
<1> HIDE DEF l, h
<1>4. \A i \in 1..Len(l) : Effect(l[i], h[i], h[i - 1])
  <2> SUFFICES ASSUME NEW i \in 1..Len(l) PROVE Effect(l[i], h[i], h[i - 1])
    OBVIOUS
  <2>1. i = 1 /\ i - 1 = 0
    BY <1>2
  <2> QED BY <2>1, <1>2, <1>3
<1>5. Through(l, h)
  BY <1>2, <1>3, <1>4 DEF Through
<1> QED BY <1>2, <1>3, <1>5 DEF Leads, l

LEMMA ThroughSome ==
  ASSUME NEW l, NEW h, Through(l, h), NEW m \in 0..Len(l), NEW n \in m..Len(l)
  PROVE  Leads(SubSeq(l, m + 1, n), h[n], h[m])
<1> DEFINE s == SubSeq(l, m + 1, n)
           g == [i \in 0..n - m |-> h[m + i]]
<1>1. l \in Seq(Events) /\ Len(l) \in Nat /\ h \in [0..Len(l) -> Sounds]
  BY LenProperties DEF Through
<1>2. m \in Nat /\ n \in Nat /\ m <= n /\ n <= Len(l)
  BY <1>1
<1>3. s \in Seq(Events) /\ Len(s) = n - m /\ \A i \in 1..n - m : s[i] = l[m + i] /\ m + i \in 1..Len(l)
  <2>1. m + 1 \in 1..Len(l) + 1 /\ m + 1 \in Int /\ n \in Int
    BY <1>2
  <2>2. \A i \in m + 1..n : l[i] \in Events
    BY <1>1, <1>2, ElementOfSeq
  <2>3. /\ s \in Seq(Events)
        /\ Len(s) = IF m + 1 <= n THEN n - (m + 1) + 1 ELSE 0
        /\ \A i \in 1..n - (m + 1) + 1 : s[i] = l[(m + 1) + i - 1]
    BY <1>1, <2>1, <2>2, SubSeqProperties
  <2> HIDE DEF s
  <2>4. Len(s) = n - m /\ n - (m + 1) + 1 = n - m
    BY <1>2, <2>3
  <2>5. \A i \in 1..n - m : (m + 1) + i - 1 = m + i /\ m + i \in 1..Len(l)
    BY <1>1, <1>2
  <2> QED BY <2>3, <2>4, <2>5
<1>4. \A i \in 0..n - m : m + i \in 0..Len(l) /\ g[i] = h[m + i]
  BY <1>1, <1>2
<1>5. g \in [0..n - m -> Sounds]
  BY <1>1, <1>4
<1> HIDE DEF s, g
<1>6. ASSUME NEW i \in 1..n - m PROVE Effect(s[i], g[i], g[i - 1])
  <2>1. i \in 0..n - m /\ i - 1 \in 0..n - m /\ m + i \in 1..Len(l) /\ m + (i - 1) = (m + i) - 1
    BY <1>1, <1>2
  <2>2. Effect(l[m + i], h[m + i], h[(m + i) - 1])
    BY <2>1 DEF Through
  <2>3. s[i] = l[m + i] /\ g[i] = h[m + i] /\ g[i - 1] = h[m + (i - 1)]
    BY <2>1, <1>3, <1>4
  <2> QED BY <2>1, <2>2, <2>3
<1>7. Through(s, g)
  BY <1>3, <1>5, <1>6 DEF Through
<1>8. g[Len(s)] = h[n] /\ g[0] = h[m]
  <2>1. n - m \in 0..n - m /\ 0 \in 0..n - m /\ m + (n - m) = n /\ m + 0 = m
    BY <1>2
  <2> QED BY <2>1, <1>3, <1>4
<1>9. Leads(s, h[n], h[m])
  BY <1>7, <1>8 DEF Leads
<1> QED BY <1>9 DEF s

LEMMA LeadsJoined ==
  ASSUME NEW x, NEW y, NEW a, NEW m, NEW b, Leads(x, m, b), Leads(y, a, m)
  PROVE  Leads(x \o y, a, b)
<1>1. PICK f : Through(x, f) /\ f[Len(x)] = m /\ f[0] = b
  BY DEF Leads
<1>2. PICK g : Through(y, g) /\ g[Len(y)] = a /\ g[0] = m
  BY DEF Leads
<1> DEFINE l == x \o y
           j == Len(x)
           n == Len(y)
           h == [i \in 0..j + n |-> IF i <= j THEN f[i] ELSE g[i - j]]
<1>3. x \in Seq(Events) /\ y \in Seq(Events) /\ j \in Nat /\ n \in Nat
  BY LeadsIsTyped
<1>4. /\ l \in Seq(Events) /\ Len(l) = j + n
      /\ \A i \in 1..j + n : l[i] = IF i <= j THEN x[i] ELSE y[i - j]
  BY <1>3, ConcatProperties
<1>f. /\ f \in [0..j -> Sounds] /\ g \in [0..n -> Sounds] /\ f[j] = m /\ g[0] = m /\ f[0] = b /\ g[n] = a
      /\ \A i \in 1..j : Effect(x[i], f[i], f[i - 1])
      /\ \A i \in 1..n : Effect(y[i], g[i], g[i - 1])
  BY <1>1, <1>2 DEF Through
<1> HIDE DEF l, j, n
<1>5. \A i \in 0..j + n : h[i] = IF i <= j THEN f[i] ELSE g[i - j]
  OBVIOUS
<1>6. h \in [0..j + n -> Sounds]
  <2>1. ASSUME NEW i \in 0..j + n PROVE (IF i <= j THEN f[i] ELSE g[i - j]) \in Sounds
    <3>1. CASE i <= j
      BY <3>1, <1>3, <1>f
    <3>2. CASE ~(i <= j)
      <4>1. i - j \in 0..n
        BY <3>2, <1>3
      <4> QED BY <3>2, <4>1, <1>f
    <3> QED BY <3>1, <3>2
  <2> QED BY <2>1
<1> HIDE DEF h
<1>7. ASSUME NEW i \in 1..j + n PROVE Effect(l[i], h[i], h[i - 1])
  <2>1. i \in 0..j + n /\ i - 1 \in 0..j + n
    BY <1>3
  <2>2. CASE i <= j
    <3>1. i \in 1..j /\ i - 1 <= j
      BY <2>2, <1>3
    <3>2. l[i] = x[i] /\ h[i] = f[i] /\ h[i - 1] = f[i - 1]
      BY <3>1, <2>1, <2>2, <1>4, <1>5
    <3> QED BY <3>1, <3>2, <1>f
  <2>3. CASE i = j + 1
    <3>1. 1 \in 1..n /\ i - j = 1 /\ i - 1 = j /\ ~(i <= j) /\ 1 - 1 = 0
      BY <2>3, <1>3
    <3>2. l[i] = y[1]
      BY <3>1, <1>4
    <3>4. h[i] = g[1]
      BY <3>1, <2>1, <1>5
    <3>5. i - 1 <= j
      BY <3>1, <1>3
    <3>6. h[i - 1] = f[i - 1]
      BY <3>5, <2>1, <1>5
    <3>7. h[i - 1] = m
      BY <3>1, <3>6, <1>f
    <3>3. Effect(y[1], g[1], g[1 - 1])
      BY <3>1, <1>f
    <3> QED BY <3>1, <3>2, <3>3, <3>4, <3>7, <1>f
  <2>4. CASE i > j + 1
    <3>1. i - j \in 1..n /\ (i - 1) - j = (i - j) - 1 /\ ~(i <= j) /\ ~(i - 1 <= j)
      BY <2>4, <1>3
    <3>2. l[i] = y[i - j] /\ h[i] = g[i - j] /\ h[i - 1] = g[(i - j) - 1]
      BY <3>1, <2>1, <1>4, <1>5
    <3> QED BY <3>1, <3>2, <1>f
  <2> QED BY <2>2, <2>3, <2>4, <1>3
<1>8. Through(l, h)
  BY <1>4, <1>6, <1>7 DEF Through
<1>9. h[0] = b /\ h[j + n] = a
  <2>1. 0 \in 0..j + n /\ j + n \in 0..j + n /\ 0 <= j /\ (j + n) - j = n
    BY <1>3
  <2>2. h[0] = b
    BY <2>1, <1>5, <1>f
  <2>3. CASE n = 0
    <3>1. j + n = j /\ j <= j
      BY <2>3, <1>3
    <3> QED BY <2>1, <2>2, <2>3, <3>1, <1>5, <1>f
  <2>4. CASE n # 0
    <3>1. ~(j + n <= j)
      BY <2>4, <1>3
    <3> QED BY <2>1, <2>2, <3>1, <1>5, <1>f
  <2> QED BY <2>3, <2>4
<1>10. Leads(l, a, b)
  BY <1>4, <1>8, <1>9 DEF Leads
<1> QED BY <1>10 DEF l

LEMMA LeadsOptimized ==
  ASSUME NEW l, NEW a, NEW b, Leads(l, a, b)
  PROVE  Leads(Optimize(l), a, b)
<1>1. PICK h : Through(l, h) /\ h[Len(l)] = a /\ h[0] = b
  BY DEF Leads
<1>2. l \in Seq(Events) /\ Len(l) \in Nat
  BY LeadsIsTyped
<1>3. CASE Len(l) < 2
  BY <1>3 DEF Optimize
<1>4. CASE ~(Len(l) < 2)
  <2> DEFINE rest == SubSeq(l, 3, Len(l))
  <2>1. /\ 2 \in 0..Len(l) /\ Len(l) \in 2..Len(l) /\ 2 + 1 = 3 /\ 1 \in 1..Len(l) /\ 2 \in 1..Len(l)
        /\ 1 - 1 = 0 /\ 2 - 1 = 1
    BY <1>2, <1>4
  <2>2. Leads(SubSeq(l, 2 + 1, Len(l)), h[Len(l)], h[2])
    BY <1>1, <2>1, ThroughSome
  <2>3. Leads(rest, a, h[2])
    BY <2>1, <2>2, <1>1
  <2> HIDE DEF rest
  <2>4. Effect(l[1], h[1], b) /\ Effect(l[2], h[2], h[1])
    <3>1. Effect(l[1], h[1], h[1 - 1]) /\ Effect(l[2], h[2], h[2 - 1])
      BY <1>1, <2>1 DEF Through
    <3> QED BY <3>1, <2>1, <1>1
  <2>5. CASE Cancels(l[1], l[2])
    <3>1. Optimize(l) = rest
      BY <1>4, <2>5 DEF Optimize, rest
    <3>2. h[2] = b
      BY <2>4, <2>5, CancelsToNothing
    <3> QED BY <3>1, <3>2, <2>3
  <2>6. CASE ~Cancels(l[1], l[2]) /\ Combines(l[1], l[2])
    <3> DEFINE e == [l[1] EXCEPT !.old = l[2].old]
    <3>1. Optimize(l) = <<e>> \o rest
      BY <1>4, <2>6 DEF Optimize, rest
    <3>2. Effect(e, h[2], b)
      BY <2>4, <2>6, CombinesToOne
    <3> HIDE DEF e
    <3>3. Leads(<<e>>, h[2], b)
      BY <3>2, LeadsByOne
    <3>4. Leads(<<e>> \o rest, a, b)
      BY <3>3, <2>3, LeadsJoined
    <3> QED BY <3>1, <3>4
  <2>7. CASE ~Cancels(l[1], l[2]) /\ ~Combines(l[1], l[2])
    BY <1>4, <2>7 DEF Optimize
  <2> QED BY <2>5, <2>6, <2>7
<1> QED BY <1>3, <1>4

\* The next event, told to the logger.
LEMMA LeadsLogged ==
  ASSUME NEW l, NEW e, NEW a, NEW m, NEW b, Leads(l, a, m), Effect(e, m, b)
  PROVE  Leads(Optimize(<<e>> \o l), a, b)
<1>1. Leads(<<e>>, m, b)
  BY LeadsByOne
<1>2. Leads(<<e>> \o l, a, b)
  BY <1>1, LeadsJoined
<1> QED BY <1>2, LeadsOptimized

LEMMA LeadsCoalesced ==
  ASSUME NEW x, NEW y, NEW a, NEW m, NEW b, Leads(x, a, m), Leads(y, m, b)
  PROVE  Leads(Coalesce(x, y), a, b)
<1>1. CASE x = << >>
  BY <1>1, LeadsNowhere DEF Coalesce
<1>2. CASE x # << >> /\ y = << >>
  <2>1. m = b
    BY <1>2, LeadsNowhere
  <2> QED BY <1>2, <2>1 DEF Coalesce
<1>3. CASE x # << >> /\ y # << >>
  <2>1. PICK h : Through(y, h) /\ h[Len(y)] = m /\ h[0] = b
    BY DEF Leads
  <2>2. y \in Seq(Events) /\ Len(y) \in Nat
    BY LeadsIsTyped
  <2>3. Len(y) # 0
    BY <1>3, <2>2, EmptySeq
  <2>4. /\ Len(y) - 1 \in 0..Len(y) /\ 0 \in 0..Len(y) /\ Len(y) - 1 \in 0..Len(y) /\ 0 + 1 = 1
        /\ Len(y) \in 1..Len(y)
    BY <2>2, <2>3
  <2>5. Leads(SubSeq(y, 0 + 1, Len(y) - 1), h[Len(y) - 1], h[0])
    BY <2>1, <2>4, ThroughSome
  <2>6. Leads(Front(y), h[Len(y) - 1], b)
    BY <2>1, <2>4, <2>5 DEF Front
  <2>7. Effect(Last(y), m, h[Len(y) - 1])
    <3>1. Effect(y[Len(y)], h[Len(y)], h[Len(y) - 1])
      BY <2>1, <2>4 DEF Through
    <3> QED BY <3>1, <2>1 DEF Last
  <2>8. Leads(Optimize(<<Last(y)>> \o x), a, h[Len(y) - 1])
    BY <2>7, LeadsLogged
  <2>9. Leads(Front(y) \o Optimize(<<Last(y)>> \o x), a, b)
    BY <2>6, <2>8, LeadsJoined
  <2>10. Coalesce(x, y) = Front(y) \o Optimize(<<Last(y)>> \o x)
    BY <1>3 DEF Coalesce
  <2> QED BY <2>9, <2>10
<1> QED BY <1>1, <1>2, <1>3

-----------------------------------------------------------------------------
(* Recursion.                                                              *)

LEMMA LeastOf ==
  ASSUME NEW S \in SUBSET Nat, S # {}
  PROVE  \E m \in S : \A k \in S : m <= k
<1>1. PICK m \in S : \A k \in S : ~(<<k, m>> \in OpToRel(<, Nat))
  <2>1. IsWellFoundedOn(OpToRel(<, Nat), Nat)
    BY NatLessThanWellFounded
  <2> QED BY <2>1, WFMin
<1>2. \A k \in S : ~(k < m)
  BY <1>1 DEF OpToRel
<1> QED BY <1>2

LEMMA Induct ==
  ASSUME NEW n \in Nat, NEW S, 0 \in S, \A k \in 1..n : k - 1 \in S => k \in S
  PROVE  \A k \in 0..n : k \in S
<1> SUFFICES ASSUME NEW j \in 0..n, j \notin S PROVE FALSE
  OBVIOUS
<1> DEFINE B == {k \in 0..n : k \notin S}
<1>1. B \in SUBSET Nat /\ B # {}
  OBVIOUS
<1>2. PICK m \in B : \A k \in B : m <= k
  BY <1>1, LeastOf
<1>3. m \in 1..n /\ m - 1 \in 0..n /\ m \notin S
  OBVIOUS
<1>4. m - 1 \in S
  BY <1>2, <1>3
<1> QED BY <1>3, <1>4

\* The values of f up to n are those that the steps g make of x.
Steps(f, x, g, n) == f[0] = x /\ \A k \in 1..n : f[k] = g[k][f[k - 1]]

IsRecursion(f, x, g, n) == f = [k \in 0..n |-> IF k = 0 THEN x ELSE g[k][f[k - 1]]]

\* A recursive function exists.
LEMMA Recursion ==
  ASSUME NEW n \in Nat, NEW x, NEW g
  PROVE  \E f : IsRecursion(f, x, g, n)
<1> DEFINE S == {m \in 0..n : \E f : Steps(f, x, g, m)}
<1>1. 0 \in S
  <2> DEFINE f == [k \in {0} |-> x]
  <2>1. f[0] = x /\ \A k \in 1..0 : FALSE
    OBVIOUS
  <2> HIDE DEF f
  <2>2. Steps(f, x, g, 0)
    BY <2>1 DEF Steps
  <2> QED BY <2>2
<1>2. ASSUME NEW m \in 1..n, m - 1 \in S PROVE m \in S
  <2>1. PICK f : Steps(f, x, g, m - 1)
    BY <1>2
  <2> DEFINE h == [k \in 0..m |-> IF k = m THEN g[m][f[m - 1]] ELSE f[k]]
  <2>2. h[m] = g[m][f[m - 1]] /\ \A k \in 0..m - 1 : h[k] = f[k]
    OBVIOUS
  <2> HIDE DEF h
  <2>3. h[0] = x
    BY <2>1, <2>2 DEF Steps
  <2>4. ASSUME NEW k \in 1..m PROVE h[k] = g[k][h[k - 1]]
    <3>1. h[k - 1] = f[k - 1]
      BY <2>2
    <3>2. k = m \/ (k \in 1..m - 1 /\ k \in 0..m - 1)
      OBVIOUS
    <3> QED BY <2>1, <2>2, <3>1, <3>2 DEF Steps
  <2>5. Steps(h, x, g, m)
    BY <2>3, <2>4 DEF Steps
  <2> QED BY <2>5
<1> HIDE DEF S
<1>3. \A k \in 0..n : k \in S
  BY <1>1, <1>2, Induct
<1>4. PICK f : Steps(f, x, g, n)
  BY <1>3 DEF S
<1> DEFINE h == [k \in 0..n |-> f[k]]
<1>5. \A k \in 0..n : h[k] = f[k] /\ (k = 0 \/ (k \in 1..n /\ k - 1 \in 0..n))
  OBVIOUS
<1>6. \A k \in 0..n : h[k] = IF k = 0 THEN x ELSE g[k][h[k - 1]]
  <2> HIDE DEF h
  <2> QED BY <1>4, <1>5 DEF Steps
<1>7. h = [k \in 0..n |-> IF k = 0 THEN x ELSE g[k][h[k - 1]]]
  <2>1. h = [k \in 0..n |-> h[k]]
    OBVIOUS
  <2> HIDE DEF h
  <2> QED BY <1>6, <2>1
<1> QED BY <1>7 DEF IsRecursion

UndoBody(t, l, f) == [i \in 0..Len(l) |-> IF i = 0 THEN t ELSE UndoOne(f[i - 1], l[i])]
ReplayBody(t, l, f) == [i \in 0..Len(l) |-> IF i = 0 THEN t ELSE ReplayOne(f[i - 1], l[Len(l) + 1 - i])]

\* An undo of a log leads back to where it came from.
LEMMA HoldsBefore ==
  ASSUME NEW t, NEW l, NEW a, NEW b, Leads(l, a, b), Holds(t, b)
  PROVE  Holds(UndoLog(t, l), a)
<1>1. PICK h : Through(l, h) /\ h[Len(l)] = a /\ h[0] = b
  BY DEF Leads
<1> DEFINE n == Len(l)
           g == [i \in 1..n |-> [u \in Trees |-> UndoOne(u, l[i])]]
<1>n. n \in Nat
  BY LeadsIsTyped
<1>2. ASSUME NEW i \in 1..n, NEW u, Holds(u, h[i - 1]) PROVE Holds(UndoOne(u, l[i]), h[i])
  <2>1. Effect(l[i], h[i], h[i - 1])
    BY <1>1 DEF Through
  <2> QED BY <2>1, <1>2, HoldsUndone
<1>3. \E f : f = UndoBody(t, l, f)
  <2>0. PICK f : IsRecursion(f, t, g, n)
    <3> HIDE DEF g, n
    <3> QED BY <1>n, Recursion
  <2>1. f = [k \in 0..n |-> IF k = 0 THEN t ELSE g[k][f[k - 1]]]
    BY <2>0 DEF IsRecursion
  <2>2. f[0] = t /\ \A k \in 1..n : f[k] = g[k][f[k - 1]]
    <3> HIDE DEF g
    <3>1. 0 \in 0..n /\ \A k \in 1..n : k \in 0..n /\ k # 0
      BY <1>n
    <3> QED BY <2>1, <3>1
  <2> DEFINE S == {k \in 0..n : Holds(f[k], h[k])}
  <2>3. 0 \in S
    BY <1>n, <1>1, <2>2
  <2>4. ASSUME NEW k \in 1..n, Holds(f[k - 1], h[k - 1]) PROVE f[k] = UndoOne(f[k - 1], l[k])
    <3>1. f[k - 1] \in Trees
      BY <2>4 DEF Holds
    <3> QED BY <2>2, <3>1
  <2>5. ASSUME NEW k \in 1..n, k - 1 \in S PROVE k \in S
    <3>1. Holds(f[k - 1], h[k - 1])
      BY <2>5
    <3>2. Holds(UndoOne(f[k - 1], l[k]), h[k])
      BY <3>1, <1>2
    <3> QED BY <3>1, <3>2, <2>4, <1>n
  <2> HIDE DEF S
  <2>6. \A k \in 0..n : k \in S
    <3> HIDE DEF n
    <3> QED BY <1>n, <2>3, <2>5, Induct
  <2>7. \A k \in 0..n : f[k] = IF k = 0 THEN t ELSE UndoOne(f[k - 1], l[k])
    <3> SUFFICES ASSUME NEW k \in 0..n PROVE f[k] = IF k = 0 THEN t ELSE UndoOne(f[k - 1], l[k])
      OBVIOUS
    <3>1. CASE k = 0
      BY <3>1, <2>2
    <3>2. CASE k # 0
      <4>1. k \in 1..n /\ k - 1 \in 0..n
        BY <3>2, <1>n
      <4>2. Holds(f[k - 1], h[k - 1])
        BY <4>1, <2>6 DEF S
      <4> QED BY <3>2, <4>1, <4>2, <2>4
    <3> QED BY <3>1, <3>2
  <2>8. f = [k \in 0..n |-> f[k]]
    <3> HIDE DEF g
    <3> QED BY <2>1
  <2>9. f = UndoBody(t, l, f)
    BY <2>7, <2>8 DEF UndoBody
  <2> QED BY <2>9
<1> DEFINE f == CHOOSE x : x = UndoBody(t, l, x)
<1>4. f = UndoBody(t, l, f)
  BY <1>3
<1>5. UndoLog(t, l) = f[n]
  BY DEF UndoLog, UndoBody
<1> HIDE DEF f
<1>6. f[0] = t /\ \A k \in 1..n : f[k] = UndoOne(f[k - 1], l[k])
  <2>1. 0 \in 0..n /\ \A k \in 1..n : k \in 0..n /\ k # 0
    BY <1>n
  <2> QED BY <1>4, <2>1 DEF UndoBody
<1> DEFINE S == {k \in 0..n : Holds(f[k], h[k])}
<1>7. 0 \in S
  BY <1>n, <1>1, <1>6
<1>8. ASSUME NEW k \in 1..n, k - 1 \in S PROVE k \in S
  <2>1. Holds(UndoOne(f[k - 1], l[k]), h[k])
    BY <1>8, <1>2
  <2> QED BY <2>1, <1>6, <1>n
<1> HIDE DEF S
<1>9. n \in S
  <2> HIDE DEF n
  <2>1. \A k \in 0..n : k \in S
    BY <1>n, <1>7, <1>8, Induct
  <2> QED BY <1>n, <2>1
<1> QED BY <1>1, <1>5, <1>9 DEF S

\* A replay leads forward again.
LEMMA HoldsAfter ==
  ASSUME NEW t, NEW l, NEW a, NEW b, Leads(l, a, b), Holds(t, a)
  PROVE  Holds(ReplayLog(t, l), b)
<1>1. PICK h : Through(l, h) /\ h[Len(l)] = a /\ h[0] = b
  BY DEF Leads
<1> DEFINE n == Len(l)
           g == [i \in 1..n |-> [u \in Trees |-> ReplayOne(u, l[n + 1 - i])]]
<1>n. n \in Nat
  BY LeadsIsTyped
<1>2. ASSUME NEW i \in 1..n, NEW u, Holds(u, h[n - (i - 1)]) PROVE Holds(ReplayOne(u, l[n + 1 - i]), h[n - i])
  <2>0. n + 1 - i \in 1..n /\ n - (i - 1) = n + 1 - i /\ n - i = (n + 1 - i) - 1
    BY <1>n
  <2>1. Effect(l[n + 1 - i], h[n + 1 - i], h[(n + 1 - i) - 1])
    BY <2>0, <1>1 DEF Through
  <2> HIDE DEF n
  <2> QED BY <2>0, <2>1, <1>2, HoldsReplayed
<1>3. \E f : f = ReplayBody(t, l, f)
  <2>0. PICK f : IsRecursion(f, t, g, n)
    <3> HIDE DEF g, n
    <3> QED BY <1>n, Recursion
  <2>1. f = [k \in 0..n |-> IF k = 0 THEN t ELSE g[k][f[k - 1]]]
    BY <2>0 DEF IsRecursion
  <2>2. f[0] = t /\ \A k \in 1..n : f[k] = g[k][f[k - 1]]
    <3> HIDE DEF g
    <3>1. 0 \in 0..n /\ \A k \in 1..n : k \in 0..n /\ k # 0
      BY <1>n
    <3> QED BY <2>1, <3>1
  <2> DEFINE S == {k \in 0..n : Holds(f[k], h[n - k])}
  <2>3. 0 \in S
    <3>1. 0 \in 0..n /\ n - 0 = n
      BY <1>n
    <3> QED BY <3>1, <1>1, <2>2
  <2>4. ASSUME NEW k \in 1..n, Holds(f[k - 1], h[n - (k - 1)]) PROVE f[k] = ReplayOne(f[k - 1], l[n + 1 - k])
    <3>1. f[k - 1] \in Trees
      BY <2>4 DEF Holds
    <3> QED BY <2>2, <3>1
  <2>5. ASSUME NEW k \in 1..n, k - 1 \in S PROVE k \in S
    <3>1. Holds(f[k - 1], h[n - (k - 1)])
      BY <2>5
    <3>2. Holds(ReplayOne(f[k - 1], l[n + 1 - k]), h[n - k])
      BY <3>1, <1>2
    <3> QED BY <3>1, <3>2, <2>4, <1>n
  <2> HIDE DEF S
  <2>6. \A k \in 0..n : k \in S
    <3> HIDE DEF n
    <3> QED BY <1>n, <2>3, <2>5, Induct
  <2>7. \A k \in 0..n : f[k] = IF k = 0 THEN t ELSE ReplayOne(f[k - 1], l[n + 1 - k])
    <3> SUFFICES ASSUME NEW k \in 0..n PROVE f[k] = IF k = 0 THEN t ELSE ReplayOne(f[k - 1], l[n + 1 - k])
      OBVIOUS
    <3>1. CASE k = 0
      BY <3>1, <2>2
    <3>2. CASE k # 0
      <4>1. k \in 1..n /\ k - 1 \in 0..n
        BY <3>2, <1>n
      <4>2. Holds(f[k - 1], h[n - (k - 1)])
        BY <4>1, <2>6 DEF S
      <4> QED BY <3>2, <4>1, <4>2, <2>4
    <3> QED BY <3>1, <3>2
  <2>8. f = [k \in 0..n |-> f[k]]
    <3> HIDE DEF g
    <3> QED BY <2>1
  <2>9. f = ReplayBody(t, l, f)
    BY <2>7, <2>8 DEF ReplayBody
  <2> QED BY <2>9
<1> DEFINE f == CHOOSE x : x = ReplayBody(t, l, x)
<1>4. f = ReplayBody(t, l, f)
  BY <1>3
<1>5. ReplayLog(t, l) = f[n]
  BY DEF ReplayLog, ReplayBody
<1> HIDE DEF f
<1>6. f[0] = t /\ \A k \in 1..n : f[k] = ReplayOne(f[k - 1], l[n + 1 - k])
  <2>1. 0 \in 0..n /\ \A k \in 1..n : k \in 0..n /\ k # 0
    BY <1>n
  <2> QED BY <1>4, <2>1 DEF ReplayBody
<1> DEFINE S == {k \in 0..n : Holds(f[k], h[n - k])}
<1>7. 0 \in S
  <2>1. 0 \in 0..n /\ n - 0 = n
    BY <1>n
  <2> QED BY <2>1, <1>1, <1>6
<1>8. ASSUME NEW k \in 1..n, k - 1 \in S PROVE k \in S
  <2>1. Holds(ReplayOne(f[k - 1], l[n + 1 - k]), h[n - k])
    BY <1>8, <1>2
  <2> QED BY <2>1, <1>6, <1>n
<1> HIDE DEF S
<1>9. n \in S
  <2> HIDE DEF n
  <2>1. \A k \in 0..n : k \in S
    BY <1>n, <1>7, <1>8, Induct
  <2> QED BY <1>n, <2>1
<1>10. Holds(f[n], h[n - n]) /\ n - n = 0
  BY <1>n, <1>9 DEF S
<1> QED BY <1>1, <1>5, <1>10

ChildBody(t, n, after, f) ==
  [i \in 1..Cardinality(Nodes) |-> IF i = 1 THEN t.first[n] ELSE after[f[i - 1]]]

LEMMA ChildrenAre ==
  ASSUME NEW t, NEW a, Holds(t, a), NEW p \in Nodes
  PROVE  Children(t, p) = a.children[p]
<1> DEFINE s == a.children[p]
           n == Cardinality(Nodes)
           after == [m \in Nodes \cup {None} |-> IF m = None THEN None ELSE t.next[m]]
           nth == CHOOSE f : f = ChildBody(t, p, after, f)
<1>1. Sound(a) /\ Lists(t, p, s)
  BY DEF Holds
<1>2. n \in Nat /\ Len(s) <= n /\ Len(s) \in Nat /\ s \in Seq(Nodes)
  BY <1>1, FewChildren, ChildrenOf
<1>3. \A i \in 1..Len(s) : s[i] \in Nodes /\ s[i] # None
  BY <1>1, ChildrenOf
<1>4. Children(t, p) = [i \in {k \in 1..n : nth[k] # None} |-> nth[i]]
  BY DEF Children, ChildBody
<1>5. ASSUME NEW i \in 2..n PROVE At(s, i) = after[At(s, i - 1)]
  <2> HIDE DEF s, n
  <2>1. CASE i - 1 \in 1..Len(s)
    <3>1. At(s, i - 1) = s[i - 1] /\ after[s[i - 1]] = t.next[s[i - 1]]
      BY <2>1, <1>3 DEF At
    <3>2. t.next[s[i - 1]] = At(s, (i - 1) + 1) /\ (i - 1) + 1 = i
      <4>1. \A x \in 1..Len(s) : t.next[s[x]] = At(s, x + 1)
        BY <1>1 DEF Lists, Linked, s
      <4>2. (i - 1) + 1 = i
        BY <1>2
      <4> QED BY <2>1, <4>1, <4>2
    <3> QED BY <3>1, <3>2
  <2>2. CASE i - 1 \notin 1..Len(s)
    <3>1. i \notin 1..Len(s)
      BY <2>2, <1>2
    <3>2. At(s, i) = None /\ At(s, i - 1) = None
      BY <3>1, <2>2 DEF At
    <3> QED BY <3>2
  <2> QED BY <2>1, <2>2
<1> HIDE DEF after
<1>6. \E f : f = ChildBody(t, p, after, f)
  <2> DEFINE w == [i \in 1..n |-> At(s, i)]
  <2>1. \A i \in 1..n : w[i] = At(s, i)
    OBVIOUS
  <2> HIDE DEF w
  <2>2. \A i \in 1..n : At(s, i) = IF i = 1 THEN t.first[p] ELSE after[w[i - 1]]
    <3> SUFFICES ASSUME NEW i \in 1..n PROVE At(s, i) = IF i = 1 THEN t.first[p] ELSE after[w[i - 1]]
      OBVIOUS
    <3>1. CASE i = 1
      BY <3>1, <1>1 DEF Lists, Linked
    <3>2. CASE i # 1
      <4>1. i \in 2..n /\ i - 1 \in 1..n
        BY <3>2, <1>2
      <4> QED BY <3>2, <4>1, <1>5, <2>1
    <3> QED BY <3>1, <3>2
  <2>3. w = ChildBody(t, p, after, w)
    BY <2>2 DEF ChildBody, w
  <2> QED BY <2>3
<1>7. nth = ChildBody(t, p, after, nth)
  BY <1>6
<1> HIDE DEF nth
<1>8. \A i \in 1..n : nth[i] = IF i = 1 THEN t.first[p] ELSE after[nth[i - 1]]
  BY <1>7 DEF ChildBody
<1> DEFINE S == {k \in 0..n : k = 0 \/ nth[k] = At(s, k)}
<1>9. 0 \in S
  BY <1>2
<1>10. ASSUME NEW k \in 1..n, k - 1 \in S PROVE k \in S
  <2>1. CASE k = 1
    <3>1. nth[k] = t.first[p]
      BY <2>1, <1>8
    <3>2. t.first[p] = At(s, 1)
      BY <1>1 DEF Lists, Linked
    <3> QED BY <2>1, <3>1, <3>2, <1>2
  <2>2. CASE k # 1
    <3>1. k \in 2..n /\ k - 1 # 0
      BY <2>2, <1>2
    <3>2. nth[k] = after[nth[k - 1]]
      BY <2>2, <1>8
    <3>3. nth[k - 1] = At(s, k - 1)
      BY <3>1, <1>10
    <3>4. nth[k] = At(s, k)
      BY <3>1, <3>2, <3>3, <1>5
    <3> QED BY <3>4, <1>2
  <2> QED BY <2>1, <2>2
<1> HIDE DEF S
<1>11. \A k \in 0..n : k \in S
  <2> HIDE DEF n
  <2> QED BY <1>2, <1>9, <1>10, Induct
<1>12. \A k \in 1..n : nth[k] = At(s, k)
  BY <1>2, <1>11 DEF S
<1> HIDE DEF s
<1>13. \A k \in 1..n : nth[k] # None <=> k \in 1..Len(s)
  BY <1>3, <1>12 DEF At
<1>14. {k \in 1..n : nth[k] # None} = 1..Len(s)
  BY <1>2, <1>13
<1>15. \A k \in 1..Len(s) : nth[k] = s[k]
  BY <1>2, <1>12 DEF At
<1>16. [i \in 1..Len(s) |-> nth[i]] = s
  <2>1. s = [i \in 1..Len(s) |-> s[i]]
    BY <1>2, LenProperties
  <2> QED BY <2>1, <1>15
<1> QED BY <1>4, <1>14, <1>16 DEF s

LEMMA ContentIs ==
  ASSUME NEW t, NEW a, Holds(t, a)
  PROVE  ContentOf(t) = a
<1>1. a \in Contents /\ t.value = a.value
  BY DEF Holds, Sound
<1>2. [n \in Nodes |-> Children(t, n)] = [n \in Nodes |-> a.children[n]]
  BY ChildrenAre
<1>3. a.children = [n \in Nodes |-> a.children[n]] /\ a = [children |-> a.children, value |-> a.value]
  BY <1>1 DEF Contents
<1> QED BY <1>1, <1>2, <1>3 DEF ContentOf

-----------------------------------------------------------------------------
(* There is a content for every edit.                                      *)

LEMMA InsertedExists ==
  ASSUME NEW a, Sound(a), NEW p \in Nodes, NEW k \in Nodes, Orphan(a, k), NEW j \in 0..Len(a.children[p])
  PROVE  \E b : Inserted(a, b, p, k, At(a.children[p], j))
<1> DEFINE s == a.children[p]
           u == [i \in 1..Len(s) + 1 |-> IF i <= j THEN s[i] ELSE IF i = j + 1 THEN k ELSE s[i - 1]]
           ch == [a.children EXCEPT ![p] = u]
           b == [children |-> ch, value |-> a.value]
<1>1. s \in Seq(Nodes) /\ Len(s) \in Nat /\ \A i \in 1..Len(s) : s[i] \in Nodes
  BY ChildrenOf
<1>2. Plain(s) /\ \A i \in 1..Len(s) : s[i] # k
  BY PlainChildren DEF Orphan
<1>3. a.children \in [Nodes -> Seq(Nodes)] /\ a.value \in NodeValues
  BY DEF Sound, Contents
<1>s. s = a.children[p]
  OBVIOUS
<1> HIDE DEF s
<1>j. j \in 0..Len(s)
  BY <1>s
<1>4. /\ \A i \in 1..j : i \in 1..Len(s) /\ u[i] = s[i]
      /\ u[j + 1] = k
      /\ \A i \in j + 1..Len(s) : u[i + 1] = s[i]
      /\ \A i \in j + 2..Len(s) + 1 : u[i] = s[i - 1] /\ i - 1 \in 1..Len(s) /\ i - 1 > j
      /\ \A i \in 1..Len(s) + 1 : i \in 1..j \/ i = j + 1 \/ i \in j + 2..Len(s) + 1
  BY <1>1, <1>j
<1>5. u \in Seq(Nodes) /\ Len(u) = Len(s) + 1
  <2>1. \A i \in 1..Len(s) + 1 : u[i] \in Nodes
    <3> HIDE DEF u
    <3> QED BY <1>1, <1>4
  <2>2. u \in [1..Len(s) + 1 -> Nodes]
    <3>1. u = [i \in 1..Len(s) + 1 |-> u[i]]
      OBVIOUS
    <3> HIDE DEF u
    <3> QED BY <2>1, <3>1
  <2> HIDE DEF u
  <2> QED BY <1>1, <2>2
<1> HIDE DEF u
<1>6. Inserts(s, u, j, k)
  BY <1>4, <1>5, <1>j DEF Inserts
<1>7. \A x, y \in 1..Len(u) : u[x] = u[y] => x = y
  <2> SUFFICES ASSUME NEW x \in 1..Len(u), NEW y \in 1..Len(u), u[x] = u[y] PROVE x = y
    OBVIOUS
  <2> DEFINE X(i) == IF i <= j THEN i ELSE i - 1
  <2>1. \A i \in 1..Len(u) : i # j + 1 => u[i] = s[X(i)] /\ X(i) \in 1..Len(s)
    BY <1>1, <1>4, <1>5, <1>j
  <2>2. X(x) = X(y) /\ x # j + 1 /\ y # j + 1 => x = y
    BY <1>1, <1>5, <1>j
  <2> HIDE DEF X
  <2>3. CASE x = j + 1 \/ y = j + 1
    BY <2>1, <2>3, <1>2, <1>4
  <2>4. CASE x # j + 1 /\ y # j + 1
    BY <2>1, <2>2, <2>4, <1>2 DEF Plain
  <2> QED BY <2>3, <2>4
<1>8. ch \in [Nodes -> Seq(Nodes)] /\ ch[p] = u /\ \A q \in Nodes : q # p => ch[q] = a.children[q]
  BY <1>3, <1>5
<1>9. b \in Contents /\ b.children = ch /\ b.value = a.value
  BY <1>3, <1>8 DEF Contents
<1> HIDE DEF ch, b
<1>10. \A x \in 1..Len(u) : u[x] = k \/ \E i \in 1..Len(s) : u[x] = s[i]
  BY <1>2, <1>6, <1>j, InsertsMembers
<1>11. ASSUME NEW q \in Nodes, q # p, NEW x \in 1..Len(u), NEW y \in 1..Len(a.children[q])
       PROVE  u[x] # a.children[q][y]
  <2>1. CASE u[x] = k
    BY <2>1 DEF Orphan
  <2>2. CASE u[x] # k
    <3>1. PICK i \in 1..Len(s) : u[x] = s[i]
      BY <2>2, <1>10
    <3> QED BY <3>1, <1>11, <1>s DEF Sound
  <2> QED BY <2>1, <2>2
<1>12. Sound(b)
  <2> SUFFICES ASSUME NEW q1 \in Nodes, NEW q2 \in Nodes, NEW x \in 1..Len(ch[q1]), NEW y \in 1..Len(ch[q2]),
                      ch[q1][x] = ch[q2][y]
               PROVE  q1 = q2 /\ x = y
    BY <1>9 DEF Sound
  <2>1. CASE q1 = p /\ q2 = p
    BY <2>1, <1>7, <1>8
  <2>2. CASE q1 = p /\ q2 # p
    <3>1. ch[q1] = u /\ ch[q2] = a.children[q2]
      BY <2>2, <1>8
    <3> QED BY <2>2, <3>1, <1>11
  <2>3. CASE q1 # p /\ q2 = p
    <3>1. ch[q2] = u /\ ch[q1] = a.children[q1]
      BY <2>3, <1>8
    <3> QED BY <2>3, <3>1, <1>11
  <2>4. CASE q1 # p /\ q2 # p
    <3>1. ch[q1] = a.children[q1] /\ ch[q2] = a.children[q2]
      BY <2>4, <1>8
    <3> QED BY <3>1 DEF Sound
  <2> QED BY <2>1, <2>2, <2>3, <2>4
<1>13. /\ b.children[p] = u /\ \A q \in Nodes : q # p => b.children[q] = a.children[q]
       /\ At(s, j) = At(s, j)
  BY <1>8, <1>9
<1>14. Inserted(a, b, p, k, At(s, j))
  BY <1>6, <1>9, <1>12, <1>13, <1>s DEF Inserted
<1> QED BY <1>14, <1>s

LEMMA RemovedExists ==
  ASSUME NEW b, Sound(b), NEW p \in Nodes, NEW j \in 1..Len(b.children[p])
  PROVE  \E a : Inserted(a, b, p, b.children[p][j], At(b.children[p], j - 1))
<1> DEFINE u == b.children[p]
           k == u[j]
           s == [i \in 1..Len(u) - 1 |-> IF i < j THEN u[i] ELSE u[i + 1]]
           ch == [b.children EXCEPT ![p] = s]
           a == [children |-> ch, value |-> b.value]
<1>1. u \in Seq(Nodes) /\ Len(u) \in Nat /\ \A i \in 1..Len(u) : u[i] \in Nodes
  BY ChildrenOf
<1>2. Plain(u)
  BY PlainChildren
<1>3. b.children \in [Nodes -> Seq(Nodes)] /\ b.value \in NodeValues
  BY DEF Sound, Contents
<1>u. u = b.children[p]
  OBVIOUS
<1> HIDE DEF u
<1>j. j \in 1..Len(u) /\ k \in Nodes
  BY <1>1, <1>u
<1> DEFINE X(i) == IF i < j THEN i ELSE i + 1
<1>4. /\ \A i \in 1..Len(u) - 1 : s[i] = u[X(i)] /\ X(i) \in 1..Len(u) /\ X(i) # j
      /\ \A i \in 1..j - 1 : s[i] = u[i]
      /\ \A i \in j..Len(u) - 1 : s[i] = u[i + 1]
      /\ \A x, y \in 1..Len(u) - 1 : X(x) = X(y) => x = y
  BY <1>1, <1>j
<1> HIDE DEF X
<1>5. s \in Seq(Nodes) /\ Len(s) = Len(u) - 1
  <2>1. \A i \in 1..Len(u) - 1 : s[i] \in Nodes
    <3> HIDE DEF s
    <3> QED BY <1>1, <1>4
  <2>2. s \in [1..Len(u) - 1 -> Nodes]
    <3>1. s = [i \in 1..Len(u) - 1 |-> s[i]]
      OBVIOUS
    <3> HIDE DEF s
    <3> QED BY <2>1, <3>1
  <2>3. Len(u) - 1 \in Nat
    BY <1>1, <1>j
  <2> HIDE DEF s
  <2> QED BY <2>2, <2>3
<1> HIDE DEF s
<1>6. Inserts(s, u, j - 1, k)
  <2>1. j - 1 \in 0..Len(s) /\ Len(u) = Len(s) + 1 /\ (j - 1) + 1 = j
    BY <1>1, <1>5, <1>j
  <2>2. \A i \in 1..j - 1 : u[i] = s[i]
    BY <1>4
  <2>3. \A i \in (j - 1) + 1..Len(s) : u[i + 1] = s[i]
    BY <1>4, <1>5, <2>1
  <2> QED BY <2>1, <2>2, <2>3 DEF Inserts
<1>7. /\ \A x, y \in 1..Len(s) : s[x] = s[y] => x = y
      /\ \A x \in 1..Len(s) : s[x] # k
  <2> USE <1>5
  <2>1. \A x \in 1..Len(s) : s[x] = u[X(x)] /\ X(x) \in 1..Len(u) /\ X(x) # j
    BY <1>4
  <2>2. \A x, y \in 1..Len(u) : u[x] = u[y] => x = y
    BY <1>2 DEF Plain
  <2>3. \A x, y \in 1..Len(s) : X(x) = X(y) => x = y
    BY <1>4
  <2>4. \A x, y \in 1..Len(s) : s[x] = s[y] => x = y
    BY <2>1, <2>2, <2>3
  <2>5. \A x \in 1..Len(s) : s[x] # k
    BY <2>1, <2>2, <1>j
  <2> QED BY <2>4, <2>5
<1> HIDE DEF k
<1>8. ch \in [Nodes -> Seq(Nodes)] /\ ch[p] = s /\ \A q \in Nodes : q # p => ch[q] = b.children[q]
  BY <1>3, <1>5
<1>9. a \in Contents /\ a.children = ch /\ a.value = b.value
  BY <1>3, <1>8 DEF Contents
<1> HIDE DEF ch, a
<1>10. \A x \in 1..Len(s) : \E y \in 1..Len(u) : s[x] = u[y]
  BY <1>4, <1>5
<1>k. k = b.children[p][j]
  BY <1>u DEF k
<1>11. ASSUME NEW q \in Nodes, q # p, NEW x \in 1..Len(s), NEW y \in 1..Len(b.children[q])
       PROVE  s[x] # b.children[q][y]
  <2>1. PICK i \in 1..Len(u) : s[x] = u[i]
    BY <1>10
  <2> QED BY <2>1, <1>11, <1>u DEF Sound
<1>12. Sound(a)
  <2> SUFFICES ASSUME NEW q1 \in Nodes, NEW q2 \in Nodes, NEW x \in 1..Len(ch[q1]), NEW y \in 1..Len(ch[q2]),
                      ch[q1][x] = ch[q2][y]
               PROVE  q1 = q2 /\ x = y
    BY <1>9 DEF Sound
  <2>1. CASE q1 = p /\ q2 = p
    BY <2>1, <1>7, <1>8
  <2>2. CASE q1 = p /\ q2 # p
    <3>1. ch[q1] = s /\ ch[q2] = b.children[q2]
      BY <2>2, <1>8
    <3> QED BY <2>2, <3>1, <1>11
  <2>3. CASE q1 # p /\ q2 = p
    <3>1. ch[q2] = s /\ ch[q1] = b.children[q1]
      BY <2>3, <1>8
    <3> QED BY <2>3, <3>1, <1>11
  <2>4. CASE q1 # p /\ q2 # p
    <3>1. ch[q1] = b.children[q1] /\ ch[q2] = b.children[q2]
      BY <2>4, <1>8
    <3> QED BY <3>1 DEF Sound
  <2> QED BY <2>1, <2>2, <2>3, <2>4
<1>13. Orphan(a, k)
  <2> SUFFICES ASSUME NEW q \in Nodes, NEW x \in 1..Len(ch[q]) PROVE ch[q][x] # k
    BY <1>9 DEF Orphan
  <2>1. CASE q = p
    BY <2>1, <1>7, <1>8
  <2>2. CASE q # p
    <3>1. ch[q] = b.children[q]
      BY <2>2, <1>8
    <3> QED BY <2>2, <3>1, <1>j, <1>k, <1>u DEF Sound
  <2> QED BY <2>1, <2>2
<1>14. At(s, j - 1) = At(u, j - 1)
  <2>1. CASE j = 1
    BY <2>1 DEF At
  <2>2. CASE j # 1
    <3>1. j - 1 \in 1..j - 1 /\ j - 1 \in 1..Len(s) /\ j - 1 \in 1..Len(u)
      BY <2>2, <1>1, <1>5, <1>j
    <3> QED BY <3>1, <1>4 DEF At
  <2> QED BY <2>1, <2>2
<1>15. a.children[p] = s /\ \A q \in Nodes : q # p => b.children[q] = a.children[q]
  BY <1>8, <1>9
<1>16. j - 1 \in 0..Len(s)
  BY <1>1, <1>5, <1>j
<1>17. Inserted(a, b, p, k, At(u, j - 1))
  BY <1>6, <1>9, <1>12, <1>13, <1>14, <1>15, <1>16, <1>j, <1>u DEF Inserted
<1> QED BY <1>17, <1>u, <1>k

\* Where a node is among the children of its parent.
LEMMA PlaceIs ==
  ASSUME NEW t, NEW a, Holds(t, a), NEW k \in Nodes, t.parent[k] # None
  PROVE  /\ t.parent[k] \in Nodes
         /\ \E i \in 1..Len(a.children[t.parent[k]]) :
              a.children[t.parent[k]][i] = k /\ t.prev[k] = At(a.children[t.parent[k]], i - 1)
<1>1. t.parent[k] \in Nodes
  BY DEF Holds, Trees, Links
<1>2. PICK i \in 1..Len(a.children[t.parent[k]]) : a.children[t.parent[k]][i] = k
  BY DEF Holds
<1>3. Lists(t, t.parent[k], a.children[t.parent[k]])
  BY <1>1 DEF Holds
<1> QED BY <1>1, <1>2, <1>3 DEF Lists, Linked

LEMMA OrphanIs ==
  ASSUME NEW t, NEW a, Holds(t, a), NEW k \in Nodes, t.parent[k] = None
  PROVE  Orphan(a, k)
<1> SUFFICES ASSUME NEW q \in Nodes, NEW i \in 1..Len(a.children[q]), a.children[q][i] = k PROVE FALSE
  BY DEF Orphan
<1>1. Lists(t, q, a.children[q])
  BY DEF Holds
<1>2. t.parent[k] = q
  BY <1>1 DEF Lists
<1> QED BY <1>2, NoNode

\* The edits, as what the logger is told of them.
LEMMA AttachEffect ==
  ASSUME NEW t, NEW a, Holds(t, a), NEW p \in Nodes, NEW k \in Nodes, NEW r \in Maybe,
         t.parent[k] = None, r # None => t.parent[r] = p
  PROVE  \E b : Effect(Event("add", p, k, r, r), a, b) /\ Holds(AddChild(t, p, k, r), b)
<1>1. Sound(a) /\ Orphan(a, k)
  BY OrphanIs DEF Holds
<1>2. PICK j \in 0..Len(a.children[p]) : At(a.children[p], j) = r
  <2>1. Len(a.children[p]) \in Nat
    BY <1>1, ChildrenOf
  <2>2. CASE r = None
    BY <2>1, <2>2 DEF At
  <2>3. CASE r # None
    <3>1. r \in Nodes
      BY <2>3 DEF Maybe
    <3>p. t.parent[r] = p /\ t.parent[r] # None
      BY <2>3, NoNode
    <3>2. PICK i \in 1..Len(a.children[p]) : a.children[p][i] = r
      BY <3>p, <3>1, PlaceIs
    <3>3. i \in 0..Len(a.children[p])
      BY <2>1
    <3> QED BY <3>2, <3>3 DEF At
  <2> QED BY <2>2, <2>3
<1>3. PICK b : Inserted(a, b, p, k, r)
  BY <1>1, <1>2, InsertedExists
<1> DEFINE e == Event("add", p, k, r, r)
<1>4. e \in Events /\ e.type = "add" /\ e.repr = p /\ e.key = k /\ e.old = r /\ e.new = r
  BY DEF Event, Events, Maybe
<1> HIDE DEF e
<1>5. Effect(e, a, b)
  BY <1>3, <1>4 DEF Effect, AddEffect
<1>6. Holds(AddChild(t, p, k, r), b)
  BY <1>3, HoldsAdded
<1> QED BY <1>5, <1>6 DEF e

LEMMA DetachEffect ==
  ASSUME NEW t, NEW b, Holds(t, b), NEW k \in Nodes, t.parent[k] # None
  PROVE  \E a : /\ Effect(Event("del", t.parent[k], k, t.prev[k], t.prev[k]), b, a)
                /\ Holds(RemoveChild(t, t.parent[k], k), a)
<1> DEFINE p == t.parent[k]
           r == t.prev[k]
           e == Event("del", p, k, r, r)
<1>1. p \in Nodes /\ \E i \in 1..Len(b.children[p]) : b.children[p][i] = k /\ r = At(b.children[p], i - 1)
  BY PlaceIs
<1>2. Sound(b) /\ r \in Maybe
  BY DEF Holds, Trees, Links, Maybe
<1> HIDE DEF p, r
<1>3. PICK i \in 1..Len(b.children[p]) : b.children[p][i] = k /\ r = At(b.children[p], i - 1)
  BY <1>1
<1>4. PICK a : Inserted(a, b, p, k, r)
  BY <1>1, <1>2, <1>3, RemovedExists
<1>5. e \in Events /\ e.type = "del" /\ e.repr = p /\ e.key = k /\ e.old = r /\ e.new = r
  BY <1>1, <1>2 DEF Event, Events, Maybe
<1> HIDE DEF e
<1>6. Effect(e, b, a)
  BY <1>4, <1>5 DEF Effect, DelEffect
<1>7. Holds(RemoveChild(t, p, k), a)
  BY <1>4, HoldsRemoved
<1> QED BY <1>6, <1>7 DEF e, p, r

LEMMA MoveEffect ==
  ASSUME NEW t, NEW b, Holds(t, b), NEW k \in Nodes, NEW r \in Maybe, t.parent[k] # None,
         Reorders(t, t.parent[k], k, r)
  PROVE  \E a : /\ Effect(Event("order", t.parent[k], k, t.prev[k], r), b, a)
                /\ Holds(ChangeOrder(t, t.parent[k], k, r), a)
<1> DEFINE p == t.parent[k]
           old == t.prev[k]
           e == Event("order", p, k, old, r)
<1>1. p \in Nodes /\ \E i \in 1..Len(b.children[p]) : b.children[p][i] = k /\ old = At(b.children[p], i - 1)
  BY PlaceIs
<1>2. Sound(b) /\ old \in Maybe
  BY DEF Holds, Trees, Links, Maybe
<1>3. k # r /\ (r # None => t.parent[r] = p) /\ old # r
  BY DEF Reorders
<1>p. p # None
  OBVIOUS
<1> HIDE DEF p, old
<1>4. PICK i \in 1..Len(b.children[p]) : b.children[p][i] = k /\ old = At(b.children[p], i - 1)
  BY <1>1
<1>5. PICK m : Inserted(m, b, p, k, old)
  BY <1>1, <1>2, <1>4, RemovedExists
<1>6. Sound(m) /\ Orphan(m, k)
  BY <1>5 DEF Inserted
<1>7. PICK j \in 0..Len(m.children[p]) : At(m.children[p], j) = r
  <2>1. Len(m.children[p]) \in Nat
    BY <1>1, <1>6, ChildrenOf
  <2>2. CASE r = None
    BY <2>1, <2>2 DEF At
  <2>3. CASE r # None
    <3>1. r \in Nodes
      BY <2>3 DEF Maybe
    <3>2. t.parent[r] # None /\ t.parent[r] = p
      BY <2>3, <1>3, <1>p
    <3>3. PICK x \in 1..Len(b.children[p]) : b.children[p][x] = r
      BY <3>1, <3>2, PlaceIs
    <3>4. PICK y \in 1..Len(m.children[p]) : m.children[p][y] = r
      <4> DEFINE s == m.children[p]
                 u == b.children[p]
      <4>1. PICK z \in 0..Len(s) : Inserts(s, u, z, k)
        BY <1>5, InsertedAt
      <4>2. Plain(s)
        BY <1>1, <1>6, PlainChildren
      <4>3. x \in 1..Len(u) /\ u[x] = r
        BY <3>3
      <4> HIDE DEF s, u
      <4>4. \A v \in 1..Len(u) : u[v] = k \/ \E w \in 1..Len(s) : u[v] = s[w]
        BY <4>1, <4>2, InsertsMembers
      <4>5. \E w \in 1..Len(s) : s[w] = r
        BY <4>3, <4>4, <1>3
      <4> QED BY <4>5 DEF s
    <3>5. y \in 0..Len(m.children[p])
      BY <2>1
    <3> QED BY <3>4, <3>5 DEF At
  <2> QED BY <2>2, <2>3
<1>8. PICK a : Inserted(m, a, p, k, r)
  BY <1>1, <1>6, <1>7, InsertedExists
<1>9. e \in Events /\ e.type = "order" /\ e.repr = p /\ e.key = k /\ e.old = old /\ e.new = r
  BY <1>1, <1>2 DEF Event, Events, Maybe
<1> HIDE DEF e
<1>10. Effect(e, b, a)
  BY <1>3, <1>5, <1>8, <1>9 DEF Effect, OrderEffect
<1>11. Holds(ChangeOrder(t, p, k, r), a)
  BY <1>3, <1>5, <1>8, HoldsMoved
<1> QED BY <1>10, <1>11 DEF e, p, old

LEMMA SetEffect ==
  ASSUME NEW t, NEW a, Holds(t, a), NEW n \in Nodes, NEW f \in Fields, NEW v \in Values \cup {None}
  PROVE  \E b : Effect(Event("value", n, f, t.value[n][f], v), a, b) /\ Holds(SetValue(t, n, f, v), b)
<1> DEFINE old == t.value[n][f]
           e == Event("value", n, f, old, v)
           value == [a.value EXCEPT ![n][f] = v]
           b == [children |-> a.children, value |-> value]
<1>1. Sound(a) /\ t.value = a.value
  BY DEF Holds
<1>2. a.value \in NodeValues /\ a.children \in [Nodes -> Seq(Nodes)]
  BY <1>1 DEF Sound, Contents
<1>3. value \in NodeValues /\ old \in Values \cup {None} /\ old = a.value[n][f]
  BY <1>1, <1>2 DEF NodeValues
<1>v. value = [a.value EXCEPT ![n][f] = v]
  OBVIOUS
<1> HIDE DEF value, old
<1>4. b \in Contents /\ b.children = a.children /\ b.value = value
  BY <1>2, <1>3 DEF Contents
<1> HIDE DEF b
<1>5. Sound(b)
  BY <1>1, <1>4 DEF Sound
<1>6. e \in Events /\ e.type = "value" /\ e.repr = n /\ e.key = f /\ e.old = old /\ e.new = v
  BY <1>3 DEF Event, Events
<1> HIDE DEF e
<1>7. Effect(e, a, b)
  BY <1>1, <1>3, <1>4, <1>5, <1>6, <1>v DEF Effect, ValueEffect
<1>8. Holds(SetValue(t, n, f, v), b)
  BY <1>4, <1>5, <1>v, HoldsSet
<1> QED BY <1>7, <1>8 DEF e, old

\* To count the children does not change them.
LEMMA HoldsNumbered ==
  ASSUME NEW t, NEW a, Holds(t, a), NEW p \in Nodes
  PROVE  Holds(Number(t, p), a)
<1> DEFINE s == Children(t, p)
           valid == [t.valid EXCEPT ![p] = TRUE]
           position == [n \in Nodes |-> IF n \in Range(s) THEN (CHOOSE i \in DOMAIN s : s[i] = n) - 1 ELSE t.position[n]]
           new == Number(t, p)
<1>t. t \in Trees /\ Sound(a) /\ t.valid \in [Nodes -> BOOLEAN] /\ t.position \in [Nodes -> Int]
  BY DEF Holds, Trees
<1>1. s = a.children[p]
  BY ChildrenAre
<1>2. new = [t EXCEPT !.valid = valid, !.position = position]
  BY <1>t DEF Number, Trees
<1> HIDE DEF s
<1>3. Plain(s) /\ Len(s) \in Nat /\ DOMAIN s = 1..Len(s) /\ \A i \in 1..Len(s) : s[i] \in Nodes
  BY <1>t, <1>1, PlainChildren, ChildrenOf, LenProperties DEF Plain
<1>4. \A i \in 1..Len(s) : position[s[i]] = i - 1
  <2> SUFFICES ASSUME NEW i \in 1..Len(s) PROVE position[s[i]] = i - 1
    OBVIOUS
  <2>1. s[i] \in Range(s) /\ s[i] \in Nodes
    BY <1>3 DEF Range
  <2>2. (CHOOSE x \in DOMAIN s : s[x] = s[i]) = i
    BY <1>3 DEF Plain
  <2> QED BY <2>1, <2>2
<1>5. \A n \in Nodes : (\E i \in 1..Len(s) : n = s[i]) \/ position[n] = t.position[n]
  BY <1>3 DEF Range
<1>6. Cardinality(Nodes) \in Nat /\ Len(s) <= Cardinality(Nodes)
  BY <1>t, <1>1, FewChildren
<1>7. \A n \in Nodes : position[n] \in 0..Cardinality(Nodes)
  <2> SUFFICES ASSUME NEW n \in Nodes PROVE position[n] \in 0..Cardinality(Nodes)
    OBVIOUS
  <2> HIDE DEF position
  <2>1. CASE \E i \in 1..Len(s) : n = s[i]
    <3>1. PICK i \in 1..Len(s) : n = s[i]
      BY <2>1
    <3>2. position[n] = i - 1
      BY <3>1, <1>4
    <3> QED BY <3>2, <1>3, <1>6
  <2>2. CASE position[n] = t.position[n]
    BY <2>2 DEF Holds
  <2> QED BY <2>1, <2>2, <1>5
<1>8. position \in [Nodes -> Int]
  <2>1. position = [n \in Nodes |-> position[n]]
    OBVIOUS
  <2> HIDE DEF position
  <2>2. \A n \in Nodes : position[n] \in Int
    BY <1>6, <1>7
  <2> QED BY <2>1, <2>2
<1>9. valid \in [Nodes -> BOOLEAN] /\ \A n \in Nodes : n # p => valid[n] = t.valid[n]
  BY <1>t
<1> HIDE DEF valid, position, new
<1>10. /\ new \in Trees /\ new.valid = valid /\ new.position = position
       /\ new.asserted = t.asserted /\ new.parent = t.parent /\ new.next = t.next
       /\ new.prev = t.prev /\ new.first = t.first /\ new.last = t.last
       /\ new.count = t.count /\ new.value = t.value
  BY <1>t, <1>2, <1>8, <1>9 DEF Trees
<1>11. ASSUME NEW q \in Nodes PROVE Lists(new, q, a.children[q])
  <2>1. Lists(t, q, a.children[q])
    BY DEF Holds
  <2>2. Linked(new, q, a.children[q]) /\ new.count[q] = Len(a.children[q])
        /\ \A i \in 1..Len(a.children[q]) : new.parent[a.children[q][i]] = q
    BY <2>1, <1>10 DEF Lists, Linked
  <2>3. ASSUME new.valid[q], NEW i \in 1..Len(a.children[q]) PROVE new.position[a.children[q][i]] = i - 1
    <3>1. CASE q = p
      BY <3>1, <1>1, <1>4, <1>10
    <3>2. CASE q # p
      <4>1. t.valid[q]
        BY <2>3, <3>2, <1>9, <1>10
      <4>2. t.position[a.children[q][i]] = i - 1
        BY <4>1, <2>1 DEF Lists
      <4>3. a.children[q][i] \in Nodes
        BY <1>t, ChildrenOf
      <4>4. \A x \in 1..Len(s) : a.children[q][i] # s[x]
        BY <3>2, <1>t, <1>1 DEF Sound
      <4> QED BY <4>2, <4>3, <4>4, <1>5, <1>10
    <3> QED BY <3>1, <3>2
  <2> QED BY <2>2, <2>3 DEF Lists
<1>12. /\ \A n \in Nodes : new.parent[n] = None => new.next[n] = None /\ new.prev[n] = None
       /\ \A n \in Nodes : new.parent[n] # None =>
            \E i \in 1..Len(a.children[new.parent[n]]) : a.children[new.parent[n]][i] = n
       /\ new.asserted /\ new.value = a.value
  BY <1>10 DEF Holds
<1>13. \A n \in Nodes : new.position[n] \in 0..Cardinality(Nodes)
  BY <1>7, <1>10
<1> QED BY <1>t, <1>10, <1>11, <1>12, <1>13 DEF Holds, new

-----------------------------------------------------------------------------
(* The document that is read.                                              *)

\* The children s[k + 1], s[k + 2] and so on are still to be added.
Ready(t, s, k) == (\E a : Holds(t, a)) /\ \A i \in k + 1..Len(s) : t.parent[s[i]] = None

LEMMA ReadyFirst ==
  ASSUME NEW s \in Seq(Nodes)
  PROVE  Ready(NewNodes, s, 0)
<1> DEFINE all(v) == [n \in Nodes |-> v]
           value == all([f \in Fields |-> None])
           a == [children |-> all(<< >>), value |-> value]
           t == NewNodes
<1>1. t \in Trees
  BY NoNode DEF NewNodes, Trees, Links, NodeValues
<1>2. /\ t.asserted /\ t.value = value
      /\ \A n \in Nodes : /\ t.parent[n] = None /\ t.next[n] = None /\ t.prev[n] = None
                          /\ t.first[n] = None /\ t.last[n] = None /\ t.count[n] = 0 /\ t.position[n] = 0
  BY DEF NewNodes
<1>3. << >> \in Seq(Nodes) /\ Len(<< >>) = 0
  BY EmptySeq
<1>4. value \in NodeValues
  BY DEF NodeValues
<1>5. a \in Contents /\ a.value = value /\ \A n \in Nodes : a.children[n] = << >>
  BY <1>3, <1>4 DEF Contents
<1> HIDE DEF a, value, t
<1>6. \A i \in 1..0 : FALSE
  OBVIOUS
<1>7. Sound(a)
  BY <1>3, <1>5, <1>6 DEF Sound
<1>8. \A n \in Nodes : Lists(t, n, a.children[n])
  <2> SUFFICES ASSUME NEW n \in Nodes PROVE Lists(t, n, << >>)
    BY <1>5
  <2>1. At(<< >>, 1) = None /\ At(<< >>, 0) = None
    BY <1>3 DEF At
  <2> QED BY <2>1, <1>2, <1>3, <1>6 DEF Lists, Linked
<1>9. Cardinality(Nodes) \in Nat
  BY NoNode, FS_CardinalityType
<1>10. Holds(t, a)
  BY <1>1, <1>2, <1>5, <1>7, <1>8, <1>9 DEF Holds
<1>11. Len(s) \in Nat /\ \A i \in 0 + 1..Len(s) : s[i] \in Nodes
  BY ElementOfSeq, LenProperties
<1> QED BY <1>2, <1>10, <1>11 DEF Ready, t

LEMMA ReadyNext ==
  ASSUME NEW t, NEW s \in Seq(Nodes), NEW k \in 1..Len(s), Ready(t, s, k - 1),
         \A i, j \in 1..Len(s) : s[i] = s[j] => i = j
  PROVE  t \in Trees /\ Ready(AddChild(t, Root, s[k], t.last[Root]), s, k)
<1>1. PICK a : Holds(t, a)
  BY DEF Ready
<1> DEFINE r == t.last[Root]
           c == s[k]
           new == AddChild(t, Root, c, r)
<1>2. t \in Trees /\ Sound(a) /\ r \in Maybe
  BY <1>1, NoNode DEF Holds, Trees, Links, Maybe
<1>3. Len(s) \in Nat /\ \A i \in 1..Len(s) : s[i] \in Nodes
  BY ElementOfSeq, LenProperties
<1>4. \A i \in k..Len(s) : t.parent[s[i]] = None
  BY <1>3 DEF Ready
<1>5. c \in Nodes /\ t.parent[c] = None
  BY <1>3, <1>4
<1>6. r # None => t.parent[r] = Root
  <2>1. Lists(t, Root, a.children[Root])
    BY <1>1, NoNode DEF Holds
  <2> QED BY <2>1 DEF Lists, Linked, At
<1>7. \A i \in k + 1..Len(s) : s[i] # c /\ s[i] \in Nodes /\ t.parent[s[i]] = None
  BY <1>3, <1>4
<1> HIDE DEF r, c
<1>8. \E b : Effect(Event("add", Root, c, r, r), a, b) /\ Holds(new, b)
  BY <1>1, <1>2, <1>5, <1>6, NoNode, AttachEffect
<1>9. PICK next \in Maybe : Adds(new, t, Root, c, r, next)
  BY <1>2, <1>5, NoNode, AddChildIs
<1>10. \A i \in k + 1..Len(s) : new.parent[s[i]] = None
  BY <1>7, <1>9 DEF Adds
<1> HIDE DEF new
<1>11. Ready(new, s, k)
  BY <1>8, <1>10 DEF Ready
<1> QED BY <1>2, <1>11 DEF new, r, c

FilledBody(s, f) ==
  [i \in 0..Len(s) |-> IF i = 0 THEN NewNodes ELSE LET t == f[i - 1] IN AddChild(t, Root, s[i], t.last[Root])]

LEMMA HoldsFilled ==
  ASSUME NEW s \in Seq(Nodes), \A i, j \in 1..Len(s) : s[i] = s[j] => i = j
  PROVE  \E a : Holds(Filled(s), a)
<1> DEFINE n == Len(s)
           next(u, i) == AddChild(u, Root, s[i], u.last[Root])
           g == [i \in 1..n |-> [u \in Trees |-> next(u, i)]]
<1>n. n \in Nat
  BY LenProperties
<1>2. ASSUME NEW i \in 1..n, NEW u, Ready(u, s, i - 1) PROVE u \in Trees /\ Ready(next(u, i), s, i)
  BY <1>2, ReadyNext
<1>0. Ready(NewNodes, s, 0)
  BY ReadyFirst
<1>3. \E f : f = FilledBody(s, f)
  <2>0. PICK f : IsRecursion(f, NewNodes, g, n)
    <3> HIDE DEF g, n
    <3> QED BY <1>n, Recursion
  <2>1. f = [k \in 0..n |-> IF k = 0 THEN NewNodes ELSE g[k][f[k - 1]]]
    BY <2>0 DEF IsRecursion
  <2>2. f[0] = NewNodes /\ \A k \in 1..n : f[k] = g[k][f[k - 1]]
    <3> HIDE DEF g
    <3>1. 0 \in 0..n /\ \A k \in 1..n : k \in 0..n /\ k # 0
      BY <1>n
    <3> QED BY <2>1, <3>1
  <2> DEFINE S == {k \in 0..n : Ready(f[k], s, k)}
  <2>3. 0 \in S
    BY <1>n, <1>0, <2>2
  <2>4. ASSUME NEW k \in 1..n, Ready(f[k - 1], s, k - 1) PROVE f[k] = next(f[k - 1], k)
    <3>1. f[k - 1] \in Trees
      BY <2>4, <1>2
    <3> QED BY <2>2, <3>1
  <2>5. ASSUME NEW k \in 1..n, k - 1 \in S PROVE k \in S
    <3>1. Ready(f[k - 1], s, k - 1)
      BY <2>5
    <3>2. Ready(next(f[k - 1], k), s, k)
      BY <3>1, <1>2
    <3> QED BY <3>1, <3>2, <2>4, <1>n
  <2> HIDE DEF S
  <2>6. \A k \in 0..n : k \in S
    <3> HIDE DEF n
    <3> QED BY <1>n, <2>3, <2>5, Induct
  <2>7. \A k \in 0..n : f[k] = IF k = 0 THEN NewNodes ELSE next(f[k - 1], k)
    <3> SUFFICES ASSUME NEW k \in 0..n PROVE f[k] = IF k = 0 THEN NewNodes ELSE next(f[k - 1], k)
      OBVIOUS
    <3>1. CASE k = 0
      BY <3>1, <2>2
    <3>2. CASE k # 0
      <4>1. k \in 1..n /\ k - 1 \in 0..n
        BY <3>2, <1>n
      <4>2. Ready(f[k - 1], s, k - 1)
        BY <4>1, <2>6 DEF S
      <4> QED BY <3>2, <4>1, <4>2, <2>4
    <3> QED BY <3>1, <3>2
  <2>8. f = [k \in 0..n |-> f[k]]
    <3> HIDE DEF g
    <3> QED BY <2>1
  <2>9. f = FilledBody(s, f)
    BY <2>7, <2>8 DEF FilledBody
  <2> QED BY <2>9
<1> DEFINE f == CHOOSE x : x = FilledBody(s, x)
<1>4. f = FilledBody(s, f)
  BY <1>3
<1>5. Filled(s) = f[n]
  BY DEF Filled, FilledBody
<1> HIDE DEF f
<1>6. f[0] = NewNodes /\ \A k \in 1..n : f[k] = next(f[k - 1], k)
  <2>1. 0 \in 0..n /\ \A k \in 1..n : k \in 0..n /\ k # 0
    BY <1>n
  <2> QED BY <1>4, <2>1 DEF FilledBody
<1> DEFINE S == {k \in 0..n : Ready(f[k], s, k)}
<1>7. 0 \in S
  BY <1>n, <1>0, <1>6
<1>8. ASSUME NEW k \in 1..n, k - 1 \in S PROVE k \in S
  <2>1. Ready(next(f[k - 1], k), s, k)
    BY <1>8, <1>2
  <2> QED BY <2>1, <1>6, <1>n
<1> HIDE DEF S
<1>9. n \in S
  <2> HIDE DEF n
  <2>1. \A k \in 0..n : k \in S
    BY <1>n, <1>7, <1>8, Induct
  <2> QED BY <1>n, <2>1
<1> QED BY <1>5, <1>9 DEF S, Ready

-----------------------------------------------------------------------------
(* The stacks of logs.                                                     *)

\* A log leads from v to w, when it is to be undone, and else the other way.
Leap(l, v, w, back) == IF back THEN Leads(l, v, w) ELSE Leads(l, w, v)

NextOf(vs, b, i) == IF i = Len(vs) THEN b ELSE vs[i + 1]

\* The logs ls connect the contents vs with each other, and the last with b.
Chain(ls, vs, b, back) ==
  /\ ls \in Seq(Seq(Events)) /\ vs \in Seq(Contents) /\ Len(ls) \in Nat /\ Len(vs) = Len(ls)
  /\ \A i \in 1..Len(ls) : Leap(ls[i], vs[i], NextOf(vs, b, i), back)

LEMMA LeapIsTyped ==
  ASSUME NEW l, NEW v, NEW w, NEW back, Leap(l, v, w, back)
  PROVE  l \in Seq(Events) /\ v \in Contents /\ w \in Contents
BY LeadsIsTyped DEF Leap

LEMMA ChainEmpty ==
  ASSUME NEW b, NEW back
  PROVE  Chain(<< >>, << >>, b, back)
<1>1. << >> \in Seq(Seq(Events)) /\ << >> \in Seq(Contents) /\ Len(<< >>) = 0
  BY EmptySeq
<1>2. \A i \in 1..0 : FALSE
  OBVIOUS
<1> QED BY <1>1, <1>2 DEF Chain

LEMMA ChainAppend ==
  ASSUME NEW ls, NEW vs, NEW b, NEW c, NEW back, NEW l, Chain(ls, vs, b, back), Leap(l, b, c, back)
  PROVE  Chain(Append(ls, l), Append(vs, b), c, back)
<1> DEFINE n == Len(ls)
           m == Append(ls, l)
           w == Append(vs, b)
<1>1. l \in Seq(Events) /\ b \in Contents
  BY LeapIsTyped
<1>2. ls \in Seq(Seq(Events)) /\ vs \in Seq(Contents) /\ n \in Nat /\ Len(vs) = n
  BY DEF Chain
<1>3. /\ m \in Seq(Seq(Events)) /\ Len(m) = n + 1 /\ m[n + 1] = l
      /\ \A i \in 1..n : m[i] = ls[i]
  BY <1>1, <1>2, AppendProperties
<1>4. /\ w \in Seq(Contents) /\ Len(w) = n + 1 /\ w[n + 1] = b
      /\ \A i \in 1..n : w[i] = vs[i]
  BY <1>1, <1>2, AppendProperties
<1>5. \A i \in 1..n : Leap(ls[i], vs[i], NextOf(vs, b, i), back)
  BY DEF Chain
<1> HIDE DEF n, m, w
<1>6. ASSUME NEW i \in 1..n + 1 PROVE Leap(m[i], w[i], NextOf(w, c, i), back)
  <2>1. CASE i = n + 1
    <3>1. NextOf(w, c, i) = c
      BY <2>1, <1>4 DEF NextOf
    <3> QED BY <2>1, <3>1, <1>3, <1>4
  <2>2. CASE i \in 1..n
    <3>1. NextOf(w, c, i) = w[i + 1] /\ i # n + 1
      BY <2>2, <1>2, <1>4 DEF NextOf
    <3>2. w[i + 1] = NextOf(vs, b, i)
      <4>1. CASE i = n
        BY <4>1, <1>2, <1>4 DEF NextOf
      <4>2. CASE i # n
        <5>1. i + 1 \in 1..n
          BY <2>2, <4>2, <1>2
        <5> QED BY <4>2, <5>1, <1>2, <1>4 DEF NextOf
      <4> QED BY <4>1, <4>2
    <3>3. m[i] = ls[i] /\ w[i] = vs[i]
      BY <2>2, <1>3, <1>4
    <3> QED BY <2>2, <3>1, <3>2, <3>3, <1>5
  <2> QED BY <2>1, <2>2, <1>2
<1>7. Chain(m, w, c, back)
  BY <1>2, <1>3, <1>4, <1>6 DEF Chain
<1> QED BY <1>7 DEF m, w

LEMMA ChainFront ==
  ASSUME NEW ls, NEW vs, NEW b, NEW back, Chain(ls, vs, b, back), ls # << >>
  PROVE  /\ vs # << >> /\ Leap(Last(ls), Last(vs), b, back)
         /\ Chain(Front(ls), Front(vs), Last(vs), back)
<1> DEFINE n == Len(ls)
           m == Front(ls)
           w == Front(vs)
           v == Last(vs)
<1>2. ls \in Seq(Seq(Events)) /\ vs \in Seq(Contents) /\ n \in Nat /\ Len(vs) = n
  BY DEF Chain
<1>1. n \in 1..n /\ n - 1 \in Nat /\ vs # << >>
  BY <1>2, EmptySeq
<1>e. \A i \in 1..n : ls[i] \in Seq(Events) /\ vs[i] \in Contents
  BY <1>2, ElementOfSeq
<1>3. m \in Seq(Seq(Events)) /\ Len(m) = n - 1 /\ \A i \in 1..n - 1 : m[i] = ls[i]
  <2>1. 1 \in 1..Len(ls) + 1 /\ 1 \in Int /\ n - 1 \in Int /\ \A i \in 1..n - 1 : ls[i] \in Seq(Events)
    BY <1>1, <1>2, <1>e
  <2>2. /\ SubSeq(ls, 1, n - 1) \in Seq(Seq(Events))
        /\ Len(SubSeq(ls, 1, n - 1)) = IF 1 <= n - 1 THEN (n - 1) - 1 + 1 ELSE 0
        /\ \A i \in 1..(n - 1) - 1 + 1 : SubSeq(ls, 1, n - 1)[i] = ls[1 + i - 1]
    BY <2>1, SubSeqProperties
  <2>3. m = SubSeq(ls, 1, n - 1)
    BY DEF Front
  <2> HIDE DEF m, n
  <2>4. (n - 1) - 1 + 1 = n - 1 /\ \A i \in 1..n - 1 : 1 + i - 1 = i
    BY <1>1
  <2> QED BY <1>1, <2>2, <2>3, <2>4
<1>4. w \in Seq(Contents) /\ Len(w) = n - 1 /\ \A i \in 1..n - 1 : w[i] = vs[i]
  <2>1. 1 \in 1..Len(vs) + 1 /\ 1 \in Int /\ n - 1 \in Int /\ \A i \in 1..n - 1 : vs[i] \in Contents
    BY <1>1, <1>2, <1>e
  <2>2. /\ SubSeq(vs, 1, n - 1) \in Seq(Contents)
        /\ Len(SubSeq(vs, 1, n - 1)) = IF 1 <= n - 1 THEN (n - 1) - 1 + 1 ELSE 0
        /\ \A i \in 1..(n - 1) - 1 + 1 : SubSeq(vs, 1, n - 1)[i] = vs[1 + i - 1]
    BY <2>1, SubSeqProperties
  <2>3. w = SubSeq(vs, 1, n - 1)
    BY <1>2 DEF Front
  <2> HIDE DEF w, n
  <2>4. (n - 1) - 1 + 1 = n - 1 /\ \A i \in 1..n - 1 : 1 + i - 1 = i
    BY <1>1
  <2> QED BY <1>1, <2>2, <2>3, <2>4
<1>5. \A i \in 1..n : Leap(ls[i], vs[i], NextOf(vs, b, i), back)
  BY DEF Chain
<1>6. Last(ls) = ls[n] /\ v = vs[n]
  BY <1>2 DEF Last
<1> HIDE DEF n, m, w, v
<1>7. Leap(Last(ls), v, b, back)
  <2>1. NextOf(vs, b, n) = b
    BY <1>2 DEF NextOf
  <2> QED BY <2>1, <1>1, <1>5, <1>6
<1>8. ASSUME NEW i \in 1..n - 1 PROVE Leap(m[i], w[i], NextOf(w, v, i), back)
  <2>1. i \in 1..n /\ i + 1 \in 1..n /\ i # n
    BY <1>1
  <2>2. NextOf(vs, b, i) = vs[i + 1]
    BY <2>1, <1>2 DEF NextOf
  <2>3. NextOf(w, v, i) = vs[i + 1]
    <3>1. CASE i = n - 1
      <4>1. i + 1 = n
        BY <3>1, <1>1
      <4> QED BY <3>1, <4>1, <1>4, <1>6 DEF NextOf
    <3>2. CASE i # n - 1
      <4>1. i + 1 \in 1..n - 1
        BY <3>2, <1>1
      <4> QED BY <3>2, <4>1, <1>4 DEF NextOf
    <3> QED BY <3>1, <3>2
  <2> QED BY <2>1, <2>2, <2>3, <1>3, <1>4, <1>5
<1>9. Chain(m, w, v, back)
  BY <1>1, <1>3, <1>4, <1>8 DEF Chain
<1> QED BY <1>1, <1>7, <1>9 DEF m, w, v

LEMMA ChainMerged ==
  ASSUME NEW ls, NEW vs, NEW b, NEW c, NEW l, Chain(ls, vs, b, TRUE), ls # << >>, Leads(l, b, c)
  PROVE  Chain([ls EXCEPT ![Len(ls)] = Coalesce(@, l)], vs, c, TRUE)
<1> DEFINE n == Len(ls)
           new == Coalesce(ls[n], l)
           m == [ls EXCEPT ![n] = new]
<1>2. ls \in Seq(Seq(Events)) /\ vs \in Seq(Contents) /\ n \in Nat /\ Len(vs) = n
  BY DEF Chain
<1>1. n \in 1..n
  BY <1>2, EmptySeq
<1>5. \A i \in 1..n : Leap(ls[i], vs[i], NextOf(vs, b, i), TRUE)
  BY DEF Chain
<1>6. m = [ls EXCEPT ![Len(ls)] = Coalesce(@, l)]
  OBVIOUS
<1>3. Leads(new, vs[n], c)
  <2>1. NextOf(vs, b, n) = b
    BY <1>2 DEF NextOf
  <2>2. Leads(ls[n], vs[n], b)
    BY <2>1, <1>1, <1>5 DEF Leap
  <2> QED BY <2>2, LeadsCoalesced
<1>4. new \in Seq(Events)
  BY <1>3, LeadsIsTyped
<1> HIDE DEF n, new
<1>7. m \in Seq(Seq(Events)) /\ Len(m) = n /\ \A i \in 1..n : m[i] = IF i = n THEN new ELSE ls[i]
  BY <1>1, <1>2, <1>4, ExceptSeq DEF n
<1> HIDE DEF m
<1>8. ASSUME NEW i \in 1..n PROVE Leap(m[i], vs[i], NextOf(vs, c, i), TRUE)
  <2>1. CASE i = n
    <3>1. NextOf(vs, c, i) = c
      BY <2>1, <1>2 DEF NextOf
    <3> QED BY <2>1, <3>1, <1>3, <1>7 DEF Leap
  <2>2. CASE i # n
    <3>1. NextOf(vs, c, i) = NextOf(vs, b, i)
      BY <2>2, <1>2 DEF NextOf
    <3> QED BY <2>2, <3>1, <1>5, <1>7
  <2> QED BY <2>1, <2>2
<1>9. Chain(m, vs, c, TRUE)
  BY <1>2, <1>7, <1>8 DEF Chain
<1> QED BY <1>6, <1>9

-----------------------------------------------------------------------------
(* The invariant: the tree holds a content, and all logs lead from where   *)
(* they should to where they should.                                       *)

Current == ContentOf(tree)
TreeInv == Holds(tree, Current)
PendingInv == \E m : Leads(partial, base, m) /\ Leads(log, m, Current)
UndoInv == Chain(undo, past, base, TRUE)
RedoInv == Chain(redo, future, base, FALSE)
Inv == TreeInv /\ PendingInv /\ UndoInv /\ RedoInv

LEMMA PendingLeads ==
  ASSUME Inv
  PROVE  Leads(Pending, base, Current) /\ (Pending = << >> => base = Current)
<1>1. Leads(Pending, base, Current)
  BY LeadsCoalesced DEF Inv, PendingInv, Pending
<1>2. Pending = << >> => Leads(<< >>, base, Current)
  BY <1>1
<1> QED BY <1>1, <1>2, LeadsNowhere

LEMMA InitInv ==
  ASSUME Init
  PROVE  Inv /\ Current \in Contents
<1>0. PICK k \in {Cardinality(Nodes) - 2, Cardinality(Nodes) - 1} :
        \E s \in [1..k -> Nodes \ {Root}] : IsInjective(s) /\ tree = Filled(s)
  BY DEF Init
<1>1. PICK s \in [1..k -> Nodes \ {Root}] : IsInjective(s) /\ tree = Filled(s)
  BY <1>0
<1>2. \E n \in Nat : 1..k = 1..n
  <2>1. k \in Int
    <3>1. Cardinality(Nodes) \in Nat
      BY NoNode, FS_CardinalityType
    <3> QED BY <3>1
  <2>2. CASE k \in Nat
    BY <2>2
  <2>3. CASE k \notin Nat
    <3>1. 1..k = 1..0
      BY <2>1, <2>3
    <3> QED BY <3>1
  <2> QED BY <2>2, <2>3
<1>3. s \in Seq(Nodes)
  <2>1. PICK n \in Nat : 1..k = 1..n
    BY <1>2
  <2>2. s \in [1..n -> Nodes]
    BY <2>1
  <2> QED BY <2>2
<1>4. DOMAIN s = 1..Len(s)
  BY <1>3, LenProperties
<1>5. \A i, j \in 1..Len(s) : s[i] = s[j] => i = j
  BY <1>1, <1>4 DEF IsInjective
<1>6. PICK a : Holds(tree, a)
  BY <1>1, <1>3, <1>5, HoldsFilled
<1>7. Current = a /\ Sound(a) /\ a \in Contents
  BY <1>6, ContentIs DEF Current, Holds, Sound
<1>8. log = << >> /\ partial = << >> /\ undo = << >> /\ redo = << >> /\ base = Current /\ past = << >> /\ future = << >>
  BY DEF Init, Current
<1>9. Leads(<< >>, Current, Current)
  BY <1>7, LeadsNowhere
<1>10. TreeInv
  BY <1>6, <1>7 DEF TreeInv
<1>11. PendingInv
  BY <1>8, <1>9 DEF PendingInv
<1>12. UndoInv /\ RedoInv
  BY <1>8, ChainEmpty DEF UndoInv, RedoInv
<1> QED BY <1>7, <1>10, <1>11, <1>12 DEF Inv

\* An edit that has the effect that the logger is told of.
LEMMA EditInv ==
  ASSUME Inv, NEW t, NEW e, NEW b, Edit(t, e), Effect(e, Current, b), Holds(t, b)
  PROVE  Inv' /\ Current' \in Contents /\ UNCHANGED versions
<1>1. /\ tree' = t /\ log' = Optimize(<<e>> \o log)
      /\ partial' = partial /\ undo' = undo /\ redo' = redo /\ UNCHANGED versions
  BY DEF Edit
<1>2. base' = base /\ past' = past /\ future' = future
  BY <1>1 DEF versions
<1>3. Current' = b /\ b \in Contents
  <2>1. ContentOf(t) = b /\ b \in Contents
    BY ContentIs DEF Holds, Sound
  <2> QED BY <2>1, <1>1 DEF Current
<1>4. TreeInv'
  BY <1>1, <1>3 DEF TreeInv
<1>5. PendingInv'
  <2>1. PICK m : Leads(partial, base, m) /\ Leads(log, m, Current)
    BY DEF Inv, PendingInv
  <2>2. Leads(Optimize(<<e>> \o log), m, b)
    BY <2>1, LeadsLogged
  <2> QED BY <2>1, <2>2, <1>1, <1>2, <1>3 DEF PendingInv
<1>6. UndoInv' /\ RedoInv'
  BY <1>1, <1>2 DEF Inv, UndoInv, RedoInv
<1> QED BY <1>1, <1>3, <1>4, <1>5, <1>6 DEF Inv

LEMMA AttachInv ==
  ASSUME Inv, NEW p \in Nodes, NEW c \in Nodes, NEW r \in Nodes \cup {None}, Attach(p, c, r)
  PROVE  Inv' /\ Current' \in Contents /\ UNCHANGED versions
<1>1. Holds(tree, Current) /\ r \in Maybe
  BY DEF Inv, TreeInv, Maybe
<1>2. /\ tree.parent[c] = None /\ (r # None => tree.parent[r] = p)
      /\ Edit(AddChild(tree, p, c, r), Event("add", p, c, r, r))
  BY DEF Attach
<1>3. PICK b : Effect(Event("add", p, c, r, r), Current, b) /\ Holds(AddChild(tree, p, c, r), b)
  BY <1>1, <1>2, AttachEffect
<1> QED BY <1>2, <1>3, EditInv

LEMMA DetachInv ==
  ASSUME Inv, NEW c \in Nodes, Detach(c)
  PROVE  Inv' /\ Current' \in Contents /\ UNCHANGED versions
<1>1. Holds(tree, Current)
  BY DEF Inv, TreeInv
<1>2. /\ tree.parent[c] # None
      /\ Edit(RemoveChild(tree, tree.parent[c], c), Event("del", tree.parent[c], c, tree.prev[c], tree.prev[c]))
  BY DEF Detach
<1>3. PICK b : /\ Effect(Event("del", tree.parent[c], c, tree.prev[c], tree.prev[c]), Current, b)
               /\ Holds(RemoveChild(tree, tree.parent[c], c), b)
  BY <1>1, <1>2, DetachEffect
<1> QED BY <1>2, <1>3, EditInv

LEMMA MoveInv ==
  ASSUME Inv, NEW c \in Nodes, NEW r \in Nodes \cup {None}, Move(c, r)
  PROVE  Inv' /\ Current' \in Contents /\ UNCHANGED versions
<1>1. Holds(tree, Current) /\ r \in Maybe
  BY DEF Inv, TreeInv, Maybe
<1>2. /\ tree.parent[c] # None /\ Reorders(tree, tree.parent[c], c, r)
      /\ Edit(ChangeOrder(tree, tree.parent[c], c, r), Event("order", tree.parent[c], c, tree.prev[c], r))
  BY DEF Move
<1>3. PICK b : /\ Effect(Event("order", tree.parent[c], c, tree.prev[c], r), Current, b)
               /\ Holds(ChangeOrder(tree, tree.parent[c], c, r), b)
  BY <1>1, <1>2, MoveEffect
<1> QED BY <1>2, <1>3, EditInv

LEMMA SetInv ==
  ASSUME Inv, NEW n \in Nodes, NEW f \in Fields, NEW v \in Values \cup {None}, Set(n, f, v)
  PROVE  Inv' /\ Current' \in Contents /\ UNCHANGED versions
<1>1. Holds(tree, Current)
  BY DEF Inv, TreeInv
<1>2. Edit(SetValue(tree, n, f, v), Event("value", n, f, tree.value[n][f], v))
  BY DEF Set
<1>3. PICK b : Effect(Event("value", n, f, tree.value[n][f], v), Current, b) /\ Holds(SetValue(tree, n, f, v), b)
  BY <1>1, SetEffect
<1> QED BY <1>2, <1>3, EditInv

LEMMA LookUpPositionInv ==
  ASSUME Inv, NEW p \in Nodes, LookUpPosition(p)
  PROVE  Inv' /\ Current' = Current /\ UNCHANGED versions
<1>1. /\ tree' = Number(tree, p)
      /\ log' = log /\ partial' = partial /\ undo' = undo /\ redo' = redo /\ UNCHANGED versions
  BY DEF LookUpPosition
<1>2. base' = base /\ past' = past /\ future' = future
  BY <1>1 DEF versions
<1>3. Holds(Number(tree, p), Current)
  BY HoldsNumbered DEF Inv, TreeInv
<1>4. Current' = Current
  <2>1. ContentOf(Number(tree, p)) = Current
    BY <1>3, ContentIs
  <2> QED BY <2>1, <1>1 DEF Current
<1>5. TreeInv'
  BY <1>1, <1>3, <1>4 DEF TreeInv
<1>6. PendingInv' /\ UndoInv' /\ RedoInv'
  BY <1>1, <1>2, <1>4 DEF Inv, PendingInv, UndoInv, RedoInv
<1> QED BY <1>1, <1>4, <1>5, <1>6 DEF Inv

LEMMA InterruptInv ==
  ASSUME Inv, Interrupt
  PROVE  Inv' /\ Current' = Current /\ UNCHANGED versions
<1>1. /\ partial' = Pending /\ log' = << >>
      /\ tree' = tree /\ undo' = undo /\ redo' = redo /\ UNCHANGED versions
  BY DEF Interrupt, Pending
<1>2. base' = base /\ past' = past /\ future' = future
  BY <1>1 DEF versions
<1>3. Current' = Current
  BY <1>1 DEF Current
<1>4. Leads(Pending, base, Current)
  BY PendingLeads
<1>5. Leads(<< >>, Current, Current)
  BY <1>4, LeadsIsTyped, LeadsNowhere
<1>6. PendingInv'
  BY <1>1, <1>2, <1>3, <1>4, <1>5 DEF PendingInv
<1>7. TreeInv' /\ UndoInv' /\ RedoInv'
  BY <1>1, <1>2, <1>3 DEF Inv, TreeInv, UndoInv, RedoInv
<1> QED BY <1>1, <1>3, <1>6, <1>7 DEF Inv

\* What becomes of the history with a commit.
Committed(merge) ==
  /\ base' = Current /\ future' = << >> /\ Current' = Current
  /\ \/ merge /\ past # << >> /\ past' = past
     \/ ~merge /\ past' = Append(past, base)
     \/ past' = past /\ Current = base

LEMMA CommitInv ==
  ASSUME Inv, NEW merge \in BOOLEAN, Commit(merge)
  PROVE  Inv' /\ Committed(merge)
<1>1. /\ log' = << >> /\ partial' = << >> /\ redo' = << >> /\ tree' = tree
      /\ base' = Current /\ future' = << >>
      /\ undo' = IF Pending = << >> THEN undo
                 ELSE IF merge THEN [undo EXCEPT ![Len(undo)] = Coalesce(@, Pending)]
                 ELSE Append(undo, Pending)
      /\ past' = IF merge \/ Pending = << >> THEN past ELSE Append(past, base)
      /\ merge => undo # << >> /\ Pending # << >>
  BY DEF Commit, Current
<1>2. Current' = Current
  BY <1>1 DEF Current
<1>3. Leads(Pending, base, Current) /\ (Pending = << >> => base = Current)
  BY PendingLeads
<1>4. Leads(<< >>, Current, Current)
  BY <1>3, LeadsIsTyped, LeadsNowhere
<1>5. Chain(undo, past, base, TRUE) /\ Holds(tree, Current)
  BY DEF Inv, UndoInv, TreeInv
<1> DEFINE joined == [undo EXCEPT ![Len(undo)] = Coalesce(@, Pending)]
<1> HIDE DEF joined
<1>6. Chain(undo', past', Current, TRUE) /\ Committed(merge)
  <2>1. CASE Pending = << >>
    <3>1. undo' = undo /\ past' = past /\ base = Current
      BY <2>1, <1>1, <1>3
    <3> QED BY <3>1, <1>1, <1>2, <1>5 DEF Committed
  <2>2. CASE Pending # << >> /\ merge
    <3>1. undo' = joined /\ past' = past /\ undo # << >>
      BY <2>2, <1>1 DEF joined
    <3>2. Chain(joined, past, Current, TRUE)
      BY <3>1, <1>3, <1>5, ChainMerged DEF joined
    <3>3. past # << >>
      BY <3>1, <1>5, ChainFront
    <3> QED BY <2>2, <3>1, <3>2, <3>3, <1>1, <1>2 DEF Committed
  <2>3. CASE Pending # << >> /\ ~merge
    <3>1. undo' = Append(undo, Pending) /\ past' = Append(past, base)
      BY <2>3, <1>1
    <3>2. Leap(Pending, base, Current, TRUE)
      BY <1>3 DEF Leap
    <3>3. Chain(Append(undo, Pending), Append(past, base), Current, TRUE)
      BY <3>2, <1>5, ChainAppend
    <3> QED BY <2>3, <3>1, <3>3, <1>1, <1>2 DEF Committed
  <2> QED BY <2>1, <2>2, <2>3
<1>7. UndoInv'
  BY <1>1, <1>6 DEF UndoInv
<1>8. RedoInv'
  BY <1>1, ChainEmpty DEF RedoInv
<1>9. PendingInv'
  BY <1>1, <1>2, <1>4 DEF PendingInv
<1>10. TreeInv'
  BY <1>1, <1>2, <1>5 DEF TreeInv
<1> QED BY <1>6, <1>7, <1>8, <1>9, <1>10 DEF Inv

LEMMA RollbackInv ==
  ASSUME Inv, Rollback
  PROVE  Inv' /\ Current' = base /\ UNCHANGED versions
<1>1. /\ tree' = UndoLog(tree, log) /\ log' = << >> /\ partial' = partial /\ partial = << >>
      /\ undo' = undo /\ redo' = redo /\ UNCHANGED versions
  BY DEF Rollback
<1>2. base' = base /\ past' = past /\ future' = future
  BY <1>1 DEF versions
<1>3. PICK m : Leads(partial, base, m) /\ Leads(log, m, Current)
  BY DEF Inv, PendingInv
<1>4. Leads(<< >>, base, m)
  BY <1>1, <1>3
<1>5. m = base /\ Leads(<< >>, base, base)
  BY <1>4, LeadsNowhere
<1>6. Holds(UndoLog(tree, log), base)
  BY <1>3, <1>5, HoldsBefore DEF Inv, TreeInv
<1>7. Current' = base
  <2>1. ContentOf(UndoLog(tree, log)) = base
    BY <1>6, ContentIs
  <2> QED BY <2>1, <1>1 DEF Current
<1>8. TreeInv'
  BY <1>1, <1>6, <1>7 DEF TreeInv
<1>9. PendingInv'
  BY <1>1, <1>2, <1>5, <1>7 DEF PendingInv
<1>10. UndoInv' /\ RedoInv'
  BY <1>1, <1>2 DEF Inv, UndoInv, RedoInv
<1> QED BY <1>1, <1>7, <1>8, <1>9, <1>10 DEF Inv

Undone ==
  /\ past # << >> /\ (Current = base \/ future = << >>)
  /\ Current' = Last(past) /\ base' = Current'
  /\ past' = Front(past) /\ future' = Append(future, Current)

LEMMA UndoKeepsInv ==
  ASSUME Inv, Undo
  PROVE  Inv' /\ Undone
<1> DEFINE l == Coalesce(Last(undo), Pending)
           v == Last(past)
<1>1. /\ undo # << >> /\ (Pending = << >> \/ redo = << >>)
      /\ tree' = UndoLog(tree, l) /\ undo' = Front(undo) /\ redo' = Append(redo, l)
      /\ log' = << >> /\ partial' = << >>
      /\ base' = ContentOf(tree') /\ past' = Front(past) /\ future' = Append(future, Current)
  BY DEF Undo, Current
<1>2. Chain(undo, past, base, TRUE) /\ Chain(redo, future, base, FALSE) /\ Holds(tree, Current)
  BY DEF Inv, UndoInv, RedoInv, TreeInv
<1>3. Leads(Pending, base, Current) /\ (Pending = << >> => base = Current)
  BY PendingLeads
<1>4. past # << >> /\ Leap(Last(undo), v, base, TRUE) /\ Chain(Front(undo), Front(past), v, TRUE)
  BY <1>1, <1>2, ChainFront
<1>5. Leads(l, v, Current)
  <2>1. Leads(Last(undo), v, base)
    BY <1>4 DEF Leap
  <2> QED BY <2>1, <1>3, LeadsCoalesced
<1> HIDE DEF l, v
<1>6. Holds(UndoLog(tree, l), v)
  BY <1>2, <1>5, HoldsBefore
<1>7. Current' = v /\ base' = v
  <2>1. ContentOf(UndoLog(tree, l)) = v
    BY <1>6, ContentIs
  <2> QED BY <2>1, <1>1 DEF Current
<1>8. Chain(redo, future, Current, FALSE) /\ (Current = base \/ future = << >>)
  <2>1. CASE Pending = << >>
    BY <2>1, <1>2, <1>3
  <2>2. CASE redo = << >>
    <3>1. future = << >>
      <4>1. future \in Seq(Contents) /\ Len(future) = Len(redo)
        BY <1>2 DEF Chain
      <4> QED BY <2>2, <4>1, EmptySeq
    <3> QED BY <2>2, <3>1, ChainEmpty
  <2> QED BY <2>1, <2>2, <1>1
<1>9. Chain(Append(redo, l), Append(future, Current), v, FALSE)
  <2>1. Leap(l, Current, v, FALSE)
    BY <1>5 DEF Leap
  <2> QED BY <2>1, <1>8, ChainAppend
<1>10. TreeInv'
  BY <1>1, <1>6, <1>7 DEF TreeInv
<1>11. PendingInv'
  <2>1. Leads(<< >>, v, v)
    BY <1>5, LeadsIsTyped, LeadsNowhere
  <2> QED BY <2>1, <1>1, <1>7 DEF PendingInv
<1>12. UndoInv' /\ RedoInv'
  BY <1>1, <1>4, <1>7, <1>9 DEF UndoInv, RedoInv
<1>13. Undone
  BY <1>1, <1>4, <1>7, <1>8 DEF Undone, v
<1> QED BY <1>10, <1>11, <1>12, <1>13 DEF Inv

Redone ==
  /\ future # << >> /\ Current = base
  /\ Current' = Last(future) /\ base' = Current'
  /\ future' = Front(future) /\ past' = Append(past, Current)

LEMMA RedoKeepsInv ==
  ASSUME Inv, Redo
  PROVE  Inv' /\ Redone
<1> DEFINE l == Last(redo)
           v == Last(future)
<1>1. /\ redo # << >> /\ Pending = << >>
      /\ tree' = ReplayLog(tree, l) /\ redo' = Front(redo) /\ undo' = Append(undo, l)
      /\ log' = << >> /\ partial' = << >>
      /\ base' = ContentOf(tree') /\ past' = Append(past, Current) /\ future' = Front(future)
  BY DEF Redo, Current
<1>2. Chain(undo, past, base, TRUE) /\ Chain(redo, future, base, FALSE) /\ Holds(tree, Current)
  BY DEF Inv, UndoInv, RedoInv, TreeInv
<1>3. base = Current
  BY <1>1, PendingLeads
<1>4. future # << >> /\ Leap(l, v, base, FALSE) /\ Chain(Front(redo), Front(future), v, FALSE)
  BY <1>1, <1>2, ChainFront
<1>5. Leads(l, Current, v)
  BY <1>3, <1>4 DEF Leap
<1> HIDE DEF l, v
<1>6. Holds(ReplayLog(tree, l), v)
  BY <1>2, <1>5, HoldsAfter
<1>7. Current' = v /\ base' = v
  <2>1. ContentOf(ReplayLog(tree, l)) = v
    BY <1>6, ContentIs
  <2> QED BY <2>1, <1>1 DEF Current
<1>8. Chain(Append(undo, l), Append(past, Current), v, TRUE)
  <2>1. Leap(l, Current, v, TRUE)
    BY <1>5 DEF Leap
  <2> QED BY <2>1, <1>2, <1>3, ChainAppend
<1>9. TreeInv'
  BY <1>1, <1>6, <1>7 DEF TreeInv
<1>10. PendingInv'
  <2>1. Leads(<< >>, v, v)
    BY <1>5, LeadsIsTyped, LeadsNowhere
  <2> QED BY <2>1, <1>1, <1>7 DEF PendingInv
<1>11. UndoInv' /\ RedoInv'
  BY <1>1, <1>4, <1>7, <1>8 DEF UndoInv, RedoInv
<1>12. Redone
  BY <1>1, <1>3, <1>4, <1>7 DEF Redone, v
<1> QED BY <1>9, <1>10, <1>11, <1>12 DEF Inv

-----------------------------------------------------------------------------
(* The theorems.                                                           *)

LEMMA NextInv ==
  ASSUME Inv, Next
  PROVE  /\ Inv'
         /\ \/ Current' \in Contents /\ UNCHANGED versions
            \/ Current' = base /\ UNCHANGED versions
            \/ \E merge \in BOOLEAN : Committed(merge)
            \/ Undone \/ Redone
<1>0. Current \in Contents
  BY DEF Inv, TreeInv, Holds, Sound
<1>1. CASE \E p, c \in Nodes, r \in Nodes \cup {None} : Attach(p, c, r)
  BY <1>1, AttachInv
<1>2. CASE \E c \in Nodes : Detach(c)
  BY <1>2, DetachInv
<1>3. CASE \E c \in Nodes, r \in Nodes \cup {None} : Move(c, r)
  BY <1>3, MoveInv
<1>4. CASE \E n \in Writable, f \in Fields, v \in Values \cup {None} : Set(n, f, v)
  BY <1>4, SetInv, NodesAssumption
<1>5. CASE \E p \in Nodes : LookUpPosition(p)
  BY <1>0, <1>5, LookUpPositionInv
<1>6. CASE Interrupt
  BY <1>0, <1>6, InterruptInv
<1>7. CASE Rollback
  BY <1>7, RollbackInv
<1>8. CASE Undo
  BY <1>8, UndoKeepsInv
<1>9. CASE Redo
  BY <1>9, RedoKeepsInv
<1>10. CASE \E merge \in BOOLEAN : Commit(merge)
  BY <1>10, CommitInv
<1> QED BY <1>1, <1>2, <1>3, <1>4, <1>5, <1>6, <1>7, <1>8, <1>9, <1>10 DEF Next

LEMMA StutterInv ==
  ASSUME Inv, UNCHANGED vars
  PROVE  Inv' /\ Current' = Current /\ UNCHANGED versions
<1>1. /\ tree' = tree /\ log' = log /\ partial' = partial /\ undo' = undo /\ redo' = redo
      /\ base' = base /\ past' = past /\ future' = future
  BY DEF vars
<1>2. Current' = Current
  BY <1>1 DEF Current
<1> QED BY <1>1, <1>2 DEF Inv, TreeInv, PendingInv, UndoInv, RedoInv, versions

\* The links of simple-node.cpp hold a content at all times, and each log of
\* event.cpp leads from what the document held before it to what it held after.
THEOREM Invariance == Spec => []Inv
<1>1. Init => Inv
  BY InitInv
<1>2. Inv /\ [Next]_vars => Inv'
  BY NextInv, StutterInv
<1> QED BY <1>1, <1>2, PTL DEF Spec

LEMMA InvMeansTypes ==
  ASSUME Inv
  PROVE  TypeOK
<1> DEFINE a == Current
<1>1. Holds(tree, a)
  BY DEF Inv, TreeInv
<1> HIDE DEF a
<1>2. /\ tree \in Trees /\ Sound(a) /\ tree.asserted
      /\ \A n \in Nodes : tree.position[n] \in 0..Cardinality(Nodes)
      /\ \A n \in Nodes : Lists(tree, n, a.children[n])
  BY <1>1 DEF Holds
<1>3. \A m \in {"parent", "next", "prev", "first", "last"} : tree[m] \in Links
  BY <1>2 DEF Trees
<1>4. tree.count \in [Nodes -> 0..Cardinality(Nodes)]
  <2>1. \A n \in Nodes : tree.count[n] \in 0..Cardinality(Nodes)
    <3> SUFFICES ASSUME NEW n \in Nodes PROVE tree.count[n] \in 0..Cardinality(Nodes)
      OBVIOUS
    <3>1. tree.count[n] = Len(a.children[n])
      BY <1>2 DEF Lists
    <3>2. Len(a.children[n]) \in Nat /\ Cardinality(Nodes) \in Nat /\ Len(a.children[n]) <= Cardinality(Nodes)
      BY <1>2, FewChildren, ChildrenOf
    <3> QED BY <3>1, <3>2
  <2>2. tree.count \in [Nodes -> Int]
    BY <1>2 DEF Trees
  <2> QED BY <2>1, <2>2
<1>5. tree.position \in [Nodes -> 0..Cardinality(Nodes)]
  <2>1. tree.position \in [Nodes -> Int]
    BY <1>2 DEF Trees
  <2> QED BY <1>2, <2>1
<1>6. tree.valid \in [Nodes -> BOOLEAN] /\ tree.value \in [Nodes -> [Fields -> Values \cup {None}]]
  BY <1>2 DEF Trees, NodeValues
<1>7. \A l \in {log, partial} : l \in Seq(Events)
  BY LeadsIsTyped DEF Inv, PendingInv
<1>8. \A l \in Range(undo) : l \in Seq(Events)
  <2>1. undo \in Seq(Seq(Events))
    BY DEF Inv, UndoInv, Chain
  <2>2. DOMAIN undo = 1..Len(undo) /\ \A i \in 1..Len(undo) : undo[i] \in Seq(Events)
    BY <2>1, ElementOfSeq, LenProperties
  <2> QED BY <2>2 DEF Range
<1>9. \A l \in Range(redo) : l \in Seq(Events)
  <2>1. redo \in Seq(Seq(Events))
    BY DEF Inv, RedoInv, Chain
  <2>2. DOMAIN redo = 1..Len(redo) /\ \A i \in 1..Len(redo) : redo[i] \in Seq(Events)
    BY <2>1, ElementOfSeq, LenProperties
  <2> QED BY <2>2 DEF Range
<1>10. \A l \in {log, partial} \cup Range(undo) \cup Range(redo) : l \in Seq(Events)
  BY <1>7, <1>8, <1>9
<1> QED BY <1>2, <1>3, <1>4, <1>5, <1>6, <1>10 DEF TypeOK

\* Nodes and logs are of their types, and no assertion of simple-node.cpp fails.
THEOREM TreeTypes == Spec => []TypeOK
BY Invariance, InvMeansTypes, PTL

LEMMA InvMeansSound ==
  ASSUME Inv
  PROVE  TreeIsSound
<1> SUFFICES ASSUME NEW n \in Nodes
             PROVE  LET s == Children(tree, n)
                        at(i) == IF i \in DOMAIN s THEN s[i] ELSE None
                    IN  /\ Range(s) = {c \in Nodes : tree.parent[c] = n}
                        /\ Len(s) = tree.count[n] /\ tree.last[n] = at(Len(s))
                        /\ \A i \in DOMAIN s : tree.prev[s[i]] = at(i - 1)
                        /\ tree.parent[n] = None => tree.next[n] = None /\ tree.prev[n] = None
  BY DEF TreeIsSound
<1> DEFINE s == Children(tree, n)
           at(i) == IF i \in DOMAIN s THEN s[i] ELSE None
<1>1. PICK a : Holds(tree, a)
  BY DEF Inv, TreeInv
<1>2. s = a.children[n]
  BY <1>1, ChildrenAre
<1>3. Sound(a) /\ Lists(tree, n, s)
  BY <1>1, <1>2 DEF Holds
<1>4. DOMAIN s = 1..Len(s) /\ Len(s) \in Nat /\ \A i \in 1..Len(s) : s[i] \in Nodes
  <2>1. /\ a.children[n] \in Seq(Nodes) /\ Len(a.children[n]) \in Nat
        /\ \A i \in 1..Len(a.children[n]) : a.children[n][i] \in Nodes
    BY <1>3, ChildrenOf
  <2> QED BY <1>2, <2>1, LenProperties
<1> HIDE DEF s
<1>5. \A i : at(i) = At(s, i)
  BY <1>4 DEF At
<1> HIDE DEF at
<1>6. /\ Len(s) = tree.count[n] /\ tree.last[n] = at(Len(s))
      /\ \A i \in DOMAIN s : tree.prev[s[i]] = at(i - 1)
      /\ \A i \in DOMAIN s : tree.parent[s[i]] = n
  BY <1>3, <1>4, <1>5 DEF Lists, Linked
<1>7. \A c \in Nodes : tree.parent[c] = n => \E i \in DOMAIN s : s[i] = c
  <2> SUFFICES ASSUME NEW c \in Nodes, tree.parent[c] = n PROVE \E i \in DOMAIN s : s[i] = c
    OBVIOUS
  <2>1. tree.parent[c] # None
    BY NoNode
  <2>2. \E i \in 1..Len(a.children[tree.parent[c]]) : a.children[tree.parent[c]][i] = c
    BY <1>1, <2>1 DEF Holds
  <2> QED BY <2>2, <1>2, <1>4
<1>8. Range(s) = {c \in Nodes : tree.parent[c] = n}
  BY <1>4, <1>6, <1>7 DEF Range
<1>9. tree.parent[n] = None => tree.next[n] = None /\ tree.prev[n] = None
  BY <1>1 DEF Holds
<1> QED BY <1>6, <1>8, <1>9 DEF s, at

\* Whatever is added, removed, moved, undone, replayed or rolled back, parents,
\* siblings, first and last children and counts are those of one tree.
THEOREM TreeStaysSound == Spec => []TreeIsSound
BY Invariance, InvMeansSound, PTL

LEMMA InvMeansExact ==
  ASSUME Inv
  PROVE  PositionsAreExact
<1> SUFFICES ASSUME NEW n \in Nodes, tree.valid[n], NEW i \in DOMAIN Children(tree, n)
             PROVE  tree.position[Children(tree, n)[i]] = i - 1
  BY DEF PositionsAreExact
<1>1. PICK a : Holds(tree, a)
  BY DEF Inv, TreeInv
<1> DEFINE s == Children(tree, n)
<1>2. s = a.children[n]
  BY <1>1, ChildrenAre
<1>3. Lists(tree, n, s) /\ Sound(a)
  BY <1>1, <1>2 DEF Holds
<1>4. DOMAIN s = 1..Len(s)
  <2>1. a.children[n] \in Seq(Nodes)
    BY <1>3, ChildrenOf
  <2> QED BY <1>2, <2>1, LenProperties
<1>5. i \in 1..Len(s)
  BY <1>4
<1> HIDE DEF s
<1>6. tree.position[s[i]] = i - 1
  BY <1>3, <1>5 DEF Lists
<1> QED BY <1>6 DEF s

\* A cached position that counts as valid is the position.
THEOREM PositionsStayExact == Spec => []PositionsAreExact
BY Invariance, InvMeansExact, PTL

LEMMA InitRefines ==
  ASSUME Init
  PROVE  V!VersionInit
<1>1. Current \in Contents
  BY InitInv
<1> QED BY <1>1 DEF V!VersionInit, Init, Current, Contents, NodeValues

LEMMA NextRefines ==
  ASSUME Inv, [Next]_vars
  PROVE  [V!VersionNext]_(V!versionVars)
<1>1. CASE Current' \in Contents /\ UNCHANGED versions
  BY <1>1 DEF V!VersionNext, V!Change, Current, Contents, NodeValues, versions
<1>2. CASE Current' = base /\ UNCHANGED versions
  BY <1>2 DEF V!VersionNext, V!RollBack, Current, versions
<1>3. ASSUME NEW merge \in BOOLEAN, Committed(merge) PROVE V!VersionNext
  BY <1>3 DEF Committed, V!VersionNext, V!NewVersion, V!MergeVersion, Current
<1>4. CASE Undone
  BY <1>4 DEF Undone, V!VersionNext, V!UndoVersion, V!Last, V!Front, Last, Front, Current
<1>5. CASE Redone
  BY <1>5 DEF Redone, V!VersionNext, V!RedoVersion, V!Last, V!Front, Last, Front, Current
<1>6. CASE UNCHANGED vars
  <2>1. Current' = Current /\ UNCHANGED versions
    BY <1>6, StutterInv
  <2> QED BY <2>1 DEF V!versionVars, Current, versions
<1> QED BY <1>1, <1>2, <1>3, <1>4, <1>5, <1>6, NextInv

\* The logs of event.cpp are as good as copies of the document: undo, redo and
\* rollback through them make exactly the content that the document held then.
THEOREM LogsAreVersions == Spec => ImplementsVersions
<1>1. Init => V!VersionInit
  BY InitRefines
<1>2. Inv /\ [Next]_vars => [V!VersionNext]_(V!versionVars)
  BY NextRefines
<1> QED BY <1>1, <1>2, Invariance, PTL DEF Spec, ImplementsVersions, V!VersionSpec
=============================================================================
