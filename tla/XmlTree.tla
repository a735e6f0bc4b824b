------------------------------- MODULE XmlTree -------------------------------
(***************************************************************************)
(* The XML tree of a document (xml/simple-node.cpp) and the logs of what   *)
(* is done to it (log-builder.cpp, event.cpp), which DocumentUndo collects *)
(* to undo and to redo.                                                    *)
(*                                                                         *)
(* A node has pointers to its parent, its siblings and its first and last  *)
(* child, the number of its children, and a position among its siblings    *)
(* that is cached and may be out of date.  Its attributes and its content  *)
(* are the values of Fields.  The names of elements are left out, as their *)
(* changes are logged and joined like those of an attribute, and so is the *)
(* order of attributes, which no log restores.                             *)
(***************************************************************************)
EXTENDS Naturals, Sequences, FiniteSets, SequencesExt

CONSTANTS
  Nodes, Root,             \* the nodes that exist, and the one never moved
  Fields, Content,         \* attributes and the content, among them
  Values, None,            \* values; no value, and no node
  Writable,                \* bound: the nodes whose values change
  MaxEdits                 \* bound: how often the tree is edited

ASSUME NodesAssumption ==
  /\ IsFiniteSet(Nodes) /\ Root \in Nodes /\ Writable \subseteq Nodes
  /\ None \notin Nodes \cup Values

VARIABLES
  tree,                    \* the nodes: the record of their members
  log,                     \* LogBuilder::_log, the newest event first
  partial,                 \* SPDocument::partial, set aside by interruptions
  undo, redo,              \* the logs of the undo events, the next last
  edits,                   \* how often the tree was edited
  base, past, future       \* history: what the document held at the latest
                           \* commit, and before and after the others

versions == <<base, past, future>>
vars == <<tree, log, partial, undo, redo, edits, base, past, future>>

----------------------------------------------------------------------------
\* The operations of a node, on a tree; its member "asserted" tells whether
\* every assertion made so far was true.

\* f[k] is set to v, unless k is the null pointer.
Put(f, k, v) == IF k = None THEN f ELSE [f EXCEPT ![k] = v]

\* c becomes the child of p that follows r, or its first.
AddChild(t, p, c, r) ==
  LET next == IF r = None THEN t.first[p] ELSE t.next[r]
      appended == next = None
  IN  [t EXCEPT !.asserted = @ /\ t.parent[c] = None /\ (r # None => t.parent[r] = p),
                !.parent[c] = p,
                !.next = [Put(@, r, c) EXCEPT ![c] = next],
                !.prev = Put(IF r = None THEN @ ELSE [@ EXCEPT ![c] = r], next, c),
                !.first[p] = IF r = None THEN c ELSE @,
                !.last[p] = IF appended THEN c ELSE @,
                !.count[p] = @ + 1,
                !.position[c] = IF appended /\ r = None THEN 0
                                ELSE IF appended /\ t.valid[p] THEN t.position[r] + 1
                                ELSE @,
                !.valid[p] = appended /\ (@ \/ r = None)]

\* Mutant of RemoveChild: the removal of a child that is not the last keeps the positions.
RemoveChildKeepsPositions(t, p, c) ==
  LET ref  == t.prev[c]
      next == t.next[c]
  IN  [t EXCEPT !.asserted = @ /\ t.parent[c] = p, !.parent[c] = None,
                !.next = [Put(@, ref, next) EXCEPT ![c] = None],
                !.prev = [Put(@, next, ref) EXCEPT ![c] = None],
                !.first[p] = IF ref = None THEN next ELSE @,
                !.last[p] = IF next = None THEN ref ELSE @,
                !.count[p] = @ - 1]

RemoveChild(t, p, c) ==
  LET ref  == t.prev[c]
      next == t.next[c]
  IN  [t EXCEPT !.asserted = @ /\ t.parent[c] = p,
                !.parent[c] = None,
                !.next = [Put(@, ref, next) EXCEPT ![c] = None],
                !.prev = [Put(@, next, ref) EXCEPT ![c] = None],
                !.first[p] = IF ref = None THEN next ELSE @,
                !.last[p] = IF next = None THEN ref ELSE @,
                !.count[p] = @ - 1,
                !.valid[p] = @ /\ next = None]

\* Whether a change of order does anything.
Reorders(t, p, c, r) ==
  /\ t.parent[c] = p /\ c # r /\ (r # None => t.parent[r] = p)
  /\ t.prev[c] # r

\* Mutant of ChangeOrder: the last child moves away and remains the last.
ChangeOrderKeepsLast(t, p, c, r) ==
  LET gap  == [t EXCEPT !.next = Put(@, t.prev[c], t.next[c]),
                        !.first[p] = IF t.prev[c] = None THEN t.next[c] ELSE @,
                        !.prev = Put(@, t.next[c], t.prev[c])]
      next == IF r = None THEN gap.first[p] ELSE gap.next[r]
  IN  IF ~Reorders(t, p, c, r) THEN t
      ELSE [gap EXCEPT !.next = [Put(@, r, c) EXCEPT ![c] = next],
                       !.first[p] = IF r = None THEN c ELSE @,
                       !.prev = [Put(@, next, c) EXCEPT ![c] = r],
                       !.last[p] = IF next = None THEN c ELSE @,
                       !.valid[p] = FALSE]

\* c is taken out of the list and put back in behind r, or as the first.
ChangeOrder(t, p, c, r) ==
  LET prev == t.prev[c]
      gap  == [t EXCEPT !.next = Put(@, prev, t.next[c]),
                        !.first[p] = IF prev = None THEN t.next[c] ELSE @,
                        !.prev = Put(@, t.next[c], prev),
                        !.last[p] = IF t.next[c] = None THEN prev ELSE @]
      next == IF r = None THEN gap.first[p] ELSE gap.next[r]
  IN  IF ~Reorders(t, p, c, r) THEN t
      ELSE [gap EXCEPT !.next = [Put(@, r, c) EXCEPT ![c] = next],
                       !.first[p] = IF r = None THEN c ELSE @,
                       !.prev = [Put(@, next, c) EXCEPT ![c] = r],
                       !.last[p] = IF next = None THEN c ELSE @,
                       !.valid[p] = FALSE]

SetValue(t, n, f, v) == [t EXCEPT !.value[n][f] = v]

\* The children of n, as its list of them has it.
Children(t, n) ==
  LET after == [m \in Nodes \cup {None} |-> IF m = None THEN None ELSE t.next[m]]
      nth[i \in 1..Cardinality(Nodes)] == IF i = 1 THEN t.first[n] ELSE after[nth[i - 1]]
  IN  [i \in {k \in 1..Cardinality(Nodes) : nth[k] # None} |-> nth[i]]

\* What a tree holds, in contrast to how it is stored.
ContentOf(t) == [children |-> [n \in Nodes |-> Children(t, n)], value |-> t.value]

\* p numbers its children.
Number(t, p) ==
  LET s == Children(t, p)
  IN  [t EXCEPT !.valid[p] = TRUE,
                !.position = [n \in Nodes |->
                   IF n \in Range(s) THEN (CHOOSE i \in DOMAIN s : s[i] = n) - 1 ELSE @[n]]]

----------------------------------------------------------------------------
\* Events.  The key of an event is a child, or a field whose value changes;
\* old and new are siblings that the child follows, or values.

Event(type, repr, key, old, new) ==
  [type |-> type, repr |-> repr, key |-> key, old |-> old, new |-> new]

UndoOne(t, e) ==
  CASE e.type = "add"   -> RemoveChild(t, e.repr, e.key)
    [] e.type = "del"   -> AddChild(t, e.repr, e.key, e.old)
    [] e.type = "order" -> ChangeOrder(t, e.repr, e.key, e.old)
    [] e.type = "value" -> SetValue(t, e.repr, e.key, e.old)

ReplayOne(t, e) ==
  CASE e.type = "add"   -> AddChild(t, e.repr, e.key, e.new)
    [] e.type = "del"   -> RemoveChild(t, e.repr, e.key)
    [] e.type = "order" -> ChangeOrder(t, e.repr, e.key, e.new)
    [] e.type = "value" -> SetValue(t, e.repr, e.key, e.new)

\* The newest event is undone first, and replayed last.
UndoLog(t, l) ==
  LET undone[i \in 0..Len(l)] == IF i = 0 THEN t ELSE UndoOne(undone[i - 1], l[i])
  IN  undone[Len(l)]

ReplayLog(t, l) ==
  LET done[i \in 0..Len(l)] == IF i = 0 THEN t ELSE ReplayOne(done[i - 1], l[Len(l) + 1 - i])
  IN  done[Len(l)]

\* Two events in a row that amount to nothing, the newer one first.
Cancels(e, older) ==
  /\ e.repr = older.repr /\ e.key = older.key /\ older.old = e.new
  /\ \/ {e.type, older.type} = {"add", "del"}
     \/ e.type = "order" /\ older.type = "order"

\* Two events in a row that amount to one.
Combines(e, older) ==
  /\ e.repr = older.repr /\ e.key = older.key
  /\ e.type = older.type /\ e.type \in {"order", "value"}

\* Mutant of Optimize: two events become one that does not take over the older value.
OptimizeForgets(l) ==
  IF Len(l) < 2 THEN l
  ELSE IF Cancels(l[1], l[2]) THEN SubSeq(l, 3, Len(l))
  ELSE IF Combines(l[1], l[2]) THEN <<l[1]>> \o SubSeq(l, 3, Len(l))
  ELSE l

\* optimizeOne() looks at the newest event and the one before it.
Optimize(l) ==
  IF Len(l) < 2 THEN l
  ELSE IF Cancels(l[1], l[2]) THEN SubSeq(l, 3, Len(l))
  ELSE IF Combines(l[1], l[2])
       THEN <<[l[1] EXCEPT !.old = l[2].old]>> \o SubSeq(l, 3, Len(l))
  ELSE l

\* Mutant of Coalesce: the newer log goes behind the older one.
CoalesceSwapped(a, b) ==
  IF a = <<>> THEN b ELSE IF b = <<>> THEN a
  ELSE Front(a) \o Optimize(<<Last(a)>> \o b)

\* The log a followed by the log b, optimised where they meet.
Coalesce(a, b) ==
  IF a = <<>> THEN b ELSE IF b = <<>> THEN a
  ELSE Front(b) \o Optimize(<<Last(b)>> \o a)

----------------------------------------------------------------------------
NewNodes ==
  LET all(v) == [n \in Nodes |-> v]
  IN  [asserted |-> TRUE, parent |-> all(None), next |-> all(None), prev |-> all(None),
       first |-> all(None), last |-> all(None), count |-> all(0), position |-> all(0),
       valid |-> all(FALSE), value |-> all([f \in Fields |-> None])]

\* Root is given the children s, one after the other.
Filled(s) ==
  LET filled[i \in 0..Len(s)] ==
        IF i = 0 THEN NewNodes
        ELSE LET t == filled[i - 1] IN AddChild(t, Root, s[i], t.last[Root])
  IN  filled[Len(s)]

\* An element read from a file, with all other nodes but one or none inside.
Init ==
  /\ \E k \in {Cardinality(Nodes) - 2, Cardinality(Nodes) - 1} :
     \E s \in [1..k -> Nodes \ {Root}] : IsInjective(s) /\ tree = Filled(s)
  /\ log = <<>> /\ partial = <<>> /\ undo = <<>> /\ redo = <<>> /\ edits = 0
  /\ base = ContentOf(tree) /\ past = <<>> /\ future = <<>>

\* What has changed since the latest commit.
Pending == Coalesce(partial, log)

\* An edit within the transaction: the node tells the logger, which optimises.
Edit(t, e) ==
  /\ edits < MaxEdits /\ edits' = edits + 1
  /\ tree' = t
  /\ log' = Optimize(<<e>> \o log)
  /\ UNCHANGED <<partial, undo, redo, versions>>

Above(t, n) ==
  LET up[i \in 0..Cardinality(Nodes)] ==
        IF i = 0 THEN n
        ELSE LET m == up[i - 1] IN IF m = None THEN None ELSE t.parent[m]
  IN  {up[i] : i \in 0..Cardinality(Nodes)} \ {None}

Attach(p, c, r) ==
  /\ c # Root /\ tree.parent[c] = None /\ c \notin Above(tree, p)
  /\ r # None => tree.parent[r] = p
  /\ Edit(AddChild(tree, p, c, r), Event("add", p, c, r, r))

Detach(c) ==
  LET p == tree.parent[c] IN
  /\ p # None
  /\ Edit(RemoveChild(tree, p, c), Event("del", p, c, tree.prev[c], tree.prev[c]))

Move(c, r) ==
  LET p == tree.parent[c] IN
  /\ p # None /\ Reorders(tree, p, c, r)
  /\ Edit(ChangeOrder(tree, p, c, r), Event("order", p, c, tree.prev[c], r))

\* An attribute that keeps its value is not logged; any content that is set is.
Set(n, f, v) ==
  /\ v # tree.value[n][f] \/ (f = Content /\ v # None)
  /\ Edit(SetValue(tree, n, f, v), Event("value", n, f, tree.value[n][f], v))

\* The position of a child of p is asked for, when it is not known.
LookUpPosition(p) ==
  /\ tree.first[p] # None /\ ~tree.valid[p]
  /\ tree' = Number(tree, p)
  /\ UNCHANGED <<log, partial, undo, redo, edits, versions>>

\* Undo is switched off and on again: the log is set aside.
Interrupt ==
  /\ log # <<>>
  /\ partial' = Coalesce(partial, log) /\ log' = <<>>
  /\ UNCHANGED <<tree, undo, redo, edits, versions>>

\* DocumentUndo commits: an event of its own, or joined to the latest one.
Commit(merge) ==
  /\ merge => undo # <<>> /\ Pending # <<>>
  /\ undo' = IF Pending = <<>> THEN undo
             ELSE IF merge THEN [undo EXCEPT ![Len(undo)] = Coalesce(@, Pending)]
             ELSE Append(undo, Pending)
  /\ log' = <<>> /\ partial' = <<>> /\ redo' = <<>>
  /\ base' = ContentOf(tree) /\ future' = <<>>
  /\ past' = IF merge \/ Pending = <<>> THEN past ELSE Append(past, base)
  /\ UNCHANGED <<tree, edits>>

\* SimpleDocument::rollback(), of a transaction that was not interrupted.
Rollback ==
  /\ log # <<>> /\ partial = <<>>
  /\ tree' = UndoLog(tree, log)
  /\ log' = <<>>
  /\ UNCHANGED <<partial, undo, redo, edits, versions>>

\* The latest event, with what was not committed joined to it, is undone.
\* Changes made since an undo would make the logs to redo unfit: see
\* DocumentUndo.
Undo ==
  /\ undo # <<>> /\ (Pending = <<>> \/ redo = <<>>)
  /\ LET l == Coalesce(Last(undo), Pending) IN
       /\ tree' = UndoLog(tree, l)
       /\ undo' = Front(undo) /\ redo' = Append(redo, l)
  /\ log' = <<>> /\ partial' = <<>>
  /\ base' = ContentOf(tree') /\ past' = Front(past) /\ future' = Append(future, ContentOf(tree))
  /\ UNCHANGED edits

\* What is dropped here amounts to nothing, but need not be empty.
Redo ==
  /\ redo # <<>> /\ Pending = <<>>
  /\ tree' = ReplayLog(tree, Last(redo))
  /\ redo' = Front(redo) /\ undo' = Append(undo, Last(redo))
  /\ log' = <<>> /\ partial' = <<>>
  /\ base' = ContentOf(tree') /\ past' = Append(past, ContentOf(tree)) /\ future' = Front(future)
  /\ UNCHANGED edits

Next ==
  \/ \E p, c \in Nodes, r \in Nodes \cup {None} : Attach(p, c, r)
  \/ \E c \in Nodes : Detach(c)
  \/ \E c \in Nodes, r \in Nodes \cup {None} : Move(c, r)
  \/ \E n \in Writable, f \in Fields, v \in Values \cup {None} : Set(n, f, v)
  \/ \E p \in Nodes : LookUpPosition(p)
  \/ Interrupt \/ Rollback \/ Undo \/ Redo
  \/ \E merge \in BOOLEAN : Commit(merge)

Spec == Init /\ [][Next]_vars

----------------------------------------------------------------------------
Links == [Nodes -> Nodes \cup {None}]
Events == [type : {"add", "del", "order", "value"}, repr : Nodes, key : Nodes \cup Fields,
           old : Nodes \cup Values \cup {None}, new : Nodes \cup Values \cup {None}]

\* Trees and logs are of their types; values and counts are those of nodes,
\* and no assertion of simple-node.cpp has failed, in an undo or a replay either.
TypeOK ==
  /\ \A m \in {"parent", "next", "prev", "first", "last"} : tree[m] \in Links
  /\ tree.count \in [Nodes -> 0..Cardinality(Nodes)]
  /\ tree.position \in [Nodes -> 0..Cardinality(Nodes)]
  /\ tree.valid \in [Nodes -> BOOLEAN]
  /\ tree.value \in [Nodes -> [Fields -> Values \cup {None}]]
  /\ tree.asserted
  /\ \A l \in {log, partial} \cup Range(undo) \cup Range(redo) : l \in Seq(Events)

\* The links of simple-node.cpp are one tree: going forwards and backwards
\* through the children of a node meets the same nodes, those that take it for
\* their parent, as many as it counts, and an outsider has no siblings.
TreeIsSound ==
  \A n \in Nodes :
    LET s == Children(tree, n)
        at(i) == IF i \in DOMAIN s THEN s[i] ELSE None
    IN  /\ Range(s) = {c \in Nodes : tree.parent[c] = n}
        /\ Len(s) = tree.count[n] /\ tree.last[n] = at(Len(s))
        /\ \A i \in DOMAIN s : tree.prev[s[i]] = at(i - 1)
        /\ tree.parent[n] = None => tree.next[n] = None /\ tree.prev[n] = None

\* _childPosition() may return a cached position: where a node takes them to be
\* valid they are the positions of its children, whatever was added, removed,
\* moved, undone or replayed since they were counted.
PositionsAreExact ==
  \A n \in Nodes : tree.valid[n] =>
    LET s == Children(tree, n) IN \A i \in DOMAIN s : tree.position[s[i]] = i - 1

V == INSTANCE Versions WITH
  Contents <- [children : [Nodes -> Seq(Nodes)], value : [Nodes -> [Fields -> Values \cup {None}]]],
  content  <- ContentOf(tree)

\* The logs of event.cpp, built event by event, optimised, set aside and joined,
\* are as good as copies of the document: an undo, a redo or a rollback through
\* them makes exactly the content that the document held then.
ImplementsVersions == V!VersionSpec
=============================================================================
