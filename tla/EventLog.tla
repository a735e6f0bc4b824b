------------------------------ MODULE EventLog ------------------------------
(***************************************************************************)
(* The undo history shown to the user (src/event-log.cpp): a tree of rows, *)
(* two levels deep, and iterators into it.  A run of events that share an  *)
(* icon is a row with the later ones below it.  The first row stands for   *)
(* the document as it was opened.                                          *)
(*                                                                         *)
(* The tree is kept in the order in which it is displayed: a row that is a *)
(* child belongs to the last row before it that is not.  A node is what an *)
(* iterator points to; it is given with each new row, so that whether      *)
(* nodes are used again is up to the caller.                               *)
(***************************************************************************)
EXTENDS Naturals, Sequences

CONSTANTS
  Null,   \* the null iterator, and no event
  End     \* the iterator past the last row

Row(node, event, icon, child) ==
  [node |-> node, event |-> event, icon |-> icon, child |-> child]

\* The constructor: one pseudo event, at which all iterators point.
InitLog(node) ==
  [rows   |-> <<Row(node, Null, "document-new", FALSE)>>,
   curr   |-> node,    \* _curr_event
   last   |-> node,    \* _last_event
   parent |-> Null,    \* _curr_event_parent
   saved  |-> node]    \* _last_saved

NodesOf(el) == {el.rows[i].node : i \in DOMAIN el.rows}

At(el, node) == CHOOSE i \in DOMAIN el.rows : el.rows[i].node = node

IsChild(el, i) == i \in DOMAIN el.rows /\ el.rows[i].child

ParentOf(el, i) ==
  el.rows[CHOOSE j \in 1..i :
            ~el.rows[j].child /\ \A k \in (j + 1)..i : el.rows[k].child].node

\* The end of the branch of row i, which need not have children.
BranchEnd(el, i) ==
  CHOOSE j \in i..Len(el.rows) :
    ~IsChild(el, j + 1) /\ \A k \in (i + 1)..j : el.rows[k].child

UndoEvent(el) ==
  IF At(el, el.curr) = 1 THEN Null ELSE el.rows[At(el, el.curr)].event

\* The iterator of _getRedoEvent() may be at the end of the tree.
RedoEvent(el) ==
  IF el.curr = el.last \/ At(el, el.curr) = Len(el.rows)
  THEN Null ELSE el.rows[At(el, el.curr) + 1].event

\* One row up: from the first child to the parent, or to the row above, or to
\* the end of its branch.
MoveUndo(el) ==
  LET i == At(el, el.curr) IN
  [el EXCEPT
     !.curr = el.rows[i - 1].node,
     !.parent = IF el.rows[i].child /\ ~el.rows[i - 1].child THEN Null
                ELSE IF ~el.rows[i].child /\ el.rows[i - 1].child
                THEN ParentOf(el, i - 1) ELSE @]

\* Mutant of MoveRedo: the parent is kept when a branch is left.
MoveRedoKeepsParent(el) ==
  LET i == At(el, el.curr) IN
  [el EXCEPT
     !.curr = el.rows[i + 1].node,
     !.parent = IF ~el.rows[i].child /\ el.rows[i + 1].child
                THEN el.curr ELSE @]

\* One row down: from a parent to its first child, or to the row below, out
\* of the branch if there is none in it.
MoveRedo(el) ==
  LET i == At(el, el.curr) IN
  [el EXCEPT
     !.curr = el.rows[i + 1].node,
     !.parent = IF ~el.rows[i].child /\ el.rows[i + 1].child THEN el.curr
                ELSE IF el.rows[i].child /\ ~el.rows[i + 1].child THEN Null
                ELSE @]

\* notifyUndoCommitEvent()
CommitRow(el, node, event, icon) ==
  IF icon = el.rows[At(el, el.curr)].icon
  THEN LET parent == IF el.parent = Null THEN el.curr ELSE el.parent
           k == BranchEnd(el, At(el, parent))
       IN [el EXCEPT
             !.rows = SubSeq(@, 1, k) \o <<Row(node, event, icon, TRUE)>>
                        \o SubSeq(@, k + 1, Len(@)),
             !.parent = parent, !.curr = node, !.last = node]
  ELSE [el EXCEPT
          !.rows = Append(@, Row(node, event, icon, FALSE)),
          !.parent = Null, !.curr = node, !.last = node]

OldestRow(el) == CHOOSE i \in 2..Len(el.rows) :
  ~el.rows[i].child /\ \A j \in 2..(i - 1) : el.rows[j].child

\* notifyUndoExpired(): a parent takes over the event of its first child,
\* whose row is erased instead.
ExpireRow(el) ==
  LET i == OldestRow(el) IN
  IF \A j \in 2..Len(el.rows) : el.rows[j].child THEN el
  ELSE IF IsChild(el, i + 1)
  THEN [el EXCEPT
          !.rows = SubSeq(@, 1, i - 1)
                     \o <<[@[i] EXCEPT !.event = el.rows[i + 1].event]>>
                     \o SubSeq(@, i + 2, Len(@))]
  ELSE [el EXCEPT !.rows = SubSeq(@, 1, i - 1) \o SubSeq(@, i + 1, Len(@))]

\* Mutant of ClearRedoRows: it starts at the current row.
ClearRedoFromCurrent(el) ==
  IF el.last = el.curr THEN el
  ELSE [el EXCEPT !.rows = SubSeq(@, 1, At(el, el.curr) - 1), !.last = End]

\* _clearRedo(): erases all rows after the current one; _last_event is left
\* at the end, not at the current row.
ClearRedoRows(el) ==
  IF el.last = el.curr THEN el
  ELSE [el EXCEPT !.rows = SubSeq(@, 1, At(el, el.curr)), !.last = End]
=============================================================================
