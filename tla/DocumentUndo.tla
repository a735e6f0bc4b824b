---------------------------- MODULE DocumentUndo ----------------------------
(***************************************************************************)
(* Undo and redo of a document (src/document-undo.cpp), with the EventLog  *)
(* that observes it and decides from its cursor whether the document is as *)
(* it was saved (src/event-log.cpp, src/file.cpp).                         *)
(*                                                                         *)
(* Changes of the XML tree are edits, numbered as they are made.  A log of *)
(* XML events is the sequence of its edits; undoing it takes them out of   *)
(* the content, replaying it applies them again.  The document is a record *)
(* and each function of DocumentUndo an operator on it, because they call  *)
(* each other.  Changes made while the document is undo-insensitive are    *)
(* not meant to be undone and are left out, as are changes that objects    *)
(* make to the tree while they are updated after an undo.                  *)
(***************************************************************************)
EXTENDS Naturals, Sequences

CONSTANTS
  Null, End,
  MaxEdits,    \* bound: edits made to the document
  MaxCommits,  \* bound: events created
  MaxSaves,    \* bound: saves, of either kind
  Keys,        \* the keys that callers give to maybeDone()
  Icons,       \* the icons of events
  UndoSize,    \* preference /options/undo/size, the limit being on
  SaveKinds    \* "official", and "copy" for a copy or a template

ASSUME BoundsAssumption ==
  MaxEdits \in Nat /\ MaxCommits \in Nat /\ MaxSaves \in Nat

\* maybeDone() asserts as much, and the preferences dialog offers 1 to 32000.
ASSUME UndoSizeAssumption == UndoSize \in Nat /\ UndoSize > 0
\* The iterators Null and End point at no row; the icon is that of the first
\* row, which the EventLog makes itself, and no event has it.
ASSUME IteratorsAssumption == Null \notin Nat /\ End \notin Nat
ASSUME IconsAssumption == "document-new" \notin Icons
ASSUME SaveKindsAssumption == SaveKinds \subseteq {"official", "copy"}

INSTANCE EventLog

VARIABLES
  doc,      \* the document: see TypeOK
  edits,    \* number of edits made
  saves,    \* number of saves made
  target,   \* the row that seekTo() is on its way to, or Null
  filed,    \* history: the content of the document's file
  blurred,  \* history: the saved row does not stand for the file any more
  mended    \* history: an incomplete transaction was added to an event

vars == <<doc, edits, saves, target, filed, blurred, mended>>

NoKey == ""
Edits == 1..MaxEdits
Nodes == 0..MaxCommits

InitDoc ==
  [content |-> <<>>,      \* the edits that the XML tree shows, as applied
   log |-> <<>>,          \* the log of the open transaction
   partial |-> <<>>,      \* SPDocument::partial
   undo |-> <<>>, redo |-> <<>>,
   actionkey |-> NoKey,
   sensitive |-> TRUE,
   modified |-> FALSE,    \* modified_since_save
   born |-> 0,            \* events created; an event's row has its number
   el |-> InitLog(0)]

Init ==
  /\ doc = InitDoc
  /\ edits = 0 /\ saves = 0
  /\ target = Null
  /\ filed = <<>>
  /\ blurred = FALSE /\ mended = FALSE

------------------------------------------------------------------------------
(* The functions of DocumentUndo *)

Last(s) == s[Len(s)]
Front(s) == SubSeq(s, 1, Len(s) - 1)

\* The stack when the edits q are added to its last event.
AddedTo(stack, q) ==
  Append(Front(stack), [Last(stack) EXCEPT !.edits = @ \o q])

\* s but for the edits that t holds.
Without(s, t) ==
  LET kept[k \in 0..Len(s)] ==
        IF k = 0 THEN <<>>
        ELSE IF \E i \in DOMAIN t : t[i] = s[k] THEN kept[k - 1]
        ELSE Append(kept[k - 1], s[k])
  IN kept[Len(s)]

Pending(d) == d.partial \o d.log

\* EventLog::_checkForVirginity()
CheckForVirginity(d) ==
  [d EXCEPT !.modified = @ /\ d.el.curr # d.el.saved]

ClearRedo(d) ==
  IF d.redo = <<>> THEN d
  ELSE [d EXCEPT !.redo = <<>>, !.el = ClearRedoRows(@)]

\* The oldest events, as many as are too many, are told to the EventLog and
\* deleted.
Expire(d) ==
  LET n == IF Len(d.undo) > UndoSize THEN Len(d.undo) - UndoSize ELSE 0
      expired[k \in 0..n] == IF k = 0 THEN d.el ELSE ExpireRow(expired[k - 1])
  IN [d EXCEPT !.undo = SubSeq(@, n + 1, Len(@)), !.el = expired[n]]

Merges(d, key) ==
  key # NoKey /\ d.actionkey = key /\ d.undo # <<>>

\* A new event, of which the EventLog is told before the document is marked.
Push(d, icon, zone) ==
  LET n == d.born + 1 IN
  CheckForVirginity(
    [d EXCEPT !.undo = Append(@, [id |-> n, edits |-> Pending(d),
                                  zone |-> zone]),
              !.born = n, !.el = CommitRow(@, n, n, icon)])

Coalesce(d) == [d EXCEPT !.undo = AddedTo(@, Pending(d))]

\* maybeDone(), and done(), which has no key.  Whether the key has expired is
\* a matter of time.  "zone" tells the description that cancel() uses.
MaybeDone(d, key, expired, icon, zone) ==
  LET c == ClearRedo(d) IN
  IF Pending(c) = <<>> THEN c
  ELSE LET added == IF Merges(c, key) /\ ~expired THEN Coalesce(c)
                    ELSE Push(c, icon, zone)
           marked == [added EXCEPT !.log = <<>>, !.partial = <<>>,
                                   !.actionkey = key, !.modified = TRUE]
       IN IF key = NoKey THEN Expire(marked) ELSE marked

\* Mutant of FinishIncomplete: what is in partial is forgotten.
FinishIncompleteLog(d) ==
  [d EXCEPT !.undo = IF @ = <<>> THEN @ ELSE AddedTo(@, d.log),
            !.log = <<>>, !.partial = <<>>]

\* "Incomplete undo transaction (added to next undo)"; without an event to
\* add it to, it is freed.
FinishIncomplete(d) ==
  [d EXCEPT !.undo = IF @ = <<>> THEN @ ELSE AddedTo(@, Pending(d)),
            !.log = <<>>, !.partial = <<>>]

\* undo() as far as the stacks go; the observers are told next.
UndoTop(d) ==
  LET f == FinishIncomplete([d EXCEPT !.actionkey = NoKey]) IN
  IF f.undo = <<>> THEN f
  ELSE [f EXCEPT !.content = Without(@, Last(f.undo).edits),
                 !.undo = Front(@), !.redo = Append(@, Last(f.undo)),
                 !.modified = TRUE]

RedoTop(d) ==
  LET f == FinishIncomplete([d EXCEPT !.actionkey = NoKey]) IN
  IF f.redo = <<>> THEN f
  ELSE [f EXCEPT !.content = @ \o Last(f.redo).edits,
                 !.redo = Front(@), !.undo = Append(@, Last(f.redo)),
                 !.modified = TRUE]

\* undo(), with EventLog::notifyUndoEvent().
Undo(d) ==
  LET u == UndoTop(d) IN
  IF d.undo = <<>> THEN u
  ELSE IF UndoEvent(u.el) # Last(u.redo).id THEN u
  ELSE CheckForVirginity([u EXCEPT !.el = MoveUndo(@)])

\* redo(), with EventLog::notifyRedoEvent().
Redo(d) ==
  LET r == RedoTop(d) IN
  IF d.redo = <<>> THEN r
  ELSE IF RedoEvent(r.el) # Last(r.undo).id THEN r
  ELSE CheckForVirginity([r EXCEPT !.el = MoveRedo(@)])

\* cancel(): commits what is pending as an event of its own and undoes it.
Cancel(d) ==
  LET c == MaybeDone(d, NoKey, FALSE, "", TRUE) IN
  IF c.undo # <<>> /\ Last(c.undo).zone THEN ClearRedo(Undo(c)) ELSE c

\* setUndoSensitive(): the log is put aside as long as it is off.
SetUndoSensitive(d, sensitive) ==
  [d EXCEPT !.sensitive = sensitive,
            !.partial = IF sensitive THEN @ ELSE Pending(d),
            !.log = <<>>]

\* Mutant of Saved: a save leaves the EventLog's iterator where it is.
SavedUnnoticed(d, official) ==
  [SetUndoSensitive(SetUndoSensitive(d, FALSE), TRUE)
     EXCEPT !.modified = IF official THEN FALSE ELSE @]

\* file_save(): Extension::save(), which is undo-insensitive for a while and
\* restores the mark unless the save is official, and rememberFileSave().
Saved(d, official) ==
  [SetUndoSensitive(SetUndoSensitive(d, FALSE), TRUE)
     EXCEPT !.modified = IF official THEN FALSE ELSE @,
            !.el.saved = d.el.curr]

------------------------------------------------------------------------------
(* The actions, all of the main thread *)

Edit ==
  /\ target = Null
  /\ doc.sensitive
  /\ edits < MaxEdits
  /\ edits' = edits + 1
  /\ doc' = [doc EXCEPT !.content = Append(@, edits'), !.log = Append(@, edits')]
  /\ UNCHANGED <<saves, target, filed, blurred, mended>>

EventAt(el, node) == el.rows[At(el, node)].event

\* An expired event leaves its edits to the row before it: the saved row if
\* that is the first, or if it has taken over the event of its first child.
ExpiryBlurs ==
  /\ doc.undo # <<>>
  /\ doc'.undo = <<>> \/ doc'.undo[1].id # doc.undo[1].id
  /\ doc.el.saved \in NodesOf(doc'.el)
  /\ \/ doc.el.saved = doc.el.rows[1].node
     \/ EventAt(doc'.el, doc.el.saved) # EventAt(doc.el, doc.el.saved)

Done(key, expired, icon) ==
  /\ target = Null
  /\ doc.sensitive
  /\ doc.born < MaxCommits
  /\ doc' = MaybeDone(doc, key, expired, icon, FALSE)
  /\ blurred' = \/ blurred
                \/ ExpiryBlurs
                \/ /\ doc'.born = doc.born /\ Pending(doc) # <<>>
                   /\ doc.el.saved = doc.el.curr
  /\ UNCHANGED <<edits, saves, target, filed, mended>>

CancelDone ==
  /\ target = Null
  /\ doc.sensitive
  /\ doc.born < MaxCommits
  /\ doc' = Cancel(doc)
  /\ blurred' = (blurred \/ ExpiryBlurs)
  /\ UNCHANGED <<edits, saves, target, filed, mended>>

Mends == mended' = (mended \/ Pending(doc) # <<>>)

UndoLast ==
  /\ target = Null
  /\ doc.sensitive
  /\ doc' = Undo(doc)
  /\ Mends
  /\ UNCHANGED <<edits, saves, target, filed, blurred>>

RedoLast ==
  /\ target = Null
  /\ doc.sensitive
  /\ doc' = Redo(doc)
  /\ Mends
  /\ UNCHANGED <<edits, saves, target, filed, blurred>>

ResetKey ==
  /\ target = Null
  /\ doc' = [doc EXCEPT !.actionkey = NoKey]
  /\ UNCHANGED <<edits, saves, target, filed, blurred, mended>>

ToggleSensitive ==
  /\ target = Null
  /\ doc' = SetUndoSensitive(doc, ~doc.sensitive)
  /\ UNCHANGED <<edits, saves, target, filed, blurred, mended>>

Save(kind) ==
  /\ target = Null
  /\ doc.sensitive
  /\ saves < MaxSaves
  /\ saves' = saves + 1
  /\ doc' = Saved(doc, kind = "official")
  /\ filed' = IF kind = "official" THEN doc.content ELSE filed
  /\ blurred' = IF kind = "official" THEN Pending(doc) # <<>>
                ELSE blurred \/ filed # doc.content
  /\ UNCHANGED <<edits, target, mended>>

\* seekTo(): the user selects a row of the history, other than the current.
Seek(node) ==
  /\ target = Null
  /\ doc.sensitive
  /\ node # doc.el.curr
  /\ target' = node
  /\ UNCHANGED <<doc, edits, saves, filed, blurred, mended>>

\* One turn of its loop: one event is undone or redone with notifications
\* blocked, and the iterator is moved here; the mark is looked at in the end.
SeekStep ==
  /\ target # Null
  /\ LET up == At(doc.el, target) < At(doc.el, doc.el.curr)
         d == IF up THEN UndoTop(doc) ELSE RedoTop(doc)
         moved == [d EXCEPT !.el = IF up THEN MoveUndo(@) ELSE MoveRedo(@)]
     IN IF moved.el.curr = target
        THEN doc' = CheckForVirginity(moved) /\ target' = Null
        ELSE doc' = moved /\ UNCHANGED target
  /\ Mends
  /\ UNCHANGED <<edits, saves, filed, blurred>>

------------------------------------------------------------------------------
Next ==
  \/ Edit \/ CancelDone \/ UndoLast \/ RedoLast \/ ResetKey \/ ToggleSensitive
  \/ SeekStep
  \/ \E key \in Keys \cup {NoKey}, expired \in BOOLEAN, icon \in Icons :
       Done(key, expired, icon)
  \/ \E kind \in SaveKinds : Save(kind)
  \/ \E node \in NodesOf(doc.el) : Seek(node)

Spec == Init /\ [][Next]_vars

------------------------------------------------------------------------------
(* Properties *)

Events == [id : 1..MaxCommits, edits : Seq(Edits), zone : BOOLEAN]

\* The iterators that are dereferenced point to rows of the tree; _last_saved
\* is only compared, and may outlive its row.
TypeOK ==
  /\ {doc.content, doc.log, doc.partial, filed} \subseteq Seq(Edits)
  /\ {doc.undo, doc.redo} \subseteq Seq(Events)
  /\ doc.actionkey \in Keys \cup {NoKey}
  /\ {doc.sensitive, doc.modified, blurred, mended} \subseteq BOOLEAN
  /\ doc.born \in 0..MaxCommits
  /\ doc.el.curr \in NodesOf(doc.el)
  /\ doc.el.last \in NodesOf(doc.el) \cup {End}
  /\ doc.el.parent \in NodesOf(doc.el) \cup {Null}
  /\ doc.el.saved \in Nodes
  /\ target \in NodesOf(doc.el) \cup {Null}
  /\ edits \in 0..MaxEdits /\ saves \in 0..MaxSaves

EditsOf(stack) ==
  LET upto[k \in 0..Len(stack)] ==
        IF k = 0 THEN <<>> ELSE upto[k - 1] \o stack[k].edits
  IN upto[Len(stack)]

\* An XML log can only be undone on the tree that it left.  What can be undone
\* is, in its order, the end of what was applied to the document: no edit is
\* missing from the logs, none is in two of them, and none is undone from
\* below a later one.
UndoFitsContent ==
  LET tail == EditsOf(doc.undo) \o Pending(doc) IN
  /\ Len(tail) <= Len(doc.content)
  /\ tail = SubSeq(doc.content, Len(doc.content) - Len(tail) + 1,
                   Len(doc.content))

\* An event can only be redone on the tree it was undone from: an event that
\* is still on the redo stack is younger than everything that was edited,
\* except when an incomplete transaction got in between.
RedoFitsContent ==
  ~mended /\ Pending(doc) = <<>> =>
    \A i \in DOMAIN doc.redo : \A j \in DOMAIN doc.redo[i].edits :
      \A k \in DOMAIN doc.content : doc.content[k] < doc.redo[i].edits[j]

\* Every log on either stack fits the tree on which it will be performed,
\* through merges, expiry, interruptions and incomplete transactions.
LogsFitContent == UndoFitsContent /\ RedoFitsContent

\* The rows above and including the current one are the undo stack, the rows
\* below it the redo stack, through commits, merges, expiry and seeking; and
\* the branch to which a later event of the same kind is added is the current
\* row's.
LogMirrorsStacks ==
  LET el == doc.el
      c == At(el, el.curr)
  IN
  /\ Len(doc.undo) = c - 1 /\ Len(doc.redo) = Len(el.rows) - c
  /\ \A i \in DOMAIN doc.undo : el.rows[i + 1].event = doc.undo[i].id
  /\ \A i \in DOMAIN doc.redo :
       el.rows[Len(el.rows) + 1 - i].event = doc.redo[i].id
  /\ el.parent = IF el.rows[c].child THEN ParentOf(el, c) ELSE Null

\* A document that is not marked as modified, and has no transaction open, is
\* what its file holds, unless the saved row was blurred: by a merge into its
\* event, by expiry, by the save of a copy or of an open transaction.
UnmodifiedMeansSaved ==
  ~doc.modified /\ Pending(doc) = <<>> /\ ~blurred /\ ~mended
    => doc.content = filed

\* "Mark document as untouched if we reach a state where the document was
\* previously saved" (event-log.cpp:328), incomplete transactions apart.
UntouchedMeansSaved ==
  ~doc.modified /\ Pending(doc) = <<>> /\ ~mended => doc.content = filed
=============================================================================
