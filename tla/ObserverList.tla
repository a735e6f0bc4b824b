---------------------------- MODULE ObserverList ----------------------------
(***************************************************************************)
(* The lists of observers of a node (xml/composite-node-observer.cpp, kind *)
(* "node") and of the undo stack (composite-undo-stack-observer.cpp, kind  *)
(* "undo").  An observer that is being notified may add and remove         *)
(* observers, itself too, and may cause another notification.  Therefore a *)
(* list that is being iterated over is left as it is: who is removed is    *)
(* marked, who is added waits in a second list.                            *)
(***************************************************************************)
EXTENDS Naturals, Sequences, FiniteSets, SequencesExt

CONSTANTS
  Observers, Nobody,
  Kinds,                   \* among "node" and "undo"
  MaxAdds,                 \* bound: how often an observer is added
  MaxDepth                 \* bound: notifications inside one another

ASSUME ObserversAssumption == Nobody \notin Observers
ASSUME KindsAssumption == Kinds \subseteq {"node", "undo"}
ASSUME BoundsAssumption == MaxAdds \in Nat /\ MaxDepth \in Nat

VARIABLES
  kind,                    \* which of the two lists this is
  iterating,               \* _iterating
  active, pending,         \* _active, _pending
  activeMarked,            \* _active_marked, _pending_marked: how many
  pendingMarked,           \*   records of a node's lists are marked
  loops,                   \* the loops over _active, the innermost last
  added                    \* how often an observer was added

vars == <<kind, iterating, active, pending, activeMarked, pendingMarked, loops, added>>

\* The id of a record is history: it tells registrations of one observer apart.
Record(o) == [id |-> added + 1, observer |-> o, marked |-> FALSE]

Init ==
  /\ kind \in Kinds
  /\ iterating = 0 /\ active = <<>> /\ pending = <<>>
  /\ activeMarked = 0 /\ pendingMarked = 0
  /\ loops = <<>> /\ added = 0

\* Observers and other code run outside of the list's own loops.
ClientRuns == loops # <<>> => Last(loops).calling

\* Mutant of AddObserver: an observer is always added to the list in use.
AddAtOnce(o) ==
  /\ ClientRuns /\ added < MaxAdds
  /\ active' = Append(active, Record(o))
  /\ added' = added + 1
  /\ UNCHANGED <<kind, iterating, pending, activeMarked, pendingMarked, loops>>

AddObserver(o) ==
  /\ ClientRuns /\ added < MaxAdds
  /\ IF iterating > 0
       THEN pending' = Append(pending, Record(o)) /\ UNCHANGED active
       ELSE active' = Append(active, Record(o)) /\ UNCHANGED pending
  /\ added' = added + 1
  /\ UNCHANGED <<kind, iterating, activeMarked, pendingMarked, loops>>

\* The records of o, of which a node's list passes over those it has marked.
Found(list, o) ==
  {i \in DOMAIN list : list[i].observer = o /\ (kind = "node" => ~list[i].marked)}

First(S) == CHOOSE i \in S : \A j \in S : i <= j

Mark(list, o) == [list EXCEPT ![First(Found(list, o))].marked = TRUE]

\* Only a node's lists count what they mark.
Counted(n) == IF kind = "node" THEN n + 1 ELSE n

\* Mutant of MarkOne: what is marked in _pending is counted for _active.
MarkOneMiscounted(o) ==
  IF Found(active, o) # {}
    THEN /\ active' = Mark(active, o) /\ activeMarked' = Counted(activeMarked)
         /\ UNCHANGED <<pending, pendingMarked>>
    ELSE /\ Found(pending, o) # {}
         /\ pending' = Mark(pending, o) /\ activeMarked' = Counted(activeMarked)
         /\ UNCHANGED <<active, pendingMarked>>

\* remove() during a notification.
MarkOne(o) ==
  IF Found(active, o) # {}
    THEN /\ active' = Mark(active, o) /\ activeMarked' = Counted(activeMarked)
         /\ UNCHANGED <<pending, pendingMarked>>
    ELSE /\ Found(pending, o) # {}
         /\ pending' = Mark(pending, o) /\ pendingMarked' = Counted(pendingMarked)
         /\ UNCHANGED <<active, activeMarked>>

\* remove() otherwise, when nothing is pending.  In a longer list of a node the
\* last record takes the place of the one that goes.
RemoveOne(o) ==
  /\ Found(active, o) # {}
  /\ LET i == First(Found(active, o)) IN
     active' = IF kind = "node" /\ Len(active) > 3
               THEN Front([active EXCEPT ![i] = Last(active)])
               ELSE RemoveAt(active, i)
  /\ UNCHANGED <<pending, activeMarked, pendingMarked>>

\* o was taken off during the notification that is under way.
Withdrawn(o) == \E r \in Range(active \o pending) : r.observer = o /\ r.marked

\* The guard on the undo stack is what its clients do: none is taken off twice
\* during one notification, when the list would mark the same record again.
RemoveObserver(o) ==
  /\ ClientRuns
  /\ kind = "undo" => ~Withdrawn(o)
  /\ IF iterating > 0 THEN MarkOne(o) ELSE RemoveOne(o)
  /\ UNCHANGED <<kind, iterating, loops, added>>

\* A notification begins, in an observer that is notified or elsewhere.
Notify ==
  /\ ClientRuns /\ Len(loops) < MaxDepth
  /\ iterating' = iterating + 1
  /\ loops' = Append(loops, [at |-> 0, calling |-> FALSE])
  /\ UNCHANGED <<kind, active, pending, activeMarked, pendingMarked, added>>

\* The records that the loop l has yet to come to and will not pass over.
Ahead(l) == {i \in DOMAIN active : i > l.at /\ ~active[i].marked}

CallNext ==
  /\ ~ClientRuns /\ Ahead(Last(loops)) # {}
  /\ loops' = Append(Front(loops), [at |-> First(Ahead(Last(loops))), calling |-> TRUE])
  /\ UNCHANGED <<kind, iterating, active, pending, activeMarked, pendingMarked, added>>

Return ==
  /\ loops # <<>> /\ ClientRuns
  /\ loops' = Append(Front(loops), [Last(loops) EXCEPT !.calling = FALSE])
  /\ UNCHANGED <<kind, iterating, active, pending, activeMarked, pendingMarked, added>>

\* The list without the marked records, for which a node looks if it counted any.
Swept(list, count) ==
  LET kept[k \in 0..Len(list)] ==
        IF k = 0 THEN <<>>
        ELSE IF list[k].marked THEN kept[k - 1]
        ELSE Append(kept[k - 1], list[k])
  IN  IF kind = "node" /\ count = 0 THEN list ELSE kept[Len(list)]

FinishIteration ==
  /\ ~ClientRuns /\ Ahead(Last(loops)) = {}
  /\ loops' = Front(loops)
  /\ iterating' = iterating - 1
  /\ IF iterating' > 0
       THEN UNCHANGED <<active, pending, activeMarked, pendingMarked>>
       ELSE /\ active' = Swept(active, activeMarked) \o Swept(pending, pendingMarked)
            /\ pending' = <<>> /\ activeMarked' = 0 /\ pendingMarked' = 0
  /\ UNCHANGED <<kind, added>>

Next ==
  \/ \E o \in Observers : AddObserver(o) \/ RemoveObserver(o)
  \/ Notify \/ CallNext \/ Return \/ FinishIteration

Spec == Init /\ [][Next]_vars

----------------------------------------------------------------------------
Records == [id : 1..MaxAdds, observer : Observers, marked : BOOLEAN]
MarkedIn(list) == Cardinality({i \in DOMAIN list : list[i].marked})

\* The members are of their types; the counts of a node are those of its marks,
\* without which _finishIteration() would leave a marked record for ever; and
\* outside of notifications nothing is marked and nobody waits.
TypeOK ==
  /\ kind \in Kinds /\ added \in 0..MaxAdds
  /\ active \in Seq(Records) /\ pending \in Seq(Records)
  /\ loops \in Seq([at : 0..MaxAdds, calling : BOOLEAN])
  /\ iterating = Len(loops)
  /\ kind = "node" => activeMarked = MarkedIn(active) /\ pendingMarked = MarkedIn(pending)
  /\ iterating = 0 => pending = <<>> /\ MarkedIn(active) = 0

Registration(r) == [id |-> r.id, observer |-> r.observer]
Unmarked(list) == {Registration(r) : r \in {s \in Range(list) : ~s.marked}}

R == INSTANCE Registry WITH
  Registrations <- [id : 1..MaxAdds, observer : Observers],
  registered    <- Unmarked(active \o pending),
  settled       <- {Registration(r) : r \in Range(active)},
  rounds        <- [i \in DOMAIN loops |->
                     [due  |-> {Registration(active[j]) : j \in Ahead(loops[i])},
                      told |-> IF loops[i].calling THEN active[loops[i].at].observer ELSE Nobody]]

\* Both lists are registries: whatever observers do to them while they are being
\* notified, each notification tells everyone who was there when the outermost
\* one began, once per registration and not after it was taken off.
ImplementsRegistry == R!RegistrySpec
=============================================================================
