---------------------------- MODULE ObjectUpdate ----------------------------
(***************************************************************************)
(* How changes of a document's objects are followed up: an object asks to  *)
(* be updated, or to have its modification reported, by flags in itself    *)
(* and in its ancestors (object/sp-object.cpp); an idle handler, or a call *)
(* of ensureUpToDate(), walks down the tree to whoever has flags           *)
(* (document.cpp and the containers' update() and modified()).             *)
(*                                                                         *)
(* Whatever an object does in its update, and whoever is told of its       *)
(* modification, may ask for more of both, of any object.  The walks are a *)
(* stack of frames: calls of the document, of updateDisplay() and of       *)
(* emitModified().  The tree does not change; what update() computes, tags *)
(* passed along with flags, and connector routing beyond the requests that *)
(* it makes are left out, and update() does not throw.                     *)
(***************************************************************************)
EXTENDS Naturals, Sequences, FiniteSets, SequencesExt

CONSTANTS
  Objects, Root, None,
  Children,                \* the tree: of each object the children in order
  Kind,                    \* how a container treats them: "group", "tspan", "hatch"
  MaxIterations,           \* 32 in ensureUpToDate()
  MaxRequests, MaxCalls    \* bounds: requests, and calls of ensureUpToDate()

\* Those for styles, viewports and tags travel with "modified" and "parent".
Flags == {"modified", "child", "parent"}

\* sp-object.h: what concerns an object or something in it, and what a
\* container passes on to its children.
Own == {"modified", "child"}
Cascade(flags) ==
  (flags \cup IF "modified" \in flags THEN {"parent"} ELSE {}) \ Own

Parent(x) ==
  IF x = Root THEN None ELSE CHOOSE p \in Objects : x \in Range(Children[p])

\* The ancestors of each object and the object itself.
Upwards(S) == \A y \in S \ {Root} : Parent(y) \in S
Above ==
  [x \in Objects |->
     {y \in Objects : \A S \in SUBSET Objects : x \in S /\ Upwards(S) => y \in S}]

ASSUME TreeAssumption ==
  /\ Root \in Objects /\ None \notin Objects
  /\ Children \in [Objects -> Seq(Objects)]
  /\ Kind \in [Objects -> {"group", "tspan", "hatch"}]
  /\ \A x \in Objects \ {Root} : \E p \in Objects : x \in Range(Children[p])
  /\ \A x \in Objects : Root \in Above[x]

ASSUME BoundsAssumption ==
  MaxIterations \in Nat /\ MaxRequests \in Nat /\ MaxCalls \in Nat

VARIABLES
  uflags, mflags,          \* SPObject::uflags, mflags
  idle,                    \* SPDocument::modified_connection is connected
  stack,                   \* calls in progress, the innermost last
  requests, calls,         \* how many were made
  gaveUp                   \* history: ensureUpToDate() ended with flags set

vars == <<uflags, mflags, idle, stack, requests, calls, gaveUp>>

Init ==
  /\ uflags = [x \in Objects |-> {}] /\ mflags = [x \in Objects |-> {}]
  /\ idle = FALSE /\ stack = <<>> /\ requests = 0 /\ calls = 0 /\ gaveUp = FALSE

----------------------------------------------------------------------------
\* Requests

Flagged(f, x) == f[x] \cap Own # {}

\* Mutant of Requested: an ancestor is flagged only if the object was not.
RequestedOfParent(f, x, flags) ==
  [y \in Objects |->
     IF y = x THEN f[y] \cup flags
     ELSE IF y = Parent(x) /\ ~Flagged(f, x) THEN f[y] \cup {"child"}
     ELSE f[y]]

\* The flags f after a request for x, which goes up as far as to the first
\* object that had flags before: its ancestors know already.
Requested(f, x, flags) ==
  [y \in Objects |->
     IF y = x THEN f[y] \cup flags
     ELSE IF y \in Above[x] /\ \A z \in Above[x] \ Above[y] : ~Flagged(f, z)
          THEN f[y] \cup {"child"}
     ELSE f[y]]

\* A request that reaches the root goes on to the document, which connects the
\* idle handler.
Reaches(f, x) == \A z \in Above[x] : ~Flagged(f, z)

Request(x) ==
  /\ requests < MaxRequests /\ requests' = requests + 1
  /\ \/ /\ uflags' = Requested(uflags, x, {"modified"}) /\ UNCHANGED mflags
        /\ idle' = (idle \/ Reaches(uflags, x))
     \/ /\ mflags' = Requested(mflags, x, {"modified"}) /\ UNCHANGED uflags
        /\ idle' = (idle \/ Reaches(mflags, x))
  /\ UNCHANGED <<stack, calls, gaveUp>>

----------------------------------------------------------------------------
\* Walks down the tree

Top == Last(stack)
Walk(op, x, flags) == [op |-> op, object |-> x, flags |-> flags, todo |-> Children[x]]

\* The frame f is replaced by g, and h is called if it is not empty.
Becomes(g, h) == stack' = Append(Front(stack), g) \o h

\* Mutant of UpdateDisplay: what comes from the parent is noted as well.
UpdateDisplayNotesAll(x, flags) ==
  /\ mflags' = [mflags EXCEPT ![x] = @ \cup uflags[x] \cup flags]
  /\ uflags' = [uflags EXCEPT ![x] = {}]

\* updateDisplay(): the flags are noted for the modification to be reported,
\* and cleared, so that the object may ask again while it is updated.
UpdateDisplay(x, flags) ==
  /\ mflags' = [mflags EXCEPT ![x] = @ \cup uflags[x]]
  /\ uflags' = [uflags EXCEPT ![x] = {}]

EmitModified(x) ==
  /\ mflags' = [mflags EXCEPT ![x] = {}]
  /\ UNCHANGED uflags

\* Whether update() of a container goes into the child c.
Updates(f, c) ==
  CASE Kind[f.object] = "group" -> Cascade(f.flags) # {} \/ Flagged(uflags, c)
    [] Kind[f.object] = "tspan" -> f.flags # {} \/ "modified" \in uflags[c]
    [] Kind[f.object] = "hatch" -> Cascade(f.flags) # {} \/ Flagged(mflags, c)

\* Mutant of Reports: only what concerns the child itself is looked at.
ReportsModified(f, c) == Cascade(f.flags) # {} \/ "modified" \in mflags[c]

\* Whether modified() does.
Reports(f, c) ==
  \/ Cascade(f.flags) # {}
  \/ IF Kind[f.object] = "tspan" THEN "modified" \in mflags[c] ELSE Flagged(mflags, c)

VisitToUpdate ==
  /\ stack # <<>> /\ Top.op = "update" /\ Top.todo # <<>>
  /\ LET c == Head(Top.todo)
         f == [Top EXCEPT !.todo = Tail(@)]
     IN  IF Updates(Top, c)
           THEN /\ Becomes(f, <<Walk("update", c, Cascade(Top.flags) \cup uflags[c])>>)
                /\ UpdateDisplay(c, Cascade(Top.flags))
           ELSE Becomes(f, <<>>) /\ UNCHANGED <<uflags, mflags>>
  /\ UNCHANGED <<idle, requests, calls, gaveUp>>

VisitToReport ==
  /\ stack # <<>> /\ Top.op = "modified" /\ Top.todo # <<>>
  /\ LET c == Head(Top.todo)
         f == [Top EXCEPT !.todo = Tail(@)]
     IN  IF Reports(Top, c)
           THEN /\ Becomes(f, <<Walk("modified", c, Cascade(Top.flags) \cup mflags[c])>>)
                /\ EmitModified(c)
           ELSE Becomes(f, <<>>) /\ UNCHANGED <<uflags, mflags>>
  /\ UNCHANGED <<idle, requests, calls, gaveUp>>

Return ==
  /\ stack # <<>> /\ Top.op \in {"update", "modified"} /\ Top.todo = <<>>
  /\ stack' = Front(stack)
  /\ UNCHANGED <<uflags, mflags, idle, requests, calls, gaveUp>>

----------------------------------------------------------------------------
\* The document

\* Mutant of RootClean: modifications to be reported are not looked at.
RootIsUpdated == uflags[Root] = {}

RootClean == uflags[Root] = {} /\ mflags[Root] = {}

\* The idle handler makes one pass over the tree, ensureUpToDate() several.
Call(op) == [op |-> op, phase |-> "begin", pass |-> 1, counter |-> MaxIterations]

IdleHandler ==
  /\ idle /\ stack = <<>>
  /\ stack' = <<Call("idle")>>
  /\ UNCHANGED <<uflags, mflags, idle, requests, calls, gaveUp>>

\* Anyone may call it, someone who is told of a modification too.
EnsureUpToDate ==
  /\ calls < MaxCalls /\ calls' = calls + 1
  /\ stack # <<>> => Top.op = "modified"
  /\ stack' = Append(stack, Call("ensure"))
  /\ UNCHANGED <<uflags, mflags, idle, requests, gaveUp>>

InDocument(phase) ==
  stack # <<>> /\ Top.op \in {"idle", "ensure"} /\ Top.phase = phase

\* _updateDocument(): updates if there is something to update,
BeginUpdate ==
  /\ InDocument("begin") /\ ~RootClean
  /\ LET f == [Top EXCEPT !.phase = "report"] IN
     IF uflags[Root] # {}
       THEN /\ Becomes(f, <<Walk("update", Root, uflags[Root])>>)
            /\ UpdateDisplay(Root, {})
       ELSE Becomes(f, <<>>) /\ UNCHANGED <<uflags, mflags>>
  /\ UNCHANGED <<idle, requests, calls, gaveUp>>

\* then reports modifications,
BeginReport ==
  /\ InDocument("report")
  /\ Becomes([Top EXCEPT !.phase = "end"], <<Walk("modified", Root, mflags[Root])>>)
  /\ EmitModified(Root)
  /\ UNCHANGED <<idle, requests, calls, gaveUp>>

\* and is done when it finds, or leaves, nothing.
UpdateEnds == InDocument("end") \/ (InDocument("begin") /\ RootClean)

\* The handler stays connected until nothing is left.
IdleHandlerReturns ==
  /\ UpdateEnds /\ Top.op = "idle"
  /\ stack' = Front(stack)
  /\ idle' = (idle /\ ~RootClean)
  /\ UNCHANGED <<uflags, mflags, requests, calls, gaveUp>>

TryAgain ==
  /\ UpdateEnds /\ Top.op = "ensure" /\ ~RootClean /\ Top.counter > 0
  /\ Becomes([Top EXCEPT !.phase = "begin", !.counter = @ - 1], <<>>)
  /\ UNCHANGED <<uflags, mflags, idle, requests, calls, gaveUp>>

\* Up to date: connectors are routed, which leads to requests, and then once more.
SecondPass ==
  /\ UpdateEnds /\ Top.op = "ensure" /\ RootClean /\ Top.counter > 0 /\ Top.pass = 1
  /\ Becomes([Top EXCEPT !.phase = "begin", !.pass = 2], <<>>)
  /\ UNCHANGED <<uflags, mflags, idle, requests, calls, gaveUp>>

\* "Remove handlers", after the second pass and when it gives up.
EnsureReturns ==
  /\ UpdateEnds /\ Top.op = "ensure"
  /\ \/ RootClean /\ Top.pass = 2
     \/ Top.counter = 0
  /\ stack' = Front(stack)
  /\ idle' = FALSE
  /\ gaveUp' = (gaveUp \/ ~RootClean)
  /\ UNCHANGED <<uflags, mflags, requests, calls>>

----------------------------------------------------------------------------
Work ==
  \/ VisitToUpdate \/ VisitToReport \/ Return \/ IdleHandler \/ BeginUpdate \/ BeginReport
  \/ IdleHandlerReturns \/ TryAgain \/ SecondPass \/ EnsureReturns

Next ==
  \/ \E x \in Objects : Request(x)
  \/ EnsureUpToDate
  \/ Work

\* Calls return, and the main loop runs its idle handlers.
Spec == Init /\ [][Next]_vars /\ WF_vars(Work)

----------------------------------------------------------------------------
Walks == [op : {"update", "modified"}, object : Objects, flags : SUBSET Flags, todo : Seq(Objects)]
DocumentCalls == [op : {"idle", "ensure"}, phase : {"begin", "report", "end"}, pass : 1..2,
                  counter : 0..MaxIterations]

\* The flags kept in an object concern it or something in it: "already
\* propagated" looks at no others, and the tests of containers at none but these.
TypeOK ==
  /\ \A f \in {uflags, mflags} : f \in [Objects -> SUBSET Own]
  /\ idle \in BOOLEAN /\ gaveUp \in BOOLEAN
  /\ stack \in Seq(Walks \cup DocumentCalls)
  /\ requests \in 0..MaxRequests /\ calls \in 0..MaxCalls

\* x is still to be come to by a walk that is in its parent.
ToBeVisited(op, x) ==
  \E i \in DOMAIN stack :
    /\ stack[i].op = op /\ stack[i].object = Parent(x) /\ x \in Range(stack[i].todo)

\* A request is not passed on by an object that had flags before.  So each
\* object with flags has to have a parent with flags, or to be on the way of a
\* walk in progress; otherwise nothing it asks for is ever seen to, whoever asks.
FlagsAreAccounted ==
  \A x \in Objects \ {Root} :
    /\ uflags[x] # {} => uflags[Parent(x)] # {} \/ ToBeVisited("update", x)
    /\ mflags[x] # {} => \/ mflags[Parent(x)] # {} \/ uflags[Parent(x)] # {}
                         \/ ToBeVisited("modified", x)

\* A document that is not up to date has its idle handler connected, or a call
\* in progress that will look, unless ensureUpToDate() gave up.
FlagsAreScheduled == ~RootClean => idle \/ stack # <<>> \/ gaveUp

\* No request falls between the walks and the document: whoever has flags is
\* known to its parent, and the document to its main loop.
RequestsAreKnown == FlagsAreAccounted /\ FlagsAreScheduled

\* ensureUpToDate() lets its callers rely on every object: when it returns from
\* outside of any other call, and has not given up, no object has flags.
EnsuredMeansUpToDate ==
  [][EnsureReturns /\ stack' = <<>> /\ ~gaveUp' =>
       \A x \in Objects : uflags'[x] = {} /\ mflags'[x] = {}]_vars

\* Whatever is asked for, during an update too, comes about.
RequestsAreServed ==
  \A x \in Objects :
    uflags[x] # {} \/ mflags[x] # {} ~> (uflags[x] = {} /\ mflags[x] = {}) \/ gaveUp
=============================================================================
