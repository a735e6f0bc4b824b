------------------------------- MODULE Stores -------------------------------
(***************************************************************************)
(* The backing store of the canvas (src/ui/widget/canvas/stores.cpp) as    *)
(* operators on a record, in one dimension: a rectangle or region is a set *)
(* of integer cells, and an affine is a zoom factor, a positive integer    *)
(* that says how many cells a unit of the document takes up.               *)
(*                                                                         *)
(*   mode    "None", "Normal" or "Decoupled"                               *)
(*   affine  the zoom the store is drawn at                                *)
(*   rect    the cells of the store                                        *)
(*   drawn   the part of it that holds content                             *)
(*   snap    the part of it over which the snapshot has content            *)
(*                                                                         *)
(* In decoupled mode the store is being redrawn at the new affine while    *)
(* the screen shows the snapshot, the store from before the change.        *)
(***************************************************************************)
EXTENDS Integers

CONSTANTS Prerender,   \* margin around the view that is drawn too
          Padding      \* margin around that by which a store is larger

ASSUME MarginsAssumption == Prerender \in Nat /\ Padding \in Nat

NewStores == [mode |-> "None", affine |-> 1, rect |-> {}, drawn |-> {},
              snap |-> {}]

ExpandedBy(rect, margin) == UNION {(c - margin)..(c + margin) : c \in rect}

CeilDiv(n, d) == -((-n) \div d)

\* The cells at affine `to` that the fraction [lo/d, hi/d) of the cells at
\* affine `from` touches.
Touched(lo, hi, d, from, to) ==
  ((lo * to) \div (d * from))..(CeilDiv(hi * to, d * from) - 1)

\* A rectangle transformed between affines and rounded outwards.
Outwards(rect, from, to) ==
  UNION {Touched(c, c + 1, 1, from, to) : c \in rect}

\* The cells of `bounds`, at affine `to`, that the region covers entirely.
Inwards(region, from, to, bounds) ==
  {c \in bounds : Touched(c, c + 1, 1, to, from) \subseteq region}

\* The view is what the screen shows: `width` cells from `pos` at `affine`.
Area(view) == view.pos..(view.pos + view.width - 1)

Centered(view) == ExpandedBy(Area(view), Prerender + Padding)

RecreateStore(s, view) ==
  [s EXCEPT !.affine = view.affine, !.rect = Centered(view), !.drawn = {}]

ShiftStore(s, view) ==
  [s EXCEPT !.rect = Centered(view), !.drawn = @ \cap Centered(view)]

TakeSnapshot(s, view) ==
  [RecreateStore(s, view) EXCEPT
     !.snap = Inwards(s.drawn, s.affine, view.affine, Centered(view))]

\* What of the store and of the snapshot can be kept is the new snapshot.
SnapshotCombine(s, view) ==
  TakeSnapshot([s EXCEPT !.drawn = @ \cup s.snap], view)

ResetStores(s) == [s EXCEPT !.mode = "None", !.drawn = {}, !.snap = {}]

MarkDrawn(s, cells) == [s EXCEPT !.drawn = @ \cup cells]

\* The middle half of the view, at the affine of the store.
MiddleHalf(s, view) ==
  Touched(4 * view.pos + view.width, 4 * view.pos + 3 * view.width, 4,
          view.affine, s.affine)

\* The ratio of the determinants is the square of the ratio of the zooms.
TooDifferent(s, view) ==
  LET now == view.affine * view.affine
      then == s.affine * s.affine
  IN \/ ~(MiddleHalf(s, view) \subseteq s.rect)
     \/ now > 3 * then
     \/ 10 * now < 7 * then

\* Cairo's extents: the smallest rectangle around a region.
Extents(region) ==
  IF region = {} THEN {}
  ELSE LET lo == CHOOSE c \in region : \A d \in region : c <= d
           hi == CHOOSE c \in region : \A d \in region : d <= c
       IN lo..hi

HasReusableContent(s, view) == Extents(s.drawn) \cap Centered(view) # {}

Coverage(view) == ExpandedBy(Area(view), Prerender)

\* What update() does to the stores, and the action it returns.
UpdateStores(s, view) ==
  CASE s.mode = "None" ->
         [stores |-> [RecreateStore(s, view) EXCEPT !.mode = "Normal"],
          action |-> "Recreated"]
    [] s.mode = "Normal" /\ view.affine # s.affine ->
         [stores |-> [TakeSnapshot(s, view) EXCEPT !.mode = "Decoupled"],
          action |-> "Recreated"]
    [] s.mode = "Normal" /\ view.affine = s.affine
         /\ ~(Coverage(view) \subseteq s.rect) ->
         IF HasReusableContent(s, view)
         THEN [stores |-> ShiftStore(s, view), action |-> "Shifted"]
         ELSE [stores |-> RecreateStore(s, view), action |-> "Recreated"]
    [] s.mode = "Decoupled" /\ TooDifferent(s, view) ->
         [stores |-> SnapshotCombine(s, view), action |-> "Recreated"]
    [] OTHER -> [stores |-> s, action |-> "None"]

\* Mutant of FinishedDraw: a store at the right affine is redrawn as well.
FinishedDrawAlways(s, view) ==
  IF s.mode = "Decoupled"
  THEN [stores |-> TakeSnapshot(s, view), action |-> "Recreated"]
  ELSE [stores |-> s, action |-> "None"]

\* What finished_draw() does: leave decoupled mode, or go on at the affine
\* the view has by now.
FinishedDraw(s, view) ==
  CASE s.mode = "Decoupled" /\ s.affine = view.affine ->
         [stores |-> [s EXCEPT !.mode = "Normal"], action |-> "None"]
    [] s.mode = "Decoupled" /\ s.affine # view.affine ->
         [stores |-> TakeSnapshot(s, view), action |-> "Recreated"]
    [] OTHER -> [stores |-> s, action |-> "None"]
=============================================================================
