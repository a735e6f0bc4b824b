---------------------------- MODULE CanvasRedraw ----------------------------
(***************************************************************************)
(* Incremental redrawing of the canvas (src/ui/widget/canvas.cpp): the     *)
(* chain schedule_redraw() -> launch_redraw() -> render threads ->         *)
(* after_redraw() that keeps the backing store up to date with the drawing *)
(* and with the view, while the user edits, pans, zooms and resizes.       *)
(*                                                                         *)
(* The main thread runs one handler at a time; `mpc` is its position in    *)
(* the handlers that call launch_redraw() or wait.  The render threads     *)
(* share the redraw data `rd` and the updater `up` under rd.mutex, which   *)
(* `lock` holds for; they exchange tiles with the main thread.  How they   *)
(* signal their exit is the subject of module Synchronizer.                *)
(*                                                                         *)
(* The document is a row of units of content.  At zoom a, unit u takes up  *)
(* the cells Footprint({u}, a).  `shown` is a ghost: the cells of the      *)
(* store whose content is what the drawing, with all of its edits, is.     *)
(***************************************************************************)
EXTENDS Stores, Updaters, FiniteSets

CONSTANTS
  Threads,        \* the render threads, RedrawData::numthreads of them
  Units,          \* the units of content of the document
  Positions,      \* where the view can be scrolled to
  Affines,        \* the zooms of the view
  Widths,         \* the widths the widget can be given
  Preempt,        \* width that thin rectangles at the edge are extended to
  UsedStrategies, \* the update strategies the preferences can name
  MaxRequests,    \* bound: calls of the user interface in a behaviour
  NoThread

ASSUME ThreadsAssumption == Threads # {} /\ IsFiniteSet(Threads)
ASSUME NoThreadAssumption == NoThread \notin Threads
ASSUME ViewAssumption == /\ Units \subseteq Int /\ Positions \subseteq Int
                         /\ Affines \subseteq Nat \ {0}
                         /\ Widths \subseteq Nat \ {0}
ASSUME BoundsAssumption == Preempt \in Nat \ {0} /\ MaxRequests \in Nat
ASSUME StrategiesAssumption == UsedStrategies \subseteq Strategies

VARIABLES
  view,              \* Canvas::_pos, ::_affine and the width of the widget
  active,            \* CanvasPrivate::active
  conn,              \* schedule_redraw_conn: a launch waits for idle time
  redraw_active,     \* a redraw is scheduled or in progress
  redraw_requested,  \* another iteration is wanted
  need_update,       \* Canvas::_need_update
  invalidated,       \* region to be marked dirty by the next launch
  strategy,          \* the update strategy in the preferences
  requests,          \* calls of the user interface still to come
  mpc,               \* where the main thread is
  items_affine,      \* CanvasItemContext::_affine
  snapshotted,       \* Drawing::_snapshotted, CanvasItemContext::_snapshotted
  log,               \* edits deferred until unsnapshot()
  moved,             \* units whose new place the next update will report
  stores,            \* the backing store, see module Stores
  up,                \* the updater, see module Updaters
  rd,                \* RedrawData
  abort,             \* abort_flags
  tiles,             \* cells of the painted tiles not committed yet
  lock,              \* who holds rd.mutex
  tpc,               \* where each render thread is
  trect,             \* the rectangle each render thread is painting
  shown              \* ghost: the up-to-date part of the store

viewvars == <<view, strategy, requests>>
schedvars == <<active, conn, redraw_active, redraw_requested, mpc>>
drawingvars == <<need_update, items_affine, snapshotted, log, moved>>
storevars == <<invalidated, stores, shown>>
threadvars == <<lock, tpc, trect>>
vars == <<viewvars, schedvars, drawingvars, storevars, threadvars,
          up, rd, abort, tiles>>

\* "launch": in launch_redraw(), called from a handler that ends with it;
\* "paintlaunch", "paint": in paint_widget(), before and after that call;
\* "wait": in deactivate(), blocked in waitForExit().
MainStates == {"loop", "launch", "paintlaunch", "paint", "wait"}

\* "tiler": init_tiler() is posted; "run": threads are in render_tile();
\* "drained": the last of them is to signalExit(); "exit": it has.
Stages == {"none", "tiler", "run", "drained", "exit"}

\* "loop": about to go round render_tile()'s loop; "paint": in paint_rect();
\* "painted": about to lock again and look at the clock.
ThreadStates == {"off", "loop", "paint", "painted"}

Footprint(units, affine) ==
  UNION {(u * affine)..(u * affine + affine - 1) : u \in units}

Cells == Int

Views == [affine : Affines, pos : Positions, width : Widths]

TypeOK ==
  /\ view \in [affine : Affines, pos : Positions, width : Widths \cup {0}]
  /\ \A b \in {active, conn, redraw_active, redraw_requested, need_update,
               snapshotted, rd.decoupled, rd.timeoutflag} : b \in BOOLEAN
  /\ strategy \in UsedStrategies
  /\ requests \in 0..MaxRequests
  /\ mpc \in MainStates
  /\ items_affine \in Affines \cup {1}
  /\ log \subseteq Units \X Units
  /\ moved \subseteq Units
  /\ \A r \in {invalidated, tiles, shown, stores.rect, stores.drawn, up.clean,
               rd.rects, rd.bounds, rd.visible} :
       IsFiniteSet(r) /\ r \subseteq Cells
  /\ stores.mode \in {"None", "Normal", "Decoupled"}
  /\ up.strategy \in UsedStrategies
  /\ rd.stage \in Stages
  /\ rd.phase \in 0..2
  /\ rd.numactive \in 0..Cardinality(Threads)
  /\ abort \in {"none", "soft", "hard"}
  /\ lock \in Threads \cup {NoThread}
  /\ tpc \in [Threads -> ThreadStates]

Init ==
  /\ view \in [affine : Affines, pos : Positions, width : Widths \cup {0}]
  /\ active = FALSE /\ conn = FALSE
  /\ redraw_active = FALSE /\ redraw_requested = FALSE
  /\ need_update = FALSE
  /\ invalidated = {}
  /\ strategy \in UsedStrategies
  /\ requests = MaxRequests
  /\ mpc = "loop"
  /\ items_affine = 1
  /\ snapshotted = FALSE /\ log = {} /\ moved = {}
  /\ stores = NewStores
  /\ up = NewUpdater(strategy)
  /\ rd = [stage |-> "none", phase |-> 0, visible |-> {}, store |-> {},
           decoupled |-> FALSE, rects |-> {}, bounds |-> {},
           clean |-> [alias |-> "clean", region |-> {}],
           numactive |-> 0, timeoutflag |-> FALSE]
  /\ abort = "none"
  /\ tiles = {}
  /\ lock = NoThread
  /\ tpc = [t \in Threads |-> "off"]
  /\ trect = [t \in Threads |-> {}]
  /\ shown = {}

------------------------------------------------------------------------------
(* Scheduling *)

CanSchedule(width) == active /\ width > 0

\* Mutant of ScheduleRedraw: an instant redraw does not wait for the process
\* in flight.
ScheduleRedrawOverRunning(width, instant) ==
  LET start == CanSchedule(width) /\ (~redraw_active \/ instant)
  IN /\ redraw_requested' = (redraw_requested \/ CanSchedule(width))
     /\ redraw_active' = (redraw_active \/ start)
     /\ conn' = IF start THEN ~instant ELSE conn
     /\ mpc' = IF start /\ instant THEN "launch" ELSE mpc

\* schedule_redraw(): request another iteration, and start one if none is in
\* progress.  An instant redraw also replaces one that is only scheduled.
ScheduleRedraw(width, instant) ==
  LET start == CanSchedule(width) /\ (~redraw_active \/ (conn /\ instant))
  IN /\ redraw_requested' = (redraw_requested \/ CanSchedule(width))
     /\ redraw_active' = (redraw_active \/ start)
     /\ conn' = IF start THEN ~instant ELSE conn
     /\ mpc' = IF start /\ instant THEN "launch" ELSE mpc

\* redraw_area(), of which canvas items and the drawing are the callers.
RedrawArea(region) ==
  /\ ScheduleRedraw(view.width, FALSE)
  /\ invalidated' = IF active THEN invalidated \cup region ELSE invalidated
  /\ abort' = IF active /\ redraw_active /\ invalidated = {} THEN "soft"
              ELSE abort

\* The main thread is in its loop and the user interface calls the canvas.
UserCall ==
  /\ mpc = "loop"
  /\ requests > 0
  /\ requests' = requests - 1

RequestRedrawArea(u) ==
  /\ UserCall
  /\ RedrawArea(Footprint({u}, items_affine))
  /\ UNCHANGED <<active, view, strategy, drawingvars, stores, shown,
                 threadvars, up, rd, tiles>>

RequestRedrawAll ==
  /\ UserCall
  /\ active
  /\ invalidated' = invalidated \cup stores.rect
  /\ ScheduleRedraw(view.width, FALSE)
  /\ UNCHANGED <<active, view, strategy, drawingvars, stores, shown,
                 threadvars, up, rd, abort, tiles>>

SetPos(p) ==
  /\ UserCall
  /\ p # view.pos
  /\ view' = [view EXCEPT !.pos = p]
  /\ ScheduleRedraw(view.width, FALSE)
  /\ UNCHANGED <<active, strategy, drawingvars, storevars, threadvars, up,
                 rd, abort, tiles>>

SetAffine(a) ==
  /\ UserCall
  /\ a # view.affine
  /\ view' = [view EXCEPT !.affine = a]
  /\ ScheduleRedraw(view.width, FALSE)
  /\ UNCHANGED <<active, strategy, drawingvars, storevars, threadvars, up,
                 rd, abort, tiles>>

\* size_allocate_vfunc().  A real change of size has the desktop centre the
\* view again, and zoom it if the preferences say so.
SizeAllocate(v) ==
  /\ UserCall
  /\ v.width = view.width \/ view.width = 0
       => v.pos = view.pos /\ v.affine = view.affine
  /\ view' = v
  /\ ScheduleRedraw(v.width, TRUE)
  /\ UNCHANGED <<active, strategy, drawingvars, storevars, threadvars, up,
                 rd, abort, tiles>>

SetStrategy(s) ==
  /\ UserCall
  /\ s # strategy
  /\ strategy' = s
  /\ UNCHANGED <<view, schedvars, drawingvars, storevars, threadvars, up,
                 rd, abort, tiles>>

------------------------------------------------------------------------------
(* Edits of the drawing and of the canvas items *)

Ends(edits) == {e[1] : e \in edits} \cup {e[2] : e \in edits}

\* An item at unit e[1] is restyled, or moved to e[2]: it has its old place
\* repainted at once, and its new place when the next update computes it.
\* While a redraw process reads the items, all of that is deferred.
Edit(e) ==
  /\ UserCall
  /\ shown' = shown \ Footprint(Ends({e}), stores.affine)
  /\ IF snapshotted
     THEN /\ log' = log \cup {e}
          /\ UNCHANGED <<moved, need_update, redraw_requested, redraw_active,
                         conn, mpc, invalidated, abort>>
     ELSE /\ RedrawArea(Footprint({e[1]}, items_affine))
          /\ moved' = IF e[1] = e[2] THEN moved ELSE moved \cup {e[2]}
          /\ need_update' = (need_update \/ e[1] # e[2])
          /\ UNCHANGED log
  /\ UNCHANGED <<active, view, strategy, items_affine, snapshotted, stores,
                 threadvars, up, rd, tiles>>

\* unsnapshot(): let edits be made at once again, then make the deferred
\* ones.  Their calls of redraw_area() are accounted for by the caller.
Unsnapshot ==
  /\ snapshotted' = FALSE
  /\ log' = {}
  /\ moved' = moved \cup {e[2] : e \in {x \in log : x[1] # x[2]}}
  /\ need_update' = (need_update \/ \E e \in log : e[1] # e[2])
  /\ UNCHANGED items_affine

Repainted == Footprint({e[1] : e \in log}, items_affine)

------------------------------------------------------------------------------
(* Launching a redraw process *)

\* handle_stores_action(), for the invalidated region and for the updater.
InvalidatedAfter(inv, action, s) ==
  CASE action = "Recreated" -> inv \cup s.rect
    [] action = "Shifted" -> inv \cap s.rect
    [] OTHER -> inv

UpdaterAfter(u, action, s) ==
  CASE action = "Recreated" -> ResetUpdater(u)
    [] action = "Shifted" -> IntersectUpdater(u, s.rect)
    [] OTHER -> u

ShownAfter(cells, action, s) ==
  CASE action = "Recreated" -> {}
    [] action = "Shifted" -> cells \cap s.rect
    [] OTHER -> cells

\* Updating the items has them report, through redraw_area(), where they
\* have moved to; only then is the updater told what is dirty.
NeedsUpdate(s) == need_update \/ items_affine # s.affine

\* Mutant of DirtyRegion: what the items report while they are updated comes
\* after the updater was told what is dirty, and is dropped.
DirtyRegionBeforeUpdate(action, s) == InvalidatedAfter(invalidated, action, s)

DirtyRegion(action, s) ==
  InvalidatedAfter(invalidated, action, s)
    \cup (IF NeedsUpdate(s) THEN Footprint(moved, s.affine) ELSE {})

\* Mutant of LaunchReturns: paint_widget() does not disconnect the launch.
LaunchReturnsConnected ==
  /\ mpc' = IF mpc = "launch" THEN "loop" ELSE "paint"
  /\ conn' = (conn /\ mpc = "paintlaunch")

\* The handler that called launch_redraw() goes on, or ends; either way it
\* is a launch the connection is no longer wanted for.
LaunchReturns ==
  /\ mpc' = IF mpc = "launch" THEN "loop" ELSE "paint"
  /\ conn' = FALSE

\* launch_redraw()
Launch ==
  LET result == UpdateStores(stores, view)
      s == result.stores
      u == SwitchUpdater(UpdaterAfter(up, result.action, s), strategy)
      decoupled == s.mode = "Decoupled"
  IN /\ mpc \in {"launch", "paintlaunch"}
     /\ stores' = s
     /\ shown' = ShownAfter(shown, result.action, s)
     /\ items_affine' = s.affine
     /\ need_update' = FALSE
     /\ moved' = IF NeedsUpdate(s) THEN {} ELSE moved
     /\ up' = NextFrame(MarkDirty(u, DirtyRegion(result.action, s)))
     /\ invalidated' = {}
     /\ redraw_requested' = FALSE
     /\ snapshotted' = TRUE
     /\ rd' = [rd EXCEPT
          !.stage = "tiler",
          !.store = s.rect,
          !.decoupled = decoupled,
          !.visible = IF decoupled
                      THEN Outwards(Area(view), view.affine, s.affine)
                      ELSE Area(view)]
     /\ abort' = "none"
     /\ LaunchReturns
     /\ UNCHANGED <<active, redraw_active, viewvars, log, threadvars, tiles>>

\* The idle source that schedule_redraw() connected is dispatched.
IdleLaunch ==
  /\ mpc = "loop"
  /\ conn
  /\ mpc' = "launch"
  /\ UNCHANGED <<viewvars, active, conn, redraw_active, redraw_requested,
                 drawingvars, storevars, threadvars, up, rd, abort, tiles>>

\* The screen needs repainting: do not leave the launch to a busy idle loop.
PaintWidget ==
  /\ mpc = "loop"
  /\ active
  /\ stores.mode # "None"
  /\ mpc' = IF conn THEN "paintlaunch" ELSE "paint"
  /\ UNCHANGED <<viewvars, active, conn, redraw_active, redraw_requested,
                 drawingvars, storevars, threadvars, up, rd, abort, tiles>>

\* What a tile shows is the drawing as it was launched, without the edits
\* that came later.
Stale == Footprint(Ends(log) \cup moved, items_affine) \cup invalidated

\* Mutant of TilesReaped: tiles are left for a later repaint of the screen.
TilesLeft == UNCHANGED tiles

TilesReaped == tiles' = {}

CommitTiles ==
  /\ stores' = MarkDrawn(stores, tiles)
  /\ shown' = (shown \ tiles) \cup (tiles \ Stale)
  /\ TilesReaped

PaintCommit ==
  /\ mpc = "paint"
  /\ mpc' = "loop"
  /\ CommitTiles
  /\ UNCHANGED <<viewvars, active, conn, redraw_active, redraw_requested,
                 drawingvars, invalidated, threadvars, up, rd, abort>>

------------------------------------------------------------------------------
(* The redraw process *)

VisStore == rd.visible \cap rd.store

PrerenderStore == ExpandedBy(rd.visible, Prerender) \cap rd.store

\* init_redraw() falls through from phase p to the first that has bounds.
PhaseFrom(p) ==
  CASE p = 0 /\ VisStore # {} /\ rd.decoupled -> 0
    [] p <= 1 /\ VisStore # {} /\ ~(p = 0 /\ rd.decoupled) -> 1
    [] OTHER -> 2

HasBounds(p) == p < 2 \/ PrerenderStore # {}

BoundsOf(p) == IF p < 2 THEN VisStore ELSE PrerenderStore

\* Phase 0 is for what neither the store nor the snapshot shows, phase 1 for
\* what is visible, phase 2 for the margin around it.
CleanOf(p, u) ==
  CASE p = 0 -> [alias |-> "copy", region |-> u.clean \cup stores.snap]
    [] p = 1 -> NextCleanRegion(u)
    [] p = 2 -> [alias |-> "clean", region |-> {}]

\* coarsen() may fill the gaps of a fragmented region.
Coarsened(region) == {region, Extents(region)}

\* init_redraw() and process_redraw() for the first phase from p that has
\* something to draw; the rectangles to paint are cells.  r is the redraw
\* data and u the updater to start from.
InitRedraw(p, r, u) ==
  LET q == PhaseFrom(p)
      v == IF q = 1 THEN BeginCycle(u) ELSE u
  IN /\ up' = v
     /\ IF HasBounds(q)
        THEN \E rects \in Coarsened(BoundsOf(q) \ Deref(v, CleanOf(q, u))) :
               rd' = [r EXCEPT !.phase = q, !.bounds = BoundsOf(q),
                               !.clean = CleanOf(q, u), !.rects = rects]
        ELSE rd' = [r EXCEPT !.phase = q]

\* Mutant of InitTiler: the number of active threads is not set.
InitTilerUncounted ==
  /\ rd.stage = "tiler"
  /\ InitRedraw(0, [rd EXCEPT !.stage = "run", !.timeoutflag = FALSE], up)
  /\ tpc' = [t \in Threads |-> "loop"]
  /\ UNCHANGED <<viewvars, schedvars, drawingvars, storevars, lock, trect,
                 abort, tiles>>

\* init_tiler().  The time-out flag is only cleared when there is something
\* to draw.
InitTiler ==
  /\ rd.stage = "tiler"
  /\ IF HasBounds(PhaseFrom(0))
     THEN /\ InitRedraw(0, [rd EXCEPT !.stage = "run", !.timeoutflag = FALSE,
                                      !.numactive = Cardinality(Threads)], up)
          /\ tpc' = [t \in Threads |-> "loop"]
     ELSE /\ InitRedraw(0, [rd EXCEPT !.stage = "drained"], up)
          /\ UNCHANGED tpc
  /\ UNCHANGED <<viewvars, schedvars, drawingvars, storevars, lock, trect,
                 abort, tiles>>

mainvars == <<viewvars, schedvars, drawingvars, storevars, abort>>

\* A thread goes round the loop of render_tile(), and holds the mutex.
AtLoop(t) == tpc[t] = "loop" /\ lock \in {NoThread, t}

\* Mutant of Leave: tests for the last thread before it counts itself out.
LeaveOneEarly(t, r) ==
  /\ rd' = [r EXCEPT !.numactive = @ - 1,
                     !.stage = IF r.numactive <= 2 THEN "drained" ELSE @]
  /\ tpc' = [tpc EXCEPT ![t] = "off"]
  /\ lock' = NoThread

\* The thread breaks out of the loop.
Leave(t, r) ==
  /\ rd' = [r EXCEPT !.numactive = @ - 1,
                     !.stage = IF r.numactive = 1 THEN "drained" ELSE @]
  /\ tpc' = [tpc EXCEPT ![t] = "off"]
  /\ lock' = NoThread

\* No rectangle is left, and end_redraw() has another cycle to do.
NextCycle(t) ==
  /\ AtLoop(t)
  /\ rd.rects = {}
  /\ \/ /\ rd.phase = 0
        /\ InitRedraw(1, rd, up)
     \/ /\ rd.phase = 1
        /\ WantsAnotherCycle(up)
        /\ InitRedraw(1, rd, FinishCycle(up))
     \/ /\ rd.phase = 1
        /\ ~WantsAnotherCycle(up)
        /\ HasBounds(2)
        /\ InitRedraw(2, rd, FinishCycle(up))
  /\ lock' = t
  /\ UNCHANGED <<mainvars, tpc, trect, tiles>>

\* No rectangle is left, and no cycle either.
FinishLast(t) ==
  /\ AtLoop(t)
  /\ rd.rects = {}
  /\ \/ /\ rd.phase = 2
        /\ Leave(t, rd)
        /\ UNCHANGED up
     \/ /\ rd.phase = 1
        /\ ~WantsAnotherCycle(up)
        /\ ~HasBounds(2)
        /\ up' = FinishCycle(up)
        /\ Leave(t, [rd EXCEPT !.phase = 2])
  /\ UNCHANGED <<mainvars, trect, tiles>>

\* The test for a soft abort names a phase 3, which does not exist.
MustAbort == abort = "hard" \/ (rd.phase = 3 /\ abort \in {"soft", "hard"})

Abort(t) ==
  /\ AtLoop(t)
  /\ rd.rects # {}
  /\ MustAbort
  /\ Leave(t, rd)
  /\ UNCHANGED <<mainvars, trect, up, tiles>>

\* Discard a rectangle that has become clean meanwhile.
Cull(t, c) ==
  /\ AtLoop(t)
  /\ ~MustAbort
  /\ c \in rd.rects
  /\ c \in Deref(up, rd.clean)
  /\ rd' = [rd EXCEPT !.rects = @ \ {c}]
  /\ lock' = t
  /\ UNCHANGED <<mainvars, tpc, trect, up, tiles>>

\* A cell at the edge of the bounds is extended outwards, within the store.
Extended(c) ==
  LET reach == IF c - 1 \in rd.bounds THEN {c}
               ELSE ((c + 1 - Preempt)..c) \cap rd.store
      left == CHOOSE l \in reach : \A x \in reach : l <= x
      right == IF c + 1 \in rd.bounds THEN c ELSE left + Preempt - 1
  IN (left..right) \cap rd.store

\* Mark a rectangle as clean and, with the mutex released, paint it.
BeginPaint(t, c) ==
  /\ AtLoop(t)
  /\ ~MustAbort
  /\ c \in rd.rects
  /\ c \notin Deref(up, rd.clean)
  /\ rd' = [rd EXCEPT !.rects = @ \ {c}]
  /\ trect' = [trect EXCEPT ![t] = Extended(c)]
  /\ up' = MarkClean(up, Extended(c))
  /\ tpc' = [tpc EXCEPT ![t] = "paint"]
  /\ lock' = NoThread
  /\ UNCHANGED <<mainvars, tiles>>

\* paint_rect() puts the tile on the list of tiles to reap.
EndPaint(t) ==
  /\ tpc[t] = "paint"
  /\ tiles' = tiles \cup trect[t]
  /\ trect' = [trect EXCEPT ![t] = {}]
  /\ tpc' = [tpc EXCEPT ![t] = "painted"]
  /\ UNCHANGED <<mainvars, up, rd, lock>>

\* Once the clock has shown the time limit passed, it always does.
InTime(t) ==
  /\ tpc[t] = "painted"
  /\ lock = NoThread
  /\ ~rd.timeoutflag
  /\ tpc' = [tpc EXCEPT ![t] = "loop"]
  /\ lock' = t
  /\ UNCHANGED <<mainvars, trect, up, rd, tiles>>

TimeOut(t) ==
  /\ tpc[t] = "painted"
  /\ lock = NoThread
  /\ Leave(t, [rd EXCEPT !.timeoutflag = TRUE])
  /\ UNCHANGED <<mainvars, trect, up, tiles>>

SignalExit ==
  /\ rd.stage = "drained"
  /\ rd' = [rd EXCEPT !.stage = "exit", !.rects = {}]
  /\ UNCHANGED <<mainvars, threadvars, up, tiles>>

------------------------------------------------------------------------------
(* The end of a redraw process *)

\* Mutant of StartOver: it forgets what finished_draw() did to the stores.
StartOverIfAsked(action) == rd.timeoutflag \/ redraw_requested \/ log # {}

\* Start over if time ran out, if something was requested meanwhile, which
\* the deferred edits do too, or if the stores changed.
StartOver(action) ==
  rd.timeoutflag \/ redraw_requested \/ log # {} \/ action # "None"

\* after_redraw(): make the deferred edits, commit the tiles before anything
\* is done to the stores they were painted for, and start over or stop.
AfterRedraw ==
  LET drawn == MarkDrawn(stores, tiles)
      result == IF rd.timeoutflag THEN [stores |-> drawn, action |-> "None"]
                ELSE FinishedDraw(drawn, view)
      committed == (shown \ tiles) \cup (tiles \ Stale)
  IN /\ mpc = "loop"
     /\ rd.stage = "exit"
     /\ Unsnapshot
     /\ rd' = [rd EXCEPT !.stage = "none"]
     /\ TilesReaped
     /\ stores' = result.stores
     /\ shown' = ShownAfter(committed, result.action, result.stores)
     /\ invalidated' = InvalidatedAfter(invalidated \cup Repainted,
                                        result.action, result.stores)
     /\ up' = UpdaterAfter(up, result.action, result.stores)
     /\ redraw_requested' = FALSE
     /\ redraw_active' = StartOver(result.action)
     /\ mpc' = IF StartOver(result.action) THEN "launch" ELSE "loop"
     /\ abort' = IF log # {} /\ invalidated = {} THEN "soft" ELSE abort
     /\ UNCHANGED <<active, conn, viewvars, threadvars>>

------------------------------------------------------------------------------
(* Realizing and unrealizing the widget *)

\* on_realize(): activate_graphics() resets the stores, activate() schedules.
Realize ==
  LET start == view.width > 0
  IN /\ UserCall
     /\ ~active
     /\ active' = TRUE
     /\ stores' = ResetStores(stores)
     /\ shown' = {}
     /\ need_update' = TRUE
     /\ redraw_requested' = (redraw_requested \/ start)
     /\ redraw_active' = start
     /\ mpc' = IF start THEN "launch" ELSE "loop"
     /\ UNCHANGED <<conn, view, strategy, items_affine, snapshotted, log,
                    moved, invalidated, threadvars, up, rd, abort, tiles>>

\* on_unrealize(), when no redraw process is in flight.
Unrealize ==
  /\ UserCall
  /\ active
  /\ conn \/ ~redraw_active
  /\ active' = FALSE
  /\ conn' = FALSE
  /\ redraw_active' = FALSE
  /\ redraw_requested' = IF redraw_active THEN FALSE ELSE redraw_requested
  /\ CommitTiles
  /\ UNCHANGED <<mpc, view, strategy, drawingvars, invalidated, threadvars,
                 up, rd, abort>>

\* Otherwise interrupt it and wait for its exit ...
UnrealizeBusy ==
  /\ UserCall
  /\ active
  /\ redraw_active /\ ~conn
  /\ active' = FALSE
  /\ abort' = "hard"
  /\ mpc' = "wait"
  /\ UNCHANGED <<conn, redraw_active, redraw_requested, view, strategy,
                 drawingvars, storevars, threadvars, up, rd, tiles>>

\* ... which is consumed without after_redraw() being called.
UnrealizeDone ==
  /\ mpc = "wait"
  /\ rd.stage = "exit"
  /\ mpc' = "loop"
  /\ rd' = [rd EXCEPT !.stage = "none"]
  /\ redraw_active' = FALSE
  /\ redraw_requested' = FALSE
  /\ Unsnapshot
  /\ CommitTiles
  /\ UNCHANGED <<active, conn, viewvars, invalidated, threadvars, up, abort>>

------------------------------------------------------------------------------
UserNext ==
  \/ \E u \in Units : RequestRedrawArea(u)
  \/ \E e \in Units \X Units : Edit(e)
  \/ \E p \in Positions : SetPos(p)
  \/ \E a \in Affines : SetAffine(a)
  \/ \E v \in Views : SizeAllocate(v)
  \/ \E s \in UsedStrategies : SetStrategy(s)
  \/ RequestRedrawAll \/ Realize \/ Unrealize \/ UnrealizeBusy

MainNext ==
  IdleLaunch \/ Launch \/ PaintCommit \/ AfterRedraw \/ UnrealizeDone

ThreadNext(t) ==
  \/ NextCycle(t) \/ FinishLast(t) \/ Abort(t)
  \/ \E c \in rd.rects : Cull(t, c) \/ BeginPaint(t, c)
  \/ EndPaint(t) \/ InTime(t) \/ TimeOut(t)

Next ==
  \/ UserNext \/ PaintWidget \/ MainNext
  \/ InitTiler \/ SignalExit
  \/ \E t \in Threads : ThreadNext(t)

Spec == Init /\ [][Next]_vars

\* The main loop goes on, and every task of the pool is run.  The signal of
\* the exit has a higher priority in the main loop than painting, so that
\* after_redraw() is not put off for ever.
Fairness ==
  /\ WF_vars(MainNext) /\ SF_vars(AfterRedraw)
  /\ WF_vars(InitTiler) /\ WF_vars(SignalExit)
  /\ \A t \in Threads : WF_vars(ThreadNext(t))

FairSpec == Spec /\ Fairness
------------------------------------------------------------------------------
(* Properties *)

Painting == UNION {trect[t] : t \in Threads}

\* The assertions of canvas.cpp, stores.cpp, drawing.cpp and updaters.cpp at
\* the points of the handlers where they are evaluated: the chain is active
\* when a link of it runs, the items are snapshotted once per process, every
\* tile lies within the store it is committed to and is of the same affine,
\* the process starts without rectangles, and an updater that is told that a
\* cycle is finished had begun one.
AssertionsHold ==
  /\ mpc \in {"launch", "paintlaunch"} => redraw_active /\ ~snapshotted
  /\ rd.stage = "exit" => redraw_active /\ snapshotted /\ ~conn
  /\ tiles \cup Painting \subseteq stores.rect
  /\ rd.stage = "tiler" => rd.rects = {}
  /\ rd.stage = "run" => /\ rd.bounds \subseteq rd.store
                         /\ rd.store = stores.rect
                         /\ items_affine = stores.affine
  /\ rd.stage = "run" /\ rd.phase = 1 /\ up.strategy # "Responsive"
       => up.inprogress
  /\ rd.stage # "none" /\ ~rd.decoupled => stores.mode = "Normal"

\* The main thread drives redrawing by exactly one link at a time: a
\* scheduled launch, a handler that is launching, or a process in flight.
\* redraw_active without any would freeze the canvas, and two would have a
\* process launched over a running one.
OneLinkAtATime ==
  LET links == {l \in {"conn", "launch", "process"} :
                  CASE l = "conn" -> conn /\ mpc \notin {"launch", "paintlaunch"}
                    [] l = "launch" -> mpc \in {"launch", "paintlaunch"}
                    [] l = "process" -> rd.stage # "none"}
  IN IF redraw_active THEN Cardinality(links) = 1 ELSE links = {}

\* What the updater takes for clean, and so will not paint again, is up to
\* date in the store or about to be: a tile with it is being painted or is
\* to be committed, or the edit that outdated it is still to be deferred,
\* to be reported or to be marked dirty.
CleanIsAccounted ==
  active /\ stores.mode # "None"
    => up.clean \subseteq shown \cup tiles \cup Painting \cup Stale

\* No request gets lost between the handlers: an invalidated region or an
\* item that has to be updated always has an iteration coming that will see
\* it, and deferred edits always have a process coming to its end.
InvalidationsAreNotForgotten ==
  /\ active /\ view.width > 0
       /\ (invalidated # {} \/ moved # {} \/ need_update)
       => redraw_active /\ (redraw_requested \/ mpc # "loop")
  /\ log # {} => snapshotted /\ rd.stage # "none"

\* Damage is neither taken for clean nor left without anyone coming for it,
\* wherever an edit falls between the handlers, the threads and the snapshot.
DamageIsNotForgotten == CleanIsAccounted /\ InvalidationsAreNotForgotten

\* When redrawing has stopped, the store is at the affine of the view, and
\* whatever of the visible area and its margin lies in the store is shown as
\* the drawing is now.
IdleMeansCurrent ==
  active /\ ~redraw_active /\ view.width > 0
    => /\ stores.mode = "Normal"
       /\ stores.affine = view.affine
       /\ Coverage(view) \cap stores.rect \subseteq shown

\* While render threads are at work, the main thread leaves alone what they
\* read without a lock: the geometry of the store, the snapshot's region and
\* the items.  It also leaves the updater to them.
RenderInputsAreFrozen ==
  [][rd.stage = "run" =>
       /\ stores'.rect = stores.rect /\ stores'.affine = stores.affine
       /\ stores'.snap = stores.snap
       /\ items_affine' = items_affine /\ moved' = moved
       /\ (up' # up => UNCHANGED mainvars)]_vars

\* The margin is drawn only when the visible part of the store is clean,
\* however the strategies reorder their cycles (the three priorities that
\* init_redraw() comments on).
VisibleFirst ==
  [][rd.stage = "run" /\ rd.phase # 2 /\ rd'.phase = 2
       => VisStore \subseteq up'.clean]_vars

\* Once the user leaves the canvas alone, redrawing stops, however often the
\* render threads run out of time.
Settles == <>[](~redraw_active)

\* The redraw chain is a client of the synchroniser as module RedrawProcess
\* has it, whose render threads never ask the main thread for anything.
Process == INSTANCE RedrawProcess WITH
  process <- CASE rd.stage = "none" -> "none"
               [] rd.stage = "tiler" -> "begun"
               [] rd.stage \in {"run", "drained"} -> "drawing"
               [] rd.stage = "exit" -> "ended",
  client <- [t \in Threads |-> IF tpc[t] = "off" THEN "off" ELSE "drawing"]

ImplementsRedrawProcess == Process!ProcessSpec
=============================================================================
