------------------------- MODULE CanvasRedrawProofs -------------------------
(***************************************************************************)
(* Machine-checked proofs about CanvasRedraw, for any render threads,      *)
(* units, views, margins and number of requests: which link of the redraw  *)
(* chain drives it, that it is a client of the synchroniser, that the      *)
(* assertions hold, and that what the threads read without a lock is left  *)
(* alone.                                                                  *)
(*                                                                         *)
(* The second half shows that damage is neither taken for clean nor        *)
(* forgotten: between an edit and the tile that shows it, the damage is at *)
(* every moment somewhere that the chain will look.  When the chain stops, *)
(* the screen therefore shows the drawing as it is.  The types come last,  *)
(* since that regions stay finite needs the proofs above.                  *)
(***************************************************************************)
EXTENDS CanvasRedraw, FiniteSetTheorems, TLAPS

\* The records that the operators of Stores, Updaters and CanvasRedraw update.
IsStores(s) == s = [k \in {"mode", "affine", "rect", "drawn", "snap"} |-> s[k]]

IsUpdater(u) ==
  u = [k \in {"strategy", "clean", "inprogress", "old", "activated", "counter", "scale", "elapsed",
              "blocked"} |-> u[k]]

IsRedrawData(r) ==
  r = [k \in {"stage", "phase", "visible", "store", "decoupled", "rects", "bounds", "clean",
              "numactive", "timeoutflag"} |-> r[k]]

ViewType == [affine : Affines, pos : Positions, width : Widths \cup {0}]

Modes == {"None", "Normal", "Decoupled"}

\* Rectangles are finite, so that they have extents.
ShapeInv ==
  /\ IsStores(stores) /\ IsUpdater(up) /\ IsRedrawData(rd)
  /\ view \in ViewType
  /\ stores.mode \in Modes
  /\ stores.rect \in SUBSET Int /\ IsFiniteSet(stores.rect)
  /\ rd.phase \in 0..2

Launching == mpc \in {"launch", "paintlaunch"}

\* What drives the chain, and what each position of the main thread excludes.
LinkInv ==
  /\ mpc \in MainStates /\ rd.stage \in Stages
  /\ \A b \in {active, conn, redraw_active, redraw_requested, need_update, snapshotted} :
       b \in BOOLEAN
  /\ rd.stage # "none" => redraw_active /\ ~conn /\ ~Launching
  /\ conn \/ Launching => redraw_active
  /\ redraw_active => conn \/ Launching \/ rd.stage # "none"
  /\ ~active => ~conn /\ mpc \in {"loop", "wait"} /\ (redraw_active => mpc = "wait")
  /\ mpc = "wait" => ~active /\ rd.stage # "none"
  /\ snapshotted <=> rd.stage # "none"

Active == {t \in Threads : tpc[t] # "off"}

\* The count of the threads tells when the process is drained.
CountInv ==
  /\ tpc \in [Threads -> ThreadStates]
  /\ rd.numactive = Cardinality(Active)
  /\ rd.stage = "run" <=> Active # {}

\* What is painted lies in the store for which the process was launched.
StoreInv ==
  /\ trect \in [Threads -> SUBSET stores.rect]
  /\ \A t \in Threads : tpc[t] # "paint" => trect[t] = {}
  /\ tiles \subseteq stores.rect
  /\ rd.stage \in {"none", "tiler"} => tiles = {}
  /\ rd.stage \in {"none", "tiler", "exit"} => rd.rects = {}
  /\ rd.stage # "none" => /\ rd.store = stores.rect
                          /\ items_affine = stores.affine
                          /\ stores.mode = IF rd.decoupled THEN "Decoupled" ELSE "Normal"

\* The cycle that is being drawn.
CycleInv ==
  rd.stage = "run" =>
    /\ rd.bounds \subseteq rd.store
    /\ rd.phase < 2 => VisStore # {}
    /\ rd.phase = 1 => /\ up.strategy # "Responsive" => up.inprogress
                       /\ rd.clean.alias = "clean" => VisStore \subseteq rd.rects \cup up.clean
                       /\ rd.clean.alias # "clean" => WantsAnotherCycle(up)

Inv == ShapeInv /\ LinkInv /\ CountInv /\ StoreInv /\ CycleInv

-----------------------------------------------------------------------------
(* The operators of Stores and Updaters: what they leave alone.            *)

Actions == {"None", "Shifted", "Recreated"}

LEMMA MarkDrawnFacts ==
  ASSUME NEW s, IsStores(s), NEW cells
  PROVE  /\ IsStores(MarkDrawn(s, cells))
         /\ MarkDrawn(s, cells).mode = s.mode /\ MarkDrawn(s, cells).affine = s.affine
         /\ MarkDrawn(s, cells).rect = s.rect /\ MarkDrawn(s, cells).snap = s.snap
BY DEF IsStores, MarkDrawn

LEMMA ResetStoresFacts ==
  ASSUME NEW s, IsStores(s)
  PROVE  /\ IsStores(ResetStores(s)) /\ ResetStores(s).mode = "None"
         /\ ResetStores(s).affine = s.affine /\ ResetStores(s).rect = s.rect
BY DEF IsStores, ResetStores

LEMMA RecreateStoreFacts ==
  ASSUME NEW s, IsStores(s), NEW v
  PROVE  /\ IsStores(RecreateStore(s, v)) /\ RecreateStore(s, v).affine = v.affine
         /\ RecreateStore(s, v).mode = s.mode /\ RecreateStore(s, v).rect = Centered(v)
BY DEF IsStores, RecreateStore

LEMMA TakeSnapshotFacts ==
  ASSUME NEW s, IsStores(s), NEW v
  PROVE  /\ IsStores(TakeSnapshot(s, v)) /\ TakeSnapshot(s, v).affine = v.affine
         /\ TakeSnapshot(s, v).mode = s.mode /\ TakeSnapshot(s, v).rect = Centered(v)
BY RecreateStoreFacts DEF IsStores, TakeSnapshot

LEMMA SetMode ==
  ASSUME NEW s, IsStores(s), NEW m
  PROVE  /\ IsStores([s EXCEPT !.mode = m]) /\ [s EXCEPT !.mode = m].mode = m
         /\ [s EXCEPT !.mode = m].affine = s.affine /\ [s EXCEPT !.mode = m].rect = s.rect
         /\ [s EXCEPT !.mode = m].snap = s.snap
BY DEF IsStores

LEMMA SnapshotCombineFacts ==
  ASSUME NEW s, IsStores(s), NEW v
  PROVE  /\ IsStores(SnapshotCombine(s, v)) /\ SnapshotCombine(s, v).mode = s.mode
         /\ SnapshotCombine(s, v).affine = v.affine /\ SnapshotCombine(s, v).rect = Centered(v)
<1> DEFINE r == [s EXCEPT !.drawn = @ \cup s.snap]
<1>1. IsStores(r) /\ r.mode = s.mode
  BY DEF IsStores
<1> HIDE DEF r
<1>2. /\ IsStores(TakeSnapshot(r, v)) /\ TakeSnapshot(r, v).mode = r.mode
      /\ TakeSnapshot(r, v).affine = v.affine /\ TakeSnapshot(r, v).rect = Centered(v)
  BY <1>1, TakeSnapshotFacts
<1> QED BY <1>1, <1>2 DEF SnapshotCombine, r

\* What update() may do: nothing, shift the store at its affine, or replace it.
LEMMA UpdateStoresFacts ==
  ASSUME NEW s, IsStores(s), s.mode \in Modes, NEW v
  PROVE  LET r == UpdateStores(s, v) IN
         /\ IsStores(r.stores) /\ r.action \in Actions
         /\ r.stores.mode \in {"Normal", "Decoupled"}
         /\ r.stores.mode = "Normal" => r.stores.affine = v.affine
         /\ r.action = "None" => r.stores = s
         /\ r.action = "Shifted" => r.stores.affine = s.affine
         /\ s.mode = "None" => r.action = "Recreated"
         /\ r.action # "None" => r.stores.rect = Centered(v) /\ r.stores.affine = v.affine
<1> DEFINE r == UpdateStores(s, v)
<1>1. CASE s.mode = "None"
  <2> DEFINE q == RecreateStore(s, v)
  <2>1. IsStores(q) /\ q.affine = v.affine /\ q.rect = Centered(v)
    BY RecreateStoreFacts
  <2>2. r = [stores |-> [q EXCEPT !.mode = "Normal"], action |-> "Recreated"]
    BY <1>1 DEF UpdateStores
  <2> HIDE DEF q
  <2>3. LET p == [q EXCEPT !.mode = "Normal"] IN 
        IsStores(p) /\ p.mode = "Normal" /\ p.affine = v.affine /\ p.rect = Centered(v)
    BY <2>1, SetMode
  <2> HIDE DEF r
  <2>4. r.stores = [q EXCEPT !.mode = "Normal"] /\ r.action = "Recreated"
    BY <2>2
  <2> QED BY <1>1, <2>3, <2>4 DEF Actions, r
<1>2. CASE s.mode = "Normal" /\ v.affine # s.affine
  <2> DEFINE q == TakeSnapshot(s, v)
  <2>1. IsStores(q) /\ q.affine = v.affine /\ q.rect = Centered(v)
    BY TakeSnapshotFacts
  <2>2. r = [stores |-> [q EXCEPT !.mode = "Decoupled"], action |-> "Recreated"]
    BY <1>2 DEF UpdateStores
  <2> HIDE DEF q
  <2>3. LET p == [q EXCEPT !.mode = "Decoupled"] IN
        IsStores(p) /\ p.mode = "Decoupled" /\ p.affine = v.affine /\ p.rect = Centered(v)
    BY <2>1, SetMode
  <2> HIDE DEF r
  <2>4. r.stores = [q EXCEPT !.mode = "Decoupled"] /\ r.action = "Recreated"
    BY <2>2
  <2> QED BY <1>2, <2>3, <2>4 DEF Actions, r
<1>3. CASE s.mode = "Normal" /\ v.affine = s.affine /\ ~(Coverage(v) \subseteq s.rect)
  <2>1. r = IF HasReusableContent(s, v)
            THEN [stores |-> ShiftStore(s, v), action |-> "Shifted"]
            ELSE [stores |-> RecreateStore(s, v), action |-> "Recreated"]
    BY <1>3 DEF UpdateStores
  <2>2. IsStores(ShiftStore(s, v)) /\ ShiftStore(s, v).mode = s.mode /\ ShiftStore(s, v).affine = s.affine
        /\ ShiftStore(s, v).rect = Centered(v)
    BY DEF IsStores, ShiftStore
  <2>3. /\ IsStores(RecreateStore(s, v)) /\ RecreateStore(s, v).affine = v.affine
        /\ RecreateStore(s, v).mode = s.mode /\ RecreateStore(s, v).rect = Centered(v)
    BY RecreateStoreFacts
  <2> HIDE DEF r
  <2>4. CASE HasReusableContent(s, v)
    <3>1. r.stores = ShiftStore(s, v) /\ r.action = "Shifted"
      BY <2>1, <2>4
    <3> QED BY <1>3, <2>2, <3>1 DEF Actions, r
  <2>5. CASE ~HasReusableContent(s, v)
    <3>1. r.stores = RecreateStore(s, v) /\ r.action = "Recreated"
      BY <2>1, <2>5
    <3> QED BY <1>3, <2>3, <3>1 DEF Actions, r
  <2> QED BY <2>4, <2>5
<1>4. CASE s.mode = "Decoupled" /\ TooDifferent(s, v)
  <2>1. r = [stores |-> SnapshotCombine(s, v), action |-> "Recreated"]
    BY <1>4 DEF UpdateStores
  <2>2. /\ IsStores(SnapshotCombine(s, v)) /\ SnapshotCombine(s, v).mode = s.mode
        /\ SnapshotCombine(s, v).affine = v.affine /\ SnapshotCombine(s, v).rect = Centered(v)
    BY SnapshotCombineFacts
  <2> HIDE DEF r
  <2>3. r.stores = SnapshotCombine(s, v) /\ r.action = "Recreated"
    BY <2>1
  <2> QED BY <1>4, <2>2, <2>3 DEF Actions, r
<1>5. CASE /\ s.mode # "None"
           /\ ~(s.mode = "Normal" /\ v.affine # s.affine)
           /\ ~(s.mode = "Normal" /\ v.affine = s.affine /\ ~(Coverage(v) \subseteq s.rect))
           /\ ~(s.mode = "Decoupled" /\ TooDifferent(s, v))
  <2>1. r = [stores |-> s, action |-> "None"]
    BY <1>5 DEF UpdateStores
  <2> HIDE DEF r
  <2>2. r.stores = s /\ r.action = "None"
    BY <2>1
  <2> QED BY <1>5, <2>2 DEF Actions, Modes, r
<1> QED BY <1>1, <1>2, <1>3, <1>4, <1>5

\* What finished_draw() may do: nothing but to leave decoupled mode, or to go
\* on at the affine of the view.
LEMMA FinishedDrawFacts ==
  ASSUME NEW s, IsStores(s), NEW v
  PROVE  LET r == FinishedDraw(s, v) IN
         /\ IsStores(r.stores) /\ r.action \in {"None", "Recreated"}
         /\ r.action = "None" => /\ r.stores.rect = s.rect /\ r.stores.affine = s.affine
                                 /\ r.stores.mode = IF s.mode = "Decoupled" THEN "Normal" ELSE s.mode
                                 /\ s.mode = "Decoupled" => s.affine = v.affine
         /\ r.action = "Recreated" => /\ r.stores.mode = "Decoupled" /\ s.mode = "Decoupled"
                                      /\ r.stores.rect = Centered(v) /\ r.stores.affine = v.affine
<1> DEFINE r == FinishedDraw(s, v)
<1>1. CASE s.mode = "Decoupled" /\ s.affine = v.affine
  <2>1. r = [stores |-> [s EXCEPT !.mode = "Normal"], action |-> "None"]
    BY <1>1 DEF FinishedDraw
  <2>2. LET p == [s EXCEPT !.mode = "Normal"] IN
        IsStores(p) /\ p.mode = "Normal" /\ p.affine = s.affine /\ p.rect = s.rect
    BY SetMode
  <2> HIDE DEF r
  <2>3. r.stores = [s EXCEPT !.mode = "Normal"] /\ r.action = "None"
    BY <2>1
  <2> QED BY <1>1, <2>2, <2>3 DEF r
<1>2. CASE s.mode = "Decoupled" /\ s.affine # v.affine
  <2>1. r = [stores |-> TakeSnapshot(s, v), action |-> "Recreated"]
    BY <1>2 DEF FinishedDraw
  <2>2. /\ IsStores(TakeSnapshot(s, v)) /\ TakeSnapshot(s, v).mode = s.mode
        /\ TakeSnapshot(s, v).rect = Centered(v) /\ TakeSnapshot(s, v).affine = v.affine
    BY TakeSnapshotFacts
  <2> HIDE DEF r
  <2>3. r.stores = TakeSnapshot(s, v) /\ r.action = "Recreated"
    BY <2>1
  <2> QED BY <1>2, <2>2, <2>3 DEF r
<1>3. CASE s.mode # "Decoupled"
  <2>1. r = [stores |-> s, action |-> "None"]
    BY <1>3 DEF FinishedDraw
  <2> HIDE DEF r
  <2>2. r.stores = s /\ r.action = "None"
    BY <2>1
  <2> QED BY <1>3, <2>2 DEF r
<1> QED BY <1>1, <1>2, <1>3

LEMMA NewUpdaterFacts ==
  ASSUME NEW s
  PROVE  IsUpdater(NewUpdater(s)) /\ NewUpdater(s).clean = {} /\ NewUpdater(s).strategy = s
BY DEF IsUpdater, NewUpdater

LEMMA SwitchUpdaterFacts ==
  ASSUME NEW u, IsUpdater(u), NEW s
  PROVE  IsUpdater(SwitchUpdater(u, s)) /\ SwitchUpdater(u, s).clean = u.clean
         /\ SwitchUpdater(u, s).strategy = s
<1>1. CASE u.strategy = s
  BY <1>1 DEF SwitchUpdater
<1>2. CASE u.strategy # s
  BY <1>2 DEF SwitchUpdater, NewUpdater, IsUpdater
<1> QED BY <1>1, <1>2

LEMMA ResetUpdaterFacts ==
  ASSUME NEW u, IsUpdater(u)
  PROVE  IsUpdater(ResetUpdater(u)) /\ ResetUpdater(u).clean = {}
         /\ ResetUpdater(u).strategy = u.strategy
BY DEF IsUpdater, ResetUpdater

LEMMA IntersectUpdaterFacts ==
  ASSUME NEW u, IsUpdater(u), NEW rect
  PROVE  IsUpdater(IntersectUpdater(u, rect)) /\ IntersectUpdater(u, rect).clean = u.clean \cap rect
         /\ IntersectUpdater(u, rect).strategy = u.strategy
BY DEF IsUpdater, IntersectUpdater

LEMMA MarkDirtyFacts ==
  ASSUME NEW u, IsUpdater(u), NEW region
  PROVE  IsUpdater(MarkDirty(u, region)) /\ MarkDirty(u, region).clean = u.clean \ region
         /\ MarkDirty(u, region).strategy = u.strategy
<1>1. CASE u.strategy = "FullRedraw" /\ u.inprogress /\ u.old = {}
  BY <1>1 DEF IsUpdater, MarkDirty
<1>2. CASE u.strategy = "Multiscale" /\ u.inprogress /\ ~u.activated
  BY <1>2 DEF IsUpdater, MarkDirty
<1>3. CASE /\ ~(u.strategy = "FullRedraw" /\ u.inprogress /\ u.old = {})
           /\ ~(u.strategy = "Multiscale" /\ u.inprogress /\ ~u.activated)
  BY <1>3 DEF IsUpdater, MarkDirty
<1> QED BY <1>1, <1>2, <1>3

LEMMA NextFrameFacts ==
  ASSUME NEW u, IsUpdater(u)
  PROVE  IsUpdater(NextFrame(u)) /\ NextFrame(u).clean = u.clean
         /\ NextFrame(u).strategy = u.strategy
BY DEF IsUpdater, NextFrame

LEMMA MarkCleanFacts ==
  ASSUME NEW u, IsUpdater(u), NEW rect
  PROVE  /\ IsUpdater(MarkClean(u, rect)) /\ MarkClean(u, rect).clean = u.clean \cup rect
         /\ MarkClean(u, rect).strategy = u.strategy
         /\ MarkClean(u, rect).inprogress = u.inprogress
         /\ WantsAnotherCycle(u) => WantsAnotherCycle(MarkClean(u, rect))
<1> DEFINE v == MarkClean(u, rect)
<1>1. /\ IsUpdater(v) /\ v.clean = u.clean \cup rect
      /\ v.strategy = u.strategy /\ v.inprogress = u.inprogress
  BY DEF IsUpdater, MarkClean
<1>2. v.activated = u.activated
  BY DEF IsUpdater, MarkClean
<1>3. v.old = {r \cup rect : r \in u.old}
  BY DEF IsUpdater, MarkClean
<1> HIDE DEF v
<1>4. u.old # {} => v.old # {}
  BY <1>3
<1>5. WantsAnotherCycle(u) => WantsAnotherCycle(v)
  BY <1>2, <1>4 DEF WantsAnotherCycle
<1> QED BY <1>1, <1>5 DEF v

LEMMA BeginCycleFacts ==
  ASSUME NEW u, IsUpdater(u)
  PROVE  /\ IsUpdater(BeginCycle(u)) /\ BeginCycle(u).clean = u.clean
         /\ BeginCycle(u).strategy = u.strategy
         /\ BeginCycle(u).strategy # "Responsive" => BeginCycle(u).inprogress
         /\ WantsAnotherCycle(u) => WantsAnotherCycle(BeginCycle(u))
<1>1. CASE u.strategy = "Responsive"
  BY <1>1 DEF BeginCycle
<1>2. CASE u.strategy # "Responsive"
  BY <1>2 DEF BeginCycle, IsUpdater, WantsAnotherCycle
<1> QED BY <1>1, <1>2

LEMMA FinishCycleFacts ==
  ASSUME NEW u, IsUpdater(u)
  PROVE  /\ IsUpdater(FinishCycle(u)) /\ FinishCycle(u).clean = u.clean
         /\ FinishCycle(u).strategy = u.strategy
<1>1. CASE u.old # {}
  <2>1. FinishCycle(u) = [u EXCEPT !.old = {}]
    BY <1>1 DEF FinishCycle
  <2>2. IsUpdater([u EXCEPT !.old = {}])
    BY DEF IsUpdater
  <2>3. [u EXCEPT !.old = {}].clean = u.clean /\ [u EXCEPT !.old = {}].strategy = u.strategy
    BY DEF IsUpdater
  <2> QED BY <2>1, <2>2, <2>3
<1>2. CASE u.old = {} /\ u.activated
  BY <1>2 DEF FinishCycle, IsUpdater
<1>3. CASE u.old = {} /\ ~u.activated
  BY <1>3 DEF FinishCycle, IsUpdater
<1> QED BY <1>1, <1>2, <1>3

\* A region that later calls do not add to is one that another cycle replaces.
LEMMA NextCleanRegionFacts ==
  ASSUME NEW u
  PROVE  NextCleanRegion(u).alias # "clean" => WantsAnotherCycle(u)
<1>1. CASE u.old # {} \/ u.activated
  BY <1>1 DEF WantsAnotherCycle
<1>2. CASE u.old = {} /\ ~u.activated
  BY <1>2 DEF NextCleanRegion
<1> QED BY <1>1, <1>2

-----------------------------------------------------------------------------
(* Finite regions.                                                         *)

LEMMA FiniteParts ==
  ASSUME NEW S, IsFiniteSet(S), NEW T, T \subseteq S
  PROVE  IsFiniteSet(T)
BY FS_Subset

\* An induction over finite sets: of the nonempty ones without a least
\* element take one of which no other is a part.
LEMMA LeastCell ==
  ASSUME NEW S \in SUBSET Int, IsFiniteSet(S), S # {}
  PROVE  \E lo \in S : \A c \in S : lo <= c
<1> DEFINE HasLeast(T) == \E lo \in T : \A c \in T : lo <= c
           Bad == {T \in FiniteSubsetsOf(Int) : T # {} /\ ~HasLeast(T)}
<1> SUFFICES ASSUME Bad # {} PROVE FALSE
  <2>1. S \in FiniteSubsetsOf(Int)
    BY DEF FiniteSubsetsOf
  <2> QED BY <2>1
<1>1. PICK T \in Bad : \A U \in Bad : <<U, T>> \notin StrictSubsetOrdering(Int)
  <2>1. Bad \subseteq FiniteSubsetsOf(Int)
    OBVIOUS
  <2> HIDE DEF Bad
  <2> QED BY <2>1, FS_StrictSubsetOrderingWellFounded, WFMin
<1>2. T \in SUBSET Int /\ IsFiniteSet(T) /\ T # {} /\ ~HasLeast(T)
  BY <1>1 DEF FiniteSubsetsOf
<1>3. PICK x \in T : TRUE
  BY <1>2
<1> DEFINE U == T \ {x}
<1>4. CASE U = {}
  <2>1. x <= x /\ \A c \in T : c = x
    BY <1>2, <1>4
  <2> QED BY <1>2, <2>1
<1>5. CASE U # {}
  <2>1. IsFiniteSet(U) /\ U \in SUBSET Int
    BY <1>2, FiniteParts
  <2>2. <<U, T>> \in StrictSubsetOrdering(Int)
    BY <1>2 DEF StrictSubsetOrdering
  <2>3. U \notin Bad
    BY <1>1, <2>2
  <2>4. HasLeast(U)
    BY <1>5, <2>1, <2>3 DEF FiniteSubsetsOf
  <2>5. PICK m \in U : \A c \in U : m <= c
    BY <2>4
  <2>6. CASE x <= m
    <3>1. \A c \in T : x <= c
      BY <1>2, <2>5, <2>6
    <3> QED BY <1>2, <3>1
  <2>7. CASE m <= x
    <3>1. \A c \in T : m <= c
      BY <1>2, <2>5, <2>7
    <3> QED BY <1>2, <2>5, <3>1
  <2> QED BY <1>2, <2>5, <2>6, <2>7
<1> QED BY <1>4, <1>5

LEMMA GreatestCell ==
  ASSUME NEW S \in SUBSET Int, IsFiniteSet(S), S # {}
  PROVE  \E hi \in S : \A c \in S : c <= hi
<1> DEFINE N == {-c : c \in S}
           f == [c \in S |-> -c]
<1>1. N \in SUBSET Int /\ N # {}
  OBVIOUS
<1>2. f \in Surjection(S, N)
  BY DEF Surjection
<1>3. IsFiniteSet(N)
  BY <1>2, FS_Surjection
<1> HIDE DEF f
<1>4. PICK lo \in N : \A c \in N : lo <= c
  <2> HIDE DEF N
  <2> QED BY <1>1, <1>3, LeastCell
<1>5. PICK hi \in S : lo = -hi
  OBVIOUS
<1>6. \A c \in S : -hi <= -c
  BY <1>4, <1>5
<1>7. \A c \in S : c <= hi
  BY <1>6
<1> QED BY <1>7

\* The extents of a region are an interval around it.
LEMMA ExtentsFacts ==
  ASSUME NEW S \in SUBSET Int, IsFiniteSet(S)
  PROVE  /\ S \subseteq Extents(S) /\ Extents(S) \in SUBSET Int
         /\ IsFiniteSet(Extents(S))
<1>1. CASE S = {}
  BY <1>1, FS_EmptySet DEF Extents
<1>2. CASE S # {}
  <2> DEFINE lo == CHOOSE c \in S : \A d \in S : c <= d
             hi == CHOOSE c \in S : \A d \in S : d <= c
  <2>1. lo \in S /\ \A d \in S : lo <= d
    BY <1>2, LeastCell
  <2>2. hi \in S /\ \A d \in S : d <= hi
    BY <1>2, GreatestCell
  <2>3. Extents(S) = lo..hi
    BY <1>2 DEF Extents
  <2> HIDE DEF lo, hi
  <2>4. lo \in Int /\ hi \in Int
    BY <2>1, <2>2
  <2>5. IsFiniteSet(lo..hi)
    BY <2>4, FS_Interval
  <2>6. S \subseteq lo..hi
    BY <2>1, <2>2
  <2> QED BY <2>3, <2>4, <2>5, <2>6
<1> QED BY <1>1, <1>2

\* The union of a finite family of finite regions.
Family(S, f) == UNION {f[c] : c \in S}

LEMMA FiniteFamily ==
  ASSUME NEW S, IsFiniteSet(S), NEW f, DOMAIN f = S, \A c \in S : IsFiniteSet(f[c])
  PROVE  IsFiniteSet(Family(S, f))
<1> DEFINE T == {f[c] : c \in S}
           g == [c \in S |-> f[c]]
<1>1. g \in Surjection(S, T)
  BY DEF Surjection
<1>2. IsFiniteSet(T)
  BY <1>1, FS_Surjection
<1>3. \A U \in T : IsFiniteSet(U)
  OBVIOUS
<1> HIDE DEF T
<1>4. IsFiniteSet(UNION T)
  BY <1>2, <1>3, FS_UNION
<1> QED BY <1>4 DEF T, Family

LEMMA FootprintFacts ==
  ASSUME NEW U \in SUBSET Int, IsFiniteSet(U), NEW a \in Nat
  PROVE  Footprint(U, a) \in SUBSET Int /\ IsFiniteSet(Footprint(U, a))
<1> DEFINE f == [u \in U |-> (u * a)..(u * a + a - 1)]
<1>1. \A u \in U : u * a \in Int /\ u * a + a - 1 \in Int
  OBVIOUS
<1>2. \A u \in U : IsFiniteSet(f[u]) /\ f[u] \subseteq Int
  BY <1>1, FS_Interval
<1>3. Footprint(U, a) = Family(U, f)
  BY DEF Footprint, Family
<1>4. DOMAIN f = U
  OBVIOUS
<1> HIDE DEF f
<1>5. IsFiniteSet(Family(U, f))
  BY <1>2, <1>4, FiniteFamily
<1>6. Family(U, f) \subseteq Int
  BY <1>2 DEF Family
<1> QED BY <1>3, <1>5, <1>6

LEMMA FootprintUnion ==
  ASSUME NEW U, NEW V, NEW a
  PROVE  Footprint(U \cup V, a) = Footprint(U, a) \cup Footprint(V, a)
BY DEF Footprint

LEMMA ExpandedFacts ==
  ASSUME NEW R \in SUBSET Int, IsFiniteSet(R), NEW m \in Nat
  PROVE  /\ ExpandedBy(R, m) \in SUBSET Int /\ IsFiniteSet(ExpandedBy(R, m))
         /\ R \subseteq ExpandedBy(R, m)
<1> DEFINE f == [c \in R |-> (c - m)..(c + m)]
<1>1. \A c \in R : IsFiniteSet(f[c]) /\ f[c] \subseteq Int /\ c \in f[c]
  BY FS_Interval
<1>2. ExpandedBy(R, m) = Family(R, f)
  BY DEF ExpandedBy, Family
<1>3. DOMAIN f = R
  OBVIOUS
<1> HIDE DEF f
<1>4. IsFiniteSet(Family(R, f))
  BY <1>1, <1>3, FiniteFamily
<1> QED BY <1>1, <1>2, <1>4 DEF Family

LEMMA OutwardsFacts ==
  ASSUME NEW R \in SUBSET Int, IsFiniteSet(R), NEW from \in Nat \ {0}, NEW to \in Nat
  PROVE  Outwards(R, from, to) \in SUBSET Int /\ IsFiniteSet(Outwards(R, from, to))
<1> DEFINE f == [c \in R |-> Touched(c, c + 1, 1, from, to)]
<1>1. \A c \in R : IsFiniteSet(f[c]) /\ f[c] \subseteq Int
  <2> SUFFICES ASSUME NEW c \in R PROVE IsFiniteSet(f[c]) /\ f[c] \subseteq Int
    OBVIOUS
  <2> DEFINE lo == (c * to) \div (1 * from)
             hi == CeilDiv((c + 1) * to, 1 * from) - 1
  <2>1. c * to \in Int /\ (c + 1) * to \in Int /\ 1 * from \in Nat \ {0}
    OBVIOUS
  <2>2. lo \in Int
    BY <2>1
  <2>3. hi \in Int
    BY <2>1 DEF CeilDiv
  <2>4. f[c] = lo..hi
    BY DEF Touched
  <2> HIDE DEF lo, hi
  <2>5. IsFiniteSet(lo..hi)
    BY <2>2, <2>3, FS_Interval
  <2>6. lo..hi \subseteq Int
    BY <2>2, <2>3
  <2> HIDE DEF f
  <2> QED BY <2>4, <2>5, <2>6
<1>2. Outwards(R, from, to) = Family(R, f)
  BY DEF Outwards, Family
<1>3. DOMAIN f = R
  OBVIOUS
<1> HIDE DEF f
<1>4. IsFiniteSet(Family(R, f))
  BY <1>1, <1>3, FiniteFamily
<1> QED BY <1>1, <1>2, <1>4 DEF Family

LEMMA ViewFacts ==
  ASSUME NEW v \in ViewType
  PROVE  /\ v.affine \in Nat \ {0} /\ v.affine \in Affines /\ v.pos \in Int /\ v.width \in Nat
         /\ Area(v) \in SUBSET Int /\ IsFiniteSet(Area(v))
         /\ Centered(v) \in SUBSET Int /\ IsFiniteSet(Centered(v))
<1>1. v.affine \in Affines /\ v.pos \in Positions /\ v.width \in Widths \cup {0}
  BY DEF ViewType
<1>2. v.affine \in Nat \ {0} /\ v.pos \in Int /\ v.width \in Nat
  <2>1. v.affine \in Nat \ {0}
    BY <1>1, ViewAssumption
  <2>2. v.pos \in Int
    BY <1>1, ViewAssumption
  <2>3. v.width \in Nat
    <3>1. \A w \in Widths : w \in Nat
      BY ViewAssumption
    <3> QED BY <1>1, <3>1
  <2> QED BY <2>1, <2>2, <2>3
<1>3. Area(v) \in SUBSET Int /\ IsFiniteSet(Area(v))
  BY <1>2, FS_Interval DEF Area
<1>4. Prerender + Padding \in Nat
  BY MarginsAssumption
<1>5. Centered(v) \in SUBSET Int /\ IsFiniteSet(Centered(v))
  BY <1>3, <1>4, ExpandedFacts DEF Centered
<1> QED BY <1>1, <1>2, <1>3, <1>5

-----------------------------------------------------------------------------
(* A cycle of the redraw process.                                          *)

LEMMA PhaseFromFacts ==
  ASSUME NEW p \in 0..2
  PROVE  /\ PhaseFrom(p) \in 0..2
         /\ PhaseFrom(p) < 2 => VisStore # {}
         /\ PhaseFrom(p) = 0 => p = 0
         /\ p = 1 /\ VisStore # {} => PhaseFrom(p) = 1
         /\ p = 2 => PhaseFrom(p) = 2
<1>1. CASE p = 0 /\ VisStore # {} /\ rd.decoupled
  BY <1>1 DEF PhaseFrom
<1>2. CASE p <= 1 /\ VisStore # {} /\ ~(p = 0 /\ rd.decoupled)
  BY <1>2 DEF PhaseFrom
<1>3. CASE ~(p = 0 /\ VisStore # {} /\ rd.decoupled) /\ ~(p <= 1 /\ VisStore # {} /\ ~(p = 0 /\ rd.decoupled))
  BY <1>3 DEF PhaseFrom
<1> QED BY <1>1, <1>2, <1>3

\* What init_redraw() and process_redraw() set up, when r is the redraw data
\* but for its stage, its count and its time-out flag.
LEMMA InitRedrawFacts ==
  ASSUME NEW p \in 0..2, NEW r, IsRedrawData(r), NEW u, IsUpdater(u), InitRedraw(p, r, u),
         rd.store \in SUBSET Int, IsFiniteSet(rd.store)
  PROVE  LET q == PhaseFrom(p) IN
         /\ IsUpdater(up') /\ up'.clean = u.clean /\ up'.strategy = u.strategy
         /\ IsRedrawData(rd') /\ rd'.stage = r.stage /\ rd'.visible = r.visible
         /\ rd'.store = r.store /\ rd'.decoupled = r.decoupled
         /\ rd'.numactive = r.numactive /\ rd'.timeoutflag = r.timeoutflag
         /\ rd'.phase = q
         /\ q = 1 => /\ up'.strategy # "Responsive" => up'.inprogress
                     /\ rd'.clean.alias = "clean" => VisStore \subseteq rd'.rects \cup up'.clean
                     /\ rd'.clean.alias # "clean" => WantsAnotherCycle(up')
         /\ q = 2 /\ HasBounds(2) => /\ rd'.clean.alias = "clean"
                                     /\ PrerenderStore \subseteq rd'.rects \cup up'.clean
         /\ HasBounds(q) => /\ rd'.bounds = BoundsOf(q)
                            /\ rd'.rects \in SUBSET Int /\ IsFiniteSet(rd'.rects)
         /\ ~HasBounds(q) => rd'.rects = r.rects /\ rd'.bounds = r.bounds
<1> DEFINE q == PhaseFrom(p)
           v == IF q = 1 THEN BeginCycle(u) ELSE u
           c == CleanOf(q, u)
           todo == BoundsOf(q) \ Deref(v, c)
<1>1. /\ up' = v
      /\ HasBounds(q) => \E rects \in Coarsened(todo) :
           rd' = [r EXCEPT !.phase = q, !.bounds = BoundsOf(q), !.clean = c, !.rects = rects]
      /\ ~HasBounds(q) => rd' = [r EXCEPT !.phase = q]
  BY DEF InitRedraw
<1>2. q \in 0..2
  BY PhaseFromFacts
<1>3. /\ IsUpdater(v) /\ v.clean = u.clean /\ v.strategy = u.strategy
      /\ q = 1 => /\ v.strategy # "Responsive" => v.inprogress
                  /\ WantsAnotherCycle(u) => WantsAnotherCycle(v)
  BY BeginCycleFacts
<1>4. todo \in SUBSET Int /\ IsFiniteSet(todo)
  <2>1. todo \subseteq rd.store
    BY DEF BoundsOf, VisStore, PrerenderStore
  <2> HIDE DEF todo
  <2> QED BY <2>1, FiniteParts
<1>5. c.alias = "clean" => Deref(v, c) = v.clean
  BY DEF Deref
<1>6. /\ q = 1 => (c.alias # "clean" => WantsAnotherCycle(u)) /\ BoundsOf(q) = VisStore
      /\ q = 2 => c.alias = "clean" /\ BoundsOf(q) = PrerenderStore
  <2>1. q = 1 => c = NextCleanRegion(u) /\ BoundsOf(q) = VisStore
    BY DEF CleanOf, BoundsOf
  <2>2. q = 2 => c = [alias |-> "clean", region |-> {}] /\ BoundsOf(q) = PrerenderStore
    BY DEF CleanOf, BoundsOf
  <2> HIDE DEF c, q
  <2>3. q = 2 => c.alias = "clean"
    BY <2>2
  <2> QED BY <2>1, <2>2, <2>3, NextCleanRegionFacts
<1>7. \A rects \in Coarsened(todo) : todo \subseteq rects /\ rects \in SUBSET Int /\ IsFiniteSet(rects)
  <2> HIDE DEF todo
  <2>1. todo \subseteq Extents(todo) /\ Extents(todo) \in SUBSET Int /\ IsFiniteSet(Extents(todo))
    BY <1>4, ExtentsFacts
  <2> QED BY <1>4, <2>1 DEF Coarsened
<1> HIDE DEF q, v, c
<1>8. CASE HasBounds(q)
  <2>1. PICK rects \in Coarsened(todo) :
          rd' = [r EXCEPT !.phase = q, !.bounds = BoundsOf(q), !.clean = c, !.rects = rects]
    BY <1>1, <1>8
  <2>2. IsRedrawData(rd')
    BY <2>1 DEF IsRedrawData
  <2>3. /\ rd'.stage = r.stage /\ rd'.visible = r.visible /\ rd'.store = r.store
        /\ rd'.decoupled = r.decoupled /\ rd'.numactive = r.numactive
        /\ rd'.timeoutflag = r.timeoutflag
    BY <2>1 DEF IsRedrawData
  <2>4. rd'.phase = q /\ rd'.bounds = BoundsOf(q) /\ rd'.clean = c /\ rd'.rects = rects
    BY <2>1 DEF IsRedrawData
  <2>5. todo \subseteq rd'.rects /\ rd'.rects \in SUBSET Int /\ IsFiniteSet(rd'.rects)
    BY <1>7, <2>4
  <2>6. BoundsOf(q) \subseteq rd'.rects \cup Deref(v, c)
    BY <2>5
  <2>7. q = 1 => /\ up'.strategy # "Responsive" => up'.inprogress
                 /\ rd'.clean.alias = "clean" => VisStore \subseteq rd'.rects \cup up'.clean
                 /\ rd'.clean.alias # "clean" => WantsAnotherCycle(up')
    BY <1>1, <1>3, <1>5, <1>6, <2>4, <2>6
  <2>8. q = 2 => rd'.clean.alias = "clean" /\ PrerenderStore \subseteq rd'.rects \cup up'.clean
    BY <1>1, <1>3, <1>5, <1>6, <2>4, <2>6
  <2> HIDE DEF todo
  <2> QED BY <1>1, <1>3, <1>8, <2>2, <2>3, <2>4, <2>5, <2>7, <2>8 DEF q
<1>9. CASE ~HasBounds(q)
  <2>1. rd' = [r EXCEPT !.phase = q]
    BY <1>1, <1>9
  <2>2. IsRedrawData(rd') /\ rd'.phase = q /\ rd'.rects = r.rects /\ rd'.bounds = r.bounds
    BY <2>1 DEF IsRedrawData
  <2>3. /\ rd'.stage = r.stage /\ rd'.visible = r.visible /\ rd'.store = r.store
        /\ rd'.decoupled = r.decoupled /\ rd'.numactive = r.numactive
        /\ rd'.timeoutflag = r.timeoutflag
    BY <2>1 DEF IsRedrawData
  <2>4. q = 2
    BY <1>2, <1>9 DEF HasBounds
  <2>5. ~HasBounds(2) /\ q # 1
    BY <1>9, <2>4
  <2> HIDE DEF todo
  <2> QED BY <1>1, <1>3, <1>9, <2>2, <2>3, <2>4, <2>5 DEF q
<1> QED BY <1>8, <1>9

-----------------------------------------------------------------------------
(* The user's calls, and what else the main thread does between the links. *)

\* What does not touch the process keeps the invariant if it keeps the links.
LEMMA Frame ==
  ASSUME Inv, LinkInv', UNCHANGED <<rd, up, tpc, trect, items_affine>>,
         view' \in ViewType, IsStores(stores'), stores'.mode \in Modes,
         stores'.rect = stores.rect, stores'.affine = stores.affine,
         rd.stage # "none" => stores'.mode = stores.mode,
         tiles' \subseteq tiles
  PROVE  Inv'
<1>1. ShapeInv'
  BY DEF Inv, ShapeInv
<1>2. CountInv'
  BY DEF Inv, CountInv, Active
<1>3. StoreInv'
  BY DEF Inv, StoreInv
<1>4. CycleInv'
  BY DEF Inv, CycleInv, VisStore, WantsAnotherCycle
<1> QED BY <1>1, <1>2, <1>3, <1>4 DEF Inv

\* schedule_redraw() makes for a link if there is none, and replaces a
\* connection by a launch.
LEMMA ScheduleLinks ==
  ASSUME LinkInv, mpc = "loop", NEW w, NEW instant \in BOOLEAN, ScheduleRedraw(w, instant),
         need_update' \in BOOLEAN, UNCHANGED <<active, rd, snapshotted>>
  PROVE  LinkInv'
<1> DEFINE start == CanSchedule(w) /\ (~redraw_active \/ (conn /\ instant))
<1>1. /\ redraw_requested' = (redraw_requested \/ CanSchedule(w))
      /\ redraw_active' = (redraw_active \/ start)
      /\ conn' = IF start THEN ~instant ELSE conn
      /\ mpc' = IF start /\ instant THEN "launch" ELSE mpc
  BY DEF ScheduleRedraw
<1>2. start => active
  BY DEF CanSchedule
<1>3. CASE ~start
  <2>1. redraw_active' = redraw_active /\ conn' = conn /\ mpc' = mpc
    BY <1>1, <1>3 DEF LinkInv
  <2>2. redraw_requested' \in BOOLEAN
    BY <1>1
  <2> HIDE DEF start
  <2> QED BY <2>1, <2>2 DEF LinkInv, Launching
<1>4. CASE start
  <2>1. redraw_active' = TRUE /\ active = TRUE /\ conn' = ~instant
    BY <1>1, <1>2, <1>4 DEF LinkInv
  <2>2. rd.stage = "none"
    BY <1>4 DEF LinkInv
  <2>3. redraw_requested' \in BOOLEAN
    BY <1>1
  <2>4. CASE instant
    <3>1. mpc' = "launch" /\ conn' = FALSE
      BY <1>1, <1>4, <2>1, <2>4
    <3> QED BY <2>1, <2>2, <2>3, <3>1 DEF LinkInv, Launching, MainStates
  <2>5. CASE ~instant
    <3>1. mpc' = "loop" /\ conn' = TRUE
      BY <1>1, <1>4, <2>1, <2>5
    <3> QED BY <2>1, <2>2, <2>3, <3>1 DEF LinkInv, Launching, MainStates
  <2> QED BY <2>4, <2>5
<1> QED BY <1>3, <1>4

\* The user's calls other than those that realize the widget or not.
Request ==
  \/ \E u \in Units : RequestRedrawArea(u)
  \/ \E e \in Units \X Units : Edit(e)
  \/ \E p \in Positions : SetPos(p)
  \/ \E a \in Affines : SetAffine(a)
  \/ \E v \in Views : SizeAllocate(v)
  \/ \E s \in UsedStrategies : SetStrategy(s)
  \/ RequestRedrawAll

LEMMA ViewChanges ==
  ASSUME NEW v \in ViewType
  PROVE  /\ \A p \in Positions : [v EXCEPT !.pos = p] \in ViewType
         /\ \A a \in Affines : [v EXCEPT !.affine = a] \in ViewType
         /\ Views \subseteq ViewType
BY DEF ViewType, Views

LEMMA RequestFrame ==
  ASSUME Inv, Request
  PROVE  /\ mpc = "loop" /\ view' \in ViewType
         /\ UNCHANGED <<rd, up, tpc, trect, tiles, lock, items_affine, stores, snapshotted, active>>
         /\ LinkInv'
<1> USE DEF UserCall, viewvars, schedvars, drawingvars, storevars, threadvars
<1>1. LinkInv /\ view \in ViewType
  BY DEF Inv, ShapeInv
<1>2. ASSUME NEW u \in Units, RequestRedrawArea(u)
      PROVE  /\ mpc = "loop" /\ view' \in ViewType
             /\ UNCHANGED <<rd, up, tpc, trect, tiles, lock, items_affine, stores, snapshotted, active>>
             /\ LinkInv'
  <2>1. /\ mpc = "loop" /\ ScheduleRedraw(view.width, FALSE)
        /\ UNCHANGED <<rd, up, tpc, trect, tiles, lock, items_affine, stores, snapshotted, active, view>>
        /\ need_update' \in BOOLEAN
    BY <1>1, <1>2 DEF RequestRedrawArea, RedrawArea, LinkInv
  <2> QED BY <1>1, <2>1, ScheduleLinks
<1>3. ASSUME NEW e \in Units \X Units, Edit(e)
      PROVE  /\ mpc = "loop" /\ view' \in ViewType
             /\ UNCHANGED <<rd, up, tpc, trect, tiles, lock, items_affine, stores, snapshotted, active>>
             /\ LinkInv'
  <2>1. /\ mpc = "loop"
        /\ UNCHANGED <<rd, up, tpc, trect, tiles, lock, items_affine, stores, snapshotted, active, view>>
    BY <1>3 DEF Edit
  <2>2. CASE snapshotted
    <3>1. UNCHANGED <<need_update, redraw_requested, redraw_active, conn, mpc>>
      BY <1>3, <2>2 DEF Edit
    <3>2. LinkInv'
      BY <1>1, <2>1, <3>1 DEF LinkInv, Launching
    <3> QED BY <1>1, <2>1, <3>2
  <2>3. CASE ~snapshotted
    <3>1. ScheduleRedraw(view.width, FALSE) /\ need_update' = (need_update \/ e[1] # e[2])
      BY <1>3, <2>3 DEF Edit, RedrawArea
    <3>2. need_update' \in BOOLEAN
      BY <3>1
    <3>3. LinkInv'
      BY <1>1, <2>1, <3>1, <3>2, ScheduleLinks
    <3> QED BY <1>1, <2>1, <3>3
  <2> QED BY <2>2, <2>3
<1>4. ASSUME NEW p \in Positions, SetPos(p)
      PROVE  /\ mpc = "loop" /\ view' \in ViewType
             /\ UNCHANGED <<rd, up, tpc, trect, tiles, lock, items_affine, stores, snapshotted, active>>
             /\ LinkInv'
  <2>1. /\ mpc = "loop" /\ ScheduleRedraw(view.width, FALSE) /\ view' = [view EXCEPT !.pos = p]
        /\ UNCHANGED <<rd, up, tpc, trect, tiles, lock, items_affine, stores, snapshotted, active>>
        /\ need_update' \in BOOLEAN
    BY <1>1, <1>4 DEF SetPos, LinkInv
  <2>2. view' \in ViewType
    BY <1>1, <2>1, ViewChanges
  <2> QED BY <1>1, <2>1, <2>2, ScheduleLinks
<1>5. ASSUME NEW a \in Affines, SetAffine(a)
      PROVE  /\ mpc = "loop" /\ view' \in ViewType
             /\ UNCHANGED <<rd, up, tpc, trect, tiles, lock, items_affine, stores, snapshotted, active>>
             /\ LinkInv'
  <2>1. /\ mpc = "loop" /\ ScheduleRedraw(view.width, FALSE) /\ view' = [view EXCEPT !.affine = a]
        /\ UNCHANGED <<rd, up, tpc, trect, tiles, lock, items_affine, stores, snapshotted, active>>
        /\ need_update' \in BOOLEAN
    BY <1>1, <1>5 DEF SetAffine, LinkInv
  <2>2. view' \in ViewType
    BY <1>1, <2>1, ViewChanges
  <2> QED BY <1>1, <2>1, <2>2, ScheduleLinks
<1>6. ASSUME NEW v \in Views, SizeAllocate(v)
      PROVE  /\ mpc = "loop" /\ view' \in ViewType
             /\ UNCHANGED <<rd, up, tpc, trect, tiles, lock, items_affine, stores, snapshotted, active>>
             /\ LinkInv'
  <2>1. /\ mpc = "loop" /\ ScheduleRedraw(v.width, TRUE) /\ view' = v
        /\ UNCHANGED <<rd, up, tpc, trect, tiles, lock, items_affine, stores, snapshotted, active>>
        /\ need_update' \in BOOLEAN
    BY <1>1, <1>6 DEF SizeAllocate, LinkInv
  <2>2. view' \in ViewType
    BY <1>1, <2>1, ViewChanges
  <2> QED BY <1>1, <2>1, <2>2, ScheduleLinks
<1>7. ASSUME NEW s \in UsedStrategies, SetStrategy(s)
      PROVE  /\ mpc = "loop" /\ view' \in ViewType
             /\ UNCHANGED <<rd, up, tpc, trect, tiles, lock, items_affine, stores, snapshotted, active>>
             /\ LinkInv'
  <2>1. /\ mpc = "loop"
        /\ UNCHANGED <<rd, up, tpc, trect, tiles, lock, items_affine, stores, snapshotted, active, view,
                       conn, redraw_active, redraw_requested, need_update, mpc>>
    BY <1>7 DEF SetStrategy
  <2>2. LinkInv'
    BY <1>1, <2>1 DEF LinkInv, Launching
  <2> QED BY <1>1, <2>1, <2>2
<1>8. ASSUME RequestRedrawAll
      PROVE  /\ mpc = "loop" /\ view' \in ViewType
             /\ UNCHANGED <<rd, up, tpc, trect, tiles, lock, items_affine, stores, snapshotted, active>>
             /\ LinkInv'
  <2>1. /\ mpc = "loop" /\ ScheduleRedraw(view.width, FALSE)
        /\ UNCHANGED <<rd, up, tpc, trect, tiles, lock, items_affine, stores, snapshotted, active, view>>
        /\ need_update' \in BOOLEAN
    BY <1>1, <1>8 DEF RequestRedrawAll, LinkInv
  <2> QED BY <1>1, <2>1, ScheduleLinks
<1> HIDE DEF UserCall, viewvars, schedvars, drawingvars, storevars, threadvars
<1> QED BY <1>2, <1>3, <1>4, <1>5, <1>6, <1>7, <1>8 DEF Request

LEMMA RequestInv ==
  ASSUME Inv, Request
  PROVE  Inv'
<1>1. /\ view' \in ViewType /\ LinkInv'
      /\ UNCHANGED <<rd, up, tpc, trect, tiles, items_affine, stores>>
  BY RequestFrame
<1>2. IsStores(stores') /\ stores'.mode \in Modes
  BY <1>1 DEF Inv, ShapeInv
<1> QED BY <1>1, <1>2, Frame

LEMMA CommitFacts ==
  ASSUME Inv, CommitTiles
  PROVE  /\ IsStores(stores') /\ stores'.mode = stores.mode /\ stores'.affine = stores.affine
         /\ stores'.rect = stores.rect /\ stores'.snap = stores.snap /\ stores'.mode \in Modes
         /\ tiles' = {}
BY MarkDrawnFacts DEF CommitTiles, TilesReaped, Inv, ShapeInv

\* The steps of the main thread that leave the process alone.
Aside == IdleLaunch \/ PaintWidget \/ PaintCommit \/ Realize \/ Unrealize \/ UnrealizeBusy

LEMMA AsideFrame ==
  ASSUME Inv, Aside
  PROVE  /\ LinkInv' /\ UNCHANGED <<rd, up, tpc, trect, lock, items_affine, view>>
         /\ IsStores(stores') /\ stores'.mode \in Modes
         /\ stores'.rect = stores.rect /\ stores'.affine = stores.affine
         /\ rd.stage # "none" => stores'.mode = stores.mode /\ stores'.snap = stores.snap
         /\ tiles' \subseteq tiles
         /\ snapshotted' = snapshotted
<1> USE DEF UserCall, viewvars, schedvars, drawingvars, storevars, threadvars
<1> DEFINE P == /\ LinkInv' /\ UNCHANGED <<rd, up, tpc, trect, lock, items_affine, view>>
                /\ IsStores(stores') /\ stores'.mode \in Modes
                /\ stores'.rect = stores.rect /\ stores'.affine = stores.affine
                /\ rd.stage # "none" => stores'.mode = stores.mode /\ stores'.snap = stores.snap
                /\ tiles' \subseteq tiles
                /\ snapshotted' = snapshotted
<1>1. LinkInv /\ IsStores(stores) /\ stores.mode \in Modes
  BY DEF Inv, ShapeInv
<1>2. CASE IdleLaunch
  <2>1. /\ mpc = "loop" /\ conn /\ mpc' = "launch"
        /\ UNCHANGED <<rd, up, tpc, trect, lock, items_affine, view, stores, tiles, snapshotted,
                       active, conn, redraw_active, redraw_requested, need_update>>
    BY <1>2 DEF IdleLaunch
  <2>2. LinkInv'
    BY <1>1, <2>1 DEF LinkInv, Launching, MainStates
  <2> QED BY <1>1, <2>1, <2>2
<1>3. CASE PaintWidget
  <2>1. /\ mpc = "loop" /\ active /\ mpc' = IF conn THEN "paintlaunch" ELSE "paint"
        /\ UNCHANGED <<rd, up, tpc, trect, lock, items_affine, view, stores, tiles, snapshotted,
                       active, conn, redraw_active, redraw_requested, need_update>>
    BY <1>3 DEF PaintWidget
  <2>2. LinkInv'
    BY <1>1, <2>1 DEF LinkInv, Launching, MainStates
  <2> QED BY <1>1, <2>1, <2>2
<1>4. CASE PaintCommit
  <2>1. /\ mpc = "paint" /\ mpc' = "loop" /\ CommitTiles
        /\ UNCHANGED <<rd, up, tpc, trect, lock, items_affine, view, snapshotted,
                       active, conn, redraw_active, redraw_requested, need_update>>
    BY <1>4 DEF PaintCommit
  <2>2. LinkInv'
    BY <1>1, <2>1 DEF LinkInv, Launching, MainStates
  <2> QED BY <1>1, <2>1, <2>2, CommitFacts
<1>5. CASE Realize
  <2>1. /\ mpc = "loop" /\ ~active /\ active' = TRUE /\ stores' = ResetStores(stores)
        /\ need_update' = TRUE
        /\ redraw_requested' = (redraw_requested \/ view.width > 0)
        /\ redraw_active' = (view.width > 0)
        /\ mpc' = IF view.width > 0 THEN "launch" ELSE "loop"
        /\ UNCHANGED <<rd, up, tpc, trect, lock, items_affine, view, tiles, snapshotted, conn>>
    BY <1>5 DEF Realize
  <2>2. rd.stage = "none" /\ conn = FALSE /\ redraw_active = FALSE /\ snapshotted = FALSE
    BY <1>1, <2>1 DEF LinkInv
  <2>3. CASE view.width > 0
    <3>1. redraw_active' = TRUE /\ mpc' = "launch" /\ redraw_requested' = TRUE
      BY <2>1, <2>3
    <3>2. LinkInv'
      BY <1>1, <2>1, <2>2, <3>1 DEF LinkInv, Launching, MainStates
    <3> QED BY <1>1, <2>1, <2>2, <3>2, ResetStoresFacts DEF Modes
  <2>4. CASE ~(view.width > 0)
    <3>1. redraw_active' = FALSE /\ mpc' = "loop" /\ redraw_requested' \in BOOLEAN
      <4>1. redraw_requested' \in BOOLEAN
        BY <2>1
      <4>2. redraw_active' = FALSE
        <5> DEFINE b == view.width > 0
        <5>1. redraw_active' = b /\ b \in BOOLEAN /\ ~b
          BY <2>1, <2>4
        <5> HIDE DEF b
        <5> QED BY <5>1
      <4>3. mpc' = "loop"
        BY <2>1, <2>4
      <4> QED BY <4>1, <4>2, <4>3
    <3>2. LinkInv'
      BY <1>1, <2>1, <2>2, <3>1 DEF LinkInv, Launching, MainStates
    <3> QED BY <1>1, <2>1, <2>2, <3>2, ResetStoresFacts DEF Modes
  <2> QED BY <2>3, <2>4
<1>6. CASE Unrealize
  <2>1. /\ mpc = "loop" /\ active /\ (conn \/ ~redraw_active)
        /\ active' = FALSE /\ conn' = FALSE /\ redraw_active' = FALSE
        /\ redraw_requested' = IF redraw_active THEN FALSE ELSE redraw_requested
        /\ CommitTiles
        /\ UNCHANGED <<rd, up, tpc, trect, lock, items_affine, view, snapshotted, mpc, need_update>>
    BY <1>6 DEF Unrealize
  <2>2. rd.stage = "none" /\ redraw_requested' \in BOOLEAN
    BY <1>1, <2>1 DEF LinkInv
  <2>3. LinkInv'
    BY <1>1, <2>1, <2>2 DEF LinkInv, Launching, MainStates
  <2> QED BY <1>1, <2>1, <2>3, CommitFacts
<1>7. CASE UnrealizeBusy
  <2>1. /\ mpc = "loop" /\ active /\ redraw_active /\ ~conn /\ active' = FALSE /\ mpc' = "wait"
        /\ UNCHANGED <<rd, up, tpc, trect, lock, items_affine, view, stores, tiles, snapshotted,
                       conn, redraw_active, redraw_requested, need_update>>
    BY <1>7 DEF UnrealizeBusy
  <2>2. rd.stage # "none"
    BY <1>1, <2>1 DEF LinkInv, Launching
  <2>3. LinkInv'
    BY <1>1, <2>1, <2>2 DEF LinkInv, Launching, MainStates
  <2> QED BY <1>1, <2>1, <2>3
<1> HIDE DEF UserCall, viewvars, schedvars, drawingvars, storevars, threadvars
<1> QED BY <1>2, <1>3, <1>4, <1>5, <1>6, <1>7 DEF Aside

LEMMA AsideInv ==
  ASSUME Inv, Aside
  PROVE  Inv'
<1>1. view' \in ViewType
  BY AsideFrame DEF Inv, ShapeInv
<1> QED BY <1>1, AsideFrame, Frame

-----------------------------------------------------------------------------
(* The beginning and the end of a process.                                 *)

LEMMA ThreadsOff ==
  ASSUME Inv, rd.stage # "run"
  PROVE  Active = {} /\ rd.numactive = 0 /\ \A t \in Threads : tpc[t] = "off" /\ trect[t] = {}
<1>1. Active = {}
  BY DEF Inv, CountInv
<1>2. rd.numactive = 0
  BY <1>1, FS_EmptySet DEF Inv, CountInv
<1>3. \A t \in Threads : tpc[t] = "off"
  BY <1>1 DEF Active
<1> QED BY <1>1, <1>2, <1>3 DEF Inv, StoreInv

LEMMA UpdaterAfterFacts ==
  ASSUME NEW u, IsUpdater(u), NEW action \in Actions, NEW s
  PROVE  /\ IsUpdater(UpdaterAfter(u, action, s))
         /\ UpdaterAfter(u, action, s).strategy = u.strategy
         /\ UpdaterAfter(u, action, s).clean = CASE action = "Recreated" -> {}
                                                 [] action = "Shifted" -> u.clean \cap s.rect
                                                 [] action = "None" -> u.clean
<1>1. CASE action = "Recreated"
  BY <1>1, ResetUpdaterFacts DEF UpdaterAfter
<1>2. CASE action = "Shifted"
  BY <1>2, IntersectUpdaterFacts DEF UpdaterAfter
<1>3. CASE action = "None"
  BY <1>3 DEF UpdaterAfter
<1> QED BY <1>1, <1>2, <1>3 DEF Actions

LEMMA LaunchReturnsFacts ==
  ASSUME LaunchReturns, mpc \in {"launch", "paintlaunch"}
  PROVE  conn' = FALSE /\ mpc' \in {"loop", "paint"}
BY DEF LaunchReturns

LEMMA LaunchInv ==
  ASSUME Inv, Launch
  PROVE  Inv'
<1> DEFINE result == UpdateStores(stores, view)
           s == result.stores
           a == result.action
           u == SwitchUpdater(UpdaterAfter(up, a, s), strategy)
           v == MarkDirty(u, DirtyRegion(a, s))
           area == IF s.mode = "Decoupled" THEN Outwards(Area(view), view.affine, s.affine)
                   ELSE Area(view)
<1>1. /\ mpc \in {"launch", "paintlaunch"} /\ stores' = s /\ items_affine' = s.affine
      /\ need_update' = FALSE /\ up' = NextFrame(v) /\ redraw_requested' = FALSE
      /\ snapshotted' = TRUE
      /\ rd' = [rd EXCEPT !.stage = "tiler", !.store = s.rect, !.decoupled = s.mode = "Decoupled",
                          !.visible = area]
      /\ LaunchReturns
      /\ UNCHANGED <<active, redraw_active, view, lock, tpc, trect, tiles>>
  BY DEF Launch, viewvars, threadvars
<1>2. LinkInv /\ IsStores(stores) /\ IsUpdater(up) /\ IsRedrawData(rd) /\ view \in ViewType
      /\ stores.mode \in Modes
  BY DEF Inv, ShapeInv
<1>3. rd.stage = "none" /\ redraw_active = TRUE
  BY <1>1, <1>2 DEF LinkInv, Launching
<1>4. conn' = FALSE /\ mpc' \in {"loop", "paint"}
  BY <1>1, LaunchReturnsFacts
<1>5. /\ IsStores(s) /\ a \in Actions /\ s.mode \in {"Normal", "Decoupled"}
      /\ a = "None" => s = stores
      /\ a # "None" => s.rect = Centered(view)
  BY <1>2, UpdateStoresFacts
<1>6. IsUpdater(up')
  <2> HIDE DEF s, a
  <2>1. IsUpdater(UpdaterAfter(up, a, s))
    BY <1>2, <1>5, UpdaterAfterFacts
  <2>2. IsUpdater(u)
    BY <2>1, SwitchUpdaterFacts
  <2> HIDE DEF u
  <2>3. IsUpdater(v)
    BY <2>2, MarkDirtyFacts
  <2> HIDE DEF v
  <2> QED BY <1>1, <2>3, NextFrameFacts
<1> HIDE DEF s, a, v, u, area
<1>7. /\ IsRedrawData(rd') /\ rd'.stage = "tiler" /\ rd'.store = s.rect
      /\ rd'.phase = rd.phase /\ rd'.rects = rd.rects /\ rd'.numactive = rd.numactive
      /\ rd'.decoupled = (s.mode = "Decoupled")
  <2> DEFINE d == s.mode = "Decoupled"
  <2>1. rd' = [rd EXCEPT !.stage = "tiler", !.store = s.rect, !.decoupled = d, !.visible = area]
    BY <1>1
  <2> HIDE DEF d
  <2>2. IsRedrawData(rd')
    BY <1>2, <2>1 DEF IsRedrawData
  <2>3. rd'.stage = "tiler" /\ rd'.store = s.rect /\ rd'.decoupled = d
    BY <1>2, <2>1 DEF IsRedrawData
  <2>4. rd'.phase = rd.phase /\ rd'.rects = rd.rects /\ rd'.numactive = rd.numactive
    BY <1>2, <2>1 DEF IsRedrawData
  <2> QED BY <2>2, <2>3, <2>4 DEF d
<1>8. ShapeInv'
  <2>1. s.rect \in SUBSET Int /\ IsFiniteSet(s.rect)
    BY <1>2, <1>5, ViewFacts DEF Inv, ShapeInv
  <2> QED BY <1>1, <1>2, <1>5, <1>6, <1>7, <2>1 DEF Inv, ShapeInv, Modes
<1>9. LinkInv'
  BY <1>1, <1>2, <1>3, <1>4, <1>7 DEF LinkInv, Launching, MainStates, Stages
<1>10. /\ Active = {} /\ \A t \in Threads : tpc[t] = "off" /\ trect[t] = {}
  BY <1>3, ThreadsOff
<1>11. CountInv'
  BY <1>1, <1>3, <1>7 DEF Inv, CountInv, Active
<1>12. StoreInv'
  <2>1. trect' \in [Threads -> SUBSET stores'.rect]
    BY <1>1, <1>10 DEF Inv, StoreInv
  <2>2. tiles' = {} /\ rd'.rects = {}
    BY <1>1, <1>3, <1>7 DEF Inv, StoreInv
  <2>3. stores'.mode = IF rd'.decoupled THEN "Decoupled" ELSE "Normal"
    BY <1>1, <1>5, <1>7
  <2> QED BY <1>1, <1>7, <1>10, <2>1, <2>2, <2>3 DEF StoreInv
<1>13. CycleInv'
  BY <1>7 DEF CycleInv
<1> QED BY <1>8, <1>9, <1>11, <1>12, <1>13 DEF Inv

\* The end of a process, when its tiles are committed.
LEMMA EndFrame ==
  ASSUME Inv, rd.stage = "exit", rd' = [rd EXCEPT !.stage = "none"], tiles' = {},
         LinkInv', UNCHANGED <<tpc, trect, view>>, IsUpdater(up'),
         IsStores(stores'), stores'.mode \in Modes,
         stores'.rect \in {stores.rect, Centered(view)}
  PROVE  Inv'
<1>1. /\ IsRedrawData(rd') /\ rd'.stage = "none" /\ rd'.phase = rd.phase
      /\ rd'.rects = rd.rects /\ rd'.numactive = rd.numactive
  BY DEF Inv, ShapeInv, IsRedrawData
<1>2. ShapeInv'
  <2>1. stores'.rect \in SUBSET Int /\ IsFiniteSet(stores'.rect)
    BY ViewFacts DEF Inv, ShapeInv
  <2> QED BY <1>1, <2>1 DEF Inv, ShapeInv
<1>3. Active = {} /\ \A t \in Threads : tpc[t] = "off" /\ trect[t] = {}
  BY ThreadsOff
<1>4. CountInv'
  BY <1>1 DEF Inv, CountInv, Active
<1>5. StoreInv'
  <2>1. trect' \in [Threads -> SUBSET stores'.rect]
    BY <1>3 DEF Inv, StoreInv
  <2>2. rd'.rects = {}
    BY <1>1 DEF Inv, StoreInv
  <2> QED BY <1>1, <1>3, <2>1, <2>2 DEF StoreInv
<1>6. CycleInv'
  BY <1>1 DEF CycleInv
<1> QED BY <1>2, <1>4, <1>5, <1>6 DEF Inv

LEMMA AfterRedrawInv ==
  ASSUME Inv, AfterRedraw
  PROVE  Inv'
<1> DEFINE drawn == MarkDrawn(stores, tiles)
           result == IF rd.timeoutflag THEN [stores |-> drawn, action |-> "None"]
                     ELSE FinishedDraw(drawn, view)
           a == result.action
<1>1. /\ mpc = "loop" /\ rd.stage = "exit" /\ snapshotted' = FALSE
      /\ need_update' = (need_update \/ \E e \in log : e[1] # e[2])
      /\ rd' = [rd EXCEPT !.stage = "none"] /\ tiles' = {}
      /\ stores' = result.stores
      /\ up' = UpdaterAfter(up, a, result.stores)
      /\ redraw_requested' = FALSE
      /\ redraw_active' = StartOver(a)
      /\ mpc' = IF StartOver(a) THEN "launch" ELSE "loop"
      /\ UNCHANGED <<active, conn, view, lock, tpc, trect>>
  BY DEF AfterRedraw, Unsnapshot, TilesReaped, viewvars, threadvars
<1>2. LinkInv /\ IsStores(stores) /\ IsUpdater(up) /\ IsRedrawData(rd) /\ stores.mode \in Modes
  BY DEF Inv, ShapeInv
<1>3. IsStores(drawn) /\ drawn.mode = stores.mode /\ drawn.rect = stores.rect
  BY <1>2, MarkDrawnFacts
<1>4. /\ IsStores(result.stores) /\ a \in Actions /\ result.stores.mode \in Modes
      /\ result.stores.rect \in {stores.rect, Centered(view)}
  <2> HIDE DEF drawn
  <2>1. CASE rd.timeoutflag
    <3>1. result.stores = drawn /\ a = "None"
      BY <2>1
    <3> HIDE DEF result
    <3> QED BY <1>2, <1>3, <3>1 DEF Actions
  <2>2. CASE ~rd.timeoutflag
    <3>1. result = FinishedDraw(drawn, view)
      BY <2>2
    <3> HIDE DEF result
    <3> QED BY <1>2, <1>3, <3>1, FinishedDrawFacts DEF Actions, Modes
  <2> QED BY <2>1, <2>2
<1>5. IsUpdater(up')
  <2> HIDE DEF result
  <2> QED BY <1>1, <1>2, <1>4, UpdaterAfterFacts
<1> HIDE DEF result, drawn, a
<1>6. rd'.stage = "none"
  BY <1>1, <1>2 DEF IsRedrawData
<1>7. conn = FALSE /\ active = TRUE
  BY <1>1, <1>2 DEF LinkInv
<1>8. LinkInv'
  <2>1. need_update' \in BOOLEAN
    BY <1>1
  <2>2. CASE StartOver(a)
    <3>1. redraw_active' = TRUE /\ mpc' = "launch"
      BY <1>1, <2>2 DEF StartOver
    <3> QED BY <1>1, <1>6, <1>7, <2>1, <3>1 DEF LinkInv, Launching, MainStates, Stages
  <2>3. CASE ~StartOver(a)
    <3>1. redraw_active' = FALSE /\ mpc' = "loop"
      BY <1>1, <2>3 DEF StartOver
    <3> QED BY <1>1, <1>6, <1>7, <2>1, <3>1 DEF LinkInv, Launching, MainStates, Stages
  <2> QED BY <2>2, <2>3
<1> QED BY <1>1, <1>4, <1>5, <1>8, EndFrame

LEMMA UnrealizeDoneInv ==
  ASSUME Inv, UnrealizeDone
  PROVE  Inv'
<1>1. /\ mpc = "wait" /\ rd.stage = "exit" /\ mpc' = "loop" /\ rd' = [rd EXCEPT !.stage = "none"]
      /\ redraw_active' = FALSE /\ redraw_requested' = FALSE /\ snapshotted' = FALSE
      /\ need_update' = (need_update \/ \E e \in log : e[1] # e[2])
      /\ CommitTiles
      /\ UNCHANGED <<active, conn, view, lock, tpc, trect, up>>
  BY DEF UnrealizeDone, Unsnapshot, viewvars, threadvars
<1>2. LinkInv /\ IsUpdater(up) /\ IsRedrawData(rd)
  BY DEF Inv, ShapeInv
<1>3. rd'.stage = "none"
  BY <1>1, <1>2 DEF IsRedrawData
<1>4. need_update' \in BOOLEAN
  BY <1>1
<1>5. LinkInv'
  BY <1>1, <1>2, <1>3, <1>4 DEF LinkInv, Launching, MainStates, Stages
<1> QED BY <1>1, <1>2, <1>5, CommitFacts, EndFrame

-----------------------------------------------------------------------------
(* The process: its first cycle, and its exit.                             *)

\* A cycle that has been set up for the store is one that CycleInv allows.
LEMMA NewCycle ==
  ASSUME Inv, rd.stage # "none",
         NEW p \in 0..2, NEW r, IsRedrawData(r), r.visible = rd.visible, r.store = rd.store,
         NEW u, IsUpdater(u), InitRedraw(p, r, u),
         HasBounds(PhaseFrom(p))
  PROVE  /\ CycleInv' /\ IsUpdater(up') /\ IsRedrawData(rd') /\ rd'.phase = PhaseFrom(p)
         /\ rd'.stage = r.stage /\ rd'.visible = rd.visible /\ rd'.store = rd.store
         /\ rd'.decoupled = r.decoupled /\ rd'.numactive = r.numactive
<1> DEFINE q == PhaseFrom(p)
<1>1. rd.store \in SUBSET Int /\ IsFiniteSet(rd.store)
  BY DEF Inv, ShapeInv, StoreInv
<1>2. /\ IsUpdater(up') /\ up'.clean = u.clean /\ up'.strategy = u.strategy
      /\ IsRedrawData(rd') /\ rd'.stage = r.stage /\ rd'.visible = r.visible
      /\ rd'.store = r.store /\ rd'.decoupled = r.decoupled
      /\ rd'.numactive = r.numactive
      /\ rd'.phase = q
      /\ q = 1 => /\ up'.strategy # "Responsive" => up'.inprogress
                  /\ rd'.clean.alias = "clean" => VisStore \subseteq rd'.rects \cup up'.clean
                  /\ rd'.clean.alias # "clean" => WantsAnotherCycle(up')
      /\ HasBounds(q) => rd'.bounds = BoundsOf(q)
  BY <1>1, InitRedrawFacts
<1>3. q \in 0..2 /\ (q < 2 => VisStore # {})
  BY PhaseFromFacts
<1>4. rd'.bounds \subseteq rd'.store
  BY <1>2 DEF BoundsOf, VisStore, PrerenderStore
<1>5. VisStore' = VisStore
  BY <1>2 DEF VisStore
<1>6. WantsAnotherCycle(up') <=> WantsAnotherCycle(up)'
  BY DEF WantsAnotherCycle
<1> HIDE DEF q
<1>7. CycleInv'
  BY <1>2, <1>3, <1>4, <1>5, <1>6 DEF CycleInv
<1> QED BY <1>2, <1>7 DEF q

LEMMA InitTilerInv ==
  ASSUME Inv, InitTiler
  PROVE  Inv'
<1> DEFINE q == PhaseFrom(0)
           r1 == [rd EXCEPT !.stage = "run", !.timeoutflag = FALSE,
                            !.numactive = Cardinality(Threads)]
           r2 == [rd EXCEPT !.stage = "drained"]
<1>1. /\ rd.stage = "tiler"
      /\ UNCHANGED <<active, conn, redraw_active, redraw_requested, mpc, need_update, snapshotted,
                     view, stores, items_affine, lock, trect, tiles>>
      /\ IF HasBounds(q)
         THEN InitRedraw(0, r1, up) /\ tpc' = [t \in Threads |-> "loop"]
         ELSE InitRedraw(0, r2, up) /\ UNCHANGED tpc
  BY DEF InitTiler, viewvars, schedvars, drawingvars, storevars
<1>2. LinkInv /\ IsUpdater(up) /\ IsRedrawData(rd)
  BY DEF Inv, ShapeInv
<1>3. rd.store \in SUBSET Int /\ IsFiniteSet(rd.store)
  BY <1>1 DEF Inv, ShapeInv, StoreInv
<1>4. Active = {} /\ rd.numactive = 0 /\ \A t \in Threads : tpc[t] = "off" /\ trect[t] = {}
  BY <1>1, ThreadsOff
<1>5. CASE HasBounds(q)
  <2>1. /\ IsRedrawData(r1) /\ r1.visible = rd.visible /\ r1.store = rd.store
        /\ r1.stage = "run" /\ r1.numactive = Cardinality(Threads) /\ r1.decoupled = rd.decoupled
    BY <1>2 DEF IsRedrawData
  <2>2. InitRedraw(0, r1, up) /\ tpc' = [t \in Threads |-> "loop"]
    BY <1>1, <1>5
  <2> HIDE DEF r1
  <2>3. /\ CycleInv' /\ IsUpdater(up') /\ IsRedrawData(rd') /\ rd'.phase = q
        /\ rd'.stage = "run" /\ rd'.visible = rd.visible /\ rd'.store = rd.store
        /\ rd'.decoupled = rd.decoupled /\ rd'.numactive = Cardinality(Threads)
    BY <1>1, <1>2, <1>5, <2>1, <2>2, NewCycle
  <2>4. q \in 0..2
    BY PhaseFromFacts
  <2> HIDE DEF q
  <2>5. ShapeInv'
    BY <1>1, <2>3, <2>4 DEF Inv, ShapeInv
  <2>6. LinkInv'
    BY <1>1, <1>2, <2>3 DEF LinkInv, Launching, Stages
  <2>7. CountInv'
    <3>1. tpc' \in [Threads -> ThreadStates]
      BY <2>2 DEF ThreadStates
    <3>2. Active' = Threads
      BY <2>2 DEF Active
    <3> QED BY <2>3, <3>1, <3>2, ThreadsAssumption DEF CountInv
  <2>8. StoreInv'
    BY <1>1, <1>4, <2>3 DEF Inv, StoreInv
  <2> QED BY <2>3, <2>5, <2>6, <2>7, <2>8 DEF Inv
<1>6. CASE ~HasBounds(q)
  <2>1. /\ IsRedrawData(r2) /\ r2.visible = rd.visible /\ r2.store = rd.store
        /\ r2.stage = "drained" /\ r2.numactive = rd.numactive /\ r2.decoupled = rd.decoupled
    BY <1>2 DEF IsRedrawData
  <2>2. InitRedraw(0, r2, up) /\ UNCHANGED tpc
    BY <1>1, <1>6
  <2> HIDE DEF r2
  <2>3. /\ IsUpdater(up') /\ IsRedrawData(rd') /\ rd'.phase = q
        /\ rd'.stage = "drained" /\ rd'.visible = rd.visible /\ rd'.store = rd.store
        /\ rd'.decoupled = rd.decoupled /\ rd'.numactive = rd.numactive
    BY <1>2, <1>3, <1>6, <2>1, <2>2, InitRedrawFacts
  <2>4. q \in 0..2
    BY PhaseFromFacts
  <2> HIDE DEF q
  <2>5. ShapeInv'
    BY <1>1, <2>3, <2>4 DEF Inv, ShapeInv
  <2>6. LinkInv'
    BY <1>1, <1>2, <2>3 DEF LinkInv, Launching, Stages
  <2>7. CountInv'
    BY <1>1, <2>2, <2>3 DEF Inv, CountInv, Active
  <2>8. StoreInv'
    BY <1>1, <2>2, <2>3 DEF Inv, StoreInv
  <2>9. CycleInv'
    BY <2>3 DEF CycleInv
  <2> QED BY <2>5, <2>6, <2>7, <2>8, <2>9 DEF Inv
<1> QED BY <1>5, <1>6

LEMMA SignalExitInv ==
  ASSUME Inv, SignalExit
  PROVE  Inv'
<1>1. /\ rd.stage = "drained" /\ rd' = [rd EXCEPT !.stage = "exit", !.rects = {}]
      /\ UNCHANGED <<active, conn, redraw_active, redraw_requested, mpc, need_update, snapshotted,
                     view, stores, items_affine, lock, tpc, trect, tiles, up>>
  BY DEF SignalExit, mainvars, threadvars, viewvars, schedvars, drawingvars, storevars
<1>2. IsRedrawData(rd)
  BY DEF Inv, ShapeInv
<1>3. /\ IsRedrawData(rd') /\ rd'.stage = "exit" /\ rd'.rects = {}
      /\ rd'.phase = rd.phase /\ rd'.store = rd.store /\ rd'.numactive = rd.numactive
      /\ rd'.decoupled = rd.decoupled
  BY <1>1, <1>2 DEF IsRedrawData
<1>4. ShapeInv'
  BY <1>1, <1>3 DEF Inv, ShapeInv
<1>5. LinkInv'
  BY <1>1, <1>3 DEF Inv, LinkInv, Launching, Stages
<1>6. CountInv'
  BY <1>1, <1>3 DEF Inv, CountInv, Active
<1>7. StoreInv'
  BY <1>1, <1>3 DEF Inv, StoreInv
<1>8. CycleInv'
  BY <1>3 DEF CycleInv
<1> QED BY <1>4, <1>5, <1>6, <1>7, <1>8 DEF Inv

-----------------------------------------------------------------------------
(* The render threads.                                                     *)

LEMMA ThreadRuns ==
  ASSUME Inv, NEW t \in Threads, tpc[t] # "off"
  PROVE  rd.stage = "run" /\ rd.store = stores.rect /\ t \in Active
BY DEF Inv, CountInv, Active, StoreInv

\* What a thread must leave as it is, and keep, for the invariant.
LEMMA ThreadFrame ==
  ASSUME Inv, rd.stage = "run", UNCHANGED mainvars, CountInv', CycleInv',
         IsUpdater(up'), IsRedrawData(rd'), rd'.stage \in {"run", "drained"}, rd'.phase \in 0..2,
         rd'.store = rd.store, rd'.decoupled = rd.decoupled,
         trect' \in [Threads -> SUBSET rd.store],
         \A t \in Threads : tpc'[t] # "paint" => trect'[t] = {},
         tiles' \subseteq rd.store
  PROVE  Inv'
<1>1. UNCHANGED <<active, conn, redraw_active, redraw_requested, mpc, need_update, snapshotted,
                  view, stores, items_affine>>
  BY DEF mainvars, viewvars, schedvars, drawingvars, storevars
<1>2. ShapeInv'
  BY <1>1 DEF Inv, ShapeInv
<1>3. LinkInv'
  BY <1>1 DEF Inv, LinkInv, Launching, Stages
<1>4. StoreInv'
  BY <1>1 DEF Inv, StoreInv
<1> QED BY <1>2, <1>3, <1>4 DEF Inv

LEMMA LeaveFacts ==
  ASSUME Inv, NEW t \in Threads, tpc[t] # "off", NEW r, IsRedrawData(r),
         r.stage = "run", r.numactive = rd.numactive, Leave(t, r)
  PROVE  /\ CountInv' /\ IsRedrawData(rd') /\ rd'.stage \in {"run", "drained"}
         /\ rd'.phase = r.phase /\ rd'.store = r.store /\ rd'.decoupled = r.decoupled
         /\ rd'.visible = r.visible /\ rd'.rects = r.rects /\ rd'.bounds = r.bounds
         /\ rd'.clean = r.clean /\ rd'.timeoutflag = r.timeoutflag
         /\ tpc' = [tpc EXCEPT ![t] = "off"]
<1> DEFINE stage == IF r.numactive = 1 THEN "drained" ELSE "run"
           left == r.numactive - 1
<1>1. rd' = [r EXCEPT !.numactive = left, !.stage = stage] /\ tpc' = [tpc EXCEPT ![t] = "off"]
  BY DEF Leave
<1> HIDE DEF stage, left
<1>2. IsRedrawData(rd')
  BY <1>1 DEF IsRedrawData
<1>3. rd'.stage = stage /\ rd'.numactive = left
  BY <1>1 DEF IsRedrawData
<1>4. /\ rd'.phase = r.phase /\ rd'.store = r.store /\ rd'.decoupled = r.decoupled
      /\ rd'.visible = r.visible /\ rd'.rects = r.rects /\ rd'.bounds = r.bounds
      /\ rd'.clean = r.clean /\ rd'.timeoutflag = r.timeoutflag
  BY <1>1 DEF IsRedrawData
<1>5. tpc \in [Threads -> ThreadStates] /\ rd.numactive = Cardinality(Active)
  BY DEF Inv, CountInv
<1>6. t \in Active /\ IsFiniteSet(Active)
  BY ThreadsAssumption, FiniteParts DEF Active
<1>7. Active' = Active \ {t}
  BY <1>1, <1>5 DEF Active
<1>8. IsFiniteSet(Active') /\ Cardinality(Active') = Cardinality(Active) - 1
      /\ Cardinality(Active) \in Nat
  BY <1>6, <1>7, FS_RemoveElement, FS_CardinalityType
<1>9. Active' = {} <=> Cardinality(Active') = 0
  BY <1>8, FS_EmptySet
<1>10. CountInv'
  <2>1. tpc' \in [Threads -> ThreadStates]
    BY <1>1, <1>5 DEF ThreadStates
  <2>2. rd'.numactive = Cardinality(Active')
    BY <1>3, <1>5, <1>8 DEF left
  <2>3. r.numactive = 1 <=> Active' = {}
    BY <1>5, <1>8, <1>9
  <2>4. rd'.stage = "run" <=> Active' # {}
    BY <1>3, <2>3 DEF stage
  <2> QED BY <2>1, <2>2, <2>4 DEF CountInv
<1> QED BY <1>1, <1>2, <1>3, <1>4, <1>10 DEF stage

\* A thread that leaves while it is not painting, in a cycle that is allowed.
LEMMA LeaveInv ==
  ASSUME Inv, NEW t \in Threads, tpc[t] \in {"loop", "painted"}, NEW r, IsRedrawData(r),
         r.stage = "run", r.numactive = rd.numactive, r.store = rd.store,
         r.decoupled = rd.decoupled, r.phase \in 0..2, Leave(t, r),
         IsUpdater(up'), UNCHANGED <<mainvars, trect, tiles>>, CycleInv'
  PROVE  Inv'
<1>1. rd.stage = "run" /\ rd.store = stores.rect
  BY ThreadRuns
<1>2. /\ CountInv' /\ IsRedrawData(rd') /\ rd'.stage \in {"run", "drained"}
      /\ rd'.phase = r.phase /\ rd'.store = r.store /\ rd'.decoupled = r.decoupled
      /\ tpc' = [tpc EXCEPT ![t] = "off"]
  BY LeaveFacts
<1>3. /\ trect' \in [Threads -> SUBSET rd.store] /\ tiles' \subseteq rd.store
      /\ \A x \in Threads : tpc'[x] # "paint" => trect'[x] = {}
  <2>1. \A x \in Threads : tpc'[x] # "paint" => tpc[x] # "paint"
    BY <1>2 DEF Inv, CountInv
  <2> QED BY <1>1, <2>1 DEF Inv, StoreInv
<1>4. UNCHANGED mainvars
  OBVIOUS
<1> HIDE DEF mainvars
<1> QED BY <1>1, <1>2, <1>3, <1>4, ThreadFrame

LEMMA NextCycleInv ==
  ASSUME Inv, NEW t \in Threads, NextCycle(t)
  PROVE  Inv'
<1>1. /\ tpc[t] = "loop"
      /\ \/ rd.phase = 0 /\ InitRedraw(1, rd, up)
         \/ rd.phase = 1 /\ WantsAnotherCycle(up) /\ InitRedraw(1, rd, FinishCycle(up))
         \/ rd.phase = 1 /\ HasBounds(2) /\ InitRedraw(2, rd, FinishCycle(up))
      /\ UNCHANGED <<mainvars, tpc, trect, tiles>>
  BY DEF NextCycle, AtLoop
<1>2. rd.stage = "run" /\ rd.store = stores.rect
  BY <1>1, ThreadRuns
<1>3. IsUpdater(up) /\ IsRedrawData(rd) /\ (rd.phase < 2 => VisStore # {})
  BY <1>2 DEF Inv, ShapeInv, CycleInv
<1>4. IsUpdater(FinishCycle(up))
  BY <1>3, FinishCycleFacts
<1>5. /\ VisStore # {} => HasBounds(PhaseFrom(1))
      /\ HasBounds(2) => HasBounds(PhaseFrom(2))
      /\ PhaseFrom(1) \in 0..2 /\ PhaseFrom(2) \in 0..2
  BY PhaseFromFacts DEF HasBounds
<1>6. PICK p \in {1, 2}, u \in {up, FinishCycle(up)} : InitRedraw(p, rd, u) /\ HasBounds(PhaseFrom(p))
  BY <1>1, <1>3, <1>5
<1>7. IsUpdater(u)
  BY <1>3, <1>4
<1>8. /\ CycleInv' /\ IsUpdater(up') /\ IsRedrawData(rd') /\ rd'.phase = PhaseFrom(p)
      /\ rd'.stage = rd.stage /\ rd'.visible = rd.visible /\ rd'.store = rd.store
      /\ rd'.decoupled = rd.decoupled /\ rd'.numactive = rd.numactive
  BY <1>2, <1>3, <1>6, <1>7, NewCycle
<1>9. CountInv'
  BY <1>1, <1>8 DEF Inv, CountInv, Active
<1>10. /\ trect' \in [Threads -> SUBSET rd.store] /\ tiles' \subseteq rd.store
       /\ \A x \in Threads : tpc'[x] # "paint" => trect'[x] = {}
  BY <1>1, <1>2 DEF Inv, StoreInv
<1>11. UNCHANGED mainvars
  BY <1>1
<1>12. rd'.phase \in 0..2
  BY <1>5, <1>6, <1>8
<1> HIDE DEF mainvars
<1> QED BY <1>2, <1>8, <1>9, <1>10, <1>11, <1>12, ThreadFrame

LEMMA FinishLastInv ==
  ASSUME Inv, NEW t \in Threads, FinishLast(t)
  PROVE  Inv'
<1>1. tpc[t] = "loop" /\ UNCHANGED <<mainvars, trect, tiles>>
  BY DEF FinishLast, AtLoop
<1>2. rd.stage = "run" /\ rd.store = stores.rect
  BY <1>1, ThreadRuns
<1>3. IsUpdater(up) /\ IsRedrawData(rd) /\ CycleInv
  BY DEF Inv, ShapeInv
<1>4. CASE rd.phase = 2 /\ Leave(t, rd) /\ UNCHANGED up
  <2>1. rd'.phase = 2 /\ rd'.bounds = rd.bounds /\ rd'.store = rd.store
    BY <1>1, <1>2, <1>3, <1>4, LeaveFacts
  <2>2. CycleInv'
    BY <1>2, <1>3, <2>1 DEF CycleInv
  <2> QED BY <1>1, <1>2, <1>3, <1>4, <2>2, LeaveInv
<1>5. CASE rd.phase = 1 /\ up' = FinishCycle(up) /\ Leave(t, [rd EXCEPT !.phase = 2])
  <2> DEFINE r == [rd EXCEPT !.phase = 2]
  <2>1. /\ IsRedrawData(r) /\ r.phase = 2 /\ r.stage = rd.stage /\ r.numactive = rd.numactive
        /\ r.store = rd.store /\ r.decoupled = rd.decoupled /\ r.bounds = rd.bounds
    BY <1>3 DEF IsRedrawData
  <2>2. IsUpdater(up')
    BY <1>3, <1>5, FinishCycleFacts
  <2>3. Leave(t, r)
    BY <1>5
  <2> HIDE DEF r
  <2>4. rd'.phase = 2 /\ rd'.bounds = rd.bounds /\ rd'.store = rd.store
    BY <1>1, <1>2, <2>1, <2>3, LeaveFacts
  <2>5. CycleInv'
    BY <1>2, <1>3, <2>4 DEF CycleInv
  <2> QED BY <1>1, <1>2, <2>1, <2>2, <2>3, <2>5, LeaveInv
<1> QED BY <1>4, <1>5 DEF FinishLast

\* A cycle that is cut short.
LEMMA CutShort ==
  ASSUME Inv, NEW t \in Threads, tpc[t] \in {"loop", "painted"}, NEW flag,
         Leave(t, [rd EXCEPT !.timeoutflag = flag]), UNCHANGED <<mainvars, trect, tiles, up>>
  PROVE  Inv'
<1> DEFINE r == [rd EXCEPT !.timeoutflag = flag]
<1>1. rd.stage = "run" /\ rd.store = stores.rect
  BY ThreadRuns
<1>2. IsUpdater(up) /\ IsRedrawData(rd) /\ CycleInv /\ rd.phase \in 0..2
  BY DEF Inv, ShapeInv
<1>3. /\ IsRedrawData(r) /\ r.phase = rd.phase /\ r.stage = rd.stage /\ r.numactive = rd.numactive
      /\ r.store = rd.store /\ r.decoupled = rd.decoupled /\ r.bounds = rd.bounds
      /\ r.visible = rd.visible /\ r.rects = rd.rects /\ r.clean = rd.clean
  BY <1>2 DEF IsRedrawData
<1> HIDE DEF r
<1>4. /\ rd'.phase = r.phase /\ rd'.store = r.store /\ rd'.visible = r.visible
      /\ rd'.rects = r.rects /\ rd'.bounds = r.bounds /\ rd'.clean = r.clean
  <2>1. Leave(t, r)
    BY DEF r
  <2> QED BY <1>1, <1>3, <2>1, LeaveFacts
<1>5. CycleInv'
  BY <1>1, <1>2, <1>3, <1>4 DEF CycleInv, VisStore, WantsAnotherCycle
<1>6. Leave(t, r) /\ IsUpdater(up')
  BY <1>2 DEF r
<1> QED BY <1>1, <1>2, <1>3, <1>5, <1>6, LeaveInv

LEMMA AbortInv ==
  ASSUME Inv, NEW t \in Threads, Abort(t)
  PROVE  Inv'
<1>1. tpc[t] = "loop" /\ Leave(t, rd) /\ UNCHANGED <<mainvars, trect, tiles, up>>
  BY DEF Abort, AtLoop
<1>2. rd = [rd EXCEPT !.timeoutflag = rd.timeoutflag]
  BY DEF Inv, ShapeInv, IsRedrawData
<1>3. Leave(t, [rd EXCEPT !.timeoutflag = rd.timeoutflag])
  BY <1>1, <1>2
<1> QED BY <1>1, <1>3, CutShort

LEMMA TimeOutInv ==
  ASSUME Inv, NEW t \in Threads, TimeOut(t)
  PROVE  Inv'
<1>1. /\ tpc[t] = "painted" /\ Leave(t, [rd EXCEPT !.timeoutflag = TRUE])
      /\ UNCHANGED <<mainvars, trect, tiles, up>>
  BY DEF TimeOut
<1> QED BY <1>1, CutShort

LEMMA CullInv ==
  ASSUME Inv, NEW t \in Threads, NEW c \in rd.rects, Cull(t, c)
  PROVE  Inv'
<1>1. /\ tpc[t] = "loop" /\ c \in Deref(up, rd.clean)
      /\ rd' = [rd EXCEPT !.rects = @ \ {c}]
      /\ UNCHANGED <<mainvars, tpc, trect, up, tiles>>
  BY DEF Cull, AtLoop
<1>2. rd.stage = "run" /\ rd.store = stores.rect
  BY <1>1, ThreadRuns
<1>3. IsRedrawData(rd)
  BY DEF Inv, ShapeInv
<1>4. /\ IsRedrawData(rd') /\ rd'.stage = "run" /\ rd'.phase = rd.phase /\ rd'.store = rd.store
      /\ rd'.visible = rd.visible /\ rd'.bounds = rd.bounds /\ rd'.clean = rd.clean
      /\ rd'.numactive = rd.numactive /\ rd'.decoupled = rd.decoupled
      /\ rd'.rects = rd.rects \ {c}
  BY <1>1, <1>2, <1>3 DEF IsRedrawData
<1>5. CycleInv'
  <2>1. rd.clean.alias = "clean" => c \in up.clean
    BY <1>1 DEF Deref
  <2>2. VisStore' = VisStore /\ (WantsAnotherCycle(up)' <=> WantsAnotherCycle(up))
    BY <1>1, <1>4 DEF VisStore, WantsAnotherCycle
  <2> QED BY <1>1, <1>2, <1>4, <2>1, <2>2 DEF Inv, CycleInv
<1>6. CountInv'
  BY <1>1, <1>2, <1>4 DEF Inv, CountInv, Active
<1>7. /\ trect' \in [Threads -> SUBSET rd.store] /\ tiles' \subseteq rd.store
      /\ \A x \in Threads : tpc'[x] # "paint" => trect'[x] = {}
  BY <1>1, <1>2 DEF Inv, StoreInv
<1>8. IsUpdater(up') /\ rd'.phase \in 0..2
  BY <1>1, <1>4 DEF Inv, ShapeInv
<1>9. UNCHANGED mainvars
  BY <1>1
<1> HIDE DEF mainvars
<1> QED BY <1>2, <1>4, <1>5, <1>6, <1>7, <1>8, <1>9, ThreadFrame

\* The rectangle to paint lies in the store, and holds the cell it is for.
LEMMA ExtendedFacts ==
  ASSUME rd.store \in SUBSET Int, IsFiniteSet(rd.store), NEW c
  PROVE  /\ Extended(c) \subseteq rd.store
         /\ c \in rd.store => c \in Extended(c)
<1>1. Extended(c) \subseteq rd.store
  BY DEF Extended
<1>2. ASSUME c \in rd.store PROVE c \in Extended(c)
  <2> DEFINE reach == IF c - 1 \in rd.bounds THEN {c} ELSE ((c + 1 - Preempt)..c) \cap rd.store
             left == CHOOSE l \in reach : \A x \in reach : l <= x
             right == IF c + 1 \in rd.bounds THEN c ELSE left + Preempt - 1
  <2>1. c \in Int /\ Preempt \in Nat \ {0}
    BY <1>2, BoundsAssumption
  <2>2. reach \subseteq rd.store /\ c \in reach /\ \A x \in reach : x <= c /\ x >= c + 1 - Preempt
    BY <1>2, <2>1
  <2> HIDE DEF reach
  <2>3. \E l \in reach : \A x \in reach : l <= x
    BY <2>2, FiniteParts, LeastCell
  <2>4. left \in reach /\ \A x \in reach : left <= x
    BY <2>3
  <2> HIDE DEF left
  <2>5. left \in Int /\ left <= c /\ left >= c + 1 - Preempt
    BY <2>2, <2>4
  <2>6. right \in Int /\ c <= right
    BY <2>1, <2>5
  <2> HIDE DEF right
  <2>7. c \in left..right
    BY <2>1, <2>5, <2>6
  <2> QED BY <1>2, <2>7 DEF Extended, reach, left, right
<1> QED BY <1>1, <1>2

LEMMA BeginPaintInv ==
  ASSUME Inv, NEW t \in Threads, NEW c \in rd.rects, BeginPaint(t, c)
  PROVE  Inv'
<1> DEFINE rect == Extended(c)
<1>1. /\ tpc[t] = "loop"
      /\ rd' = [rd EXCEPT !.rects = @ \ {c}]
      /\ trect' = [trect EXCEPT ![t] = rect] /\ up' = MarkClean(up, rect)
      /\ tpc' = [tpc EXCEPT ![t] = "paint"]
      /\ UNCHANGED <<mainvars, tiles>>
  BY DEF BeginPaint, AtLoop
<1>2. rd.stage = "run" /\ rd.store = stores.rect
  BY <1>1, ThreadRuns
<1>3. IsRedrawData(rd) /\ IsUpdater(up) /\ rd.store \in SUBSET Int /\ IsFiniteSet(rd.store)
  BY <1>2 DEF Inv, ShapeInv
<1>4. rect \subseteq rd.store /\ (c \in rd.store => c \in rect)
  BY <1>3, ExtendedFacts
<1> HIDE DEF rect
<1>5. /\ IsRedrawData(rd') /\ rd'.stage = "run" /\ rd'.phase = rd.phase /\ rd'.store = rd.store
      /\ rd'.visible = rd.visible /\ rd'.bounds = rd.bounds /\ rd'.clean = rd.clean
      /\ rd'.numactive = rd.numactive /\ rd'.decoupled = rd.decoupled
      /\ rd'.rects = rd.rects \ {c}
  BY <1>1, <1>2, <1>3 DEF IsRedrawData
<1>6. /\ IsUpdater(up') /\ up'.clean = up.clean \cup rect /\ up'.strategy = up.strategy
      /\ up'.inprogress = up.inprogress
      /\ WantsAnotherCycle(up) => WantsAnotherCycle(up)'
  <2>1. WantsAnotherCycle(up)' <=> WantsAnotherCycle(up')
    BY DEF WantsAnotherCycle
  <2> QED BY <1>1, <1>3, <2>1, MarkCleanFacts
<1>7. CycleInv'
  <2>1. VisStore' = VisStore /\ VisStore \subseteq rd.store
    BY <1>5 DEF VisStore
  <2> QED BY <1>2, <1>4, <1>5, <1>6, <2>1 DEF Inv, CycleInv
<1>8. CountInv'
  <2>1. Active' = Active
    BY <1>1 DEF Active, Inv, CountInv
  <2> QED BY <1>1, <1>2, <1>5, <2>1 DEF Inv, CountInv, ThreadStates
<1>9. /\ trect' \in [Threads -> SUBSET rd.store] /\ tiles' \subseteq rd.store
      /\ \A x \in Threads : tpc'[x] # "paint" => trect'[x] = {}
  <2>1. trect' \in [Threads -> SUBSET rd.store]
    BY <1>1, <1>2, <1>4 DEF Inv, StoreInv
  <2>2. \A x \in Threads : tpc'[x] # "paint" => x # t /\ tpc[x] # "paint"
    BY <1>1 DEF Inv, CountInv
  <2> QED BY <1>1, <1>2, <2>1, <2>2 DEF Inv, StoreInv
<1>10. rd'.phase \in 0..2
  BY <1>5 DEF Inv, ShapeInv
<1>11. UNCHANGED mainvars
  BY <1>1
<1> HIDE DEF mainvars
<1> QED BY <1>2, <1>5, <1>6, <1>7, <1>8, <1>9, <1>10, <1>11, ThreadFrame

\* The steps of a thread that change neither the redraw data nor the updater.
LEMMA PaintedInv ==
  ASSUME Inv, NEW t \in Threads, EndPaint(t) \/ InTime(t)
  PROVE  Inv'
<1>1. /\ tpc[t] \in {"paint", "painted"}
      /\ UNCHANGED <<mainvars, up, rd>>
      /\ \E s \in {"painted", "loop"} : tpc' = [tpc EXCEPT ![t] = s]
      /\ tiles' \subseteq tiles \cup trect[t]
      /\ trect' \in {trect, [trect EXCEPT ![t] = {}]}
      /\ tpc[t] = "paint" => trect' = [trect EXCEPT ![t] = {}]
  BY DEF EndPaint, InTime
<1>2. rd.stage = "run" /\ rd.store = stores.rect
  BY <1>1, ThreadRuns
<1>3. CountInv'
  <2>1. Active' = Active /\ tpc' \in [Threads -> ThreadStates]
    BY <1>1 DEF Active, Inv, CountInv, ThreadStates
  <2> QED BY <1>1, <2>1 DEF Inv, CountInv
<1>4. CycleInv'
  BY <1>1 DEF Inv, CycleInv, VisStore, WantsAnotherCycle
<1>5. /\ trect' \in [Threads -> SUBSET rd.store] /\ tiles' \subseteq rd.store
      /\ \A x \in Threads : tpc'[x] # "paint" => trect'[x] = {}
  <2>1. trect \in [Threads -> SUBSET rd.store] /\ tiles \subseteq rd.store
        /\ \A x \in Threads : tpc[x] # "paint" => trect[x] = {}
    BY <1>2 DEF Inv, StoreInv
  <2>2. \A x \in Threads \ {t} : tpc'[x] = tpc[x] /\ trect'[x] = trect[x]
    BY <1>1, <2>1 DEF Inv, CountInv
  <2>3. trect'[t] = {}
    BY <1>1, <2>1
  <2>4. trect' \in [Threads -> SUBSET rd.store]
    BY <1>1, <2>1
  <2>5. tiles' \subseteq rd.store
    BY <1>1, <2>1
  <2> QED BY <2>1, <2>2, <2>3, <2>4, <2>5
<1>6. IsUpdater(up') /\ IsRedrawData(rd') /\ rd'.phase \in 0..2
  BY <1>1 DEF Inv, ShapeInv
<1>7. UNCHANGED mainvars /\ rd' = rd
  BY <1>1
<1> HIDE DEF mainvars
<1> QED BY <1>2, <1>3, <1>4, <1>5, <1>6, <1>7, ThreadFrame

-----------------------------------------------------------------------------
(* The invariant, and what follows from it.                                *)

\* The steps of a behaviour, by what they do to the redraw process.
LEMMA Steps ==
  ASSUME Next
  PROVE  \/ Request \/ Aside \/ Launch \/ InitTiler \/ SignalExit \/ AfterRedraw \/ UnrealizeDone
         \/ \E t \in Threads : ThreadNext(t)
BY DEF Next, UserNext, MainNext, Request, Aside

LEMMA InitInv == Init => Inv
<1> SUFFICES ASSUME Init PROVE Inv
  OBVIOUS
<1>1. /\ rd = [stage |-> "none", phase |-> 0, visible |-> {}, store |-> {},
               decoupled |-> FALSE, rects |-> {}, bounds |-> {},
               clean |-> [alias |-> "clean", region |-> {}],
               numactive |-> 0, timeoutflag |-> FALSE]
      /\ stores = NewStores /\ up = NewUpdater(strategy)
      /\ view \in ViewType
  BY DEF Init, ViewType
<1>2. /\ IsRedrawData(rd) /\ rd.stage = "none" /\ rd.phase = 0 /\ rd.rects = {} /\ rd.numactive = 0
  BY <1>1 DEF IsRedrawData
<1>3. IsStores(stores) /\ stores.mode = "None" /\ stores.rect = {}
  BY <1>1 DEF NewStores, IsStores
<1>4. IsUpdater(up)
  BY <1>1, NewUpdaterFacts
<1>5. ShapeInv
  BY <1>1, <1>2, <1>3, <1>4, FS_EmptySet DEF ShapeInv, Modes
<1>6. LinkInv
  BY <1>2 DEF Init, LinkInv, Launching, MainStates, Stages
<1>7. CountInv
  <2>1. tpc = [t \in Threads |-> "off"]
    BY DEF Init
  <2>2. Active = {}
    BY <2>1 DEF Active
  <2>3. tpc \in [Threads -> ThreadStates]
    BY <2>1 DEF ThreadStates
  <2> QED BY <1>2, <2>2, <2>3, FS_EmptySet DEF CountInv
<1>8. StoreInv
  BY <1>2 DEF Init, StoreInv
<1>9. CycleInv
  BY <1>2 DEF CycleInv
<1> QED BY <1>5, <1>6, <1>7, <1>8, <1>9 DEF Inv

LEMMA ThreadInv ==
  ASSUME Inv, NEW t \in Threads, ThreadNext(t)
  PROVE  Inv'
BY NextCycleInv, FinishLastInv, AbortInv, CullInv, BeginPaintInv, PaintedInv, TimeOutInv
DEF ThreadNext

LEMMA NextInv == Inv /\ [Next]_vars => Inv'
<1> SUFFICES ASSUME Inv, [Next]_vars PROVE Inv'
  OBVIOUS
<1>1. CASE Next
  BY <1>1, Steps, RequestInv, AsideInv, LaunchInv, InitTilerInv, SignalExitInv, AfterRedrawInv,
     UnrealizeDoneInv, ThreadInv
<1>2. CASE UNCHANGED vars
  <2>1. /\ UNCHANGED <<active, conn, redraw_active, redraw_requested, mpc, need_update, snapshotted>>
        /\ UNCHANGED <<rd, up, tpc, trect, items_affine, view, stores, tiles>>
    BY <1>2 DEF vars, viewvars, schedvars, drawingvars, storevars, threadvars
  <2>2. LinkInv'
    BY <2>1 DEF Inv, LinkInv, Launching
  <2>3. view' \in ViewType /\ IsStores(stores') /\ stores'.mode \in Modes
    BY <2>1 DEF Inv, ShapeInv
  <2> QED BY <2>1, <2>2, <2>3, Frame
<1> QED BY <1>1, <1>2

THEOREM Invariance == Spec => []Inv
BY InitInv, NextInv, PTL DEF Spec

\* One link at a time drives the chain, whatever the user interface calls,
\* the paints that launch early and the ends of processes.
THEOREM OneLinkDrives == Spec => []OneLinkAtATime
<1>1. Inv => OneLinkAtATime
  <2> SUFFICES ASSUME LinkInv PROVE OneLinkAtATime
    BY DEF Inv
  <2> DEFINE links == {l \in {"conn", "launch", "process"} :
                        CASE l = "conn" -> conn /\ mpc \notin {"launch", "paintlaunch"}
                          [] l = "launch" -> mpc \in {"launch", "paintlaunch"}
                          [] l = "process" -> rd.stage # "none"}
  <2>1. /\ "conn" \in links <=> conn /\ ~Launching
        /\ "launch" \in links <=> Launching
        /\ "process" \in links <=> rd.stage # "none"
        /\ links \subseteq {"conn", "launch", "process"}
    BY DEF Launching
  <2>2. redraw_active = FALSE => links = {}
    <3> HIDE DEF links
    <3> QED BY <2>1 DEF LinkInv
  <2>3. redraw_active = TRUE => \E l : links = {l}
    <3> HIDE DEF links
    <3>1. CASE rd.stage # "none"
      <4>1. links = {"process"}
        BY <2>1, <3>1 DEF LinkInv
      <4> QED BY <4>1
    <3>2. CASE Launching
      <4>1. links = {"launch"}
        BY <2>1, <3>2 DEF LinkInv
      <4> QED BY <4>1
    <3>3. CASE redraw_active = TRUE /\ rd.stage = "none" /\ ~Launching
      <4>1. links = {"conn"}
        BY <2>1, <3>3 DEF LinkInv
      <4> QED BY <4>1
    <3> QED BY <3>1, <3>2, <3>3
  <2>4. redraw_active \in BOOLEAN
    BY DEF LinkInv
  <2>5. OneLinkAtATime <=> IF redraw_active THEN Cardinality(links) = 1 ELSE links = {}
    BY DEF OneLinkAtATime
  <2> HIDE DEF links
  <2>6. redraw_active = TRUE => Cardinality(links) = 1
    BY <2>3, FS_Singleton
  <2> QED BY <2>2, <2>4, <2>5, <2>6
<1> QED BY <1>1, Invariance, PTL

\* None of the assertions fails.
THEOREM AssertionsNeverFail == Spec => []AssertionsHold
<1>1. Inv => AssertionsHold
  <2> SUFFICES ASSUME Inv PROVE AssertionsHold
    OBVIOUS
  <2>1. mpc \in {"launch", "paintlaunch"} => redraw_active /\ ~snapshotted
    BY DEF Inv, LinkInv, Launching
  <2>2. rd.stage = "exit" => redraw_active /\ snapshotted /\ ~conn
    BY DEF Inv, LinkInv
  <2>3. tiles \cup Painting \subseteq stores.rect
    BY DEF Inv, StoreInv, Painting
  <2>4. rd.stage = "tiler" => rd.rects = {}
    BY DEF Inv, StoreInv
  <2>5. rd.stage = "run" => /\ rd.bounds \subseteq rd.store
                            /\ rd.store = stores.rect
                            /\ items_affine = stores.affine
    BY DEF Inv, StoreInv, CycleInv
  <2>6. rd.stage = "run" /\ rd.phase = 1 /\ up.strategy # "Responsive" => up.inprogress
    BY DEF Inv, CycleInv
  <2>7. rd.stage # "none" /\ ~rd.decoupled => stores.mode = "Normal"
    BY DEF Inv, StoreInv
  <2> QED BY <2>1, <2>2, <2>3, <2>4, <2>5, <2>6, <2>7 DEF AssertionsHold
<1> QED BY <1>1, Invariance, PTL

-----------------------------------------------------------------------------
(* What a step may not do while the render threads are at work.            *)

\* The items report no new places while they are snapshotted.
LEMMA ItemsAsTheyWere ==
  ASSUME Inv, rd.stage = "run", Request \/ Aside
  PROVE  moved' = moved
<1>1. snapshotted
  BY DEF Inv, LinkInv
<1> USE DEF drawingvars
<1>2. CASE Request
  BY <1>1, <1>2 DEF Request, RequestRedrawArea, Edit, SetPos, SetAffine, SizeAllocate, SetStrategy,
    RequestRedrawAll
<1>3. CASE Aside
  BY <1>3 DEF Aside, IdleLaunch, PaintWidget, PaintCommit, Realize, Unrealize, UnrealizeBusy
<1> QED BY <1>2, <1>3

LEMMA ThreadKeeps ==
  ASSUME NEW t \in Threads, ThreadNext(t)
  PROVE  UNCHANGED mainvars
BY DEF ThreadNext, NextCycle, FinishLast, Abort, Cull, BeginPaint, EndPaint, InTime, TimeOut

\* Which steps can be taken while the threads run.
LEMMA RunningSteps ==
  ASSUME Inv, rd.stage = "run", Next
  PROVE  Request \/ Aside \/ \E t \in Threads : ThreadNext(t)
<1>1. ~Launch
  BY DEF Launch, Inv, LinkInv, Launching
<1>2. ~InitTiler /\ ~SignalExit /\ ~AfterRedraw /\ ~UnrealizeDone
  BY DEF InitTiler, SignalExit, AfterRedraw, UnrealizeDone
<1> QED BY <1>1, <1>2, Steps

\* The threads can read without a lock what the main thread leaves alone.
THEOREM RenderInputsStayFrozen == Spec => RenderInputsAreFrozen
<1> DEFINE Frozen == rd.stage = "run" =>
                       /\ stores'.rect = stores.rect /\ stores'.affine = stores.affine
                       /\ stores'.snap = stores.snap
                       /\ items_affine' = items_affine /\ moved' = moved
                       /\ (up' # up => UNCHANGED mainvars)
<1>1. Inv /\ [Next]_vars => [Frozen]_vars
  <2> SUFFICES ASSUME Inv, Next, rd.stage = "run"
               PROVE  /\ stores'.rect = stores.rect /\ stores'.affine = stores.affine
                      /\ stores'.snap = stores.snap
                      /\ items_affine' = items_affine /\ moved' = moved
                      /\ (up' # up => UNCHANGED mainvars)
    OBVIOUS
  <2>1. CASE Request
    BY <2>1, RequestFrame, ItemsAsTheyWere
  <2>2. CASE Aside
    BY <2>2, AsideFrame, ItemsAsTheyWere
  <2>3. ASSUME NEW t \in Threads, ThreadNext(t)
        PROVE  /\ stores' = stores /\ items_affine' = items_affine /\ moved' = moved
               /\ UNCHANGED mainvars
    <3>1. UNCHANGED mainvars
      BY <2>3, ThreadKeeps
    <3> QED BY <3>1 DEF mainvars, storevars, drawingvars
  <2> QED BY <2>1, <2>2, <2>3, RunningSteps
<1> QED BY <1>1, Invariance, PTL DEF Spec, RenderInputsAreFrozen

\* The phases of a process go to the margin only from a clean visible part.
THEOREM VisiblePartIsFirst == Spec => VisibleFirst
<1> DEFINE First == rd.stage = "run" /\ rd.phase # 2 /\ rd'.phase = 2 => VisStore \subseteq up'.clean
<1>1. Inv /\ [Next]_vars => [First]_vars
  <2> SUFFICES ASSUME Inv, Next, rd.stage = "run", rd.phase # 2, rd'.phase = 2
               PROVE  VisStore \subseteq up'.clean
    OBVIOUS
  <2>1. IsUpdater(up) /\ IsRedrawData(rd) /\ rd.phase \in 0..2 /\ VisStore # {}
    BY DEF Inv, ShapeInv, CycleInv
  <2>2. PICK t \in Threads : ThreadNext(t)
    BY RunningSteps, RequestFrame, AsideFrame
  <2>3. rd.store \in SUBSET Int /\ IsFiniteSet(rd.store)
    BY DEF Inv, ShapeInv, StoreInv
  <2>4. PhaseFrom(1) = 1
    BY <2>1, PhaseFromFacts
  <2>5. ~InitRedraw(1, rd, up) /\ ~InitRedraw(1, rd, FinishCycle(up))
    BY <2>1, <2>3, <2>4, FinishCycleFacts, InitRedrawFacts
  <2>7. ~Abort(t) /\ ~TimeOut(t)
    <3>1. ASSUME NEW flag, Leave(t, [rd EXCEPT !.timeoutflag = flag]) PROVE FALSE
      BY <2>1, <3>1 DEF Leave, IsRedrawData
    <3>2. rd = [rd EXCEPT !.timeoutflag = rd.timeoutflag]
      BY <2>1 DEF IsRedrawData
    <3> QED BY <3>1, <3>2 DEF Abort, TimeOut
  <2>8. \A c \in rd.rects : ~Cull(t, c) /\ ~BeginPaint(t, c)
    BY <2>1 DEF Cull, BeginPaint, IsRedrawData
  <2>9. ~EndPaint(t) /\ ~InTime(t)
    BY DEF EndPaint, InTime
  <2>10. NextCycle(t) \/ FinishLast(t)
    BY <2>2, <2>7, <2>8, <2>9 DEF ThreadNext
  <2>11. rd.phase = 1 /\ ~WantsAnotherCycle(up) /\ rd.rects = {}
         /\ (InitRedraw(2, rd, FinishCycle(up)) \/ up' = FinishCycle(up))
    BY <2>5, <2>10 DEF NextCycle, FinishLast
  <2>12. VisStore \subseteq up.clean
    BY <2>11 DEF Inv, CycleInv
  <2>13. IsUpdater(FinishCycle(up)) /\ FinishCycle(up).clean = up.clean
    BY <2>1, FinishCycleFacts
  <2>14. up'.clean = up.clean
    <3>1. CASE InitRedraw(2, rd, FinishCycle(up))
      BY <2>1, <2>3, <2>13, <3>1, InitRedrawFacts
    <3> QED BY <2>11, <2>13, <3>1
  <2> QED BY <2>12, <2>14
<1> QED BY <1>1, Invariance, PTL DEF Spec, VisibleFirst

-----------------------------------------------------------------------------
(* The chain as a client of the synchroniser.                              *)

LEMMA SameProcess ==
  ASSUME UNCHANGED <<rd, tpc>>
  PROVE  UNCHANGED Process!absvars
BY DEF Process!absvars

LEMMA SameClients ==
  ASSUME UNCHANGED tpc
  PROVE  UNCHANGED [t \in Threads |-> IF tpc[t] = "off" THEN "off" ELSE "drawing"]
OBVIOUS

LEMMA LaunchRefines ==
  ASSUME Inv, Launch
  PROVE  Process!Begin
<1>1. rd.stage = "none"
  BY DEF Launch, Inv, LinkInv, Launching
<1>2. rd'.stage = "tiler" /\ UNCHANGED tpc
  BY DEF Launch, Inv, ShapeInv, IsRedrawData, threadvars
<1> QED BY <1>1, <1>2, SameClients DEF Process!Begin

LEMMA InitTilerRefines ==
  ASSUME Inv, InitTiler
  PROVE  Process!Draw
<1>1. /\ rd.stage = "tiler"
      /\ IF HasBounds(PhaseFrom(0))
         THEN /\ InitRedraw(0, [rd EXCEPT !.stage = "run", !.timeoutflag = FALSE,
                                          !.numactive = Cardinality(Threads)], up)
              /\ tpc' = [t \in Threads |-> "loop"]
         ELSE InitRedraw(0, [rd EXCEPT !.stage = "drained"], up) /\ UNCHANGED tpc
  BY DEF InitTiler
<1>2. \A t \in Threads : tpc[t] = "off"
  BY <1>1, ThreadsOff
<1>3. rd'.stage \in {"run", "drained"}
  <2> DEFINE r1 == [rd EXCEPT !.stage = "run", !.timeoutflag = FALSE,
                              !.numactive = Cardinality(Threads)]
             r2 == [rd EXCEPT !.stage = "drained"]
  <2>1. IsRedrawData(rd) /\ IsUpdater(up) /\ rd.store \in SUBSET Int /\ IsFiniteSet(rd.store)
    BY <1>1 DEF Inv, ShapeInv, StoreInv
  <2>2. IsRedrawData(r1) /\ r1.stage = "run"
    BY <2>1 DEF IsRedrawData
  <2>3. IsRedrawData(r2) /\ r2.stage = "drained"
    BY <2>1 DEF IsRedrawData
  <2>4. InitRedraw(0, r1, up) \/ InitRedraw(0, r2, up)
    BY <1>1
  <2> HIDE DEF r1, r2
  <2> QED BY <2>1, <2>2, <2>3, <2>4, InitRedrawFacts
<1>4. \/ tpc' = [t \in Threads |-> "loop"]
      \/ UNCHANGED tpc
  BY <1>1
<1> QED BY <1>1, <1>2, <1>3, <1>4 DEF Process!Draw

LEMMA SignalExitRefines ==
  ASSUME Inv, SignalExit
  PROVE  Process!End
<1>1. rd.stage = "drained" /\ rd'.stage = "exit" /\ UNCHANGED tpc
  BY DEF SignalExit, Inv, ShapeInv, IsRedrawData, threadvars
<1>2. \A t \in Threads : tpc[t] = "off"
  BY <1>1, ThreadsOff
<1> QED BY <1>1, <1>2, SameClients DEF Process!End

LEMMA EndRefines ==
  ASSUME Inv, AfterRedraw \/ UnrealizeDone
  PROVE  Process!HandleEnd
<1>1. rd.stage = "exit" /\ rd'.stage = "none" /\ UNCHANGED tpc
  BY DEF AfterRedraw, UnrealizeDone, Inv, ShapeInv, IsRedrawData, threadvars
<1> QED BY <1>1, SameClients DEF Process!HandleEnd

\* A thread that stays in the process, and one that leaves it.
LEMMA ThreadRefines ==
  ASSUME Inv, NEW t \in Threads, ThreadNext(t)
  PROVE  Process!Leave(t) \/ UNCHANGED Process!absvars
<1>1. tpc[t] # "off" /\ tpc \in [Threads -> ThreadStates]
  BY DEF ThreadNext, NextCycle, FinishLast, Abort, Cull, BeginPaint, EndPaint, InTime, TimeOut, AtLoop,
    Inv, CountInv
<1>2. rd.stage = "run" /\ IsRedrawData(rd) /\ IsUpdater(up)
  BY <1>1, ThreadRuns DEF Inv, ShapeInv
<1>3. ASSUME NEW r, IsRedrawData(r), r.stage = "run", r.numactive = rd.numactive, Leave(t, r)
      PROVE  Process!Leave(t)
  <2>1. rd'.stage \in {"run", "drained"} /\ tpc' = [tpc EXCEPT ![t] = "off"]
    BY <1>1, <1>3, LeaveFacts
  <2> QED BY <1>1, <1>2, <2>1 DEF Process!Leave, Process!Move
<1>4. ASSUME rd'.stage = "run", NEW s \in {"loop", "paint", "painted"}, tpc' = [tpc EXCEPT ![t] = s]
      PROVE  UNCHANGED Process!absvars
  BY <1>1, <1>2, <1>4 DEF Process!absvars
<1>5. CASE NextCycle(t)
  <2>1. UNCHANGED tpc
    BY <1>5 DEF NextCycle
  <2>2. rd'.stage = "run"
    <3>1. \A p, u : InitRedraw(p, rd, u) => \E rects, bounds, clean, q :
               \/ rd' = [rd EXCEPT !.phase = q, !.bounds = bounds, !.clean = clean, !.rects = rects]
               \/ rd' = [rd EXCEPT !.phase = q]
      BY DEF InitRedraw
    <3> QED BY <1>2, <1>5, <3>1 DEF NextCycle, IsRedrawData
  <2> QED BY <1>2, <2>1, <2>2 DEF Process!absvars
<1>6. CASE FinishLast(t)
  <2>1. CASE Leave(t, rd)
    BY <1>2, <1>3, <2>1
  <2>2. CASE Leave(t, [rd EXCEPT !.phase = 2])
    <3> DEFINE r == [rd EXCEPT !.phase = 2]
    <3>1. IsRedrawData(r) /\ r.stage = "run" /\ r.numactive = rd.numactive
      BY <1>2 DEF IsRedrawData
    <3> QED BY <1>3, <2>2, <3>1
  <2> QED BY <1>6, <2>1, <2>2 DEF FinishLast
<1>7. CASE Abort(t)
  BY <1>2, <1>3, <1>7 DEF Abort
<1>8. CASE TimeOut(t)
  <2> DEFINE r == [rd EXCEPT !.timeoutflag = TRUE]
  <2>1. IsRedrawData(r) /\ r.stage = "run" /\ r.numactive = rd.numactive
    BY <1>2 DEF IsRedrawData
  <2> QED BY <1>3, <1>8, <2>1 DEF TimeOut
<1>9. ASSUME NEW c \in rd.rects, Cull(t, c)
      PROVE  UNCHANGED Process!absvars
  <2>1. rd'.stage = "run" /\ UNCHANGED tpc
    BY <1>2, <1>9 DEF Cull, IsRedrawData
  <2> QED BY <1>2, <2>1 DEF Process!absvars
<1>10. ASSUME NEW c \in rd.rects, BeginPaint(t, c)
       PROVE  UNCHANGED Process!absvars
  <2>1. rd'.stage = "run" /\ tpc' = [tpc EXCEPT ![t] = "paint"]
    BY <1>2, <1>10 DEF BeginPaint, IsRedrawData
  <2> QED BY <1>4, <2>1
<1>11. CASE EndPaint(t) \/ InTime(t)
  <2>1. rd'.stage = "run" /\ \E s \in {"loop", "painted"} : tpc' = [tpc EXCEPT ![t] = s]
    BY <1>2, <1>11 DEF EndPaint, InTime
  <2> QED BY <1>4, <2>1
<1> QED BY <1>5, <1>6, <1>7, <1>8, <1>9, <1>10, <1>11 DEF ThreadNext

LEMMA NextRefines == Inv /\ [Next]_vars => [Process!ProcessNext]_(Process!absvars)
<1> SUFFICES ASSUME Inv, [Next]_vars PROVE [Process!ProcessNext]_(Process!absvars)
  OBVIOUS
<1>1. CASE Request
  BY <1>1, RequestFrame, SameProcess
<1>2. CASE Aside
  BY <1>2, AsideFrame, SameProcess
<1>3. CASE Launch
  BY <1>3, LaunchRefines DEF Process!ProcessNext
<1>4. CASE InitTiler
  BY <1>4, InitTilerRefines DEF Process!ProcessNext
<1>5. CASE SignalExit
  BY <1>5, SignalExitRefines DEF Process!ProcessNext
<1>6. CASE AfterRedraw \/ UnrealizeDone
  BY <1>6, EndRefines DEF Process!ProcessNext
<1>7. ASSUME NEW t \in Threads, ThreadNext(t)
      PROVE  [Process!ProcessNext]_(Process!absvars)
  BY <1>7, ThreadRefines DEF Process!ProcessNext
<1>8. CASE UNCHANGED vars
  BY <1>8, SameProcess DEF vars, threadvars
<1> QED BY <1>1, <1>2, <1>3, <1>4, <1>5, <1>6, <1>7, <1>8, Steps

\* The redraw chain asks of the synchroniser what its interface promises: a
\* process is begun when none is in flight, and each end is handled once.
THEOREM CanvasIsAClient == Spec => ImplementsRedrawProcess
<1>1. Init => Process!ProcessInit
  <2> SUFFICES ASSUME Init PROVE Process!ProcessInit
    OBVIOUS
  <2>1. rd.stage = "none" /\ \A t \in Threads : tpc[t] = "off"
    BY DEF Init
  <2> QED BY <2>1 DEF Process!ProcessInit
<1> QED BY <1>1, Invariance, NextRefines, PTL
        DEF Spec, ImplementsRedrawProcess, Process!ProcessSpec

-----------------------------------------------------------------------------
(* Damage and the picture on the screen.                                   *)

\* The places where an edit can be on its way to the updater.  Between the
\* processes the items are at the affine of the store, unless a launch that
\* recreates the store is under way.
DamageInv ==
  /\ log \subseteq Units \X Units
  /\ log # {} => snapshotted
  /\ moved # {} => need_update
  /\ active /\ stores.mode # "None" /\ items_affine # stores.affine => Launching /\ up.clean = {}
  /\ active /\ view.width > 0 /\ (invalidated # {} \/ need_update)
       => redraw_active /\ (redraw_requested \/ Launching)
  /\ CleanIsAccounted

\* What a process has drawn once it has drawn the margin, and ran to its end;
\* and that it drew what the view shows unless another iteration is wanted.
CoverInv ==
  /\ redraw_active => view.width > 0
  /\ rd.stage = "run" /\ rd.phase = 2 /\ PrerenderStore # {}
       => rd.clean.alias = "clean" /\ PrerenderStore \subseteq rd.rects \cup up.clean
  /\ rd.stage \in {"drained", "exit"} /\ ~rd.timeoutflag /\ abort # "hard"
       => PrerenderStore \subseteq up.clean
  /\ rd.stage # "none" /\ abort = "hard" => mpc = "wait"
  /\ rd.stage # "none" /\ active /\ ~redraw_requested
       => /\ ~rd.decoupled => stores.affine = view.affine
          /\ rd.visible = IF rd.decoupled THEN Outwards(Area(view), view.affine, stores.affine)
                          ELSE Area(view)
  /\ IdleMeansCurrent

\* Regions of cells are finite, and so is what is behind them.
Region(r) == r \in SUBSET Int /\ IsFiniteSet(r)

RegionInv ==
  /\ strategy \in UsedStrategies /\ up.strategy \in UsedStrategies
  /\ requests \in 0..MaxRequests
  /\ abort \in {"none", "soft", "hard"} /\ lock \in Threads \cup {NoThread}
  /\ rd.decoupled \in BOOLEAN /\ rd.timeoutflag \in BOOLEAN
  /\ items_affine \in Affines \cup {1} /\ stores.affine \in Affines \cup {1}
  /\ log \in SUBSET (Units \X Units) /\ IsFiniteSet(log)
  /\ moved \in SUBSET Units /\ IsFiniteSet(moved)
  /\ Region(invalidated) /\ Region(shown) /\ Region(stores.drawn) /\ Region(stores.snap)
  /\ Region(up.clean) /\ Region(rd.rects) /\ Region(rd.bounds) /\ Region(rd.visible)

-----------------------------------------------------------------------------
(* Footprints, and what is stale.                                          *)

LEMMA FootprintMonotone ==
  ASSUME NEW U, NEW V, U \subseteq V, NEW a
  PROVE  Footprint(U, a) \subseteq Footprint(V, a)
BY DEF Footprint

LEMMA FootprintEmpty ==
  ASSUME NEW a
  PROVE  Footprint({}, a) = {}
BY DEF Footprint

LEMMA EndsFacts ==
  ASSUME NEW L \in SUBSET (Units \X Units), NEW e \in Units \X Units
  PROVE  /\ Ends(L \cup {e}) = Ends(L) \cup Ends({e})
         /\ Ends({e}) = {e[1], e[2]}
BY DEF Ends

LEMMA EndsEmpty == Ends({}) = {}
BY DEF Ends

\* Committing the tiles shows them, but for what is stale.
LEMMA CommitAccounts ==
  ASSUME NEW clean, NEW painting, NEW stale, NEW stale2, stale \subseteq stale2,
         clean \subseteq shown \cup tiles \cup painting \cup stale
  PROVE  clean \subseteq ((shown \ tiles) \cup (tiles \ stale)) \cup painting \cup stale2
OBVIOUS

\* A step that leaves the drawing and the links alone.
LEMMA DamageFrame ==
  ASSUME Inv, DamageInv, UNCHANGED mainvars, items_affine = stores.affine,
         up'.clean \subseteq up.clean \cup tiles' \cup Painting',
         tiles \cup Painting \subseteq tiles' \cup Painting'
  PROVE  DamageInv'
<1>1. UNCHANGED <<active, redraw_active, redraw_requested, mpc, need_update, snapshotted, log, moved,
                  view, stores, items_affine, invalidated, shown>>
  BY DEF mainvars, viewvars, schedvars, drawingvars, storevars
<1>2. Stale' = Stale
  BY <1>1 DEF Stale, Ends
<1>3. CleanIsAccounted'
  BY <1>1, <1>2 DEF DamageInv, CleanIsAccounted
<1> QED BY <1>1, <1>3 DEF DamageInv, Launching

-----------------------------------------------------------------------------
(* The user's calls.                                                       *)

\* Between the links of the chain the items are at the affine of the store.
LEMMA ItemsAtStore ==
  ASSUME Inv, DamageInv, ~Launching, active, stores.mode # "None"
  PROVE  items_affine = stores.affine
BY DEF DamageInv

\* A request that is scheduled has an iteration coming.
LEMMA ScheduleComes ==
  ASSUME LinkInv, NEW w, NEW instant, ScheduleRedraw(w, instant), active, w > 0
  PROVE  redraw_active' = TRUE /\ redraw_requested' = TRUE
<1>1. CanSchedule(w)
  BY DEF CanSchedule
<1>2. redraw_requested' = (redraw_requested \/ CanSchedule(w))
      /\ redraw_active' = (redraw_active \/ (CanSchedule(w) /\ (~redraw_active \/ (conn /\ instant))))
  BY DEF ScheduleRedraw
<1>3. redraw_active \in BOOLEAN
  BY DEF LinkInv
<1> QED BY <1>1, <1>2, <1>3

\* A request accounts for what it outdates, and is scheduled when it has to be.
LEMMA RequestFrameDamage ==
  ASSUME Inv, DamageInv, Request, UNCHANGED <<stores, up, tiles, trect, items_affine, active>>,
         log' \subseteq Units \X Units, log' # {} => snapshotted', moved' # {} => need_update',
         active /\ view'.width > 0 /\ (invalidated' # {} \/ need_update')
           => redraw_active' /\ redraw_requested',
         active /\ stores.mode # "None" => shown \cup Stale \subseteq shown' \cup Stale'
  PROVE  DamageInv'
<1>1. mpc = "loop"
  BY RequestFrame
<1>2. active /\ stores.mode # "None" => items_affine = stores.affine
  BY <1>1, ItemsAtStore DEF Launching
<1>3. Painting' = Painting
  BY DEF Painting
<1>4. CleanIsAccounted'
  BY <1>3 DEF DamageInv, CleanIsAccounted
<1> QED BY <1>2, <1>4 DEF DamageInv

LEMMA RequestDamage ==
  ASSUME Inv, DamageInv, Request
  PROVE  DamageInv'
<1> USE DEF UserCall, viewvars, schedvars, drawingvars, storevars, threadvars
<1>1. LinkInv /\ mpc = "loop"
      /\ UNCHANGED <<stores, up, tiles, trect, items_affine, active, snapshotted>>
  BY RequestFrame DEF Inv
<1>2. log \subseteq Units \X Units /\ (log # {} => snapshotted) /\ (moved # {} => need_update)
  BY DEF DamageInv
<1>3. ASSUME NEW w, NEW instant, ScheduleRedraw(w, instant), view'.width = w, UNCHANGED <<log, moved, need_update>>,
             UNCHANGED shown, invalidated \subseteq invalidated'
      PROVE  DamageInv'
  <2>1. active /\ view'.width > 0 => redraw_active' /\ redraw_requested'
    BY <1>1, <1>3, ScheduleComes
  <2>2. shown \cup Stale \subseteq shown' \cup Stale'
    BY <1>1, <1>3 DEF Stale, Ends
  <2> QED BY <1>1, <1>2, <1>3, <2>1, <2>2, RequestFrameDamage
<1>4. ASSUME NEW u \in Units, RequestRedrawArea(u) PROVE DamageInv'
  <2>1. /\ ScheduleRedraw(view.width, FALSE) /\ view' = view /\ UNCHANGED <<log, moved, need_update, shown>>
        /\ invalidated \subseteq invalidated'
    BY <1>4 DEF RequestRedrawArea, RedrawArea
  <2> QED BY <1>3, <2>1
<1>5. ASSUME NEW p \in Positions, SetPos(p) PROVE DamageInv'
  <2>1. /\ ScheduleRedraw(view.width, FALSE) /\ view' = [view EXCEPT !.pos = p]
        /\ UNCHANGED <<log, moved, need_update, shown, invalidated>>
    BY <1>5 DEF SetPos
  <2>2. view'.width = view.width
    BY <2>1 DEF Inv, ShapeInv, ViewType
  <2> QED BY <1>3, <2>1, <2>2
<1>6. ASSUME NEW a \in Affines, SetAffine(a) PROVE DamageInv'
  <2>1. /\ ScheduleRedraw(view.width, FALSE) /\ view' = [view EXCEPT !.affine = a]
        /\ UNCHANGED <<log, moved, need_update, shown, invalidated>>
    BY <1>6 DEF SetAffine
  <2>2. view'.width = view.width
    BY <2>1 DEF Inv, ShapeInv, ViewType
  <2> QED BY <1>3, <2>1, <2>2
<1>7. ASSUME NEW v \in Views, SizeAllocate(v) PROVE DamageInv'
  <2>1. /\ ScheduleRedraw(v.width, TRUE) /\ view' = v
        /\ UNCHANGED <<log, moved, need_update, shown, invalidated>>
    BY <1>7 DEF SizeAllocate
  <2> QED BY <1>3, <2>1
<1>8. ASSUME NEW s \in UsedStrategies, SetStrategy(s) PROVE DamageInv'
  <2>1. UNCHANGED <<log, moved, need_update, shown, invalidated, view, redraw_active, redraw_requested, mpc>>
    BY <1>8 DEF SetStrategy
  <2>2. Stale' = Stale
    BY <1>1, <2>1 DEF Stale, Ends
  <2>3. active /\ view'.width > 0 /\ (invalidated' # {} \/ need_update')
           => redraw_active' /\ redraw_requested'
    BY <1>1, <2>1 DEF DamageInv, Launching
  <2> QED BY <1>1, <1>2, <2>1, <2>2, <2>3, RequestFrameDamage
<1>9. ASSUME RequestRedrawAll PROVE DamageInv'
  <2>1. /\ ScheduleRedraw(view.width, FALSE) /\ view' = view /\ UNCHANGED <<log, moved, need_update, shown>>
        /\ invalidated \subseteq invalidated'
    BY <1>9 DEF RequestRedrawAll
  <2> QED BY <1>3, <2>1
<1>10. ASSUME NEW e \in Units \X Units, Edit(e) PROVE DamageInv'
  <2>1. shown' = shown \ Footprint(Ends({e}), stores.affine) /\ view' = view
    BY <1>10 DEF Edit
  <2>2. active /\ stores.mode # "None" => items_affine = stores.affine
    BY <1>1, ItemsAtStore DEF Launching
  <2>3. CASE snapshotted
    <3>1. log' = log \cup {e}
          /\ UNCHANGED <<moved, need_update, redraw_requested, redraw_active, invalidated>>
      BY <1>10, <2>3 DEF Edit
    <3>2. Ends(log') = Ends(log) \cup Ends({e})
      BY <1>2, <3>1, EndsFacts
    <3>3. Ends({e}) \subseteq Ends(log') \cup moved' /\ Ends(log) \cup moved \subseteq Ends(log') \cup moved'
      BY <3>1, <3>2
    <3>4. /\ Footprint(Ends({e}), items_affine) \subseteq Footprint(Ends(log') \cup moved', items_affine)
          /\ Footprint(Ends(log) \cup moved, items_affine)
               \subseteq Footprint(Ends(log') \cup moved', items_affine)
      BY <3>3, FootprintMonotone
    <3>5. active /\ stores.mode # "None" => shown \cup Stale \subseteq shown' \cup Stale'
      <4>1. Stale' = Footprint(Ends(log') \cup moved', items_affine) \cup invalidated
        BY <1>1, <3>1 DEF Stale, Ends
      <4>2. Stale = Footprint(Ends(log) \cup moved, items_affine) \cup invalidated
        BY DEF Stale
      <4> QED BY <2>1, <2>2, <3>4, <4>1, <4>2
    <3>6. active /\ view'.width > 0 /\ (invalidated' # {} \/ need_update')
             => redraw_active' /\ redraw_requested'
      BY <1>1, <2>1, <3>1 DEF DamageInv, Launching
    <3>7. log' \subseteq Units \X Units
      BY <1>2, <3>1
    <3> QED BY <1>1, <1>2, <2>3, <3>1, <3>5, <3>6, <3>7, RequestFrameDamage
  <2>4. CASE ~snapshotted
    <3>1. /\ RedrawArea(Footprint({e[1]}, items_affine))
          /\ moved' = IF e[1] = e[2] THEN moved ELSE moved \cup {e[2]}
          /\ need_update' = (need_update \/ e[1] # e[2])
          /\ log' = log
      BY <1>10, <2>4 DEF Edit
    <3>2. /\ ScheduleRedraw(view.width, FALSE)
          /\ invalidated' = IF active THEN invalidated \cup Footprint({e[1]}, items_affine) ELSE invalidated
      BY <3>1 DEF RedrawArea
    <3>3. active /\ view'.width > 0 => redraw_active' /\ redraw_requested'
      BY <1>1, <2>1, <3>2, ScheduleComes
    <3>4. moved' # {} => need_update'
      BY <1>2, <3>1
    <3>5. active => Footprint(Ends({e}), items_affine) \subseteq Stale'
      <4>1. Ends({e}) \subseteq {e[1]} \cup moved'
        BY <3>1, EndsFacts
      <4>2. Footprint(Ends({e}), items_affine)
              \subseteq Footprint({e[1]}, items_affine) \cup Footprint(moved', items_affine)
        <5>1. Footprint(Ends({e}), items_affine) \subseteq Footprint({e[1]} \cup moved', items_affine)
          BY <4>1, FootprintMonotone
        <5>2. Footprint({e[1]} \cup moved', items_affine)
                = Footprint({e[1]}, items_affine) \cup Footprint(moved', items_affine)
          BY FootprintUnion
        <5> QED BY <5>1, <5>2
      <4>3. Footprint(moved', items_affine) \subseteq Footprint(Ends(log') \cup moved', items_affine)
        BY FootprintMonotone
      <4>4. Stale' = Footprint(Ends(log') \cup moved', items_affine) \cup invalidated'
        BY <1>1 DEF Stale, Ends
      <4> QED BY <3>2, <4>2, <4>3, <4>4
    <3>6. Stale \subseteq Stale'
      <4>1. Footprint(Ends(log) \cup moved, items_affine) \subseteq Footprint(Ends(log') \cup moved', items_affine)
        BY <3>1, FootprintMonotone
      <4>2. Stale' = Footprint(Ends(log') \cup moved', items_affine) \cup invalidated'
        BY <1>1 DEF Stale, Ends
      <4> QED BY <3>2, <4>1, <4>2 DEF Stale
    <3>7. active /\ stores.mode # "None" => shown \cup Stale \subseteq shown' \cup Stale'
      BY <2>1, <2>2, <3>5, <3>6
    <3> QED BY <1>1, <1>2, <3>1, <3>3, <3>4, <3>7, RequestFrameDamage
  <2> QED BY <2>3, <2>4
<1> HIDE DEF UserCall, viewvars, schedvars, drawingvars, storevars, threadvars
<1> QED BY <1>4, <1>5, <1>6, <1>7, <1>8, <1>9, <1>10 DEF Request

-----------------------------------------------------------------------------
(* The main thread.                                                        *)

LEMMA AsideDamage ==
  ASSUME Inv, DamageInv, Aside
  PROVE  DamageInv'
<1> USE DEF UserCall, viewvars, schedvars, drawingvars, storevars, threadvars
<1>1. /\ log \subseteq Units \X Units /\ (log # {} => snapshotted) /\ (moved # {} => need_update)
      /\ UNCHANGED <<up, trect, items_affine, view, snapshotted>>
      /\ stores'.affine = stores.affine
  BY AsideFrame DEF DamageInv
<1>2. Painting' = Painting
  BY <1>1 DEF Painting
<1>3. ASSUME UNCHANGED <<active, stores, shown, tiles, log, moved, need_update, invalidated,
                         redraw_active, redraw_requested>>,
             mpc = "loop", redraw_active \/ ~Launching'
      PROVE  DamageInv'
  <2>1. Stale' = Stale
    BY <1>1, <1>3 DEF Stale, Ends
  <2>2. CleanIsAccounted'
    BY <1>1, <1>2, <1>3, <2>1 DEF DamageInv, CleanIsAccounted
  <2>3. active /\ stores.mode # "None" => items_affine = stores.affine
    BY <1>3, ItemsAtStore DEF Launching
  <2>4. active' /\ view'.width > 0 /\ (invalidated' # {} \/ need_update')
          => redraw_active' /\ (redraw_requested' \/ Launching')
    BY <1>1, <1>3 DEF DamageInv, Launching
  <2> QED BY <1>1, <1>3, <2>2, <2>3, <2>4 DEF DamageInv
<1>4. CASE IdleLaunch
  <2>1. redraw_active
    BY <1>4 DEF IdleLaunch, Inv, LinkInv
  <2> QED BY <1>3, <1>4, <2>1 DEF IdleLaunch
<1>5. CASE PaintWidget
  <2>1. conn => redraw_active
    BY DEF Inv, LinkInv
  <2>2. ~conn => mpc' = "paint"
    BY <1>5 DEF PaintWidget
  <2> QED BY <1>3, <1>5, <2>1, <2>2 DEF PaintWidget, Launching
<1>6. CASE PaintCommit
  <2>1. /\ mpc = "paint" /\ mpc' = "loop" /\ tiles' = {}
        /\ shown' = (shown \ tiles) \cup (tiles \ Stale)
        /\ UNCHANGED <<active, log, moved, need_update, invalidated, redraw_active, redraw_requested>>
    BY <1>6 DEF PaintCommit, CommitTiles, TilesReaped
  <2>2. stores'.mode = stores.mode
    BY <1>6, CommitFacts DEF PaintCommit
  <2>3. Stale' = Stale
    BY <1>1, <2>1 DEF Stale, Ends
  <2>4. CleanIsAccounted'
    <3> SUFFICES ASSUME active, stores.mode # "None"
                 PROVE  up.clean \subseteq shown' \cup tiles' \cup Painting \cup Stale
      BY <1>1, <1>2, <2>1, <2>2, <2>3 DEF CleanIsAccounted
    <3>1. up.clean \subseteq shown \cup tiles \cup Painting \cup Stale
      BY DEF DamageInv, CleanIsAccounted
    <3> QED BY <2>1, <3>1, CommitAccounts
  <2>5. active /\ stores.mode # "None" => items_affine = stores.affine
    BY <2>1, ItemsAtStore DEF Launching
  <2>6. active' /\ view'.width > 0 /\ (invalidated' # {} \/ need_update')
          => redraw_active' /\ (redraw_requested' \/ Launching')
    BY <1>1, <2>1 DEF DamageInv, Launching
  <2> QED BY <1>1, <2>1, <2>2, <2>4, <2>5, <2>6 DEF DamageInv
<1>7. CASE Realize
  <2>1. /\ stores' = ResetStores(stores) /\ need_update' = TRUE
        /\ redraw_requested' = (redraw_requested \/ view.width > 0)
        /\ redraw_active' = (view.width > 0)
        /\ UNCHANGED <<log, moved, invalidated>>
    BY <1>7 DEF Realize
  <2>2. stores'.mode = "None"
    BY <2>1, ResetStoresFacts DEF Inv, ShapeInv
  <2>3. view.width > 0 => redraw_active' /\ redraw_requested'
    BY <2>1
  <2>4. CleanIsAccounted'
    BY <2>2 DEF CleanIsAccounted
  <2> QED BY <1>1, <2>1, <2>2, <2>3, <2>4 DEF DamageInv
<1>8. CASE Unrealize \/ UnrealizeBusy
  <2>1. active' = FALSE /\ UNCHANGED <<log, moved, need_update>>
    BY <1>8 DEF Unrealize, UnrealizeBusy
  <2>2. CleanIsAccounted'
    BY <2>1 DEF CleanIsAccounted
  <2> QED BY <1>1, <2>1, <2>2 DEF DamageInv
<1> HIDE DEF UserCall, viewvars, schedvars, drawingvars, storevars, threadvars
<1> QED BY <1>4, <1>5, <1>6, <1>7, <1>8 DEF Aside

\* What a launch does to the clean region and to what the store shows.
LEMMA LaunchDamage ==
  ASSUME Inv, DamageInv, Launch
  PROVE  DamageInv'
<1> DEFINE result == UpdateStores(stores, view)
           s == result.stores
           a == result.action
           kept == UpdaterAfter(up, a, s)
           u == SwitchUpdater(kept, strategy)
           v == MarkDirty(u, DirtyRegion(a, s))
<1>1. /\ mpc \in {"launch", "paintlaunch"} /\ stores' = s /\ items_affine' = s.affine
      /\ shown' = ShownAfter(shown, a, s) /\ invalidated' = {}
      /\ need_update' = FALSE /\ up' = NextFrame(v) /\ snapshotted' = TRUE
      /\ moved' = IF NeedsUpdate(s) THEN {} ELSE moved
      /\ UNCHANGED <<active, view, log, trect, tiles>>
  BY DEF Launch, viewvars, threadvars
<1>2. LinkInv /\ IsStores(stores) /\ IsUpdater(up) /\ stores.mode \in Modes
  BY DEF Inv, ShapeInv
<1>3. rd.stage = "none" /\ ~snapshotted
  BY <1>1, <1>2 DEF LinkInv, Launching
<1>4. log = {} /\ (moved # {} => need_update)
  BY <1>3 DEF DamageInv
<1>5. tiles = {} /\ Painting = {}
  <2>1. \A t \in Threads : trect[t] = {}
    BY <1>3, ThreadsOff
  <2> QED BY <1>3, <2>1 DEF Inv, StoreInv, Painting
<1>6. /\ a \in Actions /\ (stores.mode = "None" => a = "Recreated")
      /\ a = "None" => s = stores
      /\ a = "Shifted" => s.affine = stores.affine
  BY <1>2, UpdateStoresFacts
<1>7. up'.clean = kept.clean \ DirtyRegion(a, s)
  <2> HIDE DEF s, a
  <2>1. IsUpdater(kept)
    BY <1>2, <1>6, UpdaterAfterFacts
  <2> HIDE DEF kept
  <2>2. IsUpdater(u) /\ u.clean = kept.clean
    BY <2>1, SwitchUpdaterFacts
  <2> HIDE DEF u
  <2>3. IsUpdater(v) /\ v.clean = u.clean \ DirtyRegion(a, s)
    BY <2>2, MarkDirtyFacts
  <2> HIDE DEF v
  <2>4. up'.clean = v.clean
    BY <1>1, <2>3, NextFrameFacts
  <2> QED BY <2>2, <2>3, <2>4
<1>8. kept.clean = CASE a = "Recreated" -> {}
                     [] a = "Shifted" -> up.clean \cap s.rect
                     [] a = "None" -> up.clean
  <2> HIDE DEF s, a
  <2> QED BY <1>2, <1>6, UpdaterAfterFacts
<1> HIDE DEF result, s, a, kept, u, v
<1>9. moved' = {}
  BY <1>1, <1>4 DEF NeedsUpdate
<1>10. CleanIsAccounted'
  <2> SUFFICES ASSUME active PROVE up'.clean \subseteq shown'
    BY <1>1 DEF CleanIsAccounted
  <2>1. CASE a = "Recreated"
    BY <1>7, <1>8, <2>1
  <2>2. CASE a # "Recreated"
    <3>1. stores.mode # "None" /\ s.affine = stores.affine
      BY <1>6, <2>2 DEF Actions
    <3>2. up.clean \subseteq shown \cup Footprint(moved, items_affine) \cup invalidated
      <4>1. up.clean \subseteq shown \cup tiles \cup Painting \cup Stale
        BY <3>1 DEF DamageInv, CleanIsAccounted
      <4>2. Stale = Footprint(moved, items_affine) \cup invalidated
        <5>1. Ends(log) \cup moved = moved
          BY <1>4, EndsEmpty
        <5> QED BY <5>1 DEF Stale
      <4> QED BY <1>5, <4>1, <4>2
    <3>3. items_affine = s.affine \/ up.clean = {}
      BY <3>1 DEF DamageInv
    <3>4. Footprint(moved, s.affine) \subseteq DirtyRegion(a, s)
      <4>1. CASE NeedsUpdate(s)
        BY <4>1 DEF DirtyRegion
      <4>2. CASE ~NeedsUpdate(s)
        <5>1. moved = {}
          BY <1>4, <4>2 DEF NeedsUpdate
        <5> QED BY <5>1, FootprintEmpty
      <4> QED BY <4>1, <4>2
    <3>5. up.clean \subseteq shown \cup DirtyRegion(a, s) \cup invalidated
      BY <3>2, <3>3, <3>4
    <3>6. CASE a = "Shifted"
      <4>1. invalidated \cap s.rect \subseteq DirtyRegion(a, s)
        BY <3>6 DEF DirtyRegion, InvalidatedAfter
      <4>2. kept.clean = up.clean \cap s.rect /\ shown' = shown \cap s.rect
        BY <1>1, <1>8, <3>6 DEF ShownAfter
      <4> QED BY <1>7, <3>5, <4>1, <4>2
    <3>7. CASE a = "None"
      <4>1. invalidated \subseteq DirtyRegion(a, s)
        BY <3>7 DEF DirtyRegion, InvalidatedAfter
      <4>2. kept.clean = up.clean /\ shown' = shown
        BY <1>1, <1>8, <3>7 DEF ShownAfter
      <4> QED BY <1>7, <3>5, <4>1, <4>2
    <3> QED BY <1>6, <2>2, <3>6, <3>7 DEF Actions
  <2> QED BY <2>1, <2>2
<1> QED BY <1>1, <1>4, <1>9, <1>10 DEF DamageInv

\* Making the deferred edits leaves nothing out of what is stale.
LEMMA UnsnapshotFacts ==
  ASSUME Inv, DamageInv, Unsnapshot
  PROVE  /\ log' = {} /\ (moved' # {} => need_update') /\ items_affine' = items_affine
         /\ log = {} => moved' = moved /\ need_update' = need_update
         /\ Stale \subseteq Footprint(moved', items_affine) \cup Repainted \cup invalidated
<1> DEFINE news == {e[2] : e \in {x \in log : x[1] # x[2]}}
<1>1. /\ log' = {} /\ moved' = moved \cup news /\ items_affine' = items_affine
      /\ need_update' = (need_update \/ \E e \in log : e[1] # e[2])
  BY DEF Unsnapshot
<1>2. log \subseteq Units \X Units /\ (moved # {} => need_update) /\ need_update \in BOOLEAN
  BY DEF Inv, LinkInv, DamageInv
<1>3. moved' # {} => need_update'
  <2>1. news # {} => \E e \in log : e[1] # e[2]
    OBVIOUS
  <2> HIDE DEF news
  <2> QED BY <1>1, <1>2, <2>1
<1>4. log = {} => moved' = moved /\ need_update' = need_update
  BY <1>1, <1>2
<1>5. Ends(log) \subseteq {e[1] : e \in log} \cup news
  BY <1>2 DEF Ends
<1>6. Stale \subseteq Footprint(moved', items_affine) \cup Repainted \cup invalidated
  <2> DEFINE olds == {e[1] : e \in log}
  <2>1. Ends(log) \cup moved \subseteq olds \cup moved'
    BY <1>1, <1>5
  <2> HIDE DEF olds
  <2>2. Footprint(Ends(log) \cup moved, items_affine) \subseteq Footprint(olds \cup moved', items_affine)
    BY <2>1, FootprintMonotone
  <2>3. Footprint(olds \cup moved', items_affine)
          = Footprint(olds, items_affine) \cup Footprint(moved', items_affine)
    BY FootprintUnion
  <2> QED BY <2>2, <2>3 DEF Stale, Repainted, olds
<1> QED BY <1>1, <1>3, <1>4, <1>6

LEMMA AfterRedrawDamage ==
  ASSUME Inv, DamageInv, AfterRedraw
  PROVE  DamageInv'
<1> DEFINE drawn == MarkDrawn(stores, tiles)
           result == IF rd.timeoutflag THEN [stores |-> drawn, action |-> "None"]
                     ELSE FinishedDraw(drawn, view)
           a == result.action
           s == result.stores
           committed == (shown \ tiles) \cup (tiles \ Stale)
           again == StartOver(a)
<1>1. /\ mpc = "loop" /\ rd.stage = "exit" /\ Unsnapshot /\ tiles' = {}
      /\ stores' = s /\ shown' = ShownAfter(committed, a, s)
      /\ invalidated' = InvalidatedAfter(invalidated \cup Repainted, a, s)
      /\ up' = UpdaterAfter(up, a, s)
      /\ redraw_active' = again
      /\ mpc' = IF again THEN "launch" ELSE "loop"
      /\ UNCHANGED <<active, view, trect>>
  BY DEF AfterRedraw, TilesReaped, viewvars, threadvars
<1>2. LinkInv /\ IsStores(stores) /\ IsUpdater(up) /\ stores.mode \in Modes
  BY DEF Inv, ShapeInv
<1>3. stores.mode # "None" /\ items_affine = stores.affine
  BY <1>1 DEF Inv, StoreInv
<1>4. IsStores(drawn) /\ drawn.affine = stores.affine
  BY <1>2, MarkDrawnFacts
<1>5. a \in {"None", "Recreated"} /\ (a = "None" => s.affine = stores.affine)
  <2> HIDE DEF drawn
  <2>1. CASE rd.timeoutflag
    <3>1. s = drawn /\ a = "None"
      BY <2>1
    <3> HIDE DEF result
    <3> QED BY <1>4, <3>1
  <2>2. CASE ~rd.timeoutflag
    <3>1. result = FinishedDraw(drawn, view)
      BY <2>2
    <3> HIDE DEF result
    <3> QED BY <1>4, <3>1, FinishedDrawFacts
  <2> QED BY <2>1, <2>2
<1> HIDE DEF drawn, result, s, a
<1>6. /\ a = "Recreated" => up'.clean = {}
      /\ a = "None" => up'.clean = up.clean
  <2>1. a = "Recreated" => UpdaterAfter(up, a, s) = ResetUpdater(up)
    BY DEF UpdaterAfter
  <2>2. ResetUpdater(up).clean = {}
    BY <1>2, ResetUpdaterFacts
  <2>3. a = "Recreated" => UpdaterAfter(up, a, s).clean = {}
    BY <2>1, <2>2
  <2>4. a = "None" => UpdaterAfter(up, a, s).clean = up.clean
    BY DEF UpdaterAfter
  <2> QED BY <1>1, <2>3, <2>4
<1>7. /\ log' = {} /\ (moved' # {} => need_update') /\ items_affine' = items_affine
      /\ log = {} => moved' = moved /\ need_update' = need_update
      /\ Stale \subseteq Footprint(moved', items_affine) \cup Repainted \cup invalidated
  BY <1>1, UnsnapshotFacts
<1>8. CleanIsAccounted'
  <2> SUFFICES ASSUME active PROVE up'.clean \subseteq shown' \cup Painting' \cup Stale'
    BY <1>1 DEF CleanIsAccounted
  <2>1. CASE a = "Recreated"
    BY <1>6, <2>1
  <2>2. CASE a = "None"
    <3>1. shown' = committed /\ invalidated' = invalidated \cup Repainted
      BY <1>1, <2>2 DEF ShownAfter, InvalidatedAfter
    <3>2. Stale' = Footprint(moved', items_affine) \cup invalidated'
      <4>1. Ends(log') \cup moved' = moved'
        BY <1>7, EndsEmpty
      <4>2. Stale' = Footprint(Ends(log') \cup moved', items_affine') \cup invalidated'
        BY DEF Stale, Ends
      <4> QED BY <1>7, <4>1, <4>2
    <3>3. Stale \subseteq Stale'
      BY <1>7, <3>1, <3>2
    <3>4. up.clean \subseteq shown \cup tiles \cup Painting \cup Stale
      BY <1>3 DEF DamageInv, CleanIsAccounted
    <3>5. up.clean \subseteq committed \cup Painting \cup Stale'
      BY <3>3, <3>4, CommitAccounts
    <3>6. Painting' = Painting
      BY <1>1 DEF Painting
    <3> QED BY <1>6, <2>2, <3>1, <3>5, <3>6
  <2> QED BY <1>5, <2>1, <2>2
<1>9. ASSUME active, view.width > 0, invalidated' # {} \/ need_update' PROVE again
  <2> SUFFICES ASSUME ~again PROVE FALSE
    OBVIOUS
  <2>1. redraw_requested # TRUE /\ log = {} /\ a = "None"
    BY <1>5 DEF StartOver
  <2>2. need_update' = need_update /\ invalidated' = invalidated
    <3>1. Repainted = {}
      BY <2>1, FootprintEmpty DEF Repainted
    <3> QED BY <1>1, <1>7, <2>1, <3>1 DEF InvalidatedAfter
  <2>3. redraw_requested
    BY <1>1, <1>9, <2>2 DEF DamageInv, Launching
  <2> QED BY <1>2, <2>1, <2>3 DEF LinkInv
<1>10. a = "Recreated" => again
  BY DEF StartOver
<1> HIDE DEF again
<1>11. again => redraw_active' /\ Launching'
  BY <1>1 DEF Launching
<1> QED BY <1>1, <1>3, <1>5, <1>6, <1>7, <1>8, <1>9, <1>10, <1>11 DEF DamageInv

LEMMA UnrealizeDoneDamage ==
  ASSUME Inv, DamageInv, UnrealizeDone
  PROVE  DamageInv'
<1>1. active' = FALSE /\ Unsnapshot
  BY DEF UnrealizeDone, Inv, LinkInv
<1>2. log' = {} /\ (moved' # {} => need_update')
  BY <1>1, UnsnapshotFacts
<1>3. CleanIsAccounted'
  BY <1>1 DEF CleanIsAccounted
<1> QED BY <1>1, <1>2, <1>3 DEF DamageInv

-----------------------------------------------------------------------------
(* The process and its threads.                                            *)

LEMMA SetUpDamage ==
  ASSUME Inv, DamageInv, InitTiler \/ SignalExit
  PROVE  DamageInv'
<1>1. rd.stage # "none" /\ UNCHANGED <<mainvars, trect, tiles>>
  <2>1. CASE InitTiler
    <3>1. rd.stage # "none" /\ UNCHANGED <<viewvars, schedvars, drawingvars, storevars, trect, tiles, abort>>
      BY <2>1 DEF InitTiler
    <3> QED BY <3>1 DEF mainvars
  <2>2. CASE SignalExit
    BY <2>2 DEF SignalExit, threadvars
  <2> QED BY <2>1, <2>2
<1>2. items_affine = stores.affine /\ rd.store \in SUBSET Int /\ IsFiniteSet(rd.store)
      /\ IsUpdater(up) /\ IsRedrawData(rd)
  BY <1>1 DEF Inv, ShapeInv, StoreInv
<1>3. up'.clean = up.clean
  <2>1. CASE InitTiler
    <3> DEFINE r1 == [rd EXCEPT !.stage = "run", !.timeoutflag = FALSE,
                                !.numactive = Cardinality(Threads)]
               r2 == [rd EXCEPT !.stage = "drained"]
    <3>1. IsRedrawData(r1) /\ IsRedrawData(r2)
      BY <1>2 DEF IsRedrawData
    <3>2. InitRedraw(0, r1, up) \/ InitRedraw(0, r2, up)
      BY <2>1 DEF InitTiler
    <3> HIDE DEF r1, r2
    <3> QED BY <1>2, <3>1, <3>2, InitRedrawFacts
  <2>2. CASE SignalExit
    BY <2>2 DEF SignalExit
  <2> QED BY <2>1, <2>2
<1>4. UNCHANGED mainvars /\ UNCHANGED <<trect, tiles>>
  BY <1>1
<1>5. Painting' = Painting
  BY <1>4 DEF Painting
<1> HIDE DEF mainvars
<1> QED BY <1>2, <1>3, <1>4, <1>5, DamageFrame

LEMMA ThreadDamage ==
  ASSUME Inv, DamageInv, NEW t \in Threads, ThreadNext(t)
  PROVE  DamageInv'
<1>1. UNCHANGED mainvars
  BY ThreadKeeps
<1>2. tpc[t] # "off" /\ tpc \in [Threads -> ThreadStates]
  BY DEF ThreadNext, NextCycle, FinishLast, Abort, Cull, BeginPaint, EndPaint, InTime, TimeOut, AtLoop,
    Inv, CountInv
<1>3. /\ items_affine = stores.affine /\ rd.store \in SUBSET Int /\ IsFiniteSet(rd.store)
      /\ IsUpdater(up) /\ IsRedrawData(rd)
      /\ trect \in [Threads -> SUBSET stores.rect]
      /\ \A x \in Threads : tpc[x] # "paint" => trect[x] = {}
  BY <1>2, ThreadRuns DEF Inv, ShapeInv, StoreInv
<1>4. ASSUME UNCHANGED <<trect, tiles>>, up'.clean = up.clean PROVE DamageInv'
  <2>1. Painting' = Painting
    BY <1>4 DEF Painting
  <2> QED BY <1>1, <1>3, <1>4, <2>1, DamageFrame
<1>5. FinishCycle(up).clean = up.clean /\ IsUpdater(FinishCycle(up))
  BY <1>3, FinishCycleFacts
<1>6. CASE NextCycle(t)
  <2>1. PICK p \in {1, 2}, u \in {up, FinishCycle(up)} : InitRedraw(p, rd, u)
    BY <1>6 DEF NextCycle
  <2>2. up'.clean = u.clean
    BY <1>3, <1>5, <2>1, InitRedrawFacts
  <2> QED BY <1>4, <1>5, <1>6, <2>2 DEF NextCycle
<1>7. CASE FinishLast(t)
  BY <1>4, <1>5, <1>7 DEF FinishLast
<1>8. CASE Abort(t) \/ InTime(t) \/ TimeOut(t)
  BY <1>4, <1>8 DEF Abort, InTime, TimeOut
<1>9. ASSUME NEW c \in rd.rects, Cull(t, c) PROVE DamageInv'
  BY <1>4, <1>9 DEF Cull
<1>10. ASSUME NEW c \in rd.rects, BeginPaint(t, c) PROVE DamageInv'
  <2>1. /\ tpc[t] = "loop" /\ trect' = [trect EXCEPT ![t] = Extended(c)]
        /\ up' = MarkClean(up, Extended(c)) /\ UNCHANGED tiles
    BY <1>10 DEF BeginPaint, AtLoop
  <2>2. up'.clean = up.clean \cup Extended(c)
    BY <1>3, <2>1, MarkCleanFacts
  <2>3. Painting' = Painting \cup Extended(c)
    <3>1. \A x \in Threads : trect'[x] = IF x = t THEN Extended(c) ELSE trect[x]
      BY <1>3, <2>1
    <3>2. trect[t] = {}
      BY <1>3, <2>1
    <3> QED BY <3>1, <3>2 DEF Painting
  <2> QED BY <1>1, <1>3, <2>1, <2>2, <2>3, DamageFrame
<1>11. CASE EndPaint(t)
  <2>1. tiles' = tiles \cup trect[t] /\ trect' = [trect EXCEPT ![t] = {}] /\ UNCHANGED up
    BY <1>11 DEF EndPaint
  <2>2. tiles \cup Painting \subseteq tiles' \cup Painting'
    <3>1. \A x \in Threads : trect'[x] = IF x = t THEN {} ELSE trect[x]
      BY <1>3, <2>1
    <3> QED BY <2>1, <3>1 DEF Painting
  <2>3. up'.clean \subseteq up.clean \cup tiles' \cup Painting'
    BY <2>1
  <2> QED BY <1>1, <1>3, <2>2, <2>3, DamageFrame
<1> QED BY <1>6, <1>7, <1>8, <1>9, <1>10, <1>11 DEF ThreadNext

LEMMA DamageNext == Inv /\ DamageInv /\ [Next]_vars => DamageInv'
<1> SUFFICES ASSUME Inv, DamageInv, [Next]_vars PROVE DamageInv'
  OBVIOUS
<1>1. CASE Next
  BY <1>1, Steps, RequestDamage, AsideDamage, LaunchDamage, SetUpDamage, AfterRedrawDamage,
     UnrealizeDoneDamage, ThreadDamage
<1>2. CASE UNCHANGED vars
  <2>1. /\ UNCHANGED <<active, redraw_active, redraw_requested, mpc, need_update, snapshotted, log, moved,
                       view, stores, items_affine, invalidated, shown>>
        /\ UNCHANGED <<up, trect, tiles>>
    BY <1>2 DEF vars, viewvars, schedvars, drawingvars, storevars, threadvars
  <2>2. Stale' = Stale /\ Painting' = Painting
    BY <2>1 DEF Stale, Ends, Painting
  <2>3. CleanIsAccounted'
    BY <2>1, <2>2 DEF DamageInv, CleanIsAccounted
  <2> QED BY <2>1, <2>3 DEF DamageInv, Launching
<1> QED BY <1>1, <1>2

LEMMA DamageInit == Init => DamageInv
BY DEF Init, DamageInv, CleanIsAccounted

\* Whatever falls between the handlers, the threads and the snapshot, an edit
\* is neither taken for drawn nor left without an iteration coming for it.
THEOREM NoDamageIsForgotten == Spec => []DamageIsNotForgotten
<1>1. Inv /\ DamageInv => DamageIsNotForgotten
  <2> SUFFICES ASSUME Inv, DamageInv PROVE DamageIsNotForgotten
    OBVIOUS
  <2>1. /\ active /\ view.width > 0 /\ (invalidated # {} \/ moved # {} \/ need_update)
             => redraw_active /\ (redraw_requested \/ mpc # "loop")
    BY DEF DamageInv, Launching
  <2>2. log # {} => snapshotted /\ rd.stage # "none"
    BY DEF Inv, LinkInv, DamageInv
  <2>3. CleanIsAccounted
    BY DEF DamageInv
  <2> QED BY <2>1, <2>2, <2>3 DEF DamageIsNotForgotten, InvalidationsAreNotForgotten
<1> QED BY <1>1, DamageInit, DamageNext, Invariance, PTL DEF Spec

-----------------------------------------------------------------------------
(* What a finished process has drawn.                                      *)

LEMMA Quotient ==
  ASSUME NEW k \in Int, NEW a \in Nat \ {0}
  PROVE  (k * a) \div a = k
OBVIOUS

\* Rounding outwards loses nothing at the same affine.
LEMMA OutwardsSame ==
  ASSUME NEW R \in SUBSET Int, NEW a \in Nat \ {0}
  PROVE  R \subseteq Outwards(R, a, a)
<1> SUFFICES ASSUME NEW c \in R PROVE c \in Touched(c, c + 1, 1, a, a)
  BY DEF Outwards
<1>1. c \in Int /\ 1 * a = a
  OBVIOUS
<1>2. (c * a) \div (1 * a) = c
  BY <1>1, Quotient
<1>3. CeilDiv((c + 1) * a, 1 * a) = c + 1
  <2>1. -((c + 1) * a) = (-(c + 1)) * a /\ -(c + 1) \in Int
    BY <1>1
  <2>2. ((-(c + 1)) * a) \div a = -(c + 1)
    BY <2>1, Quotient
  <2> QED BY <1>1, <2>1, <2>2 DEF CeilDiv
<1> QED BY <1>1, <1>2, <1>3 DEF Touched

LEMMA ExpandedMonotone ==
  ASSUME NEW R, NEW S, R \subseteq S, NEW m
  PROVE  ExpandedBy(R, m) \subseteq ExpandedBy(S, m)
BY DEF ExpandedBy

LEMMA Bounds2 == HasBounds(2) <=> PrerenderStore # {}
BY DEF HasBounds

\* A request that asks for an iteration has the canvas busy.
LEMMA RequestSchedules ==
  ASSUME Inv, CoverInv, Request
  PROVE  /\ redraw_active' => view'.width > 0
         /\ \/ active /\ view'.width > 0 => redraw_active' /\ redraw_requested'
            \/ /\ UNCHANGED <<view, redraw_active, redraw_requested>>
               /\ shown' = shown \/ redraw_active
         /\ abort' \in {abort, "soft"}
         /\ rd.stage # "none" => view.width > 0 /\ view'.width > 0
<1> USE DEF UserCall, viewvars, schedvars, drawingvars, storevars, threadvars
<1> DEFINE P == /\ redraw_active' => view'.width > 0
                /\ \/ active /\ view'.width > 0 => redraw_active' /\ redraw_requested'
                   \/ /\ UNCHANGED <<view, redraw_active, redraw_requested>>
                      /\ shown' = shown \/ redraw_active
                /\ abort' \in {abort, "soft"}
                /\ rd.stage # "none" => view.width > 0 /\ view'.width > 0
<1>1. LinkInv /\ view \in ViewType /\ (redraw_active => view.width > 0)
  BY DEF Inv, ShapeInv, CoverInv
<1>2. rd.stage # "none" => view.width > 0
  BY <1>1 DEF LinkInv
<1>3. ASSUME NEW w, NEW instant, ScheduleRedraw(w, instant), view'.width = w,
             view.width > 0 => w > 0, abort' \in {abort, "soft"}
      PROVE  P
  <2>1. active /\ w > 0 => redraw_active' /\ redraw_requested'
    BY <1>1, <1>3, ScheduleComes
  <2>2. redraw_active' => w > 0
    BY <1>1, <1>3 DEF ScheduleRedraw, CanSchedule
  <2> QED BY <1>2, <1>3, <2>1, <2>2
<1>4. ASSUME NEW u \in Units, RequestRedrawArea(u) PROVE P
  <2>1. ScheduleRedraw(view.width, FALSE) /\ view' = view /\ abort' \in {abort, "soft"}
    BY <1>4 DEF RequestRedrawArea, RedrawArea
  <2> HIDE DEF P
  <2> QED BY <1>3, <2>1
<1>5. ASSUME NEW p \in Positions, SetPos(p) PROVE P
  <2>1. ScheduleRedraw(view.width, FALSE) /\ view' = [view EXCEPT !.pos = p] /\ abort' = abort
    BY <1>5 DEF SetPos
  <2>2. view'.width = view.width
    BY <1>1, <2>1 DEF ViewType
  <2> HIDE DEF P
  <2> QED BY <1>3, <2>1, <2>2
<1>6. ASSUME NEW a \in Affines, SetAffine(a) PROVE P
  <2>1. ScheduleRedraw(view.width, FALSE) /\ view' = [view EXCEPT !.affine = a] /\ abort' = abort
    BY <1>6 DEF SetAffine
  <2>2. view'.width = view.width
    BY <1>1, <2>1 DEF ViewType
  <2> HIDE DEF P
  <2> QED BY <1>3, <2>1, <2>2
<1>7. ASSUME NEW v \in Views, SizeAllocate(v) PROVE P
  <2>1. ScheduleRedraw(v.width, TRUE) /\ view' = v /\ abort' = abort
    BY <1>7 DEF SizeAllocate
  <2>2. v.width > 0
    <3>1. v.width \in Widths
      BY DEF Views
    <3>2. \A w \in Widths : w \in Nat \ {0}
      BY ViewAssumption
    <3> QED BY <3>1, <3>2
  <2> HIDE DEF P
  <2> QED BY <1>3, <2>1, <2>2
<1>8. ASSUME NEW s \in UsedStrategies, SetStrategy(s) PROVE P
  <2>1. UNCHANGED <<view, redraw_active, redraw_requested, shown, abort>>
    BY <1>8 DEF SetStrategy
  <2> QED BY <1>1, <1>2, <2>1
<1>9. ASSUME RequestRedrawAll PROVE P
  <2>1. ScheduleRedraw(view.width, FALSE) /\ view' = view /\ abort' = abort
    BY <1>9 DEF RequestRedrawAll
  <2> HIDE DEF P
  <2> QED BY <1>3, <2>1
<1>10. ASSUME NEW e \in Units \X Units, Edit(e) PROVE P
  <2>1. view' = view
    BY <1>10 DEF Edit
  <2>2. CASE snapshotted
    <3>1. UNCHANGED <<redraw_active, redraw_requested, abort>> /\ redraw_active
      BY <1>1, <1>10, <2>2 DEF Edit, LinkInv
    <3> QED BY <1>1, <1>2, <2>1, <3>1
  <2>3. CASE ~snapshotted
    <3>1. ScheduleRedraw(view.width, FALSE) /\ abort' \in {abort, "soft"}
      BY <1>10, <2>3 DEF Edit, RedrawArea
    <3> HIDE DEF P
    <3> QED BY <1>3, <2>1, <3>1
  <2> QED BY <2>2, <2>3
<1> HIDE DEF UserCall, viewvars, schedvars, drawingvars, storevars, threadvars
<1> QED BY <1>4, <1>5, <1>6, <1>7, <1>8, <1>9, <1>10 DEF Request

\* The parts of CoverInv that speak of the process follow what the process is.
LEMMA SameCover ==
  ASSUME rd' = rd
  PROVE  PrerenderStore' = PrerenderStore
BY DEF PrerenderStore

LEMMA RequestCover ==
  ASSUME Inv, CoverInv, Request
  PROVE  CoverInv'
<1>1. mpc = "loop" /\ UNCHANGED <<rd, up, stores, active>> /\ LinkInv /\ LinkInv'
  BY RequestFrame DEF Inv
<1>2. /\ redraw_active' => view'.width > 0
      /\ \/ active /\ view'.width > 0 => redraw_active' /\ redraw_requested'
         \/ /\ UNCHANGED <<view, redraw_active, redraw_requested>>
            /\ shown' = shown \/ redraw_active
      /\ abort' \in {abort, "soft"}
      /\ rd.stage # "none" => view.width > 0 /\ view'.width > 0
  BY RequestSchedules
<1>3. PrerenderStore' = PrerenderStore
  BY <1>1, SameCover
<1>4. rd.stage # "none" => abort # "hard"
  BY <1>1 DEF CoverInv
<1>5. rd'.stage # "none" /\ active' /\ ~redraw_requested'
       => /\ ~rd'.decoupled => stores'.affine = view'.affine
          /\ rd'.visible = IF rd'.decoupled THEN Outwards(Area(view'), view'.affine, stores'.affine)
                           ELSE Area(view')
  BY <1>1, <1>2 DEF CoverInv
<1>6. IdleMeansCurrent'
  BY <1>1, <1>2 DEF CoverInv, IdleMeansCurrent
<1> QED BY <1>1, <1>2, <1>3, <1>4, <1>5, <1>6 DEF CoverInv

LEMMA AsideCover ==
  ASSUME Inv, CoverInv, Aside
  PROVE  CoverInv'
<1> USE DEF UserCall, viewvars, schedvars, drawingvars, storevars, threadvars
<1>1. UNCHANGED <<rd, up, view>> /\ LinkInv /\ (redraw_active => view.width > 0)
      /\ stores'.affine = stores.affine /\ stores'.rect = stores.rect
  BY AsideFrame DEF Inv, CoverInv
<1>2. PrerenderStore' = PrerenderStore
  BY <1>1, SameCover
<1>3. ASSUME UNCHANGED <<active, redraw_active, redraw_requested, abort>>, mpc # "wait",
             active /\ ~redraw_active => shown' = shown /\ stores'.mode = stores.mode
      PROVE  CoverInv'
  <2>1. rd.stage # "none" => abort # "hard"
    BY <1>3 DEF CoverInv
  <2>2. IdleMeansCurrent'
    BY <1>1, <1>3 DEF CoverInv, IdleMeansCurrent
  <2> QED BY <1>1, <1>2, <1>3, <2>1, <2>2 DEF CoverInv
<1>4. CASE IdleLaunch \/ PaintWidget
  BY <1>3, <1>4 DEF IdleLaunch, PaintWidget
<1>5. CASE PaintCommit
  <2>1. mpc = "paint" /\ CommitTiles /\ UNCHANGED <<active, redraw_active, redraw_requested, abort>>
    BY <1>5 DEF PaintCommit
  <2>2. stores'.mode = stores.mode
    BY <2>1, CommitFacts
  <2>3. ~redraw_active => shown' = shown
    <3>1. ~redraw_active => tiles = {}
      BY <1>1 DEF LinkInv, Inv, StoreInv
    <3> QED BY <2>1, <3>1 DEF CommitTiles
  <2> QED BY <1>3, <2>1, <2>2, <2>3
<1>6. CASE Realize
  <2>1. ~active /\ mpc = "loop" /\ redraw_active' = (view.width > 0)
    BY <1>6 DEF Realize
  <2>2. rd.stage = "none"
    BY <1>1, <2>1 DEF LinkInv
  <2>3. IdleMeansCurrent'
    BY <1>1, <2>1 DEF IdleMeansCurrent
  <2> QED BY <1>1, <2>1, <2>2, <2>3 DEF CoverInv
<1>7. CASE Unrealize
  <2>1. active' = FALSE /\ redraw_active' = FALSE /\ (conn \/ ~redraw_active)
    BY <1>7 DEF Unrealize
  <2>2. rd.stage = "none"
    BY <1>1, <2>1 DEF LinkInv
  <2>3. IdleMeansCurrent'
    BY <2>1 DEF IdleMeansCurrent
  <2> QED BY <1>1, <2>1, <2>2, <2>3 DEF CoverInv
<1>8. CASE UnrealizeBusy
  <2>1. active' = FALSE /\ abort' = "hard" /\ mpc' = "wait" /\ UNCHANGED redraw_active
    BY <1>8 DEF UnrealizeBusy
  <2>2. IdleMeansCurrent'
    BY <2>1 DEF IdleMeansCurrent
  <2> QED BY <1>1, <1>2, <2>1, <2>2 DEF CoverInv
<1> HIDE DEF UserCall, viewvars, schedvars, drawingvars, storevars, threadvars
<1> QED BY <1>4, <1>5, <1>6, <1>7, <1>8 DEF Aside

LEMMA LaunchCover ==
  ASSUME Inv, CoverInv, Launch
  PROVE  CoverInv'
<1> DEFINE s == UpdateStores(stores, view).stores
           d == s.mode = "Decoupled"
           area == IF d THEN Outwards(Area(view), view.affine, s.affine) ELSE Area(view)
<1>1. /\ mpc \in {"launch", "paintlaunch"} /\ stores' = s /\ abort' = "none"
      /\ rd' = [rd EXCEPT !.stage = "tiler", !.store = s.rect, !.decoupled = d, !.visible = area]
      /\ UNCHANGED <<redraw_active, view>>
  BY DEF Launch, viewvars
<1>2. redraw_active /\ IsRedrawData(rd) /\ IsStores(stores) /\ stores.mode \in Modes
  BY <1>1 DEF Inv, ShapeInv, LinkInv, Launching
<1>3. s.mode \in {"Normal", "Decoupled"} /\ (s.mode = "Normal" => s.affine = view.affine)
  BY <1>2, UpdateStoresFacts
<1>4. ~d => s.affine = view.affine
  BY <1>3
<1> HIDE DEF s, d
<1>5. area = IF d THEN Outwards(Area(view), view.affine, s.affine) ELSE Area(view)
  OBVIOUS
<1> HIDE DEF area
<1>6. rd'.stage = "tiler" /\ rd'.decoupled = d /\ rd'.visible = area
  BY <1>1, <1>2 DEF IsRedrawData
<1>7. IdleMeansCurrent'
  BY <1>1, <1>2 DEF IdleMeansCurrent
<1>8. redraw_active => view.width > 0
  BY DEF CoverInv
<1>9. rd'.visible = IF rd'.decoupled THEN Outwards(Area(view'), view'.affine, stores'.affine)
                    ELSE Area(view')
  BY <1>1, <1>5, <1>6
<1>10. ~rd'.decoupled => stores'.affine = view'.affine
  BY <1>1, <1>4, <1>6
<1> QED BY <1>1, <1>6, <1>7, <1>8, <1>9, <1>10 DEF CoverInv

LEMMA InitTilerCover ==
  ASSUME Inv, CoverInv, InitTiler
  PROVE  CoverInv'
<1> DEFINE q == PhaseFrom(0)
           r1 == [rd EXCEPT !.stage = "run", !.timeoutflag = FALSE,
                            !.numactive = Cardinality(Threads)]
           r2 == [rd EXCEPT !.stage = "drained"]
<1>1. /\ rd.stage = "tiler"
      /\ UNCHANGED <<viewvars, schedvars, drawingvars, storevars, abort>>
      /\ IF HasBounds(q) THEN InitRedraw(0, r1, up) ELSE InitRedraw(0, r2, up)
  BY DEF InitTiler
<1>2. UNCHANGED <<view, active, redraw_active, redraw_requested, mpc, stores, shown, abort>>
  BY <1>1 DEF viewvars, schedvars, storevars
<1>3. redraw_active /\ view.width > 0 /\ IsUpdater(up) /\ IsRedrawData(rd)
      /\ rd.store \in SUBSET Int /\ IsFiniteSet(rd.store)
  BY <1>1 DEF Inv, ShapeInv, LinkInv, StoreInv, CoverInv
<1>4. /\ IsRedrawData(r1) /\ r1.visible = rd.visible /\ r1.store = rd.store
      /\ r1.decoupled = rd.decoupled /\ r1.stage = "run"
  BY <1>3 DEF IsRedrawData
<1>5. /\ IsRedrawData(r2) /\ r2.visible = rd.visible /\ r2.store = rd.store
      /\ r2.decoupled = rd.decoupled /\ r2.stage = "drained"
  BY <1>3 DEF IsRedrawData
<1> HIDE DEF r1, r2
<1>6. PICK r \in {r1, r2} : InitRedraw(0, r, up) /\ (~HasBounds(q) => r = r2) /\ (HasBounds(q) => r = r1)
  BY <1>1
<1>7. /\ rd'.stage = r.stage /\ rd'.visible = r.visible /\ rd'.store = r.store
      /\ rd'.decoupled = r.decoupled /\ rd'.phase = q
      /\ q = 2 /\ HasBounds(2) => /\ rd'.clean.alias = "clean"
                                  /\ PrerenderStore \subseteq rd'.rects \cup up'.clean
  <2>1. IsRedrawData(r)
    BY <1>4, <1>5, <1>6
  <2> QED BY <1>3, <1>6, <2>1, InitRedrawFacts
<1>8. PrerenderStore' = PrerenderStore
  BY <1>4, <1>5, <1>6, <1>7 DEF PrerenderStore
<1>9. rd'.stage = "run" /\ rd'.phase = 2 /\ PrerenderStore # {}
        => rd'.clean.alias = "clean" /\ PrerenderStore \subseteq rd'.rects \cup up'.clean
  BY <1>7, Bounds2
<1>10. rd'.stage \in {"drained", "exit"} => PrerenderStore = {}
  <2>1. rd'.stage \in {"drained", "exit"} => ~HasBounds(q)
    BY <1>4, <1>6, <1>7
  <2> QED BY <2>1 DEF HasBounds
<1>11. IdleMeansCurrent'
  BY <1>2, <1>3 DEF IdleMeansCurrent
<1>12. rd'.stage # "none" /\ abort' = "hard" => mpc' = "wait"
  BY <1>1, <1>2 DEF CoverInv
<1>13. active' /\ ~redraw_requested'
         => /\ ~rd'.decoupled => stores'.affine = view'.affine
            /\ rd'.visible = IF rd'.decoupled THEN Outwards(Area(view'), view'.affine, stores'.affine)
                             ELSE Area(view')
  <2>1. rd'.visible = rd.visible /\ rd'.decoupled = rd.decoupled
    BY <1>4, <1>5, <1>6, <1>7
  <2> QED BY <1>1, <1>2, <2>1 DEF CoverInv
<1>14. redraw_active' => view'.width > 0
  BY <1>2, <1>3
<1> HIDE DEF q
<1> QED BY <1>8, <1>9, <1>10, <1>11, <1>12, <1>13, <1>14 DEF CoverInv

LEMMA SignalExitCover ==
  ASSUME Inv, CoverInv, SignalExit
  PROVE  CoverInv'
<1>1. /\ rd.stage = "drained" /\ rd' = [rd EXCEPT !.stage = "exit", !.rects = {}]
      /\ UNCHANGED <<view, active, redraw_active, redraw_requested, mpc, stores, shown, abort, up>>
  BY DEF SignalExit, mainvars, viewvars, schedvars, storevars
<1>2. redraw_active /\ view.width > 0 /\ IsRedrawData(rd)
  BY <1>1 DEF Inv, ShapeInv, LinkInv, CoverInv
<1>3. /\ rd'.stage = "exit" /\ rd'.visible = rd.visible /\ rd'.store = rd.store
      /\ rd'.decoupled = rd.decoupled /\ rd'.timeoutflag = rd.timeoutflag
  BY <1>1, <1>2 DEF IsRedrawData
<1>4. PrerenderStore' = PrerenderStore
  BY <1>3 DEF PrerenderStore
<1>5. IdleMeansCurrent'
  BY <1>1, <1>2 DEF IdleMeansCurrent
<1> QED BY <1>1, <1>2, <1>3, <1>4, <1>5 DEF CoverInv

\* A process that is not started over has drawn all that the view shows.
LEMMA AfterRedrawCover ==
  ASSUME Inv, DamageInv, DamageInv', CoverInv, AfterRedraw
  PROVE  CoverInv'
<1> DEFINE drawn == MarkDrawn(stores, tiles)
           result == IF rd.timeoutflag THEN [stores |-> drawn, action |-> "None"]
                     ELSE FinishedDraw(drawn, view)
           a == result.action
           s == result.stores
           again == StartOver(a)
<1>1. /\ mpc = "loop" /\ rd.stage = "exit" /\ Unsnapshot /\ tiles' = {}
      /\ rd' = [rd EXCEPT !.stage = "none"]
      /\ stores' = s /\ up' = UpdaterAfter(up, a, s)
      /\ redraw_active' = again /\ (again => mpc' = "launch")
      /\ UNCHANGED <<active, view, trect>>
  BY DEF AfterRedraw, TilesReaped, viewvars, threadvars
<1>2. LinkInv /\ IsStores(stores) /\ IsUpdater(up) /\ IsRedrawData(rd) /\ view \in ViewType
  BY DEF Inv, ShapeInv
<1>3. rd'.stage = "none" /\ view.width > 0
  BY <1>1, <1>2 DEF IsRedrawData, LinkInv, CoverInv
<1>4. /\ IsStores(drawn) /\ drawn.mode = stores.mode /\ drawn.affine = stores.affine
      /\ drawn.rect = stores.rect
  BY <1>2, MarkDrawnFacts
<1>5. IdleMeansCurrent'
  <2> SUFFICES ASSUME active, ~again
               PROVE  /\ stores'.mode = "Normal" /\ stores'.affine = view.affine
                      /\ Coverage(view) \cap stores'.rect \subseteq shown'
    BY <1>1 DEF IdleMeansCurrent
  <2>1. ~rd.timeoutflag /\ ~redraw_requested /\ log = {} /\ a = "None"
    BY DEF StartOver
  <2>2. result = FinishedDraw(drawn, view)
    BY <2>1
  <2> HIDE DEF drawn, result, again
  <2>3. /\ s.rect = stores.rect /\ s.affine = stores.affine
        /\ s.mode = IF stores.mode = "Decoupled" THEN "Normal" ELSE stores.mode
        /\ stores.mode = "Decoupled" => stores.affine = view.affine
    BY <1>4, <2>1, <2>2, FinishedDrawFacts
  <2>4. /\ rd.store = stores.rect
        /\ stores.mode = IF rd.decoupled THEN "Decoupled" ELSE "Normal"
    BY <1>1 DEF Inv, StoreInv
  <2>5. /\ ~rd.decoupled => stores.affine = view.affine
        /\ rd.visible = IF rd.decoupled THEN Outwards(Area(view), view.affine, stores.affine)
                        ELSE Area(view)
        /\ PrerenderStore \subseteq up.clean
    BY <1>1, <2>1 DEF CoverInv
  <2>6. stores.affine = view.affine
    BY <2>3, <2>4, <2>5
  <2>7. Area(view) \subseteq rd.visible
    <3>1. Area(view) \in SUBSET Int /\ view.affine \in Nat \ {0}
      BY <1>2, ViewFacts
    <3>2. Area(view) \subseteq Outwards(Area(view), view.affine, view.affine)
      BY <3>1, OutwardsSame
    <3> QED BY <2>5, <2>6, <3>2
  <2>8. Coverage(view) \cap stores.rect \subseteq up.clean
    <3>1. Coverage(view) \subseteq ExpandedBy(rd.visible, Prerender)
      BY <2>7, ExpandedMonotone DEF Coverage
    <3> QED BY <2>4, <2>5, <3>1 DEF PrerenderStore
  <2>9. up'.clean = up.clean
    BY <1>1, <2>1 DEF UpdaterAfter
  <2>10. invalidated' = {} /\ moved' = {} /\ log' = {}
    <3>1. active' /\ view'.width > 0 /\ ~redraw_active'
      BY <1>1, <1>3
    <3>2. invalidated' = {} /\ ~need_update'
      BY <3>1 DEF DamageInv
    <3>3. log' = {}
      BY <1>1, UnsnapshotFacts
    <3> QED BY <3>2, <3>3 DEF DamageInv
  <2>11. Stale' = {}
    <3>1. Stale' = Footprint(Ends(log') \cup moved', items_affine') \cup invalidated'
      BY DEF Stale, Ends
    <3>2. Ends(log') \cup moved' = {}
      BY <2>10, EndsEmpty
    <3> QED BY <2>10, <3>1, <3>2, FootprintEmpty
  <2>12. Painting' = {}
    <3>1. \A t \in Threads : trect[t] = {}
      BY <1>1, ThreadsOff
    <3> QED BY <1>1, <3>1 DEF Painting
  <2>13. s.mode = "Normal"
    BY <2>3, <2>4
  <2>14. up'.clean \subseteq shown'
    <3>1. active' /\ stores'.mode # "None"
      BY <1>1, <2>13
    <3>2. up'.clean \subseteq shown' \cup tiles' \cup Painting' \cup Stale'
      BY <3>1 DEF DamageInv, CleanIsAccounted
    <3> QED BY <1>1, <2>11, <2>12, <3>2
  <2> QED BY <1>1, <2>3, <2>6, <2>8, <2>9, <2>13, <2>14
<1> HIDE DEF again, a, s, result, drawn
<1> QED BY <1>1, <1>3, <1>5 DEF CoverInv

LEMMA UnrealizeDoneCover ==
  ASSUME Inv, CoverInv, UnrealizeDone
  PROVE  CoverInv'
<1>1. active' = FALSE /\ redraw_active' = FALSE /\ rd'.stage = "none"
  BY DEF UnrealizeDone, Inv, LinkInv, ShapeInv, IsRedrawData
<1>2. IdleMeansCurrent'
  BY <1>1 DEF IdleMeansCurrent
<1> QED BY <1>1, <1>2 DEF CoverInv

\* What a thread must keep for CoverInv.
LEMMA CoverFrame ==
  ASSUME Inv, CoverInv, rd.stage = "run", UNCHANGED mainvars,
         rd'.visible = rd.visible, rd'.store = rd.store, rd'.decoupled = rd.decoupled,
         rd'.stage \in {"run", "drained"},
         rd'.stage = "run" /\ rd'.phase = 2 /\ PrerenderStore # {}
           => rd'.clean.alias = "clean" /\ PrerenderStore \subseteq rd'.rects \cup up'.clean,
         rd'.stage = "drained" /\ ~rd'.timeoutflag /\ abort # "hard" => PrerenderStore \subseteq up'.clean
  PROVE  CoverInv'
<1>1. UNCHANGED <<view, active, redraw_active, redraw_requested, mpc, stores, shown, abort>>
  BY DEF mainvars, viewvars, schedvars, storevars
<1>2. redraw_active /\ view.width > 0
  BY DEF Inv, LinkInv, CoverInv
<1>3. PrerenderStore' = PrerenderStore
  BY DEF PrerenderStore
<1>4. IdleMeansCurrent'
  BY <1>1, <1>2 DEF IdleMeansCurrent
<1> QED BY <1>1, <1>2, <1>3, <1>4 DEF CoverInv

LEMMA ThreadCover ==
  ASSUME Inv, CoverInv, NEW t \in Threads, ThreadNext(t)
  PROVE  CoverInv'
<1>1. UNCHANGED mainvars
  BY ThreadKeeps
<1>2. tpc[t] # "off"
  BY DEF ThreadNext, NextCycle, FinishLast, Abort, Cull, BeginPaint, EndPaint, InTime, TimeOut, AtLoop
<1>3. /\ rd.stage = "run" /\ rd.store \in SUBSET Int /\ IsFiniteSet(rd.store)
      /\ IsUpdater(up) /\ IsRedrawData(rd) /\ rd.phase \in 0..2
  BY <1>2, ThreadRuns DEF Inv, ShapeInv
<1>4. rd.phase = 2 /\ PrerenderStore # {}
        => rd.clean.alias = "clean" /\ PrerenderStore \subseteq rd.rects \cup up.clean
  BY <1>3 DEF CoverInv
<1>5. IsUpdater(FinishCycle(up)) /\ FinishCycle(up).clean = up.clean
  BY <1>3, FinishCycleFacts
<1>6. CASE NextCycle(t)
  <2>1. PICK p \in {1, 2}, u \in {up, FinishCycle(up)} : InitRedraw(p, rd, u)
    BY <1>6 DEF NextCycle
  <2>2. /\ rd'.stage = rd.stage /\ rd'.visible = rd.visible /\ rd'.store = rd.store
        /\ rd'.decoupled = rd.decoupled /\ rd'.phase = PhaseFrom(p)
        /\ PhaseFrom(p) = 2 /\ HasBounds(2) => /\ rd'.clean.alias = "clean"
                                               /\ PrerenderStore \subseteq rd'.rects \cup up'.clean
    BY <1>3, <1>5, <2>1, InitRedrawFacts
  <2>3. rd'.stage = "run" /\ rd'.phase = 2 /\ PrerenderStore # {}
          => rd'.clean.alias = "clean" /\ PrerenderStore \subseteq rd'.rects \cup up'.clean
    BY <2>2, Bounds2
  <2> HIDE DEF mainvars
  <2> QED BY <1>1, <1>3, <2>2, <2>3, CoverFrame
<1>7. ASSUME NEW r, IsRedrawData(r), r.stage = "run", r.numactive = rd.numactive, Leave(t, r),
             r.visible = rd.visible, r.store = rd.store, r.decoupled = rd.decoupled,
             r.phase = 2 /\ PrerenderStore # {}
               => r.clean.alias = "clean" /\ PrerenderStore \subseteq r.rects \cup up'.clean,
             ~r.timeoutflag /\ abort # "hard" => PrerenderStore \subseteq up'.clean
      PROVE  CoverInv'
  <2>1. /\ rd'.stage \in {"run", "drained"}
        /\ rd'.phase = r.phase /\ rd'.store = r.store /\ rd'.decoupled = r.decoupled
        /\ rd'.visible = r.visible /\ rd'.rects = r.rects /\ rd'.clean = r.clean
        /\ rd'.timeoutflag = r.timeoutflag
    BY <1>2, <1>7, LeaveFacts
  <2> HIDE DEF mainvars
  <2> QED BY <1>1, <1>3, <1>7, <2>1, CoverFrame
<1>8. CASE FinishLast(t)
  <2>1. CASE rd.rects = {} /\ rd.phase = 2 /\ Leave(t, rd) /\ UNCHANGED up
    BY <1>3, <1>4, <1>7, <2>1
  <2>2. CASE ~HasBounds(2) /\ up' = FinishCycle(up) /\ Leave(t, [rd EXCEPT !.phase = 2])
    <3> DEFINE r == [rd EXCEPT !.phase = 2]
    <3>1. /\ IsRedrawData(r) /\ r.stage = "run" /\ r.numactive = rd.numactive
          /\ r.visible = rd.visible /\ r.store = rd.store /\ r.decoupled = rd.decoupled
      BY <1>3 DEF IsRedrawData
    <3>2. PrerenderStore = {} /\ Leave(t, r)
      BY <2>2, Bounds2
    <3> HIDE DEF r
    <3> QED BY <1>7, <3>1, <3>2
  <2> QED BY <1>8, <2>1, <2>2 DEF FinishLast
<1>9. CASE Abort(t)
  <2>1. abort = "hard" /\ Leave(t, rd) /\ UNCHANGED up
    BY <1>3, <1>9 DEF Abort, MustAbort
  <2> QED BY <1>3, <1>4, <1>7, <2>1
<1>10. CASE TimeOut(t)
  <2> DEFINE r == [rd EXCEPT !.timeoutflag = TRUE]
  <2>1. /\ IsRedrawData(r) /\ r.stage = "run" /\ r.numactive = rd.numactive
        /\ r.visible = rd.visible /\ r.store = rd.store /\ r.decoupled = rd.decoupled
        /\ r.phase = rd.phase /\ r.clean = rd.clean /\ r.rects = rd.rects /\ r.timeoutflag = TRUE
    BY <1>3 DEF IsRedrawData
  <2>2. Leave(t, r) /\ UNCHANGED up
    BY <1>10 DEF TimeOut
  <2> HIDE DEF r
  <2> QED BY <1>4, <1>7, <2>1, <2>2
<1>11. ASSUME NEW c \in rd.rects, Cull(t, c) PROVE CoverInv'
  <2>1. c \in Deref(up, rd.clean) /\ rd' = [rd EXCEPT !.rects = @ \ {c}] /\ UNCHANGED up
    BY <1>11 DEF Cull
  <2>2. /\ rd'.stage = "run" /\ rd'.phase = rd.phase /\ rd'.store = rd.store
        /\ rd'.visible = rd.visible /\ rd'.clean = rd.clean /\ rd'.decoupled = rd.decoupled
        /\ rd'.rects = rd.rects \ {c}
    BY <1>3, <2>1 DEF IsRedrawData
  <2>3. rd.clean.alias = "clean" => c \in up.clean
    BY <2>1 DEF Deref
  <2> HIDE DEF mainvars
  <2> QED BY <1>1, <1>3, <1>4, <2>1, <2>2, <2>3, CoverFrame
<1>12. ASSUME NEW c \in rd.rects, BeginPaint(t, c) PROVE CoverInv'
  <2>1. rd' = [rd EXCEPT !.rects = @ \ {c}] /\ up' = MarkClean(up, Extended(c))
    BY <1>12 DEF BeginPaint
  <2>2. /\ rd'.stage = "run" /\ rd'.phase = rd.phase /\ rd'.store = rd.store
        /\ rd'.visible = rd.visible /\ rd'.clean = rd.clean /\ rd'.decoupled = rd.decoupled
        /\ rd'.rects = rd.rects \ {c}
    BY <1>3, <2>1 DEF IsRedrawData
  <2>3. up'.clean = up.clean \cup Extended(c) /\ (c \in rd.store => c \in Extended(c))
    BY <1>3, <2>1, MarkCleanFacts, ExtendedFacts
  <2>4. PrerenderStore \subseteq rd.store
    BY DEF PrerenderStore
  <2> HIDE DEF mainvars
  <2> QED BY <1>1, <1>3, <1>4, <2>2, <2>3, <2>4, CoverFrame
<1>13. CASE EndPaint(t) \/ InTime(t)
  <2>1. UNCHANGED <<rd, up>>
    BY <1>13 DEF EndPaint, InTime
  <2> HIDE DEF mainvars
  <2> QED BY <1>1, <1>3, <1>4, <2>1, CoverFrame
<1> QED BY <1>6, <1>8, <1>9, <1>10, <1>11, <1>12, <1>13 DEF ThreadNext

LEMMA CoverNext == Inv /\ DamageInv /\ DamageInv' /\ CoverInv /\ [Next]_vars => CoverInv'
<1> SUFFICES ASSUME Inv, DamageInv, DamageInv', CoverInv, [Next]_vars PROVE CoverInv'
  OBVIOUS
<1>1. CASE Next
  BY <1>1, Steps, RequestCover, AsideCover, LaunchCover, InitTilerCover, SignalExitCover,
     AfterRedrawCover, UnrealizeDoneCover, ThreadCover
<1>2. CASE UNCHANGED vars
  <2>1. UNCHANGED <<view, active, redraw_active, redraw_requested, mpc, stores, shown, abort, rd, up>>
    BY <1>2 DEF vars, viewvars, schedvars, storevars
  <2>2. PrerenderStore' = PrerenderStore
    BY <2>1, SameCover
  <2>3. IdleMeansCurrent'
    BY <2>1 DEF CoverInv, IdleMeansCurrent
  <2> QED BY <2>1, <2>2, <2>3 DEF CoverInv
<1> QED BY <1>1, <1>2

LEMMA CoverInit == Init => CoverInv
<1> SUFFICES ASSUME Init PROVE CoverInv
  OBVIOUS
<1>1. redraw_active = FALSE /\ active = FALSE /\ rd.stage = "none"
  BY DEF Init
<1> QED BY <1>1 DEF CoverInv, IdleMeansCurrent

\* When redrawing stops, the screen shows the drawing as it is now.
THEOREM IdleIsCurrent == Spec => []IdleMeansCurrent
<1>1. CoverInv => IdleMeansCurrent
  BY DEF CoverInv
<1> QED BY <1>1, DamageInit, DamageNext, CoverInit, CoverNext, Invariance, PTL DEF Spec

-----------------------------------------------------------------------------
(* Types.                                                                  *)

LEMMA RegionFacts ==
  /\ Region({})
  /\ \A r, s : Region(r) /\ s \subseteq r => Region(s)
  /\ \A r, s : Region(r) /\ Region(s) => Region(r \cup s)
<1>1. Region({})
  BY FS_EmptySet DEF Region
<1>2. ASSUME NEW r, NEW s, Region(r), s \subseteq r PROVE Region(s)
  BY <1>2, FiniteParts DEF Region
<1>3. ASSUME NEW r, NEW s, Region(r), Region(s) PROVE Region(r \cup s)
  BY <1>3, FS_Union DEF Region
<1> QED BY <1>1, <1>2, <1>3

LEMMA AffineFacts ==
  ASSUME NEW a \in Affines \cup {1}
  PROVE  a \in Nat \ {0} /\ \A U \in SUBSET Units : IsFiniteSet(U) => Region(Footprint(U, a))
<1>1. a \in Nat \ {0}
  <2>1. \A x \in Affines : x \in Nat \ {0}
    BY ViewAssumption
  <2> QED BY <2>1
<1>2. ASSUME NEW U \in SUBSET Units, IsFiniteSet(U) PROVE Region(Footprint(U, a))
  <2>1. U \in SUBSET Int
    BY ViewAssumption
  <2> QED BY <1>1, <1>2, <2>1, FootprintFacts DEF Region
<1> QED BY <1>1, <1>2

LEMMA UnitFacts ==
  /\ \A u \in Units : IsFiniteSet({u}) /\ {u} \in SUBSET Units
  /\ \A e \in Units \X Units : e[1] \in Units /\ e[2] \in Units
BY FS_Singleton

LEMMA StoreRegions ==
  ASSUME NEW s, IsStores(s), Region(s.drawn), Region(s.snap), NEW v \in ViewType,
         s.affine \in Affines \cup {1}
  PROVE  /\ LET r == RecreateStore(s, v) IN
              Region(r.drawn) /\ Region(r.snap) /\ r.affine \in Affines \cup {1}
         /\ LET r == TakeSnapshot(s, v) IN
              Region(r.drawn) /\ Region(r.snap) /\ r.affine \in Affines \cup {1}
         /\ LET r == ShiftStore(s, v) IN
              Region(r.drawn) /\ Region(r.snap) /\ r.affine \in Affines \cup {1}
<1>1. v.affine \in Affines \cup {1} /\ Region(Centered(v))
  BY ViewFacts DEF Region
<1>2. LET r == RecreateStore(s, v) IN r.drawn = {} /\ r.snap = s.snap /\ r.affine = v.affine
  BY DEF RecreateStore, IsStores
<1>3. LET r == TakeSnapshot(s, v) IN
        r.drawn = {} /\ r.affine = v.affine /\ r.snap = Inwards(s.drawn, s.affine, v.affine, Centered(v))
  <2> DEFINE q == RecreateStore(s, v)
             n == Inwards(s.drawn, s.affine, v.affine, Centered(v))
  <2>1. IsStores(q) /\ q.drawn = {} /\ q.affine = v.affine
    BY <1>2, RecreateStoreFacts
  <2>2. TakeSnapshot(s, v) = [q EXCEPT !.snap = n]
    BY DEF TakeSnapshot
  <2> HIDE DEF q, n
  <2>3. LET r == [q EXCEPT !.snap = n] IN r.drawn = {} /\ r.affine = v.affine /\ r.snap = n
    BY <2>1 DEF IsStores
  <2> QED BY <2>2, <2>3 DEF n
<1>4. LET r == ShiftStore(s, v) IN
        r.drawn = s.drawn \cap Centered(v) /\ r.snap = s.snap /\ r.affine = s.affine
  BY DEF ShiftStore, IsStores
<1>5. Inwards(s.drawn, s.affine, v.affine, Centered(v)) \subseteq Centered(v)
  BY DEF Inwards
<1> QED BY <1>1, <1>2, <1>3, <1>4, <1>5, RegionFacts

LEMMA SetModeRegions ==
  ASSUME NEW s, IsStores(s), NEW m
  PROVE  LET r == [s EXCEPT !.mode = m] IN r.drawn = s.drawn /\ r.snap = s.snap /\ r.affine = s.affine
BY DEF IsStores

\* The stores that update() and finished_draw() leave have finite regions.
LEMMA UpdateRegions ==
  ASSUME NEW s, IsStores(s), Region(s.drawn), Region(s.snap), NEW v \in ViewType,
         s.affine \in Affines \cup {1}
  PROVE  LET r == UpdateStores(s, v).stores IN
         Region(r.drawn) /\ Region(r.snap) /\ r.affine \in Affines \cup {1}
<1> DEFINE Good(r) == Region(r.drawn) /\ Region(r.snap) /\ r.affine \in Affines \cup {1}
           q1 == RecreateStore(s, v)
           q2 == TakeSnapshot(s, v)
           c == [s EXCEPT !.drawn = @ \cup s.snap]
           q3 == TakeSnapshot(c, v)
           q4 == ShiftStore(s, v)
<1>1. IsStores(q1) /\ IsStores(q2)
  BY RecreateStoreFacts, TakeSnapshotFacts
<1>2. Good(s) /\ Good(q1) /\ Good(q2) /\ Good(q4)
  BY StoreRegions
<1>3. Good(q3)
  <2>1. IsStores(c) /\ c.drawn = s.drawn \cup s.snap /\ c.snap = s.snap /\ c.affine = s.affine
    BY DEF IsStores
  <2>2. Region(c.drawn)
    BY <2>1, RegionFacts
  <2> HIDE DEF c
  <2> QED BY <2>1, <2>2, StoreRegions
<1>4. UpdateStores(s, v).stores \in
        {[q1 EXCEPT !.mode = "Normal"], [q2 EXCEPT !.mode = "Decoupled"], q4, q1, q3, s}
  <2> DEFINE r == UpdateStores(s, v)
  <2>1. \/ r = [stores |-> [q1 EXCEPT !.mode = "Normal"], action |-> "Recreated"]
        \/ r = [stores |-> [q2 EXCEPT !.mode = "Decoupled"], action |-> "Recreated"]
        \/ r = [stores |-> q4, action |-> "Shifted"]
        \/ r = [stores |-> q1, action |-> "Recreated"]
        \/ r = [stores |-> q3, action |-> "Recreated"]
        \/ r = [stores |-> s, action |-> "None"]
    <3>1. CASE s.mode = "None"
      BY <3>1 DEF UpdateStores
    <3>2. CASE s.mode = "Normal" /\ v.affine # s.affine
      BY <3>2 DEF UpdateStores
    <3>3. CASE s.mode = "Normal" /\ v.affine = s.affine /\ ~(Coverage(v) \subseteq s.rect)
      <4>1. CASE HasReusableContent(s, v)
        BY <3>3, <4>1 DEF UpdateStores
      <4>2. CASE ~HasReusableContent(s, v)
        BY <3>3, <4>2 DEF UpdateStores
      <4> QED BY <4>1, <4>2
    <3>4. CASE s.mode = "Decoupled" /\ TooDifferent(s, v)
      BY <3>4 DEF UpdateStores, SnapshotCombine
    <3>5. CASE /\ s.mode # "None"
               /\ ~(s.mode = "Normal" /\ v.affine # s.affine)
               /\ ~(s.mode = "Normal" /\ v.affine = s.affine /\ ~(Coverage(v) \subseteq s.rect))
               /\ ~(s.mode = "Decoupled" /\ TooDifferent(s, v))
      BY <3>5 DEF UpdateStores
    <3> QED BY <3>1, <3>2, <3>3, <3>4, <3>5
  <2> HIDE DEF r, q1, q2, q3, q4
  <2> QED BY <2>1 DEF r
<1> HIDE DEF q1, q2, q3, q4
<1>5. Good([q1 EXCEPT !.mode = "Normal"]) /\ Good([q2 EXCEPT !.mode = "Decoupled"])
  <2>1. LET r == [q1 EXCEPT !.mode = "Normal"] IN
        r.drawn = q1.drawn /\ r.snap = q1.snap /\ r.affine = q1.affine
    BY <1>1, SetModeRegions
  <2>2. LET r == [q2 EXCEPT !.mode = "Decoupled"] IN
        r.drawn = q2.drawn /\ r.snap = q2.snap /\ r.affine = q2.affine
    BY <1>1, SetModeRegions
  <2> QED BY <1>2, <2>1, <2>2
<1> QED BY <1>2, <1>3, <1>4, <1>5

LEMMA FinishedRegions ==
  ASSUME NEW s, IsStores(s), Region(s.drawn), Region(s.snap), NEW v \in ViewType,
         s.affine \in Affines \cup {1}
  PROVE  LET r == FinishedDraw(s, v).stores IN
         Region(r.drawn) /\ Region(r.snap) /\ r.affine \in Affines \cup {1}
<1> DEFINE r == FinishedDraw(s, v)
<1>1. CASE s.mode = "Decoupled" /\ s.affine = v.affine
  <2>1. r = [stores |-> [s EXCEPT !.mode = "Normal"], action |-> "None"]
    BY <1>1 DEF FinishedDraw
  <2> HIDE DEF r
  <2>2. r.stores = [s EXCEPT !.mode = "Normal"]
    BY <2>1
  <2> QED BY <2>2, SetModeRegions DEF r
<1>2. CASE s.mode = "Decoupled" /\ s.affine # v.affine
  <2>1. r = [stores |-> TakeSnapshot(s, v), action |-> "Recreated"]
    BY <1>2 DEF FinishedDraw
  <2> HIDE DEF r
  <2>2. r.stores = TakeSnapshot(s, v)
    BY <2>1
  <2> QED BY <2>2, StoreRegions DEF r
<1>3. CASE s.mode # "Decoupled"
  <2>1. r = [stores |-> s, action |-> "None"]
    BY <1>3 DEF FinishedDraw
  <2> HIDE DEF r
  <2>2. r.stores = s
    BY <2>1
  <2> QED BY <2>2 DEF r
<1> QED BY <1>1, <1>2, <1>3

LEMMA RequestRegions ==
  ASSUME Inv, RegionInv, Request
  PROVE  RegionInv'
<1> USE DEF UserCall, viewvars, schedvars, drawingvars, storevars, threadvars
<1>1. UNCHANGED <<rd, up, stores, items_affine>>
  BY RequestFrame
<1>2. requests' \in 0..MaxRequests
  <2>1. requests > 0 /\ requests' = requests - 1
    BY DEF Request, RequestRedrawArea, Edit, SetPos, SetAffine, SizeAllocate, SetStrategy, RequestRedrawAll
  <2> QED BY <2>1, BoundsAssumption DEF RegionInv
<1>3. lock' = lock
  BY DEF Request, RequestRedrawArea, Edit, SetPos, SetAffine, SizeAllocate, SetStrategy, RequestRedrawAll
<1>4. strategy' \in UsedStrategies
  BY DEF RegionInv, Request, RequestRedrawArea, Edit, SetPos, SetAffine, SizeAllocate, SetStrategy,
    RequestRedrawAll
<1>5. abort' \in {"none", "soft", "hard"}
  BY DEF RegionInv, Request, RequestRedrawArea, RedrawArea, Edit, SetPos, SetAffine, SizeAllocate,
    SetStrategy, RequestRedrawAll
<1>6. \A u \in Units : Region(Footprint({u}, items_affine))
  BY AffineFacts, UnitFacts DEF RegionInv
<1>7. Region(stores.rect) /\ Region(invalidated) /\ Region(shown)
  BY DEF Inv, ShapeInv, Region, RegionInv
<1>8. Region(shown')
  <2>1. shown' \subseteq shown
    BY DEF Request, RequestRedrawArea, Edit, SetPos, SetAffine, SizeAllocate, SetStrategy, RequestRedrawAll
  <2> QED BY <1>7, <2>1, RegionFacts
<1>9. Region(invalidated')
  <2>1. \/ invalidated' = invalidated
        \/ \E u \in Units : invalidated' = invalidated \cup Footprint({u}, items_affine)
        \/ invalidated' = invalidated \cup stores.rect
    <3>1. CASE \E e \in Units \X Units : Edit(e)
      BY <3>1, UnitFacts DEF Edit, RedrawArea
    <3>2. CASE ~(\E e \in Units \X Units : Edit(e))
      BY <3>2 DEF Request, RequestRedrawArea, RedrawArea, SetPos, SetAffine, SizeAllocate, SetStrategy,
        RequestRedrawAll
    <3> QED BY <3>1, <3>2
  <2> QED BY <1>6, <1>7, <2>1, RegionFacts
<1>10. /\ log' \in SUBSET (Units \X Units) /\ IsFiniteSet(log')
       /\ moved' \in SUBSET Units /\ IsFiniteSet(moved')
  <2>1. /\ log \in SUBSET (Units \X Units) /\ IsFiniteSet(log)
        /\ moved \in SUBSET Units /\ IsFiniteSet(moved)
    BY DEF RegionInv
  <2>2. CASE \E e \in Units \X Units : Edit(e)
    <3>1. PICK e \in Units \X Units : log' \in {log, log \cup {e}} /\ moved' \in {moved, moved \cup {e[2]}}
      BY <2>2 DEF Edit
    <3>2. IsFiniteSet(log \cup {e}) /\ IsFiniteSet(moved \cup {e[2]})
      BY <2>1, FS_AddElement
    <3> QED BY <2>1, <3>1, <3>2, UnitFacts
  <2>3. CASE ~(\E e \in Units \X Units : Edit(e))
    <3>1. log' = log /\ moved' = moved
      BY <2>3 DEF Request, RequestRedrawArea, SetPos, SetAffine, SizeAllocate, SetStrategy, RequestRedrawAll
    <3> QED BY <2>1, <3>1
  <2> QED BY <2>2, <2>3
<1> HIDE DEF UserCall, viewvars, schedvars, drawingvars, storevars, threadvars
<1> QED BY <1>1, <1>2, <1>3, <1>4, <1>5, <1>8, <1>9, <1>10 DEF RegionInv

LEMMA CommitRegions ==
  ASSUME Inv, RegionInv, CommitTiles
  PROVE  /\ Region(shown') /\ Region(stores'.drawn) /\ stores'.snap = stores.snap
         /\ stores'.affine = stores.affine
<1>1. Region(tiles)
  BY RegionFacts DEF Inv, ShapeInv, StoreInv, Region
<1>2. Region(shown) /\ Region(stores.drawn)
  BY DEF RegionInv
<1>3. shown' \subseteq shown \cup tiles
  BY DEF CommitTiles
<1>4. stores'.drawn = stores.drawn \cup tiles
  BY DEF CommitTiles, MarkDrawn, Inv, ShapeInv, IsStores
<1> QED BY <1>1, <1>2, <1>3, <1>4, RegionFacts, CommitFacts

LEMMA AsideRegions ==
  ASSUME Inv, RegionInv, Aside
  PROVE  RegionInv'
<1> USE DEF UserCall, viewvars, schedvars, drawingvars, storevars, threadvars
<1>1. UNCHANGED <<rd, up, items_affine, lock>> /\ stores'.affine = stores.affine
  BY AsideFrame
<1>2. requests' \in 0..MaxRequests /\ strategy' = strategy /\ abort' \in {abort, "hard"}
  <2>1. requests' = requests \/ (requests > 0 /\ requests' = requests - 1)
    BY DEF Aside, IdleLaunch, PaintWidget, PaintCommit, Realize, Unrealize, UnrealizeBusy
  <2>2. strategy' = strategy /\ abort' \in {abort, "hard"}
    BY DEF Aside, IdleLaunch, PaintWidget, PaintCommit, Realize, Unrealize, UnrealizeBusy
  <2> QED BY <2>1, <2>2, BoundsAssumption DEF RegionInv
<1>3. UNCHANGED <<log, moved, invalidated>>
  BY DEF Aside, IdleLaunch, PaintWidget, PaintCommit, Realize, Unrealize, UnrealizeBusy
<1>4. Region(shown') /\ Region(stores'.drawn) /\ Region(stores'.snap)
  <2>1. Region(shown) /\ Region(stores.drawn) /\ Region(stores.snap)
    BY DEF RegionInv
  <2>2. CASE IdleLaunch \/ PaintWidget \/ UnrealizeBusy
    BY <2>1, <2>2 DEF IdleLaunch, PaintWidget, UnrealizeBusy
  <2>3. CASE PaintCommit \/ Unrealize
    <3>1. CommitTiles
      BY <2>3 DEF PaintCommit, Unrealize
    <3> QED BY <2>1, <3>1, CommitRegions
  <2>4. CASE Realize
    <3>1. shown' = {} /\ stores' = ResetStores(stores)
      BY <2>4 DEF Realize
    <3>2. stores'.drawn = {} /\ stores'.snap = {}
      BY <3>1 DEF ResetStores, Inv, ShapeInv, IsStores
    <3> QED BY <3>1, <3>2, RegionFacts
  <2> QED BY <2>2, <2>3, <2>4 DEF Aside
<1> HIDE DEF UserCall, viewvars, schedvars, drawingvars, storevars, threadvars
<1> QED BY <1>1, <1>2, <1>3, <1>4 DEF RegionInv

LEMMA LaunchRegions ==
  ASSUME Inv, RegionInv, Launch
  PROVE  RegionInv'
<1> DEFINE result == UpdateStores(stores, view)
           s == result.stores
           a == result.action
           kept == UpdaterAfter(up, a, s)
           u == SwitchUpdater(kept, strategy)
           v == MarkDirty(u, DirtyRegion(a, s))
           d == s.mode = "Decoupled"
           area == IF d THEN Outwards(Area(view), view.affine, s.affine) ELSE Area(view)
<1>1. /\ stores' = s /\ items_affine' = s.affine
      /\ shown' = ShownAfter(shown, a, s) /\ invalidated' = {}
      /\ up' = NextFrame(v) /\ abort' = "none"
      /\ moved' \in {{}, moved}
      /\ rd' = [rd EXCEPT !.stage = "tiler", !.store = s.rect, !.decoupled = d, !.visible = area]
      /\ UNCHANGED <<log, strategy, requests, lock>>
  BY DEF Launch, viewvars, threadvars
<1>2. IsStores(stores) /\ IsUpdater(up) /\ IsRedrawData(rd) /\ view \in ViewType /\ stores.mode \in Modes
  BY DEF Inv, ShapeInv
<1>3. /\ Region(stores.drawn) /\ Region(stores.snap) /\ stores.affine \in Affines \cup {1}
      /\ Region(up.clean) /\ strategy \in UsedStrategies /\ Region(shown)
  BY DEF RegionInv
<1>4. Region(s.drawn) /\ Region(s.snap) /\ s.affine \in Affines \cup {1}
  BY <1>2, <1>3, UpdateRegions
<1>5. a \in Actions
  BY <1>2, UpdateStoresFacts
<1> HIDE DEF s, a
<1>6. Region(up'.clean) /\ up'.strategy = strategy
  <2>1. IsUpdater(kept)
    BY <1>2, <1>5, UpdaterAfterFacts
  <2>2. kept.clean \subseteq up.clean
    <3>1. CASE a = "Recreated"
      <4>1. kept = ResetUpdater(up)
        BY <3>1 DEF UpdaterAfter
      <4> QED BY <1>2, <4>1, ResetUpdaterFacts
    <3>2. CASE a = "Shifted"
      <4>1. kept = IntersectUpdater(up, s.rect)
        BY <3>2 DEF UpdaterAfter
      <4> QED BY <1>2, <4>1, IntersectUpdaterFacts
    <3>3. CASE a = "None"
      BY <3>3 DEF UpdaterAfter
    <3> QED BY <1>5, <3>1, <3>2, <3>3 DEF Actions
  <2> HIDE DEF kept
  <2>3. IsUpdater(u) /\ u.clean = kept.clean /\ u.strategy = strategy
    BY <2>1, SwitchUpdaterFacts
  <2> HIDE DEF u
  <2>4. IsUpdater(v) /\ v.clean = u.clean \ DirtyRegion(a, s) /\ v.strategy = u.strategy
    BY <2>3, MarkDirtyFacts
  <2> HIDE DEF v
  <2>5. up'.clean = v.clean /\ up'.strategy = v.strategy
    BY <1>1, <2>4, NextFrameFacts
  <2>6. up'.clean \subseteq up.clean
    BY <2>2, <2>3, <2>4, <2>5
  <2> QED BY <1>3, <2>3, <2>4, <2>5, <2>6, RegionFacts
<1>7. Region(area)
  <2>1. Area(view) \in SUBSET Int /\ IsFiniteSet(Area(view)) /\ view.affine \in Nat \ {0}
    BY <1>2, ViewFacts
  <2>2. s.affine \in Nat
    BY <1>4, AffineFacts
  <2>3. Region(Outwards(Area(view), view.affine, s.affine))
    BY <2>1, <2>2, OutwardsFacts DEF Region
  <2> QED BY <2>1, <2>3 DEF Region
<1>8. d \in BOOLEAN
  OBVIOUS
<1> HIDE DEF d, area, v, u, kept, result
<1>9. /\ rd'.decoupled = d /\ rd'.visible = area /\ rd'.timeoutflag = rd.timeoutflag
      /\ rd'.rects = rd.rects /\ rd'.bounds = rd.bounds
  BY <1>1, <1>2 DEF IsRedrawData
<1>10. Region(shown')
  <2>1. shown' \subseteq shown
    BY <1>1, <1>5 DEF ShownAfter, Actions
  <2> QED BY <1>3, <2>1, RegionFacts
<1>11. moved' \in SUBSET Units /\ IsFiniteSet(moved')
  BY <1>1, FS_EmptySet DEF RegionInv
<1> QED BY <1>1, <1>3, <1>4, <1>6, <1>7, <1>8, <1>9, <1>10, <1>11, RegionFacts DEF RegionInv

LEMMA UnsnapshotRegions ==
  ASSUME RegionInv, Unsnapshot
  PROVE  /\ log' = {} /\ moved' \in SUBSET Units /\ IsFiniteSet(moved')
         /\ items_affine' = items_affine /\ Region(Repainted)
<1>1. /\ log \in SUBSET (Units \X Units) /\ IsFiniteSet(log)
      /\ moved \in SUBSET Units /\ IsFiniteSet(moved) /\ items_affine \in Affines \cup {1}
  BY DEF RegionInv
<1> DEFINE far == {x \in log : x[1] # x[2]}
           news == {e[2] : e \in far}
           olds == {e[1] : e \in log}
<1>2. log' = {} /\ moved' = moved \cup news /\ items_affine' = items_affine
  BY DEF Unsnapshot
<1>3. news \in SUBSET Units /\ olds \in SUBSET Units
  BY <1>1
<1>4. IsFiniteSet(news)
  <2>1. IsFiniteSet(far)
    BY <1>1, FiniteParts
  <2> DEFINE f == [e \in far |-> e[2]]
  <2>2. f \in Surjection(far, news)
    BY DEF Surjection
  <2> HIDE DEF f, far, news
  <2> QED BY <2>1, <2>2, FS_Surjection
<1>5. IsFiniteSet(olds)
  <2> DEFINE f == [e \in log |-> e[1]]
  <2>1. f \in Surjection(log, olds)
    BY DEF Surjection
  <2> HIDE DEF f, olds
  <2> QED BY <1>1, <2>1, FS_Surjection
<1> HIDE DEF news
<1>6. IsFiniteSet(moved \cup news)
  BY <1>1, <1>4, FS_Union
<1> HIDE DEF olds
<1>7. Region(Footprint(olds, items_affine))
  BY <1>1, <1>3, <1>5, AffineFacts
<1> QED BY <1>1, <1>2, <1>3, <1>6, <1>7 DEF Repainted, olds

LEMMA AfterRedrawRegions ==
  ASSUME Inv, RegionInv, AfterRedraw
  PROVE  RegionInv'
<1> DEFINE drawn == MarkDrawn(stores, tiles)
           result == IF rd.timeoutflag THEN [stores |-> drawn, action |-> "None"]
                     ELSE FinishedDraw(drawn, view)
           a == result.action
           s == result.stores
           committed == (shown \ tiles) \cup (tiles \ Stale)
<1>1. /\ Unsnapshot /\ stores' = s /\ shown' = ShownAfter(committed, a, s)
      /\ invalidated' = InvalidatedAfter(invalidated \cup Repainted, a, s)
      /\ up' = UpdaterAfter(up, a, s) /\ rd' = [rd EXCEPT !.stage = "none"]
      /\ abort' \in {"soft", abort}
      /\ UNCHANGED <<strategy, requests, lock>>
  BY DEF AfterRedraw, viewvars, threadvars
<1>2. IsStores(stores) /\ IsUpdater(up) /\ IsRedrawData(rd) /\ view \in ViewType
  BY DEF Inv, ShapeInv
<1>3. /\ Region(stores.drawn) /\ Region(stores.snap) /\ stores.affine \in Affines \cup {1}
      /\ Region(up.clean) /\ Region(shown) /\ Region(invalidated) /\ up.strategy \in UsedStrategies
  BY DEF RegionInv
<1>4. Region(tiles) /\ Region(stores.rect)
  BY RegionFacts DEF Inv, ShapeInv, StoreInv, Region
<1>5. /\ IsStores(drawn) /\ drawn.snap = stores.snap /\ drawn.affine = stores.affine
      /\ drawn.rect = stores.rect
  BY <1>2, MarkDrawnFacts
<1>6. Region(drawn.drawn)
  <2>1. drawn.drawn = stores.drawn \cup tiles
    BY <1>2 DEF MarkDrawn, IsStores
  <2> QED BY <1>3, <1>4, <2>1, RegionFacts
<1>7. /\ Region(s.drawn) /\ Region(s.snap) /\ s.affine \in Affines \cup {1}
      /\ a \in {"None", "Recreated"} /\ (a = "Recreated" => Region(s.rect))
  <2> HIDE DEF drawn
  <2>1. CASE rd.timeoutflag
    <3>1. s = drawn /\ a = "None"
      BY <2>1
    <3> HIDE DEF result
    <3> QED BY <1>3, <1>5, <1>6, <3>1
  <2>2. CASE ~rd.timeoutflag
    <3>1. result = FinishedDraw(drawn, view)
      BY <2>2
    <3> HIDE DEF result
    <3>2. Region(s.drawn) /\ Region(s.snap) /\ s.affine \in Affines \cup {1}
      BY <1>2, <1>3, <1>5, <1>6, <3>1, FinishedRegions
    <3>3. a \in {"None", "Recreated"} /\ (a = "Recreated" => s.rect = Centered(view))
      BY <1>5, <3>1, FinishedDrawFacts
    <3>4. Region(Centered(view))
      BY <1>2, ViewFacts DEF Region
    <3> QED BY <3>2, <3>3, <3>4
  <2> QED BY <2>1, <2>2
<1> HIDE DEF drawn, result, s, a
<1>8. up'.clean \subseteq up.clean /\ up'.strategy = up.strategy
  <2>1. a = "Recreated" => UpdaterAfter(up, a, s) = ResetUpdater(up)
    BY DEF UpdaterAfter
  <2>2. a = "None" => UpdaterAfter(up, a, s) = up
    BY DEF UpdaterAfter
  <2>3. ResetUpdater(up).clean = {} /\ ResetUpdater(up).strategy = up.strategy
    BY <1>2, ResetUpdaterFacts
  <2> QED BY <1>1, <1>7, <2>1, <2>2, <2>3
<1>9. Region(shown')
  <2>1. shown' \subseteq shown \cup tiles
    BY <1>1, <1>7 DEF ShownAfter
  <2> QED BY <1>3, <1>4, <2>1, RegionFacts
<1>10. /\ log' = {} /\ moved' \in SUBSET Units /\ IsFiniteSet(moved')
       /\ items_affine' = items_affine /\ Region(Repainted)
  BY <1>1, UnsnapshotRegions
<1>11. Region(invalidated')
  <2>1. a = "None" => invalidated' = invalidated \cup Repainted
    BY <1>1 DEF InvalidatedAfter
  <2>2. a = "Recreated" => invalidated' = (invalidated \cup Repainted) \cup s.rect
    BY <1>1 DEF InvalidatedAfter
  <2>3. Region(invalidated \cup Repainted)
    BY <1>3, <1>10, RegionFacts
  <2>4. a = "Recreated" => Region((invalidated \cup Repainted) \cup s.rect)
    BY <1>7, <2>3, RegionFacts
  <2> QED BY <1>7, <2>1, <2>2, <2>3, <2>4
<1>12. /\ rd'.decoupled = rd.decoupled /\ rd'.visible = rd.visible /\ rd'.timeoutflag = rd.timeoutflag
       /\ rd'.rects = rd.rects /\ rd'.bounds = rd.bounds
  BY <1>1, <1>2 DEF IsRedrawData
<1>13. Region(up'.clean)
  BY <1>3, <1>8, RegionFacts
<1> QED BY <1>1, <1>7, <1>8, <1>9, <1>10, <1>11, <1>12, <1>13, FS_EmptySet DEF RegionInv

LEMMA UnrealizeDoneRegions ==
  ASSUME Inv, RegionInv, UnrealizeDone
  PROVE  RegionInv'
<1>1. /\ Unsnapshot /\ CommitTiles /\ rd' = [rd EXCEPT !.stage = "none"]
      /\ UNCHANGED <<strategy, requests, lock, abort, up, invalidated>>
  BY DEF UnrealizeDone, viewvars, threadvars
<1>2. /\ rd'.decoupled = rd.decoupled /\ rd'.visible = rd.visible /\ rd'.timeoutflag = rd.timeoutflag
      /\ rd'.rects = rd.rects /\ rd'.bounds = rd.bounds
  BY <1>1 DEF Inv, ShapeInv, IsRedrawData
<1> QED BY <1>1, <1>2, UnsnapshotRegions, CommitRegions, FS_EmptySet DEF RegionInv

\* A step of the process keeps the regions that it does not set.
LEMMA ProcessRegions ==
  ASSUME RegionInv, UNCHANGED <<viewvars, drawingvars, storevars, abort>>,
         up'.strategy = up.strategy, Region(up'.clean), lock' \in Threads \cup {NoThread},
         rd'.decoupled = rd.decoupled, rd'.timeoutflag \in BOOLEAN, rd'.visible = rd.visible,
         Region(rd'.rects), Region(rd'.bounds)
  PROVE  RegionInv'
<1>1. UNCHANGED <<strategy, requests, abort, items_affine, stores, log, moved, invalidated, shown>>
  BY DEF viewvars, drawingvars, storevars
<1> QED BY <1>1 DEF RegionInv

\* What init_redraw() sets up lies in the store.
LEMMA CycleRegions ==
  ASSUME Inv, RegionInv, NEW p \in 0..2, NEW r, IsRedrawData(r), NEW u, IsUpdater(u),
         InitRedraw(p, r, u), Region(r.rects), Region(r.bounds), Region(rd.store)
  PROVE  /\ up'.clean = u.clean /\ up'.strategy = u.strategy
         /\ rd'.decoupled = r.decoupled /\ rd'.timeoutflag = r.timeoutflag
         /\ rd'.visible = r.visible
         /\ Region(rd'.rects) /\ Region(rd'.bounds)
<1> DEFINE q == PhaseFrom(p)
<1>1. /\ up'.clean = u.clean /\ up'.strategy = u.strategy
      /\ rd'.decoupled = r.decoupled /\ rd'.timeoutflag = r.timeoutflag /\ rd'.visible = r.visible
      /\ HasBounds(q) => /\ rd'.bounds = BoundsOf(q)
                         /\ rd'.rects \in SUBSET Int /\ IsFiniteSet(rd'.rects)
      /\ ~HasBounds(q) => rd'.rects = r.rects /\ rd'.bounds = r.bounds
  BY InitRedrawFacts DEF Region
<1>2. BoundsOf(q) \subseteq rd.store
  BY DEF BoundsOf, VisStore, PrerenderStore
<1> HIDE DEF q
<1>3. CASE HasBounds(q)
  <2>1. Region(rd'.bounds)
    BY <1>1, <1>2, <1>3, RegionFacts
  <2>2. Region(rd'.rects)
    BY <1>1, <1>3 DEF Region
  <2> QED BY <1>1, <2>1, <2>2
<1>4. CASE ~HasBounds(q)
  BY <1>1, <1>4
<1> QED BY <1>3, <1>4

LEMMA SetUpRegions ==
  ASSUME Inv, RegionInv, InitTiler \/ SignalExit
  PROVE  RegionInv'
<1>1. /\ UNCHANGED <<viewvars, drawingvars, storevars, abort>> /\ lock' = lock
  BY DEF InitTiler, SignalExit, mainvars, threadvars
<1>2. /\ IsRedrawData(rd) /\ IsUpdater(up) /\ Region(rd.rects) /\ Region(rd.bounds) /\ Region(up.clean)
      /\ lock \in Threads \cup {NoThread} /\ rd.timeoutflag \in BOOLEAN
  BY DEF Inv, ShapeInv, RegionInv
<1>3. CASE SignalExit
  <2>1. rd' = [rd EXCEPT !.stage = "exit", !.rects = {}] /\ UNCHANGED up
    BY <1>3 DEF SignalExit
  <2>2. /\ rd'.decoupled = rd.decoupled /\ rd'.timeoutflag = rd.timeoutflag
        /\ rd'.visible = rd.visible /\ rd'.rects = {} /\ rd'.bounds = rd.bounds
    BY <1>2, <2>1 DEF IsRedrawData
  <2> QED BY <1>1, <1>2, <2>1, <2>2, RegionFacts, ProcessRegions
<1>4. CASE InitTiler
  <2> DEFINE r1 == [rd EXCEPT !.stage = "run", !.timeoutflag = FALSE,
                              !.numactive = Cardinality(Threads)]
             r2 == [rd EXCEPT !.stage = "drained"]
  <2>1. rd.stage = "tiler" /\ \E r \in {r1, r2} : InitRedraw(0, r, up)
    BY <1>4 DEF InitTiler
  <2>2. /\ IsRedrawData(r1) /\ r1.visible = rd.visible /\ r1.rects = rd.rects
        /\ r1.bounds = rd.bounds /\ r1.decoupled = rd.decoupled /\ r1.timeoutflag = FALSE
    BY <1>2 DEF IsRedrawData
  <2>3. /\ IsRedrawData(r2) /\ r2.visible = rd.visible /\ r2.rects = rd.rects
        /\ r2.bounds = rd.bounds /\ r2.decoupled = rd.decoupled /\ r2.timeoutflag = rd.timeoutflag
    BY <1>2 DEF IsRedrawData
  <2>4. Region(rd.store)
    BY <2>1 DEF Inv, StoreInv, ShapeInv, Region
  <2> HIDE DEF r1, r2
  <2>5. PICK r \in {r1, r2} : InitRedraw(0, r, up)
    BY <2>1
  <2>6. /\ IsRedrawData(r) /\ r.visible = rd.visible /\ Region(r.rects) /\ Region(r.bounds)
        /\ r.decoupled = rd.decoupled /\ r.timeoutflag \in BOOLEAN
    BY <1>2, <2>2, <2>3, <2>5
  <2>7. /\ up'.clean = up.clean /\ up'.strategy = up.strategy
        /\ rd'.decoupled = r.decoupled /\ rd'.timeoutflag = r.timeoutflag
        /\ rd'.visible = r.visible /\ Region(rd'.rects) /\ Region(rd'.bounds)
    BY <1>2, <2>4, <2>5, <2>6, CycleRegions
  <2> QED BY <1>1, <1>2, <2>6, <2>7, ProcessRegions
<1> QED BY <1>3, <1>4

LEMMA ThreadRegions ==
  ASSUME Inv, RegionInv, NEW t \in Threads, ThreadNext(t)
  PROVE  RegionInv'
<1>1. UNCHANGED <<viewvars, drawingvars, storevars, abort>>
  BY ThreadKeeps DEF mainvars
<1>2. tpc[t] # "off"
  BY DEF ThreadNext, NextCycle, FinishLast, Abort, Cull, BeginPaint, EndPaint, InTime, TimeOut, AtLoop
<1>3. lock' \in Threads \cup {NoThread}
  <2>1. lock' \in {t, NoThread, lock}
    BY DEF ThreadNext, NextCycle, FinishLast, Abort, Cull, BeginPaint, EndPaint, InTime, TimeOut, Leave
  <2> QED BY <2>1 DEF RegionInv
<1>4. /\ rd.stage = "run" /\ Region(rd.store) /\ IsUpdater(up) /\ IsRedrawData(rd)
      /\ Region(rd.rects) /\ Region(rd.bounds) /\ Region(up.clean) /\ rd.timeoutflag \in BOOLEAN
  BY <1>2, ThreadRuns DEF Inv, ShapeInv, RegionInv, Region
<1>5. /\ IsUpdater(FinishCycle(up)) /\ FinishCycle(up).clean = up.clean
      /\ FinishCycle(up).strategy = up.strategy
  BY <1>4, FinishCycleFacts
<1>6. CASE NextCycle(t)
  <2>1. PICK p \in {1, 2}, u \in {up, FinishCycle(up)} : InitRedraw(p, rd, u)
    BY <1>6 DEF NextCycle
  <2>2. IsUpdater(u) /\ u.clean = up.clean /\ u.strategy = up.strategy
    BY <1>4, <1>5
  <2>3. /\ up'.clean = u.clean /\ up'.strategy = u.strategy
        /\ rd'.decoupled = rd.decoupled /\ rd'.timeoutflag = rd.timeoutflag
        /\ rd'.visible = rd.visible /\ Region(rd'.rects) /\ Region(rd'.bounds)
    BY <1>4, <2>1, <2>2, CycleRegions
  <2> QED BY <1>1, <1>3, <1>4, <2>2, <2>3, ProcessRegions
<1>7. ASSUME NEW r, IsRedrawData(r), r.stage = "run", r.numactive = rd.numactive, Leave(t, r),
             r.visible = rd.visible, r.rects = rd.rects, r.bounds = rd.bounds,
             r.decoupled = rd.decoupled, r.timeoutflag \in BOOLEAN,
             up'.clean = up.clean, up'.strategy = up.strategy
      PROVE  RegionInv'
  <2>1. /\ rd'.decoupled = r.decoupled /\ rd'.visible = r.visible /\ rd'.rects = r.rects
        /\ rd'.bounds = r.bounds /\ rd'.timeoutflag = r.timeoutflag
    BY <1>2, <1>7, LeaveFacts
  <2> QED BY <1>1, <1>3, <1>4, <1>7, <2>1, ProcessRegions
<1>8. CASE FinishLast(t) \/ Abort(t) \/ TimeOut(t)
  <2>1. CASE Leave(t, rd) /\ UNCHANGED up
    BY <1>4, <1>7, <2>1
  <2>2. CASE up' = FinishCycle(up) /\ Leave(t, [rd EXCEPT !.phase = 2])
    <3> DEFINE r == [rd EXCEPT !.phase = 2]
    <3>1. /\ IsRedrawData(r) /\ r.stage = "run" /\ r.numactive = rd.numactive
          /\ r.visible = rd.visible /\ r.rects = rd.rects /\ r.bounds = rd.bounds
          /\ r.decoupled = rd.decoupled /\ r.timeoutflag = rd.timeoutflag
      BY <1>4 DEF IsRedrawData
    <3>2. Leave(t, r)
      BY <2>2
    <3> HIDE DEF r
    <3> QED BY <1>4, <1>5, <1>7, <2>2, <3>1, <3>2
  <2>3. CASE Leave(t, [rd EXCEPT !.timeoutflag = TRUE]) /\ UNCHANGED up
    <3> DEFINE r == [rd EXCEPT !.timeoutflag = TRUE]
    <3>1. /\ IsRedrawData(r) /\ r.stage = "run" /\ r.numactive = rd.numactive
          /\ r.visible = rd.visible /\ r.rects = rd.rects /\ r.bounds = rd.bounds
          /\ r.decoupled = rd.decoupled /\ r.timeoutflag = TRUE
      BY <1>4 DEF IsRedrawData
    <3>2. Leave(t, r)
      BY <2>3
    <3> HIDE DEF r
    <3> QED BY <1>7, <2>3, <3>1, <3>2
  <2> QED BY <1>8, <2>1, <2>2, <2>3 DEF FinishLast, Abort, TimeOut
<1>9. ASSUME NEW c \in rd.rects, Cull(t, c) \/ BeginPaint(t, c) PROVE RegionInv'
  <2>1. /\ rd' = [rd EXCEPT !.rects = @ \ {c}]
        /\ up' = up \/ up' = MarkClean(up, Extended(c))
    BY <1>9 DEF Cull, BeginPaint
  <2>2. /\ rd'.decoupled = rd.decoupled /\ rd'.visible = rd.visible /\ rd'.bounds = rd.bounds
        /\ rd'.timeoutflag = rd.timeoutflag /\ rd'.rects = rd.rects \ {c}
    BY <1>4, <2>1 DEF IsRedrawData
  <2>3. Extended(c) \subseteq rd.store
    BY DEF Extended
  <2>4. up'.strategy = up.strategy /\ up'.clean \subseteq up.clean \cup rd.store
    BY <1>4, <2>1, <2>3, MarkCleanFacts
  <2>5. Region(up'.clean)
    <3>1. Region(up.clean \cup rd.store)
      BY <1>4, RegionFacts
    <3> QED BY <2>4, <3>1, RegionFacts
  <2>6. Region(rd'.rects)
    <3>1. rd'.rects \subseteq rd.rects
      BY <2>2
    <3> QED BY <1>4, <3>1, RegionFacts
  <2> QED BY <1>1, <1>3, <1>4, <2>2, <2>4, <2>5, <2>6, ProcessRegions
<1>10. CASE EndPaint(t) \/ InTime(t)
  <2>1. UNCHANGED <<rd, up>>
    BY <1>10 DEF EndPaint, InTime
  <2> QED BY <1>1, <1>3, <1>4, <2>1, ProcessRegions
<1> QED BY <1>6, <1>8, <1>9, <1>10 DEF ThreadNext

LEMMA RegionNext == Inv /\ RegionInv /\ [Next]_vars => RegionInv'
<1> SUFFICES ASSUME Inv, RegionInv, [Next]_vars PROVE RegionInv'
  OBVIOUS
<1>1. CASE Next
  BY <1>1, Steps, RequestRegions, AsideRegions, LaunchRegions, SetUpRegions, AfterRedrawRegions,
     UnrealizeDoneRegions, ThreadRegions
<1>2. CASE UNCHANGED vars
  <2>1. UNCHANGED <<strategy, requests, abort, items_affine, stores, log, moved, invalidated, shown,
                    lock, up, rd>>
    BY <1>2 DEF vars, viewvars, drawingvars, storevars, threadvars
  <2> QED BY <2>1 DEF RegionInv
<1> QED BY <1>1, <1>2

LEMMA RegionInit == Init => RegionInv
<1> SUFFICES ASSUME Init PROVE RegionInv
  OBVIOUS
<1>1. /\ rd.decoupled = FALSE /\ rd.timeoutflag = FALSE /\ rd.rects = {} /\ rd.bounds = {}
      /\ rd.visible = {}
  BY DEF Init
<1>2. stores.affine = 1 /\ stores.drawn = {} /\ stores.snap = {}
  BY DEF Init, NewStores
<1>3. up.strategy = strategy /\ up.clean = {} /\ strategy \in UsedStrategies
  BY DEF Init, NewUpdater
<1>4. requests \in 0..MaxRequests
  BY BoundsAssumption DEF Init
<1>5. /\ abort = "none" /\ lock = NoThread /\ items_affine = 1 /\ log = {} /\ moved = {}
      /\ invalidated = {} /\ shown = {}
  BY DEF Init
<1> QED BY <1>1, <1>2, <1>3, <1>4, <1>5, RegionFacts, FS_EmptySet DEF RegionInv

\* Every variable keeps its type: regions stay finite, whatever the margins,
\* the edits and the zooms, and no more threads are counted than there are.
THEOREM TypesAreKept == Spec => []TypeOK
<1>1. Inv /\ RegionInv => TypeOK
  <2> SUFFICES ASSUME Inv, RegionInv PROVE TypeOK
    OBVIOUS
  <2>1. view \in [affine : Affines, pos : Positions, width : Widths \cup {0}]
    BY DEF Inv, ShapeInv, ViewType
  <2>2. \A b \in {active, conn, redraw_active, redraw_requested, need_update,
                  snapshotted, rd.decoupled, rd.timeoutflag} : b \in BOOLEAN
    BY DEF Inv, LinkInv, RegionInv
  <2>3. Region(tiles) /\ Region(stores.rect)
    BY RegionFacts DEF Inv, ShapeInv, StoreInv, Region
  <2>4. \A r \in {invalidated, tiles, shown, stores.rect, stores.drawn, up.clean,
                  rd.rects, rd.bounds, rd.visible} : IsFiniteSet(r) /\ r \subseteq Cells
    BY <2>3 DEF RegionInv, Region, Cells
  <2>5. rd.numactive \in 0..Cardinality(Threads)
    <3>1. Active \subseteq Threads /\ rd.numactive = Cardinality(Active)
      BY DEF Active, Inv, CountInv
    <3>2. /\ Cardinality(Active) \in Nat /\ Cardinality(Threads) \in Nat
          /\ Cardinality(Active) <= Cardinality(Threads)
      BY <3>1, ThreadsAssumption, FiniteParts, FS_Subset, FS_CardinalityType
    <3> QED BY <3>1, <3>2
  <2>6. /\ mpc \in MainStates /\ stores.mode \in {"None", "Normal", "Decoupled"}
        /\ rd.stage \in Stages /\ rd.phase \in 0..2 /\ tpc \in [Threads -> ThreadStates]
    BY DEF Inv, LinkInv, ShapeInv, CountInv, Modes
  <2> QED BY <2>1, <2>2, <2>4, <2>5, <2>6 DEF RegionInv, TypeOK
<1> QED BY <1>1, RegionInit, RegionNext, Invariance, PTL DEF Spec
=============================================================================
