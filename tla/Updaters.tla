------------------------------ MODULE Updaters ------------------------------
(***************************************************************************)
(* The three update strategies of the canvas                               *)
(* (src/ui/widget/canvas/updaters.cpp), as operators on a record.  An      *)
(* updater tracks the clean region of the store and decides which region   *)
(* the redraw process may take for clean in its next cycle.  A region is a *)
(* set of cells.                                                           *)
(*                                                                         *)
(* `old` is FullRedrawUpdater's old_clean_region, as a set of at most one  *)
(* region, empty when the pointer is null; `activated`, `counter`,         *)
(* `scale`, `elapsed` and `blocked` are MultiscaleUpdater's.  A strategy   *)
(* leaves the fields of the others at their initial values.                *)
(***************************************************************************)
EXTENDS Integers, Sequences

Strategies == {"Responsive", "FullRedraw", "Multiscale"}

NewUpdater(strategy) ==
  [strategy |-> strategy, clean |-> {}, inprogress |-> FALSE,
   old |-> {}, activated |-> FALSE,
   counter |-> 0, scale |-> 0, elapsed |-> 0, blocked |-> <<>>]

\* launch_redraw() carries the clean region, and nothing else, over to an
\* updater of the newly chosen strategy.
SwitchUpdater(u, strategy) ==
  IF u.strategy = strategy THEN u
  ELSE [NewUpdater(strategy) EXCEPT !.clean = u.clean]

ResetUpdater(u) ==
  [u EXCEPT !.clean = {}, !.inprogress = FALSE, !.old = {},
            !.activated = FALSE]

IntersectUpdater(u, rect) ==
  [u EXCEPT !.clean = @ \cap rect,
            !.old = {r \cap rect : r \in @},
            !.blocked = IF u.activated
                        THEN [i \in DOMAIN @ |-> @[i] \cap rect] ELSE @]

\* FullRedraw keeps the clean region from before the damage, to go on with
\* the redraw in progress; Multiscale starts counting frames.
MarkDirty(u, region) ==
  LET v == [u EXCEPT !.clean = @ \ region]
  IN CASE u.strategy = "FullRedraw" /\ u.inprogress /\ u.old = {} ->
            [v EXCEPT !.old = {u.clean}]
       [] u.strategy = "Multiscale" /\ u.inprogress /\ ~u.activated ->
            [v EXCEPT !.counter = 0, !.scale = 0, !.elapsed = 0,
                      !.blocked = <<{}>>, !.activated = TRUE]
       [] OTHER -> v

\* blocked is indexed from 1 here, from 0 in the code.
MarkClean(u, rect) ==
  [u EXCEPT !.clean = @ \cup rect,
            !.old = {r \cup rect : r \in @},
            !.blocked = IF u.activated
                        THEN [@ EXCEPT ![u.scale + 1] = @ \cup rect] ELSE @]

\* get_next_clean_region() returns clean_region or old_clean_region itself,
\* which later calls go on changing, or a copy made on the spot.
NextCleanRegion(u) ==
  CASE u.old # {} -> [alias |-> "old", region |-> {}]
    [] u.old = {} /\ u.activated ->
                      [alias |-> "copy",
                       region |-> u.clean \cup u.blocked[u.scale + 1]]
    [] OTHER -> [alias |-> "clean", region |-> {}]

BeginCycle(u) ==
  IF u.strategy = "Responsive" THEN u ELSE [u EXCEPT !.inprogress = TRUE]

\* What the reference handed out by NextCleanRegion stands for now.
Deref(u, c) ==
  CASE c.alias = "clean" -> u.clean
    [] c.alias = "old" -> UNION u.old
    [] c.alias = "copy" -> c.region

\* Mutant of WantsAnotherCycle: damage does not make for another cycle.
WantsNoCycle(u) == FALSE

\* report_finished(): whether another cycle is wanted, and the state after.
WantsAnotherCycle(u) == u.old # {} \/ u.activated

FinishCycle(u) ==
  CASE u.old # {} -> [u EXCEPT !.old = {}]
    [] u.old = {} /\ u.activated -> [u EXCEPT !.activated = FALSE, !.blocked = <<>>]
    [] OTHER -> [u EXCEPT !.inprogress = FALSE]

\* The number of trailing ones of n in binary.
TrailingOnes(n) ==
  CHOOSE k \in 0..n : /\ n % 2^k = 2^k - 1
                      /\ n % 2^(k + 1) # 2^(k + 1) - 1

\* next_frame(): stay 2^scale frames at a scale, then hop to the next one and
\* block there what is clean or was blocked at a finer scale.
NextFrame(u) ==
  IF ~u.activated THEN u
  ELSE IF u.elapsed + 1 < 2^u.scale THEN [u EXCEPT !.elapsed = @ + 1]
  ELSE LET scale == TrailingOnes(u.counter + 1)
           grown == IF scale = Len(u.blocked) THEN Append(u.blocked, {})
                    ELSE u.blocked
       IN [u EXCEPT !.elapsed = 0,
                    !.counter = @ + 1,
                    !.scale = scale,
                    !.blocked = [grown EXCEPT ![scale + 1] =
                                   u.clean \cup UNION {grown[i] : i \in 1..scale}]]
=============================================================================
