---------------------------- MODULE ParallelFor -----------------------------
(***************************************************************************)
(* What dispatch-pool.h promises: a dispatch is a parallel form of the     *)
(* loop "for (int i = 0; i < count; ++i) do_work(i)", and only one runs at *)
(* a time.  Every i is done once, in any order, before the loop ends.      *)
(***************************************************************************)
EXTENDS Integers

CONSTANT MaxCount

VARIABLES
  looping,  \* whether a loop is in progress
  todo      \* the values of i still to be done

loopvars == <<looping, todo>>

LoopInit == looping = FALSE /\ todo = {}

Begin(count) ==
  /\ ~looping
  /\ looping' = TRUE
  /\ todo' = 0..(count - 1)

DoWork(i) ==
  /\ looping
  /\ i \in todo
  /\ todo' = todo \ {i}
  /\ UNCHANGED looping

EndLoop ==
  /\ looping /\ todo = {}
  /\ looping' = FALSE
  /\ UNCHANGED todo

LoopNext ==
  \/ \E count \in 0..MaxCount : Begin(count)
  \/ \E i \in 0..MaxCount : DoWork(i)
  \/ EndLoop

LoopSpec == LoopInit /\ [][LoopNext]_loopvars
=============================================================================
