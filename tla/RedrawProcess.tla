--------------------------- MODULE RedrawProcess ----------------------------
(***************************************************************************)
(* What synchronizer.h promises its clients, free of locks, condition      *)
(* variables and dispatchers.  A redraw process is begun by the main       *)
(* thread; its render threads draw, and may ask the main thread for a      *)
(* function to be run and stay blocked until it has been; once every       *)
(* thread has left, the process has ended, and the main thread handles     *)
(* that end exactly once, by stopping or by beginning the next process.    *)
(***************************************************************************)
CONSTANT Threads

VARIABLES
  process,   \* "none", "begun", "drawing" or "ended"
  client     \* what each render thread is doing

absvars == <<process, client>>

ProcessInit ==
  /\ process = "none"
  /\ client = [t \in Threads |-> "off"]

Begin ==
  /\ process \in {"none", "ended"}
  /\ process' = "begun"
  /\ UNCHANGED client

\* The process starts drawing, with every thread or with nothing to draw.
Draw ==
  /\ process = "begun"
  /\ process' = "drawing"
  /\ \E c \in {"off", "drawing"} : client' = [t \in Threads |-> c]

Move(t, from, to) ==
  /\ client[t] = from
  /\ client' = [client EXCEPT ![t] = to]
  /\ UNCHANGED process

Ask(t) == Move(t, "drawing", "asked")

\* The main thread runs the function of a blocked caller.
Answer(t) == Move(t, "asked", "answered")

Resume(t) == Move(t, "answered", "drawing")

Leave(t) == Move(t, "drawing", "off")

End ==
  /\ process = "drawing"
  /\ \A t \in Threads : client[t] = "off"
  /\ process' = "ended"
  /\ UNCHANGED client

HandleEnd ==
  /\ process = "ended"
  /\ process' = "none"
  /\ UNCHANGED client

ProcessNext ==
  \/ Begin \/ Draw \/ End \/ HandleEnd
  \/ \E t \in Threads : Ask(t) \/ Answer(t) \/ Resume(t) \/ Leave(t)

ProcessSpec == ProcessInit /\ [][ProcessNext]_absvars
=============================================================================
