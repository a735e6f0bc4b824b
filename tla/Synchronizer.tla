---------------------------- MODULE Synchronizer ----------------------------
(***************************************************************************)
(* The canvas's main-thread / render-thread synchroniser                   *)
(* (src/ui/widget/canvas/synchronizer.cpp) together with the skeleton of   *)
(* its two clients in canvas.cpp: the render threads, which may call       *)
(* runInMain() while they draw and of which the last one calls             *)
(* signalExit(); and the GTK main thread, which either sits in its main    *)
(* loop, where a Glib::Dispatcher wakes it, or blocks in waitForExit().    *)
(*                                                                         *)
(* Every critical section of the mutex `mutables` is one action.  What a   *)
(* step between two critical sections does (running a grabbed function,    *)
(* emitting signal_exit) is an action of its own, so that the other        *)
(* threads interleave with it.  Condition variables may wake spuriously.   *)
(***************************************************************************)
EXTENDS Integers, Sequences, FiniteSets

CONSTANTS Threads,    \* the render threads of a redraw process
          MaxCalls,   \* bound: runInMain() calls a thread makes in one process
          MaxStale    \* bound: stale emissions pending when a process starts

ASSUME ThreadsAssumption == Threads # {} /\ IsFiniteSet(Threads)
ASSUME BoundsAssumption == MaxCalls \in Nat /\ MaxStale \in Nat

VARIABLES
  exitposted,     \* an exit is posted and not consumed
  main_blocked,   \* the main thread is inside waitForExit()
  slots,          \* callers of runInMain() whose function is to be run
  func,           \* func[t]: the Slot on t's stack still holds its function
  pending,        \* dispatcher emissions not delivered yet
  mpc,            \* where the main thread is
  grabbed,        \* process_slots(): the batch taken out of slots
  next,           \* process_slots(): index in grabbed of the next function
  tpc,            \* where each render thread is
  calls,          \* runInMain() calls each thread may still make
  numactive,      \* RedrawData::numactive
  redraw_active   \* CanvasPrivate::redraw_active, past launch_redraw()

syncvars == <<exitposted, main_blocked, slots, func, pending>>
mainvars == <<mpc, grabbed, next, redraw_active>>
threadvars == <<tpc, calls, numactive>>
vars == <<syncvars, mainvars, threadvars>>

\* "loop": in the GTK main loop; "run": in process_slots(), lock released;
\* "wait"/"woken": in main_cond.wait(); "emit": about to emit signal_exit.
MainStates == {"loop", "run", "wait", "woken", "emit"}

\* "tiler": will run init_tiler(); "running": in render_tile(), lock free;
\* "waiting"/"notified": in slots_cond.wait(); "last": about to signalExit().
ThreadStates == {"off", "tiler", "running", "waiting", "notified", "last"}

SeqElems(s) == {s[i] : i \in 1..Len(s)}

TypeOK ==
  /\ exitposted \in BOOLEAN
  /\ main_blocked \in BOOLEAN
  /\ slots \in Seq(Threads)
  /\ func \in [Threads -> BOOLEAN]
  /\ pending \in Nat
  /\ mpc \in MainStates
  /\ grabbed \in Seq(Threads)
  /\ next \in Nat
  /\ tpc \in [Threads -> ThreadStates]
  /\ calls \in [Threads -> 0..MaxCalls]
  /\ numactive \in Nat
  /\ redraw_active \in BOOLEAN

Init ==
  /\ exitposted = FALSE
  /\ main_blocked = FALSE
  /\ slots = <<>>
  /\ func = [t \in Threads |-> FALSE]
  /\ pending = 0
  /\ mpc = "loop"
  /\ grabbed = <<>>
  /\ next = 1
  /\ tpc = [t \in Threads |-> "off"]
  /\ calls = [t \in Threads |-> 0]
  /\ numactive = 0
  /\ redraw_active = FALSE

-----------------------------------------------------------------------------
(* Background side.                                                        *)

\* awaken(): the first reason to wake the main thread, and only the first,
\* signals main_cond or emits the dispatcher, by where the main thread is.
Awaken ==
  IF exitposted \/ slots # <<>> THEN UNCHANGED <<mpc, pending>>
  ELSE IF main_blocked
       THEN /\ mpc' = IF mpc = "wait" THEN "woken" ELSE mpc
            /\ UNCHANGED pending
       ELSE /\ pending' = pending + 1
            /\ UNCHANGED mpc

\* Mutant of TilerStart: numactive is not initialised.
TilerStartUncounted(t) ==
  /\ tpc[t] = "tiler"
  /\ tpc' = [u \in Threads |-> "running"]
  /\ calls' = [u \in Threads |-> MaxCalls]
  /\ UNCHANGED <<syncvars, mainvars, numactive>>

\* init_tiler(): with something to draw, start every render thread.
TilerStart(t) ==
  /\ tpc[t] = "tiler"
  /\ tpc' = [u \in Threads |-> "running"]
  /\ calls' = [u \in Threads |-> MaxCalls]
  /\ numactive' = Cardinality(Threads)
  /\ UNCHANGED <<syncvars, mainvars>>

\* init_tiler(): nothing to draw, so post the exit at once.
TilerSkip(t) ==
  /\ tpc[t] = "tiler"
  /\ tpc' = [tpc EXCEPT ![t] = "last"]
  /\ UNCHANGED <<syncvars, mainvars, calls, numactive>>

\* runInMain() from its lock to the wait, inside paint_rect().
RunInMain(t) ==
  /\ tpc[t] = "running"
  /\ calls[t] > 0
  /\ Awaken
  /\ slots' = Append(slots, t)
  /\ func' = [func EXCEPT ![t] = TRUE]
  /\ tpc' = [tpc EXCEPT ![t] = "waiting"]
  /\ calls' = [calls EXCEPT ![t] = @ - 1]
  /\ UNCHANGED <<exitposted, main_blocked, grabbed, next, redraw_active,
                 numactive>>

\* Mutant of SlotWake: wait() without its predicate.
SlotWakeUnchecked(t) ==
  /\ tpc[t] = "notified"
  /\ tpc' = [tpc EXCEPT ![t] = "running"]
  /\ UNCHANGED <<syncvars, mainvars, calls, numactive>>

\* slots_cond.wait(): the wake-up, and its predicate.  A woken thread whose
\* function has not run goes back to sleep.
SlotWake(t) ==
  /\ tpc[t] = "notified"
  /\ tpc' = [tpc EXCEPT ![t] = IF func[t] THEN "waiting" ELSE "running"]
  /\ UNCHANGED <<syncvars, mainvars, calls, numactive>>

SpuriousSlotWake(t) ==
  /\ tpc[t] = "waiting"
  /\ tpc' = [tpc EXCEPT ![t] = "notified"]
  /\ UNCHANGED <<syncvars, mainvars, calls, numactive>>

\* Mutant of RenderDone: every thread, not the last one, signals the exit.
RenderDoneEachSignals(t) ==
  /\ tpc[t] = "running"
  /\ numactive' = numactive - 1
  /\ tpc' = [tpc EXCEPT ![t] = "last"]
  /\ UNCHANGED <<syncvars, mainvars, calls>>

\* The end of render_tile(): the thread that brings numactive to 0 is done
\* last and goes on to signalExit().
RenderDone(t) ==
  /\ tpc[t] = "running"
  /\ numactive' = numactive - 1
  /\ tpc' = [tpc EXCEPT ![t] = IF numactive' = 0 THEN "last" ELSE "off"]
  /\ UNCHANGED <<syncvars, mainvars, calls>>

\* Mutant of SignalExit: posts the exit before awaken(), which then finds
\* exitposted set and signals nobody.
SignalExitPostsFirst(t) ==
  /\ tpc[t] = "last"
  /\ exitposted' = TRUE
  /\ tpc' = [tpc EXCEPT ![t] = "off"]
  /\ UNCHANGED <<main_blocked, slots, func, pending, mainvars, calls,
                 numactive>>

SignalExit(t) ==
  /\ tpc[t] = "last"
  /\ Awaken
  /\ exitposted' = TRUE
  /\ tpc' = [tpc EXCEPT ![t] = "off"]
  /\ UNCHANGED <<main_blocked, slots, func, grabbed, next, redraw_active,
                 calls, numactive>>

-----------------------------------------------------------------------------
(* Main-thread side.                                                       *)

\* launch_redraw() hands init_tiler() to the pool; it runs on some thread.
Launch ==
  /\ pending <= MaxStale
  /\ \E t \in Threads : tpc' = [tpc EXCEPT ![t] = "tiler"]
  /\ redraw_active' = TRUE

\* schedule_redraw() reaches launch_redraw() from the main loop.
StartRedraw ==
  /\ mpc = "loop"
  /\ ~redraw_active
  /\ Launch
  /\ UNCHANGED <<syncvars, mpc, grabbed, next, calls, numactive>>

\* process_slots(): take the whole batch and release the lock.
Grab ==
  /\ grabbed' = slots
  /\ slots' = <<>>
  /\ next' = 1
  /\ mpc' = "run"

\* One turn of waitForExit()'s loop, up to main_cond.wait() or the return.
\* On return, deactivate() clears redraw_active.
WaitTurn ==
  \/ /\ slots # <<>>
     /\ main_blocked' = TRUE
     /\ Grab
     /\ UNCHANGED <<exitposted, redraw_active>>
  \/ /\ slots = <<>>
     /\ exitposted
     /\ exitposted' = FALSE
     /\ main_blocked' = FALSE
     /\ mpc' = "loop"
     /\ redraw_active' = FALSE
     /\ UNCHANGED <<slots, grabbed, next>>
  \/ /\ slots = <<>>
     /\ ~exitposted
     /\ main_blocked' = TRUE
     /\ mpc' = "wait"
     /\ UNCHANGED <<exitposted, slots, grabbed, next, redraw_active>>

\* deactivate() calls waitForExit() while a process is in flight.
WaitForExit ==
  /\ mpc = "loop"
  /\ redraw_active
  /\ WaitTurn
  /\ UNCHANGED <<func, pending, threadvars>>

MainWake ==
  /\ mpc = "woken"
  /\ WaitTurn
  /\ UNCHANGED <<func, pending, threadvars>>

SpuriousMainWake ==
  /\ mpc = "wait"
  /\ mpc' = "woken"
  /\ UNCHANGED <<syncvars, grabbed, next, redraw_active, threadvars>>

\* Mutant of OnDispatcher: the exit is not marked consumed.
OnDispatcherKeepsExit ==
  /\ mpc = "loop"
  /\ pending > 0
  /\ pending' = pending - 1
  /\ \/ slots # <<>> /\ Grab
     \/ /\ slots = <<>>
        /\ mpc' = IF exitposted THEN "emit" ELSE mpc
        /\ UNCHANGED <<slots, grabbed, next>>
  /\ UNCHANGED <<exitposted, main_blocked, func, redraw_active, threadvars>>

\* on_dispatcher(): the main loop delivers one emission, stale or not.
OnDispatcher ==
  /\ mpc = "loop"
  /\ pending > 0
  /\ pending' = pending - 1
  /\ \/ /\ slots # <<>>
        /\ Grab
        /\ UNCHANGED exitposted
     \/ /\ slots = <<>>
        /\ exitposted
        /\ exitposted' = FALSE
        /\ mpc' = "emit"
        /\ UNCHANGED <<slots, grabbed, next>>
     \/ /\ slots = <<>>
        /\ ~exitposted
        /\ UNCHANGED <<exitposted, slots, mpc, grabbed, next>>
  /\ UNCHANGED <<main_blocked, func, redraw_active, threadvars>>

\* process_slots(): run one grabbed function, the lock released.
RunFunc ==
  /\ mpc = "run"
  /\ next <= Len(grabbed)
  /\ next' = next + 1
  /\ UNCHANGED <<syncvars, mpc, grabbed, redraw_active, threadvars>>

\* Mutants of AnswerBatch: one answers the callers that pushed meanwhile too,
\* and one does not look for them again.
AnswerBatchToAll ==
  /\ mpc = "run"
  /\ next > Len(grabbed)
  /\ func' = [t \in Threads |-> FALSE]
  /\ tpc' = [t \in Threads |->
               IF tpc[t] = "waiting" THEN "notified" ELSE tpc[t]]
  /\ \/ slots # <<>> /\ Grab
     \/ /\ slots = <<>>
        /\ mpc' = IF main_blocked THEN "wait" ELSE "loop"
        /\ grabbed' = <<>>
        /\ next' = 1
        /\ UNCHANGED slots
  /\ UNCHANGED <<exitposted, main_blocked, pending, redraw_active, calls,
                 numactive>>

AnswerBatchOnce ==
  /\ mpc = "run"
  /\ next > Len(grabbed)
  /\ func' = [t \in Threads |-> func[t] /\ t \notin SeqElems(grabbed)]
  /\ tpc' = [t \in Threads |->
               IF tpc[t] = "waiting" THEN "notified" ELSE tpc[t]]
  /\ mpc' = IF main_blocked THEN "wait" ELSE "loop"
  /\ grabbed' = <<>>
  /\ next' = 1
  /\ UNCHANGED <<exitposted, main_blocked, slots, pending, redraw_active,
                 calls, numactive>>

\* process_slots(): relock, answer the batch, notify every sleeper, then
\* take what was pushed meanwhile or go back to the caller.
AnswerBatch ==
  /\ mpc = "run"
  /\ next > Len(grabbed)
  /\ func' = [t \in Threads |-> func[t] /\ t \notin SeqElems(grabbed)]
  /\ tpc' = [t \in Threads |->
               IF tpc[t] = "waiting" THEN "notified" ELSE tpc[t]]
  /\ \/ /\ slots # <<>>
        /\ Grab
     \/ /\ slots = <<>>
        /\ mpc' = IF main_blocked THEN "wait" ELSE "loop"
        /\ grabbed' = <<>>
        /\ next' = 1
        /\ UNCHANGED slots
  /\ UNCHANGED <<exitposted, main_blocked, pending, redraw_active, calls,
                 numactive>>

\* signal_exit runs after_redraw(), which stops or launches the next process.
EmitExit ==
  /\ mpc = "emit"
  /\ mpc' = "loop"
  /\ \/ redraw_active' = FALSE /\ UNCHANGED tpc
     \/ Launch
  /\ UNCHANGED <<syncvars, grabbed, next, calls, numactive>>

-----------------------------------------------------------------------------
ThreadStep(t) ==
  TilerStart(t) \/ TilerSkip(t) \/ RunInMain(t) \/ SlotWake(t)
    \/ RenderDone(t) \/ SignalExit(t)

MainStep == MainWake \/ OnDispatcher \/ RunFunc \/ AnswerBatch \/ EmitExit

Next ==
  \/ \E t \in Threads : ThreadStep(t) \/ SpuriousSlotWake(t)
  \/ MainStep
  \/ StartRedraw
  \/ WaitForExit
  \/ SpuriousMainWake

Spec == Init /\ [][Next]_vars

\* The operating system runs every runnable thread and the GTK main loop
\* delivers its dispatcher: neither is asked for a particular choice, and
\* neither spurious wake-ups nor the user's actions are assumed to happen.
Fairness == WF_vars(MainStep) /\ \A t \in Threads : WF_vars(ThreadStep(t))

FairSpec == Spec /\ Fairness

-----------------------------------------------------------------------------
(* Properties.                                                             *)

Blocked == {t \in Threads : tpc[t] \in {"waiting", "notified"}}
Alive == {t \in Threads : tpc[t] \in {"running", "waiting", "notified"}}

\* The assertions of the code hold where they are made: signalExit() finds no
\* slot left (line 17), and runInMain() finds no exit posted (line 27).  Both
\* rest on numactive: only the last render thread posts the exit.
AssertionsHold ==
  \A t \in Threads :
    /\ tpc[t] = "last" => slots = <<>>
    /\ tpc[t] = "running" => ~exitposted

\* Every pointer the main thread holds, in slots or in the batch it grabbed,
\* is to the Slot of a caller still blocked in runInMain(): the Slot and the
\* function live on that thread's stack, and are gone once it returns.
SlotsAreAlive ==
  \A t \in SeqElems(slots) \cup SeqElems(grabbed) : t \in Blocked /\ func[t]

\* No lost wake-up of the main thread: while there is something for it to do
\* it is not asleep in main_cond.wait(), and if it is in its main loop an
\* emission is on its way.  awaken() signals only the first reason to wake,
\* so one signal has to do for every slot that is pushed after it.
NoLostWakeup ==
  slots # <<>> \/ exitposted =>
    /\ mpc # "wait"
    /\ mpc = "loop" => pending > 0

\* No lost reply: a caller asleep in slots_cond.wait() still has its function
\* outstanding, in slots or in the batch being run.
NoLostReply ==
  \A t \in Threads :
    tpc[t] = "waiting" => func[t] /\ t \in SeqElems(slots) \cup SeqElems(grabbed)

\* Neither side of the two condition variables sleeps through what it waits for.
NobodyOversleeps == NoLostWakeup /\ NoLostReply

\* The flag redraw_active, on which deactivate() decides whether to block and
\* schedule_redraw() whether to launch, is exact: when it is clear no render
\* thread exists and no exit is posted, when it is set one of the two holds
\* or signal_exit is about to be emitted.  So waitForExit() is never entered
\* with nobody left to end it, and no two processes overlap.
RedrawActiveIsExact ==
  redraw_active <=>
    \/ \E t \in Threads : tpc[t] # "off"
    \/ exitposted
    \/ mpc = "emit"

\* Every runInMain() returns.
CallsReturn == \A t \in Threads : t \in Blocked ~> t \notin Blocked

\* waitForExit() returns: the main thread does not stay blocked in it.
WaitForExitReturns == mpc \in {"wait", "woken"} ~> mpc = "loop"

\* The main thread and the render threads, which wait for one another, are all
\* released in the end: no order of slots, wake-ups and exits blocks either.
BlockedAreReleased == CallsReturn /\ WaitForExitReturns

\* The synchroniser implements the redraw process of its interface: each
\* function runs exactly once while its caller is blocked, and each end of a
\* process is handled exactly once, stale emissions notwithstanding.
Ran == {grabbed[i] : i \in 1..(next - 1)}

Client(t) ==
  CASE tpc[t] \in {"off", "tiler", "last"} -> "off"
    [] tpc[t] = "running" -> "drawing"
    [] OTHER -> IF func[t] /\ t \notin Ran THEN "asked" ELSE "answered"

Process ==
  CASE ~redraw_active -> "none"
    [] exitposted \/ mpc = "emit" -> "ended"
    [] \E t \in Threads : tpc[t] = "tiler" -> "begun"
    [] OTHER -> "drawing"

Redraw == INSTANCE RedrawProcess
            WITH process <- Process, client <- [t \in Threads |-> Client(t)]

ImplementsRedrawProcess == Redraw!ProcessSpec
=============================================================================
