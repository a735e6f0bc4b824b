---------------------------- MODULE DispatchPool ----------------------------
(***************************************************************************)
(* The thread pool of the renderer (src/display/dispatch-pool.cpp), which  *)
(* filters use from the render threads of the canvas.                      *)
(*                                                                         *)
(* Every access to the counters is made with _lock held, so that a step of *)
(* the model is what a thread does between taking the lock and releasing   *)
(* it, or one call of the function, or the notification in between, which  *)
(* is made without the lock.  A thread that is notified, or wakes up       *)
(* spuriously, is "woken" until it has the lock again.                     *)
(***************************************************************************)
EXTENDS Integers, FiniteSets

CONSTANTS
  NumWorkers,     \* the threads of the pool besides the calling one
  Callers,        \* the threads that call dispatch()
  NoCaller,
  MaxCount,       \* bound: jobs of a dispatch
  MaxDispatches   \* bound: calls of dispatch()

ASSUME NumWorkersAssumption == NumWorkers \in Nat
ASSUME BoundsAssumption == MaxCount \in Nat /\ MaxDispatches \in Nat
ASSUME CallersAssumption ==
  NoCaller \notin Callers /\ Callers \cap (1..NumWorkers) = {}

VARIABLES
  available,    \* _available_work
  completed,    \* _completed_work
  target,       \* _target_work
  caller,       \* who holds _dispatch_lock; _function is set meanwhile
  pc,           \* what each thread does
  batch,        \* "start", "end" and "index" of execute_batch()
  threadCount,  \* thread_count of thread_func()
  stopped,      \* the workers that were requested to stop
  closing,      \* whether the destructor has been called
  dispatches    \* number of calls of dispatch()

vars == <<available, completed, target, caller, pc, batch, threadCount,
          stopped, closing, dispatches>>

Workers == 1..NumWorkers   \* their local ids; the caller's is 0
Threads == Workers \cup Callers
Size == NumWorkers + 1     \* size()
NoBatch == [start |-> 0, index |-> 0, end |-> 0]

\* A thread calls size() while the constructor may still be adding threads to
\* the vector, of which it then sees those before itself at least.
Init ==
  /\ available = 0 /\ completed = 0 /\ target = 0
  /\ caller = NoCaller
  /\ pc = [t \in Threads |-> IF t \in Workers THEN "woken" ELSE "idle"]
  /\ batch = [t \in Threads |-> NoBatch]
  /\ threadCount \in {n \in [Workers -> 1..Size] : \A w \in Workers : n[w] >= w}
  /\ stopped = {}
  /\ closing = FALSE
  /\ dispatches = 0

\* Mutant of Take: the last batch is not cut off.
TakeWhole(t, from, goal, count, pcs) ==
  LET size == (goal + count - 1) \div count IN
  /\ available' = from + size
  /\ batch' = [batch EXCEPT ![t] = [start |-> from, index |-> from,
                                    end |-> from + size]]
  /\ pc' = [pcs EXCEPT ![t] = "notify"]

\* The first half of execute_batch(), up to the release of the lock; "pcs" is
\* what the threads do after what came before in the critical section.
Take(t, from, goal, count, pcs) ==
  LET size == (goal + count - 1) \div count
      end == IF from + size < goal THEN from + size ELSE goal
  IN
  /\ available' = end
  /\ batch' = [batch EXCEPT ![t] = [start |-> from, index |-> from,
                                    end |-> end]]
  /\ pc' = [pcs EXCEPT ![t] = "notify"]

\* dispatch(), as far as its own batch.
Dispatch(c, count) ==
  /\ pc[c] = "idle"
  /\ caller = NoCaller
  /\ ~closing
  /\ dispatches < MaxDispatches
  /\ dispatches' = dispatches + 1
  /\ caller' = c
  /\ completed' = 0
  /\ target' = count
  /\ Take(c, 0, count, Size, pc)
  /\ UNCHANGED <<threadCount, stopped, closing>>

Waiting == {w \in Workers : pc[w] = "waiting"}

\* Mutant of Notify: it is only done in the loop of thread_func().
NotifyInLoop(t) ==
  /\ pc[t] = "notify"
  /\ \/ /\ Waiting = {} \/ t \in Callers
        /\ pc' = [pc EXCEPT ![t] = "running"]
     \/ \E w \in Waiting :
          /\ t \in Workers
          /\ pc' = [pc EXCEPT ![t] = "running", ![w] = "woken"]
  /\ UNCHANGED <<available, completed, target, caller, batch, threadCount,
                 stopped, closing, dispatches>>

\* notify_one(), which wakes any one of the waiting workers.
Notify(t) ==
  /\ pc[t] = "notify"
  /\ \/ /\ Waiting = {}
        /\ pc' = [pc EXCEPT ![t] = "running"]
     \/ \E w \in Waiting :
          pc' = [pc EXCEPT ![t] = "running", ![w] = "woken"]
  /\ UNCHANGED <<available, completed, target, caller, batch, threadCount,
                 stopped, closing, dispatches>>

\* One call of the function.
RunJob(t) ==
  /\ pc[t] = "running"
  /\ batch[t].index < batch[t].end
  /\ batch' = [batch EXCEPT ![t].index = @ + 1]
  /\ UNCHANGED <<available, completed, target, caller, pc, threadCount,
                 stopped, closing, dispatches>>

BatchDone(t) == pc[t] = "running" /\ batch[t].index = batch[t].end

\* Mutant of Completed: what has been taken counts as completed.
CompletedTaken(t) == available

Completed(t) == completed + (batch[t].end - batch[t].start)

\* The loop of thread_func() up to where it releases the lock.
SeekWork(w, pcs) ==
  \/ /\ available < target
     /\ Take(w, available, target, threadCount[w], pcs)
  \/ /\ available >= target
     /\ pc' = [pcs EXCEPT ![w] = IF w \in stopped THEN "gone" ELSE "waiting"]
     /\ UNCHANGED <<available, batch>>

\* A worker has started, or has come back from its wait.
LookForWork(w) ==
  /\ pc[w] = "woken"
  /\ SeekWork(w, pc)
  /\ UNCHANGED <<completed, target, caller, threadCount, stopped, closing,
                 dispatches>>

\* Mutant of TellCaller: the caller is not told.
TellNobody(done) == pc

\* The last to complete notifies the caller, if that waits already.
TellCaller(done) ==
  IF done = target /\ caller # NoCaller /\ pc[caller] = "blocked"
  THEN [pc EXCEPT ![caller] = "woken"] ELSE pc

\* The second half of execute_batch() in a worker, which keeps the lock until
\* it has looked for more work.
WorkerDone(w) ==
  /\ BatchDone(w)
  /\ completed' = Completed(w)
  /\ SeekWork(w, TellCaller(Completed(w)))
  /\ UNCHANGED <<target, caller, threadCount, stopped, closing, dispatches>>

\* dispatch() returns when all work is completed.
AwaitCompletion(c, done) ==
  /\ pc' = [pc EXCEPT ![c] = IF done = target THEN "idle" ELSE "blocked"]
  /\ caller' = IF done = target THEN NoCaller ELSE caller
  /\ UNCHANGED <<available, target, batch, threadCount, stopped, closing,
                 dispatches>>

CallerDone(c) ==
  /\ BatchDone(c)
  /\ completed' = Completed(c)
  /\ AwaitCompletion(c, Completed(c))

CallerLooks(c) ==
  /\ pc[c] = "woken"
  /\ UNCHANGED completed
  /\ AwaitCompletion(c, completed)

SpuriousWakeup(t) ==
  /\ pc[t] \in {"waiting", "blocked"}
  /\ pc' = [pc EXCEPT ![t] = "woken"]
  /\ UNCHANGED <<available, completed, target, caller, batch, threadCount,
                 stopped, closing, dispatches>>

\* The destructor: those who use a pool hold it by a shared pointer, so that
\* no dispatch is in progress or to come.
Destroy ==
  /\ ~closing
  /\ caller = NoCaller
  /\ closing' = TRUE
  /\ UNCHANGED <<available, completed, target, caller, pc, batch, threadCount,
                 stopped, dispatches>>

\* It stops and joins one thread after the other; all of them wait on the one
\* condition variable that the request to stop notifies.
StopNext(w) ==
  /\ closing
  /\ w \notin stopped
  /\ \A v \in stopped : pc[v] = "gone"
  /\ stopped' = stopped \cup {w}
  /\ pc' = [t \in Threads |-> IF t \in Waiting THEN "woken" ELSE pc[t]]
  /\ UNCHANGED <<available, completed, target, caller, batch, threadCount,
                 closing, dispatches>>

------------------------------------------------------------------------------
WorkerStep(w) ==
  LookForWork(w) \/ Notify(w) \/ RunJob(w) \/ WorkerDone(w)

CallerStep(c) == Notify(c) \/ RunJob(c) \/ CallerDone(c) \/ CallerLooks(c)

Next ==
  \/ \E w \in Workers : WorkerStep(w)
  \/ \E c \in Callers : CallerStep(c)
  \/ \E c \in Callers, count \in 0..MaxCount : Dispatch(c, count)
  \/ \E t \in Threads : SpuriousWakeup(t)
  \/ Destroy \/ \E w \in Workers : StopNext(w)

Spec == Init /\ [][Next]_vars

\* Threads run, the lock is fair, and the function returns; nobody has to call
\* dispatch() or the destructor, and no wake-up has to be spurious.
FairSpec ==
  /\ Spec
  /\ \A w \in Workers : WF_vars(WorkerStep(w))
  /\ \A c \in Callers : WF_vars(CallerStep(c))
  /\ WF_vars(\E w \in Workers : StopNext(w))

------------------------------------------------------------------------------
(* Properties *)

Batches == [start : 0..MaxCount, index : 0..MaxCount, end : 0..MaxCount]

\* The counters and batches stay within the jobs of a dispatch.
TypeOK ==
  /\ available \in 0..MaxCount
  /\ completed \in 0..MaxCount
  /\ target \in 0..MaxCount
  /\ caller \in Callers \cup {NoCaller}
  /\ pc \in [Threads -> {"idle", "notify", "running", "blocked", "waiting",
                         "woken", "gone"}]
  /\ batch \in [Threads -> Batches]
  /\ threadCount \in [Workers -> 1..Size]
  /\ stopped \subseteq Workers
  /\ closing \in BOOLEAN
  /\ dispatches \in 0..MaxDispatches

\* Jobs of the current dispatch that have not been started: those that nobody
\* has taken, and the rest of each batch.
Todo ==
  {i \in 0..(target - 1) :
     i >= available \/ \E t \in Threads : i \in batch[t].index..(batch[t].end - 1)}

Loop == INSTANCE ParallelFor WITH looping <- caller # NoCaller, todo <- Todo

\* A dispatch is a loop: execute_batch() divides the jobs among the threads
\* such that each is run once, whatever number of threads a worker has seen,
\* and dispatch() returns when all have been run, not before.
ImplementsParallelFor == Loop!LoopSpec

\* The wake-up is handed on: as long as there are jobs that nobody has taken,
\* some thread is about to notify another, or some worker is up and will look
\* for work before it waits.
WorkIsNotForgotten ==
  available < target =>
    \/ \E t \in Threads : pc[t] = "notify"
    \/ \E w \in Workers : pc[w] \in {"woken", "running"}

\* dispatch() returns, and the destructor is able to join all workers, even
\* the ones that are stopped while they wait.
CallsReturn ==
  /\ \A c \in Callers : caller = c ~> caller # c
  /\ closing ~> \A w \in Workers : pc[w] = "gone"
=============================================================================
