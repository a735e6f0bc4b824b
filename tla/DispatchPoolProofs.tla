------------------------- MODULE DispatchPoolProofs -------------------------
(***************************************************************************)
(* Machine-checked proofs, for every number of workers, every set of       *)
(* callers and every value of the bounds, of the safety properties of      *)
(* DispatchPool, and that it implements ParallelFor.                       *)
(*                                                                         *)
(* That dispatch() returns when _completed_work reaches _target_work is    *)
(* right because the counter is the number of the jobs whose batches have  *)
(* been counted, the other jobs taken being those of the batches that are  *)
(* still out, and no job is in two batches.  Inv says so.                  *)
(***************************************************************************)
EXTENDS DispatchPool, FiniteSetTheorems, TLAPS

Busy(t) == pc[t] \in {"notify", "running"}

\* The jobs of the batch that a thread has out.
Jobs(t) == IF Busy(t) THEN batch[t].start..(batch[t].end - 1) ELSE {}

\* The jobs whose batches have been counted as completed.
Counted == {i \in 0..(available - 1) : \A t \in Threads : i \notin Jobs(t)}

\* Where threads can be; the caller in dispatch() holds the dispatch lock.
PlaceInv ==
  /\ \A w \in Workers : pc[w] \in {"notify", "running", "waiting", "woken", "gone"}
  /\ \A c \in Callers : pc[c] \in {"idle", "notify", "running", "blocked", "woken"}
  /\ \A c \in Callers : pc[c] # "idle" <=> caller = c

\* Batches lie below what is available, and are disjoint; a worker's is not
\* empty.
BatchInv ==
  /\ available <= target
  /\ \A t \in Threads :
       /\ batch[t].start <= batch[t].index
       /\ batch[t].index <= batch[t].end
       /\ ~Busy(t) => batch[t].index = batch[t].end
       /\ Busy(t) => batch[t].end <= available
       /\ Busy(t) /\ t \in Workers => batch[t].start < batch[t].end
  /\ \A t, u \in Threads : t # u => Jobs(t) \cap Jobs(u) = {}

CountInv ==
  /\ completed = Cardinality(Counted)
  /\ caller = NoCaller => completed = target

\* No worker leaves while the pool is in use.
CloseInv ==
  /\ closing => caller = NoCaller
  /\ stopped # {} => closing
  /\ \A w \in Workers : pc[w] = "gone" => w \in stopped

WorkInv ==
  /\ NumWorkers = 0 => available = target
  /\ WorkIsNotForgotten

Inv == TypeOK /\ PlaceInv /\ BatchInv /\ CountInv /\ CloseInv /\ WorkInv

USE NumWorkersAssumption, BoundsAssumption, CallersAssumption

-----------------------------------------------------------------------------
(* Division of the work.                                                   *)

\* A share of n jobs rounded up is a number, at least one if there is a job,
\* and all of them if there is one thread.
LEMMA Share ==
  ASSUME NEW n \in Nat, NEW k \in Nat, k > 0
  PROVE  /\ (n + k - 1) \div k \in Nat
         /\ n > 0 => (n + k - 1) \div k >= 1
         /\ k = 1 => (n + k - 1) \div k = n
<1>1. (n + k - 1) \div k \in Nat
  OBVIOUS
<1>2. n > 0 => (n + k - 1) \div k >= 1
  OBVIOUS
<1>3. k = 1 => (n + k - 1) \div k = n
  OBVIOUS
<1> QED BY <1>1, <1>2, <1>3

\* execute_batch() takes a batch that ends where the jobs end, or before.
LEMMA TakeEffect ==
  ASSUME NEW t, NEW from \in Nat, NEW goal \in Nat, NEW count \in Nat, NEW pcs,
         count > 0, from <= goal, Take(t, from, goal, count, pcs)
  PROVE  /\ available' \in from..goal
         /\ from < goal => from < available'
         /\ from = 0 /\ count = 1 => available' = goal
<1> DEFINE size == (goal + count - 1) \div count
           end == IF from + size < goal THEN from + size ELSE goal
<1>1. /\ size \in Nat
      /\ goal > 0 => size >= 1
      /\ count = 1 => size = goal
  BY Share
<1>2. available' = end
  BY DEF Take
<1> HIDE DEF size
<1>3. /\ end \in from..goal
      /\ from < goal => from < end
      /\ from = 0 /\ count = 1 => end = goal
  BY <1>1
<1> QED BY <1>2, <1>3

\* What a worker does once it looks for work.
LEMMA SeekEffect ==
  ASSUME TypeOK, BatchInv, NEW w \in Workers, NEW pcs, SeekWork(w, pcs)
  PROVE  \/ /\ available = target
            /\ available' = available /\ batch' = batch
            /\ \/ pc' = [pcs EXCEPT ![w] = "waiting"]
               \/ pc' = [pcs EXCEPT ![w] = "gone"] /\ w \in stopped
         \/ \E end \in Nat :
              /\ available < end /\ end <= target
              /\ available' = end
              /\ batch' = [batch EXCEPT ![w] = [start |-> available,
                                                index |-> available, end |-> end]]
              /\ pc' = [pcs EXCEPT ![w] = "notify"]
<1>1. available \in Nat /\ target \in Nat /\ threadCount[w] \in Nat
      /\ threadCount[w] > 0 /\ available <= target
  BY DEF TypeOK, BatchInv, Size
<1>2. CASE available < target
  <2>1. Take(w, available, target, threadCount[w], pcs)
    BY <1>1, <1>2 DEF SeekWork
  <2>2. available' \in available..target /\ available < available'
    BY <1>1, <1>2, <2>1, TakeEffect
  <2>3. batch' = [batch EXCEPT ![w] = [start |-> available, index |-> available,
                                       end |-> available']]
    BY <2>1 DEF Take
  <2>4. pc' = [pcs EXCEPT ![w] = "notify"]
    BY <2>1 DEF Take
  <2>5. available' \in Nat /\ available' <= target
    BY <1>1, <2>2
  <2> QED BY <2>2, <2>3, <2>4, <2>5
<1>3. CASE available >= target
  BY <1>1, <1>3 DEF SeekWork
<1> QED BY <1>1, <1>2, <1>3

-----------------------------------------------------------------------------
(* Counting.                                                               *)

\* The counted jobs are among those taken.
LEMMA CountedType ==
  ASSUME TypeOK
  PROVE  /\ Counted \subseteq 0..(available - 1)
         /\ IsFiniteSet(Counted)
         /\ Cardinality(Counted) \in Nat
         /\ Cardinality(Counted) <= available
         /\ Cardinality(Counted) = available => Counted = 0..(available - 1)
<1>1. available \in Nat
  BY DEF TypeOK
<1>2. /\ IsFiniteSet(0..(available - 1))
      /\ Cardinality(0..(available - 1)) = available
  BY <1>1, FS_Interval
<1>3. Counted \subseteq 0..(available - 1)
  BY DEF Counted
<1> QED BY <1>2, <1>3, FS_Subset, FS_CardinalityType

\* If as many jobs are completed as there are, all have been taken and no
\* batch is out.
LEMMA AllDone ==
  ASSUME Inv, completed = target
  PROVE  /\ available = target
         /\ \A t \in Threads : Jobs(t) = {}
         /\ \A w \in Workers : ~Busy(w)
<1>1. available \in Nat /\ target \in Nat /\ available <= target
  BY DEF Inv, TypeOK, BatchInv
<1>2. available = target /\ Counted = 0..(available - 1)
  BY <1>1, CountedType DEF Inv, CountInv
<1>3. \A t \in Threads : Jobs(t) \subseteq 0..(available - 1)
  BY <1>1 DEF Inv, TypeOK, BatchInv, Jobs, Batches
<1>4. \A t \in Threads : Jobs(t) = {}
  BY <1>2, <1>3 DEF Counted
<1>5. ASSUME NEW w \in Workers, Busy(w) PROVE FALSE
  <2>1. batch[w].start \in Jobs(w)
    BY <1>5 DEF Inv, TypeOK, BatchInv, Jobs, Batches, Threads
  <2> QED BY <1>4, <2>1 DEF Threads
<1> QED BY <1>2, <1>4, <1>5

\* The counter is raised by the number of jobs of the batch, whose jobs are
\* then counted; if it reaches the target, there is no other batch out.
LEMMA CountBatch ==
  ASSUME TypeOK, BatchInv, CountInv, NEW t \in Threads, Busy(t),
         NEW S, S = Counted \cup Jobs(t)
  PROVE  /\ Completed(t) = Cardinality(S)
         /\ Completed(t) \in Nat
         /\ Completed(t) <= available
         /\ Completed(t) = target =>
              /\ available = target
              /\ \A u \in Threads : u # t => Jobs(u) = {}
<1> DEFINE s == batch[t].start
           e == batch[t].end
<1>1. s \in Nat /\ e \in Nat /\ s <= e /\ available \in Nat /\ e <= available
      /\ target \in Nat /\ available <= target
  BY DEF TypeOK, BatchInv, Batches
<1>2. Jobs(t) = s..(e - 1)
  BY DEF Jobs
<1> HIDE DEF s, e
<1>3. IsFiniteSet(Jobs(t)) /\ Cardinality(Jobs(t)) = e - s
  <2>1. /\ IsFiniteSet(s..(e - 1))
        /\ Cardinality(s..(e - 1)) = IF s > e - 1 THEN 0 ELSE (e - 1) - s + 1
    BY <1>1, FS_Interval
  <2> QED BY <1>1, <1>2, <2>1
<1>4. Counted \cap Jobs(t) = {}
  BY DEF Counted
<1>5. IsFiniteSet(Counted) /\ Cardinality(Counted) \in Nat
  BY CountedType
<1>6. Cardinality(S) = Cardinality(Counted) + (e - s)
  <2>1. Cardinality(Counted \cap Jobs(t)) = 0
    BY <1>4, FS_EmptySet
  <2>2. Cardinality(Counted \cup Jobs(t)) =
          Cardinality(Counted) + Cardinality(Jobs(t)) - Cardinality(Counted \cap Jobs(t))
    BY <1>3, <1>5, FS_Union
  <2> QED BY <1>1, <1>3, <1>5, <2>1, <2>2
<1>7. Completed(t) = Cardinality(S)
  BY <1>6 DEF CountInv, Completed, s, e
<1>8. S \subseteq 0..(available - 1)
  BY <1>1, <1>2, CountedType
<1>9. /\ Cardinality(S) \in Nat
      /\ Cardinality(S) <= available
      /\ Cardinality(S) = available => S = 0..(available - 1)
  <2>1. /\ IsFiniteSet(0..(available - 1))
        /\ Cardinality(0..(available - 1)) = available
    BY <1>1, FS_Interval
  <2> QED BY <1>8, <2>1, FS_Subset, FS_CardinalityType
<1>10. ASSUME Cardinality(S) = available, NEW u \in Threads, u # t
       PROVE  Jobs(u) = {}
  <2>1. Jobs(u) \subseteq 0..(available - 1)
    BY <1>1 DEF TypeOK, BatchInv, Jobs, Batches
  <2>2. Jobs(u) \cap Jobs(t) = {}
    BY <1>10 DEF BatchInv
  <2>3. Jobs(u) \subseteq S
    BY <1>9, <1>10, <2>1
  <2> QED BY <2>2, <2>3 DEF Counted
<1> QED BY <1>1, <1>7, <1>9, <1>10

-----------------------------------------------------------------------------
(* The initial states and the steps.                                       *)

\* A pool begins with all workers up and a dispatch completed.
THEOREM InitInv == Init => Inv
<1> SUFFICES ASSUME Init PROVE Inv
  OBVIOUS
<1>1. /\ available = 0 /\ completed = 0 /\ target = 0
      /\ caller = NoCaller /\ stopped = {} /\ closing = FALSE /\ dispatches = 0
  BY DEF Init
<1>2. /\ pc = [t \in Threads |-> IF t \in Workers THEN "woken" ELSE "idle"]
      /\ batch = [t \in Threads |-> NoBatch]
      /\ threadCount \in [Workers -> 1..Size]
  BY DEF Init
<1>3. TypeOK
  <2>1. NoBatch \in Batches
    BY DEF Batches, NoBatch
  <2>2. batch \in [Threads -> Batches]
    BY <1>2, <2>1
  <2>3. pc \in [Threads -> {"idle", "notify", "running", "blocked", "waiting",
                            "woken", "gone"}]
    BY <1>2
  <2>4. /\ available \in 0..MaxCount /\ completed \in 0..MaxCount
        /\ target \in 0..MaxCount /\ dispatches \in 0..MaxDispatches
        /\ caller \in Callers \cup {NoCaller} /\ stopped \subseteq Workers
    BY <1>1
  <2>5. closing \in BOOLEAN
    BY <1>1
  <2> QED BY <1>2, <2>2, <2>3, <2>4, <2>5 DEF TypeOK
<1>4. PlaceInv
  BY <1>1, <1>2 DEF PlaceInv, Threads, Workers
<1>5. \A t \in Threads : ~Busy(t) /\ Jobs(t) = {}
  BY <1>2 DEF Busy, Jobs
<1>6. BatchInv
  BY <1>1, <1>2, <1>5 DEF BatchInv, NoBatch
<1>7. CountInv
  <2>1. Counted = {}
    BY <1>1 DEF Counted
  <2> QED BY <1>1, <2>1, FS_EmptySet DEF CountInv
<1>8. CloseInv
  BY <1>1, <1>2 DEF CloseInv, Threads
<1>9. WorkInv
  BY <1>1 DEF WorkInv, WorkIsNotForgotten
<1> QED BY <1>3, <1>4, <1>6, <1>7, <1>8, <1>9 DEF Inv

\* A step that leaves the batches that are out as they are keeps the count.
LEMMA SameBatches ==
  ASSUME BatchInv, CountInv, UNCHANGED <<available, completed, target, caller>>,
         \A t \in Threads :
           /\ Busy(t)' = Busy(t)
           /\ batch'[t].start = batch[t].start
           /\ batch'[t].end = batch[t].end
           /\ batch'[t].start <= batch'[t].index
           /\ batch'[t].index <= batch'[t].end
           /\ ~Busy(t) => batch'[t].index = batch'[t].end
  PROVE  /\ BatchInv' /\ CountInv'
         /\ \A t \in Threads : Jobs(t)' = Jobs(t)
<1>1. \A t \in Threads : Jobs(t)' = Jobs(t)
  BY DEF Jobs
<1>2. Counted' = Counted
  BY <1>1 DEF Counted
<1>3. BatchInv'
  <2>1. ASSUME NEW t \in Threads
        PROVE  /\ batch'[t].start <= batch'[t].index
               /\ batch'[t].index <= batch'[t].end
               /\ ~Busy(t)' => batch'[t].index = batch'[t].end
               /\ Busy(t)' => batch'[t].end <= available'
               /\ Busy(t)' /\ t \in Workers => batch'[t].start < batch'[t].end
    BY DEF BatchInv
  <2>2. \A t, u \in Threads : t # u => Jobs(t)' \cap Jobs(u)' = {}
    BY <1>1 DEF BatchInv
  <2>3. available' <= target'
    BY DEF BatchInv
  <2> QED BY <2>1, <2>2, <2>3 DEF BatchInv
<1>4. CountInv'
  BY <1>2 DEF CountInv
<1> QED BY <1>1, <1>3, <1>4

\* The first batch of a dispatch.
LEMMA FirstBatch ==
  ASSUME NEW c \in Callers, NEW count \in Nat, Dispatch(c, count)
  PROVE  \E end \in 0..count :
           /\ available' = end
           /\ batch' = [batch EXCEPT ![c] = [start |-> 0, index |-> 0, end |-> end]]
           /\ pc' = [pc EXCEPT ![c] = "notify"]
           /\ Size = 1 => end = count
<1>1. Take(c, 0, count, Size, pc)
  BY DEF Dispatch
<1>2. 0 \in Nat /\ 0 <= count /\ Size \in Nat /\ Size > 0
  BY DEF Size
<1> HIDE DEF Size
<1>3. available' \in 0..count
  BY <1>1, <1>2, TakeEffect
<1>4. batch' = [batch EXCEPT ![c] = [start |-> 0, index |-> 0, end |-> available']]
  BY <1>1 DEF Take
<1>5. pc' = [pc EXCEPT ![c] = "notify"]
  BY <1>1 DEF Take
<1>6. Size = 1 => available' = count
  BY <1>1, <1>2, TakeEffect
<1> QED BY <1>3, <1>4, <1>5, <1>6

\* A step of dispatch() takes the first batch when no other is out.
LEMMA DispatchInv ==
  ASSUME Inv, NEW c \in Callers, NEW count \in 0..MaxCount, Dispatch(c, count)
  PROVE  Inv'
<1>1. /\ pc[c] = "idle" /\ caller = NoCaller /\ ~closing
      /\ dispatches < MaxDispatches /\ dispatches' = dispatches + 1
      /\ caller' = c /\ completed' = 0 /\ target' = count
      /\ UNCHANGED <<threadCount, stopped, closing>>
  BY DEF Dispatch
<1>2. /\ c \in Threads /\ c \notin Workers /\ c # NoCaller /\ count \in Nat
  BY DEF Threads, Workers
<1>3. PICK end \in 0..count :
        /\ available' = end
        /\ batch' = [batch EXCEPT ![c] = [start |-> 0, index |-> 0, end |-> end]]
        /\ pc' = [pc EXCEPT ![c] = "notify"]
        /\ Size = 1 => end = count
  BY <1>2, FirstBatch
<1>4. /\ available = target
      /\ \A t \in Threads : t # c => ~Busy(t)
  <2>1. completed = target
    BY <1>1 DEF Inv, CountInv
  <2>2. \A d \in Callers : ~Busy(d)
    BY <1>1 DEF Inv, PlaceInv, Busy
  <2> QED BY <2>1, <2>2, AllDone DEF Threads
<1>5. /\ pc \in [Threads -> {"idle", "notify", "running", "blocked", "waiting",
                             "woken", "gone"}]
      /\ batch \in [Threads -> Batches]
  BY DEF Inv, TypeOK
<1>6. /\ \A t \in Threads : t # c => pc'[t] = pc[t] /\ batch'[t] = batch[t]
      /\ pc'[c] = "notify"
      /\ batch'[c] = [start |-> 0, index |-> 0, end |-> end]
  BY <1>2, <1>3, <1>5
<1>7. /\ \A t \in Threads : t # c => ~Busy(t)' /\ Jobs(t)' = {}
      /\ Busy(c)' /\ Jobs(c)' = 0..(end - 1)
  BY <1>4, <1>6 DEF Busy, Jobs
<1>8. TypeOK'
  <2>1. batch' \in [Threads -> Batches]
    <3>1. [start |-> 0, index |-> 0, end |-> end] \in Batches
      BY <1>2, <1>3 DEF Batches
    <3> QED BY <1>3, <1>5, <3>1
  <2>2. pc' \in [Threads -> {"idle", "notify", "running", "blocked", "waiting",
                             "woken", "gone"}]
    BY <1>3, <1>5
  <2> QED BY <1>1, <1>3, <2>1, <2>2 DEF Inv, TypeOK
<1>9. PlaceInv'
  <2>1. \A w \in Workers : pc'[w] \in {"notify", "running", "waiting", "woken", "gone"}
    BY <1>2, <1>6 DEF Inv, PlaceInv, Threads
  <2>2. \A d \in Callers :
          /\ pc'[d] \in {"idle", "notify", "running", "blocked", "woken"}
          /\ pc'[d] # "idle" <=> caller' = d
    BY <1>1, <1>2, <1>6 DEF Inv, PlaceInv, Threads
  <2> QED BY <2>1, <2>2 DEF PlaceInv
<1>10. BatchInv'
  <2>1. ASSUME NEW t \in Threads
        PROVE  /\ batch'[t].start <= batch'[t].index
               /\ batch'[t].index <= batch'[t].end
               /\ ~Busy(t)' => batch'[t].index = batch'[t].end
               /\ Busy(t)' => batch'[t].end <= available'
               /\ Busy(t)' /\ t \in Workers => batch'[t].start < batch'[t].end
    <3>1. CASE t = c
      <4>1. /\ batch'[t] = [start |-> 0, index |-> 0, end |-> end]
            /\ Busy(t)' /\ t \notin Workers /\ available' = end
        BY <1>2, <1>3, <1>6, <1>7, <3>1
      <4> QED BY <4>1
    <3>2. CASE t # c
      BY <1>4, <1>6, <1>7, <3>2 DEF Inv, BatchInv
    <3> QED BY <3>1, <3>2
  <2>2. \A t, u \in Threads : t # u => Jobs(t)' \cap Jobs(u)' = {}
    BY <1>7
  <2>3. available' <= target'
    BY <1>1, <1>3
  <2> QED BY <2>1, <2>2, <2>3 DEF BatchInv
<1>11. CountInv'
  <2>1. Counted' = {}
    BY <1>2, <1>3, <1>7 DEF Counted
  <2> QED BY <1>1, <1>2, <2>1, FS_EmptySet DEF CountInv
<1>12. CloseInv'
  <2>1. \A w \in Workers : pc'[w] = pc[w]
    BY <1>2, <1>6 DEF Threads
  <2> QED BY <1>1, <2>1 DEF Inv, CloseInv
<1>13. WorkInv'
  BY <1>1, <1>2, <1>3, <1>6 DEF WorkInv, WorkIsNotForgotten, Size
<1> QED BY <1>8, <1>9, <1>10, <1>11, <1>12, <1>13 DEF Inv

\* A worker that seeks work, after it has counted its batch if it had one,
\* takes the next or goes; "pcs" is what the threads do when it seeks.
LEMMA SeekInv ==
  ASSUME Inv, NEW w \in Workers, BatchDone(w) \/ pc[w] = "woken",
         NEW pcs \in [Threads -> {"idle", "notify", "running", "blocked",
                                  "waiting", "woken", "gone"}],
         \A t \in Threads :
           t # w => pcs[t] = pc[t] \/ (pc[t] = "blocked" /\ pcs[t] = "woken"),
         SeekWork(w, pcs),
         UNCHANGED <<target, caller, threadCount, stopped, closing, dispatches>>
  PROVE  /\ completed' \in 0..MaxCount => TypeOK'
         /\ PlaceInv' /\ BatchInv' /\ CloseInv' /\ WorkInv'
         /\ Counted' = Counted \cup Jobs(w)
<1> USE DEF Threads
<1>1. /\ pc \in [Threads -> {"idle", "notify", "running", "blocked", "waiting",
                             "woken", "gone"}]
      /\ batch \in [Threads -> Batches]
      /\ available \in Nat /\ target \in 0..MaxCount /\ available <= target
      /\ w \in Threads
  BY DEF Inv, TypeOK, BatchInv
<1>2. \/ /\ available = target
         /\ available' = available /\ batch' = batch
         /\ pc' = [pcs EXCEPT ![w] = "waiting"]
      \/ /\ available = target
         /\ available' = available /\ batch' = batch
         /\ pc' = [pcs EXCEPT ![w] = "gone"] /\ w \in stopped
      \/ \E end \in Nat :
           /\ available < end /\ end <= target
           /\ available' = end
           /\ batch' = [batch EXCEPT ![w] = [start |-> available,
                                             index |-> available, end |-> end]]
           /\ pc' = [pcs EXCEPT ![w] = "notify"]
  BY SeekEffect DEF Inv
<1>3. \A t \in Threads : t # w =>
        /\ pc'[t] = pcs[t] /\ batch'[t] = batch[t]
        /\ pc'[t] = pc[t] \/ (pc[t] = "blocked" /\ pc'[t] = "woken")
  BY <1>1, <1>2
<1>4. pc'[w] \in {"waiting", "gone", "notify"} /\ (pc'[w] = "gone" => w \in stopped)
  BY <1>1, <1>2
<1>5. \A t \in Threads : t # w => Busy(t)' = Busy(t) /\ Jobs(t)' = Jobs(t)
  BY <1>3 DEF Busy, Jobs
<1>6. \A t \in Threads : Jobs(t) \subseteq 0..(available - 1)
  BY <1>1 DEF Inv, TypeOK, BatchInv, Jobs, Batches
<1>7. \A t \in Threads : t # w => Jobs(t) \cap Jobs(w) = {}
  BY <1>1 DEF Inv, BatchInv
<1>8. PlaceInv'
  <2>1. \A v \in Workers : pc'[v] \in {"notify", "running", "waiting", "woken", "gone"}
    BY <1>3, <1>4 DEF Inv, PlaceInv
  <2>2. ASSUME NEW c \in Callers
        PROVE  /\ pc'[c] \in {"idle", "notify", "running", "blocked", "woken"}
               /\ pc'[c] # "idle" <=> caller' = c
    BY <1>3 DEF Inv, PlaceInv, Workers
  <2> QED BY <2>1, <2>2 DEF PlaceInv
<1>9. CloseInv'
  <2>1. \A v \in Workers : pc'[v] = "gone" => v \in stopped
    BY <1>3, <1>4 DEF Inv, CloseInv
  <2> QED BY <2>1 DEF Inv, CloseInv
<1>10. CASE available = target /\ available' = available /\ batch' = batch
            /\ pc'[w] # "notify"
  <2>1. ~Busy(w)' /\ Jobs(w)' = {}
    BY <1>4, <1>10 DEF Busy, Jobs
  <2>2. Counted' = Counted \cup Jobs(w)
    <3>1. \A i \in 0..(available - 1) :
            (\A t \in Threads : i \notin Jobs(t)') <=>
            (\A t \in Threads : i \notin Jobs(t)) \/ i \in Jobs(w)
      BY <1>1, <1>5, <1>7, <2>1
    <3> QED BY <1>6, <1>10, <3>1 DEF Counted
  <2>3. BatchInv'
    <3>1. Busy(w) => batch[w].index = batch[w].end
      BY DEF BatchDone, Busy
    <3> QED BY <1>5, <1>10, <2>1, <3>1 DEF Inv, BatchInv
  <2>4. WorkInv'
    BY <1>1, <1>10 DEF Inv, WorkInv, WorkIsNotForgotten
  <2>5. completed' \in 0..MaxCount => TypeOK'
    BY <1>1, <1>2, <1>10 DEF Inv, TypeOK
  <2> QED BY <1>8, <1>9, <2>2, <2>3, <2>4, <2>5
<1>11. ASSUME NEW end \in Nat,
             available < end, end <= target,
             available' = end,
             batch' = [batch EXCEPT ![w] = [start |-> available,
                                            index |-> available, end |-> end]],
             pc' = [pcs EXCEPT ![w] = "notify"]
       PROVE /\ completed' \in 0..MaxCount => TypeOK'
             /\ BatchInv' /\ WorkInv' /\ Counted' = Counted \cup Jobs(w)
  <2>1. /\ batch'[w] = [start |-> available, index |-> available, end |-> end]
        /\ pc'[w] = "notify"
    BY <1>1, <1>11
  <2>2. Busy(w)' /\ Jobs(w)' = available..(end - 1)
    BY <2>1 DEF Busy, Jobs
  <2>3. Counted' = Counted \cup Jobs(w)
    <3>1. \A i \in 0..(available' - 1) :
            (\A t \in Threads : i \notin Jobs(t)') <=>
            /\ i \in 0..(available - 1)
            /\ (\A t \in Threads : i \notin Jobs(t)) \/ i \in Jobs(w)
      <4>1. ASSUME NEW i \in 0..(available' - 1), i \notin 0..(available - 1)
            PROVE  i \in Jobs(w)'
        BY <1>1, <1>11, <2>2, <4>1
      <4>2. ASSUME NEW i \in 0..(available - 1) PROVE i \notin Jobs(w)'
        BY <1>1, <2>2
      <4> QED BY <1>1, <1>5, <1>7, <4>1, <4>2
    <3>2. 0..(available - 1) \subseteq 0..(available' - 1)
      BY <1>1, <1>11
    <3> QED BY <1>6, <3>1, <3>2 DEF Counted
  <2>4. BatchInv'
    <3>1. ASSUME NEW t \in Threads
          PROVE  /\ batch'[t].start <= batch'[t].index
                 /\ batch'[t].index <= batch'[t].end
                 /\ ~Busy(t)' => batch'[t].index = batch'[t].end
                 /\ Busy(t)' => batch'[t].end <= available'
                 /\ Busy(t)' /\ t \in Workers => batch'[t].start < batch'[t].end
      <4>1. CASE t = w
        <5>1. /\ batch'[t].start = available /\ batch'[t].index = available
              /\ batch'[t].end = end /\ Busy(t)'
          BY <2>1, <2>2, <4>1
        <5> QED BY <1>1, <1>11, <5>1
      <4>2. CASE t # w
        <5>1. batch'[t] = batch[t] /\ Busy(t)' = Busy(t)
          BY <1>3, <1>5, <4>2
        <5>2. batch[t].end \in Nat
          BY <1>1 DEF Batches
        <5> QED BY <1>1, <1>11, <5>1, <5>2 DEF Inv, BatchInv
      <4> QED BY <4>1, <4>2
    <3>2. \A t \in Threads : t # w => Jobs(t)' \cap Jobs(w)' = {}
      BY <1>1, <1>5, <1>6, <2>2
    <3>3. \A t, u \in Threads : t # u => Jobs(t)' \cap Jobs(u)' = {}
      BY <1>5, <3>2 DEF Inv, BatchInv
    <3>4. available' <= target'
      BY <1>11
    <3> QED BY <3>1, <3>3, <3>4 DEF BatchInv
  <2>5. WorkInv'
    <3>1. NumWorkers # 0
      BY DEF Workers
    <3> QED BY <2>1, <3>1 DEF WorkInv, WorkIsNotForgotten
  <2>6. completed' \in 0..MaxCount => TypeOK'
    <3>1. [start |-> available, index |-> available, end |-> end] \in Batches
      BY <1>1, <1>11 DEF Batches
    <3>2. batch' \in [Threads -> Batches]
      BY <1>1, <1>11, <3>1
    <3>3. pc' \in [Threads -> {"idle", "notify", "running", "blocked", "waiting",
                               "woken", "gone"}]
      BY <1>11
    <3>4. available' \in 0..MaxCount
      BY <1>1, <1>11
    <3> QED BY <3>2, <3>3, <3>4 DEF Inv, TypeOK
  <2> QED BY <2>3, <2>4, <2>5, <2>6
<1>12. \/ /\ available = target /\ available' = available /\ batch' = batch
          /\ pc'[w] # "notify"
       \/ \E end \in Nat :
            /\ available < end /\ end <= target
            /\ available' = end
            /\ batch' = [batch EXCEPT ![w] = [start |-> available,
                                              index |-> available, end |-> end]]
            /\ pc' = [pcs EXCEPT ![w] = "notify"]
  BY <1>1, <1>2
<1> QED BY <1>8, <1>9, <1>10, <1>11, <1>12

\* A worker that is not busy has no batch to count.
LEMMA LookForWorkInv ==
  ASSUME Inv, NEW w \in Workers, LookForWork(w)
  PROVE  Inv'
<1>1. pc \in [Threads -> {"idle", "notify", "running", "blocked", "waiting",
                          "woken", "gone"}]
  BY DEF Inv, TypeOK
<1>2. /\ pc[w] = "woken" /\ SeekWork(w, pc)
      /\ UNCHANGED <<target, caller, threadCount, stopped, closing, dispatches>>
      /\ completed' = completed
  BY DEF LookForWork
<1>3. completed' \in 0..MaxCount
  BY <1>2 DEF Inv, TypeOK
<1>4. /\ TypeOK' /\ PlaceInv' /\ BatchInv' /\ CloseInv' /\ WorkInv'
      /\ Counted' = Counted \cup Jobs(w)
  BY <1>1, <1>2, <1>3, SeekInv
<1>5. Jobs(w) = {}
  BY <1>2 DEF Jobs, Busy
<1>6. CountInv'
  BY <1>2, <1>4, <1>5 DEF Inv, CountInv
<1> QED BY <1>4, <1>6 DEF Inv

\* A worker counts its batch while the caller waits, or has to.
LEMMA WorkerDoneInv ==
  ASSUME Inv, NEW w \in Workers, WorkerDone(w)
  PROVE  Inv'
<1> DEFINE pcs == TellCaller(Completed(w))
<1>1. /\ BatchDone(w) /\ completed' = Completed(w) /\ SeekWork(w, pcs)
      /\ UNCHANGED <<target, caller, threadCount, stopped, closing, dispatches>>
  BY DEF WorkerDone
<1>2. w \in Threads /\ Busy(w)
  BY <1>1 DEF Threads, BatchDone, Busy
<1>3. caller \in Callers /\ pc[caller] # "idle"
  BY <1>2, AllDone DEF Inv, TypeOK, PlaceInv, CountInv
<1>4. /\ pcs \in [Threads -> {"idle", "notify", "running", "blocked", "waiting",
                              "woken", "gone"}]
      /\ \A t \in Threads :
           t # w => pcs[t] = pc[t] \/ (pc[t] = "blocked" /\ pcs[t] = "woken")
  BY <1>3 DEF TellCaller, Inv, TypeOK, Threads
<1>5. /\ Completed(w) = Cardinality(Counted \cup Jobs(w))
      /\ Completed(w) \in Nat /\ Completed(w) <= available
  BY <1>2, CountBatch DEF Inv
<1>6. completed' \in 0..MaxCount
  BY <1>1, <1>5 DEF Inv, TypeOK
<1> HIDE DEF pcs
<1>7. /\ TypeOK' /\ PlaceInv' /\ BatchInv' /\ CloseInv' /\ WorkInv'
      /\ Counted' = Counted \cup Jobs(w)
  BY <1>1, <1>4, <1>6, SeekInv
<1>8. CountInv'
  BY <1>1, <1>3, <1>5, <1>7 DEF CountInv
<1> QED BY <1>7, <1>8 DEF Inv

\* What dispatch() does when it looks whether the work is completed.
LEMMA AwaitInv ==
  ASSUME Inv, NEW c \in Callers, pc[c] \in {"running", "woken"},
         BatchDone(c) \/ pc[c] = "woken", NEW done \in 0..MaxCount,
         completed' = done, done = Cardinality(Counted \cup Jobs(c)),
         AwaitCompletion(c, done)
  PROVE  Inv'
<1>1. /\ pc \in [Threads -> {"idle", "notify", "running", "blocked", "waiting",
                             "woken", "gone"}]
      /\ c \in Threads /\ c # NoCaller /\ c \notin Workers
      /\ available \in Nat /\ target \in Nat
  BY DEF Inv, TypeOK, Threads, Workers
<1>2. /\ pc' = [pc EXCEPT ![c] = IF done = target THEN "idle" ELSE "blocked"]
      /\ caller' = IF done = target THEN NoCaller ELSE caller
      /\ UNCHANGED <<available, target, batch, threadCount, stopped, closing,
                     dispatches>>
  BY DEF AwaitCompletion
<1>3. caller = c
  BY DEF Inv, PlaceInv
<1>4. /\ \A t \in Threads : t # c =>
           pc'[t] = pc[t] /\ Busy(t)' = Busy(t) /\ Jobs(t)' = Jobs(t)
      /\ pc'[c] = IF done = target THEN "idle" ELSE "blocked"
  BY <1>1, <1>2 DEF Busy, Jobs
<1>5. ~Busy(c)' /\ Jobs(c)' = {}
  BY <1>4 DEF Busy, Jobs
<1>6. TypeOK'
  <2>1. pc' \in [Threads -> {"idle", "notify", "running", "blocked", "waiting",
                             "woken", "gone"}]
    BY <1>1, <1>2
  <2> QED BY <1>2, <2>1 DEF Inv, TypeOK
<1>7. PlaceInv'
  <2>1. \A w \in Workers : pc'[w] \in {"notify", "running", "waiting", "woken", "gone"}
    BY <1>1, <1>4 DEF Inv, PlaceInv, Threads
  <2>2. \A d \in Callers :
          /\ pc'[d] \in {"idle", "notify", "running", "blocked", "woken"}
          /\ pc'[d] # "idle" <=> caller' = d
    BY <1>1, <1>2, <1>3, <1>4 DEF Inv, PlaceInv, Threads
  <2> QED BY <2>1, <2>2 DEF PlaceInv
<1>8. BatchInv'
  <2>1. batch[c].index = batch[c].end
    BY <1>1 DEF BatchDone, Inv, BatchInv, Busy
  <2>2. ASSUME NEW t \in Threads
        PROVE  /\ batch'[t].start <= batch'[t].index
               /\ batch'[t].index <= batch'[t].end
               /\ ~Busy(t)' => batch'[t].index = batch'[t].end
               /\ Busy(t)' => batch'[t].end <= available'
               /\ Busy(t)' /\ t \in Workers => batch'[t].start < batch'[t].end
    BY <1>2, <1>4, <1>5, <2>1 DEF Inv, BatchInv
  <2>3. \A t, u \in Threads : t # u => Jobs(t)' \cap Jobs(u)' = {}
    BY <1>4, <1>5 DEF Inv, BatchInv
  <2> QED BY <1>2, <2>2, <2>3 DEF Inv, BatchInv
<1>9. CountInv'
  <2>1. Jobs(c) \subseteq 0..(available - 1)
    BY <1>1 DEF Inv, TypeOK, BatchInv, Jobs, Batches
  <2>2. \A t \in Threads : t # c => Jobs(t) \cap Jobs(c) = {}
    BY <1>1 DEF Inv, BatchInv
  <2>3. Counted' = Counted \cup Jobs(c)
    BY <1>1, <1>2, <1>4, <1>5, <2>1, <2>2 DEF Counted
  <2> QED BY <1>1, <1>2, <1>3, <2>3 DEF CountInv
<1>10. CloseInv'
  <2>1. \A w \in Workers : pc'[w] = pc[w]
    BY <1>1, <1>4 DEF Threads
  <2> QED BY <1>1, <1>2, <1>3, <2>1 DEF Inv, CloseInv
<1>11. WorkInv'
  <2>1. \A w \in Workers : pc'[w] = pc[w]
    BY <1>1, <1>4 DEF Threads
  <2>2. \A t \in Threads : pc[t] = "notify" => pc'[t] = "notify"
    BY <1>4
  <2> QED BY <1>2, <2>1, <2>2 DEF Inv, WorkInv, WorkIsNotForgotten
<1> QED BY <1>6, <1>7, <1>8, <1>9, <1>10, <1>11 DEF Inv

\* The caller counts its batch, and looks.
LEMMA CallerDoneInv ==
  ASSUME Inv, NEW c \in Callers, CallerDone(c)
  PROVE  Inv'
<1>1. /\ BatchDone(c) /\ completed' = Completed(c)
      /\ AwaitCompletion(c, Completed(c)) /\ pc[c] = "running"
  BY DEF CallerDone, BatchDone
<1>2. c \in Threads /\ Busy(c)
  BY <1>1 DEF Threads, Busy
<1>3. /\ Completed(c) = Cardinality(Counted \cup Jobs(c))
      /\ Completed(c) \in Nat /\ Completed(c) <= available
  BY <1>2, CountBatch DEF Inv
<1>4. Completed(c) \in 0..MaxCount
  BY <1>3 DEF Inv, TypeOK
<1> QED BY <1>1, <1>3, <1>4, AwaitInv

\* The caller looks again when it has been woken.
LEMMA CallerLooksInv ==
  ASSUME Inv, NEW c \in Callers, CallerLooks(c)
  PROVE  Inv'
<1>1. pc[c] = "woken" /\ completed' = completed /\ AwaitCompletion(c, completed)
  BY DEF CallerLooks
<1>2. Counted \cup Jobs(c) = Counted
  BY <1>1 DEF Jobs, Busy
<1>3. completed \in 0..MaxCount /\ completed = Cardinality(Counted \cup Jobs(c))
  BY <1>2 DEF Inv, TypeOK, CountInv
<1> QED BY <1>1, <1>3, AwaitInv

\* Steps that only move threads between places where they have no batch, or
\* both of which they have one in.
LEMMA MoveInv ==
  ASSUME Inv, closing' \in BOOLEAN, stopped' \subseteq Workers,
         UNCHANGED <<available, completed, target, caller, batch, threadCount,
                     dispatches>>,
         pc' \in [Threads -> {"idle", "notify", "running", "blocked", "waiting",
                              "woken", "gone"}],
         \A t \in Threads : Busy(t)' = Busy(t),
         PlaceInv', CloseInv', WorkIsNotForgotten'
  PROVE  Inv'
<1>1. TypeOK'
  BY DEF Inv, TypeOK
<1>2. BatchInv' /\ CountInv'
  BY SameBatches DEF Inv, BatchInv
<1>3. WorkInv'
  BY DEF Inv, WorkInv
<1> QED BY <1>1, <1>2, <1>3 DEF Inv

\* The one who wakes another need not do so when all are up.
LEMMA NotifyInv ==
  ASSUME Inv, NEW t \in Threads, Notify(t)
  PROVE  Inv'
<1>1. /\ pc \in [Threads -> {"idle", "notify", "running", "blocked", "waiting",
                             "woken", "gone"}]
      /\ pc[t] = "notify" /\ Workers \subseteq Threads
      /\ UNCHANGED <<available, completed, target, caller, batch, threadCount,
                     stopped, closing, dispatches>>
  BY DEF Inv, TypeOK, Notify, Threads
<1>2. /\ pc'[t] = "running"
      /\ \/ /\ Waiting = {}
            /\ \A u \in Threads : u # t => pc'[u] = pc[u]
         \/ \E w \in Waiting : pc'[w] = "woken"
      /\ \A u \in Threads : u # t =>
           pc'[u] = pc[u] \/ (u \in Workers /\ pc[u] = "waiting" /\ pc'[u] = "woken")
      /\ pc' \in [Threads -> {"idle", "notify", "running", "blocked", "waiting",
                              "woken", "gone"}]
  <2>1. CASE Waiting = {} /\ pc' = [pc EXCEPT ![t] = "running"]
    BY <1>1, <2>1
  <2>2. ASSUME NEW w \in Waiting,
               pc' = [pc EXCEPT ![t] = "running", ![w] = "woken"]
        PROVE  /\ pc'[t] = "running" /\ pc'[w] = "woken"
               /\ \A u \in Threads : u # t =>
                    pc'[u] = pc[u]
                    \/ (u \in Workers /\ pc[u] = "waiting" /\ pc'[u] = "woken")
               /\ pc' \in [Threads -> {"idle", "notify", "running", "blocked",
                                       "waiting", "woken", "gone"}]
    BY <1>1, <2>2 DEF Waiting
  <2> QED BY <2>1, <2>2 DEF Notify
<1>3. \A u \in Threads : Busy(u)' = Busy(u)
  BY <1>1, <1>2 DEF Busy
<1>4. PlaceInv'
  <2>1. \A w \in Workers : pc'[w] \in {"notify", "running", "waiting", "woken", "gone"}
    BY <1>1, <1>2 DEF Inv, PlaceInv
  <2>2. ASSUME NEW c \in Callers
        PROVE  /\ pc'[c] \in {"idle", "notify", "running", "blocked", "woken"}
               /\ pc'[c] # "idle" <=> caller' = c
    <3>1. c \in Threads /\ c \notin Workers
      BY DEF Threads, Workers
    <3> QED BY <1>1, <1>2, <3>1 DEF Inv, PlaceInv
  <2> QED BY <2>1, <2>2 DEF PlaceInv
<1>5. CloseInv'
  <2>1. \A w \in Workers : pc'[w] = "gone" => pc[w] = "gone"
    BY <1>1, <1>2
  <2> QED BY <1>1, <2>1 DEF Inv, CloseInv
<1>6. WorkIsNotForgotten'
  <2> SUFFICES ASSUME available < target
               PROVE  \E w \in Workers : pc'[w] \in {"woken", "running"}
                      \/ \E u \in Threads : pc'[u] = "notify"
    BY <1>1 DEF WorkIsNotForgotten
  <2>1. CASE Waiting = {} /\ \A u \in Threads : u # t => pc'[u] = pc[u]
    <3>1. PICK w \in Workers : TRUE
      <4>1. available # target
        BY DEF Inv, TypeOK
      <4>2. 1 \in Workers
        BY <4>1 DEF Inv, WorkInv, Workers
      <4> QED BY <4>2
    <3>2. completed # target
      BY AllDone DEF Inv, TypeOK
    <3>3. pc[w] # "gone"
      BY <3>2 DEF Inv, CountInv, CloseInv
    <3>4. pc[w] \in {"notify", "running", "woken"}
      BY <2>1, <3>3 DEF Inv, PlaceInv, Waiting
    <3>5. CASE w = t
      BY <1>2, <3>5
    <3>6. CASE w # t
      BY <1>1, <2>1, <3>4, <3>6
    <3> QED BY <3>5, <3>6
  <2>2. CASE \E w \in Waiting : pc'[w] = "woken"
    BY <2>2 DEF Waiting
  <2> QED BY <1>2, <2>1, <2>2
<1> QED BY <1>1, <1>2, <1>3, <1>4, <1>5, <1>6, MoveInv DEF Inv, TypeOK

\* Running a job moves its thread forward in its batch, and nothing else.
LEMMA RunJobInv ==
  ASSUME Inv, NEW t \in Threads, RunJob(t)
  PROVE  Inv'
<1>1. /\ pc[t] = "running" /\ batch[t].index < batch[t].end
      /\ batch' = [batch EXCEPT ![t].index = batch[t].index + 1]
      /\ UNCHANGED <<available, completed, target, caller, pc, threadCount,
                     stopped, closing, dispatches>>
      /\ batch \in [Threads -> Batches]
  BY DEF Inv, TypeOK, RunJob
<1>2. batch[t] \in Batches /\ batch[t].index + 1 \in 0..MaxCount
  BY <1>1 DEF Batches
<1>3. batch' \in [Threads -> Batches]
  BY <1>1, <1>2 DEF Batches
<1>4. /\ \A u \in Threads :
           /\ batch'[u].start = batch[u].start /\ batch'[u].end = batch[u].end
           /\ u # t => batch'[u] = batch[u]
      /\ batch'[t].index = batch[t].index + 1
  BY <1>1, <1>2 DEF Batches
<1>5. TypeOK'
  BY <1>1, <1>3 DEF Inv, TypeOK
<1>6. Busy(t) /\ \A u \in Threads : Busy(u)' = Busy(u)
  BY <1>1 DEF Busy
<1>7. ASSUME NEW u \in Threads
      PROVE  /\ batch'[u].start <= batch'[u].index
             /\ batch'[u].index <= batch'[u].end
             /\ ~Busy(u) => batch'[u].index = batch'[u].end
  <2>1. CASE u = t
    <3>1. /\ batch[t].start \in Nat /\ batch[t].index \in Nat /\ batch[t].end \in Nat
          /\ batch[t].start <= batch[t].index
      BY <1>2 DEF Batches, Inv, BatchInv
    <3> QED BY <1>1, <1>4, <1>6, <2>1, <3>1
  <2>2. CASE u # t
    BY <1>4, <2>2 DEF Inv, BatchInv
  <2> QED BY <2>1, <2>2
<1>8. BatchInv' /\ CountInv'
  BY <1>1, <1>4, <1>6, <1>7, SameBatches DEF Inv
<1>9. PlaceInv' /\ CloseInv' /\ WorkInv'
  BY <1>1 DEF Inv, PlaceInv, CloseInv, WorkInv, WorkIsNotForgotten
<1> QED BY <1>5, <1>8, <1>9 DEF Inv

\* Whoever wakes up is not out with a batch.
LEMMA SpuriousWakeupInv ==
  ASSUME Inv, NEW t \in Threads, SpuriousWakeup(t)
  PROVE  Inv'
<1>1. /\ pc \in [Threads -> {"idle", "notify", "running", "blocked", "waiting",
                             "woken", "gone"}]
      /\ pc[t] \in {"waiting", "blocked"} /\ pc' = [pc EXCEPT ![t] = "woken"]
      /\ UNCHANGED <<available, completed, target, caller, batch, threadCount,
                     stopped, closing, dispatches>>
      /\ Workers \subseteq Threads /\ Callers \subseteq Threads
  BY DEF Inv, TypeOK, SpuriousWakeup, Threads
<1>2. /\ pc'[t] = "woken"
      /\ \A u \in Threads : u # t => pc'[u] = pc[u]
      /\ pc' \in [Threads -> {"idle", "notify", "running", "blocked", "waiting",
                              "woken", "gone"}]
  BY <1>1
<1>3. \A u \in Threads : Busy(u)' = Busy(u)
  BY <1>1, <1>2 DEF Busy
<1>4. PlaceInv'
  BY <1>1, <1>2 DEF Inv, PlaceInv
<1>5. CloseInv'
  BY <1>1, <1>2 DEF Inv, CloseInv
<1>6. WorkIsNotForgotten'
  BY <1>1, <1>2 DEF Inv, WorkInv, WorkIsNotForgotten
<1> QED BY <1>1, <1>2, <1>3, <1>4, <1>5, <1>6, MoveInv DEF Inv, TypeOK

\* The destructor starts when no dispatch is in progress.
LEMMA DestroyInv ==
  ASSUME Inv, Destroy
  PROVE  Inv'
<1>1. /\ caller = NoCaller /\ closing' = TRUE
      /\ UNCHANGED <<available, completed, target, caller, pc, batch,
                     threadCount, stopped, dispatches>>
  BY DEF Destroy
<1>2. \A u \in Threads : Busy(u)' = Busy(u)
  BY <1>1 DEF Busy
<1>3. PlaceInv' /\ CloseInv' /\ WorkIsNotForgotten'
  BY <1>1 DEF Inv, PlaceInv, CloseInv, WorkInv, WorkIsNotForgotten
<1>4. TypeOK'
  BY <1>1 DEF Inv, TypeOK
<1> QED BY <1>1, <1>2, <1>3, <1>4, MoveInv DEF TypeOK

\* A request to stop wakes the workers that wait, and nobody else.
LEMMA StopNextInv ==
  ASSUME Inv, NEW w \in Workers, StopNext(w)
  PROVE  Inv'
<1>1. /\ closing /\ stopped' = stopped \cup {w}
      /\ pc' = [t \in Threads |-> IF t \in Waiting THEN "woken" ELSE pc[t]]
      /\ UNCHANGED <<available, completed, target, caller, batch, threadCount,
                     closing, dispatches>>
      /\ pc \in [Threads -> {"idle", "notify", "running", "blocked", "waiting",
                             "woken", "gone"}]
      /\ stopped \subseteq Workers
      /\ Workers \subseteq Threads /\ Callers \subseteq Threads
  BY DEF Inv, TypeOK, StopNext, Threads
<1>2. /\ \A t \in Threads :
           pc'[t] = pc[t] \/ (t \in Workers /\ pc[t] = "waiting" /\ pc'[t] = "woken")
      /\ pc' \in [Threads -> {"idle", "notify", "running", "blocked", "waiting",
                              "woken", "gone"}]
  BY <1>1 DEF Waiting
<1>3. \A t \in Threads : Busy(t)' = Busy(t)
  BY <1>2 DEF Busy
<1>4. PlaceInv'
  <2>1. \A v \in Workers : pc'[v] \in {"notify", "running", "waiting", "woken", "gone"}
    BY <1>1, <1>2 DEF Inv, PlaceInv
  <2>2. \A c \in Callers :
          /\ pc'[c] \in {"idle", "notify", "running", "blocked", "woken"}
          /\ pc'[c] # "idle" <=> caller' = c
    BY <1>1, <1>2 DEF Inv, PlaceInv, Workers
  <2> QED BY <2>1, <2>2 DEF PlaceInv
<1>5. CloseInv'
  BY <1>1, <1>2 DEF Inv, CloseInv
<1>6. WorkIsNotForgotten'
  BY <1>1, <1>2 DEF Inv, WorkInv, WorkIsNotForgotten
<1>7. closing' \in BOOLEAN /\ stopped' \subseteq Workers
  BY <1>1 DEF Inv, TypeOK
<1> QED BY <1>1, <1>2, <1>3, <1>4, <1>5, <1>6, <1>7, MoveInv

-----------------------------------------------------------------------------
(* Safety.                                                                 *)

\* Every step preserves the invariant.
THEOREM NextInv == Inv /\ [Next]_vars => Inv'
<1> SUFFICES ASSUME Inv, [Next]_vars PROVE Inv'
  OBVIOUS
<1>1. ASSUME NEW w \in Workers, LookForWork(w) PROVE Inv'
  BY <1>1, LookForWorkInv
<1>2. ASSUME NEW t \in Threads, Notify(t) PROVE Inv'
  BY <1>2, NotifyInv
<1>3. ASSUME NEW t \in Threads, RunJob(t) PROVE Inv'
  BY <1>3, RunJobInv
<1>4. ASSUME NEW w \in Workers, WorkerDone(w) PROVE Inv'
  BY <1>4, WorkerDoneInv
<1>5. ASSUME NEW c \in Callers, CallerDone(c) PROVE Inv'
  BY <1>5, CallerDoneInv
<1>6. ASSUME NEW c \in Callers, CallerLooks(c) PROVE Inv'
  BY <1>6, CallerLooksInv
<1>7. ASSUME NEW c \in Callers, NEW count \in 0..MaxCount, Dispatch(c, count)
      PROVE  Inv'
  BY <1>7, DispatchInv
<1>8. ASSUME NEW t \in Threads, SpuriousWakeup(t) PROVE Inv'
  BY <1>8, SpuriousWakeupInv
<1>9. CASE Destroy
  BY <1>9, DestroyInv
<1>10. ASSUME NEW w \in Workers, StopNext(w) PROVE Inv'
  BY <1>10, StopNextInv
<1>11. CASE UNCHANGED vars
  BY <1>11 DEF vars, Inv, TypeOK, PlaceInv, BatchInv, CountInv, CloseInv, WorkInv,
               WorkIsNotForgotten, Counted, Jobs, Busy
<1> QED
  BY <1>1, <1>2, <1>3, <1>4, <1>5, <1>6, <1>7, <1>8, <1>9, <1>10, <1>11
  DEF Next, WorkerStep, CallerStep, Threads

\* The counters, batches and places of the threads always agree.
THEOREM InvHolds == Spec => []Inv
<1> QED BY InitInv, NextInv, PTL DEF Spec

\* The counters and batches stay within the jobs of a dispatch.
THEOREM TypeCorrect == Spec => []TypeOK
<1>1. Inv => TypeOK
  BY DEF Inv
<1> QED BY <1>1, InvHolds, PTL

\* As long as there are jobs that nobody has taken, some thread is about to
\* notify another or some worker is up.
THEOREM WorkStaysKnown == Spec => []WorkIsNotForgotten
<1>1. Inv => WorkIsNotForgotten
  BY DEF Inv, WorkInv
<1> QED BY <1>1, InvHolds, PTL

-----------------------------------------------------------------------------
(* Refinement.                                                             *)

\* The jobs that are left of a batch are among those of the batch, and have
\* been taken.
LEMMA TodoTypes ==
  ASSUME Inv
  PROVE  /\ available \in Nat /\ target \in Nat /\ available <= target
         /\ target <= MaxCount
         /\ \A t \in Threads :
              /\ batch[t].start \in Nat /\ batch[t].index \in Nat
              /\ batch[t].end \in Nat
              /\ batch[t].index..(batch[t].end - 1) \subseteq Jobs(t)
              /\ batch[t].end <= available \/ batch[t].index = batch[t].end
<1>1. /\ available \in 0..MaxCount /\ target \in 0..MaxCount
      /\ batch \in [Threads -> Batches]
      /\ available <= target
  BY DEF Inv, TypeOK, BatchInv
<1>2. ASSUME NEW t \in Threads
      PROVE  /\ batch[t].start \in Nat /\ batch[t].index \in Nat
             /\ batch[t].end \in Nat
             /\ batch[t].index..(batch[t].end - 1) \subseteq Jobs(t)
             /\ batch[t].end <= available \/ batch[t].index = batch[t].end
  <2>1. /\ batch[t].start \in Nat /\ batch[t].index \in Nat /\ batch[t].end \in Nat
    BY <1>1 DEF Batches
  <2>2. /\ batch[t].start <= batch[t].index
        /\ Busy(t) => batch[t].end <= available
        /\ ~Busy(t) => batch[t].index = batch[t].end
    BY DEF Inv, BatchInv
  <2> QED BY <2>1, <2>2 DEF Jobs
<1> QED BY <1>1, <1>2

\* Only the thread that a batch belongs to runs its jobs, in a dispatch.
LEMMA RunJobRefines ==
  ASSUME Inv, NEW t \in Threads, RunJob(t)
  PROVE  \E i \in 0..MaxCount : Loop!DoWork(i)
<1> DEFINE i == batch[t].index
<1>1. /\ pc[t] = "running" /\ i < batch[t].end
      /\ batch' = [batch EXCEPT ![t].index = i + 1]
      /\ UNCHANGED <<available, target, caller>>
      /\ batch \in [Threads -> Batches]
  BY DEF Inv, TypeOK, RunJob
<1>2. /\ \A u \in Threads : u # t => batch'[u] = batch[u]
      /\ batch'[t].index = i + 1 /\ batch'[t].end = batch[t].end
  BY <1>1 DEF Batches
<1>3. i \in Nat /\ i \in i..(batch[t].end - 1) /\ i \in Jobs(t)
  BY <1>1, TodoTypes
<1>4. i < available /\ i \in Todo /\ i \in 0..MaxCount
  BY <1>1, <1>3, TodoTypes DEF Todo
<1>5. \A u \in Threads : u # t => i \notin Jobs(u)
  BY <1>3 DEF Inv, BatchInv
<1>6. caller # NoCaller
  BY <1>3, AllDone DEF Inv, CountInv
<1>7. Todo' = Todo \ {i}
  <2>1. ASSUME NEW j \in 0..(target - 1)
        PROVE  (\E u \in Threads : j \in batch'[u].index..(batch'[u].end - 1)) <=>
               /\ \E u \in Threads : j \in batch[u].index..(batch[u].end - 1)
               /\ j # i
    <3>1. j \in batch'[t].index..(batch'[t].end - 1) <=>
            j \in batch[t].index..(batch[t].end - 1) /\ j # i
      BY <1>1, <1>2, <1>3, TodoTypes
    <3>2. ASSUME NEW u \in Threads, u # t
          PROVE  j \in batch'[u].index..(batch'[u].end - 1) <=>
                   j \in batch[u].index..(batch[u].end - 1) /\ j # i
      BY <1>2, <1>5, <3>2, TodoTypes
    <3> QED BY <3>1, <3>2
  <2> QED BY <1>1, <1>4, <2>1, TodoTypes DEF Todo
<1> HIDE DEF i
<1>8. Loop!DoWork(i)
  BY <1>1, <1>4, <1>6, <1>7 DEF Loop!DoWork
<1> QED BY <1>4, <1>8

\* A dispatch begins a loop with all its jobs to be done.
LEMMA DispatchRefines ==
  ASSUME Inv, NEW c \in Callers, NEW count \in 0..MaxCount, Dispatch(c, count)
  PROVE  Loop!Begin(count)
<1>1. /\ caller = NoCaller /\ caller' = c /\ target' = count
  BY DEF Dispatch
<1>2. c \in Threads /\ c # NoCaller /\ count \in Nat
  BY DEF Threads
<1>3. PICK end \in 0..count :
        /\ available' = end
        /\ batch' = [batch EXCEPT ![c] = [start |-> 0, index |-> 0, end |-> end]]
        /\ pc' = [pc EXCEPT ![c] = "notify"]
        /\ Size = 1 => end = count
  BY <1>2, FirstBatch
<1>4. batch'[c] = [start |-> 0, index |-> 0, end |-> end]
  BY <1>2, <1>3 DEF Inv, TypeOK
<1>5. \A j \in 0..(count - 1) :
        j >= end \/ j \in batch'[c].index..(batch'[c].end - 1)
  BY <1>2, <1>3, <1>4
<1>6. Todo' = 0..(count - 1)
  BY <1>1, <1>2, <1>3, <1>5 DEF Todo
<1> QED BY <1>1, <1>2, <1>6 DEF Loop!Begin

\* A worker that takes a batch has none, or has done all of it; the jobs that it
\* takes are still to be done.
LEMMA SeekRefines ==
  ASSUME Inv, NEW w \in Workers, BatchDone(w) \/ pc[w] = "woken", NEW pcs,
         SeekWork(w, pcs), UNCHANGED target
  PROVE  Todo' = Todo
<1>1. /\ w \in Threads
      /\ available \in Nat /\ target \in Nat /\ batch \in [Threads -> Batches]
  BY DEF Inv, TypeOK, Threads
<1>2. batch[w].index = batch[w].end
  BY <1>1 DEF BatchDone, Inv, BatchInv, Busy
<1>3. \/ available' = available /\ batch' = batch
      \/ \E end \in Nat :
           /\ available < end /\ end <= target
           /\ available' = end
           /\ batch' = [batch EXCEPT ![w] = [start |-> available,
                                             index |-> available, end |-> end]]
  BY SeekEffect DEF Inv
<1>4. CASE available' = available /\ batch' = batch
  BY <1>4 DEF Todo
<1>5. ASSUME NEW end \in Nat, available < end, available' = end,
             batch' = [batch EXCEPT ![w] = [start |-> available,
                                            index |-> available, end |-> end]]
      PROVE  Todo' = Todo
  <2>1. /\ batch'[w] = [start |-> available, index |-> available, end |-> end]
        /\ \A u \in Threads : u # w => batch'[u] = batch[u]
    BY <1>1, <1>5
  <2>2. ASSUME NEW j \in 0..(target - 1)
        PROVE  (j >= available' \/ \E u \in Threads :
                                     j \in batch'[u].index..(batch'[u].end - 1)) <=>
               (j >= available \/ \E u \in Threads :
                                     j \in batch[u].index..(batch[u].end - 1))
    <3>1. j \in batch'[w].index..(batch'[w].end - 1) <=>
            j >= available /\ ~(j >= available')
      BY <1>1, <1>5, <2>1
    <3>2. j \notin batch[w].index..(batch[w].end - 1)
      BY <1>1, <1>2, TodoTypes
    <3>3. j >= available' => j >= available
      BY <1>1, <1>5
    <3> QED BY <1>1, <2>1, <3>1, <3>2, <3>3
  <2> QED BY <2>2 DEF Todo
<1> QED BY <1>3, <1>4, <1>5

\* dispatch() returns when nothing is left to do.
LEMMA AwaitRefines ==
  ASSUME Inv, NEW c \in Callers, pc[c] # "idle",
         \/ BatchDone(c) /\ AwaitCompletion(c, Completed(c))
         \/ pc[c] = "woken" /\ AwaitCompletion(c, completed)
  PROVE  Loop!EndLoop \/ UNCHANGED Loop!loopvars
<1>1. c \in Threads /\ caller = c /\ c # NoCaller
  BY DEF Threads, Inv, PlaceInv
<1>2. UNCHANGED <<available, target, batch>> /\ Todo' = Todo
  BY DEF AwaitCompletion, Todo
<1>3. CASE caller' = caller
  BY <1>2, <1>3 DEF Loop!loopvars
<1>4. CASE caller' # caller
  <2>1. caller' = NoCaller
    BY <1>4 DEF AwaitCompletion
  <2>2. available = target /\ \A u \in Threads : u # c => Jobs(u) = {}
    <3>1. CASE BatchDone(c) /\ AwaitCompletion(c, Completed(c))
      <4>1. Completed(c) = target /\ Busy(c)
        BY <1>4, <3>1 DEF AwaitCompletion, BatchDone, Busy
      <4> QED BY <1>1, <4>1, CountBatch DEF Inv
    <3>2. CASE pc[c] = "woken" /\ AwaitCompletion(c, completed)
      <4>1. completed = target
        BY <1>4, <3>2 DEF AwaitCompletion
      <4> QED BY <4>1, AllDone
    <3> QED BY <3>1, <3>2
  <2>3. batch[c].index = batch[c].end
    BY <1>1 DEF BatchDone, Inv, BatchInv, Busy
  <2>4. \A u \in Threads : batch[u].index..(batch[u].end - 1) = {}
    BY <1>1, <2>2, <2>3, TodoTypes
  <2>5. Todo = {}
    BY <2>2, <2>4, TodoTypes DEF Todo
  <2> QED BY <1>1, <1>2, <2>1, <2>5 DEF Loop!EndLoop
<1> QED BY <1>3, <1>4

\* A step that neither takes nor does a job leaves the loop alone.
LEMMA StutterRefines ==
  ASSUME UNCHANGED <<available, target, batch, caller>>
  PROVE  UNCHANGED Loop!loopvars
BY DEF Loop!loopvars, Todo

\* Every step is one of the loop, or leaves the loop alone.
THEOREM NextRefines == Inv /\ [Next]_vars => [Loop!LoopNext]_(Loop!loopvars)
<1> SUFFICES ASSUME Inv, [Next]_vars
             PROVE  Loop!LoopNext \/ UNCHANGED Loop!loopvars
  OBVIOUS
<1>1. ASSUME NEW w \in Workers, LookForWork(w) PROVE UNCHANGED Loop!loopvars
  <2>1. Todo' = Todo /\ caller' = caller
    BY <1>1, SeekRefines DEF LookForWork
  <2> QED BY <2>1 DEF Loop!loopvars
<1>2. ASSUME NEW t \in Threads, Notify(t) PROVE UNCHANGED Loop!loopvars
  BY <1>2, StutterRefines DEF Notify
<1>3. ASSUME NEW t \in Threads, RunJob(t) PROVE Loop!LoopNext
  BY <1>3, RunJobRefines DEF Loop!LoopNext
<1>4. ASSUME NEW w \in Workers, WorkerDone(w) PROVE UNCHANGED Loop!loopvars
  <2>1. Todo' = Todo /\ caller' = caller
    BY <1>4, SeekRefines DEF WorkerDone
  <2> QED BY <2>1 DEF Loop!loopvars
<1>5. ASSUME NEW c \in Callers, CallerDone(c)
      PROVE  Loop!LoopNext \/ UNCHANGED Loop!loopvars
  <2>1. BatchDone(c) /\ AwaitCompletion(c, Completed(c)) /\ pc[c] # "idle"
    BY <1>5 DEF CallerDone, BatchDone
  <2> QED BY <2>1, AwaitRefines DEF Loop!LoopNext
<1>6. ASSUME NEW c \in Callers, CallerLooks(c)
      PROVE  Loop!LoopNext \/ UNCHANGED Loop!loopvars
  <2>1. pc[c] = "woken" /\ AwaitCompletion(c, completed)
    BY <1>6 DEF CallerLooks
  <2> QED BY <2>1, AwaitRefines DEF Loop!LoopNext
<1>7. ASSUME NEW c \in Callers, NEW count \in 0..MaxCount, Dispatch(c, count)
      PROVE  Loop!LoopNext
  BY <1>7, DispatchRefines DEF Loop!LoopNext
<1>8. ASSUME NEW t \in Threads, SpuriousWakeup(t) PROVE UNCHANGED Loop!loopvars
  BY <1>8, StutterRefines DEF SpuriousWakeup
<1>9. CASE Destroy
  BY <1>9, StutterRefines DEF Destroy
<1>10. ASSUME NEW w \in Workers, StopNext(w) PROVE UNCHANGED Loop!loopvars
  BY <1>10, StutterRefines DEF StopNext
<1>11. CASE UNCHANGED vars
  BY <1>11, StutterRefines DEF vars
<1> QED
  BY <1>1, <1>2, <1>3, <1>4, <1>5, <1>6, <1>7, <1>8, <1>9, <1>10, <1>11
  DEF Next, WorkerStep, CallerStep, Threads

\* A dispatch is a loop, each job of which is run once before it ends.
THEOREM PoolImplementsLoop == Spec => ImplementsParallelFor
<1>1. Init => Loop!LoopInit
  BY DEF Init, Loop!LoopInit, Todo, NoBatch
<1> QED
  BY <1>1, InvHolds, NextRefines, PTL DEF Spec, ImplementsParallelFor, Loop!LoopSpec

=============================================================================
