--------------------------- MODULE BackgroundTask ---------------------------
(***************************************************************************)
(* Background tasks (src/async/background-task.h) as they are used through *)
(* OperationStream (operation-stream.h).  The client may start and cancel  *)
(* at any time; FontDiscovery, which looks for the fonts of the system, is *)
(* one that starts less often.  The worker talks to the main loop over a   *)
(* channel; here each task's channel is the mailbox that module Channel    *)
(* shows it to be: a queue, and whether it is open.                        *)
(*                                                                         *)
(* The stream owns one task at a time.  Destroying a task closes its       *)
(* channel and then blocks the main thread until the worker has returned   *)
(* (the destructor of a future made by std::async).                        *)
(***************************************************************************)
EXTENDS Naturals, Sequences, FiniteSets

CONSTANTS
  MaxTasks,      \* bound: tasks started
  MaxReports     \* bound: progress reports that each of them posts

ASSUME BoundsAssumption == MaxTasks \in Nat /\ MaxReports \in Nat

Tasks == 1..MaxTasks
Messages == {"started", "progress", "result", "cancelled", "finished"}
Statuses == {"complete", "cancelled", "exception"}

VARIABLES
  born,      \* number of tasks constructed
  current,   \* OperationStream::_task, 0 if null
  open,      \* BackgroundTask::_task is open, by task
  queue,     \* what the worker posted and the main loop did not run yet
  worker,    \* where the worker thread is
  reports,   \* progress reports each worker has posted
  joining,   \* the task whose worker the main thread waits for, or 0
  said       \* history: the messages emitted on behalf of each task

vars == <<born, current, open, queue, worker, reports, joining, said>>

\* "launched": the thread was created; "starting": past the first look at the
\* channel; "working": in the work function; a status: the work function
\* ended that way; "closing": the status was posted.
WorkerStates == {"none", "launched", "starting", "working", "closing", "ended"}
                  \cup Statuses

TypeOK ==
  /\ born \in 0..MaxTasks
  /\ current \in 0..born
  /\ open \in [Tasks -> BOOLEAN]
  /\ queue \in [Tasks -> Seq({"start", "progress"} \cup Statuses)]
  /\ worker \in [Tasks -> WorkerStates]
  /\ reports \in [Tasks -> 0..MaxReports]
  /\ joining \in 0..born
  /\ said \in [Tasks -> Seq(Messages)]

Init ==
  /\ born = 0 /\ current = 0 /\ joining = 0
  /\ open = [i \in Tasks |-> FALSE]
  /\ queue = [i \in Tasks |-> <<>>]
  /\ worker = [i \in Tasks |-> "none"]
  /\ reports = [i \in Tasks |-> 0]
  /\ said = [i \in Tasks |-> <<>>]

------------------------------------------------------------------------------
(* The worker thread *)

GoTo(i, place) == worker' = [worker EXCEPT ![i] = place]

\* Channel::Source::run(), which fails if the channel is closed.
Post(i, m) ==
  queue' = IF open[i] THEN [queue EXCEPT ![i] = Append(@, m)] ELSE queue

\* "if background task is already closed/destructed then there's nothing to do"
Begin(i) ==
  /\ worker[i] = "launched"
  /\ GoTo(i, IF open[i] THEN "starting" ELSE "ended")
  /\ UNCHANGED <<born, current, open, queue, reports, joining, said>>

\* Mutant of PostStart: the notification is left to the end of the work.
PostStartNot(i) ==
  /\ worker[i] = "starting"
  /\ GoTo(i, "working")
  /\ UNCHANGED <<born, current, open, queue, reports, joining, said>>

PostStart(i) ==
  /\ worker[i] = "starting"
  /\ Post(i, "start")
  /\ GoTo(i, "working")
  /\ UNCHANGED <<born, current, open, reports, joining, said>>

\* report_or_throw(): throws CancelledException out of the work function when
\* the channel is closed.  The bound is on what is posted, not on how often
\* the work looks at the channel.
Report(i) ==
  /\ worker[i] = "working"
  /\ open[i] => reports[i] < MaxReports
  /\ reports' = [reports EXCEPT ![i] = IF open[i] THEN @ + 1 ELSE @]
  /\ Post(i, "progress")
  /\ GoTo(i, IF open[i] THEN "working" ELSE "cancelled")
  /\ UNCHANGED <<born, current, open, joining, said>>

\* The work function returns its result, or throws.
WorkEnds(i) ==
  /\ worker[i] = "working"
  /\ \E s \in {"complete", "exception"} : GoTo(i, s)
  /\ UNCHANGED <<born, current, open, queue, reports, joining, said>>

\* Mutant of Conclude: an exception is not reported.
ConcludeWell(i) ==
  /\ worker[i] \in Statuses
  /\ IF worker[i] = "exception" THEN UNCHANGED queue ELSE Post(i, worker[i])
  /\ GoTo(i, "closing")
  /\ UNCHANGED <<born, current, open, reports, joining, said>>

\* "conclude operation with status and result"
Conclude(i) ==
  /\ worker[i] \in Statuses
  /\ Post(i, worker[i])
  /\ GoTo(i, "closing")
  /\ UNCHANGED <<born, current, open, reports, joining, said>>

\* The source end is closed, which changes nothing for the destination, and
\* the thread returns.
End(i) ==
  /\ worker[i] = "closing"
  /\ GoTo(i, "ended")
  /\ UNCHANGED <<born, current, open, queue, reports, joining, said>>

WorkerGoesOn(i) ==
  Begin(i) \/ PostStart(i) \/ Report(i) \/ Conclude(i) \/ End(i)

WorkerStep(i) == WorkerGoesOn(i) \/ WorkEnds(i)

------------------------------------------------------------------------------
(* The main thread *)

IsRunning == current # 0 /\ open[current]

\* Mutant of Start: the destructor does not close the channel.
StartKeepsOpen ==
  /\ joining = 0
  /\ born < MaxTasks
  /\ born' = born + 1
  /\ current' = born'
  /\ GoTo(born', "launched")
  /\ open' = [open EXCEPT ![born'] = TRUE]
  /\ joining' = current
  /\ UNCHANGED <<queue, reports, said>>

\* OperationStream::start(): the new task is constructed, and its thread
\* launched, before unique_ptr::reset() destroys the old one.
Start ==
  /\ joining = 0
  /\ born < MaxTasks
  /\ born' = born + 1
  /\ current' = born'
  /\ GoTo(born', "launched")
  /\ open' = [i \in Tasks |-> i = born' \/ (i # current /\ open[i])]
  /\ queue' = [i \in Tasks |-> IF i = current THEN <<>> ELSE queue[i]]
  /\ joining' = current
  /\ UNCHANGED <<reports, said>>

Joined ==
  /\ joining # 0
  /\ worker[joining] = "ended"
  /\ joining' = 0
  /\ UNCHANGED <<born, current, open, queue, worker, reports, said>>

\* BackgroundTask::notify(): the messages that a status makes.
Say(status) ==
  CASE status = "start"     -> <<"started">>
    [] status = "progress"  -> <<"progress">>
    [] status = "complete"  -> <<"result", "finished">>
    [] status = "cancelled" -> <<"cancelled", "finished">>
    [] status = "exception" -> <<"finished">>

\* The main loop runs the next function of a channel.  Any status but
\* "start" closes it.
Deliver(i) ==
  /\ joining = 0
  /\ queue[i] # <<>>
  /\ LET status == Head(queue[i])
         closes == status \in Statuses
     IN
     /\ said' = [said EXCEPT ![i] = @ \o Say(status)]
     /\ open' = [open EXCEPT ![i] = @ /\ ~closes]
     /\ queue' = [queue EXCEPT ![i] = IF closes THEN <<>> ELSE Tail(@)]
  /\ UNCHANGED <<born, current, worker, reports, joining>>

\* OperationStream::cancel(), which FontDiscovery calls when the application
\* shuts down: whether the task still runs is not looked at.
Cancel ==
  /\ joining = 0
  /\ current # 0
  /\ open' = [open EXCEPT ![current] = FALSE]
  /\ queue' = [queue EXCEPT ![current] = <<>>]
  /\ said' = [said EXCEPT ![current] = @ \o Say("cancelled")]
  /\ current' = 0
  /\ joining' = current
  /\ UNCHANGED <<born, worker, reports>>

------------------------------------------------------------------------------
Next ==
  \/ Start \/ Joined \/ Cancel
  \/ \E i \in Tasks : Deliver(i) \/ WorkerStep(i)

Spec == Init /\ [][Next]_vars

\* The main loop goes on, and threads are scheduled.  The work function looks
\* at the channel again and again, as it must to be cancellable; that it
\* comes to an end is not assumed.
FairSpec ==
  Spec /\ WF_vars(Joined)
       /\ \A i \in Tasks : WF_vars(Deliver(i)) /\ WF_vars(WorkerGoesOn(i))

------------------------------------------------------------------------------
(* Properties *)

Count(i, m) == Cardinality({k \in DOMAIN said[i] : said[i][k] = m})
Has(i, m) == Count(i, m) > 0

\* A client sees the messages of a task in the order of the worker: started
\* first unless the task was cancelled before, progress in between, then one
\* result or none, and never a result after it was told of a cancellation.
MessagesInOrder ==
  \A i \in Tasks : \A k \in DOMAIN said[i] :
    LET before == {said[i][j] : j \in 1..(k - 1)} IN
    CASE said[i][k] = "started"  -> before = {}
      [] said[i][k] = "progress" -> before \subseteq {"started", "progress"}
                                    /\ "started" \in before
      [] said[i][k] = "result"   -> before \subseteq {"started", "progress"}
                                    /\ "started" \in before
      [] OTHER                   -> TRUE

\* Nothing is said for a task that was replaced or let go of, although its
\* worker may have posted messages until then.
OnlyCurrentSpeaks == [][\A i \in Tasks : said'[i] # said[i] => i = current]_vars

\* is_running() is true from start() until the client was told of the end.
RunningUntilFinished ==
  current # 0 => (IsRunning <=> ~Has(current, "finished"))

\* The stream's threads do not outlive the tasks: only the current one and
\* the one being destroyed may have a live worker.
NoLooseThreads ==
  \A i \in Tasks :
    worker[i] \notin {"none", "ended"} => i \in {current, joining}

\* The worker, the client and the stream agree about each task, whenever it is
\* replaced or cancelled: on what was said of it, and on whether it goes on.
TasksAreConsistent == TypeOK /\ MessagesInOrder /\ RunningUntilFinished /\ NoLooseThreads

\* Destroying a task does not hang the main loop, whether or not the work
\* would ever end by itself.
JoinReturns == joining # 0 ~> joining = 0

\* A task that is neither cancelled nor replaced tells its client that it
\* started, and once the work is over that it finished, also when the work
\* threw an exception.
ClientIsTold ==
  \A i \in Tasks :
    /\ current = i ~> (current # i \/ Has(i, "started"))
    /\ worker[i] \in Statuses ~> (current # i \/ Has(i, "finished"))

\* Nobody waits for ever: neither the main loop for a worker that it joins, nor
\* the client of a task that goes on for being told that it began and ended.
TasksComeToAnEnd == JoinReturns /\ ClientIsTold
=============================================================================
