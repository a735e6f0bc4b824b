------------------------------ MODULE Channel -------------------------------
(***************************************************************************)
(* The thread-safe channel of src/async/channel.h, over which background   *)
(* threads run functions in the main loop of the thread that created it.   *)
(* A source appends to a log of functions under the mutex and emits the    *)
(* dispatcher if the log was empty; the dispatcher's handler grabs the log *)
(* under the mutex and executes it with the mutex released, function by    *)
(* function, as long as the channel is open.  Any of these functions, and  *)
(* any other handler of the main thread, may close the destination.        *)
(*                                                                         *)
(* Every critical section is one action, and so is every step of close().  *)
(* A function is a pair of the thread that posted it and a number, so that *)
(* no two are equal.                                                       *)
(***************************************************************************)
EXTENDS Naturals, Sequences

CONSTANTS
  Sources,   \* the threads that hold the source end
  MaxPosts   \* bound: calls of run() that each of them makes

ASSUME MaxPostsAssumption == MaxPosts \in Nat

Functions == Sources \X (1..MaxPosts)

VARIABLES
  is_open,     \* Shared::is_open
  dispatcher,  \* Shared::dispatcher is engaged
  pending,     \* emissions of the dispatcher not delivered yet
  funclog,     \* Shared::funclog
  posts,       \* calls of run() each source has made
  mpc,         \* where the main thread is
  batch,       \* the log grabbed by the handler, from the next function on
  dest,        \* Dest::shared is set: close() has not been called
  ran          \* history: the functions that were run

channelVars == <<is_open, dispatcher, pending, funclog, posts, mpc, batch, dest, ran>>

\* "loop": in the main loop; "grab", "exec": in the dispatcher's handler;
\* "run": in a function that it called; "reset", "clear": in close(), past
\* disconnect_source(), called from the main loop; "runreset", "runclear":
\* the same, called from a function.
MainStates == {"loop", "grab", "exec", "run",
               "reset", "clear", "runreset", "runclear"}

ChannelTypeOK ==
  /\ is_open \in BOOLEAN /\ dispatcher \in BOOLEAN /\ dest \in BOOLEAN
  /\ pending \in Nat
  /\ funclog \in Seq(Functions)
  /\ posts \in [Sources -> 0..MaxPosts]
  /\ mpc \in MainStates
  /\ batch \in Seq(Functions)
  /\ ran \in Seq(Functions)

ChannelInit ==
  /\ is_open = TRUE /\ dispatcher = TRUE /\ dest = TRUE
  /\ pending = 0
  /\ funclog = <<>>
  /\ posts = [s \in Sources |-> 0]
  /\ mpc = "loop"
  /\ batch = <<>>
  /\ ran = <<>>

------------------------------------------------------------------------------
(* The source *)

\* Mutant of Run: emits after the function was added to the log.
RunThenEmit(s) ==
  /\ posts[s] < MaxPosts
  /\ posts' = [posts EXCEPT ![s] = @ + 1]
  /\ IF is_open
     THEN /\ funclog' = Append(funclog, <<s, posts'[s]>>)
          /\ pending' = IF funclog' = <<>> THEN pending + 1 ELSE pending
     ELSE UNCHANGED <<funclog, pending>>
  /\ UNCHANGED <<is_open, dispatcher, mpc, batch, dest, ran>>

\* run(): fails once the channel is closed.
Run(s) ==
  /\ posts[s] < MaxPosts
  /\ posts' = [posts EXCEPT ![s] = @ + 1]
  /\ IF is_open
     THEN /\ pending' = IF funclog = <<>> THEN pending + 1 ELSE pending
          /\ funclog' = Append(funclog, <<s, posts'[s]>>)
     ELSE UNCHANGED <<funclog, pending>>
  /\ UNCHANGED <<is_open, dispatcher, mpc, batch, dest, ran>>

------------------------------------------------------------------------------
(* The main thread *)

\* The main loop delivers an emission of the dispatcher.
Dispatch ==
  /\ mpc = "loop"
  /\ dispatcher
  /\ pending > 0
  /\ pending' = pending - 1
  /\ mpc' = "grab"
  /\ UNCHANGED <<is_open, dispatcher, funclog, posts, batch, dest, ran>>

\* Mutant of Grab: copies the log instead of moving it.
GrabCopy ==
  /\ mpc = "grab"
  /\ batch' = funclog
  /\ mpc' = "exec"
  /\ UNCHANGED <<is_open, dispatcher, pending, funclog, posts, dest, ran>>

\* grab()
Grab ==
  /\ mpc = "grab"
  /\ batch' = funclog
  /\ funclog' = <<>>
  /\ mpc' = "exec"
  /\ UNCHANGED <<is_open, dispatcher, pending, posts, dest, ran>>

\* exec_while(): run the next function while the channel is open ...
Exec ==
  /\ mpc = "exec"
  /\ batch # <<>>
  /\ is_open
  /\ ran' = Append(ran, Head(batch))
  /\ batch' = Tail(batch)
  /\ mpc' = "run"
  /\ UNCHANGED <<is_open, dispatcher, pending, funclog, posts, dest>>

\* ... and when it is not, or none is left, destroy the rest.
ExecEnd ==
  /\ mpc = "exec"
  /\ batch = <<>> \/ ~is_open
  /\ batch' = <<>>
  /\ mpc' = "loop"
  /\ UNCHANGED <<is_open, dispatcher, pending, funclog, posts, dest, ran>>

\* The function returns.
Return ==
  /\ mpc = "run"
  /\ mpc' = "exec"
  /\ UNCHANGED <<is_open, dispatcher, pending, funclog, posts, batch, dest,
                 ran>>

\* close(): disconnect_source() takes the mutex, what follows does not.
CloseBegin ==
  /\ mpc \in {"loop", "run"}
  /\ dest
  /\ dest' = FALSE
  /\ is_open' = FALSE
  /\ mpc' = IF mpc = "loop" THEN "reset" ELSE "runreset"
  /\ UNCHANGED <<dispatcher, pending, funclog, posts, batch, ran>>

\* Destroying the dispatcher drops what it has emitted.
CloseReset ==
  /\ mpc \in {"reset", "runreset"}
  /\ dispatcher' = FALSE
  /\ pending' = 0
  /\ mpc' = IF mpc = "reset" THEN "clear" ELSE "runclear"
  /\ UNCHANGED <<is_open, funclog, posts, batch, dest, ran>>

\* Mutant of CloseClear: what is in the log is left there.
CloseClearNot ==
  /\ mpc \in {"clear", "runclear"}
  /\ mpc' = IF mpc = "clear" THEN "loop" ELSE "run"
  /\ UNCHANGED <<is_open, dispatcher, pending, funclog, posts, batch, dest,
                 ran>>

CloseClear ==
  /\ mpc \in {"clear", "runclear"}
  /\ funclog' = <<>>
  /\ mpc' = IF mpc = "clear" THEN "loop" ELSE "run"
  /\ UNCHANGED <<is_open, dispatcher, pending, posts, batch, dest, ran>>

------------------------------------------------------------------------------
MainNext ==
  \/ Dispatch \/ Grab \/ Exec \/ ExecEnd \/ Return
  \/ CloseReset \/ CloseClear

ChannelNext ==
  MainNext \/ CloseBegin \/ (\E s \in Sources : Run(s))

ChannelSpec == ChannelInit /\ [][ChannelNext]_channelVars

\* The main loop goes on, and functions return.
FairChannelSpec == ChannelSpec /\ WF_channelVars(MainNext)

------------------------------------------------------------------------------
(* Properties *)

Closing == mpc \in {"reset", "clear", "runreset", "runclear"}

\* An emission is on its way whenever there is a function in the log of an
\* open channel, and never two: the log is only found empty, and the
\* dispatcher emitted, after the emission before was delivered.
LogIsAnnounced ==
  is_open => pending = IF funclog = <<>> \/ mpc = "grab" THEN 0 ELSE 1

\* The dispatcher and the log are touched without the mutex by close(): by
\* then no source can be about to touch them.  A closed channel that is not
\* being closed any more keeps no functions, whose destruction must happen in
\* the main thread.
ClosedIsEmpty ==
  /\ ~dispatcher => ~is_open
  /\ is_open \/ Closing \/ (~dispatcher /\ funclog = <<>> /\ pending = 0)

\* The invariant of Shared, which two threads and re-entrant functions change
\* part by part: of its types, announced while open, and empty once closed.
SharedIsConsistent == ChannelTypeOK /\ LogIsAnnounced /\ ClosedIsEmpty

\* The channel is a mailbox: functions are run once each and in the order in
\* which they were posted, whoever posts them and whatever they do, and "if it
\* does run, it is guaranteed the Dest object still exists and close() has not
\* been called on it" (channel.h).
Mail == INSTANCE Mailbox WITH
  Messages <- Functions, open <- is_open, queue <- batch \o funclog,
  done <- ran

ImplementsMailbox == Mail!MailSpec

Held(f) ==
  \/ \E i \in DOMAIN funclog : funclog[i] = f
  \/ \E i \in DOMAIN batch : batch[i] = f

\* run() "will either succeed and execute or destroy the function in the main
\* loop's thread, or fail" (channel.h): every function that was accepted is
\* eventually run or destroyed, also when the channel is never closed.
AllAreDisposedOf == \A f \in Functions : Held(f) ~> ~Held(f)
=============================================================================
