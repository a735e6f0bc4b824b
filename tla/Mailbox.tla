------------------------------ MODULE Mailbox -------------------------------
(***************************************************************************)
(* What channel.h promises: the sources post functions, in some order; the *)
(* thread that owns the destination runs them one at a time in that order, *)
(* until it closes the channel.  From then on posting fails, and what is   *)
(* still queued is discarded without being run.                            *)
(***************************************************************************)
EXTENDS Naturals, Sequences

CONSTANT Messages

VARIABLES
  open,    \* close() has not been called on the destination
  queue,   \* functions posted and neither run nor discarded
  done     \* functions run

mailvars == <<open, queue, done>>

MailInit ==
  /\ open = TRUE
  /\ queue = <<>>
  /\ done = <<>>

Post(f) ==
  /\ open
  /\ queue' = Append(queue, f)
  /\ UNCHANGED <<open, done>>

RunFirst ==
  /\ open
  /\ queue # <<>>
  /\ queue' = Tail(queue)
  /\ done' = Append(done, Head(queue))
  /\ UNCHANGED open

Close ==
  /\ open' = FALSE
  /\ UNCHANGED <<queue, done>>

\* Everything queued, or what was grabbed to be run, or what came after.
Discard ==
  /\ ~open
  /\ \E i \in 1..Len(queue) :
       \/ queue' = SubSeq(queue, i + 1, Len(queue))
       \/ queue' = SubSeq(queue, 1, i - 1)
  /\ UNCHANGED <<open, done>>

MailNext ==
  (\E f \in Messages : Post(f)) \/ RunFirst \/ Close \/ Discard

MailSpec == MailInit /\ [][MailNext]_mailvars
=============================================================================
