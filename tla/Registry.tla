------------------------------ MODULE Registry ------------------------------
(***************************************************************************)
(* What a list of observers promises, which may be changed while it is     *)
(* used.  A notification tells each observer that was registered when the  *)
(* outermost one began, once for each of its registrations, unless it is   *)
(* taken off before its turn.  Whoever comes while one is under way is     *)
(* told of nothing until that has ended.                                   *)
(***************************************************************************)
EXTENDS Sequences, SequencesExt

CONSTANTS Registrations,   \* each is of an observer: r.observer
          Nobody

VARIABLES
  registered,              \* the registrations in force
  settled,                 \* those that notifications are for
  rounds                   \* notifications under way, the innermost last: who
                           \* is due to be told, and who is being told

registryVars == <<registered, settled, rounds>>

RegistryInit == registered = {} /\ settled = {} /\ rounds = <<>>

\* Code of the client runs: outside, or in an observer that is being told.
ClientRuns == rounds # <<>> => Last(rounds).told # Nobody

Register ==
  /\ ClientRuns
  /\ \E r \in Registrations \ (registered \cup settled) : registered' = registered \cup {r}
  /\ settled' = IF rounds = <<>> THEN registered' ELSE settled
  /\ UNCHANGED rounds

Unregister ==
  /\ ClientRuns
  /\ \E r \in registered :
       /\ registered' = registered \ {r}
       /\ rounds' = [i \in DOMAIN rounds |-> [rounds[i] EXCEPT !.due = @ \ {r}]]
  /\ settled' = IF rounds = <<>> THEN registered' ELSE settled

Begin ==
  /\ ClientRuns
  /\ rounds' = Append(rounds, [due |-> settled \cap registered, told |-> Nobody])
  /\ UNCHANGED <<registered, settled>>

Tell ==
  /\ ~ClientRuns
  /\ \E r \in Last(rounds).due :
       rounds' = Append(Front(rounds), [due |-> Last(rounds).due \ {r}, told |-> r.observer])
  /\ UNCHANGED <<registered, settled>>

Answer ==
  /\ rounds # <<>> /\ ClientRuns
  /\ rounds' = Append(Front(rounds), [Last(rounds) EXCEPT !.told = Nobody])
  /\ UNCHANGED <<registered, settled>>

End ==
  /\ ~ClientRuns /\ Last(rounds).due = {}
  /\ rounds' = Front(rounds)
  /\ settled' = IF rounds' = <<>> THEN registered ELSE settled
  /\ UNCHANGED registered

RegistryNext == Register \/ Unregister \/ Begin \/ Tell \/ Answer \/ End

RegistrySpec == RegistryInit /\ [][RegistryNext]_registryVars
=============================================================================
