---------------------------- MODULE AsyncProofs -----------------------------
(***************************************************************************)
(* Machine-checked proofs about BackgroundTask, for any number of tasks    *)
(* and of reports: what the client is told of a task is in order and only  *)
(* while the task is its own, it is told of the end exactly when the task  *)
(* does not run any more, and no thread outlives its task.                 *)
(*                                                                         *)
(* Only the channel of the current task is ever open, and only an open     *)
(* channel has messages in it.  So it is enough to follow one task: what   *)
(* was said of it and what is in its queue are two parts of one report,    *)
(* which the place of the worker continues.                                *)
(*                                                                         *)
(* The second half is about Channel, for any set of sources, whether       *)
(* finite or not, and any number of posts: what its two ends share stays   *)
(* consistent, and the channel is a mailbox, as BackgroundTask takes it.   *)
(***************************************************************************)
EXTENDS BackgroundTask, Channel, SequenceTheorems, FiniteSetTheorems, TLAPS

Posts == {"start", "progress"} \cup Statuses

\* What was said (s), is queued (q) and is done by the worker (w) of a task
\* whose channel is open.
Speaking(s, q, w) ==
  /\ \A k \in DOMAIN s : s[k] \in {"started", "progress"} /\ (s[k] = "started" <=> k = 1)
  /\ \A k \in DOMAIN q :
       /\ q[k] = "start" <=> k = 1 /\ s = <<>>
       /\ q[k] \in Statuses => k = Len(q) /\ w \in {"closing", "ended"}
  /\ IF w \in {"launched", "starting"} THEN s = <<>> /\ q = <<>> ELSE s # <<>> \/ q # <<>>
  /\ w # "cancelled"

SpeechInv == \A i \in Tasks : open[i] => Speaking(said[i], queue[i], worker[i])

\* A task that was not constructed yet, one that is closed, and the owner of
\* the one that is open.
OwnerInv ==
  \A i \in Tasks :
    /\ i > born => ~open[i] /\ worker[i] = "none" /\ said[i] = <<>>
    /\ open[i] => i = current
    /\ ~open[i] => queue[i] = <<>>

EndInv ==
  current # 0 /\ ~open[current] => \E k \in DOMAIN said[current] : said[current][k] = "finished"

Inv == TypeOK /\ OwnerInv /\ SpeechInv /\ EndInv /\ MessagesInOrder /\ NoLooseThreads

\* MessagesInOrder of the k-th message of s.
InOrderAt(s, k) ==
  LET before == {s[j] : j \in 1..(k - 1)} IN
  CASE s[k] = "started"  -> before = {}
    [] s[k] = "progress" -> before \subseteq {"started", "progress"} /\ "started" \in before
    [] s[k] = "result"   -> before \subseteq {"started", "progress"} /\ "started" \in before
    [] OTHER             -> TRUE

USE BoundsAssumption

-----------------------------------------------------------------------------
(* What is said and what is queued.                                        *)

LEMMA SeqFacts ==
  ASSUME NEW S, NEW s \in Seq(S)
  PROVE  /\ DOMAIN s = 1..Len(s) /\ Len(s) \in Nat
         /\ s = <<>> <=> Len(s) = 0
         /\ \A k \in DOMAIN s : s[k] \in S
BY LenProperties, EmptySeq, ElementOfSeq

LEMMA AppendFacts ==
  ASSUME NEW S, NEW s \in Seq(S), NEW x \in S
  PROVE  /\ Append(s, x) \in Seq(S) /\ Append(s, x) # <<>>
         /\ Len(Append(s, x)) = Len(s) + 1 /\ DOMAIN Append(s, x) = 1..(Len(s) + 1)
         /\ Append(s, x)[Len(s) + 1] = x
         /\ \A k \in 1..Len(s) : Append(s, x)[k] = s[k]
<1>1. Append(s, x) \in Seq(S) /\ Len(Append(s, x)) = Len(s) + 1
  BY AppendProperties
<1>2. /\ \A k \in 1..Len(s) : Append(s, x)[k] = s[k]
      /\ Append(s, x)[Len(s) + 1] = x
  BY AppendProperties
<1>3. Append(s, x) # <<>>
  BY AppendProperties
<1>4. DOMAIN Append(s, x) = 1..(Len(s) + 1)
  BY <1>1, LenProperties
<1> QED BY <1>1, <1>2, <1>3, <1>4

LEMMA ConcatFacts ==
  ASSUME NEW S, NEW s \in Seq(S), NEW t \in Seq(S)
  PROVE  /\ s \o t \in Seq(S) /\ Len(s \o t) = Len(s) + Len(t)
         /\ DOMAIN (s \o t) = 1..(Len(s) + Len(t))
         /\ \A k \in 1..Len(s) : (s \o t)[k] = s[k]
         /\ \A k \in 1..Len(t) : (s \o t)[Len(s) + k] = t[k]
<1>1. s \o t \in Seq(S) /\ Len(s \o t) = Len(s) + Len(t)
  BY ConcatProperties
<1>2. /\ Len(s) \in Nat /\ Len(t) \in Nat
      /\ \A i \in 1..(Len(s) + Len(t)) : (s \o t)[i] = IF i <= Len(s) THEN s[i] ELSE t[i - Len(s)]
  BY ConcatProperties, LenProperties
<1>3. DOMAIN (s \o t) = 1..(Len(s) + Len(t))
  BY <1>1, LenProperties
<1> DEFINE u == s \o t
<1> HIDE DEF u
<1>4. ASSUME NEW k \in 1..Len(s) PROVE u[k] = s[k]
  <2>1. k \in 1..(Len(s) + Len(t)) /\ k <= Len(s)
    BY <1>2
  <2> QED BY <1>2, <2>1 DEF u
<1>5. ASSUME NEW k \in 1..Len(t) PROVE u[Len(s) + k] = t[k]
  <2>1. Len(s) + k \in 1..(Len(s) + Len(t)) /\ ~(Len(s) + k <= Len(s)) /\ (Len(s) + k) - Len(s) = k
    BY <1>2
  <2> QED BY <1>2, <2>1 DEF u
<1> QED BY <1>1, <1>3, <1>4, <1>5 DEF u

\* A worker that posts m goes on with the report.
LEMMA SpeakingPost ==
  ASSUME NEW s \in Seq(Messages), NEW q \in Seq(Posts), NEW w, NEW v, NEW m,
         Speaking(s, q, w),
         \/ m = "start" /\ w = "starting" /\ v = "working"
         \/ m = "progress" /\ w = "working" /\ v = "working"
         \/ m \in {"complete", "exception"} /\ w = m /\ v = "closing"
  PROVE  Append(q, m) \in Seq(Posts) /\ Speaking(s, Append(q, m), v)
<1>1. m \in Posts
  BY DEF Posts, Statuses
<1>2. /\ DOMAIN q = 1..Len(q) /\ Len(q) \in Nat /\ (q = <<>> <=> Len(q) = 0)
      /\ DOMAIN s = 1..Len(s) /\ Len(s) \in Nat
  BY SeqFacts
<1> DEFINE r == Append(q, m)
<1>3. /\ r \in Seq(Posts) /\ r # <<>> /\ Len(r) = Len(q) + 1 /\ DOMAIN r = 1..(Len(q) + 1)
      /\ r[Len(q) + 1] = m
      /\ \A k \in 1..Len(q) : r[k] = q[k]
  BY <1>1, AppendFacts
<1> HIDE DEF r
<1>4. ASSUME NEW k \in DOMAIN r
      PROVE  /\ r[k] = "start" <=> k = 1 /\ s = <<>>
             /\ r[k] \in Statuses => k = Len(r) /\ v \in {"closing", "ended"}
  <2>1. CASE k = Len(q) + 1
    <3>1. CASE m = "start"
      <4>1. Len(q) = 0 /\ s = <<>>
        BY <1>2, <3>1 DEF Speaking, Statuses
      <4> QED BY <1>3, <2>1, <3>1, <4>1 DEF Statuses
    <3>2. CASE m # "start"
      <4>1. ~(k = 1 /\ s = <<>>)
        BY <1>2, <2>1, <3>2 DEF Speaking
      <4>2. m \in Statuses => v = "closing"
        BY <3>2 DEF Statuses
      <4> QED BY <1>3, <2>1, <3>2, <4>1, <4>2
    <3> QED BY <3>1, <3>2
  <2>2. CASE k # Len(q) + 1
    <3>1. k \in 1..Len(q) /\ r[k] = q[k]
      BY <1>2, <1>3, <2>2
    <3>2. q[k] \notin Statuses
      BY <1>2, <3>1 DEF Speaking, Statuses
    <3> QED BY <1>2, <3>1, <3>2 DEF Speaking
  <2> QED BY <2>1, <2>2
<1>5. v # "cancelled" /\ v \notin {"launched", "starting"}
  OBVIOUS
<1>6. \A k \in DOMAIN s : s[k] \in {"started", "progress"} /\ (s[k] = "started" <=> k = 1)
  BY DEF Speaking
<1>7. Speaking(s, r, v)
  BY <1>3, <1>4, <1>5, <1>6 DEF Speaking
<1> QED BY <1>3, <1>7 DEF r

LEMMA SpeakingGoesOn ==
  ASSUME NEW s, NEW q, NEW w, NEW v, Speaking(s, q, w),
         \/ w = "launched" /\ v = "starting"
         \/ w = "working" /\ v \in {"complete", "exception"}
         \/ w = "closing" /\ v = "ended"
  PROVE  Speaking(s, q, v)
BY DEF Speaking

LEMMA SayType ==
  ASSUME NEW m \in Posts
  PROVE  /\ Say(m) \in Seq(Messages)
         /\ m = "start" => Say(m) = <<"started">>
         /\ m = "progress" => Say(m) = <<"progress">>
         /\ m \in Statuses => \E k \in DOMAIN Say(m) : Say(m)[k] = "finished"
<1>1. CASE m = "start"
  BY <1>1 DEF Say, Messages, Statuses
<1>2. CASE m = "progress"
  BY <1>2 DEF Say, Messages, Statuses
<1>3. CASE m = "complete"
  BY <1>3 DEF Say, Messages, Statuses
<1>4. CASE m = "cancelled"
  BY <1>4 DEF Say, Messages, Statuses
<1>5. CASE m = "exception"
  BY <1>5 DEF Say, Messages, Statuses
<1> QED BY <1>1, <1>2, <1>3, <1>4, <1>5 DEF Posts, Statuses

\* What was in order stays so when more is said.
LEMMA InOrderStays ==
  ASSUME NEW s \in Seq(Messages), NEW t \in Seq(Messages), NEW k \in 1..Len(s),
         InOrderAt(s, k)
  PROVE  InOrderAt(s \o t, k)
<1> DEFINE u == s \o t
<1>1. \A j \in 1..Len(s) : u[j] = s[j]
  BY ConcatFacts
<1>2. Len(s) \in Nat
  BY LenProperties
<1> HIDE DEF u
<1>3. \A j \in 1..(k - 1) : j \in 1..Len(s)
  BY <1>2
<1>4. {u[j] : j \in 1..(k - 1)} = {s[j] : j \in 1..(k - 1)} /\ u[k] = s[k]
  BY <1>1, <1>3
<1>5. InOrderAt(u, k)
  BY <1>4 DEF InOrderAt
<1> QED BY <1>5 DEF u

\* Messages that may be said at any time.
Final == {"cancelled", "finished"}

LEMMA FinalInOrder ==
  ASSUME NEW s, NEW k, s[k] \in Final
  PROVE  InOrderAt(s, k)
BY DEF InOrderAt, Final

\* What follows the messages of a task that goes on.
LEMMA SaidBefore ==
  ASSUME NEW s \in Seq(Messages), NEW q, NEW w, NEW t \in Seq(Messages), Speaking(s, q, w),
         s # <<>>
  PROVE  /\ {(s \o t)[j] : j \in 1..Len(s)} \subseteq {"started", "progress"}
         /\ "started" \in {(s \o t)[j] : j \in 1..Len(s)}
<1>1. DOMAIN s = 1..Len(s) /\ Len(s) \in Nat /\ Len(s) # 0
  BY SeqFacts
<1>2. \A j \in 1..Len(s) : (s \o t)[j] = s[j]
  BY ConcatFacts
<1>3. \A j \in 1..Len(s) : s[j] \in {"started", "progress"}
  BY <1>1 DEF Speaking
<1>4. 1 \in 1..Len(s) /\ s[1] = "started"
  BY <1>1 DEF Speaking
<1> QED BY <1>2, <1>3, <1>4

\* The first of the queue is said in its turn.
LEMMA SaidInTurn ==
  ASSUME NEW s \in Seq(Messages), NEW q \in Seq(Posts), NEW w, Speaking(s, q, w), q # <<>>,
         NEW k \in (Len(s) + 1)..Len(s \o Say(Head(q)))
  PROVE  InOrderAt(s \o Say(Head(q)), k)
<1> DEFINE m == Head(q)
           t == Say(m)
           u == s \o t
<1>1. /\ 1 \in DOMAIN q /\ m = q[1] /\ m \in Posts
      /\ Len(s) \in Nat /\ DOMAIN s = 1..Len(s) /\ (s = <<>> <=> Len(s) = 0)
  BY SeqFacts, HeadTailProperties
<1> HIDE DEF m
<1>2. /\ t \in Seq(Messages)
      /\ m = "start" => t = <<"started">>
      /\ m = "progress" => t = <<"progress">>
  BY <1>1, SayType
<1>3. m = "start" <=> s = <<>>
  BY <1>1 DEF Speaking
<1>4. /\ Len(t) \in Nat /\ Len(u) = Len(s) + Len(t)
      /\ \A j \in 1..Len(t) : u[Len(s) + j] = t[j]
  BY <1>2, ConcatFacts, LenProperties
<1>5. s # <<>> => /\ {u[j] : j \in 1..Len(s)} \subseteq {"started", "progress"}
                  /\ "started" \in {u[j] : j \in 1..Len(s)}
  <2> SUFFICES ASSUME s # <<>> PROVE /\ {u[j] : j \in 1..Len(s)} \subseteq {"started", "progress"}
                                     /\ "started" \in {u[j] : j \in 1..Len(s)}
    OBVIOUS
  <2>1. t \in Seq(Messages)
    BY <1>2
  <2> HIDE DEF t
  <2>2. {(s \o t)[j] : j \in 1..Len(s)} \subseteq {"started", "progress"}
    BY <2>1, SaidBefore
  <2>3. "started" \in {(s \o t)[j] : j \in 1..Len(s)}
    BY <2>1, SaidBefore
  <2> QED BY <2>2, <2>3
<1>6. k \in (Len(s) + 1)..Len(u)
  BY DEF m
<1>7. InOrderAt(u, k)
  <2>1. CASE m = "start"
    <3>1. Len(s) = 0 /\ Len(t) = 1 /\ t[1] = "started"
      <4>1. t = <<"started">>
        BY <1>2, <2>1
      <4>2. Len(s) = 0
        BY <1>1, <1>3, <2>1
      <4> HIDE DEF t
      <4>3. Len(t) = 1 /\ t[1] = "started"
        BY <4>1
      <4> QED BY <4>2, <4>3
    <3> HIDE DEF u, t
    <3>2. k = Len(s) + 1 /\ k = 1
      BY <1>4, <1>6, <3>1
    <3>3. u[k] = "started"
      <4>1. 1 \in 1..Len(t)
        BY <3>1
      <4> QED BY <1>4, <3>1, <3>2, <4>1
    <3>4. {u[j] : j \in 1..(k - 1)} = {}
      BY <3>2
    <3> QED BY <3>3, <3>4 DEF InOrderAt
  <2>2. CASE m = "progress"
    <3>1. Len(t) = 1 /\ t[1] = "progress"
      BY <1>2, <2>2
    <3>2. k = Len(s) + 1 /\ k - 1 = Len(s)
      BY <1>1, <1>4, <1>6, <3>1
    <3>3. u[k] = "progress"
      BY <1>4, <3>1, <3>2
    <3>4. s # <<>>
      BY <1>3, <2>2
    <3> HIDE DEF u
    <3> QED BY <1>5, <3>2, <3>3, <3>4 DEF InOrderAt
  <2>3. CASE m = "complete"
    <3>1. Len(t) = 2 /\ t[1] = "result" /\ t[2] = "finished"
      BY <2>3 DEF Say
    <3>2. \/ k = Len(s) + 1 /\ k - 1 = Len(s) /\ u[k] = t[1]
          \/ k = Len(s) + 2 /\ u[k] = t[2]
      <4>1. k = Len(s) + 1 \/ k = Len(s) + 2
        BY <1>1, <1>4, <1>6, <3>1
      <4>2. 1 \in 1..Len(t) /\ 2 \in 1..Len(t) /\ (Len(s) + 1) - 1 = Len(s)
        BY <1>1, <3>1
      <4> QED BY <1>4, <4>1, <4>2
    <3>3. s # <<>>
      BY <1>3, <2>3
    <3> HIDE DEF u, t
    <3>4. CASE k - 1 = Len(s) /\ u[k] = "result"
      BY <1>5, <3>3, <3>4 DEF InOrderAt
    <3>5. CASE u[k] = "finished"
      BY <3>5, FinalInOrder DEF Final
    <3> QED BY <3>1, <3>2, <3>4, <3>5
  <2>4. CASE m \in {"cancelled", "exception"}
    <3>1. \A j \in 1..Len(t) : t[j] \in Final
      BY <2>4 DEF Say, Final
    <3>2. k - Len(s) \in 1..Len(t) /\ Len(s) + (k - Len(s)) = k
      BY <1>1, <1>4, <1>6
    <3>3. u[k] \in Final
      BY <1>4, <3>1, <3>2
    <3> HIDE DEF u
    <3> QED BY <3>3, FinalInOrder
  <2> QED BY <1>1, <2>1, <2>2, <2>3, <2>4 DEF Posts, Statuses
<1> QED BY <1>7 DEF m

\* A message that is not the last leaves the rest of the report.
LEMMA SpeakingSaid ==
  ASSUME NEW s \in Seq(Messages), NEW q \in Seq(Posts), NEW w, Speaking(s, q, w), q # <<>>,
         Head(q) \notin Statuses
  PROVE  Speaking(s \o Say(Head(q)), Tail(q), w)
<1> DEFINE m == Head(q)
           t == Say(m)
           u == s \o t
           r == Tail(q)
<1>1. /\ 1 \in DOMAIN q /\ m = q[1] /\ m \in Posts /\ DOMAIN q = 1..Len(q) /\ Len(q) \in Nat
      /\ Len(s) \in Nat /\ DOMAIN s = 1..Len(s) /\ (s = <<>> <=> Len(s) = 0)
  BY SeqFacts, HeadTailProperties
<1>2. /\ r \in Seq(Posts) /\ Len(r) = Len(q) - 1 /\ DOMAIN r = 1..Len(r)
      /\ \A k \in 1..Len(r) : r[k] = q[k + 1]
  BY HeadTailProperties, LenProperties
<1>3. m = "start" <=> s = <<>>
  BY <1>1 DEF Speaking
<1>4. m \in {"start", "progress"}
  BY <1>1 DEF Posts
<1>5. t \in Seq(Messages) /\ Len(t) = 1 /\ t[1] = IF m = "start" THEN "started" ELSE "progress"
  BY <1>1, <1>4, SayType
<1> HIDE DEF m, r
<1>6. /\ DOMAIN u = 1..(Len(s) + 1) /\ Len(u) = Len(s) + 1 /\ u \in Seq(Messages)
      /\ \A k \in 1..Len(s) : u[k] = s[k]
      /\ u[Len(s) + 1] = t[1]
  <2>1. 1 \in 1..Len(t)
    BY <1>5
  <2>2. /\ u \in Seq(Messages) /\ Len(u) = Len(s) + Len(t)
        /\ DOMAIN u = 1..(Len(s) + Len(t))
        /\ \A k \in 1..Len(s) : u[k] = s[k]
        /\ \A k \in 1..Len(t) : u[Len(s) + k] = t[k]
    <3> HIDE DEF t
    <3> QED BY <1>5, ConcatFacts
  <2> HIDE DEF t, u
  <2> QED BY <1>5, <2>1, <2>2
<1> HIDE DEF t, u
<1>7. u # <<>>
  BY <1>1, <1>6, EmptySeq
<1>8. ASSUME NEW k \in DOMAIN u PROVE u[k] \in {"started", "progress"} /\ (u[k] = "started" <=> k = 1)
  <2>1. CASE k = Len(s) + 1
    <3>1. u[k] = t[1]
      BY <1>6, <2>1
    <3>2. k = 1 <=> m = "start"
      BY <1>1, <1>3, <2>1
    <3> QED BY <1>5, <3>1, <3>2
  <2>2. CASE k # Len(s) + 1
    <3>1. k \in 1..Len(s) /\ u[k] = s[k]
      BY <1>1, <1>6, <2>2
    <3> QED BY <1>1, <3>1 DEF Speaking
  <2> QED BY <2>1, <2>2
<1>9. ASSUME NEW k \in DOMAIN r
      PROVE  /\ r[k] = "start" <=> k = 1 /\ u = <<>>
             /\ r[k] \in Statuses => k = Len(r) /\ w \in {"closing", "ended"}
  <2>1. k + 1 \in DOMAIN q /\ k + 1 # 1 /\ r[k] = q[k + 1] /\ (k + 1 = Len(q) => k = Len(r))
    BY <1>1, <1>2
  <2> QED BY <1>7, <2>1 DEF Speaking
<1>10. w \notin {"launched", "starting", "cancelled"}
  BY DEF Speaking
<1>11. Speaking(u, r, w)
  BY <1>7, <1>8, <1>9, <1>10 DEF Speaking
<1> QED BY <1>11 DEF u, t, m, r

-----------------------------------------------------------------------------
(* The worker's steps.                                                     *)

LEMMA InOrderMeans ==
  ASSUME TypeOK
  PROVE  MessagesInOrder <=> \A i \in Tasks : \A k \in 1..Len(said[i]) : InOrderAt(said[i], k)
<1>1. \A i \in Tasks : DOMAIN said[i] = 1..Len(said[i])
  BY SeqFacts DEF TypeOK
<1> QED BY <1>1 DEF MessagesInOrder, InOrderAt

AllInOrder(f) == \A i \in Tasks : \A k \in DOMAIN f[i] : InOrderAt(f[i], k)

LEMMA InOrderKept ==
  ASSUME MessagesInOrder, UNCHANGED said
  PROVE  MessagesInOrder'
<1>1. AllInOrder(said)
  BY DEF MessagesInOrder, AllInOrder, InOrderAt
<1>2. AllInOrder(said')
  BY <1>1
<1> QED BY <1>2 DEF MessagesInOrder, AllInOrder, InOrderAt

LEMMA WorkerInv ==
  ASSUME Inv, NEW i \in Tasks, NEW w \in WorkerStates, worker' = [worker EXCEPT ![i] = w],
         worker[i] \notin {"none", "ended"}, w # "none",
         UNCHANGED <<born, current, open, joining, said>>,
         reports' \in [Tasks -> 0..MaxReports],
         queue' \in [Tasks -> Seq(Posts)],
         \A j \in Tasks : j # i \/ ~open[j] => queue'[j] = queue[j],
         open[i] => Speaking(said[i], queue'[i], w)
  PROVE  Inv'
<1> USE DEF Inv
<1>1. /\ worker \in [Tasks -> WorkerStates] /\ worker' \in [Tasks -> WorkerStates]
      /\ worker'[i] = w /\ \A j \in Tasks : j # i => worker'[j] = worker[j]
  BY DEF TypeOK
<1>2. TypeOK'
  BY <1>1 DEF TypeOK, Posts
<1>3. OwnerInv'
  BY <1>1 DEF OwnerInv
<1>4. SpeechInv'
  BY <1>1 DEF SpeechInv
<1>5. EndInv'
  BY DEF EndInv
<1>6. MessagesInOrder'
  BY InOrderKept
<1>7. NoLooseThreads'
  BY <1>1 DEF NoLooseThreads
<1> QED BY <1>2, <1>3, <1>4, <1>5, <1>6, <1>7

\* Channel::Source::run() of a worker at w that goes on to v.
LEMMA PostInv ==
  ASSUME Inv, NEW i \in Tasks, NEW m \in Posts, Post(i, m),
         NEW v \in WorkerStates, v # "none", worker' = [worker EXCEPT ![i] = v],
         UNCHANGED <<born, current, open, joining, said>>,
         reports' \in [Tasks -> 0..MaxReports],
         \/ m = "start" /\ worker[i] = "starting" /\ v = "working"
         \/ m = "progress" /\ worker[i] = "working" /\ (open[i] => v = "working")
         \/ m \in Statuses /\ worker[i] = m /\ v = "closing"
  PROVE  Inv'
<1>1. /\ queue \in [Tasks -> Seq(Posts)] /\ said[i] \in Seq(Messages)
      /\ worker[i] \notin {"none", "ended"}
  BY DEF Inv, TypeOK, Posts, Statuses
<1>2. CASE open[i]
  <2>1. queue' = [queue EXCEPT ![i] = Append(@, m)]
    BY <1>2 DEF Post
  <2>2. Speaking(said[i], queue[i], worker[i])
    BY <1>2 DEF Inv, SpeechInv
  <2>3. worker[i] # "cancelled"
    BY <2>2 DEF Speaking
  <2>4. \/ m = "start" /\ worker[i] = "starting" /\ v = "working"
        \/ m = "progress" /\ worker[i] = "working" /\ v = "working"
        \/ m \in {"complete", "exception"} /\ worker[i] = m /\ v = "closing"
    BY <1>2, <2>3 DEF Statuses
  <2>5. Append(queue[i], m) \in Seq(Posts) /\ Speaking(said[i], Append(queue[i], m), v)
    <3>1. queue[i] \in Seq(Posts)
      BY <1>1
    <3>2. Append(queue[i], m) \in Seq(Posts)
      BY <1>1, <2>2, <2>4, <3>1, SpeakingPost
    <3>3. Speaking(said[i], Append(queue[i], m), v)
      BY <1>1, <2>2, <2>4, <3>1, SpeakingPost
    <3> QED BY <3>2, <3>3
  <2>6. /\ queue' \in [Tasks -> Seq(Posts)] /\ queue'[i] = Append(queue[i], m)
        /\ \A j \in Tasks : j # i => queue'[j] = queue[j]
    BY <1>1, <2>1, <2>5
  <2> QED BY <1>1, <1>2, <2>5, <2>6, WorkerInv
<1>3. CASE ~open[i]
  <2>1. queue' = queue
    BY <1>3 DEF Post
  <2> QED BY <1>1, <1>3, <2>1, WorkerInv
<1> QED BY <1>2, <1>3

LEMMA WorkerStepInv ==
  ASSUME Inv, NEW i \in Tasks, WorkerStep(i)
  PROVE  Inv'
<1>1. /\ queue \in [Tasks -> Seq(Posts)] /\ reports \in [Tasks -> 0..MaxReports]
      /\ open[i] => Speaking(said[i], queue[i], worker[i])
  BY DEF Inv, TypeOK, SpeechInv, Posts
<1>2. CASE Begin(i)
  <2> DEFINE w == IF open[i] THEN "starting" ELSE "ended"
  <2>1. /\ worker[i] = "launched" /\ worker' = [worker EXCEPT ![i] = w]
        /\ UNCHANGED <<born, current, open, queue, reports, joining, said>>
    BY <1>2 DEF Begin, GoTo
  <2>2. w \in WorkerStates /\ w # "none" /\ (open[i] => w = "starting")
    BY DEF WorkerStates
  <2> HIDE DEF w
  <2>3. open[i] => Speaking(said[i], queue[i], w)
    BY <1>1, <2>1, <2>2, SpeakingGoesOn
  <2> QED BY <1>1, <2>1, <2>2, <2>3, WorkerInv
<1>3. CASE PostStart(i)
  BY <1>1, <1>3, PostInv DEF PostStart, GoTo, Posts, WorkerStates
<1>4. CASE Report(i)
  <2> DEFINE v == IF open[i] THEN "working" ELSE "cancelled"
  <2>1. /\ worker[i] = "working" /\ Post(i, "progress") /\ worker' = [worker EXCEPT ![i] = v]
        /\ UNCHANGED <<born, current, open, joining, said>>
    BY <1>4 DEF Report, GoTo
  <2>2. v \in WorkerStates /\ v # "none" /\ (open[i] => v = "working")
    BY DEF WorkerStates, Statuses
  <2>3. reports' \in [Tasks -> 0..MaxReports]
    <3>1. /\ open[i] => reports[i] < MaxReports
          /\ reports' = [reports EXCEPT ![i] = IF open[i] THEN @ + 1 ELSE @]
      BY <1>4 DEF Report
    <3>2. reports[i] \in 0..MaxReports /\ (open[i] => reports[i] + 1 \in 0..MaxReports)
      BY <1>1, <3>1
    <3> QED BY <1>1, <3>1, <3>2
  <2>4. "progress" \in Posts
    BY DEF Posts
  <2> HIDE DEF v
  <2> QED BY <2>1, <2>2, <2>3, <2>4, PostInv
<1>5. CASE WorkEnds(i)
  <2>1. PICK w \in {"complete", "exception"} : worker' = [worker EXCEPT ![i] = w]
    BY <1>5 DEF WorkEnds, GoTo
  <2>2. /\ worker[i] = "working"
        /\ UNCHANGED <<born, current, open, queue, reports, joining, said>>
    BY <1>5 DEF WorkEnds
  <2>3. w \in WorkerStates /\ w # "none"
    BY DEF WorkerStates, Statuses
  <2>4. open[i] => Speaking(said[i], queue[i], w)
    BY <1>1, <2>2, SpeakingGoesOn
  <2> QED BY <1>1, <2>1, <2>2, <2>3, <2>4, WorkerInv
<1>6. CASE Conclude(i)
  <2>1. /\ worker[i] \in Statuses /\ Post(i, worker[i]) /\ worker' = [worker EXCEPT ![i] = "closing"]
        /\ UNCHANGED <<born, current, open, reports, joining, said>>
    BY <1>6 DEF Conclude, GoTo
  <2>2. worker[i] \in Posts /\ "closing" \in WorkerStates
    BY <2>1 DEF Posts, WorkerStates
  <2> QED BY <1>1, <2>1, <2>2, PostInv
<1>7. CASE End(i)
  <2>1. /\ worker[i] = "closing" /\ worker' = [worker EXCEPT ![i] = "ended"]
        /\ UNCHANGED <<born, current, open, queue, reports, joining, said>>
    BY <1>7 DEF End, GoTo
  <2>2. "ended" \in WorkerStates /\ "ended" # "none"
    BY DEF WorkerStates
  <2>3. open[i] => Speaking(said[i], queue[i], "ended")
    BY <1>1, <2>1, SpeakingGoesOn
  <2> QED BY <1>1, <2>1, <2>2, <2>3, WorkerInv
<1> QED BY <1>2, <1>3, <1>4, <1>5, <1>6, <1>7 DEF WorkerStep, WorkerGoesOn

-----------------------------------------------------------------------------
(* The main thread's steps.                                                *)

LEMMA StartInv ==
  ASSUME Inv, Start
  PROVE  Inv'
<1> USE DEF Inv
<1>1. /\ joining = 0 /\ born < MaxTasks /\ born' = born + 1 /\ current' = born'
      /\ worker' = [worker EXCEPT ![born'] = "launched"]
      /\ open' = [i \in Tasks |-> i = born' \/ (i # current /\ open[i])]
      /\ queue' = [i \in Tasks |-> IF i = current THEN <<>> ELSE queue[i]]
      /\ joining' = current
      /\ UNCHANGED <<reports, said>>
  BY DEF Start, GoTo
<1>2. /\ born \in 0..MaxTasks /\ current \in 0..born
      /\ open \in [Tasks -> BOOLEAN] /\ queue \in [Tasks -> Seq(Posts)]
      /\ worker \in [Tasks -> WorkerStates] /\ said \in [Tasks -> Seq(Messages)]
  BY DEF TypeOK, Posts
<1>3. /\ born' \in 0..MaxTasks /\ born' \in Tasks /\ born' # current /\ born' > born
      /\ current' \in 0..born' /\ joining' \in 0..born'
  BY <1>1, <1>2 DEF Tasks
<1> DEFINE b == born + 1
<1>4. /\ ~open[b] /\ worker[b] = "none" /\ said[b] = <<>> /\ queue[b] = <<>>
      /\ b \in Tasks /\ b = born'
  BY <1>1, <1>3 DEF OwnerInv
<1>5. /\ \A i \in Tasks : i # b => ~open'[i] /\ queue'[i] = <<>> /\ worker'[i] = worker[i]
      /\ open'[b] = TRUE /\ queue'[b] = <<>> /\ worker'[b] = "launched"
  <2>1. \A i \in Tasks : i # b => ~open'[i]
    BY <1>1, <1>4 DEF OwnerInv
  <2>2. \A i \in Tasks : queue'[i] = <<>>
    BY <1>1, <1>4 DEF OwnerInv
  <2>3. open'[b] = TRUE
    BY <1>1, <1>4
  <2> QED BY <1>1, <1>2, <1>4, <2>1, <2>2, <2>3
<1>6. TypeOK'
  <2>1. open' \in [Tasks -> BOOLEAN]
    BY <1>1, <1>2
  <2>2. queue' \in [Tasks -> Seq(Posts)]
    BY <1>1, <1>2
  <2>3. worker' \in [Tasks -> WorkerStates]
    BY <1>1, <1>2 DEF WorkerStates
  <2> QED BY <1>1, <1>3, <2>1, <2>2, <2>3 DEF TypeOK, Posts
<1>7. OwnerInv'
  <2> SUFFICES ASSUME NEW i \in Tasks
               PROVE  /\ i > born' => ~open'[i] /\ worker'[i] = "none" /\ said'[i] = <<>>
                      /\ open'[i] => i = current'
                      /\ ~open'[i] => queue'[i] = <<>>
    BY DEF OwnerInv
  <2>1. CASE i = b
    BY <1>1, <1>2, <1>4, <1>5, <2>1
  <2>2. CASE i # b
    <3>1. i > born' => i > born
      BY <1>1, <1>2 DEF Tasks
    <3> QED BY <1>1, <1>5, <2>2, <3>1 DEF OwnerInv
  <2> QED BY <2>1, <2>2
<1>8. SpeechInv'
  <2>1. Speaking(<<>>, <<>>, "launched")
    BY DEF Speaking
  <2> QED BY <1>1, <1>4, <1>5, <2>1 DEF SpeechInv
<1>9. EndInv'
  BY <1>1, <1>4, <1>5 DEF EndInv
<1>10. MessagesInOrder'
  BY <1>1, InOrderKept
<1>11. NoLooseThreads'
  <2> SUFFICES ASSUME NEW i \in Tasks, worker'[i] \notin {"none", "ended"}
               PROVE  i \in {current', joining'}
    BY DEF NoLooseThreads
  <2>1. CASE i = b
    BY <1>1, <1>4, <2>1
  <2>2. CASE i # b
    <3>1. i # 0
      BY DEF Tasks
    <3> QED BY <1>1, <1>5, <2>2, <3>1 DEF NoLooseThreads
  <2> QED BY <2>1, <2>2
<1> QED BY <1>6, <1>7, <1>8, <1>9, <1>10, <1>11

LEMMA JoinedInv ==
  ASSUME Inv, Joined
  PROVE  Inv'
<1> USE DEF Inv
<1>1. /\ worker[joining] = "ended" /\ joining' = 0
      /\ UNCHANGED <<born, current, open, queue, worker, reports, said>>
  BY DEF Joined
<1>2. TypeOK'
  <2>1. joining' \in 0..born'
    BY <1>1 DEF TypeOK
  <2> QED BY <1>1, <2>1 DEF TypeOK
<1>3. NoLooseThreads'
  BY <1>1 DEF NoLooseThreads
<1>4. MessagesInOrder'
  BY <1>1, InOrderKept
<1> QED BY <1>1, <1>2, <1>3, <1>4 DEF OwnerInv, SpeechInv, EndInv

LEMMA DeliverInv ==
  ASSUME Inv, NEW i \in Tasks, Deliver(i)
  PROVE  Inv' /\ i = current /\ \A j \in Tasks : j # i => said'[j] = said[j]
<1> USE DEF Inv
<1> DEFINE m == Head(queue[i])
           closes == m \in Statuses
           u == said[i] \o Say(m)
<1>1. /\ joining = 0 /\ queue[i] # <<>>
      /\ said' = [said EXCEPT ![i] = @ \o Say(m)]
      /\ open' = [open EXCEPT ![i] = @ /\ ~closes]
      /\ queue' = [queue EXCEPT ![i] = IF closes THEN <<>> ELSE Tail(@)]
      /\ UNCHANGED <<born, current, worker, reports, joining>>
  BY DEF Deliver
<1>2. /\ open \in [Tasks -> BOOLEAN] /\ queue \in [Tasks -> Seq(Posts)]
      /\ worker \in [Tasks -> WorkerStates] /\ said \in [Tasks -> Seq(Messages)]
      /\ born \in 0..MaxTasks /\ current \in 0..born
  BY DEF TypeOK, Posts
<1>3. open[i] /\ i = current /\ Speaking(said[i], queue[i], worker[i]) /\ ~(i > born)
  BY <1>1 DEF OwnerInv, SpeechInv
<1>4. /\ m \in Posts /\ Tail(queue[i]) \in Seq(Posts)
  <2>1. queue[i] \in Seq(Posts)
    BY <1>2
  <2> QED BY <1>1, <2>1, HeadTailProperties
<1>5. Say(m) \in Seq(Messages) /\ (closes => \E k \in DOMAIN Say(m) : Say(m)[k] = "finished")
  BY <1>4, SayType
<1>6. /\ u \in Seq(Messages) /\ Len(u) = Len(said[i]) + Len(Say(m))
      /\ DOMAIN u = 1..(Len(said[i]) + Len(Say(m)))
      /\ \A k \in 1..Len(Say(m)) : u[Len(said[i]) + k] = Say(m)[k]
      /\ Len(said[i]) \in Nat /\ Len(Say(m)) \in Nat /\ DOMAIN Say(m) = 1..Len(Say(m))
  <2>1. said[i] \in Seq(Messages)
    BY <1>2
  <2> HIDE DEF m
  <2> QED BY <1>5, <2>1, ConcatFacts, LenProperties
<1>7. \A k \in 1..Len(u) : InOrderAt(u, k)
  <2> SUFFICES ASSUME NEW k \in 1..Len(u) PROVE InOrderAt(u, k)
    OBVIOUS
  <2>1. said[i] \in Seq(Messages) /\ queue[i] \in Seq(Posts)
    BY <1>2
  <2>2. CASE k \in 1..Len(said[i])
    <3>1. InOrderAt(said[i], k)
      BY <2>2, InOrderMeans
    <3> QED BY <1>5, <2>1, <2>2, <3>1, InOrderStays
  <2>3. CASE k \notin 1..Len(said[i])
    <3>1. k \in (Len(said[i]) + 1)..Len(u)
      <4>1. k \in 1..Len(u) /\ Len(u) \in Nat /\ Len(said[i]) \in Nat
        BY <1>6, LenProperties
      <4> HIDE DEF u, m, closes
      <4> QED BY <2>3, <4>1
    <3> QED BY <1>1, <1>3, <2>1, <3>1, SaidInTurn
  <2> QED BY <2>2, <2>3
<1>8. ~closes => Speaking(u, Tail(queue[i]), worker[i])
  <2>1. said[i] \in Seq(Messages) /\ queue[i] \in Seq(Posts)
    BY <1>2
  <2> QED BY <1>1, <1>3, <2>1, SpeakingSaid
<1>9. closes => \E k \in DOMAIN u : u[k] = "finished"
  <2> SUFFICES ASSUME closes PROVE \E k \in DOMAIN u : u[k] = "finished"
    OBVIOUS
  <2>1. PICK k \in 1..Len(Say(m)) : Say(m)[k] = "finished"
    BY <1>5, <1>6
  <2> HIDE DEF u, m
  <2>2. Len(said[i]) + k \in DOMAIN u /\ u[Len(said[i]) + k] = "finished"
    BY <1>6, <2>1
  <2> QED BY <2>2
<1> HIDE DEF u, m
<1>10. /\ said' \in [Tasks -> Seq(Messages)] /\ said'[i] = u
       /\ open' \in [Tasks -> BOOLEAN] /\ (open'[i] <=> ~closes)
       /\ queue' \in [Tasks -> Seq(Posts)]
       /\ closes => queue'[i] = <<>>
       /\ ~closes => queue'[i] = Tail(queue[i])
       /\ \A j \in Tasks : j # i => said'[j] = said[j] /\ open'[j] = open[j] /\ queue'[j] = queue[j]
  <2>1. said' = [said EXCEPT ![i] = u]
    BY <1>1 DEF u
  <2>2. said' \in [Tasks -> Seq(Messages)] /\ said'[i] = u /\ \A j \in Tasks : j # i => said'[j] = said[j]
    BY <1>2, <1>6, <2>1
  <2>3. /\ open' \in [Tasks -> BOOLEAN] /\ (open'[i] <=> ~closes)
        /\ \A j \in Tasks : j # i => open'[j] = open[j]
    <3> HIDE DEF closes
    <3> QED BY <1>1, <1>2, <1>3
  <2>4. /\ queue' \in [Tasks -> Seq(Posts)]
        /\ closes => queue'[i] = <<>>
        /\ ~closes => queue'[i] = Tail(queue[i])
        /\ \A j \in Tasks : j # i => queue'[j] = queue[j]
    <3> HIDE DEF closes
    <3>1. (IF closes THEN <<>> ELSE Tail(queue[i])) \in Seq(Posts)
      BY <1>4
    <3> QED BY <1>1, <1>2, <3>1
  <2> QED BY <2>2, <2>3, <2>4
<1> HIDE DEF closes
<1>11. TypeOK'
  BY <1>1, <1>10 DEF TypeOK, Posts
<1>12. OwnerInv'
  BY <1>1, <1>3, <1>10 DEF OwnerInv
<1>13. SpeechInv'
  BY <1>1, <1>8, <1>10 DEF SpeechInv
<1>14. EndInv'
  BY <1>1, <1>3, <1>9, <1>10 DEF EndInv
<1>15. MessagesInOrder'
  <2>1. \A j \in Tasks : \A k \in 1..Len(said'[j]) : InOrderAt(said'[j], k)
    BY <1>7, <1>10, InOrderMeans
  <2>2. \A j \in Tasks : DOMAIN said'[j] = 1..Len(said'[j])
    BY <1>10, SeqFacts
  <2> QED BY <2>1, <2>2 DEF MessagesInOrder, InOrderAt
<1>16. NoLooseThreads'
  BY <1>1 DEF NoLooseThreads
<1> QED BY <1>3, <1>10, <1>11, <1>12, <1>13, <1>14, <1>15, <1>16

LEMMA CancelInv ==
  ASSUME Inv, Cancel
  PROVE  Inv' /\ \A j \in Tasks : j # current => said'[j] = said[j]
<1> USE DEF Inv
<1> DEFINE t == Say("cancelled")
           u == said[current] \o t
<1>1. /\ joining = 0 /\ current # 0
      /\ open' = [open EXCEPT ![current] = FALSE]
      /\ queue' = [queue EXCEPT ![current] = <<>>]
      /\ said' = [said EXCEPT ![current] = u]
      /\ current' = 0 /\ joining' = current
      /\ UNCHANGED <<born, worker, reports>>
  BY DEF Cancel
<1>2. /\ open \in [Tasks -> BOOLEAN] /\ queue \in [Tasks -> Seq(Posts)]
      /\ said \in [Tasks -> Seq(Messages)] /\ born \in 0..MaxTasks /\ current \in 0..born
  BY DEF TypeOK, Posts
<1>3. current \in Tasks /\ ~(current > born)
  BY <1>1, <1>2 DEF Tasks
<1>4. said[current] \in Seq(Messages)
  BY <1>2, <1>3
<1>5. t \in Seq(Messages) /\ Len(t) = 2 /\ t[1] = "cancelled" /\ t[2] = "finished"
  BY DEF Say, Messages
<1> HIDE DEF t
<1>6. /\ u \in Seq(Messages) /\ Len(u) = Len(said[current]) + Len(t)
      /\ \A k \in 1..Len(t) : u[Len(said[current]) + k] = t[k]
      /\ Len(said[current]) \in Nat
  <2>1. Len(said[current]) \in Nat
    BY <1>4, LenProperties
  <2>2. u \in Seq(Messages) /\ Len(u) = Len(said[current]) + Len(t)
    <3>1. said[current] \o t \in Seq(Messages)
      BY <1>4, <1>5, ConcatFacts
    <3>2. Len(said[current] \o t) = Len(said[current]) + Len(t)
      BY <1>4, <1>5, ConcatFacts
    <3> QED BY <3>1, <3>2
  <2>3. \A k \in 1..Len(t) : u[Len(said[current]) + k] = t[k]
    <3>1. t \in Seq(Messages)
      BY <1>5
    <3>2. \A k \in 1..Len(t) : (said[current] \o t)[Len(said[current]) + k] = t[k]
      BY <1>4, <3>1, ConcatFacts
    <3> QED BY <3>2
  <2> HIDE DEF u
  <2> QED BY <2>1, <2>2, <2>3
<1>7. \A k \in 1..Len(u) : InOrderAt(u, k)
  <2> SUFFICES ASSUME NEW k \in 1..Len(u) PROVE InOrderAt(u, k)
    OBVIOUS
  <2>1. CASE k \in 1..Len(said[current])
    <3>1. InOrderAt(said[current], k)
      BY <1>3, <2>1, InOrderMeans
    <3> QED BY <1>4, <1>5, <2>1, <3>1, InOrderStays
  <2>2. CASE k \notin 1..Len(said[current])
    <3> HIDE DEF u
    <3>1. k - Len(said[current]) \in 1..Len(t) /\ Len(said[current]) + (k - Len(said[current])) = k
      BY <1>5, <1>6, <2>2
    <3>2. u[k] = t[k - Len(said[current])]
      BY <1>6, <3>1
    <3>3. \A j \in 1..Len(t) : t[j] \in Final
      BY <1>5 DEF Final
    <3> QED BY <3>1, <3>2, <3>3, FinalInOrder
  <2> QED BY <2>1, <2>2
<1> HIDE DEF u
<1>8. /\ said' \in [Tasks -> Seq(Messages)] /\ said'[current] = u
      /\ open' \in [Tasks -> BOOLEAN] /\ queue' \in [Tasks -> Seq(Posts)]
      /\ \A j \in Tasks : ~open'[j] /\ queue'[j] = <<>>
      /\ \A j \in Tasks : j # current => said'[j] = said[j]
  BY <1>1, <1>2, <1>3, <1>6 DEF OwnerInv
<1>9. TypeOK'
  <2>1. current' \in 0..born' /\ joining' \in 0..born'
    BY <1>1, <1>2
  <2> QED BY <1>1, <1>8, <2>1 DEF TypeOK, Posts
<1>10. OwnerInv'
  BY <1>1, <1>3, <1>8 DEF OwnerInv
<1>11. SpeechInv' /\ EndInv'
  BY <1>1, <1>8 DEF SpeechInv, EndInv
<1>12. MessagesInOrder'
  <2>1. \A j \in Tasks : \A k \in 1..Len(said'[j]) : InOrderAt(said'[j], k)
    BY <1>7, <1>8, InOrderMeans
  <2>2. \A j \in Tasks : DOMAIN said'[j] = 1..Len(said'[j])
    BY <1>8, SeqFacts
  <2> QED BY <2>1, <2>2 DEF MessagesInOrder, InOrderAt
<1>13. NoLooseThreads'
  <2>1. \A j \in Tasks : j # 0
    BY DEF Tasks
  <2> QED BY <1>1, <2>1 DEF NoLooseThreads
<1> QED BY <1>8, <1>9, <1>10, <1>11, <1>12, <1>13

LEMMA NextInv ==
  ASSUME Inv, [Next]_vars
  PROVE  Inv'
<1>1. CASE Start
  BY <1>1, StartInv
<1>2. CASE Joined
  BY <1>2, JoinedInv
<1>3. CASE Cancel
  BY <1>3, CancelInv
<1>4. CASE \E i \in Tasks : Deliver(i) \/ WorkerStep(i)
  BY <1>4, DeliverInv, WorkerStepInv
<1>5. CASE UNCHANGED vars
  <2>1. UNCHANGED <<born, current, open, queue, worker, reports, joining, said>>
    BY <1>5 DEF vars
  <2>2. MessagesInOrder'
    BY <2>1, InOrderKept DEF Inv
  <2> QED BY <2>1, <2>2 DEF Inv, TypeOK, OwnerInv, SpeechInv, EndInv, NoLooseThreads
<1> QED BY <1>1, <1>2, <1>3, <1>4, <1>5 DEF Next

LEMMA InitInv ==
  ASSUME Init
  PROVE  Inv
<1> USE DEF Init
<1>1. \A S : <<>> \in Seq(S)
  OBVIOUS
<1>2. TypeOK
  <2>1. queue \in [Tasks -> Seq({"start", "progress"} \cup Statuses)]
    BY <1>1
  <2>2. said \in [Tasks -> Seq(Messages)]
    BY <1>1
  <2>3. worker \in [Tasks -> WorkerStates]
    BY DEF WorkerStates
  <2> QED BY <2>1, <2>2, <2>3 DEF TypeOK
<1>3. OwnerInv
  BY DEF OwnerInv
<1>4. SpeechInv /\ EndInv
  BY DEF SpeechInv, EndInv
<1>5. MessagesInOrder
  BY DEF MessagesInOrder
<1>6. NoLooseThreads
  BY DEF NoLooseThreads
<1> QED BY <1>2, <1>3, <1>4, <1>5, <1>6 DEF Inv

\* Everything the proofs follow about a task, at every moment of every run.
THEOREM Invariance == Spec => []Inv
<1>1. Init => Inv
  BY InitInv
<1>2. Inv /\ [Next]_vars => Inv'
  BY NextInv
<1> QED BY <1>1, <1>2, PTL DEF Spec

-----------------------------------------------------------------------------
(* What the invariant says to the client.                                  *)

LEMMA HasMeans ==
  ASSUME TypeOK, NEW i \in Tasks, NEW m
  PROVE  Has(i, m) <=> \E k \in DOMAIN said[i] : said[i][k] = m
<1> DEFINE S == {k \in DOMAIN said[i] : said[i][k] = m}
<1>1. DOMAIN said[i] = 1..Len(said[i]) /\ Len(said[i]) \in Nat
  BY SeqFacts DEF TypeOK
<1>2. IsFiniteSet(1..Len(said[i]))
  BY <1>1, FS_Interval
<1>3. IsFiniteSet(S)
  BY <1>1, <1>2, FS_Subset
<1> HIDE DEF S
<1>4. Cardinality(S) \in Nat /\ (Cardinality(S) = 0 <=> S = {})
  BY <1>3, FS_CardinalityType, FS_EmptySet
<1>5. Cardinality(S) > 0 <=> S # {}
  BY <1>4
<1>6. S # {} <=> \E k \in DOMAIN said[i] : said[i][k] = m
  BY DEF S
<1> QED BY <1>5, <1>6 DEF Has, Count, S

LEMMA RunsUntilTold ==
  ASSUME Inv
  PROVE  RunningUntilFinished
<1> SUFFICES ASSUME current # 0 PROVE open[current] <=> ~Has(current, "finished")
  BY DEF RunningUntilFinished, IsRunning
<1>1. current \in Tasks
  BY DEF Inv, TypeOK, Tasks
<1>2. Has(current, "finished") <=> \E k \in DOMAIN said[current] : said[current][k] = "finished"
  BY <1>1, HasMeans DEF Inv
<1>3. open[current] => \A k \in DOMAIN said[current] : said[current][k] \in {"started", "progress"}
  BY <1>1 DEF Inv, SpeechInv, Speaking
<1>4. ~open[current] => \E k \in DOMAIN said[current] : said[current][k] = "finished"
  BY DEF Inv, EndInv
<1> QED BY <1>2, <1>3, <1>4

\* However starting, replacing and cancelling a task, the steps of its worker
\* and the main loop interleave: the client is told in the order of the work,
\* the stream runs exactly until the client was told of the end, and no thread
\* is left behind by a task that was replaced or cancelled.
THEOREM TasksStayConsistent == Spec => []TasksAreConsistent
<1>1. Inv => TasksAreConsistent
  BY RunsUntilTold DEF Inv, TasksAreConsistent
<1> QED BY <1>1, Invariance, PTL

\* Destroying a task silences it: whatever its worker still posts, nobody
\* hears of it.
THEOREM OnlyTheCurrentSpeaks == Spec => OnlyCurrentSpeaks
<1>1. ASSUME Inv, [Next]_vars, NEW i \in Tasks, said'[i] # said[i] PROVE i = current
  <2>1. CASE Start \/ Joined \/ UNCHANGED vars
    BY <1>1, <2>1 DEF Start, Joined, vars
  <2>2. CASE Cancel
    BY <1>1, <2>2, CancelInv
  <2>3. ASSUME NEW j \in Tasks, Deliver(j) PROVE i = current
    BY <1>1, <2>3, DeliverInv
  <2>4. ASSUME NEW j \in Tasks, WorkerStep(j) PROVE i = current
    BY <1>1, <2>4 DEF WorkerStep, WorkerGoesOn, Begin, PostStart, Report, Conclude, End, WorkEnds
  <2> QED BY <1>1, <2>1, <2>2, <2>3, <2>4 DEF Next
<1>2. Inv /\ [Next]_vars => [\A i \in Tasks : said'[i] # said[i] => i = current]_vars
  BY <1>1
<1> QED BY <1>2, Invariance, PTL DEF Spec, OnlyCurrentSpeaks

-----------------------------------------------------------------------------
(* The channel.                                                            *)

\* Where the main thread is tells what else it has done: nothing is left of a
\* log outside of the handler, the log that an emission announced is there to
\* be grabbed, and close() has got as far as its place says.
MainInv ==
  /\ dest = is_open
  /\ mpc \in {"loop", "grab", "reset", "clear"} => batch = <<>>
  /\ mpc = "grab" => is_open /\ funclog # <<>>
  /\ Closing => ~is_open
  /\ mpc \in {"clear", "runclear"} => ~dispatcher /\ pending = 0

ChannelInv == ChannelTypeOK /\ LogIsAnnounced /\ ClosedIsEmpty /\ MainInv

USE MaxPostsAssumption

-----------------------------------------------------------------------------
(* The invariant.                                                          *)

LEMMA ChannelInitInv ==
  ASSUME ChannelInit
  PROVE  ChannelInv
<1>1. ChannelTypeOK
  BY DEF ChannelInit, ChannelTypeOK, MainStates
<1>2. LogIsAnnounced /\ ClosedIsEmpty /\ MainInv
  BY DEF ChannelInit, LogIsAnnounced, ClosedIsEmpty, MainInv, Closing
<1> QED BY <1>1, <1>2 DEF ChannelInv

\* What run() does to the log.
LEMMA RunEffect ==
  ASSUME ChannelTypeOK, NEW s \in Sources, Run(s)
  PROVE  /\ <<s, posts'[s]>> \in Functions
         /\ posts' \in [Sources -> 0..MaxPosts]
         /\ is_open => /\ funclog' = Append(funclog, <<s, posts'[s]>>)
                       /\ funclog' \in Seq(Functions) /\ funclog' # <<>>
<1>1. /\ posts[s] \in 0..MaxPosts /\ posts[s] < MaxPosts
      /\ posts' = [posts EXCEPT ![s] = @ + 1]
  BY DEF Run, ChannelTypeOK
<1>2. posts[s] + 1 \in 1..MaxPosts /\ posts[s] + 1 \in 0..MaxPosts
  BY <1>1
<1>3. posts'[s] = posts[s] + 1 /\ posts' \in [Sources -> 0..MaxPosts]
  BY <1>1, <1>2 DEF ChannelTypeOK
<1>4. <<s, posts'[s]>> \in Functions
  BY <1>2, <1>3 DEF Functions
<1>5. is_open => funclog' = Append(funclog, <<s, posts'[s]>>)
  BY DEF Run
<1>6. funclog \in Seq(Functions)
  BY DEF ChannelTypeOK
<1>7. /\ Append(funclog, <<s, posts'[s]>>) \in Seq(Functions)
      /\ Append(funclog, <<s, posts'[s]>>) # <<>>
  BY <1>4, <1>6, AppendProperties
<1> QED BY <1>3, <1>4, <1>5, <1>7

LEMMA RunInv ==
  ASSUME ChannelInv, NEW s \in Sources, Run(s)
  PROVE  ChannelInv'
<1> USE DEF ChannelInv
<1>1. UNCHANGED <<is_open, dispatcher, mpc, batch, dest, ran>>
  BY DEF Run
<1>2. CASE is_open
  <2>1. /\ funclog' \in Seq(Functions) /\ funclog' # <<>>
        /\ posts' \in [Sources -> 0..MaxPosts]
    BY <1>2, RunEffect
  <2>2. pending' = IF funclog = <<>> THEN pending + 1 ELSE pending
    BY <1>2 DEF Run
  <2>3. ChannelTypeOK'
    BY <1>1, <2>1, <2>2 DEF ChannelTypeOK
  <2>4. LogIsAnnounced'
    BY <1>1, <1>2, <2>1, <2>2 DEF LogIsAnnounced, MainInv
  <2>5. ClosedIsEmpty' /\ MainInv'
    BY <1>1, <1>2, <2>1 DEF ClosedIsEmpty, MainInv, Closing
  <2> QED BY <2>3, <2>4, <2>5
<1>3. CASE ~is_open
  <2>1. UNCHANGED <<funclog, pending>>
    BY <1>3 DEF Run
  <2>2. ChannelTypeOK'
    BY <1>1, <2>1, RunEffect DEF ChannelTypeOK
  <2> QED BY <1>1, <2>1, <2>2 DEF LogIsAnnounced, ClosedIsEmpty, MainInv, Closing
<1> QED BY <1>2, <1>3

LEMMA HandlerInv ==
  ASSUME ChannelInv, Dispatch \/ Grab \/ Exec \/ ExecEnd \/ Return
  PROVE  ChannelInv'
<1> USE DEF ChannelInv
<1>1. CASE Dispatch
  <2>1. /\ mpc = "loop" /\ dispatcher /\ pending > 0
        /\ pending' = pending - 1 /\ mpc' = "grab"
        /\ UNCHANGED <<is_open, dispatcher, funclog, posts, batch, dest, ran>>
    BY <1>1 DEF Dispatch
  <2>2. is_open
    BY <2>1 DEF ClosedIsEmpty, Closing
  <2>3. pending = 1 /\ funclog # <<>>
    BY <2>1, <2>2 DEF LogIsAnnounced
  <2>4. ChannelTypeOK'
    BY <2>1, <2>3 DEF ChannelTypeOK, MainStates
  <2>5. LogIsAnnounced'
    BY <2>1, <2>3 DEF LogIsAnnounced
  <2>6. ClosedIsEmpty' /\ MainInv'
    BY <2>1, <2>2, <2>3 DEF ClosedIsEmpty, MainInv, Closing
  <2> QED BY <2>4, <2>5, <2>6
<1>2. CASE Grab
  <2>1. /\ mpc = "grab" /\ batch' = funclog /\ funclog' = <<>> /\ mpc' = "exec"
        /\ UNCHANGED <<is_open, dispatcher, pending, posts, dest, ran>>
    BY <1>2 DEF Grab
  <2>2. ChannelTypeOK'
    BY <2>1 DEF ChannelTypeOK, MainStates
  <2> QED BY <2>1, <2>2 DEF LogIsAnnounced, ClosedIsEmpty, MainInv, Closing
<1>3. CASE Exec
  <2>1. /\ mpc = "exec" /\ batch # <<>> /\ is_open
        /\ ran' = Append(ran, Head(batch)) /\ batch' = Tail(batch) /\ mpc' = "run"
        /\ UNCHANGED <<is_open, dispatcher, pending, funclog, posts, dest>>
    BY <1>3 DEF Exec
  <2>2. batch \in Seq(Functions) /\ ran \in Seq(Functions)
    BY DEF ChannelTypeOK
  <2>3. batch' \in Seq(Functions) /\ ran' \in Seq(Functions)
    BY <2>1, <2>2
  <2>4. ChannelTypeOK'
    BY <2>1, <2>3 DEF ChannelTypeOK, MainStates
  <2> QED BY <2>1, <2>4 DEF LogIsAnnounced, ClosedIsEmpty, MainInv, Closing
<1>4. CASE ExecEnd
  <2>1. /\ mpc = "exec" /\ batch' = <<>> /\ mpc' = "loop"
        /\ UNCHANGED <<is_open, dispatcher, pending, funclog, posts, dest, ran>>
    BY <1>4 DEF ExecEnd
  <2>2. ChannelTypeOK'
    BY <2>1 DEF ChannelTypeOK, MainStates
  <2> QED BY <2>1, <2>2 DEF LogIsAnnounced, ClosedIsEmpty, MainInv, Closing
<1>5. CASE Return
  <2>1. /\ mpc = "run" /\ mpc' = "exec"
        /\ UNCHANGED <<is_open, dispatcher, pending, funclog, posts, batch, dest, ran>>
    BY <1>5 DEF Return
  <2>2. ChannelTypeOK'
    BY <2>1 DEF ChannelTypeOK, MainStates
  <2> QED BY <2>1, <2>2 DEF LogIsAnnounced, ClosedIsEmpty, MainInv, Closing
<1> QED BY <1>1, <1>2, <1>3, <1>4, <1>5

LEMMA CloseInv ==
  ASSUME ChannelInv, CloseBegin \/ CloseReset \/ CloseClear
  PROVE  ChannelInv'
<1> USE DEF ChannelInv
<1>1. CASE CloseBegin
  <2>1. /\ mpc \in {"loop", "run"} /\ dest' = FALSE /\ is_open' = FALSE
        /\ mpc' = IF mpc = "loop" THEN "reset" ELSE "runreset"
        /\ UNCHANGED <<dispatcher, pending, funclog, posts, batch, ran>>
    BY <1>1 DEF CloseBegin
  <2>2. ChannelTypeOK'
    BY <2>1 DEF ChannelTypeOK, MainStates
  <2> QED BY <2>1, <2>2 DEF LogIsAnnounced, ClosedIsEmpty, MainInv, Closing
<1>2. CASE CloseReset
  <2>1. /\ mpc \in {"reset", "runreset"} /\ dispatcher' = FALSE /\ pending' = 0
        /\ mpc' = IF mpc = "reset" THEN "clear" ELSE "runclear"
        /\ UNCHANGED <<is_open, funclog, posts, batch, dest, ran>>
    BY <1>2 DEF CloseReset
  <2>2. ChannelTypeOK'
    BY <2>1 DEF ChannelTypeOK, MainStates
  <2>3. ~is_open
    BY <2>1 DEF MainInv, Closing
  <2> QED BY <2>1, <2>2, <2>3 DEF LogIsAnnounced, ClosedIsEmpty, MainInv, Closing
<1>3. CASE CloseClear
  <2>1. /\ mpc \in {"clear", "runclear"} /\ funclog' = <<>>
        /\ mpc' = IF mpc = "clear" THEN "loop" ELSE "run"
        /\ UNCHANGED <<is_open, dispatcher, pending, posts, batch, dest, ran>>
    BY <1>3 DEF CloseClear
  <2>2. ChannelTypeOK'
    BY <2>1 DEF ChannelTypeOK, MainStates
  <2>3. ~is_open /\ ~dispatcher /\ pending = 0
    BY <2>1 DEF MainInv, Closing
  <2> QED BY <2>1, <2>2, <2>3 DEF LogIsAnnounced, ClosedIsEmpty, MainInv, Closing
<1> QED BY <1>1, <1>2, <1>3

LEMMA ChannelNextInv ==
  ASSUME ChannelInv, [ChannelNext]_channelVars
  PROVE  ChannelInv'
<1>1. ASSUME NEW s \in Sources, Run(s) PROVE ChannelInv'
  BY <1>1, RunInv
<1>2. CASE Dispatch \/ Grab \/ Exec \/ ExecEnd \/ Return
  BY <1>2, HandlerInv
<1>3. CASE CloseBegin \/ CloseReset \/ CloseClear
  BY <1>3, CloseInv
<1>4. CASE UNCHANGED channelVars
  BY <1>4 DEF channelVars, ChannelInv, ChannelTypeOK, LogIsAnnounced, ClosedIsEmpty, MainInv, Closing
<1> QED BY <1>1, <1>2, <1>3, <1>4 DEF ChannelNext, MainNext

\* The inductive invariant of the channel.
THEOREM ChannelInvariance == ChannelSpec => []ChannelInv
<1>1. ChannelInit => ChannelInv
  BY ChannelInitInv
<1>2. ChannelInv /\ [ChannelNext]_channelVars => ChannelInv'
  BY ChannelNextInv
<1> QED BY <1>1, <1>2, PTL DEF ChannelSpec

\* An open channel with functions in its log has announced them, once; sources
\* that run() during close(), or in between the emission and its delivery, find
\* it as they need to; and a closed channel holds no function for its sources to
\* destroy in their threads.
THEOREM SharedStaysConsistent == ChannelSpec => []SharedIsConsistent
<1>1. ChannelInv => SharedIsConsistent
  BY DEF ChannelInv, SharedIsConsistent
<1> QED BY <1>1, ChannelInvariance, PTL

-----------------------------------------------------------------------------
(* The channel is a mailbox.                                               *)

Queue == batch \o funclog

\* One of two sequences may be dropped from their concatenation.
LEMMA Halves ==
  ASSUME NEW S, NEW s \in Seq(S), NEW t \in Seq(S)
  PROVE  /\ SubSeq(s \o t, Len(s) + 1, Len(s \o t)) = t
         /\ SubSeq(s \o t, 1, Len(s)) = s
<1> DEFINE u == s \o t
<1>1. /\ Len(s) \in Nat /\ Len(t) \in Nat /\ u \in Seq(S) /\ Len(u) = Len(s) + Len(t)
      /\ \A i \in 1..(Len(s) + Len(t)) : u[i] = IF i <= Len(s) THEN s[i] ELSE t[i - Len(s)]
  BY ConcatProperties, LenProperties
<1> HIDE DEF u
<1>2. \A i \in 1..Len(u) : u[i] \in S
  BY <1>1, ElementOfSeq
<1>3. SubSeq(u, Len(s) + 1, Len(u)) = t
  <2> DEFINE m == Len(s) + 1
             n == Len(u)
             v == SubSeq(u, m, n)
  <2>1. m \in Int /\ n \in Int /\ \A i \in m..n : u[i] \in S
    BY <1>1, <1>2
  <2> HIDE DEF m, n
  <2>2. /\ v \in Seq(S) /\ Len(v) = IF m <= n THEN n - m + 1 ELSE 0
        /\ \A i \in 1..(n - m + 1) : v[i] = u[m + i - 1]
    BY <2>1, SubSeqProperties
  <2> HIDE DEF v
  <2>3. n - m + 1 = Len(t) /\ (m <= n <=> Len(t) > 0)
    BY <1>1 DEF m, n
  <2>4. Len(v) = Len(t)
    BY <1>1, <2>2, <2>3
  <2>5. ASSUME NEW i \in 1..Len(t) PROVE v[i] = t[i]
    <3>1. v[i] = u[m + i - 1]
      BY <2>2, <2>3
    <3>2. /\ m + i - 1 \in 1..(Len(s) + Len(t)) /\ ~(m + i - 1 <= Len(s))
          /\ (m + i - 1) - Len(s) = i
      BY <1>1 DEF m
    <3> QED BY <1>1, <3>1, <3>2
  <2>6. v = t
    BY <2>2, <2>4, <2>5, SeqEqual
  <2> QED BY <2>6 DEF v, m, n
<1>4. SubSeq(u, 1, Len(s)) = s
  <2> DEFINE n == Len(s)
             v == SubSeq(u, 1, n)
  <2>1. 1 \in Int /\ n \in Int /\ \A i \in 1..n : u[i] \in S
    BY <1>1, <1>2
  <2> HIDE DEF n
  <2>2. /\ v \in Seq(S) /\ Len(v) = IF 1 <= n THEN n - 1 + 1 ELSE 0
        /\ \A i \in 1..(n - 1 + 1) : v[i] = u[1 + i - 1]
    BY <2>1, SubSeqProperties
  <2> HIDE DEF v
  <2>3. n \in Nat /\ n - 1 + 1 = n /\ \A i \in 1..n : 1 + i - 1 = i
    BY <1>1 DEF n
  <2>4. Len(v) = n
    BY <2>2, <2>3
  <2>5. ASSUME NEW i \in 1..n PROVE v[i] = s[i]
    <3>1. v[i] = u[i]
      BY <2>2, <2>3
    <3>2. i \in 1..(Len(s) + Len(t)) /\ i <= Len(s)
      BY <1>1 DEF n
    <3> QED BY <1>1, <3>1, <3>2
  <2>6. v = s
    BY <2>2, <2>4, <2>5, SeqEqual DEF n
  <2> QED BY <2>6 DEF v, n
<1> QED BY <1>3, <1>4 DEF u

\* Adding to the log adds to the queue; running the first function grabbed
\* runs the first of the queue.
LEMMA Ends ==
  ASSUME NEW S, NEW s \in Seq(S), NEW t \in Seq(S)
  PROVE  /\ \A x \in S : s \o Append(t, x) = Append(s \o t, x)
         /\ s # <<>> => /\ Head(s \o t) = Head(s) /\ Tail(s \o t) = Tail(s) \o t
                        /\ s \o t # <<>>
<1>1. \A x \in S : s \o Append(t, x) = Append(s \o t, x)
  OBVIOUS
<1>2. s # <<>> => /\ Head(s \o t) = Head(s) /\ Tail(s \o t) = Tail(s) \o t
                  /\ s \o t # <<>>
  OBVIOUS
<1> QED BY <1>1, <1>2

LEMMA RunRefines ==
  ASSUME ChannelInv, NEW s \in Sources, Run(s)
  PROVE  [Mail!MailNext]_(Mail!mailvars)
<1>1. UNCHANGED <<is_open, batch, ran>>
  BY DEF Run
<1>2. CASE is_open
  <2>1. /\ <<s, posts'[s]>> \in Functions
        /\ funclog' = Append(funclog, <<s, posts'[s]>>)
    BY <1>2, RunEffect DEF ChannelInv
  <2>2. batch \in Seq(Functions) /\ funclog \in Seq(Functions)
    BY DEF ChannelInv, ChannelTypeOK
  <2>3. Queue' = Append(Queue, <<s, posts'[s]>>)
    BY <1>1, <2>1, <2>2, Ends DEF Queue
  <2>4. Mail!Post(<<s, posts'[s]>>)
    BY <1>1, <1>2, <2>3 DEF Mail!Post, Queue
  <2> QED BY <2>1, <2>4 DEF Mail!MailNext
<1>3. CASE ~is_open
  BY <1>1, <1>3 DEF Run, Mail!mailvars
<1> QED BY <1>2, <1>3

LEMMA HandlerRefines ==
  ASSUME ChannelInv, Dispatch \/ Grab \/ Exec \/ ExecEnd \/ Return
  PROVE  [Mail!MailNext]_(Mail!mailvars)
<1>0. batch \in Seq(Functions) /\ funclog \in Seq(Functions)
  BY DEF ChannelInv, ChannelTypeOK
<1>1. CASE Dispatch \/ Return
  BY <1>1 DEF Dispatch, Return, Mail!mailvars
<1>2. CASE Grab
  <2>1. batch = <<>> /\ batch' = funclog /\ funclog' = <<>> /\ UNCHANGED <<is_open, ran>>
    BY <1>2 DEF Grab, ChannelInv, MainInv
  <2>2. <<>> \o funclog = funclog /\ funclog \o <<>> = funclog
    BY <1>0, ConcatEmptySeq
  <2>3. Queue' = Queue
    BY <2>1, <2>2 DEF Queue
  <2> QED BY <2>1, <2>3 DEF Queue, Mail!mailvars
<1>3. CASE Exec
  <2>1. /\ batch # <<>> /\ is_open /\ ran' = Append(ran, Head(batch)) /\ batch' = Tail(batch)
        /\ UNCHANGED <<is_open, funclog>>
    BY <1>3 DEF Exec
  <2>2. Queue # <<>> /\ Head(Queue) = Head(batch) /\ Queue' = Tail(Queue)
    BY <1>0, <2>1, Ends DEF Queue
  <2>3. Mail!RunFirst
    BY <2>1, <2>2 DEF Mail!RunFirst, Queue
  <2> QED BY <2>3 DEF Mail!MailNext
<1>4. CASE ExecEnd
  <2>1. batch = <<>> \/ ~is_open
    BY <1>4 DEF ExecEnd
  <2>2. batch' = <<>> /\ UNCHANGED <<is_open, funclog, ran>>
    BY <1>4 DEF ExecEnd
  <2>3. CASE batch = <<>>
    BY <2>2, <2>3 DEF Mail!mailvars
  <2>4. CASE ~is_open /\ batch # <<>>
    <3>1. Queue' = funclog
      BY <1>0, <2>2, ConcatEmptySeq DEF Queue
    <3>2. funclog = SubSeq(Queue, Len(batch) + 1, Len(Queue))
      BY <1>0, Halves DEF Queue
    <3>3. Len(batch) \in 1..Len(Queue)
      <4>1. /\ Len(batch) \in Nat \ {0} /\ Len(funclog) \in Nat
            /\ Len(Queue) = Len(batch) + Len(funclog)
        BY <1>0, <2>4, LenProperties, EmptySeq, ConcatProperties DEF Queue
      <4> QED BY <4>1
    <3>4. Mail!Discard
      BY <2>2, <2>4, <3>1, <3>2, <3>3 DEF Mail!Discard, Queue
    <3> QED BY <3>4 DEF Mail!MailNext
  <2> QED BY <2>1, <2>3, <2>4
<1> QED BY <1>1, <1>2, <1>3, <1>4

LEMMA CloseRefines ==
  ASSUME ChannelInv, CloseBegin \/ CloseReset \/ CloseClear
  PROVE  [Mail!MailNext]_(Mail!mailvars)
<1>0. batch \in Seq(Functions) /\ funclog \in Seq(Functions)
  BY DEF ChannelInv, ChannelTypeOK
<1>1. CASE CloseBegin
  <2>1. Mail!Close
    BY <1>1 DEF CloseBegin, Mail!Close
  <2> QED BY <2>1 DEF Mail!MailNext
<1>2. CASE CloseReset
  BY <1>2 DEF CloseReset, Mail!mailvars
<1>3. CASE CloseClear
  <2>1. ~is_open /\ funclog' = <<>> /\ UNCHANGED <<is_open, batch, ran>>
    BY <1>3 DEF CloseClear, ChannelInv, MainInv, Closing
  <2>2. CASE funclog = <<>>
    BY <2>1, <2>2 DEF Mail!mailvars
  <2>3. CASE funclog # <<>>
    <3>1. Queue' = batch
      BY <1>0, <2>1, ConcatEmptySeq DEF Queue
    <3>2. Len(batch) \in Nat /\ (Len(batch) + 1) - 1 = Len(batch)
      BY <1>0
    <3>3. batch = SubSeq(Queue, 1, (Len(batch) + 1) - 1)
      BY <1>0, <3>2, Halves DEF Queue
    <3>4. Len(batch) + 1 \in 1..Len(Queue)
      <4>1. /\ Len(funclog) \in Nat \ {0}
            /\ Len(Queue) = Len(batch) + Len(funclog)
        BY <1>0, <2>3, LenProperties, EmptySeq, ConcatProperties DEF Queue
      <4> QED BY <3>2, <4>1
    <3>5. Mail!Discard
      BY <2>1, <3>1, <3>3, <3>4 DEF Mail!Discard, Queue
    <3> QED BY <3>5 DEF Mail!MailNext
  <2> QED BY <2>2, <2>3
<1> QED BY <1>1, <1>2, <1>3

LEMMA ChannelRefines ==
  ASSUME ChannelInv, [ChannelNext]_channelVars
  PROVE  [Mail!MailNext]_(Mail!mailvars)
<1>1. ASSUME NEW s \in Sources, Run(s) PROVE [Mail!MailNext]_(Mail!mailvars)
  BY <1>1, RunRefines
<1>2. CASE Dispatch \/ Grab \/ Exec \/ ExecEnd \/ Return
  BY <1>2, HandlerRefines
<1>3. CASE CloseBegin \/ CloseReset \/ CloseClear
  BY <1>3, CloseRefines
<1>4. CASE UNCHANGED channelVars
  BY <1>4 DEF channelVars, Mail!mailvars
<1> QED BY <1>1, <1>2, <1>3, <1>4 DEF ChannelNext, MainNext

\* Whoever posts, and whenever the destination is closed, also by a function
\* that the channel runs: functions run once each and in the order of posting,
\* none after close(), and nothing is posted then.
THEOREM ChannelIsMailbox == ChannelSpec => ImplementsMailbox
<1>1. ChannelInit => Mail!MailInit
  BY ConcatEmptySeq, EmptySeq DEF ChannelInit, Mail!MailInit
<1>2. ChannelInv /\ [ChannelNext]_channelVars => [Mail!MailNext]_(Mail!mailvars)
  BY ChannelRefines
<1> QED BY <1>1, <1>2, ChannelInvariance, PTL DEF ChannelSpec, ImplementsMailbox, Mail!MailSpec
=============================================================================
