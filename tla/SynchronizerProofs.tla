------------------------- MODULE SynchronizerProofs -------------------------
(***************************************************************************)
(* Machine-checked proofs, for every set of render threads and every value *)
(* of the bounds, of the safety properties of Synchronizer, and that it    *)
(* implements RedrawProcess.                                               *)
(*                                                                         *)
(* The properties are not inductive one by one: that signalExit() finds no *)
(* slot left needs the count of the threads still drawing, that            *)
(* waitForExit() may sleep after process_slots() needs that no exit can be *)
(* posted while a batch is out, and so on.  Inv joins them.                *)
(***************************************************************************)
EXTENDS Synchronizer, FiniteSetTheorems, TLAPS

Out == SeqElems(slots) \cup SeqElems(grabbed)

\* Slots, batch and blocked callers agree.
SlotsInv ==
  /\ \A t \in Out : t \in Blocked /\ func[t]
  /\ SeqElems(slots) \cap SeqElems(grabbed) = {}
  /\ \A t \in Blocked : func[t] => t \in Out
  /\ \A t \in Threads : tpc[t] = "waiting" => func[t]

CountInv == numactive = Cardinality(Alive)

\* Where a redraw process is between its launch and the handling of its exit.
StageInv ==
  /\ \A t \in Threads : tpc[t] \in {"tiler", "last"} =>
       \A u \in Threads \ {t} : tpc[u] = "off"
  /\ exitposted => \A t \in Threads : tpc[t] = "off"
  /\ mpc = "emit" => ~exitposted /\ \A t \in Threads : tpc[t] = "off"
  /\ RedrawActiveIsExact

\* The main thread's place, the batch it holds, and what will wake it.
MainInv ==
  /\ mpc \in {"wait", "woken"} => main_blocked
  /\ mpc \in {"loop", "emit"} => ~main_blocked
  /\ mpc = "run" <=> grabbed # <<>>
  /\ main_blocked => redraw_active
  /\ NoLostWakeup

Inv == TypeOK /\ SlotsInv /\ CountInv /\ StageInv /\ MainInv

-----------------------------------------------------------------------------
(* Sequences and the set of their elements.                                *)

\* The empty sequence, and only it, has no element.
LEMMA ElemsEmpty ==
  ASSUME NEW S, NEW s \in Seq(S)
  PROVE  SeqElems(s) = {} <=> s = <<>>
<1>1. s # <<>> => s[1] \in SeqElems(s)
  BY DEF SeqElems
<1>2. s = <<>> => SeqElems(s) = {}
  BY DEF SeqElems
<1> QED BY <1>1, <1>2

\* The elements of a sequence over S are in S.
LEMMA ElemsType ==
  ASSUME NEW S, NEW s \in Seq(S)
  PROVE  SeqElems(s) \subseteq S
BY DEF SeqElems

\* Append adds one element.
LEMMA ElemsAppend ==
  ASSUME NEW S, NEW s \in Seq(S), NEW e \in S
  PROVE  SeqElems(Append(s, e)) = SeqElems(s) \cup {e}
<1> DEFINE a == Append(s, e)
<1>1. Len(a) = Len(s) + 1 /\ Len(s) \in Nat
  OBVIOUS
<1>2. \A i \in 1..Len(s) : a[i] = s[i]
  OBVIOUS
<1>3. a[Len(s) + 1] = e
  OBVIOUS
<1> HIDE DEF a
<1>4. SeqElems(a) = {a[i] : i \in 1..(Len(s) + 1)}
  BY <1>1 DEF SeqElems
<1>5. SeqElems(s) = {s[i] : i \in 1..Len(s)}
  BY DEF SeqElems
<1>6. \A i \in 1..(Len(s) + 1) : i \in 1..Len(s) \/ i = Len(s) + 1
  BY <1>1
<1>7. 1..Len(s) \subseteq 1..(Len(s) + 1) /\ Len(s) + 1 \in 1..(Len(s) + 1)
  BY <1>1
<1>8. \A x : x \in SeqElems(a) => x \in SeqElems(s) \cup {e}
  BY <1>2, <1>3, <1>4, <1>5, <1>6
<1>9. \A x : x \in SeqElems(s) \cup {e} => x \in SeqElems(a)
  BY <1>2, <1>3, <1>4, <1>5, <1>7
<1>10. SeqElems(a) = SeqElems(s) \cup {e}
  BY <1>8, <1>9
<1> QED BY <1>10 DEF a

-----------------------------------------------------------------------------
(* Type correctness.                                                       *)

\* The variables begin with their types.
LEMMA TypeInit == Init => TypeOK
<1> SUFFICES ASSUME Init PROVE TypeOK
  OBVIOUS
<1>1. slots \in Seq(Threads) /\ grabbed \in Seq(Threads)
  BY DEF Init
<1>2. calls \in [Threads -> 0..MaxCalls]
  BY BoundsAssumption DEF Init
<1>3. tpc \in [Threads -> ThreadStates] /\ func \in [Threads -> BOOLEAN]
  BY DEF Init, ThreadStates
<1> QED BY <1>1, <1>2, <1>3 DEF Init, TypeOK, MainStates

\* What Grab leaves in the variables it sets.
LEMMA GrabType ==
  TypeOK /\ Grab =>
    /\ slots' \in Seq(Threads) /\ grabbed' \in Seq(Threads)
    /\ next' \in Nat /\ mpc' \in MainStates
<1> SUFFICES ASSUME TypeOK, Grab
             PROVE  /\ slots' \in Seq(Threads) /\ grabbed' \in Seq(Threads)
                    /\ next' \in Nat /\ mpc' \in MainStates
  OBVIOUS
<1>1. slots' \in Seq(Threads)
  BY DEF Grab
<1>2. grabbed' \in Seq(Threads)
  BY DEF Grab, TypeOK
<1>3. next' \in Nat /\ mpc' \in MainStates
  BY DEF Grab, MainStates
<1> QED BY <1>1, <1>2, <1>3

\* One turn of waitForExit() keeps the types of the variables it sets.
LEMMA WaitTurnType ==
  TypeOK /\ WaitTurn =>
    /\ slots' \in Seq(Threads) /\ grabbed' \in Seq(Threads)
    /\ next' \in Nat /\ mpc' \in MainStates
    /\ {exitposted', main_blocked', redraw_active'} \subseteq BOOLEAN
BY GrabType DEF WaitTurn, TypeOK, MainStates

\* Every step keeps the types; that numactive stays a natural number is where
\* it needs the count.
LEMMA TypeStep == TypeOK /\ CountInv /\ [Next]_vars => TypeOK'
<1> SUFFICES ASSUME TypeOK, CountInv, [Next]_vars PROVE TypeOK'
  OBVIOUS
<1> USE BoundsAssumption DEF TypeOK, MainStates, ThreadStates, syncvars,
        mainvars, threadvars
<1>1. ASSUME NEW t \in Threads, TilerStart(t) PROVE TypeOK'
  BY <1>1, ThreadsAssumption, FS_CardinalityType DEF TilerStart
<1>2. ASSUME NEW t \in Threads, TilerSkip(t) PROVE TypeOK'
  BY <1>2 DEF TilerSkip
<1>3. ASSUME NEW t \in Threads, RunInMain(t) PROVE TypeOK'
  <2>1. mpc' \in MainStates /\ pending' \in Nat
    BY <1>3 DEF RunInMain, Awaken
  <2>2. calls[t] - 1 \in 0..MaxCalls
    BY <1>3 DEF RunInMain
  <2> QED BY <1>3, <2>1, <2>2 DEF RunInMain
<1>4. ASSUME NEW t \in Threads, SlotWake(t) PROVE TypeOK'
  BY <1>4 DEF SlotWake
<1>5. ASSUME NEW t \in Threads, SpuriousSlotWake(t) PROVE TypeOK'
  BY <1>5 DEF SpuriousSlotWake
<1>6. ASSUME NEW t \in Threads, RenderDone(t) PROVE TypeOK'
  <2>1. IsFiniteSet(Alive)
    BY ThreadsAssumption, FS_Subset DEF Alive
  <2>2. t \in Alive
    BY <1>6 DEF RenderDone, Alive
  <2>3. numactive - 1 \in Nat
    BY <2>1, <2>2, FS_EmptySet, FS_CardinalityType DEF CountInv
  <2> QED BY <1>6, <2>3 DEF RenderDone
<1>7. ASSUME NEW t \in Threads, SignalExit(t) PROVE TypeOK'
  <2>1. mpc' \in MainStates /\ pending' \in Nat
    BY <1>7 DEF SignalExit, Awaken
  <2> QED BY <1>7, <2>1 DEF SignalExit
<1>8. CASE MainWake
  BY <1>8, WaitTurnType DEF MainWake
<1>9. CASE OnDispatcher
  <2>1. CASE slots # <<>> /\ Grab /\ UNCHANGED exitposted
    BY <1>9, <2>1, GrabType DEF OnDispatcher
  <2>2. CASE slots = <<>> /\ UNCHANGED <<slots, grabbed, next>>
    <3>1. mpc' \in MainStates /\ exitposted' \in BOOLEAN
      BY <1>9, <2>2 DEF OnDispatcher
    <3>2. pending' \in Nat
      BY <1>9 DEF OnDispatcher
    <3> QED BY <1>9, <2>2, <3>1, <3>2 DEF OnDispatcher
  <2> QED BY <1>9, <2>1, <2>2 DEF OnDispatcher
<1>10. CASE RunFunc
  BY <1>10 DEF RunFunc
<1>11. CASE AnswerBatch
  <2>1. func' \in [Threads -> BOOLEAN] /\ tpc' \in [Threads -> ThreadStates]
    BY <1>11 DEF AnswerBatch
  <2> QED BY <1>11, <2>1, GrabType DEF AnswerBatch
<1>12. CASE EmitExit
  BY <1>12 DEF EmitExit, Launch
<1>13. CASE StartRedraw
  BY <1>13 DEF StartRedraw, Launch
<1>14. CASE WaitForExit
  BY <1>14, WaitTurnType DEF WaitForExit
<1>15. CASE SpuriousMainWake
  BY <1>15 DEF SpuriousMainWake
<1>16. CASE UNCHANGED vars
  BY <1>16 DEF vars
<1> QED
  BY <1>1, <1>2, <1>3, <1>4, <1>5, <1>6, <1>7, <1>8, <1>9, <1>10, <1>11,
     <1>12, <1>13, <1>14, <1>15, <1>16 DEF Next, ThreadStep, MainStep

-----------------------------------------------------------------------------
(* numactive counts the threads that are still drawing.                    *)

\* There are finitely many threads that draw.
LEMMA AliveFinite == IsFiniteSet(Alive)
BY ThreadsAssumption, FS_Subset DEF Alive

\* Every step counts the threads that start and end.
LEMMA CountStep == Inv /\ [Next]_vars => CountInv'
<1> SUFFICES ASSUME Inv, [Next]_vars PROVE CountInv'
  OBVIOUS
<1> USE DEF Inv
<1>0. (Alive' = Alive /\ UNCHANGED numactive) => CountInv'
  BY DEF CountInv
<1>1. ASSUME NEW t \in Threads, TilerStart(t) PROVE CountInv'
  <2>1. Alive' = Threads
    BY <1>1 DEF TilerStart, Alive
  <2> QED BY <1>1, <2>1 DEF TilerStart, CountInv
<1>2. ASSUME NEW t \in Threads, RenderDone(t) PROVE CountInv'
  <2>1. t \in Alive
    BY <1>2 DEF RenderDone, Alive
  <2>2. Alive' = Alive \ {t}
    BY <1>2 DEF RenderDone, Alive, TypeOK, ThreadStates
  <2>3. Cardinality(Alive \ {t}) = Cardinality(Alive) - 1
    BY <2>1, AliveFinite, FS_RemoveElement
  <2> QED BY <1>2, <2>2, <2>3 DEF RenderDone, CountInv
<1>3. ASSUME NEW t \in Threads,
             \/ TilerSkip(t) \/ RunInMain(t) \/ SlotWake(t)
             \/ SpuriousSlotWake(t) \/ SignalExit(t)
      PROVE  CountInv'
  <2>1. Alive' = Alive
    BY <1>3 DEF TilerSkip, RunInMain, SlotWake, SpuriousSlotWake, SignalExit,
                Alive, TypeOK
  <2>2. UNCHANGED numactive
    BY <1>3 DEF TilerSkip, RunInMain, SlotWake, SpuriousSlotWake, SignalExit
  <2> QED BY <1>0, <2>1, <2>2
<1>4. CASE AnswerBatch
  <2>1. Alive' = Alive
    BY <1>4 DEF AnswerBatch, Alive, TypeOK
  <2> QED BY <1>0, <1>4, <2>1 DEF AnswerBatch
<1>5. CASE EmitExit \/ StartRedraw
  <2>1. Alive' = Alive
    <3>1. \A t \in Threads : tpc[t] = "off"
      BY <1>5 DEF EmitExit, StartRedraw, StageInv, RedrawActiveIsExact
    <3>2. \A t \in Threads : tpc'[t] \in {"off", "tiler"}
      BY <1>5, <3>1 DEF EmitExit, StartRedraw, Launch, TypeOK
    <3> QED BY <3>1, <3>2 DEF Alive
  <2> QED BY <1>0, <1>5, <2>1 DEF EmitExit, StartRedraw
<1>6. CASE \/ MainWake \/ OnDispatcher \/ RunFunc \/ WaitForExit
           \/ SpuriousMainWake \/ UNCHANGED vars
  <2>1. UNCHANGED <<tpc, numactive>>
    BY <1>6 DEF MainWake, OnDispatcher, RunFunc, WaitForExit,
                SpuriousMainWake, vars, threadvars
  <2> QED BY <1>0, <2>1 DEF Alive
<1> QED
  BY <1>1, <1>2, <1>3, <1>4, <1>5, <1>6 DEF Next, ThreadStep, MainStep

-----------------------------------------------------------------------------
(* Slots, batch and callers.                                               *)

\* With a thread about to run init_tiler() or signalExit(), with an exit
\* posted, or with no process, nothing is out.
LEMMA NothingOut ==
  ASSUME TypeOK, SlotsInv, Blocked = {}
  PROVE  Out = {} /\ slots = <<>> /\ grabbed = <<>>
<1>1. SeqElems(slots) = {} /\ SeqElems(grabbed) = {}
  BY DEF SlotsInv, Out
<1> QED BY <1>1, ElemsEmpty DEF TypeOK, Out

\* Taking the batch moves the slots into grabbed; nothing is out but the slots.
LEMMA GrabOut ==
  ASSUME TypeOK, Grab
  PROVE  /\ SeqElems(slots') = {}
         /\ SeqElems(grabbed') = SeqElems(slots)
         /\ Out' = SeqElems(slots)
BY DEF Grab, SeqElems, Out

\* Every step keeps slots, batch and blocked callers in agreement.
LEMMA SlotsStep == Inv /\ [Next]_vars => SlotsInv'
<1> SUFFICES ASSUME Inv, [Next]_vars PROVE SlotsInv'
  OBVIOUS
<1> USE DEF Inv
<1>a. mpc # "run" => SeqElems(grabbed) = {}
  BY ElemsEmpty DEF MainInv, TypeOK
<1>b. ASSUME Out' = Out, SeqElems(slots)' \cap SeqElems(grabbed)' = {},
             UNCHANGED <<tpc, func>>
      PROVE  SlotsInv'
  BY <1>b DEF SlotsInv, Blocked
<1>c. ASSUME UNCHANGED <<slots, grabbed, func>>, Blocked' = Blocked,
             \A t \in Threads : tpc'[t] = "waiting" => func[t]
      PROVE  SlotsInv'
  BY <1>c DEF SlotsInv, Out
<1>d. ASSUME NEW t \in Threads, tpc[t] \in {"tiler", "last"}
      PROVE  Blocked = {}
  BY <1>d DEF StageInv, Blocked
<1>1. ASSUME NEW t \in Threads, TilerStart(t) PROVE SlotsInv'
  <2>1. Blocked = {} /\ Blocked' = {}
    BY <1>1, <1>d DEF TilerStart, Blocked
  <2>2. \A u \in Threads : tpc'[u] # "waiting"
    BY <1>1 DEF TilerStart
  <2> QED BY <1>1, <1>c, <2>1, <2>2 DEF TilerStart, syncvars, mainvars
<1>2. ASSUME NEW t \in Threads, TilerSkip(t) \/ RenderDone(t) \/ SignalExit(t)
      PROVE  SlotsInv'
  <2>1. Blocked' = Blocked
    BY <1>2 DEF TilerSkip, RenderDone, SignalExit, Blocked, TypeOK
  <2>2. \A u \in Threads : tpc'[u] = "waiting" => tpc[u] = "waiting"
    BY <1>2 DEF TilerSkip, RenderDone, SignalExit, TypeOK
  <2>3. UNCHANGED <<slots, grabbed, func>>
    BY <1>2 DEF TilerSkip, RenderDone, SignalExit, syncvars, mainvars
  <2> QED BY <1>c, <2>1, <2>2, <2>3 DEF SlotsInv
<1>3. ASSUME NEW t \in Threads, RunInMain(t) PROVE SlotsInv'
  <2>1. SeqElems(slots') = SeqElems(slots) \cup {t}
    BY <1>3, ElemsAppend DEF RunInMain, TypeOK
  <2>2. t \notin Blocked
    BY <1>3 DEF RunInMain, Blocked
  <2>3. t \notin Out
    BY <2>2 DEF SlotsInv
  <2>4. Out' = Out \cup {t}
    BY <1>3, <2>1 DEF RunInMain, Out
  <2>5. Blocked' = Blocked \cup {t}
    BY <1>3 DEF RunInMain, Blocked, TypeOK
  <2>6. func'[t] /\ \A u \in Threads \ {t} : func'[u] = func[u]
    BY <1>3 DEF RunInMain, TypeOK
  <2>7. \A u \in Threads \ {t} : tpc'[u] = tpc[u]
    BY <1>3 DEF RunInMain, TypeOK
  <2>8. SeqElems(slots') \cap SeqElems(grabbed') = {}
    BY <1>3, <2>1, <2>3 DEF RunInMain, SlotsInv, Out
  <2>9. Blocked \subseteq Threads
    BY DEF Blocked
  <2>10. \A u \in Out' : u \in Blocked' /\ func'[u]
    BY <2>3, <2>4, <2>5, <2>6, <2>9 DEF SlotsInv
  <2>11. \A u \in Blocked' : func'[u] => u \in Out'
    BY <2>4, <2>5, <2>6, <2>9 DEF SlotsInv
  <2>12. \A u \in Threads : tpc'[u] = "waiting" => func'[u]
    BY <2>6, <2>7 DEF SlotsInv
  <2> QED BY <2>8, <2>10, <2>11, <2>12 DEF SlotsInv
<1>4. ASSUME NEW t \in Threads, SlotWake(t) PROVE SlotsInv'
  <2>1. UNCHANGED <<slots, grabbed, func>>
    BY <1>4 DEF SlotWake, syncvars, mainvars
  <2>2. Out' = Out
    BY <2>1 DEF Out
  <2>3. tpc'[t] = (IF func[t] THEN "waiting" ELSE "running")
        /\ \A u \in Threads \ {t} : tpc'[u] = tpc[u]
    BY <1>4 DEF SlotWake, TypeOK
  <2>4. \A u \in Threads : func[u] => (u \in Blocked' <=> u \in Blocked)
    BY <1>4, <2>3 DEF SlotWake, Blocked
  <2>5. Blocked' \subseteq Blocked
    BY <1>4, <2>3 DEF SlotWake, Blocked
  <2>6. \A u \in Threads : tpc'[u] = "waiting" => func[u]
    BY <2>3 DEF SlotsInv
  <2>7. Out \subseteq Threads
    BY DEF SlotsInv, Blocked
  <2>8. \A u \in Out' : u \in Blocked' /\ func'[u]
    BY <2>1, <2>2, <2>4, <2>7 DEF SlotsInv
  <2>9. \A u \in Blocked' : func'[u] => u \in Out'
    BY <2>1, <2>2, <2>5 DEF SlotsInv
  <2>10. SeqElems(slots') \cap SeqElems(grabbed') = {}
    BY <2>1 DEF SlotsInv
  <2> QED BY <2>1, <2>6, <2>8, <2>9, <2>10 DEF SlotsInv
<1>5. ASSUME NEW t \in Threads, SpuriousSlotWake(t) PROVE SlotsInv'
  <2>1. Blocked' = Blocked
    BY <1>5 DEF SpuriousSlotWake, Blocked, TypeOK
  <2>2. \A u \in Threads : tpc'[u] = "waiting" => tpc[u] = "waiting"
    BY <1>5 DEF SpuriousSlotWake, TypeOK
  <2> QED BY <1>5, <1>c, <2>1, <2>2 DEF SpuriousSlotWake, syncvars, mainvars,
                                      SlotsInv
<1>6. ASSUME mpc # "run", UNCHANGED <<tpc, func>>,
             Grab \/ UNCHANGED <<slots, grabbed>>
      PROVE  SlotsInv'
  <2>1. CASE Grab
    <3>1. Out = SeqElems(slots)
      BY <1>6, <1>a DEF Out
    <3>2. Out' = Out /\ SeqElems(slots)' = {}
      BY <2>1, <3>1, GrabOut
    <3> QED BY <1>6, <1>b, <3>2
  <2>2. CASE UNCHANGED <<slots, grabbed>>
    BY <1>6, <1>b, <2>2 DEF Out, SlotsInv
  <2> QED BY <1>6, <2>1, <2>2
<1>7. CASE MainWake \/ WaitForExit
  <2>1. mpc # "run" /\ UNCHANGED <<tpc, func>>
    BY <1>7 DEF MainWake, WaitForExit, threadvars
  <2>2. Grab \/ UNCHANGED <<slots, grabbed>>
    BY <1>7 DEF MainWake, WaitForExit, WaitTurn
  <2> QED BY <1>6, <2>1, <2>2
<1>8. CASE OnDispatcher
  <2>1. mpc # "run" /\ UNCHANGED <<tpc, func>>
    BY <1>8 DEF OnDispatcher, threadvars
  <2>2. Grab \/ UNCHANGED <<slots, grabbed>>
    BY <1>8 DEF OnDispatcher
  <2> QED BY <1>6, <2>1, <2>2
<1>9. CASE RunFunc \/ SpuriousMainWake \/ UNCHANGED vars
  <2>1. UNCHANGED <<slots, grabbed, tpc, func>>
    BY <1>9 DEF RunFunc, SpuriousMainWake, vars, syncvars, mainvars, threadvars
  <2> QED BY <1>c, <2>1 DEF Blocked, SlotsInv
<1>10. CASE AnswerBatch
  <2>1. \A t \in Threads : func'[t] <=> func[t] /\ t \notin SeqElems(grabbed)
    BY <1>10 DEF AnswerBatch
  <2>2. Blocked' = Blocked
    BY <1>10 DEF AnswerBatch, Blocked, TypeOK
  <2>3. \A t \in Threads : tpc'[t] # "waiting"
    BY <1>10 DEF AnswerBatch, TypeOK
  <2>4. Out' = SeqElems(slots)
    <3>1. CASE Grab
      BY <3>1, GrabOut
    <3>2. CASE slots = <<>> /\ grabbed' = <<>> /\ UNCHANGED slots
      BY <3>2 DEF Out, SeqElems
    <3> QED BY <1>10, <3>1, <3>2 DEF AnswerBatch
  <2>5. SeqElems(slots') \cap SeqElems(grabbed') = {}
    <3>1. CASE Grab
      BY <3>1, GrabOut
    <3>2. CASE grabbed' = <<>>
      BY <3>2 DEF SeqElems
    <3> QED BY <1>10, <3>1, <3>2 DEF AnswerBatch
  <2>6. Blocked \subseteq Threads /\ SeqElems(slots) \subseteq Threads
    BY ElemsType DEF Blocked, TypeOK
  <2>7. \A t \in Out' : t \in Blocked' /\ func'[t]
    BY <2>1, <2>2, <2>4, <2>6 DEF SlotsInv, Out
  <2>8. \A t \in Blocked' : func'[t] => t \in Out'
    BY <2>1, <2>2, <2>4, <2>6 DEF SlotsInv, Out
  <2> QED BY <2>3, <2>5, <2>7, <2>8 DEF SlotsInv
<1>11. CASE EmitExit \/ StartRedraw
  <2>1. \A t \in Threads : tpc[t] = "off"
    BY <1>11 DEF EmitExit, StartRedraw, StageInv, RedrawActiveIsExact
  <2>2. \A t \in Threads : tpc'[t] \in {"off", "tiler"}
    BY <1>11, <2>1 DEF EmitExit, StartRedraw, Launch, TypeOK
  <2>3. Blocked' = Blocked
    BY <2>1, <2>2 DEF Blocked
  <2>4. UNCHANGED <<slots, grabbed, func>>
    BY <1>11 DEF EmitExit, StartRedraw, syncvars
  <2> QED BY <1>c, <2>2, <2>3, <2>4
<1> QED
  BY <1>1, <1>2, <1>3, <1>4, <1>5, <1>7, <1>8, <1>9, <1>10, <1>11
     DEF Next, ThreadStep, MainStep

-----------------------------------------------------------------------------
(* The stages of a redraw process.                                         *)

\* Every step keeps to the order of the stages.
LEMMA StageStep == Inv /\ [Next]_vars => StageInv'
<1> SUFFICES ASSUME Inv, [Next]_vars PROVE StageInv'
  OBVIOUS
<1> USE DEF Inv
<1>a. ASSUME NEW t \in Threads, tpc[t] # "off"
      PROVE  ~exitposted /\ mpc # "emit" /\ redraw_active
  BY <1>a DEF StageInv, RedrawActiveIsExact
<1>b. ASSUME UNCHANGED <<exitposted, redraw_active>>,
             mpc' = "emit" <=> mpc = "emit",
             \A u \in Threads : tpc'[u] = "off" <=> tpc[u] = "off",
             \A u \in Threads :
               tpc'[u] \in {"tiler", "last"} <=> tpc[u] \in {"tiler", "last"}
      PROVE  StageInv'
  BY <1>b DEF StageInv, RedrawActiveIsExact
<1>1. ASSUME NEW t \in Threads, TilerStart(t) PROVE StageInv'
  <2>1. UNCHANGED <<exitposted, redraw_active, mpc>>
    BY <1>1 DEF TilerStart, syncvars, mainvars
  <2>2. \A u \in Threads : tpc'[u] = "running"
    BY <1>1 DEF TilerStart
  <2>3. ~exitposted /\ mpc # "emit" /\ redraw_active
    BY <1>1, <1>a DEF TilerStart
  <2> QED BY <2>1, <2>2, <2>3 DEF StageInv, RedrawActiveIsExact
<1>2. ASSUME NEW t \in Threads, TilerSkip(t) PROVE StageInv'
  <2>1. UNCHANGED <<exitposted, redraw_active, mpc>>
    BY <1>2 DEF TilerSkip, syncvars, mainvars
  <2>2. tpc[t] = "tiler" /\ tpc'[t] = "last"
        /\ \A u \in Threads \ {t} : tpc'[u] = tpc[u]
    BY <1>2 DEF TilerSkip, TypeOK
  <2> QED BY <1>b, <2>1, <2>2
<1>3. ASSUME NEW t \in Threads, RunInMain(t) PROVE StageInv'
  <2>1. UNCHANGED <<exitposted, redraw_active>>
    BY <1>3 DEF RunInMain
  <2>2. tpc[t] = "running" /\ tpc'[t] = "waiting"
        /\ \A u \in Threads \ {t} : tpc'[u] = tpc[u]
    BY <1>3 DEF RunInMain, TypeOK
  <2>3. mpc' = "emit" <=> mpc = "emit"
    BY <1>3 DEF RunInMain, Awaken
  <2> QED BY <1>b, <2>1, <2>2, <2>3
<1>4. ASSUME NEW t \in Threads, SlotWake(t) \/ SpuriousSlotWake(t)
      PROVE  StageInv'
  <2>1. UNCHANGED <<exitposted, redraw_active, mpc>>
    BY <1>4 DEF SlotWake, SpuriousSlotWake, syncvars, mainvars
  <2>2. /\ tpc[t] \in {"waiting", "notified"}
        /\ tpc'[t] \in {"waiting", "notified", "running"}
        /\ \A u \in Threads \ {t} : tpc'[u] = tpc[u]
    BY <1>4 DEF SlotWake, SpuriousSlotWake, TypeOK
  <2> QED BY <1>b, <2>1, <2>2
<1>5. ASSUME NEW t \in Threads, RenderDone(t) PROVE StageInv'
  <2>1. UNCHANGED <<exitposted, redraw_active, mpc>>
    BY <1>5 DEF RenderDone, syncvars, mainvars
  <2>2. ~exitposted /\ mpc # "emit" /\ redraw_active
    BY <1>5, <1>a DEF RenderDone
  <2>3. t \in Alive /\ tpc[t] = "running"
    BY <1>5 DEF RenderDone, Alive
  <2>4. \A u \in Threads : tpc[u] \notin {"tiler", "last"}
    BY <2>3 DEF StageInv
  <2>5. /\ tpc'[t] = (IF numactive' = 0 THEN "last" ELSE "off")
        /\ \A u \in Threads \ {t} : tpc'[u] = tpc[u]
    BY <1>5 DEF RenderDone, TypeOK
  <2>6. Cardinality(Alive \ {t}) = numactive'
    BY <1>5, <2>3, AliveFinite, FS_RemoveElement DEF RenderDone, CountInv
  <2>7. IsFiniteSet(Alive \ {t})
    BY AliveFinite, FS_RemoveElement
  <2>8. numactive' = 0 <=> Alive \ {t} = {}
    BY <2>6, <2>7, FS_EmptySet
  <2>9. CASE Alive \ {t} = {}
    <3>1. tpc'[t] = "last"
      BY <2>5, <2>8, <2>9
    <3>2. \A u \in Threads \ {t} : tpc'[u] = "off"
      BY <2>4, <2>5, <2>9 DEF Alive, TypeOK, ThreadStates
    <3> QED BY <2>1, <2>2, <3>1, <3>2 DEF StageInv, RedrawActiveIsExact
  <2>10. CASE Alive \ {t} # {}
    <3>1. tpc'[t] = "off"
      BY <2>5, <2>8, <2>10
    <3>2. \A u \in Threads : tpc'[u] \notin {"tiler", "last"}
      BY <2>4, <2>5, <3>1
    <3>3. PICK u \in Threads \ {t} : tpc[u] \in {"running", "waiting", "notified"}
      BY <2>10 DEF Alive
    <3>4. tpc'[u] # "off"
      BY <2>5, <3>3
    <3> QED BY <2>1, <2>2, <3>2, <3>4 DEF StageInv, RedrawActiveIsExact
  <2> QED BY <2>9, <2>10
<1>6. ASSUME NEW t \in Threads, SignalExit(t) PROVE StageInv'
  <2>1. UNCHANGED redraw_active /\ exitposted'
    BY <1>6 DEF SignalExit
  <2>2. mpc # "emit" /\ redraw_active
    BY <1>6, <1>a DEF SignalExit
  <2>3. mpc' # "emit"
    BY <1>6, <2>2 DEF SignalExit, Awaken
  <2>4. \A u \in Threads : tpc'[u] = "off"
    BY <1>6 DEF SignalExit, StageInv, TypeOK
  <2> QED BY <2>1, <2>2, <2>3, <2>4 DEF StageInv, RedrawActiveIsExact
<1>7. ASSUME WaitTurn, UNCHANGED tpc, mpc # "emit", redraw_active
      PROVE  StageInv'
  <2>1. CASE exitposted /\ exitposted' = FALSE /\ mpc' = "loop" /\ ~redraw_active'
    BY <1>7, <2>1 DEF StageInv, RedrawActiveIsExact
  <2>2. CASE UNCHANGED <<exitposted, redraw_active>> /\ mpc' # "emit"
    BY <1>7, <2>2 DEF StageInv, RedrawActiveIsExact
  <2> QED BY <1>7, <2>1, <2>2 DEF WaitTurn, Grab
<1>8. CASE WaitForExit
  BY <1>7, <1>8 DEF WaitForExit, threadvars
<1>9. CASE MainWake
  <2>1. redraw_active /\ mpc = "woken"
    BY <1>9 DEF MainWake, MainInv
  <2> QED BY <1>7, <1>9, <2>1 DEF MainWake, threadvars
<1>10. CASE OnDispatcher
  <2>1. UNCHANGED <<tpc, redraw_active>> /\ mpc = "loop"
    BY <1>10 DEF OnDispatcher, threadvars
  <2>2. CASE exitposted /\ exitposted' = FALSE /\ mpc' = "emit"
    BY <2>1, <2>2 DEF StageInv, RedrawActiveIsExact
  <2>3. CASE UNCHANGED exitposted /\ mpc' # "emit"
    BY <2>1, <2>3 DEF StageInv, RedrawActiveIsExact
  <2> QED BY <1>10, <2>1, <2>2, <2>3 DEF OnDispatcher, Grab
<1>11. CASE RunFunc \/ SpuriousMainWake \/ UNCHANGED vars
  <2>1. UNCHANGED <<exitposted, redraw_active, tpc>>
    BY <1>11 DEF RunFunc, SpuriousMainWake, vars, syncvars, mainvars, threadvars
  <2>2. mpc' = "emit" <=> mpc = "emit"
    BY <1>11 DEF RunFunc, SpuriousMainWake, vars, mainvars
  <2> QED BY <1>b, <2>1, <2>2
<1>12. CASE AnswerBatch
  <2>1. UNCHANGED <<exitposted, redraw_active>>
    BY <1>12 DEF AnswerBatch
  <2>2. mpc # "emit" /\ mpc' # "emit"
    BY <1>12 DEF AnswerBatch, Grab
  <2>3. \A t \in Threads :
          tpc'[t] = IF tpc[t] = "waiting" THEN "notified" ELSE tpc[t]
    BY <1>12 DEF AnswerBatch
  <2> QED BY <1>b, <2>1, <2>2, <2>3
<1>13. CASE EmitExit \/ StartRedraw
  <2>1. /\ ~exitposted
        /\ \A t \in Threads : tpc[t] = "off"
    BY <1>13 DEF EmitExit, StartRedraw, StageInv, RedrawActiveIsExact
  <2>2. UNCHANGED exitposted /\ mpc' = "loop"
    BY <1>13 DEF EmitExit, StartRedraw, syncvars
  <2>3. CASE Launch
    <3>1. PICK t \in Threads : tpc' = [tpc EXCEPT ![t] = "tiler"]
      BY <2>3 DEF Launch
    <3>2. tpc'[t] = "tiler" /\ \A u \in Threads \ {t} : tpc'[u] = "off"
      BY <2>1, <3>1 DEF TypeOK
    <3>3. redraw_active'
      BY <2>3 DEF Launch
    <3> QED BY <2>1, <2>2, <3>2, <3>3 DEF StageInv, RedrawActiveIsExact
  <2>4. CASE UNCHANGED tpc /\ redraw_active' = FALSE
    BY <2>1, <2>2, <2>4 DEF StageInv, RedrawActiveIsExact
  <2> QED BY <1>13, <2>3, <2>4 DEF EmitExit, StartRedraw
<1> QED
  BY <1>1, <1>2, <1>3, <1>4, <1>5, <1>6, <1>8, <1>9, <1>10, <1>11, <1>12,
     <1>13 DEF Next, ThreadStep, MainStep

-----------------------------------------------------------------------------
(* What wakes the main thread.                                             *)

\* Every step keeps the main thread's place and what will wake it.
LEMMA MainInvStep == Inv /\ [Next]_vars => MainInv'
<1> SUFFICES ASSUME Inv, [Next]_vars PROVE MainInv'
  OBVIOUS
<1> USE DEF Inv
<1>a. ASSUME UNCHANGED <<exitposted, main_blocked, slots, pending, mpc, grabbed>>,
             redraw_active => redraw_active'
      PROVE  MainInv'
  BY <1>a DEF MainInv, NoLostWakeup
<1>b. ASSUME Awaken, UNCHANGED <<main_blocked, grabbed, redraw_active>>,
             mpc # "emit"
      PROVE  MainInv'
  <2>1. mpc' \in MainStates /\ (mpc' = mpc \/ (mpc = "wait" /\ mpc' = "woken"))
    BY <1>b DEF Awaken, TypeOK, MainStates
  <2>2. mpc' # "wait" /\ (mpc' = "loop" => pending' > 0)
    BY <1>b DEF Awaken, MainInv, NoLostWakeup, TypeOK
  <2> QED BY <1>b, <2>1, <2>2 DEF MainInv, NoLostWakeup
<1>c. mpc = "run" => ~exitposted
  <2> SUFFICES ASSUME mpc = "run" PROVE ~exitposted
    OBVIOUS
  <2>1. SeqElems(grabbed) # {}
    BY ElemsEmpty DEF MainInv, TypeOK
  <2>2. PICK t \in SeqElems(grabbed) : TRUE
    BY <2>1
  <2>3. t \in Blocked
    BY <2>2 DEF SlotsInv, Out
  <2> QED BY <2>3 DEF StageInv, Blocked
<1>1. ASSUME NEW t \in Threads,
             \/ TilerStart(t) \/ TilerSkip(t) \/ SlotWake(t)
             \/ SpuriousSlotWake(t) \/ RenderDone(t)
      PROVE  MainInv'
  BY <1>1, <1>a DEF TilerStart, TilerSkip, SlotWake, SpuriousSlotWake,
                    RenderDone, syncvars, mainvars
<1>2. ASSUME NEW t \in Threads, RunInMain(t) \/ SignalExit(t) PROVE MainInv'
  <2>1. tpc[t] # "off"
    BY <1>2 DEF RunInMain, SignalExit
  <2>2. mpc # "emit"
    BY <2>1 DEF StageInv
  <2> QED BY <1>2, <1>b, <2>2 DEF RunInMain, SignalExit
<1>3. ASSUME WaitTurn, mpc # "run", redraw_active PROVE MainInv'
  <2>1. CASE slots # <<>> /\ main_blocked' /\ Grab /\ UNCHANGED redraw_active
    BY <1>3, <2>1 DEF Grab, MainInv, NoLostWakeup
  <2>2. CASE /\ slots = <<>> /\ UNCHANGED <<slots, grabbed>> /\ ~exitposted'
             /\ ~main_blocked' /\ mpc' = "loop"
    BY <1>3, <2>2 DEF MainInv, NoLostWakeup
  <2>3. CASE /\ slots = <<>> /\ UNCHANGED <<slots, grabbed, redraw_active>>
             /\ ~exitposted' /\ main_blocked' /\ mpc' = "wait"
    BY <1>3, <2>3 DEF MainInv, NoLostWakeup
  <2>4. CASE slots # <<>> /\ main_blocked' = TRUE /\ Grab
             /\ UNCHANGED <<exitposted, redraw_active>>
    BY <2>1, <2>4
  <2>5. CASE /\ slots = <<>> /\ exitposted' = FALSE /\ main_blocked' = FALSE
             /\ mpc' = "loop" /\ UNCHANGED <<slots, grabbed, next>>
    BY <2>2, <2>5
  <2>6. CASE /\ slots = <<>> /\ ~exitposted /\ main_blocked' = TRUE
             /\ mpc' = "wait"
             /\ UNCHANGED <<exitposted, slots, grabbed, next, redraw_active>>
    BY <2>3, <2>6
  <2> QED BY <1>3, <2>4, <2>5, <2>6 DEF WaitTurn
<1>4. CASE WaitForExit \/ MainWake
  <2>1. mpc # "run" /\ redraw_active
    BY <1>4 DEF WaitForExit, MainWake, MainInv
  <2> QED BY <1>3, <1>4, <2>1 DEF WaitForExit, MainWake
<1>5. CASE OnDispatcher
  <2>1. mpc = "loop" /\ ~main_blocked /\ UNCHANGED main_blocked
    BY <1>5 DEF OnDispatcher, MainInv
  <2>2. CASE slots # <<>> /\ Grab
    BY <2>1, <2>2 DEF Grab, MainInv, NoLostWakeup
  <2>3. CASE /\ slots = <<>> /\ UNCHANGED <<slots, grabbed>>
             /\ ~exitposted' /\ mpc' \in {"emit", "loop"}
    BY <2>1, <2>3 DEF MainInv, NoLostWakeup
  <2> QED BY <1>5, <2>1, <2>2, <2>3 DEF OnDispatcher
<1>6. CASE AnswerBatch
  <2>1. CASE slots # <<>> /\ Grab
    BY <1>6, <2>1 DEF AnswerBatch, Grab, MainInv, NoLostWakeup
  <2>2. CASE /\ slots = <<>> /\ grabbed' = <<>> /\ UNCHANGED slots
             /\ mpc' = IF main_blocked THEN "wait" ELSE "loop"
    BY <1>6, <1>c, <2>2 DEF AnswerBatch, MainInv, NoLostWakeup
  <2> QED BY <1>6, <2>1, <2>2 DEF AnswerBatch
<1>7. CASE EmitExit
  <2>1. \A t \in Threads : tpc[t] = "off"
    BY <1>7 DEF EmitExit, StageInv
  <2>2. slots = <<>> /\ grabbed = <<>>
    BY <2>1, NothingOut DEF Blocked
  <2> QED BY <1>7, <2>2 DEF EmitExit, syncvars, StageInv, MainInv, NoLostWakeup
<1>8. CASE StartRedraw \/ RunFunc \/ UNCHANGED vars
  BY <1>8, <1>a DEF StartRedraw, RunFunc, vars, syncvars, mainvars
<1>9. CASE SpuriousMainWake
  BY <1>9 DEF SpuriousMainWake, syncvars, MainInv, NoLostWakeup
<1> QED
  BY <1>1, <1>2, <1>4, <1>5, <1>6, <1>7, <1>8, <1>9
     DEF Next, ThreadStep, MainStep

-----------------------------------------------------------------------------
(* The theorems.                                                           *)

\* The inductive invariant holds in every reachable state.
THEOREM Invariance == Spec => []Inv
<1>1. Init => Inv
  <2> SUFFICES ASSUME Init PROVE Inv
    OBVIOUS
  <2>1. TypeOK
    BY TypeInit
  <2>2. Alive = {} /\ Blocked = {}
    BY DEF Init, Alive, Blocked
  <2>3. CountInv
    BY <2>2, FS_EmptySet DEF CountInv, Init
  <2>4. SeqElems(slots) = {} /\ SeqElems(grabbed) = {}
    BY DEF Init, SeqElems
  <2>5. SlotsInv
    BY <2>2, <2>4 DEF SlotsInv, Out, Init
  <2>6. StageInv
    BY DEF Init, StageInv, RedrawActiveIsExact
  <2>7. MainInv
    BY DEF Init, MainInv, NoLostWakeup
  <2> QED BY <2>1, <2>3, <2>5, <2>6, <2>7 DEF Inv
<1>2. Inv /\ [Next]_vars => Inv'
  BY TypeStep, CountStep, SlotsStep, StageStep, MainInvStep DEF Inv
<1> QED BY <1>1, <1>2, PTL DEF Spec

\* The variables keep their types.
THEOREM TypeCorrect == Spec => []TypeOK
BY Invariance, PTL DEF Inv

\* The assertions in signalExit() and runInMain() never fail, however many
\* render threads there are.
THEOREM AssertionsNeverFail == Spec => []AssertionsHold
<1>1. Inv => AssertionsHold
  <2> SUFFICES ASSUME Inv, NEW t \in Threads
               PROVE  /\ tpc[t] = "last" => slots = <<>>
                      /\ tpc[t] = "running" => ~exitposted
    BY DEF AssertionsHold
  <2>1. ASSUME tpc[t] = "last" PROVE slots = <<>>
    <3>1. Blocked = {}
      BY <2>1 DEF Inv, StageInv, Blocked
    <3> QED BY <3>1, NothingOut DEF Inv
  <2>2. ASSUME tpc[t] = "running" PROVE ~exitposted
    BY <2>2 DEF Inv, StageInv
  <2> QED BY <2>1, <2>2
<1> QED BY <1>1, Invariance, PTL

\* The main thread never follows a pointer to a Slot that is gone.
THEOREM SlotsStayAlive == Spec => []SlotsAreAlive
<1>1. Inv => SlotsAreAlive
  BY DEF Inv, SlotsInv, Out, SlotsAreAlive
<1> QED BY <1>1, Invariance, PTL

\* The main thread never sleeps through a slot or an exit.
THEOREM WakeupsAreNotLost == Spec => []NoLostWakeup
<1>1. Inv => NoLostWakeup
  BY DEF Inv, MainInv
<1> QED BY <1>1, Invariance, PTL

\* A render thread never sleeps through its answer.
THEOREM RepliesAreNotLost == Spec => []NoLostReply
<1>1. Inv => NoLostReply
  BY DEF Inv, SlotsInv, Out, Blocked, NoLostReply
<1> QED BY <1>1, Invariance, PTL

\* Neither the main thread nor a render thread sleeps through what it waits for.
THEOREM NobodyEverOversleeps == Spec => []NobodyOversleeps
<1>1. NoLostWakeup /\ NoLostReply => NobodyOversleeps
  BY DEF NobodyOversleeps
<1> QED BY <1>1, WakeupsAreNotLost, RepliesAreNotLost, PTL

\* redraw_active tells exactly whether a redraw process is in flight.
THEOREM RedrawActiveStaysExact == Spec => []RedrawActiveIsExact
<1>1. Inv => RedrawActiveIsExact
  BY DEF Inv, StageInv
<1> QED BY <1>1, Invariance, PTL

-----------------------------------------------------------------------------
(* Synchronizer implements RedrawProcess: each function is run once, while *)
(* its caller is blocked, and each end of a process is handled once.  That *)
(* a function is not run twice rests on one more invariant: no caller is   *)
(* twice in slots or in a batch.                                           *)

Distinct(s) == \A i, j \in 1..Len(s) : s[i] = s[j] => i = j

BatchInv ==
  /\ Distinct(slots)
  /\ Distinct(grabbed)
  /\ next \in 1..(Len(grabbed) + 1)

\* Appending what is not there keeps the elements distinct.
LEMMA DistinctAppend ==
  ASSUME NEW S, NEW s \in Seq(S), NEW x \in S, Distinct(s), x \notin SeqElems(s)
  PROVE  Distinct(Append(s, x))
<1> DEFINE r == Append(s, x)
<1>1. /\ Len(r) = Len(s) + 1 /\ r[Len(s) + 1] = x /\ Len(s) \in Nat
      /\ \A i \in 1..Len(s) : r[i] = s[i]
  OBVIOUS
<1>2. \A i \in 1..Len(s) : s[i] # x
  BY DEF SeqElems
<1> HIDE DEF r
<1>3. ASSUME NEW i \in 1..Len(r), NEW j \in 1..Len(r), r[i] = r[j]
      PROVE  i = j
  <2>1. CASE i \in 1..Len(s) /\ j \in 1..Len(s)
    BY <1>1, <1>3, <2>1 DEF Distinct
  <2>2. CASE i \in 1..Len(s) /\ j = Len(s) + 1
    BY <1>1, <1>2, <1>3, <2>2
  <2>3. CASE i = Len(s) + 1 /\ j \in 1..Len(s)
    BY <1>1, <1>2, <1>3, <2>3
  <2>4. CASE i = Len(s) + 1 /\ j = Len(s) + 1
    BY <2>4
  <2>5. \A k \in 1..Len(r) : k \in 1..Len(s) \/ k = Len(s) + 1
    BY <1>1
  <2> QED BY <2>1, <2>2, <2>3, <2>4, <2>5
<1>4. Distinct(r)
  BY <1>3 DEF Distinct
<1> QED BY <1>4 DEF r

\* Taking the slots as the batch keeps them distinct.
LEMMA GrabDistinct ==
  ASSUME Distinct(slots), slots \in Seq(Threads), Grab
  PROVE  BatchInv'
<1>1. grabbed' = slots /\ slots' = <<>> /\ next' = 1 /\ Len(grabbed') \in Nat
  BY DEF Grab
<1>2. Distinct(slots') /\ Distinct(grabbed')
  BY <1>1 DEF Distinct
<1>3. next' \in 1..(Len(grabbed') + 1)
  BY <1>1
<1> QED BY <1>2, <1>3 DEF BatchInv, Distinct

\* Every step keeps them distinct.
LEMMA BatchStep == Inv /\ BatchInv /\ [Next]_vars => BatchInv'
<1> SUFFICES ASSUME Inv, BatchInv, [Next]_vars PROVE BatchInv'
  OBVIOUS
<1>1. /\ slots \in Seq(Threads) /\ grabbed \in Seq(Threads)
      /\ Len(grabbed) \in Nat /\ Distinct(slots) /\ Distinct(grabbed)
      /\ next \in 1..(Len(grabbed) + 1)
  BY DEF Inv, TypeOK, BatchInv
<1>2. CASE UNCHANGED <<slots, grabbed, next>>
  BY <1>1, <1>2 DEF BatchInv, Distinct
<1>3. ASSUME NEW t \in Threads, RunInMain(t) PROVE BatchInv'
  <2>1. slots' = Append(slots, t) /\ UNCHANGED <<grabbed, next>>
    BY <1>3 DEF RunInMain
  <2>2. t \notin SeqElems(slots)
    BY <1>3 DEF RunInMain, Inv, SlotsInv, Out, Blocked
  <2>3. Distinct(Append(slots, t))
    BY <1>1, <2>2, DistinctAppend
  <2> QED BY <1>1, <2>1, <2>3 DEF BatchInv, Distinct
<1>4. CASE WaitTurn
  BY <1>1, <1>2, <1>4, GrabDistinct DEF WaitTurn
<1>5. CASE OnDispatcher
  BY <1>1, <1>2, <1>5, GrabDistinct DEF OnDispatcher
<1>6. CASE RunFunc
  <2>1. next <= Len(grabbed) /\ next' = next + 1 /\ UNCHANGED <<slots, grabbed>>
    BY <1>6 DEF RunFunc, syncvars
  <2> QED BY <1>1, <2>1 DEF BatchInv, Distinct
<1>7. CASE AnswerBatch
  <2>1. CASE Grab
    BY <1>1, <2>1, GrabDistinct
  <2>2. CASE grabbed' = <<>> /\ next' = 1 /\ UNCHANGED slots
    BY <1>1, <2>2 DEF BatchInv, Distinct
  <2> QED BY <1>7, <2>1, <2>2 DEF AnswerBatch
<1>8. ASSUME NEW t \in Threads,
             TilerStart(t) \/ TilerSkip(t) \/ SlotWake(t) \/ SpuriousSlotWake(t)
               \/ RenderDone(t)
      PROVE  UNCHANGED <<slots, grabbed, next>>
  BY <1>8 DEF TilerStart, TilerSkip, SlotWake, SpuriousSlotWake, RenderDone,
              syncvars, mainvars
<1>9. ASSUME NEW t \in Threads, SignalExit(t)
      PROVE  UNCHANGED <<slots, grabbed, next>>
  BY <1>9 DEF SignalExit
<1>10. ASSUME StartRedraw \/ EmitExit \/ SpuriousMainWake \/ UNCHANGED vars
       PROVE  UNCHANGED <<slots, grabbed, next>>
  BY <1>10 DEF StartRedraw, EmitExit, SpuriousMainWake, vars, syncvars, mainvars
<1> QED
  BY <1>2, <1>3, <1>4, <1>5, <1>6, <1>7, <1>8, <1>9, <1>10
  DEF Next, ThreadStep, MainStep, WaitForExit, MainWake

-----------------------------------------------------------------------------
(* What a step does to the process and to its clients.                     *)

\* A step that changes no client and not the process is none of it.
LEMMA Stutters ==
  ASSUME Process' = Process, \A t \in Threads : Client(t)' = Client(t)
  PROVE  UNCHANGED Redraw!absvars
BY DEF Redraw!absvars

\* A step of one client.
LEMMA Moves ==
  ASSUME NEW t \in Threads, NEW from, NEW to,
         Client(t) = from, Client(t)' = to, Process' = Process,
         \A u \in Threads \ {t} : Client(u)' = Client(u)
  PROVE  Redraw!Move(t, from, to)
BY DEF Redraw!Move

\* The process depends on little of the state.
LEMMA SameProcess ==
  ASSUME UNCHANGED <<redraw_active, exitposted>>, mpc' = "emit" <=> mpc = "emit",
         \A t \in Threads : tpc'[t] = "tiler" <=> tpc[t] = "tiler"
  PROVE  Process' = Process
BY DEF Process

\* So does a client.
LEMMA SameClients ==
  ASSUME UNCHANGED <<tpc, func>>, Ran' = Ran
  PROVE  \A t \in Threads : Client(t)' = Client(t)
BY DEF Client

\* What the main thread has run belongs to the batch.
LEMMA RanInBatch ==
  ASSUME Inv, BatchInv
  PROVE  /\ Ran \subseteq SeqElems(grabbed)
         /\ mpc # "run" => Ran = {}
         /\ next > Len(grabbed) => Ran = SeqElems(grabbed)
<1>1. /\ Len(grabbed) \in Nat /\ next \in 1..(Len(grabbed) + 1)
      /\ mpc # "run" => grabbed = <<>>
  BY DEF Inv, TypeOK, BatchInv, MainInv
<1>2. next - 1 \in 0..Len(grabbed)
  BY <1>1
<1>3. Ran \subseteq SeqElems(grabbed)
  BY <1>1, <1>2 DEF Ran, SeqElems
<1>4. SeqElems(<<>>) = {}
  BY DEF SeqElems
<1>5. ASSUME next > Len(grabbed) PROVE Ran = SeqElems(grabbed)
  <2>1. next - 1 = Len(grabbed)
    BY <1>1, <1>5
  <2> QED BY <2>1 DEF Ran, SeqElems
<1> QED BY <1>1, <1>3, <1>4, <1>5

\* When a process is at its first or last thread, or there is none, nobody
\* draws.
LEMMA NobodyDraws ==
  ASSUME Inv,
         \/ \E t \in Threads : tpc[t] \in {"tiler", "last"}
         \/ \A t \in Threads : tpc[t] = "off"
  PROVE  \A t \in Threads : Client(t) = "off"
<1>1. \A t \in Threads : tpc[t] \in {"off", "tiler", "last"}
  BY DEF Inv, StageInv
<1> QED BY <1>1 DEF Client

\* While a thread is there, the process has begun or draws.
LEMMA InProgress ==
  ASSUME Inv, NEW t \in Threads, tpc[t] # "off"
  PROVE  /\ redraw_active /\ ~exitposted /\ mpc # "emit"
         /\ Process = IF tpc[t] = "tiler" THEN "begun" ELSE "drawing"
<1>1. redraw_active /\ ~exitposted /\ mpc # "emit"
  BY DEF Inv, StageInv, RedrawActiveIsExact
<1>2. tpc[t] # "tiler" => \A u \in Threads : tpc[u] # "tiler"
  BY DEF Inv, StageInv
<1> QED BY <1>1, <1>2 DEF Process

-----------------------------------------------------------------------------
(* The render threads.                                                     *)

\* init_tiler() starts the process with every thread or with nothing to draw.
LEMMA TilerRefines ==
  ASSUME Inv, NEW t \in Threads, TilerStart(t) \/ TilerSkip(t)
  PROVE  Redraw!Draw
<1>1. /\ tpc[t] = "tiler" /\ UNCHANGED <<redraw_active, exitposted, mpc>>
      /\ tpc \in [Threads -> ThreadStates]
  BY DEF TilerStart, TilerSkip, syncvars, mainvars, Inv, TypeOK
<1>2. Process = "begun" /\ redraw_active /\ ~exitposted /\ mpc # "emit"
  BY <1>1, InProgress
<1>3. CASE TilerStart(t)
  <2>1. \A u \in Threads : tpc'[u] = "running"
    BY <1>3 DEF TilerStart
  <2>2. \A u \in Threads : Client(u)' = "drawing"
    BY <2>1 DEF Client
  <2>3. Process' = "drawing"
    BY <1>1, <1>2, <2>1 DEF Process
  <2> QED BY <1>2, <2>2, <2>3 DEF Redraw!Draw
<1>4. CASE TilerSkip(t)
  <2>1. \A u \in Threads : tpc'[u] \in {"off", "last"}
    BY <1>1, <1>4 DEF TilerSkip, Inv, StageInv
  <2>2. \A u \in Threads : Client(u)' = "off"
    BY <2>1 DEF Client
  <2>3. Process' = "drawing"
    BY <1>1, <1>2, <2>1 DEF Process
  <2> QED BY <1>2, <2>2, <2>3 DEF Redraw!Draw
<1> QED BY <1>3, <1>4

\* runInMain() asks.
LEMMA RunInMainRefines ==
  ASSUME Inv, BatchInv, NEW t \in Threads, RunInMain(t)
  PROVE  Redraw!Ask(t)
<1>1. /\ tpc[t] = "running" /\ tpc'[t] = "waiting" /\ func'[t] = TRUE
      /\ \A u \in Threads \ {t} : tpc'[u] = tpc[u] /\ func'[u] = func[u]
      /\ UNCHANGED <<exitposted, grabbed, next, redraw_active>>
  BY DEF RunInMain, Inv, TypeOK
<1>2. mpc # "emit" /\ mpc' # "emit"
  BY <1>1, InProgress DEF RunInMain, Awaken
<1>3. Process' = Process
  BY <1>1, <1>2, SameProcess
<1>4. t \notin Ran
  BY <1>1, RanInBatch DEF Inv, SlotsInv, Out, Blocked
<1>5. Ran' = Ran
  BY <1>1 DEF Ran
<1>6. Client(t) = "drawing" /\ Client(t)' = "asked"
  BY <1>1, <1>4, <1>5 DEF Client
<1>7. \A u \in Threads \ {t} : Client(u)' = Client(u)
  BY <1>1, <1>5 DEF Client
<1> QED BY <1>3, <1>6, <1>7, Moves DEF Redraw!Ask

\* A caller that wakes up either goes on, answered, or sleeps again.
LEMMA SlotWakeRefines ==
  ASSUME Inv, BatchInv, NEW t \in Threads, SlotWake(t) \/ SpuriousSlotWake(t)
  PROVE  Redraw!Resume(t) \/ UNCHANGED Redraw!absvars
<1>1. /\ tpc[t] \in {"waiting", "notified"}
      /\ \/ tpc'[t] \in {"waiting", "notified"}
         \/ tpc'[t] = "running" /\ ~func[t]
      /\ \A u \in Threads \ {t} : tpc'[u] = tpc[u]
      /\ UNCHANGED <<exitposted, grabbed, next, redraw_active, mpc, func>>
  BY DEF SlotWake, SpuriousSlotWake, syncvars, mainvars, Inv, TypeOK
<1>2. Process' = Process
  BY <1>1, SameProcess
<1>3. Ran' = Ran
  BY <1>1 DEF Ran
<1>4. \A u \in Threads \ {t} : Client(u)' = Client(u)
  BY <1>1, <1>3 DEF Client
<1>5. CASE tpc'[t] \in {"waiting", "notified"}
  <2>1. Client(t)' = Client(t)
    BY <1>1, <1>3, <1>5 DEF Client
  <2> QED BY <1>2, <1>4, <2>1, Stutters
<1>6. CASE tpc'[t] = "running" /\ ~func[t]
  <2>1. Client(t) = "answered" /\ Client(t)' = "drawing"
    BY <1>1, <1>6 DEF Client
  <2> QED BY <1>2, <1>4, <2>1, Moves DEF Redraw!Resume
<1> QED BY <1>1, <1>5, <1>6

\* A thread leaves, and if it is the last it is about to say so.
LEMMA RenderDoneRefines ==
  ASSUME Inv, BatchInv, NEW t \in Threads, RenderDone(t)
  PROVE  Redraw!Leave(t)
<1>1. /\ tpc[t] = "running" /\ tpc'[t] \in {"last", "off"}
      /\ \A u \in Threads \ {t} : tpc'[u] = tpc[u]
      /\ UNCHANGED <<exitposted, grabbed, next, redraw_active, mpc, func>>
  BY DEF RenderDone, syncvars, mainvars, Inv, TypeOK
<1>2. Process' = Process
  BY <1>1, SameProcess
<1>3. Ran' = Ran
  BY <1>1 DEF Ran
<1>4. Client(t) = "drawing" /\ Client(t)' = "off"
  BY <1>1 DEF Client
<1>5. \A u \in Threads \ {t} : Client(u)' = Client(u)
  BY <1>1, <1>3 DEF Client
<1> QED BY <1>2, <1>4, <1>5, Moves DEF Redraw!Leave

\* signalExit() ends the process, when everybody has left.
LEMMA SignalExitRefines ==
  ASSUME Inv, NEW t \in Threads, SignalExit(t)
  PROVE  Redraw!End
<1>1. /\ tpc[t] = "last" /\ exitposted' /\ UNCHANGED redraw_active
      /\ \A u \in Threads : tpc'[u] = "off"
  BY DEF SignalExit, Inv, TypeOK, StageInv
<1>2. Process = "drawing" /\ redraw_active
  BY <1>1, InProgress
<1>3. Process' = "ended"
  BY <1>1, <1>2 DEF Process
<1>4. \A u \in Threads : Client(u) = "off"
  BY <1>1, NobodyDraws
<1>5. \A u \in Threads : Client(u)' = "off"
  BY <1>1 DEF Client
<1> QED BY <1>2, <1>3, <1>4, <1>5 DEF Redraw!End

-----------------------------------------------------------------------------
(* The main thread.                                                        *)

\* Taking a batch answers nobody yet.
LEMMA GrabRefines ==
  ASSUME Inv, BatchInv, Grab, mpc \in {"loop", "woken"},
         UNCHANGED <<tpc, func, redraw_active, exitposted>>
  PROVE  UNCHANGED Redraw!absvars
<1>1. mpc' = "run" /\ next' = 1
  BY DEF Grab
<1>2. Ran = {}
  BY RanInBatch
<1>3. Ran' = {}
  BY <1>1 DEF Ran
<1>4. Process' = Process
  BY <1>1, SameProcess
<1> QED BY <1>2, <1>3, <1>4, SameClients, Stutters

\* waitForExit() handles the end, or takes a batch, or sleeps.
LEMMA WaitTurnRefines ==
  ASSUME Inv, BatchInv, WaitForExit \/ MainWake
  PROVE  Redraw!HandleEnd \/ UNCHANGED Redraw!absvars
<1>1. /\ mpc \in {"loop", "woken"} /\ WaitTurn /\ UNCHANGED <<tpc, func>>
      /\ redraw_active
  BY DEF WaitForExit, MainWake, threadvars, Inv, MainInv
<1>2. CASE Grab /\ UNCHANGED <<exitposted, redraw_active>>
  BY <1>1, <1>2, GrabRefines
<1>3. CASE /\ exitposted /\ exitposted' = FALSE /\ mpc' = "loop"
           /\ redraw_active' = FALSE /\ UNCHANGED <<grabbed, next>>
  <2>4. \A t \in Threads : tpc[t] = "off" /\ tpc'[t] = "off"
    BY <1>1, <1>3 DEF Inv, StageInv
  <2>1. Process = "ended"
    BY <1>1, <1>3, <2>4 DEF Process
  <2>2. Process' = "none"
    BY <1>3, <2>4 DEF Process
  <2>3. Ran' = Ran
    BY <1>3 DEF Ran
  <2> QED BY <1>1, <2>1, <2>2, <2>3, SameClients DEF Redraw!HandleEnd
<1>4. CASE mpc' = "wait" /\ UNCHANGED <<exitposted, grabbed, next, redraw_active>>
  <2>1. Process' = Process
    BY <1>1, <1>4, SameProcess
  <2>2. Ran' = Ran
    BY <1>4 DEF Ran
  <2> QED BY <1>1, <2>1, <2>2, SameClients, Stutters
<1> QED BY <1>1, <1>2, <1>3, <1>4 DEF WaitTurn

\* The delivery of an emission, stale or not, is no step of the process yet.
LEMMA OnDispatcherRefines ==
  ASSUME Inv, BatchInv, OnDispatcher
  PROVE  UNCHANGED Redraw!absvars
<1>1. mpc = "loop" /\ UNCHANGED <<tpc, func, redraw_active>>
  BY DEF OnDispatcher, threadvars
<1>2. CASE Grab /\ UNCHANGED exitposted
  BY <1>1, <1>2, GrabRefines
<1>3. CASE exitposted /\ mpc' = "emit" /\ UNCHANGED <<grabbed, next>>
  <2>1. redraw_active
    BY <1>3 DEF Inv, StageInv, RedrawActiveIsExact
  <2>5. \A t \in Threads : tpc[t] = "off" /\ tpc'[t] = "off"
    BY <1>1, <1>3 DEF Inv, StageInv
  <2>2. Process = "ended"
    BY <1>3, <2>1, <2>5 DEF Process
  <2>3. Process' = "ended"
    BY <1>1, <1>3, <2>1, <2>5 DEF Process
  <2>4. Ran' = Ran
    BY <1>3 DEF Ran
  <2> QED BY <1>1, <2>2, <2>3, <2>4, SameClients, Stutters
<1>4. CASE UNCHANGED <<exitposted, mpc, grabbed, next>>
  <2>1. Process' = Process
    BY <1>1, <1>4, SameProcess
  <2>2. Ran' = Ran
    BY <1>4 DEF Ran
  <2> QED BY <1>1, <2>1, <2>2, SameClients, Stutters
<1> QED BY <1>1, <1>2, <1>3, <1>4 DEF OnDispatcher

\* A function is run for a caller that is blocked and was not answered before.
LEMMA RunFuncRefines ==
  ASSUME Inv, BatchInv, RunFunc
  PROVE  \E t \in Threads : Redraw!Answer(t)
<1>1. /\ mpc = "run" /\ next <= Len(grabbed) /\ next' = next + 1
      /\ UNCHANGED <<mpc, grabbed, tpc, func, redraw_active, exitposted>>
  BY DEF RunFunc, syncvars, threadvars
<1>2. next \in 1..Len(grabbed) /\ grabbed \in Seq(Threads) /\ Len(grabbed) \in Nat
  BY <1>1 DEF BatchInv, Inv, TypeOK
<1>3. PICK t \in Threads : t = grabbed[next]
  BY <1>2
<1>4. func[t] /\ tpc[t] \in {"waiting", "notified"}
  <2>1. t \in SeqElems(grabbed)
    BY <1>2, <1>3 DEF SeqElems
  <2> QED BY <2>1 DEF Inv, SlotsInv, Out, Blocked
<1>5. t \notin Ran
  BY <1>2, <1>3 DEF BatchInv, Distinct, Ran
<1>6. Ran' = Ran \cup {t}
  BY <1>1, <1>2, <1>3 DEF Ran
<1>7. Process' = Process
  BY <1>1, SameProcess
<1>8. Client(t) = "asked"
  BY <1>4, <1>5 DEF Client
<1>9. Client(t)' = "answered"
  BY <1>1, <1>4, <1>6 DEF Client
<1>10. \A u \in Threads \ {t} : Client(u)' = Client(u)
  BY <1>1, <1>6 DEF Client
<1>11. Redraw!Move(t, "asked", "answered")
  BY <1>7, <1>8, <1>9, <1>10, Moves
<1> QED BY <1>11 DEF Redraw!Answer

\* Releasing the callers changes nothing for the ones that were answered.
LEMMA AnswerBatchRefines ==
  ASSUME Inv, BatchInv, AnswerBatch
  PROVE  UNCHANGED Redraw!absvars
<1>1. /\ mpc = "run" /\ next > Len(grabbed)
      /\ UNCHANGED <<redraw_active, exitposted>>
      /\ mpc' # "emit" /\ next' = 1
      /\ \A t \in Threads :
           /\ func'[t] = (func[t] /\ t \notin SeqElems(grabbed))
           /\ tpc'[t] = IF tpc[t] = "waiting" THEN "notified" ELSE tpc[t]
  BY DEF AnswerBatch, Grab
<1>2. Ran = SeqElems(grabbed)
  BY <1>1, RanInBatch
<1>3. Ran' = {}
  BY <1>1 DEF Ran
<1>4. Process' = Process
  BY <1>1, SameProcess
<1>5. \A t \in Threads : Client(t)' = Client(t)
  BY <1>1, <1>2, <1>3 DEF Client
<1> QED BY <1>4, <1>5, Stutters

\* A process is begun from the main loop, or where the end of the last one is
\* handled.
LEMMA LaunchRefines ==
  ASSUME Inv, BatchInv, StartRedraw \/ EmitExit
  PROVE  Redraw!Begin \/ Redraw!HandleEnd
<1>1. /\ ~exitposted /\ mpc' = "loop" /\ UNCHANGED exitposted
      /\ \A t \in Threads : tpc[t] = "off"
      /\ Process \in {"none", "ended"}
      /\ EmitExit => Process = "ended"
  BY DEF StartRedraw, EmitExit, syncvars, Inv, StageInv, RedrawActiveIsExact, Process
<1>2. \A t \in Threads : Client(t) = "off"
  BY <1>1, NobodyDraws
<1>3. CASE Launch
  <2>1. PICK t \in Threads : tpc' = [tpc EXCEPT ![t] = "tiler"]
    BY <1>3 DEF Launch
  <2>2. tpc'[t] = "tiler" /\ \A u \in Threads : tpc'[u] \in {"off", "tiler"}
    BY <1>1, <2>1 DEF Inv, TypeOK
  <2>3. redraw_active'
    BY <1>3 DEF Launch
  <2>4. Process' = "begun"
    BY <1>1, <2>2, <2>3 DEF Process
  <2>5. \A u \in Threads : Client(u)' = "off"
    BY <2>2 DEF Client
  <2> QED BY <1>1, <1>2, <2>4, <2>5 DEF Redraw!Begin
<1>4. CASE EmitExit /\ redraw_active' = FALSE /\ UNCHANGED tpc
  <2>1. Process' = "none"
    BY <1>1, <1>4 DEF Process
  <2>2. \A u \in Threads : Client(u)' = "off"
    BY <1>1, <1>4 DEF Client
  <2> QED BY <1>1, <1>2, <1>4, <2>1, <2>2 DEF Redraw!HandleEnd
<1> QED BY <1>3, <1>4 DEF StartRedraw, EmitExit

-----------------------------------------------------------------------------
(* Refinement.                                                             *)

\* Every step is one of the process, or leaves it alone.
THEOREM NextRefines ==
  Inv /\ BatchInv /\ [Next]_vars => [Redraw!ProcessNext]_(Redraw!absvars)
<1> SUFFICES ASSUME Inv, BatchInv, [Next]_vars
             PROVE  Redraw!ProcessNext \/ UNCHANGED Redraw!absvars
  OBVIOUS
<1>1. ASSUME NEW t \in Threads, TilerStart(t) \/ TilerSkip(t)
      PROVE  Redraw!ProcessNext
  BY <1>1, TilerRefines DEF Redraw!ProcessNext
<1>2. ASSUME NEW t \in Threads, RunInMain(t) PROVE Redraw!ProcessNext
  BY <1>2, RunInMainRefines DEF Redraw!ProcessNext
<1>3. ASSUME NEW t \in Threads, SlotWake(t) \/ SpuriousSlotWake(t)
      PROVE  Redraw!ProcessNext \/ UNCHANGED Redraw!absvars
  BY <1>3, SlotWakeRefines DEF Redraw!ProcessNext
<1>4. ASSUME NEW t \in Threads, RenderDone(t) PROVE Redraw!ProcessNext
  BY <1>4, RenderDoneRefines DEF Redraw!ProcessNext
<1>5. ASSUME NEW t \in Threads, SignalExit(t) PROVE Redraw!ProcessNext
  BY <1>5, SignalExitRefines DEF Redraw!ProcessNext
<1>6. CASE WaitForExit \/ MainWake
  BY <1>6, WaitTurnRefines DEF Redraw!ProcessNext
<1>7. CASE OnDispatcher
  BY <1>7, OnDispatcherRefines
<1>8. CASE RunFunc
  BY <1>8, RunFuncRefines DEF Redraw!ProcessNext
<1>9. CASE AnswerBatch
  BY <1>9, AnswerBatchRefines
<1>10. CASE StartRedraw \/ EmitExit
  BY <1>10, LaunchRefines DEF Redraw!ProcessNext
<1>11. CASE SpuriousMainWake \/ UNCHANGED vars
  <2>1. /\ UNCHANGED <<tpc, func, redraw_active, exitposted, grabbed, next>>
        /\ mpc' = "emit" <=> mpc = "emit"
    BY <1>11 DEF SpuriousMainWake, vars, syncvars, mainvars, threadvars
  <2>2. Ran' = Ran
    BY <2>1 DEF Ran
  <2>3. Process' = Process
    BY <2>1, SameProcess
  <2> QED BY <2>1, <2>2, <2>3, SameClients, Stutters
<1> QED
  BY <1>1, <1>2, <1>3, <1>4, <1>5, <1>6, <1>7, <1>8, <1>9, <1>10, <1>11
  DEF Next, ThreadStep, MainStep

\* The synchroniser is the redraw process of its interface, for any number of
\* render threads.
THEOREM SynchronizerImplementsProcess == Spec => ImplementsRedrawProcess
<1>1. Init => BatchInv
  BY DEF Init, BatchInv, Distinct
<1>2. Init => Redraw!ProcessInit
  <2> SUFFICES ASSUME Init PROVE Redraw!ProcessInit
    OBVIOUS
  <2>1. Process = "none"
    <3>1. ~redraw_active /\ ~exitposted /\ mpc # "emit"
          /\ \A t \in Threads : tpc[t] = "off"
      BY DEF Init
    <3> QED BY <3>1 DEF Process
  <2>2. \A t \in Threads : Client(t) = "off"
    BY DEF Init, Client
  <2> QED BY <2>1, <2>2 DEF Redraw!ProcessInit
<1> QED
  BY <1>1, <1>2, Invariance, BatchStep, NextRefines, PTL
  DEF Spec, ImplementsRedrawProcess, Redraw!ProcessSpec
=============================================================================
