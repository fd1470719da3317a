----------------------- MODULE WaitableHandleProofs -----------------------
(***************************************************************************)
(* Proofs about WaitableHandle, for any number of threads, any intervals   *)
(* and any bound on the signals.                                           *)
(***************************************************************************)
EXTENDS WaitableHandle, FiniteSetTheorems, TLAPS

(* Type correctness. *)

LEMMA TypeInit == Init => TypeOK
  BY MaxSignalsAssumption DEF Init, TypeOK

LEMMA ReturnType ==
  ASSUME TypeOK, NEW t \in Threads, NEW r \in {"event", "timeout"}, Return(t, r)
  PROVE  /\ pc' \in [Threads -> {"idle", "queued", "woken"}]
         /\ outcome' \in [Threads -> {"none", "event", "timeout"}]
         /\ events' \in Nat
         /\ pass' \in 0..1
  BY DEF TypeOK, Return

LEMMA TypeStep == TypeOK /\ [Next]_vars => TypeOK'
<1> SUFFICES ASSUME TypeOK, [Next]_vars PROVE TypeOK'
  OBVIOUS
<1>1. CASE Sig
  <2>1. signals' \in 0..MaxSignals
    BY <1>1, MaxSignalsAssumption DEF Sig, TypeOK
  <2>2. /\ pc' \in [Threads -> {"idle", "queued", "woken"}]
        /\ woke' \in [Threads -> {"signal", "timeout", "spurious"}]
        /\ heard' \in [Threads -> {"yes", "no"}]
    BY <1>1 DEF Sig, TypeOK
  <2> QED
    BY <1>1, <2>1, <2>2 DEF Sig, TypeOK
<1>2. CASE Block
  BY <1>2 DEF Block, waitVars, TypeOK
<1>3. ASSUME NEW t \in Threads, NEW ms \in Intervals, Wait(t, ms) PROVE TypeOK'
  <2>1. /\ interval' \in [Threads -> Intervals \cup {0}]
        /\ heard' \in [Threads -> {"yes", "no"}]
        /\ UNCHANGED <<woke, signals>>
    BY <1>3 DEF Wait, TypeOK
  <2>2. CASE pass = 1
    BY <1>3, <2>1, <2>2, ReturnType DEF Wait, TypeOK
  <2>3. CASE pass # 1
    BY <1>3, <2>1, <2>3 DEF Wait, TypeOK
  <2> QED
    BY <2>2, <2>3
<1>4. ASSUME NEW t \in Threads, TimedOut(t) \/ WokenForNothing(t) PROVE TypeOK'
  BY <1>4 DEF TimedOut, WokenForNothing, Wake, TypeOK
<1>5. ASSUME NEW t \in Threads, Resume(t) PROVE TypeOK'
  <2>1. CASE sync /\ woke[t] # "timeout" /\ pass = 0
    BY <1>5, <2>1 DEF Resume, TypeOK
  <2>2. CASE ~(sync /\ woke[t] # "timeout" /\ pass = 0)
    BY <1>5, <2>2, ReturnType DEF Resume, TypeOK
  <2> QED
    BY <2>1, <2>2
<1>6. CASE UNCHANGED vars
  BY <1>6 DEF vars, waitVars, TypeOK
<1> QED
  BY <1>1, <1>2, <1>3, <1>4, <1>5, <1>6 DEF Next

(* Every variable keeps its type. *)
THEOREM TypeCorrect == Spec => []TypeOK
  BY TypeInit, TypeStep, PTL DEF Spec

\* A handle keeps the mode it was initialised in.
LEMMA ModeKept == [Next]_vars => sync' = sync
<1> SUFFICES ASSUME [Next]_vars PROVE sync' = sync
  OBVIOUS
<1>1. CASE Sig \/ Block
  BY <1>1 DEF Sig, Block
<1>2. ASSUME NEW t \in Threads, NEW ms \in Intervals, Wait(t, ms) PROVE sync' = sync
  BY <1>2 DEF Wait
<1>3. ASSUME NEW t \in Threads, TimedOut(t) \/ WokenForNothing(t) \/ Resume(t)
      PROVE  sync' = sync
  BY <1>3 DEF TimedOut, WokenForNothing, Wake, Resume
<1>4. CASE UNCHANGED vars
  BY <1>4 DEF vars
<1> QED
  BY <1>1, <1>2, <1>3, <1>4 DEF Next

----------------------------------------------------------------------------
(* A signal is counted, or pending, or merged into a pending one: every
   return of 0 takes the flag that some signal set.  Inductive as it stands:
   a synchronous wait returns 0 only after it saw the flag set. *)
LEMMA OneSignalStep == TypeOK /\ OneSignalOneEvent /\ [Next]_vars => OneSignalOneEvent'
<1> SUFFICES ASSUME TypeOK, OneSignalOneEvent, [Next]_vars, sync PROVE events' + pass' <= signals'
  BY ModeKept DEF OneSignalOneEvent
<1>0. pass \in 0..1 /\ events \in Nat /\ signals \in Int /\ events + pass <= signals
  BY MaxSignalsAssumption DEF TypeOK, OneSignalOneEvent
<1>1. CASE Sig
  BY <1>0, <1>1 DEF Sig
<1>2. CASE Block
  BY <1>2 DEF Block
<1>3. ASSUME NEW t \in Threads, NEW ms \in Intervals, Wait(t, ms) PROVE events' + pass' <= signals'
  BY <1>0, <1>3 DEF Wait, Return
<1>4. ASSUME NEW t \in Threads, TimedOut(t) \/ WokenForNothing(t) PROVE events' + pass' <= signals'
  BY <1>0, <1>4 DEF TimedOut, WokenForNothing, Wake
<1>5. ASSUME NEW t \in Threads, Resume(t) PROVE events' + pass' <= signals'
  <2>1. CASE woke[t] # "timeout" /\ pass = 0
    BY <1>0, <1>5, <2>1 DEF Resume
  <2>2. CASE woke[t] # "timeout" /\ pass = 1
    BY <1>0, <1>5, <2>2 DEF Resume, Return
  <2>3. CASE woke[t] = "timeout"
    BY <1>0, <1>5, <2>3 DEF Resume, Return
  <2> QED
    BY <1>0, <2>1, <2>2, <2>3
<1>6. CASE UNCHANGED vars
  BY <1>0, <1>6 DEF vars, waitVars
<1> QED
  BY <1>1, <1>2, <1>3, <1>4, <1>5, <1>6 DEF Next

(* A synchronous handle never releases more waits than it got signals. *)
THEOREM OneSignalOneEventHolds == Spec => []OneSignalOneEvent
<1>1. Init => OneSignalOneEvent
  BY DEF Init, OneSignalOneEvent
<1> QED
  BY <1>1, TypeCorrect, OneSignalStep, PTL DEF Spec

----------------------------------------------------------------------------
(* No signal gets stuck. *)
LEMMA NoStuckStep == TypeOK /\ NoStuckSignal /\ [Next]_vars => NoStuckSignal'
<1> SUFFICES ASSUME TypeOK, NoStuckSignal, [Next]_vars, sync, pass' = 1,
                    NEW q \in Threads, pc'[q] = "queued"
             PROVE  \E t \in Threads : pc'[t] = "woken"
  BY ModeKept DEF NoStuckSignal, Queued
<1>0. pass = 1 /\ pc[q] = "queued" => \E t \in Threads : pc[t] = "woken"
  BY DEF NoStuckSignal, Queued
<1>1. CASE Sig
  <2>1. PICK W \in SUBSET Queued :
          /\ Cardinality(W) = (IF Queued = {} THEN 0 ELSE 1)
          /\ pc' = [t \in Threads |-> IF t \in W THEN "woken" ELSE pc[t]]
    BY <1>1 DEF Sig
  <2>2. q \in Queued
    BY <2>1 DEF Queued, TypeOK
  <2>3. W # {}
    BY <2>1, <2>2, FS_EmptySet
  <2> QED
    BY <2>1, <2>3 DEF Queued
<1>2. CASE Block
  BY <1>2 DEF Block
<1>3. ASSUME NEW t \in Threads, NEW ms \in Intervals, Wait(t, ms)
      PROVE  \E u \in Threads : pc'[u] = "woken"
  BY <1>0, <1>3 DEF Wait, Return, TypeOK
<1>4. ASSUME NEW t \in Threads, TimedOut(t) \/ WokenForNothing(t)
      PROVE  \E u \in Threads : pc'[u] = "woken"
  BY <1>4 DEF TimedOut, WokenForNothing, Wake, TypeOK
<1>5. ASSUME NEW t \in Threads, Resume(t)
      PROVE  \E u \in Threads : pc'[u] = "woken"
  BY <1>0, <1>5 DEF Resume, Return, TypeOK
<1>6. CASE UNCHANGED vars
  BY <1>0, <1>6 DEF vars, waitVars
<1> QED
  BY <1>1, <1>2, <1>3, <1>4, <1>5, <1>6 DEF Next

(* While a signal is pending and a thread is queued, a woken thread is on its
   way to the flag. *)
THEOREM NoStuckSignalHolds == Spec => []NoStuckSignal
<1>1. Init => NoStuckSignal
  BY DEF Init, NoStuckSignal
<1> QED
  BY <1>1, TypeCorrect, NoStuckStep, PTL DEF Spec

----------------------------------------------------------------------------
(* A return of 0 means a signal: what is known of a thread inside its wait. *)
WaitingInv ==
  \A t \in Threads : pc[t] # "idle" =>
    /\ outcome[t] = "none"
    /\ pass = 1 => heard[t] = "yes"
    /\ pc[t] = "woken" /\ woke[t] = "signal" => heard[t] = "yes"

LEMMA HeardStep ==
  TypeOK /\ WaitingInv /\ EventMeansSignal /\ [Next]_vars => WaitingInv' /\ EventMeansSignal'
<1> SUFFICES ASSUME TypeOK, WaitingInv, EventMeansSignal, [Next]_vars
             PROVE  WaitingInv' /\ EventMeansSignal'
  OBVIOUS
<1> USE DEF TypeOK, WaitingInv, EventMeansSignal
<1>1. CASE Sig
  BY <1>1 DEF Sig, Queued
<1>2. CASE Block
  BY <1>2 DEF Block, waitVars
<1>3. ASSUME NEW t \in Threads, NEW ms \in Intervals, Wait(t, ms)
      PROVE  WaitingInv' /\ EventMeansSignal'
  <2>1. CASE pass = 1
    BY <1>3, <2>1 DEF Wait, Return
  <2>2. CASE pass # 1
    BY <1>3, <2>2 DEF Wait
  <2> QED
    BY <2>1, <2>2
<1>4. ASSUME NEW t \in Threads, TimedOut(t) \/ WokenForNothing(t)
      PROVE  WaitingInv' /\ EventMeansSignal'
  BY <1>4 DEF TimedOut, WokenForNothing, Wake
<1>5. ASSUME NEW t \in Threads, Resume(t)
      PROVE  WaitingInv' /\ EventMeansSignal'
  <2>1. CASE sync /\ woke[t] # "timeout" /\ pass = 0
    BY <1>5, <2>1 DEF Resume
  <2>2. CASE ~(sync /\ woke[t] # "timeout" /\ pass = 0)
    BY <1>5, <2>2 DEF Resume, Return
  <2> QED
    BY <2>1, <2>2
<1>6. CASE UNCHANGED vars
  BY <1>6 DEF vars, waitVars
<1> QED
  BY <1>1, <1>2, <1>3, <1>4, <1>5, <1>6 DEF Next

(* A wait returns 0 only for a signal, on a handle of either mode; the one
   exception is a notification wait that woke for nothing. *)
THEOREM EventMeansSignalHolds == Spec => []EventMeansSignal
<1>1. Init => WaitingInv /\ EventMeansSignal
  BY DEF Init, WaitingInv, EventMeansSignal
<1> QED
  BY <1>1, TypeCorrect, HeardStep, PTL DEF Spec

----------------------------------------------------------------------------
(* With infinite waits only, a synchronous handle is an auto-reset event. *)

NeverTimed == \A ms \in Intervals : ms <= 0

\* What a wait of infinite interval excludes.
Untimed ==
  /\ sync
  /\ \A t \in Threads : interval[t] <= 0 /\ (pc[t] = "woken" => woke[t] # "timeout")

LEMMA UntimedStep == NeverTimed /\ TypeOK /\ Untimed /\ [Next]_vars => Untimed'
<1> SUFFICES ASSUME NeverTimed, TypeOK, Untimed, [Next]_vars PROVE Untimed'
  OBVIOUS
<1> USE DEF Untimed, TypeOK
<1>1. CASE Sig
  BY <1>1 DEF Sig
<1>2. CASE Block
  BY <1>2 DEF Block, waitVars
<1>3. ASSUME NEW t \in Threads, NEW ms \in Intervals, Wait(t, ms) PROVE Untimed'
  BY <1>3, IntervalsAssumption DEF Wait, Return, NeverTimed
<1>4. ASSUME NEW t \in Threads, TimedOut(t) \/ WokenForNothing(t) PROVE Untimed'
  <2>1. ~TimedOut(t)
    <3>1. interval[t] \in Intervals \/ interval[t] = 0
      BY DEF Untimed
    <3>2. interval[t] \in Int
      BY <3>1, IntervalsAssumption
    <3>3. interval[t] <= 0
      OBVIOUS
    <3> QED
      BY <3>2, <3>3 DEF TimedOut
  <2> QED
    BY <1>4, <2>1 DEF WokenForNothing, Wake
<1>5. ASSUME NEW t \in Threads, Resume(t) PROVE Untimed'
  BY <1>5 DEF Resume, Return
<1>6. CASE UNCHANGED vars
  BY <1>6 DEF vars, waitVars
<1> QED
  BY <1>1, <1>2, <1>3, <1>4, <1>5, <1>6 DEF Next

LEMMA EventStep == NeverTimed /\ TypeOK /\ Untimed /\ [Next]_vars => [Event!Next]_(Event!vars)
<1> SUFFICES ASSUME NeverTimed, TypeOK, Untimed, [Next]_vars
             PROVE  Event!Next \/ UNCHANGED Event!vars
  OBVIOUS
<1> DEFINE blocked == {t \in Threads : pc[t] # "idle"}
<1>1. CASE Sig
  <2>1. \A t \in Threads : pc'[t] # "idle" <=> pc[t] # "idle"
    BY <1>1 DEF Sig, Queued
  <2>2. blocked' = blocked
    BY <2>1
  <2> QED
    BY <1>1, <2>2 DEF Sig, Event!Next, Event!Set
<1>2. CASE Block
  BY <1>2 DEF Block, Untimed
<1>3. ASSUME NEW t \in Threads, NEW ms \in Intervals, Wait(t, ms)
      PROVE  Event!Next
  <2>1. CASE pass = 1
    <3>1. pass' = 0 /\ blocked' = blocked \ {t} /\ outcome' = [outcome EXCEPT ![t] = "event"]
      BY <1>3, <2>1 DEF Wait, Return, Untimed, TypeOK
    <3> QED
      BY <2>1, <3>1 DEF Event!Next, Event!Take
  <2>2. CASE pass # 1
    <3>1. blocked' = blocked \cup {t} /\ t \notin blocked
      BY <1>3, <2>2 DEF Wait, TypeOK
    <3> QED
      BY <1>3, <2>2, <3>1 DEF Wait, Event!Next, Event!Block, TypeOK
  <2> QED
    BY <2>1, <2>2
<1>4. ASSUME NEW t \in Threads, TimedOut(t) \/ WokenForNothing(t)
      PROVE  UNCHANGED Event!vars
  <2>1. blocked' = blocked /\ UNCHANGED <<pass, outcome>>
    BY <1>4 DEF TimedOut, WokenForNothing, Wake, TypeOK
  <2> QED
    BY <2>1 DEF Event!vars
<1>5. ASSUME NEW t \in Threads, Resume(t)
      PROVE  Event!Next \/ UNCHANGED Event!vars
  <2>1. pc[t] = "woken" /\ woke[t] # "timeout"
    BY <1>5 DEF Resume, Untimed
  <2>2. CASE pass = 0
    <3>1. blocked' = blocked /\ UNCHANGED <<pass, outcome>>
      BY <1>5, <2>1, <2>2 DEF Resume, Untimed, TypeOK
    <3> QED
      BY <3>1 DEF Event!vars
  <2>3. CASE pass = 1
    <3>1. pass' = 0 /\ blocked' = blocked \ {t} /\ outcome' = [outcome EXCEPT ![t] = "event"]
      BY <1>5, <2>1, <2>3 DEF Resume, Return, Untimed, TypeOK
    <3> QED
      BY <2>3, <3>1 DEF Event!Next, Event!Take
  <2> QED
    BY <2>2, <2>3 DEF TypeOK
<1>6. CASE UNCHANGED vars
  BY <1>6 DEF vars, waitVars, Event!vars
<1> QED
  BY <1>1, <1>2, <1>3, <1>4, <1>5, <1>6 DEF Next

(* A synchronous handle on which nobody waits with a timeout implements the
   auto-reset event.  With timeouts it does not: a wait that times out may
   take the flag. *)
THEOREM EventRefinement ==
  ASSUME NeverTimed
  PROVE  SyncSpec => ImplementsEvent
<1>1. SyncInit => Event!Init /\ Untimed
  BY DEF SyncInit, Init, Event!Init, Untimed
<1>2. TypeOK /\ Untimed /\ [Next]_vars => Untimed' /\ [Event!Next]_(Event!vars)
  BY UntimedStep, EventStep
<1>3. SyncSpec => Spec
  BY DEF SyncSpec, SyncInit, Spec
<1> QED
  BY <1>1, <1>2, <1>3, TypeCorrect, PTL DEF SyncSpec, ImplementsEvent, Event!Spec
============================================================================
