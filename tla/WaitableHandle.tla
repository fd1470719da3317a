--------------------------- MODULE WaitableHandle ---------------------------
(***************************************************************************)
(* posix__waitable_handle_t of com/posix_wait.c (POSIX branch): a flag     *)
(* pass_ under a mutex, and a condition variable.  A synchronous handle    *)
(* releases one waiter per signal and resets itself; a notification handle *)
(* releases all waiters and stays signalled until it is blocked again.     *)
(*                                                                         *)
(* A stretch of code under the mutex is one step; pthread_cond_wait gives  *)
(* the mutex up, so a wait is an entry step, a stay in the condition       *)
(* variable's queue, and a resumption after being woken.                   *)
(***************************************************************************)
EXTENDS Integers, FiniteSets

CONSTANTS Threads,
          Intervals,   \* the timeouts callers pass, in milliseconds
          Spurious,    \* whether pthread_cond_wait may return unprovoked
          MaxSignals   \* bound on the signals of a behaviour

ASSUME ThreadsAssumption == IsFiniteSet(Threads)
ASSUME SpuriousAssumption == Spurious \in BOOLEAN
ASSUME IntervalsAssumption == \A ms \in Intervals : ms \in Int
ASSUME MaxSignalsAssumption == MaxSignals \in Nat

VARIABLES
  sync,      \* waiter->sync_: TRUE in a synchronous, FALSE in a notification handle
  pass,      \* waiter->pass_
  pc,        \* "idle", "queued" (in the condition variable), "woken"
  interval,  \* the interval of the thread's current or last wait
  woke,      \* why a woken thread woke: "signal", "timeout" or "spurious"
  outcome,   \* the last return value: "none", "event" (0) or "timeout"
  signals,   \* history: signals given
  events,    \* history: waits on a synchronous handle that returned 0
  heard      \* history: signalled since the thread's wait began, or at its start

waitVars == <<pc, interval, woke, outcome, events, heard>>
vars == <<sync, pass, waitVars, signals>>

TypeOK ==
  /\ sync \in BOOLEAN
  /\ pass \in 0..1
  /\ pc \in [Threads -> {"idle", "queued", "woken"}]
  /\ interval \in [Threads -> Intervals \cup {0}]
  /\ woke \in [Threads -> {"signal", "timeout", "spurious"}]
  /\ outcome \in [Threads -> {"none", "event", "timeout"}]
  /\ signals \in 0..MaxSignals
  /\ events \in Nat
  /\ heard \in [Threads -> {"yes", "no"}]

Init ==
  /\ sync \in BOOLEAN
  /\ pass = 0
  /\ pc = [t \in Threads |-> "idle"]
  /\ interval = [t \in Threads |-> 0]
  /\ woke = [t \in Threads |-> "signal"]
  /\ outcome = [t \in Threads |-> "none"]
  /\ signals = 0
  /\ events = 0
  /\ heard = [t \in Threads |-> "no"]

Queued == {t \in Threads : pc[t] = "queued"}

\* A successful wait does not reset the flag.
SlipReturn(t, result) ==
  /\ pc' = [pc EXCEPT ![t] = "idle"]
  /\ outcome' = [outcome EXCEPT ![t] = result]
  /\ events' = IF sync /\ result = "event" THEN events + 1 ELSE events
  /\ UNCHANGED pass

(* The wait returns; only a synchronous handle resets itself. *)
Return(t, result) ==
  /\ pc' = [pc EXCEPT ![t] = "idle"]
  /\ outcome' = [outcome EXCEPT ![t] = result]
  /\ events' = IF sync /\ result = "event" THEN events + 1 ELSE events
  /\ pass' = IF sync THEN 0 ELSE pass

----------------------------------------------------------------------------
(* Plausible slips in posix_wait.c, used only to show that properties notice. *)

\* The wait tests the flag with if instead of while.
SlipResume(t) ==
  /\ pc[t] = "woken"
  /\ Return(t, IF woke[t] = "timeout" THEN "timeout" ELSE "event")
  /\ UNCHANGED <<sync, interval, woke, signals, heard>>

\* A signal that wakes the set Woken(W), and stores Flag.
SlipSigWith(Flag, Woken(_)) ==
  /\ signals < MaxSignals
  /\ signals' = signals + 1
  /\ pass' = Flag
  /\ heard' = [t \in Threads |-> "yes"]
  /\ \E W \in SUBSET Queued :
       /\ Woken(W)
       /\ pc' = [t \in Threads |-> IF t \in W THEN "woken" ELSE pc[t]]
       /\ woke' = [t \in Threads |-> IF t \in W THEN "signal" ELSE woke[t]]
  /\ UNCHANGED <<sync, interval, outcome, events>>

\* A notification handle wakes one thread.
SlipSigOne ==
  SlipSigWith(1, LAMBDA W : Cardinality(W) = (IF Queued = {} THEN 0 ELSE 1))

\* The flag is set and nobody is woken.
SlipSigSilent == SlipSigWith(1, LAMBDA W : W = {})

----------------------------------------------------------------------------
(* posix__waitfor_waitable_handle up to the condition wait: a set flag lets
   the caller through, whatever the interval. *)
Wait(t, ms) ==
  /\ pc[t] = "idle"
  /\ interval' = [interval EXCEPT ![t] = ms]
  /\ heard' = [heard EXCEPT ![t] = IF pass = 1 THEN "yes" ELSE "no"]
  /\ IF pass = 1
     THEN Return(t, "event")
     ELSE /\ pc' = [pc EXCEPT ![t] = "queued"]
          /\ outcome' = [outcome EXCEPT ![t] = "none"]
          /\ UNCHANGED <<pass, events>>
  /\ UNCHANGED <<sync, woke, signals>>

Wake(t, why) ==
  /\ pc[t] = "queued"
  /\ pc' = [pc EXCEPT ![t] = "woken"]
  /\ woke' = [woke EXCEPT ![t] = why]
  /\ UNCHANGED <<sync, pass, interval, outcome, signals, events, heard>>

(* pthread_cond_timedwait gives up; an interval of 0 or less never does. *)
TimedOut(t) == interval[t] > 0 /\ Wake(t, "timeout")

WokenForNothing(t) == Spurious /\ Wake(t, "spurious")

(* The mutex is taken again.  A synchronous wait loops until the flag is set
   or the time is up, and resets the flag in either case; a notification
   wait returns what the condition variable returned. *)
Resume(t) ==
  /\ pc[t] = "woken"
  /\ IF sync /\ woke[t] # "timeout" /\ pass = 0
     THEN /\ pc' = [pc EXCEPT ![t] = "queued"]
          /\ UNCHANGED <<pass, outcome, events>>
     ELSE Return(t, IF woke[t] = "timeout" THEN "timeout" ELSE "event")
  /\ UNCHANGED <<sync, interval, woke, signals, heard>>

(* posix__sig_waitable_handle: pthread_cond_signal releases one of the
   queued threads, pthread_cond_broadcast all of them. *)
Sig ==
  /\ signals < MaxSignals
  /\ signals' = signals + 1
  /\ pass' = 1
  /\ heard' = [t \in Threads |-> "yes"]
  /\ \E W \in SUBSET Queued :
       /\ IF sync THEN Cardinality(W) = (IF Queued = {} THEN 0 ELSE 1) ELSE W = Queued
       /\ pc' = [t \in Threads |-> IF t \in W THEN "woken" ELSE pc[t]]
       /\ woke' = [t \in Threads |-> IF t \in W THEN "signal" ELSE woke[t]]
  /\ UNCHANGED <<sync, interval, outcome, events>>

(* posix__block_waitable_handle: no effect on a synchronous handle. *)
Block ==
  /\ ~sync
  /\ pass' = 0
  /\ UNCHANGED <<sync, waitVars, signals>>

Next ==
  \/ Sig \/ Block
  \/ \E t \in Threads :
       \/ \E ms \in Intervals : Wait(t, ms)
       \/ TimedOut(t) \/ WokenForNothing(t) \/ Resume(t)

Spec == Init /\ [][Next]_vars

(* The handles that posix__init_synchronous_waitable_handle initialises. *)
SyncInit == Init /\ sync
SyncSpec == SyncInit /\ [][Next]_vars

(* Fairness: a woken thread gets the mutex, and a timeout expires.  Nobody is
   obliged to wait, to signal or to block. *)
FairSpec ==
  Spec /\ \A t \in Threads : WF_vars(Resume(t)) /\ WF_vars(TimedOut(t))

----------------------------------------------------------------------------
(* Properties. *)

(* Synchronous handle: a signal releases at most one wait, whoever is queued,
   woken or timing out when it comes. *)
OneSignalOneEvent == sync => events + pass <= signals

(* Synchronous handle: no signal gets stuck: while one is pending and a thread
   is queued, some thread is on its way to look at the flag. *)
NoStuckSignal ==
  sync /\ pass = 1 /\ Queued # {} => \E t \in Threads : pc[t] = "woken"

(* A wait returns 0 only if the handle was signalled when the wait began or
   was signalled during it.  The wait of a notification handle tests the flag
   with if, not while: one that wakes for nothing also returns 0. *)
EventMeansSignal ==
  \A t \in Threads : outcome[t] = "event" =>
    heard[t] = "yes" \/ (~sync /\ woke[t] = "spurious")

(* Notification handle: everyone waiting when the signal comes is released,
   also when the handle is blocked again right after. *)
BroadcastReleases ==
  \A t \in Threads : (~sync /\ heard[t] = "yes") ~> (pc[t] = "idle")

(* A synchronous handle implements the auto-reset event. *)
Event == INSTANCE AutoResetEvent WITH
           flag <- pass, blocked <- {t \in Threads : pc[t] # "idle"}

ImplementsEvent == Event!Spec
=============================================================================
