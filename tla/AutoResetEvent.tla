--------------------------- MODULE AutoResetEvent ---------------------------
(***************************************************************************)
(* What a synchronous waitable handle promises: a flag that a signal sets  *)
(* and that exactly one successful wait takes, as WaitForSingleObject does *)
(* with an auto-reset event.  A wait that times out takes nothing.         *)
(***************************************************************************)
CONSTANT Threads

VARIABLES
  flag,      \* 1 while a signal is waiting to be taken, else 0
  blocked,   \* threads inside a wait
  outcome    \* per thread: how its last wait ended, or "none"

vars == <<flag, blocked, outcome>>

Init ==
  /\ flag = 0
  /\ blocked = {}
  /\ outcome = [t \in Threads |-> "none"]

(* Signals merge: setting a set flag changes nothing. *)
Set ==
  /\ flag' = 1
  /\ UNCHANGED <<blocked, outcome>>

Block(t) ==
  /\ t \notin blocked
  /\ flag = 0
  /\ blocked' = blocked \cup {t}
  /\ outcome' = [outcome EXCEPT ![t] = "none"]
  /\ UNCHANGED flag

Take(t) ==
  /\ flag = 1
  /\ flag' = 0
  /\ blocked' = blocked \ {t}
  /\ outcome' = [outcome EXCEPT ![t] = "event"]

TimeOut(t) ==
  /\ t \in blocked
  /\ blocked' = blocked \ {t}
  /\ outcome' = [outcome EXCEPT ![t] = "timeout"]
  /\ UNCHANGED flag

Next ==
  \/ Set
  \/ \E t \in Threads : Block(t) \/ Take(t) \/ TimeOut(t)

Spec == Init /\ [][Next]_vars
=============================================================================
