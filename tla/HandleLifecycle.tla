-------------------------- MODULE HandleLifecycle --------------------------
(***************************************************************************)
(* What icom/object.h promises of a handle, without blocks, locks, counts  *)
(* or a table.  A handle is issued once, in increasing order; while it is  *)
(* open anyone may take a reference; closing it forbids new references;    *)
(* the object retires when it is closed and the last reference is back,    *)
(* and a retired object is destroyed (unloaded) exactly once.              *)
(***************************************************************************)
EXTENDS Integers

CONSTANTS Callers, MaxHandle

Handles == 1..MaxHandle

VARIABLES
  life,     \* handle -> "none", "open", "closing", "retired" or "destroyed"
  holders   \* handle -> the callers that hold a reference

vars == <<life, holders>>

States == {"none", "open", "closing", "retired", "destroyed"}

TypeOK ==
  /\ life \in [Handles -> States]
  /\ holders \in [Handles -> SUBSET Callers]

Init ==
  /\ life = [h \in Handles |-> "none"]
  /\ holders = [h \in Handles |-> {}]

Becomes(h, s) == life' = [life EXCEPT ![h] = s]

(* objallo: the next handle. *)
Open(h) ==
  /\ life[h] = "none"
  /\ \A g \in 1..(h - 1) : life[g] # "none"
  /\ Becomes(h, "open")
  /\ UNCHANGED holders

(* objrefr, and objreff, which also closes. *)
Acquire(c, h) ==
  /\ life[h] = "open"
  /\ \A g \in Handles : c \notin holders[g]
  /\ holders' = [holders EXCEPT ![h] = @ \cup {c}]
  /\ (UNCHANGED life \/ Becomes(h, "closing"))

(* objdefr: the last reference to a closing object retires it. *)
Release(c, h) ==
  /\ c \in holders[h]
  /\ holders' = [holders EXCEPT ![h] = @ \ {c}]
  /\ IF life[h] = "closing" /\ holders[h] = {c}
     THEN Becomes(h, "retired")
     ELSE UNCHANGED life

(* objclos *)
Close(h) ==
  /\ life[h] = "open"
  /\ Becomes(h, IF holders[h] = {} THEN "retired" ELSE "closing")
  /\ UNCHANGED holders

(* The unloader. *)
Destroy(h) ==
  /\ life[h] = "retired"
  /\ Becomes(h, "destroyed")
  /\ UNCHANGED holders

Next ==
  \E h \in Handles :
    \/ Open(h) \/ Close(h) \/ Destroy(h)
    \/ \E c \in Callers : Acquire(c, h) \/ Release(c, h)

Spec == Init /\ [][Next]_vars
============================================================================
