------------------------------ MODULE Singleton ------------------------------
(***************************************************************************)
(* nsp::toolkit::singleton<T> of singleton.hpp: a pointer that threads load *)
(* without a lock, and a lock under which it is created, replaced by one of *)
(* the application's own objects (associate) or deleted (release).          *)
(*                                                                          *)
(* A stretch of code under the lock that stores once is one step.  release  *)
(* is not: it deletes the object and then stores nullptr, and the lock does *)
(* not hold back those who only load.  associated_ is no atomic: release    *)
(* reads it a first time without the lock.                                  *)
(***************************************************************************)
EXTENDS Integers, FiniteSets

CONSTANTS Threads,
          Heap,      \* what new T can return; deleted memory is used again
          Own,       \* objects of the application, for associate
          None       \* nullptr

Objects == Heap \cup Own

ObjectsDistinct == Heap \cap Own = {} /\ None \notin Heap \cup Own \cup Threads

VARIABLES
  instance,    \* instance_
  associated,  \* associated_
  lock,        \* the thread that holds lock_, or None
  mem,         \* per object: "free" or "live"
  pc,          \* per thread: its place in a call
  tmp,         \* per thread: the local pointer
  arg          \* per thread: the argument of associate

vars == <<instance, associated, lock, mem, pc, tmp, arg>>

Places == {"idle", "create", "adopt", "flag", "lock", "delete", "store"}

TypeOK ==
  /\ instance \in Objects \cup {None}
  /\ associated \in {0, 1}
  /\ lock \in Threads \cup {None}
  /\ mem \in [Objects -> {"free", "live"}]
  /\ pc \in [Threads -> Places]
  /\ tmp \in [Threads -> Objects \cup {None}]
  /\ arg \in [Threads -> Own \cup {None}]

Init ==
  /\ instance = None
  /\ associated = 0
  /\ lock = None
  /\ mem = [o \in Objects |-> IF o \in Own THEN "live" ELSE "free"]
  /\ pc = [t \in Threads |-> "idle"]
  /\ tmp = [t \in Threads |-> None]
  /\ arg = [t \in Threads |-> None]

At(t, here, there) == pc[t] = here /\ pc' = [pc EXCEPT ![t] = there]

----------------------------------------------------------------------------
(* Plausible slips, used only to show that properties notice. *)

\* instance does not look again once it has the lock.
SlipCreate(t, o) ==
  /\ lock = None /\ mem[o] = "free"
  /\ At(t, "create", "idle")
  /\ instance' = o
  /\ associated' = 0
  /\ mem' = [mem EXCEPT ![o] = "live"]
  /\ UNCHANGED <<lock, tmp, arg>>

\* release looks again at the pointer, not at associated_.
SlipRetest(t) ==
  /\ lock = None
  /\ tmp' = [tmp EXCEPT ![t] = instance]
  /\ IF instance # None
     THEN At(t, "lock", "delete") /\ lock' = t
     ELSE At(t, "lock", "idle") /\ UNCHANGED lock
  /\ UNCHANGED <<instance, associated, mem, arg>>

----------------------------------------------------------------------------
(* instance. *)

\* A thread that loads an object returns it, which changes nothing.
Load(t) ==
  /\ instance = None
  /\ At(t, "idle", "create")
  /\ UNCHANGED <<instance, associated, lock, mem, tmp, arg>>

\* Under the lock, when nobody has been faster.
Create(t, o) ==
  /\ lock = None /\ instance = None /\ mem[o] = "free"
  /\ At(t, "create", "idle")
  /\ instance' = o
  /\ associated' = 0
  /\ mem' = [mem EXCEPT ![o] = "live"]
  /\ UNCHANGED <<lock, tmp, arg>>

CreatedAlready(t) ==
  /\ lock = None /\ instance # None
  /\ At(t, "create", "idle")
  /\ UNCHANGED <<instance, associated, lock, mem, tmp, arg>>

----------------------------------------------------------------------------
(* associate. *)

Associate(t, ptr) ==
  /\ instance = None
  /\ At(t, "idle", "adopt")
  /\ arg' = [arg EXCEPT ![t] = ptr]
  /\ UNCHANGED <<instance, associated, lock, mem, tmp>>

Adopt(t) ==
  /\ lock = None
  /\ At(t, "adopt", "idle")
  /\ IF instance = None
     THEN instance' = arg[t] /\ associated' = 1
     ELSE UNCHANGED <<instance, associated>>
  /\ UNCHANGED <<lock, mem, tmp, arg>>

----------------------------------------------------------------------------
(* release. *)

Release(t) ==
  /\ instance # None
  /\ At(t, "idle", "flag")
  /\ UNCHANGED <<instance, associated, lock, mem, tmp, arg>>

TestFlag(t) ==
  /\ At(t, "flag", IF associated = 0 THEN "lock" ELSE "idle")
  /\ UNCHANGED <<instance, associated, lock, mem, tmp, arg>>

Retest(t) ==
  /\ lock = None
  /\ tmp' = [tmp EXCEPT ![t] = instance]
  /\ IF instance # None /\ associated = 0
     THEN At(t, "lock", "delete") /\ lock' = t
     ELSE At(t, "lock", "idle") /\ UNCHANGED lock
  /\ UNCHANGED <<instance, associated, mem, arg>>

Delete(t) ==
  /\ At(t, "delete", "store")
  /\ mem' = [mem EXCEPT ![tmp[t]] = "free"]
  /\ UNCHANGED <<instance, associated, lock, tmp, arg>>

Store(t) ==
  /\ At(t, "store", "idle")
  /\ instance' = None
  /\ lock' = None
  /\ UNCHANGED <<associated, mem, tmp, arg>>

----------------------------------------------------------------------------
InCall(t) ==
  \/ \E o \in Heap : Create(t, o)
  \/ CreatedAlready(t) \/ Adopt(t) \/ TestFlag(t) \/ Retest(t) \/ Delete(t) \/ Store(t)

Next ==
  \E t \in Threads :
    \/ Load(t) \/ Release(t)
    \/ \E ptr \in Own : Associate(t, ptr)
    \/ InCall(t)

Spec == Init /\ [][Next]_vars

----------------------------------------------------------------------------
(* Properties. *)

(* There is one instance: whatever instance() made and release() has not
   deleted is the object everybody finds, however the calls are mixed. *)
OneInstance == \A o \in Heap : mem[o] = "live" => instance = o

(* release deletes what instance() made, once, and never an object of the
   application, although it reads associated_ before it has the lock. *)
DeletesItsOwn ==
  /\ \A t \in Threads : pc[t] = "delete" =>
       lock = t /\ tmp[t] \in Heap /\ mem[tmp[t]] = "live" /\ instance = tmp[t]
  /\ \A o \in Own : mem[o] = "live"

=============================================================================
