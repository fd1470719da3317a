---------------------------- MODULE ThreadHandle ----------------------------
(* The thread handles of com/posix_thread.c on POSIX: a pthread_t, an attribute
   object and the flag detached_.  Each handle has one owner, who creates,
   joins and detaches; threads return when they like.

   A pthread_t (Tids) names a thread until it is reaped, and then may name
   another.  After a pthread_create that failed it names nothing in
   particular. *)
EXTENDS Integers, FiniteSets

CONSTANTS Handles, Tids, NoThread   \* pid_ = 0

VARIABLES
  handle,    \* per handle: pid, detached, and whether its attribute object lives
  thread,    \* per pthread_t: "free", "running", "zombie" (to be joined)
  joining,   \* per handle: the pthread_t its owner is joining, or NoThread
  made,      \* history, per handle: its last create succeeded
  let_go,    \* history: threads that posix__pthread_detach was called for
  undefined  \* history: pthread_join was passed what names no thread to join

vars == <<handle, thread, joining, made, let_go, undefined>>

TypeOK ==
  /\ handle \in [Handles -> [pid : Tids \cup {NoThread}, detached : BOOLEAN, attr : BOOLEAN]]
  /\ thread \in [Tids -> {"free", "running", "zombie"}]
  /\ joining \in [Handles -> Tids \cup {NoThread}]
  /\ made \in [Handles -> BOOLEAN]
  /\ let_go \in SUBSET Tids
  /\ undefined \in BOOLEAN

Init ==   \* POSIX_PTHREAD_TYPE_INIT
  /\ handle = [h \in Handles |-> [pid |-> NoThread, detached |-> FALSE, attr |-> FALSE]]
  /\ thread = [t \in Tids |-> "free"]
  /\ joining = [h \in Handles |-> NoThread]
  /\ made = [h \in Handles |-> FALSE]
  /\ let_go = {}
  /\ undefined = FALSE

Joinable(h) == handle[h].pid # NoThread /\ ~handle[h].detached

Idle(h) == joining[h] = NoThread

\* join leaves detached_ alone, and takes pid_ for zeroed only once it is back.
SlipJoin(h) ==
  /\ Idle(h) /\ Joinable(h) /\ made[h]
  /\ joining' = [joining EXCEPT ![h] = handle[h].pid]
  /\ undefined' = (undefined \/ thread[handle[h].pid] = "free")
  /\ UNCHANGED <<handle, thread, made, let_go>>

(* create, critical_create and realtime_create; an owner does not write over a
   handle through which he could still join a thread. *)
Vacant(h) == Idle(h) /\ ~(made[h] /\ Joinable(h))

Create(h) ==
  /\ Vacant(h)
  /\ \E t \in Tids :
       /\ thread[t] = "free"
       /\ thread' = [thread EXCEPT ![t] = "running"]
       /\ handle' = [handle EXCEPT ![h] = [pid |-> t, detached |-> FALSE, attr |-> TRUE]]
       /\ let_go' = let_go \ {t}
  /\ made' = [made EXCEPT ![h] = TRUE]
  /\ UNCHANGED <<joining, undefined>>

CreateFails(h) ==
  /\ Vacant(h)
  /\ \E any \in Tids \cup {NoThread} :
       handle' = [handle EXCEPT ![h] = [pid |-> any, detached |-> FALSE, attr |-> TRUE]]
  /\ made' = [made EXCEPT ![h] = FALSE]
  /\ UNCHANGED <<thread, joining, let_go, undefined>>

(* realtime_create: the scheduling policy is refused before detached_ and pid_
   are written. *)
PolicyRefused(h) ==
  /\ Vacant(h)
  /\ handle' = [handle EXCEPT ![h].attr = TRUE]
  /\ made' = [made EXCEPT ![h] = FALSE]
  /\ UNCHANGED <<thread, joining, let_go, undefined>>

(* pthread_attr_setdetachstate changes the attribute object, which only a
   pthread_create would look at. *)
Detach(h) ==
  /\ Idle(h) /\ Joinable(h)
  /\ handle' = [handle EXCEPT ![h] = [pid |-> NoThread, detached |-> TRUE, attr |-> FALSE]]
  /\ let_go' = IF made[h] THEN let_go \cup {handle[h].pid} ELSE let_go
  /\ UNCHANGED <<thread, joining, made, undefined>>

(* The handle is emptied before the owner blocks.  Joining after a failed
   create would be the caller's mistake. *)
Join(h) ==
  /\ Idle(h) /\ Joinable(h) /\ made[h]
  /\ joining' = [joining EXCEPT ![h] = handle[h].pid]
  /\ undefined' = (undefined \/ thread[handle[h].pid] = "free")
  /\ handle' = [handle EXCEPT ![h].pid = NoThread, ![h].detached = TRUE]
  /\ UNCHANGED <<thread, made, let_go>>

Joined(h) ==
  /\ ~Idle(h) /\ thread[joining[h]] = "zombie"
  /\ thread' = [thread EXCEPT ![joining[h]] = "free"]
  /\ joining' = [joining EXCEPT ![h] = NoThread]
  /\ handle' = [handle EXCEPT ![h].attr = FALSE]
  /\ UNCHANGED <<made, let_go, undefined>>

(* No call of the code makes a thread detached, so it stays until it is
   joined. *)
Return(t) ==
  /\ thread[t] = "running"
  /\ thread' = [thread EXCEPT ![t] = "zombie"]
  /\ UNCHANGED <<handle, joining, made, let_go, undefined>>

Next ==
  \/ \E h \in Handles : \/ Create(h) \/ CreateFails(h) \/ PolicyRefused(h)
                        \/ Detach(h) \/ Join(h) \/ Joined(h)
  \/ \E t \in Tids : Return(t)

Spec == Init /\ [][Next]_vars

------------------------------------------------------------------------------
(* What a handle names after a create that succeeded is a thread of its own
   that is not reaped yet, so that pthread_join is called once per thread, and
   never for a pthread_t that has meanwhile been given to another thread. *)
Names(h) == IF Idle(h) THEN handle[h].pid ELSE joining[h]

OwnsItsThread ==
  /\ ~undefined
  /\ \A h \in Handles : made[h] /\ Names(h) # NoThread =>
       /\ thread[Names(h)] # "free"
       /\ \A k \in Handles \ {h} : made[k] => Names(k) # Names(h)

(* icom/posix_thread.h, line 71: posix__pthread_detach detaches the thread.  A
   detached thread is gone when it returns. *)
DetachedIsFreed == \A t \in let_go : thread[t] # "zombie"
=============================================================================
