----------------------------- MODULE MCThreads -----------------------------
(* Small instances for TLC of what the threads of a process share: the task
   pool, the singleton, the once-only flag and the thread handles.  A behaviour
   uses one of them, chosen in the initial state, and leaves the others alone. *)
EXTENDS TaskPool

CONSTANTS Threads, Heap, Own, None, Rows, Handles, Tids

VARIABLES instance, associated, lock, mem, place, tmp, arg,
          inited, stored, step, after, done,
          handle, thread, joining, made, let_go, undefined,
          used

Single == INSTANCE Singleton WITH pc <- place
Once == INSTANCE OnceFlag WITH pc <- step, late <- after
Handle == INSTANCE ThreadHandle WITH NoThread <- None

singletonVars == <<instance, associated, lock, mem, place, tmp, arg>>
onceVars == <<inited, stored, step, after, done>>
handleVars == <<handle, thread, joining, made, let_go, undefined>>
allVars == <<vars, singletonVars, onceVars, handleVars, used>>

Mixed == {2, 0}     \* a count, and one that falls back on os::getnprocs()
One == {1}

MCInit ==
  /\ Init /\ Single!Init /\ Once!Init /\ Handle!Init
  /\ used \in {"pool", "singleton", "once", "handle"}

MCNext ==
  \/ used = "pool" /\ Next /\ UNCHANGED <<singletonVars, onceVars, handleVars, used>>
  \/ used = "singleton" /\ Single!Next /\ UNCHANGED <<vars, onceVars, handleVars, used>>
  \/ used = "once" /\ Once!Next /\ UNCHANGED <<vars, singletonVars, handleVars, used>>
  \/ used = "handle" /\ Handle!Next /\ UNCHANGED <<vars, singletonVars, onceVars, used>>
  \/ owner = "gone" /\ UNCHANGED allVars   \* the pool is destroyed

(* The fairness of the pool's FairSpec; in the other three cases none of these
   actions is enabled.  The other modules state no liveness. *)
PoolFairness ==
  /\ \A w \in Workers : WF_vars(Handler(w))
  /\ WF_vars(\E w \in Workers : Spawn(w) \/ Reap(w))
  /\ WF_vars(JoinReturns \/ DestructorReturns)

MCSpec == MCInit /\ [][MCNext]_allVars /\ PoolFairness

(* There is one instance (module Singleton). *)
OneInstance == Single!OneInstance

(* release deletes what instance() made (module Singleton). *)
DeletesItsOwn == Single!DeletesItsOwn

(* One caller initialises the table, and who comes after reads what is stored
   (module OnceFlag). *)
InitialisedOnce == Once!InitialisedOnce

(* A handle names a thread of its own that is not reaped (module ThreadHandle). *)
OwnsItsThread == Handle!OwnsItsThread

(* A thread that was detached is freed when it returns (module ThreadHandle). *)
DetachedIsFreed == Handle!DetachedIsFreed
=============================================================================
