------------------------------ MODULE TaskPool ------------------------------
(***************************************************************************)
(* nsp::toolkit::task_thread_pool of task_scheduler.hpp: a queue of tasks  *)
(* behind a mutex and a condition variable, the threads that serve it, and *)
(* the owner, who allocates, joins and destroys the pool.  task_thread is  *)
(* the pool of one thread (notify_one and notify_all are then the same).   *)
(*                                                                         *)
(* A worker tests join_ before it takes the mutex, so that test is a step  *)
(* of its own; what it does under the mutex, up to the pop or the wait, is *)
(* one step, and the task is started in another, after the unlock.  A wait *)
(* may end for no reason.  Tasks are numbered in the order they are        *)
(* posted; an empty shared_ptr is a task that does nothing.                *)
(***************************************************************************)
EXTENDS Integers, Sequences, FiniteSets

CONSTANTS Workers,   \* the threads there may be at a time
          Counts,    \* the arguments of allocate
          NProcs,    \* os::getnprocs()
          MaxPosts   \* bound on the calls of post

ASSUME WorkersAssumption == IsFiniteSet(Workers) /\ 0 \notin Workers
ASSUME CountsAssumption == Counts \subseteq Int
ASSUME NProcsAssumption == NProcs \in 1..Cardinality(Workers)
ASSUME MaxPostsAssumption == MaxPosts \in Nat

VARIABLES
  queue,    \* task_que_
  join,     \* join_, 0 for its initial -1
  owner,    \* what the owner is doing
  want,     \* threads allocate has still to create
  pc,       \* per worker: its place in pool_handler
  task,     \* per worker: obj, or 0
  posted,   \* number of tasks posted
  started,  \* history: the tasks started, in order, and by whom
  late,     \* history, per worker: tasks it started once join_ was set
  joined    \* history: 1 once a join has returned

vars == <<queue, join, owner, want, pc, task, posted, started, late, joined>>

In(places) == {w \in Workers : pc[w] \in places}
Live == Workers \ In({"none"})       \* ths_
Waiting == In({"wait"})
Awake == In({"check", "lock", "woken"})
Popped == In({"popped"})             \* with a task that is not in the queue and not started

TypeOK ==
  /\ queue \in Seq(Nat)
  /\ join \in 0..1
  /\ owner \in {"idle", "allocating", "joining", "destroying", "gone"}
  /\ want \in Nat
  /\ pc \in [Workers -> {"none", "check", "lock", "wait", "woken", "popped", "run", "exited"}]
  /\ task \in [Workers -> Nat]
  /\ posted \in Nat
  /\ started \in Seq([task : Nat, by : Workers])
  /\ late \in [Workers -> Nat]
  /\ joined \in 0..1

Init ==
  /\ queue = <<>>
  /\ join = 0
  /\ owner = "idle"
  /\ want = 0
  /\ pc = [w \in Workers |-> "none"]
  /\ task = [w \in Workers |-> 0]
  /\ posted = 0
  /\ started = <<>>
  /\ late = [w \in Workers |-> 0]
  /\ joined = 0

WorkerAt(w, here, there) == pc[w] \in here /\ pc' = [pc EXCEPT ![w] = there]

----------------------------------------------------------------------------
(* Plausible slips in task_scheduler.hpp, used only to show that properties notice. *)

\* post does not notify.
SlipPost ==
  /\ posted < MaxPosts /\ owner # "gone"
  /\ posted' = posted + 1
  /\ queue' = Append(queue, posted + 1)
  /\ UNCHANGED <<join, owner, want, pc, task, started, late, joined>>

\* push_front for push_back.
SlipPostFront ==
  /\ posted < MaxPosts /\ owner # "gone"
  /\ posted' = posted + 1
  /\ queue' = <<posted + 1>> \o queue
  /\ IF Waiting = {} THEN UNCHANGED pc
     ELSE \E w \in Waiting : pc' = [pc EXCEPT ![w] = "woken"]
  /\ UNCHANGED <<join, owner, want, task, started, late, joined>>

\* join does not wait for the threads.
SlipJoinReturns ==
  /\ owner = "joining"
  /\ owner' = "idle"
  /\ joined' = 1
  /\ UNCHANGED <<queue, join, want, pc, task, posted, started, late>>

----------------------------------------------------------------------------
(* post. *)

Post ==
  /\ posted < MaxPosts /\ owner # "gone"
  /\ posted' = posted + 1
  /\ queue' = Append(queue, posted + 1)
  /\ IF Waiting = {} THEN UNCHANGED pc
     ELSE \E w \in Waiting : pc' = [pc EXCEPT ![w] = "woken"]
  /\ UNCHANGED <<join, owner, want, task, started, late, joined>>

----------------------------------------------------------------------------
(* pool_handler. *)

Test(w) ==
  /\ WorkerAt(w, {"check"}, IF join = 0 THEN "lock" ELSE "exited")
  /\ UNCHANGED <<queue, join, owner, want, task, posted, started, late, joined>>

Take(w) ==
  /\ queue' = Tail(queue)
  /\ task' = [task EXCEPT ![w] = Head(queue)]
  /\ pc' = [pc EXCEPT ![w] = "popped"]

\* With the mutex: take a task, or wait.  join_ is tested after a wait only.
TakeOrWait(w) ==
  \/ /\ queue # <<>>
     /\ Take(w)
  \/ /\ queue = <<>>
     /\ pc' = [pc EXCEPT ![w] = "wait"]
     /\ UNCHANGED <<queue, task>>

Lock(w) ==
  /\ pc[w] = "lock"
  /\ TakeOrWait(w)
  /\ UNCHANGED <<join, owner, want, posted, started, late, joined>>

Spurious(w) ==
  /\ WorkerAt(w, {"wait"}, "woken")
  /\ UNCHANGED <<queue, join, owner, want, task, posted, started, late, joined>>

Resume(w) ==
  /\ pc[w] = "woken"
  /\ IF join = 1
     THEN pc' = [pc EXCEPT ![w] = "exited"] /\ UNCHANGED <<queue, task>>
     ELSE TakeOrWait(w)
  /\ UNCHANGED <<join, owner, want, posted, started, late, joined>>

(* The mutex is free again: another worker may take the next task and start
   it first. *)
OnTask(w) ==
  /\ WorkerAt(w, {"popped"}, "run")
  /\ started' = Append(started, [task |-> task[w], by |-> w])
  /\ late' = [late EXCEPT ![w] = @ + join]
  /\ UNCHANGED <<queue, join, owner, want, task, posted, joined>>

OnTaskReturns(w) ==
  /\ WorkerAt(w, {"run"}, "check")
  /\ task' = [task EXCEPT ![w] = 0]
  /\ UNCHANGED <<queue, join, owner, want, posted, started, late, joined>>

----------------------------------------------------------------------------
(* The owner: allocate, join and the destructor. *)

AlocCnts(cnt) == IF cnt > 0 /\ cnt < 32 THEN cnt ELSE NProcs

\* A pool that has threads refuses: the call changes nothing.
Allocate(cnt) ==
  /\ owner = "idle"
  /\ Live = {}
  /\ owner' = "allocating"
  /\ want' = AlocCnts(cnt)
  /\ UNCHANGED <<queue, join, pc, task, posted, started, late, joined>>

Spawn(w) ==
  /\ owner = "allocating"
  /\ WorkerAt(w, {"none"}, "check")
  /\ want' = want - 1
  /\ owner' = IF want = 1 THEN "idle" ELSE owner
  /\ late' = [late EXCEPT ![w] = 0]
  /\ UNCHANGED <<queue, join, task, posted, started, joined>>

\* By join() or by the destructor, which calls it.
BeginJoin(why) ==
  /\ owner = "idle"
  /\ owner' = why
  /\ join' = 1
  /\ pc' = [w \in Workers |-> IF pc[w] = "wait" THEN "woken" ELSE pc[w]]
  /\ UNCHANGED <<queue, want, task, posted, started, late, joined>>

Reap(w) ==
  /\ owner \in {"joining", "destroying"}
  /\ WorkerAt(w, {"exited"}, "none")
  /\ UNCHANGED <<queue, join, owner, want, task, posted, started, late, joined>>

JoinReturns ==
  /\ owner = "joining" /\ Live = {}
  /\ owner' = "idle"
  /\ joined' = 1
  /\ UNCHANGED <<queue, join, want, pc, task, posted, started, late>>

DestructorReturns ==
  /\ owner = "destroying" /\ Live = {}
  /\ owner' = "gone"
  /\ joined' = 1
  /\ queue' = <<>>
  /\ UNCHANGED <<join, want, pc, task, posted, started, late>>

----------------------------------------------------------------------------
Handler(w) == Test(w) \/ Lock(w) \/ Resume(w) \/ OnTask(w) \/ OnTaskReturns(w)

OwnerStep ==
  \/ \E cnt \in Counts : Allocate(cnt)
  \/ \E w \in Workers : Spawn(w) \/ Reap(w)
  \/ \E why \in {"joining", "destroying"} : BeginJoin(why)
  \/ JoinReturns \/ DestructorReturns

Next ==
  \/ Post
  \/ \E w \in Workers : Handler(w) \/ Spurious(w)
  \/ OwnerStep

Spec == Init /\ [][Next]_vars

(* Fairness: threads run, tasks return, and what the owner has begun goes on.
   Nobody has to post, to allocate or to join. *)
FairSpec ==
  /\ Spec
  /\ \A w \in Workers : WF_vars(Handler(w))
  /\ WF_vars(\E w \in Workers : Spawn(w) \/ Reap(w))
  /\ WF_vars(JoinReturns \/ DestructorReturns)

----------------------------------------------------------------------------
(* Properties. *)

(* No wakeup is lost while the pool runs: when a worker sleeps, every queued
   task has an awake worker of its own on its way to the queue. *)
WorkConserving ==
  join = 0 /\ Waiting # {} => Len(queue) <= Cardinality(Awake)

Started == {started[i].task : i \in DOMAIN started}
Held == {task[w] : w \in Popped}

(* Tasks are popped in the order they were posted and start once each: those
   not in the queue have started or are held by one worker that is about to
   start them, until the destructor drops the rest.  A worker starts its tasks
   in that order; workers may overtake each other, so that only a pool of one
   thread keeps the order of the posts. *)
StartedInTurn ==
  owner # "gone" =>
    /\ queue = [k \in 1..Len(queue) |-> posted - Len(queue) + k]
    /\ Started \cup Held = 1..(posted - Len(queue))
    /\ Started \cap Held = {}
    /\ \A v, w \in Popped : task[v] = task[w] => v = w
    /\ \A i, j \in DOMAIN started : i < j =>
         /\ started[i].task # started[j].task
         /\ started[i].by = started[j].by => started[i].task < started[j].task

(* After join_ is set a worker that is between its test and the start of a task
   starts that one more, never two. *)
OneLateStart == \A w \in Workers : late[w] <= 1

(* Once a join has returned no task starts again, even if the owner allocates
   new threads: join_ is never reset. *)
JoinIsFinal == [][joined = 1 => started' = started]_vars

(* A task posted to a pool that has threads is started, unless the pool is
   joined first. *)
EveryTaskStarts ==
  \A k \in 1..MaxPosts :
    (posted >= k /\ Live # {}) ~> (k \in Started \/ join = 1)

(* The destructor, which joins and then clears the queue, comes to an end. *)
DestructorEnds == owner = "destroying" ~> owner = "gone"
=============================================================================
