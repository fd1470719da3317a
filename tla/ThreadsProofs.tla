---------------------------- MODULE ThreadsProofs ---------------------------
(* What the threads of a process share stays whole, for any number of threads,
   tasks, handles and objects: the task pool starts every task once, in turn,
   and leaves none behind, the singleton has one instance and deletes only its
   own, the once-only flag lets one caller initialise, and a thread handle names
   a thread of its own.  The specifications and the properties are those of
   MCThreads, so that what TLC checks on small instances is what is proved. *)
EXTENDS MCThreads, FiniteSetTheorems, SequenceTheorems, TLAPS

-----------------------------------------------------------------------------
(* The task pool. *)

(* allocate creates a thread only while one is still wanted. *)
WantInv == owner = "allocating" => want > 0

TypeInv == TypeOK /\ WantInv

LEMMA WorkerCount == Cardinality(Workers) \in Nat
  BY WorkersAssumption, FS_CardinalityType

LEMMA AlocCntsPositive == \A cnt \in Counts : AlocCnts(cnt) \in Nat /\ AlocCnts(cnt) > 0
  BY CountsAssumption, NProcsAssumption, WorkerCount DEF AlocCnts

LEMMA TakeOrWaitType ==
  ASSUME TypeOK, NEW w \in Workers, TakeOrWait(w)
  PROVE  /\ queue' \in Seq(Nat)
         /\ pc' \in [Workers -> {"none", "check", "lock", "wait", "woken", "popped", "run", "exited"}]
         /\ task' \in [Workers -> Nat]
<1>1. CASE queue # <<>> /\ Take(w)
  <2>1. Head(queue) \in Nat /\ Tail(queue) \in Seq(Nat)
    BY <1>1 DEF TypeOK
  <2> QED
    BY <1>1, <2>1 DEF Take, TypeOK
<1>2. CASE queue = <<>> /\ ~Take(w)
  BY <1>2 DEF TakeOrWait, TypeOK
<1> QED
  BY <1>1, <1>2 DEF TakeOrWait, TypeOK

LEMMA TypeInit == Init => TypeInv
  BY DEF Init, TypeInv, TypeOK, WantInv

LEMMA TypeStep == TypeInv /\ [Next]_vars => TypeInv'
<1> SUFFICES ASSUME TypeInv, [Next]_vars PROVE TypeInv'
  OBVIOUS
<1> USE DEF TypeInv, WantInv
<1>1. CASE Post
  <2>1. queue' \in Seq(Nat) /\ posted' \in Nat
    BY <1>1 DEF Post, TypeOK
  <2>2. pc' \in [Workers -> {"none", "check", "lock", "wait", "woken", "popped", "run", "exited"}]
    BY <1>1 DEF Post, TypeOK, Waiting, In
  <2> QED
    BY <1>1, <2>1, <2>2 DEF Post, TypeOK
<1>2. ASSUME NEW w \in Workers, Test(w) \/ Spurious(w) \/ OnTaskReturns(w) PROVE TypeInv'
  <2>1. pc' \in [Workers -> {"none", "check", "lock", "wait", "woken", "popped", "run", "exited"}]
    BY <1>2 DEF Test, Spurious, OnTaskReturns, WorkerAt, TypeOK
  <2>2. task' \in [Workers -> Nat]
    BY <1>2 DEF Test, Spurious, OnTaskReturns, TypeOK
  <2> QED
    BY <1>2, <2>1, <2>2 DEF Test, Spurious, OnTaskReturns, TypeOK
<1>11. ASSUME NEW w \in Workers, OnTask(w) PROVE TypeInv'
  <2>1. started' \in Seq([task : Nat, by : Workers])
    <3>1. [task |-> task[w], by |-> w] \in [task : Nat, by : Workers]
      BY DEF TypeOK
    <3> QED
      BY <1>11, <3>1 DEF OnTask, TypeOK
  <2>2. late' \in [Workers -> Nat]
    BY <1>11 DEF OnTask, TypeOK
  <2> QED
    BY <1>11, <2>1, <2>2 DEF OnTask, WorkerAt, TypeOK
<1>3. ASSUME NEW w \in Workers, Lock(w) PROVE TypeInv'
  BY <1>3, TakeOrWaitType DEF Lock, TypeOK
<1>4. ASSUME NEW w \in Workers, Resume(w) PROVE TypeInv'
  <2>1. CASE join = 1
    BY <1>4, <2>1 DEF Resume, TypeOK
  <2>2. CASE join # 1
    BY <1>4, <2>2, TakeOrWaitType DEF Resume, TypeOK
  <2> QED
    BY <2>1, <2>2
<1>5. ASSUME NEW cnt \in Counts, Allocate(cnt) PROVE TypeInv'
  BY <1>5, AlocCntsPositive DEF Allocate, TypeOK
<1>6. ASSUME NEW w \in Workers, Spawn(w) PROVE TypeInv'
  <2>1. want' \in Nat /\ (owner' = "allocating" => want' > 0)
    BY <1>6 DEF Spawn, TypeOK
  <2>2. late' \in [Workers -> Nat]
    BY <1>6 DEF Spawn, TypeOK
  <2> QED
    BY <1>6, <2>1, <2>2 DEF Spawn, WorkerAt, TypeOK
<1>7. ASSUME NEW w \in Workers, Reap(w) PROVE TypeInv'
  BY <1>7 DEF Reap, WorkerAt, TypeOK
<1>8. ASSUME NEW why \in {"joining", "destroying"}, BeginJoin(why) PROVE TypeInv'
  BY <1>8 DEF BeginJoin, TypeOK
<1>9. CASE JoinReturns \/ DestructorReturns
  <2>1. queue' \in Seq(Nat)
    <3>1. CASE JoinReturns
      BY <3>1 DEF JoinReturns, TypeOK
    <3>2. CASE DestructorReturns
      BY <3>2 DEF DestructorReturns
    <3> QED
      BY <1>9, <3>1, <3>2
  <2>2. owner' \in {"idle", "gone"} /\ joined' = 1
    BY <1>9 DEF JoinReturns, DestructorReturns
  <2>3. UNCHANGED <<join, want, pc, task, posted, started, late>>
    BY <1>9 DEF JoinReturns, DestructorReturns
  <2> QED
    BY <2>1, <2>2, <2>3 DEF TypeOK
<1>10. CASE UNCHANGED vars
  BY <1>10 DEF vars, TypeOK
<1> QED
  BY <1>1, <1>2, <1>3, <1>4, <1>5, <1>6, <1>7, <1>8, <1>9, <1>10, <1>11 DEF Next, Handler, OwnerStep

(* Every variable keeps its type. *)
THEOREM TypeCorrect == Spec => []TypeOK
<1>1. Spec => []TypeInv
  BY TypeInit, TypeStep, PTL DEF Spec
<1> QED
  BY <1>1, PTL DEF TypeInv

----------------------------------------------------------------------------
(* Work conservation.  What has to be shown of a step is how it changes the
   set of awake workers and the length of the queue. *)

LEMMA AwakeFinite == IsFiniteSet(Awake) /\ Cardinality(Awake) \in Nat
<1>1. Awake \subseteq Workers
  BY DEF Awake, In
<1> QED
  BY <1>1, WorkersAssumption, FS_Subset, FS_CardinalityType

LEMMA OneMore ==
  ASSUME NEW w, w \notin Awake, Awake' = Awake \cup {w}
  PROVE  Cardinality(Awake)' = Cardinality(Awake) + 1
  BY AwakeFinite, FS_AddElement

LEMMA OneLess ==
  ASSUME NEW w, w \in Awake, Awake' = Awake \ {w}
  PROVE  Cardinality(Awake)' = Cardinality(Awake) - 1
  BY AwakeFinite, FS_RemoveElement

LEMMA TakeConserves ==
  ASSUME TypeOK, WorkConserving, NEW w \in Awake, TakeOrWait(w), join' = join
  PROVE  WorkConserving'
<1>0. w \in Workers
  BY DEF Awake, In
<1>1. CASE queue # <<>> /\ Take(w)
  <2>1. Waiting' = Waiting /\ Awake' = Awake \ {w}
    BY <1>0, <1>1 DEF Take, Waiting, Awake, In, TypeOK
  <2>2. Len(queue') = Len(queue) - 1
    BY <1>1 DEF Take, TypeOK
  <2>3. Cardinality(Awake)' = Cardinality(Awake) - 1
    BY <2>1, OneLess
  <2>4. Len(queue) \in Nat /\ Cardinality(Awake) \in Nat
    BY AwakeFinite DEF TypeOK
  <2> QED
    BY <2>1, <2>2, <2>3, <2>4 DEF WorkConserving
<1>2. CASE queue = <<>> /\ queue' = queue
  <2>1. Len(queue') = 0
    BY <1>2
  <2>2. Cardinality(Awake)' \in Nat
    BY WorkersAssumption, FS_Subset, FS_CardinalityType DEF Awake, In
  <2> QED
    BY <2>1, <2>2 DEF WorkConserving
<1> QED
  BY <1>1, <1>2 DEF TakeOrWait

LEMMA ConservingStep == TypeInv /\ WorkConserving /\ [Next]_vars => WorkConserving'
<1> SUFFICES ASSUME TypeOK, WorkConserving, [Next]_vars PROVE WorkConserving'
  BY DEF TypeInv
<1>0. Len(queue) \in Nat /\ Cardinality(Awake) \in Nat
  BY AwakeFinite DEF TypeOK
<1>1. CASE Post
  <2>1. Len(queue') = Len(queue) + 1 /\ join' = join
    BY <1>1 DEF Post, TypeOK
  <2>2. CASE Waiting = {}
    <3>1. pc' = pc
      BY <1>1, <2>2 DEF Post
    <3> QED
      BY <3>1, <2>2 DEF WorkConserving, Waiting, In
  <2>3. CASE Waiting # {}
    <3>1. PICK w \in Waiting : pc' = [pc EXCEPT ![w] = "woken"]
      BY <1>1, <2>3 DEF Post
    <3>2. Awake' = Awake \cup {w} /\ w \notin Awake
      BY <3>1 DEF Awake, Waiting, In, TypeOK
    <3>3. Cardinality(Awake)' = Cardinality(Awake) + 1
      BY <3>2, OneMore
    <3> QED
      BY <1>0, <2>1, <2>3, <3>3 DEF WorkConserving
  <2> QED
    BY <2>2, <2>3
<1>2. ASSUME NEW w \in Workers, Test(w) PROVE WorkConserving'
  <2>1. CASE join = 0
    <3>1. Awake' = Awake /\ Waiting' = Waiting
      BY <1>2, <2>1 DEF Test, WorkerAt, Awake, Waiting, In, TypeOK
    <3> QED
      BY <1>2, <3>1 DEF Test, WorkConserving
  <2> QED
    BY <1>2, <2>1 DEF Test, WorkConserving
<1>3. ASSUME NEW w \in Workers, Spurious(w) PROVE WorkConserving'
  <2>1. Awake' = Awake \cup {w} /\ w \notin Awake /\ Waiting # {}
    BY <1>3 DEF Spurious, WorkerAt, Awake, Waiting, In, TypeOK
  <2>2. Cardinality(Awake)' = Cardinality(Awake) + 1
    BY <2>1, OneMore
  <2> QED
    BY <1>0, <1>3, <2>1, <2>2 DEF Spurious, WorkConserving
<1>4. ASSUME NEW w \in Workers, OnTaskReturns(w) \/ Spawn(w) PROVE WorkConserving'
  <2>1. Awake' = Awake \cup {w} /\ w \notin Awake /\ Waiting' = Waiting
    BY <1>4 DEF OnTaskReturns, Spawn, WorkerAt, Awake, Waiting, In, TypeOK
  <2>2. Cardinality(Awake)' = Cardinality(Awake) + 1
    BY <2>1, OneMore
  <2> QED
    BY <1>0, <1>4, <2>1, <2>2 DEF OnTaskReturns, Spawn, WorkConserving
<1>11. ASSUME NEW w \in Workers, OnTask(w) PROVE WorkConserving'
  <2>1. Awake' = Awake /\ Waiting' = Waiting
    BY <1>11 DEF OnTask, WorkerAt, Awake, Waiting, In, TypeOK
  <2> QED
    BY <1>11, <2>1 DEF OnTask, WorkConserving
<1>5. ASSUME NEW w \in Workers, Lock(w) PROVE WorkConserving'
  <2>1. w \in Awake
    BY <1>5 DEF Lock, Awake, In
  <2> QED
    BY <1>5, <2>1, TakeConserves DEF Lock
<1>6. ASSUME NEW w \in Workers, Resume(w) PROVE WorkConserving'
  <2>1. w \in Awake /\ join' = join
    BY <1>6 DEF Resume, Awake, In
  <2>2. CASE join = 1
    BY <2>1, <2>2 DEF WorkConserving
  <2>3. CASE join # 1
    BY <1>6, <2>1, <2>3, TakeConserves DEF Resume
  <2> QED
    BY <2>2, <2>3
<1>7. ASSUME NEW w \in Workers, Reap(w) PROVE WorkConserving'
  <2>1. Awake' = Awake /\ Waiting' = Waiting
    BY <1>7 DEF Reap, WorkerAt, Awake, Waiting, In, TypeOK
  <2> QED
    BY <1>7, <2>1 DEF Reap, WorkConserving
<1>8. ASSUME NEW why \in {"joining", "destroying"}, BeginJoin(why) PROVE WorkConserving'
  BY <1>8 DEF BeginJoin, WorkConserving
<1>9. CASE DestructorReturns
  <2>1. Len(queue') = 0 /\ Awake' = Awake
    BY <1>9 DEF DestructorReturns, Awake, In
  <2> QED
    BY <1>0, <2>1 DEF WorkConserving
<1>10. CASE JoinReturns \/ (\E cnt \in Counts : Allocate(cnt)) \/ UNCHANGED vars
  BY <1>10 DEF JoinReturns, Allocate, vars, WorkConserving, Awake, Waiting, In
<1> QED
  BY <1>1, <1>2, <1>3, <1>4, <1>5, <1>6, <1>7, <1>8, <1>9, <1>10, <1>11 DEF Next, Handler, OwnerStep

(* No wakeup is lost while the pool runs: a task is never left in the queue
   with nobody awake to take it while a worker sleeps. *)
THEOREM WorkIsConserved == Spec => []WorkConserving
<1>1. Init => WorkConserving
  BY DEF Init, WorkConserving, Waiting, In
<1>2. TypeInv /\ WorkConserving /\ [Next]_vars => (TypeInv /\ WorkConserving)'
  BY TypeStep, ConservingStep
<1> QED
  BY <1>1, <1>2, TypeInit, PTL DEF Spec

----------------------------------------------------------------------------
(* What join_ stops.  A worker found between its test of join_ and the start of
   a task tested before join_ was set, so it has started nothing since; and once
   a join has returned, every thread that exists was created after it. *)

LateInv ==
  \A w \in Workers :
    /\ late[w] <= 1
    /\ join = 0 \/ pc[w] \in {"lock", "popped"} => late[w] = 0

JoiningInv == owner \in {"joining", "destroying"} => join = 1

QuietInv ==
  joined = 1 => join = 1 /\ \A w \in Workers : pc[w] \in {"none", "check", "exited"}

LEMMA TakeIsLate ==
  ASSUME TypeOK, LateInv, NEW w \in Workers, TakeOrWait(w), UNCHANGED <<join, late>>,
         join = 0 \/ pc[w] = "lock"
  PROVE  LateInv'
<1>1. \A v \in Workers \ {w} : pc'[v] = pc[v]
  BY DEF TakeOrWait, Take, TypeOK
<1>2. late[w] = 0
  BY DEF LateInv
<1> QED
  BY <1>1, <1>2 DEF LateInv, TypeOK

LEMMA LateStep == TypeInv /\ LateInv /\ [Next]_vars => LateInv'
<1> SUFFICES ASSUME TypeOK, LateInv, [Next]_vars PROVE LateInv'
  BY DEF TypeInv
<1>1. CASE Post
  BY <1>1 DEF Post, LateInv, TypeOK, Waiting, In
<1>2. ASSUME NEW w \in Workers, Test(w) PROVE LateInv'
  BY <1>2 DEF Test, WorkerAt, LateInv, TypeOK
<1>3. ASSUME NEW w \in Workers, Spurious(w) \/ OnTaskReturns(w) \/ Reap(w) PROVE LateInv'
  BY <1>3 DEF Spurious, OnTaskReturns, Reap, WorkerAt, LateInv, TypeOK
<1>9. ASSUME NEW w \in Workers, OnTask(w) PROVE LateInv'
  <2>1. late[w] = 0 /\ join \in 0..1 /\ join' = join
    BY <1>9 DEF OnTask, WorkerAt, LateInv, TypeOK
  <2>2. late' = [late EXCEPT ![w] = join] /\ pc' = [pc EXCEPT ![w] = "run"]
    BY <1>9, <2>1 DEF OnTask, WorkerAt, TypeOK
  <2> QED
    BY <2>1, <2>2 DEF LateInv, TypeOK
<1>4. ASSUME NEW w \in Workers, Lock(w) PROVE LateInv'
  BY <1>4, TakeIsLate DEF Lock
<1>5. ASSUME NEW w \in Workers, Resume(w) PROVE LateInv'
  <2>1. CASE join = 1
    BY <1>5, <2>1 DEF Resume, LateInv, TypeOK
  <2>2. CASE join # 1
    BY <1>5, <2>2, TakeIsLate DEF Resume, TypeOK
  <2> QED
    BY <2>1, <2>2
<1>6. ASSUME NEW w \in Workers, Spawn(w) PROVE LateInv'
  BY <1>6 DEF Spawn, WorkerAt, LateInv, TypeOK
<1>7. ASSUME NEW why \in {"joining", "destroying"}, BeginJoin(why) PROVE LateInv'
  BY <1>7 DEF BeginJoin, LateInv, TypeOK
<1>8. CASE JoinReturns \/ DestructorReturns \/ (\E cnt \in Counts : Allocate(cnt)) \/ UNCHANGED vars
  BY <1>8 DEF JoinReturns, DestructorReturns, Allocate, vars, LateInv
<1> QED
  BY <1>1, <1>2, <1>3, <1>4, <1>5, <1>6, <1>7, <1>8, <1>9 DEF Next, Handler, OwnerStep

(* A worker starts at most one task after join_ is set. *)
THEOREM LateStartsAreBounded == Spec => []OneLateStart
<1>1. Init => LateInv
  BY DEF Init, LateInv
<1>2. TypeInv /\ LateInv /\ [Next]_vars => (TypeInv /\ LateInv)'
  BY TypeStep, LateStep
<1>3. LateInv => OneLateStart
  BY DEF LateInv, OneLateStart
<1> QED
  BY <1>1, <1>2, <1>3, TypeInit, PTL DEF Spec

LEMMA JoiningStep == JoiningInv /\ [Next]_vars => JoiningInv'
<1> SUFFICES ASSUME JoiningInv, [Next]_vars PROVE JoiningInv'
  OBVIOUS
<1> USE DEF JoiningInv
<1>1. CASE Post
  BY <1>1 DEF Post
<1>2. ASSUME NEW w \in Workers, Handler(w) \/ Spurious(w) PROVE JoiningInv'
  BY <1>2 DEF Handler, Test, Lock, Resume, OnTask, OnTaskReturns, Spurious
<1>3. CASE OwnerStep
  BY <1>3 DEF OwnerStep, Allocate, Spawn, Reap, BeginJoin, JoinReturns, DestructorReturns
<1>4. CASE UNCHANGED vars
  BY <1>4 DEF vars
<1> QED
  BY <1>1, <1>2, <1>3, <1>4 DEF Next

LEMMA QuietStep == TypeInv /\ JoiningInv /\ QuietInv /\ [Next]_vars => QuietInv'
<1> SUFFICES ASSUME TypeOK, JoiningInv, QuietInv, [Next]_vars PROVE QuietInv'
  BY DEF TypeInv
<1>1. CASE Post
  BY <1>1 DEF Post, QuietInv, TypeOK, Waiting, In
<1>2. ASSUME NEW w \in Workers, Test(w) \/ Spurious(w) \/ OnTaskReturns(w) PROVE QuietInv'
  <2>1. CASE joined # 1
    BY <1>2, <2>1 DEF Test, Spurious, OnTaskReturns, QuietInv
  <2>2. CASE joined = 1
    <3>1. Test(w) /\ join = 1
      BY <1>2, <2>2 DEF Spurious, OnTaskReturns, WorkerAt, QuietInv
    <3>2. pc' = [pc EXCEPT ![w] = "exited"] /\ join' = 1
      BY <3>1 DEF Test, WorkerAt
    <3> QED
      BY <2>2, <3>2 DEF QuietInv, TypeOK
  <2> QED
    BY <2>1, <2>2
<1>3. ASSUME NEW w \in Workers, Lock(w) \/ Resume(w) \/ OnTask(w) PROVE QuietInv'
  <2>1. joined # 1 /\ joined' = joined
    BY <1>3 DEF Lock, Resume, OnTask, WorkerAt, QuietInv
  <2> QED
    BY <2>1 DEF QuietInv
<1>4. ASSUME NEW w \in Workers, Spawn(w) \/ Reap(w) PROVE QuietInv'
  BY <1>4 DEF Spawn, Reap, WorkerAt, QuietInv, TypeOK
<1>5. ASSUME NEW why \in {"joining", "destroying"}, BeginJoin(why) PROVE QuietInv'
  BY <1>5 DEF BeginJoin, QuietInv, TypeOK
<1>6. CASE JoinReturns \/ DestructorReturns
  BY <1>6 DEF JoinReturns, DestructorReturns, QuietInv, JoiningInv, Live, In
<1>7. CASE (\E cnt \in Counts : Allocate(cnt)) \/ UNCHANGED vars
  BY <1>7 DEF Allocate, vars, QuietInv
<1> QED
  BY <1>1, <1>2, <1>3, <1>4, <1>5, <1>6, <1>7 DEF Next, Handler, OwnerStep

(* Once a join has returned nothing starts again. *)
THEOREM JoinEndsAll == Spec => JoinIsFinal
<1>1. Init => JoiningInv /\ QuietInv
  BY DEF Init, JoiningInv, QuietInv
<1>2. TypeInv /\ JoiningInv /\ QuietInv /\ [Next]_vars => (TypeInv /\ JoiningInv /\ QuietInv)'
  BY TypeStep, JoiningStep, QuietStep
<1>3. QuietInv /\ [Next]_vars => [joined = 1 => started' = started]_vars
  <2> SUFFICES ASSUME QuietInv, [Next]_vars, joined = 1 PROVE started' = started
    OBVIOUS
  <2>1. ASSUME NEW w \in Workers, Lock(w) \/ Resume(w) \/ OnTask(w) PROVE started' = started
    BY <2>1 DEF Lock, Resume, OnTask, WorkerAt, QuietInv
  <2>2. CASE UNCHANGED vars
    BY <2>2 DEF vars
  <2> QED
    BY <2>1, <2>2 DEF Next, Handler, OwnerStep, Post, Test, OnTaskReturns, Spurious,
       Allocate, Spawn, Reap, BeginJoin, JoinReturns, DestructorReturns
<1> QED
  BY <1>1, <1>2, <1>3, TypeInit, PTL DEF Spec, JoinIsFinal

----------------------------------------------------------------------------
(* The order of the tasks.  The tasks popped so far are the first ones; who holds
   one has started none that is later, because it popped it after those. *)

Taken == posted - Len(queue)

HeldIsNext ==
  owner # "gone" =>
    /\ Taken >= 0
    /\ \A w \in Popped, i \in DOMAIN started : started[i].by = w => started[i].task < task[w]

TurnInv == StartedInTurn /\ HeldIsNext

\* The same of a state in which the pool is not destroyed yet.
InTurn ==
  /\ Taken >= 0
  /\ queue = [k \in 1..Len(queue) |-> Taken + k]
  /\ Started \cup Held = 1..Taken
  /\ Started \cap Held = {}
  /\ \A v, w \in Popped : task[v] = task[w] => v = w
  /\ \A i, j \in DOMAIN started : i < j =>
       /\ started[i].task # started[j].task
       /\ started[i].by = started[j].by => started[i].task < started[j].task
  /\ \A w \in Popped, i \in DOMAIN started : started[i].by = w => started[i].task < task[w]

LEMMA TurnInvIs == TurnInv <=> (owner # "gone" => InTurn)
  BY DEF TurnInv, StartedInTurn, HeldIsNext, InTurn, Taken

\* A step that leaves the popped tasks alone.
LEMMA NothingTaken ==
  ASSUME InTurn, started' = started, Popped' = Popped, \A w \in Popped : task'[w] = task[w],
         Taken' = Taken, queue' = [k \in 1..Len(queue') |-> Taken + k]
  PROVE  InTurn'
<1>1. Started' = Started
  BY DEF Started
<1>2. Held' = Held
  BY DEF Held
<1> QED
  BY <1>1, <1>2 DEF InTurn

LEMMA PostKeepsTurn ==
  ASSUME TypeOK, InTurn, Post PROVE InTurn'
<1>1. /\ queue \in Seq(Nat) /\ posted \in Nat /\ posted' = posted + 1
      /\ queue' = Append(queue, posted + 1) /\ UNCHANGED <<started, task>>
  BY DEF Post, TypeOK
<1>2. Len(queue') = Len(queue) + 1 /\ Taken' = Taken /\ Taken \in Int
  BY <1>1 DEF Taken
<1>3. Popped' = Popped
  BY DEF Post, Popped, Waiting, In, TypeOK
<1>4. queue' = [k \in 1..Len(queue') |-> Taken + k]
  <2> DEFINE q == [k \in 1..Len(queue) + 1 |-> Taken + k]
  <2>1. \A k \in 1..Len(queue) : queue[k] = Taken + k
    BY DEF InTurn
  <2>2. ASSUME NEW k \in 1..Len(queue) + 1 PROVE Append(queue, posted + 1)[k] = q[k]
    <3>1. CASE k = Len(queue) + 1
      BY <1>1, <3>1 DEF Taken
    <3>2. CASE k # Len(queue) + 1
      <4>1. k \in 1..Len(queue)
        BY <1>1, <3>2
      <4> QED
        BY <1>1, <2>1, <4>1
    <3> QED
      BY <3>1, <3>2
  <2>3. Append(queue, posted + 1) = [k \in 1..Len(queue) + 1 |-> Append(queue, posted + 1)[k]]
    BY <1>1
  <2> QED
    BY <1>1, <1>2, <2>2, <2>3
<1> QED
  BY <1>1, <1>2, <1>3, <1>4, NothingTaken

LEMMA TakeKeepsTurn ==
  ASSUME TypeOK, InTurn, NEW w \in Workers, pc[w] # "popped", queue # <<>>, Take(w),
         UNCHANGED <<posted, started>>
  PROVE  InTurn'
<1>1. queue \in Seq(Nat) /\ posted \in Nat /\ queue' = Tail(queue) /\ Len(queue) \in Nat \ {0}
  BY DEF Take, TypeOK
<1>2. Len(queue') = Len(queue) - 1 /\ Taken' = Taken + 1 /\ Taken \in Int
  BY <1>1 DEF Taken
<1>3. \A k \in 1..Len(queue) : queue[k] = Taken + k
  BY DEF InTurn
<1>4. task' = [task EXCEPT ![w] = Taken + 1]
  <2>1. Head(queue) = queue[1] /\ 1 \in 1..Len(queue)
    BY <1>1
  <2> QED
    BY <1>3, <2>1 DEF Take
<1>5. queue' = [k \in 1..Len(queue') |-> Taken' + k]
  <2>1. ASSUME NEW k \in 1..Len(queue) - 1 PROVE Tail(queue)[k] = (Taken + 1) + k
    <3>1. k + 1 \in 1..Len(queue)
      BY <1>1
    <3>2. k \in 1..Len(Tail(queue))
      BY <1>1
    <3>3. Tail(queue)[k] = queue[k + 1]
      BY <1>1, <3>2, HeadTailProperties
    <3> QED
      BY <1>2, <1>3, <3>1, <3>3
  <2>2. Tail(queue) = [k \in 1..Len(queue) - 1 |-> Tail(queue)[k]]
    <3>1. PICK t : t = Tail(queue) /\ t \in Seq(Nat) /\ Len(t) = Len(queue) - 1
      BY <1>1, HeadTailProperties
    <3>2. t = [k \in 1..Len(t) |-> t[k]]
      <4>1. t \in [1..Len(t) -> Nat]
        BY <3>1, LenProperties
      <4> QED
        BY <4>1
    <3> QED
      BY <3>1, <3>2
  <2> QED
    BY <1>1, <1>2, <2>1, <2>2
<1>6. Popped' = Popped \cup {w} /\ w \notin Popped
  BY DEF Take, Popped, In, TypeOK
<1>7. task'[w] = Taken + 1 /\ \A v \in Popped : v # w /\ task'[v] = task[v]
  BY <1>4, <1>6 DEF TypeOK, Popped, In
<1>8. Held' = Held \cup {Taken + 1} /\ Started' = Started
  <2>1. Held' = {task'[v] : v \in Popped \cup {w}}
    BY <1>6 DEF Held
  <2> QED
    BY <1>7, <2>1 DEF Held, Started
<1>9. Started \cup Held = 1..Taken /\ Taken + 1 \notin 1..Taken
  BY <1>2 DEF InTurn
<1>10. Started' \cup Held' = 1..Taken'
  <2>1. Taken \in Nat
    BY <1>2 DEF InTurn
  <2>2. 1..(Taken + 1) = (1..Taken) \cup {Taken + 1}
    BY <2>1
  <2> QED
    BY <1>2, <1>8, <1>9, <2>2
<1>11. Started' \cap Held' = {}
  BY <1>8, <1>9 DEF InTurn
<1>12. \A u, v \in Popped' : task'[u] = task'[v] => u = v
  <2>1. \A v \in Popped : task[v] # Taken + 1
    BY <1>9 DEF Held
  <2> QED
    BY <1>6, <1>7, <2>1 DEF InTurn
<1>13. \A v \in Popped', i \in DOMAIN started : started[i].by = v => started[i].task < task'[v]
  <2>1. \A i \in DOMAIN started : started[i].task \in 1..Taken
    BY <1>9 DEF Started
  <2>2. \A i \in DOMAIN started : started[i].task < Taken + 1
    BY <1>2, <2>1
  <2> QED
    BY <1>6, <1>7, <2>2 DEF InTurn
<1> QED
  BY <1>2, <1>5, <1>10, <1>11, <1>12, <1>13 DEF InTurn

LEMMA OnTaskKeepsTurn ==
  ASSUME TypeOK, InTurn, NEW w \in Workers, OnTask(w) PROVE InTurn'
<1> DEFINE n == Len(started)
<1>1. /\ started \in Seq([task : Nat, by : Workers]) /\ n \in Nat
      /\ started' = Append(started, [task |-> task[w], by |-> w]) /\ UNCHANGED <<queue, posted, task>>
  BY DEF OnTask, TypeOK
<1>2. w \in Popped /\ Popped' = Popped \ {w}
  BY DEF OnTask, WorkerAt, Popped, In, TypeOK
<1>3. /\ DOMAIN started = 1..n /\ DOMAIN started' = 1..n + 1
      /\ started'[n + 1] = [task |-> task[w], by |-> w]
      /\ \A i \in 1..n : started'[i] = started[i]
  BY <1>1
<1>4. Started' = Started \cup {task[w]}
  <2>1. 1..n + 1 = (1..n) \cup {n + 1}
    BY <1>1
  <2>2. Started' = {started'[i].task : i \in (1..n) \cup {n + 1}}
    BY <1>3, <2>1 DEF Started
  <2> QED
    BY <1>3, <2>2 DEF Started
<1>5. Held' = Held \ {task[w]} /\ task[w] \in Held
  BY <1>1, <1>2 DEF Held, InTurn
<1>6. Started' \cup Held' = 1..Taken' /\ Started' \cap Held' = {} /\ Taken' = Taken
  BY <1>1, <1>4, <1>5 DEF InTurn, Taken
<1>7. ASSUME NEW i \in 1..n + 1, NEW j \in 1..n + 1, i < j
      PROVE  /\ started'[i].task # started'[j].task
             /\ started'[i].by = started'[j].by => started'[i].task < started'[j].task
  <2>1. i \in 1..n
    BY <1>1, <1>7
  <2>2. CASE j \in 1..n
    BY <1>3, <1>7, <2>1, <2>2 DEF InTurn
  <2>3. CASE j = n + 1
    <3>1. started[i].task \in Started
      BY <1>3, <2>1 DEF Started
    <3>2. started[i].task # task[w]
      BY <1>5, <3>1 DEF InTurn
    <3>3. started[i].by = w => started[i].task < task[w]
      BY <1>2, <1>3, <2>1 DEF InTurn
    <3> QED
      BY <1>3, <2>1, <2>3, <3>2, <3>3
  <2>4. j \in 1..n \/ j = n + 1
    BY <1>1
  <2> QED
    BY <2>2, <2>3, <2>4
<1>8. ASSUME NEW v \in Popped', NEW i \in 1..n + 1, started'[i].by = v PROVE started'[i].task < task'[v]
  <2>1. v \in Popped /\ v # w
    BY <1>2
  <2>2. i \in 1..n
    BY <1>1, <1>3, <1>8, <2>1
  <2> QED
    BY <1>1, <1>3, <1>8, <2>1, <2>2 DEF InTurn
<1>9. queue' = [k \in 1..Len(queue') |-> Taken' + k]
  BY <1>1, <1>6 DEF InTurn
<1>10. \A u, v \in Popped' : task'[u] = task'[v] => u = v
  BY <1>1, <1>2 DEF InTurn
<1> QED
  BY <1>3, <1>6, <1>7, <1>8, <1>9, <1>10 DEF InTurn

LEMMA TurnStep == TypeInv /\ TurnInv /\ [Next]_vars => TurnInv'
<1> SUFFICES ASSUME TypeOK, TurnInv, [Next]_vars, owner' # "gone" PROVE InTurn'
  BY TurnInvIs DEF TypeInv, TurnInv, StartedInTurn, HeldIsNext, InTurn, Taken
<1>1. owner # "gone"
  BY DEF Next, Post, Handler, Test, Lock, Resume, OnTask, OnTaskReturns, Spurious, OwnerStep,
     Allocate, Spawn, Reap, BeginJoin, JoinReturns, DestructorReturns, vars
<1>2. InTurn
  BY <1>1, TurnInvIs
<1>3. CASE Post
  BY <1>2, <1>3, PostKeepsTurn
<1>4. ASSUME UNCHANGED <<queue, posted, started>>, Popped' = Popped, \A w \in Popped : task'[w] = task[w]
      PROVE  InTurn'
  <2>1. Taken' = Taken /\ queue' = [k \in 1..Len(queue') |-> Taken + k]
    BY <1>2, <1>4 DEF Taken, InTurn
  <2> QED
    BY <1>2, <1>4, <2>1, NothingTaken
<1>5. ASSUME NEW w \in Workers, Lock(w) \/ Resume(w) PROVE InTurn'
  <2>1. pc[w] # "popped" /\ UNCHANGED <<posted, started>>
    BY <1>5 DEF Lock, Resume
  <2>2. CASE queue # <<>> /\ Take(w)
    BY <1>2, <2>1, <2>2, TakeKeepsTurn
  <2>3. CASE UNCHANGED <<queue, task>> /\ \E there \in {"wait", "exited"} : pc' = [pc EXCEPT ![w] = there]
    <3>1. Popped' = Popped
      BY <2>1, <2>3 DEF Popped, In, TypeOK
    <3> QED
      BY <1>4, <2>1, <2>3, <3>1
  <2> QED
    BY <1>5, <2>2, <2>3 DEF Lock, Resume, TakeOrWait
<1>6. ASSUME NEW w \in Workers, OnTask(w) PROVE InTurn'
  BY <1>2, <1>6, OnTaskKeepsTurn
<1>7. ASSUME NEW w \in Workers, Test(w) \/ Spurious(w) \/ OnTaskReturns(w) \/ Spawn(w) \/ Reap(w)
      PROVE  InTurn'
  <2>1. UNCHANGED <<queue, posted, started>> /\ Popped' = Popped
    BY <1>7 DEF Test, Spurious, OnTaskReturns, Spawn, Reap, WorkerAt, Popped, In, TypeOK
  <2>2. \A v \in Popped : task'[v] = task[v]
    BY <1>7 DEF Test, Spurious, OnTaskReturns, Spawn, Reap, WorkerAt, Popped, In, TypeOK
  <2> QED
    BY <1>4, <2>1, <2>2
<1>8. ASSUME NEW why \in {"joining", "destroying"}, BeginJoin(why) PROVE InTurn'
  <2>1. UNCHANGED <<queue, posted, started, task>> /\ Popped' = Popped
    BY <1>8 DEF BeginJoin, Popped, In, TypeOK
  <2> QED
    BY <1>4, <2>1
<1>9. CASE JoinReturns \/ (\E cnt \in Counts : Allocate(cnt)) \/ UNCHANGED vars
  <2>1. UNCHANGED <<queue, posted, started, task>> /\ Popped' = Popped
    BY <1>9 DEF JoinReturns, Allocate, vars, Popped, In
  <2> QED
    BY <1>4, <2>1
<1>10. ~DestructorReturns
  BY DEF DestructorReturns
<1> QED
  BY <1>3, <1>5, <1>6, <1>7, <1>8, <1>9, <1>10 DEF Next, Handler, OwnerStep

(* Each task starts once, its worker has started no later one, and those that
   were popped are the first of those that were posted. *)
THEOREM OrderIsKept == Spec => []StartedInTurn
<1>1. Init => TurnInv
  <2> SUFFICES ASSUME Init PROVE InTurn
    BY TurnInvIs
  <2>1. Popped = {} /\ DOMAIN started = {}
    BY DEF Init, Popped, In
  <2>6. queue = <<>> /\ posted = 0
    BY DEF Init
  <2>7. Len(queue) = 0
    BY <2>6
  <2>8. posted - Len(queue) = 0
    <3>1. posted = 0 /\ Len(queue) = 0
      BY <2>6, <2>7
    <3> QED
      BY <3>1
  <2>3. Len(queue) = 0 /\ Taken = 0
    BY <2>7, <2>8 DEF Taken
  <2>2. Started = {} /\ Held = {}
    BY <2>1 DEF Started, Held
  <2>4. queue = [k \in 1..Len(queue) |-> Taken + k]
    BY <2>3, <2>6
  <2>5. 1..Taken = {}
    BY <2>3
  <2> QED
    BY <2>1, <2>2, <2>3, <2>4, <2>5 DEF InTurn
<1>2. TypeInv /\ TurnInv /\ [Next]_vars => (TypeInv /\ TurnInv)'
  BY TypeStep, TurnStep
<1>3. TurnInv => StartedInTurn
  BY DEF TurnInv
<1> QED
  BY <1>1, <1>2, <1>3, TypeInit, PTL DEF Spec

-----------------------------------------------------------------------------
(* The singleton.  What makes the properties inductive: the lock is held
   exactly by a thread in the middle of release, and then the pointer is that
   thread's; otherwise an instance from the heap is alive, and associated_ = 0
   says it is one. *)
Releasing(t) == place[t] \in {"delete", "store"}

LockIsRelease == \A t \in Threads : Releasing(t) <=> lock = t
Deleting ==
  \A t \in Threads : Releasing(t) =>
    /\ instance = tmp[t] /\ tmp[t] \in Heap
    /\ mem[tmp[t]] = IF place[t] = "delete" THEN "live" ELSE "free"
Adopting == \A t \in Threads : place[t] = "adopt" => arg[t] \in Own
Alive == instance \in Heap /\ lock = None => mem[instance] = "live"
FlagTells == instance # None /\ associated = 0 => instance \in Heap
OwnKept == \A o \in Own : mem[o] = "live"

SingletonInv ==
  /\ Single!TypeOK /\ OneInstance
  /\ LockIsRelease /\ Deleting /\ Adopting /\ Alive /\ FlagTells /\ OwnKept

LEMMA SingletonInit ==
  ASSUME Single!ObjectsDistinct
  PROVE  Single!Init => SingletonInv
BY DEF Single!ObjectsDistinct, Single!Init, SingletonInv, Single!TypeOK, OneInstance, Single!OneInstance,
       Single!Objects, Single!Places,
       LockIsRelease, Deleting, Adopting, Alive, FlagTells, OwnKept, Releasing

LEMMA SingletonStep ==
  ASSUME Single!ObjectsDistinct
  PROVE  SingletonInv /\ [Single!Next]_Single!vars => SingletonInv'
<1> SUFFICES ASSUME SingletonInv, [Single!Next]_Single!vars PROVE SingletonInv'
  OBVIOUS
<1> USE DEF Single!ObjectsDistinct, SingletonInv, Single!TypeOK, OneInstance, Single!OneInstance,
            Single!Objects, Single!Places, Single!At,
            LockIsRelease, Deleting, Adopting, Alive, FlagTells, OwnKept, Releasing
<1>1. CASE UNCHANGED Single!vars
  BY <1>1 DEF Single!vars
<1>2. ASSUME NEW t \in Threads, Single!Load(t) PROVE SingletonInv'
  BY <1>2 DEF Single!Load
<1>3. ASSUME NEW t \in Threads, Single!Release(t) PROVE SingletonInv'
  BY <1>3 DEF Single!Release
<1>4. ASSUME NEW t \in Threads, NEW ptr \in Own, Single!Associate(t, ptr) PROVE SingletonInv'
  BY <1>4 DEF Single!Associate
<1>5. ASSUME NEW t \in Threads, NEW o \in Heap, Single!Create(t, o) PROVE SingletonInv'
  BY <1>5 DEF Single!Create
<1>6. ASSUME NEW t \in Threads, Single!CreatedAlready(t) PROVE SingletonInv'
  BY <1>6 DEF Single!CreatedAlready
<1>7. ASSUME NEW t \in Threads, Single!Adopt(t) PROVE SingletonInv'
  BY <1>7 DEF Single!Adopt
<1>8. ASSUME NEW t \in Threads, Single!TestFlag(t) PROVE SingletonInv'
  BY <1>8 DEF Single!TestFlag
<1>9. ASSUME NEW t \in Threads, Single!Retest(t) PROVE SingletonInv'
  BY <1>9 DEF Single!Retest
<1>10. ASSUME NEW t \in Threads, Single!Delete(t) PROVE SingletonInv'
  BY <1>10 DEF Single!Delete
<1>11. ASSUME NEW t \in Threads, Single!Store(t) PROVE SingletonInv'
  BY <1>11 DEF Single!Store
<1> QED
  BY <1>1, <1>2, <1>3, <1>4, <1>5, <1>6, <1>7, <1>8, <1>9, <1>10, <1>11 DEF Single!Next, Single!InCall

LEMMA SingletonInductive ==
  ASSUME Single!ObjectsDistinct
  PROVE  Single!Spec => []SingletonInv
BY SingletonInit, SingletonStep, PTL DEF Single!Spec

(* The variables of singleton<T> and of the threads in it stay in their types. *)
THEOREM SingletonTypeCorrect ==
  ASSUME Single!ObjectsDistinct
  PROVE  Single!Spec => []Single!TypeOK
<1>1. SingletonInv => Single!TypeOK
  BY DEF SingletonInv
<1> QED
  BY <1>1, SingletonInductive, PTL

(* instance() never makes a second object while one that it made is alive, in
   whatever order loads, locks and releases of any threads come. *)
THEOREM OneInstanceHolds ==
  ASSUME Single!ObjectsDistinct
  PROVE  Single!Spec => []OneInstance
<1>1. SingletonInv => OneInstance
  BY DEF SingletonInv
<1> QED
  BY <1>1, SingletonInductive, PTL

(* release() deletes an object once, only one that instance() made, and only
   under the lock: the unlocked read of associated_ decides nothing. *)
THEOREM DeletesItsOwnHolds ==
  ASSUME Single!ObjectsDistinct
  PROVE  Single!Spec => []DeletesItsOwn
<1>1. SingletonInv => DeletesItsOwn
  BY DEF SingletonInv, LockIsRelease, Deleting, OwnKept, Releasing, DeletesItsOwn, Single!DeletesItsOwn
<1> QED
  BY <1>1, SingletonInductive, PTL

-----------------------------------------------------------------------------
(* The thread handles.  An owner who is joining has emptied the handle, and
   only after a create that succeeded. *)
JoiningIsEmptied ==
  \A h \in Handles : joining[h] # None => made[h] /\ handle[h].pid = None

HandleInv == Handle!TypeOK /\ OwnsItsThread /\ JoiningIsEmptied

LEMMA HandleInit ==
  ASSUME None \notin Tids
  PROVE  Handle!Init => HandleInv
<1> SUFFICES ASSUME Handle!Init PROVE HandleInv
  OBVIOUS
<1>1. Handle!TypeOK
  BY DEF Handle!Init, Handle!TypeOK
<1>2. OwnsItsThread
  <2>1. \A h \in Handles : ~made[h]
    BY DEF Handle!Init
  <2> QED
    BY <2>1 DEF Handle!Init, OwnsItsThread, Handle!OwnsItsThread
<1>3. JoiningIsEmptied
  BY DEF Handle!Init, JoiningIsEmptied
<1> QED
  BY <1>1, <1>2, <1>3 DEF HandleInv

LEMMA HandleStep ==
  ASSUME None \notin Tids
  PROVE  HandleInv /\ [Handle!Next]_Handle!vars => HandleInv'
<1> SUFFICES ASSUME HandleInv, [Handle!Next]_Handle!vars PROVE HandleInv'
  OBVIOUS
<1> USE DEF HandleInv, Handle!TypeOK, OwnsItsThread, Handle!OwnsItsThread, JoiningIsEmptied,
            Handle!Names, Handle!Idle, Handle!Vacant, Handle!Joinable
<1>1. CASE UNCHANGED Handle!vars
  BY <1>1 DEF Handle!vars
<1>2. ASSUME NEW h \in Handles, Handle!Create(h) PROVE HandleInv'
  BY <1>2 DEF Handle!Create
<1>3. ASSUME NEW h \in Handles, Handle!CreateFails(h) PROVE HandleInv'
  BY <1>3 DEF Handle!CreateFails
<1>4. ASSUME NEW h \in Handles, Handle!PolicyRefused(h) PROVE HandleInv'
  <2>1. Handle!TypeOK'
    <3>1. handle' \in [Handles -> [pid : Tids \cup {None}, detached : BOOLEAN, attr : BOOLEAN]]
      <4>1. handle' = [k \in Handles |-> IF k = h THEN [handle[k] EXCEPT !.attr = TRUE] ELSE handle[k]]
        BY <1>4 DEF Handle!PolicyRefused
      <4>2. ASSUME NEW k \in Handles
            PROVE  [handle[k] EXCEPT !.attr = TRUE] \in [pid : Tids \cup {None}, detached : BOOLEAN, attr : BOOLEAN]
        <5>1. handle[k] \in [pid : Tids \cup {None}, detached : BOOLEAN, attr : BOOLEAN]
          OBVIOUS
        <5> QED
          BY <5>1
      <4> QED
        BY <4>1, <4>2
    <3> QED
      BY <3>1, <1>4 DEF Handle!PolicyRefused
  <2>2. OwnsItsThread'
    BY <1>4 DEF Handle!PolicyRefused
  <2>3. JoiningIsEmptied'
    BY <1>4 DEF Handle!PolicyRefused
  <2> QED
    BY <2>1, <2>2, <2>3
<1>5. ASSUME NEW h \in Handles, Handle!Detach(h) PROVE HandleInv'
  BY <1>5 DEF Handle!Detach
<1>6. ASSUME NEW h \in Handles, Handle!Join(h) PROVE HandleInv'
  BY <1>6 DEF Handle!Join
<1>7. ASSUME NEW h \in Handles, Handle!Joined(h) PROVE HandleInv'
  <2>1. Handle!TypeOK'
    <3>1. handle' \in [Handles -> [pid : Tids \cup {None}, detached : BOOLEAN, attr : BOOLEAN]]
      <4>1. handle' = [k \in Handles |-> IF k = h THEN [handle[k] EXCEPT !.attr = FALSE] ELSE handle[k]]
        BY <1>7 DEF Handle!Joined
      <4>2. ASSUME NEW k \in Handles
            PROVE  [handle[k] EXCEPT !.attr = FALSE] \in [pid : Tids \cup {None}, detached : BOOLEAN, attr : BOOLEAN]
        <5>1. handle[k] \in [pid : Tids \cup {None}, detached : BOOLEAN, attr : BOOLEAN]
          OBVIOUS
        <5> QED
          BY <5>1
      <4> QED
        BY <4>1, <4>2
    <3> QED
      BY <3>1, <1>7 DEF Handle!Joined
  <2>2. OwnsItsThread'
    BY <1>7 DEF Handle!Joined
  <2>3. JoiningIsEmptied'
    BY <1>7 DEF Handle!Joined
  <2> QED
    BY <2>1, <2>2, <2>3
<1>8. ASSUME NEW t \in Tids, Handle!Return(t) PROVE HandleInv'
  BY <1>8 DEF Handle!Return
<1> QED
  BY <1>1, <1>2, <1>3, <1>4, <1>5, <1>6, <1>7, <1>8 DEF Handle!Next

(* Whatever owners create, join and detach, and whichever pthread_t the system
   gives out again, a handle that was created names a thread that is not reaped
   and that no other handle names: pthread_join is never called for a thread
   that is gone. *)
THEOREM OwnsItsThreadHolds ==
  ASSUME None \notin Tids
  PROVE  Handle!Spec => []OwnsItsThread
<1>1. HandleInv => OwnsItsThread
  BY DEF HandleInv
<1> QED
  BY <1>1, HandleInit, HandleStep, PTL DEF Handle!Spec

-----------------------------------------------------------------------------
(* The once-only flag.  The counter is 1 for the initialisation, from its first
   increment on, plus the callers that have still to take theirs back: so it is
   0 only before the first. *)
Begun == Once!In("make") # {} \/ done
CountExact ==
  /\ Begun => inited = Cardinality(Once!In("retract")) + 1
  /\ ~Begun => inited = 0 /\ Once!In("retract") = {}
MakerAlone == \A t, u \in Threads : step[t] = "make" /\ step[u] = "make" => t = u
RowsInOrder ==
  /\ done => stored = Rows /\ Once!In("make") = {}
  /\ ~done => IF Once!In("make") = {} THEN stored = 0 ELSE stored < Rows
LateIsAfter == after # {} => done

OnceTypes ==
  /\ inited \in Nat /\ stored \in 0..Rows
  /\ step \in [Threads -> {"idle", "make", "retract", "use"}]

OnceInv == OnceTypes /\ CountExact /\ MakerAlone /\ RowsInOrder /\ LateIsAfter

(* The threads that were in a place, when one of them moves. *)
LEMMA Moves ==
  ASSUME IsFiniteSet(Threads), step \in [Threads -> {"idle", "make", "retract", "use"}],
         NEW t \in Threads, NEW there \in {"idle", "make", "retract", "use"},
         step' = [step EXCEPT ![t] = there], NEW p
  PROVE  /\ there # p /\ step[t] # p => Once!In(p)' = Once!In(p)
         /\ there = p => Once!In(p)' = Once!In(p) \cup {t}
         /\ there # p /\ step[t] = p => Once!In(p)' = Once!In(p) \ {t}
         /\ IsFiniteSet(Once!In(p))
<1>1. IsFiniteSet(Once!In(p))
  BY FS_Subset DEF Once!In
<1> QED
  BY <1>1 DEF Once!In

LEMMA OnceInit ==
  ASSUME IsFiniteSet(Threads), Rows \in Nat \ {0}
  PROVE  Once!Init => OnceInv
<1> SUFFICES ASSUME Once!Init PROVE OnceInv
  OBVIOUS
<1>1. Once!In("make") = {} /\ Once!In("retract") = {}
  BY DEF Once!Init, Once!In
<1>2. OnceTypes
  BY DEF Once!Init, OnceTypes
<1>3. CountExact
  BY <1>1, FS_EmptySet DEF Once!Init, CountExact, Begun
<1> QED
  BY <1>1, <1>2, <1>3 DEF Once!Init, OnceInv, MakerAlone, RowsInOrder, LateIsAfter

LEMMA OnceStep ==
  ASSUME IsFiniteSet(Threads), Rows \in Nat \ {0}
  PROVE  OnceInv /\ [Once!Next]_Once!vars => OnceInv'
<1> SUFFICES ASSUME OnceInv, [Once!Next]_Once!vars PROVE OnceInv'
  OBVIOUS
<1> USE DEF OnceInv
<1> DEFINE Retracting == Once!In("retract")
           Making == Once!In("make")
<1>a. IsFiniteSet(Retracting) /\ Cardinality(Retracting) \in Nat
  BY FS_Subset, FS_CardinalityType DEF Once!In
<1>b. step \in [Threads -> {"idle", "make", "retract", "use"}]
  BY DEF OnceTypes
<1>1. ASSUME UNCHANGED Once!vars PROVE OnceInv'
  <2>1. Once!In("make")' = Once!In("make") /\ Once!In("retract")' = Once!In("retract")
    BY <1>1 DEF Once!vars, Once!In
  <2> QED
    <3>1. OnceTypes' /\ MakerAlone' /\ LateIsAfter'
      BY <1>1 DEF Once!vars, OnceTypes, MakerAlone, LateIsAfter
    <3>2. CountExact'
      BY <1>1, <2>1 DEF Once!vars, CountExact, Begun
    <3>3. RowsInOrder'
      BY <1>1, <2>1 DEF Once!vars, RowsInOrder
    <3> QED
      BY <3>1, <3>2, <3>3
<1>2. ASSUME NEW t \in Threads, Once!Increment(t) PROVE OnceInv'
  <2>1. step[t] = "idle" /\ t \notin Retracting /\ t \notin Making
    BY <1>2 DEF Once!Increment, Once!At, Once!In
  <2>2. CASE inited = 0
    <3>1. Retracting = {} /\ Making = {} /\ ~done
      BY <2>2, <1>a, FS_EmptySet DEF CountExact, Begun
    <3>2. step' = [step EXCEPT ![t] = "make"] /\ inited' = 1
      BY <1>2, <2>2 DEF Once!Increment, Once!At
    <3>3. Once!In("make")' = {t} /\ Once!In("retract")' = {}
      BY <1>b, <2>1, <3>1, <3>2, Moves
    <3>4. CountExact'
      BY <1>2, <3>1, <3>2, <3>3, FS_EmptySet DEF CountExact, Begun, Once!Increment
    <3>5. OnceTypes'
      BY <1>2, <3>2 DEF OnceTypes, Once!Increment
    <3>6. MakerAlone'
      BY <1>b, <3>2, <3>1 DEF MakerAlone, Once!In
    <3> QED
      BY <1>2, <3>1, <3>3, <3>4, <3>5, <3>6 DEF RowsInOrder, LateIsAfter, Once!Increment
  <2>3. CASE inited # 0
    <3>1. Making # {} \/ done
      BY <2>3, <1>2, <1>a, <1>b DEF CountExact, Begun, OnceTypes, RowsInOrder
    <3>2. step' = [step EXCEPT ![t] = "retract"] /\ inited' = inited + 1
      <4>1. inited' = inited + 1 /\ inited' # 1
        BY <1>2, <2>3 DEF Once!Increment, OnceTypes
      <4> QED
        BY <1>2, <4>1 DEF Once!Increment, Once!At
    <3>3. Once!In("make")' = Making /\ Once!In("retract")' = Retracting \cup {t}
      BY <1>b, <2>1, <3>2, Moves
    <3>4. Cardinality(Retracting \cup {t}) = Cardinality(Retracting) + 1
      BY <2>1, <1>a, FS_AddElement
    <3>5. CountExact'
      BY <1>2, <1>a, <3>1, <3>2, <3>3, <3>4 DEF CountExact, Begun, Once!Increment, OnceTypes
    <3>6. OnceTypes'
      BY <1>2, <3>2 DEF OnceTypes, Once!Increment
    <3>7. MakerAlone'
      BY <1>b, <3>2 DEF MakerAlone
    <3> QED
      BY <1>2, <3>3, <3>5, <3>6, <3>7 DEF RowsInOrder, LateIsAfter, Once!Increment
  <2> QED
    BY <2>2, <2>3
<1>3. ASSUME NEW t \in Threads, Once!MakeRow(t) PROVE OnceInv'
  <2>1. t \in Making /\ ~done /\ stored < Rows /\ stored' = stored + 1
    BY <1>3 DEF Once!MakeRow, Once!In, RowsInOrder
  <2>2. CASE stored' = Rows
    <3>1. step' = [step EXCEPT ![t] = "use"] /\ done'
      BY <1>3, <2>2 DEF Once!MakeRow, Once!At
    <3>2. Once!In("make")' = {} /\ Once!In("retract")' = Retracting
      <4>1. Making = {t}
        BY <2>1 DEF MakerAlone, Once!In
      <4> QED
        BY <4>1, <1>b, <3>1, <2>1, Moves DEF Once!In
    <3> QED
      BY <1>3, <1>b, <2>1, <2>2, <3>1, <3>2
      DEF Once!MakeRow, OnceTypes, CountExact, Begun, MakerAlone, RowsInOrder, LateIsAfter
  <2>3. CASE stored' # Rows
    <3>1. UNCHANGED <<step, done>>
      BY <1>3, <2>3 DEF Once!MakeRow
    <3>2. Once!In("make")' = Making /\ Once!In("retract")' = Retracting
      BY <3>1 DEF Once!In
    <3> QED
      BY <1>3, <2>1, <2>3, <3>1, <3>2
      DEF Once!MakeRow, OnceTypes, CountExact, Begun, MakerAlone, RowsInOrder, LateIsAfter
  <2> QED
    BY <2>2, <2>3
<1>4. ASSUME NEW t \in Threads, Once!Decrement(t) PROVE OnceInv'
  <2>1. step[t] = "retract" /\ step' = [step EXCEPT ![t] = "use"] /\ t \in Retracting
    BY <1>4 DEF Once!Decrement, Once!At, Once!In
  <2>2. Once!In("make")' = Making /\ Once!In("retract")' = Retracting \ {t}
    BY <1>b, <2>1, Moves
  <2>3. Cardinality(Retracting \ {t}) = Cardinality(Retracting) - 1 /\ Cardinality(Retracting) >= 1
    BY <2>1, <1>a, FS_RemoveElement, FS_EmptySet
  <2>4. CountExact'
    BY <1>4, <1>a, <2>2, <2>3 DEF CountExact, Begun, Once!Decrement
  <2>5. OnceTypes'
    BY <1>4, <1>a, <2>1, <2>3 DEF OnceTypes, CountExact, Begun, Once!Decrement
  <2> QED
    BY <1>4, <1>b, <2>1, <2>2, <2>4, <2>5 DEF MakerAlone, RowsInOrder, LateIsAfter, Once!Decrement
<1>5. ASSUME NEW t \in Threads, Once!Use(t) PROVE OnceInv'
  <2>1. step[t] = "use" /\ step' = [step EXCEPT ![t] = "idle"]
    BY <1>5 DEF Once!Use, Once!At
  <2>2. Once!In("make")' = Making /\ Once!In("retract")' = Retracting
    BY <1>b, <2>1, Moves
  <2> QED
    BY <1>5, <1>b, <2>1, <2>2
    DEF Once!Use, OnceTypes, CountExact, Begun, MakerAlone, RowsInOrder, LateIsAfter
<1> QED
  BY <1>1, <1>2, <1>3, <1>4, <1>5 DEF Once!Next

(* However many callers of crc32 or posix__random overlap, one initialises and
   none does so a second time; and a call that begins after it reads only rows
   that are stored. *)
THEOREM InitialisedOnceHolds ==
  ASSUME IsFiniteSet(Threads), Rows \in Nat \ {0}
  PROVE  Once!Spec => []InitialisedOnce
<1>1. OnceInv => InitialisedOnce
  <2> SUFFICES ASSUME OnceInv PROVE InitialisedOnce
    OBVIOUS
  <2>1. \A t, u \in Once!In("make") : t = u
    BY DEF OnceInv, MakerAlone, Once!In
  <2>2. done => Once!In("make") = {} /\ stored = Rows
    BY DEF OnceInv, RowsInOrder
  <2>3. \A t \in after : stored = Rows
    BY <2>2 DEF OnceInv, LateIsAfter
  <2> QED
    BY <2>1, <2>2, <2>3 DEF InitialisedOnce, Once!InitialisedOnce
<1> QED
  BY <1>1, OnceInit, OnceStep, PTL DEF Once!Spec
=============================================================================
