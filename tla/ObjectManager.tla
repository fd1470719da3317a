--------------------------- MODULE ObjectManager ---------------------------
(***************************************************************************)
(* The reference-counted object manager of com/object.c: objects live in   *)
(* malloc'ed blocks, are named by 64-bit handles that a global counter     *)
(* issues, and are found through a global table under one mutex.           *)
(*                                                                         *)
(* Everything between LOCK and UNLOCK of g_objmgr.object_locker_ touches   *)
(* shared state only under that mutex, so it is one step; what the code    *)
(* does before LOCK (malloc, the user's initializer) and after UNLOCK (the *)
(* user's unloader, free) are steps of their own, in code order.           *)
(*                                                                         *)
(* A caller is one sequence of calls on one object: objallo, or objrefr /  *)
(* objreff up to the objdefr that gives the reference back, or objclos.  A *)
(* thread that nests calls is several callers.  A call that returns NULL,  *)
(* -1 or void without touching anything is a stuttering step.              *)
(***************************************************************************)
EXTENDS Integers, FiniteSets

CONSTANTS Callers,    \* concurrent sequences of calls
          Blocks,     \* memory malloc can return; a freed block is reused
          MaxHandle,  \* bound on the handles issued in a behaviour
          None        \* the NULL pointer

ASSUME CallersAssumption == IsFiniteSet(Callers)
ASSUME MaxHandleAssumption == MaxHandle \in Nat
ASSUME NoneAssumption == None \notin Blocks

INVALID_OBJHLD == -1
Handles == 1..MaxHandle

VARIABLES
  mem,           \* per block: "free" or "live" (between malloc and free)
  hld,           \* object_t.hld_    (survives in a freed block, as memory does)
  stat,          \* object_t.stat_
  refcnt,        \* object_t.refcnt_
  object_table,  \* handle -> block, None when a search finds nothing
  automatic_id,  \* the last handle issued
  inited,        \* objinit's static counter of calls; counting stops at 1
  pc,            \* per caller: where it stands in its sequence of calls
  blk,           \* per caller: the object pointer it works on
  ref,           \* per caller: the handle of the reference it holds
  unloads        \* history: how often the unloader ran with a handle

objVars == <<mem, hld, stat, refcnt>>
mgrVars == <<object_table, automatic_id, inited>>
callVars == <<pc, blk, ref>>
vars == <<objVars, mgrVars, callVars, unloads>>

PCs == {"idle", "objinit", "initializer", "holds", "unload", "free"}

TypeOK ==
  /\ mem \in [Blocks -> {"free", "live"}]
  /\ hld \in [Blocks -> Handles \cup {INVALID_OBJHLD}]
  /\ stat \in [Blocks -> {"NORMAL", "CLOSEWAIT"}]
  /\ refcnt \in [Blocks -> Nat]
  /\ object_table \in [Handles -> Blocks \cup {None}]
  /\ automatic_id \in 0..MaxHandle
  /\ inited \in 0..1
  /\ pc \in [Callers -> PCs]
  /\ blk \in [Callers -> Blocks \cup {None}]
  /\ ref \in [Callers -> Handles \cup {INVALID_OBJHLD}]
  /\ unloads \in [Handles -> Nat]

Init ==
  /\ mem = [b \in Blocks |-> "free"]
  /\ hld = [b \in Blocks |-> INVALID_OBJHLD]
  /\ stat = [b \in Blocks |-> "NORMAL"]
  /\ refcnt = [b \in Blocks |-> 0]
  /\ object_table = [h \in Handles |-> None]
  /\ automatic_id = 0
  /\ inited = 0
  /\ pc = [c \in Callers |-> "idle"]
  /\ blk = [c \in Callers |-> None]
  /\ ref = [c \in Callers |-> INVALID_OBJHLD]
  /\ unloads = [h \in Handles |-> 0]

----------------------------------------------------------------------------
(* Where a caller goes next. *)

Goto(c, label, b, h) ==
  /\ pc' = [pc EXCEPT ![c] = label]
  /\ blk' = [blk EXCEPT ![c] = b]
  /\ ref' = [ref EXCEPT ![c] = h]

Return(c) == Goto(c, "idle", None, INVALID_OBJHLD)

(* __objtabsrch: an issued handle finds its block or NULL. *)
Search(h) == object_table[h]

(* __objtabrmve, then the caller owns the object that left the table. *)
Detach(c, h) ==
  /\ object_table' = [object_table EXCEPT ![h] = None]
  /\ Goto(c, "unload", object_table[h], INVALID_OBJHLD)

----------------------------------------------------------------------------
(* Plausible slips in object.c.  No specification uses them: each stands in
   for an action to show that a property would notice. *)

\* objreff forgets to count the final reference.
SlipReff(c, h) ==
  /\ pc[c] = "idle"
  /\ Search(h) # None
  /\ stat[Search(h)] = "NORMAL"
  /\ stat' = [stat EXCEPT ![Search(h)] = "CLOSEWAIT"]
  /\ Goto(c, "holds", Search(h), h)
  /\ UNCHANGED <<mem, hld, refcnt, mgrVars, unloads>>

\* objdefr: at the last reference of a closed object do Last(c, h); it is
\* the last one only if Final(b).
SlipDefrWith(c, Final(_), Last(_, _)) ==
  /\ pc[c] = "holds"
  /\ LET b == Search(ref[c])
     IN  /\ refcnt' = [refcnt EXCEPT ![b] = @ - 1]
         /\ IF refcnt[b] = 1 /\ Final(b)
            THEN Last(c, ref[c])
            ELSE Return(c) /\ UNCHANGED object_table
  /\ UNCHANGED <<mem, hld, stat, automatic_id, inited, unloads>>

\* objdefr leaves a closed object in the table.
SlipDefrKeeps(c) ==
  SlipDefrWith(c, LAMBDA b : FALSE, Detach)

\* objdefr closes an object nobody closed.
SlipDefrEager(c) ==
  SlipDefrWith(c, LAMBDA b : TRUE, Detach)

\* objclos ignores the references that are out.
SlipClos(c, h) ==
  /\ pc[c] = "idle"
  /\ Search(h) # None
  /\ Detach(c, h)
  /\ UNCHANGED <<mem, hld, stat, refcnt, automatic_id, inited, unloads>>

\* objclos unloads the object without taking it off the table.
SlipClosKeeps(c, h) ==
  /\ pc[c] = "idle"
  /\ Search(h) # None
  /\ refcnt[Search(h)] = 0
  /\ Goto(c, "unload", Search(h), INVALID_OBJHLD)
  /\ UNCHANGED <<objVars, mgrVars, unloads>>

----------------------------------------------------------------------------
(* objinit: the first call clears the table and the counter.  The counter
   of calls and the reset are two steps: nothing makes a second caller wait. *)

ObjInitEnter(c) ==
  /\ pc[c] = "idle"
  /\ inited = 0
  /\ inited' = 1
  /\ Goto(c, "objinit", None, INVALID_OBJHLD)
  /\ UNCHANGED <<objVars, object_table, automatic_id, unloads>>

ObjInitReset(c) ==
  /\ pc[c] = "objinit"
  /\ object_table' = [h \in Handles |-> None]
  /\ automatic_id' = 0
  /\ Return(c)
  /\ UNCHANGED <<objVars, inited, unloads>>

(* objallo up to the initializer: the header of the fresh block is filled
   in without the lock, and the user's initializer runs without it too. *)
ObjAllo(c) ==
  /\ pc[c] = "idle"
  /\ \E b \in Blocks :
       /\ mem[b] = "free"
       /\ mem' = [mem EXCEPT ![b] = "live"]
       /\ stat' = [stat EXCEPT ![b] = "NORMAL"]
       /\ refcnt' = [refcnt EXCEPT ![b] = 0]
       /\ Goto(c, "initializer", b, INVALID_OBJHLD)
  /\ UNCHANGED <<hld, mgrVars, unloads>>

(* The initializer returned a negative number: unloader_(-1, ..), free. *)
InitializerFails(c) ==
  /\ pc[c] = "initializer"
  /\ mem' = [mem EXCEPT ![blk[c]] = "free"]
  /\ Return(c)
  /\ UNCHANGED <<hld, stat, refcnt, mgrVars, unloads>>

(* __objtabinst: the next handle is issued and the object is published. *)
ObjTabInst(c) ==
  /\ pc[c] = "initializer"
  /\ automatic_id < MaxHandle
  /\ automatic_id' = automatic_id + 1
  /\ hld' = [hld EXCEPT ![blk[c]] = automatic_id + 1]
  /\ object_table' = [object_table EXCEPT ![automatic_id + 1] = blk[c]]
  /\ Return(c)
  /\ UNCHANGED <<mem, stat, refcnt, inited, unloads>>

(* objrefr: only an object in NORMAL status can be referenced. *)
ObjRefr(c, h) ==
  /\ pc[c] = "idle"
  /\ Search(h) # None
  /\ stat[Search(h)] = "NORMAL"
  /\ refcnt' = [refcnt EXCEPT ![Search(h)] = @ + 1]
  /\ Goto(c, "holds", Search(h), h)
  /\ UNCHANGED <<mem, hld, stat, mgrVars, unloads>>

(* objreff: the final reference, which turns the status to CLOSEWAIT. *)
ObjReff(c, h) ==
  /\ pc[c] = "idle"
  /\ Search(h) # None
  /\ stat[Search(h)] = "NORMAL"
  /\ refcnt' = [refcnt EXCEPT ![Search(h)] = @ + 1]
  /\ stat' = [stat EXCEPT ![Search(h)] = "CLOSEWAIT"]
  /\ Goto(c, "holds", Search(h), h)
  /\ UNCHANGED <<mem, hld, mgrVars, unloads>>

(* objdefr: the last reference of a CLOSEWAIT object takes it off the
   table.  A handle no longer found, or a zero count, is ignored. *)
ObjDefr(c) ==
  /\ pc[c] = "holds"
  /\ LET h == ref[c]
         b == Search(h)
     IN  IF b = None \/ refcnt[b] = 0
         THEN /\ Return(c)
              /\ UNCHANGED <<refcnt, object_table>>
         ELSE /\ refcnt' = [refcnt EXCEPT ![b] = @ - 1]
              /\ IF refcnt[b] = 1 /\ stat[b] = "CLOSEWAIT"
                 THEN Detach(c, h)
                 ELSE Return(c) /\ UNCHANGED object_table
  /\ UNCHANGED <<mem, hld, stat, automatic_id, inited, unloads>>

(* objclos: an unreferenced object goes at once, a referenced one waits for
   its last objdefr, and a second close changes nothing. *)
ObjClos(c, h) ==
  /\ pc[c] = "idle"
  /\ Search(h) # None
  /\ IF refcnt[Search(h)] = 0 /\ stat[Search(h)] = "NORMAL"
     THEN Detach(c, h) /\ UNCHANGED stat
     ELSE /\ stat' = [stat EXCEPT ![Search(h)] = "CLOSEWAIT"]
          /\ UNCHANGED <<object_table, callVars>>
  /\ UNCHANGED <<mem, hld, refcnt, automatic_id, inited, unloads>>

(* __objtagfree, after UNLOCK: the unloader gets the handle the block still
   carries, and only then the block is freed. *)
CallUnloader(c) ==
  /\ pc[c] = "unload"
  /\ unloads' = [unloads EXCEPT ![hld[blk[c]]] = @ + 1]
  /\ Goto(c, "free", blk[c], INVALID_OBJHLD)
  /\ UNCHANGED <<objVars, mgrVars>>

FreeObject(c) ==
  /\ pc[c] = "free"
  /\ mem' = [mem EXCEPT ![blk[c]] = "free"]
  /\ Return(c)
  /\ UNCHANGED <<hld, stat, refcnt, mgrVars, unloads>>

----------------------------------------------------------------------------
(* What the caller of a pending call does next, and what a caller may start. *)

Continue(c) ==
  InitializerFails(c) \/ ObjTabInst(c) \/ ObjDefr(c) \/ CallUnloader(c) \/ FreeObject(c)

Start(c) ==
  \/ ObjAllo(c)
  \/ \E h \in Handles : ObjRefr(c, h) \/ ObjReff(c, h) \/ ObjClos(c, h)

ObjInit(c) == ObjInitEnter(c) \/ ObjInitReset(c)

(* Start-up code: no call of the module before it has been issued.  objinit
   belongs here, and nothing else runs until it has returned: a later first
   call would clear a table that is in use. *)
Startup ==
  /\ automatic_id = 0
  /\ \A c \in Callers : pc[c] \in {"idle", "objinit"}

InitRunning == \E c \in Callers : pc[c] = "objinit"

Next ==
  \E c \in Callers :
    \/ Startup /\ ObjInit(c)
    \/ ~InitRunning /\ (Start(c) \/ Continue(c))

Spec == Init /\ [][Next]_vars

(* Fairness: a call that has begun returns, a user callback returns, and a
   reference is given back; nobody is obliged to start or to close. *)
Fairness ==
  \A c \in Callers :
    /\ WF_vars(ObjInitReset(c))
    /\ WF_vars(~InitRunning /\ (InitializerFails(c) \/ ObjTabInst(c)))
    /\ WF_vars(~InitRunning /\ ObjDefr(c))
    /\ WF_vars(~InitRunning /\ CallUnloader(c))
    /\ WF_vars(~InitRunning /\ FreeObject(c))

FairSpec == Spec /\ Fairness

----------------------------------------------------------------------------
(* Properties. *)

InTable(h) == object_table[h] # None
Holders(h) == {c \in Callers : pc[c] = "holds" /\ ref[c] = h}
Closing(h) == InTable(h) /\ stat[object_table[h]] = "CLOSEWAIT"
Owning(c) == pc[c] \in {"initializer", "unload", "free"}
Owner(c, b) == Owning(c) /\ blk[c] = b

(* A handle's reference count is the number of references given out and not
   yet given back, whatever the order of objrefr, objreff, objdefr, objclos. *)
RefcntExact ==
  \A h \in Handles : InTable(h) => refcnt[object_table[h]] = Cardinality(Holders(h))

(* The user data pointer that objrefr or objreff returned stays valid until
   the objdefr: the block is neither freed nor given to another object, and
   the objdefr will find it with a positive count (object.c's assert). *)
HolderMemorySafe ==
  \A c \in Callers : pc[c] = "holds" =>
    /\ object_table[ref[c]] = blk[c]
    /\ mem[blk[c]] = "live"
    /\ hld[blk[c]] = ref[c]
    /\ refcnt[blk[c]] > 0

(* A closed object still in the table is pinned by a reference: with none, no
   objdefr is left to remove it and objclos ignores it, so it leaks. *)
CloseWaitPinned ==
  \A h \in Handles : Closing(h) => Holders(h) # {}

(* The unloader runs at most once per handle, and from the moment it is due
   nobody can find the object or still use a reference to it. *)
UnloadExclusive ==
  /\ \A h \in Handles : unloads[h] <= 1
  /\ \A c \in Callers : pc[c] = "unload" =>
       LET h == hld[blk[c]]
       IN  /\ h \in Handles
           /\ unloads[h] = 0
           /\ ~InTable(h)
           /\ Holders(h) = {}

(* No leak and no double free: a block malloc returned is owned by the table
   under one handle or by exactly one call that will publish or free it. *)
BlockOwned ==
  \A b \in Blocks :
    LET names  == {h \in Handles : object_table[h] = b}
        owners == {c \in Callers : Owner(c, b)}
    IN  Cardinality(names) + Cardinality(owners) = IF mem[b] = "live" THEN 1 ELSE 0

(* An object leaves the table only into the hands of the call that closes
   it: objclos, or the last objdefr of a closed object. *)
LeavesOnlyToUnload ==
  [][\A h \in Handles : InTable(h) /\ ~InTable(h)' =>
       \E c \in Callers : pc'[c] = "unload" /\ blk'[c] = object_table[h]]_vars

(* Once an object is closed (objclos, or objreff's final reference) nobody
   gets a new reference to it: those out are only given back. *)
NoReferenceAfterClose ==
  [][\A h \in Handles : Closing(h) => Holders(h)' \subseteq Holders(h)]_vars

\* Issued and no longer open: waiting for references, or off the table.
Closed(h) == h <= automatic_id /\ (~InTable(h) \/ Closing(h))

\* The block keeps the handle until it is published under another one.
Reclaimed(h) == unloads[h] = 1 /\ \A b \in Blocks : hld[b] = h => mem[b] = "free"

(* A closed object, by objclos at a count of 0, by its last objdefr, or after
   its final reference, is unloaded and its memory freed, once the references
   that are out come back. *)
ClosedIsReclaimed == \A h \in Handles : Closed(h) ~> Reclaimed(h)

----------------------------------------------------------------------------
(* The inductive invariant behind the properties above. *)

\* The table maps issued handles to live blocks that carry that handle.
TableInv ==
  \A h \in Handles : InTable(h) =>
    /\ mem[object_table[h]] = "live"
    /\ hld[object_table[h]] = h
    /\ h <= automatic_id
    /\ unloads[h] = 0

\* A holder's object is in the table under the handle it was taken with.
HolderInv ==
  \A c \in Callers : pc[c] = "holds" =>
    ref[c] \in Handles /\ blk[c] \in Blocks /\ object_table[ref[c]] = blk[c]

\* A call that owns a block owns it alone, and every live block is owned.
OwnerAlive ==
  \A c \in Callers : Owning(c) =>
    blk[c] \in Blocks /\ mem[blk[c]] = "live" /\ \A h \in Handles : object_table[h] # blk[c]

OwnerAlone ==
  \A c, d \in Callers : Owning(c) /\ Owning(d) /\ blk[c] = blk[d] => c = d

LiveOwned ==
  \A b \in Blocks : mem[b] = "live" =>
    (\E h \in Handles : object_table[h] = b) \/ (\E c \in Callers : Owner(c, b))

OwnerInv == OwnerAlive /\ OwnerAlone /\ LiveOwned

\* An object nobody knows yet is unreferenced and open.
FreshInv ==
  \A c \in Callers : pc[c] = "initializer" =>
    refcnt[blk[c]] = 0 /\ stat[blk[c]] = "NORMAL"

\* An unloader that is due is due for an issued handle, and only once.
UnloadInv ==
  /\ \A c \in Callers : pc[c] = "unload" =>
       /\ hld[blk[c]] \in 1..automatic_id
       /\ ~InTable(hld[blk[c]])
       /\ unloads[hld[blk[c]]] = 0
  /\ \A c, d \in Callers :
       pc[c] = "unload" /\ pc[d] = "unload" /\ hld[blk[c]] = hld[blk[d]] => c = d
  /\ \A h \in Handles : unloads[h] <= 1 /\ (h > automatic_id => unloads[h] = 0)

\* While objinit runs nothing else has happened yet.
StartupInv == InitRunning => Startup

(* The table, the blocks, the counts and the calls under way agree: a live
   block is either in the table under the handle it carries or in the hands of
   one call, a closed object in the table is pinned by a reference, and an
   unloader that is due is due once.  Together the parts are inductive. *)
IndInv ==
  TypeOK /\ TableInv /\ HolderInv /\ RefcntExact /\ CloseWaitPinned
  /\ OwnerInv /\ FreshInv /\ UnloadInv /\ StartupInv

----------------------------------------------------------------------------
(* What a client sees of a handle (module HandleLifecycle). *)
Life(h) ==
  IF InTable(h) THEN IF Closing(h) THEN "closing" ELSE "open"
  ELSE IF h > automatic_id THEN "none"
  ELSE IF unloads[h] = 0 THEN "retired" ELSE "destroyed"

HL == INSTANCE HandleLifecycle WITH
        life <- [h \in Handles |-> Life(h)],
        holders <- [h \in Handles |-> Holders(h)]

(* The object manager implements the life cycle object.h promises. *)
ImplementsLifecycle == HL!Spec
============================================================================
