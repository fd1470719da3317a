------------------------ MODULE ObjectManagerProofs ------------------------
(***************************************************************************)
(* Machine-checked proofs about ObjectManager, for every set of callers    *)
(* and blocks and every bound on the handles.  First the types, then the   *)
(* inductive invariant IndInv with one lemma per action, then the          *)
(* properties it gives.                                                    *)
(***************************************************************************)
EXTENDS ObjectManager, FiniteSetTheorems, TLAPS

----------------------------------------------------------------------------
(* Type correctness. *)

\* An update keeps a function's type, even outside its domain.
LEMMA ExceptType ==
  ASSUME NEW S, NEW T, NEW f \in [S -> T], NEW x, NEW v, x \in S => v \in T
  PROVE  [f EXCEPT ![x] = v] \in [S -> T]
  OBVIOUS

\* The types need one fact beside TypeOK: a holder knows its handle.
TypeInv ==
  TypeOK /\ \A c \in Callers : pc[c] = "holds" => ref[c] \in Handles

LEMMA TypeInit == Init => TypeInv
  BY MaxHandleAssumption DEF Init, TypeInv, TypeOK, Handles, INVALID_OBJHLD, PCs

LEMMA TypeStep == TypeInv /\ [Next]_vars => TypeInv'
<1> SUFFICES ASSUME TypeInv, [Next]_vars PROVE TypeInv'
  OBVIOUS
<1> USE NoneAssumption, MaxHandleAssumption
    DEF TypeInv, TypeOK, Handles, PCs, INVALID_OBJHLD, Goto, Return, Search, Detach,
        objVars, mgrVars, callVars
<1>1. ASSUME NEW c \in Callers, ObjInitEnter(c) PROVE TypeInv'
  BY <1>1 DEF ObjInitEnter
<1>2. ASSUME NEW c \in Callers, ObjInitReset(c) PROVE TypeInv'
  BY <1>2 DEF ObjInitReset
<1>3. ASSUME NEW c \in Callers, ObjAllo(c) PROVE TypeInv'
  BY <1>3 DEF ObjAllo
<1>4. ASSUME NEW c \in Callers, InitializerFails(c) PROVE TypeInv'
  <2>1. mem' \in [Blocks -> {"free", "live"}]
    BY ExceptType, <1>4 DEF InitializerFails
  <2> QED
    BY <1>4, <2>1 DEF InitializerFails
<1>5. ASSUME NEW c \in Callers, ObjTabInst(c) PROVE TypeInv'
  <2>1. automatic_id + 1 \in Handles
    BY <1>5 DEF ObjTabInst
  <2>2. hld' \in [Blocks -> Handles \cup {INVALID_OBJHLD}]
    BY ExceptType, <1>5, <2>1 DEF ObjTabInst
  <2> QED
    BY <1>5, <2>1, <2>2 DEF ObjTabInst
<1>6. ASSUME NEW c \in Callers, NEW h \in Handles, ObjRefr(c, h) PROVE TypeInv'
  BY <1>6 DEF ObjRefr
<1>7. ASSUME NEW c \in Callers, NEW h \in Handles, ObjReff(c, h) PROVE TypeInv'
  BY <1>7 DEF ObjReff
<1>8. ASSUME NEW c \in Callers, ObjDefr(c) PROVE TypeInv'
  <2> DEFINE b == Search(ref[c])
  <2>1. CASE b = None \/ refcnt[b] = 0
    BY <1>8, <2>1 DEF ObjDefr
  <2>2. CASE b # None /\ refcnt[b] # 0
    <3>1. ref[c] \in Handles /\ b \in Blocks
      BY <1>8, <2>2 DEF ObjDefr
    <3>2. refcnt' = [refcnt EXCEPT ![b] = refcnt[b] - 1]
      BY <1>8, <2>2 DEF ObjDefr
    <3>3. refcnt' \in [Blocks -> Nat]
      BY <3>1, <3>2, <2>2
    <3>4. CASE refcnt[b] = 1 /\ stat[b] = "CLOSEWAIT"
      <4>1. Detach(c, ref[c]) /\ UNCHANGED <<mem, hld, stat, automatic_id, inited, unloads>>
        BY <1>8, <2>2, <3>4 DEF ObjDefr
      <4> QED
        BY <3>1, <3>3, <4>1
    <3>5. CASE ~(refcnt[b] = 1 /\ stat[b] = "CLOSEWAIT")
      <4>1. Return(c) /\ UNCHANGED <<mem, hld, stat, object_table, automatic_id, inited, unloads>>
        BY <1>8, <2>2, <3>5 DEF ObjDefr
      <4> QED
        BY <3>3, <4>1
    <3> QED
      BY <3>4, <3>5
  <2> QED
    BY <2>1, <2>2
<1>9. ASSUME NEW c \in Callers, NEW h \in Handles, ObjClos(c, h) PROVE TypeInv'
  BY <1>9 DEF ObjClos
<1>10. ASSUME NEW c \in Callers, CallUnloader(c) PROVE TypeInv'
  <2>1. unloads' \in [Handles -> Nat]
    BY ExceptType, <1>10 DEF CallUnloader
  <2> QED
    BY <1>10, <2>1 DEF CallUnloader
<1>11. ASSUME NEW c \in Callers, FreeObject(c) PROVE TypeInv'
  <2>1. mem' \in [Blocks -> {"free", "live"}]
    BY ExceptType, <1>11 DEF FreeObject
  <2> QED
    BY <1>11, <2>1 DEF FreeObject
<1>12. CASE UNCHANGED vars
  BY <1>12 DEF vars
<1> QED
  BY <1>1, <1>2, <1>3, <1>4, <1>5, <1>6, <1>7, <1>8, <1>9, <1>10, <1>11, <1>12
  DEF Next, ObjInit, Start, Continue

(* Every variable keeps its type, whatever the callers do. *)
THEOREM TypeCorrect == Spec => []TypeOK
<1>1. TypeInv => TypeOK
  BY DEF TypeInv
<1> QED
  BY TypeInit, TypeStep, <1>1, PTL DEF Spec

----------------------------------------------------------------------------
(* Counting references. *)

\* Any set of callers is finite, and one caller more or less changes its
\* size by one.
LEMMA CallerSets ==
  ASSUME NEW S \in SUBSET Callers
  PROVE  /\ IsFiniteSet(S)
         /\ Cardinality(S) \in Nat
         /\ Cardinality(S) = 0 <=> S = {}
         /\ \A c : c \notin S => Cardinality(S \cup {c}) = Cardinality(S) + 1
         /\ \A c : c \in S => Cardinality(S \ {c}) = Cardinality(S) - 1
<1>1. IsFiniteSet(S)
  BY FS_Subset, CallersAssumption
<1> QED
  BY <1>1, FS_CardinalityType, FS_EmptySet, FS_AddElement, FS_RemoveElement

\* A step in which nobody takes or gives back a reference.
LEMMA SameHolders ==
  ASSUME NEW h \in Handles, NEW c \in Callers,
         \A d \in Callers \ {c} : pc'[d] = pc[d] /\ ref'[d] = ref[d],
         pc[c] # "holds", pc'[c] # "holds"
  PROVE  Holders(h)' = Holders(h)
  BY DEF Holders

----------------------------------------------------------------------------
(* Every action preserves the inductive invariant. *)

\* objallo takes a free block: nobody can be using it.
LEMMA InvAllo ==
  ASSUME IndInv, TypeOK', ~InitRunning, NEW c \in Callers, ObjAllo(c)
  PROVE  IndInv'
<1>1. PICK b \in Blocks : /\ mem[b] = "free"
                         /\ mem' = [mem EXCEPT ![b] = "live"]
                         /\ stat' = [stat EXCEPT ![b] = "NORMAL"]
                         /\ refcnt' = [refcnt EXCEPT ![b] = 0]
                         /\ pc' = [pc EXCEPT ![c] = "initializer"]
                         /\ blk' = [blk EXCEPT ![c] = b]
                         /\ ref' = [ref EXCEPT ![c] = INVALID_OBJHLD]
  BY DEF ObjAllo, Goto
<1>2. /\ pc[c] = "idle"
      /\ UNCHANGED <<hld, object_table, automatic_id, inited, unloads>>
  BY DEF ObjAllo, mgrVars
<1>3. \A h \in Handles : object_table[h] # b
  BY <1>1, NoneAssumption DEF IndInv, TableInv, InTable, TypeOK
<1>4. \A h \in Handles : Holders(h)' = Holders(h)
  BY <1>1, <1>2, SameHolders DEF IndInv, TypeOK
<1>10. TableInv'
  BY NoneAssumption, MaxHandleAssumption, <1>1, <1>2, <1>3, <1>4 DEF TypeOK, Handles, PCs, INVALID_OBJHLD, IndInv, TableInv, InTable
<1>11. HolderInv'
  BY NoneAssumption, MaxHandleAssumption, <1>1, <1>2, <1>3, <1>4 DEF TypeOK, Handles, PCs, INVALID_OBJHLD, IndInv, HolderInv
<1>12. RefcntExact'
  BY NoneAssumption, MaxHandleAssumption, <1>1, <1>2, <1>3, <1>4 DEF TypeOK, Handles, PCs, INVALID_OBJHLD, IndInv, RefcntExact, InTable
<1>13. CloseWaitPinned'
  BY NoneAssumption, MaxHandleAssumption, <1>1, <1>2, <1>3, <1>4 DEF TypeOK, Handles, PCs, INVALID_OBJHLD, IndInv, CloseWaitPinned, Closing, InTable
<1>14. OwnerAlive'
  BY NoneAssumption, MaxHandleAssumption, <1>1, <1>2, <1>3, <1>4 DEF TypeOK, Handles, PCs, INVALID_OBJHLD, IndInv, OwnerInv, OwnerAlive, OwnerAlone, Owner, Owning
<1>15. OwnerAlone'
  BY NoneAssumption, MaxHandleAssumption, <1>1, <1>2, <1>3, <1>4 DEF TypeOK, Handles, PCs, INVALID_OBJHLD, IndInv, OwnerInv, OwnerAlive, OwnerAlone, Owner, Owning
<1>16. LiveOwned'
  <2> SUFFICES ASSUME NEW x \in Blocks, mem'[x] = "live"
               PROVE  (\E h \in Handles : object_table'[h] = x) \/ (\E d \in Callers : Owner(d, x)')
    BY DEF LiveOwned
  <2>1. CASE x = b
    BY <1>1, <2>1 DEF Owner, Owning, TypeOK
  <2>2. CASE x # b
    <3>1. mem[x] = "live"
      BY <1>1, <1>2, <2>2
    <3>2. CASE \E h \in Handles : object_table[h] = x
      BY <1>1, <1>2, <2>2, <3>2
    <3>3. CASE \E d \in Callers : Owner(d, x)
      <4>1. PICK d \in Callers : Owner(d, x)
        BY <3>3
      <4>2. Owner(d, x)'
        BY <1>1, <1>2, <2>2, <4>1 DEF Owner, Owning, TypeOK
      <4> QED
        BY <4>2
    <3> QED
      BY <3>1, <3>2, <3>3 DEF IndInv, OwnerInv, LiveOwned
  <2> QED
    BY <2>1, <2>2
<1>17. FreshInv'
  BY NoneAssumption, MaxHandleAssumption, <1>1, <1>2, <1>3, <1>4 DEF TypeOK, Handles, PCs, INVALID_OBJHLD, IndInv, FreshInv, OwnerInv, OwnerAlone, OwnerAlive, Owning
<1>18. UnloadInv'
  BY NoneAssumption, MaxHandleAssumption, <1>1, <1>2, <1>3, <1>4 DEF TypeOK, Handles, PCs, INVALID_OBJHLD, IndInv, UnloadInv, OwnerInv, OwnerAlive, OwnerAlone, Owning, InTable
<1>19. StartupInv'
  BY NoneAssumption, MaxHandleAssumption, <1>1, <1>2, <1>3, <1>4 DEF TypeOK, Handles, PCs, INVALID_OBJHLD, IndInv, StartupInv, InitRunning, Startup
<1> QED
  BY <1>10, <1>11, <1>12, <1>13, <1>14, <1>15, <1>16, <1>17, <1>18, <1>19 DEF IndInv, OwnerInv

\* A failed initializer frees a block only its own call knows.
LEMMA InvInitializerFails ==
  ASSUME IndInv, TypeOK', ~InitRunning, NEW c \in Callers, InitializerFails(c)
  PROVE  IndInv'
<1> DEFINE b == blk[c]
<1>1. /\ pc[c] = "initializer"
      /\ mem' = [mem EXCEPT ![b] = "free"]
      /\ pc' = [pc EXCEPT ![c] = "idle"]
      /\ blk' = [blk EXCEPT ![c] = None]
      /\ ref' = [ref EXCEPT ![c] = INVALID_OBJHLD]
      /\ UNCHANGED <<hld, stat, refcnt, object_table, automatic_id, inited, unloads>>
  BY DEF InitializerFails, Return, Goto, mgrVars
<1>2. b \in Blocks /\ mem[b] = "live" /\ \A h \in Handles : object_table[h] # b
  BY <1>1 DEF IndInv, OwnerInv, OwnerAlive, Owning
<1>3. \A h \in Handles : Holders(h)' = Holders(h)
  BY <1>1, SameHolders DEF IndInv, TypeOK
<1>10. TableInv'
  BY NoneAssumption, MaxHandleAssumption, <1>1, <1>2, <1>3 DEF TypeOK, Handles, PCs, INVALID_OBJHLD, IndInv, TableInv, InTable
<1>11. HolderInv'
  BY NoneAssumption, MaxHandleAssumption, <1>1, <1>2, <1>3 DEF TypeOK, Handles, PCs, INVALID_OBJHLD, IndInv, HolderInv
<1>12. RefcntExact'
  BY NoneAssumption, MaxHandleAssumption, <1>1, <1>2, <1>3 DEF TypeOK, Handles, PCs, INVALID_OBJHLD, IndInv, RefcntExact, InTable
<1>13. CloseWaitPinned'
  BY NoneAssumption, MaxHandleAssumption, <1>1, <1>2, <1>3 DEF TypeOK, Handles, PCs, INVALID_OBJHLD, IndInv, CloseWaitPinned, Closing, InTable
<1>14. OwnerAlive'
  BY NoneAssumption, MaxHandleAssumption, <1>1, <1>2, <1>3 DEF TypeOK, Handles, PCs, INVALID_OBJHLD, IndInv, OwnerInv, OwnerAlive, OwnerAlone, Owner, Owning
<1>15. OwnerAlone'
  BY NoneAssumption, MaxHandleAssumption, <1>1, <1>2, <1>3 DEF TypeOK, Handles, PCs, INVALID_OBJHLD, IndInv, OwnerInv, OwnerAlive, OwnerAlone, Owner, Owning
<1>16. LiveOwned'
  <2> SUFFICES ASSUME NEW x \in Blocks, mem'[x] = "live"
               PROVE  (\E h \in Handles : object_table'[h] = x) \/ (\E d \in Callers : Owner(d, x)')
    BY DEF LiveOwned
  <2>1. CASE x = b
    BY <1>1, <1>2, <2>1 DEF IndInv, TypeOK
  <2>2. CASE x # b
    <3>1. mem[x] = "live"
      BY <1>1, <1>2, <2>2
    <3>2. CASE \E h \in Handles : object_table[h] = x
      BY <1>1, <1>2, <2>2, <3>2
    <3>3. CASE \E d \in Callers : Owner(d, x)
      <4>1. PICK d \in Callers : Owner(d, x)
        BY <3>3
      <4>2. Owner(d, x)'
        BY <1>1, <1>2, <2>2, <4>1 DEF Owner, Owning, TypeOK
      <4> QED
        BY <4>2
    <3> QED
      BY <3>1, <3>2, <3>3 DEF IndInv, OwnerInv, LiveOwned
  <2> QED
    BY <2>1, <2>2
<1>17. FreshInv'
  BY NoneAssumption, MaxHandleAssumption, <1>1, <1>2, <1>3 DEF TypeOK, Handles, PCs, INVALID_OBJHLD, IndInv, FreshInv, OwnerInv, OwnerAlone, OwnerAlive, Owning
<1>18. UnloadInv'
  BY NoneAssumption, MaxHandleAssumption, <1>1, <1>2, <1>3 DEF TypeOK, Handles, PCs, INVALID_OBJHLD, IndInv, UnloadInv, OwnerInv, OwnerAlive, OwnerAlone, Owning, InTable
<1>19. StartupInv'
  BY NoneAssumption, MaxHandleAssumption, <1>1, <1>2, <1>3 DEF TypeOK, Handles, PCs, INVALID_OBJHLD, IndInv, StartupInv, InitRunning, Startup
<1> QED
  BY <1>10, <1>11, <1>12, <1>13, <1>14, <1>15, <1>16, <1>17, <1>18, <1>19 DEF IndInv, OwnerInv

\* So does the free after the unloader.
LEMMA InvFreeObject ==
  ASSUME IndInv, TypeOK', ~InitRunning, NEW c \in Callers, FreeObject(c)
  PROVE  IndInv'
<1> DEFINE b == blk[c]
<1>1. /\ pc[c] = "free"
      /\ mem' = [mem EXCEPT ![b] = "free"]
      /\ pc' = [pc EXCEPT ![c] = "idle"]
      /\ blk' = [blk EXCEPT ![c] = None]
      /\ ref' = [ref EXCEPT ![c] = INVALID_OBJHLD]
      /\ UNCHANGED <<hld, stat, refcnt, object_table, automatic_id, inited, unloads>>
  BY DEF FreeObject, Return, Goto, mgrVars
<1>2. b \in Blocks /\ mem[b] = "live" /\ \A h \in Handles : object_table[h] # b
  BY <1>1 DEF IndInv, OwnerInv, OwnerAlive, Owning
<1>3. \A h \in Handles : Holders(h)' = Holders(h)
  BY <1>1, SameHolders DEF IndInv, TypeOK
<1>10. TableInv'
  BY NoneAssumption, MaxHandleAssumption, <1>1, <1>2, <1>3 DEF TypeOK, Handles, PCs, INVALID_OBJHLD, IndInv, TableInv, InTable
<1>11. HolderInv'
  BY NoneAssumption, MaxHandleAssumption, <1>1, <1>2, <1>3 DEF TypeOK, Handles, PCs, INVALID_OBJHLD, IndInv, HolderInv
<1>12. RefcntExact'
  BY NoneAssumption, MaxHandleAssumption, <1>1, <1>2, <1>3 DEF TypeOK, Handles, PCs, INVALID_OBJHLD, IndInv, RefcntExact, InTable
<1>13. CloseWaitPinned'
  BY NoneAssumption, MaxHandleAssumption, <1>1, <1>2, <1>3 DEF TypeOK, Handles, PCs, INVALID_OBJHLD, IndInv, CloseWaitPinned, Closing, InTable
<1>14. OwnerAlive'
  BY NoneAssumption, MaxHandleAssumption, <1>1, <1>2, <1>3 DEF TypeOK, Handles, PCs, INVALID_OBJHLD, IndInv, OwnerInv, OwnerAlive, OwnerAlone, Owner, Owning
<1>15. OwnerAlone'
  BY NoneAssumption, MaxHandleAssumption, <1>1, <1>2, <1>3 DEF TypeOK, Handles, PCs, INVALID_OBJHLD, IndInv, OwnerInv, OwnerAlive, OwnerAlone, Owner, Owning
<1>16. LiveOwned'
  <2> SUFFICES ASSUME NEW x \in Blocks, mem'[x] = "live"
               PROVE  (\E h \in Handles : object_table'[h] = x) \/ (\E d \in Callers : Owner(d, x)')
    BY DEF LiveOwned
  <2>1. CASE x = b
    BY <1>1, <1>2, <2>1 DEF IndInv, TypeOK
  <2>2. CASE x # b
    <3>1. mem[x] = "live"
      BY <1>1, <1>2, <2>2
    <3>2. CASE \E h \in Handles : object_table[h] = x
      BY <1>1, <1>2, <2>2, <3>2
    <3>3. CASE \E d \in Callers : Owner(d, x)
      <4>1. PICK d \in Callers : Owner(d, x)
        BY <3>3
      <4>2. Owner(d, x)'
        BY <1>1, <1>2, <2>2, <4>1 DEF Owner, Owning, TypeOK
      <4> QED
        BY <4>2
    <3> QED
      BY <3>1, <3>2, <3>3 DEF IndInv, OwnerInv, LiveOwned
  <2> QED
    BY <2>1, <2>2
<1>17. FreshInv'
  BY NoneAssumption, MaxHandleAssumption, <1>1, <1>2, <1>3 DEF TypeOK, Handles, PCs, INVALID_OBJHLD, IndInv, FreshInv, OwnerInv, OwnerAlone, OwnerAlive, Owning
<1>18. UnloadInv'
  BY NoneAssumption, MaxHandleAssumption, <1>1, <1>2, <1>3 DEF TypeOK, Handles, PCs, INVALID_OBJHLD, IndInv, UnloadInv, OwnerInv, OwnerAlive, OwnerAlone, Owning, InTable
<1>19. StartupInv'
  BY NoneAssumption, MaxHandleAssumption, <1>1, <1>2, <1>3 DEF TypeOK, Handles, PCs, INVALID_OBJHLD, IndInv, StartupInv, InitRunning, Startup
<1> QED
  BY <1>10, <1>11, <1>12, <1>13, <1>14, <1>15, <1>16, <1>17, <1>18, <1>19 DEF IndInv, OwnerInv

\* __objtabinst publishes its block under a handle never issued before.
LEMMA InvTabInst ==
  ASSUME IndInv, TypeOK', ~InitRunning, NEW c \in Callers, ObjTabInst(c)
  PROVE  IndInv'
<1> DEFINE b == blk[c]
<1> DEFINE n == automatic_id + 1
<1>1. /\ pc[c] = "initializer"
      /\ automatic_id < MaxHandle
      /\ automatic_id' = n
      /\ hld' = [hld EXCEPT ![b] = n]
      /\ object_table' = [object_table EXCEPT ![n] = b]
      /\ pc' = [pc EXCEPT ![c] = "idle"]
      /\ blk' = [blk EXCEPT ![c] = None]
      /\ ref' = [ref EXCEPT ![c] = INVALID_OBJHLD]
      /\ UNCHANGED <<mem, stat, refcnt, inited, unloads>>
  BY DEF ObjTabInst, Return, Goto
<1>2. /\ b \in Blocks /\ mem[b] = "live" /\ \A h \in Handles : object_table[h] # b
      /\ n \in Handles /\ object_table[n] = None /\ unloads[n] = 0
      /\ refcnt[b] = 0 /\ stat[b] = "NORMAL"
  BY <1>1, MaxHandleAssumption
  DEF IndInv, OwnerInv, OwnerAlive, Owning, TypeOK, TableInv, InTable, UnloadInv, Handles, FreshInv
<1>3. \A h \in Handles : Holders(h)' = Holders(h)
  BY <1>1, SameHolders DEF IndInv, TypeOK
<1>4. Cardinality(Holders(n)) = 0
  <2>1. Holders(n) = {}
    BY <1>2, NoneAssumption DEF Holders, IndInv, HolderInv
  <2> QED
    BY <2>1, CallerSets
<1>10. TableInv'
  BY NoneAssumption, MaxHandleAssumption, <1>1, <1>2, <1>3, <1>4 DEF TypeOK, Handles, PCs, INVALID_OBJHLD, IndInv, TableInv, InTable
<1>11. HolderInv'
  BY NoneAssumption, MaxHandleAssumption, <1>1, <1>2, <1>3, <1>4 DEF TypeOK, Handles, PCs, INVALID_OBJHLD, IndInv, HolderInv
<1>12. RefcntExact'
  BY NoneAssumption, MaxHandleAssumption, <1>1, <1>2, <1>3, <1>4 DEF TypeOK, Handles, PCs, INVALID_OBJHLD, IndInv, RefcntExact, InTable
<1>13. CloseWaitPinned'
  BY NoneAssumption, MaxHandleAssumption, <1>1, <1>2, <1>3, <1>4 DEF TypeOK, Handles, PCs, INVALID_OBJHLD, IndInv, CloseWaitPinned, Closing, InTable
<1>14. OwnerAlive'
  BY NoneAssumption, MaxHandleAssumption, <1>1, <1>2, <1>3, <1>4 DEF TypeOK, Handles, PCs, INVALID_OBJHLD, IndInv, OwnerInv, OwnerAlive, OwnerAlone, Owner, Owning
<1>15. OwnerAlone'
  BY NoneAssumption, MaxHandleAssumption, <1>1, <1>2, <1>3, <1>4 DEF TypeOK, Handles, PCs, INVALID_OBJHLD, IndInv, OwnerInv, OwnerAlive, OwnerAlone, Owner, Owning
<1>16. LiveOwned'
  <2> SUFFICES ASSUME NEW x \in Blocks, mem'[x] = "live"
               PROVE  (\E h \in Handles : object_table'[h] = x) \/ (\E d \in Callers : Owner(d, x)')
    BY DEF LiveOwned
  <2>1. CASE x = b
    BY <1>1, <1>2, <2>1 DEF IndInv, TypeOK
  <2>2. CASE x # b
    <3>1. mem[x] = "live"
      BY <1>1, <1>2, <2>2
    <3>2. CASE \E h \in Handles : object_table[h] = x
      BY <1>1, <1>2, <2>2, <3>2, NoneAssumption DEF IndInv, TypeOK
    <3>3. CASE \E d \in Callers : Owner(d, x)
      <4>1. PICK d \in Callers : Owner(d, x)
        BY <3>3
      <4>2. Owner(d, x)'
        BY <1>1, <1>2, <2>2, <4>1 DEF Owner, Owning, TypeOK
      <4> QED
        BY <4>2
    <3> QED
      BY <3>1, <3>2, <3>3 DEF IndInv, OwnerInv, LiveOwned
  <2> QED
    BY <2>1, <2>2
<1>17. FreshInv'
  BY NoneAssumption, MaxHandleAssumption, <1>1, <1>2, <1>3, <1>4 DEF TypeOK, Handles, PCs, INVALID_OBJHLD, IndInv, FreshInv, OwnerInv, OwnerAlone, OwnerAlive, Owning
<1>18. UnloadInv'
  BY NoneAssumption, MaxHandleAssumption, <1>1, <1>2, <1>3, <1>4 DEF TypeOK, Handles, PCs, INVALID_OBJHLD, IndInv, UnloadInv, OwnerInv, OwnerAlive, OwnerAlone, Owning, InTable
<1>19. StartupInv'
  BY NoneAssumption, MaxHandleAssumption, <1>1, <1>2, <1>3, <1>4 DEF TypeOK, Handles, PCs, INVALID_OBJHLD, IndInv, StartupInv, InitRunning, Startup
<1> QED
  BY <1>10, <1>11, <1>12, <1>13, <1>14, <1>15, <1>16, <1>17, <1>18, <1>19 DEF IndInv, OwnerInv

\* The unloader runs for a handle that is off the table and was not unloaded.
LEMMA InvCallUnloader ==
  ASSUME IndInv, TypeOK', ~InitRunning, NEW c \in Callers, CallUnloader(c)
  PROVE  IndInv'
<1> DEFINE b == blk[c]
<1>1. /\ pc[c] = "unload"
      /\ unloads' = [unloads EXCEPT ![hld[b]] = @ + 1]
      /\ pc' = [pc EXCEPT ![c] = "free"]
      /\ blk' = [blk EXCEPT ![c] = b]
      /\ ref' = [ref EXCEPT ![c] = INVALID_OBJHLD]
      /\ UNCHANGED <<mem, hld, stat, refcnt, object_table, automatic_id, inited>>
  BY DEF CallUnloader, Goto, objVars, mgrVars
<1>2. hld[b] \in Handles /\ unloads[hld[b]] = 0 /\ object_table[hld[b]] = None
  BY <1>1, MaxHandleAssumption DEF IndInv, UnloadInv, InTable, TypeOK, Handles
<1>3. \A h \in Handles : Holders(h)' = Holders(h)
  BY <1>1, SameHolders DEF IndInv, TypeOK
<1>10. TableInv'
  BY NoneAssumption, MaxHandleAssumption, <1>1, <1>2, <1>3 DEF TypeOK, Handles, PCs, INVALID_OBJHLD, IndInv, TableInv, InTable
<1>11. HolderInv'
  BY NoneAssumption, MaxHandleAssumption, <1>1, <1>2, <1>3 DEF TypeOK, Handles, PCs, INVALID_OBJHLD, IndInv, HolderInv
<1>12. RefcntExact'
  BY NoneAssumption, MaxHandleAssumption, <1>1, <1>2, <1>3 DEF TypeOK, Handles, PCs, INVALID_OBJHLD, IndInv, RefcntExact, InTable
<1>13. CloseWaitPinned'
  BY NoneAssumption, MaxHandleAssumption, <1>1, <1>2, <1>3 DEF TypeOK, Handles, PCs, INVALID_OBJHLD, IndInv, CloseWaitPinned, Closing, InTable
<1>14. OwnerAlive'
  BY NoneAssumption, MaxHandleAssumption, <1>1, <1>2, <1>3 DEF TypeOK, Handles, PCs, INVALID_OBJHLD, IndInv, OwnerInv, OwnerAlive, OwnerAlone, Owner, Owning
<1>15. OwnerAlone'
  BY NoneAssumption, MaxHandleAssumption, <1>1, <1>2, <1>3 DEF TypeOK, Handles, PCs, INVALID_OBJHLD, IndInv, OwnerInv, OwnerAlive, OwnerAlone, Owner, Owning
<1>16. LiveOwned'
  <2> SUFFICES ASSUME NEW x \in Blocks, mem'[x] = "live"
               PROVE  (\E h \in Handles : object_table'[h] = x) \/ (\E d \in Callers : Owner(d, x)')
    BY DEF LiveOwned
  <2>1. mem[x] = "live"
    BY <1>1, <1>2
  <2>2. CASE \E h \in Handles : object_table[h] = x
    BY <1>1, <1>2, <2>2
  <2>3. CASE \E d \in Callers : Owner(d, x)
    <3>1. PICK d \in Callers : Owner(d, x)
      BY <2>3
    <3>2. Owner(d, x)'
      BY <1>1, <1>2, <3>1 DEF Owner, Owning, TypeOK
    <3> QED
      BY <3>2
  <2> QED
    BY <2>1, <2>2, <2>3 DEF IndInv, OwnerInv, LiveOwned
<1>17. FreshInv'
  BY NoneAssumption, MaxHandleAssumption, <1>1, <1>2, <1>3 DEF TypeOK, Handles, PCs, INVALID_OBJHLD, IndInv, FreshInv, OwnerInv, OwnerAlone, OwnerAlive, Owning
<1>18. UnloadInv'
  BY NoneAssumption, MaxHandleAssumption, <1>1, <1>2, <1>3 DEF TypeOK, Handles, PCs, INVALID_OBJHLD, IndInv, UnloadInv, OwnerInv, OwnerAlive, OwnerAlone, Owning, InTable
<1>19. StartupInv'
  BY NoneAssumption, MaxHandleAssumption, <1>1, <1>2, <1>3 DEF TypeOK, Handles, PCs, INVALID_OBJHLD, IndInv, StartupInv, InitRunning, Startup
<1> QED
  BY <1>10, <1>11, <1>12, <1>13, <1>14, <1>15, <1>16, <1>17, <1>18, <1>19 DEF IndInv, OwnerInv

\* A reference taken is counted, and keeps a closing object in the table.
LEMMA InvAcquire ==
  ASSUME IndInv, TypeOK', ~InitRunning, NEW c \in Callers, NEW h \in Handles, ObjRefr(c, h) \/ ObjReff(c, h)
  PROVE  IndInv'
<1> DEFINE b == object_table[h]
<1>1. /\ pc[c] = "idle"
      /\ b # None
      /\ stat[b] = "NORMAL"
      /\ refcnt' = [refcnt EXCEPT ![b] = refcnt[b] + 1]
      /\ stat' = stat \/ stat' = [stat EXCEPT ![b] = "CLOSEWAIT"]
      /\ pc' = [pc EXCEPT ![c] = "holds"]
      /\ blk' = [blk EXCEPT ![c] = b]
      /\ ref' = [ref EXCEPT ![c] = h]
      /\ UNCHANGED <<mem, hld, object_table, automatic_id, inited, unloads>>
  BY DEF ObjRefr, ObjReff, Search, Goto, mgrVars
<1>2. b \in Blocks /\ mem[b] = "live" /\ hld[b] = h
  BY <1>1 DEF IndInv, TypeOK, TableInv, InTable
<1>3. \A g \in Handles \ {h} : Holders(g)' = Holders(g)
  BY <1>1 DEF Holders, IndInv, TypeOK
<1>4. Holders(h)' = Holders(h) \cup {c} /\ c \notin Holders(h)
  BY <1>1 DEF Holders, IndInv, TypeOK
<1>5. Cardinality(Holders(h)') = refcnt[b] + 1 /\ Holders(h)' # {}
  <2>1. Holders(h) \in SUBSET Callers
    BY DEF Holders
  <2>2. Cardinality(Holders(h) \cup {c}) = Cardinality(Holders(h)) + 1
    BY <1>4, <2>1, CallerSets
  <2> QED
    BY <1>1, <1>4, <2>2 DEF IndInv, RefcntExact, InTable
<1>6. \A g \in Handles \ {h} : object_table[g] # None => object_table[g] # b
  BY <1>2 DEF IndInv, TableInv, InTable
<1>10. TableInv'
  BY NoneAssumption, MaxHandleAssumption, <1>1, <1>2, <1>3, <1>5, <1>6 DEF TypeOK, Handles, PCs, INVALID_OBJHLD, IndInv, TableInv, InTable
<1>11. HolderInv'
  BY NoneAssumption, MaxHandleAssumption, <1>1, <1>2, <1>3, <1>5, <1>6 DEF TypeOK, Handles, PCs, INVALID_OBJHLD, IndInv, HolderInv
<1>12. RefcntExact'
  BY NoneAssumption, MaxHandleAssumption, <1>1, <1>2, <1>3, <1>5, <1>6 DEF TypeOK, Handles, PCs, INVALID_OBJHLD, IndInv, RefcntExact, InTable
<1>13. CloseWaitPinned'
  BY NoneAssumption, MaxHandleAssumption, <1>1, <1>2, <1>3, <1>5, <1>6 DEF TypeOK, Handles, PCs, INVALID_OBJHLD, IndInv, CloseWaitPinned, Closing, InTable
<1>14. OwnerAlive'
  BY NoneAssumption, MaxHandleAssumption, <1>1, <1>2, <1>3, <1>5, <1>6 DEF TypeOK, Handles, PCs, INVALID_OBJHLD, IndInv, OwnerInv, OwnerAlive, OwnerAlone, Owner, Owning
<1>15. OwnerAlone'
  BY NoneAssumption, MaxHandleAssumption, <1>1, <1>2, <1>3, <1>5, <1>6 DEF TypeOK, Handles, PCs, INVALID_OBJHLD, IndInv, OwnerInv, OwnerAlive, OwnerAlone, Owner, Owning
<1>16. LiveOwned'
  <2> SUFFICES ASSUME NEW x \in Blocks, mem'[x] = "live"
               PROVE  (\E g \in Handles : object_table'[g] = x) \/ (\E d \in Callers : Owner(d, x)')
    BY DEF LiveOwned
  <2>1. mem[x] = "live"
    BY <1>1, <1>2
  <2>2. CASE \E g \in Handles : object_table[g] = x
    BY <1>1, <1>2, <2>2
  <2>3. CASE \E d \in Callers : Owner(d, x)
    <3>1. PICK d \in Callers : Owner(d, x)
      BY <2>3
    <3>2. Owner(d, x)'
      BY <1>1, <1>2, <3>1 DEF Owner, Owning, TypeOK
    <3> QED
      BY <3>2
  <2> QED
    BY <2>1, <2>2, <2>3 DEF IndInv, OwnerInv, LiveOwned
<1>17. FreshInv'
  BY NoneAssumption, MaxHandleAssumption, <1>1, <1>2, <1>3, <1>5, <1>6 DEF TypeOK, Handles, PCs, INVALID_OBJHLD, IndInv, FreshInv, OwnerInv, OwnerAlone, OwnerAlive, Owning
<1>18. UnloadInv'
  BY NoneAssumption, MaxHandleAssumption, <1>1, <1>2, <1>3, <1>5, <1>6 DEF TypeOK, Handles, PCs, INVALID_OBJHLD, IndInv, UnloadInv, OwnerInv, OwnerAlive, OwnerAlone, Owning, InTable
<1>19. StartupInv'
  BY NoneAssumption, MaxHandleAssumption, <1>1, <1>2, <1>3, <1>5, <1>6 DEF TypeOK, Handles, PCs, INVALID_OBJHLD, IndInv, StartupInv, InitRunning, Startup
<1> QED
  BY <1>10, <1>11, <1>12, <1>13, <1>14, <1>15, <1>16, <1>17, <1>18, <1>19 DEF IndInv, OwnerInv

\* What both removals do: the object leaves the table, its last holder (if
\* any) and its count are gone, and the caller owns it.
Leaves(c, h, b) ==
  /\ object_table' = [object_table EXCEPT ![h] = None]
  /\ pc' = [pc EXCEPT ![c] = "unload"]
  /\ blk' = [blk EXCEPT ![c] = b]
  /\ ref' = [ref EXCEPT ![c] = INVALID_OBJHLD]
  /\ \A x \in Blocks \ {b} : refcnt'[x] = refcnt[x]
  /\ UNCHANGED <<mem, hld, stat, automatic_id, inited, unloads>>

LEMMA InvLeaves ==
  ASSUME IndInv, TypeOK', ~InitRunning, NEW c \in Callers, NEW h \in Handles, NEW b \in Blocks,
         object_table[h] = b, pc[c] \in {"idle", "holds"}, Holders(h) \subseteq {c},
         pc[c] = "holds" => ref[c] = h, Leaves(c, h, b)
  PROVE  IndInv'
<1>1. /\ mem[b] = "live" /\ hld[b] = h /\ h <= automatic_id /\ unloads[h] = 0
      /\ \A g \in Handles \ {h} : object_table[g] # b
  BY NoneAssumption DEF IndInv, TableInv, InTable
<1>2. \A g \in Handles \ {h} : Holders(g)' = Holders(g)
  BY DEF Leaves, Holders, IndInv, TypeOK
<1>3. \A d \in Callers : ~(Owning(d) /\ blk[d] = b)
  BY DEF IndInv, OwnerInv, OwnerAlive
<1>4. \A d \in Callers : pc[d] = "unload" => hld[blk[d]] # h
  BY NoneAssumption DEF IndInv, UnloadInv, InTable
<1>5. \A d \in Callers \ {c} : ~(pc[d] = "holds" /\ ref[d] = h)
  BY DEF Holders
<1>10. TableInv'
  BY NoneAssumption, MaxHandleAssumption, <1>1, <1>2, <1>3, <1>4, <1>5 DEF TypeOK, Handles, PCs, INVALID_OBJHLD, IndInv, TableInv, InTable, Leaves
<1>11. HolderInv'
  BY NoneAssumption, MaxHandleAssumption, <1>1, <1>2, <1>3, <1>4, <1>5 DEF TypeOK, Handles, PCs, INVALID_OBJHLD, IndInv, HolderInv, Leaves
<1>12. RefcntExact'
  BY NoneAssumption, MaxHandleAssumption, <1>1, <1>2, <1>3, <1>4, <1>5 DEF TypeOK, Handles, PCs, INVALID_OBJHLD, IndInv, RefcntExact, InTable, Leaves
<1>13. CloseWaitPinned'
  BY NoneAssumption, MaxHandleAssumption, <1>1, <1>2, <1>3, <1>4, <1>5 DEF TypeOK, Handles, PCs, INVALID_OBJHLD, IndInv, CloseWaitPinned, Closing, InTable, Leaves
<1>14. OwnerAlive'
  BY NoneAssumption, MaxHandleAssumption, <1>1, <1>2, <1>3, <1>4, <1>5 DEF TypeOK, Handles, PCs, INVALID_OBJHLD, IndInv, OwnerInv, OwnerAlive, OwnerAlone, Owner, Owning, Leaves
<1>15. OwnerAlone'
  BY NoneAssumption, MaxHandleAssumption, <1>1, <1>2, <1>3, <1>4, <1>5 DEF TypeOK, Handles, PCs, INVALID_OBJHLD, IndInv, OwnerInv, OwnerAlive, OwnerAlone, Owner, Owning, Leaves
<1>16. LiveOwned'
  <2> SUFFICES ASSUME NEW x \in Blocks, mem'[x] = "live"
               PROVE  (\E g \in Handles : object_table'[g] = x) \/ (\E d \in Callers : Owner(d, x)')
    BY DEF LiveOwned
  <2>1. CASE x = b
    BY <2>1 DEF Leaves, Owner, Owning, IndInv, TypeOK
  <2>2. CASE x # b
    <3>1. mem[x] = "live"
      BY <2>2 DEF Leaves
    <3>2. CASE \E g \in Handles : object_table[g] = x
      BY <2>2, <3>2, NoneAssumption DEF Leaves, IndInv, TypeOK
    <3>3. CASE \E d \in Callers : Owner(d, x)
      <4>1. PICK d \in Callers : Owner(d, x)
        BY <3>3
      <4>2. Owner(d, x)'
        BY <2>2, <4>1 DEF Leaves, Owner, Owning, IndInv, TypeOK
      <4> QED
        BY <4>2
    <3> QED
      BY <3>1, <3>2, <3>3 DEF IndInv, OwnerInv, LiveOwned
  <2> QED
    BY <2>1, <2>2
<1>17. FreshInv'
  BY NoneAssumption, MaxHandleAssumption, <1>1, <1>2, <1>3, <1>4, <1>5 DEF TypeOK, Handles, PCs, INVALID_OBJHLD, IndInv, FreshInv, OwnerInv, OwnerAlone, OwnerAlive, Owning, Leaves
<1>18. UnloadInv'
  BY NoneAssumption, MaxHandleAssumption, <1>1, <1>2, <1>3, <1>4, <1>5 DEF TypeOK, Handles, PCs, INVALID_OBJHLD, IndInv, UnloadInv, OwnerInv, OwnerAlive, OwnerAlone, Owning, InTable, Leaves
<1>19. StartupInv'
  BY NoneAssumption, MaxHandleAssumption, <1>1, <1>2, <1>3, <1>4, <1>5 DEF TypeOK, Handles, PCs, INVALID_OBJHLD, IndInv, StartupInv, InitRunning, Startup, Leaves
<1> QED
  BY <1>10, <1>11, <1>12, <1>13, <1>14, <1>15, <1>16, <1>17, <1>18, <1>19 DEF IndInv, OwnerInv

\* objclos removes an object only when nobody holds it, and marks it only when somebody does.
LEMMA InvClos ==
  ASSUME IndInv, TypeOK', ~InitRunning, NEW c \in Callers, NEW h \in Handles, ObjClos(c, h)
  PROVE  IndInv'
<1> DEFINE b == object_table[h]
<1>1. pc[c] = "idle" /\ b # None /\ b \in Blocks
  BY DEF ObjClos, Search, IndInv, TypeOK
<1>2. Holders(h) \in SUBSET Callers /\ refcnt[b] = Cardinality(Holders(h))
  BY <1>1 DEF Holders, IndInv, RefcntExact, InTable
<1>3. CASE refcnt[b] = 0 /\ stat[b] = "NORMAL"
  <2>1. Holders(h) = {}
    BY <1>2, <1>3, CallerSets
  <2>2. Leaves(c, h, b)
    BY <1>3 DEF ObjClos, Search, Detach, Goto, Leaves
  <2> QED
    BY <1>1, <2>1, <2>2, InvLeaves
<1>4. CASE ~(refcnt[b] = 0 /\ stat[b] = "NORMAL")
  <2>1. /\ stat' = [stat EXCEPT ![b] = "CLOSEWAIT"]
        /\ UNCHANGED <<mem, hld, refcnt, object_table, automatic_id, inited, pc, blk, ref, unloads>>
    BY <1>4 DEF ObjClos, Search, callVars
  <2>2. Holders(h) # {}
    <3>1. refcnt[b] # 0 \/ stat[b] = "CLOSEWAIT"
      BY <1>1, <1>4 DEF IndInv, TypeOK
    <3>2. Cardinality({}) = 0
      BY FS_EmptySet
    <3> QED
      BY <1>1, <1>2, <3>1, <3>2 DEF IndInv, CloseWaitPinned, Closing, InTable
  <2>3. \A g \in Handles : Holders(g)' = Holders(g)
    BY <2>1 DEF Holders
  <2>4. \A g \in Handles \ {h} : object_table[g] # None => object_table[g] # b
    BY <1>1 DEF IndInv, TableInv, InTable
  <2>5. \A d \in Callers : Owning(d) => blk[d] # b
    BY DEF IndInv, OwnerInv, OwnerAlive
  <2>6. TableInv' /\ HolderInv' /\ OwnerInv' /\ UnloadInv' /\ StartupInv'
    BY <2>1 DEF IndInv, TableInv, HolderInv, OwnerInv, OwnerAlive, OwnerAlone, LiveOwned, Owner,
      Owning, UnloadInv, StartupInv, InitRunning, Startup, InTable
  <2>7. RefcntExact'
    BY <2>1, <2>3 DEF IndInv, RefcntExact, InTable
  <2>8. CloseWaitPinned'
    BY <1>1, <2>1, <2>2, <2>3, <2>4 DEF IndInv, CloseWaitPinned, Closing, InTable, TypeOK
  <2>9. FreshInv'
    BY <2>1, <2>5 DEF IndInv, FreshInv, Owning, TypeOK
  <2> QED
    BY <2>6, <2>7, <2>8, <2>9 DEF IndInv
<1> QED
  BY <1>3, <1>4

\* objdefr finds its object with a positive count, and the last one off a closed object takes it.
LEMMA InvDefr ==
  ASSUME IndInv, TypeOK', ~InitRunning, NEW c \in Callers, ObjDefr(c)
  PROVE  IndInv'
<1>0. PICK h \in Handles : h = ref[c]
  BY DEF ObjDefr, IndInv, HolderInv
<1> DEFINE b == object_table[h]
<1>1. pc[c] = "holds" /\ b \in Blocks /\ b # None /\ c \in Holders(h)
  BY <1>0, NoneAssumption DEF ObjDefr, IndInv, HolderInv, Holders
<1>2. /\ Holders(h) \in SUBSET Callers
      /\ refcnt[b] = Cardinality(Holders(h)) /\ refcnt[b] \in Nat /\ refcnt[b] # 0
      /\ Cardinality(Holders(h) \ {c}) = refcnt[b] - 1
  <2>1. Holders(h) \in SUBSET Callers
    BY DEF Holders
  <2>2. refcnt[b] = Cardinality(Holders(h))
    BY <1>1 DEF IndInv, RefcntExact, InTable
  <2> QED
    BY <1>1, <2>1, <2>2, CallerSets
<1>3. refcnt' = [refcnt EXCEPT ![b] = refcnt[b] - 1]
  BY <1>0, <1>1, <1>2 DEF ObjDefr, Search
<1>4. UNCHANGED <<mem, hld, stat, automatic_id, inited, unloads>>
  BY DEF ObjDefr
<1>5. CASE refcnt[b] = 1 /\ stat[b] = "CLOSEWAIT"
  <2>1. Holders(h) \ {c} = {}
    <3>1. Holders(h) \ {c} \in SUBSET Callers /\ Cardinality(Holders(h) \ {c}) = 0
      BY <1>2, <1>5
    <3> QED
      BY <3>1, CallerSets
  <2>2. Detach(c, h)
    BY <1>0, <1>1, <1>2, <1>5 DEF ObjDefr, Search
  <2>3. Leaves(c, h, b)
    BY <1>1, <1>3, <1>4, <2>2 DEF Detach, Goto, Leaves, IndInv, TypeOK
  <2> QED
    BY <1>0, <1>1, <2>1, <2>3, InvLeaves
<1>6. CASE ~(refcnt[b] = 1 /\ stat[b] = "CLOSEWAIT")
  <2>1. /\ object_table' = object_table
        /\ pc' = [pc EXCEPT ![c] = "idle"]
        /\ blk' = [blk EXCEPT ![c] = None]
        /\ ref' = [ref EXCEPT ![c] = INVALID_OBJHLD]
    BY <1>0, <1>1, <1>2, <1>6 DEF ObjDefr, Search, Return, Goto
  <2>2. \A g \in Handles \ {h} : Holders(g)' = Holders(g)
    BY <1>0, <1>1, <2>1 DEF Holders, IndInv, TypeOK
  <2>3. Holders(h)' = Holders(h) \ {c}
    BY <1>0, <1>1, <2>1 DEF Holders, IndInv, TypeOK
  <2>4. \A g \in Handles \ {h} : object_table[g] # None => object_table[g] # b
    BY <1>1 DEF IndInv, TableInv, InTable
  <2>5. \A d \in Callers : Owning(d) => blk[d] # b
    BY <1>1 DEF IndInv, OwnerInv, OwnerAlive
  <2>6. stat[b] = "CLOSEWAIT" => Holders(h)' # {}
    <3>1. Cardinality({}) = 0
      BY FS_EmptySet
    <3>2. stat[b] = "CLOSEWAIT" => Cardinality(Holders(h) \ {c}) # 0
      BY <1>2, <1>6
    <3> QED
      BY <2>3, <3>1, <3>2
  <2>7. TableInv' /\ HolderInv'
    BY <1>1, <1>4, <2>1, NoneAssumption DEF IndInv, TableInv, HolderInv, InTable, TypeOK
  <2>8. OwnerInv'
    BY <1>1, <1>4, <2>1 DEF IndInv, OwnerInv, OwnerAlive, OwnerAlone, LiveOwned, Owner, Owning, TypeOK
  <2>9. UnloadInv' /\ StartupInv'
    BY <1>1, <1>4, <2>1 DEF IndInv, UnloadInv, StartupInv, InitRunning, Startup, InTable, TypeOK
  <2>10. RefcntExact'
    BY <1>1, <1>2, <1>3, <2>1, <2>2, <2>3, <2>4 DEF IndInv, RefcntExact, InTable, TypeOK
  <2>11. CloseWaitPinned'
    BY <1>4, <2>1, <2>2, <2>6 DEF IndInv, CloseWaitPinned, Closing, InTable
  <2>12. FreshInv'
    BY <1>1, <1>3, <1>4, <2>1, <2>5 DEF IndInv, FreshInv, Owning, TypeOK
  <2> QED
    BY <2>7, <2>8, <2>9, <2>10, <2>11, <2>12 DEF IndInv
<1> QED
  BY <1>5, <1>6

\* At start-up there is nothing for objinit to lose.
LEMMA InvObjInit ==
  ASSUME IndInv, TypeOK', NEW c \in Callers, ObjInitEnter(c) \/ ObjInitReset(c), Startup
  PROVE  IndInv'
<1>1. \A d \in Callers : pc[d] \in {"idle", "objinit"} /\ pc'[d] \in {"idle", "objinit"}
  BY DEF ObjInitEnter, ObjInitReset, Startup, Return, Goto, IndInv, TypeOK
<1>2. automatic_id = 0 /\ automatic_id' = 0
  BY DEF ObjInitEnter, ObjInitReset, Startup
<1>3. \A h \in Handles : object_table[h] = None /\ object_table'[h] = None
  <2>1. \A h \in Handles : object_table[h] = None
    BY <1>2 DEF IndInv, TableInv, InTable, Handles
  <2> QED
    BY <2>1 DEF ObjInitEnter, ObjInitReset
<1>4. UNCHANGED <<mem, hld, stat, refcnt, unloads>>
  BY DEF ObjInitEnter, ObjInitReset, objVars
<1>5. \A b \in Blocks : mem[b] # "live"
  BY <1>1, <1>3, NoneAssumption DEF IndInv, OwnerInv, LiveOwned, Owner, Owning
<1>10. TableInv'
  BY NoneAssumption, <1>1, <1>2, <1>3, <1>4, <1>5 DEF TypeOK, Handles, PCs, INVALID_OBJHLD, IndInv, TableInv, InTable
<1>11. HolderInv'
  BY NoneAssumption, <1>1, <1>2, <1>3, <1>4, <1>5 DEF TypeOK, Handles, PCs, INVALID_OBJHLD, IndInv, HolderInv
<1>12. RefcntExact'
  BY NoneAssumption, <1>1, <1>2, <1>3, <1>4, <1>5 DEF TypeOK, Handles, PCs, INVALID_OBJHLD, IndInv, RefcntExact, InTable
<1>13. CloseWaitPinned'
  BY NoneAssumption, <1>1, <1>2, <1>3, <1>4, <1>5 DEF TypeOK, Handles, PCs, INVALID_OBJHLD, IndInv, CloseWaitPinned, Closing, InTable
<1>14. OwnerAlive'
  BY NoneAssumption, <1>1, <1>2, <1>3, <1>4, <1>5 DEF TypeOK, Handles, PCs, INVALID_OBJHLD, IndInv, OwnerInv, OwnerAlive, OwnerAlone, Owner, Owning
<1>15. OwnerAlone'
  BY NoneAssumption, <1>1, <1>2, <1>3, <1>4, <1>5 DEF TypeOK, Handles, PCs, INVALID_OBJHLD, IndInv, OwnerInv, OwnerAlive, OwnerAlone, Owner, Owning
<1>16. LiveOwned'
  BY NoneAssumption, <1>1, <1>2, <1>3, <1>4, <1>5 DEF TypeOK, Handles, PCs, INVALID_OBJHLD, IndInv, OwnerInv, OwnerAlive, LiveOwned, Owner, Owning
<1>17. FreshInv'
  BY NoneAssumption, <1>1, <1>2, <1>3, <1>4, <1>5 DEF TypeOK, Handles, PCs, INVALID_OBJHLD, IndInv, FreshInv, OwnerInv, OwnerAlone, OwnerAlive, Owning
<1>18. UnloadInv'
  BY NoneAssumption, <1>1, <1>2, <1>3, <1>4, <1>5 DEF TypeOK, Handles, PCs, INVALID_OBJHLD, IndInv, UnloadInv, OwnerInv, OwnerAlive, OwnerAlone, Owning, InTable
<1>19. StartupInv'
  BY NoneAssumption, <1>1, <1>2, <1>3, <1>4, <1>5 DEF TypeOK, Handles, PCs, INVALID_OBJHLD, IndInv, StartupInv, InitRunning, Startup
<1> QED
  BY <1>10, <1>11, <1>12, <1>13, <1>14, <1>15, <1>16, <1>17, <1>18, <1>19 DEF IndInv, OwnerInv

LEMMA InvInit == Init => IndInv
<1> SUFFICES ASSUME Init PROVE IndInv
  OBVIOUS
<1>1. TypeOK
  BY TypeInit DEF TypeInv
<1>2. TableInv /\ RefcntExact /\ CloseWaitPinned
  BY DEF Init, TableInv, RefcntExact, CloseWaitPinned, Closing, InTable
<1>3. HolderInv /\ OwnerInv /\ FreshInv /\ StartupInv
  BY DEF Init, HolderInv, OwnerInv, OwnerAlive, OwnerAlone, LiveOwned, Owner, Owning, FreshInv,
    StartupInv, InitRunning
<1>4. UnloadInv
  BY <1>1 DEF Init, UnloadInv, TypeOK
<1> QED
  BY <1>1, <1>2, <1>3, <1>4 DEF IndInv

LEMMA InvStep == IndInv /\ [Next]_vars => IndInv'
<1> SUFFICES ASSUME IndInv, [Next]_vars PROVE IndInv'
  OBVIOUS
<1>1. TypeOK'
  BY TypeStep DEF TypeInv, IndInv, HolderInv
<1>2. ASSUME NEW c \in Callers, Startup, ObjInit(c) PROVE IndInv'
  BY <1>1, <1>2, InvObjInit DEF ObjInit
<1>3. ASSUME NEW c \in Callers, ~InitRunning, Start(c) PROVE IndInv'
  BY <1>1, <1>3, InvAllo, InvAcquire, InvClos DEF Start
<1>4. ASSUME NEW c \in Callers, ~InitRunning, Continue(c) PROVE IndInv'
  BY <1>1, <1>4, InvInitializerFails, InvTabInst, InvDefr, InvCallUnloader, InvFreeObject
  DEF Continue
<1>5. CASE UNCHANGED vars
  BY <1>5 DEF vars, objVars, mgrVars, callVars, IndInv, TypeOK, TableInv, HolderInv, RefcntExact,
    CloseWaitPinned, Closing, InTable, Holders, OwnerInv, OwnerAlive, OwnerAlone, LiveOwned, Owner,
    Owning, FreshInv, UnloadInv, StartupInv, InitRunning, Startup
<1> QED
  BY <1>2, <1>3, <1>4, <1>5 DEF Next

THEOREM Inductive == Spec => []IndInv
  BY InvInit, InvStep, PTL DEF Spec

----------------------------------------------------------------------------
(* The properties. *)

(* The count of an object in the table is the number of references out. *)
THEOREM RefcntIsExact == Spec => []RefcntExact
<1>1. IndInv => RefcntExact
  BY DEF IndInv
<1> QED
  BY Inductive, <1>1, PTL

(* What objrefr and objreff returned stays valid until the objdefr. *)
THEOREM HoldersAreSafe == Spec => []HolderMemorySafe
<1>1. IndInv => HolderMemorySafe
  <2> SUFFICES ASSUME IndInv, NEW c \in Callers, pc[c] = "holds"
               PROVE  /\ object_table[ref[c]] = blk[c] /\ mem[blk[c]] = "live"
                      /\ hld[blk[c]] = ref[c] /\ refcnt[blk[c]] > 0
    BY DEF HolderMemorySafe
  <2>1. ref[c] \in Handles /\ blk[c] \in Blocks /\ object_table[ref[c]] = blk[c] /\ blk[c] # None
    BY NoneAssumption DEF IndInv, HolderInv
  <2>2. mem[blk[c]] = "live" /\ hld[blk[c]] = ref[c]
    BY <2>1 DEF IndInv, TableInv, InTable
  <2>3. Holders(ref[c]) \in SUBSET Callers /\ Holders(ref[c]) # {}
    BY DEF Holders
  <2>4. refcnt[blk[c]] = Cardinality(Holders(ref[c]))
    BY <2>1 DEF IndInv, RefcntExact, InTable
  <2>5. refcnt[blk[c]] > 0
    BY <2>3, <2>4, CallerSets
  <2> QED
    BY <2>1, <2>2, <2>5
<1> QED
  BY Inductive, <1>1, PTL

(* A closed object still in the table is held by somebody, so it cannot leak. *)
THEOREM ClosingIsPinned == Spec => []CloseWaitPinned
<1>1. IndInv => CloseWaitPinned
  BY DEF IndInv
<1> QED
  BY Inductive, <1>1, PTL

(* The unloader runs at most once, alone. *)
THEOREM UnloadIsExclusive == Spec => []UnloadExclusive
<1>1. IndInv => UnloadExclusive
  <2> SUFFICES ASSUME IndInv PROVE UnloadExclusive
    OBVIOUS
  <2>1. \A h \in Handles : ~InTable(h) => Holders(h) = {}
    BY NoneAssumption DEF IndInv, HolderInv, Holders, InTable
  <2>2. \A c \in Callers : pc[c] = "unload" => hld[blk[c]] \in Handles
    BY MaxHandleAssumption DEF IndInv, UnloadInv, TypeOK, Handles
  <2> QED
    BY <2>1, <2>2 DEF UnloadExclusive, IndInv, UnloadInv
<1> QED
  BY Inductive, <1>1, PTL

(* A live block is owned once, by the table or by one call; a free one by
   nobody: no leak, no double free. *)
THEOREM BlocksAreOwned == Spec => []BlockOwned
<1>1. IndInv => BlockOwned
  <2> SUFFICES ASSUME IndInv, NEW b \in Blocks
               PROVE  Cardinality({h \in Handles : object_table[h] = b})
                        + Cardinality({c \in Callers : Owner(c, b)})
                      = IF mem[b] = "live" THEN 1 ELSE 0
    BY DEF BlockOwned
  <2> DEFINE names == {h \in Handles : object_table[h] = b}
  <2> DEFINE owners == {c \in Callers : Owner(c, b)}
  <2>1. \A h \in names : mem[b] = "live" /\ hld[b] = h /\ owners = {}
    BY NoneAssumption DEF IndInv, TableInv, InTable, OwnerInv, OwnerAlive, Owner
  <2>2. \A c, d \in owners : c = d /\ mem[b] = "live"
    BY DEF IndInv, OwnerInv, OwnerAlive, OwnerAlone, Owner
  <2>3. CASE \E h \in Handles : object_table[h] = b
    <3>1. names = {hld[b]} /\ owners = {} /\ mem[b] = "live"
      BY <2>1, <2>3
    <3>2. Cardinality(names) = 1 /\ Cardinality(owners) = 0
      BY <3>1, FS_Singleton, FS_EmptySet, Zenon
    <3> QED
      BY <3>1, <3>2
  <2>4. CASE names = {} /\ \E c \in Callers : Owner(c, b)
    <3>1. PICK c \in Callers : Owner(c, b)
      BY <2>4
    <3>2. owners = {c} /\ mem[b] = "live"
      BY <2>2, <3>1
    <3>3. Cardinality(names) = 0 /\ Cardinality(owners) = 1
      BY <2>4, <3>2, FS_Singleton, FS_EmptySet, Zenon
    <3> QED
      BY <3>2, <3>3
  <2>5. CASE names = {} /\ owners = {}
    <3>1. mem[b] # "live"
      BY <2>5 DEF IndInv, OwnerInv, LiveOwned
    <3> QED
      BY <2>5, <3>1, FS_EmptySet
  <2> QED
    BY <2>3, <2>4, <2>5
<1> QED
  BY Inductive, <1>1, PTL

----------------------------------------------------------------------------
(* What each action does to the table and to the references. *)

\* Steps that change neither: only the start-up reset writes the table.
LEMMA QuietSteps ==
  ASSUME IndInv, NEW c \in Callers,
         \/ Startup /\ ObjInit(c)
         \/ ObjAllo(c) \/ InitializerFails(c) \/ CallUnloader(c) \/ FreeObject(c)
         \/ ObjTabInst(c)
  PROVE  \A h \in Handles : Holders(h)' = Holders(h)
<1>1. pc[c] # "holds" /\ pc'[c] # "holds" /\ \A d \in Callers \ {c} : pc'[d] = pc[d] /\ ref'[d] = ref[d]
  BY DEF ObjInit, ObjInitEnter, ObjInitReset, ObjAllo, InitializerFails, CallUnloader, FreeObject,
    ObjTabInst, Return, Goto, IndInv, TypeOK
<1> QED
  BY <1>1, SameHolders

LEMMA ResetIsEmpty ==
  ASSUME IndInv, NEW c \in Callers, Startup, ObjInit(c)
  PROVE  UNCHANGED <<stat, automatic_id, unloads>> /\ \A h \in Handles : ~InTable(h) /\ ~InTable(h)'
<1>1. \A h \in Handles : object_table[h] = None
  BY DEF Startup, IndInv, TableInv, InTable, Handles
<1> QED
  BY <1>1 DEF Startup, ObjInit, ObjInitEnter, ObjInitReset, InTable, objVars

LEMMA AcquireSteps ==
  ASSUME IndInv, NEW c \in Callers, NEW h \in Handles, ObjRefr(c, h) \/ ObjReff(c, h)
  PROVE  /\ InTable(h) /\ ~Closing(h) /\ pc[c] = "idle"
         /\ Holders(h)' = Holders(h) \cup {c}
         /\ \A g \in Handles \ {h} : Holders(g)' = Holders(g)
         /\ stat' = stat \/ stat' = [stat EXCEPT ![object_table[h]] = "CLOSEWAIT"]
         /\ UNCHANGED <<object_table, automatic_id, unloads>>
<1>1. /\ pc[c] = "idle" /\ pc' = [pc EXCEPT ![c] = "holds"] /\ ref' = [ref EXCEPT ![c] = h]
      /\ object_table[h] # None /\ stat[object_table[h]] = "NORMAL"
      /\ stat' = stat \/ stat' = [stat EXCEPT ![object_table[h]] = "CLOSEWAIT"]
      /\ UNCHANGED <<object_table, automatic_id, unloads>>
  BY DEF ObjRefr, ObjReff, Search, Goto, mgrVars
<1>2. Holders(h)' = Holders(h) \cup {c}
  BY <1>1 DEF Holders, IndInv, TypeOK
<1>3. \A g \in Handles \ {h} : Holders(g)' = Holders(g)
  BY <1>1 DEF Holders, IndInv, TypeOK
<1> QED
  BY <1>1, <1>2, <1>3 DEF InTable, Closing

LEMMA DefrStep ==
  ASSUME IndInv, NEW c \in Callers, ObjDefr(c)
  PROVE  \E h \in Handles :
           /\ InTable(h) /\ c \in Holders(h)
           /\ Holders(h)' = Holders(h) \ {c}
           /\ \A g \in Handles \ {h} : Holders(g)' = Holders(g)
           /\ UNCHANGED <<stat, automatic_id, unloads>>
           /\ IF Closing(h) /\ Holders(h) = {c}
              THEN /\ object_table' = [object_table EXCEPT ![h] = None]
                   /\ pc'[c] = "unload" /\ blk'[c] = object_table[h]
              ELSE object_table' = object_table
<1>1. PICK h \in Handles : h = ref[c] /\ pc[c] = "holds"
  BY DEF ObjDefr, IndInv, HolderInv
<1> DEFINE b == object_table[h]
<1>2. b \in Blocks /\ b # None /\ c \in Holders(h) /\ Holders(h) \in SUBSET Callers
  BY <1>1, NoneAssumption DEF IndInv, HolderInv, Holders
<1>3. refcnt[b] = Cardinality(Holders(h))
  BY <1>2 DEF IndInv, RefcntExact, InTable
<1>4. refcnt[b] # 0
  BY <1>2, <1>3, CallerSets
<1>5. refcnt[b] = 1 <=> Holders(h) = {c}
  <2>1. Cardinality(Holders(h) \ {c}) = refcnt[b] - 1 /\ refcnt[b] \in Nat
    BY <1>2, <1>3, CallerSets
  <2>2. Holders(h) \ {c} \in SUBSET Callers
    BY <1>2
  <2>3. Cardinality(Holders(h) \ {c}) = 0 <=> Holders(h) \ {c} = {}
    BY <2>2, CallerSets
  <2> QED
    BY <1>2, <2>1, <2>3
<1>6. /\ UNCHANGED <<stat, automatic_id, unloads>>
      /\ IF refcnt[b] = 1 /\ stat[b] = "CLOSEWAIT"
         THEN Detach(c, h)
         ELSE Return(c) /\ UNCHANGED object_table
  BY <1>1, <1>2, <1>4 DEF ObjDefr, Search
<1>7. /\ pc'[c] # "holds"
      /\ \A d \in Callers \ {c} : pc'[d] = pc[d] /\ ref'[d] = ref[d]
  BY <1>6 DEF Detach, Return, Goto, IndInv, TypeOK
<1>8. Holders(h)' = Holders(h) \ {c}
  BY <1>7 DEF Holders
<1>9. \A g \in Handles \ {h} : Holders(g)' = Holders(g)
  BY <1>1, <1>7 DEF Holders
<1>10. IF Closing(h) /\ Holders(h) = {c}
       THEN /\ object_table' = [object_table EXCEPT ![h] = None]
            /\ pc'[c] = "unload" /\ blk'[c] = object_table[h]
       ELSE object_table' = object_table
  BY <1>2, <1>5, <1>6 DEF Detach, Goto, Closing, InTable, IndInv, TypeOK
<1> QED
  BY <1>2, <1>6, <1>8, <1>9, <1>10 DEF InTable

LEMMA ClosStep ==
  ASSUME IndInv, NEW c \in Callers, NEW h \in Handles, ObjClos(c, h)
  PROVE  /\ InTable(h)
         /\ \A g \in Handles : Holders(g)' = Holders(g)
         /\ UNCHANGED <<automatic_id, unloads>>
         /\ \/ /\ ~Closing(h) /\ Holders(h) = {}
               /\ object_table' = [object_table EXCEPT ![h] = None]
               /\ stat' = stat
               /\ pc'[c] = "unload" /\ blk'[c] = object_table[h]
            \/ /\ Holders(h) # {}
               /\ object_table' = object_table
               /\ stat' = [stat EXCEPT ![object_table[h]] = "CLOSEWAIT"]
<1> DEFINE b == object_table[h]
<1>1. pc[c] = "idle" /\ b # None /\ b \in Blocks
  BY DEF ObjClos, Search, IndInv, TypeOK
<1>2. Holders(h) \in SUBSET Callers /\ refcnt[b] = Cardinality(Holders(h))
  BY <1>1 DEF Holders, IndInv, RefcntExact, InTable
<1>3. refcnt[b] = 0 <=> Holders(h) = {}
  BY <1>2, CallerSets
<1>4. stat[b] = "CLOSEWAIT" => Holders(h) # {}
  BY <1>1 DEF IndInv, CloseWaitPinned, Closing, InTable
<1>5. \/ refcnt[b] = 0 /\ stat[b] = "NORMAL" /\ Detach(c, h) /\ UNCHANGED stat
      \/ /\ ~(refcnt[b] = 0 /\ stat[b] = "NORMAL")
         /\ stat' = [stat EXCEPT ![b] = "CLOSEWAIT"]
         /\ UNCHANGED <<object_table, callVars>>
  BY DEF ObjClos, Search
<1>6. \A d \in Callers : (pc'[d] = "holds" <=> pc[d] = "holds") /\ (pc[d] = "holds" => ref'[d] = ref[d])
  BY <1>1, <1>5 DEF Detach, Goto, callVars, IndInv, TypeOK
<1>7. \A g \in Handles : Holders(g)' = Holders(g)
  BY <1>6 DEF Holders
<1>8. UNCHANGED <<automatic_id, unloads>>
  BY DEF ObjClos
<1>9. CASE refcnt[b] = 0 /\ stat[b] = "NORMAL" /\ Detach(c, h) /\ UNCHANGED stat
  BY <1>1, <1>3, <1>7, <1>8, <1>9 DEF Detach, Goto, Closing, InTable, IndInv, TypeOK
<1>10. CASE /\ ~(refcnt[b] = 0 /\ stat[b] = "NORMAL")
            /\ stat' = [stat EXCEPT ![b] = "CLOSEWAIT"]
            /\ UNCHANGED <<object_table, callVars>>
  <2>1. Holders(h) # {}
    BY <1>1, <1>3, <1>4, <1>10 DEF IndInv, TypeOK
  <2> QED
    BY <1>1, <1>7, <1>8, <1>10, <2>1 DEF InTable
<1> QED
  BY <1>5, <1>9, <1>10

----------------------------------------------------------------------------
(* The two action properties. *)

(* An object leaves the table only into the hands of the call closing it. *)
THEOREM LeavingIsUnloading == Spec => LeavesOnlyToUnload
<1> DEFINE A == \A h \in Handles : InTable(h) /\ ~InTable(h)' =>
                  \E c \in Callers : pc'[c] = "unload" /\ blk'[c] = object_table[h]
<1>1. IndInv /\ [Next]_vars => [A]_vars
  <2> SUFFICES ASSUME IndInv, Next PROVE A
    OBVIOUS
  <2>1. ASSUME NEW c \in Callers, Startup, ObjInit(c) PROVE A
    BY <2>1, ResetIsEmpty
  <2>2. ASSUME NEW c \in Callers,
               ObjAllo(c) \/ InitializerFails(c) \/ CallUnloader(c) \/ FreeObject(c)
        PROVE  A
    BY <2>2 DEF ObjAllo, InitializerFails, CallUnloader, FreeObject, mgrVars, InTable
  <2>3. ASSUME NEW c \in Callers, ObjTabInst(c) PROVE A
    <3>1. blk[c] # None
      BY <2>3, NoneAssumption DEF ObjTabInst, IndInv, OwnerInv, OwnerAlive, Owning
    <3> QED
      BY <2>3, <3>1 DEF ObjTabInst, InTable, IndInv, TypeOK
  <2>4. ASSUME NEW c \in Callers, NEW h \in Handles, ObjRefr(c, h) \/ ObjReff(c, h) PROVE A
    BY <2>4, AcquireSteps DEF InTable
  <2>5. ASSUME NEW c \in Callers, NEW h \in Handles, ObjClos(c, h) PROVE A
    BY <2>5, ClosStep DEF InTable, IndInv, TypeOK
  <2>6. ASSUME NEW c \in Callers, ObjDefr(c) PROVE A
    BY <2>6, DefrStep DEF InTable, IndInv, TypeOK
  <2> QED
    BY <2>1, <2>2, <2>3, <2>4, <2>5, <2>6 DEF Next, Start, Continue
<1> QED
  BY Inductive, <1>1, PTL DEF Spec, LeavesOnlyToUnload

(* A closed object gets no new reference. *)
THEOREM ClosedGainsNoHolder == Spec => NoReferenceAfterClose
<1> DEFINE A == \A h \in Handles : Closing(h) => Holders(h)' \subseteq Holders(h)
<1>1. IndInv /\ [Next]_vars => [A]_vars
  <2> SUFFICES ASSUME IndInv, Next PROVE A
    OBVIOUS
  <2>1. ASSUME NEW c \in Callers,
               \/ Startup /\ ObjInit(c)
               \/ ObjAllo(c) \/ InitializerFails(c) \/ CallUnloader(c) \/ FreeObject(c)
               \/ ObjTabInst(c)
        PROVE  A
    BY <2>1, QuietSteps
  <2>2. ASSUME NEW c \in Callers, NEW h \in Handles, ObjRefr(c, h) \/ ObjReff(c, h) PROVE A
    BY <2>2, AcquireSteps
  <2>3. ASSUME NEW c \in Callers, NEW h \in Handles, ObjClos(c, h) PROVE A
    BY <2>3, ClosStep
  <2>4. ASSUME NEW c \in Callers, ObjDefr(c) PROVE A
    BY <2>4, DefrStep
  <2> QED
    BY <2>1, <2>2, <2>3, <2>4 DEF Next, Start, Continue
<1> QED
  BY Inductive, <1>1, PTL DEF Spec, NoReferenceAfterClose

----------------------------------------------------------------------------
(* The refinement of HandleLifecycle. *)

\* A step that changes the life of one handle, or of none.
LEMMA LifeUpdate ==
  ASSUME NEW h \in Handles, NEW v, Life(h)' = v, \A g \in Handles \ {h} : Life(g)' = Life(g)
  PROVE  [g \in Handles |-> Life(g)]' = [[g \in Handles |-> Life(g)] EXCEPT ![h] = v]
  OBVIOUS

LEMMA HoldersUpdate ==
  ASSUME NEW h \in Handles, NEW v, Holders(h)' = v, \A g \in Handles \ {h} : Holders(g)' = Holders(g)
  PROVE  [g \in Handles |-> Holders(g)]' = [[g \in Handles |-> Holders(g)] EXCEPT ![h] = v]
  OBVIOUS

LEMMA Stutter ==
  ASSUME \A g \in Handles : Life(g)' = Life(g) /\ Holders(g)' = Holders(g)
  PROVE  UNCHANGED HL!vars
  BY DEF HL!vars

\* Life of the handles a step does not touch.
LEMMA LifeFrame ==
  ASSUME IndInv, UNCHANGED <<automatic_id, unloads>>, NEW h \in Handles, InTable(h),
         \A g \in Handles \ {h} : object_table'[g] = object_table[g],
         \A b \in Blocks \ {object_table[h]} : stat'[b] = stat[b]
  PROVE  \A g \in Handles \ {h} : Life(g)' = Life(g)
<1>1. \A g \in Handles \ {h} : InTable(g) => object_table[g] \in Blocks \ {object_table[h]}
  BY DEF IndInv, TypeOK, TableInv, InTable
<1> QED
  BY <1>1 DEF Life, Closing, InTable

LEMMA RefineQuiet ==
  ASSUME IndInv, NEW c \in Callers,
         (Startup /\ ObjInit(c)) \/ ObjAllo(c) \/ InitializerFails(c) \/ FreeObject(c)
  PROVE  UNCHANGED HL!vars
<1>1. \A g \in Handles : Holders(g)' = Holders(g)
  BY QuietSteps
<1>2. CASE Startup /\ ObjInit(c)
  BY <1>1, <1>2, ResetIsEmpty, Stutter DEF Life
<1>3. CASE InitializerFails(c) \/ FreeObject(c)
  BY <1>1, <1>3, Stutter DEF InitializerFails, FreeObject, Life, Closing, InTable, mgrVars
<1>4. CASE ObjAllo(c)
  <2>1. PICK b \in Blocks : mem[b] = "free" /\ stat' = [stat EXCEPT ![b] = "NORMAL"]
    BY <1>4 DEF ObjAllo
  <2>2. \A g \in Handles : InTable(g) => stat'[object_table[g]] = stat[object_table[g]]
    BY <2>1 DEF IndInv, TypeOK, TableInv, InTable
  <2>3. UNCHANGED <<object_table, automatic_id, unloads>>
    BY <1>4 DEF ObjAllo, mgrVars
  <2> QED
    BY <1>1, <2>2, <2>3, Stutter DEF Life, Closing, InTable
<1> QED
  BY <1>2, <1>3, <1>4

LEMMA RefineTabInst ==
  ASSUME IndInv, NEW c \in Callers, ObjTabInst(c)
  PROVE  HL!Next
<1> DEFINE n == automatic_id + 1
<1>1. /\ automatic_id' = n /\ n \in Handles /\ automatic_id \in Nat
      /\ object_table' = [object_table EXCEPT ![n] = blk[c]]
      /\ UNCHANGED <<stat, unloads>>
  BY MaxHandleAssumption DEF ObjTabInst, IndInv, TypeOK, Handles
<1>2. blk[c] \in Blocks /\ blk[c] # None /\ stat[blk[c]] = "NORMAL" /\ ~InTable(n)
  BY <1>1, NoneAssumption
  DEF ObjTabInst, IndInv, OwnerInv, OwnerAlive, Owning, FreshInv, TableInv, InTable
<1>3. Life(n) = "none"
  BY <1>1, <1>2 DEF Life
<1>4. PICK h \in Handles : h = automatic_id + 1
  BY <1>1
<1>5. Life(h)' = "open"
  BY <1>1, <1>2, <1>4 DEF Life, Closing, InTable, IndInv, TypeOK
<1>6. \A g \in Handles \ {h} : Life(g)' = Life(g)
  <2>1. \A g \in Handles \ {h} : (g > automatic_id' <=> g > automatic_id)
    BY <1>1, <1>4 DEF Handles
  <2> QED
    BY <1>1, <1>4, <2>1 DEF Life, Closing, InTable, IndInv, TypeOK
<1>7. \A g \in 1..(h - 1) : g \in Handles /\ Life(g) # "none"
  BY <1>1, <1>4, MaxHandleAssumption DEF Life, Handles
<1>8. \A g \in Handles : Holders(g)' = Holders(g)
  BY QuietSteps
<1>9. HL!Open(h)
  BY <1>3, <1>4, <1>5, <1>6, <1>7, <1>8, LifeUpdate DEF HL!Open, HL!Becomes
<1> QED
  BY <1>4, <1>9 DEF HL!Next, HL!Handles, Handles

LEMMA RefineAcquire ==
  ASSUME IndInv, NEW c \in Callers, NEW h \in Handles, ObjRefr(c, h) \/ ObjReff(c, h)
  PROVE  HL!Next
<1> DEFINE b == object_table[h]
<1>1. /\ InTable(h) /\ ~Closing(h) /\ pc[c] = "idle"
      /\ Holders(h)' = Holders(h) \cup {c}
      /\ \A g \in Handles \ {h} : Holders(g)' = Holders(g)
      /\ stat' = stat \/ stat' = [stat EXCEPT ![b] = "CLOSEWAIT"]
      /\ UNCHANGED <<object_table, automatic_id, unloads>>
  BY AcquireSteps
<1>2. Life(h) = "open" /\ b \in Blocks
  BY <1>1 DEF Life, InTable, IndInv, TypeOK
<1>3. \A g \in Handles : c \notin Holders(g)
  BY <1>1 DEF Holders
<1>4. Life(h)' \in {"open", "closing"}
  BY <1>1 DEF Life, InTable
<1>5. \A g \in Handles \ {h} : Life(g)' = Life(g)
  BY <1>1, LifeFrame DEF IndInv, TypeOK
<1>6. HL!Acquire(c, h)
  <2>1. [g \in Handles |-> Holders(g)]' = [[g \in Handles |-> Holders(g)] EXCEPT ![h] = Holders(h) \cup {c}]
    BY <1>1, HoldersUpdate
  <2>2. CASE Life(h)' = "open"
    <3>1. UNCHANGED [g \in Handles |-> Life(g)]
      BY <1>2, <1>5, <2>2
    <3> QED
      BY <1>2, <1>3, <2>1, <3>1 DEF HL!Acquire, HL!Handles, Handles
  <2>3. CASE Life(h)' = "closing"
    <3>1. [g \in Handles |-> Life(g)]' = [[g \in Handles |-> Life(g)] EXCEPT ![h] = "closing"]
      BY <1>5, <2>3, LifeUpdate
    <3> QED
      BY <1>2, <1>3, <2>1, <3>1 DEF HL!Acquire, HL!Becomes, HL!Handles, Handles
  <2> QED
    BY <1>4, <2>2, <2>3
<1> QED
  BY <1>6 DEF HL!Next, HL!Handles, Handles

LEMMA RefineDefr ==
  ASSUME IndInv, NEW c \in Callers, ObjDefr(c)
  PROVE  HL!Next
<1>1. PICK h \in Handles :
        /\ InTable(h) /\ c \in Holders(h)
        /\ Holders(h)' = Holders(h) \ {c}
        /\ \A g \in Handles \ {h} : Holders(g)' = Holders(g)
        /\ UNCHANGED <<stat, automatic_id, unloads>>
        /\ IF Closing(h) /\ Holders(h) = {c}
           THEN object_table' = [object_table EXCEPT ![h] = None]
           ELSE object_table' = object_table
  BY DefrStep
<1>2. \A g \in Handles \ {h} : Life(g)' = Life(g)
  BY <1>1, LifeFrame DEF IndInv, TypeOK
<1>3. [g \in Handles |-> Holders(g)]' = [[g \in Handles |-> Holders(g)] EXCEPT ![h] = Holders(h) \ {c}]
  BY <1>1, HoldersUpdate
<1>4. Closing(h) <=> Life(h) = "closing"
  BY <1>1 DEF Life
<1>5. CASE Closing(h) /\ Holders(h) = {c}
  <2>1. Life(h)' = "retired"
    <3>1. h \in Int /\ automatic_id \in Int /\ h <= automatic_id /\ unloads[h] = 0
      BY <1>1 DEF IndInv, TypeOK, TableInv, Handles
    <3>2. ~InTable(h)'
      BY <1>1, <1>5 DEF InTable, IndInv, TypeOK
    <3> QED
      BY <1>1, <3>1, <3>2 DEF Life
  <2>2. [g \in Handles |-> Life(g)]' = [[g \in Handles |-> Life(g)] EXCEPT ![h] = "retired"]
    BY <1>2, <2>1, LifeUpdate
  <2>3. HL!Release(c, h)
    BY <1>1, <1>3, <1>4, <1>5, <2>2 DEF HL!Release, HL!Becomes
  <2> QED
    BY <2>3 DEF HL!Next, HL!Handles, Handles
<1>6. CASE ~(Closing(h) /\ Holders(h) = {c})
  <2>1. Life(h)' = Life(h)
    BY <1>1, <1>6 DEF Life, Closing, InTable
  <2>2. UNCHANGED [g \in Handles |-> Life(g)]
    BY <1>2, <2>1
  <2>3. HL!Release(c, h)
    BY <1>1, <1>3, <1>4, <1>6, <2>2 DEF HL!Release
  <2> QED
    BY <2>3 DEF HL!Next, HL!Handles, Handles
<1> QED
  BY <1>5, <1>6

LEMMA RefineClos ==
  ASSUME IndInv, NEW c \in Callers, NEW h \in Handles, ObjClos(c, h)
  PROVE  HL!Next \/ UNCHANGED HL!vars
<1> DEFINE b == object_table[h]
<1>1. /\ InTable(h)
      /\ \A g \in Handles : Holders(g)' = Holders(g)
      /\ UNCHANGED <<automatic_id, unloads>>
      /\ \/ /\ ~Closing(h) /\ Holders(h) = {}
            /\ object_table' = [object_table EXCEPT ![h] = None]
            /\ stat' = stat
         \/ /\ Holders(h) # {}
            /\ object_table' = object_table
            /\ stat' = [stat EXCEPT ![b] = "CLOSEWAIT"]
  BY ClosStep
<1>2. \A g \in Handles \ {h} : Life(g)' = Life(g)
  BY <1>1, LifeFrame DEF IndInv, TypeOK
<1>3. b \in Blocks
  BY <1>1 DEF InTable, IndInv, TypeOK
<1>4. CASE Closing(h)
  <2>1. Life(h)' = Life(h)
    BY <1>1, <1>3, <1>4 DEF Life, Closing, InTable, IndInv, TypeOK
  <2> QED
    BY <1>1, <1>2, <2>1, Stutter
<1>5. CASE ~Closing(h)
  <2>1. Life(h) = "open"
    BY <1>1, <1>5 DEF Life
  <2>2. Life(h)' = IF Holders(h) = {} THEN "retired" ELSE "closing"
    <3>1. h \in Int /\ automatic_id \in Int /\ h <= automatic_id /\ unloads[h] = 0
      BY <1>1 DEF IndInv, TypeOK, TableInv, Handles
    <3>2. IF Holders(h) = {} THEN ~InTable(h)' ELSE InTable(h)' /\ Closing(h)'
      BY <1>1, <1>3 DEF Closing, InTable, IndInv, TypeOK
    <3> QED
      BY <1>1, <3>1, <3>2 DEF Life
  <2>3. HL!Close(h)
    BY <1>1, <1>2, <2>1, <2>2, LifeUpdate DEF HL!Close, HL!Becomes
  <2> QED
    BY <2>3 DEF HL!Next, HL!Handles, Handles
<1> QED
  BY <1>4, <1>5

LEMMA RefineUnload ==
  ASSUME IndInv, NEW c \in Callers, CallUnloader(c)
  PROVE  HL!Next
<1>1. PICK h \in Handles : h = hld[blk[c]] /\ h <= automatic_id /\ ~InTable(h) /\ unloads[h] = 0
  BY MaxHandleAssumption DEF CallUnloader, IndInv, UnloadInv, TypeOK, Handles
<1>2. unloads' = [unloads EXCEPT ![h] = 1] /\ UNCHANGED <<object_table, stat, automatic_id>>
  BY <1>1 DEF CallUnloader, objVars, mgrVars
<1>3. \A g \in Handles : Holders(g)' = Holders(g)
  BY QuietSteps
<1>4. Life(h) = "retired" /\ Life(h)' = "destroyed"
  BY <1>1, <1>2 DEF Life, InTable, IndInv, TypeOK, Handles
<1>5. \A g \in Handles \ {h} : Life(g)' = Life(g)
  BY <1>2 DEF Life, Closing, InTable, IndInv, TypeOK
<1>6. HL!Destroy(h)
  BY <1>3, <1>4, <1>5, LifeUpdate DEF HL!Destroy, HL!Becomes
<1> QED
  BY <1>6 DEF HL!Next, HL!Handles, Handles

(* The object manager implements the handle life cycle. *)
THEOREM Refinement == Spec => ImplementsLifecycle
<1>1. Init => HL!Init
  <2> SUFFICES ASSUME Init PROVE HL!Init
    OBVIOUS
  <2>1. \A h \in Handles : Life(h) = "none" /\ Holders(h) = {}
    BY DEF Init, Life, Holders, InTable, Handles
  <2> QED
    BY <2>1 DEF HL!Init, HL!Handles, Handles
<1>2. IndInv /\ [Next]_vars => [HL!Next]_(HL!vars)
  <2> SUFFICES ASSUME IndInv, [Next]_vars PROVE HL!Next \/ UNCHANGED HL!vars
    OBVIOUS
  <2>1. CASE UNCHANGED vars
    BY <2>1, Stutter DEF vars, objVars, mgrVars, callVars, Life, Holders, Closing, InTable
  <2>2. CASE Next
    BY <2>2, RefineQuiet, RefineTabInst, RefineAcquire, RefineDefr, RefineClos, RefineUnload
    DEF Next, Start, Continue
  <2> QED
    BY <2>1, <2>2
<1> QED
  BY <1>1, <1>2, Inductive, PTL DEF Spec, ImplementsLifecycle, HL!Spec

============================================================================
