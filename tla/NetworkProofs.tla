---------------------------- MODULE NetworkProofs --------------------------
(* The network modules, for any number of users, objects, links and sessions.
   Objects: the table of swnet.cpp and the links of the objects agree, no link is
   lost, and an object hears once that its link is closed, when no two threads
   are in create of one object.  Sessions: what a service knows of them, and what
   they hear of their end.  The specifications and the properties are those that
   MCNetwork checks. *)
EXTENDS MCNetwork, FiniteSetTheorems, TLAPS

(* Whatever a shared_ptr points to has not been destroyed. *)
Held(o) ==
  \/ \E u \in Users : obj[u] = o
  \/ \E l \in Links : table[l] = o \/ cobj[l] = o \/ robj[l] = o

HeldIsLive == \A o \in Objects : Held(o) => mem[o] = "live"

(* A thread in create: one for each object, with a link of its own that nobody
   else knows before it is in lnk_, and that is not in the table. *)
Creator(u) == pc[u] \in {"create", "setlnk", "attach"}

Creators ==
  \A u \in Users :
    /\ pc[u] # "idle" => obj[u] # None
    /\ Creator(u) => \A v \in Users : Creator(v) /\ obj[v] = obj[u] => v = u
    /\ pc[u] \in {"create", "setlnk"} => lnk[obj[u]] = INVALID_HTCPLINK
    /\ pc[u] \in {"setlnk", "attach"} <=> fresh[u] # INVALID_HTCPLINK
    /\ pc[u] = "setlnk" => link[fresh[u]] = "open"
    /\ pc[u] = "attach" => lnk[obj[u]] = fresh[u]

FreshLinks ==
  \A u \in Users : fresh[u] # INVALID_HTCPLINK =>
    /\ fresh[u] <= issued
    /\ table[fresh[u]] = None /\ closedCalls[fresh[u]] = 0
    /\ cpc[fresh[u]] \in {"none", "done"}
    /\ \A v \in Users : fresh[v] = fresh[u] => v = u

(* An object with a link is in the table under it, or about to be entered. *)
LinkLeadsBack ==
  \A o \in Objects : mem[o] = "live" /\ lnk[o] # INVALID_HTCPLINK =>
    \/ table[lnk[o]] = o
    \/ \E u \in Users : pc[u] = "attach" /\ obj[u] = o /\ fresh[u] = lnk[o]

Entries ==
  \A l \in Links : table[l] # None =>
    /\ closedCalls[l] = 0 /\ l <= issued
    /\ cpc[l] \in {"none", "exchange", "detach", "done"}
    /\ cpc[l] = "detach" => lnk[table[l]] # l
    /\ cpc[l] # "detach" => lnk[table[l]] = l

(* EVT_CLOSED of a link works on the object the table has for it. *)
Closing ==
  \A l \in Links :
    /\ cpc[l] # "none" <=> link[l] = "closed"
    /\ cpc[l] \in {"none", "done"} => cobj[l] = None
    /\ cpc[l] \in {"exchange", "detach", "notify", "release"} => cobj[l] # None
    /\ cpc[l] \in {"exchange", "detach"} => table[l] = cobj[l]
    /\ cpc[l] \in {"detach", "notify", "release"} => prev[l] = l
    /\ closedCalls[l] = IF cpc[l] = "release" \/ (cpc[l] = "done" /\ closedCalls[l] # 0) THEN 1 ELSE 0

(* A link that was not issued is in no variable; one that is up is in the table
   or still its creator's. *)
Issued ==
  \A l \in Links :
    /\ l > issued => link[l] = "none"
    /\ link[l] = "none" => cobj[l] = None /\ robj[l] = None /\ \A o \in Objects : lnk[o] # l
    /\ link[l] \in {"open", "connected"} => table[l] # None \/ \E u \in Users : fresh[u] = l

IInv ==
  /\ TypeOK /\ HeldIsLive /\ Creators /\ FreshLinks
  /\ LinkLeadsBack /\ Entries /\ Closing /\ Issued

USE DEF Links, INVALID_HTCPLINK

-----------------------------------------------------------------------------
(* The initial states. *)
LEMMA InitIInv == Init => IInv
<1> USE SetsAssumption, MaxLinksAssumption
<1> SUFFICES ASSUME Init PROVE IInv
  OBVIOUS
<1>1. TypeOK
  BY DEF Init, TypeOK
<1>2. HeldIsLive
  BY DEF Init, HeldIsLive, Held
<1>3. Creators /\ FreshLinks
  BY DEF Init, Creators, FreshLinks, Creator
<1>4. LinkLeadsBack /\ Entries
  BY DEF Init, LinkLeadsBack, Entries
<1>5. Closing /\ Issued
  BY DEF Init, Closing, Issued
<1> QED
  BY <1>1, <1>2, <1>3, <1>4, <1>5 DEF IInv

-----------------------------------------------------------------------------
(* The last reference: whoever holds it is the only one. *)
LEMMA OneMember ==
  ASSUME NEW S, IsFiniteSet(S), NEW x \in S
  PROVE  Cardinality(S) \in Nat \ {0} /\ (Cardinality(S) = 1 => S = {x})
BY FS_CardinalityType, FS_EmptySet, FS_Singleton

LEMMA LastReference ==
  ASSUME TypeOK, NEW o \in Objects, References(o) = 1
  PROVE  /\ \A u \in Users : obj[u] = o =>
              /\ \A v \in Users : obj[v] = o => v = u
              /\ \A l \in Links : table[l] # o /\ cobj[l] # o /\ robj[l] # o
         /\ \A l \in Links : cobj[l] = o =>
              /\ \A m \in Links : (cobj[m] = o => m = l) /\ table[m] # o /\ robj[m] # o
              /\ \A u \in Users : obj[u] # o
         /\ \A l \in Links : robj[l] = o =>
              /\ \A m \in Links : (robj[m] = o => m = l) /\ table[m] # o /\ cobj[m] # o
              /\ \A u \in Users : obj[u] # o
<1> DEFINE A == {u \in Users : obj[u] = o}
           B == {l \in Links : table[l] = o}
           C == {l \in Links : cobj[l] = o}
           D == {l \in Links : robj[l] = o}
<1>1. IsFiniteSet(A) /\ IsFiniteSet(B) /\ IsFiniteSet(C) /\ IsFiniteSet(D)
  <2>1. IsFiniteSet(Users) /\ IsFiniteSet(Links)
    BY SetsAssumption, MaxLinksAssumption, FS_Interval
  <2> QED
    BY <2>1, FS_Subset
<1>2. Cardinality(A) \in Nat /\ Cardinality(B) \in Nat /\ Cardinality(C) \in Nat /\ Cardinality(D) \in Nat
  BY <1>1, FS_CardinalityType
<1>3. Cardinality(A) + Cardinality(B) + Cardinality(C) + Cardinality(D) = 1
  BY DEF References
<1> HIDE DEF A, B, C, D
<1>4. \A u \in A : A = {u} /\ B = {} /\ C = {} /\ D = {}
  <2> SUFFICES ASSUME NEW u \in A PROVE A = {u} /\ B = {} /\ C = {} /\ D = {}
    OBVIOUS
  <2>1. Cardinality(A) = 1 /\ Cardinality(B) = 0 /\ Cardinality(C) = 0 /\ Cardinality(D) = 0
    BY <1>1, <1>2, <1>3, OneMember
  <2> QED
    BY <2>1, <1>1, OneMember, FS_EmptySet
<1>5. \A l \in C : C = {l} /\ A = {} /\ B = {} /\ D = {}
  <2> SUFFICES ASSUME NEW l \in C PROVE C = {l} /\ A = {} /\ B = {} /\ D = {}
    OBVIOUS
  <2>1. Cardinality(C) = 1 /\ Cardinality(A) = 0 /\ Cardinality(B) = 0 /\ Cardinality(D) = 0
    BY <1>1, <1>2, <1>3, OneMember
  <2> QED
    BY <2>1, <1>1, OneMember, FS_EmptySet
<1>6. \A l \in D : D = {l} /\ A = {} /\ B = {} /\ C = {}
  <2> SUFFICES ASSUME NEW l \in D PROVE D = {l} /\ A = {} /\ B = {} /\ C = {}
    OBVIOUS
  <2>1. Cardinality(D) = 1 /\ Cardinality(A) = 0 /\ Cardinality(B) = 0 /\ Cardinality(C) = 0
    BY <1>1, <1>2, <1>3, OneMember
  <2> QED
    BY <2>1, <1>1, OneMember, FS_EmptySet
<1> QED
  BY <1>4, <1>5, <1>6 DEF A, B, C, D

(* An object whose last reference is a user's who is in no call, or a
   callback's, has no link any more, so its destructor closes none. *)
LEMMA NothingToClose ==
  ASSUME IInv, NEW o \in Objects, References(o) = 1,
         \/ \E u \in Users : obj[u] = o /\ pc[u] = "idle"
         \/ \E l \in Links : cobj[l] = o \/ robj[l] = o
  PROVE  Destroyed(lnk[o]) = link
<1>1. mem[o] = "live" /\ lnk[o] \in Links \cup {INVALID_HTCPLINK}
  BY DEF IInv, HeldIsLive, Held, TypeOK
<1>2. lnk[o] = INVALID_HTCPLINK
  BY <1>1, LastReference DEF IInv, LinkLeadsBack
<1> QED
  BY <1>2 DEF Destroyed

(* A reference that goes closes no link, and frees the object if it was the
   last. *)
LEMMA Unreferencing ==
  ASSUME IInv, NEW o \in Objects, Unreference(o),
         \/ \E u \in Users : obj[u] = o /\ pc[u] = "idle"
         \/ \E l \in Links : cobj[l] = o \/ robj[l] = o
  PROVE  link' = link /\ (mem' = mem \/ (References(o) = 1 /\ mem' = [mem EXCEPT ![o] = "free"]))
BY NothingToClose DEF Unreference

(* A link that is not in lnk_ yet is in no other object's. *)
LEMMA NotBeforeSet ==
  ASSUME IInv, NEW u \in Users, NEW v \in Users, obj[u] # None, pc[v] = "setlnk"
  PROVE  lnk[obj[u]] # fresh[v]
BY DEF IInv, TypeOK, HeldIsLive, Held, Creators, FreshLinks, LinkLeadsBack

-----------------------------------------------------------------------------
(* Every step. *)
LEMMA NextIInv ==
  ASSUME OneCreate
  PROVE  IInv /\ [Next]_vars => IInv'
<1> SUFFICES ASSUME IInv, [Next]_vars PROVE IInv'
  OBVIOUS
<1> USE SetsAssumption, MaxLinksAssumption
<1> USE DEF IInv, UserAt, CallbackAt, Calls, netVars, objectVars, userVars, callbackVars
<1>1. ASSUME UNCHANGED vars PROVE IInv'
  <2>1. (HeldIsLive /\ Creators /\ FreshLinks /\ LinkLeadsBack /\ Entries /\ Closing /\ Issued)'
    BY <1>1 DEF vars, HeldIsLive, Creators, FreshLinks, LinkLeadsBack, Entries, Closing, Issued, Held, Creator
  <2>2. TypeOK'
    BY <1>1 DEF vars, TypeOK
  <2> QED
    BY <2>1, <2>2
<1>2. ASSUME NEW u \in Users, NEW o \in Objects, Make(u, o) PROVE IInv'
  <2>1. (FreshLinks /\ Closing)'
    BY <1>2 DEF Make, FreshLinks, Closing
  <2>2. TypeOK'
    BY <1>2 DEF Make, TypeOK
  <2>3. HeldIsLive'
    BY <1>2 DEF Make, TypeOK, HeldIsLive, Held
  <2>4. Creators'
    BY <1>2 DEF Make, TypeOK, Creators, Creator, HeldIsLive, Held
  <2>5. LinkLeadsBack'
    <3> SUFFICES ASSUME NEW p \in Objects, mem'[p] = "live", lnk'[p] # INVALID_HTCPLINK
                 PROVE  \/ table'[lnk'[p]] = p
                        \/ \E v \in Users : pc'[v] = "attach" /\ obj'[v] = p /\ fresh'[v] = lnk'[p]
      BY DEF LinkLeadsBack
    <3>1. p # o /\ mem[p] = "live" /\ lnk'[p] = lnk[p]
      BY <1>2 DEF Make, TypeOK
    <3>2. \A v \in Users : obj[v] = p => obj'[v] = p
      BY <1>2, <3>1 DEF Make, TypeOK
    <3> QED
      BY <1>2, <3>1, <3>2 DEF Make, LinkLeadsBack
  <2>6. Entries'
    <3>1. \A l \in Links : table[l] # None => lnk'[table[l]] = lnk[table[l]]
      BY <1>2 DEF Make, TypeOK, HeldIsLive, Held
    <3> QED
      BY <1>2, <3>1 DEF Make, Entries
  <2>7. Issued'
    BY <1>2 DEF Make, TypeOK, Issued
  <2> QED
    BY <2>1, <2>2, <2>3, <2>4, <2>5, <2>6, <2>7
<1>3. ASSUME NEW u \in Users, NEW v \in Users, Share(u, v) PROVE IInv'
  <2>1. (FreshLinks /\ Entries /\ Closing /\ Issued)'
    BY <1>3 DEF Share, FreshLinks, Entries, Closing, Issued
  <2>2. TypeOK'
    BY <1>3 DEF Share, TypeOK
  <2>3. HeldIsLive'
    BY <1>3 DEF Share, TypeOK, HeldIsLive, Held
  <2>4. Creators'
    BY <1>3 DEF Share, TypeOK, Creators, Creator
  <2>5. LinkLeadsBack'
    BY <1>3 DEF Share, TypeOK, LinkLeadsBack
  <2> QED
    BY <2>1, <2>2, <2>3, <2>4, <2>5
<1>4. ASSUME NEW u \in Users, Drop(u) PROVE IInv'
  <2>0. link' = link /\ (mem' = mem \/ (References(obj[u]) = 1 /\ mem' = [mem EXCEPT ![obj[u]] = "free"]))
    BY Unreferencing, <1>4 DEF Drop, TypeOK, Closing
  <2>1. (FreshLinks /\ Entries /\ Closing /\ Issued)'
    BY <2>0, <1>4 DEF Drop, FreshLinks, Entries, Closing, Issued
  <2>2. TypeOK'
    BY <2>0, <1>4 DEF Drop, TypeOK
  <2>3. HeldIsLive'
    BY <2>0, LastReference, <1>4 DEF Drop, TypeOK, HeldIsLive, Held
  <2>4. Creators'
    BY <2>0, <1>4 DEF Drop, TypeOK, Creators, Creator
  <2>5. LinkLeadsBack'
    BY <2>0, <1>4 DEF Drop, TypeOK, LinkLeadsBack
  <2> QED
    BY <2>1, <2>2, <2>3, <2>4, <2>5
<1>5. ASSUME NEW u \in Users, CreateTest(u) PROVE IInv'
  <2>1. (HeldIsLive /\ FreshLinks /\ Entries /\ Closing /\ Issued)'
    BY <1>5 DEF CreateTest, HeldIsLive, FreshLinks, Entries, Closing, Issued, Held
  <2>2. TypeOK'
    BY <1>5 DEF CreateTest, TypeOK
  <2>3. Creators'
    BY <1>5 DEF CreateTest, TypeOK, Creators, Creator, Creating
  <2>4. LinkLeadsBack'
    BY <1>5 DEF CreateTest, TypeOK, LinkLeadsBack
  <2> QED
    BY <2>1, <2>2, <2>3, <2>4
<1>6. ASSUME NEW u \in Users, CreateLink(u) PROVE IInv'
  <2>1. HeldIsLive'
    BY <1>6 DEF CreateLink, HeldIsLive, Held
  <2>2. TypeOK'
    BY <1>6 DEF CreateLink, TypeOK
  <2>3. Creators'
    BY <1>6 DEF CreateLink, TypeOK, Creators, Creator
  <2>4. FreshLinks'
    BY <1>6 DEF CreateLink, TypeOK, FreshLinks, Creators, Entries, Closing, Issued
  <2>5. LinkLeadsBack'
    BY <1>6 DEF CreateLink, TypeOK, LinkLeadsBack
  <2>6. Entries'
    BY <1>6 DEF CreateLink, TypeOK, Entries
  <2>7. Closing'
    BY <1>6 DEF CreateLink, TypeOK, Closing, Issued
  <2>8. Issued'
    <3>1. link' = [link EXCEPT ![issued + 1] = "open"] /\ issued + 1 \in Links /\ fresh'[u] = issued + 1
      BY <1>6 DEF CreateLink, TypeOK
    <3>2. \A v \in Users : v # u => fresh'[v] = fresh[v]
      BY <1>6 DEF CreateLink, TypeOK
    <3>3. fresh[u] = INVALID_HTCPLINK
      BY <1>6 DEF CreateLink, Creators
    <3>4. ASSUME NEW m \in Links, m # issued + 1
          PROVE  \A v \in Users : fresh[v] = m => fresh'[v] = m
      BY <3>2, <3>3
    <3> QED
      BY <1>6, <3>1, <3>4 DEF CreateLink, TypeOK, Issued
  <2> QED
    BY <2>1, <2>2, <2>3, <2>4, <2>5, <2>6, <2>7, <2>8
<1>7. ASSUME NEW u \in Users, CreateFails(u) PROVE IInv'
  <2>1. (HeldIsLive /\ FreshLinks /\ Entries /\ Closing /\ Issued)'
    BY <1>7 DEF CreateFails, HeldIsLive, FreshLinks, Entries, Closing, Issued, Held
  <2>2. TypeOK'
    BY <1>7 DEF CreateFails, TypeOK
  <2>3. Creators'
    BY <1>7 DEF CreateFails, TypeOK, Creators, Creator
  <2>4. LinkLeadsBack'
    BY <1>7 DEF CreateFails, TypeOK, LinkLeadsBack
  <2> QED
    BY <2>1, <2>2, <2>3, <2>4
<1>8. ASSUME NEW u \in Users, SetLnk(u) PROVE IInv'
  <2>1. (HeldIsLive /\ FreshLinks /\ Closing)'
    BY <1>8 DEF SetLnk, HeldIsLive, FreshLinks, Closing, Held
  <2>2. TypeOK'
    BY <1>8 DEF SetLnk, TypeOK
  <2>3. Creators'
    BY <1>8 DEF SetLnk, TypeOK, Creators, Creator
  <2>4. LinkLeadsBack'
    BY <1>8 DEF SetLnk, TypeOK, LinkLeadsBack
  <2>5. Entries'
    BY <1>8 DEF SetLnk, TypeOK, Entries, Creators, FreshLinks
  <2>6. Issued'
    BY <1>8 DEF SetLnk, TypeOK, Issued, Creators, FreshLinks
  <2> QED
    BY <2>1, <2>2, <2>3, <2>4, <2>5, <2>6
<1>9. ASSUME NEW u \in Users, Attach(u) PROVE IInv'
  <2>1. TypeOK'
    BY <1>9 DEF Attach, TypeOK
  <2>2. HeldIsLive'
    BY <1>9 DEF Attach, TypeOK, HeldIsLive, Held
  <2>3. Creators'
    BY <1>9 DEF Attach, TypeOK, Creators, Creator
  <2>4. FreshLinks'
    BY <1>9 DEF Attach, TypeOK, FreshLinks
  <2>5. LinkLeadsBack'
    BY <1>9 DEF Attach, TypeOK, LinkLeadsBack, Creators, FreshLinks
  <2>6. Entries'
    BY <1>9 DEF Attach, TypeOK, Entries, Creators, FreshLinks
  <2>7. Closing'
    BY <1>9 DEF Attach, TypeOK, Closing, Creators, FreshLinks
  <2>8. Issued'
    BY <1>9 DEF Attach, TypeOK, Issued, Creators, FreshLinks
  <2> QED
    BY <2>1, <2>2, <2>3, <2>4, <2>5, <2>6, <2>7, <2>8
<1>10. ASSUME NEW u \in Users, Connect(u) PROVE IInv'
  <2>1. (HeldIsLive /\ FreshLinks /\ LinkLeadsBack /\ Entries)'
    BY <1>10 DEF Connect, HeldIsLive, FreshLinks, LinkLeadsBack, Entries, Held
  <2>2. TypeOK'
    BY <1>10 DEF Connect, TypeOK
  <2>3. Creators'
    BY NotBeforeSet, <1>10 DEF Connect, TypeOK, Creators, Creator
  <2>4. Closing'
    BY <1>10 DEF Connect, TypeOK, Closing
  <2>5. Issued'
    BY <1>10 DEF Connect, TypeOK, Issued
  <2> QED
    BY <2>1, <2>2, <2>3, <2>4, <2>5
<1>11. ASSUME NEW u \in Users, CloseTest(u) PROVE IInv'
  <2>1. (HeldIsLive /\ FreshLinks /\ Entries /\ Closing /\ Issued)'
    BY <1>11 DEF CloseTest, HeldIsLive, FreshLinks, Entries, Closing, Issued, Held
  <2>2. TypeOK'
    BY <1>11 DEF CloseTest, TypeOK
  <2>3. Creators'
    BY <1>11 DEF CloseTest, TypeOK, Creators, Creator
  <2>4. LinkLeadsBack'
    BY <1>11 DEF CloseTest, TypeOK, LinkLeadsBack
  <2> QED
    BY <2>1, <2>2, <2>3, <2>4
<1>12. ASSUME NEW u \in Users, Destroy(u) PROVE IInv'
  <2>1. (HeldIsLive /\ FreshLinks /\ Entries)'
    BY <1>12 DEF Destroy, HeldIsLive, FreshLinks, Entries, Held
  <2>2. TypeOK'
    BY <1>12 DEF Destroy, TypeOK, Destroyed
  <2>3. Creators'
    <3>1. \A v \in Users : pc'[v] = "setlnk" => link'[fresh[v]] = "open"
      BY NotBeforeSet, <1>12 DEF Destroy, Destroyed, TypeOK, Creators
    <3> QED
      BY <1>12, <3>1 DEF Destroy, TypeOK, Creators, Creator
  <2>4. LinkLeadsBack'
    BY <1>12 DEF Destroy, TypeOK, LinkLeadsBack
  <2>5. Closing'
    BY <1>12 DEF Destroy, TypeOK, Closing, Destroyed
  <2>6. Issued'
    BY <1>12 DEF Destroy, TypeOK, Issued, Destroyed
  <2> QED
    BY <2>1, <2>2, <2>3, <2>4, <2>5, <2>6
<1>13. ASSUME NEW l \in Links, PeerCloses(l) PROVE IInv'
  <2>1. (HeldIsLive /\ FreshLinks /\ LinkLeadsBack /\ Entries)'
    BY <1>13 DEF PeerCloses, HeldIsLive, FreshLinks, LinkLeadsBack, Entries, Held
  <2>2. TypeOK'
    BY <1>13 DEF PeerCloses, TypeOK
  <2>3. Creators'
    BY <1>13 DEF PeerCloses, TypeOK, Creators, Creator
  <2>4. Closing'
    BY <1>13 DEF PeerCloses, TypeOK, Closing
  <2>5. Issued'
    BY <1>13 DEF PeerCloses, TypeOK, Issued
  <2> QED
    BY <2>1, <2>2, <2>3, <2>4, <2>5
<1>14. ASSUME NEW l \in Links, ReceiveData(l) PROVE IInv'
  <2>1. (Creators /\ FreshLinks /\ LinkLeadsBack /\ Entries /\ Closing)'
    BY <1>14 DEF ReceiveData, Creators, FreshLinks, LinkLeadsBack, Entries, Closing, Creator
  <2>2. TypeOK'
    BY <1>14 DEF ReceiveData, TypeOK
  <2>3. HeldIsLive'
    BY <1>14 DEF ReceiveData, TypeOK, HeldIsLive, Held
  <2>4. Issued'
    BY <1>14 DEF ReceiveData, TypeOK, Issued
  <2> QED
    BY <2>1, <2>2, <2>3, <2>4
<1>15. ASSUME NEW l \in Links, ReceiveReturns(l) PROVE IInv'
  <2>0. link' = link /\ (mem' = mem \/ (References(robj[l]) = 1 /\ mem' = [mem EXCEPT ![robj[l]] = "free"]))
    BY Unreferencing, <1>15 DEF ReceiveReturns, TypeOK, Closing
  <2>1. (Creators /\ FreshLinks /\ Entries /\ Closing)'
    BY <2>0, <1>15 DEF ReceiveReturns, Creators, FreshLinks, Entries, Closing, Creator
  <2>2. TypeOK'
    BY <2>0, <1>15 DEF ReceiveReturns, TypeOK
  <2>3. HeldIsLive'
    BY <2>0, LastReference, <1>15 DEF ReceiveReturns, TypeOK, HeldIsLive, Held
  <2>4. LinkLeadsBack'
    BY <2>0, <1>15 DEF ReceiveReturns, TypeOK, LinkLeadsBack
  <2>5. Issued'
    BY <2>0, <1>15 DEF ReceiveReturns, TypeOK, Issued
  <2> QED
    BY <2>1, <2>2, <2>3, <2>4, <2>5
<1>16. ASSUME NEW l \in Links, EvtClosed(l) PROVE IInv'
  <2>1. LinkLeadsBack'
    BY <1>16 DEF EvtClosed, LinkLeadsBack
  <2>2. TypeOK'
    BY <1>16 DEF EvtClosed, TypeOK
  <2>3. HeldIsLive'
    BY <1>16 DEF EvtClosed, TypeOK, HeldIsLive, Held
  <2>4. Creators'
    BY <1>16 DEF EvtClosed, TypeOK, Creators, Creator
  <2>5. FreshLinks'
    BY <1>16 DEF EvtClosed, TypeOK, FreshLinks
  <2>6. Entries'
    BY <1>16 DEF EvtClosed, TypeOK, Entries
  <2>7. Closing'
    BY <1>16 DEF EvtClosed, TypeOK, Closing
  <2>8. Issued'
    BY <1>16 DEF EvtClosed, TypeOK, Issued
  <2> QED
    BY <2>1, <2>2, <2>3, <2>4, <2>5, <2>6, <2>7, <2>8
<1>17. ASSUME NEW l \in Links, Exchange(l) PROVE IInv'
  <2>1. HeldIsLive'
    BY <1>17 DEF Exchange, HeldIsLive, Held
  <2>2. TypeOK'
    BY <1>17 DEF Exchange, TypeOK, Closing
  <2>3. Creators'
    BY <1>17 DEF Exchange, TypeOK, Creators, Creator, Closing, Entries, FreshLinks
  <2>4. FreshLinks'
    BY <1>17 DEF Exchange, TypeOK, FreshLinks
  <2>5. LinkLeadsBack'
    BY <1>17 DEF Exchange, TypeOK, LinkLeadsBack, Closing
  <2>6. Entries'
    BY <1>17 DEF Exchange, TypeOK, Entries, Closing
  <2>7. Closing'
    BY <1>17 DEF Exchange, TypeOK, Closing, Entries
  <2>8. Issued'
    BY <1>17 DEF Exchange, TypeOK, Issued, Closing
  <2> QED
    BY <2>1, <2>2, <2>3, <2>4, <2>5, <2>6, <2>7, <2>8
<1>18. ASSUME NEW l \in Links, Detach(l) PROVE IInv'
  <2>1. Creators'
    BY <1>18 DEF Detach, Creators, Creator
  <2>2. TypeOK'
    BY <1>18 DEF Detach, TypeOK
  <2>3. HeldIsLive'
    BY <1>18 DEF Detach, TypeOK, HeldIsLive, Held
  <2>4. FreshLinks'
    BY <1>18 DEF Detach, TypeOK, FreshLinks
  <2>5. LinkLeadsBack'
    BY <1>18 DEF Detach, TypeOK, LinkLeadsBack, Closing, Entries
  <2>6. Entries'
    BY <1>18 DEF Detach, TypeOK, Entries, Closing
  <2>7. Closing'
    BY <1>18 DEF Detach, TypeOK, Closing
  <2>8. Issued'
    BY <1>18 DEF Detach, TypeOK, Issued, Closing
  <2> QED
    BY <2>1, <2>2, <2>3, <2>4, <2>5, <2>6, <2>7, <2>8
<1>19. ASSUME NEW l \in Links, OnClosed(l) PROVE IInv'
  <2>1. (HeldIsLive /\ Creators /\ LinkLeadsBack /\ Issued)'
    BY <1>19 DEF OnClosed, HeldIsLive, Creators, LinkLeadsBack, Issued, Held, Creator
  <2>2. TypeOK'
    BY <1>19 DEF OnClosed, TypeOK, Closing
  <2>3. FreshLinks'
    BY <1>19 DEF OnClosed, TypeOK, FreshLinks, Closing
  <2>4. Entries'
    BY <1>19 DEF OnClosed, TypeOK, Entries, Closing
  <2>5. Closing'
    BY <1>19 DEF OnClosed, TypeOK, Closing
  <2> QED
    BY <2>1, <2>2, <2>3, <2>4, <2>5
<1>20. ASSUME NEW l \in Links, ClosedReturns(l) PROVE IInv'
  <2>0. link' = link /\ (mem' = mem \/ (References(cobj[l]) = 1 /\ mem' = [mem EXCEPT ![cobj[l]] = "free"]))
    BY Unreferencing, <1>20 DEF ClosedReturns, TypeOK, Closing
  <2>1. Creators'
    BY <2>0, <1>20 DEF ClosedReturns, Creators, Creator
  <2>2. TypeOK'
    BY <2>0, <1>20 DEF ClosedReturns, TypeOK
  <2>3. HeldIsLive'
    BY <2>0, LastReference, <1>20 DEF ClosedReturns, TypeOK, HeldIsLive, Held
  <2>4. FreshLinks'
    BY <2>0, <1>20 DEF ClosedReturns, TypeOK, FreshLinks
  <2>5. LinkLeadsBack'
    BY <2>0, <1>20 DEF ClosedReturns, TypeOK, LinkLeadsBack
  <2>6. Entries'
    BY <2>0, <1>20 DEF ClosedReturns, TypeOK, Entries
  <2>7. Closing'
    BY <2>0, <1>20 DEF ClosedReturns, TypeOK, Closing
  <2>8. Issued'
    BY <2>0, <1>20 DEF ClosedReturns, TypeOK, Issued
  <2> QED
    BY <2>1, <2>2, <2>3, <2>4, <2>5, <2>6, <2>7, <2>8
<1> QED
  BY <1>1, <1>2, <1>3, <1>4, <1>5, <1>6, <1>7, <1>8, <1>9, <1>10, <1>11, <1>12, <1>13, <1>14, <1>15, <1>16, <1>17, <1>18, <1>19, <1>20 DEF Next, UserStep, InCall, InCallback

LEMMA Inductive ==
  ASSUME OneCreate
  PROVE  Spec => []IInv
BY InitIInv, NextIInv, PTL DEF Spec

(* The variables of the objects, of the table and of the calls stay in their
   types. *)
THEOREM TypeCorrect ==
  ASSUME OneCreate
  PROVE  Spec => []TypeOK
<1>1. IInv => TypeOK
  BY DEF IInv
<1> QED
  BY <1>1, Inductive, PTL

(* Whatever users create, close and share, and whenever links end, the table
   leads to live objects under their own links. *)
THEOREM TableAgreesHolds ==
  ASSUME OneCreate
  PROVE  Spec => []TableAgrees
<1>1. IInv => TableAgrees
  <2> SUFFICES ASSUME IInv, NEW l \in Links, table[l] # None
               PROVE  /\ mem[table[l]] = "live"
                      /\ lnk[table[l]] = l \/ (cpc[l] = "detach" /\ prev[l] = l)
                      /\ \A m \in Links \ {l} : table[m] = table[l] => cpc[l] = "detach" \/ cpc[m] = "detach"
    BY DEF TableAgrees
  <2>1. mem[table[l]] = "live"
    BY DEF IInv, TypeOK, HeldIsLive, Held
  <2>2. lnk[table[l]] = l \/ (cpc[l] = "detach" /\ prev[l] = l)
    BY DEF IInv, Entries, Closing
  <2>3. ASSUME NEW m \in Links \ {l}, table[m] = table[l]
        PROVE  cpc[l] = "detach" \/ cpc[m] = "detach"
    BY <2>3 DEF IInv, Entries
  <2> QED
    BY <2>1, <2>2, <2>3
<1> QED
  BY <1>1, Inductive, PTL

(* A link that is up and past its creation always has its object. *)
THEOREM NoLostLinkHolds ==
  ASSUME OneCreate
  PROVE  Spec => []NoLostLink
<1>1. IInv => NoLostLink
  <2> SUFFICES ASSUME IInv, NEW l \in Links, link[l] \in {"open", "connected"},
                      \A u \in Users : fresh[u] # l
               PROVE  \E o \in Objects : mem[o] = "live" /\ lnk[o] = l /\ table[l] = o
    BY DEF NoLostLink
  <2>1. table[l] # None /\ table[l] \in Objects
    BY DEF IInv, TypeOK, Issued
  <2>2. mem[table[l]] = "live"
    BY <2>1 DEF IInv, HeldIsLive, Held
  <2>3. lnk[table[l]] = l
    BY <2>1 DEF IInv, Entries, Closing
  <2> QED
    BY <2>1, <2>2, <2>3
<1> QED
  BY <1>1, Inductive, PTL

(* on_closed(previous) comes once for a link, when it is out of the table. *)
THEOREM ClosedOnceHolds ==
  ASSUME OneCreate
  PROVE  Spec => []ClosedOnce
<1>1. IInv => ClosedOnce
  BY DEF IInv, TypeOK, Entries, Closing, ClosedOnce
<1> QED
  BY <1>1, Inductive, PTL

-----------------------------------------------------------------------------
(* The steps of on_accepted before the session is in the table, and after the
   application has it. *)
Before(l) == accept[l] \in {"none", "attach"}
Past(l) == accept[l] \in {"establish", "close", "insert", "return", "done"}

(* The memory of a session: not made, held by somebody, or freed for ever. *)
Memory ==
  \A l \in Sessions :
    /\ accept[l] = "none" <=> life[l] = "none"
    /\ Service!Held(l) => life[l] = "live"

(* The steps of EVT_CLOSED: it finds what on_accepted has entered, takes it out
   and tells it, or finds nothing and leaves what is entered later for ever. *)
Ending ==
  \A l \in Sessions :
    /\ closing[l] # "none" <=> peer[l] = "closed"
    /\ Before(l) => closing[l] \in {"none", "done"} /\ told[l] = 0 /\ l \notin attached
    /\ closing[l] \in {"exchange", "detach"} => l \in attached
    /\ closing[l] \in {"tell", "erase", "disconnected", "release"} => l \notin attached
    /\ told[l] = 1 => l \notin attached /\ closing[l] \in {"release", "done"}
    /\ closing[l] = "release" => told[l] = 1
    /\ closing[l] = "none" /\ ~Before(l) => l \in attached
    /\ closing[l] = "done" /\ ~Before(l) => l \in attached \/ told[l] = 1

(* client_set_: what is entered in time is erased before the session is told. *)
Listing ==
  /\ \A l \in Sessions : Past(l) => l \in bound
  /\ \A l \in listed : accept[l] \in {"return", "done"}
  /\ \A l \in listed \ late : closing[l] \notin {"disconnected", "release"} /\ told[l] = 0
  /\ server = "gone" => listed = {} /\ \A l \in Sessions : ~Service!Accepting(l)

(* A session is freed when nobody can reach it, and then it was told. *)
FreedIsTold == \A l \in Sessions : life[l] = "freed" => told[l] = 1

ServiceInv == Service!TypeOK /\ Memory /\ Ending /\ Listing /\ FreedIsTold

-----------------------------------------------------------------------------
LEMMA ServiceInit ==
  ASSUME None \notin Sessions
  PROVE  Service!Init => ServiceInv
<1> SUFFICES ASSUME Service!Init PROVE ServiceInv
  OBVIOUS
<1>1. Service!TypeOK
  BY DEF Service!Init, Service!TypeOK
<1>2. Memory
  BY DEF Service!Init, Memory, Service!Held, Service!Accepting, Service!Closing
<1>3. Ending /\ Listing /\ FreedIsTold
  BY DEF Service!Init, Ending, Before, Listing, Past, FreedIsTold
<1> QED
  BY <1>1, <1>2, <1>3 DEF ServiceInv

LEMMA ServiceStep ==
  ASSUME None \notin Sessions
  PROVE  ServiceInv /\ [Service!Next]_Service!vars => ServiceInv'
<1> SUFFICES ASSUME ServiceInv, [Service!Next]_Service!vars PROVE ServiceInv'
  OBVIOUS
<1> USE DEF ServiceInv, Service!AcceptAt, Service!ClosingAt, Service!ownVars, Service!userVars, Service!historyVars
<1>1. ASSUME UNCHANGED Service!vars PROVE ServiceInv'
  <2>1. Service!TypeOK'
    BY <1>1 DEF Service!vars, Service!TypeOK
  <2>2. Memory'
    BY <1>1 DEF Service!vars, Service!TypeOK, Memory, Ending, Service!Held, Service!Accepting, Service!Closing
  <2>3. Ending'
    BY <1>1 DEF Service!vars, Service!TypeOK, Ending, Before
  <2>4. Listing'
    BY <1>1 DEF Service!vars, Service!TypeOK, Listing, Past, Ending, Service!Accepting
  <2>5. FreedIsTold'
    BY <1>1 DEF Service!vars, Service!TypeOK, FreedIsTold, Ending, Memory, Service!Held, Service!Accepting, Service!Closing, Before
  <2> QED
    BY <2>1, <2>2, <2>3, <2>4, <2>5
<1>2. ASSUME NEW l \in Sessions, Service!Accepted(l) PROVE ServiceInv'
  <2>1. Service!TypeOK'
    BY <1>2 DEF Service!Accepted, Service!TypeOK
  <2>2. Memory'
    BY <1>2 DEF Service!Accepted, Service!TypeOK, Memory, Ending, Service!Held, Service!Accepting, Service!Closing
  <2>3. Ending'
    BY <1>2 DEF Service!Accepted, Service!TypeOK, Ending, Before
  <2>4. Listing'
    BY <1>2 DEF Service!Accepted, Service!TypeOK, Listing, Past, Ending, Service!Accepting
  <2>5. FreedIsTold'
    BY <1>2 DEF Service!Accepted, Service!TypeOK, FreedIsTold, Ending, Memory, Service!Held, Service!Accepting, Service!Closing, Before
  <2> QED
    BY <2>1, <2>2, <2>3, <2>4, <2>5
<1>3. ASSUME NEW l \in Sessions, Service!PeerCloses(l) PROVE ServiceInv'
  <2>1. Service!TypeOK'
    BY <1>3 DEF Service!PeerCloses, Service!TypeOK
  <2>2. Memory'
    BY <1>3 DEF Service!PeerCloses, Service!TypeOK, Memory, Ending, Service!Held, Service!Accepting, Service!Closing
  <2>3. Ending'
    BY <1>3 DEF Service!PeerCloses, Service!TypeOK, Ending, Before
  <2>4. Listing'
    BY <1>3 DEF Service!PeerCloses, Service!TypeOK, Listing, Past, Ending, Service!Accepting
  <2>5. FreedIsTold'
    BY <1>3 DEF Service!PeerCloses, Service!TypeOK, FreedIsTold, Ending, Memory, Service!Held, Service!Accepting, Service!Closing, Before
  <2> QED
    BY <2>1, <2>2, <2>3, <2>4, <2>5
<1>4. ASSUME NEW l \in Sessions, Service!Attach(l) PROVE ServiceInv'
  <2>1. Service!TypeOK'
    BY <1>4 DEF Service!Attach, Service!TypeOK
  <2>2. Memory'
    BY <1>4 DEF Service!Attach, Service!TypeOK, Memory, Ending, Service!Held, Service!Accepting, Service!Closing
  <2>3. Ending'
    BY <1>4 DEF Service!Attach, Service!TypeOK, Ending, Before
  <2>4. Listing'
    BY <1>4 DEF Service!Attach, Service!TypeOK, Listing, Past, Ending, Service!Accepting
  <2>5. FreedIsTold'
    BY <1>4 DEF Service!Attach, Service!TypeOK, FreedIsTold, Ending, Memory, Service!Held, Service!Accepting, Service!Closing, Before
  <2> QED
    BY <2>1, <2>2, <2>3, <2>4, <2>5
<1>5. ASSUME NEW l \in Sessions, Service!BindObject(l) PROVE ServiceInv'
  <2>1. Service!TypeOK'
    BY <1>5 DEF Service!BindObject, Service!TypeOK
  <2>2. Memory'
    BY <1>5 DEF Service!BindObject, Service!TypeOK, Memory, Ending, Service!Held, Service!Accepting, Service!Closing
  <2>3. Ending'
    BY <1>5 DEF Service!BindObject, Service!TypeOK, Ending, Before
  <2>4. Listing'
    BY <1>5 DEF Service!BindObject, Service!TypeOK, Listing, Past, Ending, Service!Accepting
  <2>5. FreedIsTold'
    BY <1>5 DEF Service!BindObject, Service!TypeOK, FreedIsTold, Ending, Memory, Service!Held, Service!Accepting, Service!Closing, Before
  <2> QED
    BY <2>1, <2>2, <2>3, <2>4, <2>5
<1>6. ASSUME NEW l \in Sessions, Service!OnEstablished(l) PROVE ServiceInv'
  <2>1. Service!TypeOK'
    BY <1>6 DEF Service!OnEstablished, Service!TypeOK
  <2>2. Memory'
    BY <1>6 DEF Service!OnEstablished, Service!TypeOK, Memory, Ending, Service!Held, Service!Accepting, Service!Closing
  <2>3. Ending'
    BY <1>6 DEF Service!OnEstablished, Service!TypeOK, Ending, Before
  <2>4. Listing'
    BY <1>6 DEF Service!OnEstablished, Service!TypeOK, Listing, Past, Ending, Service!Accepting
  <2>5. FreedIsTold'
    BY <1>6 DEF Service!OnEstablished, Service!TypeOK, FreedIsTold, Ending, Memory, Service!Held, Service!Accepting, Service!Closing, Before
  <2> QED
    BY <2>1, <2>2, <2>3, <2>4, <2>5
<1>7. ASSUME NEW l \in Sessions, Service!Decline(l) PROVE ServiceInv'
  <2>1. Service!TypeOK'
    BY <1>7 DEF Service!Decline, Service!Destroyed, Service!TypeOK
  <2>2. Memory'
    BY <1>7 DEF Service!Decline, Service!Destroyed, Service!TypeOK, Memory, Ending, Service!Held, Service!Accepting, Service!Closing
  <2>3. Ending'
    BY <1>7 DEF Service!Decline, Service!Destroyed, Service!TypeOK, Ending, Before
  <2>4. Listing'
    BY <1>7 DEF Service!Decline, Service!Destroyed, Service!TypeOK, Listing, Past, Ending, Service!Accepting
  <2>5. FreedIsTold'
    BY <1>7 DEF Service!Decline, Service!Destroyed, Service!TypeOK, FreedIsTold, Ending, Memory, Service!Held, Service!Accepting, Service!Closing, Before
  <2> QED
    BY <2>1, <2>2, <2>3, <2>4, <2>5
<1>8. ASSUME NEW l \in Sessions, Service!Insert(l) PROVE ServiceInv'
  <2>1. Service!TypeOK'
    BY <1>8 DEF Service!Insert, Service!TypeOK
  <2>2. Memory'
    BY <1>8 DEF Service!Insert, Service!TypeOK, Memory, Ending, Service!Held, Service!Accepting, Service!Closing
  <2>3. Ending'
    BY <1>8 DEF Service!Insert, Service!TypeOK, Ending, Before
  <2>4. Listing'
    BY <1>8 DEF Service!Insert, Service!TypeOK, Listing, Past, Ending, Service!Accepting
  <2>5. FreedIsTold'
    BY <1>8 DEF Service!Insert, Service!TypeOK, FreedIsTold, Ending, Memory, Service!Held, Service!Accepting, Service!Closing, Before
  <2> QED
    BY <2>1, <2>2, <2>3, <2>4, <2>5
<1>9. ASSUME NEW l \in Sessions, Service!AcceptReturns(l) PROVE ServiceInv'
  <2>1. Service!TypeOK'
    BY <1>9 DEF Service!AcceptReturns, Service!Dropped, Service!Destroyed, Service!TypeOK
  <2>2. Memory'
    BY <1>9 DEF Service!AcceptReturns, Service!Dropped, Service!Destroyed, Service!TypeOK, Memory, Ending, Service!Held, Service!Accepting, Service!Closing
  <2>3. Ending'
    BY <1>9 DEF Service!AcceptReturns, Service!Dropped, Service!Destroyed, Service!TypeOK, Ending, Before
  <2>4. Listing'
    BY <1>9 DEF Service!AcceptReturns, Service!Dropped, Service!Destroyed, Service!TypeOK, Listing, Past, Ending, Service!Accepting
  <2>5. FreedIsTold'
    BY <1>9 DEF Service!AcceptReturns, Service!Dropped, Service!Destroyed, Service!TypeOK, FreedIsTold, Ending, Memory, Service!Held, Service!Accepting, Service!Closing, Before
  <2> QED
    BY <2>1, <2>2, <2>3, <2>4, <2>5
<1>10. ASSUME NEW l \in Sessions, Service!EvtClosed(l) PROVE ServiceInv'
  <2>1. Service!TypeOK'
    BY <1>10 DEF Service!EvtClosed, Service!TypeOK
  <2>2. Memory'
    BY <1>10 DEF Service!EvtClosed, Service!TypeOK, Memory, Ending, Service!Held, Service!Accepting, Service!Closing
  <2>3. Ending'
    BY <1>10 DEF Service!EvtClosed, Service!TypeOK, Ending, Before
  <2>4. Listing'
    BY <1>10 DEF Service!EvtClosed, Service!TypeOK, Listing, Past, Ending, Service!Accepting
  <2>5. FreedIsTold'
    BY <1>10 DEF Service!EvtClosed, Service!TypeOK, FreedIsTold, Ending, Memory, Service!Held, Service!Accepting, Service!Closing, Before
  <2> QED
    BY <2>1, <2>2, <2>3, <2>4, <2>5
<1>11. ASSUME NEW l \in Sessions, Service!Exchange(l) PROVE ServiceInv'
  <2>1. Service!TypeOK'
    BY <1>11 DEF Service!Exchange, Service!TypeOK
  <2>2. Memory'
    BY <1>11 DEF Service!Exchange, Service!TypeOK, Memory, Ending, Service!Held, Service!Accepting, Service!Closing
  <2>3. Ending'
    BY <1>11 DEF Service!Exchange, Service!TypeOK, Ending, Before
  <2>4. Listing'
    BY <1>11 DEF Service!Exchange, Service!TypeOK, Listing, Past, Ending, Service!Accepting
  <2>5. FreedIsTold'
    BY <1>11 DEF Service!Exchange, Service!TypeOK, FreedIsTold, Ending, Memory, Service!Held, Service!Accepting, Service!Closing, Before
  <2> QED
    BY <2>1, <2>2, <2>3, <2>4, <2>5
<1>12. ASSUME NEW l \in Sessions, Service!Detach(l) PROVE ServiceInv'
  <2>1. Service!TypeOK'
    BY <1>12 DEF Service!Detach, Service!TypeOK
  <2>2. Memory'
    BY <1>12 DEF Service!Detach, Service!TypeOK, Memory, Ending, Service!Held, Service!Accepting, Service!Closing
  <2>3. Ending'
    BY <1>12 DEF Service!Detach, Service!TypeOK, Ending, Before
  <2>4. Listing'
    BY <1>12 DEF Service!Detach, Service!TypeOK, Listing, Past, Ending, Service!Accepting
  <2>5. FreedIsTold'
    BY <1>12 DEF Service!Detach, Service!TypeOK, FreedIsTold, Ending, Memory, Service!Held, Service!Accepting, Service!Closing, Before
  <2> QED
    BY <2>1, <2>2, <2>3, <2>4, <2>5
<1>13. ASSUME NEW l \in Sessions, Service!Tell(l) PROVE ServiceInv'
  <2>1. Service!TypeOK'
    BY <1>13 DEF Service!Tell, Service!TypeOK
  <2>2. Memory'
    BY <1>13 DEF Service!Tell, Service!TypeOK, Memory, Ending, Service!Held, Service!Accepting, Service!Closing
  <2>3. Ending'
    BY <1>13 DEF Service!Tell, Service!TypeOK, Ending, Before
  <2>4. Listing'
    BY <1>13 DEF Service!Tell, Service!TypeOK, Listing, Past, Ending, Service!Accepting
  <2>5. FreedIsTold'
    BY <1>13 DEF Service!Tell, Service!TypeOK, FreedIsTold, Ending, Memory, Service!Held, Service!Accepting, Service!Closing, Before
  <2> QED
    BY <2>1, <2>2, <2>3, <2>4, <2>5
<1>14. ASSUME NEW l \in Sessions, Service!Erase(l) PROVE ServiceInv'
  <2>1. Service!TypeOK'
    BY <1>14 DEF Service!Erase, Service!TypeOK
  <2>2. Memory'
    BY <1>14 DEF Service!Erase, Service!TypeOK, Memory, Ending, Service!Held, Service!Accepting, Service!Closing
  <2>3. Ending'
    BY <1>14 DEF Service!Erase, Service!TypeOK, Ending, Before
  <2>4. Listing'
    BY <1>14 DEF Service!Erase, Service!TypeOK, Listing, Past, Ending, Service!Accepting
  <2>5. FreedIsTold'
    BY <1>14 DEF Service!Erase, Service!TypeOK, FreedIsTold, Ending, Memory, Service!Held, Service!Accepting, Service!Closing, Before
  <2> QED
    BY <2>1, <2>2, <2>3, <2>4, <2>5
<1>15. ASSUME NEW l \in Sessions, Service!OnDisconnected(l) PROVE ServiceInv'
  <2>1. Service!TypeOK'
    <3>1. told[l] = 0
      BY <1>15 DEF Service!OnDisconnected, Service!TypeOK, Ending
    <3> QED
      BY <1>15, <3>1 DEF Service!OnDisconnected, Service!TypeOK
  <2>2. Memory'
    BY <1>15 DEF Service!OnDisconnected, Service!TypeOK, Memory, Ending, Service!Held, Service!Accepting, Service!Closing
  <2>3. Ending'
    BY <1>15 DEF Service!OnDisconnected, Service!TypeOK, Ending, Before
  <2>4. Listing'
    BY <1>15 DEF Service!OnDisconnected, Service!TypeOK, Listing, Past, Ending, Service!Accepting
  <2>5. FreedIsTold'
    BY <1>15 DEF Service!OnDisconnected, Service!TypeOK, FreedIsTold, Ending, Memory, Service!Held, Service!Accepting, Service!Closing, Before
  <2> QED
    BY <2>1, <2>2, <2>3, <2>4, <2>5
<1>16. ASSUME NEW l \in Sessions, Service!ClosedReturns(l) PROVE ServiceInv'
  <2>1. Service!TypeOK'
    BY <1>16 DEF Service!ClosedReturns, Service!Dropped, Service!Destroyed, Service!TypeOK
  <2>2. Memory'
    BY <1>16 DEF Service!ClosedReturns, Service!Dropped, Service!Destroyed, Service!TypeOK, Memory, Ending, Service!Held, Service!Accepting, Service!Closing
  <2>3. Ending'
    BY <1>16 DEF Service!ClosedReturns, Service!Dropped, Service!Destroyed, Service!TypeOK, Ending, Before
  <2>4. Listing'
    BY <1>16 DEF Service!ClosedReturns, Service!Dropped, Service!Destroyed, Service!TypeOK, Listing, Past, Ending, Service!Accepting
  <2>5. FreedIsTold'
    BY <1>16 DEF Service!ClosedReturns, Service!Dropped, Service!Destroyed, Service!TypeOK, FreedIsTold, Ending, Memory, Service!Held, Service!Accepting, Service!Closing, Before
  <2> QED
    BY <2>1, <2>2, <2>3, <2>4, <2>5
<1>17. ASSUME NEW u \in Users, NEW l \in Sessions, Service!NotifyOne(u, l) PROVE ServiceInv'
  <2>1. Service!TypeOK'
    BY <1>17 DEF Service!NotifyOne, Service!TypeOK
  <2>2. Memory'
    BY <1>17 DEF Service!NotifyOne, Service!TypeOK, Memory, Ending, Service!Held, Service!Accepting, Service!Closing
  <2>3. Ending'
    BY <1>17 DEF Service!NotifyOne, Service!TypeOK, Ending, Before
  <2>4. Listing'
    BY <1>17 DEF Service!NotifyOne, Service!TypeOK, Listing, Past, Ending, Service!Accepting
  <2>5. FreedIsTold'
    BY <1>17 DEF Service!NotifyOne, Service!TypeOK, FreedIsTold, Ending, Memory, Service!Held, Service!Accepting, Service!Closing, Before
  <2> QED
    BY <2>1, <2>2, <2>3, <2>4, <2>5
<1>18. ASSUME NEW u \in Users, NEW l \in Sessions, Service!NotifyNext(u, l) PROVE ServiceInv'
  <2>1. Service!TypeOK'
    BY <1>18 DEF Service!NotifyNext, Service!TypeOK
  <2>2. Memory'
    BY <1>18 DEF Service!NotifyNext, Service!TypeOK, Memory, Ending, Service!Held, Service!Accepting, Service!Closing
  <2>3. Ending'
    BY <1>18 DEF Service!NotifyNext, Service!TypeOK, Ending, Before
  <2>4. Listing'
    BY <1>18 DEF Service!NotifyNext, Service!TypeOK, Listing, Past, Ending, Service!Accepting
  <2>5. FreedIsTold'
    BY <1>18 DEF Service!NotifyNext, Service!TypeOK, FreedIsTold, Ending, Memory, Service!Held, Service!Accepting, Service!Closing, Before
  <2> QED
    BY <2>1, <2>2, <2>3, <2>4, <2>5
<1>19. ASSUME NEW u \in Users, NEW l \in Sessions, Service!TodoReturns(u, l) PROVE ServiceInv'
  <2>1. Service!TypeOK'
    BY <1>19 DEF Service!TodoReturns, Service!Dropped, Service!Destroyed, Service!TypeOK
  <2>2. Memory'
    BY <1>19 DEF Service!TodoReturns, Service!Dropped, Service!Destroyed, Service!TypeOK, Memory, Ending, Service!Held, Service!Accepting, Service!Closing
  <2>3. Ending'
    BY <1>19 DEF Service!TodoReturns, Service!Dropped, Service!Destroyed, Service!TypeOK, Ending, Before
  <2>4. Listing'
    BY <1>19 DEF Service!TodoReturns, Service!Dropped, Service!Destroyed, Service!TypeOK, Listing, Past, Ending, Service!Accepting
  <2>5. FreedIsTold'
    BY <1>19 DEF Service!TodoReturns, Service!Dropped, Service!Destroyed, Service!TypeOK, FreedIsTold, Ending, Memory, Service!Held, Service!Accepting, Service!Closing, Before
  <2> QED
    BY <2>1, <2>2, <2>3, <2>4, <2>5
<1>20. ASSUME NEW u \in Users, Service!NotifyAll(u) PROVE ServiceInv'
  <2>1. Service!TypeOK'
    BY <1>20 DEF Service!NotifyAll, Service!TypeOK
  <2>2. Memory'
    BY <1>20 DEF Service!NotifyAll, Service!TypeOK, Memory, Ending, Service!Held, Service!Accepting, Service!Closing
  <2>3. Ending'
    BY <1>20 DEF Service!NotifyAll, Service!TypeOK, Ending, Before
  <2>4. Listing'
    BY <1>20 DEF Service!NotifyAll, Service!TypeOK, Listing, Past, Ending, Service!Accepting
  <2>5. FreedIsTold'
    BY <1>20 DEF Service!NotifyAll, Service!TypeOK, FreedIsTold, Ending, Memory, Service!Held, Service!Accepting, Service!Closing, Before
  <2> QED
    BY <2>1, <2>2, <2>3, <2>4, <2>5
<1>21. ASSUME NEW u \in Users, Service!Close(u) PROVE ServiceInv'
  <2>1. Service!TypeOK'
    BY <1>21 DEF Service!Close, Service!Destroyed, Service!TypeOK
  <2>2. Memory'
    BY <1>21 DEF Service!Close, Service!Destroyed, Service!TypeOK, Memory, Ending, Service!Held, Service!Accepting, Service!Closing
  <2>3. Ending'
    BY <1>21 DEF Service!Close, Service!Destroyed, Service!TypeOK, Ending, Before
  <2>4. Listing'
    BY <1>21 DEF Service!Close, Service!Destroyed, Service!TypeOK, Listing, Past, Ending, Service!Accepting
  <2>5. FreedIsTold'
    BY <1>21 DEF Service!Close, Service!Destroyed, Service!TypeOK, FreedIsTold, Ending, Memory, Service!Held, Service!Accepting, Service!Closing, Before
  <2> QED
    BY <2>1, <2>2, <2>3, <2>4, <2>5
<1>22. ASSUME Service!ServerGoes PROVE ServiceInv'
  <2>1. Service!TypeOK'
    BY <1>22 DEF Service!ServerGoes, Service!TypeOK
  <2>2. Memory'
    BY <1>22 DEF Service!ServerGoes, Service!TypeOK, Memory, Ending, Service!Held, Service!Accepting, Service!Closing
  <2>3. Ending'
    BY <1>22 DEF Service!ServerGoes, Service!TypeOK, Ending, Before
  <2>4. Listing'
    BY <1>22 DEF Service!ServerGoes, Service!TypeOK, Listing, Past, Ending, Service!Accepting
  <2>5. FreedIsTold'
    BY <1>22 DEF Service!ServerGoes, Service!TypeOK, FreedIsTold, Ending, Memory, Service!Held, Service!Accepting, Service!Closing, Before
  <2> QED
    BY <2>1, <2>2, <2>3, <2>4, <2>5
<1> QED
  BY <1>1, <1>2, <1>3, <1>4, <1>5, <1>6, <1>7, <1>8, <1>9, <1>10, <1>11, <1>12, <1>13, <1>14, <1>15, <1>16, <1>17, <1>18, <1>19, <1>20, <1>21, <1>22
  DEF Service!Next, Service!InAccept, Service!InClosed, Service!InNotify

LEMMA ServiceInductive ==
  ASSUME None \notin Sessions
  PROVE  Service!Spec => []ServiceInv
BY ServiceInit, ServiceStep, PTL DEF Service!Spec

(* However accepts, closes and calls of users interleave, and whether or not
   the service goes, client_set_ leads to live sessions, but for those that
   were entered too late. *)
THEOREM SetIsLiveHolds ==
  ASSUME None \notin Sessions
  PROVE  Service!Spec => []SetIsLive
<1>1. ServiceInv => SetIsLive
  BY DEF ServiceInv, Service!TypeOK, Memory, Listing, FreedIsTold, SetIsLive, Service!SetIsLive
<1> QED
  BY <1>1, ServiceInductive, PTL

(* on_disconnected comes once, after the session is out of the table and of
   client_set_, and before its memory is freed. *)
THEOREM ToldBeforeFreedHolds ==
  ASSUME None \notin Sessions
  PROVE  Service!Spec => []ToldBeforeFreed
<1>1. ServiceInv => ToldBeforeFreed
  BY DEF ServiceInv, Service!TypeOK, Ending, Listing, FreedIsTold, ToldBeforeFreed, Service!ToldBeforeFreed
<1> QED
  BY <1>1, ServiceInductive, PTL
============================================================================
