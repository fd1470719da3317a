--------------------------- MODULE NetworkObject ---------------------------
(***************************************************************************)
(* The objects an application creates itself: obtcp (and obudp, which does *)
(* the same with other names) of network_handler.cpp and the table of      *)
(* swnet.cpp that leads from a link to its object.                         *)
(*                                                                         *)
(* An object is owned by shared_ptrs: those of the users' threads, the one *)
(* in the table and those of running callbacks.  When the last one goes    *)
(* the destructor runs, in the same step.  lnk_ is an atomic that several  *)
(* threads read and write, so each access to it is a step.                 *)
(*                                                                         *)
(* The network library behind icom/nis.h is external.  It issues links,    *)
(* never the same twice; once a link is destroyed, or its peer closes it,  *)
(* it calls tcp_io with EVT_CLOSED, once, from a thread of its own, and    *)
(* with EVT_RECEIVEDATA whenever the link is connected.                    *)
(***************************************************************************)
EXTENDS Integers, FiniteSets

CONSTANTS Users,       \* threads of the application
          Objects,     \* memory for objects; a destroyed one is made again
          MaxLinks,    \* bound on the links issued in a behaviour
          OneCreate,   \* users do not create one object at the same time
          None

ASSUME SetsAssumption == IsFiniteSet(Users) /\ None \notin Objects
ASSUME MaxLinksAssumption == MaxLinks \in Nat
ASSUME OneCreateAssumption == OneCreate \in BOOLEAN

Links == 1..MaxLinks
INVALID_HTCPLINK == -1

VARIABLES
  issued,     \* the last link the library issued
  link,       \* per link: "none", "open", "connected", "dying" (EVT_CLOSED is due) or "closed"
  table,      \* tcp_object_: the object of a link, or None
  mem,        \* per object: "free" or "live"
  lnk,        \* per object: lnk_
  pc,         \* per user: its place in a call
  obj,        \* per user: the object it holds a shared_ptr to, or None
  fresh,      \* per user: the link it has created and not attached yet
  cpc,        \* per link: the place of the EVT_CLOSED callback
  cobj, prev, \* per link: the object that callback holds, and previous
  robj,       \* per link: the object a receive callback holds, or None
  closedCalls \* history, per link: calls of on_closed(previous) with it

netVars == <<issued, link>>
objectVars == <<table, mem, lnk>>
userVars == <<pc, obj, fresh>>
callbackVars == <<cpc, cobj, prev, robj, closedCalls>>
vars == <<netVars, objectVars, userVars, callbackVars>>

TypeOK ==
  /\ issued \in 0..MaxLinks
  /\ link \in [Links -> {"none", "open", "connected", "dying", "closed"}]
  /\ table \in [Links -> Objects \cup {None}]
  /\ mem \in [Objects -> {"free", "live"}]
  /\ lnk \in [Objects -> Links \cup {INVALID_HTCPLINK}]
  /\ pc \in [Users -> {"idle", "create", "setlnk", "attach", "destroy"}]
  /\ obj \in [Users -> Objects \cup {None}]
  /\ fresh \in [Users -> Links \cup {INVALID_HTCPLINK}]
  /\ cpc \in [Links -> {"none", "exchange", "detach", "notify", "release", "done"}]
  /\ cobj \in [Links -> Objects \cup {None}]
  /\ prev \in [Links -> Links \cup {INVALID_HTCPLINK}]
  /\ robj \in [Links -> Objects \cup {None}]
  /\ closedCalls \in [Links -> Nat]

Init ==
  /\ issued = 0
  /\ link = [l \in Links |-> "none"]
  /\ table = [l \in Links |-> None]
  /\ mem = [o \in Objects |-> "free"]
  /\ lnk = [o \in Objects |-> INVALID_HTCPLINK]
  /\ pc = [u \in Users |-> "idle"]
  /\ obj = [u \in Users |-> None]
  /\ fresh = [u \in Users |-> INVALID_HTCPLINK]
  /\ cpc = [l \in Links |-> "none"]
  /\ cobj = [l \in Links |-> None]
  /\ prev = [l \in Links |-> INVALID_HTCPLINK]
  /\ robj = [l \in Links |-> None]
  /\ closedCalls = [l \in Links |-> 0]

UserAt(u, here, there) == pc[u] = here /\ pc' = [pc EXCEPT ![u] = there]
CallbackAt(l, here, there) == cpc[l] = here /\ cpc' = [cpc EXCEPT ![l] = there]

\* A user starts a call on its object.
Calls(u) == obj[u] # None /\ pc[u] = "idle"

Creating(o) == \E u \in Users : obj[u] = o /\ pc[u] \in {"create", "setlnk", "attach"}

\* tcp_destroy: an issued link dies; any other handle is ignored.
Destroyed(l) ==
  IF l \in Links /\ link[l] \in {"open", "connected"} THEN [link EXCEPT ![l] = "dying"] ELSE link

----------------------------------------------------------------------------
(* shared_ptrs. *)

References(o) ==
  Cardinality({u \in Users : obj[u] = o}) + Cardinality({l \in Links : table[l] = o})
  + Cardinality({l \in Links : cobj[l] = o}) + Cardinality({l \in Links : robj[l] = o})

\* ~obtcp, when the reference that goes is the last one: it closes the link.
Unreference(o) ==
  IF References(o) = 1
  THEN mem' = [mem EXCEPT ![o] = "free"] /\ link' = Destroyed(lnk[o])
  ELSE UNCHANGED <<mem, link>>

----------------------------------------------------------------------------
(* Plausible slips, used only to show that properties notice. *)

\* on_closed does not detach.
SlipDetach(l) ==
  /\ CallbackAt(l, "detach", "notify")
  /\ UNCHANGED <<netVars, objectVars, userVars, cobj, prev, robj, closedCalls>>

\* create does not test for a link that is there already.
SlipCreateTest(u) ==
  /\ Calls(u)
  /\ OneCreate => ~Creating(obj[u])
  /\ UserAt(u, "idle", "create")
  /\ UNCHANGED <<netVars, objectVars, obj, fresh, callbackVars>>

\* on_closed(previous) is called by the callback and by on_closed() too.
SlipNotify(l) ==
  /\ CallbackAt(l, "notify", "release")
  /\ closedCalls' = [closedCalls EXCEPT ![prev[l]] = @ + 2]
  /\ UNCHANGED <<netVars, objectVars, userVars, cobj, prev, robj>>

----------------------------------------------------------------------------
(* Users. *)

\* std::make_shared.
Make(u, o) ==
  /\ obj[u] = None /\ mem[o] = "free"
  /\ mem' = [mem EXCEPT ![o] = "live"]
  /\ lnk' = [lnk EXCEPT ![o] = INVALID_HTCPLINK]
  /\ obj' = [obj EXCEPT ![u] = o]
  /\ UNCHANGED <<netVars, table, pc, fresh, callbackVars>>

\* One thread gives another a copy of its shared_ptr.
Share(u, v) ==
  /\ obj[u] = None /\ obj[v] # None
  /\ obj' = [obj EXCEPT ![u] = obj[v]]
  /\ UNCHANGED <<netVars, objectVars, pc, fresh, callbackVars>>

Drop(u) ==
  /\ obj[u] # None /\ pc[u] = "idle"
  /\ obj' = [obj EXCEPT ![u] = None]
  /\ Unreference(obj[u])
  /\ UNCHANGED <<issued, table, lnk, pc, fresh, callbackVars>>

\* obtcp::create: an object that has a link refuses, and changes nothing.
CreateTest(u) ==
  /\ Calls(u)
  /\ OneCreate => ~Creating(obj[u])
  /\ lnk[obj[u]] = INVALID_HTCPLINK
  /\ UserAt(u, "idle", "create")
  /\ UNCHANGED <<netVars, objectVars, obj, fresh, callbackVars>>

\* swnet::tcp_create: ::tcp_create, setlnk, tcp_attach.
CreateLink(u) ==
  /\ issued < MaxLinks
  /\ UserAt(u, "create", "setlnk")
  /\ issued' = issued + 1
  /\ link' = [link EXCEPT ![issued + 1] = "open"]
  /\ fresh' = [fresh EXCEPT ![u] = issued + 1]
  /\ UNCHANGED <<objectVars, obj, callbackVars>>

CreateFails(u) ==
  /\ UserAt(u, "create", "idle")
  /\ UNCHANGED <<netVars, objectVars, obj, fresh, callbackVars>>

SetLnk(u) ==
  /\ UserAt(u, "setlnk", "attach")
  /\ lnk' = [lnk EXCEPT ![obj[u]] = fresh[u]]
  /\ UNCHANGED <<netVars, table, mem, obj, fresh, callbackVars>>

\* The insertion never finds the key: links are not issued twice.
Attach(u) ==
  /\ UserAt(u, "attach", "idle")
  /\ table' = [table EXCEPT ![fresh[u]] = obj[u]]
  /\ fresh' = [fresh EXCEPT ![u] = INVALID_HTCPLINK]
  /\ UNCHANGED <<netVars, mem, lnk, obj, callbackVars>>

\* connect and connect2; when the library refuses nothing changes.
Connect(u) ==
  /\ Calls(u)
  /\ lnk[obj[u]] # INVALID_HTCPLINK
  /\ link[lnk[obj[u]]] = "open"
  /\ link' = [link EXCEPT ![lnk[obj[u]]] = "connected"]
  /\ UNCHANGED <<issued, objectVars, userVars, callbackVars>>

\* close reads lnk_ twice.
CloseTest(u) ==
  /\ Calls(u)
  /\ lnk[obj[u]] # INVALID_HTCPLINK
  /\ UserAt(u, "idle", "destroy")
  /\ UNCHANGED <<netVars, objectVars, obj, fresh, callbackVars>>

Destroy(u) ==
  /\ UserAt(u, "destroy", "idle")
  /\ link' = Destroyed(lnk[obj[u]])
  /\ UNCHANGED <<issued, objectVars, obj, fresh, callbackVars>>

----------------------------------------------------------------------------
(* The library, and swnet::tcp_io on its threads. *)

PeerCloses(l) ==
  /\ link[l] = "connected"
  /\ link' = [link EXCEPT ![l] = "dying"]
  /\ UNCHANGED <<issued, objectVars, userVars, callbackVars>>

\* EVT_RECEIVEDATA: an event for a link without an object is dropped.
ReceiveData(l) ==
  /\ link[l] = "connected" /\ robj[l] = None /\ table[l] # None
  /\ robj' = [robj EXCEPT ![l] = table[l]]
  /\ UNCHANGED <<netVars, objectVars, userVars, cpc, cobj, prev, closedCalls>>

ReceiveReturns(l) ==
  /\ robj[l] # None
  /\ robj' = [robj EXCEPT ![l] = None]
  /\ Unreference(robj[l])
  /\ UNCHANGED <<issued, table, lnk, userVars, cpc, cobj, prev, closedCalls>>

\* EVT_CLOSED: tcp_refobj, whose search copies the shared_ptr.
EvtClosed(l) ==
  /\ link[l] = "dying" /\ cpc[l] = "none"
  /\ link' = [link EXCEPT ![l] = "closed"]
  /\ cpc' = [cpc EXCEPT ![l] = IF table[l] = None THEN "done" ELSE "exchange"]
  /\ cobj' = [cobj EXCEPT ![l] = table[l]]
  /\ UNCHANGED <<issued, objectVars, userVars, prev, robj, closedCalls>>

\* obtcp::on_closed(): the first to exchange lnk_ goes on.
Exchange(l) ==
  /\ CallbackAt(l, "exchange", IF lnk[cobj[l]] = INVALID_HTCPLINK THEN "release" ELSE "detach")
  /\ prev' = [prev EXCEPT ![l] = lnk[cobj[l]]]
  /\ lnk' = [lnk EXCEPT ![cobj[l]] = INVALID_HTCPLINK]
  /\ UNCHANGED <<netVars, table, mem, userVars, cobj, robj, closedCalls>>

\* The callback's own shared_ptr keeps the object when the table's goes.
Detach(l) ==
  /\ CallbackAt(l, "detach", "notify")
  /\ table' = [table EXCEPT ![prev[l]] = None]
  /\ UNCHANGED <<netVars, mem, lnk, userVars, cobj, prev, robj, closedCalls>>

OnClosed(l) ==
  /\ CallbackAt(l, "notify", "release")
  /\ closedCalls' = [closedCalls EXCEPT ![prev[l]] = @ + 1]
  /\ UNCHANGED <<netVars, objectVars, userVars, cobj, prev, robj>>

ClosedReturns(l) ==
  /\ CallbackAt(l, "release", "done")
  /\ cobj' = [cobj EXCEPT ![l] = None]
  /\ Unreference(cobj[l])
  /\ UNCHANGED <<issued, table, lnk, userVars, prev, robj, closedCalls>>

----------------------------------------------------------------------------
InCall(u) ==
  CreateLink(u) \/ CreateFails(u) \/ SetLnk(u) \/ Attach(u) \/ Destroy(u)

UserStep(u) ==
  \/ \E o \in Objects : Make(u, o)
  \/ \E v \in Users : Share(u, v)
  \/ Drop(u) \/ CreateTest(u) \/ Connect(u) \/ CloseTest(u)
  \/ InCall(u)

InCallback(l) ==
  EvtClosed(l) \/ Exchange(l) \/ Detach(l) \/ OnClosed(l) \/ ClosedReturns(l)

Next ==
  \/ \E u \in Users : UserStep(u)
  \/ \E l \in Links : PeerCloses(l) \/ ReceiveData(l) \/ ReceiveReturns(l) \/ InCallback(l)

Spec == Init /\ [][Next]_vars

(* Fairness: calls and callbacks that have begun go on, and the library
   reports the end of a link. *)
FairSpec ==
  /\ Spec
  /\ \A u \in Users : WF_vars(InCall(u))
  /\ \A l \in Links : WF_vars(ReceiveReturns(l)) /\ WF_vars(InCallback(l))

----------------------------------------------------------------------------
(* Properties. *)

(* The table and lnk_ agree: an object is found under its own link, or under
   the one its close is just about to take out; and no two links share one. *)
TableAgrees ==
  \A l \in Links : table[l] # None =>
    /\ mem[table[l]] = "live"
    /\ \/ lnk[table[l]] = l
       \/ cpc[l] = "detach" /\ prev[l] = l
    /\ \A m \in Links \ {l} : table[m] = table[l] => cpc[l] = "detach" \/ cpc[m] = "detach"

(* A link that is up and past its creation belongs to an object that can
   close it: no link is lost. *)
NoLostLink ==
  \A l \in Links :
    link[l] \in {"open", "connected"} /\ (\A u \in Users : fresh[u] # l) =>
      \E o \in Objects : mem[o] = "live" /\ lnk[o] = l /\ table[l] = o

(* on_closed(previous) is called once for a link, after it is out of the table
   and before the object goes. *)
ClosedOnce ==
  \A l \in Links :
    /\ closedCalls[l] <= 1
    /\ closedCalls[l] = 1 => table[l] = None /\ link[l] = "closed"
    /\ cpc[l] = "release" => closedCalls[l] = 1

(* The framework keeps its reference unless the link closes: when a link that
   is in the table was destroyed, or closed by its peer, the table lets go of
   its object.  (One that dies between SetLnk and Attach is entered when its
   EVT_CLOSED may have been dropped already, and then stays.) *)
ClosedIsReleased ==
  \A l \in Links : (link[l] = "dying" /\ table[l] # None) ~> (table[l] = None)
=============================================================================
