----------------------------- MODULE TcpService -----------------------------
(***************************************************************************)
(* tcp_application_service and the tcp_application_client sessions it      *)
(* accepts (application_network_framework.hpp), on the table of swnet.cpp. *)
(*                                                                         *)
(* The network library is external: it accepts a link and calls            *)
(* on_accepted on one thread, and calls tcp_io with EVT_CLOSED once for    *)
(* every link that dies, on another.  A session has one link for life, so  *)
(* both are named by the link: an object has lnk_ or INVALID_HTCPLINK.     *)
(* The service's own link is an object like those of NetworkObject; here   *)
(* it only goes, some time, while nobody uses it.                          *)
(*                                                                         *)
(* shared_ptrs are held by the table, by the two callbacks and by users;   *)
(* client_set_ has weak_ptrs.  Each access to lnk_, to the table and to    *)
(* client_set_ (under client_locker_) is a step.                           *)
(***************************************************************************)
EXTENDS Integers, FiniteSets

CONSTANTS Sessions,     \* links accepted, and their objects
          Users,        \* threads that call notify_one, notify_all and search
          None

VARIABLES
  link,      \* per link: "none", "up", "dying" (EVT_CLOSED is due) or "closed"
  server,    \* the service: "up" or "gone"
  mem,       \* per object: "none", "live" or "freed"
  linked,    \* the objects with a valid lnk_
  attached,  \* the links in tcp_object_
  bound,     \* the objects whose tcp_application_server_ is set
  listed,    \* the links in client_set_
  accept,    \* per link: the place of on_accepted
  closing,   \* per link: the place of the EVT_CLOSED callback
  holds,     \* per user: the session it holds a shared_ptr to, or None
  copied,    \* per user: duplicated of notify_all, what is left of it
  told,      \* history, per link: calls of on_disconnected
  late       \* history: the links listed when their EVT_CLOSED had looked already

ownVars == <<mem, linked, attached, bound>>
userVars == <<holds, copied>>
historyVars == <<told, late>>
vars == <<link, server, ownVars, listed, accept, closing, userVars, historyVars>>

TypeOK ==
  /\ link \in [Sessions -> {"none", "up", "dying", "closed"}]
  /\ server \in {"up", "gone"}
  /\ mem \in [Sessions -> {"none", "live", "freed"}]
  /\ linked \subseteq Sessions /\ attached \subseteq Sessions
  /\ bound \subseteq Sessions /\ listed \subseteq Sessions
  /\ accept \in [Sessions ->
       {"none", "attach", "bind", "establish", "close", "insert", "return", "done"}]
  /\ closing \in [Sessions ->
       {"none", "exchange", "detach", "tell", "erase", "disconnected", "release", "done"}]
  /\ holds \in [Users -> Sessions \cup {None}]
  /\ copied \in [Users -> SUBSET Sessions]
  /\ told \in [Sessions -> 0..1]
  /\ late \subseteq Sessions

Init ==
  /\ link = [l \in Sessions |-> "none"]
  /\ server = "up"
  /\ mem = [l \in Sessions |-> "none"]
  /\ linked = {} /\ attached = {} /\ bound = {} /\ listed = {}
  /\ accept = [l \in Sessions |-> "none"]
  /\ closing = [l \in Sessions |-> "none"]
  /\ holds = [u \in Users |-> None]
  /\ copied = [u \in Users |-> {}]
  /\ told = [l \in Sessions |-> 0]
  /\ late = {}

AcceptAt(l, here, there) == accept[l] = here /\ accept' = [accept EXCEPT ![l] = there]
ClosingAt(l, here, there) == closing[l] = here /\ closing' = [closing EXCEPT ![l] = there]

Accepting(l) == accept[l] \notin {"none", "done"}   \* on_accepted has its sptr
Closing(l) == closing[l] \notin {"none", "done"}    \* tcp_refobj has its object
Held(l) == l \in attached \/ Accepting(l) \/ Closing(l) \/ \E u \in Users : holds[u] = l

\* tcp_destroy, by close(): of a link that is gone already it does nothing.
Destroyed(l) ==
  IF l \in linked /\ link[l] = "up" THEN [link EXCEPT ![l] = "dying"] ELSE link

\* A shared_ptr goes; the last one destroys the object, which closes its link.
Dropped(l) ==
  IF Held(l)' THEN UNCHANGED <<mem, link>>
  ELSE mem' = [mem EXCEPT ![l] = "freed"] /\ link' = Destroyed(l)

----------------------------------------------------------------------------
(* Plausible slips, used only to show that properties notice. *)

\* The entry of client_set_ stays.
SlipErase(l) ==
  /\ ClosingAt(l, "erase", "disconnected")
  /\ UNCHANGED <<link, server, ownVars, listed, accept, userVars, historyVars>>

\* Without a service the session is not told either.
SlipTell(l) ==
  /\ ClosingAt(l, "tell", IF server = "up" /\ l \in bound THEN "erase" ELSE "release")
  /\ UNCHANGED <<link, server, ownVars, listed, accept, userVars, historyVars>>

\* on_closed does not detach.
SlipDetach(l) ==
  /\ ClosingAt(l, "detach", "tell")
  /\ UNCHANGED <<link, server, ownVars, listed, accept, userVars, historyVars>>

----------------------------------------------------------------------------
(* tcp_application_service::on_accepted. *)

Accepted(l) ==
  /\ server = "up" /\ link[l] = "none"
  /\ AcceptAt(l, "none", "attach")
  /\ link' = [link EXCEPT ![l] = "up"]
  /\ mem' = [mem EXCEPT ![l] = "live"]
  /\ linked' = linked \cup {l}
  /\ UNCHANGED <<server, attached, bound, listed, closing, userVars, historyVars>>

Attach(l) ==
  /\ AcceptAt(l, "attach", "bind")
  /\ attached' = attached \cup {l}
  /\ UNCHANGED <<link, server, mem, linked, bound, listed, closing, userVars, historyVars>>

BindObject(l) ==
  /\ AcceptAt(l, "bind", "establish")
  /\ bound' = bound \cup {l}
  /\ UNCHANGED <<link, server, mem, linked, attached, listed, closing, userVars, historyVars>>

\* The application may decline the session, or throw.
OnEstablished(l) ==
  /\ \E next \in {"insert", "close"} : AcceptAt(l, "establish", next)
  /\ UNCHANGED <<link, server, ownVars, listed, closing, userVars, historyVars>>

Decline(l) ==
  /\ AcceptAt(l, "close", "return")
  /\ link' = Destroyed(l)
  /\ UNCHANGED <<server, ownVars, listed, closing, userVars, historyVars>>

Insert(l) ==
  /\ AcceptAt(l, "insert", "return")
  /\ listed' = listed \cup {l}
  /\ late' = IF closing[l] \in {"disconnected", "release", "done"} THEN late \cup {l} ELSE late
  /\ UNCHANGED <<link, server, ownVars, closing, userVars, told>>

AcceptReturns(l) ==
  /\ AcceptAt(l, "return", "done")
  /\ UNCHANGED <<server, linked, attached, bound, listed, closing, userVars, historyVars>>
  /\ Dropped(l)

----------------------------------------------------------------------------
(* EVT_CLOSED: obtcp::on_closed and tcp_application_client::on_closed. *)

PeerCloses(l) ==
  /\ link[l] = "up"
  /\ link' = [link EXCEPT ![l] = "dying"]
  /\ UNCHANGED <<server, ownVars, listed, accept, closing, userVars, historyVars>>

EvtClosed(l) ==
  /\ link[l] = "dying"
  /\ ClosingAt(l, "none", IF l \in attached THEN "exchange" ELSE "done")
  /\ link' = [link EXCEPT ![l] = "closed"]
  /\ UNCHANGED <<server, ownVars, listed, accept, userVars, historyVars>>

\* The event comes once, so lnk_ is still there to be exchanged.
Exchange(l) ==
  /\ l \in linked
  /\ ClosingAt(l, "exchange", "detach")
  /\ linked' = linked \ {l}
  /\ UNCHANGED <<link, server, mem, attached, bound, listed, accept, userVars, historyVars>>

Detach(l) ==
  /\ ClosingAt(l, "detach", "tell")
  /\ attached' = attached \ {l}
  /\ UNCHANGED <<link, server, mem, linked, bound, listed, accept, userVars, historyVars>>

\* on_closed(previous) locks its weak_ptr to the service.
Tell(l) ==
  /\ ClosingAt(l, "tell", IF server = "up" /\ l \in bound THEN "erase" ELSE "disconnected")
  /\ UNCHANGED <<link, server, ownVars, listed, accept, userVars, historyVars>>

\* on_client_closed.
Erase(l) ==
  /\ ClosingAt(l, "erase", "disconnected")
  /\ listed' = listed \ {l}
  /\ UNCHANGED <<link, server, ownVars, accept, userVars, historyVars>>

OnDisconnected(l) ==
  /\ ClosingAt(l, "disconnected", "release")
  /\ told' = [told EXCEPT ![l] = @ + 1]
  /\ UNCHANGED <<link, server, ownVars, listed, accept, userVars, late>>

ClosedReturns(l) ==
  /\ ClosingAt(l, "release", "done")
  /\ UNCHANGED <<server, linked, attached, bound, listed, accept, userVars, historyVars>>
  /\ Dropped(l)

\* The last shared_ptr to the service goes: no callback or user has one.
ServerGoes ==
  /\ server = "up"
  /\ \A l \in Sessions : ~Accepting(l) /\ closing[l] \notin {"erase", "disconnected"}
  /\ \A u \in Users : holds[u] = None /\ copied[u] = {}
  /\ server' = "gone"
  /\ listed' = {}
  /\ UNCHANGED <<link, ownVars, accept, closing, userVars, historyVars>>

----------------------------------------------------------------------------
(* Users: notify_one and search_client_by_link, notify_all, close. *)

\* An expired entry yields no client and is left where it is.
NotifyOne(u, l) ==
  /\ server = "up" /\ holds[u] = None /\ copied[u] = {}
  /\ l \in listed /\ mem[l] = "live"
  /\ holds' = [holds EXCEPT ![u] = l]
  /\ UNCHANGED <<link, server, ownVars, listed, accept, closing, copied, historyVars>>

\* Under the lock: erase what has expired, copy the rest.
NotifyAll(u) ==
  /\ server = "up" /\ holds[u] = None /\ copied[u] = {}
  /\ listed' = {l \in listed : mem[l] = "live"}
  /\ copied' = [copied EXCEPT ![u] = listed']
  /\ UNCHANGED <<link, server, ownVars, accept, closing, holds, historyVars>>

\* One that has gone in the meantime is skipped.
NotifyNext(u, l) ==
  /\ holds[u] = None /\ l \in copied[u]
  /\ copied' = [copied EXCEPT ![u] = @ \ {l}]
  /\ holds' = [holds EXCEPT ![u] = IF mem[l] = "live" THEN l ELSE None]
  /\ UNCHANGED <<link, server, ownVars, listed, accept, closing, historyVars>>

Close(u) ==
  /\ holds[u] # None
  /\ link' = Destroyed(holds[u])
  /\ UNCHANGED <<server, ownVars, listed, accept, closing, userVars, historyVars>>

TodoReturns(u, l) ==
  /\ holds[u] = l
  /\ holds' = [holds EXCEPT ![u] = None]
  /\ UNCHANGED <<server, linked, attached, bound, listed, accept, closing, copied, historyVars>>
  /\ Dropped(l)

----------------------------------------------------------------------------
InAccept(l) ==
  \/ Attach(l) \/ BindObject(l) \/ OnEstablished(l) \/ Decline(l)
  \/ Insert(l) \/ AcceptReturns(l)

InClosed(l) ==
  \/ EvtClosed(l) \/ Exchange(l) \/ Detach(l) \/ Tell(l) \/ Erase(l)
  \/ OnDisconnected(l) \/ ClosedReturns(l)

InNotify(u) == \E l \in Sessions : TodoReturns(u, l) \/ NotifyNext(u, l)

Next ==
  \/ \E l \in Sessions : Accepted(l) \/ PeerCloses(l) \/ InAccept(l) \/ InClosed(l)
  \/ \E u \in Users :
       \/ \E l \in Sessions : NotifyOne(u, l)
       \/ NotifyAll(u) \/ Close(u) \/ InNotify(u)
  \/ ServerGoes

Spec == Init /\ [][Next]_vars

(* Fairness: callbacks and calls that have begun go on, what the application
   does in them returns, and the library reports the end of a link. *)
FairSpec ==
  /\ Spec
  /\ \A l \in Sessions : WF_vars(InAccept(l)) /\ WF_vars(InClosed(l))
  /\ \A u \in Users : WF_vars(InNotify(u))

----------------------------------------------------------------------------
(* Properties. *)

(* The service forgets a session before it goes: what client_set_ leads to is
   an object, so search_client_by_link never finds a null pointer.  The one
   exception is a session that on_accepted entered when its EVT_CLOSED had
   looked for it already. *)
SetIsLive == \A l \in listed \ late : mem[l] = "live"

(* Every session hears of its end once, when nothing leads to it any more, and
   before it is destroyed, whether or not the service is still there. *)
ToldBeforeFreed ==
  \A l \in Sessions :
    /\ mem[l] = "freed" => told[l] = 1
    /\ told[l] = 1 => l \notin attached /\ l \notin listed \ late /\ link[l] = "closed"

(* A session that is in the table when its link is closed, by its peer, a user
   or a service that declined it, is destroyed; one that was listed late may be
   kept by users who find it again and again. *)
ClosedIsFreed ==
  \A l \in Sessions : link[l] = "dying" /\ l \in attached ~> mem[l] = "freed" \/ l \in late
=============================================================================
