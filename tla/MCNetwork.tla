----------------------------- MODULE MCNetwork -----------------------------
(* Small instances of the network modules for TLC: the objects an application
   creates, and the sessions a service accepts.  A behaviour uses one of them,
   chosen in the initial state, and leaves the other alone. *)
EXTENDS NetworkObject

CONSTANT Sessions

VARIABLES peer, server, life, linked, attached, bound, listed,
          accept, closing, holds, copied, told, late,
          used

Service == INSTANCE TcpService WITH link <- peer, mem <- life

serviceVars == <<peer, server, life, linked, attached, bound, listed,
                 accept, closing, holds, copied, told, late>>
allVars == <<vars, serviceVars, used>>

MCInit == Init /\ Service!Init /\ used \in {"objects", "service"}

MCNext ==
  \/ used = "objects" /\ Next /\ UNCHANGED <<serviceVars, used>>
  \/ used = "service" /\ Service!Next /\ UNCHANGED <<vars, used>>

(* The fairness of each module's FairSpec; in the one that is not used none of
   these actions is enabled. *)
MCSpec ==
  /\ MCInit /\ [][MCNext]_allVars
  /\ \A u \in Users : WF_vars(InCall(u)) /\ WF_serviceVars(Service!InNotify(u))
  /\ \A l \in Links : WF_vars(ReceiveReturns(l)) /\ WF_vars(InCallback(l))
  /\ \A l \in Sessions : WF_serviceVars(Service!InAccept(l)) /\ WF_serviceVars(Service!InClosed(l))

(* What client_set_ leads to is an object (module TcpService). *)
SetIsLive == Service!SetIsLive

(* Every session hears of its end once (module TcpService). *)
ToldBeforeFreed == Service!ToldBeforeFreed

(* A link that closes gives up its object, and a session whose link closes is
   destroyed (modules NetworkObject and TcpService). *)
ClosedIsFreed == ClosedIsReleased /\ Service!ClosedIsFreed
=============================================================================
