------------------------------- MODULE Guards -------------------------------
(***************************************************************************)
(* The order gateway of recipe 30, the order desk of recipe 31 or the      *)
(* ingress worker of recipe 32, at work.                                   *)
(***************************************************************************)
EXTENDS OrdersGateway

CONSTANTS Desk

VARIABLE recipe

vars == <<guardVars, orderVars, recipe>>

OrderDesk == INSTANCE OrderDesk
Worker    == INSTANCE IngressWorker

ASSUME GuardsAssumption == OrderDesk!DeskAssumption /\ Worker!WorkerAssumption

Init ==
  /\ GuardInit /\ OrdersInit
  /\ recipe \in {"30", "31", "32"}

Next ==
  \/ recipe = "30" /\ OrdersNext /\ UNCHANGED recipe
  \/ recipe = "31" /\ OrderDesk!DeskNext /\ UNCHANGED <<orderVars, recipe>>
  \/ recipe = "32" /\ Worker!WorkerNext /\ UNCHANGED <<orderVars, recipe>>

Spec == Init /\ [][Next]_vars

(* The order desk's second service runs the tool only for an order that the *)
(* first service, whose own caller it verified, placed.                    *)
OrdersComeFromPeers == OrderDesk!OrdersComeFromPeers

=============================================================================
