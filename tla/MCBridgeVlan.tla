----------------------------- MODULE MCBridgeVlan -----------------------------
(***************************************************************************)
(* The configurations BridgeVlan is checked with: two devices, vlan 1,     *)
(* which is the kernel's default, and vlan 2.                              *)
(***************************************************************************)
EXTENDS BridgeVlan

CONSTANTS eth0, eth1

MCDevOrder == <<eth0, eth1>>

U == {"untagged"}
P == {"untagged", "pvid"}
T == {}

Vlan(ports, local) == [ports |-> ports, local |-> local]

\* No vlans; a port that only its vlan names; a port in two vlans, with its pvid in the
\* second, and vlan 1 not local any more; and one vlan left of them.
MCConfig ==
  {[ports |-> {eth0, eth1}, vlans |-> NoVids],
   [ports |-> {eth0}, vlans |-> (1 :> Vlan(eth0 :> U, TRUE)) @@ (2 :> Vlan(eth1 :> U, TRUE))],
   [ports |-> {eth0}, vlans |-> (1 :> Vlan(eth0 :> U, FALSE)) @@ (2 :> Vlan(eth0 :> P, FALSE))],
   [ports |-> {eth0, eth1}, vlans |-> (2 :> Vlan((eth0 :> U) @@ (eth1 :> T), TRUE))]}

MCRequest == {2 :> T, (1 :> U) @@ (2 :> P)}
=============================================================================
