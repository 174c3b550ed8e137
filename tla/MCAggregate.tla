----------------------------- MODULE MCAggregate -----------------------------
(***************************************************************************)
(* The configurations Aggregate is checked with: a bridge and a bonding    *)
(* device that compete for two devices.                                    *)
(***************************************************************************)
EXTENDS Aggregate, TLC

CONSTANTS br, bond, eth0, eth1

MCDevOrder == <<eth0, eth1>>
MCFileOrder == <<br, bond>>
MCKind == (br :> "bridge") @@ (bond :> "bonding")

Cfg(ports, empty, mac) == [ports |-> ports, empty |-> empty, mac |-> mac]

\* Devices that move from one to the other or are in both, a bridge that leaves the
\* file, one that may be empty, and one whose address is configured.
MCConfig ==
  {(br :> Cfg({eth0}, FALSE, FALSE)) @@ (bond :> Cfg({}, FALSE, FALSE)),
   (br :> Cfg({eth1}, TRUE, TRUE)) @@ (bond :> Cfg({eth0, eth1}, FALSE, FALSE)),
   (bond :> Cfg({eth0}, FALSE, FALSE))}

MCMayFail == {<<eth0, "up">>, <<br, "addbr">>, <<br, "up">>}
=============================================================================
