------------------------------- MODULE MCExtdev -------------------------------
(***************************************************************************)
(* The configurations and faults Extdev is checked with.                   *)
(***************************************************************************)
EXTENDS Extdev

CONSTANTS eth0, eth1

MCDevOrder == <<eth0, eth1>>

Bridge(ifnames, empty, d) == [ifnames |-> ifnames, empty |-> empty, dep |-> d]

\* One member or two, so that a reload changes only the members; a bridge that may be
\* empty and depends on a device that comes later in the file; no bridge.
MCConfig ==
  {Bridge({eth0}, FALSE, "none"), Bridge({eth0, eth1}, FALSE, "none"),
   Bridge({eth1}, TRUE, "after"), None}

\* The handler hangs; it refuses a reload; a member cannot be set up and the bridge has
\* no kernel device.
MCFault == {{}, Method, {"reload"}, {"claim", "resolve"}}
=============================================================================
