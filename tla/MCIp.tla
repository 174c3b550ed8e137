-------------------------------- MODULE MCIp --------------------------------
(***************************************************************************)
(* An address of each family, the IPv6 one off-link and with a lifetime,   *)
(* a default route, two routes to one network that change places when the  *)
(* metric of the interface goes beyond the one's own, a configured route   *)
(* to the same network, with and without a metric of its own, a neighbour, *)
(* and a host all of the routes lead to.                                   *)
(***************************************************************************)
EXTENDS Ip

Addr(id, v6, off, left) == [id |-> id, v6 |-> v6, off |-> off, left |-> left, ptp |-> 0]

Route(dst, met, gw, left) == [left |-> left, dst |-> dst, met |-> met, gw |-> gw, tab |-> None]

A4 == Addr("a4", FALSE, FALSE, None)
A6 == Addr("a6", TRUE, TRUE, 1)

\* Two leases.  In the second the first one's address has moved, the default route has
\* made way for two others, and the neighbour has another hardware address.
MCAnnouncements ==
  {[addr |-> <<A4>>, route |-> {Route("default", None, "g1", None)}, neigh |-> {[id |-> "n", mac |-> 1]}],
   [addr |-> <<A6, A4>>, route |-> {Route("net", None, "g1", 1), Route("net", 5, "g2", None)},
    neigh |-> {[id |-> "n", mac |-> 2]}]}

MCConfigs ==
  {[set |-> [metric |-> 0, table |-> 0, nodef |-> FALSE], routes |-> {Route("net", None, "g3", None)}],
   [set |-> [metric |-> 7, table |-> 100, nodef |-> TRUE], routes |-> {Route("net", 5, "g3", None)}]}

MCRefused == {<<"addr", "a4">>, <<"route", "net">>, <<"neigh", "n">>, <<"claim", "l3">>}

MCTargets == {"h"}

MCOnlink == {<<"a6", "h">>}

MCCovers == {<<"default", "h">>, <<"net", "h">>}

MCMask == [x \in {"default", "net", "h"} |-> CASE x = "default" -> 0 [] x = "net" -> 24 [] x = "h" -> 32]
=============================================================================
