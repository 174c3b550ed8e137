----------------------------- MODULE MCWireless -----------------------------
(***************************************************************************)
(* Model-checking instances of Wireless.                                   *)
(***************************************************************************)
EXTENDS Wireless

CONSTANTS r1, r2, c1, c2, ap, hostapd, wpas

Base == [disabled |-> FALSE, conf |-> c1, vif |-> None]

\* Two radios that share the queue; the first one may be disabled or removed.
Pair == <<r1, r2>>
PairConfig ==
  {[r \in {r1, r2} |-> IF r = r1 THEN o ELSE Base] :
     o \in {Base, [Base EXCEPT !.disabled = TRUE], None}}

\* One radio with a virtual interface, processes and a driver that is reconfigured.
Single == <<r1>>
SingleConfig ==
  {[r \in {r1} |-> o] : o \in {[Base EXCEPT !.vif = ap], [Base EXCEPT !.conf = c2], None}}
=============================================================================
