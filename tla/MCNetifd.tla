------------------------------ MODULE MCNetifd ------------------------------
(***************************************************************************)
(* Model-checking instances of Netifd.                                     *)
(***************************************************************************)
EXTENDS Netifd

CONSTANTS eth0, eth1, lan, wan, vpn

Base == [device |-> eth0, parent |-> None, proto |-> "async", force_link |-> FALSE,
         auto |-> TRUE, dynamic |-> FALSE]
Static == [Base EXCEPT !.proto = "static", !.force_link = TRUE]

\* Two interfaces that share a device; either may be taken out of autostart, and
\* lan may change its protocol.
Shared == <<lan, wan>>
SharedConfig ==
  [i \in {lan, wan} |->
     IF i = lan THEN {Static, Base} ELSE {Base, [Base EXCEPT !.auto = FALSE]}]

\* lan is an alias of wan; vpn is added at run time.
Alias == <<lan, vpn, wan>>
AliasFile == <<wan, lan, vpn>>
AliasConfig ==
  [i \in {lan, wan, vpn} |->
     CASE i = lan -> {[Static EXCEPT !.device = None, !.parent = wan]}
       [] i = wan -> {Base}
       [] i = vpn -> {[Base EXCEPT !.dynamic = TRUE]}]
=============================================================================
