------------------------------- MODULE MCDhcp -------------------------------
(***************************************************************************)
(* Model-checking instances of Dhcp.                                       *)
(***************************************************************************)
EXTENDS Dhcp

\* The zcip handler is modelled by the same formulas as the udhcp handler.
MCKinds == {"udhcp", "isc"}
MCProc == 1..3
=============================================================================
