---------------------------- MODULE MCProtoShell ----------------------------
(***************************************************************************)
(* Model-checking instances of ProtoShell: handlers with the flags of the  *)
(* shipped kinds of scripts.                                               *)
(***************************************************************************)
EXTENDS ProtoShell

None == [no_task |-> FALSE, renew |-> FALSE, nodev |-> FALSE,
         l3_teardown |-> FALSE, checkup |-> FALSE]

\* A dialer that keeps a task (ppp, 3g), and a tunnel (6in4) without a task and
\* without a device of its own.
dialer == [None EXCEPT !.renew = TRUE, !.checkup = TRUE, !.l3_teardown = TRUE]
tunnel == [None EXCEPT !.no_task = TRUE, !.nodev = TRUE]

Kinds == {dialer, tunnel}
=============================================================================
