--------------------------- MODULE ProtoContract ---------------------------
(***************************************************************************)
(* What the interface core expects of a protocol handler, whatever its     *)
(* implementation: the order in which an interface moves through its       *)
(* states, and that a handler that reported IFPEV_DOWN has left no child   *)
(* behind that still works for the interface.  ProtoShell and Dhcp         *)
(* implement it.                                                           *)
(***************************************************************************)
VARIABLES
  state,    \* iface->state
  child,    \* a process of the handler that was not asked to stop is running
  faulty    \* something failed that the contract does not cover

vars == <<state, child, faulty>>

Active == {"IFS_SETUP", "IFS_UP"}

Init == state = "IFS_DOWN" /\ child = FALSE /\ faulty = FALSE

\* PROTO_CMD_SETUP starts the handler: it is never up at once.
Setup == state = "IFS_DOWN" /\ state' = "IFS_SETUP"

\* IFPEV_UP, IFPEV_LINK_LOST and whatever the handler does with its children.
Work == state \in Active /\ state' \in Active

\* PROTO_CMD_TEARDOWN.
Teardown == state \in Active /\ state' = "IFS_TEARDOWN"

\* IFPEV_DOWN, after a teardown or because the handler gave up.  The interface may
\* be set up again in the same step.
Down == state # "IFS_DOWN" /\ state' = "IFS_DOWN" /\ child' = FALSE
Restart == state = "IFS_TEARDOWN" /\ state' = "IFS_SETUP"

\* The handler waits for its children while the interface stays where it is.
Wait == state' = state /\ (state = "IFS_DOWN" => child' = FALSE)

Step ==
  /\ Setup \/ Work \/ Teardown \/ Down \/ Restart \/ Wait
  /\ child' \in BOOLEAN /\ faulty' = faulty

\* After a fault only the order of the states is promised.
Fault ==
  /\ faulty \/ faulty'
  /\ <<state, state'>> \notin {<<"IFS_DOWN", "IFS_UP">>, <<"IFS_DOWN", "IFS_TEARDOWN">>,
                               <<"IFS_TEARDOWN", "IFS_UP">>}
  /\ child' \in BOOLEAN /\ faulty' \in BOOLEAN

Next == Step \/ Fault

Spec == Init /\ [][Next]_vars
=============================================================================
