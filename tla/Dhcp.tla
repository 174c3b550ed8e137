-------------------------------- MODULE Dhcp --------------------------------
(***************************************************************************)
(* The built-in handlers that run a client: proto-udhcp.c, proto-zcip.c    *)
(* and proto-isc-dhcp.c, with the interface they serve (interface.c), the  *)
(* process layer (netifd_start_process() in main.c) and their environment: *)
(* the client, and the helper script it calls for every event, which hands *)
(* the event to the daemon over ubus (udhcp-script.c, zcip-script.c,       *)
(* isc-dhcp-script.c).  The client waits for its script; the script is a   *)
(* process of its own and survives a client that is killed, so its message *)
(* may reach the daemon when the handler has long moved on.                *)
(*                                                                         *)
(* The three handlers differ in what they do with a command and an event;  *)
(* kind selects one.  The udhcp and udhcp6 variants differ only in the     *)
(* attributes of a lease.  proto->state (IDLE, SETTING_UP, DONE) is never  *)
(* read and left out, as is RENEW, which asks the client for an event it   *)
(* may send at any time.                                                   *)
(***************************************************************************)
EXTENDS Naturals, FiniteSets

CONSTANTS
  Kinds,       \* subset of {"udhcp", "zcip", "isc"}
  Proc,        \* client processes the model can tell apart
  Lease,       \* leases a client can obtain
  MaxFaults,   \* bound: clients that crash, forks that fail, messages lost
  MaxOrphans,  \* bound: no reload is asked for while so many freed clients are left
  None

\* What the script of a client has to say.
Event == [reason : {"configure", "deconfigure"}, lease : Lease \cup {None}]

ASSUME DhcpAssumption ==
  /\ Kinds \subseteq {"udhcp", "zcip", "isc"} /\ Kinds # {}
  /\ None \notin Proc \cup Lease \cup Event /\ MaxFaults \in Nat /\ MaxOrphans \in Nat

IfState == {"IFS_DOWN", "IFS_SETUP", "IFS_UP", "IFS_TEARDOWN"}

\* A process: not there, working, asked to stop, stopping after it deconfigured, or
\* ended with the exit status not yet collected.
ProcState == {"none", "run", "term", "stop", "zombie"}

VARIABLES
  kind,
  iface,      \* struct interface: state, autostart, usable, reload, lease (proto_ip)
  teardown,   \* struct dhcp_proto_state
  client,     \* the process registered with uloop (client.uloop.pending), or None
  proc,       \* the processes: st, the lease they hold, the message of their script
  orphan,     \* processes registered with uloop by a state that was freed since
  mishap,     \* what went wrong and still shows
  faults,     \* faults so far
  crashed     \* the daemon ran into freed memory

vars == <<kind, iface, teardown, client, proc, orphan, mishap, faults, crashed>>

Mishap == {"fork", "unanswered", "lost", "stray"}

TypeOK ==
  /\ kind \in Kinds
  /\ iface \in [state : IfState, autostart : BOOLEAN, usable : BOOLEAN, reload : BOOLEAN,
                lease : Lease \cup {None}]
  /\ teardown \in BOOLEAN /\ client \in Proc \cup {None}
  /\ proc \in [Proc -> [st : ProcState, lease : Lease \cup {None}, msg : Event \cup {None}]]
  /\ orphan \in SUBSET Proc
  /\ mishap \in SUBSET Mishap
  /\ faults \in 0..MaxFaults /\ crashed \in BOOLEAN
  /\ client # None => proc[client].st # "none" /\ client \notin orphan
  /\ \A p \in orphan : proc[p].st # "none"

NoProc == [st |-> "none", lease |-> None, msg |-> None]

Init ==
  /\ kind \in Kinds
  /\ iface = [state |-> "IFS_DOWN", autostart |-> FALSE, usable |-> FALSE, reload |-> FALSE,
              lease |-> None]
  /\ teardown = FALSE /\ client = None
  /\ proc = [p \in Proc |-> NoProc]
  /\ orphan = {} /\ mishap = {} /\ faults = 0 /\ crashed = FALSE
-----------------------------------------------------------------------------
(***************************************************************************)
(* The daemon's state as a record: an event of the loop runs through       *)
(* several functions of the handler and of the interface.                  *)
(***************************************************************************)
Now == [if |-> iface, teardown |-> teardown, client |-> client, proc |-> proc,
        orphan |-> orphan, mishap |-> mishap, faults |-> faults]

Becomes(S) ==
  /\ iface' = S.if /\ teardown' = S.teardown /\ client' = S.client /\ proc' = S.proc
  /\ orphan' = S.orphan /\ mishap' = S.mishap /\ faults' = S.faults

\* A client that is gone; a script it waited for is not.
Gone(r) == [NoProc EXCEPT !.msg = r.msg]

\* netifd_kill_process().
netifd_kill_process(S) ==
  IF S.client = None THEN S
  ELSE [S EXCEPT !.proc[S.client] = Gone(@), !.client = None]

\* A process slot nobody uses (they are interchangeable).
Free(S) == {p \in Proc : S.proc[p] = NoProc}

\* A process that is still registered is killed first; then the fork succeeds, or
\* fails, which no caller notices.
netifd_start_process(S, ok) ==
  LET K == netifd_kill_process(S)
  IN  IF ok /\ Free(K) # {}
      THEN LET p == CHOOSE q \in Free(K) : TRUE
           IN  [K EXCEPT !.client = p, !.proc[p].st = "run", !.mishap = @ \ {"fork"}]
      ELSE [K EXCEPT !.mishap = @ \cup {"fork"}, !.faults = @ + 1]

\* udhcp_proto_setup(), zcip_proto_setup(), isc_dhcp_proto_setup().
proto_setup(S, ok) == netifd_start_process([S EXCEPT !.teardown = FALSE], ok)

(***************************************************************************)
(* PROTO_CMD_TEARDOWN: SIGTERM to the client, whose deconfiguration is the *)
(* answer.  The isc handler does nothing at all.  Without a client, or     *)
(* with one that has ended already, nobody will answer.                    *)
(***************************************************************************)
proto_teardown(S) ==
  IF kind = "isc" THEN S
  ELSE IF S.client = None THEN [S EXCEPT !.mishap = @ \cup {"unanswered"}]
  ELSE IF S.proc[S.client].st = "zombie"
       THEN [S EXCEPT !.teardown = TRUE, !.mishap = @ \cup {"unanswered"}]
  ELSE [S EXCEPT !.teardown = TRUE, !.proc[S.client].st = "term"]
-----------------------------------------------------------------------------
(***************************************************************************)
(* The interface.                                                          *)
(***************************************************************************)

\* __interface_set_down().
interface_do_set_down(S) ==
  IF S.if.state \in {"IFS_SETUP", "IFS_UP"}
  THEN proto_teardown([S EXCEPT !.if.state = "IFS_TEARDOWN"])
  ELSE S

\* interface_check_state() and __interface_set_up() of an interface that is down.
interface_set_up(S, ok) ==
  IF S.if.state = "IFS_DOWN" /\ S.if.usable
  THEN proto_setup([S EXCEPT !.if.state = "IFS_SETUP"], ok)
  ELSE S

\* The addresses are flushed with the interface.
mark_interface_down(S) ==
  [S EXCEPT !.if.state = "IFS_DOWN", !.if.lease = None, !.mishap = @ \ {"unanswered"}]

(***************************************************************************)
(* interface_do_reload() frees the handler's state and attaches a new one. *)
(* A client that is still ending stays registered with uloop, its          *)
(* callback in freed memory.                                               *)
(***************************************************************************)
interface_do_reload(S) ==
  [S EXCEPT !.if.reload = FALSE, !.teardown = FALSE, !.client = None,
            !.orphan = @ \cup ({S.client} \ {None})]

\* Mutant: an interface that was reloaded is not set up again.
interface_handle_config_change_StaysDown(S, ok) ==
  IF S.if.reload THEN interface_do_reload(S)
  ELSE IF S.if.autostart THEN interface_set_up(S, ok) ELSE S

interface_handle_config_change(S, ok) ==
  LET R == IF S.if.reload THEN interface_do_reload(S) ELSE S
  IN  IF R.if.autostart THEN interface_set_up(R, ok) ELSE R

\* IFPEV_LINK_LOST.
LinkLost(S) ==
  IF S.if.state = "IFS_UP" THEN [mark_interface_down(S) EXCEPT !.if.state = "IFS_SETUP"] ELSE S

\* Mutant: a late report of a lease ends a teardown.
interface_proto_event_cb_AnyState(S, ev, ok) ==
  CASE ev = "IFPEV_UP" -> IF S.if.state # "IFS_DOWN" THEN [S EXCEPT !.if.state = "IFS_UP"] ELSE S
    [] ev = "IFPEV_DOWN" ->
         IF S.if.state = "IFS_DOWN" THEN S
         ELSE interface_handle_config_change(
                [mark_interface_down(S) EXCEPT !.mishap = @ \ {"stray"}], ok)
    [] ev = "IFPEV_LINK_LOST" -> LinkLost(S)

interface_proto_event_cb(S, ev, ok) ==
  CASE ev = "IFPEV_UP" -> IF S.if.state = "IFS_SETUP" THEN [S EXCEPT !.if.state = "IFS_UP"] ELSE S
    [] ev = "IFPEV_DOWN" ->
         IF S.if.state = "IFS_DOWN" THEN S
         ELSE interface_handle_config_change(
                [mark_interface_down(S) EXCEPT !.mishap = @ \ {"stray"}], ok)
    [] ev = "IFPEV_LINK_LOST" -> LinkLost(S)

\* Mutant: a deconfiguration of an interface without a lease is not reported.
udhcp_configure_OnlyBound(S, m, ok) ==
  IF m.reason = "configure"
  THEN interface_proto_event_cb([S EXCEPT !.if.lease = m.lease], "IFPEV_UP", ok)
  ELSE IF S.if.lease = None THEN S
  ELSE interface_proto_event_cb([S EXCEPT !.if.lease = None],
         IF S.teardown THEN "IFPEV_DOWN" ELSE "IFPEV_LINK_LOST", ok)

(***************************************************************************)
(* udhcp4_configure(), udhcp6_configure(), zcip_configure(): called for a  *)
(* notify_proto in any state of the interface.  The settings are replaced  *)
(* by those of the event, or by nothing, and the event is reported.  When  *)
(* the interface is down the code has no device to set them on and ends    *)
(* there; the model goes on.                                               *)
(***************************************************************************)
udhcp_configure(S, m, ok) ==
  IF m.reason = "configure"
  THEN interface_proto_event_cb([S EXCEPT !.if.lease = m.lease], "IFPEV_UP", ok)
  ELSE interface_proto_event_cb([S EXCEPT !.if.lease = None],
         IF S.teardown THEN "IFPEV_DOWN" ELSE "IFPEV_LINK_LOST", ok)

\* isc_dhcp4_configure(), isc_dhcp6_configure(): the loss of a lease is not reported.
isc_dhcp_configure(S, m, ok) ==
  IF m.reason = "configure"
  THEN interface_proto_event_cb([S EXCEPT !.if.lease = m.lease], "IFPEV_UP", ok)
  ELSE [S EXCEPT !.if.lease = None]

\* The notify method of the handler.
configure(S, m, ok) ==
  IF kind = "isc" THEN isc_dhcp_configure(S, m, ok) ELSE udhcp_configure(S, m, ok)

\* Mutant: a client that was told to stop is started again.
process_callback_Restarts(S, ok) == IF kind = "isc" THEN S ELSE proto_setup(S, ok)

\* dhcp_process_callback() and zcip_process_callback(): a client that ends by itself
\* is started again.  The isc handler's callback is empty.
process_callback(S, ok) == IF kind = "isc" \/ S.teardown THEN S ELSE proto_setup(S, ok)
-----------------------------------------------------------------------------
(***************************************************************************)
(* Steps.                                                                  *)
(***************************************************************************)
\* ok: a fork succeeds, should the step get that far.
Runs(F(_, _)) ==
  /\ ~crashed
  /\ \E ok \in BOOLEAN : LET S == F(Now, ok) IN S.faults <= MaxFaults /\ Becomes(S)
  /\ UNCHANGED <<kind, crashed>>

\* interface_set_up() and interface_set_down() from ubus.
SetUp ==
  ~iface.autostart /\ Runs(LAMBDA S, ok : interface_set_up([S EXCEPT !.if.autostart = TRUE], ok))

SetDown ==
  iface.autostart /\ Runs(LAMBDA S, ok : interface_do_set_down([S EXCEPT !.if.autostart = FALSE]))

\* The device appears, is enabled and has a link, or not: interface_check_state().
SetUsable ==
  Runs(LAMBDA S, ok :
         LET N == [S EXCEPT !.if.usable = ~@]
         IN  IF ~N.if.usable THEN interface_do_set_down(N)
             ELSE IF N.if.autostart THEN interface_set_up(N, ok) ELSE N)

\* interface_change_config() of a changed configuration: set_config_state().
Reload ==
  /\ ~iface.reload /\ Cardinality(orphan) < MaxOrphans
  /\ Runs(LAMBDA S, ok :
            LET N == [S EXCEPT !.if.reload = TRUE]
            IN  IF N.if.state = "IFS_DOWN" THEN interface_handle_config_change(N, ok)
                ELSE interface_do_set_down(N))

(***************************************************************************)
(* notify_proto from the script of client p, the registered one or one     *)
(* that is gone.                                                           *)
(***************************************************************************)
Notify(p) ==
  /\ proc[p].msg # None
  /\ Runs(LAMBDA S, ok :
            configure([S EXCEPT !.proc[p].msg = None,
                                !.mishap = IF p = S.client /\ S.if.state # "IFS_DOWN" THEN @ \ {"lost", "stray"}
                                           ELSE @ \cup {"stray"}],
                      proc[p].msg, ok))

\* The process layer collects a client that ended: netifd_process_cb().
ProcessExit(p) ==
  /\ proc[p].st = "zombie"
  /\ IF p = client
     THEN Runs(LAMBDA S, ok :
                 process_callback([S EXCEPT !.client = None,
                                            !.proc[p] = Gone(@)], ok))
     ELSE /\ ~crashed
          \* The callback of a freed state: nothing comes of it, or the daemon dies.
          /\ crashed' \in BOOLEAN
          /\ orphan' = orphan \ {p} /\ proc' = [proc EXCEPT ![p] = Gone(@)]
          /\ UNCHANGED <<kind, iface, teardown, client, mishap, faults>>
-----------------------------------------------------------------------------
(***************************************************************************)
(* The clients.                                                            *)
(***************************************************************************)
Client(p, S) ==
  /\ ~crashed /\ proc' = [proc EXCEPT ![p] = S]
  /\ UNCHANGED <<kind, iface, teardown, client, orphan, crashed>>

\* A lease is obtained or renewed; a lease is lost, or could not be had.
Obtains(p, l) ==
  /\ proc[p].st = "run" /\ proc[p].msg = None
  /\ Client(p, [proc[p] EXCEPT !.lease = l, !.msg = [reason |-> "configure", lease |-> l]])
  /\ UNCHANGED <<mishap, faults>>

Loses(p) ==
  /\ proc[p].st = "run" /\ proc[p].msg = None
  /\ Client(p, [proc[p] EXCEPT !.lease = None, !.msg = [reason |-> "deconfigure", lease |-> None]])
  /\ UNCHANGED <<mishap, faults>>

\* A client that is asked to stop deconfigures the interface and, its script done, exits.
Deconfigures(p) ==
  /\ proc[p].st = "term" /\ proc[p].msg = None
  /\ Client(p, [st |-> "stop", lease |-> None, msg |-> [reason |-> "deconfigure", lease |-> None]])
  /\ UNCHANGED <<mishap, faults>>

Exits(p) ==
  /\ proc[p].st = "stop" /\ proc[p].msg = None
  /\ Client(p, [proc[p] EXCEPT !.st = "zombie"])
  /\ UNCHANGED <<mishap, faults>>

\* Nobody is left to answer a teardown.
Unanswered(p) ==
  IF p = client /\ iface.state = "IFS_TEARDOWN" /\ proc[p].st \in {"term", "stop"}
  THEN {"unanswered"} ELSE {}

\* A client ends without a word, the script it waits for goes on: a crash, or no
\* binary to execute.
Crashes(p) ==
  /\ faults < MaxFaults /\ proc[p].st \in {"run", "term", "stop"}
  /\ Client(p, [proc[p] EXCEPT !.st = "zombie", !.lease = None])
  /\ mishap' = mishap \cup Unanswered(p)
  /\ faults' = faults + 1

\* The script cannot reach the daemon over ubus.
LosesMessage(p) ==
  /\ faults < MaxFaults /\ proc[p].msg # None
  /\ Client(p, [proc[p] EXCEPT !.msg = None])
  /\ mishap' = mishap \cup Unanswered(p) \cup (IF p = client THEN {"lost"} ELSE {})
  /\ faults' = faults + 1
-----------------------------------------------------------------------------
Next ==
  \/ SetUp \/ SetDown \/ SetUsable \/ Reload
  \/ \E p \in Proc :
       \/ Notify(p) \/ ProcessExit(p) \/ \E l \in Lease : Obtains(p, l)
       \/ Loses(p) \/ Deconfigures(p) \/ Exits(p) \/ Crashes(p) \/ LosesMessage(p)

Spec == Init /\ [][Next]_vars

(***************************************************************************)
(* The event loop delivers messages and collects children, a client does   *)
(* as it is told (the weak fairness of Notify, ProcessExit, Deconfigures   *)
(* and Exits, each stated over the condition it removes), and a client     *)
(* that keeps asking gets a lease.                                         *)
(***************************************************************************)
FairSpec ==
  /\ Spec
  /\ \A p \in Proc :
       /\ []<>(proc[p].msg = None \/ crashed)
       /\ []<>(proc[p].st # "zombie" \/ crashed)
       /\ []<>(proc[p].st # "term" \/ crashed)
       /\ []<>(proc[p].st # "stop" \/ crashed)
       /\ SF_vars(\E l \in Lease : Obtains(p, l))
-----------------------------------------------------------------------------
(***************************************************************************)
(* Properties.                                                             *)
(***************************************************************************)

\* Nobody is listening to a client that works for an interface that is down or going
\* down: a client that was not asked to stop is the registered one and its interface
\* wants it, however restarts, reloads and late exits interleave.  (The isc handler
\* never asks its client to stop.)
OneClient ==
  \A p \in Proc : proc[p].st = "run" =>
    p = client /\ (iface.state \in {"IFS_SETUP", "IFS_UP"} \/ kind = "isc")

\* A client that dies is replaced: an interface that is set up or up has one, unless
\* it could not be forked.
UpIsServed ==
  iface.state \in {"IFS_SETUP", "IFS_UP"} /\ kind # "isc" =>
    client # None \/ "fork" \in mishap

\* An interface that is up has the addresses of a lease: whatever clears them
\* reports the loss.  (The isc handler stays up when a lease expires.)
UpHasLease == iface.state = "IFS_UP" /\ kind # "isc" => iface.lease # None

\* When its messages have arrived, the interface has what its client has: it is up
\* with the lease the client holds.
LeaseIsClients ==
  client # None /\ mishap \cap {"lost", "stray"} = {} /\ kind # "isc" =>
    (proc[client].st = "run" /\ proc[client].msg = None /\ proc[client].lease # None =>
       iface.state = "IFS_UP" /\ iface.lease = proc[client].lease)

\* One client serves the interface, which is up with a lease of that client
\* (proto-udhcp.c, proto-isc-dhcp.c).
ClientServes == TypeOK /\ OneClient /\ UpIsServed /\ UpHasLease /\ LeaseIsClients

\* An interface that stays wanted and usable is up again and again, unless the daemon
\* ran into freed memory, a client could not be forked or a teardown got no answer.
ComesUp ==
  <>[](iface.autostart /\ iface.usable /\ ~iface.reload /\ kind # "isc"
         /\ ~crashed /\ mishap \cap {"fork", "unanswered"} = {})
    => []<>(iface.state = "IFS_UP")

Contract ==
  INSTANCE ProtoContract WITH
    state <- iface.state, child <- \E p \in Proc : proc[p].st = "run", faulty <- FALSE

\* The handlers implement the contract of a protocol handler, faults included: the
\* interface moves as it should and is not reported down while a client works for it.
ImplementsContract == Contract!Spec

\* A teardown ends, unless its client could not answer.
TeardownEnds ==
  kind # "isc" =>
    (iface.state = "IFS_TEARDOWN" ~>
       (iface.state # "IFS_TEARDOWN" \/ "unanswered" \in mishap \/ crashed))
=============================================================================
