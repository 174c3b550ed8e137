------------------------------- MODULE Netifd -------------------------------
(***************************************************************************)
(* Devices and the interfaces on top of them: device.c and interface.c.    *)
(*                                                                         *)
(* A device is shared.  Its users are called back for every event, in the  *)
(* order in which they were added, and a callback claims and releases      *)
(* devices, sets interfaces up and down and so broadcasts further events   *)
(* before it returns.  The operators below follow these nested calls: each *)
(* stands for the C function of its name, takes the state as a record and  *)
(* returns the state the call leaves behind.  An action is what one uloop  *)
(* event makes the daemon do.                                              *)
(*                                                                         *)
(* A protocol handler is "static" (PROTO_FLAG_IMMEDIATE) or "async", what  *)
(* an interface sees of the shell handlers of ProtoShell: it may refuse a  *)
(* setup, it always accepts a teardown, and reports their end later.       *)
(***************************************************************************)
EXTENDS Integers, Sequences, FiniteSets, SequencesExt

CONSTANTS
  Dev,          \* the network devices
  NameOrder,    \* the interfaces, in the order of their names (the AVL tree)
  FileOrder,    \* the interfaces, in the order of the configuration file
  Config,       \* per interface, the configurations it can be given
  MayFail,      \* devices that may fail to come up, handlers that may refuse a setup
  None          \* the NULL pointer

Iface == ToSet(NameOrder)

\* One configuration: the device or the parent interface, the handler, force_link,
\* the autostart flag ("auto"), and whether the interface was added at run time.
ConfigType ==
  [device : Dev \cup {None}, parent : Iface \cup {None},
   proto : {"static", "async"}, force_link : BOOLEAN, auto : BOOLEAN,
   dynamic : BOOLEAN]

\* A dynamic interface with an immediate handler is left out: __interface_set_down()
\* uses it after it was freed.
ASSUME ConfigAssumption ==
  /\ IsInjective(NameOrder) /\ IsInjective(FileOrder) /\ ToSet(FileOrder) = Iface
  /\ Config \in [Iface -> SUBSET ConfigType]
  /\ MayFail \subseteq Dev \cup Iface
  /\ \A i \in Iface : \A c \in Config[i] : c.dynamic => c.proto = "async"
  /\ None \notin Dev \cup Iface

\* A device user is the main_dev or the l3_dev of an interface.
User == Iface \X {"main_dev", "l3_dev"}
MainDev(i) == <<i, "main_dev">>
L3Dev(i) == <<i, "l3_dev">>

\* No interface of that name: what calloc() leaves before the first use.
NoIface ==
  [alive |-> FALSE, cfg |-> None, handler |-> "async", state |-> "IFS_DOWN", autostart |-> FALSE,
   available |-> FALSE, enabled |-> FALSE, link_state |-> FALSE,
   config_state |-> "IFC_NORMAL", proto |-> "idle", parent_iface |-> None]

VARIABLES
  devs,      \* per device: present, link_active, active (the claim count)
  users,     \* per device: its users, in the order they were added
  deps,      \* per user: the device it is attached to, and whether it claimed it
  ifaces,    \* per name: struct interface
  configured \* history: the interfaces of the last configuration that was loaded

vars == <<devs, users, deps, ifaces, configured>>

\* The state the operators work on; fail: devices that cannot be brought up and
\* refuse: handlers that refuse a setup while the event is handled; config_init:
\* the flag of config.c.
S0(fail, refuse) ==
  [devs |-> devs, users |-> users, deps |-> deps, ifaces |-> ifaces,
   fail |-> fail, refuse |-> refuse, config_init |-> FALSE]

\* The functions that are called through a pointer (device users, aliases, protocol
\* handlers, vlist nodes, ubus methods), and those that close a cycle of the code's
\* calls, are called by name, with the object and one argument.
RECURSIVE call(_, _, _, _), each(_, _, _, _), broadcast(_, _, _, _)

check_state(S, i) == call(S, "check_state", i, None)
set_available(S, i, b) == call(S, "set_available", i, b)

\* A loop over the objects of a list.
each(S, fn, list, arg) ==
  IF list = <<>> THEN S ELSE each(call(S, fn, Head(list), arg), fn, Tail(list), arg)
-----------------------------------------------------------------------------
(***************************************************************************)
(* device.c                                                                *)
(***************************************************************************)

SetIf(S, i, f, v) == [S EXCEPT !.ifaces[i][f] = v]
SetDev(S, d, f, v) == [S EXCEPT !.devs[d][f] = v]

\* safe_list_for_each(): callbacks may remove users and append new ones.
broadcast(S, d, done, ev) ==
  LET rest == SelectSeq(S.users[d], LAMBDA u : u \notin done)
  IN IF rest = <<>> THEN S
     ELSE broadcast(call(S, "user_cb", Head(rest), ev), d, done \cup {Head(rest)}, ev)

device_broadcast_event(S, d, ev) == broadcast(S, d, {}, ev)

\* The result of device_claim(): 0 or an error.
ClaimSucceeds(S, u) ==
  \/ S.deps[u].claimed
  \/ S.deps[u].dev # None /\ (S.devs[S.deps[u].dev].active = 0 => S.deps[u].dev \notin S.fail)

\* Mutant: a claim that is held is counted again.
device_claim_Recounts(S, u) ==
  LET d  == S.deps[u].dev
      S1 == [S EXCEPT !.deps[u].claimed = TRUE, !.devs[d].active = @ + 1]
  IN IF d = None THEN S
     ELSE IF S1.devs[d].active # 1 THEN S1
     ELSE IF d \in S.fail
     THEN [S1 EXCEPT !.deps[u].claimed = FALSE, !.devs[d].active = 0]
     ELSE device_broadcast_event(S1, d, "DEV_EVENT_UP")

\* device_claim(): the first claim brings the device up.
device_claim(S, u) ==
  LET d  == S.deps[u].dev
      S1 == [S EXCEPT !.deps[u].claimed = TRUE, !.devs[d].active = @ + 1]
  IN IF S.deps[u].claimed \/ d = None THEN S
     ELSE IF S1.devs[d].active # 1 THEN S1
     ELSE IF d \in S.fail
     THEN [S1 EXCEPT !.deps[u].claimed = FALSE, !.devs[d].active = 0]
     ELSE device_broadcast_event(S1, d, "DEV_EVENT_UP")

\* device_release(): the last release brings the device down.
device_release(S, u) ==
  LET d  == S.deps[u].dev
      S1 == [S EXCEPT !.deps[u].claimed = FALSE, !.devs[d].active = @ - 1]
  IN IF ~S.deps[u].claimed THEN S
     ELSE IF S1.devs[d].active # 0 THEN S1
     ELSE device_broadcast_event(S1, d, "DEV_EVENT_DOWN")

device_remove_user(S, u) ==
  LET d  == S.deps[u].dev
      S1 == device_release(S, u)
  IN IF d = None THEN S
     ELSE [S1 EXCEPT !.users[d] = Remove(@, u),
                     !.deps[u] = [dev |-> None, claimed |-> FALSE]]

\* A user added to a device that is present is told its state; one that is added
\* to a device that is not present is told nothing, although it may be active.
device_add_user(S, u, d) ==
  LET Attach(T) ==
        IF d = None THEN T
        ELSE [T EXCEPT !.users[d] = Append(@, u), !.deps[u].dev = d]
      Holds(D, ev) ==
        CASE ev = "DEV_EVENT_ADD" -> TRUE
          [] ev = "DEV_EVENT_UP" -> D.active > 0
          [] ev = "DEV_EVENT_LINK_UP" -> D.link_active
      Tell(T, ev) ==
        IF d # None /\ T.devs[d].present /\ Holds(T.devs[d], ev)
        THEN call(T, "user_cb", u, ev) ELSE T
  IN IF S.deps[u].dev = d THEN S
     ELSE Tell(Tell(Tell(Attach(device_remove_user(S, u)),
                         "DEV_EVENT_ADD"), "DEV_EVENT_UP"), "DEV_EVENT_LINK_UP")

device_set_present(S, d, b) ==
  IF S.devs[d].present = b THEN S
  ELSE device_broadcast_event(SetDev(S, d, "present", b), d,
                              IF b THEN "DEV_EVENT_ADD" ELSE "DEV_EVENT_REMOVE")

device_set_link(S, d, b) ==
  IF S.devs[d].link_active = b THEN S
  ELSE device_broadcast_event(SetDev(S, d, "link_active", b), d,
                              IF b THEN "DEV_EVENT_LINK_UP" ELSE "DEV_EVENT_LINK_DOWN")
-----------------------------------------------------------------------------
(***************************************************************************)
(* interface.c                                                             *)
(***************************************************************************)

Up(S, i) == S.ifaces[i].state \in {"IFS_UP", "IFS_SETUP"}
LinkOk(S, i) == S.ifaces[i].link_state \/ S.ifaces[i].cfg.force_link

\* __set_config_state() of an interface that goes down: a dynamic one is removed.
GoesDown(S, i) ==
  LET S1 == SetIf(S, i, "state", "IFS_TEARDOWN")
  IN IF S.ifaces[i].cfg.dynamic THEN SetIf(S1, i, "config_state", "IFC_REMOVE") ELSE S1

interface_flush_state(S, i) == device_release(S, L3Dev(i))

\* interface_event(): every alias of the interface is called back.
interface_event(S, i, ev) == each(S, "alias_cb", NameOrder, <<i, ev>>)

mark_interface_down(S, i) ==
  LET was == S.ifaces[i].state
      S1  == SetIf(S, i, "state", "IFS_DOWN")
  IN IF was = "IFS_DOWN" THEN S
     ELSE interface_flush_state(
            interface_event(S1, i, IF was = "IFS_SETUP" THEN "IFEV_UP_FAILED"
                                                        ELSE "IFEV_DOWN"), i)

interface_set_l3_dev(S, i, d) ==
  LET Claim(T) == IF d # None /\ S.deps[L3Dev(i)].claimed THEN device_claim(T, L3Dev(i)) ELSE T
  IN IF S.deps[L3Dev(i)].dev = d THEN S ELSE Claim(device_add_user(S, L3Dev(i), d))

\* interface_proto_event_cb(), IFPEV_UP.
interface_proto_up(S, i) ==
  LET S1 == IF S.deps[L3Dev(i)].dev = None
            THEN interface_set_l3_dev(S, i, S.deps[MainDev(i)].dev) ELSE S
  IN IF S.ifaces[i].state # "IFS_SETUP" THEN S
     ELSE interface_event(SetIf(S1, i, "state", "IFS_UP"), i, "IFEV_UP")

\* interface_proto_event_cb(), IFPEV_LINK_LOST.
interface_proto_lost(S, i) ==
  IF S.ifaces[i].state # "IFS_UP" THEN S
  ELSE SetIf(mark_interface_down(S, i), i, "state", "IFS_SETUP")

\* __interface_set_up(): interface_proto_event(PROTO_CMD_SETUP).
interface_do_set_up(S, i) ==
  LET static == S.ifaces[i].handler = "static"
      failed == i \in S.refuse \/ (~static /\ S.ifaces[i].proto # "idle")
      Bind(T) == IF static THEN interface_set_l3_dev(T, i, T.deps[MainDev(i)].dev) ELSE T
      Setup(T) == IF failed THEN mark_interface_down(T, i)
                  ELSE IF static THEN call(T, "proto_event", i, "IFPEV_UP")
                  ELSE SetIf(T, i, "proto", "setup")
  IN Setup(Bind(SetIf(S, i, "state", "IFS_SETUP")))

\* interface_proto_event(PROTO_CMD_TEARDOWN).
proto_teardown(S, i) ==
  IF S.ifaces[i].handler = "static" THEN call(S, "proto_event", i, "IFPEV_DOWN")
  ELSE SetIf(S, i, "proto", "teardown")

interface_check_state(S, i) ==
  LET f    == S.ifaces[i]
      runs == f.enabled /\ LinkOk(S, i)
  IN IF Up(S, i) /\ ~runs THEN proto_teardown(GoesDown(S, i), i)
     ELSE IF f.state = "IFS_DOWN" /\ f.available /\ f.autostart /\ runs /\ ~S.config_init
     THEN interface_do_set_up(S, i)
     ELSE S

\* Mutant: only a device that comes up is acted on.
interface_set_enabled_OnlyUp(S, i, b) ==
  IF b /\ ~S.ifaces[i].enabled THEN check_state(SetIf(S, i, "enabled", b), i)
  ELSE SetIf(S, i, "enabled", b)

interface_set_enabled(S, i, b) ==
  IF S.ifaces[i].enabled = b THEN S
  ELSE check_state(SetIf(S, i, "enabled", b), i)

interface_set_link_state(S, i, b) ==
  IF S.ifaces[i].link_state = b THEN S
  ELSE check_state(SetIf(S, i, "link_state", b), i)

\* __interface_set_down().
interface_do_set_down(S, i, force) ==
  LET Emit(T) == IF S.ifaces[i].state = "IFS_UP" THEN interface_event(T, i, "IFEV_DOWN") ELSE T
      Flush(T) == IF force THEN interface_flush_state(T, i) ELSE T
  IN IF Up(S, i) THEN Flush(proto_teardown(Emit(GoesDown(S, i)), i))
     ELSE IF S.ifaces[i].state = "IFS_DOWN" THEN device_release(S, MainDev(i))
     ELSE S

interface_set_up(S, i) ==
  LET S1 == SetIf(S, i, "autostart", TRUE)
      u  == MainDev(i)
      Check(T) == IF ClaimSucceeds(S, u) THEN check_state(T, i) ELSE T
  IN IF S.ifaces[i].state # "IFS_DOWN" \/ ~S.ifaces[i].available THEN S1
     ELSE IF S.deps[u].dev = None THEN interface_do_set_up(S1, i)
     ELSE Check(device_claim(S1, u))

\* interface_set_down() of one interface.
interface_set_down(S, i) == interface_do_set_down(SetIf(S, i, "autostart", FALSE), i, FALSE)

interface_set_available(S, i, b) ==
  LET S1 == SetIf(S, i, "available", b)
  IN IF S.ifaces[i].available = b THEN S
     ELSE IF ~b THEN interface_do_set_down(S1, i, TRUE)
     ELSE IF S.ifaces[i].autostart /\ ~S.config_init THEN interface_set_up(S1, i)
     ELSE S1

\* interface_main_dev_cb() and interface_l3_dev_cb(); the latter does nothing for a
\* handler without PROTO_FLAG_TEARDOWN_ON_L3_LINK_DOWN.
user_cb(S, u, ev) ==
  LET i == u[1]
  IN IF u[2] = "l3_dev" THEN S
     ELSE IF ev = "DEV_EVENT_ADD" THEN set_available(S, i, TRUE)
     ELSE IF ev = "DEV_EVENT_REMOVE" THEN set_available(S, i, FALSE)
     ELSE IF ev = "DEV_EVENT_UP" THEN interface_set_enabled(S, i, TRUE)
     ELSE IF ev = "DEV_EVENT_DOWN" THEN interface_set_enabled(S, i, FALSE)
     ELSE interface_set_link_state(S, i, S.devs[S.deps[u].dev].link_active)

interface_set_main_dev(S, i, d) ==
  LET claimed == S.deps[L3Dev(i)].claimed
      SetL3(T) == IF T.deps[L3Dev(i)].dev = None THEN interface_set_l3_dev(T, i, d) ELSE T
      Claim(T) == IF ~claimed THEN SetL3(T)
                  ELSE IF ~ClaimSucceeds(T, L3Dev(i)) THEN device_claim(T, L3Dev(i))
                  ELSE SetL3(device_claim(T, L3Dev(i)))
      Moved(T) == IF d = None THEN interface_set_link_state(T, i, FALSE) ELSE Claim(T)
  IN IF S.deps[MainDev(i)].dev = d THEN S
     ELSE Moved(device_add_user(set_available(S, i, FALSE), MainDev(i), d))

\* Mutant: the alias of an interface that went down keeps its device.
interface_alias_cb_Stays(S, a, i, ev) ==
  LET d == S.deps[L3Dev(i)].dev
  IN IF ev = "IFEV_UP"
     THEN IF d = None THEN S
          ELSE set_available(interface_set_main_dev(S, a, d), a, TRUE)
     ELSE IF ev = "IFEV_FREE" THEN SetIf(S, a, "parent_iface", None)
     ELSE set_available(S, a, FALSE)

\* interface_alias_cb(): the alias a of interface i hears of event ev.
interface_alias_cb(S, a, i, ev) ==
  LET d == S.deps[L3Dev(i)].dev
  IN IF ev = "IFEV_UP"
     THEN IF d = None THEN S
          ELSE set_available(interface_set_main_dev(S, a, d), a, TRUE)
     ELSE IF ev = "IFEV_FREE" THEN SetIf(S, a, "parent_iface", None)
     ELSE interface_set_main_dev(set_available(S, a, FALSE), a, None)

\* interface_cleanup_state(): state is IFS_DOWN and the handler is freed.
interface_cleanup_state(S, i) ==
  LET S1 == interface_flush_state(set_available(S, i, FALSE), i)
      S2 == [S1 EXCEPT !.ifaces[i].state = "IFS_DOWN", !.ifaces[i].proto = "idle"]
  IN interface_set_l3_dev(interface_set_main_dev(S2, i, None), i, None)

\* interface_claim_device(): follow the parent interface, or use the device.
interface_claim_device(S, i) ==
  LET c  == S.ifaces[i].cfg
      S1 == SetIf(S, i, "parent_iface", c.parent)
  IN IF c.parent = None THEN interface_set_main_dev(S1, i, c.device)
     ELSE IF S.ifaces[c.parent].state = "IFS_UP"
     THEN call(S1, "alias_cb", i, <<c.parent, "IFEV_UP">>)
     ELSE S1

\* proto_init_interface(): a new handler state for the configured protocol.
proto_init_interface(S, i) == SetIf(S, i, "handler", S.ifaces[i].cfg.proto)

interface_do_reload(S, i) ==
  interface_claim_device(proto_init_interface(interface_cleanup_state(S, i), i), i)

\* interface_do_free(), by way of interface_cleanup().
interface_do_free(S, i) ==
  LET S1 == SetIf(interface_event(S, i, "IFEV_FREE"), i, "parent_iface", None)
  IN [interface_cleanup_state(S1, i) EXCEPT !.ifaces[i] = NoIface]

interface_handle_config_change(S, i) ==
  LET cs == S.ifaces[i].config_state
      S1 == SetIf(S, i, "config_state", "IFC_NORMAL")
      Reloaded(T) == IF cs = "IFC_RELOAD" THEN interface_do_reload(T, i) ELSE T
      Start(T) == IF T.ifaces[i].autostart THEN interface_set_up(T, i) ELSE T
  IN IF cs = "IFC_REMOVE" THEN interface_do_free(S1, i) ELSE Start(Reloaded(S1))

\* interface_proto_event_cb(), IFPEV_DOWN.
interface_proto_down(S, i) ==
  LET S1 == device_release(mark_interface_down(S, i), MainDev(i))
  IN IF S.ifaces[i].state = "IFS_DOWN" THEN S
     ELSE call(device_remove_user(S1, L3Dev(i)), "config_change", i, None)

interface_proto_event_cb(S, i, ev) ==
  CASE ev = "IFPEV_UP" -> interface_proto_up(S, i)
    [] ev = "IFPEV_LINK_LOST" -> interface_proto_lost(S, i)
    [] ev = "IFPEV_DOWN" -> interface_proto_down(S, i)

\* proto_shell_update_link(): the l3 device is the main device; it is claimed and
\* taken to be present, and the interface is up.
proto_shell_update_link(S, i) ==
  LET d == S.deps[MainDev(i)].dev
      Report(T) == call(device_set_present(T, d, TRUE), "proto_event", i, "IFPEV_UP")
      Claim(T) == IF ClaimSucceeds(T, L3Dev(i))
                  THEN SetIf(Report(device_claim(T, L3Dev(i))), i, "proto", "up")
                  ELSE device_claim(T, L3Dev(i))
  IN Claim(interface_set_l3_dev(S, i, d))

\* Mutant: a running interface is not taken down.
set_config_state_Waits(S, i, cs) ==
  LET S1 == SetIf(S, i, "config_state", cs)
  IN IF S.ifaces[i].state = "IFS_DOWN" THEN call(S1, "config_change", i, None) ELSE S1

set_config_state(S, i, cs) ==
  LET S1 == SetIf(S, i, "config_state", cs)
  IN IF S.ifaces[i].state = "IFS_DOWN" THEN call(S1, "config_change", i, None)
     ELSE interface_do_set_down(S1, i, FALSE)

\* interface_change_config(): the new configuration is in place at once; what must
\* not change under a running handler is applied by a reload.
interface_change_config(S, i, c) ==
  LET old    == S.ifaces[i].cfg
      reload == \/ old.parent # c.parent \/ old.device # c.device
                \/ old.proto # c.proto \/ (old.auto /\ ~c.auto)
      S1 == [S EXCEPT !.ifaces[i].cfg = c,
                      !.ifaces[i].autostart = IF old.auto # c.auto THEN c.auto ELSE @,
                      !.ifaces[i].parent_iface = IF old.parent # c.parent THEN None ELSE @]
  IN IF reload THEN set_config_state(S1, i, "IFC_RELOAD")
     ELSE IF S.deps[MainDev(i)].dev # None THEN check_state(S1, i)
     ELSE S1

\* interface_update() of a node that is new.
interface_create(S, i, c) ==
  LET new == [NoIface EXCEPT !.alive = TRUE, !.cfg = c, !.autostart = c.auto]
  IN interface_claim_device(proto_init_interface([S EXCEPT !.ifaces[i] = new], i), i)

\* interface_update() as vlist_add() calls it for a node that new configures.
interface_update(S, i, new) ==
  IF i \notin DOMAIN new THEN S
  ELSE IF S.ifaces[i].alive THEN interface_change_config(S, i, new[i])
  ELSE interface_create(S, i, new[i])

\* interface_update() as vlist_flush() calls it for a node that new does not configure.
\* Dynamic interfaces are not subject to the flush.
interface_remove(S, i, new) ==
  IF S.ifaces[i].alive /\ i \notin DOMAIN new /\ ~S.ifaces[i].cfg.dynamic
  THEN set_config_state(S, i, "IFC_REMOVE") ELSE S

\* interface_start_pending(), for one interface.
interface_start(S, i) ==
  IF S.ifaces[i].alive /\ S.ifaces[i].autostart THEN interface_set_up(S, i) ELSE S

call(S, fn, who, arg) ==
  CASE fn = "user_cb" -> user_cb(S, who, arg)
    [] fn = "alias_cb" -> IF S.ifaces[who].parent_iface = arg[1]
                          THEN interface_alias_cb(S, who, arg[1], arg[2]) ELSE S
    [] fn = "proto_event" -> interface_proto_event_cb(S, who, arg)
    [] fn = "update" -> interface_update(S, who, arg)
    [] fn = "flush" -> interface_remove(S, who, arg)
    [] fn = "start" -> interface_start(S, who)
    [] fn = "remove" -> set_config_state(S, who, "IFC_REMOVE")
    [] fn = "config_change" -> interface_handle_config_change(S, who)
    [] fn = "check_state" -> interface_check_state(S, who)
    [] fn = "set_available" -> interface_set_available(S, who, arg)
    [] fn = "set_up" -> interface_set_up(S, who)
    [] fn = "set_down" -> interface_set_down(S, who)
    [] fn = "link_up" -> proto_shell_update_link(S, who)

(***************************************************************************)
(* config_init_all() with the interfaces and configurations of new: they   *)
(* are created or changed in the order of the file, then vlist_flush()     *)
(* removes those that are no longer configured, then the pending ones      *)
(* start.                                                                  *)
(***************************************************************************)
config_init_all(S, new) ==
  LET Initialised(T) == [T EXCEPT !.config_init = FALSE]
      Updated == each([S EXCEPT !.config_init = TRUE], "update", FileOrder, new)
  IN each(each(Initialised(Updated), "flush", NameOrder, new), "start", NameOrder, new)
-----------------------------------------------------------------------------
(***************************************************************************)
(* The events of the daemon.                                               *)
(***************************************************************************)

Init ==
  /\ devs = [d \in Dev |-> [present |-> FALSE, link_active |-> FALSE, active |-> 0]]
  /\ users = [d \in Dev |-> <<>>]
  /\ deps = [u \in User |-> [dev |-> None, claimed |-> FALSE]]
  /\ ifaces = [i \in Iface |-> NoIface]
  /\ configured = {}

Becomes(S) ==
  devs' = S.devs /\ users' = S.users /\ deps' = S.deps /\ ifaces' = S.ifaces

\* The state in which an event is handled: at most one device cannot be brought up
\* or one handler refuses to set up while it lasts.
Fault == {<<{}, {}>>} \cup {<<{x}, {x}>> : x \in MayFail}
Starts == {S0(f[1], f[2]) : f \in Fault}

\* cb_rtnl_event(), RTM_NEWLINK with the carrier state.
RtnlEvent(d, carrier) ==
  /\ \E S \in Starts : Becomes(device_set_link(device_set_present(S, d, TRUE), d, carrier))
  /\ UNCHANGED configured

\* device_hotplug_event().
HotplugEvent(d, add) ==
  /\ \E S \in Starts : Becomes(device_set_present(S, d, add))
  /\ UNCHANGED configured

\* ubus "up": interface_set_up().
UbusUp(i) ==
  /\ ifaces[i].alive
  /\ \E S \in Starts : Becomes(call(S, "set_up", i, None))
  /\ UNCHANGED configured

\* ubus "down": interface_set_down().
UbusDown(i) ==
  /\ ifaces[i].alive
  /\ Becomes(call(S0({}, {}), "set_down", i, None))
  /\ UNCHANGED configured

\* ubus "add_dynamic".
UbusAddDynamic(i) ==
  /\ ~ifaces[i].alive
  /\ \E c \in Config[i], S \in Starts : c.dynamic /\ Becomes(call(S, "update", i, [j \in {i} |-> c]))
  /\ UNCHANGED configured

\* ubus "remove", by way of its timer.
UbusRemove(i) ==
  /\ ifaces[i].alive
  /\ Becomes(call(S0({}, {}), "remove", i, None))
  /\ configured' = configured \ {i}

\* The async handler reports link-up.
ProtoUp(i) ==
  /\ ifaces[i].proto \in {"setup", "up"}
  /\ deps[MainDev(i)].dev # None
  /\ \E S \in Starts : Becomes(call(S, "link_up", i, None))
  /\ UNCHANGED configured

\* The async handler loses its connection, and may tear itself down at once.
ProtoLost(i) ==
  /\ ifaces[i].proto \in {"setup", "up"}
  /\ \E next \in {ifaces[i].proto, "teardown"} :
       Becomes(SetIf(call(S0({}, {}), "proto_event", i, "IFPEV_LINK_LOST"), i, "proto", next))
  /\ UNCHANGED configured

\* The async handler has finished its teardown: IFPEV_DOWN.
ProtoDown(i) ==
  /\ ifaces[i].proto = "teardown"
  /\ \E S \in Starts : Becomes(call(SetIf(S, i, "proto", "idle"), "proto_event", i, "IFPEV_DOWN"))
  /\ UNCHANGED configured

\* The configurations that can be loaded; a parent is configured with its alias.
Configuration ==
  LET Static(i) == {c \in Config[i] : ~c.dynamic}
  IN {new \in UNION {[p -> UNION {Static(i) : i \in Iface}] : p \in SUBSET Iface} :
        \A i \in DOMAIN new :
          new[i] \in Static(i) /\ (new[i].parent # None => new[i].parent \in DOMAIN new)}

(***************************************************************************)
(* A reload of the configuration.  An interface that is configured again   *)
(* while its removal is pending is removed all the same when its teardown  *)
(* ends, and counts as not configured.                                     *)
(***************************************************************************)
ConfigReload ==
  \E new \in Configuration :
    /\ Becomes(config_init_all(S0({}, {}), new))
    /\ configured' = {i \in DOMAIN new : ifaces'[i].config_state # "IFC_REMOVE"}

Next ==
  \/ \E d \in Dev, b \in BOOLEAN : RtnlEvent(d, b) \/ HotplugEvent(d, b)
  \/ \E i \in Iface :
       \/ UbusUp(i) \/ UbusDown(i) \/ UbusAddDynamic(i) \/ UbusRemove(i)
       \/ ProtoUp(i) \/ ProtoLost(i) \/ ProtoDown(i)
  \/ ConfigReload

Spec == Init /\ [][Next]_vars
-----------------------------------------------------------------------------
(***************************************************************************)
(* Properties.                                                             *)
(***************************************************************************)

\* The types of the state, and the two ends of the list of users: a device lists
\* exactly the users that point to it, each of them once.
TypeOK ==
  /\ devs \in [Dev -> [present : BOOLEAN, link_active : BOOLEAN, active : Nat]]
  /\ deps \in [User -> [dev : Dev \cup {None}, claimed : BOOLEAN]]
  /\ \A d \in Dev : IsInjective(users[d]) /\ ToSet(users[d]) = {u \in User : deps[u].dev = d}
  /\ \A i \in Iface : /\ ifaces[i].state \in {"IFS_SETUP", "IFS_UP", "IFS_TEARDOWN", "IFS_DOWN"}
                      /\ ifaces[i].proto \in {"idle", "setup", "up", "teardown"}
  /\ configured \subseteq Iface

\* The claim count of a device is the number of its users that hold a claim,
\* however claims, failures and removals are nested in each other's callbacks.
ClaimsCounted ==
  \A d \in Dev : devs[d].active = Cardinality({u \in User : deps[u].dev = d /\ deps[u].claimed})

\* The counters of device.c agree with the users that hold the device, however the
\* callbacks of a claim nest.
ClaimsAgree == TypeOK /\ ClaimsCounted

\* DESIGN: "An active interface must always be bound to one main device and to a
\* layer 3 device."
UpIsBound ==
  \A i \in Iface : ifaces[i].state = "IFS_UP" =>
    deps[MainDev(i)].dev # None /\ deps[L3Dev(i)].dev # None

\* No interface stays up on a device that was brought down, not even one that
\* came up with its device, by DEV_EVENT_UP, and holds no claim on it.
UpOnActive ==
  \A i \in Iface : ifaces[i].state = "IFS_UP" => devs[deps[MainDev(i)].dev].active > 0

\* An interface that was taken down keeps no device up.
DownHoldsNothing ==
  \A i \in Iface : ifaces[i].state = "IFS_DOWN" /\ ~ifaces[i].autostart =>
    ~deps[MainDev(i)].claimed /\ ~deps[L3Dev(i)].claimed

\* An interface of interface.c is up on a live, active device that it is bound to, and
\* holds no device when it is down.
UpOnDevice == UpIsBound /\ UpOnActive /\ DownHoldsNothing

\* A teardown, a pending reload and a pending removal wait for a handler that is
\* stopping, whose IFPEV_DOWN ends or applies them.
PendingIsBacked ==
  \A i \in Iface :
    ifaces[i].state = "IFS_TEARDOWN" \/ ifaces[i].config_state # "IFC_NORMAL" =>
      ifaces[i].proto = "teardown"

\* An alias is attached only while its parent is up or not yet down, and to the
\* parent's l3 device.
AliasFollows ==
  \A a \in Iface : LET p == ifaces[a].parent_iface
                      d == deps[MainDev(a)].dev
                  IN p # None /\ d # None =>
                       /\ ifaces[p].state \in {"IFS_UP", "IFS_TEARDOWN"}
                       /\ d = deps[L3Dev(p)].dev

\* With aliases and dynamic interfaces the counts still agree, nothing pending is left
\* alone, and an alias follows the device of its parent (interface_alias_cb).
AliasesSound == ClaimsCounted /\ PendingIsBacked /\ AliasFollows

\* No interface that is configured gets lost.
ConfiguredExist == \A i \in configured : ifaces[i].alive

\* Nothing that is due is forgotten by interface.c: a pending state waits for a handler
\* that will answer, and what the last reload configured exists.
NothingForgotten == PendingIsBacked /\ ConfiguredExist
=============================================================================
