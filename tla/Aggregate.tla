------------------------------ MODULE Aggregate ------------------------------
(***************************************************************************)
(* Devices made of other devices: bridge.c and bonding.c on device.c.      *)
(*                                                                         *)
(* A bridge or a bonding device is at once a device, with a user of its    *)
(* own (the interface on top of it), and a user of each of its member      *)
(* devices.  A device that appears calls its members back, which make the  *)
(* bridge present, which calls the interface back, which claims the        *)
(* bridge, which claims the members.  As in Netifd, the operators follow   *)
(* these nested calls and an action is one event of the main loop.         *)
(*                                                                         *)
(* The filter table of a bridge (its vlans) is the subject of BridgeVlan.  *)
(***************************************************************************)
EXTENDS Integers, Sequences, FiniteSets, SequencesExt

CONSTANTS
  DevOrder,    \* the member devices, in the order of their names
  FileOrder,   \* the bridges and bonding devices, in the order of the file
  Kind,        \* per bridge or bonding device, which of the two it is
  Async,       \* those whose interface has a handler that tears down later
  Auth,        \* the devices with settings.auth
  Hotplug,     \* the devices that are added to a bridge at run time
  Admin,       \* those whose interface is operated through ubus
  Config,      \* the configurations the daemon can be given
  MayFail,     \* the system calls that may fail: <<device, "up">>, <<bridge, "addbr">>
  MaxFaults,   \* how many system calls may fail in a behaviour
  MaxReloads,  \* how often the configuration is loaded
  None         \* the NULL pointer

Dev == ToSet(DevOrder)
Agg == ToSet(FileOrder)

\* A configuration names the bridges and bonding devices that are in the file: their
\* ports, option bridge_empty, and whether a MAC address is set.
AggConfig == [ports : SUBSET Dev, empty : BOOLEAN, mac : BOOLEAN]

\* An interface whose teardown takes time stays in the file.
ASSUME AggregateAssumption ==
  /\ IsInjective(DevOrder) /\ IsInjective(FileOrder) /\ Dev \cap Agg = {}
  /\ Kind \in [Agg -> {"bridge", "bonding"}]
  /\ Async \subseteq Agg /\ Admin \subseteq Agg
  /\ Auth \subseteq Dev /\ Hotplug \subseteq Dev
  /\ \A c \in Config :
       /\ Async \subseteq DOMAIN c /\ DOMAIN c \subseteq Agg
       /\ \A b \in DOMAIN c : c[b] \in AggConfig /\ (Kind[b] = "bonding" => ~c[b].empty)
  /\ None \notin Dev \cup Agg
  /\ MayFail \subseteq ((Dev \cup Agg) \X {"up"}) \cup (Agg \X {"addbr"})
  /\ MaxFaults \in Nat /\ MaxReloads \in Nat

\* Device users: the member d of b, and the main_dev of the interface on b.
Member(b, d) == <<b, d>>
Iface(b) == <<"iface", b>>
User == (Agg \X Dev) \cup {Iface(b) : b \in Agg}

NoDev == [present |-> FALSE, active |-> 0, link_active |-> FALSE, auth_status |-> FALSE]
NoConfig == [ports |-> {}, empty |-> FALSE, mac |-> FALSE]
NoMember == [exists |-> FALSE, hotplug |-> FALSE, pinned |-> FALSE,
             present |-> FALSE, active |-> FALSE]
NoAgg == [alive |-> FALSE, cfg |-> NoConfig, pending |-> FALSE, up |-> FALSE,
          force_active |-> FALSE, n_present |-> 0, n_failed |-> FALSE, retry |-> FALSE,
          primary |-> None, macaddr |-> None]
NoIface == [attached |-> FALSE, autostart |-> FALSE, available |-> FALSE,
            state |-> "IFS_DOWN"]

VARIABLES
  devs,    \* per device: present, active (the claim count), link_active, auth_status
  users,   \* per device: its users, in the order they were added
  claimed, \* the users that hold a claim
  aggs,    \* per bridge and bonding device: struct bridge_state, struct bonding_device;
           \* n_failed: the counter is not zero
  mems,    \* per bridge and member device: struct bridge_member, struct bonding_port;
           \* pinned: the node has version -1, a reload does not flush it
  master,  \* per device: the bridge or bond the kernel has it in
  ifaces,  \* per bridge: the interface on top of it
  failed,  \* an assert() of the code has failed
  stray,   \* history: those a retry has brought up although nobody claims them
  faults,  \* history: how many system calls have failed
  reloads  \* how often the configuration has been loaded

vars == <<devs, users, claimed, aggs, mems, master, ifaces, failed, stray, faults, reloads>>

\* The state the operators work on; fail: the system calls that fail while the event
\* is handled; hit: one of them was made; ret: what the last call returned; config_init: the flag of config.c.
S0(fail) ==
  [devs |-> devs, users |-> users, claimed |-> claimed, aggs |-> aggs, mems |-> mems,
   master |-> master, ifaces |-> ifaces, failed |-> failed, fail |-> fail, ret |-> 0,
   hit |-> FALSE, config_init |-> FALSE]

\* Functions that are called through a pointer, or that close a cycle of calls.
RECURSIVE call(_, _, _, _), each(_, _, _, _), broadcast(_, _, _, _)

each(S, fn, list, arg) ==
  IF list = <<>> THEN S ELSE each(call(S, fn, Head(list), arg), fn, Tail(list), arg)

claim(S, u) == call(S, "device_claim", u, None)
release(S, u) == call(S, "device_release", u, None)
set_present(S, x, b) == call(S, "device_set_present", x, b)

Ret(S, r) == [S EXCEPT !.ret = r]
Fail(S) == [S EXCEPT !.ret = -1, !.hit = TRUE]
SetAgg(S, b, f, v) == [S EXCEPT !.aggs[b][f] = v]
SetMem(S, b, d, f, v) == [S EXCEPT !.mems[b][d][f] = v]

\* The members of b, as users, in the order of the tree.
Members(S, b) ==
  LET ds == SelectSeq(DevOrder, LAMBDA d : S.mems[b][d].exists)
  IN [k \in DOMAIN ds |-> Member(b, ds[k])]
-----------------------------------------------------------------------------
(***************************************************************************)
(* device.c                                                                *)
(***************************************************************************)

broadcast(S, x, done, ev) ==
  LET rest == SelectSeq(S.users[x], LAMBDA u : u \notin done)
  IN IF rest = <<>> THEN S
     ELSE broadcast(call(S, "user_cb", Head(rest), ev), x, done \cup {Head(rest)}, ev)

device_broadcast_event(S, x, ev) == broadcast(S, x, {}, ev)

\* device_claim(): the first claim brings the device up; a failure undoes the claim.
\* Its SETUP and UP events matter to no user of this module.
device_claim(S, u) ==
  LET x == u[2]
      S1 == [S EXCEPT !.claimed = @ \cup {u}, !.devs[x].active = @ + 1]
      Result(T) == IF T.ret = 0 THEN T
                   ELSE [T EXCEPT !.devs[x].active = 0, !.claimed = @ \ {u}]
  IN IF u \in S.claimed THEN Ret(S, 0)
     ELSE IF S1.devs[x].active # 1 THEN Ret(S1, 0)
     ELSE Result(call(S1, "set_state", x, TRUE))

\* device_release(): the last release brings the device down.
device_release(S, u) ==
  LET x == u[2]
      S1 == [S EXCEPT !.claimed = @ \ {u}, !.devs[x].active = @ - 1,
                      !.failed = @ \/ S.devs[x].active < 1]
  IN IF u \notin S.claimed THEN S
     ELSE IF S1.devs[x].active # 0 THEN S1
     ELSE call(S1, "set_state", x, FALSE)

\* __device_set_present() and device_refresh_present() of a device that is neither
\* disabled nor deferred.
device_set_present(S, x, b) ==
  IF S.devs[x].present = b THEN S
  ELSE device_broadcast_event([S EXCEPT !.devs[x].present = b], x,
                              IF b THEN "DEV_EVENT_ADD" ELSE "DEV_EVENT_REMOVE")

device_add_user(S, u) ==
  LET S1 == [S EXCEPT !.users[u[2]] = Append(@, u)]
  IN IF S.devs[u[2]].present THEN call(S1, "user_cb", u, "DEV_EVENT_ADD") ELSE S1

device_remove_user(S, u) ==
  LET S1 == release(S, u) IN [S1 EXCEPT !.users[u[2]] = Remove(@, u)]

device_set_link(S, d, b) ==
  LET S1 == [S EXCEPT !.devs[d].link_active = b,
                      !.devs[d].auth_status = b /\ S.devs[d].auth_status]
  IN IF S.devs[d].link_active = b THEN S
     ELSE device_broadcast_event(S1, d, IF b THEN "DEV_EVENT_LINK_UP" ELSE "DEV_EVENT_LINK_DOWN")

\* device_set_auth_status(): the LINK_UP event it ends with matters to no user here.
device_set_auth_status(S, d, b) ==
  LET S1 == [S EXCEPT !.devs[d].auth_status = b]
  IN IF S.devs[d].auth_status = b THEN S
     ELSE IF ~S.devs[d].present THEN S1
     ELSE device_broadcast_event(S1, d, IF b THEN "DEV_EVENT_AUTH_UP" ELSE "DEV_EVENT_LINK_DOWN")

\* set_state of a simple device, and set_device_state() of a bridge or bond.
system_set_state(S, x, up) == IF up /\ <<x, "up">> \in S.fail THEN Fail(S) ELSE Ret(S, 0)
-----------------------------------------------------------------------------
(***************************************************************************)
(* The kernel: a device is in one bridge or bond, and leaves it when the   *)
(* bridge is deleted or the device disappears.                             *)
(***************************************************************************)

\* system_bridge_addif(): refused while the device is in another bridge or bond.
system_bridge_addif(S, b, d) ==
  IF S.master[d] \in {None, b} THEN Ret([S EXCEPT !.master[d] = b], 0) ELSE Ret(S, -1)

\* system_bonding_set_port(): the result of the write to sysfs is not looked at.
system_bonding_set_port(S, b, d, add) ==
  IF add THEN Ret(IF S.master[d] = None THEN [S EXCEPT !.master[d] = b] ELSE S, 0)
  ELSE Ret(IF S.master[d] = b THEN [S EXCEPT !.master[d] = None] ELSE S, 0)

system_bridge_delif(S, b, d) ==
  IF S.master[d] = b THEN [S EXCEPT !.master[d] = None] ELSE S

\* system_bridge_delbr() and system_bonding_set_device(NULL).
system_delbr(S, b) ==
  [S EXCEPT !.master = [d \in Dev |-> IF S.master[d] = b THEN None ELSE S.master[d]]]
-----------------------------------------------------------------------------
(***************************************************************************)
(* bridge.c                                                                *)
(***************************************************************************)

FirstPresent(S, b) ==
  LET p == SelectSeq(Members(S, b), LAMBDA u : S.mems[b][u[2]].present)
  IN IF p = <<>> THEN None ELSE Head(p)[2]

\* The address of the bridge is the one of its first member, unless it is configured.
bridge_reset_primary(S, b) ==
  LET p == FirstPresent(S, b)
  IN IF S.aggs[b].primary = None /\ S.aggs[b].macaddr # None THEN S
     ELSE [S EXCEPT !.aggs[b].primary = p, !.aggs[b].macaddr = p]

\* Mutant: the member that was taken out still counts as part of the bridge.
bridge_disable_member_StaysActive(S, b, d, keep_dev) ==
  LET S1 == system_bridge_delif(S, b, d)
  IN IF ~S.mems[b][d].present \/ ~S.mems[b][d].active THEN S
     ELSE IF keep_dev THEN S1 ELSE release(S1, Member(b, d))

bridge_disable_member(S, b, d, keep_dev) ==
  LET m == S.mems[b][d]
      S1 == system_bridge_delif(SetMem(S, b, d, "active", FALSE), b, d)
  IN IF ~m.present \/ ~m.active THEN S
     ELSE IF keep_dev THEN S1 ELSE release(S1, Member(b, d))

bridge_enable_interface(S, b) ==
  IF S.aggs[b].up THEN Ret(S, 0)
  ELSE IF <<b, "addbr">> \in S.fail THEN Fail(S)
  ELSE Ret(SetAgg(S, b, "up", TRUE), 0)

bridge_disable_interface(S, b) ==
  IF S.aggs[b].up THEN SetAgg(system_delbr(S, b), b, "up", FALSE) ELSE S

\* The error path of bridge_enable_member() and bonding_enable_port().
member_failed(S, b, d) ==
  Ret(release([S EXCEPT !.aggs[b].n_failed = TRUE, !.aggs[b].n_present = @ - 1,
                        !.mems[b][d].present = FALSE], Member(b, d)), -1)

\* A member that waits for its authentication is claimed but not in the bridge.
Unauthorized(S, d) == d \in Auth /\ ~S.devs[d].auth_status

bridge_enable_member(S, b, d) ==
  LET Added(T) == IF T.ret # 0 THEN member_failed(T, b, d)
                  ELSE Ret(set_present(SetMem(T, b, d, "active", TRUE), b, TRUE), 0)
      Claimed(T) == IF T.ret # 0 THEN member_failed(T, b, d)
                    ELSE IF Unauthorized(T, d) THEN Ret(T, -1)
                    ELSE IF T.mems[b][d].active THEN Ret(T, 0)
                    ELSE Added(system_bridge_addif(T, b, d))
      Enabled(T) == IF T.ret # 0 THEN member_failed(T, b, d) ELSE Claimed(claim(T, Member(b, d)))
  IN IF ~S.mems[b][d].present THEN Ret(S, 0) ELSE Enabled(bridge_enable_interface(S, b))

\* Mutant: the count keeps a member that is gone.
bridge_remove_member_NoCount(S, b, d) ==
  LET Disable(T) == IF T.devs[b].active > 0 THEN bridge_disable_member(T, b, d, FALSE) ELSE T
      Primary(T) == IF T.aggs[b].primary = d THEN bridge_reset_primary(T, b) ELSE T
  IN IF ~S.mems[b][d].present THEN S
     ELSE Primary(SetMem(Disable(S), b, d, "present", FALSE))

bridge_remove_member(S, b, d) ==
  LET Disable(T) == IF T.devs[b].active > 0 THEN bridge_disable_member(T, b, d, FALSE) ELSE T
      Gone(T) == [T EXCEPT !.mems[b][d].present = FALSE, !.aggs[b].n_present = @ - 1]
      Primary(T) == IF T.aggs[b].primary = d THEN bridge_reset_primary(T, b) ELSE T
      Empty(T) == IF T.aggs[b].cfg.empty THEN T
                  ELSE IF T.aggs[b].n_present = 0
                  THEN set_present(SetAgg(T, b, "force_active", FALSE), b, FALSE)
                  ELSE SetAgg(T, b, "force_active", FALSE)
  IN IF ~S.mems[b][d].present THEN S ELSE Empty(Primary(Gone(Disable(S))))

\* The other bridge that tried to claim the device tries again: both kinds of device
\* toggle the presence of a member they give up.
toggle_present(S, d) ==
  IF S.devs[d].present THEN set_present(set_present(S, d, FALSE), d, TRUE) ELSE S

\* Mutant: nobody tells the other bridge.
free_member_Silent(S, b, d) ==
  LET S1 == call(SetMem(S, b, d, "exists", FALSE), "remove_member", Member(b, d), None)
  IN [device_remove_user(S1, Member(b, d)) EXCEPT !.mems[b][d] = NoMember]

\* bridge_free_member() and bonding_free_port(); vlist_delete() has unlinked the node.
free_member(S, b, d) ==
  LET S1 == call(SetMem(S, b, d, "exists", FALSE), "remove_member", Member(b, d), None)
      S2 == [device_remove_user(S1, Member(b, d)) EXCEPT !.mems[b][d] = NoMember]
  IN toggle_present(S2, d)

check_retry(S, b) == IF S.aggs[b].n_failed THEN SetAgg(S, b, "retry", TRUE) ELSE S

\* The device is here: both callbacks begin with this.
member_appeared(S, b, d) ==
  LET S1 == [S EXCEPT !.mems[b][d].present = TRUE, !.aggs[b].n_present = @ + 1]
  IN IF S1.aggs[b].n_present = 1 THEN set_present(S1, b, TRUE) ELSE S1

\* The part of the callback that ADD and AUTH_UP share.
member_enable(S, b, d) ==
  IF S.devs[b].active > 0 THEN call(S, "enable_member", Member(b, d), None) ELSE S

bridge_member_cb(S, b, d, ev) ==
  LET m == S.mems[b][d]
      S1 == [S EXCEPT !.failed = @ \/ m.present]
  IN CASE ev = "DEV_EVENT_ADD" -> member_enable(member_appeared(S1, b, d), b, d)
       [] ev = "DEV_EVENT_AUTH_UP" -> member_enable(S, b, d)
       [] ev = "DEV_EVENT_LINK_DOWN" ->
            IF d \in Auth THEN bridge_disable_member(S, b, d, TRUE) ELSE S
       [] ev = "DEV_EVENT_REMOVE" ->
            IF m.hotplug THEN call(S, "free_member", Member(b, d), None)
            ELSE bridge_remove_member(S, b, d)
       [] OTHER -> S

bridge_set_down(S, b) ==
  LET S1 == each(system_set_state(S, b, FALSE), "disable_member", Members(S, b), None)
  IN Ret(bridge_disable_interface(S1, b), 0)

bridge_set_up(S, b) ==
  LET Undo(T) == IF T.ret # 0 THEN Ret(bridge_set_down(T, b), -1) ELSE T
      Up(T) == Undo(system_set_state(bridge_reset_primary(T, b), b, TRUE))
      Members_up(T) ==
        check_retry(each(SetAgg(T, b, "n_failed", FALSE), "enable_member", Members(T, b), None), b)
      Check(T) == IF ~T.aggs[b].force_active /\ T.aggs[b].n_present = 0
                  THEN Ret(set_present(bridge_disable_interface(T, b), b, FALSE), -1)
                  ELSE Up(T)
      Empty(T) == IF T.ret # 0 THEN T ELSE Check(Members_up(T))
  IN IF S.aggs[b].n_present > 0 THEN Check(Members_up(S))
     ELSE IF ~S.aggs[b].force_active THEN Ret(S, -1)
     ELSE Empty(bridge_enable_interface(S, b))
-----------------------------------------------------------------------------
(***************************************************************************)
(* bonding.c                                                               *)
(***************************************************************************)

\* A bonding device with a configured address has a primary port all the same.
bonding_reset_primary(S, b) ==
  LET p == FirstPresent(S, b)
  IN [S EXCEPT !.aggs[b].primary = p,
               !.aggs[b].macaddr = IF S.aggs[b].cfg.mac THEN "config" ELSE p]

bonding_disable_port(S, b, d, keep_dev) ==
  LET m == S.mems[b][d]
      S1 == system_bonding_set_port(SetMem(S, b, d, "active", FALSE), b, d, FALSE)
  IN IF ~m.present \/ ~m.active THEN S
     ELSE IF keep_dev THEN S1 ELSE release(S1, Member(b, d))

bonding_remove_port(S, b, d) ==
  LET Disable(T) == IF T.devs[b].active > 0 THEN bonding_disable_port(T, b, d, FALSE) ELSE T
      Gone(T) == [T EXCEPT !.mems[b][d].present = FALSE, !.aggs[b].n_present = @ - 1]
      Primary(T) == IF T.aggs[b].primary = d THEN bonding_reset_primary(T, b) ELSE T
      Empty(T) == IF T.aggs[b].n_present = 0
                  THEN set_present(SetAgg(T, b, "force_active", FALSE), b, FALSE)
                  ELSE SetAgg(T, b, "force_active", FALSE)
  IN IF ~S.mems[b][d].present THEN S ELSE Empty(Primary(Gone(Disable(S))))

bonding_set_active(S, b, active) ==
  IF S.aggs[b].up = active THEN Ret(S, 0)
  ELSE IF active THEN IF <<b, "addbr">> \in S.fail THEN Fail(S)
                      ELSE Ret(SetAgg(S, b, "up", TRUE), 0)
  ELSE Ret(SetAgg(system_delbr(S, b), b, "up", FALSE), 0)

\* Unlike a bridge, a port that cannot be claimed stays present and is not counted.
bonding_enable_port(S, b, d) ==
  LET Added(T) == Ret(set_present(SetMem(T, b, d, "active", TRUE), b, TRUE), 0)
      Active(T) == IF T.ret # 0 THEN Ret(release(T, Member(b, d)), -1)
                   ELSE IF Unauthorized(T, d) THEN Ret(T, -1)
                   ELSE IF T.mems[b][d].active THEN Ret(T, 0)
                   ELSE Added(system_bonding_set_port(T, b, d, TRUE))
      Claimed(T) == IF T.ret # 0 THEN T ELSE Active(bonding_set_active(T, b, TRUE))
  IN IF ~S.mems[b][d].present THEN Ret(S, 0) ELSE Claimed(claim(S, Member(b, d)))

bonding_port_cb(S, b, d, ev) ==
  LET m == S.mems[b][d]
  IN CASE ev = "DEV_EVENT_ADD" ->
            IF m.present THEN S ELSE member_enable(member_appeared(S, b, d), b, d)
       [] ev = "DEV_EVENT_AUTH_UP" -> member_enable(S, b, d)
       [] ev = "DEV_EVENT_LINK_DOWN" ->
            IF d \in Auth THEN bonding_disable_port(S, b, d, TRUE) ELSE S
       [] ev = "DEV_EVENT_REMOVE" ->
            IF m.hotplug THEN call(S, "free_member", Member(b, d), None)
            ELSE bonding_remove_port(S, b, d)
       [] OTHER -> S

bonding_set_down(S, b) ==
  LET S1 == each(system_set_state(S, b, FALSE), "disable_member", Members(S, b), None)
  IN Ret(bonding_set_active(S1, b, FALSE), 0)

bonding_set_up(S, b) ==
  LET Undo(T) == IF T.ret # 0 THEN Ret(bonding_set_down(T, b), -1) ELSE T
      Up(T) == Undo(system_set_state(bonding_reset_primary(T, b), b, TRUE))
      Ports_up(T) ==
        check_retry(each(SetAgg(T, b, "n_failed", FALSE), "enable_member", Members(T, b), None), b)
      Check(T) == IF ~T.aggs[b].force_active /\ T.aggs[b].n_present = 0
                  THEN Ret(set_present(bonding_set_active(T, b, FALSE), b, FALSE), -1)
                  ELSE Up(T)
      Empty(T) == IF T.ret # 0 THEN T ELSE Check(Ports_up(T))
  IN IF S.aggs[b].n_present > 0 THEN Check(Ports_up(S))
     ELSE IF ~S.aggs[b].force_active THEN Ret(S, -1)
     ELSE Empty(bonding_set_active(S, b, TRUE))
-----------------------------------------------------------------------------
(***************************************************************************)
(* Configuration, hotplug and retries, the same in both files.             *)
(***************************************************************************)

\* bridge_create_member() and bonding_create_port(): vlist_add() keeps the node of a
\* member that exists and gives it the version of the tree.
create_member(S, b, d, hotplug) ==
  IF S.mems[b][d].exists THEN SetMem(S, b, d, "pinned", hotplug)
  ELSE device_add_user([S EXCEPT !.mems[b][d] =
         [NoMember EXCEPT !.exists = TRUE, !.hotplug = hotplug, !.pinned = hotplug]],
         Member(b, d))

\* Mutant: a hotplugged member is flushed like one that is configured no more.
Flushed_Hotplugged(S, b) ==
  SelectSeq(Members(S, b), LAMBDA u : u[2] \notin S.aggs[b].cfg.ports)

\* What vlist_flush() deletes: the nodes the configuration did not renew.
Flushed(S, b) ==
  SelectSeq(Members(S, b), LAMBDA u : ~S.mems[b][u[2]].pinned /\ u[2] \notin S.aggs[b].cfg.ports)

Ports(S, b) ==
  LET ds == SelectSeq(DevOrder, LAMBDA d : d \in S.aggs[b].cfg.ports)
  IN [k \in DOMAIN ds |-> Member(b, ds[k])]

\* bridge_config_init() and bonding_config_init().
config_init(S, b) ==
  LET Force(T) == IF T.aggs[b].cfg.empty
                  THEN set_present(SetAgg(T, b, "force_active", TRUE), b, TRUE) ELSE T
      Add(T) == each(SetAgg(T, b, "n_failed", FALSE), "create_member", Ports(T, b), FALSE)
      Flush(T) == each(T, "free_member", Flushed(T, b), None)
  IN check_retry(Flush(Add(Force(S))), b)

\* bridge_reload() and bonding_reload(), before the members are looked at.
apply_settings(S, b, c) ==
  [S EXCEPT !.aggs[b].cfg = c,
            !.aggs[b].primary = IF c.mac THEN None ELSE @,
            !.aggs[b].macaddr = IF c.mac THEN "config" ELSE None]

\* device_apply_config(): what is not about the ports takes a restart, which brings
\* the device down and up below an interface that may still be using it.
device_apply_config(S, b, c) ==
  LET restart == S.aggs[b].cfg.empty # c.empty \/ S.aggs[b].cfg.mac # c.mac
      Toggle(T) == IF T.devs[b].active > 0
                   THEN call(call(T, "set_state", b, FALSE), "set_state", b, TRUE) ELSE Ret(T, 0)
      Back(T) == IF T.ret = 0 THEN set_present(T, b, TRUE) ELSE T
      Restart(T) == IF restart /\ T.devs[b].present
                    THEN Back(Toggle(set_present(T, b, FALSE))) ELSE T
  IN Restart(config_init(apply_settings(S, b, c), b))

\* bridge_create(), bonding_create(): what the kernel still has of that name is deleted,
\* the members are added when the whole file has been read.
device_create(S, b, c) ==
  IF S.aggs[b].alive THEN device_apply_config(S, b, c)
  ELSE apply_settings([system_delbr(S, b) EXCEPT
                         !.aggs[b] = [NoAgg EXCEPT !.alive = TRUE, !.pending = TRUE]], b, c)

device_init_pending(S, b) ==
  IF S.aggs[b].pending THEN SetAgg(config_init(S, b), b, "pending", FALSE) ELSE S

\* bridge_hotplug_prepare(), bonding_hotplug_prepare().
hotplug_prepare(S, b) == set_present(SetAgg(S, b, "force_active", TRUE), b, TRUE)

\* interface_handle_link() of a device that is added, and bridge_hotplug_add().
hotplug_add(S, b, d) ==
  LET S1 == set_present(S, d, TRUE)
  IN IF S1.mems[b][d].exists THEN S1 ELSE create_member(S1, b, d, TRUE)

hotplug_del(S, b, d) ==
  IF S.mems[b][d].exists /\ S.mems[b][d].hotplug THEN free_member(S, b, d) ELSE S

\* One member of the loop of bridge_retry_members() and bonding_retry_ports().
retry_member(S, b, d) ==
  IF S.mems[b][d].present \/ ~S.devs[d].present THEN S
  ELSE call([S EXCEPT !.mems[b][d].present = TRUE, !.aggs[b].n_present = @ + 1],
            "enable_member", Member(b, d), None)

retry_members(S, b) ==
  each([S EXCEPT !.aggs[b].retry = FALSE, !.aggs[b].n_failed = FALSE],
       "retry_member", Members(S, b), None)

\* bridge_free(), bonding_free(): uloop_timeout_cancel() of the retry timer is missing,
\* see the README.
free_agg(S, b) ==
  LET S1 == each(S, "free_member", Members(S, b), None)
  IN [S1 EXCEPT !.aggs[b] = NoAgg, !.devs[b] = NoDev]
-----------------------------------------------------------------------------
(***************************************************************************)
(* interface.c, as far as the device below sees it (Netifd has the rest):  *)
(* the interface claims a device that is present when it is to be up, and  *)
(* releases it when it is gone or no more wanted, a handler that takes     *)
(* time to tear down only afterwards.                                      *)
(***************************************************************************)

SetIface(S, b, f, v) == [S EXCEPT !.ifaces[b][f] = v]

interface_set_up(S, b) ==
  LET Check(T) == IF T.ret = 0 THEN SetIface(T, b, "state", "IFS_UP") ELSE T
  IN IF S.ifaces[b].state # "IFS_DOWN" \/ ~S.ifaces[b].available THEN S
     ELSE Check(claim(S, Iface(b)))

interface_set_down(S, b) ==
  CASE S.ifaces[b].state = "IFS_UP" /\ b \in Async -> SetIface(S, b, "state", "IFS_TEARDOWN")
    [] S.ifaces[b].state = "IFS_TEARDOWN" -> S
    [] OTHER -> release(SetIface(S, b, "state", "IFS_DOWN"), Iface(b))

interface_main_dev_cb(S, b, ev) ==
  LET S1 == SetIface(S, b, "available", ev = "DEV_EVENT_ADD")
  IN IF ev \notin {"DEV_EVENT_ADD", "DEV_EVENT_REMOVE"} \/ S1 = S THEN S
     ELSE IF ev = "DEV_EVENT_REMOVE" THEN interface_set_down(S1, b)
     ELSE IF S.ifaces[b].autostart /\ ~S.config_init THEN interface_set_up(S1, b) ELSE S1

\* An interface that is new in the file is attached to its device.
interface_attach(S, b) ==
  IF S.ifaces[b].attached THEN S
  ELSE device_add_user([S EXCEPT !.ifaces[b] = [NoIface EXCEPT !.attached = TRUE, !.autostart = TRUE]],
                       Iface(b))

\* An interface that has left the file is taken down and freed.
interface_detach(S, b) ==
  IF ~S.ifaces[b].attached THEN S
  ELSE [device_remove_user(interface_set_down(S, b), Iface(b)) EXCEPT !.ifaces[b] = NoIface]

start_pending(S, b) == IF S.ifaces[b].autostart THEN interface_set_up(S, b) ELSE S
-----------------------------------------------------------------------------
IsBridge(x) == Kind[x] = "bridge"

set_state(S, x, up) ==
  IF x \in Dev THEN system_set_state(S, x, up)
  ELSE IF IsBridge(x) THEN IF up THEN bridge_set_up(S, x) ELSE bridge_set_down(S, x)
  ELSE IF up THEN bonding_set_up(S, x) ELSE bonding_set_down(S, x)

user_cb(S, u, ev) ==
  IF u \notin Agg \X Dev THEN interface_main_dev_cb(S, u[2], ev)
  ELSE IF IsBridge(u[1]) THEN bridge_member_cb(S, u[1], u[2], ev)
  ELSE bonding_port_cb(S, u[1], u[2], ev)

\* A function of the members of both kinds.
member_fn(S, fn, b, d) ==
  CASE fn = "enable_member" ->
         IF IsBridge(b) THEN bridge_enable_member(S, b, d) ELSE bonding_enable_port(S, b, d)
    [] fn = "disable_member" ->
         IF IsBridge(b) THEN bridge_disable_member(S, b, d, FALSE)
         ELSE bonding_disable_port(S, b, d, FALSE)
    [] fn = "remove_member" ->
         IF IsBridge(b) THEN bridge_remove_member(S, b, d) ELSE bonding_remove_port(S, b, d)
    [] fn = "free_member" -> free_member(S, b, d)
    [] fn = "retry_member" -> retry_member(S, b, d)

call(S, fn, x, arg) ==
  CASE fn = "device_claim" -> device_claim(S, x)
    [] fn = "device_release" -> device_release(S, x)
    [] fn = "device_set_present" -> device_set_present(S, x, arg)
    [] fn = "set_state" -> set_state(S, x, arg)
    [] fn = "user_cb" -> user_cb(S, x, arg)
    [] fn = "create_member" -> create_member(S, x[1], x[2], arg)
    [] fn = "device_create" -> IF x \in DOMAIN arg THEN device_create(S, x, arg[x]) ELSE S
    [] fn = "device_init_pending" -> device_init_pending(S, x)
    [] fn = "interface_attach" -> IF x \in DOMAIN arg THEN interface_attach(S, x) ELSE S
    [] fn = "interface_detach" -> IF x \in DOMAIN arg THEN S ELSE interface_detach(S, x)
    [] fn = "start_pending" -> start_pending(S, x)
    [] OTHER -> member_fn(S, fn, x[1], x[2])

\* config_init_all().
config_init_all(S, c) ==
  LET Read(T) == each(each(T, "device_create", FileOrder, c), "interface_attach", FileOrder, c)
      Init_(T) == each([T EXCEPT !.config_init = FALSE], "device_init_pending", FileOrder, None)
      Flush(T) == each(T, "interface_detach", FileOrder, c)
  IN each(Flush(Init_(Read([S EXCEPT !.config_init = TRUE]))), "start_pending", FileOrder, None)
-----------------------------------------------------------------------------
\* One event of the main loop: F is what it makes the daemon do.
Event(F(_)) ==
  \E fail \in {{}} \cup (IF faults < MaxFaults THEN {{f} : f \in MayFail} ELSE {}) :
    LET T == F(S0(fail))
    IN /\ devs' = T.devs /\ users' = T.users /\ claimed' = T.claimed
       /\ aggs' = T.aggs /\ mems' = T.mems /\ master' = T.master
       /\ ifaces' = T.ifaces /\ failed' = T.failed
       /\ faults' = faults + Cardinality(fail)
       /\ fail # {} => T.hit

Init ==
  /\ devs = [x \in Dev \cup Agg |-> NoDev]
  /\ users = [x \in Dev \cup Agg |-> <<>>]
  /\ claimed = {}
  /\ aggs = [b \in Agg |-> NoAgg]
  /\ mems = [b \in Agg |-> [d \in Dev |-> NoMember]]
  /\ master = [d \in Dev |-> None]
  /\ ifaces = [b \in Agg |-> NoIface]
  /\ failed = FALSE /\ stray = {} /\ faults = 0 /\ reloads = 0

Reload(c) ==
  /\ reloads < MaxReloads
  /\ reloads' = reloads + 1
  /\ UNCHANGED stray
  /\ Event(LAMBDA S : config_init_all(S, c))

Plug(d) ==
  /\ ~devs[d].present
  /\ Event(LAMBDA S : device_set_present(S, d, TRUE))
  /\ UNCHANGED <<stray, reloads>>

\* The kernel takes a device that disappears out of its bridge.
Unplug(d) ==
  /\ devs[d].present
  /\ Event(LAMBDA S : device_set_present([S EXCEPT !.master[d] = None], d, FALSE))
  /\ UNCHANGED <<stray, reloads>>

Link(d, b) ==
  /\ d \in Auth /\ devs[d].present /\ devs[d].link_active # b
  /\ Event(LAMBDA S : device_set_link(S, d, b))
  /\ UNCHANGED <<stray, reloads>>

SetAuth(d, b) ==
  /\ d \in Auth /\ devs[d].auth_status # b /\ devs[d].link_active
  /\ Event(LAMBDA S : device_set_auth_status(S, d, b))
  /\ UNCHANGED <<stray, reloads>>

HotplugAdd(b, d) ==
  /\ ifaces[b].attached /\ b \in Admin /\ d \in Hotplug
  /\ ~devs[d].present \/ ~mems[b][d].exists
  /\ Event(LAMBDA S : hotplug_add(S, b, d))
  /\ UNCHANGED <<stray, reloads>>

HotplugDel(b, d) ==
  /\ ifaces[b].attached /\ b \in Admin /\ mems[b][d].hotplug
  /\ Event(LAMBDA S : hotplug_del(S, b, d))
  /\ UNCHANGED <<stray, reloads>>

Prepare(b) ==
  /\ ifaces[b].attached /\ b \in Admin
  /\ ~aggs[b].force_active \/ ~devs[b].present
  /\ Event(LAMBDA S : hotplug_prepare(S, b))
  /\ UNCHANGED <<stray, reloads>>

Retry(b) ==
  /\ aggs[b].retry
  /\ Event(LAMBDA S : retry_members(S, b))
  /\ stray' = IF aggs'[b].up /\ devs'[b].active = 0 THEN stray \cup {b} ELSE stray
  /\ UNCHANGED reloads

\* ubus: the interface is set up or down.
IfUp(b) ==
  /\ ifaces[b].attached /\ b \in Admin
  /\ ~ifaces[b].autostart \/ (ifaces[b].state = "IFS_DOWN" /\ ifaces[b].available)
  /\ Event(LAMBDA S : interface_set_up(SetIface(S, b, "autostart", TRUE), b))
  /\ UNCHANGED <<stray, reloads>>

IfDown(b) ==
  /\ ifaces[b].attached /\ b \in Admin
  /\ ifaces[b].autostart \/ ifaces[b].state = "IFS_UP"
  /\ Event(LAMBDA S : interface_set_down(SetIface(S, b, "autostart", FALSE), b))
  /\ UNCHANGED <<stray, reloads>>

\* The handler reports the end of the teardown: the device is released, and claimed
\* again if the interface is still to be up.
TeardownDone(b) ==
  /\ ifaces[b].state = "IFS_TEARDOWN"
  /\ Event(LAMBDA S : start_pending(release(SetIface(S, b, "state", "IFS_DOWN"), Iface(b)), b))
  /\ UNCHANGED <<stray, reloads>>

\* __device_free_unused().
FreeUnused(b) ==
  /\ aggs[b].alive /\ ~ifaces[b].attached
  /\ Event(LAMBDA S : free_agg(S, b))
  /\ UNCHANGED <<stray, reloads>>

Next ==
  \/ \E c \in Config : Reload(c)
  \/ \E d \in Dev : Plug(d) \/ Unplug(d) \/ \E b \in BOOLEAN : Link(d, b) \/ SetAuth(d, b)
  \/ \E b \in Agg :
       \/ Prepare(b) \/ Retry(b) \/ IfUp(b) \/ IfDown(b) \/ TeardownDone(b) \/ FreeUnused(b)
       \/ \E d \in Dev : HotplugAdd(b, d) \/ HotplugDel(b, d)

Spec == Init /\ [][Next]_vars
-----------------------------------------------------------------------------
\* The type invariant: counters, pointers and user lists have their types; a member
\* count is never negative nor larger than the number of devices.
TypeOK ==
  /\ devs \in [Dev \cup Agg -> [present : BOOLEAN, active : Nat, link_active : BOOLEAN,
                               auth_status : BOOLEAN]]
  /\ claimed \subseteq User
  /\ \A x \in Dev \cup Agg : ToSet(users[x]) \subseteq {u \in User : u[2] = x}
  /\ \A b \in Agg :
       /\ aggs[b].n_present \in 0..Cardinality(Dev)
       /\ aggs[b].n_failed \in BOOLEAN
       /\ aggs[b].primary \in Dev \cup {None}
       /\ aggs[b].macaddr \in Dev \cup {None, "config"}
  /\ master \in [Dev -> Agg \cup {None}]

\* The assert()s of bridge_member_cb() and device_release() never fail: a member is not
\* told twice that its device has appeared, whatever was retried, toggled and moved in
\* between, and no device is released more often than it was claimed.
AssertsHold == ~failed

\* The claim count of every device, member or bridge, is the number of users that hold
\* a claim, also after claims that failed inside other claims.
ClaimsCounted ==
  \A x \in Dev \cup Agg : devs[x].active = Cardinality({u \in claimed : u[2] = x})

\* n_present, which decides whether a bridge exists at all, counts exactly the members
\* that are present, through failures, retries and members that leave.
PresentCounted ==
  \A b \in Agg : aggs[b].n_present = Cardinality({d \in Dev : mems[b][d].present})

\* Claims, present members and failed members are counted right in bridge.c, bonding.c and
\* device.c, and no assert() of theirs fails, however claims, events and failures nest.
CountsAgree == TypeOK /\ AssertsHold /\ ClaimsCounted /\ PresentCounted

\* A member that is marked active is present, claimed, and really part of the bridge in
\* the kernel; for a bonding device, which does not look at the result, at least the
\* claim is there.  A bridge that was ever retried while nobody claimed it is excepted.
ActiveIsHeld ==
  \A b \in Agg \ stray, d \in Dev :
    mems[b][d].active =>
      /\ mems[b][d].present /\ Member(b, d) \in claimed /\ aggs[b].up
      /\ IsBridge(b) => master[d] = b

\* A bridge that nobody claims is not in the kernel and holds none of its members up,
\* after a claim that failed halfway too.  Members that wait for their authentication
\* stay claimed (bridge_disable_member() skips what is not active), and so does a bridge
\* that was retried while nobody claimed it.
ReleasedIsDown ==
  \A b \in Agg \ stray : devs[b].active = 0 =>
    ~aggs[b].up /\ \A d \in Dev \ Auth : Member(b, d) \notin claimed

\* The primary port that bonding_reload() follows is a port that has not been freed.
PrimaryIsAlive ==
  \A b \in Agg : ~IsBridge(b) /\ aggs[b].primary # None => mems[b][aggs[b].primary].exists

\* An aggregate holds the members it uses: an active port is claimed and in the kernel's
\* device, a released aggregate is down, and the primary port is one of its own.
HoldsWhatItUses == ActiveIsHeld /\ ReleasedIsDown /\ PrimaryIsAlive

\* A device that is a member of one bridge only is part of it whenever the bridge is up
\* and the device is there: also after a reload that moved it, in which the new bridge
\* tried to claim it before the old one had let it go, and after two bridges had it.
MovesComplete ==
  faults = 0 /\ stray = {} =>
    \A b \in Agg, d \in Dev :
      /\ devs[b].active > 0 /\ devs[d].present
      /\ mems[b][d].exists /\ \A c \in Agg \ {b} : ~mems[c][d].exists
      /\ d \in Auth => devs[d].auth_status
      => mems[b][d].active /\ master[d] = b

\* A bridge with a member that is present is present itself, so that the interface on
\* top of it does not wait for ever.
BridgeIsOffered ==
  \A b \in Agg \ stray : faults = 0 /\ aggs[b].n_present > 0 => devs[b].present

\* A configured port stays a member while its device comes and goes, fails and is taken
\* by others.  (One that was hotplugged before it was configured does not: the node that
\* vlist_add() keeps has the hotplug mark.)
ConfiguredIsMember ==
  \A b \in Agg : aggs[b].alive => \A d \in aggs[b].cfg.ports \ Hotplug : mems[b][d].exists

\* No member is lost: a device moved by a reload joins its new aggregate, a bridge with a
\* present member is offered to its interface, a configured device is a member.
MembersAreServed == MovesComplete /\ BridgeIsOffered /\ ConfiguredIsMember

\* A reload does not drop a hotplugged member, unless another bridge gives the same
\* device up (the presence it toggles looks like a removal) or the bridge is removed.
HotplugSurvives ==
  [][\A b \in Agg, d \in Dev :
       /\ reloads' # reloads /\ mems[b][d].pinned /\ ifaces'[b].attached
       /\ \A c \in Agg \ {b} : ~mems[c][d].exists
       => mems'[b][d].exists]_vars
=============================================================================
