------------------------------ MODULE BridgeVlan ------------------------------
(***************************************************************************)
(* The vlan filter of a bridge: bridge.c on the kernel's vlan table.       *)
(*                                                                         *)
(* The vlans of a bridge come from the file and, port by port, from ubus   *)
(* requests at run time.  The daemon never writes the table as a whole: it *)
(* adds and deletes single entries when a member joins or leaves, when a   *)
(* vlan is added, replaced or removed by a reload, and when a port is      *)
(* hotplugged, and keeps the port's pvid beside it.  This module has one   *)
(* bridge with an interface on top; claims that fail, authentication and   *)
(* several bridges are in Aggregate.                                       *)
(***************************************************************************)
EXTENDS Integers, Sequences, FiniteSets, SequencesExt, Functions

CONSTANTS
  DevOrder,    \* the devices that can be members, in the order of their names
  Vid,         \* the vlan numbers
  Config,      \* the configurations: ports of the bridge, and per vlan its ports
  Hotplug,     \* the devices that are added at run time
  Request,     \* the vlan lists of hotplug requests, as functions from Vid to flags
  MaxReloads,  \* how often the configuration is loaded
  MaxLinks     \* how often the link of a port comes up

Dev == ToSet(DevOrder)
Flags == SUBSET {"untagged", "pvid"}
NoVids == [v \in {} |-> {}]
NoPorts == [d \in {} |-> {}]

ASSUME BridgeVlanAssumption ==
  /\ IsInjective(DevOrder) /\ Vid \subseteq Nat \ {0}
  /\ \A c \in Config :
       /\ c.ports \subseteq Dev /\ DOMAIN c.vlans \subseteq Vid
       /\ \A v \in DOMAIN c.vlans :
            /\ DOMAIN c.vlans[v].ports \subseteq Dev
            /\ \A d \in DOMAIN c.vlans[v].ports : c.vlans[v].ports[d] \in Flags
            /\ c.vlans[v].local \in BOOLEAN
  /\ \A r \in Request : DOMAIN r \subseteq Vid /\ \A v \in DOMAIN r : r[v] \in Flags
  /\ Hotplug \subseteq Dev
  /\ MaxReloads \in Nat /\ MaxLinks \in Nat

NoMember == [exists |-> FALSE, hotplug |-> FALSE, pinned |-> FALSE, present |-> FALSE,
             active |-> FALSE, pvid |-> 0, check |-> FALSE]
NoPort == [master |-> FALSE, tab |-> NoVids, pvid |-> 0]

VARIABLES
  there,   \* the devices that are present
  mems,    \* per device: struct bridge_member; pinned: its node has version -1;
           \* check: check_timer runs
  vlans,   \* dev.vlans: per vlan number struct bridge_vlan; pinned: version -1
  bridge,  \* struct bridge_state: ports, up (active), has_vlans, config_pending, whether
           \* the interface holds its claim, and whether __has_vlans was in its config
  iface,   \* the interface on top: wanted (autostart), state
  async,   \* its handler takes time to tear down
  kernel,  \* per device: in the bridge, its vlans (true: untagged), its pvid
  self,    \* the vlans of the bridge device itself
  stray,   \* history: check_timer has brought the bridge up although nobody claims it
  clash,   \* history: devices the file and a request gave a port of the same vlan
  reloads, links  \* counters

vars == <<there, mems, vlans, bridge, iface, async, kernel, self, stray, clash, reloads, links>>

S0 == [there |-> there, mems |-> mems, vlans |-> vlans, bridge |-> bridge, iface |-> iface,
       kernel |-> kernel, self |-> self, config_init |-> FALSE]

\* The functions of the bridge by their names; x is what they work on.
RECURSIVE call(_, _, _)

each(S, fn, list) == FoldLeft(LAMBDA T, x : call(T, fn, x), S, list)

Vids(S) == SetToSortSeq(DOMAIN S.vlans, <)
Members(S) == SelectSeq(DevOrder, LAMBDA d : S.mems[d].exists)
NPresent(S) == Cardinality({d \in Dev : S.mems[d].present})
-----------------------------------------------------------------------------
(***************************************************************************)
(* The kernel.                                                             *)
(***************************************************************************)

\* system_bridge_vlan() for a port: a port that is in no bridge has no table; an entry
\* that is added again takes the new flags; an entry that goes takes the pvid along.
system_bridge_vlan(S, d, v, add, flags) ==
  LET k == S.kernel[d]
      tab == IF add THEN [w \in DOMAIN k.tab \cup {v} |-> IF w = v THEN flags \cap {"untagged"} ELSE k.tab[w]]
             ELSE Restrict(k.tab, DOMAIN k.tab \ {v})
      pvid == IF add /\ "pvid" \in flags THEN v ELSE IF k.pvid = v THEN 0 ELSE k.pvid
  IN IF ~k.master THEN S ELSE [S EXCEPT !.kernel[d].tab = tab, !.kernel[d].pvid = pvid]

\* A port that joins gets the default vlan 1.
system_bridge_addif(S, d) ==
  [S EXCEPT !.kernel[d] = [master |-> TRUE, tab |-> [v \in {1} |-> {"untagged"}], pvid |-> 1]]

system_bridge_delif(S, d) == [S EXCEPT !.kernel[d] = NoPort]
-----------------------------------------------------------------------------
(***************************************************************************)
(* Ports of a vlan.                                                        *)
(***************************************************************************)

\* bridge_find_vlan_member_port(): the port in the file hides the hotplugged one.
HasPort(vlan, d) == d \in DOMAIN vlan.ports \cup DOMAIN vlan.hotplug_ports
Port(vlan, d) == IF d \in DOMAIN vlan.ports THEN vlan.ports[d] ELSE vlan.hotplug_ports[d]

\* Mutant: an untagged vlan does not become the pvid by itself.
bridge_member_vlan_is_pvid_Marked(S, d, flags) == "pvid" \in flags

bridge_member_vlan_is_pvid(S, d, flags) ==
  (S.mems[d].pvid = 0 /\ "untagged" \in flags) \/ "pvid" \in flags

\* __bridge_set_member_vlan().
set_member_vlan(S, d, v, flags, add) ==
  system_bridge_vlan(S, d, v, add, IF S.mems[d].pvid = v THEN flags \cup {"pvid"} ELSE flags)

bridge_set_member_vlan(S, d, v, vlan, add) ==
  LET flags == Port(vlan, d)
      S1 == IF bridge_member_vlan_is_pvid(S, d, flags) THEN [S EXCEPT !.mems[d].pvid = v] ELSE S
  IN IF ~S.mems[d].present \/ ~HasPort(vlan, d) THEN S
     ELSE set_member_vlan(S1, d, v, flags, add)

set_member_vlans(S, d, add) ==
  FoldLeft(LAMBDA T, v : call(T, "bridge_set_member_vlan", <<d, v, T.vlans[v], add>>), S, Vids(S))

bridge_set_local_vlan(S, v, vlan, add) ==
  IF add THEN IF vlan.local THEN [S EXCEPT !.self = @ \cup {v}] ELSE S
  ELSE [S EXCEPT !.self = @ \ {v}]

\* bridge_recalc_member_pvid(): the first vlan that says pvid, else the last one that
\* qualifies; 0 for none.
bridge_recalc_member_pvid(S, d) ==
  LET q == SelectSeq(Vids(S), LAMBDA v : HasPort(S.vlans[v], d) /\
                              bridge_member_vlan_is_pvid(S, d, Port(S.vlans[v], d)))
      p == SelectSeq(q, LAMBDA v : "pvid" \in Port(S.vlans[v], d))
  IN IF p # <<>> THEN Head(p) ELSE IF q # <<>> THEN Last(q) ELSE 0

\* One member in the loop of bridge_set_vlan_state(); a replaced vlan may find its own
\* successor in the tree.
set_port_state(S, d, v, vlan, add) ==
  LET flags == Port(vlan, d)
      S1 == IF bridge_member_vlan_is_pvid(S, d, flags) THEN [S EXCEPT !.mems[d].pvid = v] ELSE S
      lost == ~add /\ S.mems[d].pvid = v
      new == bridge_recalc_member_pvid(S, d)
      S2 == IF lost /\ new \notin {0, v}
            THEN each(S, "bridge_set_member_vlan",
                      <<<<d, new, S.vlans[new], FALSE>>, <<d, new, S.vlans[new], TRUE>>>>)
            ELSE S
      S3 == set_member_vlan(IF add THEN S1 ELSE S2, d, v, flags, add)
  IN IF ~HasPort(vlan, d) THEN S
     ELSE IF ~S.mems[d].present THEN IF add THEN S1 ELSE S2
     ELSE IF lost THEN [S3 EXCEPT !.mems[d].pvid = new] ELSE S3

bridge_set_vlan_state(S, v, vlan, add) ==
  FoldLeft(LAMBDA T, d : call(T, "set_port_state", <<d, v, vlan, add>>),
           bridge_set_local_vlan(S, v, vlan, add), Members(S))
-----------------------------------------------------------------------------
(***************************************************************************)
(* Members, and the bridge going up and down.                              *)
(***************************************************************************)

bridge_disable_member(S, d) ==
  IF ~S.mems[d].present \/ ~S.mems[d].active THEN S
  ELSE system_bridge_delif(set_member_vlans([S EXCEPT !.mems[d].active = FALSE], d, FALSE), d)

bridge_enable_interface(S) ==
  IF S.bridge.up THEN S
  ELSE [S EXCEPT !.bridge.up = TRUE,
                 !.self = IF S.bridge.has_vlans THEN {v \in DOMAIN S.vlans : S.vlans[v].local}
                          ELSE {1}]

\* Mutant: the default vlan of a new port is left in place.
bridge_enable_member_KeepsDefault(S, d) ==
  LET S1 == [bridge_enable_interface(S) EXCEPT !.mems[d].active = TRUE]
      Filter(T) == IF T.bridge.has_vlans THEN set_member_vlans(T, d, TRUE) ELSE T
  IN IF ~S.mems[d].present \/ S.mems[d].active THEN S ELSE Filter(system_bridge_addif(S1, d))

\* bridge_enable_member(), with the default vlan replaced by the configured ones.
bridge_enable_member(S, d) ==
  LET S1 == [bridge_enable_interface(S) EXCEPT !.mems[d].active = TRUE]
      Filter(T) == IF ~T.bridge.has_vlans THEN T
                   ELSE set_member_vlans(system_bridge_vlan(T, d, 1, FALSE, {}), d, TRUE)
  IN IF ~S.mems[d].present \/ S.mems[d].active THEN S ELSE Filter(system_bridge_addif(S1, d))

bridge_set_down(S) ==
  [each(S, "bridge_disable_member", Members(S)) EXCEPT !.bridge.up = FALSE, !.self = {}]

bridge_set_up(S) ==
  each([S EXCEPT !.bridge.has_vlans = DOMAIN S.vlans # {}], "bridge_enable_member", Members(S))

\* The interface claims the bridge: interface_set_up() and device_claim().
interface_set_up(S) ==
  IF NPresent(S) = 0 \/ S.iface.state # "IFS_DOWN" THEN S
  ELSE [call([S EXCEPT !.bridge.claimed = TRUE], "set_state", TRUE) EXCEPT !.iface.state = "IFS_UP"]

release(S) ==
  IF S.bridge.claimed THEN call([S EXCEPT !.bridge.claimed = FALSE], "set_state", FALSE) ELSE S

interface_set_down(S) ==
  IF S.iface.state # "IFS_UP" THEN S
  ELSE IF async THEN [S EXCEPT !.iface.state = "IFS_TEARDOWN"]
  ELSE release([S EXCEPT !.iface.state = "IFS_DOWN"])

start_pending(S) == IF S.iface.wanted THEN interface_set_up(S) ELSE S

\* bridge_member_cb(DEV_EVENT_ADD): the first member makes the bridge present.
member_appeared(S, d) ==
  LET S1 == [S EXCEPT !.mems[d].present = TRUE]
      S2 == IF NPresent(S1) = 1 /\ ~S.config_init THEN call(S1, "start_pending", d) ELSE S1
  IN IF S2.bridge.claimed THEN call(S2, "bridge_enable_member", d) ELSE S2

\* bridge_remove_member(): the last one takes the bridge along.
bridge_remove_member(S, d) ==
  LET S1 == [(IF S.bridge.claimed THEN call(S, "bridge_disable_member", d) ELSE S)
               EXCEPT !.mems[d].present = FALSE]
  IN IF ~S.mems[d].present THEN S
     ELSE IF NPresent(S1) = 0 THEN call(S1, "interface_set_down", d) ELSE S1
-----------------------------------------------------------------------------
(***************************************************************************)
(* The tree of vlans.                                                      *)
(***************************************************************************)

\* bridge_vlan_equal(): option local is not compared.
bridge_vlan_equal(a, b) == a.ports = b.ports

Splice(old, new) ==
  [new EXCEPT !.hotplug_ports = [d \in DOMAIN @ \cup DOMAIN old.hotplug_ports |->
     IF d \in DOMAIN @ THEN @[d] ELSE old.hotplug_ports[d]]]

\* vlist_add() and bridge_vlan_update(): the new node is in the tree when the old one is
\* taken out of the kernel.  While the bridge is down the old one, and the hotplugged
\* ports it has, are lost.
bridge_vlan_update(S, v, vlan) ==
  LET exists == v \in DOMAIN S.vlans
      old == S.vlans[v]
      live == S.bridge.has_vlans /\ S.bridge.up
      same == exists /\ bridge_vlan_equal(old, vlan)
      Put(T, w) == [T EXCEPT !.vlans = [x \in DOMAIN @ \cup {v} |-> IF x = v THEN w ELSE @[x]]]
      Unset(T) == IF exists THEN call(T, "bridge_set_vlan_state", <<v, old, FALSE>>) ELSE T
  IN IF ~live THEN Put(S, vlan)
     ELSE IF same THEN Put(S, Splice(old, vlan))
     ELSE [Put(Unset(Put(S, vlan)),
               [(IF exists THEN Splice(old, vlan) ELSE vlan) EXCEPT !.pending = TRUE])
             EXCEPT !.bridge.config_pending = TRUE]

vlan_add(S, v, vlan) == bridge_vlan_update(S, v, vlan)

vlan_delete(S, v) ==
  LET S1 == [S EXCEPT !.vlans = Restrict(@, DOMAIN @ \ {v})]
  IN IF S.bridge.has_vlans /\ S.bridge.up
     THEN [call(S1, "bridge_set_vlan_state", <<v, S.vlans[v], FALSE>>) EXCEPT !.bridge.config_pending = TRUE]
     ELSE S1

vlan_apply(S, v) ==
  IF S.vlans[v].pending
  THEN call([S EXCEPT !.vlans[v].pending = FALSE], "bridge_set_vlan_state", <<v, S.vlans[v], TRUE>>)
  ELSE S

\* bridge_free_member(): the hotplugged ports of the device go, and the vlans that had
\* nothing else; its presence is toggled for other bridges.
bridge_free_member(S, d) ==
  LET S1 == call([S EXCEPT !.mems[d].exists = FALSE], "bridge_remove_member", d)
      Strip(vlan) == [vlan EXCEPT !.hotplug_ports = Restrict(@, DOMAIN @ \ {d})]
      Empty(T, v) == /\ d \in DOMAIN S1.vlans[v].hotplug_ports
                     /\ T.vlans[v].hotplug_ports = NoPorts /\ T.vlans[v].ports = NoPorts
                     /\ T.vlans[v].pinned
      S2 == [S1 EXCEPT !.vlans = [v \in DOMAIN @ |-> Strip(@[v])]]
      S3 == each(S2, "vlan_delete", SelectSeq(Vids(S2), LAMBDA v : Empty(S2, v)))
  IN [S3 EXCEPT !.mems[d] = NoMember]

\* bridge_create_member(): an existing member is kept.
bridge_create_member(S, d, hotplug) ==
  LET S1 == [S EXCEPT !.mems[d] = [NoMember EXCEPT !.exists = TRUE, !.hotplug = hotplug,
                                                    !.pinned = hotplug]]
  IN IF S.mems[d].exists THEN [S EXCEPT !.mems[d].pinned = hotplug]
     ELSE IF d \in S.there THEN call(S1, "member_appeared", d) ELSE S1

\* bridge_config_init(): the ports of the bridge and of its vlans are its members.
Wanted(S) == S.bridge.ports \cup UNION {DOMAIN S.vlans[v].ports : v \in DOMAIN S.vlans}

bridge_config_init(S) ==
  LET Create(T) == each(T, "bridge_add_member", SelectSeq(DevOrder, LAMBDA d : d \in Wanted(S)))
      Old(T) == SelectSeq(Members(T), LAMBDA d : ~T.mems[d].pinned /\ d \notin Wanted(S))
      Flush(T) == each(T, "bridge_free_member", Old(T))
  IN Flush(Create(S))

\* bridge_reload() and device_apply_config(): a bridge that gets or loses its vlans is
\* restarted, with the vlans it had.
bridge_reload(S, c, restart) ==
  LET S1 == [S EXCEPT !.bridge.ports = c.ports, !.bridge.cfg_vlans = DOMAIN c.vlans # {}]
      change == restart \/ S.bridge.cfg_vlans # (DOMAIN c.vlans # {})
      Toggle(T) == IF T.bridge.claimed THEN each(T, "set_state", <<FALSE, TRUE>>) ELSE T
      Restart(T) == IF ~change \/ NPresent(T) = 0 THEN T
                    ELSE Toggle(call(T, "interface_set_down", c))
  IN Restart(call(S1, "bridge_config_init", c))

\* config_init_vlans() for the bridge.
config_init_vlans(S, c) ==
  LET New(v) == [ports |-> c.vlans[v].ports, local |-> c.vlans[v].local,
                 hotplug_ports |-> NoPorts, pending |-> FALSE, pinned |-> FALSE]
      Add(T) == FoldLeft(LAMBDA U, v : call(U, "vlan_add", <<v, New(v)>>), T,
                         SetToSortSeq(DOMAIN c.vlans, <))
      Old(T) == SelectSeq(Vids(T), LAMBDA v : v \notin DOMAIN c.vlans /\ ~T.vlans[v].pinned)
      Flush(T) == each(T, "vlan_delete", Old(T))
      Apply(T) == each(T, "vlan_apply", Vids(T))
  IN Apply(Flush(Add(S)))

\* Mutant: the ports of new vlans are not looked at.
device_init_pending_Skips(S) == IF reloads = 0 THEN call(S, "bridge_config_init", {}) ELSE S

device_init_pending(S) ==
  IF S.bridge.config_pending
  THEN [call(S, "bridge_config_init", {}) EXCEPT !.bridge.config_pending = FALSE] ELSE S

\* config_init_all(); on the first load bridge_create() leaves the members for later.
config_init_all(S, c, restart) ==
  LET First(T) == [T EXCEPT !.bridge.ports = c.ports, !.bridge.config_pending = TRUE,
                            !.bridge.cfg_vlans = DOMAIN c.vlans # {}]
      Read(T) == config_init_vlans(IF reloads = 0 THEN First(T) ELSE bridge_reload(T, c, restart), c)
      Done(T) == device_init_pending([T EXCEPT !.config_init = FALSE])
  IN start_pending(Done(Read([S EXCEPT !.config_init = TRUE])))
-----------------------------------------------------------------------------
(***************************************************************************)
(* Hotplug requests.                                                       *)
(***************************************************************************)

\* bridge_hotplug_get_vlan(): a vlan nobody configured is made for the port.
bridge_hotplug_get_vlan(S, v) ==
  IF v \in DOMAIN S.vlans THEN S
  ELSE [call(S, "vlan_add", <<v, [ports |-> NoPorts, local |-> TRUE, hotplug_ports |-> NoPorts,
                                   pending |-> FALSE, pinned |-> FALSE]>>) EXCEPT !.vlans[v].pinned = TRUE]

\* One entry of the loop of bridge_hotplug_set_member_vlans().
hotplug_set_vlan(S, d, v, flags, member, add) ==
  LET S1 == call(bridge_hotplug_get_vlan(S, v), "vlan_apply", v)
      hot == S1.vlans[v].hotplug_ports
      S2 == set_member_vlan(S1, d, v, hot[d], FALSE)
      Put(T) == [T EXCEPT !.vlans[v].hotplug_ports =
                   [x \in DOMAIN hot \cup {d} |-> IF x = d THEN flags ELSE hot[x]]]
  IN IF ~add THEN IF d \notin DOMAIN hot THEN S1
                  ELSE [S2 EXCEPT !.vlans[v].hotplug_ports = Restrict(hot, DOMAIN hot \ {d})]
     ELSE IF d \in DOMAIN hot /\ hot[d] = flags THEN S1
     ELSE IF d \in DOMAIN hot THEN set_member_vlan(Put(S2), d, v, flags, TRUE)
     ELSE IF member THEN set_member_vlan(Put(S1), d, v, flags, TRUE) ELSE Put(S1)

hotplug_set_vlans(S, d, req, member, add) ==
  FoldLeft(LAMBDA T, v : call(T, "hotplug_set_vlan", <<d, v, req[v], member, add>>), S,
           SetToSortSeq(DOMAIN req, <))

\* interface_handle_link() and bridge_hotplug_add().
bridge_hotplug_add(S, d, req) ==
  LET S1 == [S EXCEPT !.there = @ \cup {d}]
      S2 == IF S.mems[d].exists /\ d \notin S.there THEN call(S1, "member_appeared", d) ELSE S1
      S3 == hotplug_set_vlans(S2, d, req, S.mems[d].exists, TRUE)
  IN IF S.mems[d].exists THEN S3 ELSE bridge_create_member(S3, d, TRUE)

bridge_hotplug_del(S, d, req) ==
  LET S1 == hotplug_set_vlans(S, d, req, TRUE, FALSE)
  IN IF S.mems[d].hotplug THEN call(S1, "bridge_free_member", d) ELSE S1

\* system_bridge_vlan_check(): something in the port's table is not as configured.  An
\* entry whose vlan exists but does not list the port is not noticed.
system_bridge_vlan_check(S, d) ==
  LET k == S.kernel[d]
      Bad(v) == /\ HasPort(S.vlans[v], d)
                /\ \/ v \notin DOMAIN k.tab
                   \/ ("untagged" \in Port(S.vlans[v], d)) # (k.tab[v] # {})
                   \/ "pvid" \in Port(S.vlans[v], d) /\ k.pvid # v
  IN DOMAIN k.tab \ DOMAIN S.vlans # {} \/ \E v \in DOMAIN S.vlans : Bad(v)

\* bridge_member_check_cb().
bridge_member_check_cb(S, d) ==
  LET S1 == [S EXCEPT !.mems[d].check = FALSE]
  IN IF system_bridge_vlan_check(S, d)
     THEN call(call(S1, "bridge_disable_member", d), "bridge_enable_member", d) ELSE S1

\* set_state of the bridge.
bridge_set_state(S, up) == IF up THEN bridge_set_up(S) ELSE bridge_set_down(S)

call(S, fn, x) ==
  CASE fn = "bridge_set_member_vlan" -> bridge_set_member_vlan(S, x[1], x[2], x[3], x[4])
    [] fn = "set_port_state" -> set_port_state(S, x[1], x[2], x[3], x[4])
    [] fn = "bridge_set_vlan_state" -> bridge_set_vlan_state(S, x[1], x[2], x[3])
    [] fn = "bridge_disable_member" -> bridge_disable_member(S, x)
    [] fn = "bridge_enable_member" -> bridge_enable_member(S, x)
    [] fn = "set_state" -> bridge_set_state(S, x)
    [] fn = "start_pending" -> start_pending(S)
    [] fn = "interface_set_down" -> interface_set_down(S)
    [] fn = "member_appeared" -> member_appeared(S, x)
    [] fn = "bridge_remove_member" -> bridge_remove_member(S, x)
    [] fn = "vlan_add" -> vlan_add(S, x[1], x[2])
    [] fn = "vlan_delete" -> vlan_delete(S, x)
    [] fn = "vlan_apply" -> vlan_apply(S, x)
    [] fn = "bridge_free_member" -> bridge_free_member(S, x)
    [] fn = "bridge_add_member" -> bridge_create_member(S, x, FALSE)
    [] fn = "bridge_config_init" -> bridge_config_init(S)
    [] fn = "hotplug_set_vlan" -> hotplug_set_vlan(S, x[1], x[2], x[3], x[4], x[5])
-----------------------------------------------------------------------------
Event(T) ==
  /\ there' = T.there /\ mems' = T.mems /\ vlans' = T.vlans /\ bridge' = T.bridge
  /\ iface' = T.iface /\ kernel' = T.kernel /\ self' = T.self
  /\ clash' = clash \cup {d \in Dev : \E v \in DOMAIN vlans' :
                 d \in DOMAIN vlans'[v].ports \cap DOMAIN vlans'[v].hotplug_ports}
  /\ stray' = (stray \/ (T.bridge.up /\ ~T.bridge.claimed))
  /\ UNCHANGED async

Init ==
  /\ there = {}
  /\ mems = [d \in Dev |-> NoMember]
  /\ vlans = NoVids
  /\ bridge = [ports |-> {}, up |-> FALSE, has_vlans |-> FALSE, config_pending |-> FALSE,
               claimed |-> FALSE, cfg_vlans |-> FALSE]
  /\ iface = [wanted |-> TRUE, state |-> "IFS_DOWN"]
  /\ async \in BOOLEAN
  /\ kernel = [d \in Dev |-> NoPort]
  /\ self = {} /\ stray = FALSE /\ clash = {} /\ reloads = 0 /\ links = 0

\* restart: another option of the bridge has changed too.
Reload(c, restart) ==
  /\ reloads < MaxReloads
  /\ reloads' = reloads + 1
  /\ Event(config_init_all(S0, c, restart))
  /\ UNCHANGED links

Plug(d) ==
  /\ reloads > 0 /\ d \notin there
  /\ LET S == [S0 EXCEPT !.there = @ \cup {d}]
     IN Event(IF mems[d].exists THEN call(S, "member_appeared", d) ELSE S)
  /\ UNCHANGED <<reloads, links>>

\* The kernel has taken the device out of the bridge.
Unplug(d) ==
  /\ d \in there
  /\ LET S == [S0 EXCEPT !.there = @ \ {d}, !.kernel[d] = NoPort]
     IN Event(IF ~mems[d].exists THEN S
              ELSE call(S, IF mems[d].hotplug THEN "bridge_free_member" ELSE "bridge_remove_member", d))
  /\ UNCHANGED <<reloads, links>>

HotplugAdd(d, req) ==
  /\ reloads > 0 /\ d \in Hotplug
  /\ Event(bridge_hotplug_add(S0, d, req))
  /\ UNCHANGED <<reloads, links>>

HotplugDel(d, req) ==
  /\ mems[d].exists /\ d \in Hotplug
  /\ Event(bridge_hotplug_del(S0, d, req))
  /\ UNCHANGED <<reloads, links>>

\* The link comes up, which arms check_timer if the bridge has vlans; lost: the driver
\* has forgotten the vlans of the port meanwhile.
LinkUp(d, lost) ==
  /\ links < MaxLinks /\ mems[d].present /\ bridge.has_vlans
  /\ kernel' = IF lost THEN [kernel EXCEPT ![d].tab = NoVids, ![d].pvid = 0] ELSE kernel
  /\ mems' = [mems EXCEPT ![d].check = TRUE]
  /\ links' = links + 1
  /\ UNCHANGED <<there, vlans, bridge, iface, async, self, stray, clash, reloads>>

Check(d) ==
  /\ mems[d].check
  /\ Event(bridge_member_check_cb(S0, d))
  /\ UNCHANGED <<reloads, links>>

IfUp ==
  /\ reloads > 0 /\ ~iface.wanted
  /\ Event(interface_set_up([S0 EXCEPT !.iface.wanted = TRUE]))
  /\ UNCHANGED <<reloads, links>>

IfDown ==
  /\ iface.wanted
  /\ Event(interface_set_down([S0 EXCEPT !.iface.wanted = FALSE]))
  /\ UNCHANGED <<reloads, links>>

TeardownDone ==
  /\ iface.state = "IFS_TEARDOWN"
  /\ Event(start_pending(release([S0 EXCEPT !.iface.state = "IFS_DOWN"])))
  /\ UNCHANGED <<reloads, links>>

Next ==
  \/ \E c \in Config, restart \in BOOLEAN : Reload(c, restart)
  \/ \E d \in Dev :
       \/ Plug(d) \/ Unplug(d) \/ Check(d) \/ \E lost \in BOOLEAN : LinkUp(d, lost)
       \/ \E req \in Request : HotplugAdd(d, req) \/ HotplugDel(d, req)
  \/ IfUp \/ IfDown \/ TeardownDone

Spec == Init /\ [][Next]_vars
-----------------------------------------------------------------------------
\* The type invariant.
TypeOK ==
  /\ there \subseteq Dev
  /\ \A d \in Dev :
       /\ mems[d].pvid \in Vid \cup {0} /\ kernel[d].pvid \in Vid \cup {0}
       /\ DOMAIN kernel[d].tab \subseteq Vid
  /\ \A v \in DOMAIN vlans : v \in Vid /\ vlans[v].pinned => DOMAIN vlans[v].ports = {}
  /\ self \subseteq Vid /\ clash \subseteq Dev

Ports(d) == {v \in DOMAIN vlans : HasPort(vlans[v], d)}

\* The port is in the bridge, the bridge filters, and no check of the port is due.
Filtering(d) == bridge.has_vlans /\ mems[d].active /\ ~mems[d].check /\ ~stray

\* The kernel's table of a port has exactly the vlans that list the port, with their
\* tags, after any reloads, hotplug requests, restarts and losses that were repaired; a
\* port that the file and a request have put into the same vlan is excepted (see README).
TableIsConfigured ==
  \A d \in Dev \ clash : Filtering(d) =>
    /\ DOMAIN kernel[d].tab = Ports(d)
    /\ \A v \in Ports(d) : kernel[d].tab[v] = Port(vlans[v], d) \cap {"untagged"}

\* A port with a vlan that is marked as its pvid has such a vlan as its pvid, whichever
\* of its vlans came and went before.
ExplicitPvid ==
  \A d \in Dev \ clash : Filtering(d) =>
    LET marked == {v \in Ports(d) : "pvid" \in Port(vlans[v], d)}
    IN marked # {} => kernel[d].pvid \in marked

\* As long as the file has not been changed, a port with an untagged vlan has a pvid
\* through all the times it leaves and joins.  (After a reload it may have none: the
\* pvid that is kept in the member is stale, see README.)
UntaggedHasPvid ==
  reloads = 1 =>
    \A d \in Dev \ Hotplug :
      Filtering(d) /\ (\E v \in Ports(d) : "untagged" \in Port(vlans[v], d))
      => kernel[d].pvid # 0

\* The kernel never has a pvid for a port that the daemon does not know of.
PvidIsKnown == \A d \in Dev \ Hotplug : Filtering(d) => kernel[d].pvid \in {0, mems[d].pvid}

\* The pvid of a port is the one configured, or one of its untagged vlans, and netifd
\* knows it (bridge_member_vlan_is_pvid).
PvidMatches == ExplicitPvid /\ UntaggedHasPvid /\ PvidIsKnown

\* Every hotplugged port of a vlan belongs to a member, so that the pointer to it that
\* bridge_hotplug_set_member_vlans() follows without a check is never NULL.
HotplugHasMember ==
  \A v \in DOMAIN vlans : \A d \in DOMAIN vlans[v].hotplug_ports : mems[d].exists

\* No vlan is left for later when the event that added it has been handled.
NothingPending == \A v \in DOMAIN vlans : ~vlans[v].pending

\* The bridge device itself is in no vlan that does not exist any more, and, as long as
\* the file has not been changed, in those that are local.  (A reload that changes only
\* option local is not noticed.)
SelfIsConfigured ==
  bridge.up /\ bridge.has_vlans /\ ~stray =>
    /\ self \subseteq DOMAIN vlans
    /\ reloads = 1 => self = {v \in DOMAIN vlans : vlans[v].local}

\* A bridge that is configured with vlans filters when its interface is up.
FiltersWhenConfigured ==
  bridge.up /\ bridge.cfg_vlans /\ iface.state = "IFS_UP" /\ ~stray => bridge.has_vlans

\* After every event of bridge.c the filter table of the kernel is the one that the file
\* and the hotplug requests ask for, for the ports and for the bridge itself.
TableMatches ==
  /\ TypeOK
  /\ TableIsConfigured
  /\ SelfIsConfigured
  /\ NothingPending
  /\ FiltersWhenConfigured
  /\ HotplugHasMember

\* A reload makes every port of every vlan a member, if the bridge is up, has vlans and
\* is not restarted.  (If it is, the vlans are read while it is down, and a port that only
\* its vlan names waits for the next reload.)
PortsJoin ==
  [][\A c \in Config :
       /\ bridge.up /\ bridge.has_vlans /\ bridge.cfg_vlans /\ DOMAIN c.vlans # {}
       /\ Reload(c, FALSE)
       => \A v \in DOMAIN c.vlans : \A d \in DOMAIN c.vlans[v].ports : mems'[d].exists]_vars
=============================================================================
