# netifd: models, checks and proofs

netifd is the network interface daemon of OpenWrt. This directory holds TLA+
models of its state machines, the TLC runs that check them on small instances,
and TLAPS proofs of what matters most. `PROJECT.json` maps every definition to
the lines it was translated from; file names below are relative to `src/`.

## The system

netifd is one process with one thread. `uloop` (libubox) calls back for file
descriptors, timers, ended child processes and ubus messages, and each callback
runs to its end before the next one starts. So a step of a model is one
callback, *with everything it calls*; the concurrency is between netifd and its
child processes (protocol scripts, hotplug scripts, wireless scripts), the
kernel (carrier, devices that come and go) and the ubus clients (`ifup`,
`ifdown`, scripts that notify, reloads). Inside one callback the hard part is
reentrancy: a claim of a device calls every user of the device back, and those
callbacks claim and release devices themselves.

| Component | State it keeps | Operations | Talks to |
|---|---|---|---|
| interface state machine, `interface.c` | `state`, `config_state`, `enabled`, `link_state`, `available`, `autostart`, `main_dev`, `l3_dev`, its aliases | set up, set down, renew, reload, remove, device callbacks, protocol events | device core, protocol handler, event queue |
| device core, `device.c` | users, claim count `active`, `present`, `link_active`, `sys_present` | claim, release, add and remove user, set present, set link, broadcast | every device type, interfaces |
| protocol core, `proto.c`, `proto-static.c` | the handler attached to an interface | attach, setup, teardown, renew; an immediate handler answers inside the call | interface state machine |
| shell handler, `proto-shell.c` | `sm`, script and task process, two timers, dependencies, `renew_pending` | setup, teardown, renew, process exits, time-outs, notifications | interface, scripts, ubus |
| hotplug event queue, `interface-event.c` | `current`, `pending`, one process | queue, dequeue, script end | interface, hotplug scripts |
| wireless, `wireless.c` | per radio: state, retry count, script process, timer; the FIFO of serialized handlers | set up, set down, reconf, notify, retry, process tracking | scripts, interfaces |
| configuration, `config.c`, vlists of `utils.c` | versions of the lists of devices, interfaces, radios | reload: update, flush, start | all of the above |
| bridge, bonding, `bridge.c`, `bonding.c` | members, their presence and claims, failed members and a retry timer, the primary port, vlans and their ports | `set_state`, reload, restart, `hotplug_ops`, member callbacks, retry | device core (as a device and as a user), kernel |
| external devices, `extdev.c` | the handler's subscription, bridges, members, dependency and retry timers | the same, each by a call to another process | device core, ubus, external handler |
| dhcp and zeroconf handlers, `proto-udhcp.c`, `proto-isc-dhcp.c`, `proto-zcip.c` and their scripts | one client process, `teardown` | setup, teardown, process end, script messages | interface, client, ubus |
| vlan, macvlan, veth, tunnel, alias devices | the device below | `set_state`, callbacks | device core, kernel |
| addresses, routes, prefixes, `interface-ip.c` | lists of the interface, of the host; prefix assignments | update, enable, disable, assign | kernel, interface |
| ubus methods, `ubus.c` | none | up, down, renew, remove, notify, dump | all of the above |
| kernel interface, `system-linux.c` | sockets | ioctl, netlink; carrier and device events | device core |

What is hard, and so what the properties are about: nested callbacks on one
device; a process end, a time-out and a teardown that race; a script that
answers late; forks and claims that fail halfway; a reload or a removal that
must wait for a teardown; events that are coalesced; an interface that is freed
while something refers to it. `PROJECT.json` lists these under `hazards`, each
at the line where it bites.

## The modules

### HotplugQueue (`interface-event.c`)

`pending` is the FIFO, `current`/`current_ev` what is being handled, `procs` the
scripts that run (the code has one `struct uloop_process`; the model counts, so
that "at most one" can fail). `interface_queue_event`, `interface_dequeue_event`
and `task_complete` are the three functions; `call_hotplug` is the recursion of
the code over forks that fail, as a choice of how many entries fail. What calls
the queue is the interface of `interface.c`: `Create`, `SetUp`, `ProtoUp`,
`Update`, `SetDown`, `CheckState`, `MarkDown`, `LinkLost`, `Free` are the
transitions that do or do not emit an event. `queued`, `delivered` and `lost`
are history variables.

### ProtoShell (`proto-shell.c` with the part of `interface.c` that drives it)

One interface with a shell handler. `sm`, `script`, `task`, the two timers, the
renewal and the kill flag are `struct proto_shell_state`; `state`, `available`,
`ready`, `claimed`, `l3_claimed`, `reload` and `autostart` the fields of `struct
interface` the handler and the interface exchange. A process is `none`, running
(for the script: what it runs) or signalled. The processes may end at any time,
notify at any time, or never end. The actions are the callbacks: `ScriptExit`,
`TaskExit`, `TeardownTimeout`, `CheckupTimeout`, `Notify*`, `SetUp`, `SetDown`,
`Renew`, `Reload`, the device events `SetAvailable` and `SetReady`, the events of
the interface a dependency waits for. Forks and claims may fail. The handler's
flags are a CONSTANT set, so the proofs hold for every kind of handler.

Abstractions: `ready` is `enabled && (link_state || force_link)`;
one host dependency stands for the list, and it is not added while the
interface is down; addresses and routes in a notification are left out;
`mishap` is a history variable that says whether a fork failed, a claim
failed, or a notification came while the interface was down.

### Netifd (`interface.c`, `device.c`, `proto.c`, `config.c`, `ubus.c`)

Several interfaces on several devices. The functions of the code are operators
from a state record to a state record, with the source's names: a callback that
calls back into `device_claim` while a broadcast is under way is then a nested
application, in the order of the code. An action picks its input and whether a
device fails to come up or a handler refuses a setup while it runs, and applies
the operator of the handler. The functions that call each other in a circle go
through one recursive operator, `call`, which stands for the calls by pointer
of the code (`dep->cb`, `proto->cb`, `iface->...`). Users, claims, the order of users, aliases,
`config_state` and dynamic interfaces are modelled. A handler is `static`
(answers inside the call) or `async` (answers by a later `ProtoUp`, `ProtoLost`
or `ProtoDown`).

Abstractions: a device is never freed and has one type; at most one fault
per callback; a user that is removed and added again *during* one broadcast
is not called a second time by that broadcast; aliases of one parent are called
in name order; a dynamic interface has an asynchronous handler (with an
immediate one the code frees the interface inside `__interface_set_down()` and
then uses it); the parent of an alias is configured with it. Parsing of the
configuration is not modelled: a reload picks a configuration from `Config`.

### Wireless (`wireless.c`, with its part of `config.c`)

One record per radio (`struct wireless_device`), the FIFO `handlers` and the
global `handler_pending`. As in `Netifd` the functions are operators and an
action is one callback: `Reload`, the ubus calls `SetUp`, `DoReconf`, `SetDown`,
the notifications `Notify*`, the end of a script (`ScriptExit`), the timer of a
cancelled setup (`SetupTimeout`), the watchdog of the registered processes
(`ProcPollFd`, `CheckScriptTasks`) and `HotplugEvent`. `ProcessEnds` is the world:
netifd is not told when a registered process ends. `given` and `applied` are
history: the configuration the running script got and the one of the last setup.

The passes of a reload over the list of radios are one recursive function (`Pass`)
of what a pass does to one radio (`PassStep`).

Abstractions: one virtual interface per radio; vlans and stations repeat its life
cycle. A script that runs may notify anything at any time, also one that netifd
has killed. At most one fault in a behaviour: a fork that fails, or the read of
`serialize` after the radio was freed, which yields either value. `mishap` records
these and `overrun`, a timer that runs the script callback of a radio without a
script and so clears the `handler_pending` of another one. A script sets the retry
count to values between 0 and the default.

### Aggregate (`bridge.c`, `bonding.c`, on `device.c`)

Bridges and bonding devices over shared ports, with an interface on each. A
bridge is a device with users and a user of its members at the same time, so one
event travels up and down: a device appears, its members make the bridge present,
the interface claims the bridge, the bridge claims the members. As in `Netifd` the
functions are operators on a state record and the calls by pointer go through one
recursive operator. `bridge.c` and `bonding.c` repeat the same member handling;
where they do one operator serves both, where they differ `Kind` selects. Actions:
`Reload` (with restart, move and removal of bridges), `Plug`, `Unplug`, `Link`,
`SetAuth`, `HotplugAdd`, `HotplugDel`, `Prepare`, `Retry`, the interface's `IfUp`,
`IfDown`, `TeardownDone`, and `FreeUnused`. `failed` records an `assert()` of the
code that fails.

Abstractions: a configuration is the set of ports, `bridge_empty` and whether an
address is configured; the number of failed members is kept as "not zero", which is
all the code asks; system calls fail at most `MaxFaults` times.

### BridgeVlan (`bridge.c` on the kernel's filter table)

One bridge with its vlans. `vlans` is `dev.vlans` with the ports of the file and the
hotplugged ones, `kernel` what the kernel has for each port, `self` what it has for the
bridge device. The table is never written as a whole: entries are added and deleted
one by one when members join, vlans are read, flushed and applied, and requests come
from ubus. `Check` is `check_timer`, which repairs a port that its driver has lost
(`LinkUp` with `lost`). Claims that fail and authentication are left to `Aggregate`.

### Extdev (`extdev.c`)

One bridge name of an external handler. The handler is a process with its own view
(`handler`: alive, the bridge and its members, what it refuses); every call goes
through `invoke` and may be refused; `Crash`, `Start`, `Refuse` and `Notice` (what
ubus tells netifd, later) are the environment. A reload that is refused replaces the
bridge, so two instances of `struct extdev_bridge` can be at work at once.

### ProtoContract, and what implements it

What `interface.c` assumes of any protocol handler: the order in which an
interface moves through its states, and that a handler which reported `IFPEV_DOWN`
has no child left that works for the interface. `ImplementsContract` in
`ProtoShell` and in `Dhcp` is the refinement (`INSTANCE ProtoContract WITH` the
children of the handler). For the shell handler it holds up to the recorded mishaps,
after which only the order of states is promised; for the dhcp handlers without
exception.

### Dhcp (`proto-udhcp.c`, `proto-isc-dhcp.c`, `proto-zcip.c` and their scripts)

One interface with a client process. A client's script is a process of its own that
reports over ubus: `proc[p].msg` is a report under way, which may arrive when the
client is dead or another one runs, or be lost. `orphan` holds clients that are still
registered with uloop by a state that a reload freed; when such a process is
collected the code calls into freed memory and the model stops (`crashed`). `kind`
selects the handler. A lease is one value; DHCPv4 and DHCPv6 differ only in its
attributes.

### Prefix (prefixes of `interface-ip.c`)

The ULA prefix and delegated prefixes, divided among the interfaces. The assignment
(`interface_prefix_assign`, `AssignHint`, `AssignLater` and the loops around them) is
translated from the code with its 32 bit shifts and tabulated for the prefixes and
options of the instance (`Assigned`); the properties compare it with what an assignment should be
(disjoint, aligned, inside; hints kept; nobody left out who fits). A subprefix is an
offset in /64s and a length. Around it: `Announce`, `Tick` (lifetimes), uplink and
interface state changes, `AddDynamic`, and a `Reload` that changes options, the ULA
prefix and `delegate`.

Abstractions: the address, the route and the rules of a subprefix are one object; the
uplink's section is the last one and only its `delegate` changes; the kernel accepts
every address, and an interface with `ip6ifaceid` set to `eui64` has an identifier
(`interface_set_prefix_address()` gives up silently otherwise, `interface-ip.c:1021-1022`
and `1029-1030`); `ip6table` is fixed.

### Ip (addresses, routes, rules and neighbours of `interface-ip.c`)

One interface with the lists of the protocol (`addr`, `route`, `neigh`), of the
file (`croute`) and host routes (`hroute`), and beside them what the kernel has
(`kaddr`, `kroute`, `knull`, `krule`, `kneigh`). `Announce` is an update from the
handler, with or without `keep`; `Tick` lets lifetimes end; `Reload` changes metric,
table and `defaultroute`; `AddTarget` asks for a host route; `SetL3` is
`interface_set_l3_dev()`. The kernel may refuse an address, a route or a neighbour, and
the claim of another layer 3 device may fail. `lost`, `orphans`, `nrefused` and
`unclaimed` are history: they record the known cases in which the code forgets to add
or to delete an entry, takes no notice of a refusal or leaves the lists of an up
interface off (see Observations), and the properties say that there are no others. A
list is walked by `InOrder`, the loop of `vlist_for_each_element()`, and there is one
named pass per loop of the code (`UpdateAddrs`, `SetRoutes`, `RemoveNeighs`, ...).

A list of routes is a search tree ordered by `route_cmp()`, and the metric, table and
flags it goes by change in place. `unsorted` has the lists in which entries have changed
places (`Unsorts`). In such a list a search may pass by any entry and an insertion may
come upon any entry with the same key (`Searching` picks what they meet in a step), and
a walk may meet the entries in any order; the shape of the tree is left out. A list in
order is searched by key and walked in order. A list of one entry is in order again.

Entries that the handler sets up itself (`DEVADDR_EXTERNAL`) are left out.

## The runs

Every property of a run is a conjunction of named parts where several invariants
answer one question; the parts are defined and explained just above it.

| Run | Question | Bounds |
|---|---|---|
| `hotplug_queue` | Does the queue dangle, stall, run two scripts (`QueueSound`), starve an interface, lose the last event? | two interfaces: both wait while a script of either runs, or of one already freed |
| `proto_shell` | Does every teardown end, is a reload applied, does something stand behind every wait (`ShellDriven`), is a device left claimed or a process left running (`HoldsWhatItUses`)? Is the contract kept? | a dialer (task, renewal, checkup, teardown on l3 link) and a tunnel (no task, no device), which between them set every flag both ways |
| `netifd` | Do claims and counts agree through nested callbacks (`ClaimsAgree`); is an interface that is up on a device that was brought up, and does one that was taken down hold nothing (`UpOnDevice`); is anything that is due forgotten? | two interfaces sharing a device, each with two configurations, any of which may be absent; the device may fail to come up, a handler may refuse |
| `netifd_alias` | Does an alias follow its parent? | a parent, its alias, and one interface added and removed at run time |
| `wireless` | Is a radio always driven by something, are retries bounded (`RadioDriven`), is a radio that is down clean (`RadioClean`), does the teardown get what the setup got (`DataMatches`)? | one radio that can be reconfigured while up, two configurations, one with a virtual interface; one required and one other process; one retry; a fork may fail |
| `wireless_pair` | Does the queue of serialized handlers move on and exclude (`QueueServed`), do cancelled setups and teardowns end? | two serialized radios, one of which a reload may disable or remove; no retry |
| `aggregate` | Are members and claims counted right and do the code's assertions hold (`CountsAgree`); does an aggregate hold what it uses (`HoldsWhatItUses`); does a moved, hotplugged or configured member get lost (`MembersAreServed`, `HotplugSurvives`)? | a bridge and a bond over two devices, three configurations that move and share them, one failing system call, two reloads; one port needs authentication, one is hotplugged |
| `bridge_vlan` | Is the kernel's filter table the configured one (`TableMatches`), has every port the right pvid (`PvidMatches`), does a port that only a vlan names join (`PortsJoin`)? | two devices, vlans 1 (the kernel's default) and 2, four configurations, two requests, two reloads, one link that comes back |
| `extdev` | Do counts stay right (`CountsAgree`), do netifd and the handler agree (`HandlerAgrees`), is the interface up on the current bridge (`BridgeServed`), does netifd recover from a crash (`Recovers`)? | two devices, four configurations, one crash or spell of refusals (all calls, reloads only, claim and lookup), two reloads |
| `dhcp` | Is there one client and the lease its own (`ClientServes`), is the contract kept, do teardowns end, does an interface that is wanted come up? | udhcp and isc (zcip follows the formulas of udhcp), three processes (one serves, one is stopping, one is new), two leases, one fault, no reload while an orphan is left |
| `prefix` | Are subprefixes disjoint (`AssignmentsDisjoint`), fair (`AssignmentsFair`), stable (`PlacesStay`), and does the kernel follow (`KernelFollows`)? | three interfaces, three configurations with colliding, outlying and missing hints, sizes that do not fit; ULA /61, /33 (beyond the 32 bit shift) or none; a /62 with or without an excluded part |
| `ip` | Does the kernel have what the lists say (`AddressesMatch`, `RoutesMatch`), and nothing else, with route trees that go out of order too? Is a host route put on the best route (`TargetVia`)? | two announcements in different orders, with lifetimes, gateways and a neighbour that change, one of them with two routes of one mask, with and without a metric of their own; two configurations with another metric on the other side of it, table and default route, and a route of the same mask; one refusal: of an address, a route, the neighbour or the device; two routes of the protocol, one host route |

Why these bounds are enough. Two users make the races on one device: a claim that
is first, last or neither, and a callback that claims while another claim is under
way. Two radios make the FIFO: one runs, one waits. Two ports make the bridge that
gains its first and loses its last member, and the primary port that changes; a
third repeats them. One fault is enough for every recovery path; two could mask each
other. Two reloads bring a configuration in and out again.
Two routes make a tree out of order and a route announced twice; the configured list has
one route in the run, its search out of order is left to the proof. Bounds on counters are
CONSTANTS (`MaxReloads`, `MaxFaults`, `MaxTroubles`, `MaxLinks`, `MaxRoutes`,
`MaxHostRoutes`, `MaxOrphans`, `WIRELESS_SETUP_RETRY`) and are conjuncts of the guards.

Fairness. `HotplugQueue`: hotplug scripts end. `ProtoShell`: uloop runs its two
timers when they are due; nothing is assumed of scripts, which may hang for ever,
and a teardown ends because the timer kills them. `Wireless`: the timer of a
cancelled setup runs and scripts end (the code has no time-out for a teardown script
that is not preceded by a cancel). `Extdev`: ubus notices are handled. `Dhcp`: ubus
messages are delivered unless they are lost, ended children are collected, a client
does as it is told, and (for `ComesUp` only) a client that keeps asking gets a lease.
No run assumes that a device appears or that a user acts.

Deadlock checking is off in `aggregate`, `bridge_vlan` and `extdev`, whose reloads
are used up, and in `dhcp`, where the model stops when the daemon runs into freed
memory; it is on everywhere else.

## Observations

What the code does that a comment, DESIGN or a reader would not expect. The models
follow the code; the properties except these cases by name or by a history variable.

Event queue and shell handler
- The comment at `interface-event.c:116` says an event equal to the one being handled
  takes the interface off the queue; the code overwrites the waiting event and leaves
  it queued (139), so scripts are told twice.
- After a failed fork of the setup script the shell stays in `S_SETUP` and the checkup
  is not armed (`proto-shell.c:246`). DESIGN 130-133 says a forced teardown kills the
  children at once; `proto-shell.c:212` does not look at `force`.
- `proto_shell_add_host_dependency()` reads the dependency after the setup that it
  triggers may have freed it (752).

Interfaces and devices
- A user added to an absent device hears nothing of its state (`device.c:898`); if a
  teardown still claims the device when it appears, no `DEV_EVENT_UP` follows and the
  interface is not set up, although DESIGN 87-88 says it is.
- A reload that moves an interface to another device keeps `enabled`
  (`interface.c:1037`). One configured again while `IFC_REMOVE` is pending is freed
  (1272). A dynamic interface with an immediate handler is freed inside
  `__interface_set_down()`, which uses it afterwards (333). An alias without parent is
  called back for every interface (648).
- A claim that fails sets the claim count to 0; `device_replace()` moves users, not aliases.

Wireless
- `wireless_device_check_script_tasks()` does not arm itself again after a required
  process ended (1010), so processes that end during the teardown are not collected.
- A removal while a reload is pending is ignored (659); `set_data` of a killed script
  is accepted while the radio is down (1484); a process registered while the radio is
  down arms the watchdog, and a removal then frees the radio with it (1350).

Bridge and bonding
- A retry or `check_timer` brings a bridge up that nobody claims (DESIGN 24-29 say a
  device is up while claimed); its members then stay marked active after removal. The
  retry does not arm itself again, failures in the ADD path are not retried, and the
  timer is not cancelled when the bridge is freed.
- Members that wait for authentication stay claimed after the bridge goes down.
- A member that was hotplugged first and configured later keeps the hotplug mark, so
  its removal takes it out of the bridge although it is configured.
- A claim that fails on a bonding port is not counted as failed and so not retried.

Bridge vlans
- After a reload an untagged port may have no pvid (`bm->pvid` is stale); a vlan's port
  that is not in `ports` is not added when the vlans are read while the bridge is down;
  `bridge_vlan_equal()` ignores `local`; `bridge_vlan_update()` of a bridge that is
  down drops the old vlan with its hotplugged ports.
- A hotplug removal deletes the kernel entry of a port that the file configures too; a
  hotplugged pvid is not noted; removing an unknown vid creates an empty vlan.

External devices
- `device_init_pending()` initialises a bridge whose dependency is not ready, against
  the comment near `extdev.c:990`. A handler that is absent at start is never waited
  for; one that restarts before its removal is handled is not subscribed to again.
- A member the handler refuses stays claimed; a member that joins while the bridge is
  unclaimed is created and claimed anyway; bridges lost in a crash come back only when
  the interface is restarted; timers are not cancelled when the bridge is freed. A
  hotplugged member that is removed is freed by the flush and then used once more
  (`extdev.c:663-664`); the model leaves the second use out.

DHCP handlers
- The isc handler never reports the end of a teardown (DESIGN 117-119 ask for it), does
  not restart its client and stays up after `EXPIRE`. A udhcp or zcip teardown hangs if
  the client is dead or its report is lost: there is no time-out.
- Every reload frees the handler's state while the stopped client is still registered
  with uloop (`proto-udhcp.c:302-309`). Late reports are applied in any state: an early
  deconfiguration is taken for the answer to a teardown. A client binary that is
  missing is restarted without end. A late configuration that comes when the interface
  is down finds no layer 3 device (`interface.c:778-779`), which `system_addr()` uses
  (`system-linux.c:2639`); the model applies it and goes on.

Prefixes
- A new interface gets nothing until the next refresh, a freed one keeps its place
  until then; a renewed prefix keeps the assignments when the excluded part or the
  class changes; one announced with at most a second to live gets none, and its renewal
  does not make them; one announced while the uplink is down never expires.
- `1 << (64 - length)` overflows for /33 and is undefined below.

Addresses and routes
- The unreachable route of an off-link IPv6 address is deleted as an IPv4 one (712-724)
  and stays. The index of an address is part of its key: after a change of order the
  kernel loses the address when the old entry is flushed. An address that is kept
  forgets its subnet route, and one that was disabled counts as enabled.
- Rules are deleted with the new table, so the old ones stay.
- Metric, table and flags of a route change in place although they are its key
  (335-341, from 1640). After a table is reset, or when the metric of the interface goes
  beyond that of a route with a metric of its own, the tree is out of order: the next
  announcement may miss the entry it replaces, the route is entered twice, and the flush
  of the old entry takes it from the kernel; or the new entry is not entered at all and
  its route stays.
- A neighbour the kernel refuses is marked as failed, which nobody reads (818-819,
  1736-1737): it counts as enabled and is not tried again when it is announced again.
- If the new device of `interface_set_l3_dev()` cannot be claimed, the lists stay off
  although the interface is up (`interface.c:1019-1021`).
- An IPv6 address announced again with a lifetime that has ended is refused by
  `system_addr()` before the request is sent (`system-linux.c:2672-2677`), and so is its
  removal: the kernel keeps the address until the lifetime it was given before ends.
  Two entries for one address share the kernel's, with the lifetime of the later one.

## What is proved

`HotplugQueueProofs` proves, for any set of interfaces, `QueueSound` (theorem
`QueueIsSound`, and its parts by name) and `LastWord`. The assumption is
`NoIfaceAssumption` (`NULL` is not an interface). The inductive invariant is
`QueueInv /\ GoneIsClean /\ WordInv`: `LastWord` alone is not inductive, as it says
nothing of what waits while a script runs. `WordInv` says where the last word of an
interface is: it waits, or it is being handled, or it was delivered or lost.

`ProtoShellProofs` proves, for every set of handlers (`HandlerAssumption`: a
non-empty set of records of flags), `ShellDriven` and `HoldsWhatItUses`, all the
safety invariants of the run. Their conjunction is inductive, and none is alone: a
time-out is harmless because the timer is armed exactly while the shell stops
(`TimerWhileStopping`); a notification cannot disturb a teardown because an
interface in teardown has a stopping shell (`TeardownIsBacked`); the end of the
last process finds an interface to take down because an abort has a process
(`AbortHasProcess`); and only a mishap leaves something behind at `IFS_DOWN`
(`DownIsClean`).

`ShellImplementsContract` is the refinement of `ProtoContract` from the same
invariant: the initial states map to `Contract!Init`, and each action of the handler
to a step of the contract, to a stutter, or, when a mishap is on record, to its
`Fault`. `DownIsClean` is what makes a step to `IFS_DOWN` leave no child.

`DhcpProofs` proves, for any sets of processes and leases and any of the three
handlers, `ClientServes` (theorem `ClientAlwaysServes`) and the refinement of
`ProtoContract` (`HandlersImplementContract`), from `DhcpAssumption` (`None` is
neither a process, a lease nor a message). A callback runs through several functions
on a record, so there are two invariants of such a record: `Sane`, which holds between
any two functions (a client that works is the registered one; a report that is under
way says what its client holds), and `Inv`, which holds between callbacks and adds
what the handler remembers: a registered client of an interface that is not wanted was
asked to stop, and `teardown` says so, so that its exit is not answered with a new
client. `LeaseIsClients` alone is not inductive, because a report under way
contradicts it as soon as it is delivered, unless it says what the client has.

`WirelessProofs` proves, for any list of radios, any configurations and any number of
retries, all the safety invariants of the two wireless runs: `RadioDriven`,
`QueueServed`, `DataMatches` and `RadioClean`, which follow from `Inductive`
(`Spec => []IInv`). The assumption is `RadioAssumption`: the lists and sets have their
types and there is at least one configured radio. The functions of the code are
operators on a state, and so is the invariant. The argument has two halves. A function
changes only the record of the radio it is called for and what it appends to or takes
from the queue keeps the queue and the turns of serialized handlers in order (`Step`,
which composes); and for that radio it ends in `RadioInv`, from what its callers
guarantee. That is less than `RadioInv` where the caller has just changed the record,
and each such place has its own precondition: a radio about to be set up
(`Raisable`), set up again after a script ended (`Restartable`), whose teardown is over
(`Lowered`), taken down (`Lowerable`), or whose configuration is being changed
(`Alterable`). `RadioInv` says, per radio, who moves it on, what was given to whom and
what a radio that is down has left; none of the four properties is inductive without
the rest of it. A reload is five loops over the list; `Iteration` proves that such a loop
keeps what one round keeps, from the least-number principle, with the round given as a
function because an operator cannot be instantiated.

`PrefixProofs` proves, for any interfaces, options and prefixes, the four properties of
the run: `AssignmentsDisjoint`, `AssignmentsFair`, `KernelFollows` and `PlacesStay`. The
first half is the algorithm: the list an assignment walks is `Good` (sorted, disjoint,
aligned, inside, closed by the sentinel), `interface_prefix_assign` inserts in the first
gap that holds the entry and so keeps it good (`InsertGood`, `AssignGood`), hints are
multiples of the size because they are cut when parsed (`CutHint`), and the two loops
keep what a round keeps. That the list is fair (`FairList`) needs invariants of the loops
that speak of the rounds so far. After n rounds over the names every entry is the
excluded part or the hint of one of the first n interfaces, and each of these has its
hint or something in its way (`HintsFacts`; `NoRoom` finds the entry that is in the way
where no gap holds a place). After n rounds over `assign_later` each of the first n has
an entry, or the list is full and every entry that is no hint belongs to one that came
before it (`RestFacts`): a round adds an entry exactly if there is a gap at all, because
the length goes down to a /64 (`LaterStep`), so a list that once was full stays as it is.
A full list covers the prefix (`FullCovers`), and the rounds are in the order of
`prefix_assignment_cmp` (`NthFacts`). The second half is the life of a prefix: `PI` relates one prefix to the options and the states of the
interfaces, and there is one lemma per function of the code. `KernelFollows` alone is
not inductive. An address is taken out of the kernel only if its interface still is
there and has a layer 3 device, so one needs to know that every enabled entry has such
an interface (`EnabledOK`) before the assignments are dropped; and the options that the
assignments were made from are those in force, or a refresh is due (`BasisOK`). A reload
breaks this between its parts, and its proof carries the prefix through them in the
order of the code: new options with a refresh due, delegation, ULA, the interfaces that
go, the refresh. The assumptions are `PrefixAssumption` and `NoneAssumption` (`None` is
neither a number nor a record nor a list). `PrefixAssumption` gives the types, says that
an interface has one name (they are the keys of a vlist) and, where a prefix has an excluded part, asks for a length above 33: for a shorter one the mask of the
excluded address is a shift by 31 and more in a 32 bit int (`interface-ip.c:1145`), and
the entry of the excluded part lies anywhere. Prefixes of any length without an excluded
part are covered; for those up to /33 alignment and disjointness are proved, and
"inside" is not claimed.

`IpProofs` proves, for any announcements, configurations, networks and refusals, and
whatever the searches of a tree out of order meet, the three properties of the run:
`AddressesMatch`, `RoutesMatch` and the action property `TargetVia`. The assumption is `IpAssumption`: the lists and sets are finite and have
their types, an announcement or a file names a neighbour and a route once, a mask is at
most 128, and `None` is neither a number nor a route or an entry. The inductive invariant is
`Resting`, which says of the variables what `Inv` says of a state. It has three layers,
because each holds at other places of the code:

- `Core` relates every list to the kernel: an enabled entry is there or is recorded as
  lost, what is there is owned or recorded as left behind, and no two addresses have one
  key. It holds after every function of the code, whatever the settings are; so it does
  not matter which entry a search finds, and that entries are told apart by their key is
  needed of addresses and neighbours only.
- `Settled` adds what holds of the settings in force: the subnet routes, the rules and
  the metric and table of every route are those of the settings, a route is enabled
  exactly if `enable_route()` says so, and a neighbour exactly if the list is. Between a
  change of the settings and the end of `interface_change_config()` only `Core` holds.
- `Inv` adds what goes with the layer 3 device and with being up: an interface that is
  up has the device and its lists are enabled, or another device could not be claimed;
  without the device they are disabled and those of the protocol are empty.

`RoutesMatch` alone is not inductive. A route is taken out of the kernel by the metric
and table of its entry, so one has to know that an entry that is on and has none of its
own has those of the settings; the subnet route of an address is a route of another
list that fills the same slot of the kernel; and an address that goes may share its
address, its null route, its rules and its subnet route with one that stays.

An address goes to the kernel in four calls (address, rules, subnet route, null route).
Between them something the entry needs is missing, or something it had is too many.
`AddrBut`, `NullBut`, `RulesBut` and `RoutesBut` say what, each call settles its part
and leaves the others alone (`AddrSame`, `NullSame`, `RuleSame`, `RouteSame`), and after the
last the exceptions are gone. The route functions are treated in the same way with the
routes that come and go (`Changed`). A pass over a list keeps what a round keeps
(`Iteration`); a pass that has to reach every entry, such as turning a list on, drains
the set of entries that are still pending by one in each round (`Drains`, `PassEnds`).
`TargetVia` is such a pass too: what is ahead of the loop of `__find_ip_route_target()` is
the routes to the host that beat the best one so far (`Ahead`). A round takes its own
route from them and adds none, because what beats the new best route beats the old one
(`BeatsOrder`, `RoundAhead`); after the first list none of its routes is ahead, and the
second loop keeps that (`TargetFound`). The order of the walk is not used.

What is only model-checked, and why:
- liveness (`TeardownEnds`, `ReloadApplied`, `NoStarvation`, `ComesUp`, `Recovers`
  and the others of the runs): the prover does not do fairness;
- `Netifd`, `Aggregate`, `BridgeVlan` and `Extdev`, whose nested callbacks are
  recursive operators, which the prover does not accept in a module or in what it uses.

## What is not modelled

Parsing and formatting (`config.c` above the reload, `ubus.c` dumps, `utils.c`,
`handler.c`), the encoding of ioctl and netlink calls (`system-linux.c`; what the
calls about ports, filter tables, addresses, routes and rules do to the kernel is
modelled where it matters), `iprule.c` (a list that is replaced and passed on),
resolv.conf, and the devices with one device below them (`vlan.c`, `vlandev.c`,
`macvlan.c`, `veth.c`, `tunnel.c`, `alias.c`), whose callbacks are those of a member
in `Aggregate` with one member and no retry. Memory is modelled as "this object
exists": a use after free is named as a hazard, and the model excludes the case by a
guard, records it as a mishap or stops there, and says which.

## Plan

1. *Done:* the event queue, the shell handler, interfaces on shared devices,
   wireless, bridge and bonding, vlans, external devices, the dhcp handlers, prefixes,
   addresses and routes, and the contract of a protocol handler.
2. *Done:* proofs about the event queue, the shell handler, the dhcp handlers, the
   refinement of `ProtoContract` by both, the radios, the prefixes, and the addresses,
   routes, rules and neighbours.
3. Devices with one device below them, and a flat module of devices and their users
   without recursion, so that the agreement of claims and counts can be proved for any
   number of users.
