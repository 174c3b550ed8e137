-------------------------------- MODULE Extdev --------------------------------
(***************************************************************************)
(* Bridges that another process implements: extdev.c.                      *)
(*                                                                         *)
(* The daemon keeps the members and tells the external handler over ubus   *)
(* to create and free the bridge and to add and remove members.  Every     *)
(* call may be refused, and the handler may crash and come back, with none *)
(* of the bridges it had.  The module has one bridge name; a reload that   *)
(* the handler refuses replaces the bridge behind it, so two instances of  *)
(* struct extdev_bridge can work on that name at once.                     *)
(***************************************************************************)
EXTENDS Integers, Sequences, FiniteSets, SequencesExt

CONSTANTS
  DevOrder,    \* the devices that can be members, in the order of their names
  Config,      \* what the file can say of the bridge: ifnames, empty, dep; or None
  Fault,       \* sets of calls that can be refused at the same time
  Hotplug,     \* the devices that are added and removed through ubus
  None,
  MaxReloads,  \* how often the configuration is loaded
  MaxTroubles  \* how often the handler crashes or starts to refuse calls

Dev == ToSet(DevOrder)
Inst == 1..2
Method == {"create", "reload", "free", "prepare", "add", "remove"}

\* dep: the device in depends_on is nowhere, comes before or after the bridge in the
\* file, or is not given.  "claim" and "resolve" are system calls: a member that cannot
\* be set up, and a bridge that has no kernel device.
ASSUME ExtdevAssumption ==
  /\ IsInjective(DevOrder)
  /\ \A c \in Config \ {None} : /\ c.ifnames \subseteq Dev /\ c.empty \in BOOLEAN
                                /\ c.dep \in {"none", "before", "after", "missing"}
  /\ Fault \subseteq SUBSET (Method \cup {"claim", "resolve"})
  /\ Hotplug \subseteq Dev
  /\ MaxReloads \in Nat /\ MaxTroubles \in Nat

NoMember == [exists |-> FALSE, present |-> FALSE, old |-> FALSE]
NoBridge == [exists |-> FALSE, present |-> FALSE, config |-> None, empty |-> FALSE,
             active |-> FALSE, force_active |-> FALSE, n_present |-> 0, n_failed |-> FALSE,
             retry |-> FALSE, config_pending |-> FALSE, dep_retry |-> FALSE]
NoIface == [attached |-> FALSE, dev |-> 0, available |-> FALSE, claimed |-> FALSE,
            state |-> "IFS_DOWN"]

VARIABLES
  there,    \* the devices that are present
  users,    \* per device: the instances that have it as a member, oldest first
  mems,     \* per instance and device: struct extdev_bridge_member; old: not yet seen in
            \* the reload that is going on
  claimed,  \* the members, as <<instance, device>>, that hold a claim on their device
  ebr,      \* per instance: struct extdev_bridge; n_failed: the counter is not zero;
            \* retry, dep_retry: the timers run
  cur,      \* the instance in the list of devices, and whether the file has it
  current_config,
  dep,      \* the device in depends_on exists and is in the file
  iface,    \* the interface on top; dev: the instance it is a user of
  wanted,   \* its autostart
  async,    \* its handler takes time to tear down
  etype,    \* struct extdev_type; current: peer_id is that of the running handler;
            \* waiting: obj_wait is registered
  notices,  \* what ubus has for the daemon: the handler has gone, or is there
  handler,  \* the process: alive, whether it has the bridge, with which members, and what
            \* it refuses; missed: the daemon was subscribed to it before it crashed, and
            \* has seen it go when it came back
  failed,   \* an assert() of the code has failed
  stray,    \* history: a member joined while nobody had claimed the bridge
  reloads, crashes,  \* counters
  refusals  \* history: what the handler has refused at some time

vars == <<there, users, mems, claimed, ebr, cur, current_config, dep, iface, wanted, async,
          etype, notices, handler, failed, stray, reloads, crashes, refusals>>
counters == <<reloads, crashes, refusals>>

\* The state the operators work on; ret: what the last call returned.
S0 == [there |-> there, users |-> users, mems |-> mems, claimed |-> claimed, ebr |-> ebr,
       cur |-> cur, current_config |-> current_config, dep |-> dep, iface |-> iface,
       wanted |-> wanted, etype |-> etype, handler |-> handler, failed |-> failed,
       stray |-> stray, ret |-> "ok", config_init |-> FALSE]

\* Functions that are called through a pointer, or that close a cycle of calls.
RECURSIVE call(_, _, _)

each(S, fn, list) == FoldLeft(LAMBDA T, x : call(T, fn, x), S, list)

Ret(S, r) == [S EXCEPT !.ret = r]
Members(S, i) ==
  LET ds == SelectSeq(DevOrder, LAMBDA d : S.mems[i][d].exists)
  IN [k \in DOMAIN ds |-> <<i, ds[k]>>]
IsClaimed(S, i) == S.iface.claimed /\ S.iface.dev = i
-----------------------------------------------------------------------------
(***************************************************************************)
(* Calls to the handler.  It has one bridge: creating it twice, or adding  *)
(* a member twice, which the code does, is no error.                       *)
(***************************************************************************)

\* netifd_extdev_invoke().
invoke(S, method, d) ==
  LET h == S.handler
      missing == \/ ~S.etype.current
                 \/ method = "remove" /\ d \notin h.members
                 \/ method \in {"add", "free"} /\ ~h.created
  IN IF S.etype.current /\ method \in h.refuses THEN Ret(S, "error")
     ELSE IF missing THEN Ret(S, "not_found")
     ELSE [S EXCEPT !.ret = "ok",
                    !.handler.created = CASE method = "create" -> TRUE [] method = "free" -> FALSE [] OTHER -> @,
                    !.handler.members = CASE method = "free" -> {} [] method = "add" -> @ \cup {d}
                                          [] method = "remove" -> @ \ {d} [] OTHER -> @]

\* extdev_subscribe(): a handler that is not there is not waited for.
extdev_subscribe(S) ==
  [S EXCEPT !.etype.subscribed = S.handler.alive, !.etype.current = S.handler.alive]
-----------------------------------------------------------------------------
(***************************************************************************)
(* Members and the state of the bridge.                                    *)
(***************************************************************************)

\* device_claim() of a member's device by its instance.
device_claim(S, m) ==
  IF m \in S.claimed THEN Ret(S, "ok")
  ELSE IF "claim" \in S.handler.refuses /\ ~\E i \in Inst : <<i, m[2]>> \in S.claimed
  THEN Ret(S, "error")
  ELSE [S EXCEPT !.ret = "ok", !.claimed = @ \cup {m}]

extdev_bridge_enable_interface(S, i) ==
  LET Made(T) == IF T.ret = "ok" THEN [T EXCEPT !.ebr[i].active = TRUE] ELSE T
  IN IF S.ebr[i].active THEN Ret(S, "ok") ELSE Made(invoke(S, "create", None))

extdev_bridge_disable_interface(S, i) ==
  LET Freed(T) == IF T.ret = "error" THEN T ELSE [T EXCEPT !.ret = "ok", !.ebr[i].active = FALSE]
  IN IF ~S.ebr[i].active THEN Ret(S, "ok") ELSE Freed(invoke(S, "free", None))

\* Mutant: a member that failed is still counted.
extdev_bridge_enable_member_Counts(S, m) ==
  LET i == m[1]  d == m[2]
      Failed(T) == [T EXCEPT !.ebr[i].n_failed = TRUE, !.mems[i][d].present = FALSE]
      Added(T) == IF T.ret # "ok" THEN Failed(T)
                  ELSE call([T EXCEPT !.stray = @ \/ ~IsClaimed(T, i)], "device_set_present", <<i, TRUE>>)
      Claimed(T) == IF T.ret # "ok" THEN Failed(T) ELSE Added(invoke(T, "add", d))
      Made(T) == IF T.ret # "ok" THEN Failed(T) ELSE Claimed(device_claim(T, m))
  IN IF ~S.mems[i][d].present THEN S ELSE Made(extdev_bridge_enable_interface(S, i))

\* extdev_bridge_enable_member(): the claim is kept when the handler refuses the member.
extdev_bridge_enable_member(S, m) ==
  LET i == m[1]  d == m[2]
      Failed(T) == [T EXCEPT !.ebr[i].n_failed = TRUE, !.mems[i][d].present = FALSE,
                             !.ebr[i].n_present = @ - 1]
      Added(T) == IF T.ret # "ok" THEN Failed(T)
                  ELSE call([T EXCEPT !.stray = @ \/ ~IsClaimed(T, i)], "device_set_present", <<i, TRUE>>)
      Claimed(T) == IF T.ret # "ok" THEN Failed(T) ELSE Added(invoke(T, "add", d))
      Made(T) == IF T.ret # "ok" THEN Failed(T) ELSE Claimed(device_claim(T, m))
  IN IF ~S.mems[i][d].present THEN S ELSE Made(extdev_bridge_enable_interface(S, i))

extdev_bridge_disable_member(S, m) ==
  LET Gone(T) == IF T.ret = "error" THEN T ELSE [T EXCEPT !.claimed = @ \ {m}]
  IN IF S.mems[m[1]][m[2]].present THEN Gone(invoke(S, "remove", m[2])) ELSE S

extdev_bridge_set_down(S, i) ==
  Ret(extdev_bridge_disable_interface(each(S, "extdev_bridge_disable_member", Members(S, i)), i), "ok")

extdev_bridge_check_retry(S, i) == IF S.ebr[i].n_failed THEN [S EXCEPT !.ebr[i].retry = TRUE] ELSE S

extdev_bridge_set_up(S, i) ==
  LET Enable(T) == each([T EXCEPT !.ebr[i].n_failed = FALSE], "extdev_bridge_enable_member", Members(T, i))
      Empty(T) == ~T.ebr[i].force_active /\ T.ebr[i].n_present = 0
      Check(T) == IF ~Empty(T) THEN Ret(T, "ok")
                  ELSE Ret(call(extdev_bridge_disable_interface(T, i), "device_set_present", <<i, FALSE>>), "error")
      Made(T) == IF T.ret # "ok" THEN T ELSE Check(extdev_bridge_check_retry(Enable(T), i))
  IN Made(IF S.ebr[i].n_present # 0 THEN Ret(S, "ok")
          ELSE IF ~S.ebr[i].force_active THEN Ret(S, "error")
          ELSE extdev_bridge_enable_interface(S, i))

extdev_bridge_set_state(S, i, up) ==
  IF up THEN extdev_bridge_set_up(S, i) ELSE extdev_bridge_set_down(S, i)

extdev_bridge_remove_member(S, m) ==
  LET i == m[1]
      S1 == [(IF IsClaimed(S, i) THEN call(S, "extdev_bridge_disable_member", m) ELSE S)
               EXCEPT !.mems[i][m[2]].present = FALSE, !.ebr[i].n_present = @ - 1]
      S2 == [S1 EXCEPT !.ebr[i].force_active = FALSE]
  IN IF ~S.mems[i][m[2]].present THEN S
     ELSE IF S.ebr[i].empty THEN S1
     ELSE IF S2.ebr[i].n_present = 0 THEN call(S2, "device_set_present", <<i, FALSE>>) ELSE S2

\* Mutant: only the first member is enabled when it appears.
member_add_FirstOnly(S, m) ==
  LET i == m[1]
      S1 == [S EXCEPT !.failed = @ \/ S.mems[i][m[2]].present, !.mems[i][m[2]].present = TRUE,
                      !.ebr[i].n_present = @ + 1]
      First(T) == call([T EXCEPT !.ebr[i].active = TRUE], "device_set_present", <<i, TRUE>>)
      Error(T) == [T EXCEPT !.mems[i][m[2]].present = FALSE, !.ebr[i].n_present = @ - 1]
      made == invoke(S1, "create", None)
  IN IF S1.ebr[i].n_present # 1 THEN S1
     ELSE IF made.ret = "ok" THEN call(First(made), "extdev_bridge_enable_member", m) ELSE Error(made)

\* extdev_bridge_member_cb(DEV_EVENT_ADD): the first member creates the bridge, and makes
\* it present, which lets the interface enable the member before this does.
member_add(S, m) ==
  LET i == m[1]
      S1 == [S EXCEPT !.failed = @ \/ S.mems[i][m[2]].present, !.mems[i][m[2]].present = TRUE,
                      !.ebr[i].n_present = @ + 1]
      Up(T) == IF "resolve" \in T.handler.refuses THEN extdev_bridge_set_down(T, i) ELSE T
      First(T) == call(Up([T EXCEPT !.ebr[i].active = TRUE]), "device_set_present", <<i, TRUE>>)
      Error(T) == [T EXCEPT !.mems[i][m[2]].present = FALSE, !.ebr[i].n_present = @ - 1]
      Enable(T) == call(T, "extdev_bridge_enable_member", m)
      made == invoke(S1, "create", None)
  IN IF S1.ebr[i].n_present # 1 THEN Enable(S1)
     ELSE IF made.ret = "ok" THEN Enable(First(made)) ELSE Error(made)

extdev_bridge_member_cb(S, m, ev) ==
  IF ev = "DEV_EVENT_ADD" THEN member_add(S, m) ELSE extdev_bridge_remove_member(S, m)

\* __bridge_enable_members(), for one member.
retry_member(S, m) ==
  LET i == m[1]
      S1 == [S EXCEPT !.mems[i][m[2]].present = TRUE, !.ebr[i].n_present = @ + 1]
  IN IF S.mems[i][m[2]].present \/ m[2] \notin S.there THEN S
     ELSE call(S1, "extdev_bridge_enable_member", m)

extdev_bridge_retry_enable_members(S, i) ==
  each([S EXCEPT !.ebr[i].n_failed = FALSE, !.ebr[i].retry = FALSE], "retry_member", Members(S, i))

\* device_set_present() of a member's device.
member_present(S, d, b) ==
  LET ev == IF b THEN "DEV_EVENT_ADD" ELSE "DEV_EVENT_REMOVE"
      S1 == [S EXCEPT !.there = IF b THEN @ \cup {d} ELSE @ \ {d}]
  IN FoldLeft(LAMBDA T, i : call(T, "extdev_bridge_member_cb", <<<<i, d>>, ev>>), S1, S.users[d])

\* extdev_bridge_create_member() and extdev_bridge_member_update(): a member that
\* exists is kept.
extdev_bridge_create_member(S, m) ==
  LET S1 == [S EXCEPT !.mems[m[1]][m[2]] = [NoMember EXCEPT !.exists = TRUE],
                      !.users[m[2]] = Append(@, m[1])]
  IN IF S.mems[m[1]][m[2]].exists THEN [S EXCEPT !.mems[m[1]][m[2]].old = FALSE]
     ELSE IF m[2] \in S.there THEN call(S1, "extdev_bridge_member_cb", <<m, "DEV_EVENT_ADD">>) ELSE S1

extdev_bridge_free_member(S, m) ==
  LET i == m[1]  d == m[2]
      S1 == call([S EXCEPT !.mems[i][d].exists = FALSE], "extdev_bridge_remove_member", m)
      S2 == [S1 EXCEPT !.claimed = @ \ {m}, !.users[d] = SelectSeq(@, LAMBDA j : j # i),
                       !.mems[i][d] = NoMember]
  IN IF d \in S.there THEN member_present(member_present(S2, d, FALSE), d, TRUE) ELSE S2
-----------------------------------------------------------------------------
(***************************************************************************)
(* The interface on top, as far as the bridge sees it (Netifd has the      *)
(* rest), and device.c.                                                    *)
(***************************************************************************)

interface_set_up(S) ==
  LET i == S.iface.dev
      Result(T) == IF T.ret = "ok" THEN [T EXCEPT !.iface.state = "IFS_UP"]
                   ELSE [T EXCEPT !.iface.claimed = FALSE]
  IN IF S.iface.state # "IFS_DOWN" \/ ~S.iface.available THEN S
     ELSE IF S.iface.claimed THEN [S EXCEPT !.iface.state = "IFS_UP"]
     ELSE Result(call([S EXCEPT !.iface.claimed = TRUE], "set_state", <<i, TRUE>>))

release(S) ==
  IF S.iface.claimed THEN call([S EXCEPT !.iface.claimed = FALSE], "set_state", <<S.iface.dev, FALSE>>)
  ELSE S

interface_set_down(S) ==
  CASE S.iface.state = "IFS_UP" /\ async -> [S EXCEPT !.iface.state = "IFS_TEARDOWN"]
    [] S.iface.state = "IFS_TEARDOWN" -> S
    [] OTHER -> release([S EXCEPT !.iface.state = "IFS_DOWN"])

start_pending(S) == IF S.wanted /\ S.iface.attached THEN interface_set_up(S) ELSE S

\* interface_set_available().
interface_main_dev_cb(S, b) ==
  LET S1 == [S EXCEPT !.iface.available = b]
  IN IF S.iface.available = b THEN S
     ELSE IF ~b THEN interface_set_down(S1)
     ELSE IF S.config_init THEN S1 ELSE start_pending(S1)

\* device_set_present() of the bridge.
device_set_present(S, i, b) ==
  LET S1 == [S EXCEPT !.ebr[i].present = b]
  IN IF S.ebr[i].present = b THEN S
     ELSE IF S.iface.attached /\ S.iface.dev = i THEN call(S1, "interface_main_dev_cb", b) ELSE S1

\* The interface becomes a user of instance i; 0 is a plain device that never appears.
attach(S, i) ==
  LET S1 == [S EXCEPT !.iface.attached = TRUE, !.iface.dev = i]
  IN IF i # 0 /\ S.ebr[i].present THEN call(S1, "interface_main_dev_cb", TRUE) ELSE S1
-----------------------------------------------------------------------------
(***************************************************************************)
(* Configuration.                                                          *)
(***************************************************************************)

\* __bridge_config_init().
bridge_config_init(S, i) ==
  LET c == S.ebr[i].config
      Add(T) == each(T, "extdev_bridge_create_member",
                     LET ds == SelectSeq(DevOrder, LAMBDA d : d \in c.ifnames) IN [k \in DOMAIN ds |-> <<i, ds[k]>>])
      Flush(T) == each(T, "extdev_bridge_free_member",
                       SelectSeq(Members(T, i), LAMBDA m : T.mems[i][m[2]].old))
      Update(T) == [T EXCEPT !.ebr[i].n_failed = FALSE,
                             !.mems[i] = [d \in Dev |-> [@[d] EXCEPT !.old = TRUE]]]
      Fill(T) == extdev_bridge_check_retry(Flush(Add(Update(T))), i)
      made == invoke([S EXCEPT !.ebr[i].force_active = TRUE], "create", None)
  IN IF ~S.ebr[i].empty THEN Fill(S)
     ELSE IF made.ret # "ok" THEN made
     ELSE Fill(call(made, "device_set_present", <<i, TRUE>>))

\* The end of __bridge_reload(): a bridge whose dependency is not ready waits for it.
bridge_init_when_ready(S, i, change) ==
  IF S.ebr[i].config.dep # "none" /\ ~S.dep
  THEN [S EXCEPT !.ebr[i].dep_retry = TRUE, !.ret = "RESTART"]
  ELSE [call(S, "bridge_config_init", i) EXCEPT !.ebr[i].config_pending = FALSE,
                                               !.ebr[i].dep_retry = FALSE, !.ret = change]

\* __bridge_reload(): only a change of the members is told to the handler.
bridge_reload(S, i, c) ==
  LET old == S.ebr[i].config
      told == old # None /\ c.ifnames # old.ifnames /\ [old EXCEPT !.ifnames = c.ifnames] = c
      S1 == IF told THEN invoke(S, "reload", None) ELSE S
      change == IF old = None \/ c = old THEN "APPLIED"
                ELSE IF told /\ S1.ret # "ok" THEN "RECREATE" ELSE "RESTART"
      S2 == [S1 EXCEPT !.ebr[i].empty = @ \/ c.empty, !.ebr[i].config = c]
  IN bridge_init_when_ready(S2, i, change)

\* __bridge_create().
bridge_create(S, i, c) ==
  bridge_reload([S EXCEPT !.ebr[i] = [NoBridge EXCEPT !.exists = TRUE, !.config_pending = TRUE]], i, c)

\* extdev_free(): a bridge that the handler does not free is not freed here either,
\* although nothing refers to it any more but its members.
extdev_free(S, i) ==
  LET T == invoke(S, "free", None)
  IN IF ~S.etype.subscribed THEN S
     ELSE IF T.ret = "error" THEN T
     ELSE [each(T, "extdev_bridge_free_member", Members(T, i)) EXCEPT !.ebr[i] = NoBridge]

\* Mutant: the interface is left on the device that goes.
device_replace_KeepsUsers(S, old, new) == IF old = 0 THEN S ELSE extdev_free(S, old)

\* device_replace() of instance old by instance new.
device_replace(S, old, new) ==
  LET Move(T) == IF T.iface.attached /\ T.iface.dev = old THEN attach(release(T), new) ELSE T
      Hide(T) == IF old = 0 THEN T ELSE device_set_present(T, old, FALSE)
  IN IF old = 0 THEN Move(S) ELSE extdev_free(Move(Hide(S)), old)

\* The part of device_create() that makes a new instance.
create(S, old, c) ==
  LET new == CHOOSE i \in Inst : ~S.ebr[i].exists
  IN IF ~S.etype.subscribed \/ \A i \in Inst : S.ebr[i].exists THEN S
     ELSE device_replace([bridge_create(S, new, c) EXCEPT !.cur = new], old, new)

\* device_apply_config() and device_create() of a bridge that exists.
device_apply_config(S, i, c) ==
  LET T == IF S.etype.subscribed THEN bridge_reload(S, i, c) ELSE Ret(S, "NO_CHANGE")
      Hidden(U) == device_set_present(U, i, FALSE)
      Toggle(U) == IF IsClaimed(U, i) THEN each(U, "set_state", <<<<i, FALSE>>, <<i, TRUE>>>>) ELSE Ret(U, "ok")
      Shown(U) == IF U.ret = "ok" THEN device_set_present(U, i, TRUE) ELSE U
  IN IF T.ret = "RECREATE" THEN create([T EXCEPT !.cur = 0], i, c)
     ELSE IF T.ret = "RESTART" /\ T.ebr[i].present THEN Shown(Toggle(Hidden(T)))
     ELSE T

device_create(S, c) == IF S.cur = 0 THEN create(S, 0, c) ELSE device_apply_config(S, S.cur, c)

\* device_init_pending() and extdev_config_init(): the dependency is not looked at.
device_init_pending(S) ==
  LET i == S.cur
      S1 == IF S.etype.subscribed THEN bridge_config_init(S, i) ELSE S
  IN IF i # 0 /\ S.ebr[i].config_pending THEN [S1 EXCEPT !.ebr[i].config_pending = FALSE] ELSE S

\* config_init_all() with the bridge, the device it depends on, and the interface.
config_init_all(S, c) ==
  LET Device(T) == [device_create([T EXCEPT !.dep = (c.dep = "before")], c)
                      EXCEPT !.current_config = TRUE, !.dep = c.dep \in {"before", "after"}]
      Interface(T) == IF T.iface.attached THEN T ELSE attach(T, T.cur)
      Done(T) == start_pending(device_init_pending([T EXCEPT !.config_init = FALSE]))
      Flush(T) == [interface_set_down(T) EXCEPT !.iface = NoIface]
  IN IF c = None THEN Flush([S EXCEPT !.current_config = FALSE, !.dep = FALSE])
     ELSE Done(Interface(Device([S EXCEPT !.config_init = TRUE])))

call(S, fn, x) ==
  CASE fn = "extdev_bridge_enable_member" -> extdev_bridge_enable_member(S, x)
    [] fn = "extdev_bridge_disable_member" -> extdev_bridge_disable_member(S, x)
    [] fn = "extdev_bridge_remove_member" -> extdev_bridge_remove_member(S, x)
    [] fn = "extdev_bridge_create_member" -> extdev_bridge_create_member(S, x)
    [] fn = "extdev_bridge_free_member" -> extdev_bridge_free_member(S, x)
    [] fn = "extdev_bridge_member_cb" -> extdev_bridge_member_cb(S, x[1], x[2])
    [] fn = "retry_member" -> retry_member(S, x)
    [] fn = "set_state" -> extdev_bridge_set_state(S, x[1], x[2])
    [] fn = "device_set_present" -> device_set_present(S, x[1], x[2])
    [] fn = "interface_main_dev_cb" -> interface_main_dev_cb(S, x)
    [] fn = "bridge_config_init" -> bridge_config_init(S, x)
-----------------------------------------------------------------------------
Event(T) ==
  /\ there' = T.there /\ users' = T.users /\ mems' = T.mems /\ claimed' = T.claimed
  /\ ebr' = T.ebr /\ cur' = T.cur /\ current_config' = T.current_config /\ dep' = T.dep
  /\ iface' = T.iface /\ wanted' = T.wanted /\ etype' = T.etype /\ handler' = T.handler
  /\ failed' = T.failed /\ stray' = T.stray
  /\ UNCHANGED async

\* The daemon starts with or without the handler: extdev_add_devtype().
Init ==
  /\ there = {} /\ users = [d \in Dev |-> <<>>]
  /\ mems = [i \in Inst |-> [d \in Dev |-> NoMember]]
  /\ claimed = {} /\ ebr = [i \in Inst |-> NoBridge]
  /\ cur = 0 /\ current_config = FALSE /\ dep = FALSE
  /\ iface = NoIface /\ wanted = TRUE /\ async \in BOOLEAN
  /\ \E up \in BOOLEAN :
       /\ handler = [alive |-> up, missed |-> FALSE, created |-> FALSE, members |-> {}, refuses |-> {}]
       /\ etype = [subscribed |-> up, current |-> up, waiting |-> FALSE]
  /\ notices = <<>>
  /\ failed = FALSE /\ stray = FALSE
  /\ reloads = 0 /\ crashes = 0 /\ refusals = {}

\* An interface whose teardown takes time stays in the file.
Reload(c) ==
  /\ reloads < MaxReloads
  /\ c = None => ~async
  /\ reloads' = reloads + 1
  /\ Event(config_init_all(S0, c))
  /\ UNCHANGED <<notices, crashes, refusals>>

\* __device_free_unused().
FreeUnused ==
  /\ cur # 0 /\ ~current_config /\ ~iface.attached
  /\ Event(extdev_free([S0 EXCEPT !.cur = 0], cur))
  /\ UNCHANGED <<notices, counters>>

Plug(d) ==
  /\ reloads > 0 /\ d \notin there
  /\ Event(member_present(S0, d, TRUE))
  /\ UNCHANGED <<notices, counters>>

Unplug(d) ==
  /\ d \in there
  /\ Event(member_present(S0, d, FALSE))
  /\ UNCHANGED <<notices, counters>>

\* interface_handle_link() and extdev_hotplug_add(): the member is not marked as
\* hotplugged, the next reload drops it.
HotplugAdd(d) ==
  /\ cur # 0 /\ iface.attached /\ etype.subscribed /\ d \in Hotplug
  /\ Event(LET S == IF d \in there THEN S0 ELSE member_present(S0, d, TRUE)
           IN extdev_bridge_create_member(S, <<cur, d>>))
  /\ UNCHANGED <<notices, counters>>

\* extdev_hotplug_remove().  The member is freed; what the code then does with the freed
\* member is left out.
HotplugRemove(d) ==
  /\ cur # 0 /\ iface.attached /\ etype.subscribed /\ d \in Hotplug /\ mems[cur][d].exists
  /\ Event(extdev_bridge_free_member(S0, <<cur, d>>))
  /\ UNCHANGED <<notices, counters>>

\* extdev_hotplug_prepare().
HotplugPrepare ==
  /\ cur # 0
  /\ LET T == invoke(S0, "prepare", None)
     IN Event(IF T.ret # "ok" THEN T
              ELSE device_set_present([T EXCEPT !.ebr[cur].force_active = TRUE], cur, TRUE))
  /\ UNCHANGED <<notices, counters>>

Retry(i) ==
  /\ ebr[i].retry
  /\ Event(extdev_bridge_retry_enable_members(S0, i))
  /\ UNCHANGED <<notices, counters>>

\* bridge_dependency_retry().
DependencyRetry(i) ==
  /\ ebr[i].dep_retry
  /\ Event(bridge_init_when_ready([S0 EXCEPT !.ebr[i].dep_retry = FALSE], i, "APPLIED"))
  /\ UNCHANGED <<notices, counters>>

IfUp ==
  /\ iface.attached /\ ~wanted
  /\ Event(interface_set_up([S0 EXCEPT !.wanted = TRUE]))
  /\ UNCHANGED <<notices, counters>>

IfDown ==
  /\ iface.attached /\ wanted
  /\ Event(interface_set_down([S0 EXCEPT !.wanted = FALSE]))
  /\ UNCHANGED <<notices, counters>>

TeardownDone ==
  /\ iface.state = "IFS_TEARDOWN"
  /\ Event(start_pending(release([S0 EXCEPT !.iface.state = "IFS_DOWN"])))
  /\ UNCHANGED <<notices, counters>>

\* The handler goes; ubus tells its subscriber.
Crash ==
  /\ handler.alive /\ crashes + Cardinality(refusals) < MaxTroubles
  /\ crashes' = crashes + 1
  /\ handler' = [alive |-> FALSE, missed |-> etype.current, created |-> FALSE, members |-> {}, refuses |-> {}]
  /\ etype' = [etype EXCEPT !.current = FALSE]
  /\ notices' = IF etype.current THEN Append(notices, "remove") ELSE notices
  /\ UNCHANGED <<there, users, mems, claimed, ebr, cur, current_config, dep, iface, wanted, async,
                 failed, stray, reloads, refusals>>

\* The handler comes (back); ubus tells those that wait for it.
Start ==
  /\ ~handler.alive
  /\ handler' = [handler EXCEPT !.alive = TRUE, !.missed = @ /\ "remove" \notin ToSet(notices)]
  /\ notices' = IF etype.waiting THEN Append(notices, "add") ELSE notices
  /\ UNCHANGED <<there, users, mems, claimed, ebr, cur, current_config, dep, iface, wanted, async,
                 etype, failed, stray, counters>>

Refuse(f) ==
  /\ handler.alive /\ handler.refuses # f
  /\ f = {} \/ crashes + Cardinality(refusals) < MaxTroubles
  /\ handler' = [handler EXCEPT !.refuses = f]
  /\ refusals' = refusals \cup ({f} \ {{}})
  /\ UNCHANGED <<there, users, mems, claimed, ebr, cur, current_config, dep, iface, wanted, async,
                 etype, notices, failed, stray, reloads, crashes>>

\* Mutant: the daemon does not wait for the handler to come back.
extdev_ext_handler_remove_cb_Forgets(S) == [S EXCEPT !.etype.subscribed = FALSE]

extdev_ext_handler_remove_cb(S) == [S EXCEPT !.etype.subscribed = FALSE, !.etype.waiting = TRUE]

\* extdev_ext_handler_remove_cb() and extdev_wait_ev_cb().
Notice ==
  /\ notices # <<>>
  /\ notices' = Tail(notices)
  /\ Event(IF Head(notices) = "remove" THEN extdev_ext_handler_remove_cb(S0) ELSE extdev_subscribe(S0))
  /\ UNCHANGED counters

Next ==
  \/ \E c \in Config : Reload(c)
  \/ \E d \in Dev : Plug(d) \/ Unplug(d) \/ HotplugAdd(d) \/ HotplugRemove(d)
  \/ \E i \in Inst : Retry(i) \/ DependencyRetry(i)
  \/ \E f \in Fault : Refuse(f)
  \/ FreeUnused \/ HotplugPrepare \/ IfUp \/ IfDown \/ TeardownDone \/ Crash \/ Start \/ Notice

\* The loop of the daemon handles what ubus has sent.
Fairness == []<>(notices = <<>>) \/ []<><<Notice>>_vars

Spec == Init /\ [][Next]_vars /\ Fairness
-----------------------------------------------------------------------------
\* The type invariant.
TypeOK ==
  /\ there \subseteq Dev /\ claimed \subseteq Inst \X Dev /\ cur \in {0} \cup Inst
  /\ \A i \in Inst : /\ ebr[i].n_present \in 0..Cardinality(Dev)
                     /\ ebr[i].config \in Config \cup {None}
  /\ iface.dev \in {0} \cup Inst
  /\ iface.state \in {"IFS_DOWN", "IFS_UP", "IFS_TEARDOWN"}
  /\ handler.members \subseteq Dev /\ handler.refuses \in Fault
  /\ notices \in Seq({"add", "remove"})

\* The handler has refused nothing but a reload so far.
Healthy == crashes = 0 /\ refusals \subseteq {{"reload"}}

\* assert(!ubm->present) in extdev_bridge_member_cb() holds.
AssertsHold == ~failed

\* n_present counts the members that are present, whatever the handler refuses.
PresentCounted ==
  \A i \in Inst : ebr[i].n_present = Cardinality({d \in Dev : mems[i][d].present})

\* A claim on a device belongs to a member of a bridge: a bridge that is freed, or
\* replaced behind a handler that refuses a reload, lets go of all its devices.
ClaimsAreMembers == \A m \in claimed : mems[m[1]][m[2]].exists /\ ebr[m[1]].exists

\* Present members are counted right in extdev.c, claims belong to members of live
\* bridges, and no assert() fails, whatever the handler refuses.
CountsAgree == TypeOK /\ AssertsHold /\ PresentCounted /\ ClaimsAreMembers

\* The interface is only up on a bridge of the device list, and has claimed it.
UpIsCurrent == iface.state = "IFS_UP" => iface.claimed /\ iface.dev = cur /\ ebr[cur].exists

\* While the handler works, a bridge that is taken for active is there.
ActiveIsCreated == Healthy => \A i \in Inst : ebr[i].active => handler.created

\* While the handler works, an interface that is up has the members that are present
\* in its bridge, each of them claimed.
MembersJoined ==
  Healthy /\ iface.state = "IFS_UP" =>
    \A d \in Dev : mems[cur][d].present => d \in handler.members /\ <<cur, d>> \in claimed

\* While the handler works, it has no member that the daemon does not know of, if no
\* member has joined while nobody was using the bridge.
NoStrangers ==
  Healthy /\ ~stray =>
    \A d \in handler.members : \E i \in Inst : mems[i][d].exists /\ mems[i][d].present

\* While the handler works, netifd and the handler agree on the bridge and its members.
HandlerAgrees == ActiveIsCreated /\ MembersJoined /\ NoStrangers

\* A bridge with members or kept by force is offered to the interface.
BridgeIsOffered ==
  Healthy /\ cur # 0 => (ebr[cur].n_present > 0 => ebr[cur].present)

\* While the handler works, a bridge nobody has claimed holds no device, if no member has
\* joined while nobody was using the bridge.  (A member the handler refuses stays claimed.)
ReleasedIsFree ==
  Healthy /\ ~stray => \A m \in claimed : iface.claimed /\ iface.dev = m[1]

\* While the handler works, only the bridge in the list of devices lives on: the one that
\* a refused reload has replaced is gone.
OneBridge == Healthy => \A i \in Inst : ebr[i].exists => i = cur

\* The interface is up on the bridge the file describes now; there is one, offered while
\* a member is present, and it holds no member when it is released.
BridgeServed == UpIsCurrent /\ BridgeIsOffered /\ ReleasedIsFree /\ OneBridge

\* The way out after the handler has lost its bridges: an interface that is taken down and
\* up again has its bridge and its members back, although the daemon took the bridge for
\* active all the time.
RestartRepairs ==
  [][IfUp /\ ~stray /\ etype.current /\ handler.refuses = {} /\ iface'.state = "IFS_UP"
     => handler'.created /\ \A d \in Dev : mems'[cur][d].present => d \in handler'.members]_vars

\* A handler that comes back, and whose going the daemon had seen, is subscribed to again.
Resubscribes == [](handler.alive /\ handler.missed => <>(etype.subscribed \/ ~handler.alive))

\* netifd recovers from the handler's death: it subscribes to the new one, and a restart
\* of the interface recreates the bridge (extdev_ext_handler_remove_cb).
Recovers == RestartRepairs /\ Resubscribes
=============================================================================
