----------------------------- MODULE ProtoShell -----------------------------
(***************************************************************************)
(* One interface run by a protocol shell handler: the handler's state      *)
(* machine (proto-shell.c), the interface state machine that drives it and *)
(* is driven by it (interface.c), and the processes, timers and ubus       *)
(* notifications that arrive in any order.  One action is one uloop event: *)
(* a child that exits, a timer, a ubus call or a device event, with        *)
(* everything the daemon does before it returns to the event loop.         *)
(*                                                                         *)
(* The device is reduced to what the interface sees of it: availability,   *)
(* readiness (up, with link), and whether a claim on it succeeds.          *)
(***************************************************************************)
EXTENDS Naturals

CONSTANT Handler    \* the handlers and configurations an interface can have

\* no_task, renew, nodev, l3_teardown: PROTO_FLAG_NO_TASK, RENEW_AVAILABLE, NODEV,
\* TEARDOWN_ON_L3_LINK_DOWN; checkup: checkup_interval > 0 in the configuration.
HandlerFlags ==
  [no_task : BOOLEAN, renew : BOOLEAN, nodev : BOOLEAN,
   l3_teardown : BOOLEAN, checkup : BOOLEAN]

ASSUME HandlerAssumption == Handler \subseteq HandlerFlags /\ Handler # {}

IfState == {"IFS_SETUP", "IFS_UP", "IFS_TEARDOWN", "IFS_DOWN"}
ShellSm == {"S_IDLE", "S_SETUP", "S_SETUP_ABORT", "S_TEARDOWN"}
Stopping == {"S_SETUP_ABORT", "S_TEARDOWN"}

VARIABLES
  \* struct interface
  state, autostart, available,
  ready,              \* enabled && (link_state || force_link)
  claimed,            \* main_dev.claimed
  l3_claimed,         \* l3_dev.claimed
  reload,             \* config_state = IFC_RELOAD
  \* struct proto_shell_state
  handler,            \* the flags of its handler
  sm,
  script,             \* script_task: what it runs, or "none"
  task,               \* proto_task: "none", "runs" or "signalled"
  proto_task_killed, renew_pending,
  teardown_timeout, checkup_timeout,   \* the timer is armed
  dep,                \* its host dependency: "none", "waits" or "met"
  \* history
  mishap              \* failures and strays the environment produced so far

netVars   == <<available, ready, claimed, l3_claimed>>
ifVars    == <<state, autostart, reload, netVars>>
taskVars  == <<script, task, proto_task_killed, renew_pending>>
timerVars == <<teardown_timeout, checkup_timeout>>
shellVars == <<handler, sm, taskVars, timerVars, dep>>
vars      == <<ifVars, shellVars, mishap>>

TypeOK ==
  /\ state \in IfState
  /\ autostart \in BOOLEAN /\ available \in BOOLEAN /\ ready \in BOOLEAN
  /\ claimed \in BOOLEAN /\ l3_claimed \in BOOLEAN
  /\ reload \in BOOLEAN
  /\ handler \in Handler
  /\ sm \in ShellSm
  /\ script \in {"none", "setup", "renew", "teardown"}
  /\ task \in {"none", "runs", "signalled"}
  /\ proto_task_killed \in BOOLEAN /\ renew_pending \in BOOLEAN
  /\ teardown_timeout \in BOOLEAN /\ checkup_timeout \in BOOLEAN
  /\ dep \in {"none", "waits", "met"}
  /\ mishap \in SUBSET {"fork", "stray", "claim"}
  /\ handler.nodev => ~claimed

\* A configured interface before its device showed up.
Init ==
  /\ state = "IFS_DOWN" /\ autostart \in BOOLEAN /\ reload = FALSE
  /\ available = FALSE /\ ready = FALSE
  /\ claimed = FALSE /\ l3_claimed = FALSE
  /\ handler \in Handler
  /\ sm = "S_IDLE" /\ script = "none" /\ task = "none"
  /\ proto_task_killed = FALSE /\ renew_pending = FALSE
  /\ teardown_timeout = FALSE /\ checkup_timeout = FALSE
  /\ dep = "none"
  /\ mishap = {}
-----------------------------------------------------------------------------
(***************************************************************************)
(* Commands to the handler: proto_shell_handler().                         *)
(***************************************************************************)

\* kill(SIGTERM) of the proto task, if it runs.
Terminated(t) == IF t = "none" THEN "none" ELSE "signalled"

\* netifd_start_process() of a script kills what the slot ran and then forks.
Started(kind) == {kind, "none"}

\* What bringing the interface up depends on.
Now ==
  [handler |-> handler, available |-> available, ready |-> ready,
   claimed |-> claimed, l3_claimed |-> l3_claimed,
   sm |-> sm, script |-> script, dep |-> dep]

(***************************************************************************)
(* __interface_set_up() of an interface that is down: PROTO_CMD_SETUP.     *)
(* Refused or not forked, the interface is marked down again, but a failed *)
(* fork leaves S_SETUP behind.                                             *)
(***************************************************************************)
interface_do_set_up(s) ==
  \/ /\ s.sm = "S_IDLE"
     /\ sm' = "S_SETUP" /\ dep' = "none"
     /\ script' \in Started("setup")
     /\ IF script' = "none"
        THEN /\ state' = "IFS_DOWN" /\ l3_claimed' = FALSE
             /\ mishap' = mishap \cup {"fork"}
        ELSE /\ state' = "IFS_SETUP" /\ l3_claimed' = s.l3_claimed
             /\ UNCHANGED mishap
  \/ /\ s.sm # "S_IDLE"
     /\ sm' = s.sm /\ script' = s.script /\ dep' = s.dep
     /\ state' = "IFS_DOWN" /\ l3_claimed' = FALSE
     /\ UNCHANGED mishap

StaysDown(s) ==
  /\ state' = "IFS_DOWN" /\ sm' = s.sm /\ script' = s.script /\ dep' = s.dep
  /\ l3_claimed' = s.l3_claimed
  /\ UNCHANGED mishap

(***************************************************************************)
(* interface_set_up() of an interface that is down.  A fresh claim brings  *)
(* the device up, and its events make the interface ready if it has link.  *)
(***************************************************************************)
interface_set_up(s) ==
  \/ /\ ~s.available
     /\ StaysDown(s) /\ claimed' = s.claimed /\ ready' = s.ready
  \/ /\ s.available /\ s.handler.nodev
     /\ interface_do_set_up(s) /\ claimed' = s.claimed /\ ready' = s.ready
  \/ /\ s.available /\ ~s.handler.nodev /\ ~s.claimed
     /\ StaysDown(s) /\ claimed' = FALSE /\ ready' = s.ready
  \/ /\ s.available /\ ~s.handler.nodev
     /\ claimed' = TRUE /\ ready' \in IF s.claimed THEN {s.ready} ELSE BOOLEAN
     /\ IF ready' THEN interface_do_set_up(s) ELSE StaysDown(s)

\* Mutant: a teardown is refused after the setup.
proto_shell_teardown_NotIdle ==
  \/ /\ sm = "S_SETUP" /\ script # "none"
     /\ sm' = "S_SETUP_ABORT" /\ renew_pending' = FALSE /\ teardown_timeout' = TRUE
     /\ task' = Terminated(task)
     /\ UNCHANGED script
  \/ /\ sm = "S_SETUP" /\ script = "none"
     /\ sm' = "S_TEARDOWN" /\ renew_pending' = FALSE /\ teardown_timeout' = TRUE
     /\ script' \in Started("teardown")
     /\ UNCHANGED task
  \/ /\ sm \in Stopping \cup {"S_IDLE"}
     /\ UNCHANGED <<sm, script, task, renew_pending, teardown_timeout>>

(***************************************************************************)
(* PROTO_CMD_TEARDOWN: abort a running setup script, else run the teardown *)
(* script; a teardown that is under way is left alone.                     *)
(***************************************************************************)
proto_shell_teardown ==
  \/ /\ sm = "S_SETUP" /\ script # "none"
     /\ sm' = "S_SETUP_ABORT" /\ renew_pending' = FALSE /\ teardown_timeout' = TRUE
     /\ task' = Terminated(task)
     /\ UNCHANGED script
  \/ /\ sm = "S_IDLE" \/ (sm = "S_SETUP" /\ script = "none")
     /\ sm' = "S_TEARDOWN" /\ renew_pending' = FALSE /\ teardown_timeout' = TRUE
     /\ script' \in Started("teardown")
     /\ UNCHANGED task
  \/ sm \in Stopping /\ UNCHANGED <<sm, script, task, renew_pending, teardown_timeout>>

\* The environment addresses a handler whose interface is down.
Stray == IF state = "IFS_DOWN" THEN {"stray"} ELSE {}

\* PROTO_CMD_RENEW: at once, or when the running script has finished.
proto_shell_renew(mishaps) ==
  \/ /\ handler.renew /\ script # "none"
     /\ renew_pending' = TRUE /\ mishap' = mishaps
     /\ UNCHANGED script
  \/ /\ handler.renew /\ script = "none"
     /\ renew_pending' = FALSE
     /\ script' \in Started("renew")
     /\ mishap' = IF script' = "none" THEN mishaps \cup {"fork"} ELSE mishaps
  \/ ~handler.renew /\ UNCHANGED <<script, renew_pending, mishap>>

\* interface_proto_event_cb(), IFPEV_LINK_LOST.
LinkLost ==
  IF state = "IFS_UP"
  THEN state' = "IFS_SETUP" /\ l3_claimed' = FALSE
  ELSE UNCHANGED <<state, l3_claimed>>
-----------------------------------------------------------------------------
(***************************************************************************)
(* The interface: interface.c.                                             *)
(***************************************************************************)

\* interface_check_state() with the enabled flag and link state in s.
interface_check_state(s) ==
  LET down == state \in {"IFS_UP", "IFS_SETUP"} /\ ~s.ready
      up   == state = "IFS_DOWN" /\ available /\ autostart /\ s.ready
  IN \/ /\ down
        /\ state' = "IFS_TEARDOWN"
        /\ proto_shell_teardown
        /\ UNCHANGED <<l3_claimed, dep, mishap>>
     \/ /\ up
        /\ interface_do_set_up(s)
        /\ UNCHANGED <<task, renew_pending, teardown_timeout>>
     \/ /\ ~down /\ ~up
        /\ UNCHANGED <<state, l3_claimed, sm, script, task, renew_pending,
                       teardown_timeout, dep, mishap>>

(***************************************************************************)
(* __interface_set_down().  Only the last user of the device brings it     *)
(* down when it releases its claim, and the interface is no longer ready.  *)
(***************************************************************************)
interface_do_set_down(force) ==
  \/ /\ state \in {"IFS_UP", "IFS_SETUP"}
     /\ state' = "IFS_TEARDOWN"
     /\ proto_shell_teardown
     /\ l3_claimed' = (l3_claimed /\ ~force)
     /\ UNCHANGED <<claimed, ready>>
  \/ /\ state = "IFS_DOWN"
     /\ claimed' = FALSE
     /\ ready' \in IF claimed THEN {FALSE, ready} ELSE {ready}
     /\ UNCHANGED <<state, l3_claimed, sm, script, task, renew_pending,
                    teardown_timeout>>
  \/ /\ state = "IFS_TEARDOWN"
     /\ UNCHANGED <<state, l3_claimed, claimed, ready, sm, script, task,
                    renew_pending, teardown_timeout>>

\* interface_set_available(), the dependency having become d.
interface_set_available(new_state, d) ==
  /\ available' = new_state
  /\ \/ /\ new_state /\ ~available /\ autostart /\ state = "IFS_DOWN"
        /\ interface_set_up([Now EXCEPT !.available = TRUE, !.dep = d])
        /\ UNCHANGED <<task, renew_pending, teardown_timeout>>
     \/ /\ ~new_state /\ available
        /\ interface_do_set_down(TRUE)
        /\ dep' = d
        /\ UNCHANGED mishap
     \/ /\ new_state = available \/ (new_state /\ ~(autostart /\ state = "IFS_DOWN"))
        /\ dep' = d
        /\ UNCHANGED <<state, claimed, ready, l3_claimed, sm, script, task,
                       renew_pending, teardown_timeout, mishap>>
-----------------------------------------------------------------------------
(***************************************************************************)
(* Device events and ubus calls on the interface.                          *)
(***************************************************************************)

\* interface_main_dev_cb(), DEV_EVENT_ADD and DEV_EVENT_REMOVE.
SetAvailable(b) ==
  /\ available # b
  /\ interface_set_available(b, dep)
  /\ UNCHANGED <<autostart, reload, handler, proto_task_killed, checkup_timeout>>

\* interface_main_dev_cb(), the up, down, link and auth events:
\* interface_set_enabled() and interface_set_link_state().
SetReady(b) ==
  /\ ~handler.nodev /\ ready # b
  /\ ready' = b
  /\ interface_check_state([Now EXCEPT !.ready = b])
  /\ UNCHANGED <<autostart, available, claimed, reload, handler,
                 proto_task_killed, checkup_timeout>>

\* interface_l3_dev_cb(): the tunnel device of the interface lost its link.
L3LinkDown ==
  /\ handler.l3_teardown /\ l3_claimed
  /\ proto_shell_teardown
  /\ UNCHANGED <<ifVars, handler, proto_task_killed, checkup_timeout, dep, mishap>>

\* ubus "up": interface_set_up().
SetUp ==
  /\ autostart' = TRUE
  /\ \/ /\ state = "IFS_DOWN"
        /\ interface_set_up(Now)
     \/ /\ state # "IFS_DOWN"
        /\ UNCHANGED <<state, claimed, ready, l3_claimed, sm, script, dep, mishap>>
  /\ UNCHANGED <<available, reload, handler, task, proto_task_killed,
                 renew_pending, timerVars>>

\* ubus "down": interface_set_down().
SetDown ==
  /\ autostart' = FALSE
  /\ interface_do_set_down(FALSE)
  /\ UNCHANGED <<available, reload, handler, proto_task_killed,
                 checkup_timeout, dep, mishap>>

\* ubus "renew": interface_renew().
Renew ==
  /\ state \notin {"IFS_TEARDOWN", "IFS_DOWN"}
  /\ proto_shell_renew(mishap)
  /\ UNCHANGED <<ifVars, handler, sm, task, proto_task_killed, timerVars, dep>>

\* interface_main_dev_cb(), DEV_EVENT_TOPO_CHANGE: in any state, even when down.
TopoChange ==
  /\ ~handler.nodev
  /\ proto_shell_renew(mishap \cup Stray)
  /\ UNCHANGED <<ifVars, handler, sm, task, proto_task_killed, timerVars, dep>>

\* Mutant: the checkup timer survives.
CancelTimers_KeepsCheckup == teardown_timeout' = FALSE /\ UNCHANGED checkup_timeout

\* uloop_timeout_cancel() of both timers of the shell.
CancelTimers == teardown_timeout' = FALSE /\ checkup_timeout' = FALSE

\* Mutant: config_state is not reset.
ConfigNormal_Kept == UNCHANGED reload

\* iface->config_state = IFC_NORMAL.
ConfigNormal == reload' = FALSE

(***************************************************************************)
(* interface_handle_config_change() of an interface that is down, its      *)
(* shell idle and its claims released.                                     *)
(*                                                                         *)
(* interface_do_reload(): the handler state is freed, its processes killed *)
(* and its timers cancelled, and a new one is attached.  The device of the *)
(* new configuration may be there or not, and up for other users or not.   *)
(***************************************************************************)
interface_do_reload ==
  /\ ConfigNormal
  /\ handler' \in Handler
  /\ available' \in BOOLEAN
  /\ \E e \in BOOLEAN :
       LET s == [handler |-> handler', available |-> available', ready |-> e,
                 claimed |-> FALSE, l3_claimed |-> FALSE,
                 sm |-> "S_IDLE", script |-> "none", dep |-> "none"]
       IN IF autostart THEN interface_set_up(s)
          ELSE StaysDown(s) /\ claimed' = FALSE /\ ready' = e
  /\ task' = "none" /\ proto_task_killed' = FALSE /\ renew_pending' = FALSE
  /\ CancelTimers
  /\ UNCHANGED autostart

\* A changed configuration: set_config_state(IFC_RELOAD).
Reload ==
  \/ /\ state = "IFS_DOWN"
     /\ interface_do_reload
  \/ /\ state # "IFS_DOWN"
     /\ reload' = TRUE
     /\ interface_do_set_down(FALSE)
     /\ UNCHANGED <<autostart, available, handler, proto_task_killed,
                    checkup_timeout, dep, mishap>>

(***************************************************************************)
(* interface_proto_event_cb(), IFPEV_DOWN, from a shell that has finished  *)
(* its teardown and is idle.                                               *)
(***************************************************************************)
ProtoDown ==
  \/ /\ state = "IFS_DOWN"
     /\ sm' = "S_IDLE" /\ script' = "none" /\ task' = "none"
     /\ CancelTimers
     /\ UNCHANGED <<ifVars, handler, proto_task_killed, renew_pending, dep, mishap>>
  \/ /\ state # "IFS_DOWN" /\ reload
     /\ interface_do_reload
  \/ /\ state # "IFS_DOWN" /\ ~reload
     /\ \E e \in IF claimed THEN {FALSE, ready} ELSE {ready} :
          LET s == [Now EXCEPT !.claimed = FALSE, !.l3_claimed = FALSE, !.ready = e,
                               !.sm = "S_IDLE", !.script = "none"]
          IN IF autostart THEN interface_set_up(s)
             ELSE StaysDown(s) /\ claimed' = FALSE /\ ready' = e
     /\ task' = "none" /\ CancelTimers
     /\ UNCHANGED <<autostart, available, reload, handler,
                    proto_task_killed, renew_pending>>
-----------------------------------------------------------------------------
(***************************************************************************)
(* Processes and timers: proto_shell_task_finish() and its callers.        *)
(***************************************************************************)

\* The S_SETUP_ABORT branch: everything is aborted, idle for an instant, and the
\* teardown script starts.
AbortDone ==
  /\ sm' = "S_TEARDOWN" /\ renew_pending' = FALSE
  /\ script' \in Started("teardown") /\ task' = "none"
  /\ teardown_timeout' = TRUE /\ checkup_timeout' = FALSE
  /\ UNCHANGED <<ifVars, handler, proto_task_killed, dep, mishap>>

\* A script ends in S_SETUP: run a deferred renewal, or tear down when the handler
\* should have started a task and has not, or wait for it with the checkup timer.
ScriptExit_Setup ==
  /\ sm = "S_SETUP"
  /\ \/ /\ renew_pending
        /\ script' \in Started("renew") /\ renew_pending' = FALSE
        /\ mishap' = IF script' = "none" THEN mishap \cup {"fork"} ELSE mishap
        /\ checkup_timeout' = (checkup_timeout \/ handler.checkup)
        /\ UNCHANGED <<sm, teardown_timeout>>
     \/ /\ ~renew_pending /\ ~handler.no_task /\ task = "none"
        /\ sm' = "S_TEARDOWN" /\ teardown_timeout' = TRUE
        /\ script' \in Started("teardown")
        /\ UNCHANGED <<checkup_timeout, renew_pending, mishap>>
     \/ /\ ~renew_pending /\ (handler.no_task \/ task # "none")
        /\ script' = "none"
        /\ checkup_timeout' = (checkup_timeout \/ handler.checkup)
        /\ UNCHANGED <<sm, teardown_timeout, renew_pending, mishap>>
  /\ UNCHANGED <<ifVars, handler, task, proto_task_killed, dep>>

\* A script ends in S_IDLE.
ScriptExit_Idle ==
  /\ sm = "S_IDLE"
  /\ IF renew_pending
     THEN /\ script' \in Started("renew") /\ renew_pending' = FALSE
          /\ mishap' = IF script' = "none" THEN mishap \cup {"fork"} ELSE mishap
     ELSE script' = "none" /\ UNCHANGED <<renew_pending, mishap>>
  /\ UNCHANGED <<ifVars, handler, sm, task, proto_task_killed, timerVars, dep>>

\* A script ends while the shell stops; the proto task is asked to end as well.
ScriptExit_Stopping ==
  /\ sm \in Stopping
  /\ \/ /\ task # "none"
        /\ script' = "none"
        /\ task' = IF sm = "S_TEARDOWN" /\ ~proto_task_killed THEN "signalled" ELSE task
        /\ UNCHANGED <<ifVars, handler, sm, proto_task_killed, renew_pending,
                       timerVars, dep, mishap>>
     \/ sm = "S_SETUP_ABORT" /\ task = "none" /\ AbortDone
     \/ sm = "S_TEARDOWN" /\ task = "none" /\ ProtoDown

\* proto_shell_script_cb().
ScriptExit ==
  /\ script # "none"
  /\ ScriptExit_Setup \/ ScriptExit_Idle \/ ScriptExit_Stopping

\* The proto task ends in S_IDLE or S_SETUP: the connection is lost, tear down.
TaskExit_Running ==
  /\ sm \in {"S_IDLE", "S_SETUP"}
  /\ IF sm = "S_IDLE" THEN LinkLost ELSE UNCHANGED <<state, l3_claimed>>
  /\ task' = "none"
  /\ teardown_timeout' = TRUE /\ renew_pending' = FALSE
  /\ IF sm = "S_SETUP" /\ script # "none"
     THEN sm' = "S_SETUP_ABORT" /\ UNCHANGED script
     ELSE sm' = "S_TEARDOWN" /\ script' \in Started("teardown")
  /\ UNCHANGED <<autostart, available, ready, claimed, reload,
                 handler, proto_task_killed, checkup_timeout, dep, mishap>>

TaskExit_Stopping ==
  /\ sm \in Stopping
  /\ \/ /\ script # "none"
        /\ task' = "none"
        /\ UNCHANGED <<ifVars, handler, sm, script, proto_task_killed, renew_pending,
                       timerVars, dep, mishap>>
     \/ sm = "S_SETUP_ABORT" /\ script = "none" /\ AbortDone
     \/ sm = "S_TEARDOWN" /\ script = "none" /\ ProtoDown

\* proto_shell_task_cb().
TaskExit == task # "none" /\ (TaskExit_Running \/ TaskExit_Stopping)

\* Mutant: only the script is killed, and the timer is set again.
TeardownTimeout_ScriptOnly ==
  /\ teardown_timeout
  /\ IF task = "none"
     THEN IF sm = "S_SETUP_ABORT" THEN AbortDone ELSE ProtoDown
     ELSE /\ script' = "none"
          /\ UNCHANGED <<ifVars, handler, sm, task, proto_task_killed, renew_pending,
                         timerVars, dep, mishap>>

\* proto_shell_teardown_timeout_cb(): both processes are killed and forgotten.
TeardownTimeout ==
  /\ teardown_timeout
  /\ IF sm = "S_SETUP_ABORT" THEN AbortDone
     ELSE IF sm = "S_TEARDOWN" THEN ProtoDown
     ELSE /\ script' = "none" /\ task' = "none" /\ teardown_timeout' = FALSE
          /\ UNCHANGED <<ifVars, handler, sm, proto_task_killed, renew_pending,
                         checkup_timeout, dep, mishap>>

\* proto_shell_checkup_timeout_cb().
CheckupTimeout ==
  /\ checkup_timeout
  /\ checkup_timeout' = FALSE
  /\ IF autostart /\ state # "IFS_UP"
     THEN proto_shell_teardown
     ELSE UNCHANGED <<sm, script, task, renew_pending, teardown_timeout>>
  /\ UNCHANGED <<ifVars, handler, proto_task_killed, dep, mishap>>
-----------------------------------------------------------------------------
(***************************************************************************)
(* proto_shell_notify(): ubus calls of the scripts and of the processes    *)
(* they started.  A call of a script that was killed meanwhile can still   *)
(* arrive, also when the interface is down again.                          *)
(***************************************************************************)

\* The commands that are refused while the shell stops.
MayNotify == sm \notin Stopping

\* Mutant: IFPEV_UP is taken in every state.
NotifyLinkUp_AnyState ==
  /\ MayNotify
  /\ l3_claimed' = TRUE /\ state' = "IFS_UP" /\ sm' = "S_IDLE"
  /\ mishap' = mishap \cup Stray
  /\ UNCHANGED <<autostart, available, ready, claimed, reload,
                 handler, taskVars, timerVars, dep>>

(***************************************************************************)
(* proto_shell_update_link() with link-up: the l3 device is set and        *)
(* claimed, or kept as it is by an interface that is up, and IFPEV_UP      *)
(* follows and the shell is idle; or its claim fails.                      *)
(***************************************************************************)
NotifyLinkUp ==
  /\ MayNotify
  /\ \/ /\ l3_claimed' = TRUE
        /\ state' = IF state = "IFS_SETUP" THEN "IFS_UP" ELSE state
        /\ sm' = "S_IDLE"
        /\ mishap' = mishap \cup Stray
     \/ /\ state = "IFS_UP"
        /\ sm' = "S_IDLE"
        /\ UNCHANGED <<state, l3_claimed, mishap>>
     \/ /\ l3_claimed' = FALSE
        /\ mishap' = mishap \cup Stray \cup {"claim"}
        /\ UNCHANGED <<state, sm>>
  /\ UNCHANGED <<autostart, available, ready, claimed, reload,
                 handler, taskVars, timerVars, dep>>

\* proto_shell_update_link() with link-down.
NotifyLinkDown ==
  /\ MayNotify
  /\ LinkLost
  /\ mishap' = mishap \cup Stray
  /\ UNCHANGED <<autostart, available, ready, claimed, reload, shellVars>>

\* proto_shell_run_command(): what the slot ran is killed, and its death is not seen.
NotifyRunCommand ==
  /\ MayNotify
  /\ task' \in {"runs", "none"}
  /\ mishap' = mishap \cup Stray \cup (IF task' = "none" THEN {"fork"} ELSE {})
  /\ UNCHANGED <<ifVars, handler, sm, script, proto_task_killed, renew_pending,
                 timerVars, dep>>

\* proto_shell_kill_command() with SIGTERM or SIGKILL; another signal changes nothing
\* here.  proto_task_killed is never reset.
NotifyKillCommand ==
  /\ task # "none"
  /\ task' = "signalled" /\ proto_task_killed' = TRUE
  /\ UNCHANGED <<ifVars, handler, sm, script, renew_pending, timerVars, dep, mishap>>

\* proto_shell_block_restart().
NotifyBlockRestart ==
  /\ autostart' = FALSE
  /\ UNCHANGED <<state, reload, netVars, shellVars, mishap>>

\* proto_shell_set_available() is SetAvailable: it is the same call.

\* proto_shell_add_host_dependency(): the route to the host is there or not, and
\* proto_shell_check_dependencies() makes the interface available or not.  Not for
\* an interface that is down: the setup it can start frees the dependency in use.
NotifyAddHostDependency ==
  /\ MayNotify /\ dep = "none" /\ state # "IFS_DOWN"
  /\ \E d \in {"waits", "met"} : interface_set_available(d = "met", d)
  /\ UNCHANGED <<autostart, reload, handler, proto_task_killed, checkup_timeout>>

\* proto_shell_if_up_cb(): an interface came up, with a route to the host or without.
DependencyUp ==
  /\ dep = "waits"
  /\ \E d \in {"waits", "met"} : interface_set_available(d = "met", d)
  /\ UNCHANGED <<autostart, reload, handler, proto_task_killed, checkup_timeout>>

\* proto_shell_if_down_cb(): the interface the dependency was met by went away.
DependencyDown ==
  /\ dep = "met"
  /\ dep' = "waits"
  /\ IF sm = "S_IDLE" THEN LinkLost /\ proto_shell_teardown
     ELSE UNCHANGED <<state, l3_claimed, sm, script, task, renew_pending, teardown_timeout>>
  /\ mishap' = mishap \cup Stray
  /\ UNCHANGED <<autostart, available, ready, claimed, reload,
                 handler, proto_task_killed, checkup_timeout>>

\* proto_shell_setup_failed().
NotifySetupFailed ==
  /\ MayNotify
  /\ IF sm = "S_IDLE" THEN LinkLost ELSE UNCHANGED <<state, l3_claimed>>
  /\ proto_shell_teardown
  /\ mishap' = mishap \cup Stray
  /\ UNCHANGED <<autostart, available, ready, claimed, reload,
                 handler, proto_task_killed, checkup_timeout, dep>>
-----------------------------------------------------------------------------
Notify ==
  \/ NotifyLinkUp \/ NotifyLinkDown \/ NotifyRunCommand \/ NotifyKillCommand
  \/ NotifyBlockRestart \/ NotifyAddHostDependency \/ NotifySetupFailed

Next ==
  \/ \E b \in BOOLEAN : SetAvailable(b) \/ SetReady(b)
  \/ L3LinkDown \/ SetUp \/ SetDown \/ Renew \/ TopoChange \/ Reload
  \/ ScriptExit \/ TaskExit \/ TeardownTimeout \/ CheckupTimeout
  \/ Notify \/ DependencyUp \/ DependencyDown

Spec == Init /\ [][Next]_vars

\* uloop runs a timer that is due; nothing is assumed of scripts and tasks.
FairSpec == Spec /\ WF_vars(TeardownTimeout) /\ WF_vars(CheckupTimeout)
-----------------------------------------------------------------------------
(***************************************************************************)
(* Properties.                                                             *)
(***************************************************************************)

\* The 5 s timer is the only thing that ends a teardown whose script could not
\* be forked or hangs: a shell that stops has it armed, and an armed timer never
\* meets a shell that was set up again, whose processes it would kill.
TimerWhileStopping == teardown_timeout <=> sm \in Stopping

\* An interface in IFS_TEARDOWN waits for IFPEV_DOWN; the shell that is to send it
\* is stopping, or it would never come.
TeardownIsBacked == state = "IFS_TEARDOWN" => sm \in Stopping

\* An aborted setup still has a process whose end moves the shell on.
AbortHasProcess == sm = "S_SETUP_ABORT" => script # "none" \/ task # "none"

\* An interface that is up has an l3 device that is claimed, unless a later claim
\* of it failed: nothing takes the device from under an interface that is up.
UpIsClaimed == state = "IFS_UP" /\ "claim" \notin mishap => l3_claimed

\* Once an interface is down, nothing of the last attempt is left over to
\* interfere with the next one: no process, no timer, no claim on the l3 device.
DownIsClean ==
  state = "IFS_DOWN" /\ mishap = {} =>
    /\ sm = "S_IDLE" /\ script = "none" /\ task = "none"
    /\ ~teardown_timeout /\ ~checkup_timeout /\ ~l3_claimed

\* interface.c and proto-shell.c hold the l3 device exactly while they use it: claimed
\* when the interface is up, nothing left behind when it is down.
HoldsWhatItUses == UpIsClaimed /\ DownIsClean

\* A handler that needs a task is not left in S_SETUP with neither a script nor a
\* task, in which nothing would ever happen again.
SetupIsWatched ==
  sm = "S_SETUP" /\ ~handler.no_task /\ "fork" \notin mishap =>
    script # "none" \/ task # "none"

\* Whatever the interface or the shell waits for in proto-shell.c can still happen: a
\* timer, a process or a stopping shell stands behind every intermediate state.
ShellDriven ==
  /\ TypeOK
  /\ TimerWhileStopping
  /\ TeardownIsBacked
  /\ AbortHasProcess
  /\ SetupIsWatched

\* No teardown hangs, whatever scripts and tasks do, and a changed configuration
\* is applied in the end.
TeardownEnds == state = "IFS_TEARDOWN" ~> state # "IFS_TEARDOWN"
ReloadApplied == reload ~> ~reload

Contract ==
  INSTANCE ProtoContract WITH
    child <- script \in {"setup", "renew"} \/ task = "runs", faulty <- mishap # {}

\* The shell handler implements the contract of a protocol handler: the interface
\* moves as it should, and once it is reported down no script or task works for it.
ImplementsContract == Contract!Spec
=============================================================================
