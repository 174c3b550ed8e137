------------------------------ MODULE Wireless ------------------------------
(***************************************************************************)
(* The radios of wireless.c. A radio is set up and torn down by scripts,   *)
(* which register the processes they start and notify netifd when the     *)
(* radio is up. A setup that fails is retried; one that is no longer       *)
(* wanted is cancelled and given ten seconds. Handlers of the radios with  *)
(* the option serialize run one after the other.                           *)
(*                                                                         *)
(* As in Netifd, the functions of the code are operators from a state to   *)
(* a state and an action is one callback of uloop, with all it calls. The  *)
(* ubus methods up, down and reconf without a radio name call the same     *)
(* function once for every radio and are not actions of their own.         *)
(***************************************************************************)
EXTENDS Integers, Sequences, SequencesExt

CONSTANTS
  Order,       \* the radios of all configurations, in the order of the list wireless_devices
  Serialize,   \* the radios with the option serialize
  Reconf,      \* the radios whose driver can be reconfigured while up (option reconf)
  Config,      \* the configurations a reload may find: for each radio its options, or None
  Process,     \* the processes a script may register
  Required,    \* those of them without which the radio must be set up again
  Fault,       \* what may go wrong: "fork" and "freed"
  WIRELESS_SETUP_RETRY,
  None

Radio == ToSet(Order)
State == {"IFS_SETUP", "IFS_UP", "IFS_TEARDOWN", "IFS_DOWN"}
ConfigState == {"IFC_NORMAL", "IFC_RELOAD", "IFC_REMOVE"}

\* The options of a radio: disabled, conf (all other options) and vif, the one
\* virtual interface of the radio or None.
Options == (UNION {{c[r] : r \in Radio} : c \in Config}) \ {None}
Conf == {o.conf : o \in Options}
Vif == {o.vif : o \in Options}

ASSUME RadioAssumption ==
  /\ Order \in Seq(Radio)
  /\ Serialize \subseteq Radio /\ Reconf \subseteq Radio
  /\ \A c \in Config, r \in Radio :
       c[r] = None \/ c[r] \in [disabled : BOOLEAN, conf : Conf, vif : Vif]
  /\ Options # {}
  /\ Required \subseteq Process
  /\ Fault \subseteq {"fork", "freed"}
  /\ WIRELESS_SETUP_RETRY \in Nat
  /\ None \notin Conf

VARIABLES
  wdev,             \* per radio: struct wireless_device
  handlers,         \* the FIFO of waiting handlers: a radio and handler_action
  handler_pending,  \* a serialized handler is taken to be running
  mishap            \* history: what went wrong

vars == <<wdev, handlers, handler_pending, mishap>>

\* struct wireless_device. given and applied are history: the configuration the
\* running script was given, and the one of the last setup that was not torn down.
Wdev ==
  [alive : BOOLEAN, state : State, config_state : ConfigState,
   autostart : BOOLEAN, disabled : BOOLEAN, conf : Conf, prev_config : Conf \cup {None},
   cancel : BOOLEAN, timeout : BOOLEAN,
   retry : -1 .. WIRELESS_SETUP_RETRY, retry_setup_failed : BOOLEAN,
   script_task : {"none", "setup", "teardown"},
   script_proc : SUBSET Process, dead : SUBSET Process,
   script_check : BOOLEAN, script_proc_fd : BOOLEAN, kill_request : BOOLEAN,
   vif : Vif \cup {None}, ifname : BOOLEAN, linked : BOOLEAN,
   given : Conf \cup {None}, applied : Conf \cup {None}]

\* calloc() and wireless_device_create(): a radio that is configured as c.
Fresh(c) ==
  [alive |-> TRUE, state |-> "IFS_DOWN", config_state |-> "IFC_NORMAL",
   autostart |-> TRUE, disabled |-> c.disabled, conf |-> c.conf, prev_config |-> None,
   cancel |-> FALSE, timeout |-> FALSE,
   retry |-> WIRELESS_SETUP_RETRY, retry_setup_failed |-> FALSE,
   script_task |-> "none",
   script_proc |-> {}, dead |-> {},
   script_check |-> FALSE, script_proc_fd |-> FALSE, kill_request |-> FALSE,
   vif |-> None, ifname |-> FALSE, linked |-> FALSE,
   given |-> None, applied |-> None]

\* A radio that does not exist.
Gone == [Fresh(CHOOSE o \in Options : TRUE) EXCEPT !.alive = FALSE]

\* The state the operators work on; fault: what goes wrong while the event is handled.
S0(fault) ==
  [wdev |-> wdev, handlers |-> handlers, handler_pending |-> handler_pending,
   mishap |-> mishap, fault |-> fault, config_init |-> FALSE]

\* wdev->handler_pending
Queued(r) == r \in {h[1] : h \in ToSet(handlers)}

(***************************************************************************)
(* Handlers: the scripts and the FIFO.                                     *)
(***************************************************************************)

\* Mutant: a handler that is stopped stays in the queue.
wireless_handler_stop_Stays(S, r) == S

\* list_del(): a radio waits at most once.
wireless_handler_stop(S, r) ==
  LET at == {i \in DOMAIN S.handlers : S.handlers[i][1] = r}
  IN  IF at = {} THEN S ELSE [S EXCEPT !.handlers = RemoveAt(@, CHOOSE i \in at : TRUE)]

\* A handler waits behind a serialized one that runs. netifd_start_process()
\* kills what runs for the radio, and its fork may fail. The pipe is left out where
\* scripts register no processes: it only wakes their watchdog.
wireless_device_run_handler(S, r, up) ==
  LET T == wireless_handler_stop(S, r)
      w == T.wdev[r]
      forks == T.fault # "fork"
      config == IF ~up /\ w.prev_config # None THEN w.prev_config ELSE w.conf
  IN  IF T.handler_pending /\ r \in Serialize
        THEN [T EXCEPT !.handlers = Append(@, <<r, up>>)]
        ELSE [T EXCEPT !.handler_pending = @ \/ r \in Serialize,
                       !.mishap = IF forks THEN @ ELSE @ \cup {"fork"},
                       !.wdev[r] = [w EXCEPT
                         !.prev_config = IF up THEN @ ELSE None,
                         !.script_proc_fd = @ \/ (up /\ Process # {}),
                         !.script_task = IF ~forks THEN "none"
                                         ELSE IF up THEN "setup" ELSE "teardown",
                         !.given = IF forks THEN config ELSE None,
                         !.applied = IF forks /\ up THEN config ELSE @]]

\* Mutant: the next handler is taken off the queue and not run.
wireless_handler_next_Drops(S) ==
  IF S.handler_pending \/ S.handlers = <<>> THEN S ELSE [S EXCEPT !.handlers = Tail(@)]

wireless_handler_next(S) ==
  IF S.handler_pending \/ S.handlers = <<>> THEN S
  ELSE LET h == Head(S.handlers)
       IN  wireless_device_run_handler([S EXCEPT !.handlers = Tail(@)], h[1], h[2])

wireless_device_setup_cancel(S, r) ==
  IF S.wdev[r].cancel THEN S
  ELSE [wireless_handler_stop(S, r) EXCEPT
          !.wdev[r] = [S.wdev[r] EXCEPT !.cancel = TRUE, !.timeout = TRUE]]

(***************************************************************************)
(* Links and processes.                                                    *)
(***************************************************************************)

\* The networks of the virtual interface gain or lose it.
wireless_interface_handle_link(S, r, up) ==
  IF S.wdev[r].vif # None /\ S.wdev[r].ifname
    THEN [S EXCEPT !.wdev[r].linked = up] ELSE S

\* What is freed is off the list; a deferred kill request is answered when the
\* list becomes empty.
wireless_process_free(S, r, P) ==
  LET left == S.wdev[r].script_proc \ P IN
  [S EXCEPT !.wdev[r] = [S.wdev[r] EXCEPT !.script_proc = left, !.dead = @ \ P,
                                          !.kill_request = @ /\ (P # {} => left # {})]]

\* Signalled processes end later (ProcessEnds), or not at all.
wireless_process_kill_all(S, r, free) ==
  LET w == S.wdev[r]
      T == wireless_process_free(S, r, IF free THEN w.script_proc ELSE w.dead)
  IN  IF free THEN [T EXCEPT !.wdev[r].script_proc_fd = FALSE] ELSE T

\* Mutant: the timer of a cancelled setup stays armed.
wireless_device_free_state_Timer(S, r) ==
  [wireless_handler_stop(S, r) EXCEPT
     !.wdev[r] = [S.wdev[r] EXCEPT !.script_check = FALSE, !.kill_request = FALSE, !.ifname = FALSE]]

wireless_device_free_state(S, r) ==
  [wireless_handler_stop(S, r) EXCEPT
     !.wdev[r] = [S.wdev[r] EXCEPT !.script_check = FALSE, !.timeout = FALSE,
                                   !.kill_request = FALSE, !.ifname = FALSE]]

(***************************************************************************)
(* Up, down and changes of the configuration.                              *)
(***************************************************************************)

set_up(S, r, force) ==
  LET w == S.wdev[r] IN
  IF \/ w.disabled \/ w.retry_setup_failed \/ ~w.autostart
     \/ ~force /\ (w.state # "IFS_DOWN" \/ S.config_init)
    THEN S
    ELSE wireless_device_run_handler(
           [S EXCEPT !.wdev[r] = [w EXCEPT !.prev_config = None, !.state = "IFS_SETUP"]],
           r, TRUE)

\* Mutant: the teardown script is not run.
set_down_Idle(S, r) ==
  CASE S.wdev[r].state \in {"IFS_TEARDOWN", "IFS_DOWN"} -> S
    [] S.wdev[r].state \in {"IFS_SETUP", "IFS_UP"} ->
         IF S.wdev[r].script_task # "none" THEN wireless_device_setup_cancel(S, r)
         ELSE wireless_handler_stop([S EXCEPT !.wdev[r].state = "IFS_TEARDOWN"], r)

set_down(S, r) ==
  CASE S.wdev[r].state \in {"IFS_TEARDOWN", "IFS_DOWN"} -> S
    [] S.wdev[r].state \in {"IFS_SETUP", "IFS_UP"} ->
         IF S.wdev[r].script_task # "none" THEN wireless_device_setup_cancel(S, r)
         ELSE wireless_device_run_handler(
                [S EXCEPT !.wdev[r].state = "IFS_TEARDOWN"], r, FALSE)

\* Its virtual interfaces are flushed with it.
wireless_device_free(S, r) ==
  [wireless_handler_stop(S, r) EXCEPT !.wdev[r] = Gone]

wdev_handle_config_change(S, r) ==
  LET NowNormal(T) == [T EXCEPT !.wdev[r].config_state = "IFC_NORMAL"] IN
  CASE S.wdev[r].config_state = "IFC_RELOAD" ->
         NowNormal(set_up([S EXCEPT !.wdev[r] = [S.wdev[r] EXCEPT
                             !.retry = WIRELESS_SETUP_RETRY, !.retry_setup_failed = FALSE]],
                          r, FALSE))
    [] S.wdev[r].config_state = "IFC_NORMAL" -> NowNormal(set_up(S, r, FALSE))
    [] S.wdev[r].config_state = "IFC_REMOVE" -> wireless_device_free(S, r)

wireless_device_mark_down(S, r) ==
  LET T == wireless_process_kill_all(wireless_interface_handle_link(S, r, FALSE), r, TRUE)
      U == [T EXCEPT !.wdev[r] = [T.wdev[r] EXCEPT !.cancel = FALSE, !.state = "IFS_DOWN",
                                                   !.applied = None]]
  IN  wdev_handle_config_change(wireless_device_free_state(U, r), r)

wireless_device_mark_up(S, r) ==
  IF S.wdev[r].cancel
    THEN set_down([S EXCEPT !.wdev[r].cancel = FALSE], r)
    ELSE wireless_interface_handle_link(
           [S EXCEPT !.wdev[r] = [S.wdev[r] EXCEPT
              !.retry = WIRELESS_SETUP_RETRY, !.state = "IFS_UP"]],
           r, TRUE)

wireless_device_retry_setup(S, r) ==
  LET w == S.wdev[r] IN
  IF w.state \in {"IFS_TEARDOWN", "IFS_DOWN"} \/ w.cancel THEN S
  ELSE set_down([S EXCEPT !.wdev[r] = [w EXCEPT
                   !.retry = @ - 1, !.retry_setup_failed = @ \/ w.retry - 1 < 0]], r)

\* The option serialize as the code reads it after mark_down: of a radio that was
\* freed there, the read may yield either value.
ReadSerialize(S, r) ==
  IF ~S.wdev[r].alive /\ S.fault = "freed" THEN r \notin Serialize ELSE r \in Serialize

wireless_device_script_task_cb(S, r) ==
  LET T == CASE S.wdev[r].state = "IFS_SETUP" -> wireless_device_retry_setup(S, r)
             [] S.wdev[r].state = "IFS_TEARDOWN" -> wireless_device_mark_down(S, r)
             [] S.wdev[r].state \in {"IFS_UP", "IFS_DOWN"} -> S
      U == IF ReadSerialize(T, r) = (r \in Serialize) THEN T
           ELSE [T EXCEPT !.mishap = @ \cup {"freed"}]
  IN  IF ReadSerialize(T, r)
        THEN wireless_handler_next([U EXCEPT !.handler_pending = FALSE]) ELSE U

wdev_set_config_state(S, r, s) ==
  LET T == [S EXCEPT !.wdev[r].config_state = s] IN
  IF S.wdev[r].config_state # "IFC_NORMAL" THEN S
  ELSE IF S.wdev[r].state = "IFS_DOWN" THEN wdev_handle_config_change(T, r)
  ELSE IF r \notin Reconf \/ S.wdev[r].state # "IFS_UP" THEN set_down(T, r)
  ELSE T

\* Mutant: a changed configuration replaces the one the radio was set up with.
wdev_change_config_Forgets(S, r, c) ==
  IF S.wdev[r].conf = c.conf /\ S.wdev[r].disabled = c.disabled THEN S
  ELSE wdev_set_config_state(
         [S EXCEPT !.wdev[r] = [S.wdev[r] EXCEPT !.conf = c.conf, !.disabled = c.disabled]],
         r, "IFC_RELOAD")

\* The configuration of the last setup is kept for the teardown, changed or not.
wdev_change_config(S, r, c) ==
  LET w == S.wdev[r]
      v == [w EXCEPT !.prev_config = IF @ = None THEN w.conf ELSE @]
  IN  IF w.conf = c.conf /\ w.disabled = c.disabled THEN [S EXCEPT !.wdev[r] = v]
      ELSE wdev_set_config_state(
             [S EXCEPT !.wdev[r] = [v EXCEPT !.conf = c.conf, !.disabled = c.disabled]],
             r, "IFC_RELOAD")

\* wdev_update() for a radio that the configuration has.
wireless_device_create(S, r, c) ==
  IF S.wdev[r].alive THEN wdev_change_config(S, r, c)
  ELSE [S EXCEPT !.wdev[r] = Fresh(c)]

\* vif_update(): a virtual interface that is new, changed or (None) deleted.
vif_update(S, r, vif) ==
  LET T == IF S.wdev[r].vif = None THEN S
           ELSE wireless_interface_handle_link(S, r, FALSE)
      U == [T EXCEPT !.wdev[r] = [T.wdev[r] EXCEPT !.vif = vif, !.ifname = @ /\ vif # None]]
  IN  IF S.wdev[r].vif = vif THEN S ELSE wdev_set_config_state(U, r, "IFC_RELOAD")

\* What the passes of a reload do to one radio. new[r] is None for a radio that is
\* not configured.
PassStep(pass, S, r, new) ==
  LET alive == S.wdev[r].alive
      hasvif == new[r] # None /\ new[r].vif # None
  IN  CASE pass = "devices" /\ new[r] # None -> wireless_device_create(S, r, new[r])
        [] pass = "gone devices" /\ new[r] = None /\ alive ->
             wdev_set_config_state(S, r, "IFC_REMOVE")
        [] pass = "vifs" /\ alive /\ hasvif -> vif_update(S, r, new[r].vif)
        [] pass = "gone vifs" /\ alive /\ ~hasvif -> vif_update(S, r, None)
        [] pass = "start" /\ alive -> set_up(S, r, FALSE)
        [] OTHER -> S

\* One pass over the radios, in the order of their list.
Pass(pass, S, new) ==
  LET after[n \in 0 .. Len(Order)] ==
        IF n = 0 THEN S ELSE PassStep(pass, after[n - 1], Order[n], new)
  IN  after[Len(Order)]

\* config_init_all(): the radios are updated and flushed, then their virtual
\* interfaces, and then what may start is started.
config_init_wireless(S, new) ==
  LET T1 == Pass("devices", [S EXCEPT !.config_init = TRUE], new)
      T2 == Pass("gone devices", T1, new)
      T3 == Pass("vifs", T2, new)
      T4 == Pass("gone vifs", T3, new)
  IN  Pass("start", [T4 EXCEPT !.config_init = FALSE], new)

-----------------------------------------------------------------------------
(***************************************************************************)
(* The callbacks.                                                          *)
(***************************************************************************)

Init ==
  /\ wdev = [r \in Radio |-> Gone]
  /\ handlers = <<>> /\ handler_pending = FALSE
  /\ mishap = {}

Becomes(S) ==
  /\ wdev' = S.wdev
  /\ handlers' = S.handlers
  /\ handler_pending' = S.handler_pending
  /\ mishap' = S.mishap

\* At most one fault in a behaviour, of those the callback may meet.
Starts(F) == {S0(f) : f \in {"none"} \cup (IF mishap \cap Fault = {} THEN F \cap Fault ELSE {})}

\* network reload.
Reload ==
  \E new \in Config, S \in Starts({"fork"}) : Becomes(config_init_wireless(S, new))

\* ubus network.wireless up
SetUp(r) ==
  /\ wdev[r].alive
  /\ \E S \in Starts({"fork"}) :
       Becomes(set_up([S EXCEPT !.wdev[r] = [wdev[r] EXCEPT
                         !.retry = WIRELESS_SETUP_RETRY, !.autostart = TRUE]], r, FALSE))

\* ubus network.wireless reconf
DoReconf(r) ==
  /\ wdev[r].alive
  /\ \E S \in Starts({"fork"}) :
       Becomes(set_up([S EXCEPT !.wdev[r] = [wdev[r] EXCEPT
                         !.retry = WIRELESS_SETUP_RETRY, !.autostart = TRUE]],
                      r, r \in Reconf /\ wdev[r].state = "IFS_UP"))

\* ubus network.wireless down
SetDown(r) ==
  /\ wdev[r].alive
  /\ \E S \in Starts({"fork"}) :
       Becomes(set_down([S EXCEPT !.wdev[r] = [wdev[r] EXCEPT
                           !.retry_setup_failed = FALSE, !.autostart = FALSE]], r))

\* The script of the radio ends.
ScriptExit(r) ==
  /\ wdev[r].script_task # "none"
  /\ \E S \in Starts({"fork", "freed"}) :
       Becomes(wireless_device_script_task_cb(
                 [S EXCEPT !.wdev[r] = [wdev[r] EXCEPT !.script_task = "none", !.given = None]],
                 r))

\* Mutant: the script is killed, and the radio is left as it is.
SetupTimeout_Kills(r) ==
  /\ wdev[r].timeout
  /\ \E S \in Starts({"fork", "freed"}) :
       Becomes([wireless_handler_stop(S, r) EXCEPT
                  !.wdev[r] = [wdev[r] EXCEPT !.timeout = FALSE, !.script_task = "none",
                                              !.given = None]])

\* Ten seconds after a setup was cancelled. The callback of the script is called
\* whether or not one ran. A radio that it frees is marked down all the same,
\* on freed memory: the model stops at the free.
SetupTimeout(r) ==
  /\ wdev[r].timeout
  /\ \E S \in Starts({"fork", "freed"}) :
       LET T == [wireless_handler_stop(S, r) EXCEPT
                   !.wdev[r] = [wdev[r] EXCEPT !.timeout = FALSE, !.script_task = "none",
                                               !.given = None],
                   !.mishap = IF r \in Serialize /\ wdev[r].script_task = "none"
                                THEN @ \cup {"overrun"} ELSE @]
           U == wireless_device_script_task_cb(T, r)
       IN  Becomes(IF U.wdev[r].alive THEN wireless_device_mark_down(U, r) ELSE U)

\* A process the script registered ends; netifd is not told.
ProcessEnds(r, p) ==
  /\ p \in wdev[r].script_proc \ wdev[r].dead
  /\ wdev' = [wdev EXCEPT ![r].dead = @ \cup {p}]
  /\ UNCHANGED <<handlers, handler_pending, mishap>>

\* The last writer of the pipe is gone: the setup script, which was given it, and
\* those of its children that kept it.
ProcPollFd(r) ==
  /\ wdev[r].script_proc_fd /\ wdev[r].script_task # "setup"
  /\ wdev' = [wdev EXCEPT ![r].script_proc_fd = FALSE, ![r].script_check = TRUE]
  /\ UNCHANGED <<handlers, handler_pending, mishap>>

\* The watchdog of the registered processes.
CheckScriptTasks(r) ==
  /\ wdev[r].script_check
  /\ \E S \in Starts({"fork"}) :
       LET T == [wireless_process_free(S, r, wdev[r].dead) EXCEPT
                   !.wdev[r].script_check = FALSE]
       IN  Becomes(IF wdev[r].dead \cap Required # {}
                     THEN wireless_device_retry_setup(T, r)
                     ELSE [T EXCEPT !.wdev[r].script_check = TRUE])

\* ubus network.wireless notify: the radio is up.
NotifyUp(r) ==
  /\ wdev[r].alive /\ wdev[r].state = "IFS_SETUP"
  /\ \E S \in Starts({"fork"}) : Becomes(wireless_device_mark_up(S, r))

\* The name of its virtual interface; refused when it has data already.
NotifySetData(r) ==
  /\ wdev[r].alive /\ wdev[r].vif # None /\ ~wdev[r].ifname
  /\ wdev' = [wdev EXCEPT ![r].ifname = TRUE]
  /\ UNCHANGED <<handlers, handler_pending, mishap>>

NotifyProcessAdd(r, p) ==
  /\ wdev[r].alive /\ p \notin wdev[r].script_proc
  /\ wdev' = [wdev EXCEPT ![r].script_proc = @ \cup {p}, ![r].script_check = TRUE]
  /\ UNCHANGED <<handlers, handler_pending, mishap>>

\* The answer is deferred while processes are left.
NotifyProcessKillAll(r, immediate) ==
  /\ wdev[r].alive /\ wdev[r].state = "IFS_TEARDOWN" /\ ~wdev[r].kill_request
  /\ LET T == wireless_process_kill_all(S0("none"), r, immediate)
     IN  Becomes([T EXCEPT !.wdev[r].kill_request = T.wdev[r].script_proc # {}])

NotifySetRetry(r, n) ==
  /\ wdev[r].alive
  /\ wdev' = [wdev EXCEPT ![r].retry = n]
  /\ UNCHANGED <<handlers, handler_pending, mishap>>

\* The virtual interface appears or vanishes while no device has its name.
HotplugEvent(r, add) ==
  /\ wdev[r].alive /\ wdev[r].ifname
  /\ Becomes(wireless_interface_handle_link(S0("none"), r, add))

RadioNext(r) ==
  \/ SetUp(r) \/ DoReconf(r) \/ SetDown(r)
  \/ ScriptExit(r) \/ SetupTimeout(r) \/ ProcPollFd(r) \/ CheckScriptTasks(r)
  \/ NotifyUp(r) \/ NotifySetData(r)
  \/ \E p \in Process : ProcessEnds(r, p) \/ NotifyProcessAdd(r, p)
  \/ \E b \in BOOLEAN : NotifyProcessKillAll(r, b) \/ HotplugEvent(r, b)
  \/ \E n \in 0 .. WIRELESS_SETUP_RETRY : NotifySetRetry(r, n)

Next == Reload \/ \E r \in Radio : RadioNext(r)

Spec == Init /\ [][Next]_vars

\* Scripts end, and uloop runs a timer that is due: weak fairness of ScriptExit(r)
\* and SetupTimeout(r), with their enabling conditions spelled out.
FairSpec ==
  /\ Spec
  /\ \A r \in Radio :
       /\ []<>(wdev[r].script_task = "none") \/ []<><<ScriptExit(r)>>_vars
       /\ []<>(~wdev[r].timeout) \/ []<><<SetupTimeout(r)>>_vars

-----------------------------------------------------------------------------
(***************************************************************************)
(* Properties.                                                             *)
(***************************************************************************)

TypeOK ==
  /\ wdev \in [Radio -> Wdev]
  /\ handlers \in Seq(Radio \X BOOLEAN)
  /\ handler_pending \in BOOLEAN

\* A radio that is being set up or torn down has a script that runs, waits for
\* its turn or was cancelled and has its timer armed: nothing else would move it
\* on. Only a failed fork in wireless_device_run_handler() breaks this.
PendingIsDriven ==
  "fork" \notin mishap =>
    \A r \in Radio : wdev[r].state \in {"IFS_SETUP", "IFS_TEARDOWN"} =>
      wdev[r].script_task # "none" \/ Queued(r) \/ wdev[r].timeout

\* A setup that was cancelled always has the timer that ends it.
CancelIsTimed == \A r \in Radio : wdev[r].cancel => wdev[r].timeout

\* A handler waits only while a serialized script runs, whose end starts it, and a
\* radio waits once. Broken by a failed fork, which leaves handler_pending set,
\* and by reading serialize of a radio that was freed.
QueueMoves ==
  /\ \A i, j \in DOMAIN handlers : handlers[i][1] = handlers[j][1] => i = j
  /\ handlers # <<>> => handler_pending
  /\ mishap \cap {"fork", "freed"} = {} /\ handler_pending =>
       \E r \in Serialize : wdev[r].script_task # "none"

\* Serialized handlers exclude each other. Broken when the timer of a radio
\* without a script clears the handler_pending of another one, and by reading
\* serialize of a radio that was freed.
OneSerialized ==
  mishap \cap {"overrun", "freed"} = {} =>
    \A r, q \in Serialize :
      wdev[r].script_task # "none" /\ wdev[q].script_task # "none" => r = q

\* A radio that is down has left nothing that could disturb the next setup: no
\* script, no timer, no waiting handler, no cancelled setup, no kill request.
DownIsClean ==
  \A r \in Radio : wdev[r].state = "IFS_DOWN" =>
    /\ wdev[r].script_task = "none" /\ ~Queued(r)
    /\ ~wdev[r].timeout /\ ~wdev[r].cancel /\ ~wdev[r].kill_request

\* Serialized handlers run one at a time, and the radios that wait for their turn will
\* get it (wireless_handler_next).
QueueServed == PendingIsDriven /\ QueueMoves /\ OneSerialized /\ DownIsClean

\* A radio whose retries are used up is not set up again until its configuration
\* changes or it is taken down.
RetriesEnd ==
  \A r \in Radio : wdev[r].state \in {"IFS_SETUP", "IFS_UP"} /\ ~wdev[r].cancel =>
    wdev[r].retry >= 0 /\ ~wdev[r].retry_setup_failed

\* A radio that is not at rest in wireless.c is driven by a script, a process or a timer,
\* and attempts that fail come to an end.
RadioDriven == TypeOK /\ PendingIsDriven /\ CancelIsTimed /\ RetriesEnd

\* The teardown script is given the configuration the setup script was given,
\* whatever was loaded in between. Radios that are both serialized and
\* reconfigured are excepted: their setup may wait while the configuration changes.
TeardownMatches ==
  "fork" \notin mishap => \A r \in Radio \ (Serialize \cap Reconf) :
    wdev[r].script_task = "teardown" /\ wdev[r].applied # None =>
      wdev[r].given = wdev[r].applied

\* A network that was given the virtual interface of a radio can be told to give
\* it up: its name is not forgotten first.
LinkedIsNamed == \A r \in Radio : wdev[r].linked => wdev[r].ifname /\ wdev[r].vif # None

\* The teardown script is given what the setup was started with, and a virtual interface
\* that a network was given still has its name.
DataMatches == TeardownMatches /\ LinkedIsNamed

\* A script that waits for its kill request has a process to wait for, and the
\* radio is still being torn down.
KillIsAnswerable ==
  \A r \in Radio : wdev[r].kill_request =>
    wdev[r].state = "IFS_TEARDOWN" /\ wdev[r].script_proc # {}

\* A radio that is down has no script, timer or kill request of its last setup, and a
\* kill request of wireless.c waits for a process that is still there.
RadioClean == DownIsClean /\ KillIsAnswerable

\* Every cancelled setup ends, however radios are reloaded and called for
\* meanwhile: the timer of wireless_device_setup_cancel() is never disarmed
\* without it.
CancelEnds == \A r \in Radio : wdev[r].cancel ~> ~wdev[r].cancel

\* Every teardown ends, also one that has to wait for the scripts of other radios,
\* unless handler_pending was left set by a read of freed memory.
TeardownEnds ==
  \A r \in Radio : wdev[r].state = "IFS_TEARDOWN" ~>
    wdev[r].state # "IFS_TEARDOWN" \/ "freed" \in mishap
=============================================================================
