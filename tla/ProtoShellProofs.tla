-------------------------- MODULE ProtoShellProofs --------------------------
(***************************************************************************)
(* The safety properties of ProtoShell, for every set of handlers and      *)
(* every interleaving of its events.                                       *)
(*                                                                         *)
(* IInv, the conjunction of the type invariant and the safety properties,  *)
(* is inductive: each property needs the others.  That the timer is armed  *)
(* exactly while the shell stops tells a timeout from a stray one; that a  *)
(* teardown is backed by a stopping shell lets a notification, which a     *)
(* stopping shell refuses, never meet an interface in its teardown; and    *)
(* that an interface that is down is clean lets the end of a process meet  *)
(* one only after a mishap.                                                *)
(***************************************************************************)
EXTENDS ProtoShell, TLAPS

\* The types of the variables that TypeOK writes out.
Script == {"none", "setup", "renew", "teardown"}
Task   == {"none", "runs", "signalled"}
Dep    == {"none", "waits", "met"}
Mishap == {"fork", "stray", "claim"}

\* What a teardown needs to know of the state it starts in.
Core == TypeOK /\ TimerWhileStopping /\ TeardownIsBacked /\ AbortHasProcess

\* The inductive invariant.
IInv == Core /\ UpIsClaimed /\ DownIsClean /\ SetupIsWatched
-----------------------------------------------------------------------------
\* What proto_shell_teardown leaves behind: a shell that stops.
Stops ==
  /\ sm' \in Stopping /\ teardown_timeout' = TRUE
  /\ sm' = "S_SETUP_ABORT" => script' # "none" \/ task' # "none"
  /\ script' \in Script /\ task' \in Task /\ renew_pending' \in BOOLEAN

\* PROTO_CMD_TEARDOWN always leaves a shell that stops, with its timer armed.
LEMMA TeardownStops ==
  ASSUME Core, proto_shell_teardown
  PROVE  Stops
<1>1. CASE sm \in Stopping
  <2>1. UNCHANGED <<sm, script, task, renew_pending, teardown_timeout>>
    BY <1>1 DEF proto_shell_teardown, Stopping
  <2>2. teardown_timeout = TRUE
    BY <1>1 DEF Core, TypeOK, TimerWhileStopping
  <2> QED BY <1>1, <2>1, <2>2 DEF Core, TypeOK, AbortHasProcess, Stops, Script, Task
<1>2. CASE sm = "S_SETUP" /\ script # "none"
  BY <1>2 DEF proto_shell_teardown, Stopping, Core, TypeOK, Stops, Script, Task, Terminated
<1>3. CASE sm = "S_IDLE" \/ (sm = "S_SETUP" /\ script = "none")
  BY <1>3 DEF proto_shell_teardown, Stopping, Core, TypeOK, Stops, Script, Task, Started
<1> QED BY <1>1, <1>2, <1>3 DEF Core, TypeOK, ShellSm, Stopping

\* What an interface that is down can be set up from.
Situation(s) ==
  /\ s.sm \in ShellSm /\ s.script \in Script /\ s.dep \in Dep
  /\ s.available \in BOOLEAN /\ s.ready \in BOOLEAN
  /\ s.claimed \in BOOLEAN /\ s.l3_claimed \in BOOLEAN
  /\ s.handler \in Handler
  /\ s.handler.nodev => ~s.claimed

\* The outcomes of a setup: none was attempted or it was refused, it is under way,
\* or its script could not be forked.
SetUpOutcome(s) ==
  /\ \/ /\ state' = "IFS_DOWN" /\ sm' = s.sm /\ script' = s.script /\ mishap' = mishap
        /\ l3_claimed' => s.l3_claimed
     \/ /\ state' = "IFS_SETUP" /\ s.sm = "S_IDLE" /\ sm' = "S_SETUP" /\ script' = "setup"
        /\ mishap' = mishap
     \/ /\ state' = "IFS_DOWN" /\ s.sm = "S_IDLE" /\ sm' = "S_SETUP" /\ script' = "none"
        /\ mishap' = mishap \cup {"fork"}
  /\ l3_claimed' \in BOOLEAN
  /\ dep' \in Dep

\* PROTO_CMD_SETUP has one of the outcomes above.
LEMMA DoSetUpOutcome ==
  ASSUME NEW s, Situation(s), interface_do_set_up(s)
  PROVE  SetUpOutcome(s)
<1>1. CASE s.sm = "S_IDLE"
  <2>1. CASE script' = "none"
    BY <1>1, <2>1 DEF interface_do_set_up, SetUpOutcome, Started, Dep
  <2>2. CASE script' # "none"
    BY <1>1, <2>2 DEF interface_do_set_up, SetUpOutcome, Started, Dep, Situation
  <2> QED BY <2>1, <2>2
<1>2. CASE s.sm # "S_IDLE"
  BY <1>2 DEF interface_do_set_up, SetUpOutcome, Situation
<1> QED BY <1>1, <1>2

\* So has interface_set_up(), and a handler without a device claims none.
LEMMA SetUpOutcomes ==
  ASSUME NEW s, Situation(s), interface_set_up(s)
  PROVE  /\ SetUpOutcome(s)
         /\ claimed' \in BOOLEAN /\ ready' \in BOOLEAN
         /\ s.handler.nodev => ~claimed'
<1>1. StaysDown(s) => SetUpOutcome(s)
  BY DEF StaysDown, SetUpOutcome, Situation
<1>2. StaysDown(s) \/ interface_do_set_up(s)
  BY DEF interface_set_up
<1>3. claimed' \in BOOLEAN /\ ready' \in BOOLEAN /\ (s.handler.nodev => ~claimed')
  BY DEF interface_set_up, Situation
<1> QED BY <1>1, <1>2, <1>3, DoSetUpOutcome
-----------------------------------------------------------------------------
\* The safety properties, as the lemmas establish them of the next state.
Others == UpIsClaimed /\ DownIsClean /\ SetupIsWatched
Safe == TimerWhileStopping /\ TeardownIsBacked /\ AbortHasProcess /\ Others

\* A setup that is attempted while the interface is down, with the shell as it is.
LEMMA SetUpFromHere ==
  ASSUME IInv, NEW s, SetUpOutcome(s), state = "IFS_DOWN",
         s.sm = sm, s.script = script, s.l3_claimed = l3_claimed,
         UNCHANGED <<handler, task, teardown_timeout, checkup_timeout>>
  PROVE  Safe'
<1> USE DEF IInv, Core
<1>1. TimerWhileStopping'
  BY DEF SetUpOutcome, TimerWhileStopping, Stopping
<1>2. TeardownIsBacked' /\ UpIsClaimed'
  BY DEF SetUpOutcome, TeardownIsBacked, UpIsClaimed
<1>3. AbortHasProcess'
  BY DEF SetUpOutcome, AbortHasProcess
<1>4. SetupIsWatched'
  BY DEF SetUpOutcome, SetupIsWatched
<1>5. DownIsClean'
  BY DEF SetUpOutcome, DownIsClean
<1> QED BY <1>1, <1>2, <1>3, <1>4, <1>5 DEF Safe, Others

\* A setup that is attempted after the shell has finished its teardown.
LEMMA SetUpFromIdle ==
  ASSUME NEW s, SetUpOutcome(s),
         s.sm = "S_IDLE", s.script = "none", s.l3_claimed = FALSE,
         task' = "none", teardown_timeout' = FALSE, checkup_timeout' = FALSE
  PROVE  Safe'
<1>1. TimerWhileStopping' /\ TeardownIsBacked' /\ UpIsClaimed' /\ AbortHasProcess'
  BY DEF SetUpOutcome, TimerWhileStopping, Stopping, TeardownIsBacked, UpIsClaimed, AbortHasProcess
<1>2. SetupIsWatched'
  BY DEF SetUpOutcome, SetupIsWatched
<1>3. DownIsClean'
  BY DEF SetUpOutcome, DownIsClean
<1> QED BY <1>1, <1>2, <1>3 DEF Safe, Others

\* A shell that was told to stop, whatever became of the interface, unless the
\* interface is down or up.
LEMMA SafeWhileStopping ==
  ASSUME Stops,
         \/ state' \in {"IFS_TEARDOWN", "IFS_SETUP"}
         \/ UpIsClaimed' /\ DownIsClean'
  PROVE  Safe'
<1>1. TimerWhileStopping' /\ TeardownIsBacked' /\ AbortHasProcess'
  BY DEF Stops, TimerWhileStopping, Stopping, TeardownIsBacked, AbortHasProcess
<1>2. SetupIsWatched'
  BY DEF Stops, SetupIsWatched, Stopping
<1>3. UpIsClaimed' /\ DownIsClean'
  BY DEF UpIsClaimed, DownIsClean
<1> QED BY <1>1, <1>2, <1>3 DEF Safe, Others

\* A setup keeps the types of what it changes.
LEMMA SetUpTypes ==
  ASSUME TypeOK, NEW s, Situation(s), SetUpOutcome(s)
  PROVE  /\ state' \in IfState /\ sm' \in ShellSm /\ script' \in Script
         /\ dep' \in Dep /\ l3_claimed' \in BOOLEAN
         /\ mishap' \in SUBSET Mishap
  BY DEF TypeOK, Situation, SetUpOutcome, IfState, ShellSm, Script, Mishap

\* A teardown keeps the types of what it changes.
LEMMA StopTypes ==
  ASSUME Stops
  PROVE  /\ sm' \in ShellSm /\ script' \in Script /\ task' \in Task
         /\ renew_pending' \in BOOLEAN /\ teardown_timeout' \in BOOLEAN
  BY DEF Stops, Stopping, ShellSm

\* __interface_set_down().
LEMMA DoSetDown ==
  ASSUME IInv, NEW force \in BOOLEAN, interface_do_set_down(force),
         UNCHANGED <<handler, checkup_timeout, mishap>>
  PROVE  /\ Safe'
         /\ state' \in IfState /\ sm' \in ShellSm /\ script' \in Script /\ task' \in Task
         /\ renew_pending' \in BOOLEAN /\ teardown_timeout' \in BOOLEAN
         /\ l3_claimed' \in BOOLEAN /\ claimed' \in BOOLEAN /\ ready' \in BOOLEAN
         /\ claimed' => claimed
<1>1. CASE state \in {"IFS_UP", "IFS_SETUP"}
  <2>1. state' = "IFS_TEARDOWN" /\ proto_shell_teardown /\ UNCHANGED <<claimed, ready>>
        /\ l3_claimed' = (l3_claimed /\ ~force)
    BY <1>1 DEF interface_do_set_down
  <2>2. Stops
    BY <2>1, TeardownStops DEF IInv
  <2>3. Safe'
    BY <2>1, <2>2, SafeWhileStopping
  <2>4. l3_claimed' \in BOOLEAN
    BY <2>1 DEF IInv, Core, TypeOK
  <2> QED BY <2>1, <2>2, <2>3, <2>4, StopTypes DEF IInv, Core, TypeOK, IfState
<1>2. CASE state = "IFS_DOWN"
  <2>1. /\ claimed' = FALSE /\ ready' \in {FALSE, ready}
        /\ UNCHANGED <<state, l3_claimed, sm, script, task, renew_pending, teardown_timeout>>
    BY <1>2 DEF interface_do_set_down
  <2>2. Safe'
    BY <2>1 DEF IInv, Core, Safe, Others, TimerWhileStopping, TeardownIsBacked,
       AbortHasProcess, UpIsClaimed, DownIsClean, SetupIsWatched
  <2> QED BY <2>1, <2>2 DEF IInv, Core, TypeOK, Script, Task
<1>3. CASE state = "IFS_TEARDOWN"
  <2>1. UNCHANGED <<state, l3_claimed, claimed, ready, sm, script, task, renew_pending,
                    teardown_timeout>>
    BY <1>3 DEF interface_do_set_down
  <2>2. Safe'
    BY <2>1 DEF IInv, Core, Safe, Others, TimerWhileStopping, TeardownIsBacked,
       AbortHasProcess, UpIsClaimed, DownIsClean, SetupIsWatched
  <2> QED BY <2>1, <2>2 DEF IInv, Core, TypeOK, Script, Task
<1> QED BY <1>1, <1>2, <1>3 DEF IInv, Core, TypeOK, IfState

\* interface_set_available(), whoever calls it.
LEMMA SetAvailableKeepsInv ==
  ASSUME IInv, NEW b \in BOOLEAN, NEW d \in Dep, interface_set_available(b, d),
         UNCHANGED <<autostart, reload, handler, proto_task_killed, checkup_timeout>>
  PROVE  IInv'
<1> USE DEF IInv, Core
<1>0. available' = b
  BY DEF interface_set_available
<1>1. CASE b /\ ~available /\ autostart /\ state = "IFS_DOWN"
  <2> DEFINE s == [Now EXCEPT !.available = TRUE, !.dep = d]
  <2>1. interface_set_up(s) /\ UNCHANGED <<task, renew_pending, teardown_timeout>>
    BY <1>1 DEF interface_set_available
  <2>2. /\ Situation(s) /\ s.handler = handler
        /\ s.sm = sm /\ s.script = script /\ s.l3_claimed = l3_claimed
    BY DEF TypeOK, Now, Situation, Script, Dep
  <2> HIDE DEF s
  <2>3. /\ SetUpOutcome(s) /\ claimed' \in BOOLEAN /\ ready' \in BOOLEAN
        /\ handler.nodev => ~claimed'
    BY <2>1, <2>2, SetUpOutcomes
  <2>4. Safe'
    BY <1>1, <2>1, <2>2, <2>3, SetUpFromHere
  <2>5. /\ state' \in IfState /\ sm' \in ShellSm /\ script' \in Script
        /\ dep' \in Dep /\ l3_claimed' \in BOOLEAN /\ mishap' \in SUBSET Mishap
    BY <2>2, <2>3, SetUpTypes
  <2>6. TypeOK'
    BY <1>0, <2>1, <2>3, <2>5 DEF TypeOK, Script, Dep, Mishap
  <2> QED BY <2>4, <2>6 DEF Safe, Others
<1>2. CASE ~b /\ available
  <2>1. interface_do_set_down(TRUE) /\ dep' = d /\ mishap' = mishap
    BY <1>2 DEF interface_set_available
  <2>2. /\ Safe'
        /\ state' \in IfState /\ sm' \in ShellSm /\ script' \in Script /\ task' \in Task
        /\ renew_pending' \in BOOLEAN /\ teardown_timeout' \in BOOLEAN
        /\ l3_claimed' \in BOOLEAN /\ claimed' \in BOOLEAN /\ ready' \in BOOLEAN
        /\ claimed' => claimed
    BY <2>1, DoSetDown
  <2>3. TypeOK'
    BY <1>0, <2>1, <2>2 DEF TypeOK, Script, Task, Dep
  <2> QED BY <2>2, <2>3 DEF Safe, Others
<1>3. CASE b = available \/ (b /\ ~(autostart /\ state = "IFS_DOWN"))
  <2>1. dep' = d /\ UNCHANGED <<state, claimed, ready, l3_claimed, sm, script, task,
                                renew_pending, teardown_timeout, mishap>>
    BY <1>3 DEF interface_set_available, TypeOK
  <2>2. TypeOK'
    BY <1>0, <2>1 DEF TypeOK, Dep
  <2>3. Safe'
    BY <2>1 DEF Safe, Others, TimerWhileStopping, TeardownIsBacked, AbortHasProcess,
       UpIsClaimed, DownIsClean, SetupIsWatched
  <2> QED BY <2>2, <2>3 DEF Safe, Others
<1> QED BY <1>1, <1>2, <1>3 DEF TypeOK

\* interface_do_reload() and the setup that follows it.
LEMMA DoReloadKeepsInv ==
  ASSUME IInv, interface_do_reload
  PROVE  IInv'
<1> USE DEF IInv, Core
<1>1. PICK e \in BOOLEAN :
        LET s == [handler |-> handler', available |-> available', ready |-> e,
                  claimed |-> FALSE, l3_claimed |-> FALSE,
                  sm |-> "S_IDLE", script |-> "none", dep |-> "none"]
        IN IF autostart THEN interface_set_up(s)
           ELSE StaysDown(s) /\ claimed' = FALSE /\ ready' = e
  BY DEF interface_do_reload
<1> DEFINE s == [handler |-> handler', available |-> available', ready |-> e,
                 claimed |-> FALSE, l3_claimed |-> FALSE,
                 sm |-> "S_IDLE", script |-> "none", dep |-> "none"]
<1>2. /\ reload' = FALSE /\ handler' \in Handler /\ available' \in BOOLEAN
      /\ task' = "none" /\ proto_task_killed' = FALSE /\ renew_pending' = FALSE
      /\ teardown_timeout' = FALSE /\ checkup_timeout' = FALSE /\ autostart' = autostart
  BY DEF interface_do_reload, ConfigNormal, CancelTimers
<1>3. /\ Situation(s) /\ s.handler = handler' /\ s.sm = "S_IDLE" /\ s.script = "none"
      /\ s.l3_claimed = FALSE /\ s.claimed = FALSE
  BY <1>2 DEF Situation, ShellSm, Script, Dep
<1>4. \/ interface_set_up(s)
      \/ StaysDown(s) /\ claimed' = FALSE /\ ready' = e
  BY <1>1
<1> HIDE DEF s
<1>5. /\ SetUpOutcome(s) /\ claimed' \in BOOLEAN /\ ready' \in BOOLEAN
      /\ handler'.nodev => ~claimed'
  <2>1. CASE interface_set_up(s)
    BY <1>3, <2>1, SetUpOutcomes
  <2>2. CASE StaysDown(s) /\ claimed' = FALSE /\ ready' = e
    BY <1>3, <2>2 DEF StaysDown, SetUpOutcome, Situation
  <2> QED BY <1>4, <2>1, <2>2
<1>6. Safe'
  BY <1>2, <1>3, <1>5, SetUpFromIdle
<1>7. /\ state' \in IfState /\ sm' \in ShellSm /\ script' \in Script
      /\ dep' \in Dep /\ l3_claimed' \in BOOLEAN /\ mishap' \in SUBSET Mishap
  BY <1>3, <1>5, SetUpTypes
<1>8. /\ reload' \in BOOLEAN /\ proto_task_killed' \in BOOLEAN /\ renew_pending' \in BOOLEAN
      /\ teardown_timeout' \in BOOLEAN /\ checkup_timeout' \in BOOLEAN /\ autostart' \in BOOLEAN
      /\ task' \in Task
  BY <1>2 DEF TypeOK, Task
<1>9. TypeOK'
  BY <1>2, <1>5, <1>7, <1>8 DEF TypeOK, Script, Task, Dep, Mishap
<1> QED BY <1>6, <1>9 DEF Safe, Others

\* IFPEV_DOWN and what interface_proto_event_cb() does with it.
LEMMA ProtoDownKeepsInv ==
  ASSUME IInv, ProtoDown
  PROVE  IInv'
<1> USE DEF IInv, Core
<1>1. CASE state = "IFS_DOWN"
  <2>1. /\ sm' = "S_IDLE" /\ script' = "none" /\ task' = "none"
        /\ teardown_timeout' = FALSE /\ checkup_timeout' = FALSE
        /\ UNCHANGED <<state, autostart, reload, available, ready, claimed, l3_claimed, handler,
                       proto_task_killed, renew_pending, dep, mishap>>
    BY <1>1 DEF ProtoDown, CancelTimers, ifVars, netVars
  <2>2. Safe'
    BY <1>1, <2>1 DEF Safe, Others, TimerWhileStopping, TeardownIsBacked, AbortHasProcess,
       UpIsClaimed, DownIsClean, SetupIsWatched, Stopping
  <2>3. /\ teardown_timeout' \in BOOLEAN /\ checkup_timeout' \in BOOLEAN /\ sm' \in ShellSm
        /\ script' \in Script /\ task' \in Task
    BY <2>1 DEF ShellSm, Script, Task
  <2>4. TypeOK'
    BY <2>1, <2>3 DEF TypeOK, Script, Task
  <2> QED BY <2>2, <2>4 DEF Safe, Others
<1>2. CASE state # "IFS_DOWN" /\ reload
  <2>1. interface_do_reload
    BY <1>2 DEF ProtoDown
  <2> QED BY <2>1, DoReloadKeepsInv
<1>3. CASE state # "IFS_DOWN" /\ ~reload
  <2>1. /\ task' = "none" /\ teardown_timeout' = FALSE /\ checkup_timeout' = FALSE
        /\ UNCHANGED <<autostart, available, reload, handler, proto_task_killed, renew_pending>>
    BY <1>3 DEF ProtoDown, CancelTimers
  <2>2. PICK e \in (IF claimed THEN {FALSE, ready} ELSE {ready}) :
          LET s == [Now EXCEPT !.claimed = FALSE, !.l3_claimed = FALSE, !.ready = e,
                               !.sm = "S_IDLE", !.script = "none"]
          IN IF autostart THEN interface_set_up(s)
             ELSE StaysDown(s) /\ claimed' = FALSE /\ ready' = e
    BY <1>3 DEF ProtoDown
  <2> DEFINE s == [Now EXCEPT !.claimed = FALSE, !.l3_claimed = FALSE, !.ready = e,
                              !.sm = "S_IDLE", !.script = "none"]
  <2>3. e \in BOOLEAN
    BY <2>2 DEF TypeOK
  <2>4. /\ Situation(s) /\ s.handler = handler /\ s.sm = "S_IDLE" /\ s.script = "none"
        /\ s.l3_claimed = FALSE /\ s.claimed = FALSE
    BY <2>3 DEF TypeOK, Now, Situation, ShellSm, Script, Dep
  <2>5. \/ interface_set_up(s)
        \/ StaysDown(s) /\ claimed' = FALSE /\ ready' = e
    BY <2>2
  <2> HIDE DEF s
  <2>6. /\ SetUpOutcome(s) /\ claimed' \in BOOLEAN /\ ready' \in BOOLEAN
        /\ handler'.nodev => ~claimed'
    <3>1. CASE interface_set_up(s)
      BY <2>1, <2>4, <3>1, SetUpOutcomes
    <3>2. CASE StaysDown(s) /\ claimed' = FALSE /\ ready' = e
      BY <2>3, <2>4, <3>2 DEF StaysDown, SetUpOutcome, Situation
    <3> QED BY <2>5, <3>1, <3>2
  <2>7. Safe'
    BY <2>1, <2>4, <2>6, SetUpFromIdle
  <2>8. /\ state' \in IfState /\ sm' \in ShellSm /\ script' \in Script
        /\ dep' \in Dep /\ l3_claimed' \in BOOLEAN /\ mishap' \in SUBSET Mishap
    BY <2>4, <2>6, SetUpTypes
  <2>9. /\ teardown_timeout' \in BOOLEAN /\ checkup_timeout' \in BOOLEAN /\ task' \in Task
    BY <2>1 DEF Task
  <2>10. TypeOK'
    BY <2>1, <2>6, <2>8, <2>9 DEF TypeOK, Script, Task, Dep, Mishap
  <2> QED BY <2>7, <2>10 DEF Safe, Others
<1> QED BY <1>1, <1>2, <1>3 DEF TypeOK

\* The end of an aborted setup.
LEMMA AbortDoneKeepsInv ==
  ASSUME IInv, AbortDone, sm = "S_SETUP_ABORT"
  PROVE  IInv'
<1> USE DEF IInv, Core
<1>1. /\ sm' = "S_TEARDOWN" /\ renew_pending' = FALSE /\ script' \in {"teardown", "none"}
      /\ task' = "none" /\ teardown_timeout' = TRUE /\ checkup_timeout' = FALSE
      /\ UNCHANGED <<state, autostart, reload, available, ready, claimed, l3_claimed, handler,
                     proto_task_killed, dep, mishap>>
  BY DEF AbortDone, Started, ifVars, netVars
<1>2. Safe'
  BY <1>1 DEF Safe, Others, TimerWhileStopping, TeardownIsBacked, AbortHasProcess,
     UpIsClaimed, DownIsClean, SetupIsWatched, Stopping
<1>3. /\ teardown_timeout' \in BOOLEAN /\ checkup_timeout' \in BOOLEAN /\ sm' \in ShellSm
      /\ renew_pending' \in BOOLEAN /\ script' \in Script /\ task' \in Task
  BY <1>1 DEF ShellSm, Script, Task
<1>4. TypeOK'
  BY <1>1, <1>3 DEF TypeOK, Script, Task
<1> QED BY <1>2, <1>4 DEF Safe, Others

\* A step that tells the shell to stop, or finds it stopping already.
LEMMA StoppingKeepsInv ==
  ASSUME IInv, Stops,
         UNCHANGED <<autostart, available, ready, claimed, reload, handler, proto_task_killed>>,
         state' \in IfState, l3_claimed' \in BOOLEAN, checkup_timeout' \in BOOLEAN,
         dep' \in Dep, mishap' \in SUBSET Mishap,
         UpIsClaimed', state' = "IFS_DOWN" => mishap' # {}
  PROVE  IInv'
<1> USE DEF IInv, Core
<1>1. TypeOK'
  BY StopTypes DEF TypeOK, Script, Task, Dep, Mishap
<1>2. DownIsClean'
  BY DEF DownIsClean
<1>3. Safe'
  BY <1>2, SafeWhileStopping
<1> QED BY <1>1, <1>3 DEF Safe, Others

\* An interface that is down with the shell not at rest has met a mishap.
LEMMA NotAtRest ==
  ASSUME IInv, state = "IFS_DOWN",
         \/ sm # "S_IDLE" \/ script # "none" \/ task # "none"
         \/ teardown_timeout \/ checkup_timeout \/ l3_claimed
  PROVE  mishap # {}
  BY DEF IInv, DownIsClean

\* The link is lost: an interface that was up is being set up again.
LEMMA LosesLink ==
  ASSUME IInv, LinkLost \/ UNCHANGED <<state, l3_claimed>>
  PROVE  /\ state' \in IfState /\ l3_claimed' \in BOOLEAN
         /\ mishap \subseteq mishap' => UpIsClaimed'
         /\ state' = "IFS_DOWN" => state = "IFS_DOWN"
         /\ l3_claimed' => l3_claimed
         /\ state' = "IFS_TEARDOWN" => state = "IFS_TEARDOWN"
<1> USE DEF IInv, Core
<1>1. CASE LinkLost /\ state = "IFS_UP"
  BY <1>1 DEF LinkLost, IfState, UpIsClaimed
<1>2. CASE UNCHANGED <<state, l3_claimed>>
  BY <1>2 DEF TypeOK, UpIsClaimed
<1> QED BY <1>1, <1>2 DEF LinkLost

\* interface_set_enabled() and interface_set_link_state().
LEMMA SetReadyKeepsInv ==
  ASSUME IInv, NEW b \in BOOLEAN, SetReady(b)
  PROVE  IInv'
<1> USE DEF IInv, Core
<1> DEFINE s == [Now EXCEPT !.ready = b]
<1>1. /\ ready' = b /\ interface_check_state(s) /\ ~handler.nodev
      /\ UNCHANGED <<autostart, available, claimed, reload, handler,
                     proto_task_killed, checkup_timeout>>
  BY DEF SetReady
<1>2. /\ Situation(s) /\ s.handler = handler /\ s.ready = b
      /\ s.sm = sm /\ s.script = script /\ s.l3_claimed = l3_claimed
  BY DEF TypeOK, Now, Situation, Script, Dep
<1> HIDE DEF s
<1>3. CASE /\ state \in {"IFS_UP", "IFS_SETUP"} /\ state' = "IFS_TEARDOWN"
           /\ proto_shell_teardown /\ UNCHANGED <<l3_claimed, dep, mishap>>
  <2>1. Stops
    BY <1>3, TeardownStops
  <2>2. Safe'
    BY <1>3, <2>1, SafeWhileStopping
  <2>3. state' \in IfState
    BY <1>3 DEF IfState
  <2>4. TypeOK'
    BY <1>1, <1>3, <2>1, <2>3, StopTypes DEF TypeOK, Script, Task
  <2> QED BY <2>2, <2>4 DEF Safe, Others
<1>4. CASE /\ state = "IFS_DOWN" /\ interface_do_set_up(s)
           /\ UNCHANGED <<task, renew_pending, teardown_timeout>>
  <2>1. SetUpOutcome(s)
    BY <1>2, <1>4, DoSetUpOutcome
  <2>2. Safe'
    BY <1>1, <1>2, <1>4, <2>1, SetUpFromHere
  <2>3. /\ state' \in IfState /\ sm' \in ShellSm /\ script' \in Script
        /\ dep' \in Dep /\ l3_claimed' \in BOOLEAN /\ mishap' \in SUBSET Mishap
    BY <1>2, <2>1, SetUpTypes
  <2>4. TypeOK'
    BY <1>1, <1>4, <2>3 DEF TypeOK, Script, Dep, Mishap
  <2> QED BY <2>2, <2>4 DEF Safe, Others
<1>5. CASE UNCHANGED <<state, l3_claimed, sm, script, task, renew_pending,
                       teardown_timeout, dep, mishap>>
  <2>1. TypeOK'
    BY <1>1, <1>5 DEF TypeOK
  <2>2. Safe'
    BY <1>1, <1>5 DEF Safe, Others, TimerWhileStopping, TeardownIsBacked, AbortHasProcess,
       UpIsClaimed, DownIsClean, SetupIsWatched
  <2> QED BY <2>1, <2>2 DEF Safe, Others
<1> QED BY <1>1, <1>3, <1>4, <1>5 DEF interface_check_state

\* interface_l3_dev_cb(): the tunnel device lost its link.
LEMMA L3LinkDownKeepsInv ==
  ASSUME IInv, L3LinkDown
  PROVE  IInv'
<1> USE DEF IInv, Core
<1>1. /\ l3_claimed /\ proto_shell_teardown
      /\ UNCHANGED <<state, autostart, reload, available, ready, claimed, l3_claimed, handler,
                     proto_task_killed, checkup_timeout, dep, mishap>>
  BY DEF L3LinkDown, ifVars, netVars
<1>2. Stops
  BY <1>1, TeardownStops
<1>3. UpIsClaimed' /\ (state' = "IFS_DOWN" => mishap' # {})
  BY <1>1, NotAtRest DEF UpIsClaimed
<1>4. /\ state' \in IfState /\ l3_claimed' \in BOOLEAN /\ checkup_timeout' \in BOOLEAN
      /\ dep' \in Dep /\ mishap' \in SUBSET Mishap
  BY <1>1 DEF TypeOK, Dep, Mishap
<1> QED BY <1>1, <1>2, <1>3, <1>4, StoppingKeepsInv

\* ubus "up".
LEMMA SetUpKeepsInv ==
  ASSUME IInv, SetUp
  PROVE  IInv'
<1> USE DEF IInv, Core
<1>1. /\ autostart' \in BOOLEAN
      /\ UNCHANGED <<available, reload, handler, task, proto_task_killed,
                     renew_pending, teardown_timeout, checkup_timeout>>
  BY DEF SetUp, timerVars
<1>2. CASE state = "IFS_DOWN"
  <2>1. interface_set_up(Now)
    BY <1>2 DEF SetUp
  <2>2. /\ Situation(Now) /\ Now.handler = handler
        /\ Now.sm = sm /\ Now.script = script /\ Now.l3_claimed = l3_claimed
    BY DEF TypeOK, Now, Situation, Script, Dep
  <2>3. /\ SetUpOutcome(Now) /\ claimed' \in BOOLEAN /\ ready' \in BOOLEAN
        /\ handler.nodev => ~claimed'
    BY <2>1, <2>2, SetUpOutcomes
  <2>4. Safe'
    BY <1>1, <1>2, <2>2, <2>3, SetUpFromHere
  <2>5. /\ state' \in IfState /\ sm' \in ShellSm /\ script' \in Script
        /\ dep' \in Dep /\ l3_claimed' \in BOOLEAN /\ mishap' \in SUBSET Mishap
    BY <2>2, <2>3, SetUpTypes
  <2>6. TypeOK'
    BY <1>1, <2>3, <2>5 DEF TypeOK, Script, Dep, Mishap
  <2> QED BY <2>4, <2>6 DEF Safe, Others
<1>3. CASE state # "IFS_DOWN"
  <2>1. UNCHANGED <<state, claimed, ready, l3_claimed, sm, script, dep, mishap>>
    BY <1>3 DEF SetUp
  <2>2. TypeOK'
    BY <1>1, <2>1 DEF TypeOK
  <2>3. Safe'
    BY <1>1, <2>1 DEF Safe, Others, TimerWhileStopping, TeardownIsBacked, AbortHasProcess,
       UpIsClaimed, DownIsClean, SetupIsWatched
  <2> QED BY <2>2, <2>3 DEF Safe, Others
<1> QED BY <1>2, <1>3

\* interface_set_down() and set_config_state(): a teardown that is asked for.
LEMMA SetDownKeepsInv ==
  ASSUME IInv, interface_do_set_down(FALSE),
         autostart' \in BOOLEAN, reload' \in BOOLEAN,
         UNCHANGED <<available, handler, proto_task_killed, checkup_timeout, dep, mishap>>
  PROVE  IInv'
<1> USE DEF IInv, Core
<1>1. /\ Safe'
      /\ state' \in IfState /\ sm' \in ShellSm /\ script' \in Script /\ task' \in Task
      /\ renew_pending' \in BOOLEAN /\ teardown_timeout' \in BOOLEAN
      /\ l3_claimed' \in BOOLEAN /\ claimed' \in BOOLEAN /\ ready' \in BOOLEAN
      /\ claimed' => claimed
  BY DoSetDown
<1>2. TypeOK'
  BY <1>1 DEF TypeOK, Script, Task
<1> QED BY <1>1, <1>2 DEF Safe, Others

\* PROTO_CMD_RENEW, in any state of the interface.
LEMMA RenewKeepsInv ==
  ASSUME IInv, NEW ms, ms \in SUBSET Mishap, mishap \subseteq ms,
         state = "IFS_DOWN" => ms # {},
         proto_shell_renew(ms),
         UNCHANGED <<state, autostart, reload, available, ready, claimed, l3_claimed, handler,
                     sm, task, proto_task_killed, teardown_timeout, checkup_timeout, dep>>
  PROVE  IInv'
<1> USE DEF IInv, Core
<1>1. CASE ~handler.renew
  <2>1. UNCHANGED <<script, renew_pending, mishap>>
    BY <1>1 DEF proto_shell_renew
  <2>2. TypeOK'
    BY <2>1 DEF TypeOK
  <2>3. Safe'
    BY <2>1 DEF Safe, Others, TimerWhileStopping, TeardownIsBacked, AbortHasProcess,
       UpIsClaimed, DownIsClean, SetupIsWatched
  <2> QED BY <2>2, <2>3 DEF Safe, Others
<1>2. CASE handler.renew
  <2>1. /\ renew_pending' \in BOOLEAN /\ script' \in Script
        /\ mishap' \in SUBSET Mishap /\ mishap \subseteq mishap' /\ ms \subseteq mishap'
        /\ script # "none" => script' # "none"
        /\ script' # script => script' = "renew"
    BY <1>2 DEF proto_shell_renew, Started, TypeOK, Script, Mishap
  <2>2. TypeOK'
    BY <2>1 DEF TypeOK, Script, Mishap
  <2>3. DownIsClean'
    BY <2>1 DEF DownIsClean
  <2>4. UpIsClaimed' /\ TeardownIsBacked' /\ TimerWhileStopping'
    BY <2>1 DEF UpIsClaimed, TeardownIsBacked, TimerWhileStopping
  <2>5. AbortHasProcess' /\ SetupIsWatched'
    BY <2>1 DEF AbortHasProcess, SetupIsWatched
  <2> QED BY <2>2, <2>3, <2>4, <2>5
<1> QED BY <1>1, <1>2

\* A changed configuration, applied at once or after a teardown.
LEMMA ReloadKeepsInv ==
  ASSUME IInv, Reload
  PROVE  IInv'
<1>1. CASE state = "IFS_DOWN"
  BY <1>1, DoReloadKeepsInv DEF Reload
<1>2. CASE state # "IFS_DOWN"
  <2>1. /\ reload' \in BOOLEAN /\ interface_do_set_down(FALSE)
        /\ UNCHANGED <<autostart, available, handler, proto_task_killed,
                       checkup_timeout, dep, mishap>>
    BY <1>2 DEF Reload
  <2>2. autostart' \in BOOLEAN
    BY <2>1 DEF IInv, Core, TypeOK
  <2> QED BY <2>1, <2>2, SetDownKeepsInv
<1> QED BY <1>1, <1>2

\* The script of an interface that is being set up, or is up, ends.
LEMMA ScriptExitSetupKeepsInv ==
  ASSUME IInv, script # "none", ScriptExit_Setup
  PROVE  IInv'
<1> USE DEF IInv, Core
<1>1. /\ sm = "S_SETUP"
      /\ UNCHANGED <<state, autostart, reload, available, ready, claimed, l3_claimed, handler,
                     task, proto_task_killed, dep>>
  BY DEF ScriptExit_Setup, ifVars, netVars
<1>2. state = "IFS_DOWN" => mishap # {}
  BY <1>1, NotAtRest
<1>3. CASE renew_pending
  <2>1. /\ script' \in {"renew", "none"} /\ renew_pending' = FALSE
        /\ mishap' = IF script' = "none" THEN mishap \cup {"fork"} ELSE mishap
        /\ checkup_timeout' = (checkup_timeout \/ handler.checkup)
        /\ UNCHANGED <<sm, teardown_timeout>>
    BY <1>3 DEF ScriptExit_Setup, Started
  <2>2. /\ mishap' \in SUBSET Mishap /\ mishap \subseteq mishap' /\ script' \in Script
        /\ checkup_timeout' \in BOOLEAN /\ renew_pending' \in BOOLEAN
        /\ script' = "none" => "fork" \in mishap'
    BY <2>1 DEF TypeOK, Mishap, Script
  <2>3. TypeOK'
    BY <1>1, <2>1, <2>2 DEF TypeOK, Script, Mishap
  <2>4. TimerWhileStopping' /\ TeardownIsBacked' /\ UpIsClaimed'
    BY <1>1, <2>1, <2>2 DEF TimerWhileStopping, TeardownIsBacked, UpIsClaimed
  <2>5. AbortHasProcess' /\ DownIsClean' /\ SetupIsWatched'
    BY <1>1, <1>2, <2>1, <2>2 DEF AbortHasProcess, DownIsClean, SetupIsWatched
  <2> QED BY <2>3, <2>4, <2>5
<1>4. CASE ~renew_pending /\ ~handler.no_task /\ task = "none"
  <2>1. /\ sm' = "S_TEARDOWN" /\ teardown_timeout' = TRUE /\ script' \in {"teardown", "none"}
        /\ UNCHANGED <<checkup_timeout, renew_pending, mishap>>
    BY <1>4 DEF ScriptExit_Setup, Started
  <2>2. Stops
    BY <1>1, <2>1 DEF Stops, Stopping, TypeOK, Script, Task
  <2>3. /\ state' \in IfState /\ l3_claimed' \in BOOLEAN /\ checkup_timeout' \in BOOLEAN
        /\ dep' \in Dep /\ mishap' \in SUBSET Mishap
    BY <1>1, <2>1 DEF TypeOK, Dep, Mishap
  <2>4. UpIsClaimed' /\ (state' = "IFS_DOWN" => mishap' # {})
    BY <1>1, <1>2, <2>1 DEF UpIsClaimed
  <2> QED BY <1>1, <2>2, <2>3, <2>4, StoppingKeepsInv
<1>5. CASE ~renew_pending /\ (handler.no_task \/ task # "none")
  <2>1. /\ script' = "none" /\ checkup_timeout' = (checkup_timeout \/ handler.checkup)
        /\ UNCHANGED <<sm, teardown_timeout, renew_pending, mishap>>
    BY <1>5 DEF ScriptExit_Setup
  <2>2. checkup_timeout' \in BOOLEAN /\ script' \in Script
    BY <2>1 DEF TypeOK, Script
  <2>3. TypeOK'
    BY <1>1, <2>1, <2>2 DEF TypeOK, Script
  <2>4. TimerWhileStopping' /\ TeardownIsBacked' /\ UpIsClaimed'
    BY <1>1, <2>1 DEF TimerWhileStopping, TeardownIsBacked, UpIsClaimed
  <2>5. AbortHasProcess' /\ DownIsClean' /\ SetupIsWatched'
    BY <1>1, <1>2, <1>5, <2>1 DEF AbortHasProcess, DownIsClean, SetupIsWatched
  <2> QED BY <2>3, <2>4, <2>5
<1> QED BY <1>3, <1>4, <1>5 DEF ScriptExit_Setup

\* A script ends in S_IDLE: a renewal, or nothing.
LEMMA ScriptExitIdleKeepsInv ==
  ASSUME IInv, script # "none", ScriptExit_Idle
  PROVE  IInv'
<1> USE DEF IInv, Core
<1>1. /\ sm = "S_IDLE"
      /\ UNCHANGED <<state, autostart, reload, available, ready, claimed, l3_claimed, handler,
                     sm, task, proto_task_killed, teardown_timeout, checkup_timeout, dep>>
  BY DEF ScriptExit_Idle, ifVars, netVars, timerVars
<1>2. state = "IFS_DOWN" => mishap # {}
  BY NotAtRest
<1>3. /\ script' \in {"renew", "none"} /\ renew_pending' \in BOOLEAN
      /\ mishap' \in SUBSET Mishap /\ mishap \subseteq mishap'
  BY DEF ScriptExit_Idle, Started, TypeOK, Mishap
<1>4. TypeOK'
  BY <1>1, <1>3 DEF TypeOK, Mishap
<1>5. TimerWhileStopping' /\ TeardownIsBacked' /\ UpIsClaimed'
  BY <1>1, <1>3 DEF TimerWhileStopping, TeardownIsBacked, UpIsClaimed
<1>6. AbortHasProcess' /\ DownIsClean' /\ SetupIsWatched'
  BY <1>1, <1>2, <1>3 DEF AbortHasProcess, DownIsClean, SetupIsWatched
<1> QED BY <1>4, <1>5, <1>6

\* proto_shell_script_cb(), in any state of the shell.
LEMMA ScriptExitKeepsInv ==
  ASSUME IInv, ScriptExit
  PROVE  IInv'
<1> USE DEF IInv, Core
<1>1. script # "none"
  BY DEF ScriptExit
<1>2. CASE ScriptExit_Stopping
  <2>1. CASE sm = "S_SETUP_ABORT" /\ task = "none"
    BY <1>2, <2>1, AbortDoneKeepsInv DEF ScriptExit_Stopping
  <2>2. CASE sm = "S_TEARDOWN" /\ task = "none"
    BY <1>2, <2>2, ProtoDownKeepsInv DEF ScriptExit_Stopping
  <2>3. CASE task # "none"
    <3>1. /\ script' = "none" /\ task' \in {task, "signalled"} /\ sm \in Stopping
          /\ UNCHANGED <<state, autostart, reload, available, ready, claimed, l3_claimed, handler,
                         sm, proto_task_killed, renew_pending, teardown_timeout, checkup_timeout,
                         dep, mishap>>
      BY <1>2, <2>3 DEF ScriptExit_Stopping, ifVars, netVars, timerVars
    <3>2. TypeOK'
      BY <3>1 DEF TypeOK
    <3>3. Stops
      BY <2>3, <3>1, <3>2 DEF Stops, TypeOK, TimerWhileStopping, Script, Task
    <3>4. UpIsClaimed' /\ DownIsClean'
      BY <1>1, <3>1 DEF UpIsClaimed, DownIsClean
    <3> QED BY <3>2, <3>3, <3>4, SafeWhileStopping DEF Safe, Others
  <2> QED BY <1>2, <2>1, <2>2, <2>3 DEF ScriptExit_Stopping
<1> QED BY <1>1, <1>2, ScriptExitSetupKeepsInv, ScriptExitIdleKeepsInv DEF ScriptExit

\* proto_shell_task_cb(), in any state of the shell.
LEMMA TaskExitKeepsInv ==
  ASSUME IInv, TaskExit
  PROVE  IInv'
<1> USE DEF IInv, Core
<1>0. task # "none"
  BY DEF TaskExit
<1>1. CASE TaskExit_Running
  <2>1. /\ task' = "none" /\ teardown_timeout' = TRUE /\ renew_pending' = FALSE
        /\ LinkLost \/ UNCHANGED <<state, l3_claimed>>
        /\ UNCHANGED <<autostart, available, ready, claimed, reload,
                       handler, proto_task_killed, checkup_timeout, dep, mishap>>
    BY <1>1 DEF TaskExit_Running
  <2>2. \/ sm' = "S_SETUP_ABORT" /\ script # "none" /\ script' = script
        \/ sm' = "S_TEARDOWN" /\ script' \in {"teardown", "none"}
    BY <1>1 DEF TaskExit_Running, Started
  <2>3. Stops
    BY <2>1, <2>2 DEF Stops, Stopping, TypeOK, Script, Task
  <2>4. /\ state' \in IfState /\ l3_claimed' \in BOOLEAN /\ UpIsClaimed'
        /\ state' = "IFS_DOWN" => mishap' # {}
    BY <1>0, <2>1, LosesLink, NotAtRest
  <2>5. checkup_timeout' \in BOOLEAN /\ dep' \in Dep /\ mishap' \in SUBSET Mishap
    BY <2>1 DEF TypeOK, Dep, Mishap
  <2> QED BY <2>1, <2>3, <2>4, <2>5, StoppingKeepsInv
<1>2. CASE TaskExit_Stopping
  <2>1. CASE sm = "S_SETUP_ABORT" /\ script = "none"
    BY <1>2, <2>1, AbortDoneKeepsInv DEF TaskExit_Stopping
  <2>2. CASE sm = "S_TEARDOWN" /\ script = "none"
    BY <1>2, <2>2, ProtoDownKeepsInv DEF TaskExit_Stopping
  <2>3. CASE script # "none"
    <3>1. /\ task' = "none" /\ sm \in Stopping
          /\ UNCHANGED <<state, autostart, reload, available, ready, claimed, l3_claimed, handler,
                         sm, script, proto_task_killed, renew_pending, teardown_timeout,
                         checkup_timeout, dep, mishap>>
      BY <1>2, <2>3 DEF TaskExit_Stopping, ifVars, netVars, timerVars
    <3>2. TypeOK'
      BY <3>1 DEF TypeOK
    <3>3. Stops
      BY <2>3, <3>1, <3>2 DEF Stops, TypeOK, TimerWhileStopping, Script, Task
    <3>4. UpIsClaimed' /\ DownIsClean'
      BY <1>0, <3>1 DEF UpIsClaimed, DownIsClean
    <3> QED BY <3>2, <3>3, <3>4, SafeWhileStopping DEF Safe, Others
  <2> QED BY <1>2, <2>1, <2>2, <2>3 DEF TaskExit_Stopping
<1> QED BY <1>1, <1>2 DEF TaskExit

\* The teardown timer never meets a shell that does not stop.
LEMMA TeardownTimeoutKeepsInv ==
  ASSUME IInv, TeardownTimeout
  PROVE  IInv'
<1>1. sm \in Stopping
  BY DEF TeardownTimeout, IInv, Core, TimerWhileStopping
<1>2. CASE sm = "S_SETUP_ABORT"
  BY <1>2, AbortDoneKeepsInv DEF TeardownTimeout
<1>3. CASE sm = "S_TEARDOWN"
  BY <1>3, ProtoDownKeepsInv DEF TeardownTimeout
<1> QED BY <1>1, <1>2, <1>3 DEF Stopping

\* proto_shell_checkup_timeout_cb().
LEMMA CheckupTimeoutKeepsInv ==
  ASSUME IInv, CheckupTimeout
  PROVE  IInv'
<1> USE DEF IInv, Core
<1>1. /\ checkup_timeout /\ checkup_timeout' = FALSE
      /\ UNCHANGED <<state, autostart, reload, available, ready, claimed, l3_claimed, handler,
                     proto_task_killed, dep, mishap>>
  BY DEF CheckupTimeout, ifVars, netVars
<1>2. state' = "IFS_DOWN" => mishap' # {}
  BY <1>1, NotAtRest
<1>3. CASE proto_shell_teardown
  <2>1. Stops
    BY <1>3, TeardownStops
  <2>2. /\ state' \in IfState /\ l3_claimed' \in BOOLEAN /\ checkup_timeout' \in BOOLEAN
        /\ dep' \in Dep /\ mishap' \in SUBSET Mishap
    BY <1>1 DEF TypeOK, Dep, Mishap
  <2>3. UpIsClaimed'
    BY <1>1 DEF UpIsClaimed
  <2> QED BY <1>1, <1>2, <2>1, <2>2, <2>3, StoppingKeepsInv
<1>4. CASE UNCHANGED <<sm, script, task, renew_pending, teardown_timeout>>
  <2>0. checkup_timeout' \in BOOLEAN
    BY <1>1
  <2>1. TypeOK'
    BY <1>1, <1>4, <2>0 DEF TypeOK
  <2>2. Safe'
    BY <1>1, <1>2, <1>4 DEF Safe, Others, TimerWhileStopping, TeardownIsBacked,
       AbortHasProcess, UpIsClaimed, DownIsClean, SetupIsWatched
  <2> QED BY <2>1, <2>2 DEF Safe, Others
<1> QED BY <1>3, <1>4 DEF CheckupTimeout

\* proto_shell_update_link() with link-up.
LEMMA LinkUpKeepsInv ==
  ASSUME IInv, NotifyLinkUp
  PROVE  IInv'
<1> USE DEF IInv, Core
<1>1. /\ sm \notin Stopping /\ state # "IFS_TEARDOWN" /\ ~teardown_timeout
      /\ UNCHANGED <<autostart, available, ready, claimed, reload, handler, script, task,
                     proto_task_killed, renew_pending, teardown_timeout, checkup_timeout, dep>>
  BY DEF NotifyLinkUp, MayNotify, taskVars, timerVars, TypeOK, TimerWhileStopping,
     TeardownIsBacked
<1>2. /\ mishap \subseteq mishap' /\ mishap' \in SUBSET Mishap
      /\ state = "IFS_DOWN" => mishap' # {}
  BY DEF NotifyLinkUp, Stray, TypeOK, Mishap
<1>3. CASE /\ l3_claimed' = TRUE /\ sm' = "S_IDLE"
           /\ state' = IF state = "IFS_SETUP" THEN "IFS_UP" ELSE state
  <2>1. state' \in IfState /\ sm' \in ShellSm /\ l3_claimed' \in BOOLEAN
    BY <1>3 DEF TypeOK, IfState, ShellSm
  <2>2. TypeOK'
    BY <1>1, <1>2, <2>1 DEF TypeOK, Mishap
  <2>3. Safe'
    BY <1>1, <1>2, <1>3 DEF Safe, Others, TimerWhileStopping, TeardownIsBacked,
       AbortHasProcess, UpIsClaimed, DownIsClean, SetupIsWatched, Stopping
  <2> QED BY <2>2, <2>3 DEF Safe, Others
<1>4. CASE /\ l3_claimed' = FALSE /\ "claim" \in mishap' /\ UNCHANGED <<state, sm>>
  <2>1. l3_claimed' \in BOOLEAN
    BY <1>4
  <2>2. TypeOK'
    BY <1>1, <1>2, <1>4, <2>1 DEF TypeOK, Mishap
  <2>3. Safe'
    BY <1>1, <1>2, <1>4 DEF Safe, Others, TimerWhileStopping, TeardownIsBacked,
       AbortHasProcess, UpIsClaimed, DownIsClean, SetupIsWatched, Stopping
  <2> QED BY <2>2, <2>3 DEF Safe, Others
<1>5. CASE state = "IFS_UP" /\ sm' = "S_IDLE" /\ UNCHANGED <<state, l3_claimed, mishap>>
  <2>1. sm' \in ShellSm
    BY <1>5 DEF ShellSm
  <2>2. TypeOK'
    BY <1>1, <1>5, <2>1 DEF TypeOK
  <2>3. Safe'
    BY <1>1, <1>5 DEF Safe, Others, TimerWhileStopping, TeardownIsBacked,
       AbortHasProcess, UpIsClaimed, DownIsClean, SetupIsWatched, Stopping
  <2> QED BY <2>2, <2>3 DEF Safe, Others
<1> QED BY <1>3, <1>4, <1>5 DEF NotifyLinkUp

\* proto_shell_update_link() with link-down.
LEMMA LinkDownKeepsInv ==
  ASSUME IInv, NotifyLinkDown
  PROVE  IInv'
<1> USE DEF IInv, Core
<1>1. /\ LinkLost
      /\ UNCHANGED <<autostart, available, ready, claimed, reload, handler, sm, script, task,
                     proto_task_killed, renew_pending, teardown_timeout, checkup_timeout, dep>>
  BY DEF NotifyLinkDown, shellVars, taskVars, timerVars
<1>2. /\ mishap \subseteq mishap' /\ mishap' \in SUBSET Mishap
      /\ state = "IFS_DOWN" => mishap' # {}
  BY DEF NotifyLinkDown, Stray, TypeOK, Mishap
<1>3. /\ state' \in IfState /\ l3_claimed' \in BOOLEAN /\ UpIsClaimed'
      /\ state' = "IFS_DOWN" => state = "IFS_DOWN"
      /\ state' = "IFS_TEARDOWN" => state = "IFS_TEARDOWN"
  BY <1>1, <1>2, LosesLink
<1>4. TypeOK'
  BY <1>1, <1>2, <1>3 DEF TypeOK, Mishap
<1>5. TimerWhileStopping' /\ TeardownIsBacked' /\ AbortHasProcess'
  BY <1>1, <1>3 DEF TimerWhileStopping, TeardownIsBacked, AbortHasProcess
<1>6. DownIsClean' /\ SetupIsWatched'
  BY <1>1, <1>2, <1>3 DEF DownIsClean, SetupIsWatched
<1> QED BY <1>3, <1>4, <1>5, <1>6

\* proto_shell_run_command() and proto_shell_kill_command().
LEMMA CommandKeepsInv ==
  ASSUME IInv, NotifyRunCommand \/ NotifyKillCommand
  PROVE  IInv'
<1> USE DEF IInv, Core
<1>1. UNCHANGED <<state, autostart, reload, available, ready, claimed, l3_claimed, handler,
                  sm, script, renew_pending, teardown_timeout, checkup_timeout, dep>>
  BY DEF NotifyRunCommand, NotifyKillCommand, ifVars, netVars, timerVars
<1>2. /\ mishap \subseteq mishap' /\ mishap' \in SUBSET Mishap
      /\ task' \in Task /\ proto_task_killed' \in BOOLEAN
      /\ task' = "none" => "fork" \in mishap' /\ sm # "S_SETUP_ABORT"
      /\ state = "IFS_DOWN" => mishap' # {}
  <2>1. CASE NotifyRunCommand
    BY <2>1 DEF NotifyRunCommand, Stray, MayNotify, Stopping, TypeOK, Mishap, Task
  <2>2. CASE NotifyKillCommand
    <3>1. task # "none" /\ task' = "signalled" /\ proto_task_killed' = TRUE /\ mishap' = mishap
      BY <2>2 DEF NotifyKillCommand
    <3> QED BY <3>1, NotAtRest DEF TypeOK, Mishap, Task
  <2> QED BY <2>1, <2>2
<1>3. TypeOK'
  BY <1>1, <1>2 DEF TypeOK, Mishap, Task
<1>4. TimerWhileStopping' /\ TeardownIsBacked' /\ AbortHasProcess'
  BY <1>1, <1>2 DEF TimerWhileStopping, TeardownIsBacked, AbortHasProcess
<1>5. UpIsClaimed' /\ DownIsClean' /\ SetupIsWatched'
  BY <1>1, <1>2 DEF UpIsClaimed, DownIsClean, SetupIsWatched
<1> QED BY <1>3, <1>4, <1>5

\* A step that leaves the shell and the interface alone.
LEMMA StutterKeepsInv ==
  ASSUME IInv, autostart' \in BOOLEAN, UNCHANGED <<state, reload, netVars, shellVars, mishap>>
  PROVE  IInv'
<1> USE DEF IInv, Core
<1>1. UNCHANGED <<state, reload, available, ready, claimed, l3_claimed, handler, sm, script, task,
                  proto_task_killed, renew_pending, teardown_timeout, checkup_timeout, dep, mishap>>
  BY DEF netVars, shellVars, taskVars, timerVars
<1>2. TypeOK'
  BY <1>1 DEF TypeOK
<1>3. Safe'
  BY <1>1 DEF Safe, Others, TimerWhileStopping, TeardownIsBacked,
     AbortHasProcess, UpIsClaimed, DownIsClean, SetupIsWatched
<1> QED BY <1>2, <1>3 DEF Safe, Others

\* proto_shell_if_down_cb().
LEMMA DependencyDownKeepsInv ==
  ASSUME IInv, DependencyDown
  PROVE  IInv'
<1> USE DEF IInv, Core
<1>1. /\ dep' = "waits"
      /\ UNCHANGED <<autostart, available, ready, claimed, reload,
                     handler, proto_task_killed, checkup_timeout>>
  BY DEF DependencyDown
<1>2. /\ mishap \subseteq mishap' /\ mishap' \in SUBSET Mishap
      /\ state = "IFS_DOWN" => mishap' # {}
  BY DEF DependencyDown, Stray, TypeOK, Mishap
<1>3. CASE sm = "S_IDLE"
  <2>1. LinkLost /\ proto_shell_teardown
    BY <1>3 DEF DependencyDown
  <2>2. Stops
    BY <2>1, TeardownStops
  <2>3. /\ state' \in IfState /\ l3_claimed' \in BOOLEAN /\ UpIsClaimed'
        /\ state' = "IFS_DOWN" => mishap' # {}
    BY <1>2, <2>1, LosesLink
  <2>4. checkup_timeout' \in BOOLEAN /\ dep' \in Dep
    BY <1>1 DEF TypeOK, Dep
  <2> QED BY <1>1, <1>2, <2>2, <2>3, <2>4, StoppingKeepsInv
<1>4. CASE sm # "S_IDLE"
  <2>1. UNCHANGED <<state, l3_claimed, sm, script, task, renew_pending, teardown_timeout>>
    BY <1>4 DEF DependencyDown
  <2>2. TypeOK'
    BY <1>1, <1>2, <2>1 DEF TypeOK, Mishap
  <2>3. Safe'
    BY <1>1, <1>2, <2>1 DEF Safe, Others, TimerWhileStopping, TeardownIsBacked,
       AbortHasProcess, UpIsClaimed, DownIsClean, SetupIsWatched
  <2> QED BY <2>2, <2>3 DEF Safe, Others
<1> QED BY <1>3, <1>4

\* proto_shell_setup_failed().
LEMMA SetupFailedKeepsInv ==
  ASSUME IInv, NotifySetupFailed
  PROVE  IInv'
<1> USE DEF IInv, Core
<1>1. /\ LinkLost \/ UNCHANGED <<state, l3_claimed>>
      /\ proto_shell_teardown
      /\ UNCHANGED <<autostart, available, ready, claimed, reload,
                     handler, proto_task_killed, checkup_timeout, dep>>
  BY DEF NotifySetupFailed
<1>2. /\ mishap \subseteq mishap' /\ mishap' \in SUBSET Mishap
      /\ state = "IFS_DOWN" => mishap' # {}
  BY DEF NotifySetupFailed, Stray, TypeOK, Mishap
<1>3. Stops
  BY <1>1, TeardownStops
<1>4. /\ state' \in IfState /\ l3_claimed' \in BOOLEAN /\ UpIsClaimed'
      /\ state' = "IFS_DOWN" => mishap' # {}
  BY <1>1, <1>2, LosesLink
<1>5. checkup_timeout' \in BOOLEAN /\ dep' \in Dep
  BY <1>1 DEF TypeOK, Dep
<1> QED BY <1>1, <1>2, <1>3, <1>4, <1>5, StoppingKeepsInv
-----------------------------------------------------------------------------
\* An interface before its device showed up satisfies the invariant.
LEMMA InitInv == Init => IInv
<1> SUFFICES ASSUME Init PROVE IInv
  OBVIOUS
<1> USE DEF Init
<1>1. TypeOK
  BY DEF TypeOK, IfState, ShellSm
<1>2. Safe
  BY DEF Safe, Others, TimerWhileStopping, TeardownIsBacked, AbortHasProcess,
     UpIsClaimed, DownIsClean, SetupIsWatched, Stopping
<1> QED BY <1>1, <1>2 DEF IInv, Core, Safe, Others

\* Every event of the daemon preserves the invariant.
LEMMA StepInv == IInv /\ [Next]_vars => IInv'
<1> SUFFICES ASSUME IInv, [Next]_vars PROVE IInv'
  OBVIOUS
<1>1. ASSUME NEW b \in BOOLEAN, SetAvailable(b) PROVE IInv'
  <2>1. dep \in Dep
    BY DEF IInv, Core, TypeOK, Dep
  <2> QED BY <1>1, <2>1, SetAvailableKeepsInv DEF SetAvailable
<1>2. ASSUME NEW b \in BOOLEAN, SetReady(b) PROVE IInv'
  BY <1>2, SetReadyKeepsInv
<1>3. CASE SetDown
  <2>1. reload' \in BOOLEAN
    BY <1>3 DEF SetDown, IInv, Core, TypeOK
  <2> QED BY <1>3, <2>1, SetDownKeepsInv DEF SetDown
<1>4. CASE Renew
  <2>1. mishap \in SUBSET Mishap
    BY DEF IInv, Core, TypeOK, Mishap
  <2>2. /\ state # "IFS_DOWN" /\ proto_shell_renew(mishap)
        /\ UNCHANGED <<state, autostart, reload, available, ready, claimed, l3_claimed, handler,
                       sm, task, proto_task_killed, teardown_timeout, checkup_timeout, dep>>
    BY <1>4 DEF Renew, ifVars, netVars, timerVars
  <2> QED BY <2>1, <2>2, RenewKeepsInv
<1>5. CASE TopoChange
  <2> DEFINE ms == mishap \cup Stray
  <2>1. ms \in SUBSET Mishap /\ mishap \subseteq ms /\ (state = "IFS_DOWN" => ms # {})
    BY DEF IInv, Core, TypeOK, Mishap, Stray
  <2>2. /\ proto_shell_renew(ms)
        /\ UNCHANGED <<state, autostart, reload, available, ready, claimed, l3_claimed, handler,
                       sm, task, proto_task_killed, teardown_timeout, checkup_timeout, dep>>
    BY <1>5 DEF TopoChange, ifVars, netVars, timerVars
  <2> HIDE DEF ms
  <2> QED BY <2>1, <2>2, RenewKeepsInv
<1>6. CASE NotifyBlockRestart
  BY <1>6, StutterKeepsInv DEF NotifyBlockRestart
<1>7. CASE NotifyAddHostDependency
  <2>1. PICK d \in {"waits", "met"} : interface_set_available(d = "met", d)
    BY <1>7 DEF NotifyAddHostDependency
  <2>2. d \in Dep /\ (d = "met") \in BOOLEAN
    BY DEF Dep
  <2>3. UNCHANGED <<autostart, reload, handler, proto_task_killed, checkup_timeout>>
    BY <1>7 DEF NotifyAddHostDependency
  <2> QED BY <2>1, <2>2, <2>3, SetAvailableKeepsInv
<1>8. CASE DependencyUp
  <2>1. PICK d \in {"waits", "met"} : interface_set_available(d = "met", d)
    BY <1>8 DEF DependencyUp
  <2>2. d \in Dep /\ (d = "met") \in BOOLEAN
    BY DEF Dep
  <2>3. UNCHANGED <<autostart, reload, handler, proto_task_killed, checkup_timeout>>
    BY <1>8 DEF DependencyUp
  <2> QED BY <2>1, <2>2, <2>3, SetAvailableKeepsInv
<1>9. CASE UNCHANGED vars
  <2>1. autostart' \in BOOLEAN /\ UNCHANGED <<state, reload, netVars, shellVars, mishap>>
    BY <1>9 DEF vars, ifVars, IInv, Core, TypeOK
  <2> QED BY <2>1, StutterKeepsInv
<1>10. CASE L3LinkDown \/ SetUp \/ Reload
  BY <1>10, L3LinkDownKeepsInv, SetUpKeepsInv, ReloadKeepsInv
<1>11. CASE ScriptExit \/ TaskExit \/ TeardownTimeout \/ CheckupTimeout
  BY <1>11, ScriptExitKeepsInv, TaskExitKeepsInv, TeardownTimeoutKeepsInv,
     CheckupTimeoutKeepsInv
<1>12. CASE NotifyLinkUp \/ NotifyLinkDown \/ NotifyRunCommand \/ NotifyKillCommand
  BY <1>12, LinkUpKeepsInv, LinkDownKeepsInv, CommandKeepsInv
<1>13. CASE NotifySetupFailed \/ DependencyDown
  BY <1>13, SetupFailedKeepsInv, DependencyDownKeepsInv
<1> QED BY <1>1, <1>2, <1>3, <1>4, <1>5, <1>6, <1>7, <1>8, <1>9, <1>10, <1>11, <1>12, <1>13
        DEF Next, Notify

\* The inductive invariant holds in every reachable state.
THEOREM InductiveInvariant == Spec => []IInv
  BY InitInv, StepInv, PTL DEF Spec

\* Every variable of the interface and its shell stays in its type, and a handler
\* without a device never claims one (PROTO_FLAG_NODEV).
THEOREM TypeCorrect == Spec => []TypeOK
<1>1. IInv => TypeOK
  BY DEF IInv, Core
<1> QED BY <1>1, InductiveInvariant, PTL

\* The teardown timer of proto-shell.c is armed exactly while the shell stops, and
\* an interface that waits for IFPEV_DOWN, or a shell that waits for an aborted setup,
\* waits for something that can still happen.
THEOREM TeardownIsDriven ==
  Spec => [](TimerWhileStopping /\ TeardownIsBacked /\ AbortHasProcess)
<1>1. IInv => TimerWhileStopping /\ TeardownIsBacked /\ AbortHasProcess
  BY DEF IInv, Core
<1> QED BY <1>1, InductiveInvariant, PTL

\* An interface that is up holds its l3 device, unless a claim of it failed.
THEOREM UpHoldsDevice == Spec => []UpIsClaimed
<1>1. IInv => UpIsClaimed
  BY DEF IInv
<1> QED BY <1>1, InductiveInvariant, PTL

\* When nothing went wrong, an interface that is down has left nothing behind.
THEOREM NothingLeftBehind == Spec => []DownIsClean
<1>1. IInv => DownIsClean
  BY DEF IInv
<1> QED BY <1>1, InductiveInvariant, PTL

\* A handler that needs a task is never left in S_SETUP without a process, unless
\* a fork failed.
THEOREM SetupNeverForgotten == Spec => []SetupIsWatched
<1>1. IInv => SetupIsWatched
  BY DEF IInv
<1> QED BY <1>1, InductiveInvariant, PTL

\* For every set of handlers, what the interface or its shell waits for can still happen
\* (proto-shell.c: a timer, a process or a stopping shell is there).
THEOREM ShellIsDriven == Spec => []ShellDriven
<1>1. IInv => ShellDriven
  BY DEF IInv, Core, ShellDriven
<1> QED BY <1>1, InductiveInvariant, PTL

\* For every set of handlers, the l3 device is claimed while the interface is up and
\* nothing is left behind when it is down, except after the recorded mishaps.
THEOREM HoldsWhileUsed == Spec => []HoldsWhatItUses
<1>1. IInv => HoldsWhatItUses
  BY DEF IInv, HoldsWhatItUses
<1> QED BY <1>1, InductiveInvariant, PTL
-----------------------------------------------------------------------------
(***************************************************************************)
(* The refinement of ProtoContract.                                        *)
(***************************************************************************)

\* An interface comes up out of its setup or stays up, and a teardown starts from an
\* interface that is not down.
Moves ==
  /\ state' = "IFS_UP" => state \in {"IFS_SETUP", "IFS_UP"}
  /\ state' = "IFS_TEARDOWN" => state # "IFS_DOWN"

\* A setup that is attempted never leads further than IFS_SETUP.
LEMMA SetUpMoves ==
  ASSUME NEW s, interface_set_up(s) \/ interface_do_set_up(s) \/ StaysDown(s)
  PROVE  state' \in {"IFS_DOWN", "IFS_SETUP"}
  BY DEF interface_set_up, interface_do_set_up, StaysDown, Started

\* __interface_set_down() takes an interface to its teardown or leaves it.
LEMMA SetDownMoves ==
  ASSUME NEW force \in BOOLEAN, interface_do_set_down(force)
  PROVE  Moves
  BY DEF interface_do_set_down, Moves

\* interface_set_available() does either.
LEMMA SetAvailableMoves ==
  ASSUME NEW b \in BOOLEAN, NEW d, interface_set_available(b, d)
  PROVE  Moves
<1>1. CASE interface_set_up([Now EXCEPT !.available = TRUE, !.dep = d])
  BY <1>1, SetUpMoves DEF Moves
<1>2. CASE interface_do_set_down(TRUE)
  BY <1>2, SetDownMoves
<1>3. CASE state' = state
  BY <1>3 DEF Moves
<1> QED BY <1>1, <1>2, <1>3 DEF interface_set_available

\* interface_do_reload() ends with an interface that is down or set up again.
LEMMA DoReloadMoves ==
  ASSUME interface_do_reload
  PROVE  state' \in {"IFS_DOWN", "IFS_SETUP"}
<1>1. PICK e \in BOOLEAN :
        LET s == [handler |-> handler', available |-> available', ready |-> e,
                  claimed |-> FALSE, l3_claimed |-> FALSE,
                  sm |-> "S_IDLE", script |-> "none", dep |-> "none"]
        IN IF autostart THEN interface_set_up(s)
           ELSE StaysDown(s) /\ claimed' = FALSE /\ ready' = e
  BY DEF interface_do_reload
<1> QED BY <1>1, SetUpMoves

\* So does IFPEV_DOWN.
LEMMA ProtoDownMoves ==
  ASSUME ProtoDown
  PROVE  state' \in {"IFS_DOWN", "IFS_SETUP"}
<1>1. CASE state = "IFS_DOWN"
  BY <1>1 DEF ProtoDown, ifVars
<1>2. CASE state # "IFS_DOWN" /\ reload
  BY <1>2, DoReloadMoves DEF ProtoDown
<1>3. CASE state # "IFS_DOWN" /\ ~reload
  <2>1. PICK e \in (IF claimed THEN {FALSE, ready} ELSE {ready}) :
          LET s == [Now EXCEPT !.claimed = FALSE, !.l3_claimed = FALSE, !.ready = e,
                               !.sm = "S_IDLE", !.script = "none"]
          IN IF autostart THEN interface_set_up(s)
             ELSE StaysDown(s) /\ claimed' = FALSE /\ ready' = e
    BY <1>3 DEF ProtoDown
  <2> QED BY <2>1, SetUpMoves
<1> QED BY <1>1, <1>2, <1>3 DEF ProtoDown

\* Every event moves the interface as the contract says.
LEMMA NextMoves ==
  ASSUME IInv, [Next]_vars
  PROVE  Moves
<1>1. ASSUME NEW b \in BOOLEAN, SetAvailable(b) PROVE Moves
  BY <1>1, SetAvailableMoves DEF SetAvailable
<1>2. ASSUME NEW b \in BOOLEAN, SetReady(b) PROVE Moves
  <2> DEFINE s == [Now EXCEPT !.ready = b]
  <2>1. \/ state \in {"IFS_UP", "IFS_SETUP"} /\ state' = "IFS_TEARDOWN"
        \/ interface_do_set_up(s)
        \/ state' = state
    BY <1>2 DEF SetReady, interface_check_state
  <2> HIDE DEF s
  <2> QED BY <2>1, SetUpMoves DEF Moves
<1>3. CASE SetUp
  <2>1. interface_set_up(Now) \/ state' = state
    BY <1>3 DEF SetUp
  <2> QED BY <2>1, SetUpMoves DEF Moves
<1>4. CASE SetDown \/ Reload
  <2>1. interface_do_set_down(FALSE) \/ interface_do_reload
    BY <1>4 DEF SetDown, Reload
  <2> QED BY <2>1, SetDownMoves, DoReloadMoves DEF Moves
<1>5. CASE NotifyAddHostDependency \/ DependencyUp
  <2>1. PICK d \in {"waits", "met"} : interface_set_available(d = "met", d)
    BY <1>5 DEF NotifyAddHostDependency, DependencyUp
  <2>2. (d = "met") \in BOOLEAN
    OBVIOUS
  <2> QED BY <2>1, <2>2, SetAvailableMoves
<1>6. CASE ScriptExit \/ TaskExit \/ TeardownTimeout
  <2>1. ProtoDown \/ LinkLost \/ state' = state
    BY <1>6 DEF ScriptExit, ScriptExit_Setup, ScriptExit_Idle, ScriptExit_Stopping, TaskExit,
       TaskExit_Running, TaskExit_Stopping, TeardownTimeout, AbortDone, ifVars
  <2> QED BY <2>1, ProtoDownMoves DEF LinkLost, Moves
<1>7. CASE NotifyLinkUp \/ NotifyLinkDown \/ NotifySetupFailed \/ DependencyDown
  BY <1>7 DEF NotifyLinkUp, NotifyLinkDown, NotifySetupFailed, DependencyDown, LinkLost, Moves
<1>8. CASE \/ L3LinkDown \/ Renew \/ TopoChange \/ CheckupTimeout \/ NotifyRunCommand
           \/ NotifyKillCommand \/ NotifyBlockRestart \/ UNCHANGED vars
  <2>1. state' = state
    BY <1>8 DEF L3LinkDown, Renew, TopoChange, CheckupTimeout, NotifyRunCommand,
       NotifyKillCommand, NotifyBlockRestart, vars, ifVars
  <2> QED BY <2>1 DEF Moves
<1> QED BY <1>1, <1>2, <1>3, <1>4, <1>5, <1>6, <1>7, <1>8 DEF Next, Notify

\* A step of the handler is a step of the contract.
LEMMA StepRefines ==
  ASSUME IInv, IInv', Moves
  PROVE  Contract!Next
<1>1. state \in IfState /\ state' \in IfState
  BY DEF IInv, Core, TypeOK
<1>2. CASE mishap # {} \/ mishap' # {}
  <2>1. Contract!Fault
    BY <1>1, <1>2 DEF Contract!Fault, Moves, IfState
  <2> QED BY <2>1 DEF Contract!Next
<1>3. CASE mishap = {} /\ mishap' = {}
  <2>1. state' = "IFS_DOWN" => script' = "none" /\ task' = "none"
    BY <1>3 DEF IInv, DownIsClean
  <2>2. Contract!Step
    BY <1>1, <1>3, <2>1 DEF Contract!Step, Contract!Setup, Contract!Work, Contract!Teardown,
       Contract!Down, Contract!Restart, Contract!Wait, Contract!Active, Moves, IfState
  <2> QED BY <2>2 DEF Contract!Next
<1> QED BY <1>2, <1>3

\* The shell handler implements the contract of a protocol handler: the interface moves
\* as interface.c expects, and unless something failed no script or task works for an
\* interface that is reported down.
THEOREM ShellImplementsContract == Spec => ImplementsContract
<1>1. Init => Contract!Init
  BY DEF Init, Contract!Init
<1>2. IInv /\ IInv' /\ [Next]_vars => [Contract!Next]_Contract!vars
  BY NextMoves, StepRefines
<1> QED BY <1>1, <1>2, InductiveInvariant, PTL DEF Spec, ImplementsContract, Contract!Spec
=============================================================================
