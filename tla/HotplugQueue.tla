---------------------------- MODULE HotplugQueue ----------------------------
(***************************************************************************)
(* The hotplug event queue of interface-event.c.  netifd runs one hotplug  *)
(* script at a time; an interface has at most one event waiting in the     *)
(* FIFO and one being handled, later events overwrite or drop earlier      *)
(* ones, and a freed interface leaves the queue while its script may still *)
(* be running.                                                             *)
(*                                                                         *)
(* The events come from the state machine of interface.c, reduced to the   *)
(* transitions that emit an interface_event; everything a single call of   *)
(* interface_event() does to the queue happens in one step, because netifd *)
(* is single threaded.  IFEV_LINK_UP is absent: interface_queue_event()    *)
(* returns before it touches the queue.                                    *)
(***************************************************************************)
EXTENDS Integers, Sequences, Functions

CONSTANTS Iface,      \* the names an interface can be configured under
          NoIface     \* the NULL pointer

ASSUME NoIfaceAssumption == NoIface \notin Iface

\* enum interface_event, the members that are queued, and enum interface_state.
Event == {"IFEV_DOWN", "IFEV_UP", "IFEV_UP_FAILED", "IFEV_UPDATE"}
State == {"IFS_SETUP", "IFS_UP", "IFS_TEARDOWN", "IFS_DOWN"}

VARIABLES
  interfaces,   \* the interfaces that exist (struct interface allocated)
  state,        \* iface->state
  current,      \* the interface whose event is being handled, or NoIface
  current_ev,   \* its event
  pending,      \* the FIFO of interfaces with a waiting event
  hotplug_ev,   \* iface->hotplug_ev, the waiting event
  procs,        \* the number of hotplug scripts that run
  queued,       \* history: the last event other than an update, per interface
  delivered,    \* history: the last such event a script was started for
  lost          \* history: interfaces whose last such event fork() lost

ifaceVars == <<interfaces, state>>
queueVars == <<current, current_ev, pending, hotplug_ev, procs>>
histVars  == <<queued, delivered, lost>>
vars      == <<ifaceVars, queueVars, histVars>>

\* task.pending, the flag uloop keeps in the one struct uloop_process.
task_pending == procs > 0

TypeOK ==
  /\ interfaces \in SUBSET Iface
  /\ state \in [Iface -> State]
  /\ current \in Iface \cup {NoIface}
  /\ current_ev \in Event
  /\ pending \in Seq(Iface)
  /\ hotplug_ev \in [Iface -> Event]
  /\ procs \in Nat
  /\ queued \in [Iface -> Event \cup {"none"}]
  /\ delivered \in [Iface -> Event \cup {"none"}]
  /\ lost \in SUBSET Iface

Init ==
  /\ interfaces = {}
  /\ state = [i \in Iface |-> "IFS_DOWN"]
  /\ current = NoIface
  /\ current_ev = "IFEV_DOWN"
  /\ pending = <<>>
  /\ hotplug_ev = [i \in Iface |-> "IFEV_DOWN"]
  /\ procs = 0
  /\ queued = [i \in Iface |-> "none"]
  /\ delivered = [i \in Iface |-> "none"]
  /\ lost = {}
-----------------------------------------------------------------------------
(***************************************************************************)
(* call_hotplug() on queue q with waiting events ev while running scripts  *)
(* are alive.  run_cmd() forks; a failed fork calls task_complete(), which *)
(* takes the next entry: the first k entries are dropped and the one after *)
(* them, if there is one, runs.                                            *)
(***************************************************************************)
call_hotplug(q, ev, running) ==
  \E k \in 0..Len(q) :
    LET runs    == k < Len(q)
        dropped == {i \in Range(SubSeq(q, 1, k)) : ev[i] # "IFEV_UPDATE"}
        started == {i \in Iface : runs /\ q[k + 1] = i /\ ev[i] # "IFEV_UPDATE"}
    IN /\ pending' = IF runs THEN SubSeq(q, k + 2, Len(q)) ELSE <<>>
       /\ current' = IF runs THEN q[k + 1] ELSE NoIface
       /\ current_ev' = IF runs THEN ev[q[k + 1]]
                        ELSE IF k > 0 THEN ev[q[k]] ELSE current_ev
       /\ procs' = IF runs THEN running + 1 ELSE running
       /\ delivered' = [i \in Iface |-> IF i \in started THEN ev[i] ELSE delivered[i]]
       /\ lost' = (lost \cup dropped) \ started

\* Mutant: an update may displace a waiting ifup.
Overwrites_AnyUpdate(i, ev) ==
  /\ i \in Range(pending)
  /\ current = i => ev # "IFEV_UPDATE"

\* An event for i is waiting and ev takes its place.
Overwrites(i, ev) ==
  /\ i \in Range(pending)
  /\ IF current = i THEN ev # "IFEV_UPDATE"
     ELSE ~(hotplug_ev[i] = "IFEV_UP" /\ ev = "IFEV_UPDATE")

\* No event for i is waiting and ev is appended.
Appends(i, ev) ==
  /\ i \notin Range(pending)
  /\ current = i => (ev # current_ev \/ ev = "IFEV_UPDATE")

\* The waiting event of i and the FIFO once ev was overwritten, appended or dropped.
Waiting(i, ev) ==
  IF Overwrites(i, ev) \/ Appends(i, ev)
  THEN [hotplug_ev EXCEPT ![i] = ev] ELSE hotplug_ev

\* Mutant: list_add() instead of list_add_tail().
Fifo_Head(i, ev) == IF Appends(i, ev) THEN <<i>> \o pending ELSE pending

Fifo(i, ev) == IF Appends(i, ev) THEN Append(pending, i) ELSE pending

MayCall == ~task_pending /\ current = NoIface

(***************************************************************************)
(* interface_queue_event(): overwrite, append or drop the event, then      *)
(* start the next script unless one runs.                                  *)
(***************************************************************************)
interface_queue_event(i, ev) ==
  /\ hotplug_ev' = Waiting(i, ev)
  /\ queued' = IF ev = "IFEV_UPDATE" THEN queued ELSE [queued EXCEPT ![i] = ev]
  /\ \/ /\ MayCall
        /\ call_hotplug(Fifo(i, ev), Waiting(i, ev), procs)
     \/ /\ ~MayCall
        /\ pending' = Fifo(i, ev)
        /\ UNCHANGED <<current, current_ev, procs, delivered, lost>>

\* list_del_init() of the position i has in the FIFO.
Unlink(q, i) ==
  IF i \in Range(q)
  THEN LET at == CHOOSE n \in DOMAIN q : q[n] = i
       IN [n \in 1..(Len(q) - 1) |-> IF n < at THEN q[n] ELSE q[n + 1]]
  ELSE q

\* Mutant: the event being handled keeps its interface.
interface_dequeue_event_KeepsCurrent(i) ==
  /\ pending' = Unlink(pending, i)
  /\ UNCHANGED <<current, current_ev, procs>>

\* interface_dequeue_event(), on IFEV_FREE; a running script keeps running.
interface_dequeue_event(i) ==
  /\ current' = IF current = i THEN NoIface ELSE current
  /\ pending' = Unlink(pending, i)
  /\ UNCHANGED <<current_ev, procs>>

\* task_complete(): a script exits and the next one is started.
task_complete ==
  /\ procs > 0
  /\ call_hotplug(pending, hotplug_ev, procs - 1)
  /\ UNCHANGED <<ifaceVars, hotplug_ev, queued>>
-----------------------------------------------------------------------------
(***************************************************************************)
(* The transitions of an interface that exists.                            *)
(***************************************************************************)
Moves(i, from, to) ==
  /\ i \in interfaces
  /\ state[i] = from
  /\ state' = [state EXCEPT ![i] = to]
  /\ UNCHANGED interfaces

Silent(i, from, to) ==
  /\ Moves(i, from, to)
  /\ UNCHANGED <<queueVars, histVars>>

Emits(i, from, to, ev) ==
  /\ Moves(i, from, to)
  /\ interface_queue_event(i, ev)

\* interface_update() for a new node: calloc'ed, and DOWN.
Create(i) ==
  /\ i \notin interfaces
  /\ interfaces' = interfaces \cup {i}
  /\ UNCHANGED <<state, queueVars, histVars>>

\* __interface_set_up(): the protocol handler is asked to set the interface up.
SetUp(i) == Silent(i, "IFS_DOWN", "IFS_SETUP")

\* interface_proto_event_cb(), IFPEV_UP while setting up.
ProtoUp(i) == Emits(i, "IFS_SETUP", "IFS_UP", "IFEV_UP")

\* IFEV_UPDATE is only sent while the interface is up.
Update(i) == Emits(i, "IFS_UP", "IFS_UP", "IFEV_UPDATE")

\* __interface_set_down(): an interface that is up announces the teardown.
SetDown(i) ==
  \/ Emits(i, "IFS_UP", "IFS_TEARDOWN", "IFEV_DOWN")
  \/ Silent(i, "IFS_SETUP", "IFS_TEARDOWN")

\* interface_check_state() after a lost link: the teardown is not announced.
CheckState(i) ==
  \/ Silent(i, "IFS_UP", "IFS_TEARDOWN")
  \/ Silent(i, "IFS_SETUP", "IFS_TEARDOWN")

\* mark_interface_down(), from IFPEV_DOWN or a failed setup.
MarkDown(i) ==
  \/ Emits(i, "IFS_UP", "IFS_DOWN", "IFEV_DOWN")
  \/ Emits(i, "IFS_TEARDOWN", "IFS_DOWN", "IFEV_DOWN")
  \/ Emits(i, "IFS_SETUP", "IFS_DOWN", "IFEV_UP_FAILED")

\* interface_proto_event_cb(), IFPEV_LINK_LOST.
LinkLost(i) == Emits(i, "IFS_UP", "IFS_SETUP", "IFEV_DOWN")

\* interface_do_free(): only an interface that is down is freed.  What is said
\* of the name i afterwards is what interface_update() callocs for its next owner.
Free(i) ==
  /\ i \in interfaces
  /\ state[i] = "IFS_DOWN"
  /\ interface_dequeue_event(i)
  /\ interfaces' = interfaces \ {i}
  /\ hotplug_ev' = [hotplug_ev EXCEPT ![i] = "IFEV_DOWN"]
  /\ queued' = [queued EXCEPT ![i] = "none"]
  /\ delivered' = [delivered EXCEPT ![i] = "none"]
  /\ lost' = lost \ {i}
  /\ UNCHANGED state

Next ==
  \/ \E i \in Iface :
       \/ Create(i) \/ SetUp(i) \/ ProtoUp(i) \/ Update(i)
       \/ SetDown(i) \/ CheckState(i) \/ MarkDown(i) \/ LinkLost(i) \/ Free(i)
  \/ task_complete

Spec == Init /\ [][Next]_vars

\* A hotplug script exits: the fairness the queue relies on.
FairSpec == Spec /\ WF_vars(task_complete)
-----------------------------------------------------------------------------
(***************************************************************************)
(* Properties.                                                             *)
(***************************************************************************)

\* The queue never refers to memory that interface_do_free() released: an
\* interface that waits, and the one being handled, exist.
NoDangling ==
  /\ Range(pending) \subseteq interfaces
  /\ current # NoIface => current \in interfaces

\* An interface is linked into the FIFO at most once: its list head has room
\* for one position only.
OneEventWaits == IsInjective(pending)

\* task is a single struct uloop_process: two scripts never run together, not
\* even after the interface of the running one was freed.
OneScript == procs <= 1

\* Nothing waits while no script runs: the queue cannot stall.
NoStall == pending # <<>> => task_pending

\* The queue of interface-event.c is sound: it holds live interfaces, each at most once,
\* one script runs at a time, and an event that waits has a script whose end starts it.
QueueSound == TypeOK /\ NoDangling /\ OneEventWaits /\ OneScript /\ NoStall

\* The scripts have the last word right: once nothing waits for an interface,
\* the last event (other than an update) a script was started for is the last
\* one that happened, unless a fork failed.
LastWord ==
  \A i \in interfaces :
    i \notin Range(pending) /\ i \notin lost => delivered[i] = queued[i]

\* Handled FIFO, no interface waits for ever however often others change.
NoStarvation == \A i \in Iface : i \in Range(pending) ~> i \notin Range(pending)
=============================================================================
