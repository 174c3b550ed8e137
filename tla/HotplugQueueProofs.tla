-------------------------- MODULE HotplugQueueProofs --------------------------
(***************************************************************************)
(* The safety properties of HotplugQueue hold for any set of interfaces.   *)
(*                                                                         *)
(* Only OneScript is inductive by itself.  NoStall needs to know that the  *)
(* event being handled has its script running; LastWord that an event that *)
(* waits tells what happened last, or is an update after that was told.    *)
(***************************************************************************)
EXTENDS HotplugQueue, SequenceTheorems, TLAPS

\* The interface whose event is being handled has a script, and left the FIFO
\* when its script was started.
CurrentHasScript == current # NoIface => procs > 0

\* Nothing is remembered of a name no interface has.
GoneIsClean ==
  \A i \in Iface : i \notin interfaces =>
    state[i] = "IFS_DOWN" /\ queued[i] = "none" /\ delivered[i] = "none" /\ i \notin lost

\* What the scripts were told of i, or will be told by the event that waits.
Told(i) == delivered[i] = queued[i] \/ i \in lost
Tells(i) ==
  \/ i \notin Range(pending) /\ Told(i)
  \/ i \in Range(pending) /\ hotplug_ev[i] = queued[i]
  \/ i \in Range(pending) /\ hotplug_ev[i] = "IFEV_UPDATE" /\ Told(i)

WordInv ==
  \A i \in Iface :
    /\ state[i] = "IFS_UP" => queued[i] = "IFEV_UP"
    /\ queued[i] # "IFEV_UPDATE"
    /\ Tells(i)
    /\ current = i /\ current_ev # "IFEV_UPDATE" => delivered[i] = current_ev /\ i \notin lost

QueueInv ==
  /\ TypeOK /\ NoDangling /\ OneEventWaits /\ OneScript /\ NoStall /\ CurrentHasScript

IInv == QueueInv /\ GoneIsClean /\ WordInv
-----------------------------------------------------------------------------
(***************************************************************************)
(* What the operations do to a FIFO in which no interface occurs twice.    *)
(***************************************************************************)

\* list_add_tail() of an interface that is not linked.
LEMMA AppendFifo ==
  ASSUME NEW q \in Seq(Iface), IsInjective(q), NEW i \in Iface, i \notin Range(q)
  PROVE  /\ Append(q, i) \in Seq(Iface)
         /\ IsInjective(Append(q, i))
         /\ Range(Append(q, i)) = Range(q) \cup {i}
<1>1. /\ Append(q, i) \in Seq(Iface)
      /\ Len(Append(q, i)) = Len(q) + 1
      /\ DOMAIN Append(q, i) = 1..(Len(q) + 1)
      /\ \A n \in 1..Len(q) : Append(q, i)[n] = q[n]
      /\ Append(q, i)[Len(q) + 1] = i
  BY AppendProperties
<1>2. DOMAIN q = 1..Len(q) /\ Len(q) \in Nat
  OBVIOUS
<1>3. Range(Append(q, i)) = Range(q) \cup {i}
  BY <1>1, <1>2 DEF Range
<1>4. IsInjective(Append(q, i))
  BY <1>1, <1>2 DEF IsInjective, Range
<1> QED BY <1>1, <1>3, <1>4

\* list_del_init() of an interface that is linked or not.
LEMMA UnlinkFifo ==
  ASSUME NEW q \in Seq(Iface), IsInjective(q), NEW i \in Iface
  PROVE  /\ Unlink(q, i) \in Seq(Iface)
         /\ IsInjective(Unlink(q, i))
         /\ Range(Unlink(q, i)) = Range(q) \ {i}
         /\ Unlink(q, i) # <<>> => q # <<>>
<1>1. CASE i \notin Range(q)
  BY <1>1 DEF Unlink
<1>2. CASE i \in Range(q)
  <2> DEFINE at == CHOOSE n \in DOMAIN q : q[n] = i
             u  == [n \in 1..(Len(q) - 1) |-> IF n < at THEN q[n] ELSE q[n + 1]]
  <2>1. DOMAIN q = 1..Len(q) /\ Len(q) \in Nat /\ \A n \in 1..Len(q) : q[n] \in Iface
    OBVIOUS
  <2>2. at \in 1..Len(q) /\ q[at] = i
    BY <1>2, <2>1 DEF Range
  <2>3. Unlink(q, i) = u
    BY <1>2 DEF Unlink
  <2> HIDE DEF at
  <2>4. /\ Len(q) - 1 \in Nat
        /\ DOMAIN u = 1..(Len(q) - 1)
        /\ \A n \in 1..(Len(q) - 1) : u[n] = IF n < at THEN q[n] ELSE q[n + 1]
    BY <2>1, <2>2
  <2> HIDE DEF u
  <2>5. \A n \in 1..(Len(q) - 1) : u[n] \in Iface
    BY <2>1, <2>2, <2>4
  <2>6. u \in Seq(Iface)
    <3>1. u = [n \in 1..(Len(q) - 1) |-> u[n]]
      BY <2>4 DEF u
    <3> QED BY <3>1, <2>4, <2>5
  <2>7. IsInjective(u)
    BY <2>1, <2>2, <2>4 DEF IsInjective
  <2>8. ASSUME NEW x \in Range(u) PROVE x \in Range(q) \ {i}
    BY <2>1, <2>2, <2>4, <2>8 DEF Range, IsInjective
  <2>9. ASSUME NEW x \in Range(q), x # i PROVE x \in Range(u)
    <3>1. PICK m \in 1..Len(q) : q[m] = x
      BY <2>1, <2>9 DEF Range
    <3>2. CASE m < at
      <4>1. m \in 1..(Len(q) - 1) /\ u[m] = x
        BY <3>1, <3>2, <2>1, <2>2, <2>4
      <4> QED BY <4>1, <2>4 DEF Range
    <3>3. CASE m > at
      <4>1. m - 1 \in 1..(Len(q) - 1) /\ u[m - 1] = x
        BY <3>1, <3>3, <2>1, <2>2, <2>4
      <4> QED BY <4>1, <2>4 DEF Range
    <3> QED BY <3>1, <3>2, <3>3, <2>2, <2>9
  <2>10. q # <<>>
    BY <2>1, <2>2
  <2> QED BY <2>3, <2>6, <2>7, <2>8, <2>9, <2>10
<1> QED BY <1>1, <1>2

(***************************************************************************)
(* call_hotplug(): the first k of q are dropped, the next one runs and the *)
(* others wait.                                                            *)
(***************************************************************************)
LEMMA CallHotplug ==
  ASSUME TypeOK, NEW q \in Seq(Iface), IsInjective(q),
         NEW ev \in [Iface -> Event], NEW running \in Nat,
         call_hotplug(q, ev, running)
  PROVE  /\ pending' \in Seq(Iface) /\ IsInjective(pending')
         /\ Range(pending') \subseteq Range(q)
         /\ current' \in Range(q) \cup {NoIface}
         /\ current_ev' \in Event
         /\ procs' \in {running, running + 1}
         /\ pending' # <<>> \/ current' # NoIface => procs' = running + 1
         /\ delivered' \in [Iface -> Event \cup {"none"}]
         /\ lost' \in SUBSET Iface
         /\ \A i \in Iface :
              /\ \/ i \notin Range(q) \/ i \in Range(pending') \/ ev[i] = "IFEV_UPDATE"
                 => delivered'[i] = delivered[i] /\ (i \in lost' <=> i \in lost)
              /\ i \in Range(q) /\ i \notin Range(pending') /\ ev[i] # "IFEV_UPDATE"
                 => delivered'[i] = ev[i] \/ i \in lost'
              /\ current' = i => current_ev' = ev[i]
              /\ current' = i /\ ev[i] # "IFEV_UPDATE" => delivered'[i] = ev[i] /\ i \notin lost'
<1> DEFINE dropped(k) == {i \in Range(SubSeq(q, 1, k)) : ev[i] # "IFEV_UPDATE"}
           started(k) == {i \in Iface : k < Len(q) /\ q[k + 1] = i /\ ev[i] # "IFEV_UPDATE"}
<1>1. PICK k \in 0..Len(q) :
        /\ pending' = IF k < Len(q) THEN SubSeq(q, k + 2, Len(q)) ELSE <<>>
        /\ current' = IF k < Len(q) THEN q[k + 1] ELSE NoIface
        /\ current_ev' = IF k < Len(q) THEN ev[q[k + 1]]
                         ELSE IF k > 0 THEN ev[q[k]] ELSE current_ev
        /\ procs' = IF k < Len(q) THEN running + 1 ELSE running
        /\ delivered' = [i \in Iface |-> IF i \in started(k) THEN ev[i] ELSE delivered[i]]
        /\ lost' = (lost \cup dropped(k)) \ started(k)
  BY DEF call_hotplug
<1>2. DOMAIN q = 1..Len(q) /\ Len(q) \in Nat /\ \A n \in 1..Len(q) : q[n] \in Iface
  OBVIOUS
<1>3. Range(SubSeq(q, 1, k)) = {q[n] : n \in 1..k}
  <2>1. /\ SubSeq(q, 1, k) \in Seq(Iface)
        /\ Len(SubSeq(q, 1, k)) = k
        /\ \A n \in 1..k : SubSeq(q, 1, k)[n] = q[n]
    BY <1>2, SubSeqProperties
  <2>2. DOMAIN SubSeq(q, 1, k) = 1..k
    BY <2>1
  <2> QED BY <2>1, <2>2 DEF Range
<1>4. /\ pending' \in Seq(Iface) /\ IsInjective(pending')
      /\ Range(pending') = {q[n] : n \in (k + 2)..Len(q)}
  <2>1. CASE k < Len(q)
    <3>1. /\ pending' \in Seq(Iface)
          /\ DOMAIN pending' = 1..(Len(q) - k - 1)
          /\ \A n \in 1..(Len(q) - k - 1) : pending'[n] = q[k + 1 + n]
      <4>1. /\ pending' = SubSeq(q, k + 2, Len(q))
            /\ k + 2 \in Int /\ \A n \in (k + 2)..Len(q) : q[n] \in Iface
        BY <1>1, <1>2, <2>1
      <4>2. /\ pending' \in Seq(Iface)
            /\ Len(pending') = IF k + 2 <= Len(q) THEN Len(q) - (k + 2) + 1 ELSE 0
            /\ \A n \in 1..(Len(q) - (k + 2) + 1) : pending'[n] = q[k + 2 + n - 1]
        <5>1. \A m, n \in Int : (\A x \in m..n : q[x] \in Iface) =>
                /\ SubSeq(q, m, n) \in Seq(Iface)
                /\ Len(SubSeq(q, m, n)) = IF m <= n THEN n - m + 1 ELSE 0
                /\ \A x \in 1..(n - m + 1) : SubSeq(q, m, n)[x] = q[m + x - 1]
          BY SubSeqProperties
        <5>2. Len(q) \in Int
          BY <1>2
        <5> QED BY <5>1, <5>2, <4>1
      <4>3. Len(pending') = Len(q) - k - 1
        <5>1. ASSUME NEW L \in Nat, NEW m \in 0..L, m < L
              PROVE  (IF m + 2 <= L THEN L - (m + 2) + 1 ELSE 0) = L - m - 1
          BY <5>1
        <5> QED BY <4>2, <1>2, <2>1, <5>1
      <4> QED BY <4>2, <4>3, <1>2, <2>1
    <3>2. IsInjective(pending')
      <4> SUFFICES ASSUME NEW a \in 1..(Len(q) - k - 1), NEW b \in 1..(Len(q) - k - 1),
                          q[k + 1 + a] = q[k + 1 + b]
                   PROVE  a = b
        BY <3>1 DEF IsInjective
      <4>1. k + 1 + a \in 1..Len(q) /\ k + 1 + b \in 1..Len(q)
        BY <1>2
      <4>2. k + 1 + a = k + 1 + b
        BY <4>1, <1>2 DEF IsInjective
      <4> QED BY <4>2
    <3>3. ASSUME NEW n \in (k + 2)..Len(q) PROVE q[n] \in Range(pending')
      <4>1. n - k - 1 \in 1..(Len(q) - k - 1) /\ pending'[n - k - 1] = q[n]
        BY <3>1, <1>2
      <4> QED BY <4>1, <3>1 DEF Range
    <3>4. ASSUME NEW n \in DOMAIN pending'
          PROVE k + 1 + n \in (k + 2)..Len(q) /\ pending'[n] = q[k + 1 + n]
      BY <3>1, <1>2
    <3> QED BY <3>1, <3>2, <3>3, <3>4 DEF Range
  <2>2. CASE k = Len(q)
    <3>1. pending' = <<>>
      BY <1>1, <2>2, <1>2
    <3>2. Range(pending') = {} /\ IsInjective(pending') /\ pending' \in Seq(Iface)
      BY <3>1 DEF Range, IsInjective
    <3>3. (k + 2)..Len(q) = {}
      BY <2>2, <1>2
    <3> QED BY <3>2, <3>3
  <2>3. k < Len(q) \/ k = Len(q)
    <3>1. \A L \in Nat : \A m \in 0..L : m < L \/ m = L
      OBVIOUS
    <3> QED BY <3>1, <1>2
  <2> QED BY <2>1, <2>2, <2>3
<1>5. Range(q) = {q[n] : n \in 1..Len(q)}
  BY <1>2 DEF Range
<1>6. \A i \in Iface : i \in started(k) =>
        i \notin Range(pending') /\ i \in Range(q) /\ current' = i
  <2> SUFFICES ASSUME NEW i \in Iface, i \in started(k)
               PROVE  i \notin Range(pending') /\ i \in Range(q) /\ current' = i
    OBVIOUS
  <2>1. k + 1 \in 1..Len(q) /\ q[k + 1] = i /\ current' = i
    BY <1>1, <1>2
  <2>2. \A n \in (k + 2)..Len(q) : q[n] # i
    BY <2>1, <1>2 DEF IsInjective
  <2> QED BY <2>1, <2>2, <1>4, <1>5
<1>7. \A i \in Iface : i \in dropped(k) =>
        i \notin Range(pending') /\ i \in Range(q) /\ ev[i] # "IFEV_UPDATE"
  BY <1>1, <1>2, <1>3, <1>4, <1>5 DEF IsInjective
<1>8. \A i \in Iface : i \in Range(q) /\ i \notin Range(pending') /\ ev[i] # "IFEV_UPDATE"
        => i \in started(k) \/ i \in dropped(k)
  <2> SUFFICES ASSUME NEW i \in Iface, i \in Range(q), i \notin Range(pending'),
                      ev[i] # "IFEV_UPDATE"
               PROVE  i \in started(k) \/ i \in dropped(k)
    OBVIOUS
  <2>1. PICK n \in 1..Len(q) : q[n] = i
    BY <1>5
  <2>2. n \notin (k + 2)..Len(q)
    BY <2>1, <1>4
  <2>3. CASE n = k + 1
    BY <2>1, <2>3, <1>2
  <2>4. CASE n \in 1..k
    BY <2>1, <2>4, <1>3
  <2> QED BY <2>2, <2>3, <2>4, <1>2
<1>9. /\ pending' # <<>> \/ current' # NoIface => procs' = running + 1
      /\ procs' \in {running, running + 1}
      /\ current' \in Range(q) \cup {NoIface}
      /\ current_ev' \in Event
      /\ \A i \in Iface : current' = i => current_ev' = ev[i]
      /\ \A i \in Iface : current' = i /\ ev[i] # "IFEV_UPDATE" => i \in started(k)
  BY <1>1, <1>2, <1>5, NoIfaceAssumption DEF TypeOK
<1>10. /\ delivered' \in [Iface -> Event \cup {"none"}]
       /\ lost' \in SUBSET Iface
       /\ \A i \in Iface : i \in started(k) => ev[i] # "IFEV_UPDATE"
  <2>1. dropped(k) \subseteq Iface
    BY <1>2, <1>3
  <2> QED BY <1>1, <2>1 DEF TypeOK
<1>11. \A i \in Iface : /\ delivered'[i] = IF i \in started(k) THEN ev[i] ELSE delivered[i]
                        /\ i \in lost' <=> (i \in lost \/ i \in dropped(k)) /\ i \notin started(k)
  BY <1>1
<1> HIDE DEF started, dropped
<1>12. Range(pending') \subseteq Range(q)
  BY <1>4, <1>5, <1>1, <1>2
<1> QED BY <1>4, <1>6, <1>7, <1>8, <1>9, <1>10, <1>11, <1>12
-----------------------------------------------------------------------------
(***************************************************************************)
(* One call of interface_queue_event().                                    *)
(***************************************************************************)

\* The FIFO and the waiting events after the new event was overwritten, appended
\* or dropped, and before a script is started.
LEMMA FifoProperties ==
  ASSUME QueueInv, NEW i \in interfaces, NEW ev \in Event
  PROVE  /\ Fifo(i, ev) \in Seq(Iface) /\ IsInjective(Fifo(i, ev))
         /\ Range(Fifo(i, ev)) = IF Appends(i, ev) THEN Range(pending) \cup {i} ELSE Range(pending)
         /\ Range(Fifo(i, ev)) \subseteq interfaces
         /\ Waiting(i, ev) \in [Iface -> Event]
<1>1. i \in Iface
  BY DEF QueueInv, TypeOK
<1>2. CASE Appends(i, ev)
  <2>1. i \notin Range(pending)
    BY <1>2 DEF Appends
  <2> QED BY <1>1, <1>2, <2>1, AppendFifo
          DEF Fifo, Waiting, QueueInv, TypeOK, OneEventWaits, NoDangling
<1>3. CASE ~Appends(i, ev)
  BY <1>1, <1>3 DEF Fifo, Waiting, QueueInv, TypeOK, OneEventWaits, NoDangling
<1> QED BY <1>2, <1>3

\* interface_queue_event() keeps the FIFO sound.
LEMMA QueueEvent ==
  ASSUME QueueInv, NEW i \in interfaces, NEW ev \in Event,
         interface_queue_event(i, ev),
         interfaces' = interfaces, state' \in [Iface -> State]
  PROVE  QueueInv'
<1> USE DEF QueueInv
<1>1. i \in Iface
  BY DEF TypeOK
<1>2. hotplug_ev' \in [Iface -> Event] /\ queued' \in [Iface -> Event \cup {"none"}]
  BY <1>1, FifoProperties DEF interface_queue_event, TypeOK
<1>3. CASE MayCall /\ call_hotplug(Fifo(i, ev), Waiting(i, ev), procs)
  <2>1. procs = 0
    BY <1>3 DEF MayCall, task_pending, TypeOK
  <2>2. /\ pending' \in Seq(Iface) /\ IsInjective(pending')
        /\ Range(pending') \subseteq Range(Fifo(i, ev))
        /\ current' \in Range(Fifo(i, ev)) \cup {NoIface}
        /\ current_ev' \in Event
        /\ procs' \in {procs, procs + 1}
        /\ pending' # <<>> \/ current' # NoIface => procs' = procs + 1
        /\ delivered' \in [Iface -> Event \cup {"none"}]
        /\ lost' \in SUBSET Iface
    BY <1>3, FifoProperties, CallHotplug DEF TypeOK
  <2>3. Range(Fifo(i, ev)) \subseteq interfaces /\ interfaces \subseteq Iface
    BY FifoProperties DEF TypeOK
  <2>4. TypeOK'
    BY <1>2, <2>1, <2>2, <2>3 DEF TypeOK
  <2>5. NoDangling'
    BY <2>2, <2>3 DEF NoDangling
  <2>6. OneScript' /\ NoStall' /\ CurrentHasScript'
    BY <2>1, <2>2 DEF OneScript, NoStall, CurrentHasScript, task_pending
  <2> QED BY <2>2, <2>4, <2>5, <2>6 DEF OneEventWaits
<1>4. CASE ~MayCall /\ pending' = Fifo(i, ev)
           /\ UNCHANGED <<current, current_ev, procs, delivered, lost>>
  <2>1. procs > 0
    BY <1>4 DEF MayCall, task_pending, CurrentHasScript
  <2>2. TypeOK' /\ OneEventWaits'
    BY <1>2, <1>4, FifoProperties DEF TypeOK, OneEventWaits
  <2>3. NoDangling'
    BY <1>4, FifoProperties DEF NoDangling
  <2>4. OneScript' /\ NoStall' /\ CurrentHasScript'
    BY <1>4, <2>1 DEF OneScript, NoStall, CurrentHasScript, task_pending
  <2> QED BY <2>2, <2>3, <2>4
<1> QED BY <1>3, <1>4 DEF interface_queue_event

\* So does the end of a script, which starts the next one.
LEMMA TaskComplete ==
  ASSUME QueueInv, task_complete
  PROVE  QueueInv'
<1> USE DEF QueueInv
<1>1. /\ procs \in Nat /\ procs > 0 /\ procs - 1 \in Nat /\ procs <= 1
      /\ call_hotplug(pending, hotplug_ev, procs - 1)
      /\ UNCHANGED <<interfaces, state, hotplug_ev, queued>>
  BY DEF task_complete, TypeOK, OneScript, ifaceVars
<1>2. /\ pending' \in Seq(Iface) /\ IsInjective(pending')
      /\ Range(pending') \subseteq Range(pending)
      /\ current' \in Range(pending) \cup {NoIface}
      /\ current_ev' \in Event
      /\ procs' \in {procs - 1, procs - 1 + 1}
      /\ pending' # <<>> \/ current' # NoIface => procs' = procs - 1 + 1
      /\ delivered' \in [Iface -> Event \cup {"none"}]
      /\ lost' \in SUBSET Iface
  BY <1>1, CallHotplug DEF TypeOK, OneEventWaits
<1>3. TypeOK'
  BY <1>1, <1>2 DEF TypeOK, NoDangling
<1>4. NoDangling'
  BY <1>1, <1>2 DEF NoDangling
<1>5. OneScript' /\ NoStall' /\ CurrentHasScript'
  BY <1>1, <1>2 DEF OneScript, NoStall, CurrentHasScript, task_pending
<1> QED BY <1>2, <1>3, <1>4, <1>5 DEF OneEventWaits

\* And so does an interface that is freed, even while its script runs.
LEMMA FreeQueue ==
  ASSUME QueueInv, NEW i \in Iface, Free(i)
  PROVE  QueueInv'
<1> USE DEF QueueInv
<1>1. /\ Unlink(pending, i) \in Seq(Iface)
      /\ IsInjective(Unlink(pending, i))
      /\ Range(Unlink(pending, i)) = Range(pending) \ {i}
      /\ Unlink(pending, i) # <<>> => pending # <<>>
  BY UnlinkFifo DEF TypeOK, OneEventWaits
<1>2. /\ pending' = Unlink(pending, i) /\ procs' = procs /\ current_ev' = current_ev
      /\ current' = IF current = i THEN NoIface ELSE current
      /\ interfaces' = interfaces \ {i} /\ state' = state
  BY DEF Free, interface_dequeue_event
<1>3. TypeOK'
  BY <1>1, <1>2 DEF TypeOK, Free, Event
<1>4. NoDangling'
  BY <1>1, <1>2 DEF NoDangling
<1>5. OneScript' /\ NoStall' /\ CurrentHasScript'
  BY <1>1, <1>2 DEF OneScript, NoStall, CurrentHasScript, task_pending
<1> QED BY <1>1, <1>2, <1>3, <1>4, <1>5 DEF OneEventWaits
-----------------------------------------------------------------------------
(***************************************************************************)
(* Every step is one of five kinds.                                        *)
(***************************************************************************)

\* A transition of i that announces ev.  IFEV_UPDATE is sent only while i stays up,
\* and i comes up only with IFEV_UP.
Announces(i, ev) ==
  /\ i \in interfaces
  /\ UNCHANGED interfaces
  /\ \E to \in State : /\ state' = [state EXCEPT ![i] = to]
                       /\ ev = "IFEV_UPDATE" => state[i] = "IFS_UP"
                       /\ to = "IFS_UP" => ev \in {"IFEV_UP", "IFEV_UPDATE"}
  /\ interface_queue_event(i, ev)

\* A transition of i the queue does not hear of; it does not bring i up.
Quiet(i) ==
  /\ i \in interfaces
  /\ UNCHANGED interfaces
  /\ \E to \in State \ {"IFS_UP"} : state' = [state EXCEPT ![i] = to]
  /\ UNCHANGED <<queueVars, histVars>>

\* Every step announces an event, changes a state in silence, creates or frees an
\* interface, or ends a script.
LEMMA StepKinds ==
  ASSUME TypeOK, Next
  PROVE  \/ \E i \in Iface, ev \in Event : Announces(i, ev)
         \/ \E i \in Iface : Quiet(i) \/ Create(i) \/ Free(i)
         \/ task_complete
<1>1. CASE task_complete
  BY <1>1
<1>2. ASSUME NEW i \in Iface,
             Create(i) \/ Free(i)
      PROVE  \E j \in Iface : Create(j) \/ Free(j)
  BY <1>2
<1>3. ASSUME NEW i \in Iface, NEW from \in State, NEW to \in State \ {"IFS_UP"}, Silent(i, from, to)
      PROVE  Quiet(i)
  BY <1>3 DEF Silent, Moves, Quiet
<1>4. ASSUME NEW i \in Iface, SetUp(i) \/ CheckState(i) \/ Silent(i, "IFS_SETUP", "IFS_TEARDOWN")
      PROVE  Quiet(i)
  BY <1>3, <1>4 DEF SetUp, CheckState, State
<1>5. ASSUME NEW i \in Iface,
             \/ ProtoUp(i) \/ Update(i) \/ MarkDown(i) \/ LinkLost(i)
             \/ Emits(i, "IFS_UP", "IFS_TEARDOWN", "IFEV_DOWN")
      PROVE  \E ev \in Event : Announces(i, ev)
  <2>1. ASSUME NEW from \in State, NEW to \in State, NEW ev \in Event,
               Emits(i, from, to, ev),
               to = "IFS_UP" => ev \in {"IFEV_UP", "IFEV_UPDATE"},
               ev = "IFEV_UPDATE" => from = "IFS_UP"
        PROVE  Announces(i, ev)
    BY <2>1 DEF Emits, Moves, Announces
  <2> QED BY <1>5, <2>1 DEF ProtoUp, Update, MarkDown, LinkLost, State, Event
<1> QED BY <1>1, <1>2, <1>4, <1>5 DEF Next, SetDown

\* The FIFO is sound: nothing dangles, nothing waits twice or without a script
\* that runs, and no two scripts run at the same time.
LEMMA QueueInvStep ==
  ASSUME QueueInv, [Next]_vars
  PROVE  QueueInv'
<1>1. ASSUME NEW i \in Iface, NEW ev \in Event, Announces(i, ev) PROVE QueueInv'
  <2>1. state' \in [Iface -> State]
    BY <1>1 DEF Announces, QueueInv, TypeOK
  <2> QED BY <1>1, <2>1, QueueEvent DEF Announces
<1>2. ASSUME NEW i \in Iface, Quiet(i) \/ Create(i) PROVE QueueInv'
  <2>1. /\ interfaces \subseteq interfaces' /\ interfaces' \subseteq Iface
        /\ state' \in [Iface -> State]
        /\ UNCHANGED <<queueVars, histVars>>
    BY <1>2 DEF Quiet, Create, QueueInv, TypeOK
  <2> QED BY <2>1 DEF QueueInv, TypeOK, NoDangling, OneEventWaits, OneScript, NoStall,
              CurrentHasScript, task_pending, queueVars, histVars
<1>3. CASE UNCHANGED vars
  BY <1>3 DEF QueueInv, TypeOK, NoDangling, OneEventWaits, OneScript, NoStall,
     CurrentHasScript, task_pending, vars, ifaceVars, queueVars, histVars
<1>4. CASE Next
  BY <1>1, <1>2, <1>4, StepKinds, FreeQueue, TaskComplete DEF QueueInv
<1> QED BY <1>3, <1>4

\* The empty queue is sound.
LEMMA QueueInvInit == Init => QueueInv
<1> SUFFICES ASSUME Init PROVE QueueInv
  OBVIOUS
<1>1. pending = <<>> /\ Range(pending) = {} /\ IsInjective(pending)
  BY DEF Init, Range, IsInjective
<1>2. TypeOK
  BY DEF Init, TypeOK, State, Event
<1> QED BY <1>1, <1>2 DEF Init, QueueInv, NoDangling, OneEventWaits, OneScript, NoStall,
           CurrentHasScript

\* The type invariant of the event queue, for any set of interfaces.
THEOREM TypeCorrect == Spec => []TypeOK
<1>1. QueueInv => TypeOK
  BY DEF QueueInv
<1> QED BY <1>1, QueueInvInit, QueueInvStep, PTL DEF Spec

\* interface-event.c never uses an interface after interface_do_free(): neither the
\* FIFO nor the event being handled refers to one that is gone.
THEOREM NeverDangling == Spec => []NoDangling
<1>1. QueueInv => NoDangling
  BY DEF QueueInv
<1> QED BY <1>1, QueueInvInit, QueueInvStep, PTL DEF Spec

\* One list head and one struct uloop_process are enough: an interface waits once,
\* and one script runs.
THEOREM OneAtATime == Spec => [](OneEventWaits /\ OneScript)
<1>1. QueueInv => OneEventWaits /\ OneScript
  BY DEF QueueInv
<1> QED BY <1>1, QueueInvInit, QueueInvStep, PTL DEF Spec

\* An event that waits has a script before it whose end starts the next one.
THEOREM NeverStalls == Spec => []NoStall
<1>1. QueueInv => NoStall
  BY DEF QueueInv
<1> QED BY <1>1, QueueInvInit, QueueInvStep, PTL DEF Spec

\* The queue is sound for any set of interfaces: it refers to live ones, each once, one
\* hotplug script runs at a time, and its end starts the next event that waits.
THEOREM QueueIsSound == Spec => []QueueSound
<1>1. QueueInv => QueueSound
  BY DEF QueueInv, QueueSound
<1> QED BY <1>1, QueueInvInit, QueueInvStep, PTL DEF Spec
-----------------------------------------------------------------------------
(***************************************************************************)
(* LastWord.                                                               *)
(***************************************************************************)

\* Tells(i) for a FIFO q, waiting events ev and last events last that are about to
\* be passed to call_hotplug().
WillTell(q, ev, last, i) ==
  LET told == delivered[i] = last[i] \/ i \in lost
  IN \/ i \notin Range(q) /\ told
     \/ i \in Range(q) /\ ev[i] = last[i]
     \/ i \in Range(q) /\ ev[i] = "IFEV_UPDATE" /\ told

HandledTold(i) ==
  current = i /\ current_ev # "IFEV_UPDATE" => delivered[i] = current_ev /\ i \notin lost

\* call_hotplug() delivers the word it takes from the queue, or fork() loses it.
LEMMA CallWord ==
  ASSUME TypeOK, NEW q \in Seq(Iface), IsInjective(q),
         NEW ev \in [Iface -> Event], NEW running \in Nat,
         call_hotplug(q, ev, running), hotplug_ev' = ev,
         NEW i \in Iface, WillTell(q, ev, queued', i), queued'[i] # "IFEV_UPDATE"
  PROVE  Tells(i)' /\ HandledTold(i)'
<1>1. /\ Range(pending') \subseteq Range(q)
      /\ \/ i \notin Range(q) \/ i \in Range(pending') \/ ev[i] = "IFEV_UPDATE"
         => delivered'[i] = delivered[i] /\ (i \in lost' <=> i \in lost)
      /\ i \in Range(q) /\ i \notin Range(pending') /\ ev[i] # "IFEV_UPDATE"
         => delivered'[i] = ev[i] \/ i \in lost'
      /\ current' = i => current_ev' = ev[i]
      /\ current' = i /\ ev[i] # "IFEV_UPDATE" => delivered'[i] = ev[i] /\ i \notin lost'
  BY CallHotplug
<1>2. HandledTold(i)'
  BY <1>1 DEF HandledTold
<1>3. Tells(i)'
  <2>1. CASE i \in Range(pending')
    BY <1>1, <2>1 DEF Tells, Told, WillTell
  <2>2. CASE i \notin Range(pending')
    BY <1>1, <2>2 DEF Tells, Told, WillTell
  <2> QED BY <2>1, <2>2
<1> QED BY <1>2, <1>3

\* Overwriting, appending and dropping an event keep the word.
LEMMA QueueWord ==
  ASSUME IInv, NEW i \in interfaces, NEW ev \in Event,
         interface_queue_event(i, ev), ev = "IFEV_UPDATE" => state[i] = "IFS_UP",
         NEW j \in Iface
  PROVE  WillTell(Fifo(i, ev), Waiting(i, ev), queued', j)
<1> DEFINE q == Fifo(i, ev)
           w == Waiting(i, ev)
<1>1. /\ i \in Iface
      /\ queued \in [Iface -> Event \cup {"none"}] /\ hotplug_ev \in [Iface -> Event]
      /\ Tells(j) /\ Tells(i) /\ (state[i] = "IFS_UP" => queued[i] = "IFEV_UP")
      /\ HandledTold(i)
  BY DEF IInv, QueueInv, TypeOK, WordInv, HandledTold
<1>2. /\ queued' = IF ev = "IFEV_UPDATE" THEN queued ELSE [queued EXCEPT ![i] = ev]
      /\ Range(q) = IF Appends(i, ev) THEN Range(pending) \cup {i} ELSE Range(pending)
  BY FifoProperties DEF interface_queue_event, IInv
<1>3. CASE j # i
  <2>1. queued'[j] = queued[j] /\ w[j] = hotplug_ev[j] /\ (j \in Range(q) <=> j \in Range(pending))
    BY <1>1, <1>2, <1>3 DEF Waiting
  <2> QED BY <2>1, <1>1 DEF WillTell, Tells, Told
<1>4. CASE j = i /\ Overwrites(i, ev)
  <2>1. i \in Range(pending) /\ i \in Range(q) /\ w[i] = ev
    BY <1>1, <1>2, <1>4 DEF Overwrites, Appends, Waiting
  <2>2. CASE ev # "IFEV_UPDATE"
    <3>1. queued'[i] = ev
      BY <1>1, <1>2, <2>2
    <3> QED BY <1>4, <2>1, <3>1 DEF WillTell
  <2>3. CASE ev = "IFEV_UPDATE"
    <3>1. queued' = queued /\ queued[i] = "IFEV_UP" /\ hotplug_ev[i] # "IFEV_UP"
      BY <1>1, <1>2, <1>4, <2>3 DEF Overwrites
    <3>2. Told(i)
      BY <1>1, <2>1, <3>1 DEF Tells
    <3> QED BY <1>4, <2>1, <2>3, <3>1, <3>2 DEF WillTell, Told
  <2> QED BY <2>2, <2>3
<1>5. CASE j = i /\ Appends(i, ev)
  <2>1. i \notin Range(pending) /\ i \in Range(q) /\ w[i] = ev /\ Told(i)
    BY <1>1, <1>2, <1>5 DEF Appends, Waiting, Tells
  <2>2. CASE ev # "IFEV_UPDATE"
    <3>1. queued'[i] = ev
      BY <1>1, <1>2, <2>2
    <3> QED BY <1>5, <2>1, <3>1 DEF WillTell
  <2>3. CASE ev = "IFEV_UPDATE"
    BY <1>2, <1>5, <2>1, <2>3 DEF WillTell, Told
  <2> QED BY <2>2, <2>3
<1>6. CASE j = i /\ ~Overwrites(i, ev) /\ ~Appends(i, ev)
  <2>1. w = hotplug_ev /\ Range(q) = Range(pending)
    BY <1>2, <1>6 DEF Waiting
  <2>2. CASE i \in Range(pending)
    <3>1. queued' = queued
      BY <1>2, <1>6, <2>2 DEF Overwrites
    <3> QED BY <1>1, <1>6, <2>1, <3>1 DEF WillTell, Tells, Told
  <2>3. CASE i \notin Range(pending)
    <3>1. current = i /\ ev = current_ev /\ ev # "IFEV_UPDATE"
      BY <1>6, <2>3 DEF Appends
    <3>2. delivered[i] = queued'[i]
      BY <1>1, <1>2, <3>1 DEF HandledTold
    <3> QED BY <1>6, <2>1, <2>3, <3>2 DEF WillTell
  <2> QED BY <2>2, <2>3
<1> QED BY <1>3, <1>4, <1>5, <1>6

\* An event that is announced keeps the word of its interface and of the others.
LEMMA AnnouncesWord ==
  ASSUME IInv, NEW i \in Iface, NEW ev \in Event, Announces(i, ev)
  PROVE  WordInv'
<1>1. /\ ev = "IFEV_UPDATE" => state[i] = "IFS_UP"
      /\ \A j \in Iface : j # i => state'[j] = state[j]
      /\ state'[i] = "IFS_UP" => ev \in {"IFEV_UP", "IFEV_UPDATE"}
  BY DEF Announces, IInv, QueueInv, TypeOK
<1>2. i \in interfaces /\ interface_queue_event(i, ev) /\ QueueInv /\ TypeOK
  BY DEF Announces, IInv, QueueInv
<1>3. /\ \A j \in Iface : state'[j] = "IFS_UP" => queued'[j] = "IFEV_UP"
      /\ \A j \in Iface : queued'[j] # "IFEV_UPDATE"
  <2>1. queued' = IF ev = "IFEV_UPDATE" THEN queued ELSE [queued EXCEPT ![i] = ev]
    BY <1>2 DEF interface_queue_event
  <2>2. /\ state \in [Iface -> State] /\ queued \in [Iface -> Event \cup {"none"}]
        /\ \A j \in Iface : state[j] = "IFS_UP" => queued[j] = "IFEV_UP"
        /\ \A j \in Iface : queued[j] # "IFEV_UPDATE"
    BY DEF IInv, QueueInv, TypeOK, WordInv
  <2> QED BY <1>1, <2>1, <2>2
<1>4. ASSUME NEW j \in Iface PROVE Tells(j)' /\ HandledTold(j)'
  <2>1. WillTell(Fifo(i, ev), Waiting(i, ev), queued', j)
    <3>1. ev = "IFEV_UPDATE" => state[i] = "IFS_UP"
      BY <1>1
    <3> QED BY <1>2, <3>1, QueueWord
  <2>2. CASE MayCall /\ call_hotplug(Fifo(i, ev), Waiting(i, ev), procs)
    <3>1. /\ Fifo(i, ev) \in Seq(Iface) /\ IsInjective(Fifo(i, ev))
          /\ Waiting(i, ev) \in [Iface -> Event] /\ procs \in Nat
          /\ hotplug_ev' = Waiting(i, ev)
      BY <1>2, FifoProperties DEF TypeOK, interface_queue_event
    <3> QED BY <1>2, <1>3, <2>1, <2>2, <3>1, CallWord
  <2>3. CASE pending' = Fifo(i, ev) /\ UNCHANGED <<current, current_ev, procs, delivered, lost>>
    <3>1. hotplug_ev' = Waiting(i, ev)
      BY <1>2 DEF interface_queue_event
    <3>2. HandledTold(j)
      BY DEF IInv, WordInv, HandledTold
    <3> QED BY <2>1, <2>3, <3>1, <3>2 DEF WillTell, Tells, Told, HandledTold
  <2> QED BY <1>2, <2>2, <2>3 DEF interface_queue_event
<1> QED BY <1>3, <1>4 DEF WordInv, HandledTold

\* The end of a script keeps the word.
LEMMA TaskCompleteWord ==
  ASSUME IInv, task_complete
  PROVE  WordInv'
<1>1. /\ TypeOK /\ IsInjective(pending) /\ pending \in Seq(Iface)
      /\ hotplug_ev \in [Iface -> Event] /\ procs - 1 \in Nat
      /\ call_hotplug(pending, hotplug_ev, procs - 1)
      /\ UNCHANGED <<interfaces, state, hotplug_ev, queued>>
  BY DEF task_complete, IInv, QueueInv, TypeOK, OneEventWaits, ifaceVars
<1>2. ASSUME NEW j \in Iface PROVE Tells(j)' /\ HandledTold(j)'
  <2>1. WillTell(pending, hotplug_ev, queued', j)
    BY <1>1 DEF IInv, WordInv, Tells, Told, WillTell
  <2>2. queued'[j] # "IFEV_UPDATE"
    BY <1>1 DEF IInv, WordInv
  <2> QED BY <1>1, <2>1, <2>2, CallWord
<1> QED BY <1>1, <1>2 DEF IInv, WordInv, HandledTold

\* A freed name starts over, and the others keep their word.
LEMMA FreeWord ==
  ASSUME IInv, NEW i \in Iface, Free(i)
  PROVE  WordInv' /\ GoneIsClean'
<1>1. /\ Range(pending') = Range(pending) \ {i}
      /\ current' = IF current = i THEN NoIface ELSE current
      /\ current_ev' = current_ev
  BY UnlinkFifo DEF Free, interface_dequeue_event, IInv, QueueInv, TypeOK, OneEventWaits
<1>2. /\ interfaces' = interfaces \ {i} /\ state' = state /\ state[i] = "IFS_DOWN"
      /\ queued' = [queued EXCEPT ![i] = "none"]
      /\ delivered' = [delivered EXCEPT ![i] = "none"]
      /\ hotplug_ev' = [hotplug_ev EXCEPT ![i] = "IFEV_DOWN"]
      /\ lost' = lost \ {i}
  BY DEF Free
<1>3. TypeOK
  BY DEF IInv, QueueInv
<1>4. GoneIsClean'
  BY <1>2, <1>3 DEF GoneIsClean, IInv, TypeOK
<1>5. ASSUME NEW j \in Iface, j # i
      PROVE  /\ state'[j] = state[j] /\ queued'[j] = queued[j] /\ delivered'[j] = delivered[j]
             /\ hotplug_ev'[j] = hotplug_ev[j] /\ (j \in lost' <=> j \in lost)
             /\ j \in Range(pending') <=> j \in Range(pending)
             /\ current' = j <=> current = j
  BY <1>1, <1>2, <1>3, <1>5, NoIfaceAssumption DEF TypeOK
<1>6. /\ state'[i] = "IFS_DOWN" /\ queued'[i] = "none" /\ queued'[i] = delivered'[i]
      /\ i \notin Range(pending') /\ current' # i
  BY <1>1, <1>2, <1>3, NoIfaceAssumption DEF TypeOK
<1> QED BY <1>1, <1>4, <1>5, <1>6 DEF IInv, WordInv, Tells, Told

\* IInv is inductive.
LEMMA IInvStep ==
  ASSUME IInv, [Next]_vars
  PROVE  IInv'
<1>1. QueueInv'
  BY QueueInvStep DEF IInv
<1>2. ASSUME NEW i \in Iface, NEW ev \in Event, Announces(i, ev) PROVE WordInv' /\ GoneIsClean'
  <2>1. /\ i \in interfaces /\ interfaces' = interfaces
        /\ \A j \in Iface : j # i => queued'[j] = queued[j] /\ state'[j] = state[j]
    BY <1>2 DEF Announces, interface_queue_event, IInv, QueueInv, TypeOK
  <2>2. \A j \in Iface : j \notin interfaces =>
          delivered'[j] = delivered[j] /\ (j \in lost' <=> j \in lost)
    <3>1. CASE MayCall /\ call_hotplug(Fifo(i, ev), Waiting(i, ev), procs)
      BY <2>1, <3>1, FifoProperties, CallHotplug DEF IInv, QueueInv, TypeOK
    <3>2. CASE UNCHANGED <<delivered, lost>>
      BY <3>2
    <3> QED BY <1>2, <3>1, <3>2 DEF Announces, interface_queue_event
  <2>3. GoneIsClean'
    BY <2>1, <2>2 DEF GoneIsClean, IInv
  <2> QED BY <1>2, <2>3, AnnouncesWord
<1>3. ASSUME task_complete PROVE WordInv' /\ GoneIsClean'
  <2>1. /\ Range(pending) \subseteq interfaces
        /\ IsInjective(pending) /\ pending \in Seq(Iface) /\ TypeOK
        /\ hotplug_ev \in [Iface -> Event] /\ procs - 1 \in Nat
        /\ call_hotplug(pending, hotplug_ev, procs - 1)
        /\ UNCHANGED <<interfaces, state, queued>>
    BY <1>3 DEF task_complete, IInv, QueueInv, TypeOK, OneEventWaits, NoDangling, ifaceVars
  <2>2. \A j \in Iface : j \notin interfaces =>
          delivered'[j] = delivered[j] /\ (j \in lost' <=> j \in lost)
    BY <2>1, CallHotplug
  <2> QED BY <1>3, <2>1, <2>2, TaskCompleteWord DEF GoneIsClean, IInv
<1>4. ASSUME NEW i \in Iface, Quiet(i) \/ Create(i) PROVE WordInv' /\ GoneIsClean'
  <2>1. /\ UNCHANGED <<queueVars, histVars>>
        /\ interfaces \subseteq interfaces' /\ i \in interfaces'
        /\ \A j \in Iface : j # i => state'[j] = state[j]
        /\ state'[i] = "IFS_UP" => state[i] = "IFS_UP"
    BY <1>4 DEF Quiet, Create, IInv, QueueInv, TypeOK
  <2> QED BY <2>1 DEF IInv, WordInv, GoneIsClean, Tells, Told, queueVars, histVars
<1>5. CASE UNCHANGED vars
  <2>1. WordInv' /\ GoneIsClean'
    BY <1>5 DEF IInv, WordInv, GoneIsClean, Tells, Told, vars, ifaceVars, queueVars, histVars
  <2> QED BY <1>1, <2>1 DEF IInv
<1>6. CASE Next
  <2>1. TypeOK
    BY DEF IInv, QueueInv
  <2> QED BY <1>1, <1>2, <1>3, <1>4, <1>6, <2>1, StepKinds, FreeWord DEF IInv
<1> QED BY <1>5, <1>6

\* The scripts are told the last thing that happened to every interface, however
\* events are overwritten, dropped and delayed, unless a fork failed.
THEOREM LastWordHeard == Spec => []LastWord
<1>1. Init => IInv
  <2> SUFFICES ASSUME Init PROVE IInv
    OBVIOUS
  <2>1. Range(pending) = {}
    BY DEF Init, Range
  <2> QED BY <2>1, QueueInvInit, NoIfaceAssumption
          DEF Init, IInv, GoneIsClean, WordInv, Tells, Told
<1>2. IInv => LastWord
  BY DEF IInv, QueueInv, TypeOK, WordInv, Tells, Told, LastWord
<1> QED BY <1>1, <1>2, IInvStep, PTL DEF Spec
=============================================================================
