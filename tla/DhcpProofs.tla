----------------------------- MODULE DhcpProofs -----------------------------
(***************************************************************************)
(* The safety properties of Dhcp, for every set of handlers, processes and *)
(* leases, and the refinement of ProtoContract.                            *)
(*                                                                         *)
(* A step of the daemon runs through several functions on a record, Now,   *)
(* so the invariant is stated of such a record.  Sane holds between any    *)
(* two of the functions: a client that works is the registered one and its *)
(* script says what it holds.  Inv, which holds between steps, adds what   *)
(* the handler knows of the interface: while the interface is down or goes *)
(* down, a registered client was asked to stop, and the handler remembers  *)
(* that it was (teardown), so that its exit does not start another one.    *)
(***************************************************************************)
EXTENDS Dhcp, TLAPS

USE DhcpAssumption

\* The types of the record's fields.
IfRec == [state : IfState, autostart : BOOLEAN, usable : BOOLEAN, reload : BOOLEAN,
          lease : Lease \cup {None}]
ProcRec == [st : ProcState, lease : Lease \cup {None}, msg : Event \cup {None}]
State == [if : IfRec, teardown : BOOLEAN, client : Proc \cup {None}, proc : [Proc -> ProcRec],
          orphan : SUBSET Proc, mishap : SUBSET Mishap, faults : Nat]

\* A message configures exactly when it brings a lease, and a client that works and
\* waits for its script holds what the script reports.
Told(r) ==
  r.msg # None => /\ r.msg.reason = "configure" <=> r.msg.lease # None
                  /\ r.st = "run" => r.msg.lease = r.lease

\* The registered client is there and was not freed; nor are the freed ones gone.
Registered(S) ==
  /\ S.client # None => S.proc[S.client].st # "none" /\ S.client \notin S.orphan
  /\ \A p \in S.orphan : S.proc[p].st # "none"

\* What holds between two functions of the daemon.
Sane(S) ==
  /\ S \in State /\ Registered(S)
  /\ \A p \in Proc : Told(S.proc[p])
  /\ \A p \in Proc : S.proc[p].st = "run" => p = S.client

Active == {"IFS_SETUP", "IFS_UP"}

\* A client of an interface that is not wanted was asked to stop and will not be
\* replaced when it exits.
Stopped(S) ==
  /\ kind # "isc" /\ S.if.state \notin Active /\ S.client # None =>
       S.teardown /\ S.proc[S.client].st # "run"
  /\ kind = "isc" => (S.if.state = "IFS_DOWN" => S.client = None)

\* The handler expects its client to exit only while the interface is not wanted.
Expects(S) == S.teardown => kind # "isc" /\ S.if.state \notin Active

Served(S) ==
  kind # "isc" =>
    /\ S.if.state \in Active => S.client # None \/ "fork" \in S.mishap
    /\ S.if.state = "IFS_UP" => S.if.lease # None

\* The interface has what its client has.
Matches(S) ==
  kind # "isc" /\ S.client # None /\ "lost" \notin S.mishap /\ "stray" \notin S.mishap =>
    LET c == S.proc[S.client]
    IN  c.st = "run" /\ c.msg = None /\ c.lease # None =>
          S.if.state = "IFS_UP" /\ S.if.lease = c.lease

\* What holds between two steps.
Inv(S) == Sane(S) /\ Stopped(S) /\ Expects(S) /\ Served(S) /\ Matches(S)

\* The inductive invariant.
IInv == kind \in Kinds /\ crashed \in BOOLEAN /\ faults <= MaxFaults /\ Inv(Now)
-----------------------------------------------------------------------------
(***************************************************************************)
(* The process layer.                                                      *)
(***************************************************************************)

\* netifd_kill_process() leaves no client and touches nothing but the process.
LEMMA KillIsSane ==
  ASSUME NEW S, Sane(S)
  PROVE  LET K == netifd_kill_process(S)
         IN  /\ Sane(K) /\ K.client = None
             /\ K.if = S.if /\ K.teardown = S.teardown
<1>1. CASE S.client = None
  BY <1>1 DEF netifd_kill_process
<1>2. CASE S.client # None
  <2> DEFINE c == S.client
             g == Gone(S.proc[c])
             K == [S EXCEPT !.proc = [S.proc EXCEPT ![c] = g], !.client = None]
  <2>1. c \in Proc /\ S.proc[c] \in ProcRec /\ Told(S.proc[c])
    BY <1>2 DEF Sane, State
  <2>2. g \in ProcRec /\ g.st = "none" /\ Told(g)
    BY <2>1 DEF ProcRec, Gone, NoProc, ProcState, Told
  <2> HIDE DEF g
  <2>3. netifd_kill_process(S) = K
    BY <1>2 DEF netifd_kill_process, g, Sane, State
  <2>4. K \in State /\ K.client = None /\ K.if = S.if /\ K.teardown = S.teardown /\ K.orphan = S.orphan
    BY <2>1, <2>2 DEF Sane, State
  <2>5. \A p \in Proc : K.proc[p] = IF p = c THEN g ELSE S.proc[p]
    BY <2>1 DEF Sane, State
  <2> HIDE DEF K
  <2>6. Sane(K)
    BY <2>1, <2>2, <2>4, <2>5 DEF Sane, Registered, State
  <2> QED BY <2>3, <2>4, <2>6
<1> QED BY <1>1, <1>2

\* netifd_start_process() ends with a client that has no lease yet and nothing to say,
\* or with a fork that failed.
LEMMA StartIsSane ==
  ASSUME NEW S, Sane(S), NEW ok \in BOOLEAN
  PROVE  LET N == netifd_start_process(S, ok)
         IN  /\ Sane(N) /\ N.if = S.if /\ N.teardown = S.teardown
             /\ N.client # None \/ "fork" \in N.mishap
             /\ N.client # None => N.proc[N.client].lease = None
<1> DEFINE K == netifd_kill_process(S)
<1>1. Sane(K) /\ K.client = None /\ K.if = S.if /\ K.teardown = S.teardown
  BY KillIsSane
<1> HIDE DEF K
<1>2. CASE ok /\ Free(K) # {}
  <2> DEFINE p == CHOOSE q \in Free(K) : TRUE
             r == [NoProc EXCEPT !.st = "run"]
             N == [K EXCEPT !.client = p, !.proc[p].st = "run", !.mishap = @ \ {"fork"}]
  <2>1. p \in Free(K)
    BY <1>2
  <2>2. netifd_start_process(S, ok) = N
    BY <1>2 DEF netifd_start_process, K
  <2> HIDE DEF p
  <2>3. p \in Proc /\ K.proc[p] = NoProc
    BY <2>1 DEF Free
  <2>4. r \in ProcRec /\ r.st = "run" /\ r.lease = None /\ Told(r)
    BY DEF NoProc, ProcRec, ProcState, Told
  <2>5. \A q \in Proc : N.proc[q] = IF q = p THEN r ELSE K.proc[q]
    BY <1>1, <2>3 DEF Sane, State
  <2>6. /\ N \in State /\ N.client = p /\ N.orphan = K.orphan /\ N.if = K.if
        /\ N.teardown = K.teardown
    BY <1>1, <2>3, <2>4 DEF Sane, State, NoProc
  <2> HIDE DEF N, r
  <2>7. p \notin K.orphan
    BY <1>1, <2>3 DEF Sane, Registered, NoProc
  <2>8. Sane(N)
    BY <1>1, <2>3, <2>4, <2>5, <2>6, <2>7 DEF Sane, Registered, State
  <2> QED BY <1>1, <2>2, <2>3, <2>4, <2>5, <2>6, <2>8
<1>3. CASE ~(ok /\ Free(K) # {})
  <2> DEFINE m == K.mishap \cup {"fork"}
             f == K.faults + 1
             N == [K EXCEPT !.mishap = m, !.faults = f]
  <2>1. netifd_start_process(S, ok) = N
    BY <1>3 DEF netifd_start_process, K
  <2>2. "fork" \in m /\ m \in SUBSET Mishap /\ f \in Nat /\ K \in State
    BY <1>1 DEF Sane, State, Mishap
  <2> HIDE DEF m, f
  <2>3. /\ N \in State /\ N.proc = K.proc /\ N.client = K.client /\ N.orphan = K.orphan
        /\ N.if = K.if /\ N.teardown = K.teardown /\ "fork" \in N.mishap
    BY <2>2 DEF State
  <2> HIDE DEF N
  <2>4. Sane(N)
    BY <1>1, <2>3 DEF Sane, Registered
  <2> QED BY <1>1, <2>1, <2>3, <2>4
<1> QED BY <1>2, <1>3
-----------------------------------------------------------------------------
(***************************************************************************)
(* The handler.                                                            *)
(***************************************************************************)

\* The interface does not come up from nowhere, and a teardown starts from an
\* interface that was not down.
Moves(s, t) ==
  /\ t = "IFS_UP" => s \in Active
  /\ t = "IFS_TEARDOWN" => s # "IFS_DOWN"

\* A client is started for an interface that is wanted.
LEMMA SetupKeepsInv ==
  ASSUME NEW S, Sane(S), NEW ok \in BOOLEAN, S.if.state \in Active,
         kind # "isc" /\ S.if.state = "IFS_UP" => S.if.lease # None
  PROVE  Inv(proto_setup(S, ok)) /\ proto_setup(S, ok).if = S.if
<1> DEFINE T == [S EXCEPT !.teardown = FALSE]
           N == netifd_start_process(T, ok)
<1>1. /\ T \in State /\ T.teardown = FALSE /\ T.if = S.if /\ T.client = S.client
      /\ T.proc = S.proc /\ T.orphan = S.orphan
  BY DEF Sane, State
<1> HIDE DEF T
<1>2. Sane(T)
  BY <1>1 DEF Sane, Registered
<1>3. /\ Sane(N) /\ N.if = S.if /\ N.teardown = FALSE
      /\ N.client # None \/ "fork" \in N.mishap
      /\ N.client # None => N.proc[N.client].lease = None
  BY <1>1, <1>2, StartIsSane
<1>4. proto_setup(S, ok) = N
  BY DEF proto_setup, T
<1> HIDE DEF N
<1>5. Stopped(N)
  BY <1>3 DEF Stopped, Active
<1>6. Expects(N) /\ Served(N) /\ Matches(N)
  BY <1>3 DEF Expects, Served, Matches
<1> QED BY <1>3, <1>4, <1>5, <1>6 DEF Inv

\* A client is asked to stop, if there is one and its handler does such a thing.
LEMMA TeardownKeepsInv ==
  ASSUME NEW S, Sane(S), S.if.state = "IFS_TEARDOWN", S.teardown = FALSE
  PROVE  Inv(proto_teardown(S)) /\ proto_teardown(S).if = S.if
<1> DEFINE N == proto_teardown(S)
<1>1. CASE kind = "isc"
  <2>1. N = S
    BY <1>1 DEF proto_teardown
  <2> QED BY <1>1, <2>1 DEF Inv, Stopped, Expects, Served, Matches
<1>2. CASE kind # "isc" /\ S.client = None
  <2>1. N = [S EXCEPT !.mishap = @ \cup {"unanswered"}]
    BY <1>2 DEF proto_teardown
  <2>2. /\ N \in State /\ N.proc = S.proc /\ N.client = S.client /\ N.orphan = S.orphan
        /\ N.if = S.if /\ N.teardown = S.teardown
    BY <2>1 DEF Sane, State, Mishap
  <2> HIDE DEF N
  <2>3. Sane(N)
    BY <2>2 DEF Sane, Registered
  <2> QED BY <1>2, <2>2, <2>3 DEF N, Inv, Stopped, Expects, Served, Matches, Active
<1>3. CASE kind # "isc" /\ S.client # None /\ S.proc[S.client].st = "zombie"
  <2>1. N = [S EXCEPT !.teardown = TRUE, !.mishap = @ \cup {"unanswered"}]
    BY <1>3 DEF proto_teardown
  <2>2. /\ N \in State /\ N.proc = S.proc /\ N.client = S.client /\ N.orphan = S.orphan
        /\ N.if = S.if /\ N.teardown = TRUE
    BY <2>1 DEF Sane, State, Mishap
  <2> HIDE DEF N
  <2>3. Sane(N)
    BY <2>2 DEF Sane, Registered
  <2> QED BY <1>3, <2>2, <2>3 DEF N, Inv, Stopped, Expects, Served, Matches, Active
<1>4. CASE kind # "isc" /\ S.client # None /\ S.proc[S.client].st # "zombie"
  <2> DEFINE c == S.client
             r == [S.proc[c] EXCEPT !.st = "term"]
  <2>1. c \in Proc /\ S.proc[c] \in ProcRec /\ Told(S.proc[c]) /\ S \in State
    BY <1>4 DEF Sane, State
  <2>2. r \in ProcRec /\ r.st = "term" /\ Told(r)
    BY <2>1 DEF ProcRec, ProcState, Told
  <2>3. N = [S EXCEPT !.teardown = TRUE, !.proc[c] = r]
    BY <1>4, <2>1 DEF proto_teardown, State
  <2> HIDE DEF r, N
  <2>4. /\ N \in State /\ N.client = c /\ N.orphan = S.orphan
        /\ N.if = S.if /\ N.teardown = TRUE
    BY <2>1, <2>2, <2>3 DEF State
  <2>5. \A p \in Proc : N.proc[p] = IF p = c THEN r ELSE S.proc[p]
    BY <2>1, <2>3 DEF State
  <2>6. Sane(N)
    BY <2>1, <2>2, <2>4, <2>5 DEF Sane, Registered, State
  <2>7. N.proc[N.client].st = "term"
    BY <2>1, <2>2, <2>4, <2>5
  <2> QED BY <1>4, <2>4, <2>6, <2>7 DEF N, Inv, Stopped, Expects, Served, Matches, Active
<1> QED BY <1>1, <1>2, <1>3, <1>4
-----------------------------------------------------------------------------
(***************************************************************************)
(* The interface.                                                          *)
(***************************************************************************)

\* The configuration of the interface and its handler's state are unrelated.
LEMMA FlagsKeepInv ==
  ASSUME NEW S, Inv(S), NEW i \in IfRec, i.state = S.if.state, i.lease = S.if.lease
  PROVE  Inv([S EXCEPT !.if = i])
<1> DEFINE N == [S EXCEPT !.if = i]
<1>1. /\ N \in State /\ N.proc = S.proc /\ N.client = S.client /\ N.orphan = S.orphan
      /\ N.if = i /\ N.teardown = S.teardown /\ N.mishap = S.mishap
  BY DEF Inv, Sane, State
<1> HIDE DEF N
<1>2. Inv(N)
  BY <1>1 DEF Inv, Sane, Registered, Stopped, Expects, Served, Matches
<1> QED BY <1>2 DEF N

\* __interface_set_down().
LEMMA SetDownKeepsInv ==
  ASSUME NEW S, Inv(S)
  PROVE  LET N == interface_do_set_down(S)
         IN  Inv(N) /\ Moves(S.if.state, N.if.state)
<1>1. CASE S.if.state \in {"IFS_SETUP", "IFS_UP"}
  <2> DEFINE i == [S.if EXCEPT !.state = "IFS_TEARDOWN"]
             T == [S EXCEPT !.if = i]
  <2>1. S \in State /\ i \in IfRec /\ i.state = "IFS_TEARDOWN"
    BY DEF Inv, Sane, State, IfRec, IfState
  <2>2. interface_do_set_down(S) = proto_teardown(T)
    BY <1>1 DEF interface_do_set_down
  <2> HIDE DEF i
  <2>3. /\ T \in State /\ T.proc = S.proc /\ T.client = S.client /\ T.orphan = S.orphan
        /\ T.if = i /\ T.teardown = S.teardown
    BY <2>1 DEF State
  <2> HIDE DEF T
  <2>4. Sane(T)
    BY <2>3 DEF Inv, Sane, Registered
  <2>5. T.teardown = FALSE
    BY <1>1, <2>3 DEF Inv, Expects, Active, State
  <2> QED BY <1>1, <2>1, <2>2, <2>3, <2>4, <2>5, TeardownKeepsInv DEF Moves
<1>2. CASE S.if.state \notin {"IFS_SETUP", "IFS_UP"}
  BY <1>2 DEF interface_do_set_down, Moves, Active
<1> QED BY <1>1, <1>2

\* interface_check_state().
LEMMA SetUpKeepsInv ==
  ASSUME NEW S, Inv(S), NEW ok \in BOOLEAN
  PROVE  LET N == interface_set_up(S, ok)
         IN  Inv(N) /\ Moves(S.if.state, N.if.state)
<1>1. CASE S.if.state = "IFS_DOWN" /\ S.if.usable
  <2> DEFINE i == [S.if EXCEPT !.state = "IFS_SETUP"]
             T == [S EXCEPT !.if = i]
  <2>1. S \in State /\ i \in IfRec /\ i.state = "IFS_SETUP"
    BY DEF Inv, Sane, State, IfRec, IfState
  <2>2. interface_set_up(S, ok) = proto_setup(T, ok)
    BY <1>1 DEF interface_set_up
  <2> HIDE DEF i
  <2>3. /\ T \in State /\ T.proc = S.proc /\ T.client = S.client /\ T.orphan = S.orphan
        /\ T.if = i /\ T.teardown = S.teardown
    BY <2>1 DEF State
  <2> HIDE DEF T
  <2>4. Sane(T) /\ T.if.state \in Active
    BY <2>1, <2>3 DEF Inv, Sane, Registered, Active
  <2> QED BY <2>1, <2>2, <2>3, <2>4, SetupKeepsInv DEF Moves
<1>2. CASE ~(S.if.state = "IFS_DOWN" /\ S.if.usable)
  BY <1>2 DEF interface_set_up, Moves, Active
<1> QED BY <1>1, <1>2

\* interface_do_reload() of an interface that is down: a client that was asked to stop
\* is nobody's now.
LEMMA ReloadKeepsInv ==
  ASSUME NEW S, Inv(S), S.if.state = "IFS_DOWN"
  PROVE  LET N == interface_do_reload(S)
         IN  Inv(N) /\ N.if.state = "IFS_DOWN"
<1> DEFINE i == [S.if EXCEPT !.reload = FALSE]
           o == S.orphan \cup ({S.client} \ {None})
           N == [S EXCEPT !.if = i, !.teardown = FALSE, !.client = None, !.orphan = o]
<1>1. /\ S \in State /\ i \in IfRec /\ i.state = "IFS_DOWN" /\ o \in SUBSET Proc
      /\ \A p \in o : p \in S.orphan \/ (p = S.client /\ p # None)
  BY DEF Inv, Sane, State, IfRec
<1>2. interface_do_reload(S) = N
  BY DEF interface_do_reload
<1> HIDE DEF i, o
<1>3. /\ N \in State /\ N.proc = S.proc /\ N.client = None /\ N.orphan = o
      /\ N.if = i /\ N.teardown = FALSE
  BY <1>1 DEF State
<1> HIDE DEF N
<1>4. \A p \in Proc : S.proc[p].st # "run"
  BY DEF Inv, Sane, State, Stopped, Active
<1>5. Sane(N)
  BY <1>1, <1>3, <1>4 DEF Inv, Sane, Registered
<1>6. Stopped(N) /\ Expects(N) /\ Served(N) /\ Matches(N)
  BY <1>1, <1>3 DEF Stopped, Expects, Served, Matches, Active
<1> QED BY <1>1, <1>2, <1>3, <1>5, <1>6 DEF Inv

\* interface_handle_config_change() of an interface that is down.
LEMMA ConfigChangeKeepsInv ==
  ASSUME NEW S, Inv(S), NEW ok \in BOOLEAN, S.if.state = "IFS_DOWN"
  PROVE  LET N == interface_handle_config_change(S, ok)
         IN  Inv(N) /\ N.if.state \notin {"IFS_UP", "IFS_TEARDOWN"}
<1> DEFINE R == IF S.if.reload THEN interface_do_reload(S) ELSE S
<1>1. Inv(R) /\ R.if.state = "IFS_DOWN"
  BY ReloadKeepsInv
<1>2. interface_handle_config_change(S, ok) = IF R.if.autostart THEN interface_set_up(R, ok) ELSE R
  BY DEF interface_handle_config_change
<1> HIDE DEF R
<1>3. Inv(interface_set_up(R, ok)) /\ Moves("IFS_DOWN", interface_set_up(R, ok).if.state)
  BY <1>1, SetUpKeepsInv
<1> QED BY <1>1, <1>2, <1>3 DEF Moves, Active
-----------------------------------------------------------------------------
(***************************************************************************)
(* A notification.  Between the message and what comes of it everything    *)
(* holds but Matches; Due says that the message is the last word of its    *)
(* client, if that client is one to be believed.                           *)
(***************************************************************************)
Heard(S) == Sane(S) /\ Stopped(S) /\ Expects(S) /\ Served(S)

Due(S, l) ==
  kind # "isc" /\ S.client # None /\ "lost" \notin S.mishap /\ "stray" \notin S.mishap =>
    LET c == S.proc[S.client]
    IN  c.st = "run" /\ c.msg = None /\ c.lease # None => c.lease = l

\* A lease is reported: it brings an interface that waits for it up.
LEMMA ReportUp ==
  ASSUME NEW S, Heard(S), NEW ok \in BOOLEAN, NEW l \in Lease, Due(S, l)
  PROVE  LET N == interface_proto_event_cb([S EXCEPT !.if.lease = l], "IFPEV_UP", ok)
         IN  Inv(N) /\ Moves(S.if.state, N.if.state)
<1> DEFINE i == [S.if EXCEPT !.lease = l]
           j == [i EXCEPT !.state = IF S.if.state = "IFS_SETUP" THEN "IFS_UP" ELSE S.if.state]
           N == [S EXCEPT !.if = j]
<1>1. /\ S \in State /\ j \in IfRec /\ j.lease = l
      /\ j.state = IF S.if.state = "IFS_SETUP" THEN "IFS_UP" ELSE S.if.state
  BY DEF Heard, Sane, State, IfRec, IfState
<1>2. interface_proto_event_cb([S EXCEPT !.if.lease = l], "IFPEV_UP", ok) = N
  <2>1. CASE S.if.state = "IFS_SETUP"
    BY <1>1, <2>1 DEF interface_proto_event_cb, State, IfRec
  <2>2. CASE S.if.state # "IFS_SETUP"
    BY <1>1, <2>2 DEF interface_proto_event_cb, State, IfRec
  <2> QED BY <2>1, <2>2
<1> HIDE DEF j
<1>3. /\ N \in State /\ N.proc = S.proc /\ N.client = S.client /\ N.orphan = S.orphan
      /\ N.if = j /\ N.teardown = S.teardown /\ N.mishap = S.mishap
  BY <1>1 DEF State
<1> HIDE DEF N
<1>4. Sane(N)
  BY <1>3 DEF Heard, Sane, Registered
<1>5. Stopped(N) /\ Expects(N)
  BY <1>1, <1>3 DEF Heard, Stopped, Expects, Active
<1>6. l # None /\ S.if.state \in IfState
  BY <1>1 DEF State, IfRec
<1>7. Served(N)
  BY <1>1, <1>3, <1>6 DEF Heard, Served, Active
<1>8. Matches(N)
  BY <1>1, <1>3, <1>6 DEF Heard, Due, Stopped, Matches, Active
<1>9. Moves(S.if.state, N.if.state)
  BY <1>1, <1>3 DEF Moves, Active
<1> QED BY <1>2, <1>4, <1>5, <1>7, <1>8, <1>9 DEF Inv

\* A lease was lost: it takes an interface that was up back to its setup.
LEMMA ReportLinkLost ==
  ASSUME NEW S, Heard(S), NEW ok \in BOOLEAN, Due(S, None), ~S.teardown, kind # "isc"
  PROVE  LET N == interface_proto_event_cb([S EXCEPT !.if.lease = None], "IFPEV_LINK_LOST", ok)
         IN  Inv(N) /\ Moves(S.if.state, N.if.state)
<1> DEFINE i == [S.if EXCEPT !.lease = None,
                             !.state = IF S.if.state = "IFS_UP" THEN "IFS_SETUP" ELSE S.if.state]
           m == IF S.if.state = "IFS_UP" THEN S.mishap \ {"unanswered"} ELSE S.mishap
           N == [S EXCEPT !.if = i, !.mishap = m]
<1>1. /\ S \in State /\ i \in IfRec /\ i.lease = None
      /\ i.state = IF S.if.state = "IFS_UP" THEN "IFS_SETUP" ELSE S.if.state
  BY DEF Heard, Sane, State, IfRec, IfState
<1>2. /\ m \in SUBSET Mishap
      /\ \A x \in {"fork", "lost", "stray"} : x \in m <=> x \in S.mishap
  BY <1>1 DEF State
<1>3. interface_proto_event_cb([S EXCEPT !.if.lease = None], "IFPEV_LINK_LOST", ok) = N
  <2>1. CASE S.if.state = "IFS_UP"
    <3> DEFINE L == [S EXCEPT !.if = [S.if EXCEPT !.lease = None]]
               M == mark_interface_down(L)
    <3>1. L \in State /\ L.if = [S.if EXCEPT !.lease = None] /\ L.if.state = "IFS_UP"
      BY <1>1, <2>1 DEF State, IfRec
    <3>2. interface_proto_event_cb(L, "IFPEV_LINK_LOST", ok) = [M EXCEPT !.if.state = "IFS_SETUP"]
      BY <3>1 DEF interface_proto_event_cb, LinkLost
    <3>3. M = [S EXCEPT !.if = [S.if EXCEPT !.lease = None, !.state = "IFS_DOWN"], !.mishap = m]
      BY <1>1, <2>1 DEF mark_interface_down, State, IfRec
    <3>4. i = [[S.if EXCEPT !.lease = None, !.state = "IFS_DOWN"] EXCEPT !.state = "IFS_SETUP"]
      BY <1>1, <2>1 DEF State, IfRec
    <3>5. [M EXCEPT !.if.state = "IFS_SETUP"] = N
      BY <1>1, <3>3, <3>4 DEF State
    <3> QED BY <3>2, <3>5
  <2>2. CASE S.if.state # "IFS_UP"
    BY <1>1, <2>2 DEF interface_proto_event_cb, LinkLost, State, IfRec
  <2> QED BY <2>1, <2>2
<1> HIDE DEF i, m
<1>4. /\ N \in State /\ N.proc = S.proc /\ N.client = S.client /\ N.orphan = S.orphan
      /\ N.if = i /\ N.teardown = S.teardown /\ N.mishap = m
  BY <1>1, <1>2 DEF State
<1> HIDE DEF N
<1>5. Sane(N)
  BY <1>4 DEF Heard, Sane, Registered
<1>6. Stopped(N) /\ Expects(N) /\ Served(N)
  BY <1>1, <1>2, <1>4 DEF Heard, Stopped, Expects, Served, Active
<1>7. Matches(N)
  BY <1>1, <1>2, <1>4 DEF Due, Matches
<1>8. Moves(S.if.state, N.if.state)
  BY <1>1, <1>4 DEF Moves, Active
<1> QED BY <1>3, <1>5, <1>6, <1>7, <1>8 DEF Inv

\* The answer to a teardown takes the interface down, from where it may be set up.
LEMMA ReportDown ==
  ASSUME NEW S, Heard(S), NEW ok \in BOOLEAN, S.teardown
  PROVE  LET N == interface_proto_event_cb([S EXCEPT !.if.lease = None], "IFPEV_DOWN", ok)
         IN  Inv(N) /\ Moves(S.if.state, N.if.state)
<1>0. S \in State /\ kind # "isc" /\ S.if.state \notin Active
  BY DEF Heard, Sane, Expects
<1> DEFINE i == [S.if EXCEPT !.lease = None, !.state = "IFS_DOWN"]
           T(m) == [S EXCEPT !.if = i, !.mishap = m]
<1>1. i \in IfRec /\ i.state = "IFS_DOWN"
  BY <1>0 DEF State, IfRec, IfState
<1>2. \A m \in SUBSET Mishap : Inv(T(m)) /\ T(m).if.state = "IFS_DOWN"
  <2> SUFFICES ASSUME NEW m \in SUBSET Mishap
               PROVE  Inv(T(m)) /\ T(m).if.state = "IFS_DOWN"
    OBVIOUS
  <2> HIDE DEF i
  <2>1. /\ T(m) \in State /\ T(m).proc = S.proc /\ T(m).client = S.client
        /\ T(m).orphan = S.orphan /\ T(m).if = i /\ T(m).teardown = S.teardown
    BY <1>0, <1>1 DEF State
  <2> DEFINE N == T(m)
  <2> HIDE DEF T
  <2>2. Sane(N)
    BY <2>1 DEF Heard, Sane, Registered
  <2>3. Stopped(N) /\ Expects(N) /\ Served(N)
    BY <1>0, <1>1, <2>1 DEF Heard, Stopped, Expects, Served, Active
  <2>4. Matches(N)
    BY <1>0, <2>1 DEF Heard, Stopped, Matches
  <2> QED BY <1>1, <2>1, <2>2, <2>3, <2>4 DEF Inv
<1>3. CASE S.if.state = "IFS_DOWN"
  <2>1. interface_proto_event_cb([S EXCEPT !.if.lease = None], "IFPEV_DOWN", ok) = T(S.mishap)
    <3> DEFINE L == [S EXCEPT !.if = [S.if EXCEPT !.lease = None]]
    <3>1. L.if.state = "IFS_DOWN" /\ i = [S.if EXCEPT !.lease = None]
      BY <1>0, <1>3 DEF State, IfRec
    <3>2. interface_proto_event_cb(L, "IFPEV_DOWN", ok) = L
      BY <3>1 DEF interface_proto_event_cb
    <3>3. L = T(S.mishap)
      BY <1>0, <3>1 DEF State
    <3> QED BY <3>2, <3>3
  <2>2. S.mishap \in SUBSET Mishap
    BY <1>0 DEF State
  <2> QED BY <1>2, <1>3, <2>1, <2>2 DEF Moves
<1>4. CASE S.if.state # "IFS_DOWN"
  <2> DEFINE m == (S.mishap \ {"unanswered"}) \ {"stray"}
  <2>1. interface_proto_event_cb([S EXCEPT !.if.lease = None], "IFPEV_DOWN", ok)
          = interface_handle_config_change(T(m), ok)
    <3> DEFINE L == [S EXCEPT !.if = [S.if EXCEPT !.lease = None]]
    <3>1. L.if.state # "IFS_DOWN" /\ L.mishap = S.mishap /\ L.if = [S.if EXCEPT !.lease = None]
      BY <1>0, <1>4 DEF State, IfRec
    <3>2. interface_proto_event_cb(L, "IFPEV_DOWN", ok)
            = interface_handle_config_change(
                [mark_interface_down(L) EXCEPT !.mishap = @ \ {"stray"}], ok)
      BY <3>1 DEF interface_proto_event_cb
    <3>3. i = [[S.if EXCEPT !.lease = None] EXCEPT !.state = "IFS_DOWN", !.lease = None]
      BY <1>0 DEF State, IfRec
    <3>4. mark_interface_down(L) = [S EXCEPT !.if = i, !.mishap = S.mishap \ {"unanswered"}]
      BY <1>0, <3>1, <3>3 DEF mark_interface_down, State
    <3>5. [mark_interface_down(L) EXCEPT !.mishap = @ \ {"stray"}] = T(m)
      BY <1>0, <3>4 DEF State
    <3> QED BY <3>2, <3>5
  <2>2. m \in SUBSET Mishap
    BY <1>0 DEF State
  <2> HIDE DEF m, T
  <2> QED BY <1>2, <2>1, <2>2, ConfigChangeKeepsInv DEF Moves
<1> QED BY <1>3, <1>4

\* The isc handler clears the settings and reports nothing.
LEMMA IscForgets ==
  ASSUME NEW S, Heard(S), kind = "isc"
  PROVE  LET N == [S EXCEPT !.if.lease = None]
         IN  Inv(N) /\ Moves(S.if.state, N.if.state)
<1> DEFINE i == [S.if EXCEPT !.lease = None]
           N == [S EXCEPT !.if = i]
<1>1. S \in State /\ i \in IfRec /\ i.state = S.if.state
  BY DEF Heard, Sane, State, IfRec
<1> HIDE DEF i
<1>2. /\ N \in State /\ N.proc = S.proc /\ N.client = S.client /\ N.orphan = S.orphan
      /\ N.if = i /\ N.teardown = S.teardown
  BY <1>1 DEF State
<1> HIDE DEF N
<1>3. Inv(N) /\ Moves(S.if.state, N.if.state)
  BY <1>1, <1>2 DEF Heard, Inv, Sane, Registered, Stopped, Expects, Served, Matches, Moves, Active
<1> QED BY <1>3 DEF N, i

\* The notify method, for a message that is the last word of its client.
LEMMA ConfigureKeepsInv ==
  ASSUME NEW S, Heard(S), NEW ok \in BOOLEAN, NEW m \in Event,
         m.reason = "configure" <=> m.lease # None, Due(S, m.lease)
  PROVE  LET N == configure(S, m, ok)
         IN  Inv(N) /\ Moves(S.if.state, N.if.state)
<1>1. CASE m.reason = "configure"
  <2>1. m.lease \in Lease
    BY <1>1 DEF Event
  <2>2. configure(S, m, ok) = interface_proto_event_cb([S EXCEPT !.if.lease = m.lease], "IFPEV_UP", ok)
    BY <1>1 DEF configure, udhcp_configure, isc_dhcp_configure
  <2> QED BY <2>1, <2>2, ReportUp
<1>2. CASE m.reason # "configure" /\ kind = "isc"
  <2>1. configure(S, m, ok) = [S EXCEPT !.if.lease = None]
    BY <1>2 DEF configure, isc_dhcp_configure
  <2> QED BY <1>2, <2>1, IscForgets
<1>3. CASE m.reason # "configure" /\ kind # "isc" /\ S.teardown
  <2>1. configure(S, m, ok) = interface_proto_event_cb([S EXCEPT !.if.lease = None], "IFPEV_DOWN", ok)
    BY <1>3 DEF configure, udhcp_configure
  <2> QED BY <1>3, <2>1, ReportDown
<1>4. CASE m.reason # "configure" /\ kind # "isc" /\ ~S.teardown
  <2>1. configure(S, m, ok) = interface_proto_event_cb([S EXCEPT !.if.lease = None], "IFPEV_LINK_LOST", ok)
    BY <1>4 DEF configure, udhcp_configure
  <2>2. Due(S, None)
    BY <1>4
  <2> QED BY <1>4, <2>1, <2>2, ReportLinkLost
<1> QED BY <1>1, <1>2, <1>3, <1>4

\* The script of client p hands over its message; a message that is not the registered
\* client's is a stray one.
LEMMA NotifyKeepsInv ==
  ASSUME NEW S, Inv(S), NEW ok \in BOOLEAN, NEW p \in Proc, S.proc[p].msg # None,
         NEW x \in SUBSET Mishap, "fork" \in S.mishap => "fork" \in x,
         p = S.client \/ "stray" \in x
  PROVE  LET N == configure([S EXCEPT !.proc[p].msg = None, !.mishap = x], S.proc[p].msg, ok)
         IN  Inv(N) /\ Moves(S.if.state, N.if.state)
<1> DEFINE m == S.proc[p].msg
           r == [S.proc[p] EXCEPT !.msg = None]
           T == [S EXCEPT !.proc[p].msg = None, !.mishap = x]
<1>1. S \in State /\ S.proc[p] \in ProcRec /\ Told(S.proc[p])
  BY DEF Inv, Sane, State
<1>2. /\ m \in Event /\ (m.reason = "configure" <=> m.lease # None)
      /\ S.proc[p].st = "run" => S.proc[p].lease = m.lease
  BY <1>1 DEF ProcRec, Told
<1>3. r \in ProcRec /\ r.msg = None /\ r.st = S.proc[p].st /\ r.lease = S.proc[p].lease
  BY <1>1 DEF ProcRec
<1>4. T = [S EXCEPT !.proc = [S.proc EXCEPT ![p] = r], !.mishap = x]
  BY <1>1 DEF State
<1> HIDE DEF r, T
<1>5. /\ T \in State /\ T.client = S.client /\ T.orphan = S.orphan /\ T.if = S.if
      /\ T.teardown = S.teardown /\ T.mishap = x
      /\ \A q \in Proc : T.proc[q] = IF q = p THEN r ELSE S.proc[q]
  BY <1>1, <1>3, <1>4 DEF State
<1>6. Told(r)
  BY <1>3 DEF Told
<1>7. Sane(T)
  BY <1>1, <1>3, <1>5, <1>6 DEF Inv, Sane, Registered, State
<1>8. Stopped(T)
  BY <1>1, <1>3, <1>5 DEF Inv, Stopped, State
<1>9. Expects(T) /\ Served(T)
  BY <1>5 DEF Inv, Expects, Served
<1>10. Due(T, m.lease)
  BY <1>2, <1>3, <1>5 DEF Due
<1>11. LET N == configure(T, m, ok) IN Inv(N) /\ Moves(T.if.state, N.if.state)
  <2> HIDE DEF m
  <2> QED BY <1>2, <1>7, <1>8, <1>9, <1>10, ConfigureKeepsInv DEF Heard
<1> QED BY <1>5, <1>11 DEF T
-----------------------------------------------------------------------------
(***************************************************************************)
(* Processes.                                                              *)
(***************************************************************************)

\* The record of one process changes, but not into a client at work, and the
\* registered client does not vanish.
LEMMA ProcessKeepsInv ==
  ASSUME NEW S, Inv(S), NEW p \in Proc, NEW r \in ProcRec, Told(r),
         r.st = "none" => p # S.client /\ p \notin S.orphan,
         r.st = "run" => S.proc[p].st = "run",
         NEW x \in SUBSET Mishap, S.mishap \subseteq x, NEW f \in Nat,
         \/ p # S.client \/ r.st # "run" \/ r.msg # None \/ r.lease = None
         \/ "lost" \in x \/ r = S.proc[p]
  PROVE  Inv([S EXCEPT !.proc[p] = r, !.mishap = x, !.faults = f])
<1> DEFINE N == [S EXCEPT !.proc = [S.proc EXCEPT ![p] = r], !.mishap = x, !.faults = f]
<1>1. /\ N \in State /\ N.client = S.client /\ N.orphan = S.orphan /\ N.if = S.if
      /\ N.teardown = S.teardown /\ N.mishap = x
      /\ \A q \in Proc : N.proc[q] = IF q = p THEN r ELSE S.proc[q]
  BY DEF Inv, Sane, State
<1> HIDE DEF N
<1>2. Sane(N)
  BY <1>1 DEF Inv, Sane, Registered, State
<1>3. Stopped(N) /\ Expects(N)
  BY <1>1 DEF Inv, Sane, State, Stopped, Expects
<1>4. Served(N)
  BY <1>1 DEF Inv, Served
<1>5. Matches(N)
  BY <1>1 DEF Inv, Sane, State, Matches
<1> QED BY <1>2, <1>3, <1>4, <1>5 DEF Inv, N

\* The exit of the registered client: it is replaced, unless it was asked to stop.
LEMMA ExitKeepsInv ==
  ASSUME NEW S, Inv(S), NEW ok \in BOOLEAN, S.client # None, S.proc[S.client].st = "zombie"
  PROVE  LET N == process_callback([S EXCEPT !.client = None, !.proc[S.client] = Gone(@)], ok)
         IN  Inv(N) /\ Moves(S.if.state, N.if.state)
<1> DEFINE c == S.client
           g == Gone(S.proc[c])
           K == [S EXCEPT !.client = None, !.proc = [S.proc EXCEPT ![c] = g]]
<1>1. c \in Proc /\ S.proc[c] \in ProcRec /\ Told(S.proc[c]) /\ S \in State
  BY DEF Inv, Sane, State
<1>2. g \in ProcRec /\ g.st = "none" /\ Told(g)
  BY <1>1 DEF ProcRec, Gone, NoProc, ProcState, Told
<1>3. [S EXCEPT !.client = None, !.proc[S.client] = Gone(@)] = K
  BY <1>1 DEF State
<1> HIDE DEF g
<1>4. /\ K \in State /\ K.client = None /\ K.if = S.if /\ K.teardown = S.teardown
      /\ K.orphan = S.orphan /\ K.mishap = S.mishap
      /\ \A p \in Proc : K.proc[p] = IF p = c THEN g ELSE S.proc[p]
  BY <1>1, <1>2 DEF State
<1> HIDE DEF K
<1>5. Sane(K)
  BY <1>1, <1>2, <1>4 DEF Inv, Sane, Registered, State
<1>6. CASE kind = "isc" \/ S.teardown
  <2>1. process_callback(K, ok) = K
    BY <1>4, <1>6 DEF process_callback
  <2>2. Stopped(K) /\ Expects(K) /\ Served(K) /\ Matches(K)
    BY <1>4, <1>6 DEF Inv, Stopped, Expects, Served, Matches, Active
  <2> QED BY <1>3, <1>4, <1>5, <2>1, <2>2 DEF Inv, Moves, Active
<1>7. CASE kind # "isc" /\ ~S.teardown
  <2>1. process_callback(K, ok) = proto_setup(K, ok)
    BY <1>4, <1>7 DEF process_callback
  <2>2. K.if.state \in Active /\ (K.if.state = "IFS_UP" => K.if.lease # None)
    BY <1>4, <1>7 DEF Inv, Stopped, Served
  <2>3. Inv(proto_setup(K, ok)) /\ proto_setup(K, ok).if = K.if
    BY <1>5, <2>2, SetupKeepsInv
  <2> QED BY <1>3, <1>4, <2>1, <2>2, <2>3 DEF Moves, Active
<1> QED BY <1>6, <1>7

\* A freed client ends.
LEMMA OrphanKeepsInv ==
  ASSUME NEW S, Inv(S), NEW p \in Proc, p # S.client
  PROVE  Inv([S EXCEPT !.orphan = S.orphan \ {p}, !.proc = [S.proc EXCEPT ![p] = Gone(S.proc[p])]])
<1> DEFINE g == Gone(S.proc[p])
           N == [S EXCEPT !.orphan = S.orphan \ {p}, !.proc = [S.proc EXCEPT ![p] = g]]
<1>1. S \in State /\ S.proc[p] \in ProcRec /\ Told(S.proc[p])
  BY DEF Inv, Sane, State
<1>2. g \in ProcRec /\ g.st = "none" /\ Told(g)
  BY <1>1 DEF ProcRec, Gone, NoProc, ProcState, Told
<1> HIDE DEF g
<1>3. /\ N \in State /\ N.client = S.client /\ N.if = S.if /\ N.teardown = S.teardown
      /\ N.orphan = S.orphan \ {p} /\ N.mishap = S.mishap
      /\ \A q \in Proc : N.proc[q] = IF q = p THEN g ELSE S.proc[q]
  BY <1>1, <1>2 DEF State
<1> HIDE DEF N
<1>4. Sane(N)
  BY <1>2, <1>3 DEF Inv, Sane, Registered, State
<1>5. Stopped(N) /\ Expects(N) /\ Served(N)
  BY <1>3 DEF Inv, Sane, State, Stopped, Expects, Served
<1>6. Matches(N)
  BY <1>3 DEF Inv, Sane, State, Matches
<1> QED BY <1>4, <1>5, <1>6 DEF Inv, N, g
-----------------------------------------------------------------------------
(***************************************************************************)
(* The steps.                                                              *)
(***************************************************************************)

\* The state after a step, as a record.
LEMMA BecomesNow ==
  ASSUME NEW S \in State, Becomes(S)
  PROVE  Now' = S
  BY DEF Becomes, Now, State

\* The invariant of that record is the invariant of the next state.
LEMMA InvOfNext ==
  ASSUME NEW S, Inv(S), Now' = S, kind' = kind
  PROVE  Inv(Now)'
<1>1. Inv(S)'
  BY DEF Inv, Sane, Registered, Stopped, Expects, Served, Matches, Told
<1> QED BY <1>1

\* What a step of the daemon that ends in S has to show.
LEMMA RunKeepsInv ==
  ASSUME IInv, NEW S, Inv(S), Moves(iface.state, S.if.state), S.faults <= MaxFaults, Becomes(S),
         UNCHANGED <<kind, crashed>>
  PROVE  IInv' /\ Moves(iface.state, iface'.state)
<1>1. Now' = S
  BY BecomesNow DEF Inv, Sane
<1>2. Inv(Now)'
  BY <1>1, InvOfNext
<1> QED BY <1>2 DEF IInv, Becomes

\* The record of the current state.
LEMMA NowFields ==
  ASSUME IInv
  PROVE  /\ Now.if = iface /\ Now.proc = proc /\ Now.client = client /\ Now.orphan = orphan
         /\ Now.teardown = teardown /\ Now.mishap = mishap /\ Now.faults = faults
         /\ iface \in IfRec /\ proc \in [Proc -> ProcRec] /\ Now \in State
         /\ mishap \in SUBSET Mishap /\ faults \in Nat
  BY DEF IInv, Inv, Sane, State, Now

\* interface_set_up() from ubus.
LEMMA SetUpStep ==
  ASSUME IInv, SetUp
  PROVE  IInv' /\ Moves(iface.state, iface'.state)
<1> DEFINE i == [iface EXCEPT !.autostart = TRUE]
           T == [Now EXCEPT !.if = i]
<1>1. PICK ok \in BOOLEAN : LET S == interface_set_up(T, ok) IN S.faults <= MaxFaults /\ Becomes(S)
  BY DEF SetUp, Runs, Now
<1>2. UNCHANGED <<kind, crashed>>
  BY DEF SetUp, Runs
<1>3. i \in IfRec /\ i.state = iface.state /\ i.lease = iface.lease /\ T.if = i
  BY NowFields DEF IfRec, State
<1> HIDE DEF i
<1>4. Inv(T)
  BY <1>3, NowFields, FlagsKeepInv DEF IInv
<1> HIDE DEF T
<1>5. LET S == interface_set_up(T, ok) IN Inv(S) /\ Moves(iface.state, S.if.state)
  BY <1>3, <1>4, SetUpKeepsInv
<1> QED BY <1>1, <1>2, <1>5, RunKeepsInv

\* interface_set_down() from ubus.
LEMMA SetDownStep ==
  ASSUME IInv, SetDown
  PROVE  IInv' /\ Moves(iface.state, iface'.state)
<1> DEFINE i == [iface EXCEPT !.autostart = FALSE]
           T == [Now EXCEPT !.if = i]
<1>1. LET S == interface_do_set_down(T) IN S.faults <= MaxFaults /\ Becomes(S)
  BY DEF SetDown, Runs, Now
<1>2. UNCHANGED <<kind, crashed>>
  BY DEF SetDown, Runs
<1>3. i \in IfRec /\ i.state = iface.state /\ i.lease = iface.lease /\ T.if = i
  BY NowFields DEF IfRec, State
<1> HIDE DEF i
<1>4. Inv(T)
  BY <1>3, NowFields, FlagsKeepInv DEF IInv
<1> HIDE DEF T
<1>5. LET S == interface_do_set_down(T) IN Inv(S) /\ Moves(iface.state, S.if.state)
  BY <1>3, <1>4, SetDownKeepsInv
<1> QED BY <1>1, <1>2, <1>5, RunKeepsInv

\* The device comes or goes.
LEMMA SetUsableStep ==
  ASSUME IInv, SetUsable
  PROVE  IInv' /\ Moves(iface.state, iface'.state)
<1> DEFINE i == [iface EXCEPT !.usable = ~@]
           T == [Now EXCEPT !.if = i]
           N(ok) == IF ~T.if.usable THEN interface_do_set_down(T)
                    ELSE IF T.if.autostart THEN interface_set_up(T, ok) ELSE T
<1>1. PICK ok \in BOOLEAN : N(ok).faults <= MaxFaults /\ Becomes(N(ok))
  BY DEF SetUsable, Runs, Now
<1>2. UNCHANGED <<kind, crashed>>
  BY DEF SetUsable, Runs
<1>3. i \in IfRec /\ i.state = iface.state /\ i.lease = iface.lease /\ T.if = i
  BY NowFields DEF IfRec, State
<1> HIDE DEF i
<1>4. Inv(T)
  BY <1>3, NowFields, FlagsKeepInv DEF IInv
<1> HIDE DEF T
<1>5. Inv(N(ok)) /\ Moves(iface.state, N(ok).if.state)
  <2>1. Moves(iface.state, T.if.state)
    BY <1>3 DEF Moves, Active
  <2> QED BY <1>3, <1>4, <2>1, SetDownKeepsInv, SetUpKeepsInv
<1> QED BY <1>1, <1>2, <1>5, RunKeepsInv

\* A changed configuration.
LEMMA ReloadStep ==
  ASSUME IInv, Reload
  PROVE  IInv' /\ Moves(iface.state, iface'.state)
<1> DEFINE i == [iface EXCEPT !.reload = TRUE]
           T == [Now EXCEPT !.if = i]
           N(ok) == IF T.if.state = "IFS_DOWN" THEN interface_handle_config_change(T, ok)
                    ELSE interface_do_set_down(T)
<1>1. PICK ok \in BOOLEAN : N(ok).faults <= MaxFaults /\ Becomes(N(ok))
  BY DEF Reload, Runs, Now
<1>2. UNCHANGED <<kind, crashed>>
  BY DEF Reload, Runs
<1>3. i \in IfRec /\ i.state = iface.state /\ i.lease = iface.lease /\ T.if = i
  BY NowFields DEF IfRec, State
<1> HIDE DEF i
<1>4. Inv(T)
  BY <1>3, NowFields, FlagsKeepInv DEF IInv
<1> HIDE DEF T
<1>5. Inv(N(ok)) /\ Moves(iface.state, N(ok).if.state)
  <2>1. CASE T.if.state = "IFS_DOWN"
    BY <1>3, <1>4, <2>1, ConfigChangeKeepsInv DEF Moves
  <2>2. CASE T.if.state # "IFS_DOWN"
    BY <1>3, <1>4, <2>2, SetDownKeepsInv
  <2> QED BY <2>1, <2>2
<1> QED BY <1>1, <1>2, <1>5, RunKeepsInv

\* A message of a script.
LEMMA NotifyStep ==
  ASSUME IInv, NEW p \in Proc, Notify(p)
  PROVE  IInv' /\ Moves(iface.state, iface'.state)
<1> DEFINE x == IF p = client /\ iface.state # "IFS_DOWN" THEN mishap \ {"lost", "stray"}
                ELSE mishap \cup {"stray"}
           N(ok) == configure([Now EXCEPT !.proc[p].msg = None, !.mishap = x], Now.proc[p].msg, ok)
<1>1. PICK ok \in BOOLEAN : N(ok).faults <= MaxFaults /\ Becomes(N(ok))
  BY NowFields DEF Notify, Runs, Now
<1>2. UNCHANGED <<kind, crashed>> /\ Now.proc[p].msg # None
  BY NowFields DEF Notify, Runs
<1>3. x \in SUBSET Mishap /\ ("fork" \in mishap => "fork" \in x) /\ (p = client \/ "stray" \in x)
  BY NowFields DEF Mishap
<1> HIDE DEF x
<1>4. Inv(N(ok)) /\ Moves(iface.state, N(ok).if.state)
  BY <1>2, <1>3, NowFields, NotifyKeepsInv DEF IInv
<1> QED BY <1>1, <1>2, <1>4, RunKeepsInv

\* The exit of a client, the registered one or a freed one.
LEMMA ProcessExitStep ==
  ASSUME IInv, NEW p \in Proc, ProcessExit(p)
  PROVE  IInv' /\ Moves(iface.state, iface'.state)
<1>1. CASE p = client
  <2> DEFINE N(ok) == process_callback([Now EXCEPT !.client = None, !.proc[p] = Gone(@)], ok)
  <2>1. PICK ok \in BOOLEAN : N(ok).faults <= MaxFaults /\ Becomes(N(ok))
    BY <1>1 DEF ProcessExit, Runs
  <2>2. UNCHANGED <<kind, crashed>> /\ proc[p].st = "zombie"
    BY <1>1 DEF ProcessExit, Runs
  <2>3. Inv(N(ok)) /\ Moves(iface.state, N(ok).if.state)
    BY <1>1, <2>2, NowFields, ExitKeepsInv DEF IInv
  <2> QED BY <2>1, <2>2, <2>3, RunKeepsInv
<1>2. CASE p # client
  <2> DEFINE N == [Now EXCEPT !.orphan = Now.orphan \ {p},
                              !.proc = [Now.proc EXCEPT ![p] = Gone(Now.proc[p])]]
  <2>1. /\ crashed' \in BOOLEAN /\ orphan' = orphan \ {p}
        /\ proc' = [proc EXCEPT ![p] = Gone(proc[p])]
        /\ UNCHANGED <<kind, iface, teardown, client, mishap, faults>>
    BY <1>2 DEF ProcessExit
  <2>2. Inv(N)
    BY <1>2, NowFields, OrphanKeepsInv DEF IInv
  <2>3. Now' = N
    <3>1. /\ N \in State /\ N.orphan = orphan \ {p} /\ N.proc = [proc EXCEPT ![p] = Gone(proc[p])]
          /\ N.if = iface /\ N.teardown = teardown /\ N.client = client /\ N.mishap = mishap
          /\ N.faults = faults
      BY <2>2, NowFields DEF Inv, Sane, State
    <3>2. Becomes(N)
      BY <2>1, <3>1 DEF Becomes
    <3> QED BY <3>1, <3>2, BecomesNow
  <2> HIDE DEF N
  <2>4. Inv(Now)'
    BY <2>1, <2>2, <2>3, InvOfNext
  <2> QED BY <2>1, <2>4 DEF IInv, Moves, Active
<1> QED BY <1>1, <1>2

\* A step of client p that leaves r behind.
LEMMA ClientStep ==
  ASSUME IInv, NEW p \in Proc, NEW r \in ProcRec, Client(p, r), Told(r),
         \A st \in {"none", "run"} : r.st = st => proc[p].st = st,
         mishap' \in SUBSET Mishap, mishap \subseteq mishap', faults' \in 0..MaxFaults,
         \/ p # client \/ r.st # "run" \/ r.msg # None \/ r.lease = None \/ "lost" \in mishap'
  PROVE  IInv' /\ Moves(iface.state, iface'.state)
<1>1. PICK x : x = mishap'
  OBVIOUS
<1>2. PICK f : f = faults'
  OBVIOUS
<1> DEFINE N == [Now EXCEPT !.proc = [Now.proc EXCEPT ![p] = r], !.mishap = x, !.faults = f]
<1>3. proc[p].st = "none" => p # client /\ p \notin orphan
  BY NowFields DEF IInv, Inv, Sane, Registered
<1>4. f \in Nat /\ x \in SUBSET Mishap /\ mishap \subseteq x
  BY <1>1, <1>2
<1>5. Inv(N)
  BY <1>1, <1>3, <1>4, NowFields, ProcessKeepsInv DEF IInv
<1>6. /\ N \in State /\ N.proc = [proc EXCEPT ![p] = r] /\ N.mishap = x /\ N.faults = f
      /\ N.if = iface /\ N.teardown = teardown /\ N.client = client /\ N.orphan = orphan
  BY <1>5, NowFields DEF Inv, Sane, State
<1>7. Becomes(N) /\ kind' = kind /\ iface' = iface /\ crashed' = crashed
  BY <1>1, <1>2, <1>6 DEF Client, Becomes
<1> HIDE DEF N
<1>8. Inv(Now)'
  BY <1>5, <1>6, <1>7, BecomesNow, InvOfNext
<1> QED BY <1>7, <1>8 DEF IInv, Moves, Active

\* What a client does by itself.
LEMMA ClientSteps ==
  ASSUME IInv, NEW p \in Proc,
         \/ \E l \in Lease : Obtains(p, l)
         \/ Loses(p) \/ Deconfigures(p) \/ Exits(p) \/ Crashes(p) \/ LosesMessage(p)
  PROVE  IInv' /\ Moves(iface.state, iface'.state)
<1> DEFINE r == proc[p]
<1>1. /\ r \in ProcRec /\ Told(r) /\ mishap \in SUBSET Mishap /\ faults \in 0..MaxFaults
  <2>1. Told(Now.proc[p])
    BY DEF IInv, Inv, Sane
  <2> QED BY <2>1, NowFields DEF IInv
<1>2. ASSUME NEW l \in Lease, Obtains(p, l) PROVE IInv' /\ Moves(iface.state, iface'.state)
  <2> DEFINE m == [reason |-> "configure", lease |-> l]
             n == [r EXCEPT !.lease = l, !.msg = m]
  <2>1. m \in Event /\ m # None /\ l # None
    BY DEF Event
  <2>2. Client(p, n) /\ r.st = "run" /\ UNCHANGED <<mishap, faults>>
    BY <1>2 DEF Obtains
  <2>3. n \in ProcRec /\ n.st = "run" /\ n.msg # None /\ Told(n)
    BY <1>1, <2>1, <2>2 DEF ProcRec, Told
  <2> HIDE DEF n
  <2> QED BY <1>1, <2>2, <2>3, ClientStep
<1>3. CASE Loses(p)
  <2> DEFINE m == [reason |-> "deconfigure", lease |-> None]
             n == [r EXCEPT !.lease = None, !.msg = m]
  <2>1. m \in Event
    BY DEF Event
  <2>2. Client(p, n) /\ r.st = "run" /\ UNCHANGED <<mishap, faults>>
    BY <1>3 DEF Loses
  <2>3. n \in ProcRec /\ n.st = "run" /\ n.lease = None /\ Told(n)
    BY <1>1, <2>1, <2>2 DEF ProcRec, Told
  <2> HIDE DEF n
  <2> QED BY <1>1, <2>2, <2>3, ClientStep
<1>4. CASE Deconfigures(p)
  <2> DEFINE m == [reason |-> "deconfigure", lease |-> None]
             n == [st |-> "stop", lease |-> None, msg |-> m]
  <2>1. m \in Event
    BY DEF Event
  <2>2. Client(p, n) /\ UNCHANGED <<mishap, faults>>
    BY <1>4 DEF Deconfigures
  <2>3. n \in ProcRec /\ n.st = "stop" /\ Told(n)
    BY <2>1 DEF ProcRec, ProcState, Told
  <2> HIDE DEF n
  <2> QED BY <1>1, <2>2, <2>3, ClientStep
<1>5. CASE Exits(p)
  <2> DEFINE n == [r EXCEPT !.st = "zombie"]
  <2>1. Client(p, n) /\ UNCHANGED <<mishap, faults>>
    BY <1>5 DEF Exits
  <2>2. n \in ProcRec /\ n.st = "zombie" /\ Told(n)
    BY <1>1 DEF ProcRec, ProcState, Told
  <2> HIDE DEF n
  <2> QED BY <1>1, <2>1, <2>2, ClientStep
<1>6. CASE Crashes(p)
  <2> DEFINE n == [r EXCEPT !.st = "zombie", !.lease = None]
  <2>1. /\ Client(p, n) /\ mishap' = mishap \cup Unanswered(p)
        /\ faults < MaxFaults /\ faults' = faults + 1
    BY <1>6 DEF Crashes
  <2>2. n \in ProcRec /\ n.st = "zombie" /\ Told(n)
    BY <1>1 DEF ProcRec, ProcState, Told
  <2>3. mishap' \in SUBSET Mishap /\ mishap \subseteq mishap' /\ faults' \in 0..MaxFaults
    BY <1>1, <2>1 DEF Unanswered, Mishap
  <2> HIDE DEF n
  <2> QED BY <2>1, <2>2, <2>3, ClientStep
<1>7. CASE LosesMessage(p)
  <2> DEFINE n == [r EXCEPT !.msg = None]
  <2>1. /\ Client(p, n) /\ faults < MaxFaults /\ faults' = faults + 1 /\ r.msg # None
        /\ mishap' = mishap \cup Unanswered(p) \cup (IF p = client THEN {"lost"} ELSE {})
    BY <1>7 DEF LosesMessage
  <2>2. n \in ProcRec /\ n.st = r.st /\ Told(n)
    BY <1>1 DEF ProcRec, Told
  <2>3. /\ mishap' \in SUBSET Mishap /\ mishap \subseteq mishap' /\ faults' \in 0..MaxFaults
        /\ p # client \/ "lost" \in mishap'
    BY <1>1, <2>1 DEF Unanswered, Mishap
  <2> HIDE DEF n
  <2> QED BY <2>1, <2>2, <2>3, ClientStep
<1> QED BY <1>2, <1>3, <1>4, <1>5, <1>6, <1>7
-----------------------------------------------------------------------------
\* The interface starts down, without a client.
LEMMA InitInv == Init => IInv
<1> SUFFICES ASSUME Init PROVE IInv
  OBVIOUS
<1>1. NoProc \in ProcRec /\ NoProc.st = "none" /\ NoProc.msg = None
  BY DEF NoProc, ProcRec, ProcState
<1>2. /\ Now.if.state = "IFS_DOWN" /\ Now.client = None /\ Now.teardown = FALSE /\ Now.orphan = {}
      /\ Now.proc = [p \in Proc |-> NoProc] /\ Now.mishap = {} /\ Now.faults = 0 /\ faults = 0
  BY DEF Init, Now
<1>3. Now \in State
  BY <1>1 DEF Init, Now, State, IfRec, IfState
<1>4. Sane(Now)
  BY <1>1, <1>2, <1>3 DEF Sane, Registered, Told
<1>5. Stopped(Now) /\ Expects(Now) /\ Served(Now) /\ Matches(Now)
  BY <1>2 DEF Stopped, Expects, Served, Matches, Active
<1>6. kind \in Kinds /\ crashed \in BOOLEAN
  BY DEF Init
<1>7. faults <= MaxFaults
  BY <1>2
<1> QED BY <1>4, <1>5, <1>6, <1>7 DEF IInv, Inv

\* A step keeps the invariant, and moves the interface as the contract says.
LEMMA NextInv ==
  ASSUME IInv, [Next]_vars
  PROVE  IInv' /\ Moves(iface.state, iface'.state)
<1>1. CASE SetUp \/ SetDown \/ SetUsable \/ Reload
  BY <1>1, SetUpStep, SetDownStep, SetUsableStep, ReloadStep
<1>2. CASE \E p \in Proc :
             \/ Notify(p) \/ ProcessExit(p) \/ \E l \in Lease : Obtains(p, l)
             \/ Loses(p) \/ Deconfigures(p) \/ Exits(p) \/ Crashes(p) \/ LosesMessage(p)
  <2>1. PICK p \in Proc :
             \/ Notify(p) \/ ProcessExit(p) \/ \E l \in Lease : Obtains(p, l)
             \/ Loses(p) \/ Deconfigures(p) \/ Exits(p) \/ Crashes(p) \/ LosesMessage(p)
    BY <1>2
  <2> QED BY <2>1, NotifyStep, ProcessExitStep, ClientSteps
<1>3. CASE UNCHANGED vars
  <2>1. Now' = Now /\ kind' = kind
    BY <1>3 DEF vars, Now
  <2>2. Inv(Now)'
    BY <2>1, InvOfNext DEF IInv
  <2> QED BY <1>3, <2>2 DEF vars, IInv, Moves, Active
<1> QED BY <1>1, <1>2, <1>3 DEF Next

\* The inductive invariant implies what the run checks.
LEMMA InvServes == IInv => ClientServes
<1> SUFFICES ASSUME IInv PROVE ClientServes
  OBVIOUS
<1>1. Inv(Now)
  BY DEF IInv
<1>2. TypeOK
  <2>1. /\ client # None => proc[client].st # "none" /\ client \notin orphan
        /\ \A p \in orphan : proc[p].st # "none"
    BY <1>1, NowFields DEF Inv, Sane, Registered
  <2>2. teardown \in BOOLEAN /\ client \in Proc \cup {None} /\ orphan \in SUBSET Proc
        /\ faults \in 0..MaxFaults
    BY NowFields DEF State, IInv
  <2> QED BY <2>1, <2>2, NowFields DEF TypeOK, IInv, IfRec, ProcRec
<1>3. OneClient
  <2> SUFFICES ASSUME NEW p \in Proc, proc[p].st = "run"
               PROVE  p = client /\ (iface.state \in {"IFS_SETUP", "IFS_UP"} \/ kind = "isc")
    BY DEF OneClient
  <2>1. p = client
    BY <1>1, NowFields DEF Inv, Sane
  <2>2. Stopped(Now)
    BY <1>1 DEF Inv
  <2> QED BY <2>1, <2>2, NowFields DEF Stopped, Active, IfRec
<1>4. UpIsServed /\ UpHasLease
  BY <1>1, NowFields DEF Inv, Served, UpIsServed, UpHasLease, Active
<1>5. LeaseIsClients
  BY <1>1, NowFields DEF Inv, Matches, LeaseIsClients
<1> QED BY <1>2, <1>3, <1>4, <1>5 DEF ClientServes

\* One client serves the interface, which is up with a lease of that client, whatever
\* the handler and however restarts, reloads, late exits and stray messages interleave
\* (proto-udhcp.c, proto-zcip.c, proto-isc-dhcp.c).
THEOREM ClientAlwaysServes == Spec => []ClientServes
<1>1. IInv /\ [Next]_vars => IInv'
  BY NextInv
<1> QED BY <1>1, InitInv, InvServes, PTL DEF Spec

\* An interface that is down has no client at work.
LEMMA DownIsIdle ==
  ASSUME IInv, iface.state = "IFS_DOWN"
  PROVE  ~ \E p \in Proc : proc[p].st = "run"
<1>1. Inv(Now)
  BY DEF IInv
<1> QED BY <1>1, NowFields DEF Inv, Sane, Stopped, Active

\* A step of the handler is a step of the contract.
LEMMA StepRefines ==
  ASSUME IInv, IInv', Moves(iface.state, iface'.state)
  PROVE  Contract!Next
<1>1. iface.state \in IfState /\ iface'.state \in IfState
  <2>1. iface.state \in IfState
    BY NowFields DEF IfRec
  <2>2. (iface \in IfRec)'
    BY NowFields DEF IInv, Inv, Sane, State, Now
  <2> QED BY <2>1, <2>2 DEF IfRec
<1>2. iface'.state = "IFS_DOWN" => ~ (\E p \in Proc : proc'[p].st = "run")
  <2>1. (iface.state = "IFS_DOWN" => ~ \E p \in Proc : proc[p].st = "run")'
    BY DownIsIdle, PTL
  <2> QED BY <2>1
<1>3. Contract!Step
  BY <1>1, <1>2 DEF Contract!Step, Contract!Setup, Contract!Work, Contract!Teardown, Contract!Down,
     Contract!Restart, Contract!Wait, Contract!Active, Moves, Active, IfState
<1> QED BY <1>3 DEF Contract!Next

\* The handlers implement the contract of a protocol handler, faults included: an
\* interface comes up out of its setup, goes down through its teardown, and is never
\* reported down while a client works for it (interface_proto_event_cb()).
THEOREM HandlersImplementContract == Spec => ImplementsContract
<1>1. Init => Contract!Init
  BY DEF Init, Contract!Init, NoProc
<1>2. IInv /\ [Next]_vars => IInv'
  BY NextInv
<1>3. IInv /\ IInv' /\ [Next]_vars => [Contract!Next]_Contract!vars
  BY NextInv, StepRefines
<1> QED BY <1>1, <1>2, <1>3, InitInv, PTL DEF Spec, ImplementsContract, Contract!Spec
=============================================================================
