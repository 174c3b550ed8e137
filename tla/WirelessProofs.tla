--------------------------- MODULE WirelessProofs ---------------------------
(***************************************************************************)
(* What holds of the radios of wireless.c for every list of radios, every  *)
(* set of configurations and every number of retries: RadioDriven,         *)
(* RadioClean, DataMatches and QueueServed.                                *)
(*                                                                         *)
(* The functions of the code are operators from a state to a state, and so *)
(* is the invariant an operator on states, Inv. A function is shown to     *)
(* change only the radio it is called for and to keep the queue and the    *)
(* turns in order (Step, which composes); for that radio it is shown to    *)
(* end in RadioInv, from what its callers guarantee: RadioInv, or less of  *)
(* it where a caller has just changed the record (Raisable, Restartable,   *)
(* Lowered, Settled, Lowerable, Alterable). InvStep puts the two together. *)
(* The passes of a reload are loops over the list of radios (Iteration).   *)
(***************************************************************************)
EXTENDS Wireless, Iteration, SequenceTheorems, TLAPS

\* RemoveAt() leaves out one element.
LEMMA RemoveAtFacts ==
  ASSUME NEW X, NEW s \in Seq(X), NEW i \in 1 .. Len(s)
  PROVE  /\ RemoveAt(s, i) \in Seq(X) /\ Len(RemoveAt(s, i)) = Len(s) - 1
         /\ \A j \in 1 .. (Len(s) - 1) : RemoveAt(s, i)[j] = IF j < i THEN s[j] ELSE s[j + 1]
<1> DEFINE a == SubSeq(s, 1, i - 1)  b == SubSeq(s, i + 1, Len(s))
<1>1. a \in Seq(X) /\ Len(a) = i - 1 /\ \A j \in 1 .. (i - 1) : a[j] = s[j]
  OBVIOUS
<1>2. b \in Seq(X) /\ Len(b) = Len(s) - i /\ \A j \in 1 .. (Len(s) - i) : b[j] = s[i + j]
  OBVIOUS
<1>3. RemoveAt(s, i) = a \o b
  BY DEF RemoveAt
<1> HIDE DEF a, b
<1>4. a \o b \in Seq(X) /\ Len(a \o b) = Len(s) - 1
  <2>1. a \o b \in Seq(X)
    BY <1>1, <1>2
  <2>2. Len(a \o b) = Len(a) + Len(b)
    BY <1>1, <1>2, ConcatProperties
  <2>3. Len(s) \in Nat /\ i \in Nat
    OBVIOUS
  <2> QED
    BY <1>1, <1>2, <2>1, <2>2, <2>3
<1>5. ASSUME NEW j \in 1 .. (Len(s) - 1) PROVE (a \o b)[j] = IF j < i THEN s[j] ELSE s[j + 1]
  <2>1. CASE j < i
    BY <1>1, <1>2, <2>1
  <2>2. CASE ~(j < i)
    <3>1. (a \o b)[j] = b[j - (i - 1)] /\ j - (i - 1) \in 1 .. (Len(s) - i)
      BY <1>1, <1>2, <2>2
    <3>2. b[j - (i - 1)] = s[i + (j - (i - 1))] /\ i + (j - (i - 1)) = j + 1
      BY <1>2, <3>1
    <3> QED
      BY <2>2, <3>1, <3>2
  <2> QED
    BY <2>1, <2>2
<1> QED
  BY <1>3, <1>4, <1>5

-----------------------------------------------------------------------------
(***************************************************************************)
(* The queue of handlers.                                                  *)
(***************************************************************************)
Handler == Radio \X BOOLEAN

\* The handler of r waits to be run for up.
In(h, r, up) == \E i \in DOMAIN h : h[i] = <<r, up>>

\* A radio waits once.
Once(h) == \A i, j \in DOMAIN h : h[i][1] = h[j][1] => i = j

Without(h, r) ==
  LET at == {i \in DOMAIN h : h[i][1] = r}
  IN  IF at = {} THEN h ELSE RemoveAt(h, CHOOSE i \in at : TRUE)

\* wireless_handler_stop() takes the radio off the queue, and no other.
LEMMA WithoutFacts ==
  ASSUME NEW h \in Seq(Handler), Once(h), NEW r \in Radio
  PROVE  /\ Without(h, r) \in Seq(Handler) /\ Once(Without(h, r))
         /\ \A q \in Radio, up \in BOOLEAN : In(Without(h, r), q, up) <=> q # r /\ In(h, q, up)
         /\ h = <<>> => Without(h, r) = <<>>
<1> DEFINE at == {i \in DOMAIN h : h[i][1] = r}
<1> DEFINE k == CHOOSE i \in at : TRUE
<1>0. \A i \in DOMAIN h : i \in 1 .. Len(h) /\ h[i] \in Handler /\ h[i] = <<h[i][1], h[i][2]>>
  BY DEF Handler
<1>1. CASE at = {}
  <2>1. Without(h, r) = h
    BY <1>1 DEF Without
  <2>2. \A up \in BOOLEAN : ~In(h, r, up)
    BY <1>1 DEF In
  <2> QED
    BY <2>1, <2>2
<1>2. CASE at # {}
  <2> DEFINE t == RemoveAt(h, k)
  <2>1. Without(h, r) = t
    BY <1>2 DEF Without
  <2>2. k \in DOMAIN h /\ h[k][1] = r /\ k \in 1 .. Len(h) /\ DOMAIN h = 1 .. Len(h)
    BY <1>2, <1>0
  <2> HIDE DEF k
  <2>3. t \in Seq(Handler) /\ Len(t) = Len(h) - 1 /\ DOMAIN t = 1 .. (Len(h) - 1)
    <3>1. t \in Seq(Handler) /\ Len(t) = Len(h) - 1
      BY <2>2, RemoveAtFacts
    <3> HIDE DEF t
    <3> QED
      BY <3>1
  <2>4. \A j \in DOMAIN t : t[j] = IF j < k THEN h[j] ELSE h[j + 1]
    BY <2>2, <2>3, RemoveAtFacts
  <2> HIDE DEF t
  <2>5. Once(t)
    <3> SUFFICES ASSUME NEW i \in DOMAIN t, NEW j \in DOMAIN t, t[i][1] = t[j][1] PROVE i = j
      BY DEF Once
    <3> DEFINE x == IF i < k THEN i ELSE i + 1  y == IF j < k THEN j ELSE j + 1
    <3>1. x \in DOMAIN h /\ y \in DOMAIN h /\ t[i] = h[x] /\ t[j] = h[y]
      BY <2>2, <2>3, <2>4
    <3>2. x = y
      <4> HIDE DEF x, y
      <4> QED
        BY <3>1 DEF Once
    <3> QED
      BY <2>2, <2>3, <3>2
  <2>6. ASSUME NEW q \in Radio, NEW up \in BOOLEAN PROVE In(t, q, up) <=> q # r /\ In(h, q, up)
    <3>1. ASSUME In(t, q, up) PROVE q # r /\ In(h, q, up)
      <4>1. PICK i \in DOMAIN t : t[i] = <<q, up>>
        BY <3>1 DEF In
      <4> DEFINE x == IF i < k THEN i ELSE i + 1
      <4>2. x \in DOMAIN h /\ t[i] = h[x] /\ x # k
        BY <2>2, <2>3, <2>4
      <4> HIDE DEF x
      <4>3. h[x] = <<q, up>> /\ h[x][1] # h[k][1]
        BY <2>2, <4>1, <4>2 DEF Once
      <4> QED
        BY <2>2, <4>2, <4>3 DEF In
    <3>2. ASSUME q # r, In(h, q, up) PROVE In(t, q, up)
      <4>1. PICK i \in DOMAIN h : h[i] = <<q, up>>
        BY <3>2 DEF In
      <4>2. i # k
        BY <2>2, <3>2, <4>1
      <4> DEFINE x == IF i < k THEN i ELSE i - 1
      <4>3. x \in DOMAIN t /\ t[x] = h[i]
        <5>1. x \in DOMAIN t
          BY <2>2, <2>3, <4>2
        <5>2. (IF x < k THEN x ELSE x + 1) = i
          BY <2>2, <4>2
        <5> QED
          BY <2>2, <2>4, <5>1, <5>2
      <4> QED
        BY <4>1, <4>3 DEF In
    <3> QED
      BY <3>1, <3>2
  <2>7. h # <<>>
    BY <2>2
  <2> QED
    BY <2>1, <2>3, <2>5, <2>6, <2>7
<1> QED
  BY <1>1, <1>2

\* A radio that did not wait is appended.
LEMMA AppendFacts ==
  ASSUME NEW h \in Seq(Handler), Once(h), NEW r \in Radio, NEW up \in BOOLEAN,
         \A u \in BOOLEAN : ~In(h, r, u)
  PROVE  /\ Append(h, <<r, up>>) \in Seq(Handler) /\ Once(Append(h, <<r, up>>))
         /\ \A q \in Radio, u \in BOOLEAN :
              In(Append(h, <<r, up>>), q, u) <=> In(h, q, u) \/ (q = r /\ u = up)
<1> DEFINE t == Append(h, <<r, up>>)  e == <<r, up>>
<1>0. \A i \in DOMAIN h : i \in 1 .. Len(h) /\ h[i] = <<h[i][1], h[i][2]>> /\ h[i][2] \in BOOLEAN
  BY DEF Handler
<1>1. t \in Seq(Handler) /\ Len(t) = Len(h) + 1 /\ t[Len(h) + 1] = e
      /\ \A i \in 1 .. Len(h) : t[i] = h[i]
  BY AppendProperties DEF Handler
<1>2. DOMAIN t = 1 .. (Len(h) + 1) /\ DOMAIN h = 1 .. Len(h) /\ Len(h) \in Nat
  BY <1>1
<1> HIDE DEF t
<1>3. \A i \in DOMAIN h : h[i][1] # r
  BY <1>0 DEF In
<1>4. Once(t)
  <2> SUFFICES ASSUME NEW i \in DOMAIN t, NEW j \in DOMAIN t, t[i][1] = t[j][1] PROVE i = j
    BY DEF Once
  <2>1. CASE i \in DOMAIN h /\ j \in DOMAIN h
    BY <1>1, <1>2, <2>1 DEF Once
  <2>2. CASE i \notin DOMAIN h /\ j \notin DOMAIN h
    BY <1>2, <2>2
  <2>3. CASE i \in DOMAIN h /\ j \notin DOMAIN h
    <3>1. j = Len(h) + 1 /\ t[j][1] = r /\ t[i] = h[i]
      BY <1>1, <1>2, <2>3
    <3> QED
      BY <1>3, <2>3, <3>1
  <2>4. CASE i \notin DOMAIN h /\ j \in DOMAIN h
    <3>1. i = Len(h) + 1 /\ t[i][1] = r /\ t[j] = h[j]
      BY <1>1, <1>2, <2>4
    <3> QED
      BY <1>3, <2>4, <3>1
  <2> QED
    BY <2>1, <2>2, <2>3, <2>4
<1>5. ASSUME NEW q \in Radio, NEW u \in BOOLEAN
      PROVE  In(t, q, u) <=> In(h, q, u) \/ (q = r /\ u = up)
  <2>1. ASSUME In(t, q, u) PROVE In(h, q, u) \/ (q = r /\ u = up)
    <3>1. PICK i \in DOMAIN t : t[i] = <<q, u>>
      BY <2>1 DEF In
    <3>2. CASE i \in DOMAIN h
      BY <1>1, <1>2, <3>1, <3>2 DEF In
    <3>3. CASE i = Len(h) + 1
      BY <1>1, <3>1, <3>3
    <3> QED
      BY <1>2, <3>2, <3>3
  <2>2. ASSUME In(h, q, u) PROVE In(t, q, u)
    <3>1. PICK i \in DOMAIN h : h[i] = <<q, u>>
      BY <2>2 DEF In
    <3>2. i \in DOMAIN t /\ t[i] = <<q, u>>
      BY <1>1, <1>2, <3>1
    <3> QED
      BY <3>2 DEF In
  <2>3. In(t, r, up)
    <3>1. Len(h) + 1 \in DOMAIN t /\ t[Len(h) + 1] = <<r, up>>
      BY <1>1, <1>2
    <3> QED
      BY <3>1 DEF In
  <2> QED
    BY <2>1, <2>2, <2>3
<1> QED
  BY <1>1, <1>4, <1>5 DEF t

\* The head is taken off.
LEMMA TailFacts ==
  ASSUME NEW h \in Seq(Handler), Once(h), h # <<>>
  PROVE  /\ Head(h) \in Handler /\ Head(h) = <<Head(h)[1], Head(h)[2]>>
         /\ In(h, Head(h)[1], Head(h)[2])
         /\ Tail(h) \in Seq(Handler) /\ Once(Tail(h))
         /\ \A q \in Radio, u \in BOOLEAN : In(Tail(h), q, u) <=> q # Head(h)[1] /\ In(h, q, u)
<1> DEFINE t == Tail(h)  e == Head(h)
<1>0. \A i \in DOMAIN h : i \in 1 .. Len(h) /\ h[i] = <<h[i][1], h[i][2]>> /\ h[i][2] \in BOOLEAN
  BY DEF Handler
<1>1. t \in Seq(Handler) /\ Len(t) = Len(h) - 1 /\ \A i \in 1 .. (Len(h) - 1) : t[i] = h[i + 1]
  BY HeadTailProperties
<1>2. e = h[1] /\ 1 \in DOMAIN h /\ e \in Handler
  BY HeadTailProperties
<1>3. DOMAIN t = 1 .. (Len(h) - 1) /\ DOMAIN h = 1 .. Len(h) /\ Len(h) \in Nat \ {0}
  BY <1>1, <1>2
<1> HIDE DEF t, e
<1>4. Once(t)
  <2> SUFFICES ASSUME NEW i \in DOMAIN t, NEW j \in DOMAIN t, t[i][1] = t[j][1] PROVE i = j
    BY DEF Once
  <2>1. i + 1 \in DOMAIN h /\ j + 1 \in DOMAIN h /\ h[i + 1][1] = h[j + 1][1]
    BY <1>1, <1>3
  <2>2. i + 1 = j + 1
    BY <2>1 DEF Once
  <2> QED
    BY <1>3, <2>2
<1>5. ASSUME NEW q \in Radio, NEW u \in BOOLEAN PROVE In(t, q, u) <=> q # e[1] /\ In(h, q, u)
  <2>1. ASSUME In(t, q, u) PROVE q # e[1] /\ In(h, q, u)
    <3>1. PICK i \in DOMAIN t : t[i] = <<q, u>>
      BY <2>1 DEF In
    <3>2. i + 1 \in DOMAIN h /\ h[i + 1] = <<q, u>> /\ i + 1 # 1
      BY <1>1, <1>3, <3>1
    <3>3. h[i + 1][1] # h[1][1]
      BY <1>2, <3>2 DEF Once
    <3> QED
      BY <1>2, <3>2, <3>3 DEF In
  <2>2. ASSUME q # e[1], In(h, q, u) PROVE In(t, q, u)
    <3>1. PICK i \in DOMAIN h : h[i] = <<q, u>>
      BY <2>2 DEF In
    <3>2. i # 1
      BY <1>2, <2>2, <3>1
    <3>3. i - 1 \in DOMAIN t /\ t[i - 1] = h[i]
      <4>1. i - 1 \in 1 .. (Len(h) - 1) /\ (i - 1) + 1 = i
        BY <1>3, <3>2
      <4> QED
        BY <1>1, <1>3, <4>1
    <3> QED
      BY <3>1, <3>3 DEF In
  <2> QED
    BY <2>1, <2>2
<1>6. e = <<e[1], e[2]>> /\ In(h, e[1], e[2])
  BY <1>0, <1>2 DEF In
<1> QED
  BY <1>1, <1>2, <1>4, <1>5, <1>6 DEF t, e
-----------------------------------------------------------------------------
(***************************************************************************)
(* What the functions keep, whatever they are called for.                  *)
(***************************************************************************)
Mishap == {"fork", "freed", "overrun"}

\* The types of the record the operators work on.
WState ==
  [wdev : [Radio -> Wdev], handlers : Seq(Handler), handler_pending : BOOLEAN,
   mishap : SUBSET Mishap, fault : {"none", "fork", "freed"}, config_init : BOOLEAN]

Waits(S, r, up) == In(S.handlers, r, up)

Well(S) ==
  /\ S \in WState /\ Once(S.handlers)
  /\ \A r \in Radio, up \in BOOLEAN : Waits(S, r, up) => r \in Serialize

Runs(S, r) == S.wdev[r].script_task # "none"

\* A handler waits only while one is taken to be running.
Held(S) == S.handlers # <<>> => S.handler_pending

\* Serialized scripts exclude each other.
Excl(S) ==
  S.mishap \cap {"overrun", "freed"} = {} =>
    /\ \A r \in Serialize : Runs(S, r) => S.handler_pending
    /\ \A r, q \in Serialize : Runs(S, r) /\ Runs(S, q) => r = q

\* What is taken to be running runs.
Runner(S) ==
  S.mishap \cap {"fork", "freed"} = {} /\ S.handler_pending => \E r \in Serialize : Runs(S, r)

\* A serialized script has ended and its turn is not yet given on.
Alone(S) ==
  S.mishap \cap {"overrun", "freed"} = {} =>
    S.handler_pending /\ \A q \in Serialize : ~Runs(S, q)

\* From S to N only the radio r has changed, and the queue and the turns are in order if
\* they were.
Step(S, N, r) ==
  /\ Well(N)
  /\ \A q \in Radio \ {r} :
       N.wdev[q] = S.wdev[q] /\ \A up \in BOOLEAN : Waits(N, q, up) <=> Waits(S, q, up)
  /\ S.mishap \subseteq N.mishap /\ N.fault = S.fault /\ N.config_init = S.config_init
  /\ Held(S) => Held(N)
  /\ Excl(S) => Excl(N)
  /\ Runner(S) => Runner(N)
  /\ r \in Serialize /\ Alone(S) => Alone(N)

\* Doing nothing is such a step.
LEMMA StepRefl == ASSUME NEW S, Well(S), NEW r PROVE Step(S, S, r)
BY DEF Step

\* So are two of them, one after the other.
LEMMA StepTrans ==
  ASSUME NEW S, NEW T, NEW U, NEW r, Step(S, T, r), Step(T, U, r)
  PROVE  Step(S, U, r)
<1>1. \A q \in Radio \ {r} :
        U.wdev[q] = S.wdev[q] /\ \A up \in BOOLEAN : Waits(U, q, up) <=> Waits(S, q, up)
  BY DEF Step
<1>2. S.mishap \subseteq U.mishap /\ U.fault = S.fault /\ U.config_init = S.config_init
  BY DEF Step
<1> QED
  BY <1>1, <1>2 DEF Step

\* The record of one radio is replaced.
Put(S, r, w) == [S EXCEPT !.wdev[r] = w]

\* What replacing the record of a radio leaves alone.
LEMMA PutFacts ==
  ASSUME NEW S, S \in WState, NEW r \in Radio, NEW w \in Wdev
  PROVE  /\ Put(S, r, w) \in WState
         /\ Put(S, r, w).wdev[r] = w
         /\ \A q \in Radio \ {r} : Put(S, r, w).wdev[q] = S.wdev[q]
         /\ Put(S, r, w).handlers = S.handlers
         /\ Put(S, r, w).handler_pending = S.handler_pending
         /\ Put(S, r, w).mishap = S.mishap
         /\ Put(S, r, w).fault = S.fault
         /\ Put(S, r, w).config_init = S.config_init
BY DEF Put, WState

\* A change of the record that starts and ends no script is such a step.
LEMMA PutStep ==
  ASSUME NEW S, Well(S), NEW r \in Radio, NEW w \in Wdev,
         w.script_task = S.wdev[r].script_task
  PROVE  /\ Step(S, Put(S, r, w), r) /\ Put(S, r, w).wdev[r] = w
         /\ \A up \in BOOLEAN : Waits(Put(S, r, w), r, up) <=> Waits(S, r, up)
         /\ Put(S, r, w).mishap = S.mishap
<1> DEFINE N == Put(S, r, w)
<1>1. /\ N \in WState
      /\ N.wdev[r] = w
      /\ \A q \in Radio \ {r} : N.wdev[q] = S.wdev[q]
      /\ N.handlers = S.handlers
      /\ N.handler_pending = S.handler_pending
      /\ N.mishap = S.mishap
      /\ N.fault = S.fault
      /\ N.config_init = S.config_init
  BY PutFacts DEF Well
<1> HIDE DEF N
<1>2. \A q \in Radio, up \in BOOLEAN : Waits(N, q, up) <=> Waits(S, q, up)
  BY <1>1 DEF Waits
<1>3. Well(N)
  BY <1>1, <1>2 DEF Well
<1>4. \A q \in Radio : Runs(N, q) <=> Runs(S, q)
  BY <1>1 DEF Runs
<1>5. \A q \in Serialize : q \in Radio
  BY RadioAssumption
<1>6. Held(S) => Held(N)
  BY <1>1 DEF Held
<1>7. Excl(S) => Excl(N)
  BY <1>1, <1>4, <1>5 DEF Excl
<1>8. Runner(S) => Runner(N)
  BY <1>1, <1>4, <1>5 DEF Runner
<1>9. Alone(S) => Alone(N)
  BY <1>1, <1>4, <1>5 DEF Alone
<1> QED
  BY <1>1, <1>2, <1>3, <1>6, <1>7, <1>8, <1>9 DEF Step, N

\* wireless_handler_stop() is such a step.
LEMMA StopStep ==
  ASSUME NEW S, Well(S), NEW r \in Radio
  PROVE  LET N == wireless_handler_stop(S, r) IN
         /\ Step(S, N, r) /\ N.wdev = S.wdev
         /\ \A up \in BOOLEAN : ~Waits(N, r, up)
         /\ N.handler_pending = S.handler_pending /\ N.mishap = S.mishap
<1> DEFINE N == wireless_handler_stop(S, r)  h == Without(S.handlers, r)
<1>1. S \in WState /\ S.handlers \in Seq(Handler) /\ Once(S.handlers)
  BY DEF Well, WState
<1>2. /\ h \in Seq(Handler) /\ Once(h)
      /\ \A q \in Radio, up \in BOOLEAN : In(h, q, up) <=> q # r /\ In(S.handlers, q, up)
      /\ S.handlers = <<>> => h = <<>>
  BY <1>1, WithoutFacts
<1>3. N = [S EXCEPT !.handlers = h]
  BY <1>1 DEF wireless_handler_stop, Without, WState
<1> HIDE DEF N, h
<1>4. /\ N \in WState
      /\ N.wdev = S.wdev
      /\ N.handlers = h
      /\ N.handler_pending = S.handler_pending
      /\ N.mishap = S.mishap
      /\ N.fault = S.fault
      /\ N.config_init = S.config_init
  BY <1>1, <1>2, <1>3 DEF WState
<1>5. \A q \in Radio, up \in BOOLEAN : Waits(N, q, up) <=> q # r /\ Waits(S, q, up)
  BY <1>2, <1>4 DEF Waits
<1>6. Well(N)
  BY <1>2, <1>4, <1>5 DEF Well
<1>7. \A q : Runs(N, q) <=> Runs(S, q)
  BY <1>4 DEF Runs
<1>8. /\ Held(S) => Held(N)
      /\ Excl(S) => Excl(N)
      /\ Runner(S) => Runner(N)
      /\ Alone(S) => Alone(N)
  BY <1>2, <1>4, <1>7 DEF Held, Excl, Runner, Alone
<1> QED
  BY <1>4, <1>5, <1>6, <1>8 DEF Step, N

\* The configuration a teardown script is given.
Old(w) == IF w.prev_config # None THEN w.prev_config ELSE w.conf

\* What wireless_device_run_handler() does to the radio w when it does not wait.
Ran(w, n, up, forks) ==
  /\ n.script_task = IF ~forks THEN "none" ELSE IF up THEN "setup" ELSE "teardown"
  /\ n.prev_config = IF up THEN w.prev_config ELSE None
  /\ n.given = IF forks THEN (IF up THEN w.conf ELSE Old(w)) ELSE None
  /\ n.applied = IF forks /\ up THEN w.conf ELSE w.applied
  /\ n.alive = w.alive /\ n.state = w.state /\ n.config_state = w.config_state
  /\ n.autostart = w.autostart /\ n.disabled = w.disabled /\ n.conf = w.conf
  /\ n.cancel = w.cancel /\ n.timeout = w.timeout /\ n.retry = w.retry
  /\ n.retry_setup_failed = w.retry_setup_failed /\ n.script_proc = w.script_proc
  /\ n.kill_request = w.kill_request /\ n.vif = w.vif /\ n.ifname = w.ifname
  /\ n.linked = w.linked

\* A script is run or waits.
LEMMA RunStep ==
  ASSUME NEW S, Well(S), NEW r \in Radio, NEW up \in BOOLEAN
  PROVE  LET N == wireless_device_run_handler(S, r, up) IN
         /\ Step(S, N, r)
         /\ r \in Serialize => Held(N)
         /\ \/ /\ r \in Serialize /\ S.handler_pending
               /\ N.wdev = S.wdev /\ N.mishap = S.mishap /\ N.handler_pending
               /\ \A u \in BOOLEAN : Waits(N, r, u) <=> u = up
            \/ /\ ~(r \in Serialize /\ S.handler_pending)
               /\ Ran(S.wdev[r], N.wdev[r], up, S.fault # "fork")
               /\ \A u \in BOOLEAN : ~Waits(N, r, u)
               /\ S.fault = "fork" => "fork" \in N.mishap
<1> DEFINE T == wireless_handler_stop(S, r)
<1> DEFINE N == wireless_device_run_handler(S, r, up)
<1>1. /\ Step(S, T, r) /\ T.wdev = S.wdev
      /\ \A u \in BOOLEAN : ~Waits(T, r, u)
      /\ T.handler_pending = S.handler_pending /\ T.mishap = S.mishap
  BY StopStep
<1>2. Well(T) /\ T \in WState /\ S \in WState /\ T.fault = S.fault
  BY <1>1 DEF Step, Well
<1>0. \A q \in Serialize : q \in Radio
  BY RadioAssumption
<1>3. CASE T.handler_pending /\ r \in Serialize
  <2> DEFINE h == Append(T.handlers, <<r, up>>)
  <2>1. N = [T EXCEPT !.handlers = h]
    BY <1>3 DEF wireless_device_run_handler
  <2>2. /\ h \in Seq(Handler) /\ Once(h)
        /\ \A q \in Radio, u \in BOOLEAN : In(h, q, u) <=> Waits(T, q, u) \/ (q = r /\ u = up)
    BY <1>1, <1>2, AppendFacts DEF Well, WState, Waits
  <2> HIDE DEF h, N, T
  <2>3. /\ N \in WState
        /\ N.wdev = T.wdev
        /\ N.handlers = h
        /\ N.handler_pending = T.handler_pending
        /\ N.mishap = T.mishap
        /\ N.fault = T.fault
        /\ N.config_init = T.config_init
    BY <1>2, <2>1, <2>2 DEF WState
  <2>4. \A q \in Radio, u \in BOOLEAN : Waits(N, q, u) <=> Waits(T, q, u) \/ (q = r /\ u = up)
    BY <2>2, <2>3 DEF Waits
  <2>5. Well(N)
    BY <1>2, <1>3, <2>2, <2>3, <2>4 DEF Well
  <2>6. \A q : Runs(N, q) <=> Runs(T, q)
    BY <2>3 DEF Runs
  <2>7. /\ Held(N)
        /\ Excl(T) => Excl(N)
        /\ Runner(T) => Runner(N)
        /\ Alone(T) => Alone(N)
    BY <1>3, <2>3, <2>6 DEF Held, Excl, Runner, Alone
  <2>8. Step(T, N, r)
    BY <2>3, <2>4, <2>5, <2>7 DEF Step
  <2>9. Step(S, N, r)
    BY <1>1, <2>8, StepTrans
  <2>10. \A u \in BOOLEAN : Waits(N, r, u) <=> u = up
    BY <1>1, <2>4
  <2> QED
    BY <1>1, <1>3, <2>3, <2>7, <2>9, <2>10 DEF N
<1>4. CASE ~(T.handler_pending /\ r \in Serialize)
  <2> DEFINE w == T.wdev[r]  forks == T.fault # "fork"
             pend == T.handler_pending \/ r \in Serialize
             mis == IF forks THEN T.mishap ELSE T.mishap \cup {"fork"}
             config == IF ~up /\ w.prev_config # None THEN w.prev_config ELSE w.conf
             pc == IF up THEN w.prev_config ELSE None
             fd == w.script_proc_fd \/ (up /\ Process # {})
             st == IF ~forks THEN "none" ELSE IF up THEN "setup" ELSE "teardown"
             gv == IF forks THEN config ELSE None
             ap == IF forks /\ up THEN config ELSE w.applied
             n == [w EXCEPT !.prev_config = pc, !.script_proc_fd = fd, !.script_task = st,
                            !.given = gv, !.applied = ap]
  <2>1. N = [T EXCEPT !.handler_pending = pend, !.mishap = mis, !.wdev[r] = n]
    <3>1. N = IF T.handler_pending /\ r \in Serialize
                THEN [T EXCEPT !.handlers = Append(@, <<r, up>>)]
                ELSE [T EXCEPT !.handler_pending = pend, !.mishap = mis, !.wdev[r] = n]
      BY DEF wireless_device_run_handler
    <3> HIDE DEF n, N, T, pend, mis
    <3> QED
      BY <1>4, <3>1
  <2>0. n \in Wdev /\ Ran(w, n, up, forks) /\ (n.script_task # "none" <=> forks)
    <3>1. w \in Wdev /\ w = S.wdev[r] /\ forks \in BOOLEAN
      BY <1>1, <1>2 DEF WState
    <3>2. w.conf \in Conf /\ w.prev_config \in Conf \cup {None} /\ w.applied \in Conf \cup {None}
      <4> HIDE DEF w
      <4> QED
        BY <3>1 DEF Wdev
    <3> HIDE DEF w, forks
    <3>3. /\ pc \in Conf \cup {None} /\ gv \in Conf \cup {None} /\ ap \in Conf \cup {None}
          /\ fd \in BOOLEAN /\ st \in {"none", "setup", "teardown"}
      BY <3>2
    <3>4. /\ gv = (IF forks THEN (IF up THEN w.conf ELSE Old(w)) ELSE None)
          /\ ap = IF forks /\ up THEN w.conf ELSE w.applied
          /\ st = IF ~forks THEN "none" ELSE IF up THEN "setup" ELSE "teardown"
      BY <3>1, <3>2 DEF Old
    <3>5. pc = IF up THEN w.prev_config ELSE None
      OBVIOUS
    <3>6. n = [w EXCEPT !.prev_config = pc, !.script_proc_fd = fd, !.script_task = st,
                        !.given = gv, !.applied = ap]
      OBVIOUS
    <3> HIDE DEF pc, fd, st, gv, ap, n
    <3>7. /\ n \in Wdev
          /\ n.script_task = st /\ n.prev_config = pc /\ n.given = gv /\ n.applied = ap
          /\ n.alive = w.alive /\ n.state = w.state /\ n.config_state = w.config_state
          /\ n.autostart = w.autostart /\ n.disabled = w.disabled /\ n.conf = w.conf
          /\ n.cancel = w.cancel /\ n.timeout = w.timeout /\ n.retry = w.retry
          /\ n.retry_setup_failed = w.retry_setup_failed /\ n.script_proc = w.script_proc
          /\ n.kill_request = w.kill_request /\ n.vif = w.vif /\ n.ifname = w.ifname
          /\ n.linked = w.linked
      <4>1. n \in Wdev
        <5>1. w \in Wdev
          BY <3>1
        <5> QED
          BY ONLY <5>1, <3>3, <3>6, ZenonT(90) DEF Wdev
      <4> USE <3>1, <3>3, <3>6 DEF Wdev
      <4>2. n.script_task = st /\ n.prev_config = pc /\ n.given = gv /\ n.applied = ap
        OBVIOUS
      <4>3. /\ n.alive = w.alive /\ n.state = w.state /\ n.config_state = w.config_state
            /\ n.autostart = w.autostart /\ n.disabled = w.disabled /\ n.conf = w.conf
            /\ n.cancel = w.cancel /\ n.timeout = w.timeout /\ n.retry = w.retry
            /\ n.retry_setup_failed = w.retry_setup_failed /\ n.script_proc = w.script_proc
            /\ n.kill_request = w.kill_request /\ n.vif = w.vif /\ n.ifname = w.ifname
            /\ n.linked = w.linked
        OBVIOUS
      <4> QED
        BY <4>1, <4>2, <4>3
    <3> QED
      BY <3>1, <3>4, <3>5, <3>7 DEF Ran
  <2>2. pend \in BOOLEAN /\ mis \in SUBSET Mishap /\ T.mishap \subseteq mis
        /\ (~forks => "fork" \in mis)
    BY <1>2 DEF WState, Mishap
  <2> HIDE DEF N, T, n, config, pc, fd, st, gv, ap
  <2>3. /\ N \in WState
        /\ N.wdev[r] = n
        /\ \A q \in Radio \ {r} : N.wdev[q] = T.wdev[q]
        /\ N.handlers = T.handlers
        /\ N.handler_pending = pend
        /\ N.mishap = mis
        /\ N.fault = T.fault
        /\ N.config_init = T.config_init
    <3> HIDE DEF pend, mis, n, w, forks
    <3> QED
      BY <1>2, <2>0, <2>1, <2>2 DEF WState
  <2>4. \A q \in Radio, u \in BOOLEAN : Waits(N, q, u) <=> Waits(T, q, u)
    BY <2>3 DEF Waits
  <2>5. Well(N)
    BY <1>2, <2>3, <2>4 DEF Well
  <2>6. \A q \in Radio \ {r} : Runs(N, q) <=> Runs(T, q)
    BY <2>3 DEF Runs
  <2>7. Runs(N, r) <=> forks
    BY <2>0, <2>3 DEF Runs
  <2> HIDE DEF forks, w
  <2>8. Held(T) => Held(N)
    BY <2>3 DEF Held
  <2>9. Excl(T) => Excl(N)
    <3> SUFFICES ASSUME Excl(T), N.mishap \cap {"overrun", "freed"} = {}
                 PROVE  /\ \A q \in Serialize : Runs(N, q) => N.handler_pending
                        /\ \A p, q \in Serialize : Runs(N, p) /\ Runs(N, q) => p = q
      BY DEF Excl
    <3>1. /\ \A q \in Serialize : Runs(T, q) => T.handler_pending
          /\ \A p, q \in Serialize : Runs(T, p) /\ Runs(T, q) => p = q
      BY <2>2, <2>3 DEF Excl
    <3> QED
      BY <1>0, <1>4, <2>3, <2>6, <3>1
  <2>10. Runner(T) => Runner(N)
    <3> SUFFICES ASSUME Runner(T), N.mishap \cap {"fork", "freed"} = {}, N.handler_pending
                 PROVE  \E q \in Serialize : Runs(N, q)
      BY DEF Runner
    <3>1. CASE r \in Serialize
      BY <2>2, <2>3, <2>7, <3>1
    <3>2. CASE r \notin Serialize
      <4>1. PICK q \in Serialize : Runs(T, q)
        BY <2>2, <2>3, <3>2 DEF Runner
      <4> QED
        BY <1>0, <2>6, <3>2, <4>1
    <3> QED
      BY <3>1, <3>2
  <2>11. r \in Serialize /\ Alone(T) => Alone(N)
    BY <1>4, <2>2, <2>3 DEF Alone
  <2>12. Step(T, N, r)
    BY <2>2, <2>3, <2>4, <2>5, <2>8, <2>9, <2>10, <2>11 DEF Step
  <2>13. Step(S, N, r)
    BY <1>1, <2>12, StepTrans
  <2>14. r \in Serialize => Held(N)
    BY <2>3 DEF Held
  <2>15. \A u \in BOOLEAN : ~Waits(N, r, u)
    BY <1>1, <2>4
  <2>16. S.fault = "fork" => "fork" \in N.mishap
    BY <1>2, <2>2, <2>3 DEF forks
  <2>17. Ran(S.wdev[r], N.wdev[r], up, S.fault # "fork")
    BY <1>1, <1>2, <2>0, <2>3 DEF forks, w
  <2> QED
    BY <1>1, <1>4, <2>13, <2>14, <2>15, <2>16, <2>17 DEF N
<1> QED
  BY <1>3, <1>4

-----------------------------------------------------------------------------
(***************************************************************************)
(* The inductive invariant.  Of a radio w, t and f say that its handler    *)
(* waits to be run for up and for down.                                    *)
(***************************************************************************)

\* A radio by itself.
AtRest(w) ==
  /\ w.script_task = "none" /\ ~w.timeout /\ ~w.cancel /\ ~w.kill_request
  /\ w.config_state = "IFC_NORMAL" /\ w.applied = None

Timed(w) ==
  /\ w.timeout => w.cancel \/ w.state = "IFS_TEARDOWN"
  /\ w.cancel => w.timeout

Retries(w) ==
  w.state \in {"IFS_SETUP", "IFS_UP"} /\ ~w.cancel => w.retry >= 0 /\ ~w.retry_setup_failed

Tries(w) == ~w.retry_setup_failed /\ w.autostart => w.retry >= 0

Named(w) == w.linked => w.ifname /\ w.vif # None

Calm(w) ==
  /\ ~w.alive => w = Gone
  /\ w.state = "IFS_DOWN" => AtRest(w)
  /\ Timed(w) /\ Retries(w) /\ Tries(w) /\ Named(w)
  /\ w.script_task = "teardown" => w.state = "IFS_TEARDOWN"
  /\ w.script_task = "setup" => w.state \in {"IFS_SETUP", "IFS_UP"}
  /\ w.kill_request => w.state = "IFS_TEARDOWN" /\ w.script_proc # {}

\* A waiting handler is the one its radio needs.
Waiting(w, t, f) ==
  /\ t => w.state \in {"IFS_SETUP", "IFS_UP"}
  /\ f => w.state = "IFS_TEARDOWN" /\ w.script_task = "none"

\* The script of a setup that waits will be given what its teardown will be given.
SetupData(w, t) == t => ~w.cancel /\ w.prev_config \in {None, w.conf}

\* The configuration of the last setup is the one a teardown is given.
Data(w) ==
  /\ w.script_task = "teardown" /\ w.applied # None => w.given = w.applied
  /\ w.script_task # "teardown" /\ w.applied # None => Old(w) = w.applied

Driven(w, t, f) ==
  w.state \in {"IFS_SETUP", "IFS_TEARDOWN"} => w.script_task # "none" \/ t \/ f \/ w.timeout

\* All of it; loose: the configuration may have changed meanwhile.
LooseInv(r, w, t, f, forked) ==
  /\ Calm(w) /\ Waiting(w, t, f)
  /\ ~forked => /\ Driven(w, t, f)
                /\ r \notin Serialize \cap Reconf => Data(w) /\ SetupData(w, t)

RadioInv(S, r) ==
  LET w == S.wdev[r] t == Waits(S, r, TRUE) f == Waits(S, r, FALSE) IN
  /\ LooseInv(r, w, t, f, "fork" \in S.mishap)
  /\ "fork" \notin S.mishap /\ r \notin Serialize \cap Reconf /\ t =>
       w.config_state = "IFC_NORMAL"

Inv(S) ==
  /\ Well(S) /\ Held(S) /\ Excl(S) /\ Runner(S)
  /\ \A r \in Radio : RadioInv(S, r)

\* The number of retries is in the range of the counter.
LEMMA RetryRange ==
  WIRELESS_SETUP_RETRY \in -1 .. WIRELESS_SETUP_RETRY /\ WIRELESS_SETUP_RETRY >= 0
BY RadioAssumption

\* A configured radio before its first setup.
LEMMA FreshFacts ==
  ASSUME NEW c, c.disabled \in BOOLEAN, c.conf \in Conf
  PROVE  /\ Fresh(c) \in Wdev /\ Fresh(c).alive /\ Fresh(c).state = "IFS_DOWN"
         /\ Fresh(c).script_task = "none" /\ Calm(Fresh(c)) /\ Fresh(c).applied = None
<1> DEFINE w == Fresh(c)
<1>1. w \in Wdev
  BY RadioAssumption DEF Fresh, Wdev, State, ConfigState
<1>2. /\ w.alive /\ w.state = "IFS_DOWN" /\ w.script_task = "none"
      /\ ~w.timeout /\ ~w.cancel /\ ~w.kill_request
      /\ w.config_state = "IFC_NORMAL" /\ w.applied = None
      /\ w.retry = WIRELESS_SETUP_RETRY /\ ~w.linked
  BY DEF Fresh
<1>3. Calm(w)
  <2> HIDE DEF w
  <2> QED
    BY <1>2, RadioAssumption DEF Calm, AtRest, Timed, Retries, Tries, Named
<1> QED
  BY <1>1, <1>2, <1>3

\* A radio that does not exist is at rest.
LEMMA GoneFacts ==
  /\ Gone \in Wdev /\ ~Gone.alive /\ Gone.state = "IFS_DOWN" /\ Gone.script_task = "none"
  /\ Calm(Gone) /\ Gone.applied = None
<1> DEFINE o == CHOOSE x \in Options : TRUE  w == Fresh(o)
<1>1. o \in Options
  BY RadioAssumption
<1>2. Gone = [w EXCEPT !.alive = FALSE]
  BY DEF Gone
<1> HIDE DEF o
<1>3. PICK c \in Config, r \in Radio : o = c[r] /\ o # None
  <2>1. o \in UNION {{c[r] : r \in Radio} : c \in Config} /\ o # None
    BY <1>1 DEF Options
  <2>2. PICK c \in Config : o \in {c[r] : r \in Radio}
    BY <2>1
  <2> QED
    BY <2>1, <2>2
<1>4. c[r] \in [disabled : BOOLEAN, conf : Conf, vif : Vif]
  BY <1>3, RadioAssumption
<1>5. o.disabled \in BOOLEAN /\ o.conf \in Conf
  BY <1>3, <1>4
<1>6. /\ w \in Wdev /\ w.state = "IFS_DOWN" /\ w.script_task = "none"
      /\ Calm(w) /\ w.applied = None
  BY <1>5, FreshFacts
<1> HIDE DEF w
<1>7. /\ Gone \in Wdev
      /\ ~Gone.alive /\ Gone.state = "IFS_DOWN" /\ Gone.script_task = "none"
      /\ Gone.applied = None
  BY <1>2, <1>6 DEF Wdev
<1>8. Calm(Gone)
  BY <1>2, <1>6, <1>7 DEF Calm, AtRest, Timed, Retries, Tries, Named, Wdev
<1> QED
  BY <1>7, <1>8

\* Only a radio that exists is up, is on its way or has a timer or a script.
LEMMA LivesIf ==
  ASSUME NEW w \in Wdev, Calm(w),
         w.state # "IFS_DOWN" \/ w.timeout \/ w.cancel \/ w.script_task # "none"
  PROVE  w.alive
BY GoneFacts DEF Calm, AtRest

\* A radio that is left alone.
LEMMA Carry ==
  ASSUME NEW S, NEW N, NEW q, N.wdev[q] = S.wdev[q],
         \A up \in BOOLEAN : Waits(N, q, up) <=> Waits(S, q, up),
         "fork" \in S.mishap => "fork" \in N.mishap, RadioInv(S, q)
  PROVE  RadioInv(N, q)
<1>1. (Waits(N, q, TRUE) <=> Waits(S, q, TRUE)) /\ (Waits(N, q, FALSE) <=> Waits(S, q, FALSE))
  OBVIOUS
<1> QED
  BY <1>1 DEF RadioInv, LooseInv, Waiting, Driven, SetupData

\* The other radios stay as they are.
LEMMA OthersKept ==
  ASSUME NEW S, NEW N, NEW r \in Radio, Step(S, N, r), NEW q \in Radio, q # r, RadioInv(S, q)
  PROVE  RadioInv(N, q)
<1>1. N.wdev[q] = S.wdev[q] /\ (\A up \in BOOLEAN : Waits(N, q, up) <=> Waits(S, q, up))
      /\ ("fork" \in S.mishap => "fork" \in N.mishap)
  BY DEF Step
<1> QED
  BY <1>1, Carry

\* The invariant is kept if the radio that changes keeps its part of it.
LEMMA InvStep ==
  ASSUME NEW S, NEW N, NEW r \in Radio, Inv(S), Step(S, N, r), RadioInv(N, r)
  PROVE  Inv(N)
<1>1. Well(N) /\ Held(N) /\ Excl(N) /\ Runner(N)
  BY DEF Inv, Step
<1>2. \A q \in Radio : RadioInv(N, q)
  BY OthersKept DEF Inv
<1> QED
  BY <1>1, <1>2 DEF Inv

-----------------------------------------------------------------------------
(***************************************************************************)
(* A radio is set up.                                                      *)
(***************************************************************************)
Accepts(w) == ~w.disabled /\ ~w.retry_setup_failed /\ w.autostart

Raisable(r, w) ==
  /\ w.alive /\ ~w.retry_setup_failed /\ w.retry >= 0
  /\ Tries(w) /\ Named(w) /\ ~w.kill_request
  /\ w.timeout <=> w.cancel
  /\ w.script_task # "teardown"
  /\ r \in Serialize \ Reconf => w.applied = None /\ ~w.cancel

Raised(w) == [w EXCEPT !.prev_config = None, !.state = "IFS_SETUP"]

\* What does not change when a script is started.
SameOptions(w, n) ==
  /\ n.alive = w.alive /\ n.config_state = w.config_state /\ n.autostart = w.autostart
  /\ n.disabled = w.disabled /\ n.retry_setup_failed = w.retry_setup_failed

\* The record of a radio for which a setup is started.
LEMMA RaisedFacts ==
  ASSUME NEW w \in Wdev, NEW r, Raisable(r, w)
  PROVE  /\ Raised(w) \in Wdev /\ Raised(w).script_task = w.script_task
         /\ Raised(w).state = "IFS_SETUP" /\ Raised(w).prev_config = None
         /\ Raised(w).applied = w.applied /\ Raised(w).cancel = w.cancel
         /\ SameOptions(w, Raised(w)) /\ Raisable(r, Raised(w))
         /\ Raised(w).conf = w.conf /\ Calm(Raised(w))
<1> DEFINE n == Raised(w)
<1>1. n \in Wdev
  BY DEF Raised, Wdev, State
<1>2. /\ n.script_task = w.script_task
      /\ n.state = "IFS_SETUP" /\ n.prev_config = None
      /\ n.applied = w.applied /\ n.cancel = w.cancel /\ n.conf = w.conf
  BY DEF Raised, Wdev
<1>3. SameOptions(w, n)
  BY DEF Raised, Wdev, SameOptions
<1>4. Raisable(r, n)
  BY DEF Raised, Wdev, Raisable, Tries, Named
<1>5. Calm(n)
  <2> HIDE DEF n
  <2>1. n.script_task \in {"none", "setup", "teardown"}
    BY <1>1 DEF Wdev
  <2> QED
    BY <1>2, <1>4, <2>1 DEF Raisable, Calm, Timed, Retries
<1> QED
  BY <1>1, <1>2, <1>3, <1>4, <1>5

\* A setup script that was started or waits.
LEMMA RaiseInv ==
  ASSUME NEW S, Well(S), NEW r \in Radio, Raisable(r, S.wdev[r])
  PROVE  LET N == wireless_device_run_handler(Put(S, r, Raised(S.wdev[r])), r, TRUE) IN
         /\ Step(S, N, r) /\ SameOptions(S.wdev[r], N.wdev[r])
         /\ N.wdev[r].state = "IFS_SETUP"
         /\ LooseInv(r, N.wdev[r], Waits(N, r, TRUE), Waits(N, r, FALSE), "fork" \in N.mishap)
<1> DEFINE w == S.wdev[r]  v == Raised(w)  T == Put(S, r, v)
           N == wireless_device_run_handler(T, r, TRUE)  n == N.wdev[r]
<1>1. w \in Wdev
  BY DEF Well, WState
<1>2. /\ v \in Wdev /\ v.script_task = w.script_task
      /\ v.state = "IFS_SETUP" /\ v.prev_config = None
      /\ v.applied = w.applied /\ v.cancel = w.cancel
      /\ SameOptions(w, v) /\ Raisable(r, v) /\ v.conf = w.conf /\ Calm(v)
  BY <1>1, RaisedFacts
<1> HIDE DEF v, w
<1>3. Step(S, T, r) /\ T.wdev[r] = v /\ Well(T)
  BY <1>2, PutStep DEF Step, w
<1> HIDE DEF T
<1>4. /\ Step(T, N, r)
      /\ \/ /\ r \in Serialize /\ T.handler_pending
            /\ N.wdev = T.wdev /\ N.mishap = T.mishap /\ N.handler_pending
            /\ \A u \in BOOLEAN : Waits(N, r, u) <=> u = TRUE
         \/ /\ ~(r \in Serialize /\ T.handler_pending)
            /\ Ran(T.wdev[r], N.wdev[r], TRUE, T.fault # "fork")
            /\ \A u \in BOOLEAN : ~Waits(N, r, u)
            /\ T.fault = "fork" => "fork" \in N.mishap
  BY <1>3, RunStep
<1>5. Step(S, N, r)
  BY <1>3, <1>4, StepTrans
<1> HIDE DEF N
<1>6. CASE /\ r \in Serialize /\ N.wdev = T.wdev
           /\ \A u \in BOOLEAN : Waits(N, r, u) <=> u = TRUE
  <2>1. n = v /\ Waits(N, r, TRUE) /\ ~Waits(N, r, FALSE)
    BY <1>3, <1>6
  <2>2. r \notin Serialize \cap Reconf => Data(v) /\ ~v.cancel
    BY <1>2, <1>6 DEF Data, Raisable
  <2> HIDE DEF n
  <2>3. LooseInv(r, n, Waits(N, r, TRUE), Waits(N, r, FALSE), "fork" \in N.mishap)
    BY <1>2, <2>1, <2>2 DEF LooseInv, Waiting, Driven, SetupData
  <2>4. n.state = "IFS_SETUP" /\ SameOptions(w, n)
    BY <1>2, <2>1
  <2> QED
    BY <1>5, <2>3, <2>4 DEF w, v, T, N, n
<1>7. CASE /\ Ran(T.wdev[r], N.wdev[r], TRUE, T.fault # "fork")
           /\ \A u \in BOOLEAN : ~Waits(N, r, u)
           /\ T.fault = "fork" => "fork" \in N.mishap
  <2>1. Ran(v, n, TRUE, T.fault # "fork") /\ ~Waits(N, r, TRUE) /\ ~Waits(N, r, FALSE)
    BY <1>3, <1>7
  <2> HIDE DEF n
  <2>2. n.state = "IFS_SETUP" /\ SameOptions(w, n)
    BY <1>2, <2>1 DEF Ran, SameOptions
  <2>3. Calm(n)
    BY <1>2, <2>1 DEF Ran, Raisable, Calm, Timed, Retries, Tries, Named
  <2>4. "fork" \notin N.mishap => n.script_task = "setup" /\ n.applied = v.conf /\ Old(n) = v.conf
    BY <1>2, <1>7, <2>1 DEF Ran, Old
  <2>5. LooseInv(r, n, Waits(N, r, TRUE), Waits(N, r, FALSE), "fork" \in N.mishap)
    BY <2>1, <2>2, <2>3, <2>4 DEF LooseInv, Waiting, Driven, SetupData, Data
  <2> QED
    BY <1>5, <2>2, <2>5 DEF w, v, T, N, n
<1> QED
  BY <1>4, <1>6, <1>7

Refuses(S, r, force) ==
  LET w == S.wdev[r] IN
  \/ w.disabled \/ w.retry_setup_failed \/ ~w.autostart
  \/ ~force /\ (w.state # "IFS_DOWN" \/ S.config_init)

\* set_up() refuses or starts a setup.
LEMMA SetUpForm ==
  ASSUME NEW S, NEW r, NEW force
  PROVE  /\ Refuses(S, r, force) => set_up(S, r, force) = S
         /\ ~Refuses(S, r, force) =>
              set_up(S, r, force)
                = wireless_device_run_handler(Put(S, r, Raised(S.wdev[r])), r, TRUE)
BY DEF set_up, Refuses, Put, Raised

\* A radio is set up when it is down, or while it is up if its driver can do that.
LEMMA SetUpInv ==
  ASSUME NEW S, Well(S), NEW r \in Radio, RadioInv(S, r), S.wdev[r].alive,
         NEW force \in BOOLEAN, force => S.wdev[r].state = "IFS_UP" /\ r \in Reconf
  PROVE  LET N == set_up(S, r, force) IN Step(S, N, r) /\ RadioInv(N, r)
<1> DEFINE w == S.wdev[r]  N == set_up(S, r, force)  n == N.wdev[r]
<1>1. CASE Refuses(S, r, force)
  <2>1. set_up(S, r, force) = S
    BY <1>1, SetUpForm
  <2>2. Step(S, S, r)
    BY StepRefl
  <2> QED
    BY <2>1, <2>2
<1>2. CASE ~Refuses(S, r, force)
  <2>1. w \in Wdev /\ Calm(w)
    BY DEF Well, WState, RadioInv, LooseInv
  <2>2. ~w.retry_setup_failed /\ w.autostart /\ ~w.disabled
        /\ (w.state = "IFS_DOWN" \/ (w.state = "IFS_UP" /\ r \in Reconf))
    BY <1>2 DEF Refuses
  <2>3. N = wireless_device_run_handler(Put(S, r, Raised(w)), r, TRUE)
    BY <1>2, SetUpForm
  <2>4. Raisable(r, w)
    <3> HIDE DEF w
    <3>1. w.alive
      BY DEF w
    <3> QED
      BY <2>1, <2>2, <3>1 DEF Calm, AtRest, Timed, Tries, Raisable
  <2> HIDE DEF N, w
  <2>5. /\ Step(S, N, r) /\ SameOptions(w, n)
        /\ LooseInv(r, n, Waits(N, r, TRUE), Waits(N, r, FALSE), "fork" \in N.mishap)
    BY <2>3, <2>4, RaiseInv DEF w
  <2>6. r \notin Serialize \cap Reconf /\ Waits(N, r, TRUE) => n.config_state = "IFC_NORMAL"
    <3>1. Waits(N, r, TRUE) => r \in Serialize
      BY <2>5 DEF Step, Well
    <3>2. w.state = "IFS_DOWN" => w.config_state = "IFC_NORMAL"
      BY <2>1 DEF Calm, AtRest
    <3> QED
      BY <2>2, <2>5, <3>1, <3>2 DEF SameOptions
  <2>7. RadioInv(N, r)
    BY <2>5, <2>6 DEF RadioInv
  <2> QED
    BY <2>5, <2>7 DEF N
<1> QED
  BY <1>1, <1>2

-----------------------------------------------------------------------------
(***************************************************************************)
(* A radio is down, and set up again if it is wanted.                      *)
(***************************************************************************)

\* Its script is over, unless it is the one of a setup that will be started again.
Restartable(S, r) ==
  LET w == S.wdev[r] IN
  /\ w.alive /\ Named(w) /\ Tries(w)
  /\ \/ w.script_task = "none"
     \/ /\ w.script_task = "setup" /\ Accepts(w)
        /\ w.config_state = "IFC_NORMAL" /\ ~S.config_init

\* The same, and a setup that waits will be started.
Settled(S, r) ==
  LET w == S.wdev[r] IN
  /\ Restartable(S, r) /\ ~Waits(S, r, FALSE)
  /\ Waits(S, r, TRUE) =>
       Accepts(w) /\ w.config_state = "IFC_NORMAL" /\ ~S.config_init

Lowered(S, r) ==
  LET w == S.wdev[r] IN
  /\ Restartable(S, r) /\ w.state = "IFS_DOWN"
  /\ ~w.timeout /\ ~w.cancel /\ ~w.kill_request /\ w.applied = None
  /\ \A up \in BOOLEAN : ~Waits(S, r, up)

Normal(w) == [w EXCEPT !.config_state = "IFC_NORMAL"]

\* What putting the configuration in force leaves alone.
LEMMA NormalFacts ==
  ASSUME NEW w \in Wdev
  PROVE  /\ Normal(w) \in Wdev /\ Normal(w).script_task = w.script_task
         /\ Normal(w).config_state = "IFC_NORMAL" /\ Normal(w).state = w.state
         /\ Normal(w).alive = w.alive /\ Accepts(Normal(w)) = Accepts(w)
         /\ w.alive /\ (Calm(w) \/ (w.state = "IFS_DOWN" /\ w.script_task = "none"
                                    /\ ~w.timeout /\ ~w.cancel /\ ~w.kill_request
                                    /\ w.applied = None /\ Named(w) /\ Tries(w)))
              => Calm(Normal(w))
         /\ Data(w) => Data(Normal(w))
         /\ Normal(w).cancel = w.cancel /\ Normal(w).prev_config = w.prev_config
         /\ Normal(w).conf = w.conf /\ Normal(w).timeout = w.timeout
         /\ Normal(w).applied = w.applied
<1> DEFINE n == Normal(w)
<1>1. n \in Wdev
  BY DEF Normal, Wdev, ConfigState
<1>2. /\ n.script_task = w.script_task
      /\ n.config_state = "IFC_NORMAL" /\ n.state = w.state
      /\ n.alive = w.alive /\ n.autostart = w.autostart /\ n.disabled = w.disabled
      /\ n.retry_setup_failed = w.retry_setup_failed /\ n.retry = w.retry
  BY DEF Normal, Wdev
<1>3. /\ n.cancel = w.cancel /\ n.prev_config = w.prev_config
      /\ n.conf = w.conf /\ n.timeout = w.timeout /\ n.applied = w.applied
      /\ n.given = w.given /\ n.kill_request = w.kill_request /\ n.script_proc = w.script_proc
      /\ n.linked = w.linked /\ n.ifname = w.ifname /\ n.vif = w.vif
  BY DEF Normal, Wdev
<1> HIDE DEF n
<1>4. ASSUME w.alive, Calm(w) PROVE Calm(n)
  BY <1>2, <1>3, <1>4 DEF Calm, AtRest, Timed, Retries, Tries, Named
<1>5. ASSUME w.alive, w.state = "IFS_DOWN", w.script_task = "none",
             ~w.timeout, ~w.cancel, ~w.kill_request, w.applied = None, Named(w), Tries(w)
      PROVE  Calm(n)
  BY <1>2, <1>3, <1>5 DEF Calm, AtRest, Timed, Retries, Tries, Named
<1>6. Data(w) => Data(n)
  BY <1>2, <1>3 DEF Data, Old
<1>7. Accepts(n) = Accepts(w)
  BY <1>2 DEF Accepts
<1> QED
  BY <1>1, <1>2, <1>3, <1>4, <1>5, <1>6, <1>7 DEF n

\* The radio is set up if it may be, and its configuration is in force.
LEMMA NormalInv ==
  ASSUME NEW S, Well(S), NEW r \in Radio, Lowered(S, r)
  PROVE  LET T == set_up(S, r, FALSE)
             N == Put(T, r, Normal(T.wdev[r]))
         IN  Step(S, N, r) /\ RadioInv(N, r) /\ Settled(N, r)
<1> DEFINE w == S.wdev[r]  T == set_up(S, r, FALSE)  v == T.wdev[r]
           N == Put(T, r, Normal(v))  n == N.wdev[r]
<1>1. w \in Wdev
  BY DEF Well, WState
<1>2. /\ w.alive /\ Named(w) /\ Tries(w) /\ w.state = "IFS_DOWN" /\ Restartable(S, r)
      /\ ~w.timeout /\ ~w.cancel /\ ~w.kill_request /\ w.applied = None
      /\ ~Waits(S, r, TRUE) /\ ~Waits(S, r, FALSE)
      /\ \/ w.script_task = "none"
         \/ /\ w.script_task = "setup" /\ Accepts(w)
            /\ w.config_state = "IFC_NORMAL" /\ ~S.config_init
  BY DEF Lowered, Restartable
<1>3. CASE Refuses(S, r, FALSE)
  <2>1. T = S /\ v = w
    BY <1>3, SetUpForm
  <2>2. w.script_task = "none"
    BY <1>2, <1>3 DEF Refuses, Accepts
  <2> HIDE DEF T, w, v
  <2>3. /\ Normal(w) \in Wdev /\ Normal(w).script_task = w.script_task
        /\ Normal(w).state = w.state /\ Calm(Normal(w))
        /\ Normal(w).applied = None
    BY <1>1, <1>2, <2>2, NormalFacts
  <2>4. /\ Step(S, N, r) /\ n = Normal(w)
        /\ \A up \in BOOLEAN : Waits(N, r, up) <=> Waits(S, r, up)
    BY <2>1, <2>3, PutStep DEF w
  <2> HIDE DEF N
  <2>5. n.script_task = "none" /\ n.state = "IFS_DOWN" /\ Calm(n) /\ n.applied = None
        /\ n.alive
    BY <1>1, <1>2, <2>2, <2>3, <2>4, NormalFacts
  <2>6. ~Waits(N, r, TRUE) /\ ~Waits(N, r, FALSE)
    BY <1>2, <2>4
  <2>7. RadioInv(N, r)
    <3> HIDE DEF n
    <3>1. LooseInv(r, n, Waits(N, r, TRUE), Waits(N, r, FALSE), "fork" \in N.mishap)
      BY <2>5, <2>6 DEF LooseInv, Waiting, Driven, SetupData, Data
    <3> QED
      BY <2>6, <3>1 DEF RadioInv, n
  <2>8. Settled(N, r)
    BY <2>5, <2>6 DEF Settled, Restartable, Calm
  <2> QED
    BY <2>4, <2>7, <2>8 DEF N, T, v
<1>4. CASE ~Refuses(S, r, FALSE)
  <2>0. ~w.retry_setup_failed /\ w.autostart /\ ~w.disabled /\ ~S.config_init
    BY <1>4 DEF Refuses
  <2>1. T = wireless_device_run_handler(Put(S, r, Raised(w)), r, TRUE)
    BY <1>4, SetUpForm
  <2> HIDE DEF T
  <2>2. Raisable(r, w)
    <3> HIDE DEF w
    <3> QED
      BY <1>2, <2>0 DEF Raisable, Tries
  <2>3. /\ Step(S, T, r) /\ SameOptions(w, v) /\ v.state = "IFS_SETUP"
        /\ LooseInv(r, v, Waits(T, r, TRUE), Waits(T, r, FALSE), "fork" \in T.mishap)
    BY <2>1, <2>2, RaiseInv
  <2>4. Well(T) /\ v \in Wdev /\ T.config_init = S.config_init
    BY <2>3 DEF Step, Well, WState
  <2>5. v.alive /\ Calm(v)
    BY <1>2, <2>3 DEF SameOptions, LooseInv
  <2> HIDE DEF v, w
  <2>6. /\ Step(T, N, r) /\ n = Normal(v) /\ N.mishap = T.mishap
        /\ \A up \in BOOLEAN : Waits(N, r, up) <=> Waits(T, r, up)
    BY <2>4, NormalFacts, PutStep DEF v
  <2>7. Step(S, N, r) /\ N.config_init = S.config_init
    BY <2>3, <2>6, StepTrans DEF Step
  <2> HIDE DEF N, n
  <2>8. /\ n.script_task = v.script_task /\ n.config_state = "IFC_NORMAL" /\ n.state = v.state
        /\ n.alive = v.alive /\ Accepts(n) = Accepts(v) /\ Calm(n) /\ (Data(v) => Data(n))
        /\ n.cancel = v.cancel /\ n.prev_config = v.prev_config /\ n.conf = v.conf
        /\ n.timeout = v.timeout
    BY <2>4, <2>5, <2>6, NormalFacts
  <2>9. RadioInv(N, r)
    <3>1. LooseInv(r, n, Waits(N, r, TRUE), Waits(N, r, FALSE), "fork" \in N.mishap)
      BY <2>3, <2>6, <2>8 DEF LooseInv, Waiting, Driven, SetupData
    <3> QED
      BY <2>8, <3>1 DEF RadioInv, n
  <2>10. Accepts(n)
    BY <2>0, <2>3, <2>8 DEF Accepts, SameOptions
  <2>11. n.script_task \in {"none", "setup"}
    <3>1. n.script_task \in {"none", "setup", "teardown"}
      BY <2>4, <2>8 DEF Wdev
    <3> QED
      BY <2>3, <2>8, <3>1 DEF Calm
  <2>12. Restartable(N, r)
    BY <2>0, <2>5, <2>7, <2>8, <2>10, <2>11 DEF Restartable, Calm, n
  <2>13. ~Waits(N, r, FALSE)
    BY <2>3, <2>6 DEF LooseInv, Waiting
  <2>14. Settled(N, r)
    BY <2>0, <2>7, <2>8, <2>10, <2>11, <2>12, <2>13 DEF Settled, n
  <2> QED
    BY <2>7, <2>9, <2>14 DEF N, T, v
<1> QED
  BY <1>3, <1>4


Retried(w) == [w EXCEPT !.retry = WIRELESS_SETUP_RETRY, !.retry_setup_failed = FALSE]

\* wdev_handle_config_change() of a radio that is down.
LEMMA ConfigChangeInv ==
  ASSUME NEW S, Well(S), NEW r \in Radio, Lowered(S, r)
  PROVE  LET N == wdev_handle_config_change(S, r) IN
         Step(S, N, r) /\ RadioInv(N, r) /\ (N.wdev[r].alive => Settled(N, r))
<1> DEFINE w == S.wdev[r]  N == wdev_handle_config_change(S, r)
<1>1. w \in Wdev /\ w.config_state \in ConfigState
  BY DEF Well, WState, Wdev
<1>2. CASE w.config_state = "IFC_NORMAL"
  <2>1. N = Put(set_up(S, r, FALSE), r, Normal(set_up(S, r, FALSE).wdev[r]))
    BY <1>2 DEF wdev_handle_config_change, Put, Normal
  <2> QED
    BY <2>1, NormalInv
<1>3. CASE w.config_state = "IFC_RELOAD"
  <2> DEFINE v == Retried(w)  T == Put(S, r, v)
  <2>1. N = Put(set_up(T, r, FALSE), r, Normal(set_up(T, r, FALSE).wdev[r]))
    BY <1>3 DEF wdev_handle_config_change, Put, Normal, Retried
  <2>2. v \in Wdev
    BY ONLY <1>1, RetryRange DEF Retried, Wdev
  <2>3. /\ v.script_task = w.script_task /\ v.alive = w.alive /\ v.state = w.state
        /\ v.timeout = w.timeout /\ v.cancel = w.cancel /\ v.kill_request = w.kill_request
        /\ v.applied = w.applied /\ v.linked = w.linked /\ v.ifname = w.ifname /\ v.vif = w.vif
        /\ v.retry = WIRELESS_SETUP_RETRY
    BY <1>1 DEF Retried, Wdev
  <2> HIDE DEF v, N
  <2>4. /\ Step(S, T, r) /\ T.wdev[r] = v
        /\ \A up \in BOOLEAN : Waits(T, r, up) <=> Waits(S, r, up)
    BY <2>2, <2>3, PutStep
  <2> HIDE DEF T
  <2>5. Lowered(T, r)
    <3>1. /\ w.alive /\ Named(w) /\ w.script_task = "none" /\ w.state = "IFS_DOWN"
          /\ ~w.timeout /\ ~w.cancel /\ ~w.kill_request /\ w.applied = None
          /\ \A up \in BOOLEAN : ~Waits(S, r, up)
      BY <1>3 DEF Lowered, Restartable
    <3>2. Named(v) /\ Tries(v)
      BY <2>3, <3>1, RetryRange DEF Named, Tries
    <3> QED
      BY <2>3, <2>4, <3>1, <3>2 DEF Lowered, Restartable
  <2>6. Well(T)
    BY <2>4 DEF Step
  <2>7. Step(T, N, r) /\ RadioInv(N, r) /\ Settled(N, r)
    BY <2>1, <2>5, <2>6, NormalInv
  <2>8. Step(S, N, r)
    BY <2>4, <2>7, StepTrans
  <2> QED
    BY <2>7, <2>8 DEF N
<1>4. CASE w.config_state = "IFC_REMOVE"
  <2> DEFINE T == wireless_handler_stop(S, r)
  <2>1. N = Put(T, r, Gone)
    BY <1>4 DEF wdev_handle_config_change, wireless_device_free, Put
  <2>2. /\ Step(S, T, r) /\ T.wdev = S.wdev
        /\ \A up \in BOOLEAN : ~Waits(T, r, up)
    BY StopStep
  <2>3. w.script_task = "none"
    BY <1>4 DEF Lowered, Restartable
  <2> HIDE DEF T, N
  <2>4. Gone \in Wdev /\ Gone.script_task = T.wdev[r].script_task
    BY <2>2, <2>3, GoneFacts
  <2>5. Well(T)
    BY <2>2 DEF Step
  <2>6. /\ Step(T, N, r) /\ N.wdev[r] = Gone
        /\ \A up \in BOOLEAN : Waits(N, r, up) <=> Waits(T, r, up)
    BY <2>1, <2>4, <2>5, PutStep
  <2>7. Step(S, N, r)
    BY <2>2, <2>6, StepTrans
  <2>8. ~Waits(N, r, TRUE) /\ ~Waits(N, r, FALSE)
    BY <2>2, <2>6
  <2>9. LooseInv(r, Gone, Waits(N, r, TRUE), Waits(N, r, FALSE), "fork" \in N.mishap)
    BY <2>8, GoneFacts DEF LooseInv, Waiting, Driven, SetupData, Data
  <2>10. RadioInv(N, r)
    BY <2>6, <2>8, <2>9 DEF RadioInv
  <2> QED
    BY <2>6, <2>7, <2>10, GoneFacts DEF N
<1> QED
  BY <1>1, <1>2, <1>3, <1>4 DEF ConfigState

\* wireless_interface_handle_link()
LEMMA LinkStep ==
  ASSUME NEW S, Well(S), NEW r \in Radio, NEW up \in BOOLEAN
  PROVE  LET N == wireless_interface_handle_link(S, r, up)
             x == IF S.wdev[r].vif # None /\ S.wdev[r].ifname THEN up ELSE S.wdev[r].linked
         IN  /\ Step(S, N, r) /\ N.wdev[r] = [S.wdev[r] EXCEPT !.linked = x]
             /\ \A u \in BOOLEAN : Waits(N, r, u) <=> Waits(S, r, u)
             /\ N.mishap = S.mishap
<1> DEFINE w == S.wdev[r]  N == wireless_interface_handle_link(S, r, up)
           x == IF w.vif # None /\ w.ifname THEN up ELSE w.linked
<1>1. w \in Wdev
  BY DEF Well, WState
<1>2. CASE w.vif # None /\ w.ifname
  <2> DEFINE v == [w EXCEPT !.linked = up]
  <2>1. N = Put(S, r, v)
    BY <1>2 DEF wireless_interface_handle_link, Put
  <2>2. v \in Wdev /\ v.script_task = w.script_task
    BY ONLY <1>1, up \in BOOLEAN DEF Wdev
  <2>3. v = [w EXCEPT !.linked = x]
    BY <1>2
  <2> HIDE DEF v, N
  <2>4. /\ Step(S, N, r) /\ N.wdev[r] = v
        /\ \A u \in BOOLEAN : Waits(N, r, u) <=> Waits(S, r, u)
        /\ N.mishap = S.mishap
    BY <2>1, <2>2, PutStep
  <2> QED
    BY <2>3, <2>4 DEF N
<1>3. CASE ~(w.vif # None /\ w.ifname)
  <2>1. N = S
    BY <1>3 DEF wireless_interface_handle_link
  <2>2. [w EXCEPT !.linked = w.linked] = w
    BY <1>1 DEF Wdev
  <2>3. x = w.linked
    BY <1>3
  <2>4. Step(S, S, r)
    BY StepRefl
  <2> QED
    BY <2>1, <2>2, <2>3, <2>4
<1> QED
  BY <1>2, <1>3


\* What taking a radio down leaves alone.
Basics(w, n) ==
  /\ n \in Wdev /\ n.script_task = w.script_task /\ n.retry = w.retry
  /\ SameOptions(w, n)

Freed(w, P) ==
  LET left == w.script_proc \ P IN
  [w EXCEPT !.script_proc = left, !.dead = @ \ P, !.kill_request = @ /\ (P # {} => left # {})]

\* What wireless_process_free() leaves alone of the radio, and that a kill request
\* that is not answered has a process to wait for.
LEMMA FreedFacts ==
  ASSUME NEW w \in Wdev, NEW P \in SUBSET Process
  PROVE  /\ Basics(w, Freed(w, P)) /\ Freed(w, P).linked = w.linked
         /\ Calm(w) /\ w.alive => Calm(Freed(w, P))
         /\ Freed(w, P).state = w.state /\ Freed(w, P).cancel = w.cancel
         /\ Freed(w, P).timeout = w.timeout
         /\ Freed(w, P).prev_config = w.prev_config /\ Freed(w, P).conf = w.conf
         /\ Freed(w, P).applied = w.applied /\ Freed(w, P).given = w.given
<1> DEFINE left == w.script_proc \ P  d == w.dead \ P
           k == w.kill_request /\ (P # {} => left # {})
           n == [w EXCEPT !.script_proc = left, !.dead = d, !.kill_request = k]
<1>1. n = Freed(w, P)
  BY DEF Freed
<1>2. w.script_proc \in SUBSET Process /\ w.dead \in SUBSET Process
  BY DEF Wdev
<1>3. left \in SUBSET Process /\ d \in SUBSET Process /\ k \in BOOLEAN
  BY <1>2
<1>4. k => w.kill_request
  OBVIOUS
<1>5. k /\ w.script_proc # {} => left # {}
  OBVIOUS
<1> HIDE DEF left, d, k
<1>6. n \in Wdev
  BY <1>3 DEF Wdev
<1>7. n.kill_request = k /\ n.script_proc = left
  BY <1>3 DEF Wdev
<1>8. /\ n.alive = w.alive /\ n.state = w.state /\ n.config_state = w.config_state
      /\ n.autostart = w.autostart /\ n.disabled = w.disabled /\ n.conf = w.conf
      /\ n.cancel = w.cancel /\ n.timeout = w.timeout /\ n.retry = w.retry
      /\ n.retry_setup_failed = w.retry_setup_failed /\ n.script_task = w.script_task
  BY DEF Wdev
<1>9. /\ n.vif = w.vif /\ n.ifname = w.ifname /\ n.linked = w.linked
      /\ n.prev_config = w.prev_config /\ n.applied = w.applied /\ n.given = w.given
  BY DEF Wdev
<1> HIDE DEF n
<1>10. Basics(w, n)
  BY <1>6, <1>8 DEF Basics, SameOptions
<1>11. ASSUME Calm(w), w.alive PROVE Calm(n)
  BY <1>4, <1>5, <1>7, <1>8, <1>9, <1>11 DEF Calm, AtRest, Timed, Retries, Tries, Named
<1> QED
  BY <1>1, <1>8, <1>9, <1>10, <1>11

\* wireless_process_free() changes only the radio.
LEMMA ProcessFreeStep ==
  ASSUME NEW S, Well(S), NEW r \in Radio, NEW P \in SUBSET Process
  PROVE  LET N == wireless_process_free(S, r, P) IN
         /\ Step(S, N, r) /\ N.wdev[r] = Freed(S.wdev[r], P)
         /\ \A u \in BOOLEAN : Waits(N, r, u) <=> Waits(S, r, u)
         /\ N.mishap = S.mishap
<1>1. wireless_process_free(S, r, P) = Put(S, r, Freed(S.wdev[r], P))
  BY DEF wireless_process_free, Put, Freed
<1>2. S.wdev[r] \in Wdev
  BY DEF Well, WState
<1>3. Freed(S.wdev[r], P) \in Wdev /\ Freed(S.wdev[r], P).script_task = S.wdev[r].script_task
  BY <1>2, FreedFacts DEF Basics
<1> QED
  BY <1>1, <1>3, PutStep

\* The timers and the waiting handler of a radio that is down.
FreeState(w) ==
  [w EXCEPT !.script_check = FALSE, !.timeout = FALSE, !.kill_request = FALSE, !.ifname = FALSE]

\* wireless_device_mark_down() of a radio whose script is over.
LEMMA MarkDownInv ==
  ASSUME NEW S, Well(S), NEW r \in Radio, Restartable(S, r)
  PROVE  LET N == wireless_device_mark_down(S, r) IN
         Step(S, N, r) /\ RadioInv(N, r) /\ (N.wdev[r].alive => Settled(N, r))
<1> DEFINE A == wireless_interface_handle_link(S, r, FALSE)  a == A.wdev[r]
           w == S.wdev[r]
           x == IF w.vif # None /\ w.ifname THEN FALSE ELSE w.linked
<1>0. w \in Wdev /\ Named(w) /\ w.linked \in BOOLEAN
  BY DEF Well, WState, Restartable, Wdev
<1>1. /\ Step(S, A, r) /\ a = [w EXCEPT !.linked = x]
  BY LinkStep
<1>2. Basics(w, a) /\ ~a.linked /\ Well(A)
  <2>1. x = FALSE
    BY <1>0 DEF Named
  <2> HIDE DEF w, x, a, A
  <2>2. a = [w EXCEPT !.linked = FALSE]
    BY <1>1, <2>1
  <2>3. Basics(w, a) /\ ~a.linked
    BY <1>0, <2>2 DEF Basics, SameOptions, Wdev
  <2> QED
    BY <1>1, <2>3 DEF Step
<1> HIDE DEF A
<1> DEFINE B == wireless_process_free(A, r, a.script_proc)  b == B.wdev[r]
<1>3. a.script_proc \in SUBSET Process /\ a \in Wdev
  BY <1>2 DEF Basics, Wdev
<1>4. Step(A, B, r) /\ b = Freed(a, a.script_proc) /\ Well(B)
  BY <1>2, <1>3, ProcessFreeStep DEF Step
<1>5. Basics(a, b) /\ ~b.linked
  BY <1>2, <1>3, <1>4, FreedFacts
<1> HIDE DEF B
<1> DEFINE c == [b EXCEPT !.script_proc_fd = FALSE]  C == Put(B, r, c)
<1>6. wireless_process_kill_all(A, r, TRUE) = C
  BY DEF wireless_process_kill_all, Put, B
<1>7. Basics(b, c) /\ ~c.linked
  <2> HIDE DEF b
  <2> QED
    BY <1>5 DEF Basics, SameOptions, Wdev
<1> HIDE DEF c
<1>8. Step(B, C, r) /\ C.wdev[r] = c /\ Well(C)
  BY <1>4, <1>7, PutStep DEF Basics, Step
<1> HIDE DEF C
<1> DEFINE d == [c EXCEPT !.cancel = FALSE, !.state = "IFS_DOWN", !.applied = None]
           D == Put(C, r, d)
<1>9. Basics(c, d) /\ ~d.linked /\ ~d.cancel /\ d.state = "IFS_DOWN" /\ d.applied = None
  BY <1>7 DEF Basics, SameOptions, Wdev, State
<1> HIDE DEF d
<1>10. Step(C, D, r) /\ D.wdev[r] = d /\ Well(D)
  BY <1>8, <1>9, PutStep DEF Basics, Step
<1> HIDE DEF D
<1> DEFINE e == FreeState(d)  T == wireless_handler_stop(D, r)  E == Put(T, r, e)
           N == wdev_handle_config_change(E, r)
<1>11. wireless_device_mark_down(S, r) = N
  <2>1. D = [C EXCEPT !.wdev[r] = [C.wdev[r] EXCEPT !.cancel = FALSE, !.state = "IFS_DOWN",
                                                    !.applied = None]]
    BY <1>8 DEF D, d, Put
  <2>2. wireless_device_free_state(D, r) = E
    BY <1>10 DEF wireless_device_free_state, FreeState, Put
  <2> HIDE DEF E
  <2> QED
    BY <1>6, <2>1, <2>2 DEF wireless_device_mark_down, A
<1>12. /\ Basics(d, e) /\ ~e.linked /\ ~e.cancel /\ e.state = "IFS_DOWN" /\ e.applied = None
       /\ ~e.timeout /\ ~e.kill_request
  BY <1>9 DEF Basics, SameOptions, Wdev, FreeState
<1> HIDE DEF e
<1>13. /\ Step(D, T, r) /\ T.wdev = D.wdev /\ Well(T)
       /\ \A up \in BOOLEAN : ~Waits(T, r, up)
  BY <1>10, StopStep DEF Step
<1> HIDE DEF T
<1>14. /\ Step(T, E, r) /\ E.wdev[r] = e /\ Well(E)
       /\ \A up \in BOOLEAN : Waits(E, r, up) <=> Waits(T, r, up)
  BY <1>10, <1>12, <1>13, PutStep DEF Basics, Step
<1> HIDE DEF E
<1>15. Step(S, E, r)
  BY <1>1, <1>4, <1>8, <1>10, <1>13, <1>14, StepTrans
<1>16. Basics(w, e)
  <2> HIDE DEF w, a, b
  <2> QED
    BY <1>2, <1>5, <1>7, <1>9, <1>12 DEF Basics, SameOptions
<1>17. E.config_init = S.config_init
  BY <1>15 DEF Step
<1>18. Lowered(E, r)
  <2>1. Named(e) /\ Tries(e)
    BY <1>12, <1>16 DEF Restartable, Named, Tries, Basics, SameOptions
  <2>2. e.alive /\ (Accepts(w) => Accepts(e))
    BY <1>16 DEF Restartable, Basics, SameOptions, Accepts
  <2>3. \/ e.script_task = "none"
        \/ /\ e.script_task = "setup" /\ Accepts(e)
           /\ e.config_state = "IFC_NORMAL" /\ ~E.config_init
    BY <1>16, <1>17, <2>2 DEF Restartable, Basics, SameOptions
  <2> QED
    BY <1>12, <1>13, <1>14, <2>1, <2>2, <2>3 DEF Lowered, Restartable
<1>19. Step(E, N, r) /\ RadioInv(N, r) /\ (N.wdev[r].alive => Settled(N, r))
  BY <1>14, <1>18, ConfigChangeInv
<1>20. Step(S, N, r)
  BY <1>15, <1>19, StepTrans
<1> QED
  BY <1>11, <1>19, <1>20


-----------------------------------------------------------------------------
(***************************************************************************)
(* A radio is taken down.                                                  *)
(***************************************************************************)

\* What set_down needs of a radio that is set up or up, whatever of its retries and of
\* its configuration has just changed.
Lowerable(S, r) ==
  LET w == S.wdev[r] IN
  /\ w.state \in {"IFS_SETUP", "IFS_UP"} /\ w.alive /\ w.script_task # "teardown"
  /\ Tries(w) /\ Named(w) /\ ~w.kill_request
  /\ w.cancel => w.timeout
  /\ "fork" \notin S.mishap /\ r \notin Serialize \cap Reconf => Data(w)

\* The invariant allows a radio that is set up or up to be taken down.
LEMMA ActiveIsLowerable ==
  ASSUME NEW S, Well(S), NEW r \in Radio, RadioInv(S, r),
         S.wdev[r].state \in {"IFS_SETUP", "IFS_UP"}
  PROVE  Lowerable(S, r)
<1> DEFINE w == S.wdev[r]
<1>1. w \in Wdev /\ Calm(w)
  BY DEF Well, WState, RadioInv, LooseInv
<1>2. w.alive
  BY <1>1, LivesIf
<1>3. "fork" \notin S.mishap /\ r \notin Serialize \cap Reconf => Data(w)
  BY DEF RadioInv, LooseInv
<1> HIDE DEF w
<1>4. w.state \in {"IFS_SETUP", "IFS_UP"}
  BY DEF w
<1>5. w.script_task # "teardown" /\ ~w.kill_request /\ (w.cancel => w.timeout)
      /\ Tries(w) /\ Named(w)
  BY <1>1, <1>4 DEF Calm, Timed
<1> QED
  BY <1>2, <1>3, <1>4, <1>5 DEF Lowerable, w

Cancelled(w) == [w EXCEPT !.cancel = TRUE, !.timeout = TRUE]

\* A setup that still runs is cancelled.
LEMMA CancelInv ==
  ASSUME NEW S, Well(S), NEW r \in Radio, Lowerable(S, r), S.wdev[r].script_task # "none",
         ~S.wdev[r].cancel
  PROVE  LET N == wireless_device_setup_cancel(S, r) IN Step(S, N, r) /\ RadioInv(N, r)
<1> DEFINE w == S.wdev[r]  T == wireless_handler_stop(S, r)  n == Cancelled(w)
           N == Put(T, r, n)
<1>1. wireless_device_setup_cancel(S, r) = N
  BY DEF wireless_device_setup_cancel, Put, Cancelled
<1>2. w \in Wdev /\ w.script_task \in {"none", "setup", "teardown"}
  BY DEF Well, WState, Wdev
<1>3. /\ Step(S, T, r) /\ T.wdev = S.wdev /\ T.mishap = S.mishap /\ Well(T)
      /\ \A up \in BOOLEAN : ~Waits(T, r, up)
  BY StopStep DEF Step
<1> HIDE DEF T
<1>4. /\ w.state \in {"IFS_SETUP", "IFS_UP"} /\ w.alive /\ w.script_task = "setup"
      /\ Tries(w) /\ Named(w) /\ ~w.kill_request
      /\ ("fork" \notin S.mishap /\ r \notin Serialize \cap Reconf => Data(w))
  BY <1>2 DEF Lowerable
<1> HIDE DEF w
<1>5. n \in Wdev
  BY ONLY <1>2 DEF Cancelled, Wdev
<1>6. n.script_task = "setup" /\ n.timeout /\ n.cancel /\ n.state = w.state
  BY <1>2, <1>4 DEF Cancelled, Wdev
<1>7. Calm(n)
  BY <1>2, <1>4 DEF Cancelled, Wdev, Calm, Timed, Retries, Tries, Named
<1>8. Data(w) => Data(n)
  BY <1>2 DEF Cancelled, Wdev, Data, Old
<1> HIDE DEF n
<1>9. /\ Step(T, N, r) /\ N.wdev[r] = n /\ N.mishap = T.mishap
      /\ \A up \in BOOLEAN : Waits(N, r, up) <=> Waits(T, r, up)
  BY <1>3, <1>4, <1>5, <1>6, PutStep DEF w
<1> HIDE DEF N
<1>10. ~Waits(N, r, TRUE) /\ ~Waits(N, r, FALSE)
  BY <1>3, <1>9
<1>11. LooseInv(r, n, Waits(N, r, TRUE), Waits(N, r, FALSE), "fork" \in N.mishap)
  BY <1>3, <1>4, <1>6, <1>7, <1>8, <1>9, <1>10 DEF LooseInv, Waiting, Driven, SetupData
<1>12. RadioInv(N, r)
  BY <1>9, <1>10, <1>11 DEF RadioInv
<1>13. Step(S, N, r)
  BY <1>3, <1>9, StepTrans
<1> QED
  BY <1>1, <1>12, <1>13

Leaving(w) == [w EXCEPT !.state = "IFS_TEARDOWN"]

\* A radio without a script is torn down.
LEMMA TeardownInv ==
  ASSUME NEW S, Well(S), NEW r \in Radio, Lowerable(S, r), S.wdev[r].script_task = "none"
  PROVE  LET N == wireless_device_run_handler(Put(S, r, Leaving(S.wdev[r])), r, FALSE)
         IN  Step(S, N, r) /\ RadioInv(N, r)
<1> DEFINE w == S.wdev[r]  v == Leaving(w)  T == Put(S, r, v)
           N == wireless_device_run_handler(T, r, FALSE)  n == N.wdev[r]
<1>1. w \in Wdev
  BY DEF Well, WState, Wdev
<1>2. /\ w.state \in {"IFS_SETUP", "IFS_UP"} /\ w.alive /\ w.script_task = "none"
      /\ Tries(w) /\ Named(w) /\ ~w.kill_request /\ (w.cancel => w.timeout)
      /\ ("fork" \notin S.mishap /\ r \notin Serialize \cap Reconf => Data(w))
  BY DEF Lowerable
<1> HIDE DEF w
<1>3. v \in Wdev
  BY ONLY <1>1 DEF Leaving, Wdev, State
<1>4. v.script_task = "none" /\ v.state = "IFS_TEARDOWN" /\ v.alive
  BY <1>1, <1>2 DEF Leaving, Wdev
<1>5. Calm(v)
  BY <1>1, <1>2 DEF Leaving, Wdev, Calm, Timed, Retries, Tries, Named
<1>6. Data(w) => Data(v)
  BY <1>1 DEF Leaving, Wdev, Data, Old
<1> HIDE DEF v
<1>7. Step(S, T, r) /\ T.wdev[r] = v /\ Well(T) /\ T.mishap = S.mishap
  BY <1>2, <1>3, <1>4, PutStep DEF Step, w
<1> HIDE DEF T
<1>8. /\ Step(T, N, r)
      /\ \/ /\ r \in Serialize /\ T.handler_pending
            /\ N.wdev = T.wdev /\ N.mishap = T.mishap /\ N.handler_pending
            /\ \A u \in BOOLEAN : Waits(N, r, u) <=> u = FALSE
         \/ /\ ~(r \in Serialize /\ T.handler_pending)
            /\ Ran(T.wdev[r], N.wdev[r], FALSE, T.fault # "fork")
            /\ \A u \in BOOLEAN : ~Waits(N, r, u)
            /\ T.fault = "fork" => "fork" \in N.mishap
  BY <1>7, RunStep
<1> HIDE DEF N
<1>9. Step(S, N, r) /\ ("fork" \in S.mishap => "fork" \in N.mishap)
  <2>1. Step(S, N, r)
    BY <1>7, <1>8, StepTrans
  <2> QED
    BY <2>1 DEF Step
<1>10. CASE /\ N.wdev = T.wdev
            /\ \A u \in BOOLEAN : Waits(N, r, u) <=> u = FALSE
  <2>1. n = v /\ Waits(N, r, FALSE) /\ ~Waits(N, r, TRUE)
    BY <1>7, <1>10
  <2> HIDE DEF n
  <2>2. LooseInv(r, n, Waits(N, r, TRUE), Waits(N, r, FALSE), "fork" \in N.mishap)
    BY <1>2, <1>4, <1>5, <1>6, <1>9, <2>1 DEF LooseInv, Waiting, Driven, SetupData
  <2>3. RadioInv(N, r)
    BY <2>1, <2>2 DEF RadioInv, n
  <2> QED
    BY <1>9, <2>3 DEF w, v, T, N
<1>11. CASE /\ Ran(T.wdev[r], N.wdev[r], FALSE, T.fault # "fork")
            /\ \A u \in BOOLEAN : ~Waits(N, r, u)
            /\ T.fault = "fork" => "fork" \in N.mishap
  <2>1. Ran(v, n, FALSE, T.fault # "fork") /\ ~Waits(N, r, TRUE) /\ ~Waits(N, r, FALSE)
    BY <1>7, <1>11
  <2> HIDE DEF n
  <2>2. n.state = "IFS_TEARDOWN" /\ n.applied = v.applied
    BY <1>4, <2>1 DEF Ran
  <2>3. Calm(n)
    BY <1>4, <1>5, <2>1 DEF Ran, Calm, Timed, Retries, Tries, Named
  <2>4. "fork" \notin N.mishap => n.script_task = "teardown" /\ n.given = Old(v)
    BY <1>11, <2>1 DEF Ran
  <2>5. Data(v) /\ "fork" \notin N.mishap => Data(n)
    BY <1>4, <2>2, <2>4 DEF Data
  <2>6. LooseInv(r, n, Waits(N, r, TRUE), Waits(N, r, FALSE), "fork" \in N.mishap)
    BY <1>2, <1>6, <1>9, <2>1, <2>2, <2>3, <2>4, <2>5 DEF LooseInv, Waiting, Driven, SetupData
  <2>7. RadioInv(N, r)
    BY <2>1, <2>6 DEF RadioInv, n
  <2> QED
    BY <1>9, <2>7 DEF w, v, T, N
<1> QED
  BY <1>8, <1>10, <1>11

\* set_down(): nothing, a cancelled setup or a teardown.
LEMMA SetDownInv ==
  ASSUME NEW S, Well(S), NEW r \in Radio,
         RadioInv(S, r) \/ (Lowerable(S, r) /\ ~S.wdev[r].cancel)
  PROVE  LET N == set_down(S, r) IN Step(S, N, r) /\ RadioInv(N, r)
<1> DEFINE w == S.wdev[r]  N == set_down(S, r)
<1>1. w.state \in State
  BY DEF Well, WState, Wdev
<1>2. CASE N = S /\ RadioInv(S, r)
  <2>1. Step(S, S, r)
    BY StepRefl
  <2> QED
    BY <1>2, <2>1
<1>3. CASE w.state \in {"IFS_TEARDOWN", "IFS_DOWN"}
  <2>1. N = S
    BY <1>3 DEF set_down
  <2>2. RadioInv(S, r)
    BY <1>3 DEF Lowerable
  <2> QED
    BY <1>2, <2>1, <2>2
<1>4. CASE w.state \in {"IFS_SETUP", "IFS_UP"} /\ w.script_task # "none" /\ w.cancel
  <2>1. N = S
    BY <1>4 DEF set_down, wireless_device_setup_cancel
  <2> QED
    BY <1>2, <1>4, <2>1
<1>5. CASE w.state \in {"IFS_SETUP", "IFS_UP"} /\ w.script_task # "none" /\ ~w.cancel
  <2>1. N = wireless_device_setup_cancel(S, r)
    BY <1>5 DEF set_down
  <2>2. Lowerable(S, r)
    BY <1>5, ActiveIsLowerable
  <2> QED
    BY <1>5, <2>1, <2>2, CancelInv
<1>6. CASE w.state \in {"IFS_SETUP", "IFS_UP"} /\ w.script_task = "none"
  <2>1. N = wireless_device_run_handler(Put(S, r, Leaving(w)), r, FALSE)
    BY <1>6 DEF set_down, Put, Leaving
  <2>2. Lowerable(S, r)
    BY <1>6, ActiveIsLowerable
  <2> QED
    BY <1>6, <2>1, <2>2, TeardownInv
<1> QED
  BY <1>1, <1>3, <1>4, <1>5, <1>6 DEF State

\* A script that failed or a process that died: the radio is taken down, and is set up
\* again as often as its retries allow.
LEMMA RetryInv ==
  ASSUME NEW S, Well(S), NEW r \in Radio,
         \/ RadioInv(S, r)
         \/ Lowerable(S, r) /\ ~S.wdev[r].cancel /\ S.wdev[r].retry >= 0
  PROVE  LET N == wireless_device_retry_setup(S, r) IN Step(S, N, r) /\ RadioInv(N, r)
<1> DEFINE w == S.wdev[r]  N == wireless_device_retry_setup(S, r)
<1>1. w \in Wdev
  BY DEF Well, WState
<1>2. CASE w.state \in {"IFS_TEARDOWN", "IFS_DOWN"} \/ w.cancel
  <2>1. N = S
    BY <1>2 DEF wireless_device_retry_setup
  <2>2. RadioInv(S, r)
    BY <1>2 DEF Lowerable
  <2>3. Step(S, S, r)
    BY StepRefl
  <2> QED
    BY <2>1, <2>2, <2>3
<1>3. CASE ~(w.state \in {"IFS_TEARDOWN", "IFS_DOWN"} \/ w.cancel)
  <2> DEFINE x == w.retry - 1  y == w.retry_setup_failed \/ w.retry - 1 < 0
             v == [w EXCEPT !.retry = x, !.retry_setup_failed = y]  T == Put(S, r, v)
  <2>1. N = set_down(T, r)
    BY <1>3 DEF wireless_device_retry_setup, Put
  <2>2. w.state \in {"IFS_SETUP", "IFS_UP"}
    BY <1>1, <1>3 DEF Wdev, State
  <2>3. Lowerable(S, r)
    BY <2>2, ActiveIsLowerable
  <2>4. w.retry >= 0
    <3>1. RadioInv(S, r) => Retries(w)
      BY DEF RadioInv, LooseInv, Calm
    <3> QED
      BY <1>3, <2>2, <3>1 DEF Retries
  <2>5. x \in -1 .. WIRELESS_SETUP_RETRY /\ y \in BOOLEAN /\ (~y => x >= 0)
    <3>1. w.retry \in -1 .. WIRELESS_SETUP_RETRY /\ w.retry_setup_failed \in BOOLEAN
      BY <1>1 DEF Wdev
    <3> QED
      BY <2>4, <3>1, RadioAssumption
  <2>6. /\ w.state \in {"IFS_SETUP", "IFS_UP"} /\ w.alive /\ w.script_task # "teardown"
        /\ Named(w) /\ ~w.kill_request /\ ~w.cancel
        /\ ("fork" \notin S.mishap /\ r \notin Serialize \cap Reconf => Data(w))
    BY <1>3, <2>3 DEF Lowerable
  <2> HIDE DEF x, y, w
  <2>7. v \in Wdev
    BY ONLY <1>1, <2>5 DEF Wdev
  <2>8. /\ v.state = w.state /\ v.alive = w.alive /\ v.script_task = w.script_task
        /\ v.kill_request = w.kill_request /\ v.cancel = w.cancel
        /\ v.retry = x /\ v.retry_setup_failed = y
    BY <1>1, <2>5 DEF Wdev
  <2>9. Named(w) => Named(v)
    BY <1>1, <2>5 DEF Wdev, Named
  <2>10. Data(w) => Data(v)
    BY <1>1, <2>5 DEF Wdev, Data, Old
  <2> HIDE DEF v
  <2>11. Tries(v)
    BY <2>5, <2>8 DEF Tries
  <2>12. Step(S, T, r) /\ T.wdev[r] = v /\ T.mishap = S.mishap /\ Well(T)
    BY <2>7, <2>8, PutStep DEF w, Step
  <2> HIDE DEF T
  <2>13. Lowerable(T, r) /\ ~T.wdev[r].cancel
    BY <2>6, <2>8, <2>9, <2>10, <2>11, <2>12 DEF Lowerable
  <2>14. Step(T, N, r) /\ RadioInv(N, r)
    BY <2>1, <2>12, <2>13, SetDownInv
  <2>15. Step(S, N, r)
    BY <2>12, <2>14, StepTrans
  <2> QED
    BY <2>14, <2>15
<1> QED
  BY <1>2, <1>3

\* What the invariant relates to the queue.
Same(w, n) ==
  /\ n.state = w.state /\ n.script_task = w.script_task
  /\ n.cancel = w.cancel /\ n.timeout = w.timeout /\ n.config_state = w.config_state
  /\ n.conf = w.conf /\ n.prev_config = w.prev_config
  /\ n.given = w.given /\ n.applied = w.applied

\* A change of a radio by itself.
LEMMA PutInv ==
  ASSUME NEW S, Well(S), NEW r \in Radio, RadioInv(S, r), NEW n \in Wdev, Calm(n),
         Same(S.wdev[r], n)
  PROVE  Step(S, Put(S, r, n), r) /\ RadioInv(Put(S, r, n), r)
<1> DEFINE w == S.wdev[r]  N == Put(S, r, n)
<1>1. /\ Step(S, N, r) /\ N.wdev[r] = n /\ N.mishap = S.mishap
      /\ \A up \in BOOLEAN : Waits(N, r, up) <=> Waits(S, r, up)
  BY PutStep DEF Same
<1>2. LooseInv(r, w, Waits(S, r, TRUE), Waits(S, r, FALSE), "fork" \in S.mishap)
      /\ ("fork" \notin S.mishap /\ r \notin Serialize \cap Reconf /\ Waits(S, r, TRUE)
            => w.config_state = "IFC_NORMAL")
  BY DEF RadioInv
<1>3. Same(w, n)
  OBVIOUS
<1>4. Data(w) => Data(n)
  <2> HIDE DEF w
  <2> QED
    BY <1>3 DEF Same, Data, Old
<1> HIDE DEF w, N
<1>5. LooseInv(r, n, Waits(N, r, TRUE), Waits(N, r, FALSE), "fork" \in N.mishap)
  BY <1>1, <1>2, <1>3, <1>4 DEF LooseInv, Waiting, Driven, SetupData, Same
<1>6. RadioInv(N, r)
  BY <1>1, <1>2, <1>3, <1>5 DEF RadioInv, Same
<1> QED
  BY <1>1, <1>6 DEF N

\* The networks of the virtual interface are told.
LEMMA LinkInv ==
  ASSUME NEW S, Well(S), NEW r \in Radio, RadioInv(S, r), S.wdev[r].alive, NEW up \in BOOLEAN
  PROVE  LET N == wireless_interface_handle_link(S, r, up) IN Step(S, N, r) /\ RadioInv(N, r)
<1> DEFINE w == S.wdev[r]  N == wireless_interface_handle_link(S, r, up)
           n == [w EXCEPT !.linked = up]
<1>1. w \in Wdev /\ Calm(w) /\ w.alive
  BY DEF Well, WState, RadioInv, LooseInv
<1>2. CASE w.vif # None /\ w.ifname
  <2>1. N = Put(S, r, n)
    BY <1>2 DEF wireless_interface_handle_link, Put
  <2> HIDE DEF w, N
  <2>2. n \in Wdev
    BY ONLY <1>1, up \in BOOLEAN DEF Wdev
  <2>3. Same(w, n)
    BY <1>1 DEF Wdev, Same
  <2>4. Calm(n)
    BY <1>1, <1>2 DEF Wdev, Calm, AtRest, Timed, Retries, Tries, Named
  <2> HIDE DEF n
  <2>5. Step(S, N, r) /\ RadioInv(N, r)
    BY <2>1, <2>2, <2>3, <2>4, PutInv DEF w
  <2> QED
    BY <2>5 DEF N
<1>3. CASE ~(w.vif # None /\ w.ifname)
  <2>1. N = S
    BY <1>3 DEF wireless_interface_handle_link
  <2>2. Step(S, S, r)
    BY StepRefl
  <2> QED
    BY <2>1, <2>2
<1> QED
  BY <1>2, <1>3

\* The setup script says that the radio is up.
LEMMA MarkUpInv ==
  ASSUME NEW S, Well(S), NEW r \in Radio, RadioInv(S, r), S.wdev[r].state = "IFS_SETUP"
  PROVE  LET N == wireless_device_mark_up(S, r) IN Step(S, N, r) /\ RadioInv(N, r)
<1> DEFINE w == S.wdev[r]  N == wireless_device_mark_up(S, r)
<1>1. w \in Wdev /\ Calm(w) /\ w.state = "IFS_SETUP"
  BY DEF Well, WState, RadioInv, LooseInv
<1>2. w.alive
  BY <1>1, LivesIf
<1>3. CASE w.cancel
  <2> DEFINE v == [w EXCEPT !.cancel = FALSE]  T == Put(S, r, v)
  <2>1. N = set_down(T, r)
    BY <1>3 DEF wireless_device_mark_up, Put
  <2>2. Lowerable(S, r)
    BY ActiveIsLowerable
  <2>3. /\ w.script_task # "teardown" /\ Tries(w) /\ Named(w) /\ ~w.kill_request
        /\ ("fork" \notin S.mishap /\ r \notin Serialize \cap Reconf => Data(w))
    BY <2>2 DEF Lowerable
  <2> HIDE DEF w
  <2>4. v \in Wdev
    BY ONLY <1>1 DEF Wdev
  <2>5. /\ v.state = w.state /\ v.alive = w.alive /\ v.script_task = w.script_task
        /\ v.kill_request = w.kill_request /\ ~v.cancel
    BY <1>1 DEF Wdev
  <2>6. (Named(w) => Named(v)) /\ (Tries(w) => Tries(v))
    BY <1>1 DEF Wdev, Named, Tries
  <2>7. Data(w) => Data(v)
    BY <1>1 DEF Wdev, Data, Old
  <2> HIDE DEF v
  <2>8. Step(S, T, r) /\ T.wdev[r] = v /\ T.mishap = S.mishap /\ Well(T)
    BY <2>4, <2>5, PutStep DEF w, Step
  <2> HIDE DEF T
  <2>9. Lowerable(T, r) /\ ~T.wdev[r].cancel
    BY <1>1, <1>2, <2>3, <2>5, <2>6, <2>7, <2>8 DEF Lowerable
  <2>10. Step(T, N, r) /\ RadioInv(N, r)
    BY <2>1, <2>8, <2>9, SetDownInv
  <2>11. Step(S, N, r)
    BY <2>8, <2>10, StepTrans
  <2> QED
    BY <2>10, <2>11
<1>4. CASE ~w.cancel
  <2> DEFINE v == [w EXCEPT !.retry = WIRELESS_SETUP_RETRY, !.state = "IFS_UP"]
             T == Put(S, r, v)
  <2>1. N = wireless_interface_handle_link(T, r, TRUE)
    BY <1>4 DEF wireless_device_mark_up, Put
  <2>2. LooseInv(r, w, Waits(S, r, TRUE), Waits(S, r, FALSE), "fork" \in S.mishap)
        /\ ("fork" \notin S.mishap /\ r \notin Serialize \cap Reconf /\ Waits(S, r, TRUE)
              => w.config_state = "IFC_NORMAL")
    BY DEF RadioInv
  <2> HIDE DEF w
  <2>3. v \in Wdev
    BY ONLY <1>1, RetryRange DEF Wdev, State
  <2>4. /\ v.state = "IFS_UP" /\ v.alive = w.alive /\ v.script_task = w.script_task
        /\ v.cancel = w.cancel /\ v.timeout = w.timeout /\ v.config_state = w.config_state
        /\ v.conf = w.conf /\ v.prev_config = w.prev_config
    BY <1>1 DEF Wdev
  <2>5. Calm(v)
    BY <1>1, <1>2, RetryRange DEF Wdev, Calm, Timed, Retries, Tries, Named
  <2>6. Data(w) => Data(v)
    BY <1>1 DEF Wdev, Data, Old
  <2> HIDE DEF v
  <2>7. /\ Step(S, T, r) /\ T.wdev[r] = v /\ T.mishap = S.mishap /\ Well(T)
        /\ \A up \in BOOLEAN : Waits(T, r, up) <=> Waits(S, r, up)
    BY <2>3, <2>4, PutStep DEF w, Step
  <2> HIDE DEF T
  <2>8. LooseInv(r, v, Waits(T, r, TRUE), Waits(T, r, FALSE), "fork" \in T.mishap)
    BY <1>1, <2>2, <2>4, <2>5, <2>6, <2>7 DEF LooseInv, Waiting, Driven, SetupData
  <2>9. RadioInv(T, r) /\ T.wdev[r].alive
    BY <1>2, <2>2, <2>4, <2>7, <2>8 DEF RadioInv
  <2>10. Step(T, N, r) /\ RadioInv(N, r)
    BY <2>1, <2>7, <2>9, LinkInv
  <2>11. Step(S, N, r)
    BY <2>7, <2>10, StepTrans
  <2> QED
    BY <2>10, <2>11
<1> QED
  BY <1>3, <1>4

-----------------------------------------------------------------------------
(***************************************************************************)
(* The configuration of a radio changes.                                   *)
(***************************************************************************)

\* The invariant of a radio whose configuration is being changed: a setup that waits
\* may now be one for another configuration, if nothing was changed before.
Alterable(S, r) ==
  LET w == S.wdev[r] t == Waits(S, r, TRUE) f == Waits(S, r, FALSE) IN
  /\ w.alive /\ Calm(w) /\ Waiting(w, t, f)
  /\ "fork" \notin S.mishap =>
       /\ Driven(w, t, f)
       /\ r \notin Serialize \cap Reconf =>
            Data(w) /\ (t => ~w.cancel /\ w.config_state = "IFC_NORMAL")

\* Every radio that exists may be given a new configuration.
LEMMA InvIsAlterable ==
  ASSUME NEW S, NEW r, RadioInv(S, r), S.wdev[r].alive
  PROVE  Alterable(S, r)
BY DEF RadioInv, LooseInv, SetupData, Alterable

\* No setup waits that would be for another configuration.
LEMMA AlterableIsInv ==
  ASSUME NEW S, NEW r, Alterable(S, r),
         \/ ~Waits(S, r, TRUE)
         \/ r \in Serialize \cap Reconf
         \/ S.wdev[r].cancel
         \/ S.wdev[r].config_state # "IFC_NORMAL"
  PROVE  RadioInv(S, r)
<1> DEFINE w == S.wdev[r]
<1>1. LooseInv(r, w, Waits(S, r, TRUE), Waits(S, r, FALSE), "fork" \in S.mishap)
  BY DEF Alterable, LooseInv, SetupData
<1> QED
  BY <1>1 DEF Alterable, RadioInv

\* A radio that is down takes the new configuration at once, others are taken down for
\* it, and a radio whose driver can be reconfigured is left up.
LEMMA SetConfigInv ==
  ASSUME NEW S, Well(S), NEW r \in Radio, Alterable(S, r),
         NEW s \in {"IFC_RELOAD", "IFC_REMOVE"}
  PROVE  LET N == wdev_set_config_state(S, r, s) IN Step(S, N, r) /\ RadioInv(N, r)
<1> DEFINE w == S.wdev[r]  N == wdev_set_config_state(S, r, s)
           v == [w EXCEPT !.config_state = s]  T == Put(S, r, v)
           t == Waits(S, r, TRUE)  f == Waits(S, r, FALSE)
<1>1. w \in Wdev /\ w.state \in State
  BY DEF Well, WState, Wdev
<1>2. /\ w.alive /\ Calm(w) /\ Waiting(w, t, f)
      /\ ("fork" \notin S.mishap =>
            /\ Driven(w, t, f)
            /\ r \notin Serialize \cap Reconf =>
                 Data(w) /\ (t => ~w.cancel /\ w.config_state = "IFC_NORMAL"))
  BY DEF Alterable
<1>3. CASE w.config_state # "IFC_NORMAL"
  <2>1. N = S
    BY <1>3 DEF wdev_set_config_state
  <2>2. RadioInv(S, r)
    BY <1>3, AlterableIsInv
  <2>3. Step(S, S, r)
    BY StepRefl
  <2> QED
    BY <2>1, <2>2, <2>3
<1>4. CASE w.config_state = "IFC_NORMAL"
  <2>1. N = IF w.state = "IFS_DOWN" THEN wdev_handle_config_change(T, r)
            ELSE IF r \notin Reconf \/ w.state # "IFS_UP" THEN set_down(T, r)
            ELSE T
    BY <1>4 DEF wdev_set_config_state, Put
  <2> HIDE DEF w
  <2>2. v \in Wdev
    BY <1>1 DEF Wdev, ConfigState
  <2>3. /\ v.state = w.state /\ v.alive = w.alive /\ v.script_task = w.script_task
        /\ v.cancel = w.cancel /\ v.timeout = w.timeout /\ v.kill_request = w.kill_request
        /\ v.applied = w.applied
    BY <1>1 DEF Wdev
  <2>4. (Named(w) => Named(v)) /\ (Tries(w) => Tries(v))
    BY <1>1 DEF Wdev, Named, Tries
  <2>5. Data(w) => Data(v)
    BY <1>1 DEF Wdev, Data, Old
  <2>6. w.state # "IFS_DOWN" => Calm(v)
    BY <1>1, <1>2 DEF Wdev, Calm, Timed, Retries, Tries, Named
  <2> HIDE DEF v
  <2>7. /\ Step(S, T, r) /\ T.wdev[r] = v /\ T.mishap = S.mishap /\ Well(T)
        /\ \A up \in BOOLEAN : Waits(T, r, up) <=> Waits(S, r, up)
    BY <2>2, <2>3, PutStep DEF w, Step
  <2> HIDE DEF T, N
  <2>8. ASSUME w.state # "IFS_DOWN",
               w.state \in {"IFS_SETUP", "IFS_UP"} =>
                 w.cancel \/ ~t \/ r \in Serialize \cap Reconf
        PROVE  RadioInv(T, r)
    <3>1. "fork" \notin S.mishap /\ r \notin Serialize \cap Reconf => ~t
      BY <1>2, <2>8 DEF Waiting
    <3>2. LooseInv(r, v, Waits(T, r, TRUE), Waits(T, r, FALSE), "fork" \in T.mishap)
      BY <1>2, <2>3, <2>5, <2>6, <2>7, <2>8, <3>1
         DEF LooseInv, Waiting, Driven, SetupData
    <3> QED
      BY <2>7, <3>1, <3>2 DEF RadioInv
  <2>9. ASSUME Step(T, N, r), RadioInv(N, r) PROVE Step(S, N, r) /\ RadioInv(N, r)
    BY <2>7, <2>9, StepTrans
  <2>10. CASE w.state = "IFS_DOWN"
    <3>1. N = wdev_handle_config_change(T, r)
      BY <2>1, <2>10
    <3>2. /\ w.script_task = "none" /\ ~w.timeout /\ ~w.cancel /\ ~w.kill_request
          /\ w.applied = None /\ Named(w) /\ Tries(w)
      BY <1>2, <2>10 DEF Calm, AtRest
    <3>3. ~t /\ ~f
      BY <1>2, <2>10 DEF Waiting
    <3>4. Lowered(T, r)
      BY <1>2, <2>3, <2>4, <2>7, <2>10, <3>2, <3>3 DEF Lowered, Restartable
    <3>5. Step(T, N, r) /\ RadioInv(N, r)
      BY <2>7, <3>1, <3>4, ConfigChangeInv
    <3> QED
      BY <2>9, <3>5 DEF N
  <2>11. CASE w.state # "IFS_DOWN" /\ (r \notin Reconf \/ w.state # "IFS_UP")
    <3>1. N = set_down(T, r)
      BY <2>1, <2>11
    <3>2. CASE w.state \in {"IFS_SETUP", "IFS_UP"} /\ ~w.cancel
      <4>1. w.script_task # "teardown" /\ ~w.kill_request /\ Named(w) /\ Tries(w)
        BY <1>2, <3>2 DEF Calm
      <4>2. Lowerable(T, r) /\ ~T.wdev[r].cancel
        BY <1>2, <2>3, <2>4, <2>5, <2>7, <3>2, <4>1 DEF Lowerable
      <4>3. Step(T, N, r) /\ RadioInv(N, r)
        BY <2>7, <3>1, <4>2, SetDownInv
      <4> QED
        BY <2>9, <4>3 DEF N
    <3>3. CASE w.state \notin {"IFS_SETUP", "IFS_UP"} \/ w.cancel
      <4>1. RadioInv(T, r)
        BY <2>8, <2>11, <3>3
      <4>2. Step(T, N, r) /\ RadioInv(N, r)
        BY <2>7, <3>1, <4>1, SetDownInv
      <4> QED
        BY <2>9, <4>2 DEF N
    <3> QED
      BY <3>2, <3>3
  <2>12. CASE w.state = "IFS_UP" /\ r \in Reconf
    <3>1. N = T
      BY <2>1, <2>12
    <3>2. ~t \/ r \in Serialize \cap Reconf
      BY <2>12 DEF Well
    <3>3. RadioInv(T, r)
      BY <2>8, <2>12, <3>2
    <3> QED
      BY <2>7, <3>1, <3>3 DEF N
  <2> QED
    BY <2>10, <2>11, <2>12
<1> QED
  BY <1>3, <1>4

\* The configuration of the last setup is kept.
LEMMA ChangeConfigInv ==
  ASSUME NEW S, Well(S), NEW r \in Radio, RadioInv(S, r), S.wdev[r].alive,
         NEW c, c.disabled \in BOOLEAN, c.conf \in Conf
  PROVE  LET N == wdev_change_config(S, r, c) IN Step(S, N, r) /\ RadioInv(N, r)
<1> DEFINE w == S.wdev[r]  N == wdev_change_config(S, r, c)
           x == IF w.prev_config = None THEN w.conf ELSE w.prev_config
           v == [w EXCEPT !.prev_config = x]
           u == [v EXCEPT !.conf = c.conf, !.disabled = c.disabled]
           t == Waits(S, r, TRUE)  f == Waits(S, r, FALSE)
<1>1. w \in Wdev /\ w.alive /\ w.conf \in Conf /\ w.prev_config \in Conf \cup {None}
  BY DEF Well, WState, Wdev
<1>2. Alterable(S, r)
  BY InvIsAlterable
<1>3. /\ Calm(w) /\ Waiting(w, t, f)
      /\ ("fork" \notin S.mishap =>
            /\ Driven(w, t, f)
            /\ r \notin Serialize \cap Reconf =>
                 Data(w) /\ (t => ~w.cancel /\ w.config_state = "IFC_NORMAL"))
  BY <1>2 DEF Alterable
<1>4. "fork" \notin S.mishap /\ r \notin Serialize \cap Reconf => SetupData(w, t)
  BY DEF RadioInv, LooseInv
<1>5. x \in Conf /\ x = Old(w) /\ x # None
  BY <1>1, RadioAssumption DEF Old
<1> HIDE DEF x, w
<1>6. v \in Wdev
  BY ONLY <1>1, <1>5 DEF Wdev
<1>7. /\ v.state = w.state /\ v.alive = w.alive /\ v.script_task = w.script_task
      /\ v.cancel = w.cancel /\ v.timeout = w.timeout /\ v.config_state = w.config_state
      /\ v.prev_config = x /\ v.conf = w.conf
  BY <1>1, <1>5 DEF Wdev
<1>8. Calm(v)
  BY <1>1, <1>3 DEF Wdev, Calm, AtRest, Timed, Retries, Tries, Named
<1>9. Data(w) => Data(v)
  BY <1>1, <1>5 DEF Wdev, Data, Old
<1>10. CASE w.conf = c.conf /\ w.disabled = c.disabled
  <2> DEFINE T == Put(S, r, v)
  <2>1. N = T
    BY <1>10 DEF wdev_change_config, Put, v, x, w
  <2> HIDE DEF v, N
  <2>2. /\ Step(S, T, r) /\ T.wdev[r] = v /\ T.mishap = S.mishap
        /\ \A up \in BOOLEAN : Waits(T, r, up) <=> Waits(S, r, up)
    BY <1>6, <1>7, PutStep DEF w
  <2> HIDE DEF T
  <2>3. SetupData(w, t) => SetupData(v, t)
    BY <1>5, <1>7 DEF SetupData, Old
  <2>4. LooseInv(r, v, Waits(T, r, TRUE), Waits(T, r, FALSE), "fork" \in T.mishap)
    BY <1>3, <1>4, <1>7, <1>8, <1>9, <2>2, <2>3 DEF LooseInv, Waiting, Driven, SetupData
  <2>5. RadioInv(T, r)
    BY <1>3, <1>7, <2>2, <2>4 DEF RadioInv
  <2> QED
    BY <2>1, <2>2, <2>5 DEF N
<1>11. CASE ~(w.conf = c.conf /\ w.disabled = c.disabled)
  <2> DEFINE T == Put(S, r, u)
  <2>1. N = wdev_set_config_state(T, r, "IFC_RELOAD")
    BY <1>11 DEF wdev_change_config, Put, v, x, w
  <2> HIDE DEF v, N
  <2>2. u \in Wdev
    BY ONLY <1>6, c.disabled \in BOOLEAN, c.conf \in Conf DEF Wdev
  <2>3. /\ u.state = v.state /\ u.alive = v.alive /\ u.script_task = v.script_task
        /\ u.cancel = v.cancel /\ u.timeout = v.timeout /\ u.config_state = v.config_state
    BY <1>6 DEF Wdev
  <2>4. Calm(u)
    BY <1>1, <1>6, <1>7, <1>8 DEF Wdev, Calm, AtRest, Timed, Retries, Tries, Named
  <2>5. Data(v) => Data(u)
    BY <1>5, <1>6, <1>7 DEF Wdev, Data, Old
  <2> HIDE DEF u
  <2>6. /\ Step(S, T, r) /\ T.wdev[r] = u /\ T.mishap = S.mishap /\ Well(T)
        /\ \A up \in BOOLEAN : Waits(T, r, up) <=> Waits(S, r, up)
    BY <1>7, <2>2, <2>3, PutStep DEF w, Step
  <2> HIDE DEF T
  <2>7. Alterable(T, r)
    <3>1. Waiting(u, t, f) /\ (Driven(w, t, f) => Driven(u, t, f))
      BY <1>3, <1>7, <2>3 DEF Waiting, Driven
    <3> QED
      BY <1>1, <1>3, <1>7, <1>9, <2>3, <2>4, <2>5, <2>6, <3>1
         DEF Alterable, Waiting, Driven
  <2>8. Step(T, N, r) /\ RadioInv(N, r)
    BY <2>1, <2>6, <2>7, SetConfigInv
  <2>9. Step(S, N, r)
    BY <2>6, <2>8, StepTrans
  <2> QED
    BY <2>8, <2>9 DEF N
<1> QED
  BY <1>10, <1>11

\* A radio of the configuration.
LEMMA CreateInv ==
  ASSUME NEW S, Well(S), NEW r \in Radio, RadioInv(S, r),
         NEW c, c.disabled \in BOOLEAN, c.conf \in Conf
  PROVE  LET N == wireless_device_create(S, r, c) IN Step(S, N, r) /\ RadioInv(N, r)
<1> DEFINE w == S.wdev[r]  N == wireless_device_create(S, r, c)
<1>1. CASE w.alive
  <2>1. N = wdev_change_config(S, r, c)
    BY <1>1 DEF wireless_device_create
  <2> QED
    BY <1>1, <2>1, ChangeConfigInv
<1>2. CASE ~w.alive
  <2> DEFINE n == Fresh(c)
  <2>1. N = Put(S, r, n)
    BY <1>2 DEF wireless_device_create, Put
  <2>2. w = Gone /\ ~Waits(S, r, TRUE) /\ ~Waits(S, r, FALSE)
    <3>1. w = Gone
      BY <1>2 DEF RadioInv, LooseInv, Calm
    <3>2. Waiting(w, Waits(S, r, TRUE), Waits(S, r, FALSE))
      BY DEF RadioInv, LooseInv
    <3> QED
      BY <3>1, <3>2, GoneFacts DEF Waiting
  <2>3. /\ n \in Wdev /\ n.alive /\ n.state = "IFS_DOWN"
        /\ n.script_task = "none" /\ Calm(n) /\ n.applied = None
    BY FreshFacts
  <2> HIDE DEF N, n
  <2>4. /\ Step(S, N, r) /\ N.wdev[r] = n
        /\ \A up \in BOOLEAN : Waits(N, r, up) <=> Waits(S, r, up)
    BY <2>1, <2>2, <2>3, PutStep, GoneFacts
  <2>5. LooseInv(r, n, Waits(N, r, TRUE), Waits(N, r, FALSE), "fork" \in N.mishap)
    BY <2>2, <2>3, <2>4 DEF LooseInv, Waiting, Driven, SetupData, Data
  <2>6. RadioInv(N, r)
    BY <2>2, <2>4, <2>5 DEF RadioInv
  <2> QED
    BY <2>4, <2>6 DEF N
<1> QED
  BY <1>1, <1>2

\* A virtual interface leaves its networks before it is changed.
LEMMA VifInv ==
  ASSUME NEW S, Well(S), NEW r \in Radio, RadioInv(S, r), S.wdev[r].alive,
         NEW vif \in Vif \cup {None}
  PROVE  LET N == vif_update(S, r, vif) IN Step(S, N, r) /\ RadioInv(N, r)
<1> DEFINE w == S.wdev[r]  N == vif_update(S, r, vif)
           T == IF w.vif = None THEN S ELSE wireless_interface_handle_link(S, r, FALSE)
           v == T.wdev[r]  x == v.ifname /\ vif # None
           u == [v EXCEPT !.vif = vif, !.ifname = x]  U == Put(T, r, u)
<1>1. CASE w.vif = vif
  <2>1. N = S
    BY <1>1 DEF vif_update
  <2>2. Step(S, S, r)
    BY StepRefl
  <2> QED
    BY <2>1, <2>2
<1>2. CASE w.vif # vif
  <2>1. N = wdev_set_config_state(U, r, "IFC_RELOAD")
    BY <1>2 DEF vif_update, Put
  <2>2. w \in Wdev /\ Named(w)
    BY DEF Well, WState, RadioInv, LooseInv, Calm
  <2>3. Step(S, T, r) /\ RadioInv(T, r)
    BY LinkInv, StepRefl
  <2>4. v.alive /\ ~v.linked
    <3>1. CASE w.vif = None
      <4>1. v = w
        BY <3>1
      <4>2. w.linked \in BOOLEAN
        BY <2>2 DEF Wdev
      <4> QED
        BY <2>2, <3>1, <4>1, <4>2 DEF Named
    <3>2. CASE w.vif # None
      <4>1. T = IF w.ifname THEN Put(S, r, [w EXCEPT !.linked = FALSE]) ELSE S
        BY <3>2 DEF wireless_interface_handle_link, Put
      <4>2. CASE w.ifname
        <5>1. w.alive
          OBVIOUS
        <5> DEFINE l == [w EXCEPT !.linked = FALSE]
        <5>2. l \in Wdev
          BY <2>2 DEF Wdev
        <5>3. v = l
          <6>1. T = Put(S, r, l)
            BY <4>1, <4>2
          <6> HIDE DEF l, T
          <6>2. S \in WState
            BY DEF Well
          <6> QED
            BY <5>2, <6>1, <6>2, PutFacts
        <5> HIDE DEF w, v
        <5> QED
          BY <2>2, <5>1, <5>3 DEF Wdev
      <4>3. CASE ~w.ifname
        <5>1. v = w
          BY <4>1, <4>3
        <5> QED
          BY <2>2, <4>3, <5>1 DEF Named
      <4> QED
        BY <4>2, <4>3
    <3> QED
      BY <3>1, <3>2
  <2> HIDE DEF T
  <2>5. Well(T) /\ v \in Wdev /\ Calm(v)
    BY <2>3 DEF Step, Well, WState, RadioInv, LooseInv
  <2>6. x \in BOOLEAN
    BY <2>5 DEF Wdev
  <2> HIDE DEF v, x
  <2>7. u \in Wdev
    BY ONLY <2>5, <2>6, vif \in Vif \cup {None} DEF Wdev
  <2>8. Same(v, u) /\ u.alive
    BY <2>4, <2>5 DEF Wdev, Same
  <2>9. Calm(u)
    BY <2>4, <2>5 DEF Wdev, Calm, AtRest, Timed, Retries, Tries, Named
  <2> HIDE DEF u
  <2>10. Step(T, U, r) /\ RadioInv(U, r) /\ U.wdev[r] = u /\ Well(U)
    <3>1. U.wdev[r] = u
      BY <2>5, <2>7, PutFacts DEF Well
    <3>2. Step(T, U, r) /\ RadioInv(U, r)
      BY <2>3, <2>5, <2>7, <2>8, <2>9, PutInv DEF v
    <3> QED
      BY <3>1, <3>2 DEF Step
  <2> HIDE DEF U
  <2>11. Alterable(U, r)
    BY <2>8, <2>10, InvIsAlterable
  <2>12. Step(U, N, r) /\ RadioInv(N, r)
    BY <2>1, <2>10, <2>11, SetConfigInv
  <2>13. Step(S, N, r)
    BY <2>3, <2>10, <2>12, StepTrans
  <2> QED
    BY <2>12, <2>13
<1> QED
  BY <1>1, <1>2

-----------------------------------------------------------------------------
(***************************************************************************)
(* A script ends, and the turn is given on.                                *)
(***************************************************************************)

\* The radio at the head of the queue, with its script.
LEMMA TurnInv ==
  ASSUME NEW w, NEW n, NEW r, NEW up \in BOOLEAN, NEW forks \in BOOLEAN, Ran(w, n, up, forks),
         NEW forked \in BOOLEAN, LooseInv(r, w, up, ~up, forked)
  PROVE  LooseInv(r, n, FALSE, FALSE, forked \/ ~forks)
<1>1. Calm(w) /\ Waiting(w, up, ~up)
  BY DEF LooseInv
<1>2. Calm(n)
  <2>1. w.state # "IFS_DOWN" /\ n.alive = w.alive /\ n.state = w.state
    BY <1>1 DEF Waiting, Ran
  <2>2. w.alive
    BY <1>1, <2>1, GoneFacts DEF Calm
  <2>3. /\ n.script_task = "teardown" => n.state = "IFS_TEARDOWN"
        /\ n.script_task = "setup" => n.state \in {"IFS_SETUP", "IFS_UP"}
    BY <1>1 DEF Ran, Waiting
  <2>4. Timed(n) /\ Retries(n) /\ Tries(n) /\ Named(n)
    BY <1>1 DEF Ran, Calm, Timed, Retries, Tries, Named
  <2>5. n.kill_request => n.state = "IFS_TEARDOWN" /\ n.script_proc # {}
    BY <1>1 DEF Ran, Calm
  <2> QED
    BY <2>1, <2>2, <2>3, <2>4, <2>5 DEF Calm
<1>3. ASSUME ~forked, forks PROVE Driven(n, FALSE, FALSE)
  BY <1>3 DEF Ran, Driven
<1>4. ASSUME ~forked, forks, r \notin Serialize \cap Reconf PROVE Data(n)
  <2>1. Data(w) /\ SetupData(w, up)
    BY <1>4 DEF LooseInv
  <2>2. CASE up
    <3>1. n.script_task = "setup" /\ n.applied = w.conf /\ Old(n) = w.conf
      BY <1>4, <2>1, <2>2 DEF Ran, SetupData, Old
    <3> QED
      BY <3>1 DEF Data
  <2>3. CASE ~up
    <3>1. w.script_task = "none"
      BY <1>1, <2>3 DEF Waiting
    <3>2. n.script_task = "teardown" /\ n.given = Old(w) /\ n.applied = w.applied
      BY <1>4, <2>3 DEF Ran
    <3> QED
      BY <2>1, <3>1, <3>2 DEF Data
  <2> QED
    BY <2>2, <2>3
<1> QED
  BY <1>2, <1>3, <1>4 DEF LooseInv, Waiting, SetupData

\* wireless_handler_next(), once the script of a serialized radio has ended.
LEMMA NextTurn ==
  ASSUME NEW U, Well(U), Alone(U)
  PROVE  LET N == wireless_handler_next([U EXCEPT !.handler_pending = FALSE]) IN
         /\ Well(N) /\ Held(N) /\ Excl(N) /\ Runner(N)
         /\ \A q \in Radio : /\ RadioInv(U, q) => RadioInv(N, q)
                             /\ Settled(U, q) => Restartable(N, q)
                             /\ N.wdev[q].alive = U.wdev[q].alive
<1> DEFINE V == [U EXCEPT !.handler_pending = FALSE]  N == wireless_handler_next(V)
<1>1. U \in WState
  BY DEF Well
<1>2. /\ V \in WState
      /\ V.wdev = U.wdev
      /\ V.handlers = U.handlers
      /\ V.handler_pending = FALSE
      /\ V.mishap = U.mishap
      /\ V.fault = U.fault
      /\ V.config_init = U.config_init
  BY <1>1 DEF WState
<1> HIDE DEF V
<1>3. CASE V.handlers = <<>>
  <2>1. N = V
    BY <1>3 DEF wireless_handler_next
  <2>2. Well(V)
    BY <1>2 DEF Well, Waits
  <2>3. Held(V) /\ Runner(V)
    BY <1>2, <1>3 DEF Held, Runner
  <2>4. Excl(V)
    BY <1>2 DEF Alone, Excl, Runs
  <2>5. ASSUME NEW q \in Radio
        PROVE  /\ RadioInv(U, q) => RadioInv(V, q)
               /\ Settled(U, q) => Restartable(V, q)
               /\ V.wdev[q].alive = U.wdev[q].alive
    <3>1. \A up \in BOOLEAN : Waits(V, q, up) <=> Waits(U, q, up)
      BY <1>2 DEF Waits
    <3>2. RadioInv(U, q) => RadioInv(V, q)
      BY <1>2, <3>1, Carry
    <3>3. Settled(U, q) => Restartable(V, q)
      BY <1>2 DEF Settled, Restartable
    <3> QED
      BY <1>2, <3>2, <3>3
  <2> QED
    BY <2>1, <2>2, <2>3, <2>4, <2>5 DEF V
<1>4. CASE V.handlers # <<>>
  <2> DEFINE e == Head(V.handlers)  h == e[1]  up == e[2]  t == Tail(V.handlers)
             T == [V EXCEPT !.handlers = t]
  <2>1. N = wireless_device_run_handler(T, h, up)
    BY <1>2, <1>4 DEF wireless_handler_next
  <2>2. /\ e \in Handler /\ In(V.handlers, h, up)
        /\ t \in Seq(Handler) /\ Once(t)
        /\ \A q \in Radio, u \in BOOLEAN : In(t, q, u) <=> q # h /\ In(V.handlers, q, u)
    <3>1. V.handlers \in Seq(Handler) /\ Once(V.handlers)
      BY <1>2 DEF Well, WState
    <3> QED
      BY <1>4, <3>1, TailFacts
  <2>3. h \in Radio /\ up \in BOOLEAN
    BY <2>2 DEF Handler
  <2> HIDE DEF e, h, up, t
  <2>4. /\ T \in WState
        /\ T.wdev = U.wdev
        /\ T.handlers = t
        /\ T.handler_pending = FALSE
        /\ T.mishap = U.mishap
        /\ T.fault = U.fault
        /\ T.config_init = U.config_init
    BY <1>2, <2>2 DEF WState
  <2> HIDE DEF T
  <2>5. \A q \in Radio, u \in BOOLEAN : Waits(T, q, u) <=> q # h /\ Waits(U, q, u)
    BY <1>2, <2>2, <2>4 DEF Waits
  <2>6. Waits(U, h, up) /\ h \in Serialize
    <3>1. Waits(U, h, up)
      BY <1>2, <2>2 DEF Waits
    <3> QED
      BY <2>3, <3>1 DEF Well
  <2>7. Well(T)
    BY <2>2, <2>4, <2>5 DEF Well
  <2>8. Excl(T) /\ Runner(T)
    BY <2>4 DEF Alone, Excl, Runner, Runs
  <2> HIDE DEF N
  <2>9. /\ Step(T, N, h)
        /\ Held(N)
        /\ Ran(T.wdev[h], N.wdev[h], up, T.fault # "fork")
        /\ \A u \in BOOLEAN : ~Waits(N, h, u)
        /\ T.fault = "fork" => "fork" \in N.mishap
    BY <2>1, <2>3, <2>4, <2>6, <2>7, RunStep
  <2>10. Well(N) /\ Held(N) /\ Excl(N) /\ Runner(N)
    BY <2>8, <2>9 DEF Step
  <2>11. U.mishap \subseteq N.mishap /\ N.config_init = U.config_init
    BY <2>4, <2>9 DEF Step
  <2>12. ASSUME NEW q \in Radio, q # h
         PROVE  /\ N.wdev[q] = U.wdev[q]
                /\ \A u \in BOOLEAN : Waits(N, q, u) <=> Waits(U, q, u)
    BY <2>4, <2>5, <2>9, <2>12 DEF Step
  <2>13. ASSUME NEW q \in Radio, q # h
         PROVE  /\ RadioInv(U, q) => RadioInv(N, q)
                /\ Settled(U, q) => Restartable(N, q)
                /\ N.wdev[q].alive = U.wdev[q].alive
    <3>1. RadioInv(U, q) => RadioInv(N, q)
      BY <2>11, <2>12, <2>13, Carry
    <3>2. Settled(U, q) => Restartable(N, q)
      BY <2>11, <2>12, <2>13 DEF Settled, Restartable
    <3> QED
      BY <2>12, <2>13, <3>1, <3>2
  <2> DEFINE w == U.wdev[h]  n == N.wdev[h]
  <2>14. Ran(w, n, up, U.fault # "fork") /\ w \in Wdev
    BY <1>1, <2>3, <2>4, <2>9 DEF WState
  <2>15. (Waits(U, h, TRUE) <=> up) /\ (Waits(U, h, FALSE) <=> ~up)
    <3>1. ASSUME NEW u \in BOOLEAN, Waits(U, h, u) PROVE u = up
      <4>1. PICK i \in DOMAIN U.handlers : U.handlers[i] = <<h, up>>
        BY <2>6 DEF Waits, In
      <4>2. PICK j \in DOMAIN U.handlers : U.handlers[j] = <<h, u>>
        BY <3>1 DEF Waits, In
      <4>3. i = j
        BY <4>1, <4>2 DEF Well, Once
      <4> QED
        BY <4>1, <4>2, <4>3
    <3> QED
      BY <2>3, <2>6, <3>1
  <2>16. ASSUME RadioInv(U, h) PROVE RadioInv(N, h)
    <3> DEFINE forks == U.fault # "fork"  forked == "fork" \in U.mishap
    <3>1. LooseInv(h, w, up, ~up, forked)
      <4>1. LooseInv(h, w, Waits(U, h, TRUE), Waits(U, h, FALSE), forked)
        BY <2>16 DEF RadioInv
      <4> HIDE DEF w, forked
      <4> QED
        BY <2>15, <4>1 DEF LooseInv, Waiting, Driven, SetupData
    <3>2. LooseInv(h, n, FALSE, FALSE, forked \/ ~forks)
      <4>1. Ran(w, n, up, forks) /\ forks \in BOOLEAN /\ forked \in BOOLEAN
        BY <2>14
      <4> HIDE DEF w, n, forked, forks
      <4> QED
        BY <2>3, <3>1, <4>1, TurnInv
    <3>3. forked \/ ~forks => "fork" \in N.mishap
      BY <2>4, <2>9, <2>11
    <3>4. ~Waits(N, h, TRUE) /\ ~Waits(N, h, FALSE)
      BY <2>9
    <3>5. LooseInv(h, n, Waits(N, h, TRUE), Waits(N, h, FALSE), "fork" \in N.mishap)
      <4> HIDE DEF n, forked, forks
      <4> QED
        BY <3>2, <3>3, <3>4 DEF LooseInv, Waiting, Driven, SetupData
    <3> QED
      BY <3>4, <3>5 DEF RadioInv
  <2>17. ASSUME Settled(U, h) PROVE Restartable(N, h)
    <3>1. up = TRUE
      BY <2>3, <2>15, <2>17 DEF Settled
    <3>2. /\ Accepts(w) /\ w.config_state = "IFC_NORMAL" /\ ~U.config_init
          /\ w.alive /\ Named(w) /\ Tries(w)
      BY <2>15, <2>17, <3>1 DEF Settled, Restartable
    <3> HIDE DEF w, n
    <3>3. /\ Accepts(n) /\ n.config_state = "IFC_NORMAL"
          /\ n.alive /\ Named(n) /\ Tries(n) /\ n.script_task \in {"none", "setup"}
      BY <2>14, <3>1, <3>2 DEF Ran, Accepts, Named, Tries
    <3> QED
      BY <2>11, <3>2, <3>3 DEF Restartable, n
  <2>18. n.alive = w.alive
    BY <2>14 DEF Ran
  <2>19. ASSUME NEW q \in Radio
         PROVE  /\ RadioInv(U, q) => RadioInv(N, q)
                /\ Settled(U, q) => Restartable(N, q)
                /\ N.wdev[q].alive = U.wdev[q].alive
    BY <2>13, <2>16, <2>17, <2>18
  <2> QED
    BY <2>10, <2>19 DEF N, V
<1> QED
  BY <1>3, <1>4

\* Once the radio is dealt with: a serialized one gives the turn on.
GiveOn(T, r) ==
  LET U == IF ReadSerialize(T, r) = (r \in Serialize) THEN T
           ELSE [T EXCEPT !.mishap = @ \cup {"freed"}]
  IN  IF ReadSerialize(T, r)
        THEN wireless_handler_next([U EXCEPT !.handler_pending = FALSE]) ELSE U

\* The script of r is over, and what it was started for is not yet done.
Over(S, r) ==
  /\ Well(S) /\ Held(S)
  /\ \A q \in Radio \ {r} : RadioInv(S, q)
  /\ r \in Serialize => Alone(S)
  /\ r \notin Serialize => Excl(S) /\ Runner(S)

\* The other radios and the queue are in order once the turn is given on.
LEMMA GiveOnInv ==
  ASSUME NEW S, NEW r \in Radio, Over(S, r), NEW T, Step(S, T, r)
  PROVE  LET N == GiveOn(T, r) IN
         /\ Well(N) /\ Held(N) /\ Excl(N) /\ Runner(N)
         /\ \A q \in Radio \ {r} : RadioInv(N, q)
         /\ RadioInv(T, r) => RadioInv(N, r)
         /\ Settled(T, r) => Restartable(N, r)
         /\ N.wdev[r].alive = T.wdev[r].alive
<1> DEFINE N == GiveOn(T, r)
<1>1. Well(T) /\ Held(T) /\ (r \in Serialize => Alone(T))
      /\ (r \notin Serialize => Excl(T) /\ Runner(T))
  BY DEF Over, Step
<1>2. \A q \in Radio \ {r} : RadioInv(T, q)
  BY OthersKept DEF Over
<1>3. CASE ReadSerialize(T, r) = (r \in Serialize)
  <2>1. CASE r \in Serialize
    <3>1. N = wireless_handler_next([T EXCEPT !.handler_pending = FALSE])
      BY <1>3, <2>1 DEF GiveOn
    <3>2. /\ Well(N) /\ Held(N) /\ Excl(N) /\ Runner(N)
          /\ \A q \in Radio : /\ RadioInv(T, q) => RadioInv(N, q)
                              /\ Settled(T, q) => Restartable(N, q)
                              /\ N.wdev[q].alive = T.wdev[q].alive
      BY <1>1, <2>1, <3>1, NextTurn
    <3> HIDE DEF N
    <3> QED
      BY <1>2, <3>2 DEF N
  <2>2. CASE r \notin Serialize
    <3>1. N = T
      BY <1>3, <2>2 DEF GiveOn
    <3>2. Settled(T, r) => Restartable(T, r)
      BY DEF Settled
    <3> QED
      BY <1>1, <1>2, <2>2, <3>1, <3>2
  <2> QED
    BY <2>1, <2>2
<1>4. CASE ReadSerialize(T, r) # (r \in Serialize)
  <2> DEFINE m == T.mishap \cup {"freed"}  U == [T EXCEPT !.mishap = m]
  <2>1. T \in WState /\ m \in SUBSET Mishap
    BY <1>1 DEF Well, WState, Mishap
  <2>2. /\ U \in WState
        /\ U.wdev = T.wdev
        /\ U.handlers = T.handlers
        /\ U.handler_pending = T.handler_pending
        /\ U.mishap = m
        /\ U.fault = T.fault
        /\ U.config_init = T.config_init
    <3> HIDE DEF m
    <3> QED
      BY <2>1 DEF WState
  <2>3. N = IF ReadSerialize(T, r)
              THEN wireless_handler_next([U EXCEPT !.handler_pending = FALSE]) ELSE U
    BY <1>4 DEF GiveOn
  <2> HIDE DEF U, N
  <2>4. \A q \in Radio, up \in BOOLEAN : Waits(U, q, up) <=> Waits(T, q, up)
    BY <2>2 DEF Waits
  <2>5. Well(U)
    BY <1>1, <2>2, <2>4 DEF Well
  <2>6. Held(U) /\ Excl(U) /\ Runner(U) /\ Alone(U)
    BY <1>1, <2>2 DEF Held, Excl, Runner, Alone
  <2>7. \A q \in Radio : RadioInv(T, q) => RadioInv(U, q)
    BY <2>2, <2>4, Carry
  <2>8. ~Settled(T, r)
    BY <1>4 DEF ReadSerialize, Settled, Restartable
  <2>9. CASE ReadSerialize(T, r)
    <3>1. N = wireless_handler_next([U EXCEPT !.handler_pending = FALSE])
      BY <2>3, <2>9
    <3>2. /\ Well(N) /\ Held(N) /\ Excl(N) /\ Runner(N)
          /\ \A q \in Radio : /\ RadioInv(U, q) => RadioInv(N, q)
                              /\ N.wdev[q].alive = U.wdev[q].alive
      BY <2>5, <2>6, <3>1, NextTurn
    <3> QED
      BY <1>2, <2>2, <2>7, <2>8, <3>2 DEF N
  <2>10. CASE ~ReadSerialize(T, r)
    <3>1. N = U
      BY <2>3, <2>10
    <3> QED
      BY <1>2, <2>2, <2>5, <2>6, <2>7, <2>8, <3>1 DEF N
  <2> QED
    BY <2>9, <2>10
<1> QED
  BY <1>3, <1>4

\* The script of r is taken away; it was the one that has the turn, or the timer of
\* another radio overran it.
LEMMA Cleared ==
  ASSUME NEW S, Inv(S), NEW r \in Radio, NEW N, N \in WState,
         N.wdev[r].script_task = "none",
         \A q \in Radio \ {r} : N.wdev[q] = S.wdev[q],
         Once(N.handlers),
         \A q \in Radio \ {r}, up \in BOOLEAN : Waits(N, q, up) <=> Waits(S, q, up),
         \A up \in BOOLEAN : Waits(N, r, up) => Waits(S, r, up),
         Held(N),
         N.handler_pending = S.handler_pending,
         N.mishap \in {S.mishap, S.mishap \cup {"overrun"}},
         r \in Serialize => Runs(S, r) \/ "overrun" \in N.mishap
  PROVE  Over(N, r)
<1>0. \A q \in Serialize : q \in Radio
  BY RadioAssumption
<1>1. Well(N)
  <2>1. \A q \in Radio, up \in BOOLEAN : Waits(N, q, up) => q \in Serialize
    BY DEF Inv, Well
  <2> QED
    BY <2>1 DEF Well
<1>2. S.mishap \subseteq N.mishap /\ ("fork" \in S.mishap => "fork" \in N.mishap)
  OBVIOUS
<1>3. \A q \in Radio \ {r} : RadioInv(N, q)
  BY <1>2, Carry DEF Inv
<1>4. \A q \in Radio \ {r} : Runs(N, q) <=> Runs(S, q)
  BY DEF Runs
<1>5. ~Runs(N, r)
  BY DEF Runs
<1>6. ASSUME r \in Serialize PROVE Alone(N)
  <2> SUFFICES ASSUME N.mishap \cap {"overrun", "freed"} = {}
               PROVE  N.handler_pending /\ \A q \in Serialize : ~Runs(N, q)
    BY DEF Alone
  <2>1. Runs(S, r) /\ S.mishap \cap {"overrun", "freed"} = {}
    BY <1>2, <1>6
  <2> QED
    BY <1>0, <1>4, <1>5, <1>6, <2>1 DEF Inv, Excl
<1>7. ASSUME r \notin Serialize PROVE Excl(N) /\ Runner(N)
  <2>1. \A q \in Serialize : Runs(N, q) <=> Runs(S, q)
    BY <1>0, <1>4, <1>7
  <2>2. Excl(N)
    <3> SUFFICES ASSUME N.mishap \cap {"overrun", "freed"} = {}
                 PROVE  /\ \A p \in Serialize : Runs(N, p) => N.handler_pending
                        /\ \A p, q \in Serialize : Runs(N, p) /\ Runs(N, q) => p = q
      BY DEF Excl
    <3>1. S.mishap \cap {"overrun", "freed"} = {}
      BY <1>2
    <3> QED
      BY <2>1, <3>1 DEF Inv, Excl
  <2>3. Runner(N)
    <3>1. N.mishap \cap {"fork", "freed"} = {} => S.mishap \cap {"fork", "freed"} = {}
      BY <1>2
    <3> QED
      BY <2>1, <3>1 DEF Inv, Runner
  <2> QED
    BY <2>2, <2>3
<1> QED
  BY <1>1, <1>3, <1>6, <1>7 DEF Over

\* wireless_device_script_task_cb()
LEMMA CbForm ==
  ASSUME NEW S, NEW r
  PROVE  /\ S.wdev[r].state = "IFS_SETUP" =>
              wireless_device_script_task_cb(S, r) = GiveOn(wireless_device_retry_setup(S, r), r)
         /\ S.wdev[r].state = "IFS_TEARDOWN" =>
              wireless_device_script_task_cb(S, r) = GiveOn(wireless_device_mark_down(S, r), r)
         /\ S.wdev[r].state = "IFS_UP" =>
              wireless_device_script_task_cb(S, r) = GiveOn(S, r)
BY DEF wireless_device_script_task_cb, GiveOn

Ended(w) == [w EXCEPT !.script_task = "none", !.given = None]

\* ScriptExit
LEMMA ExitInv ==
  ASSUME NEW S, Inv(S), NEW r \in Radio, Runs(S, r)
  PROVE  Inv(wireless_device_script_task_cb(Put(S, r, Ended(S.wdev[r])), r))
<1> DEFINE w == S.wdev[r]  v == Ended(w)  A == Put(S, r, v)
           N == wireless_device_script_task_cb(A, r)
<1> SUFFICES Inv(N)
  OBVIOUS
<1>1. Well(S) /\ Held(S) /\ RadioInv(S, r) /\ S \in WState
  BY DEF Inv, Well
<1>2. w \in Wdev /\ Calm(w) /\ w.script_task # "none"
  BY <1>1 DEF WState, RadioInv, LooseInv, Runs
<1>3. LooseInv(r, w, Waits(S, r, TRUE), Waits(S, r, FALSE), "fork" \in S.mishap)
      /\ ("fork" \notin S.mishap /\ r \notin Serialize \cap Reconf /\ Waits(S, r, TRUE)
            => w.config_state = "IFC_NORMAL")
  BY <1>1 DEF RadioInv
<1>4. w.alive /\ w.state # "IFS_DOWN" /\ w.state \in State
      /\ w.script_task \in {"none", "setup", "teardown"}
  BY <1>2, LivesIf DEF Calm, AtRest, Wdev
<1> HIDE DEF w
<1>5. v \in Wdev
  BY ONLY <1>2 DEF Ended, Wdev
<1>6. /\ v.state = w.state /\ v.script_task = "none" /\ v.alive = w.alive
      /\ v.cancel = w.cancel /\ v.timeout = w.timeout /\ v.retry = w.retry
      /\ v.kill_request = w.kill_request /\ v.config_state = w.config_state
      /\ v.prev_config = w.prev_config /\ v.conf = w.conf
  BY <1>2 DEF Ended, Wdev
<1>7. Calm(v)
  BY <1>2, <1>4 DEF Ended, Wdev, Calm, AtRest, Timed, Retries, Tries, Named
<1>8. w.script_task # "teardown" /\ Data(w) => Data(v)
  BY <1>2 DEF Ended, Wdev, Data, Old
<1> HIDE DEF v
<1>9. /\ A \in WState
      /\ A.wdev[r] = v
      /\ \A q \in Radio \ {r} : A.wdev[q] = S.wdev[q]
      /\ A.handlers = S.handlers
      /\ A.handler_pending = S.handler_pending
      /\ A.mishap = S.mishap
  BY <1>1, <1>5, PutFacts
<1> HIDE DEF A
<1>10. \A q \in Radio, up \in BOOLEAN : Waits(A, q, up) <=> Waits(S, q, up)
  BY <1>9 DEF Waits
<1>11. Over(A, r)
  <2>1. Once(A.handlers) /\ Held(A)
    BY <1>1, <1>9 DEF Well, Held
  <2> QED
    BY <1>6, <1>9, <1>10, <2>1, Cleared
<1>12. Well(A)
  BY <1>11 DEF Over
<1>13. ASSUME w.script_task # "teardown", w.state # "IFS_TEARDOWN",
              w.state = "IFS_SETUP" => w.timeout
       PROVE  RadioInv(A, r)
  <2>1. LooseInv(r, v, Waits(A, r, TRUE), Waits(A, r, FALSE), "fork" \in A.mishap)
    BY <1>3, <1>6, <1>7, <1>8, <1>9, <1>10, <1>13 DEF LooseInv, Waiting, Driven, SetupData
  <2> QED
    BY <1>3, <1>6, <1>9, <1>10, <2>1 DEF RadioInv
<1>14. w.state # "IFS_TEARDOWN" => w.script_task = "setup"
  BY <1>2, <1>4 DEF Calm
<1> HIDE DEF N
<1>15. ASSUME NEW T, Step(A, T, r), RadioInv(T, r), N = GiveOn(T, r) PROVE Inv(N)
  <2>1. /\ Well(N) /\ Held(N) /\ Excl(N) /\ Runner(N)
        /\ \A q \in Radio \ {r} : RadioInv(N, q)
        /\ RadioInv(N, r)
    BY <1>11, <1>15, GiveOnInv
  <2> QED
    BY <2>1 DEF Inv
<1>16. CASE w.state = "IFS_SETUP"
  <2> DEFINE T == wireless_device_retry_setup(A, r)
  <2>1. N = GiveOn(T, r)
    BY <1>6, <1>9, <1>16, CbForm DEF N
  <2> HIDE DEF T
  <2>2. CASE w.cancel
    <3>1. RadioInv(A, r)
      BY <1>2, <1>13, <1>14, <1>16, <2>2 DEF Calm, Timed
    <3>2. Step(A, T, r) /\ RadioInv(T, r)
      BY <1>12, <3>1, RetryInv DEF T
    <3> QED
      BY <1>15, <2>1, <3>2
  <2>3. CASE ~w.cancel
    <3>1. w.retry >= 0
      BY <1>2, <1>16, <2>3 DEF Calm, Retries
    <3>2. "fork" \notin S.mishap /\ r \notin Serialize \cap Reconf => Data(v)
      BY <1>3, <1>8, <1>14, <1>16 DEF LooseInv
    <3>3. ~v.kill_request /\ Tries(v) /\ Named(v)
      BY <1>6, <1>7, <1>16 DEF Calm
    <3>4. Lowerable(A, r) /\ ~A.wdev[r].cancel /\ A.wdev[r].retry >= 0
      BY <1>4, <1>6, <1>9, <1>16, <2>3, <3>1, <3>2, <3>3 DEF Lowerable
    <3>5. Step(A, T, r) /\ RadioInv(T, r)
      BY <1>12, <3>4, RetryInv DEF T
    <3> QED
      BY <1>15, <2>1, <3>5
  <2> QED
    BY <2>2, <2>3
<1>17. CASE w.state = "IFS_TEARDOWN"
  <2> DEFINE T == wireless_device_mark_down(A, r)
  <2>1. N = GiveOn(T, r)
    BY <1>6, <1>9, <1>17, CbForm DEF N
  <2> HIDE DEF T
  <2>2. Restartable(A, r)
    BY <1>4, <1>6, <1>7, <1>9 DEF Restartable, Calm
  <2>3. Step(A, T, r) /\ RadioInv(T, r)
    BY <1>12, <2>2, MarkDownInv DEF T
  <2> QED
    BY <1>15, <2>1, <2>3
<1>18. CASE w.state = "IFS_UP"
  <2>1. N = GiveOn(A, r)
    BY <1>6, <1>9, <1>18, CbForm DEF N
  <2>2. RadioInv(A, r)
    BY <1>13, <1>14, <1>18
  <2>3. Step(A, A, r)
    BY <1>12, StepRefl
  <2> QED
    BY <1>15, <2>1, <2>2, <2>3
<1> QED
  BY <1>4, <1>16, <1>17, <1>18 DEF State

TimedOut(w) == [w EXCEPT !.timeout = FALSE, !.script_task = "none", !.given = None]

Overruns(m, r, w) == IF r \in Serialize /\ w.script_task = "none" THEN m \cup {"overrun"} ELSE m

\* SetupTimeout
LEMMA TimeoutInv ==
  ASSUME NEW S, Inv(S), NEW r \in Radio, S.wdev[r].timeout
  PROVE  LET B == wireless_handler_stop(S, r)
             A == [B EXCEPT !.wdev[r] = TimedOut(S.wdev[r]),
                            !.mishap = Overruns(B.mishap, r, S.wdev[r])]
             U == wireless_device_script_task_cb(A, r)
         IN  Inv(IF U.wdev[r].alive THEN wireless_device_mark_down(U, r) ELSE U)
<1> DEFINE w == S.wdev[r]  v == TimedOut(w)
           B == wireless_handler_stop(S, r)  m == Overruns(B.mishap, r, w)
           A == [B EXCEPT !.wdev[r] = v, !.mishap = m]
           U == wireless_device_script_task_cb(A, r)
           N == IF U.wdev[r].alive THEN wireless_device_mark_down(U, r) ELSE U
<1> SUFFICES Inv(N)
  OBVIOUS
<1>1. Well(S) /\ Held(S) /\ RadioInv(S, r) /\ S \in WState
  BY DEF Inv, Well
<1>2. w \in Wdev /\ Calm(w) /\ w.timeout
  BY <1>1 DEF WState, RadioInv, LooseInv
<1>3. w.alive /\ w.state # "IFS_DOWN" /\ w.state \in State
      /\ (w.cancel \/ w.state = "IFS_TEARDOWN")
  BY <1>2, LivesIf DEF Calm, AtRest, Timed, Wdev
<1>4. /\ Step(S, B, r) /\ B.wdev = S.wdev
      /\ \A up \in BOOLEAN : ~Waits(B, r, up)
      /\ B.handler_pending = S.handler_pending /\ B.mishap = S.mishap
  BY <1>1, StopStep
<1>5. B \in WState /\ Once(B.handlers) /\ Held(B)
  BY <1>1, <1>4 DEF Step, Well
<1>6. m \in SUBSET Mishap /\ m \in {S.mishap, S.mishap \cup {"overrun"}}
      /\ (r \in Serialize => Runs(S, r) \/ "overrun" \in m)
  BY <1>1, <1>4 DEF WState, Mishap, Overruns, Runs
<1> HIDE DEF w, m, B
<1>7. v \in Wdev
  BY ONLY <1>2 DEF TimedOut, Wdev
<1>8. v.state = w.state /\ v.script_task = "none" /\ v.alive = w.alive /\ v.cancel = w.cancel
  BY <1>2 DEF TimedOut, Wdev
<1>9. Named(v) /\ Tries(v)
  BY <1>2 DEF TimedOut, Wdev, Calm, Named, Tries
<1> HIDE DEF v
<1>10. /\ A \in WState
       /\ A.wdev[r] = v
       /\ \A q \in Radio \ {r} : A.wdev[q] = B.wdev[q]
       /\ A.handlers = B.handlers
       /\ A.handler_pending = B.handler_pending
       /\ A.mishap = m
  BY <1>5, <1>6, <1>7 DEF WState
<1> HIDE DEF A
<1>11. \A q \in Radio, up \in BOOLEAN : Waits(A, q, up) <=> Waits(B, q, up)
  BY <1>10 DEF Waits
<1>12. Over(A, r)
  <2>1. Held(A)
    BY <1>5, <1>10 DEF Held
  <2>2. \A q \in Radio \ {r} :
          A.wdev[q] = S.wdev[q] /\ \A up \in BOOLEAN : Waits(A, q, up) <=> Waits(S, q, up)
    BY <1>4, <1>10, <1>11 DEF Step
  <2>3. \A up \in BOOLEAN : ~Waits(A, r, up)
    BY <1>4, <1>11
  <2> QED
    BY <1>4, <1>5, <1>6, <1>8, <1>10, <2>1, <2>2, <2>3, Cleared
<1>13. Well(A) /\ ~Waits(A, r, TRUE) /\ ~Waits(A, r, FALSE)
  BY <1>4, <1>11, <1>12 DEF Over
<1>14. Settled(A, r)
  BY <1>3, <1>8, <1>9, <1>10, <1>13 DEF Settled, Restartable
<1>15. PICK T : /\ Step(A, T, r) /\ U = GiveOn(T, r)
                /\ T.wdev[r].alive => Settled(T, r)
                /\ ~T.wdev[r].alive => RadioInv(T, r)
  <2>1. Step(A, A, r)
    BY <1>13, StepRefl
  <2>2. CASE w.state = "IFS_SETUP"
    <3>1. wireless_device_retry_setup(A, r) = A
      BY <1>3, <1>8, <1>10, <2>2 DEF wireless_device_retry_setup
    <3>2. U = GiveOn(A, r)
      BY <1>8, <1>10, <2>2, <3>1, CbForm
    <3> QED
      BY <1>3, <1>8, <1>10, <1>14, <2>1, <3>2
  <2>3. CASE w.state = "IFS_UP"
    <3>1. U = GiveOn(A, r)
      BY <1>8, <1>10, <2>3, CbForm
    <3> QED
      BY <1>3, <1>8, <1>10, <1>14, <2>1, <3>1
  <2>4. CASE w.state = "IFS_TEARDOWN"
    <3> DEFINE T == wireless_device_mark_down(A, r)
    <3>1. U = GiveOn(T, r)
      BY <1>8, <1>10, <2>4, CbForm
    <3>2. Step(A, T, r) /\ RadioInv(T, r) /\ (T.wdev[r].alive => Settled(T, r))
      BY <1>13, <1>14, MarkDownInv DEF Settled
    <3> QED
      BY <3>1, <3>2
  <2> QED
    BY <1>3, <2>2, <2>3, <2>4 DEF State
<1>16. /\ Well(U) /\ Held(U) /\ Excl(U) /\ Runner(U)
       /\ \A q \in Radio \ {r} : RadioInv(U, q)
       /\ RadioInv(T, r) => RadioInv(U, r)
       /\ Settled(T, r) => Restartable(U, r)
       /\ U.wdev[r].alive = T.wdev[r].alive
  BY <1>12, <1>15, GiveOnInv
<1> HIDE DEF U
<1>17. CASE U.wdev[r].alive
  <2>1. N = wireless_device_mark_down(U, r)
    BY <1>17
  <2>2. Restartable(U, r)
    BY <1>15, <1>16, <1>17
  <2> HIDE DEF N
  <2>3. Step(U, N, r) /\ RadioInv(N, r)
    BY <1>16, <2>1, <2>2, MarkDownInv
  <2>4. Well(N) /\ Held(N) /\ Excl(N) /\ Runner(N)
    BY <1>16, <2>3 DEF Step
  <2>5. \A q \in Radio : RadioInv(N, q)
    BY <1>16, <2>3, OthersKept
  <2> QED
    BY <2>4, <2>5 DEF Inv
<1>18. CASE ~U.wdev[r].alive
  <2>1. N = U
    BY <1>18
  <2>2. RadioInv(U, r)
    BY <1>15, <1>16, <1>18
  <2>3. \A q \in Radio : RadioInv(U, q)
    BY <1>16, <2>2
  <2> QED
    BY <1>16, <2>1, <2>3 DEF Inv
<1> QED
  BY <1>17, <1>18

-----------------------------------------------------------------------------
(***************************************************************************)
(* A reload.                                                               *)
(***************************************************************************)
Passes == {"devices", "gone devices", "vifs", "gone vifs", "start"}

\* One radio in one of the passes.
LEMMA PassStepInv ==
  ASSUME NEW S, Inv(S), NEW r \in Radio, NEW new \in Config, NEW pass \in Passes
  PROVE  LET N == PassStep(pass, S, r, new) IN Inv(N) /\ N.config_init = S.config_init
<1> DEFINE N == PassStep(pass, S, r, new)
<1>1. Well(S) /\ RadioInv(S, r)
  BY DEF Inv
<1>2. new[r] # None => new[r].disabled \in BOOLEAN /\ new[r].conf \in Conf /\ new[r].vif \in Vif
  <2>1. new[r] # None => new[r] \in [disabled : BOOLEAN, conf : Conf, vif : Vif]
    BY RadioAssumption
  <2> QED
    BY <2>1
<1>3. \/ N = S
      \/ new[r] # None /\ N = wireless_device_create(S, r, new[r])
      \/ S.wdev[r].alive /\ N = wdev_set_config_state(S, r, "IFC_REMOVE")
      \/ S.wdev[r].alive /\ new[r] # None /\ N = vif_update(S, r, new[r].vif)
      \/ S.wdev[r].alive /\ N = vif_update(S, r, None)
      \/ S.wdev[r].alive /\ N = set_up(S, r, FALSE)
  <2>1. CASE pass = "devices"
    BY <2>1 DEF PassStep
  <2>2. CASE pass = "gone devices"
    BY <2>2 DEF PassStep
  <2>3. CASE pass = "vifs"
    BY <2>3 DEF PassStep
  <2>4. CASE pass = "gone vifs"
    BY <2>4 DEF PassStep
  <2>5. CASE pass = "start"
    BY <2>5 DEF PassStep
  <2> QED
    BY <2>1, <2>2, <2>3, <2>4, <2>5 DEF Passes
<1> HIDE DEF N
<1>4. Step(S, N, r) /\ RadioInv(N, r)
  <2>1. CASE N = S
    BY <1>1, <2>1, StepRefl
  <2>2. CASE new[r] # None /\ N = wireless_device_create(S, r, new[r])
    BY <1>1, <1>2, <2>2, CreateInv
  <2>3. CASE S.wdev[r].alive /\ N = wdev_set_config_state(S, r, "IFC_REMOVE")
    BY <1>1, <2>3, InvIsAlterable, SetConfigInv
  <2>4. CASE S.wdev[r].alive /\ new[r] # None /\ N = vif_update(S, r, new[r].vif)
    BY <1>1, <1>2, <2>4, VifInv
  <2>5. CASE S.wdev[r].alive /\ N = vif_update(S, r, None)
    BY <1>1, <2>5, VifInv
  <2>6. CASE S.wdev[r].alive /\ N = set_up(S, r, FALSE)
    BY <1>1, <2>6, SetUpInv
  <2> QED
    BY <1>3, <2>1, <2>2, <2>3, <2>4, <2>5, <2>6
<1>5. Inv(N) /\ N.config_init = S.config_init
  BY <1>4, InvStep DEF Step
<1> QED
  BY <1>5 DEF N

\* A pass over all radios.
LEMMA PassInv ==
  ASSUME NEW S, Inv(S), NEW new \in Config, NEW pass \in Passes
  PROVE  Inv(Pass(pass, S, new)) /\ Pass(pass, S, new).config_init = S.config_init
<1> DEFINE K == Len(Order)
           D == {T \in WState : Inv(T) /\ T.config_init = S.config_init}
           g == [x \in D \X Radio |-> PassStep(pass, x[1], x[2], new)]
           Eq(a) == a = [n \in 0 .. K |->
                           IF n = 0 THEN S ELSE PassStep(pass, a[n - 1], Order[n], new)]
           after == CHOOSE a : Eq(a)
<1>1. Pass(pass, S, new) = after[K]
  BY DEF Pass
<1>2. K \in Nat /\ \A n \in 1 .. K : Order[n] \in Radio
  BY RadioAssumption
<1>3. S \in D
  BY DEF Inv, Well
<1>4. \A T \in D, r \in Radio : PassStep(pass, T, r, new) \in D
  <2> SUFFICES ASSUME NEW T \in D, NEW r \in Radio PROVE PassStep(pass, T, r, new) \in D
    OBVIOUS
  <2> DEFINE N == PassStep(pass, T, r, new)
  <2>1. Inv(N) /\ N.config_init = T.config_init
    BY PassStepInv
  <2> HIDE DEF N
  <2>2. N \in WState
    BY <2>1 DEF Inv, Well
  <2> QED
    BY <2>1, <2>2 DEF N
<1> HIDE DEF D, K
<1>5. g \in [D \X Radio -> D]
  BY <1>4
<1>6. \A T \in D, r \in Radio : g[<<T, r>>] = PassStep(pass, T, r, new)
  OBVIOUS
<1> HIDE DEF g
<1>7. PICK f : Loop(f, D, K, S, g, Order)
  <2>1. K \in Nat /\ Lists(Order, K, Radio) /\ Round(g, D, Radio)
    BY <1>2, <1>5 DEF Lists, Round
  <2> HIDE DEF Eq, after
  <2> QED
    BY <1>3, <2>1, LoopExists
<1>7a. /\ f \in [0 .. K -> D]
      /\ f[0] = S
      /\ \A n \in 1 .. K : f[n] = g[<<f[n - 1], Order[n]>>]
  BY <1>7 DEF Loop
<1>8. \A n \in 1 .. K : f[n] = PassStep(pass, f[n - 1], Order[n], new)
  <2> SUFFICES ASSUME NEW n \in 1 .. K
               PROVE  f[n] = PassStep(pass, f[n - 1], Order[n], new)
    OBVIOUS
  <2>1. n - 1 \in 0 .. K /\ Order[n] \in Radio
    BY <1>2
  <2>2. f[n - 1] \in D
    BY <1>7a, <2>1
  <2> QED
    BY <1>6, <1>7a, <2>1, <2>2
<1>9. Eq(f)
  <2>1. \A n \in 0 .. K :
          f[n] = IF n = 0 THEN S ELSE PassStep(pass, f[n - 1], Order[n], new)
    BY <1>2, <1>7a, <1>8
  <2> QED
    BY <1>7a, <2>1
<1>10. Eq(after)
  <2> HIDE DEF Eq
  <2> QED
    BY <1>9
<1> HIDE DEF after
<1>11. \A n \in 0 .. K : after[n] = f[n]
  <2> DEFINE T == {n \in 0 .. K : after[n] = f[n]}
  <2>1. 0 \in T
    BY <1>2, <1>7a, <1>10
  <2>2. \A n \in 0 .. K : n \in T /\ n < K => n + 1 \in T
    <3> SUFFICES ASSUME NEW n \in 0 .. K, n \in T, n < K PROVE n + 1 \in T
      OBVIOUS
    <3>1. n + 1 \in 1 .. K /\ n + 1 \in 0 .. K /\ n + 1 # 0 /\ (n + 1) - 1 = n
      BY <1>2
    <3>2. after[n + 1] = PassStep(pass, after[n], Order[n + 1], new)
      BY <1>10, <3>1
    <3>3. f[n + 1] = PassStep(pass, f[n], Order[n + 1], new)
      BY <1>8, <3>1
    <3> QED
      BY <3>1, <3>2, <3>3
  <2> HIDE DEF T
  <2>3. \A n \in 0 .. K : n \in T
    BY <1>2, <2>1, <2>2, Rounds
  <2> QED
    BY <2>3 DEF T
<1>12. after[K] \in D
  BY <1>2, <1>7a, <1>11
<1> QED
  BY <1>1, <1>12 DEF D

\* The invariant is not about the two fields that only live while a callback runs.
LEMMA SameInv ==
  ASSUME NEW S, Inv(S), NEW N, N \in WState,
         N.wdev = S.wdev, N.handlers = S.handlers,
         N.handler_pending = S.handler_pending, N.mishap = S.mishap
  PROVE  Inv(N)
<1>1. \A q \in Radio, up \in BOOLEAN : Waits(N, q, up) <=> Waits(S, q, up)
  BY DEF Waits
<1>2. Well(N)
  BY <1>1 DEF Inv, Well
<1>3. Held(N) /\ Excl(N) /\ Runner(N)
  BY DEF Inv, Held, Excl, Runner, Runs
<1>4. \A q \in Radio : RadioInv(N, q)
  BY <1>1, Carry DEF Inv
<1> QED
  BY <1>2, <1>3, <1>4 DEF Inv

\* The flag config_init of the state the operators work on.
Flag(S, b) == [S EXCEPT !.config_init = b]

\* The invariant does not depend on the flag.
LEMMA FlagInv ==
  ASSUME NEW S, Inv(S), NEW b \in BOOLEAN
  PROVE  Inv(Flag(S, b))
<1>1. /\ Flag(S, b) \in WState
      /\ Flag(S, b).wdev = S.wdev
      /\ Flag(S, b).handlers = S.handlers
      /\ Flag(S, b).handler_pending = S.handler_pending
      /\ Flag(S, b).mishap = S.mishap
  BY DEF Inv, Well, WState, Flag
<1> QED
  BY <1>1, SameInv

\* Reload
LEMMA ReloadInv ==
  ASSUME NEW S, Inv(S), NEW new \in Config
  PROVE  Inv(config_init_wireless(S, new))
<1> DEFINE T1 == Pass("devices", Flag(S, TRUE), new)
           T2 == Pass("gone devices", T1, new)
           T3 == Pass("vifs", T2, new)
           T4 == Pass("gone vifs", T3, new)
           N == Pass("start", Flag(T4, FALSE), new)
<1>1. config_init_wireless(S, new) = N
  BY DEF config_init_wireless, Flag
<1>2. "devices" \in Passes /\ "gone devices" \in Passes /\ "vifs" \in Passes
      /\ "gone vifs" \in Passes /\ "start" \in Passes
  BY DEF Passes
<1>3. Inv(T1)
  BY <1>2, FlagInv, PassInv
<1> HIDE DEF T1
<1>4. Inv(T2)
  BY <1>2, <1>3, PassInv
<1> HIDE DEF T2
<1>5. Inv(T3)
  BY <1>2, <1>4, PassInv
<1> HIDE DEF T3
<1>6. Inv(T4)
  BY <1>2, <1>5, PassInv
<1> HIDE DEF T4
<1>7. Inv(N)
  BY <1>2, <1>6, FlagInv, PassInv
<1> QED
  BY <1>1, <1>7

-----------------------------------------------------------------------------
(***************************************************************************)
(* The callbacks.                                                          *)
(***************************************************************************)
IInv == Inv(S0("none"))

\* The state that a callback leaves; what failed while it ran is forgotten.
Rest(N) ==
  [wdev |-> N.wdev, handlers |-> N.handlers, handler_pending |-> N.handler_pending,
   mishap |-> N.mishap, fault |-> "none", config_init |-> FALSE]

\* The invariant of what an operator returns is the one of the next state.
LEMMA Leaves ==
  ASSUME NEW N, Inv(N), Becomes(N)
  PROVE  IInv'
<1>1. Rest(N) \in WState
  BY DEF Inv, Well, WState, Rest
<1>2. /\ Rest(N).wdev = N.wdev
      /\ Rest(N).handlers = N.handlers
      /\ Rest(N).handler_pending = N.handler_pending
      /\ Rest(N).mishap = N.mishap
  BY DEF Rest
<1>3. Inv(Rest(N))
  BY <1>1, <1>2, SameInv
<1>4. S0("none")' = Rest(N)
  BY DEF S0, Becomes, Rest
<1> QED
  BY <1>3, <1>4 DEF IInv

\* Every state a callback may start in has the invariant.
LEMMA Finds ==
  ASSUME IInv, NEW F \in SUBSET {"fork", "freed"}, NEW S \in Starts(F)
  PROVE  Inv(S) /\ S.wdev = wdev /\ S.mishap = mishap
<1>1. PICK f \in {"none", "fork", "freed"} : S = S0(f)
  BY DEF Starts
<1>2. /\ S0(f).wdev = wdev
      /\ S0(f).handlers = handlers
      /\ S0(f).handler_pending = handler_pending
      /\ S0(f).mishap = mishap
  BY DEF S0
<1>3. /\ S0("none").wdev = wdev
      /\ S0("none").handlers = handlers
      /\ S0("none").handler_pending = handler_pending
      /\ S0("none").mishap = mishap
  BY DEF S0
<1>4. S0("none") \in WState
  BY DEF IInv, Inv, Well
<1>5. S0(f) \in WState
  <2>1. wdev \in [Radio -> Wdev] /\ handlers \in Seq(Handler) /\ handler_pending \in BOOLEAN
        /\ mishap \in SUBSET Mishap
    BY <1>3, <1>4 DEF WState
  <2> QED
    BY <2>1 DEF S0, WState
<1>6. Inv(S0(f))
  BY <1>2, <1>3, <1>5, SameInv DEF IInv
<1> QED
  BY <1>1, <1>2, <1>6

\* A radio that does not exist has no processes.
LEMMA GoneIdle == Gone.script_proc = {} /\ ~Gone.script_proc_fd /\ ~Gone.script_check
BY DEF Gone, Fresh

\* Every radio is well-formed by itself.
LEMMA RadioIs ==
  ASSUME IInv, NEW r \in Radio
  PROVE  wdev[r] \in Wdev /\ Calm(wdev[r])
<1>1. S0("none").wdev = wdev
  BY DEF S0
<1>2. S0("none") \in WState /\ RadioInv(S0("none"), r)
  BY DEF IInv, Inv, Well
<1> QED
  BY <1>1, <1>2 DEF WState, RadioInv, LooseInv

\* Only a radio that exists has processes, a pipe or a watchdog.
LEMMA LivesIfBusy ==
  ASSUME NEW w \in Wdev, Calm(w), w.script_proc # {} \/ w.script_proc_fd \/ w.script_check
  PROVE  w.alive
BY GoneIdle DEF Calm

\* A change of the record of a radio that its scripts, its queue and its configuration
\* do not depend on.
LEMMA AloneInv ==
  ASSUME NEW S, Inv(S), NEW r \in Radio, NEW n \in Wdev, Calm(n), Same(S.wdev[r], n)
  PROVE  Inv(Put(S, r, n)) /\ Put(S, r, n).wdev[r] = n
<1>1. Well(S) /\ RadioInv(S, r) /\ S \in WState
  BY DEF Inv, Well
<1>2. Step(S, Put(S, r, n), r) /\ RadioInv(Put(S, r, n), r)
  BY <1>1, PutInv
<1>3. Put(S, r, n).wdev[r] = n
  BY <1>1, PutFacts
<1> QED
  BY <1>2, <1>3, InvStep

\* The same for an action that changes only that record.
LEMMA LocalInv ==
  ASSUME IInv, NEW r \in Radio, NEW n \in Wdev, Calm(n), Same(wdev[r], n),
         wdev' = [wdev EXCEPT ![r] = n], UNCHANGED <<handlers, handler_pending, mishap>>
  PROVE  IInv'
<1> DEFINE S == S0("none")  N == Put(S, r, n)
<1>1. S.wdev = wdev /\ S.handlers = handlers /\ S.handler_pending = handler_pending
      /\ S.mishap = mishap
  BY DEF S0
<1>2. Inv(N)
  <2>1. Inv(S) /\ Same(S.wdev[r], n)
    BY <1>1 DEF IInv
  <2> HIDE DEF S
  <2> QED
    BY <2>1, AloneInv
<1>3. N.wdev = [wdev EXCEPT ![r] = n] /\ N.handlers = handlers
      /\ N.handler_pending = handler_pending /\ N.mishap = mishap
  BY DEF S0, Put
<1>4. Becomes(N)
  BY <1>3 DEF Becomes
<1> HIDE DEF N
<1> QED
  BY <1>2, <1>4, Leaves

\* A reload keeps the invariant.
LEMMA ReloadKeeps == IInv /\ Reload => IInv'
<1> SUFFICES ASSUME IInv, Reload PROVE IInv'
  OBVIOUS
<1>1. PICK new \in Config, S \in Starts({"fork"}) : Becomes(config_init_wireless(S, new))
  BY DEF Reload
<1>2. Inv(S)
  BY Finds
<1>3. Inv(config_init_wireless(S, new))
  BY <1>2, ReloadInv
<1> QED
  BY <1>1, <1>3, Leaves

Rearmed(w) == [w EXCEPT !.retry = WIRELESS_SETUP_RETRY, !.autostart = TRUE]

\* A radio is called for: its retries are renewed and it is set up if that is possible.
LEMMA RearmInv ==
  ASSUME NEW S, Inv(S), NEW r \in Radio, S.wdev[r].alive,
         NEW force \in BOOLEAN, force => S.wdev[r].state = "IFS_UP" /\ r \in Reconf
  PROVE  Inv(set_up(Put(S, r, Rearmed(S.wdev[r])), r, force))
<1> DEFINE w == S.wdev[r]  v == Rearmed(w)  T == Put(S, r, v)  N == set_up(T, r, force)
<1> SUFFICES Inv(N)
  OBVIOUS
<1>1. w \in Wdev /\ Calm(w) /\ w.alive
  BY DEF Inv, Well, WState, RadioInv, LooseInv
<1>2. force => w.state = "IFS_UP" /\ r \in Reconf
  OBVIOUS
<1> HIDE DEF w
<1>3. v \in Wdev
  BY ONLY <1>1, RetryRange DEF Rearmed, Wdev
<1>4. Same(w, v) /\ v.alive
  BY <1>1 DEF Rearmed, Wdev, Same
<1>5. Calm(v)
  BY <1>1, RetryRange DEF Rearmed, Wdev, Calm, AtRest, Timed, Retries, Tries, Named
<1> HIDE DEF v
<1>6. Inv(T) /\ T.wdev[r] = v
  BY <1>3, <1>4, <1>5, AloneInv DEF w
<1> HIDE DEF T
<1>7. Well(T) /\ RadioInv(T, r)
  BY <1>6 DEF Inv
<1>8. force => v.state = "IFS_UP" /\ r \in Reconf
  BY <1>2, <1>4 DEF Same
<1>9. Step(T, N, r) /\ RadioInv(N, r)
  BY <1>4, <1>6, <1>7, <1>8, SetUpInv
<1> HIDE DEF N
<1> QED
  BY <1>6, <1>9, InvStep

\* The ubus methods up and reconf.
LEMMA SetUpKeeps == ASSUME IInv, NEW r \in Radio, SetUp(r) \/ DoReconf(r) PROVE IInv'
<1> DEFINE force == r \in Reconf /\ wdev[r].state = "IFS_UP"
<1>1. PICK S \in Starts({"fork"}), b \in {FALSE, force} :
        wdev[r].alive
        /\ Becomes(set_up([S EXCEPT !.wdev[r] = [wdev[r] EXCEPT
                             !.retry = WIRELESS_SETUP_RETRY, !.autostart = TRUE]], r, b))
  BY DEF SetUp, DoReconf
<1>2. Inv(S) /\ S.wdev = wdev
  BY Finds
<1>3. Becomes(set_up(Put(S, r, Rearmed(S.wdev[r])), r, b))
  BY <1>1, <1>2 DEF Put, Rearmed
<1>4. Inv(set_up(Put(S, r, Rearmed(S.wdev[r])), r, b))
  BY <1>1, <1>2, RearmInv
<1> QED
  BY <1>3, <1>4, Leaves

Disarmed(w) == [w EXCEPT !.retry_setup_failed = FALSE, !.autostart = FALSE]

\* The ubus method down.
LEMMA SetDownKeeps == ASSUME IInv, NEW r \in Radio, SetDown(r) PROVE IInv'
<1>1. PICK S \in Starts({"fork"}) :
        wdev[r].alive
        /\ Becomes(set_down([S EXCEPT !.wdev[r] = [wdev[r] EXCEPT
                               !.retry_setup_failed = FALSE, !.autostart = FALSE]], r))
  BY DEF SetDown
<1>2. Inv(S) /\ S.wdev = wdev
  BY Finds
<1> DEFINE w == S.wdev[r]  v == Disarmed(w)  T == Put(S, r, v)  N == set_down(T, r)
<1>3. Becomes(N)
  BY <1>1, <1>2 DEF Put, Disarmed
<1>4. w \in Wdev /\ Calm(w) /\ w.alive
  BY <1>1, <1>2, RadioIs
<1> HIDE DEF w
<1>5. v \in Wdev
  BY ONLY <1>4 DEF Disarmed, Wdev
<1>6. Same(w, v)
  BY <1>4 DEF Disarmed, Wdev, Same
<1>7. Calm(v)
  BY <1>4 DEF Disarmed, Wdev, Calm, AtRest, Timed, Retries, Tries, Named
<1> HIDE DEF v
<1>8. Inv(T)
  BY <1>2, <1>5, <1>6, <1>7, AloneInv DEF w
<1> HIDE DEF T
<1>9. Well(T) /\ RadioInv(T, r)
  BY <1>8 DEF Inv
<1>10. Step(T, N, r) /\ RadioInv(N, r)
  BY <1>9, SetDownInv
<1> HIDE DEF N
<1>11. Inv(N)
  BY <1>8, <1>10, InvStep
<1> QED
  BY <1>3, <1>11, Leaves

\* The end of a script.
LEMMA ScriptExitKeeps == ASSUME IInv, NEW r \in Radio, ScriptExit(r) PROVE IInv'
<1>1. PICK S \in Starts({"fork", "freed"}) :
        wdev[r].script_task # "none"
        /\ Becomes(wireless_device_script_task_cb(
             [S EXCEPT !.wdev[r] = [wdev[r] EXCEPT !.script_task = "none", !.given = None]], r))
  BY DEF ScriptExit
<1>2. Inv(S) /\ S.wdev = wdev
  BY Finds
<1> DEFINE N == wireless_device_script_task_cb(Put(S, r, Ended(S.wdev[r])), r)
<1>3. Becomes(N)
  BY <1>1, <1>2 DEF Put, Ended
<1>4. Inv(N)
  BY <1>1, <1>2, ExitInv DEF Runs
<1> HIDE DEF N
<1> QED
  BY <1>3, <1>4, Leaves

\* The timer of a cancelled setup.
LEMMA SetupTimeoutKeeps == ASSUME IInv, NEW r \in Radio, SetupTimeout(r) PROVE IInv'
<1> DEFINE B(S) == wireless_handler_stop(S, r)
           A(S) == [B(S) EXCEPT !.wdev[r] = TimedOut(S.wdev[r]),
                                !.mishap = Overruns(B(S).mishap, r, S.wdev[r])]
           U(S) == wireless_device_script_task_cb(A(S), r)
           N(S) == IF U(S).wdev[r].alive THEN wireless_device_mark_down(U(S), r) ELSE U(S)
<1>1. PICK S \in Starts({"fork", "freed"}) :
        wdev[r].timeout
        /\ LET T == [wireless_handler_stop(S, r) EXCEPT
                       !.wdev[r] = [wdev[r] EXCEPT !.timeout = FALSE, !.script_task = "none",
                                                   !.given = None],
                       !.mishap = IF r \in Serialize /\ wdev[r].script_task = "none"
                                    THEN @ \cup {"overrun"} ELSE @]
               V == wireless_device_script_task_cb(T, r)
           IN  Becomes(IF V.wdev[r].alive THEN wireless_device_mark_down(V, r) ELSE V)
  BY DEF SetupTimeout
<1>2. Inv(S) /\ S.wdev = wdev
  BY Finds
<1>3. Becomes(N(S))
  BY <1>1, <1>2 DEF TimedOut, Overruns
<1>4. Inv(N(S))
  BY <1>1, <1>2, TimeoutInv
<1> HIDE DEF N
<1> QED
  BY <1>3, <1>4, Leaves

\* The processes of a radio that were freed.
LEMMA FreeInv ==
  ASSUME NEW S, Inv(S), NEW r \in Radio, S.wdev[r].alive, NEW P \in SUBSET Process
  PROVE  LET N == wireless_process_free(S, r, P) IN
         Inv(N) /\ N.wdev[r] = Freed(S.wdev[r], P)
<1> DEFINE w == S.wdev[r]  n == Freed(w, P)
<1>1. w \in Wdev /\ Calm(w) /\ w.alive
  BY DEF Inv, Well, WState, RadioInv, LooseInv
<1>2. wireless_process_free(S, r, P) = Put(S, r, n)
  BY DEF wireless_process_free, Put, Freed
<1> HIDE DEF w
<1>3. n \in Wdev /\ Calm(n) /\ Same(w, n)
  BY <1>1, FreedFacts DEF Basics, SameOptions, Same
<1> HIDE DEF n
<1>4. Inv(Put(S, r, n)) /\ Put(S, r, n).wdev[r] = n
  BY <1>3, AloneInv DEF w
<1> QED
  BY <1>2, <1>4 DEF n, w

Checked(w, b) == [w EXCEPT !.script_check = b]

\* The watchdog is armed or not.
LEMMA CheckedInv ==
  ASSUME NEW S, Inv(S), NEW r \in Radio, S.wdev[r].alive, NEW b \in BOOLEAN
  PROVE  LET N == Put(S, r, Checked(S.wdev[r], b)) IN Inv(N) /\ N.wdev[r].alive
<1> DEFINE w == S.wdev[r]  n == Checked(w, b)
<1>1. w \in Wdev /\ Calm(w) /\ w.alive
  BY DEF Inv, Well, WState, RadioInv, LooseInv
<1> HIDE DEF w
<1>2. n \in Wdev
  BY ONLY <1>1, b \in BOOLEAN DEF Checked, Wdev
<1>3. Same(w, n) /\ n.alive
  BY <1>1 DEF Checked, Wdev, Same
<1>4. Calm(n)
  BY <1>1 DEF Checked, Wdev, Calm, AtRest, Timed, Retries, Tries, Named
<1> HIDE DEF n
<1>5. Inv(Put(S, r, n)) /\ Put(S, r, n).wdev[r] = n
  BY <1>2, <1>3, <1>4, AloneInv DEF w
<1> QED
  BY <1>3, <1>5 DEF n, w

\* The watchdog of the processes.
LEMMA CheckScriptTasksKeeps == ASSUME IInv, NEW r \in Radio, CheckScriptTasks(r) PROVE IInv'
<1>1. PICK S \in Starts({"fork"}) :
        wdev[r].script_check
        /\ LET T == [wireless_process_free(S, r, wdev[r].dead) EXCEPT
                       !.wdev[r].script_check = FALSE]
           IN  Becomes(IF wdev[r].dead \cap Required # {}
                         THEN wireless_device_retry_setup(T, r)
                         ELSE [T EXCEPT !.wdev[r].script_check = TRUE])
  BY DEF CheckScriptTasks
<1>2. Inv(S) /\ S.wdev = wdev
  BY Finds
<1>3. wdev[r].alive /\ wdev[r].dead \in SUBSET Process
  BY <1>1, RadioIs, LivesIfBusy DEF Wdev
<1> DEFINE A == wireless_process_free(S, r, wdev[r].dead)
           T == Put(A, r, Checked(A.wdev[r], FALSE))
           U == wireless_device_retry_setup(T, r)
           V == Put(T, r, Checked(T.wdev[r], TRUE))
<1>4. Becomes(U) \/ Becomes(V)
  BY <1>1 DEF Put, Checked
<1>5. Inv(A) /\ A.wdev[r].alive
  <2>1. Inv(A) /\ A.wdev[r] = Freed(S.wdev[r], wdev[r].dead)
    BY <1>2, <1>3, FreeInv
  <2>2. Freed(wdev[r], wdev[r].dead).alive = wdev[r].alive
    BY <1>3, RadioIs, FreedFacts DEF Basics, SameOptions
  <2> QED
    BY <1>2, <1>3, <2>1, <2>2
<1> HIDE DEF A
<1>6. Inv(T) /\ T.wdev[r].alive
  BY <1>5, CheckedInv
<1> HIDE DEF T
<1>7. Inv(U)
  <2>1. Well(T) /\ RadioInv(T, r)
    BY <1>6 DEF Inv
  <2>2. Step(T, U, r) /\ RadioInv(U, r)
    BY <2>1, RetryInv
  <2> HIDE DEF U
  <2> QED
    BY <1>6, <2>2, InvStep
<1>8. Inv(V)
  BY <1>6, CheckedInv
<1> HIDE DEF U, V
<1> QED
  BY <1>4, <1>7, <1>8, Leaves

\* The notification that the radio is up.
LEMMA NotifyUpKeeps == ASSUME IInv, NEW r \in Radio, NotifyUp(r) PROVE IInv'
<1>1. PICK S \in Starts({"fork"}) :
        wdev[r].state = "IFS_SETUP" /\ Becomes(wireless_device_mark_up(S, r))
  BY DEF NotifyUp
<1>2. Inv(S) /\ S.wdev = wdev
  BY Finds
<1> DEFINE N == wireless_device_mark_up(S, r)
<1>3. Well(S) /\ RadioInv(S, r)
  BY <1>2 DEF Inv
<1>4. Step(S, N, r) /\ RadioInv(N, r)
  BY <1>1, <1>2, <1>3, MarkUpInv
<1>5. Becomes(N)
  BY <1>1
<1> HIDE DEF N
<1>6. Inv(N)
  BY <1>2, <1>4, InvStep
<1> QED
  BY <1>5, <1>6, Leaves

\* The virtual interface appears or vanishes.
LEMMA HotplugKeeps ==
  ASSUME IInv, NEW r \in Radio, NEW add \in BOOLEAN, HotplugEvent(r, add) PROVE IInv'
<1> DEFINE S == S0("none")  N == wireless_interface_handle_link(S, r, add)
<1>1. Becomes(N) /\ S.wdev[r].alive
  BY DEF HotplugEvent, S0
<1>2. Inv(S) /\ Well(S) /\ RadioInv(S, r)
  BY DEF IInv, Inv
<1> HIDE DEF S
<1>3. Step(S, N, r) /\ RadioInv(N, r)
  BY <1>1, <1>2, LinkInv
<1> HIDE DEF N
<1>4. Inv(N)
  BY <1>2, <1>3, InvStep
<1> QED
  BY <1>1, <1>4, Leaves

\* A registered process ends.
LEMMA ProcessEndsKeeps ==
  ASSUME IInv, NEW r \in Radio, NEW p \in Process, ProcessEnds(r, p) PROVE IInv'
<1> DEFINE w == wdev[r]  d == w.dead \cup {p}  n == [w EXCEPT !.dead = d]
<1>1. w \in Wdev /\ Calm(w)
  BY RadioIs
<1>2. w.alive /\ d \in SUBSET Process
  BY <1>1, LivesIfBusy DEF ProcessEnds, Wdev
<1>3. wdev' = [wdev EXCEPT ![r] = n] /\ UNCHANGED <<handlers, handler_pending, mishap>>
  BY DEF ProcessEnds
<1>4. n \in Wdev
  <2> HIDE DEF d, w
  <2> QED
    BY ONLY <1>1, <1>2 DEF Wdev
<1>5. Same(w, n) /\ Calm(n)
  <2> HIDE DEF d, w
  <2>1. Same(w, n)
    BY <1>1 DEF Wdev, Same
  <2>2. Calm(n)
    BY <1>1, <1>2 DEF Wdev, Calm, AtRest, Timed, Retries, Tries, Named
  <2> QED
    BY <2>1, <2>2
<1> HIDE DEF n
<1> QED
  BY <1>3, <1>4, <1>5, LocalInv

\* The pipe of the scripts is closed.
LEMMA ProcPollFdKeeps == ASSUME IInv, NEW r \in Radio, ProcPollFd(r) PROVE IInv'
<1> DEFINE w == wdev[r]  n == [w EXCEPT !.script_proc_fd = FALSE, !.script_check = TRUE]
<1>1. w \in Wdev /\ Calm(w)
  BY RadioIs
<1>2. w.alive
  BY <1>1, LivesIfBusy DEF ProcPollFd
<1>3. wdev' = [wdev EXCEPT ![r] = n] /\ UNCHANGED <<handlers, handler_pending, mishap>>
  BY DEF ProcPollFd
<1>4. n \in Wdev
  <2> HIDE DEF w
  <2> QED
    BY ONLY <1>1 DEF Wdev
<1>5. Same(w, n) /\ Calm(n)
  <2> HIDE DEF w
  <2>1. Same(w, n)
    BY <1>1 DEF Wdev, Same
  <2>2. Calm(n)
    BY <1>1, <1>2 DEF Wdev, Calm, AtRest, Timed, Retries, Tries, Named
  <2> QED
    BY <2>1, <2>2
<1> HIDE DEF n
<1> QED
  BY <1>3, <1>4, <1>5, LocalInv

\* The name of the virtual interface.
LEMMA NotifySetDataKeeps == ASSUME IInv, NEW r \in Radio, NotifySetData(r) PROVE IInv'
<1> DEFINE w == wdev[r]  n == [w EXCEPT !.ifname = TRUE]
<1>1. w \in Wdev /\ Calm(w) /\ w.alive /\ w.vif # None
  BY RadioIs DEF NotifySetData
<1>2. wdev' = [wdev EXCEPT ![r] = n] /\ UNCHANGED <<handlers, handler_pending, mishap>>
  BY DEF NotifySetData
<1>3. n \in Wdev
  <2> HIDE DEF w
  <2> QED
    BY ONLY <1>1 DEF Wdev
<1>4. Same(w, n) /\ Calm(n)
  <2> HIDE DEF w
  <2>1. Same(w, n)
    BY <1>1 DEF Wdev, Same
  <2>2. Calm(n)
    BY <1>1 DEF Wdev, Calm, AtRest, Timed, Retries, Tries, Named
  <2> QED
    BY <2>1, <2>2
<1> HIDE DEF n
<1> QED
  BY <1>2, <1>3, <1>4, LocalInv

\* A process is registered.
LEMMA NotifyProcessAddKeeps ==
  ASSUME IInv, NEW r \in Radio, NEW p \in Process, NotifyProcessAdd(r, p) PROVE IInv'
<1> DEFINE w == wdev[r]  P == w.script_proc \cup {p}
           n == [w EXCEPT !.script_proc = P, !.script_check = TRUE]
<1>1. w \in Wdev /\ Calm(w) /\ w.alive
  BY RadioIs DEF NotifyProcessAdd
<1>2. P \in SUBSET Process /\ P # {}
  BY <1>1 DEF Wdev
<1>3. wdev' = [wdev EXCEPT ![r] = n] /\ UNCHANGED <<handlers, handler_pending, mishap>>
  BY DEF NotifyProcessAdd
<1>4. n \in Wdev
  <2> HIDE DEF w, P
  <2> QED
    BY ONLY <1>1, <1>2 DEF Wdev
<1>5. Same(w, n) /\ Calm(n)
  <2> HIDE DEF w, P
  <2>1. Same(w, n)
    BY <1>1, <1>2 DEF Wdev, Same
  <2>2. Calm(n)
    BY <1>1, <1>2 DEF Wdev, Calm, AtRest, Timed, Retries, Tries, Named
  <2> QED
    BY <2>1, <2>2
<1> HIDE DEF n
<1> QED
  BY <1>3, <1>4, <1>5, LocalInv

\* The number of retries is set.
LEMMA NotifySetRetryKeeps ==
  ASSUME IInv, NEW r \in Radio, NEW k \in 0 .. WIRELESS_SETUP_RETRY, NotifySetRetry(r, k)
  PROVE  IInv'
<1> DEFINE w == wdev[r]  n == [w EXCEPT !.retry = k]
<1>1. w \in Wdev /\ Calm(w) /\ w.alive /\ k \in -1 .. WIRELESS_SETUP_RETRY /\ k >= 0
  BY RadioIs, RadioAssumption DEF NotifySetRetry
<1>2. wdev' = [wdev EXCEPT ![r] = n] /\ UNCHANGED <<handlers, handler_pending, mishap>>
  BY DEF NotifySetRetry
<1>3. n \in Wdev
  <2> HIDE DEF w
  <2> QED
    BY ONLY <1>1 DEF Wdev
<1>4. Same(w, n) /\ Calm(n)
  <2> HIDE DEF w
  <2>1. Same(w, n)
    BY <1>1 DEF Wdev, Same
  <2>2. Calm(n)
    BY <1>1 DEF Wdev, Calm, AtRest, Timed, Retries, Tries, Named
  <2> QED
    BY <2>1, <2>2
<1> HIDE DEF n
<1> QED
  BY <1>2, <1>3, <1>4, LocalInv

\* All processes are to be killed, and the answer waits for them.
LEMMA KillAllKeeps ==
  ASSUME IInv, NEW r \in Radio, NEW now \in BOOLEAN, NotifyProcessKillAll(r, now) PROVE IInv'
<1> DEFINE S == S0("none")  w == S.wdev[r]
           P == IF now THEN w.script_proc ELSE w.dead
           A == wireless_process_free(S, r, P)
           a == A.wdev[r]
           T == wireless_process_kill_all(S, r, now)
           k == T.wdev[r].script_proc # {}
           n == [T.wdev[r] EXCEPT !.kill_request = k]  N == Put(T, r, n)
<1>1. S.wdev = wdev /\ Inv(S)
  BY DEF S0, IInv
<1>2. w \in Wdev /\ Calm(w) /\ w.alive /\ w.state = "IFS_TEARDOWN" /\ P \in SUBSET Process
  BY <1>1, RadioIs DEF NotifyProcessKillAll, Wdev
<1>3. Becomes(N)
  BY DEF NotifyProcessKillAll, Put
<1>4. Inv(A) /\ a = Freed(w, P)
  BY <1>1, <1>2, FreeInv
<1>5. a.alive /\ a.state = "IFS_TEARDOWN"
  BY <1>2, <1>4, FreedFacts DEF Basics, SameOptions
<1>6. a \in Wdev /\ Calm(a)
  BY <1>4 DEF Inv, Well, WState, RadioInv, LooseInv
<1>7. T = IF now THEN [A EXCEPT !.wdev[r].script_proc_fd = FALSE] ELSE A
  BY DEF wireless_process_kill_all
<1> HIDE DEF S, w, A, T
<1>8. Inv(T) /\ T.wdev[r].alive /\ T.wdev[r].state = "IFS_TEARDOWN"
  <2>1. CASE ~now
    BY <1>4, <1>5, <1>7, <2>1
  <2>2. CASE now
    <3> DEFINE c == [a EXCEPT !.script_proc_fd = FALSE]
    <3>1. T = Put(A, r, c)
      BY <1>7, <2>2 DEF Put
    <3> HIDE DEF a
    <3>2. c \in Wdev
      BY ONLY <1>6 DEF Wdev
    <3>3. Same(a, c) /\ c.alive
      BY <1>5, <1>6 DEF Wdev, Same
    <3>4. Calm(c)
      BY <1>5, <1>6 DEF Wdev, Calm, AtRest, Timed, Retries, Tries, Named
    <3> HIDE DEF c
    <3>5. Inv(T) /\ T.wdev[r] = c
      BY <1>4, <3>1, <3>2, <3>3, <3>4, AloneInv DEF a
    <3> QED
      BY <1>5, <3>3, <3>5 DEF Same
  <2> QED
    BY <2>1, <2>2
<1> DEFINE v == T.wdev[r]
<1>9. v \in Wdev /\ Calm(v) /\ v.alive /\ v.state = "IFS_TEARDOWN"
  BY <1>8 DEF Inv, Well, WState, RadioInv, LooseInv
<1>10. n = [v EXCEPT !.kill_request = k] /\ k \in BOOLEAN /\ (k => v.script_proc # {})
  OBVIOUS
<1> HIDE DEF k, v, n
<1>11. n \in Wdev
  BY ONLY <1>9, <1>10 DEF Wdev
<1>12. Same(v, n)
  BY <1>9, <1>10 DEF Wdev, Same
<1>13. Calm(n)
  BY <1>9, <1>10 DEF Wdev, Calm, AtRest, Timed, Retries, Tries, Named
<1>14. Inv(N)
  BY <1>8, <1>11, <1>12, <1>13, AloneInv DEF v
<1> HIDE DEF N
<1> QED
  BY <1>3, <1>14, Leaves

-----------------------------------------------------------------------------
(***************************************************************************)
(* The theorems.                                                           *)
(***************************************************************************)

\* No radio exists at first.
LEMMA InitInv == Init => IInv
<1> SUFFICES ASSUME Init PROVE IInv
  OBVIOUS
<1> DEFINE S == S0("none")
<1>1. /\ S.wdev = [r \in Radio |-> Gone]
      /\ S.handlers = <<>>
      /\ S.handler_pending = FALSE
      /\ S.mishap = {}
  BY DEF Init, S0
<1>2. S \in WState
  <2>1. [r \in Radio |-> Gone] \in [Radio -> Wdev] /\ <<>> \in Seq(Handler)
        /\ {} \in SUBSET Mishap
    BY GoneFacts
  <2>2. wdev \in [Radio -> Wdev] /\ handlers \in Seq(Handler)
        /\ handler_pending \in BOOLEAN /\ mishap \in SUBSET Mishap
    BY <2>1 DEF Init
  <2> QED
    BY <2>2 DEF S0, WState
<1>3. DOMAIN S.handlers = {}
  BY <1>1
<1> HIDE DEF S
<1>4. \A r \in Radio, up \in BOOLEAN : ~Waits(S, r, up)
  BY <1>3 DEF Waits, In
<1>5. Well(S) /\ Held(S) /\ Runner(S)
  BY <1>1, <1>2, <1>3, <1>4 DEF Well, Once, Held, Runner
<1>6. \A r \in Radio : S.wdev[r] = Gone
  BY <1>1
<1>7. Excl(S)
  <2>1. \A r \in Serialize : ~Runs(S, r)
    BY <1>6, GoneFacts, RadioAssumption DEF Runs
  <2> QED
    BY <2>1 DEF Excl
<1>8. ASSUME NEW r \in Radio PROVE RadioInv(S, r)
  <2>1. S.wdev[r] = Gone /\ ~Waits(S, r, TRUE) /\ ~Waits(S, r, FALSE)
    BY <1>4, <1>6
  <2>2. LooseInv(r, Gone, Waits(S, r, TRUE), Waits(S, r, FALSE), "fork" \in S.mishap)
    BY <2>1, GoneFacts DEF LooseInv, Waiting, Driven, SetupData, Data
  <2> QED
    BY <2>1, <2>2 DEF RadioInv
<1>9. Inv(S)
  BY <1>5, <1>7, <1>8 DEF Inv
<1> QED
  BY <1>9 DEF IInv, S

\* Every callback keeps the invariant.
LEMMA NextInv == IInv /\ [Next]_vars => IInv'
<1> SUFFICES ASSUME IInv, [Next]_vars PROVE IInv'
  OBVIOUS
<1>1. CASE Reload
  BY <1>1, ReloadKeeps
<1>2. ASSUME NEW r \in Radio, RadioNext(r) PROVE IInv'
  <2>1. CASE SetUp(r) \/ DoReconf(r)
    BY <2>1, SetUpKeeps
  <2>2. CASE SetDown(r)
    BY <2>2, SetDownKeeps
  <2>3. CASE ScriptExit(r)
    BY <2>3, ScriptExitKeeps
  <2>4. CASE SetupTimeout(r)
    BY <2>4, SetupTimeoutKeeps
  <2>5. CASE ProcPollFd(r)
    BY <2>5, ProcPollFdKeeps
  <2>6. CASE CheckScriptTasks(r)
    BY <2>6, CheckScriptTasksKeeps
  <2>7. CASE NotifyUp(r)
    BY <2>7, NotifyUpKeeps
  <2>8. CASE NotifySetData(r)
    BY <2>8, NotifySetDataKeeps
  <2>9. CASE \E p \in Process : ProcessEnds(r, p) \/ NotifyProcessAdd(r, p)
    BY <2>9, ProcessEndsKeeps, NotifyProcessAddKeeps
  <2>10. CASE \E b \in BOOLEAN : NotifyProcessKillAll(r, b) \/ HotplugEvent(r, b)
    BY <2>10, KillAllKeeps, HotplugKeeps
  <2>11. CASE \E n \in 0 .. WIRELESS_SETUP_RETRY : NotifySetRetry(r, n)
    BY <2>11, NotifySetRetryKeeps
  <2> QED
    BY <1>2, <2>1, <2>2, <2>3, <2>4, <2>5, <2>6, <2>7, <2>8, <2>9, <2>10, <2>11 DEF RadioNext
<1>3. CASE UNCHANGED vars
  <2>1. S0("none")' = S0("none")
    BY <1>3 DEF vars, S0
  <2> QED
    BY <2>1 DEF IInv
<1> QED
  BY <1>1, <1>2, <1>3 DEF Next

\* The inductive invariant holds in every behaviour of wireless.c.
THEOREM Inductive == Spec => []IInv
<1>1. Init => IInv
  BY InitInv
<1>2. IInv /\ [Next]_vars => IInv'
  BY NextInv
<1> QED
  BY <1>1, <1>2, PTL DEF Spec

\* What the invariant says of the variables.
LEMMA RadioFacts ==
  ASSUME IInv, NEW r \in Radio
  PROVE  LET w == wdev[r] t == In(handlers, r, TRUE) f == In(handlers, r, FALSE) IN
         /\ w \in Wdev /\ LooseInv(r, w, t, f, "fork" \in mishap)
         /\ Queued(r) <=> t \/ f
<1> DEFINE S == S0("none")
<1>1. S.wdev = wdev /\ S.handlers = handlers /\ S.mishap = mishap /\ Inv(S)
  BY DEF S0, IInv
<1> HIDE DEF S
<1>2. /\ wdev[r] \in Wdev /\ handlers \in Seq(Handler)
      /\ LooseInv(r, wdev[r], In(handlers, r, TRUE), In(handlers, r, FALSE), "fork" \in mishap)
  BY <1>1 DEF Inv, Well, WState, RadioInv, Waits
<1>3. Queued(r) <=> In(handlers, r, TRUE) \/ In(handlers, r, FALSE)
  <2>0. \A i \in DOMAIN handlers :
          handlers[i] = <<handlers[i][1], handlers[i][2]>> /\ handlers[i][2] \in BOOLEAN
    BY <1>2 DEF Handler
  <2>1. Queued(r) <=> \E i \in DOMAIN handlers : handlers[i][1] = r
    BY DEF Queued, ToSet
  <2>2. ASSUME Queued(r) PROVE In(handlers, r, TRUE) \/ In(handlers, r, FALSE)
    <3>1. PICK i \in DOMAIN handlers : handlers[i][1] = r
      BY <2>1, <2>2
    <3>2. handlers[i] = <<r, TRUE>> \/ handlers[i] = <<r, FALSE>>
      BY <2>0, <3>1
    <3> QED
      BY <3>2 DEF In
  <2>3. ASSUME NEW up \in BOOLEAN, In(handlers, r, up) PROVE Queued(r)
    <3>1. PICK i \in DOMAIN handlers : handlers[i] = <<r, up>>
      BY <2>3 DEF In
    <3>2. handlers[i][1] = r
      BY <3>1
    <3> QED
      BY <2>1, <3>2
  <2> QED
    BY <2>2, <2>3
<1> QED
  BY <1>2, <1>3

\* A radio on its way is driven.
LEMMA PendingLemma == IInv => PendingIsDriven
<1> SUFFICES ASSUME IInv, "fork" \notin mishap, NEW r \in Radio,
                    wdev[r].state \in {"IFS_SETUP", "IFS_TEARDOWN"}
             PROVE  wdev[r].script_task # "none" \/ Queued(r) \/ wdev[r].timeout
  BY DEF PendingIsDriven
<1> QED
  BY RadioFacts DEF LooseInv, Driven

\* A radio that is down is clean.
LEMMA CleanLemma == IInv => DownIsClean
<1> SUFFICES ASSUME IInv, NEW r \in Radio, wdev[r].state = "IFS_DOWN"
             PROVE  /\ wdev[r].script_task = "none" /\ ~Queued(r)
                    /\ ~wdev[r].timeout /\ ~wdev[r].cancel /\ ~wdev[r].kill_request
  BY DEF DownIsClean
<1> QED
  BY RadioFacts DEF LooseInv, Waiting, Calm, AtRest

\* A radio that is not at rest in wireless.c is driven by a script, a waiting handler or
\* a timer, a cancelled setup has its timer, and a radio without retries left is not set
\* up: RadioDriven, for every number of radios, configurations and processes.
THEOREM RadiosAreDriven == Spec => []RadioDriven
<1>1. IInv => RadioDriven
  <2> SUFFICES ASSUME IInv PROVE RadioDriven
    OBVIOUS
  <2>1. TypeOK
    BY DEF IInv, Inv, Well, WState, S0, TypeOK, Handler
  <2>2. CancelIsTimed
    BY RadioFacts DEF CancelIsTimed, LooseInv, Calm, Timed
  <2>3. RetriesEnd
    BY RadioFacts DEF RetriesEnd, LooseInv, Calm, Retries
  <2> QED
    BY <2>1, <2>2, <2>3, PendingLemma DEF RadioDriven
<1> QED
  BY <1>1, Inductive, PTL

\* Serialized scripts exclude each other, a handler waits once and only while one of
\* them runs (QueueServed), up to the mishaps the property names.
THEOREM QueueIsServed == Spec => []QueueServed
<1>1. IInv => QueueServed
  <2> SUFFICES ASSUME IInv PROVE QueueServed
    OBVIOUS
  <2> DEFINE S == S0("none")
  <2>1. /\ S.wdev = wdev /\ S.handlers = handlers /\ S.handler_pending = handler_pending
        /\ S.mishap = mishap /\ Inv(S)
    BY DEF S0, IInv
  <2> HIDE DEF S
  <2>2. QueueMoves
    BY <2>1 DEF QueueMoves, Inv, Well, Once, Held, Runner, Runs
  <2>3. OneSerialized
    BY <2>1 DEF OneSerialized, Inv, Excl, Runs
  <2> QED
    BY <2>2, <2>3, PendingLemma, CleanLemma DEF QueueServed
<1> QED
  BY <1>1, Inductive, PTL

\* The teardown script is given what the setup was started with, and a virtual interface
\* that a network was given keeps its name (DataMatches).
THEOREM DataAlwaysMatches == Spec => []DataMatches
<1>1. IInv => DataMatches
  <2> SUFFICES ASSUME IInv PROVE DataMatches
    OBVIOUS
  <2>1. TeardownMatches
    BY RadioFacts DEF TeardownMatches, LooseInv, Data
  <2>2. LinkedIsNamed
    BY RadioFacts DEF LinkedIsNamed, LooseInv, Calm, Named
  <2> QED
    BY <2>1, <2>2 DEF DataMatches
<1> QED
  BY <1>1, Inductive, PTL

\* A radio that is down has left nothing behind, and a kill request waits for a process
\* that is there (RadioClean).
THEOREM RadiosAreClean == Spec => []RadioClean
<1>1. IInv => RadioClean
  <2> SUFFICES ASSUME IInv PROVE RadioClean
    OBVIOUS
  <2>1. KillIsAnswerable
    BY RadioFacts DEF KillIsAnswerable, LooseInv, Calm
  <2> QED
    BY <2>1, CleanLemma DEF RadioClean
<1> QED
  BY <1>1, Inductive, PTL
=============================================================================
