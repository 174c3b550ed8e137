----------------------------- MODULE Iteration ------------------------------
(***************************************************************************)
(* Loops over a list. The modules write the passes of the code over a list *)
(* as recursive functions from the number of rounds to a state; what a     *)
(* loop keeps is here reduced to what one round keeps. The round is given  *)
(* as a function, which the provers can instantiate.                       *)
(***************************************************************************)
EXTENDS Naturals, Sequences, TLAPS, WellFoundedInduction

\* A set of naturals that is not empty has a least element.
LEMMA LeastNat ==
  ASSUME NEW T \in SUBSET Nat, T # {}
  PROVE  \E m \in T : \A n \in T : m <= n
<1> DEFINE R == OpToRel(<, Nat)
<1>1. PICK m \in T : \A y \in T : ~(<<y, m>> \in R)
  BY NatLessThanWellFounded, WFMin
<1>2. \A y \in T : y < m => <<y, m>> \in R
  BY DEF OpToRel
<1>3. \A y \in T : ~(y < m)
  <2> HIDE DEF R
  <2> QED
    BY <1>1, <1>2
<1>4. \A n \in T : m <= n
  BY <1>3
<1> QED
  BY <1>4

\* Induction up to a bound, about a set.
LEMMA Rounds ==
  ASSUME NEW N \in Nat, NEW T, 0 \in T, \A n \in 0 .. N : n \in T /\ n < N => n + 1 \in T
  PROVE  \A n \in 0 .. N : n \in T
<1> SUFFICES ASSUME NEW x \in 0 .. N, x \notin T PROVE FALSE
  OBVIOUS
<1> DEFINE Out == {n \in 0 .. N : n \notin T}
<1>1. PICK m \in Out : \A n \in Out : m <= n
  <2>1. Out \in SUBSET Nat /\ Out # {}
    OBVIOUS
  <2> HIDE DEF Out
  <2> QED
    BY <2>1, LeastNat
<1>2. m # 0 /\ m \in Nat
  OBVIOUS
<1>3. m - 1 \in 0 .. N /\ m - 1 \in T /\ m - 1 < N
  BY <1>1, <1>2
<1>4. (m - 1) + 1 \in T
  BY <1>3
<1> QED
  BY <1>2, <1>4

\* A round takes a state of D and an element of X to a state of D.
Round(g, D, X) == g \in [D \X X -> D]

\* The first N elements of the list q are in X.
Lists(q, N, X) == \A n \in 1 .. N : q[n] \in X

\* f[n] is the state after n rounds over the list q that start in s.
Loop(f, D, N, s, g, q) ==
  /\ f \in [0 .. N -> D]
  /\ f[0] = s
  /\ \A n \in 1 .. N : f[n] = g[<<f[n - 1], q[n]>>]

\* The states a loop goes through exist, and are in D.
LEMMA LoopExists ==
  ASSUME NEW D, NEW X, NEW q, NEW N \in Nat, Lists(q, N, X), NEW g, Round(g, D, X), NEW s \in D
  PROVE  \E f : Loop(f, D, N, s, g, q)
<1> USE DEF Round, Lists
<1> DEFINE Runs(f, k) == f \in [0 .. k -> D] /\ f[0] = s /\ \A n \in 1 .. k : f[n] = g[<<f[n - 1], q[n]>>]
<1> DEFINE T == {k \in 0 .. N : \E f : Runs(f, k)}
<1>1. 0 \in T
  <2>1. Runs([n \in 0 .. 0 |-> s], 0)
    OBVIOUS
  <2> HIDE DEF Runs
  <2> QED
    BY <2>1
<1>2. ASSUME NEW k \in 0 .. N, k \in T, k < N PROVE k + 1 \in T
  <2>1. PICK f : Runs(f, k)
    BY <1>2
  <2> DEFINE h == [n \in 0 .. (k + 1) |-> IF n = k + 1 THEN g[<<f[k], q[k + 1]>>] ELSE f[n]]
  <2>2. g[<<f[k], q[k + 1]>>] \in D
    <3>1. f[k] \in D /\ q[k + 1] \in X
      BY <1>2, <2>1
    <3> QED
      BY <3>1
  <2>3. h \in [0 .. (k + 1) -> D] /\ h[0] = s
    BY <2>1, <2>2
  <2>4. ASSUME NEW n \in 1 .. (k + 1) PROVE h[n] = g[<<h[n - 1], q[n]>>]
    <3>1. n - 1 \in 0 .. k /\ h[n - 1] = f[n - 1]
      OBVIOUS
    <3>2. CASE n = k + 1
      <4>1. h[k + 1] = g[<<f[k], q[k + 1]>>] /\ (k + 1) - 1 = k
        OBVIOUS
      <4> HIDE DEF h
      <4> QED
        BY <3>1, <3>2, <4>1
    <3>3. CASE n # k + 1
      <4>1. n \in 1 .. k /\ h[n] = f[n]
        BY <3>3
      <4> QED
        BY <2>1, <3>1, <4>1
    <3> QED
      BY <3>2, <3>3
  <2>5. Runs(h, k + 1)
    BY <2>3, <2>4
  <2>6. k + 1 \in 0 .. N
    BY <1>2
  <2> HIDE DEF h, Runs
  <2> QED
    BY <2>5, <2>6
<1>3. N \in T
  <2> HIDE DEF T
  <2> QED
    BY <1>1, <1>2, Rounds
<1> QED
  BY <1>3 DEF Loop

\* The states h goes through are the round's as long as they are in D.
Follows(h, D, N, g, q) == \A n \in 1 .. N : h[n - 1] \in D => h[n] = g[<<h[n - 1], q[n]>>]

\* q goes N times to an element of T, and to all of them.
Turns(N, q, T) ==
  N \in Nat /\ (\A i \in 1 .. N : q[i] \in T) /\ (\A x \in T : \E i \in 1 .. N : q[i] = x)

\* A round keeps the state in D; what is pending in it goes with its turn, and nothing else
\* becomes pending.
Drains(g, w, D, T) == \A s \in D, x \in T : g[<<s, x>>] \in D /\ w[g[<<s, x>>]] \subseteq w[s] \ {x}

\* The state after a pass over all that is pending: it is in D, and nothing is pending.
LEMMA PassEnds ==
  ASSUME NEW N, NEW q, NEW T, Turns(N, q, T), NEW D, NEW g, NEW w, Drains(g, w, D, T),
         NEW h, h[0] \in D, w[h[0]] \subseteq T, Follows(h, D, N, g, q)
  PROVE  h[N] \in D /\ w[h[N]] = {}
<1>1. N \in Nat /\ N \in 0 .. N
  BY DEF Turns
<1> DEFINE U == {n \in 0 .. N : h[n] \in D /\ \A x \in w[h[n]] : \E i \in 1 .. N : i > n /\ q[i] = x}
<1>2. 0 \in U
  BY <1>1 DEF Turns
<1>3. ASSUME NEW n \in 0 .. N, n \in U, n < N PROVE n + 1 \in U
  <2>1. n + 1 \in 1 .. N /\ n + 1 \in 0 .. N /\ (n + 1) - 1 = n
    BY <1>1, <1>3
  <2>2. h[n] \in D /\ h[n + 1] = g[<<h[n], q[n + 1]>>] /\ q[n + 1] \in T
    BY <1>3, <2>1 DEF Follows, Turns
  <2>3. h[n + 1] \in D /\ w[h[n + 1]] \subseteq w[h[n]] \ {q[n + 1]}
    BY <2>2 DEF Drains
  <2>4. ASSUME NEW x \in w[h[n + 1]] PROVE \E i \in 1 .. N : i > n + 1 /\ q[i] = x
    <3>1. PICK i \in 1 .. N : i > n /\ q[i] = x
      BY <1>3, <2>3, <2>4
    <3>2. i # n + 1
      BY <2>3, <2>4, <3>1
    <3> QED
      BY <1>1, <3>1, <3>2
  <2> QED
    BY <2>1, <2>3, <2>4
<1> HIDE DEF U
<1>4. \A n \in 0 .. N : n \in U
  BY <1>1, <1>2, <1>3, Rounds
<1>5. N \in U
  BY <1>1, <1>4
<1> QED
  BY <1>1, <1>5 DEF U

\* The state after a pass over a list.
LEMMA ListEnds ==
  ASSUME NEW N \in Nat, NEW q, NEW T, Lists(q, N, T), NEW D, NEW g, NEW w, Drains(g, w, D, T),
         NEW h, h[0] \in D, w[h[0]] = {}, Follows(h, D, N, g, q)
  PROVE  h[N] \in D /\ w[h[N]] = {}
<1> DEFINE U == {n \in 0 .. N : h[n] \in D /\ w[h[n]] = {}}
<1>1. 0 \in U
  OBVIOUS
<1>2. ASSUME NEW n \in 0 .. N, n \in U, n < N PROVE n + 1 \in U
  <2>1. n + 1 \in 1 .. N /\ n + 1 \in 0 .. N /\ (n + 1) - 1 = n
    BY <1>2
  <2>2. h[n] \in D /\ h[n + 1] = g[<<h[n], q[n + 1]>>] /\ q[n + 1] \in T
    BY <1>2, <2>1 DEF Follows, Lists
  <2> QED
    BY <1>2, <2>1, <2>2 DEF Drains
<1> HIDE DEF U
<1>3. \A n \in 0 .. N : n \in U
  BY <1>1, <1>2, Rounds
<1>4. N \in U
  BY <1>3
<1> QED
  BY <1>4 DEF U
=============================================================================
