---------------------------- MODULE PrefixProofs ----------------------------
(***************************************************************************)
(* Proofs about prefixes, for any set of interfaces, options and prefixes: *)
(* the subprefixes handed out are disjoint, aligned and inside the prefix, *)
(* hints are kept and nobody is left out who fits, the kernel has the      *)
(* addresses of the interfaces that are up and no other, and a subprefix   *)
(* stays where it is.                                                      *)
(*                                                                         *)
(* First the algorithm.  One assignment inserts an entry in the first gap  *)
(* that holds it; the two loops keep the list Good and make it a FairList. *)
(* Then a prefix: PI is what holds of one prefix, of the options and the   *)
(* states of the interfaces; each function of the code keeps it or, in a   *)
(* reload, brings it from the old options to the new.  Then the steps,     *)
(* prefix by prefix.                                                       *)
(***************************************************************************)
EXTENDS Prefix, Iteration, SequenceTheorems, FiniteSetTheorems, TLAPS

\* A product is divisible by its factor.
LEMMA Multiple == ASSUME NEW q \in Int, NEW s \in Nat, s > 0 PROVE (q * s) % s = 0
  OBVIOUS

\* Align() returns the next multiple of a size.
LEMMA AlignFacts ==
  ASSUME NEW x \in Int, NEW s \in Nat, s > 0
  PROVE  Align(x, s) \in Int /\ Align(x, s) >= x /\ Align(x, s) % s = 0
<1>1. (x + s - 1) \div s \in Int
  OBVIOUS
<1>2. Align(x, s) \in Int /\ Align(x, s) % s = 0
  BY <1>1, Multiple DEF Align
<1>3. ((x + s - 1) \div s) * s >= x
  OBVIOUS
<1> QED
  BY <1>2, <1>3 DEF Align

\* A hint is cut to a multiple of the size.
LEMMA CutHint ==
  ASSUME NEW x \in Int, NEW s \in Nat, s > 0
  PROVE  x - (x % s) \in Int /\ (x - (x % s)) % s = 0 /\ x % s \in 0 .. (s - 1)
<1>1. x % s \in 0 .. (s - 1)
  OBVIOUS
<1>2. (x - (x % s)) % s = 0
  OBVIOUS
<1> QED
  BY <1>1, <1>2

\* The sizes up to that of a /34 do not overflow.
LEMMA ShlFacts == ASSUME NEW n \in 0 .. 30 PROVE Shl(n) = 2 ^ n /\ Shl(n) \in Nat /\ Shl(n) > 0
<1>1. n % 32 = n
  OBVIOUS
<1>2. Shl(n) = 2 ^ n
  BY <1>1 DEF Shl
<1>3. 2 ^ n > 0
  <2>1. CASE n = 0  BY <2>1
  <2>2. CASE n = 1  BY <2>2
  <2>3. CASE n = 2  BY <2>3
  <2>4. CASE n = 3  BY <2>4
  <2>5. CASE n = 4  BY <2>5
  <2>6. CASE n = 5  BY <2>6
  <2>7. CASE n = 6  BY <2>7
  <2>8. CASE n = 7  BY <2>8
  <2>9. CASE n = 8  BY <2>9
  <2>10. CASE n = 9  BY <2>10
  <2>11. CASE n = 10  BY <2>11
  <2>12. CASE n = 11  BY <2>12
  <2>13. CASE n = 12  BY <2>13
  <2>14. CASE n = 13  BY <2>14
  <2>15. CASE n = 14  BY <2>15
  <2>16. CASE n = 15  BY <2>16
  <2>17. CASE n = 16  BY <2>17
  <2>18. CASE n = 17  BY <2>18
  <2>19. CASE n = 18  BY <2>19
  <2>20. CASE n = 19  BY <2>20
  <2>21. CASE n = 20  BY <2>21
  <2>22. CASE n = 21  BY <2>22
  <2>23. CASE n = 22  BY <2>23
  <2>24. CASE n = 23  BY <2>24
  <2>25. CASE n = 24  BY <2>25
  <2>26. CASE n = 25  BY <2>26
  <2>27. CASE n = 26  BY <2>27
  <2>28. CASE n = 27  BY <2>28
  <2>29. CASE n = 28  BY <2>29
  <2>30. CASE n = 29  BY <2>30
  <2>31. CASE n = 30  BY <2>31
  <2> QED
    BY <2>1, <2>2, <2>3, <2>4, <2>5, <2>6, <2>7, <2>8, <2>9, <2>10, <2>11, <2>12,
       <2>13, <2>14, <2>15, <2>16, <2>17, <2>18, <2>19, <2>20, <2>21, <2>22, <2>23,
       <2>24, <2>25, <2>26, <2>27, <2>28, <2>29, <2>30, <2>31
<1>4. 2 ^ n \in Int
  OBVIOUS
<1> QED
  BY <1>2, <1>3, <1>4

\* A shift yields a number.
LEMMA ShlInt == ASSUME NEW n \in Nat PROVE Shl(n) \in Int
<1>1. CASE n % 32 = 31
  BY <1>1 DEF Shl
<1>2. CASE n % 32 # 31
  <2> DEFINE m == n % 32
  <2>1. m \in 0 .. 30
    BY <1>2
  <2>2. Shl(n) = 2 ^ m
    BY <1>2 DEF Shl
  <2> HIDE DEF m
  <2> QED
    BY <2>1, <2>2, ShlFacts
<1> QED
  BY <1>1, <1>2

\* Min() is in its set.
LEMMA MinIn == ASSUME NEW T \in SUBSET Nat, T # {} PROVE Min(T) \in T
  BY LeastNat DEF Min

\* The list r, of elements of X, is s with e in front of its i-th element.
Inserted(X, s, i, e, r) ==
  /\ r \in Seq(X) /\ Len(r) = Len(s) + 1
  /\ \A j \in 1 .. (Len(s) + 1) : r[j] = IF j < i THEN s[j] ELSE IF j = i THEN e ELSE s[j - 1]

\* InsertAt() puts one element in front of another.
LEMMA InsertFacts ==
  ASSUME NEW X, NEW s \in Seq(X), NEW i \in 1 .. Len(s), NEW e \in X
  PROVE  Inserted(X, s, i, e, InsertAt(s, i, e))
<1> DEFINE a == SubSeq(s, 1, i - 1)  b == SubSeq(s, i, Len(s))  ae == Append(a, e)
<1>1. a \in Seq(X) /\ Len(a) = i - 1 /\ \A j \in 1 .. (i - 1) : a[j] = s[j]
  OBVIOUS
<1>2. b \in Seq(X) /\ Len(b) = Len(s) - i + 1 /\ \A j \in 1 .. (Len(s) - i + 1) : b[j] = s[i + j - 1]
  OBVIOUS
<1>3. Len(s) \in Nat /\ i \in Nat
  OBVIOUS
<1> HIDE DEF a, b
<1>4. ae \in Seq(X) /\ Len(ae) = i /\ ae[i] = e /\ \A j \in 1 .. (i - 1) : ae[j] = s[j]
  BY <1>1, <1>3, AppendProperties
<1>5. a \o <<e>> = ae
  BY <1>1, AppendIsConcat
<1>6. InsertAt(s, i, e) = ae \o b
  BY <1>5 DEF InsertAt, a, b
<1> HIDE DEF ae
<1>7. /\ ae \o b \in Seq(X) /\ Len(ae \o b) = Len(ae) + Len(b)
      /\ \A j \in 1 .. (Len(ae) + Len(b)) :
           (ae \o b)[j] = IF j <= Len(ae) THEN ae[j] ELSE b[j - Len(ae)]
  BY <1>2, <1>4, ConcatProperties
<1> DEFINE r == ae \o b
           At(j) == IF j < i THEN s[j] ELSE IF j = i THEN e ELSE s[j - 1]
<1>8. /\ r \in Seq(X) /\ Len(r) = Len(s) + 1
      /\ \A j \in 1 .. (Len(s) + 1) : r[j] = IF j <= i THEN ae[j] ELSE b[j - i]
  BY <1>2, <1>3, <1>4, <1>7
<1> HIDE DEF r
<1>9. ASSUME NEW j \in 1 .. (Len(s) + 1) PROVE r[j] = At(j)
  <2>1. j \in Int /\ i \in Int /\ (j < i \/ j = i \/ j > i)
    BY <1>3
  <2>2. CASE j < i
    <3>1. j \in 1 .. (i - 1) /\ r[j] = ae[j] /\ At(j) = s[j]
      BY <1>3, <1>8, <2>2
    <3> QED
      BY <1>4, <3>1
  <2>3. CASE j = i
    BY <1>3, <1>4, <1>8, <2>3
  <2>4. CASE j > i
    <3>1. r[j] = b[j - i] /\ j - i \in 1 .. (Len(s) - i + 1) /\ At(j) = s[j - 1]
      BY <1>3, <1>8, <2>4
    <3>2. b[j - i] = s[i + (j - i) - 1] /\ i + (j - i) - 1 = j - 1
      BY <1>2, <1>3, <3>1
    <3> QED
      BY <3>1, <3>2
  <2> HIDE DEF At
  <2> QED
    BY <2>1, <2>2, <2>3, <2>4
<1> QED
  BY <1>6, <1>8, <1>9 DEF r, Inserted

-----------------------------------------------------------------------------
(***************************************************************************)
(* The list of assignments.                                                *)
(***************************************************************************)
\* An entry begins at or before L, and is a subprefix before L unless it is the
\* excluded part.
Placeable(a, L) ==
  /\ Size(a) \in Nat /\ Size(a) > 0
  /\ 0 <= a.assigned /\ a.assigned <= L
  /\ a.name # "!excluded" => a.assigned % Size(a) = 0 /\ a.assigned + Size(a) <= L

\* The entries end with a sentinel at L; the others are in order and do not overlap.
Good(list, L) ==
  /\ list \in Seq(Ent) /\ Len(list) >= 1
  /\ list[Len(list)].assigned = L
  /\ \A j \in 1 .. (Len(list) - 1) : Placeable(list[j], L)
  /\ \A j, n \in 1 .. (Len(list) - 1) : j < n => list[j].assigned + Size(list[j]) <= list[n].assigned

\* No entry has an address yet.
Fresh(list) == \A j \in 1 .. Len(list) : ~list[j].enabled

\* The place an entry may ask for.
Asks(a) ==
  /\ a \in Ent /\ a.name \in Iface /\ ~a.enabled /\ a.length \in 48 .. 64
  /\ a.assigned # -1 => a.assigned % Size(a) = 0

\* The sizes of the subprefixes interfaces ask for.
LEMMA AskSize == ASSUME NEW a, a.length \in 48 .. 64 PROVE Size(a) \in Nat /\ Size(a) > 0
<1>1. 64 - a.length \in 0 .. 30
  OBVIOUS
<1> QED
  BY <1>1, ShlFacts DEF Size

\* The types of a good list.
LEMMA GoodTypes ==
  ASSUME NEW L, NEW list, Good(list, L)
  PROVE  /\ list \in Seq(Ent) /\ Len(list) \in Nat /\ Len(list) >= 1 /\ DOMAIN list = 1 .. Len(list)
         /\ list[Len(list)].assigned = L
         /\ \A m \in 1 .. Len(list) : list[m] \in Ent /\ list[m].assigned \in Int
<1>1. list \in Seq(Ent) /\ Len(list) >= 1 /\ list[Len(list)].assigned = L
  BY DEF Good
<1>2. \A m \in 1 .. Len(list) : list[m] \in Ent
  BY <1>1
<1>3. \A e \in Ent : e.assigned \in Int
  BY DEF Ent
<1> HIDE DEF Ent
<1> QED
  BY <1>1, <1>2, <1>3

\* A list with one more entry that fits into a gap is good.
LEMMA InsertGood ==
  ASSUME NEW L \in Int, NEW list, Good(list, L), Fresh(list), NEW b \in Ent, NEW j \in 1 .. Len(list),
         Placeable(b, L), ~b.enabled,
         b.assigned >= Gap(list, j), b.assigned + Size(b) <= list[j].assigned
  PROVE  Good(InsertAt(list, j, b), L) /\ Fresh(InsertAt(list, j, b))
<1> DEFINE N == Len(list)
<1>1. /\ list \in Seq(Ent) /\ N \in Nat /\ N >= 1 /\ j \in Nat
      /\ list[N].assigned = L
      /\ \A m \in 1 .. N : list[m] \in Ent /\ ~list[m].enabled /\ list[m].assigned \in Int
  BY GoodTypes DEF Fresh
<1> DEFINE r == InsertAt(list, j, b)
<1>2. /\ r \in Seq(Ent) /\ Len(r) = N + 1
      /\ \A m \in 1 .. (N + 1) : r[m] = IF m < j THEN list[m] ELSE IF m = j THEN b ELSE list[m - 1]
  <2>1. Inserted(Ent, list, j, b, InsertAt(list, j, b))
    BY <1>1, InsertFacts
  <2> QED
    BY <2>1 DEF Inserted
<1>3. b.assigned \in Int /\ Size(b) \in Nat
  BY DEF Ent, Placeable
<1>4. \A m \in 1 .. (N - 1) : Placeable(list[m], L) /\ Size(list[m]) \in Nat /\ Size(list[m]) > 0
  BY DEF Good, Placeable
<1>5. \A m, n \in 1 .. (N - 1) : m < n => list[m].assigned + Size(list[m]) <= list[n].assigned
  BY DEF Good
<1> HIDE DEF r, N
<1>6. r[N + 1].assigned = L
  <2>1. N + 1 > j /\ N + 1 \in 1 .. (N + 1) /\ (N + 1) - 1 = N
    BY <1>1 DEF N
  <2> QED
    BY <1>1, <1>2, <2>1
<1>7. ASSUME NEW m \in 1 .. N PROVE Placeable(r[m], L) /\ ~r[m].enabled
  <2>1. CASE m < j
    <3>1. m \in 1 .. (N - 1) /\ m \in 1 .. N /\ m \in 1 .. (N + 1)
      BY <1>1, <2>1 DEF N
    <3> QED
      BY <1>1, <1>2, <1>4, <2>1, <3>1
  <2>2. CASE m = j
    BY <1>1, <1>2, <2>2
  <2>3. CASE m > j
    <3>1. m - 1 \in 1 .. (N - 1) /\ m - 1 \in 1 .. N /\ m \in 1 .. (N + 1)
      BY <1>1, <2>3
    <3>2. r[m] = list[m - 1]
      BY <1>1, <1>2, <2>3, <3>1
    <3> QED
      BY <1>1, <1>4, <3>1, <3>2
  <2> QED
    BY <1>1, <2>1, <2>2, <2>3
<1>8. ~r[N + 1].enabled
  <2>1. N + 1 > j /\ N + 1 \in 1 .. (N + 1) /\ (N + 1) - 1 = N /\ N \in 1 .. N
    BY <1>1 DEF N
  <2> QED
    BY <1>1, <1>2, <2>1
<1>9. ASSUME NEW m \in 1 .. N, m < j PROVE list[m].assigned + Size(list[m]) <= b.assigned
  <2>1. j - 1 \in 1 .. (N - 1) /\ m \in 1 .. (N - 1) /\ j # 1
    BY <1>1, <1>9 DEF N
  <2>2. Gap(list, j) = list[j - 1].assigned + Size(list[j - 1])
    BY <2>1 DEF Gap
  <2>3. list[j - 1].assigned \in Int /\ Size(list[j - 1]) \in Nat /\ Size(list[j - 1]) > 0
    BY <1>1, <1>4, <2>1
  <2>3a. list[m].assigned \in Int /\ Size(list[m]) \in Nat
    BY <1>1, <1>4, <2>1
  <2>4. CASE m = j - 1
    BY <1>3, <2>2, <2>3, <2>4
  <2>5. CASE m < j - 1
    <3>1. list[m].assigned + Size(list[m]) <= list[j - 1].assigned
      BY <1>5, <2>1, <2>5
    <3> QED
      BY <1>3, <2>2, <2>3, <2>3a, <3>1
  <2> QED
    BY <1>1, <1>9, <2>4, <2>5
<1>10. ASSUME NEW m \in 1 .. (N - 1), m >= j PROVE b.assigned + Size(b) <= list[m].assigned
  <2>1. j \in 1 .. (N - 1) /\ m \in 1 .. N /\ j \in 1 .. N
    BY <1>1, <1>10
  <2>2. list[j].assigned \in Int /\ Size(list[j]) \in Nat /\ list[m].assigned \in Int
    BY <1>1, <1>4, <2>1
  <2>3. CASE m = j
    BY <2>3
  <2>4. CASE m > j
    <3>1. list[j].assigned + Size(list[j]) <= list[m].assigned
      BY <1>5, <2>1, <2>4
    <3> QED
      BY <1>3, <2>2, <3>1
  <2> QED
    BY <1>1, <1>10, <2>3, <2>4
<1>11. ASSUME NEW m \in 1 .. N, NEW n \in 1 .. N, m < n
       PROVE  r[m].assigned + Size(r[m]) <= r[n].assigned
  <2>0. m \in Int /\ n \in Int /\ m \in 1 .. (N + 1) /\ n \in 1 .. (N + 1) /\ N \in Nat /\ j \in Int
    BY <1>1
  <2>1. CASE n < j
    <3>1. m \in 1 .. (N - 1) /\ n \in 1 .. (N - 1) /\ m < j
      BY <1>1, <1>11, <2>1 DEF N
    <3>2. r[m] = list[m] /\ r[n] = list[n]
      BY <1>2, <2>0, <2>1, <3>1
    <3> QED
      BY <1>5, <1>11, <3>1, <3>2
  <2>2. CASE n = j
    <3>1. r[m] = list[m] /\ r[n] = b /\ m < j
      BY <1>2, <1>11, <2>0, <2>2
    <3> QED
      BY <1>9, <3>1
  <2>3. CASE n > j /\ m < j
    <3>1. r[m] = list[m] /\ r[n] = list[n - 1] /\ n - 1 \in 1 .. (N - 1) /\ m \in 1 .. (N - 1) /\ m <= n - 1
      BY <1>2, <1>11, <2>0, <2>3
    <3>2. m < n - 1
      BY <2>0, <2>3
    <3> QED
      BY <1>5, <3>1, <3>2
  <2>4. CASE n > j /\ m = j
    <3>1. r[m] = b /\ r[n] = list[n - 1] /\ n - 1 \in 1 .. (N - 1) /\ n - 1 >= j
      BY <1>2, <2>0, <2>4
    <3> QED
      BY <1>10, <3>1
  <2>5. CASE n > j /\ m > j
    <3>1. /\ r[m] = list[m - 1] /\ r[n] = list[n - 1] /\ m - 1 \in 1 .. (N - 1)
          /\ n - 1 \in 1 .. (N - 1) /\ m - 1 < n - 1
      BY <1>2, <1>11, <2>0, <2>5
    <3> QED
      BY <1>5, <3>1
  <2> QED
    BY <2>0, <2>1, <2>2, <2>3, <2>4, <2>5
<1>12. Len(r) - 1 = N /\ Len(r) >= 1 /\ Len(r) \in Nat
  BY <1>1, <1>2
<1>13. Good(r, L)
  BY <1>2, <1>6, <1>7, <1>11, <1>12 DEF Good
<1>14. \A m \in 1 .. Len(r) : m \in 1 .. N \/ m = N + 1
  BY <1>1, <1>2
<1> QED
  BY <1>7, <1>8, <1>13, <1>14 DEF Fresh, r

\* interface_prefix_assign() keeps the list in order.
LEMMA AssignGood ==
  ASSUME NEW L \in Int, NEW list, Good(list, L), Fresh(list), NEW a, Asks(a),
         interface_prefix_assign(list, a) # None
  PROVE  /\ Good(interface_prefix_assign(list, a), L)
         /\ Fresh(interface_prefix_assign(list, a))
<1> DEFINE at(j) == IF a.assigned # -1 THEN a.assigned ELSE Align(Gap(list, j), Size(a))
           fits == {j \in DOMAIN list :
                      at(j) >= Gap(list, j) /\ at(j) + Size(a) - 1 < list[j].assigned}
           j0 == Min(fits)
           b == [a EXCEPT !.assigned = at(j0)]
<1>1. fits # {} /\ interface_prefix_assign(list, a) = InsertAt(list, j0, b)
  BY DEF interface_prefix_assign
<1>2. /\ list \in Seq(Ent) /\ Len(list) \in Nat /\ Len(list) >= 1 /\ DOMAIN list = 1 .. Len(list)
      /\ list[Len(list)].assigned = L
      /\ \A m \in 1 .. Len(list) : list[m] \in Ent /\ list[m].assigned \in Int
  BY GoodTypes
<1>3. j0 \in fits
  <2>1. fits \in SUBSET Nat
    BY <1>2
  <2> HIDE DEF fits
  <2> QED
    BY <1>1, <2>1, MinIn
<1>3a. j0 \in 1 .. Len(list)
  BY <1>2, <1>3
<1>4. j0 \in 1 .. Len(list) /\ at(j0) >= Gap(list, j0) /\ at(j0) + Size(a) - 1 < list[j0].assigned
  BY <1>2, <1>3
<1> HIDE DEF fits, j0
<1>5. a \in Ent /\ a.assigned \in Int /\ Size(a) \in Nat /\ Size(a) > 0 /\ a.name \in Iface
  BY AskSize DEF Asks, Ent
<1>6. Gap(list, j0) \in Int /\ Gap(list, j0) >= 0
  <2>1. CASE j0 = 1
    BY <2>1 DEF Gap
  <2>2. CASE j0 # 1
    <3>1. j0 - 1 \in 1 .. (Len(list) - 1) /\ j0 - 1 \in 1 .. Len(list)
      BY <1>2, <1>4, <2>2
    <3>2. Placeable(list[j0 - 1], L)
      BY <3>1 DEF Good
    <3>3. list[j0 - 1].assigned >= 0 /\ Size(list[j0 - 1]) \in Nat /\ list[j0 - 1].assigned \in Int
      BY <1>2, <3>1, <3>2 DEF Placeable
    <3> QED
      BY <2>2, <3>3 DEF Gap
  <2> QED
    BY <2>1, <2>2
<1>7. at(j0) \in Int /\ at(j0) % Size(a) = 0
  <2>1. CASE a.assigned # -1
    BY <1>5, <2>1 DEF Asks
  <2>2. CASE a.assigned = -1
    BY <1>5, <1>6, <2>2, AlignFacts
  <2> QED
    BY <2>1, <2>2
<1>8. list[j0].assigned <= L /\ list[j0].assigned \in Int
  <2>1. CASE j0 = Len(list)
    BY <1>2, <2>1
  <2>2. CASE j0 # Len(list)
    <3>1. j0 \in 1 .. (Len(list) - 1)
      <4>1. Len(list) \in Nat
        BY <1>2
      <4> QED
        BY <1>3a, <2>2, <4>1
    <3> QED
      BY <1>2, <1>3a, <3>1 DEF Good, Placeable
  <2> QED
    BY <2>1, <2>2
<1> DEFINE x == at(j0)
<1>9. x \in Int /\ x % Size(a) = 0 /\ x >= Gap(list, j0) /\ x + Size(a) - 1 < list[j0].assigned
  BY <1>4, <1>7
<1>10. b = [a EXCEPT !.assigned = x]
  OBVIOUS
<1> HIDE DEF at, x, b
<1>11. /\ b \in Ent /\ b.assigned = x /\ b.length = a.length /\ b.name = a.name /\ b.enabled = a.enabled
  BY <1>5, <1>9, <1>10 DEF Ent
<1>12. Size(b) = Size(a) /\ ~b.enabled /\ b.name # "!excluded"
  BY <1>5, <1>11, PrefixAssumption DEF Size, Asks
<1>13. Placeable(b, L)
  BY <1>5, <1>6, <1>8, <1>9, <1>11, <1>12 DEF Placeable
<1>14. b.assigned >= Gap(list, j0) /\ b.assigned + Size(b) <= list[j0].assigned
  BY <1>5, <1>8, <1>9, <1>11, <1>12
<1>15. Good(InsertAt(list, j0, b), L) /\ Fresh(InsertAt(list, j0, b))
  BY <1>4, <1>11, <1>12, <1>13, <1>14, InsertGood
<1> QED
  BY <1>1, <1>15

\* The interfaces are finitely many, and have their rank in the order of names.
LEMMA IfaceFinite ==
  /\ IsFiniteSet(Iface) /\ Len(Names) \in Nat /\ \A n \in 1 .. Len(Names) : Names[n] \in Iface
  /\ \A i \in Iface : Rank(i) \in Nat /\ Names[Rank(i)] = i
<1>1. Names \in Seq(Iface)
  BY PrefixAssumption
<1>2. Len(Names) \in Nat /\ DOMAIN Names = 1 .. Len(Names) /\ \A n \in 1 .. Len(Names) : Names[n] \in Iface
  BY <1>1
<1>3. \A i \in Iface : \E n \in 1 .. Len(Names) : Names[n] = i
  BY <1>2 DEF Iface, ToSet
<1> DEFINE f == [n \in 1 .. Len(Names) |-> Names[n]]
<1>4. f \in Surjection(1 .. Len(Names), Iface)
  BY <1>2, <1>3 DEF Surjection
<1>5. IsFiniteSet(1 .. Len(Names))
  BY <1>2, FS_Interval
<1> HIDE DEF f
<1>6. IsFiniteSet(Iface)
  BY <1>4, <1>5, FS_Surjection
<1>7. \A i \in Iface : Rank(i) \in Nat /\ Names[Rank(i)] = i
  BY <1>2, <1>3 DEF Rank
<1> QED
  BY <1>2, <1>6, <1>7

\* There is an n-th element of a set of interfaces in the order of assign_later, each one
\* has its turn, and the turns are in that order.
LEMMA NthFacts ==
  ASSUME NEW c, NEW set \in SUBSET Iface, \A i \in set : IsOption(c[i])
  PROVE  /\ \A n \in 1 .. Cardinality(set) : Nth(c, set, n) \in set
         /\ \A i \in set : \E n \in 1 .. Cardinality(set) : Nth(c, set, n) = i
         /\ \A m, n \in 1 .. Cardinality(set) :
              m < n => prefix_assignment_cmp(c, Nth(c, set, m), Nth(c, set, n))
<1> DEFINE before(i) == {k \in set : prefix_assignment_cmp(c, k, i)}
           N == Cardinality(set)
           rank == [i \in set |-> Cardinality(before(i))]
<1>1. IsFiniteSet(set) /\ N \in Nat
  <2>1. IsFiniteSet(set)
    BY IfaceFinite, FS_Subset
  <2> QED
    BY <2>1, FS_CardinalityType
<1>2. \A i \in set : c[i].len \in Int /\ c[i].weight \in Int /\ Rank(i) \in Nat /\ Names[Rank(i)] = i
  <2> SUFFICES ASSUME NEW i \in set
               PROVE  c[i].len \in Int /\ c[i].weight \in Int /\ Rank(i) \in Nat /\ Names[Rank(i)] = i
    OBVIOUS
  <2>1. i \in Iface /\ IsOption(c[i])
    OBVIOUS
  <2>2. c[i].len \in Int /\ c[i].weight \in Int
    BY <2>1 DEF IsOption
  <2> QED
    BY <2>1, <2>2, IfaceFinite
<1>3. ASSUME NEW i \in set PROVE ~prefix_assignment_cmp(c, i, i)
  BY <1>2 DEF prefix_assignment_cmp
<1>4. ASSUME NEW i \in set, NEW k \in set, i # k
      PROVE  prefix_assignment_cmp(c, i, k) \/ prefix_assignment_cmp(c, k, i)
  <2>1. Rank(i) # Rank(k)
    BY <1>2, <1>4
  <2> QED
    BY <1>2, <2>1 DEF prefix_assignment_cmp
<1>5. ASSUME NEW i \in set, NEW k \in set, NEW m \in set,
             prefix_assignment_cmp(c, i, k), prefix_assignment_cmp(c, k, m)
      PROVE  prefix_assignment_cmp(c, i, m)
  BY <1>2, <1>5 DEF prefix_assignment_cmp
<1>6. ASSUME NEW i \in set PROVE before(i) \in SUBSET set /\ IsFiniteSet(before(i)) /\ Cardinality(before(i)) \in 0 .. (N - 1)
  <2>1. before(i) \in SUBSET set /\ i \notin before(i)
    BY <1>3
  <2> HIDE DEF before
  <2>2. IsFiniteSet(before(i)) /\ Cardinality(before(i)) <= N /\ (N = Cardinality(before(i)) => set = before(i))
    BY <1>1, <2>1, FS_Subset
  <2>3. Cardinality(before(i)) \in Nat
    BY <2>2, FS_CardinalityType
  <2>4. N # Cardinality(before(i))
    BY <2>1, <2>2
  <2> HIDE DEF N
  <2> QED
    BY <1>1, <2>1, <2>2, <2>3, <2>4
<1>7. ASSUME NEW i \in set, NEW k \in set, prefix_assignment_cmp(c, i, k)
      PROVE  Cardinality(before(i)) < Cardinality(before(k))
  <2>1. before(i) \in SUBSET before(k) /\ i \in before(k) /\ i \notin before(i)
    BY <1>3, <1>5, <1>7
  <2> HIDE DEF before, N
  <2>2. IsFiniteSet(before(k)) /\ Cardinality(before(i)) \in Int /\ Cardinality(before(k)) \in Int
    BY <1>1, <1>6
  <2>3. /\ Cardinality(before(i)) <= Cardinality(before(k))
        /\ Cardinality(before(k)) = Cardinality(before(i)) => before(k) = before(i)
    BY <2>1, <2>2, FS_Subset
  <2> QED
    BY <2>1, <2>2, <2>3
<1>8. rank \in [set -> 0 .. (N - 1)]
  <2> HIDE DEF before, N
  <2> QED
    BY <1>6
<1>9. \A i, k \in set : rank[i] = rank[k] => i = k
  <2> SUFFICES ASSUME NEW i \in set, NEW k \in set, i # k PROVE rank[i] # rank[k]
    OBVIOUS
  <2>1. rank[i] = Cardinality(before(i)) /\ rank[k] = Cardinality(before(k))
    OBVIOUS
  <2> HIDE DEF rank, before, N
  <2>2. Cardinality(before(i)) \in Int /\ Cardinality(before(k)) \in Int
    BY <1>1, <1>6
  <2> QED
    BY <1>4, <1>7, <2>1, <2>2
<1>10. rank \in Injection(set, 0 .. (N - 1))
  <2> HIDE DEF rank, N
  <2> QED
    BY <1>8, <1>9 DEF Injection, IsInjective
<1>11. IsFiniteSet(0 .. (N - 1)) /\ Cardinality(0 .. (N - 1)) = N
  <2> HIDE DEF N
  <2>1. N - 1 \in Int /\ 0 \in Int /\ (IF 0 > N - 1 THEN 0 ELSE (N - 1) - 0 + 1) = N
    BY <1>1
  <2> QED
    BY <2>1, FS_Interval
<1>12. rank \in Surjection(set, 0 .. (N - 1))
  <2> HIDE DEF rank
  <2> QED
    BY <1>10, <1>11, FS_Injection
<1>13. ASSUME NEW n \in 1 .. N
       PROVE  Nth(c, set, n) \in set /\ Cardinality(before(Nth(c, set, n))) = n - 1
  <2>1. n - 1 \in 0 .. (N - 1)
    BY <1>1
  <2>2. \E i \in set : rank[i] = n - 1
    <3> HIDE DEF rank, N
    <3> QED
      BY <1>12, <2>1 DEF Surjection
  <2>3. \E i \in set : Cardinality(before(i)) = n - 1
    BY <2>2
  <2> QED
    BY <2>3 DEF Nth
<1>14. ASSUME NEW i \in set PROVE \E n \in 1 .. N : Nth(c, set, n) = i
  <2> DEFINE n == Cardinality(before(i)) + 1
  <2>1. Cardinality(before(i)) \in 0 .. (N - 1)
    BY <1>6
  <2>2. n \in 1 .. N /\ n - 1 = Cardinality(before(i))
    <3> HIDE DEF before, N
    <3> QED
      BY <1>1, <2>1
  <2>3. Nth(c, set, n) \in set /\ Cardinality(before(Nth(c, set, n))) = n - 1
    BY <1>13, <2>2
  <2> DEFINE k == Nth(c, set, n)
  <2>4. rank[k] = rank[i]
    <3>1. rank[i] = Cardinality(before(i)) /\ \A x \in set : rank[x] = Cardinality(before(x))
      OBVIOUS
    <3> HIDE DEF n, before, rank
    <3> QED
      BY <2>2, <2>3, <3>1
  <2> HIDE DEF rank, before, n, N
  <2> QED
    BY <1>9, <2>2, <2>3, <2>4
<1>15. ASSUME NEW m \in 1 .. N, NEW n \in 1 .. N, m < n
       PROVE  prefix_assignment_cmp(c, Nth(c, set, m), Nth(c, set, n))
  <2> DEFINE x == Nth(c, set, m)
             y == Nth(c, set, n)
  <2>1. x \in set /\ y \in set /\ Cardinality(before(x)) = m - 1 /\ Cardinality(before(y)) = n - 1
    BY <1>13
  <2> HIDE DEF x, y, before, N
  <2>2. x # y /\ ~(Cardinality(before(y)) < Cardinality(before(x)))
    BY <1>1, <1>15, <2>1
  <2> QED
    BY <1>4, <1>7, <2>1, <2>2 DEF x, y
<1> HIDE DEF before
<1> QED
  BY <1>13, <1>14, <1>15

\* What a prefix is made of, and the options it is divided by.
LEMMA DescFacts ==
  ASSUME NEW d \in Descs
  PROVE  /\ d.plen \in 1 .. 64 /\ Shl(64 - d.plen) \in Int
         /\ d.excl # None => d.plen > 33 /\ d.excl.at \in Nat /\ d.excl.len \in d.plen .. 64
<1>1. d.plen \in 1 .. 64 /\ (d.excl # None => d.plen > 33 /\ d.excl.at \in Nat /\ d.excl.len \in d.plen .. 64)
  <2>1. CASE \E l \in Ulas \ {None} : d = [plen |-> l, excl |-> None, class |-> "local"]
    <3>1. PICK l \in Ulas \ {None} : d = [plen |-> l, excl |-> None, class |-> "local"]
      BY <2>1
    <3>2. l \in 1 .. 64
      BY PrefixAssumption
    <3> QED
      BY <3>1, <3>2
  <2>2. CASE \E o \in Offers : d = [plen |-> o.plen, excl |-> o.excl, class |-> o.class]
    <3>1. PICK o \in Offers : d = [plen |-> o.plen, excl |-> o.excl, class |-> o.class]
      BY <2>2
    <3>2. /\ o.plen \in 1 .. 64
          /\ o.excl # None => o.plen > 33 /\ o.excl.at \in Nat /\ o.excl.len \in o.plen .. 64
      BY PrefixAssumption
    <3>3. d.plen = o.plen /\ d.excl = o.excl
      BY <3>1
    <3> QED
      BY <3>2, <3>3
  <2> QED
    BY <2>1, <2>2 DEF Descs
<1>2. 64 - d.plen \in Nat
  BY <1>1
<1> QED
  BY <1>1, <1>2, ShlInt

\* The options of an interface that is there are options.
LEMMA CfgFacts ==
  ASSUME NEW c \in Cfgs
  PROVE  \A i \in Iface : c[i] # None => IsOption(c[i])
<1>1. \A i \in Iface : c[i] \in Opts(i)
  BY DEF Cfgs
<1> QED
  BY <1>1, PrefixAssumption DEF Opts

\* The list before any interface is good.
LEMMA InitialGood ==
  ASSUME NEW d \in Descs
  PROVE  Good(InitialList(d), Shl(64 - d.plen)) /\ Fresh(InitialList(d))
<1> DEFINE L == Shl(64 - d.plen)  end == Entry("", L, 64)  x == Entry("!excluded", d.excl.at % L, d.excl.len)
<1>1. L \in Int
  BY DescFacts
<1>2. end \in Ent /\ end.assigned = L /\ ~end.enabled
  <2> HIDE DEF L
  <2> QED
    BY <1>1 DEF Entry, Ent
<1>3. CASE d.excl = None
  <2>1. InitialList(d) = <<end>>
    BY <1>3 DEF InitialList
  <2> HIDE DEF end, L
  <2>2. <<end>> \in Seq(Ent) /\ Len(<<end>>) = 1 /\ <<end>>[1] = end
    BY <1>2
  <2>3. Good(<<end>>, L) /\ Fresh(<<end>>)
    BY <1>2, <2>2 DEF Good, Fresh
  <2> QED
    BY <2>1, <2>3 DEF L
<1>4. CASE d.excl # None
  <2>1. InitialList(d) = <<x, end>>
    BY <1>4 DEF InitialList
  <2>2. d.plen > 33 /\ d.plen \in 1 .. 64 /\ d.excl.at \in Nat /\ d.excl.len \in d.plen .. 64
    BY <1>4, DescFacts
  <2>3. 64 - d.plen \in 0 .. 30 /\ 64 - d.excl.len \in 0 .. 30 /\ d.excl.len \in 0 .. 64
    BY <2>2
  <2>4. L \in Nat /\ L > 0 /\ Shl(64 - d.excl.len) \in Nat /\ Shl(64 - d.excl.len) > 0
    BY <2>3, ShlFacts
  <2> HIDE DEF L
  <2>5. d.excl.at % L \in 0 .. (L - 1)
    BY <2>2, <2>4, CutHint
  <2>6. /\ x \in Ent /\ x.assigned = d.excl.at % L /\ x.length = d.excl.len
        /\ x.name = "!excluded" /\ ~x.enabled
    <3>1. d.excl.at % L \in Int
      BY <2>4, <2>5
    <3> QED
      BY <2>3, <3>1 DEF Entry, Ent
  <2> HIDE DEF x, end
  <2>7. Size(x) = Shl(64 - d.excl.len)
    BY <2>6 DEF Size
  <2>8. Placeable(x, L)
    BY <2>4, <2>5, <2>6, <2>7 DEF Placeable
  <2>9. <<x, end>> \in Seq(Ent) /\ Len(<<x, end>>) = 2 /\ <<x, end>>[1] = x /\ <<x, end>>[2] = end
    BY <1>2, <2>6
  <2>10. Good(<<x, end>>, L) /\ Fresh(<<x, end>>)
    BY <1>2, <2>6, <2>8, <2>9 DEF Good, Fresh
  <2> QED
    BY <2>1, <2>10 DEF L
<1> QED
  BY <1>3, <1>4

\* What an interface asks for.
LEMMA WantedAsks ==
  ASSUME NEW c \in Cfgs, NEW d, NEW i \in Iface, Eligible(c[i], d)
  PROVE  /\ Asks(Wanted(c, i)) /\ Wanted(c, i).length \in 48 .. 64
         /\ \A l \in 48 .. 64 :
              Asks([[Wanted(c, i) EXCEPT !.assigned = -1] EXCEPT !.length = l])
<1>1. IsOption(c[i]) /\ c[i].len \in 48 .. 64
  BY CfgFacts DEF Eligible
<1> DEFINE s == Shl(64 - c[i].len)
           x == IF c[i].hint = -1 THEN -1 ELSE c[i].hint - (c[i].hint % s)
           w == Wanted(c, i)
<1>2. s \in Nat /\ s > 0
  <2>1. 64 - c[i].len \in 0 .. 30
    BY <1>1
  <2> QED
    BY <2>1, ShlFacts
<1>3. w = [name |-> i, assigned |-> x, length |-> c[i].len, enabled |-> FALSE]
  BY DEF Wanted, Entry
<1> HIDE DEF s, w
<1>4. x \in Int /\ (x # -1 => x % s = 0)
  BY <1>1, <1>2, CutHint DEF IsOption
<1> HIDE DEF x
<1>5. Size(w) = s
  BY <1>3 DEF Size, s
<1>6. w \in Ent /\ w.name = i /\ ~w.enabled /\ w.length \in 48 .. 64 /\ w.assigned = x
  <2>1. c[i].len \in 0 .. 64 /\ c[i].len \in 48 .. 64
    BY <1>1
  <2> QED
    BY <1>3, <1>4, <2>1 DEF Ent
<1>7. Asks(w)
  BY <1>4, <1>5, <1>6 DEF Asks
<1>8. ASSUME NEW l \in 48 .. 64 PROVE Asks([[w EXCEPT !.assigned = -1] EXCEPT !.length = l])
  <2> DEFINE v == [[w EXCEPT !.assigned = -1] EXCEPT !.length = l]
  <2>1. v \in Ent /\ v.name = i /\ ~v.enabled /\ v.length = l /\ v.assigned = -1
    <3>1. l \in 0 .. 64 /\ -1 \in Int
      OBVIOUS
    <3> DEFINE u == [w EXCEPT !.assigned = -1]
    <3>2. u \in Ent /\ u.name = i /\ ~u.enabled /\ u.assigned = -1
      BY <1>6, <3>1 DEF Ent
    <3> HIDE DEF u
    <3>3. [u EXCEPT !.length = l] \in Ent
      BY <3>1, <3>2 DEF Ent
    <3>4. /\ [u EXCEPT !.length = l].name = i /\ ~[u EXCEPT !.length = l].enabled
          /\ [u EXCEPT !.length = l].length = l /\ [u EXCEPT !.length = l].assigned = -1
      BY <3>1, <3>2 DEF Ent
    <3> QED
      BY <3>3, <3>4 DEF u
  <2> HIDE DEF v
  <2> QED
    BY <2>1 DEF Asks, v
<1> QED
  BY <1>6, <1>7, <1>8 DEF w

\* The good lists before addresses are set.
Lists0(L) == {l \in Seq(Ent) : Good(l, L) /\ Fresh(l)}

\* One round of the loop over the interfaces keeps the list good.
LEMMA HintKeeps ==
  ASSUME NEW c \in Cfgs, NEW d, NEW L \in Int, NEW list \in Lists0(L), NEW i \in Iface
  PROVE  AssignHint(c, d, list, i) \in Lists0(L)
<1> DEFINE r == interface_prefix_assign(list, Wanted(c, i))
<1>1. AssignHint(c, d, list, i) = IF ~Eligible(c[i], d) \/ c[i].hint = -1 \/ r = None THEN list ELSE r
  BY DEF AssignHint
<1>2. CASE Eligible(c[i], d) /\ r # None
  <2>1. Asks(Wanted(c, i))
    BY <1>2, WantedAsks
  <2>2. Good(list, L) /\ Fresh(list)
    BY DEF Lists0
  <2>3. Good(r, L) /\ Fresh(r)
    BY <1>2, <2>1, <2>2, AssignGood
  <2> HIDE DEF r
  <2>4. r \in Lists0(L)
    BY <2>3 DEF Lists0, Good
  <2> QED
    BY <1>1, <2>4
<1> HIDE DEF r
<1> QED
  BY <1>1, <1>2

\* So does one round of the loop over assign_later.
LEMMA LaterKeeps ==
  ASSUME NEW c \in Cfgs, NEW d, NEW L \in Int, NEW list \in Lists0(L), NEW i \in Iface, Eligible(c[i], d)
  PROVE  AssignLater(c, list, i) \in Lists0(L)
<1> DEFINE a == [Wanted(c, i) EXCEPT !.assigned = -1]
           fits == {l \in a.length .. 64 : interface_prefix_assign(list, [a EXCEPT !.length = l]) # None}
           b == [a EXCEPT !.length = Min(fits)]
           r == interface_prefix_assign(list, b)
<1>1. AssignLater(c, list, i) = IF fits = {} THEN list ELSE r
  BY DEF AssignLater
<1>2. Asks(Wanted(c, i)) /\ \A l \in 48 .. 64 : Asks([a EXCEPT !.length = l])
  BY WantedAsks
<1>3. a.length \in 48 .. 64
  <2>1. Wanted(c, i) \in Ent /\ Wanted(c, i).length \in 48 .. 64
    BY <1>2 DEF Asks
  <2> QED
    BY <2>1 DEF Ent
<1> HIDE DEF a
<1>4. CASE fits # {}
  <2>1. fits \in SUBSET Nat
    BY <1>3
  <2>2. Min(fits) \in fits
    <3> HIDE DEF fits
    <3> QED
      BY <1>4, <2>1, MinIn
  <2>3. Min(fits) \in 48 .. 64 /\ r # None
    BY <1>3, <2>2
  <2>4. Asks(b)
    <3> HIDE DEF fits
    <3> QED
      BY <1>2, <2>3
  <2>5. Good(list, L) /\ Fresh(list)
    BY DEF Lists0
  <2> HIDE DEF b, fits
  <2>6. Good(r, L) /\ Fresh(r)
    BY <2>3, <2>4, <2>5, AssignGood
  <2> HIDE DEF r
  <2>7. r \in Lists0(L)
    BY <2>6 DEF Lists0, Good
  <2> QED
    BY <1>1, <1>4, <2>7
<1> HIDE DEF r, fits
<1> QED
  BY <1>1, <1>4

\* The lists f is made of one by one by the loop over the interfaces.
HintLoop(f, c, d) ==
  /\ f \in [0 .. Len(Names) -> Lists0(Shl(64 - d.plen))] /\ f[0] = InitialList(d)
  /\ \A n \in 1 .. Len(Names) : f[n] = AssignHint(c, d, f[n - 1], Names[n])
  /\ AssignHints(c, d) = f[Len(Names)]

\* The interfaces with hints.
LEMMA HintsLoop ==
  ASSUME NEW c \in Cfgs, NEW d \in Descs
  PROVE  \E f : HintLoop(f, c, d)
<1> DEFINE L == Shl(64 - d.plen)
           K == Len(Names)
           S == InitialList(d)
           D == Lists0(L)
           g == [x \in D \X Iface |-> AssignHint(c, d, x[1], x[2])]
           Eq(a) == a = [n \in 0 .. K |-> IF n = 0 THEN S ELSE AssignHint(c, d, a[n - 1], Names[n])]
           after == CHOOSE a : Eq(a)
<1>1. AssignHints(c, d) = after[K]
  BY DEF AssignHints
<1>2. K \in Nat /\ \A n \in 1 .. K : Names[n] \in Iface
  BY IfaceFinite
<1>2a. L \in Int
  BY DescFacts
<1>3. S \in D
  <2>1. Good(S, L) /\ Fresh(S)
    BY InitialGood
  <2> HIDE DEF S, L
  <2> QED
    BY <2>1 DEF Lists0, Good
<1> HIDE DEF L, S, K
<1>4. \A l \in D, i \in Iface : AssignHint(c, d, l, i) \in D
  BY <1>2a, HintKeeps
<1> HIDE DEF D
<1>5. g \in [D \X Iface -> D]
  BY <1>4
<1>6. \A l \in D, i \in Iface : g[<<l, i>>] = AssignHint(c, d, l, i)
  OBVIOUS
<1> HIDE DEF g
<1>7. PICK f : Loop(f, D, K, S, g, Names)
  <2>1. Lists(Names, K, Iface) /\ Round(g, D, Iface)
    BY <1>2, <1>5 DEF Lists, Round
  <2> HIDE DEF Eq, after
  <2> QED
    BY <1>2, <1>3, <2>1, LoopExists
<1>8. /\ f \in [0 .. K -> D] /\ f[0] = S
      /\ \A n \in 1 .. K : f[n] = g[<<f[n - 1], Names[n]>>]
  BY <1>7 DEF Loop
<1>9. ASSUME NEW n \in 1 .. K PROVE f[n] = AssignHint(c, d, f[n - 1], Names[n])
  <2>1. n - 1 \in 0 .. K /\ Names[n] \in Iface
    BY <1>2
  <2>2. f[n - 1] \in D
    BY <1>8, <2>1
  <2> QED
    BY <1>6, <1>8, <2>1, <2>2
<1>10. Eq(f)
  <2>1. \A n \in 0 .. K : f[n] = IF n = 0 THEN S ELSE AssignHint(c, d, f[n - 1], Names[n])
    BY <1>2, <1>8, <1>9
  <2> QED
    BY <1>8, <2>1
<1>11. Eq(after)
  <2> HIDE DEF Eq
  <2> QED
    BY <1>10
<1> HIDE DEF after
<1>12. \A n \in 0 .. K : after[n] = f[n]
  <2> DEFINE T == {n \in 0 .. K : after[n] = f[n]}
  <2>1. 0 \in T
    BY <1>2, <1>8, <1>11
  <2>2. \A n \in 0 .. K : n \in T /\ n < K => n + 1 \in T
    <3> SUFFICES ASSUME NEW n \in 0 .. K, n \in T, n < K PROVE n + 1 \in T
      OBVIOUS
    <3>1. n + 1 \in 1 .. K /\ n + 1 \in 0 .. K /\ n + 1 # 0 /\ (n + 1) - 1 = n
      BY <1>2
    <3>2. after[n + 1] = AssignHint(c, d, after[n], Names[n + 1])
      BY <1>11, <3>1
    <3>3. f[n + 1] = AssignHint(c, d, f[n], Names[n + 1])
      BY <1>9, <3>1
    <3> QED
      BY <3>1, <3>2, <3>3
  <2> HIDE DEF T, Eq
  <2>3. \A n \in 0 .. K : n \in T
    BY <1>2, <2>1, <2>2, Rounds
  <2> QED
    BY <2>3 DEF T
<1>13. AssignHints(c, d) = f[K]
  <2>1. K \in 0 .. K
    BY <1>2
  <2> HIDE DEF Eq
  <2> QED
    BY <1>1, <1>12, <2>1
<1> HIDE DEF Eq
<1>14. HintLoop(f, c, d)
  BY <1>8, <1>9, <1>13 DEF HintLoop, D, L, S, K
<1> QED
  BY <1>14

\* Those that come later.
Later(c, d, S) == {i \in Iface : Eligible(c[i], d) /\ i \notin Placed(S)}

\* They are finitely many.
LEMMA LaterFinite ==
  ASSUME NEW c, NEW d, NEW S
  PROVE  IsFiniteSet(Later(c, d, S)) /\ Cardinality(Later(c, d, S)) \in Nat
<1>1. Later(c, d, S) \in SUBSET Iface
  BY DEF Later
<1> QED
  BY <1>1, IfaceFinite, FS_Subset, FS_CardinalityType

\* The lists f is made of one by one by the loop over assign_later.
RestLoop(f, c, d, S) ==
  LET rest == Later(c, d, S)
  IN  /\ f \in [0 .. Cardinality(rest) -> Lists0(Shl(64 - d.plen))] /\ f[0] = S
      /\ \A n \in 1 .. Cardinality(rest) : f[n] = AssignLater(c, f[n - 1], Nth(c, rest, n))
      /\ AssignRest(c, d, S) = f[Cardinality(rest)]

\* The others.
LEMMA RestsLoop ==
  ASSUME NEW c \in Cfgs, NEW d \in Descs, NEW S \in Lists0(Shl(64 - d.plen))
  PROVE  \E f : RestLoop(f, c, d, S)
<1> DEFINE L == Shl(64 - d.plen)
           D == Lists0(L)
           rest == {i \in Iface : Eligible(c[i], d) /\ i \notin Placed(S)}
           K == Cardinality(rest)
           q == [n \in 1 .. K |-> Nth(c, rest, n)]
           g == [x \in D \X rest |-> AssignLater(c, x[1], x[2])]
           Eq(a) == a = [n \in 0 .. K |-> IF n = 0 THEN S
                         ELSE AssignLater(c, a[n - 1], Nth(c, rest, n))]
           after == CHOOSE a : Eq(a)
<1>1. AssignRest(c, d, S) = after[K]
  BY DEF AssignRest
<1>2. L \in Int /\ S \in D
  BY DescFacts
<1>3. rest \in SUBSET Iface /\ \A i \in rest : Eligible(c[i], d) /\ c[i] # None
  BY DEF Eligible
<1>4. \A l \in D, i \in rest : AssignLater(c, l, i) \in D
  <2> HIDE DEF L, rest
  <2> SUFFICES ASSUME NEW l \in D, NEW i \in rest PROVE AssignLater(c, l, i) \in D
    OBVIOUS
  <2>1. i \in Iface /\ Eligible(c[i], d)
    BY <1>3
  <2> QED
    BY <1>2, <2>1, LaterKeeps
<1> HIDE DEF rest, L, D
<1>5. K \in Nat
  <2>1. IsFiniteSet(rest)
    BY <1>3, IfaceFinite, FS_Subset
  <2> QED
    BY <2>1, FS_CardinalityType
<1>6. \A n \in 1 .. K : Nth(c, rest, n) \in rest
  <2>1. \A i \in rest : IsOption(c[i])
    BY <1>3, CfgFacts
  <2> QED
    BY <1>3, <2>1, NthFacts
<1> HIDE DEF K
<1>7. \A n \in 1 .. K : q[n] \in rest /\ q[n] = Nth(c, rest, n)
  BY <1>6
<1> HIDE DEF q
<1>8. g \in [D \X rest -> D]
  BY <1>4
<1>9. \A l \in D, i \in rest : g[<<l, i>>] = AssignLater(c, l, i)
  OBVIOUS
<1> HIDE DEF g
<1>10. PICK f : Loop(f, D, K, S, g, q)
  <2>1. Lists(q, K, rest) /\ Round(g, D, rest)
    BY <1>7, <1>8 DEF Lists, Round
  <2> HIDE DEF Eq, after
  <2> QED
    BY <1>2, <1>5, <2>1, LoopExists
<1>11. /\ f \in [0 .. K -> D] /\ f[0] = S
       /\ \A n \in 1 .. K : f[n] = g[<<f[n - 1], q[n]>>]
  BY <1>10 DEF Loop
<1>12. ASSUME NEW n \in 1 .. K
       PROVE  f[n] = AssignLater(c, f[n - 1], Nth(c, rest, n))
  <2>1. n - 1 \in 0 .. K
    BY <1>5
  <2>2. f[n - 1] \in D
    BY <1>11, <2>1
  <2>3. f[n] = AssignLater(c, f[n - 1], q[n])
    BY <1>7, <1>9, <1>11, <2>2
  <2> QED
    BY <1>7, <2>3
<1>13. Eq(f)
  <2>1. \A n \in 0 .. K : f[n] = IF n = 0 THEN S
          ELSE AssignLater(c, f[n - 1], Nth(c, rest, n))
    BY <1>5, <1>11, <1>12
  <2> QED
    BY <1>11, <2>1
<1>14. Eq(after)
  <2> HIDE DEF Eq
  <2> QED
    BY <1>13
<1> HIDE DEF after
<1>15. \A n \in 0 .. K : after[n] = f[n]
  <2> DEFINE T == {n \in 0 .. K : after[n] = f[n]}
  <2>1. 0 \in T
    BY <1>5, <1>11, <1>14
  <2>2. \A n \in 0 .. K : n \in T /\ n < K => n + 1 \in T
    <3> SUFFICES ASSUME NEW n \in 0 .. K, n \in T, n < K PROVE n + 1 \in T
      OBVIOUS
    <3>1. n + 1 \in 1 .. K /\ n + 1 \in 0 .. K /\ n + 1 # 0 /\ (n + 1) - 1 = n
      BY <1>5
    <3>2. after[n + 1] = AssignLater(c, after[n], Nth(c, rest, n + 1))
      BY <1>14, <3>1
    <3>3. f[n + 1] = AssignLater(c, f[n], Nth(c, rest, n + 1))
      BY <1>12, <3>1
    <3> QED
      BY <3>1, <3>2, <3>3
  <2> HIDE DEF T, Eq
  <2>3. \A n \in 0 .. K : n \in T
    BY <1>5, <2>1, <2>2, Rounds
  <2> QED
    BY <2>3 DEF T
<1>16. AssignRest(c, d, S) = f[K]
  <2>1. K \in 0 .. K
    BY <1>5
  <2> HIDE DEF Eq
  <2> QED
    BY <1>1, <1>15, <2>1
<1>17. rest = Later(c, d, S)
  BY DEF rest, Later
<1> HIDE DEF Eq
<1>18. RestLoop(f, c, d, S)
  BY <1>11, <1>12, <1>16, <1>17 DEF RestLoop, D, L, K
<1> QED
  BY <1>18

\* The list of every prefix for every set of options is good.
LEMMA AssignedGood ==
  ASSUME NEW d \in Descs, NEW c \in Cfgs
  PROVE  /\ Assigned[<<d, c>>] \in Seq(Ent)
         /\ Good(Assigned[<<d, c>>], Shl(64 - d.plen)) /\ Fresh(Assigned[<<d, c>>])
<1>1. Assigned[<<d, c>>] = AssignRest(c, d, AssignHints(c, d))
  BY DEF Assigned
<1>2. AssignHints(c, d) \in Lists0(Shl(64 - d.plen))
  <2>1. PICK f : HintLoop(f, c, d)
    BY HintsLoop
  <2>2. Len(Names) \in 0 .. Len(Names)
    BY IfaceFinite
  <2> QED
    BY <2>1, <2>2 DEF HintLoop
<1>3. AssignRest(c, d, AssignHints(c, d)) \in Lists0(Shl(64 - d.plen))
  <2>1. PICK f : RestLoop(f, c, d, AssignHints(c, d))
    BY <1>2, RestsLoop
  <2>2. Cardinality(Later(c, d, AssignHints(c, d))) \in Nat
    BY LaterFinite
  <2>3. Cardinality(Later(c, d, AssignHints(c, d))) \in 0 .. Cardinality(Later(c, d, AssignHints(c, d)))
    BY <2>2
  <2> QED
    BY <2>1, <2>3 DEF RestLoop
<1> QED
  BY <1>1, <1>3 DEF Lists0

-----------------------------------------------------------------------------
(***************************************************************************)
(* Who gets what.  The entries of a list before the sentinel are its Body; *)
(* an assignment adds one entry to it.                                     *)
(***************************************************************************)
Body(l) == {l[j] : j \in 1 .. (Len(l) - 1)}

\* The interfaces with an entry.
Served(l) == {e.name : e \in Body(l)}

\* The place an entry gets in a gap, and whether the gap holds it.
PlaceIn(list, a, j) == IF a.assigned # -1 THEN a.assigned ELSE Align(Gap(list, j), Size(a))
Room(list, a, j) ==
  PlaceIn(list, a, j) >= Gap(list, j) /\ PlaceIn(list, a, j) + Size(a) - 1 < list[j].assigned

\* There is no gap.
Full(list) == \A j \in 1 .. Len(list) : list[j].assigned <= Gap(list, j)

\* The list r is the list l with one more entry.
Adds(l, r, b) == Body(r) = Body(l) \cup {b} /\ r[Len(r)] = l[Len(l)]

\* Names are unique.
LEMMA RankFacts ==
  /\ \A i \in Iface : Rank(i) \in 1 .. Len(Names) /\ Names[Rank(i)] = i
  /\ \A n \in 1 .. Len(Names) : Rank(Names[n]) = n
<1>0. Names \in Seq(Iface)
  BY PrefixAssumption
<1>1. DOMAIN Names = 1 .. Len(Names) /\ \A n \in 1 .. Len(Names) : Names[n] \in Iface
  BY <1>0
<1>2. \A i \in Iface : \E n \in 1 .. Len(Names) : Names[n] = i
  BY <1>1 DEF Iface, ToSet
<1>3. \A i \in Iface : Rank(i) \in 1 .. Len(Names) /\ Names[Rank(i)] = i
  BY <1>1, <1>2 DEF Rank
<1>4. \A m, n \in 1 .. Len(Names) : Names[m] = Names[n] => m = n
  BY <1>1, PrefixAssumption
<1> QED
  BY <1>1, <1>3, <1>4

\* InsertAt() adds to the body.
LEMMA InsertBody ==
  ASSUME NEW s \in Seq(Ent), NEW i \in 1 .. Len(s), NEW e \in Ent
  PROVE  Adds(s, InsertAt(s, i, e), e)
<1> DEFINE r == InsertAt(s, i, e)
<1>1. /\ r \in Seq(Ent) /\ Len(r) = Len(s) + 1
      /\ \A j \in 1 .. (Len(s) + 1) : r[j] = IF j < i THEN s[j] ELSE IF j = i THEN e ELSE s[j - 1]
  <2>1. Inserted(Ent, s, i, e, InsertAt(s, i, e))
    BY InsertFacts
  <2> QED
    BY <2>1 DEF Inserted
<1>2. Len(s) \in Nat /\ i \in Int /\ 1 <= i /\ i <= Len(s)
  OBVIOUS
<1> HIDE DEF r
<1>3. r[Len(r)] = s[Len(s)]
  <2>1. Len(s) + 1 \in 1 .. (Len(s) + 1) /\ ~(Len(s) + 1 < i) /\ Len(s) + 1 # i /\ (Len(s) + 1) - 1 = Len(s)
    BY <1>2
  <2> QED
    BY <1>1, <2>1
<1>4. ASSUME NEW x \in Body(r) PROVE x \in Body(s) \cup {e}
  <2>1. PICK j \in 1 .. (Len(r) - 1) : x = r[j]
    BY <1>4 DEF Body
  <2>2. j \in 1 .. Len(s) /\ j \in 1 .. (Len(s) + 1)
    BY <1>1, <1>2, <2>1
  <2>3. CASE j < i
    <3>1. x = s[j] /\ j \in 1 .. (Len(s) - 1)
      BY <1>1, <1>2, <2>1, <2>2, <2>3
    <3> QED
      BY <3>1 DEF Body
  <2>4. CASE j = i
    BY <1>1, <2>1, <2>2, <2>4
  <2>5. CASE j > i
    <3>1. x = s[j - 1] /\ j - 1 \in 1 .. (Len(s) - 1)
      BY <1>1, <1>2, <2>1, <2>2, <2>5
    <3> QED
      BY <3>1 DEF Body
  <2> QED
    BY <1>2, <2>2, <2>3, <2>4, <2>5
<1>5. ASSUME NEW x \in Body(s) PROVE x \in Body(r)
  <2>1. PICK j \in 1 .. (Len(s) - 1) : x = s[j]
    BY <1>5 DEF Body
  <2>2. CASE j < i
    <3>1. r[j] = x /\ j \in 1 .. (Len(r) - 1)
      BY <1>1, <1>2, <2>1, <2>2
    <3> QED
      BY <3>1 DEF Body
  <2>3. CASE j >= i
    <3>1. j + 1 \in 1 .. (Len(s) + 1) /\ ~(j + 1 < i) /\ j + 1 # i /\ (j + 1) - 1 = j /\ j + 1 \in 1 .. (Len(r) - 1)
      BY <1>1, <1>2, <2>1, <2>3
    <3>2. r[j + 1] = x
      BY <1>1, <2>1, <3>1
    <3> QED
      BY <3>1, <3>2 DEF Body
  <2> QED
    BY <1>2, <2>1, <2>2, <2>3
<1>6. e \in Body(r)
  <2>1. r[i] = e /\ i \in 1 .. (Len(r) - 1)
    BY <1>1, <1>2
  <2> QED
    BY <2>1 DEF Body
<1>7. Adds(s, r, e)
  BY <1>3, <1>4, <1>5, <1>6 DEF Adds
<1> QED
  BY <1>7 DEF r

\* interface_prefix_assign() fails if no gap holds the entry, and else adds the entry at
\* a place that is free.
LEMMA AssignAdds ==
  ASSUME NEW L, NEW list, Good(list, L), NEW a, Asks(a)
  PROVE  \/ /\ interface_prefix_assign(list, a) = None
            /\ \A j \in 1 .. Len(list) : ~Room(list, a, j)
         \/ /\ interface_prefix_assign(list, a) # None
            /\ \E j \in 1 .. Len(list), b \in Ent :
                 /\ Room(list, a, j) /\ Adds(list, interface_prefix_assign(list, a), b)
                 /\ b.name = a.name /\ b.length = a.length /\ b.assigned = PlaceIn(list, a, j)
<1> DEFINE fits == {j \in DOMAIN list : Room(list, a, j)}
           j0 == Min(fits)
           b == [a EXCEPT !.assigned = PlaceIn(list, a, j0)]
           r == interface_prefix_assign(list, a)
<1>1. r = IF fits = {} THEN None ELSE InsertAt(list, j0, b)
  BY DEF interface_prefix_assign, Room, PlaceIn
<1>2. /\ list \in Seq(Ent) /\ Len(list) \in Nat /\ DOMAIN list = 1 .. Len(list)
      /\ \A m \in 1 .. Len(list) : list[m] \in Ent /\ list[m].assigned \in Int
  BY GoodTypes
<1>3. CASE fits = {}
  <2> HIDE DEF r
  <2>1. \A j \in 1 .. Len(list) : ~Room(list, a, j)
    BY <1>2, <1>3
  <2> QED
    BY <1>1, <1>3, <2>1 DEF r
<1>4. CASE fits # {}
  <2>1. j0 \in fits
    <3>1. fits \in SUBSET Nat
      BY <1>2
    <3> HIDE DEF fits
    <3> QED
      BY <1>4, <3>1, MinIn
  <2>2. j0 \in 1 .. Len(list) /\ Room(list, a, j0)
    BY <1>2, <2>1
  <2> HIDE DEF fits, j0
  <2>3. a \in Ent /\ a.assigned \in Int /\ Size(a) \in Nat /\ Size(a) > 0
    BY AskSize DEF Asks, Ent
  <2>4. Gap(list, j0) \in Int
    <3>1. CASE j0 = 1
      BY <3>1 DEF Gap
    <3>2. CASE j0 # 1
      <4>1. j0 - 1 \in 1 .. (Len(list) - 1) /\ j0 - 1 \in 1 .. Len(list)
        BY <1>2, <2>2, <3>2
      <4>2. Placeable(list[j0 - 1], L)
        BY <4>1 DEF Good
      <4> QED
        BY <1>2, <3>2, <4>1, <4>2 DEF Gap, Placeable
    <3> QED
      BY <3>1, <3>2
  <2>5. PlaceIn(list, a, j0) \in Int
    BY <2>3, <2>4, AlignFacts DEF PlaceIn
  <2>6. b \in Ent /\ b.name = a.name /\ b.length = a.length /\ b.assigned = PlaceIn(list, a, j0)
    BY <2>3, <2>5 DEF Ent
  <2> HIDE DEF b, r
  <2>7. r = InsertAt(list, j0, b)
    BY <1>1, <1>4
  <2>8. Adds(list, r, b) /\ r \in Seq(Ent)
    <3>1. Inserted(Ent, list, j0, b, InsertAt(list, j0, b)) /\ Adds(list, InsertAt(list, j0, b), b)
      BY <1>2, <2>2, <2>6, InsertBody, InsertFacts
    <3> QED
      BY <2>7, <3>1 DEF Inserted
  <2>9. r # None
    BY <2>8, NoneAssumption
  <2> QED
    BY <2>2, <2>6, <2>8, <2>9 DEF r
<1> QED
  BY <1>3, <1>4

\* Where no gap holds a place of the prefix, an entry is in the way.
LEMMA NoRoom ==
  ASSUME NEW L \in Int, NEW list, Good(list, L), NEW a, Asks(a), a.assigned # -1,
         \A j \in 1 .. Len(list) : ~Room(list, a, j), 0 <= a.assigned, a.assigned + Size(a) <= L
  PROVE  \E e \in Body(list) : ~Apart(e, a)
<1> DEFINE N == Len(list)
           T == {j \in 1 .. N : a.assigned + Size(a) <= list[j].assigned}
<1>1. /\ list \in Seq(Ent) /\ N \in Nat /\ N >= 1 /\ list[N].assigned = L
      /\ \A m \in 1 .. N : list[m].assigned \in Int
  BY GoodTypes
<1>2. a.assigned \in Int /\ Size(a) \in Nat /\ Size(a) > 0
  BY AskSize DEF Asks, Ent
<1> HIDE DEF N
<1>3. PICK j \in T : \A n \in T : j <= n
  <2>1. T \in SUBSET Nat /\ N \in T
    BY <1>1
  <2> HIDE DEF T
  <2> QED
    BY <2>1, LeastNat
<1>4. j \in 1 .. N /\ a.assigned + Size(a) <= list[j].assigned
  BY <1>3
<1>5. ~(a.assigned >= Gap(list, j))
  <2>1. ~Room(list, a, j) /\ PlaceIn(list, a, j) = a.assigned
    BY <1>4 DEF N, PlaceIn
  <2> QED
    BY <1>1, <1>2, <1>4, <2>1 DEF Room
<1>6. j # 1
  BY <1>2, <1>5 DEF Gap
<1>7. j - 1 \in 1 .. (N - 1) /\ j - 1 \in 1 .. N /\ j - 1 \notin T
  <2>1. j - 1 \in 1 .. (N - 1) /\ j - 1 \in 1 .. N /\ ~(j <= j - 1)
    BY <1>1, <1>4, <1>6
  <2> HIDE DEF T
  <2> QED
    BY <1>3, <2>1
<1> DEFINE e == list[j - 1]
<1>8. e \in Body(list) /\ e.assigned \in Int /\ Size(e) \in Nat
  <2>1. Placeable(e, L)
    BY <1>7 DEF Good, N
  <2> QED
    BY <1>1, <1>7, <2>1 DEF Body, Placeable, N
<1>9. ~(a.assigned + Size(a) <= e.assigned)
  BY <1>7
<1>10. Gap(list, j) = e.assigned + Size(e)
  BY <1>6 DEF Gap
<1> HIDE DEF e, T
<1>11. ~Apart(e, a)
  BY <1>2, <1>5, <1>8, <1>9, <1>10 DEF Apart
<1> QED
  BY <1>8, <1>11

\* In a full list every /64 of the prefix is in an entry.
LEMMA FullCovers ==
  ASSUME NEW L \in Int, NEW list, Good(list, L), Full(list), NEW x \in 0 .. (L - 1)
  PROVE  \E j \in 1 .. (Len(list) - 1) : x \in list[j].assigned .. (list[j].assigned + Size(list[j]) - 1)
<1> DEFINE N == Len(list)
           T == {j \in 1 .. N : x < list[j].assigned}
<1>1. /\ list \in Seq(Ent) /\ N \in Nat /\ N >= 1 /\ list[N].assigned = L
      /\ \A m \in 1 .. N : list[m].assigned \in Int
  BY GoodTypes
<1> HIDE DEF N
<1>2. x \in Int /\ 0 <= x /\ x < L
  OBVIOUS
<1>3. PICK j \in T : \A n \in T : j <= n
  <2>1. T \in SUBSET Nat /\ N \in T
    BY <1>1, <1>2
  <2> HIDE DEF T
  <2> QED
    BY <2>1, LeastNat
<1>4. j \in 1 .. N /\ x < list[j].assigned /\ list[j].assigned <= Gap(list, j) /\ list[j].assigned \in Int
  BY <1>1, <1>3 DEF Full, N
<1>5. j # 1
  BY <1>2, <1>4 DEF Gap
<1>6. j - 1 \in 1 .. (N - 1) /\ j - 1 \in 1 .. N /\ j - 1 \notin T
  <2>1. j - 1 \in 1 .. (N - 1) /\ j - 1 \in 1 .. N /\ ~(j <= j - 1)
    BY <1>1, <1>4, <1>5
  <2> HIDE DEF T
  <2> QED
    BY <1>3, <2>1
<1> DEFINE e == list[j - 1]
<1>7. e.assigned \in Int /\ Size(e) \in Nat
  <2>1. Placeable(e, L)
    BY <1>6 DEF Good, N
  <2> QED
    BY <1>1, <1>6, <2>1 DEF Placeable
<1>8. ~(x < e.assigned)
  BY <1>6
<1>9. Gap(list, j) = e.assigned + Size(e)
  BY <1>5 DEF Gap
<1> HIDE DEF e, T
<1>10. x \in e.assigned .. (e.assigned + Size(e) - 1)
  BY <1>2, <1>4, <1>7, <1>8, <1>9
<1> QED
  BY <1>6, <1>10 DEF e, N

\* What an interface asks for has its name, and a place if it has a hint.
LEMMA WantedFacts ==
  ASSUME NEW c \in Cfgs, NEW d, NEW i \in Iface, Eligible(c[i], d)
  PROVE  Wanted(c, i).name = i /\ (c[i].hint # -1 => Wanted(c, i).assigned # -1)
<1>1. IsOption(c[i]) /\ c[i].len \in 48 .. 64
  BY CfgFacts DEF Eligible
<1> DEFINE s == Shl(64 - c[i].len)
<1>2. s \in Nat /\ s > 0
  <2>1. 64 - c[i].len \in 0 .. 30
    BY <1>1
  <2> QED
    BY <2>1, ShlFacts
<1>3. Wanted(c, i).name = i
  BY DEF Wanted, Entry
<1>4. c[i].hint # -1 => Wanted(c, i).assigned = c[i].hint - (c[i].hint % s)
  BY DEF Wanted, Entry
<1> HIDE DEF s
<1>5. ASSUME NEW x \in Int, x # -1 PROVE x - (x % s) # -1
  <2>1. (x - (x % s)) % s = 0 /\ x % s \in 0 .. (s - 1)
    BY <1>2, CutHint
  <2>2. CASE s = 1
    BY <1>5, <2>1, <2>2
  <2>3. CASE s > 1
    <3>1. (-1) % s = s - 1
      BY <1>2, <2>3
    <3> QED
      BY <1>2, <2>1, <2>3, <3>1
  <2> QED
    BY <1>2, <2>2, <2>3
<1>6. c[i].hint \in Int
  BY <1>1 DEF IsOption
<1> QED
  BY <1>3, <1>4, <1>5, <1>6

\* An entry is the excluded part, or is the hint of an interface.
HintEntry(e, c) == e.name \in Iface /\ Address(e) = Address(Wanted(c, e.name))

\* With the entries of B, the interface i has the subprefix of its hint, or has not for a
\* reason.
HintOK(B, c, i, L) ==
  \/ \E e \in B : Address(e) = Address(Wanted(c, i))
  \/ Wanted(c, i).assigned < 0 \/ Wanted(c, i).assigned + Size(Wanted(c, i)) > L
  \/ \E e \in B : /\ e.name = "!excluded" \/ (HintEntry(e, c) /\ Rank(e.name) < Rank(i))
                  /\ ~Apart(e, Wanted(c, i))

\* One round of the loop over the interfaces.
LEMMA HintStep ==
  ASSUME NEW c \in Cfgs, NEW d, NEW L \in Int, NEW list \in Lists0(L), NEW i \in Iface
  PROVE  /\ \/ AssignHint(c, d, list, i) = list
            \/ \E b : /\ Adds(list, AssignHint(c, d, list, i), b)
                      /\ b.name = i /\ Address(b) = Address(Wanted(c, i))
         /\ (Eligible(c[i], d) /\ c[i].hint # -1) =>
              \/ \E e \in Body(AssignHint(c, d, list, i)) : Address(e) = Address(Wanted(c, i))
              \/ Wanted(c, i).assigned < 0 \/ Wanted(c, i).assigned + Size(Wanted(c, i)) > L
              \/ \E e \in Body(list) : ~Apart(e, Wanted(c, i))
<1> DEFINE w == Wanted(c, i)
           r == interface_prefix_assign(list, w)
           h == AssignHint(c, d, list, i)
<1>1. h = IF ~Eligible(c[i], d) \/ c[i].hint = -1 \/ r = None THEN list ELSE r
  BY DEF AssignHint
<1>2. Good(list, L)
  BY DEF Lists0
<1>3. CASE ~Eligible(c[i], d) \/ c[i].hint = -1
  <2>1. h = list
    BY <1>1, <1>3
  <2> QED
    BY <1>3, <2>1
<1>4. CASE Eligible(c[i], d) /\ c[i].hint # -1
  <2>1. Asks(w) /\ w.name = i /\ w.assigned # -1
    BY <1>4, WantedAsks, WantedFacts
  <2> HIDE DEF w
  <2>2. \/ r = None /\ \A j \in 1 .. Len(list) : ~Room(list, w, j)
        \/ r # None /\ \E j \in 1 .. Len(list), b \in Ent :
             /\ Room(list, w, j) /\ Adds(list, r, b)
             /\ b.name = w.name /\ b.length = w.length /\ b.assigned = PlaceIn(list, w, j)
    BY <1>2, <2>1, AssignAdds
  <2> HIDE DEF r, h
  <2>3. CASE r = None
    <3>1. h = list /\ \A j \in 1 .. Len(list) : ~Room(list, w, j)
      BY <1>1, <2>2, <2>3
    <3>2. w.assigned \in Int /\ Size(w) \in Nat
      BY <2>1, AskSize DEF Asks, Ent
    <3>3. w.assigned < 0 \/ w.assigned + Size(w) > L \/ \E e \in Body(list) : ~Apart(e, w)
      BY <1>2, <2>1, <3>1, <3>2, NoRoom
    <3> QED
      BY <3>1, <3>3 DEF h, w
  <2>4. CASE r # None
    <3>1. PICK j \in 1 .. Len(list), b \in Ent :
             /\ Room(list, w, j) /\ Adds(list, r, b)
             /\ b.name = w.name /\ b.length = w.length /\ b.assigned = PlaceIn(list, w, j)
      BY <2>2, <2>4
    <3>2. b.assigned = w.assigned
      BY <2>1, <3>1 DEF PlaceIn
    <3>3. Address(b) = Address(w) /\ b.name = i
      BY <2>1, <3>1, <3>2 DEF Address
    <3>4. h = r
      BY <1>1, <1>4, <2>4
    <3>5. b \in Body(h) /\ Adds(list, h, b)
      BY <3>1, <3>4 DEF Adds
    <3> QED
      BY <3>3, <3>5 DEF h, w
  <2> QED
    BY <2>3, <2>4
<1> QED
  BY <1>3, <1>4

\* A hint that is kept, or lost for a reason, is so with more entries.
LEMMA HintMore ==
  ASSUME NEW B, NEW C, B \subseteq C, NEW c, NEW i, NEW L, HintOK(B, c, i, L)
  PROVE  HintOK(C, c, i, L)
  BY DEF HintOK

\* The list before any interface.
LEMMA InitialBody ==
  ASSUME NEW d \in Descs
  PROVE  LET l == InitialList(d)
         IN  l[Len(l)].name = "" /\ \A e \in Body(l) : e.name = "!excluded"
<1> DEFINE l == InitialList(d)
           end == Entry("", Shl(64 - d.plen), 64)
           x == Entry("!excluded", d.excl.at % Shl(64 - d.plen), d.excl.len)
<1>1. end.name = "" /\ x.name = "!excluded"
  BY DEF Entry
<1>2. l = <<end>> \/ l = <<x, end>>
  BY DEF InitialList
<1> HIDE DEF end, x, l
<1>3. CASE l = <<end>>
  <2>1. Len(l) = 1 /\ l[1] = end /\ 1 .. (Len(l) - 1) = {}
    BY <1>3
  <2> QED
    BY <1>1, <2>1 DEF Body, l
<1>4. CASE l = <<x, end>>
  <2>1. Len(l) = 2 /\ l[1] = x /\ l[2] = end /\ 1 .. (Len(l) - 1) = {1}
    BY <1>4
  <2> QED
    BY <1>1, <2>1 DEF Body, l
<1> QED
  BY <1>2, <1>3, <1>4

\* The list after the loop over the interfaces.
LEMMA HintsFacts ==
  ASSUME NEW c \in Cfgs, NEW d \in Descs
  PROVE  LET l == AssignHints(c, d)
         IN  /\ l[Len(l)].name = ""
             /\ \A e \in Body(l) : e.name = "!excluded" \/ HintEntry(e, c)
             /\ \A i \in Iface : (Eligible(c[i], d) /\ c[i].hint # -1) =>
                  HintOK(Body(l), c, i, Shl(64 - d.plen))
<1> DEFINE L == Shl(64 - d.plen)
           K == Len(Names)
<1>1. PICK f : HintLoop(f, c, d)
  BY HintsLoop
<1>2. /\ f \in [0 .. K -> Lists0(L)] /\ f[0] = InitialList(d)
      /\ \A n \in 1 .. K : f[n] = AssignHint(c, d, f[n - 1], Names[n])
      /\ AssignHints(c, d) = f[K]
  BY <1>1 DEF HintLoop
<1>3. L \in Int /\ K \in Nat
  BY DescFacts, IfaceFinite
<1>4. /\ \A n \in 1 .. K : Names[n] \in Iface /\ Rank(Names[n]) = n
      /\ \A i \in Iface : Rank(i) \in 1 .. K /\ Names[Rank(i)] = i
  BY RankFacts, IfaceFinite
<1> HIDE DEF L, K
<1> DEFINE P(n) ==
             /\ f[n][Len(f[n])].name = ""
             /\ \A e \in Body(f[n]) : e.name = "!excluded" \/ (HintEntry(e, c) /\ Rank(e.name) <= n)
             /\ \A m \in 1 .. n : (Eligible(c[Names[m]], d) /\ c[Names[m]].hint # -1) =>
                  HintOK(Body(f[n]), c, Names[m], L)
           T == {n \in 0 .. K : P(n)}
<1>5. 0 \in T
  <2>0. f[0][Len(f[0])].name = "" /\ \A e \in Body(f[0]) : e.name = "!excluded"
    BY <1>2, InitialBody
  <2>0a. \A m \in 1 .. 0 : FALSE
    OBVIOUS
  <2>1. P(0)
    BY <2>0, <2>0a, Zenon
  <2> HIDE DEF P
  <2> QED
    BY <1>3, <2>1
<1> HIDE DEF T, P
<1>6. ASSUME NEW n \in 0 .. K, n \in T, n < K PROVE n + 1 \in T
  <2> DEFINE i == Names[n + 1]
             l == f[n]
             r == f[n + 1]
             w == Wanted(c, i)
  <2>1. n + 1 \in 1 .. K /\ n + 1 \in 0 .. K /\ (n + 1) - 1 = n
    BY <1>3, <1>6
  <2>2. l \in Lists0(L) /\ r = AssignHint(c, d, l, i) /\ i \in Iface /\ Rank(i) = n + 1
    BY <1>2, <1>4, <2>1
  <2>3. P(n)
    BY <1>6 DEF T
  <2>4. /\ l[Len(l)].name = ""
        /\ \A e \in Body(l) : e.name = "!excluded" \/ (HintEntry(e, c) /\ Rank(e.name) <= n)
        /\ \A m \in 1 .. n : (Eligible(c[Names[m]], d) /\ c[Names[m]].hint # -1) =>
             HintOK(Body(l), c, Names[m], L)
    BY <2>3 DEF P
  <2>5. /\ \/ r = l
           \/ \E b : Adds(l, r, b) /\ b.name = i /\ Address(b) = Address(w)
        /\ (Eligible(c[i], d) /\ c[i].hint # -1) =>
             \/ \E e \in Body(r) : Address(e) = Address(w)
             \/ w.assigned < 0 \/ w.assigned + Size(w) > L
             \/ \E e \in Body(l) : ~Apart(e, w)
    BY <1>3, <2>2, HintStep
  <2> HIDE DEF l, r
  <2>6. /\ r[Len(r)] = l[Len(l)] /\ Body(l) \subseteq Body(r)
        /\ \A e \in Body(r) : e \in Body(l) \/ (e.name = i /\ Address(e) = Address(w))
    BY <2>5 DEF Adds
  <2>7. ASSUME NEW e \in Body(r) PROVE e.name = "!excluded" \/ (HintEntry(e, c) /\ Rank(e.name) <= n + 1)
    <3>1. CASE e \in Body(l)
      <4>1. HintEntry(e, c) => Rank(e.name) \in 1 .. K
        BY <1>4 DEF HintEntry
      <4>2. \A x \in 1 .. K : x <= n => x <= n + 1
        BY <1>3
      <4> QED
        BY <2>4, <3>1, <4>1, <4>2
    <3>2. CASE e.name = i /\ Address(e) = Address(w)
      BY <1>3, <2>1, <2>2, <3>2 DEF HintEntry
    <3> QED
      BY <2>6, <3>1, <3>2
  <2>8. ASSUME NEW m \in 1 .. (n + 1), Eligible(c[Names[m]], d), c[Names[m]].hint # -1
        PROVE  HintOK(Body(r), c, Names[m], L)
    <3>1. CASE m # n + 1
      <4>1. m \in 1 .. n
        BY <1>3, <3>1
      <4>2. HintOK(Body(l), c, Names[m], L)
        BY <2>4, <2>8, <4>1
      <4> QED
        BY <2>6, <4>2, HintMore
    <3>2. CASE m = n + 1
      <4>1. \/ \E e \in Body(r) : Address(e) = Address(w)
            \/ w.assigned < 0 \/ w.assigned + Size(w) > L
            \/ \E e \in Body(l) : ~Apart(e, w)
        BY <2>5, <2>8, <3>2
      <4>2. ASSUME NEW e \in Body(l), ~Apart(e, w)
            PROVE  e \in Body(r) /\ (e.name = "!excluded" \/ (HintEntry(e, c) /\ Rank(e.name) < Rank(i)))
        <5>1. HintEntry(e, c) => Rank(e.name) \in 1 .. K
          BY <1>4 DEF HintEntry
        <5>2. \A x \in 1 .. K : x <= n => x < n + 1
          BY <1>3
        <5> QED
          BY <2>2, <2>4, <2>6, <5>1, <5>2
      <4>3. HintOK(Body(r), c, i, L)
        BY <4>1, <4>2 DEF HintOK
      <4> QED
        BY <3>2, <4>3
    <3> QED
      BY <3>1, <3>2
  <2>9. P(n + 1)
    BY <2>4, <2>6, <2>7, <2>8 DEF P, r
  <2> QED
    BY <2>1, <2>9 DEF T
<1>7. \A n \in 0 .. K : n \in T
  BY <1>3, <1>5, <1>6, Rounds
<1>8. P(K)
  <2>1. K \in 0 .. K
    BY <1>3
  <2> QED
    BY <1>7, <2>1 DEF T
<1> DEFINE l == f[K]
<1>9. /\ l[Len(l)].name = ""
      /\ \A e \in Body(l) : e.name = "!excluded" \/ HintEntry(e, c)
  BY <1>8 DEF P
<1>10. ASSUME NEW i \in Iface, Eligible(c[i], d), c[i].hint # -1 PROVE HintOK(Body(l), c, i, L)
  <2>1. Rank(i) \in 1 .. K /\ Names[Rank(i)] = i
    BY <1>4
  <2> QED
    BY <1>8, <1>10, <2>1 DEF P
<1> HIDE DEF l
<1> QED
  BY <1>2, <1>9, <1>10 DEF l, L

\* The list r is the full list l, or the list l with an entry of i.
Grown(l, r, i) ==
  \/ r = l /\ Full(l)
  \/ ~Full(l) /\ \E b : Adds(l, r, b) /\ b.name = i

\* One round of the loop over assign_later: the interface gets an entry, if there is a gap.
LEMMA LaterStep ==
  ASSUME NEW c \in Cfgs, NEW d, NEW L \in Int, NEW list \in Lists0(L), NEW i \in Iface, Eligible(c[i], d)
  PROVE  Grown(list, AssignLater(c, list, i), i)
<1> DEFINE a == [Wanted(c, i) EXCEPT !.assigned = -1]
           B(l) == [a EXCEPT !.length = l]
           fits == {l \in a.length .. 64 : interface_prefix_assign(list, B(l)) # None}
           h == AssignLater(c, list, i)
<1>1. h = IF fits = {} THEN list ELSE interface_prefix_assign(list, B(Min(fits)))
  BY DEF AssignLater
<1>2. Asks(Wanted(c, i)) /\ \A l \in 48 .. 64 : Asks(B(l))
  BY WantedAsks
<1>3. a.length \in 48 .. 64 /\ a \in Ent /\ a.name = i /\ a.assigned = -1
  <2>1. Wanted(c, i) \in Ent /\ Wanted(c, i).length \in 48 .. 64 /\ Wanted(c, i).name = i
    BY <1>2, WantedFacts DEF Asks
  <2>2. ASSUME NEW w \in Ent
        PROVE  /\ [w EXCEPT !.assigned = -1] \in Ent /\ [w EXCEPT !.assigned = -1].name = w.name
               /\ [w EXCEPT !.assigned = -1].length = w.length /\ [w EXCEPT !.assigned = -1].assigned = -1
    <3>1. -1 \in Int
      OBVIOUS
    <3> QED
      BY <3>1 DEF Ent
  <2> QED
    BY <2>1, <2>2
<1> HIDE DEF a
<1>4. ASSUME NEW l \in 48 .. 64 PROVE B(l).name = i /\ B(l).assigned = -1 /\ B(l).length = l
  BY <1>3 DEF Ent
<1>5. Good(list, L)
  BY DEF Lists0
<1>6. \A l \in a.length .. 64 : l \in 48 .. 64
  BY <1>3
<1>7. /\ Len(list) \in Nat /\ \A m \in 1 .. Len(list) : list[m].assigned \in Int
      /\ \A m \in 1 .. Len(list) : Gap(list, m) \in Int
  <2>1. Len(list) \in Nat /\ \A m \in 1 .. Len(list) : list[m].assigned \in Int
    BY <1>5, GoodTypes
  <2>2. ASSUME NEW m \in 1 .. Len(list) PROVE Gap(list, m) \in Int
    <3>1. CASE m = 1
      BY <3>1 DEF Gap
    <3>2. CASE m # 1
      <4>1. m - 1 \in 1 .. (Len(list) - 1) /\ m - 1 \in 1 .. Len(list)
        BY <2>1, <3>2
      <4>2. Placeable(list[m - 1], L)
        BY <1>5, <4>1 DEF Good
      <4> QED
        BY <2>1, <3>2, <4>1, <4>2 DEF Gap, Placeable
    <3> QED
      BY <3>1, <3>2
  <2> QED
    BY <2>1, <2>2
<1> HIDE DEF B
<1>8. CASE fits = {}
  <2>1. 64 \in a.length .. 64
    BY <1>3
  <2>2. interface_prefix_assign(list, B(64)) = None
    BY <1>8, <2>1
  <2>3. Asks(B(64)) /\ B(64).assigned = -1 /\ B(64).length = 64
    BY <1>2, <1>4
  <2>4. Size(B(64)) = 1
    <3>1. 64 - 64 \in 0 .. 30 /\ 2 ^ 0 = 1 /\ 64 - 64 = 0
      OBVIOUS
    <3> QED
      BY <2>3, <3>1, ShlFacts DEF Size
  <2>5. \A j \in 1 .. Len(list) : ~Room(list, B(64), j)
    BY <1>5, <2>2, <2>3, AssignAdds
  <2>6. ASSUME NEW j \in 1 .. Len(list) PROVE list[j].assigned <= Gap(list, j)
    <3>1. PlaceIn(list, B(64), j) = Align(Gap(list, j), 1)
      BY <2>3, <2>4 DEF PlaceIn
    <3>2. Align(Gap(list, j), 1) = Gap(list, j)
      BY <1>7 DEF Align
    <3>3. ~Room(list, B(64), j)
      BY <2>5
    <3> QED
      BY <1>7, <2>4, <3>1, <3>2, <3>3 DEF Room
  <2>7. Full(list)
    BY <2>6 DEF Full
  <2> QED
    BY <1>1, <1>8, <2>7 DEF Grown
<1>9. CASE fits # {}
  <2>1. Min(fits) \in fits
    <3>1. fits \in SUBSET Nat
      BY <1>3
    <3> HIDE DEF fits
    <3> QED
      BY <1>9, <3>1, MinIn
  <2> DEFINE b0 == B(Min(fits))
             r == interface_prefix_assign(list, b0)
  <2>2. Min(fits) \in 48 .. 64 /\ r # None /\ h = r
    BY <1>1, <1>6, <1>9, <2>1
  <2>3. Asks(b0) /\ b0.name = i
    <3> HIDE DEF fits
    <3> QED
      BY <1>2, <1>4, <2>2
  <2> HIDE DEF b0, fits, h
  <2>4. PICK j \in 1 .. Len(list), b \in Ent :
           /\ Room(list, b0, j) /\ Adds(list, r, b)
           /\ b.name = b0.name /\ b.length = b0.length /\ b.assigned = PlaceIn(list, b0, j)
    BY <1>5, <2>2, <2>3, AssignAdds
  <2>5. Size(b0) \in Nat /\ Size(b0) > 0 /\ b.assigned \in Int
    BY <2>3, AskSize DEF Asks, Ent
  <2>6. ~Full(list)
    BY <1>7, <2>4, <2>5 DEF Room, Full
  <2>7. Adds(list, h, b) /\ b.name = i
    BY <2>2, <2>3, <2>4
  <2> QED
    BY <2>6, <2>7 DEF h, Grown
<1> QED
  BY <1>8, <1>9

\* The list after the loop over assign_later: who has no entry has come after those who
\* have one, and found the list full.
LEMMA RestFacts ==
  ASSUME NEW c \in Cfgs, NEW d \in Descs, NEW S \in Lists0(Shl(64 - d.plen))
  PROVE  LET l == AssignRest(c, d, S)
         IN  /\ l[Len(l)] = S[Len(S)] /\ Body(S) \subseteq Body(l)
             /\ \A i \in Later(c, d, S) :
                  \/ i \in Served(l)
                  \/ /\ Full(l)
                     /\ \A e \in Body(l) : e \in Body(S) \/ prefix_assignment_cmp(c, e.name, i)
<1> DEFINE L == Shl(64 - d.plen)
           rest == Later(c, d, S)
           K == Cardinality(rest)
           q(n) == Nth(c, rest, n)
<1>1. PICK f : RestLoop(f, c, d, S)
  BY RestsLoop
<1>2. /\ f \in [0 .. K -> Lists0(L)] /\ f[0] = S
      /\ \A n \in 1 .. K : f[n] = AssignLater(c, f[n - 1], q(n))
      /\ AssignRest(c, d, S) = f[K]
  BY <1>1 DEF RestLoop
<1>3. L \in Int /\ K \in Nat
  BY DescFacts, LaterFinite
<1>4. rest \in SUBSET Iface /\ \A i \in rest : Eligible(c[i], d) /\ c[i] # None
  BY DEF Later, Eligible
<1> HIDE DEF L, K, rest
<1>5. /\ \A n \in 1 .. K : q(n) \in rest
      /\ \A i \in rest : \E n \in 1 .. K : q(n) = i
      /\ \A m, n \in 1 .. K : m < n => prefix_assignment_cmp(c, q(m), q(n))
  <2>1. \A i \in rest : IsOption(c[i])
    BY <1>4, CfgFacts
  <2> QED
    BY <1>4, <2>1, NthFacts DEF K
<1> HIDE DEF q
<1> DEFINE Old(n, m) == \A e \in Body(f[n]) : e \in Body(S) \/ \E x \in 1 .. K : x < m /\ e.name = q(x)
           P(n) == /\ f[n][Len(f[n])] = S[Len(S)] /\ Body(S) \subseteq Body(f[n])
                   /\ Old(n, n + 1)
                   /\ \A m \in 1 .. n : q(m) \in Served(f[n]) \/ (Full(f[n]) /\ Old(n, m))
           T == {n \in 0 .. K : P(n)}
<1>6. 0 \in T
  <2>1. \A m \in 1 .. 0 : FALSE
    OBVIOUS
  <2>2. Old(0, 0 + 1)
    BY <1>2
  <2> HIDE DEF Old
  <2>3. P(0)
    BY <1>2, <2>1, <2>2
  <2> HIDE DEF P
  <2> QED
    BY <1>3, <2>3
<1> HIDE DEF T, P
<1>7. ASSUME NEW n \in 0 .. K, n \in T, n < K PROVE n + 1 \in T
  <2> DEFINE i == q(n + 1)
             l == f[n]
             r == f[n + 1]
  <2>1. n + 1 \in 1 .. K /\ n + 1 \in 0 .. K /\ (n + 1) - 1 = n /\ n \in Nat
    BY <1>3, <1>7
  <2>2. l \in Lists0(L) /\ r = AssignLater(c, l, i) /\ i \in Iface /\ Eligible(c[i], d)
    BY <1>2, <1>4, <1>5, <2>1
  <2>3. P(n)
    BY <1>7 DEF T
  <2>4. /\ l[Len(l)] = S[Len(S)] /\ Body(S) \subseteq Body(l)
        /\ Old(n, n + 1)
        /\ \A m \in 1 .. n : q(m) \in Served(l) \/ (Full(l) /\ Old(n, m))
    BY <2>3 DEF P
  <2>5. \/ r = l /\ Full(l)
        \/ ~Full(l) /\ \E b : Adds(l, r, b) /\ b.name = i
    <3> HIDE DEF l, r, i
    <3>1. Grown(l, AssignLater(c, l, i), i)
      BY <1>3, <2>2, LaterStep
    <3> QED
      BY <2>2, <3>1 DEF Grown
  <2>6. CASE r = l /\ Full(l)
    <3>1. f[n + 1] = f[n]
      BY <2>6
    <3>2. ASSUME NEW m, Old(n, m) PROVE Old(n + 1, m)
      BY <3>1, <3>2
    <3>3. Old(n + 1, (n + 1) + 1)
      <4>1. \A x \in 1 .. K : x < n + 1 => x < (n + 1) + 1
        BY <2>1
      <4> QED
        BY <2>4, <3>1, <4>1
    <3>4. ASSUME NEW m \in 1 .. (n + 1) PROVE q(m) \in Served(r) \/ (Full(r) /\ Old(n + 1, m))
      <4>1. m \in 1 .. n \/ m = n + 1
        BY <2>1
      <4> HIDE DEF Old
      <4> QED
        BY <2>4, <2>6, <3>2, <4>1
    <3> HIDE DEF Old
    <3> QED
      BY <2>1, <2>4, <2>6, <3>3, <3>4 DEF P, T
  <2>7. CASE ~Full(l) /\ \E b : Adds(l, r, b) /\ b.name = i
    <3>1. PICK b : Adds(l, r, b) /\ b.name = i
      BY <2>7
    <3> HIDE DEF l, r
    <3>2. /\ r[Len(r)] = l[Len(l)] /\ Body(l) \subseteq Body(r) /\ b \in Body(r)
          /\ \A e \in Body(r) : e \in Body(l) \/ e.name = i
      BY <3>1 DEF Adds
    <3>3. Old(n + 1, (n + 1) + 1)
      <4>1. \A x \in 1 .. K : x < n + 1 => x < (n + 1) + 1
        BY <2>1
      <4>2. n + 1 \in 1 .. K /\ n + 1 < (n + 1) + 1
        BY <2>1
      <4>3. \A e \in Body(l) : e \in Body(S) \/ \E x \in 1 .. K : x < n + 1 /\ e.name = q(x)
        BY <2>4 DEF l
      <4>4. ASSUME NEW e \in Body(r)
            PROVE  e \in Body(S) \/ \E x \in 1 .. K : x < (n + 1) + 1 /\ e.name = q(x)
        BY <3>2, <4>1, <4>2, <4>3
      <4> QED
        BY <4>4 DEF r
    <3> HIDE DEF Old
    <3>4. ASSUME NEW m \in 1 .. (n + 1) PROVE q(m) \in Served(r)
      <4>1. m \in 1 .. n \/ m = n + 1
        BY <2>1
      <4>2. Served(l) \subseteq Served(r) /\ i \in Served(r)
        BY <3>1, <3>2 DEF Served
      <4> QED
        BY <2>4, <2>7, <4>1, <4>2
    <3> QED
      BY <2>1, <2>4, <3>2, <3>3, <3>4 DEF P, T, r
  <2> QED
    BY <2>5, <2>6, <2>7
<1>8. \A n \in 0 .. K : n \in T
  BY <1>3, <1>6, <1>7, Rounds
<1>9. P(K)
  <2>1. K \in 0 .. K
    BY <1>3
  <2> QED
    BY <1>8, <2>1 DEF T
<1> DEFINE l == f[K]
<1>10. l[Len(l)] = S[Len(S)] /\ Body(S) \subseteq Body(l)
  BY <1>9 DEF P
<1>11. ASSUME NEW i \in rest, i \notin Served(l)
       PROVE  /\ Full(l)
              /\ \A e \in Body(l) : e \in Body(S) \/ prefix_assignment_cmp(c, e.name, i)
  <2>1. PICK m \in 1 .. K : q(m) = i
    BY <1>5
  <2>2. Full(l) /\ Old(K, m)
    BY <1>9, <1>11, <2>1 DEF P
  <2> QED
    BY <1>5, <2>1, <2>2
<1> HIDE DEF l
<1> QED
  BY <1>2, <1>10, <1>11 DEF l, rest

\* An interface with the options o asks for a subprefix of a prefix of a class.
AsksOf(o, class) == o # None /\ o.len \in 48 .. 64 /\ (o.class = {} \/ class \in o.class)

\* A list, made with the options c for a prefix of a class, keeps the hints it can; it is
\* full if an interface is left out, and those it prefers to that one come before it.
FairList(l, c, class, L) ==
  /\ l[Len(l)].name = ""
  /\ \A i \in Iface : (AsksOf(c[i], class) /\ c[i].hint # -1) => HintOK(Body(l), c, i, L)
  /\ \A i \in Iface : (AsksOf(c[i], class) /\ i \notin Served(l)) =>
       /\ Full(l)
       /\ \A e \in Body(l) : e.name \in Iface =>
            e.assigned = Wanted(c, e.name).assigned \/ prefix_assignment_cmp(c, e.name, i)

\* The list of every prefix for every set of options is fair.
LEMMA AssignedFair ==
  ASSUME NEW d \in Descs, NEW c \in Cfgs
  PROVE  FairList(Assigned[<<d, c>>], c, d.class, Shl(64 - d.plen))
<1> DEFINE L == Shl(64 - d.plen)
           S == AssignHints(c, d)
           l == AssignRest(c, d, S)
<1>1. Assigned[<<d, c>>] = l
  BY DEF Assigned
<1>2. S \in Lists0(L)
  <2>1. PICK f : HintLoop(f, c, d)
    BY HintsLoop
  <2>2. Len(Names) \in 0 .. Len(Names)
    BY IfaceFinite
  <2> QED
    BY <2>1, <2>2 DEF HintLoop
<1>3. /\ S[Len(S)].name = ""
      /\ \A e \in Body(S) : e.name = "!excluded" \/ HintEntry(e, c)
      /\ \A i \in Iface : (Eligible(c[i], d) /\ c[i].hint # -1) => HintOK(Body(S), c, i, L)
  BY HintsFacts
<1> HIDE DEF S
<1>4. /\ l[Len(l)] = S[Len(S)] /\ Body(S) \subseteq Body(l)
      /\ \A i \in Later(c, d, S) :
           \/ i \in Served(l)
           \/ /\ Full(l)
              /\ \A e \in Body(l) : e \in Body(S) \/ prefix_assignment_cmp(c, e.name, i)
  BY <1>2, RestFacts
<1> HIDE DEF l, L
<1>5. \A i : AsksOf(c[i], d.class) <=> Eligible(c[i], d)
  BY DEF AsksOf, Eligible
<1>6. ASSUME NEW i \in Iface, AsksOf(c[i], d.class), c[i].hint # -1 PROVE HintOK(Body(l), c, i, L)
  <2>1. HintOK(Body(S), c, i, L)
    BY <1>3, <1>5, <1>6
  <2> QED
    BY <1>4, <2>1, HintMore
<1>7. ASSUME NEW i \in Iface, AsksOf(c[i], d.class), i \notin Served(l)
      PROVE  /\ Full(l)
             /\ \A e \in Body(l) : e.name \in Iface =>
                  e.assigned = Wanted(c, e.name).assigned \/ prefix_assignment_cmp(c, e.name, i)
  <2>1. i \notin Placed(S)
    <3> SUFFICES ASSUME NEW j \in DOMAIN S, S[j].name = i PROVE FALSE
      BY DEF Placed
    <3>1. DOMAIN S = 1 .. Len(S) /\ Len(S) \in Nat
      BY <1>2 DEF Lists0
    <3>2. i # ""
      BY PrefixAssumption
    <3>2a. j # Len(S)
      BY <1>3, <3>2
    <3>3. j \in 1 .. (Len(S) - 1)
      BY <3>1, <3>2a
    <3>4. S[j] \in Body(l)
      BY <1>4, <3>3 DEF Body
    <3> QED
      BY <1>7, <3>4 DEF Served
  <2>2. i \in Later(c, d, S)
    BY <1>5, <1>7, <2>1 DEF Later
  <2>3. Full(l) /\ \A e \in Body(l) : e \in Body(S) \/ prefix_assignment_cmp(c, e.name, i)
    BY <1>4, <1>7, <2>2
  <2>4. ASSUME NEW e \in Body(S), e.name \in Iface PROVE e.assigned = Wanted(c, e.name).assigned
    <3>1. e.name # "!excluded"
      BY <2>4, PrefixAssumption
    <3>2. Address(e) = Address(Wanted(c, e.name))
      BY <1>3, <3>1 DEF HintEntry
    <3> QED
      BY <3>2 DEF Address
  <2> QED
    BY <2>3, <2>4
<1>8. l[Len(l)].name = ""
  BY <1>3, <1>4
<1>9. FairList(l, c, d.class, L)
  BY <1>6, <1>7, <1>8 DEF FairList
<1> QED
  BY <1>1, <1>9 DEF L

-----------------------------------------------------------------------------
(***************************************************************************)
(* Entries and the addresses of interfaces.                                *)
(***************************************************************************)
IfState == {"down", "up", "lost", "teardown"}
Addr == (Iface \cup {"", "!excluded"}) \X Int \X (0 .. 64)
PRec ==
  [exists : BOOLEAN, plen : 1 .. 64, excl : Exc, class : Class, left : {None} \cup Int,
   listed : BOOLEAN, asg : Seq(Ent), basis : {None} \cup Basis, addrs : SUBSET Addr,
   null : BOOLEAN]

\* Two lists with the same places.
SamePlaces(a, b) ==
  /\ DOMAIN b = DOMAIN a
  /\ \A j \in DOMAIN a :
       b[j].name = a[j].name /\ b[j].assigned = a[j].assigned /\ b[j].length = a[j].length

\* Two prefixes that differ in nothing but addresses.
SameButAddresses(p, q) ==
  /\ q.exists = p.exists /\ q.plen = p.plen /\ q.excl = p.excl /\ q.class = p.class
  /\ q.left = p.left /\ q.listed = p.listed /\ q.basis = p.basis /\ q.null = p.null
  /\ SamePlaces(p.asg, q.asg)

\* The addresses in the kernel are those of the enabled entries.
AddrOK(p) ==
  p.addrs = {Address(p.asg[j]) : j \in {n \in DOMAIN p.asg : p.asg[n].enabled}}

\* An interface with an address is there and has a device.
EnabledOK(p, c, s) ==
  \A j \in DOMAIN p.asg : p.asg[j].enabled =>
    p.asg[j].name \in Iface /\ c[p.asg[j].name] # None /\ HasL3(s[p.asg[j].name])

\* The interfaces in a set that are there and in one of some states.
Within(name, c, s, names, states) == name \in names /\ c[name] # None /\ s[name] \in states

\* An entry is still an entry when its address comes or goes.
LEMMA EntEnabled ==
  ASSUME NEW e \in Ent, NEW x \in BOOLEAN
  PROVE  /\ [e EXCEPT !.enabled = x] \in Ent /\ [e EXCEPT !.enabled = x].enabled = x
         /\ [e EXCEPT !.enabled = x].name = e.name /\ [e EXCEPT !.enabled = x].assigned = e.assigned
         /\ [e EXCEPT !.enabled = x].length = e.length
         /\ Address([e EXCEPT !.enabled = x]) = Address(e)
  BY DEF Ent, Address

\* A list is good by its places alone.
LEMMA GoodSame ==
  ASSUME NEW L, NEW a, Good(a, L), NEW b \in Seq(Ent), SamePlaces(a, b)
  PROVE  Good(b, L)
<1>1. a \in Seq(Ent) /\ Len(a) \in Nat /\ DOMAIN a = 1 .. Len(a) /\ DOMAIN b = 1 .. Len(b) /\ Len(b) \in Nat
  BY DEF Good
<1>2. Len(b) = Len(a)
  BY <1>1 DEF SamePlaces
<1>3. \A j \in 1 .. Len(a) : /\ b[j].name = a[j].name /\ b[j].assigned = a[j].assigned
                             /\ b[j].length = a[j].length /\ Size(b[j]) = Size(a[j])
  BY <1>1 DEF SamePlaces, Size
<1>4. \A j \in 1 .. (Len(a) - 1) : j \in 1 .. Len(a)
  BY <1>1
<1>5. ASSUME NEW j \in 1 .. (Len(a) - 1) PROVE Placeable(b[j], L)
  <2>1. Placeable(a[j], L)
    BY DEF Good
  <2>2. /\ b[j].name = a[j].name /\ b[j].assigned = a[j].assigned
        /\ Size(b[j]) = Size(a[j])
    BY <1>3, <1>4
  <2> QED
    BY <2>1, <2>2 DEF Placeable
<1>6. \A j, n \in 1 .. (Len(a) - 1) : j < n => b[j].assigned + Size(b[j]) <= b[n].assigned
  BY <1>3, <1>4 DEF Good
<1>7. b[Len(b)].assigned = L /\ Len(b) >= 1
  <2>1. Len(a) \in 1 .. Len(a) /\ a[Len(a)].assigned = L /\ Len(a) >= 1
    BY <1>1 DEF Good
  <2> QED
    BY <1>2, <1>3, <2>1
<1> QED
  BY <1>2, <1>5, <1>6, <1>7 DEF Good

\* A list is fair by its places alone.
LEMMA FairSame ==
  ASSUME NEW L, NEW M, NEW a, Good(a, M), NEW b \in Seq(Ent), SamePlaces(a, b), NEW c, NEW class,
         FairList(a, c, class, L)
  PROVE  FairList(b, c, class, L)
<1>1. a \in Seq(Ent) /\ Len(a) \in Nat /\ Len(a) >= 1 /\ DOMAIN a = 1 .. Len(a) /\ DOMAIN b = 1 .. Len(b) /\ Len(b) \in Nat
  BY DEF Good
<1>2. Len(b) = Len(a)
  BY <1>1 DEF SamePlaces
<1>3. \A j \in 1 .. Len(a) :
        /\ b[j].name = a[j].name /\ b[j].assigned = a[j].assigned
        /\ Size(b[j]) = Size(a[j]) /\ Address(b[j]) = Address(a[j])
  BY <1>1 DEF SamePlaces, Size, Address
<1>4. \A j \in 1 .. (Len(a) - 1) : j \in 1 .. Len(a)
  BY <1>1
<1> DEFINE Same(e, x) == x.name = e.name /\ x.assigned = e.assigned /\ Size(x) = Size(e) /\ Address(x) = Address(e)
<1>5. \A e \in Body(a) : \E x \in Body(b) : Same(e, x)
  BY <1>2, <1>3, <1>4 DEF Body
<1>6. \A x \in Body(b) : \E e \in Body(a) : Same(e, x)
  BY <1>2, <1>3, <1>4 DEF Body
<1>7. b[Len(b)].name = ""
  <2>1. a[Len(a)].name = ""
    BY DEF FairList
  <2>2. Len(a) \in 1 .. Len(a)
    BY <1>1
  <2> QED
    BY <1>2, <1>3, <2>1, <2>2
<1>8. ASSUME NEW i, HintOK(Body(a), c, i, L) PROVE HintOK(Body(b), c, i, L)
  <2> DEFINE w == Wanted(c, i)
  <2>1. CASE \E e \in Body(a) : Address(e) = Address(w)
    BY <1>5, <2>1 DEF HintOK
  <2>2. CASE w.assigned < 0 \/ w.assigned + Size(w) > L
    BY <2>2 DEF HintOK
  <2>3. CASE \E e \in Body(a) : /\ e.name = "!excluded" \/ (HintEntry(e, c) /\ Rank(e.name) < Rank(i))
                                /\ ~Apart(e, w)
    <3>1. PICK e \in Body(a) : /\ e.name = "!excluded" \/ (HintEntry(e, c) /\ Rank(e.name) < Rank(i))
                               /\ ~Apart(e, w)
      BY <2>3
    <3>2. PICK x \in Body(b) : Same(e, x)
      BY <1>5
    <3>3. HintEntry(e, c) => HintEntry(x, c)
      BY <3>2 DEF HintEntry
    <3>4. ~Apart(x, w)
      BY <3>1, <3>2 DEF Apart
    <3> QED
      BY <3>1, <3>2, <3>3, <3>4 DEF HintOK
  <2> QED
    BY <1>8, <2>1, <2>2, <2>3 DEF HintOK
<1>9. Served(b) = Served(a)
  BY <1>5, <1>6 DEF Served
<1>10. Full(a) => Full(b)
  <2> SUFFICES ASSUME Full(a), NEW j \in 1 .. Len(b) PROVE b[j].assigned <= Gap(b, j)
    BY DEF Full
  <2>1. a[j].assigned <= Gap(a, j) /\ b[j].assigned = a[j].assigned
    BY <1>2, <1>3 DEF Full
  <2>2. Gap(b, j) = Gap(a, j)
    <3>1. CASE j = 1
      BY <3>1 DEF Gap
    <3>2. CASE j # 1
      <4>1. j - 1 \in 1 .. Len(a)
        BY <1>1, <1>2, <3>2
      <4> QED
        BY <1>3, <3>2, <4>1 DEF Gap
    <3> QED
      BY <3>1, <3>2
  <2> QED
    BY <2>1, <2>2
<1>11. ASSUME NEW i \in Iface, AsksOf(c[i], class), i \notin Served(b)
       PROVE  /\ Full(b)
              /\ \A e \in Body(b) : e.name \in Iface =>
                   e.assigned = Wanted(c, e.name).assigned \/ prefix_assignment_cmp(c, e.name, i)
  <2>1. /\ Full(a)
        /\ \A e \in Body(a) : e.name \in Iface =>
             e.assigned = Wanted(c, e.name).assigned \/ prefix_assignment_cmp(c, e.name, i)
    BY <1>9, <1>11 DEF FairList
  <2> QED
    BY <1>6, <1>10, <2>1
<1> QED
  BY <1>7, <1>8, <1>11 DEF FairList

\* The addresses of two lists with the same places.
LEMMA PlacesSame ==
  ASSUME NEW a, NEW b, SamePlaces(a, b)
  PROVE  {Address(a[j]) : j \in DOMAIN a} = {Address(b[j]) : j \in DOMAIN b}
<1>1. ASSUME NEW j \in DOMAIN a PROVE Address(b[j]) = Address(a[j])
  <2>1. b[j].name = a[j].name /\ b[j].assigned = a[j].assigned /\ b[j].length = a[j].length
    BY DEF SamePlaces
  <2> QED
    BY <2>1 DEF Address
<1>2. DOMAIN b = DOMAIN a
  BY DEF SamePlaces
<1> QED
  BY <1>1, <1>2

\* interface_set_prefix_address() for the entries of some interfaces: the addresses
\* that go.
LEMMA DelFacts ==
  ASSUME NEW p \in PRec, AddrOK(p), NEW c, NEW s, NEW names
  PROVE  LET q == DelAddresses(p, c, s, names)
         IN  /\ q \in PRec /\ AddrOK(q) /\ SameButAddresses(p, q)
             /\ \A j \in DOMAIN p.asg :
                  q.asg[j].enabled <=> /\ p.asg[j].enabled
                                       /\ ~Within(p.asg[j].name, c, s, names, {"lost", "up", "teardown"})
<1> DEFINE hit(a) == a.name \in names /\ c[a.name] # None /\ HasL3(s[a.name]) /\ a.enabled
           asg == [j \in DOMAIN p.asg |->
                     IF hit(p.asg[j]) THEN [p.asg[j] EXCEPT !.enabled = FALSE] ELSE p.asg[j]]
           addrs == p.addrs \ {Address(p.asg[j]) : j \in {n \in DOMAIN p.asg : hit(p.asg[n])}}
           q == DelAddresses(p, c, s, names)
<1>1. q = [p EXCEPT !.asg = asg, !.addrs = addrs]
  BY DEF DelAddresses
<1>2. p.asg \in Seq(Ent) /\ p.addrs \in SUBSET Addr
  BY DEF PRec
<1>3. /\ DOMAIN p.asg = 1 .. Len(p.asg) /\ Len(p.asg) \in Nat
      /\ \A j \in DOMAIN p.asg : p.asg[j] \in Ent
  BY <1>2
<1>4. ASSUME NEW j \in DOMAIN p.asg
      PROVE  /\ asg[j] \in Ent /\ asg[j].name = p.asg[j].name /\ asg[j].assigned = p.asg[j].assigned
             /\ asg[j].length = p.asg[j].length /\ Address(asg[j]) = Address(p.asg[j])
             /\ asg[j].enabled <=> p.asg[j].enabled /\ ~hit(p.asg[j])
  <2>1. p.asg[j] \in Ent
    BY <1>3
  <2>2. CASE hit(p.asg[j])
    <3>1. asg[j] = [p.asg[j] EXCEPT !.enabled = FALSE]
      BY <2>2
    <3> HIDE DEF asg
    <3> QED
      BY <2>1, <2>2, <3>1, EntEnabled
  <2>3. CASE ~hit(p.asg[j])
    <3>1. asg[j] = p.asg[j]
      BY <2>3
    <3> HIDE DEF asg, hit
    <3> QED
      BY <2>1, <2>3, <3>1
  <2> QED
    BY <2>2, <2>3
<1>5. DOMAIN asg = DOMAIN p.asg
  OBVIOUS
<1>6. asg \in Seq(Ent)
  <2>1. asg \in [1 .. Len(p.asg) -> Ent]
    <3> HIDE DEF hit
    <3> QED
      BY <1>3, <1>4
  <2> HIDE DEF asg
  <2> QED
    BY <1>3, <2>1
<1>7. addrs \in SUBSET Addr
  BY <1>2
<1>8. addrs = {Address(asg[j]) : j \in {n \in DOMAIN asg : asg[n].enabled}}
  <2>1. ASSUME NEW x \in addrs PROVE \E n \in DOMAIN asg : asg[n].enabled /\ x = Address(asg[n])
    <3>1. PICK n \in DOMAIN p.asg : p.asg[n].enabled /\ x = Address(p.asg[n])
      BY <2>1 DEF AddrOK
    <3>2. ~hit(p.asg[n])
      BY <2>1, <3>1
    <3> HIDE DEF asg, hit
    <3> QED
      BY <1>4, <1>5, <3>1, <3>2
  <2>2. ASSUME NEW n \in DOMAIN asg, asg[n].enabled PROVE Address(asg[n]) \in addrs
    <3>1. n \in DOMAIN p.asg /\ p.asg[n].enabled /\ ~hit(p.asg[n]) /\ Address(asg[n]) = Address(p.asg[n])
      <4> HIDE DEF asg, hit
      <4> QED
        BY <1>4, <1>5, <2>2
    <3>2. Address(p.asg[n]) \in p.addrs
      BY <3>1 DEF AddrOK
    <3>3. ASSUME NEW m \in DOMAIN p.asg, hit(p.asg[m]), Address(p.asg[m]) = Address(p.asg[n]) PROVE FALSE
      <4>1. p.asg[m].name = p.asg[n].name
        BY <3>3 DEF Address
      <4> QED
        BY <3>1, <3>3, <4>1
    <3> HIDE DEF asg, hit
    <3> QED
      BY <3>1, <3>2, <3>3
  <2> HIDE DEF asg, addrs
  <2> QED
    BY <2>1, <2>2
<1>9. \A j \in DOMAIN p.asg : hit(p.asg[j]) <=>
         p.asg[j].enabled /\ Within(p.asg[j].name, c, s, names, {"lost", "up", "teardown"})
  BY DEF Within, HasL3
<1> HIDE DEF asg, addrs, hit, q
<1>10. q \in PRec /\ q.asg = asg /\ q.addrs = addrs
  BY <1>1, <1>6, <1>7 DEF PRec
<1>11. /\ q.exists = p.exists /\ q.plen = p.plen /\ q.excl = p.excl /\ q.class = p.class
       /\ q.left = p.left /\ q.listed = p.listed /\ q.basis = p.basis /\ q.null = p.null
  BY <1>1 DEF PRec
<1>12. SamePlaces(p.asg, q.asg)
  BY <1>4, <1>5, <1>10 DEF SamePlaces
<1>13. AddrOK(q)
  BY <1>8, <1>10 DEF AddrOK
<1>14. \A j \in DOMAIN p.asg :
         q.asg[j].enabled <=> /\ p.asg[j].enabled
                              /\ ~Within(p.asg[j].name, c, s, names, {"lost", "up", "teardown"})
  BY <1>4, <1>9, <1>10
<1> QED
  BY <1>10, <1>11, <1>12, <1>13, <1>14 DEF SameButAddresses, q

\* The same for the addresses that come.
LEMMA AddFacts ==
  ASSUME NEW p \in PRec, AddrOK(p), NEW c, NEW s, NEW names
  PROVE  LET q == AddAddresses(p, c, s, names)
         IN  /\ q \in PRec /\ AddrOK(q) /\ SameButAddresses(p, q)
             /\ \A j \in DOMAIN p.asg :
                  q.asg[j].enabled <=> \/ p.asg[j].enabled
                                       \/ Within(p.asg[j].name, c, s, names, {"lost", "up"})
<1> DEFINE hit(a) == a.name \in names /\ c[a.name] # None /\ s[a.name] \in {"lost", "up"}
           asg == [j \in DOMAIN p.asg |->
                     IF hit(p.asg[j]) THEN [p.asg[j] EXCEPT !.enabled = TRUE] ELSE p.asg[j]]
           addrs == p.addrs \cup {Address(p.asg[j]) : j \in {n \in DOMAIN p.asg : hit(p.asg[n])}}
           q == AddAddresses(p, c, s, names)
<1>1. q = [p EXCEPT !.asg = asg, !.addrs = addrs]
  BY DEF AddAddresses
<1>2. p.asg \in Seq(Ent) /\ p.addrs \in SUBSET Addr
  BY DEF PRec
<1>3. /\ DOMAIN p.asg = 1 .. Len(p.asg) /\ Len(p.asg) \in Nat
      /\ \A j \in DOMAIN p.asg : p.asg[j] \in Ent
  BY <1>2
<1>4. ASSUME NEW j \in DOMAIN p.asg
      PROVE  /\ asg[j] \in Ent /\ asg[j].name = p.asg[j].name /\ asg[j].assigned = p.asg[j].assigned
             /\ asg[j].length = p.asg[j].length /\ Address(asg[j]) = Address(p.asg[j])
             /\ asg[j].enabled <=> p.asg[j].enabled \/ hit(p.asg[j])
  <2>1. p.asg[j] \in Ent
    BY <1>3
  <2>2. CASE hit(p.asg[j])
    <3>1. asg[j] = [p.asg[j] EXCEPT !.enabled = TRUE]
      BY <2>2
    <3> HIDE DEF asg
    <3> QED
      BY <2>1, <2>2, <3>1, EntEnabled
  <2>3. CASE ~hit(p.asg[j])
    <3>1. asg[j] = p.asg[j]
      BY <2>3
    <3> HIDE DEF asg, hit
    <3> QED
      BY <2>1, <2>3, <3>1
  <2> QED
    BY <2>2, <2>3
<1>5. DOMAIN asg = DOMAIN p.asg
  OBVIOUS
<1>6. asg \in Seq(Ent)
  <2>1. asg \in [1 .. Len(p.asg) -> Ent]
    <3> HIDE DEF hit
    <3> QED
      BY <1>3, <1>4
  <2> HIDE DEF asg
  <2> QED
    BY <1>3, <2>1
<1>7. \A j \in DOMAIN p.asg : Address(p.asg[j]) \in Addr
  <2>1. \A e \in Ent : Address(e) \in Addr
    BY DEF Ent, Address, Addr
  <2> HIDE DEF asg, addrs, hit
  <2> QED
    BY <1>3, <2>1
<1>7a. addrs \in SUBSET Addr
  BY <1>2, <1>7
<1>8. addrs = {Address(asg[j]) : j \in {n \in DOMAIN asg : asg[n].enabled}}
  <2>1. ASSUME NEW x \in addrs PROVE \E n \in DOMAIN asg : asg[n].enabled /\ x = Address(asg[n])
    <3>1. PICK n \in DOMAIN p.asg : (p.asg[n].enabled \/ hit(p.asg[n])) /\ x = Address(p.asg[n])
      BY <2>1 DEF AddrOK
    <3> HIDE DEF asg, hit
    <3> QED
      BY <1>4, <1>5, <3>1
  <2>2. ASSUME NEW n \in DOMAIN asg, asg[n].enabled PROVE Address(asg[n]) \in addrs
    <3>1. n \in DOMAIN p.asg /\ (p.asg[n].enabled \/ hit(p.asg[n])) /\ Address(asg[n]) = Address(p.asg[n])
      <4> HIDE DEF asg, hit
      <4> QED
        BY <1>4, <1>5, <2>2
    <3>2. p.asg[n].enabled => Address(p.asg[n]) \in p.addrs
      BY <3>1 DEF AddrOK
    <3> HIDE DEF asg, hit
    <3> QED
      BY <3>1, <3>2
  <2> HIDE DEF asg, addrs
  <2> QED
    BY <2>1, <2>2
<1>9. \A j \in DOMAIN p.asg : hit(p.asg[j]) <=>
         Within(p.asg[j].name, c, s, names, {"lost", "up"})
  BY DEF Within
<1> HIDE DEF asg, addrs, hit, q
<1>10. q \in PRec /\ q.asg = asg /\ q.addrs = addrs
  BY <1>1, <1>6, <1>7a DEF PRec
<1>11. /\ q.exists = p.exists /\ q.plen = p.plen /\ q.excl = p.excl /\ q.class = p.class
       /\ q.left = p.left /\ q.listed = p.listed /\ q.basis = p.basis /\ q.null = p.null
  BY <1>1 DEF PRec
<1>12. SamePlaces(p.asg, q.asg)
  BY <1>4, <1>5, <1>10 DEF SamePlaces
<1>13. AddrOK(q)
  BY <1>8, <1>10 DEF AddrOK
<1>14. \A j \in DOMAIN p.asg :
         q.asg[j].enabled <=> \/ p.asg[j].enabled
                              \/ Within(p.asg[j].name, c, s, names, {"lost", "up"})
  BY <1>4, <1>9, <1>10
<1> QED
  BY <1>10, <1>11, <1>12, <1>13, <1>14 DEF SameButAddresses, q
-----------------------------------------------------------------------------
(***************************************************************************)
(* The inductive invariant.                                                *)
(***************************************************************************)
\* An interface that is up has its addresses.
UpOK(p, c, s) ==
  (p.listed /\ Valid(p)) =>
    \A j \in DOMAIN p.asg : Within(p.asg[j].name, c, s, Iface, {"up"}) => p.asg[j].enabled

\* A prefix is what it was announced as, and is listed unless the uplink is not to
\* delegate.
KnownOK(k, p, nd) ==
  /\ p.null = p.exists
  /\ ~p.exists => p = NoPrefix
  /\ p.exists => /\ p.plen = k[2] /\ Desc(p) \in Descs
                 /\ p.listed = (k \in PdKey => ~nd)

\* The assignments are made by good and fair lists, from options that are still in force.
BasisOK(p, c, rf) ==
  /\ ~p.listed => p.basis = None
  /\ p.basis = None => p.asg = <<>>
  /\ p.basis # None =>
       /\ Good(p.asg, Shl(64 - p.plen))
       /\ FairList(p.asg, p.basis.cfg, p.basis.class, Shl(64 - p.plen))
       /\ \A i \in p.basis.same : p.basis.cfg[i] # None =>
            c[i] # None /\ (~rf => p.basis.cfg[i] = c[i])

\* The invariant of one prefix, with the options c and the states s of the interfaces,
\* nd: no delegation, rf: a refresh is due.
PI(k, p, c, s, nd, rf) ==
  /\ p \in PRec /\ AddrOK(p) /\ EnabledOK(p, c, s) /\ UpOK(p, c, s)
  /\ KnownOK(k, p, nd) /\ BasisOK(p, c, rf)

\* What the interfaces, their options and the flags may be.
States(c, s, d, r) ==
  /\ c \in Cfgs /\ s \in [Iface -> IfState]
  /\ d \subseteq Iface /\ r \subseteq {i \in Iface : s[i] = "teardown"}
  /\ \A i \in Iface : c[i] = None => s[i] = "down" /\ i \notin d

\* There is one ULA prefix at most.
OneUla(f) == \A l, m \in Ulas \ {None} : f[Ula(l)].exists /\ f[Ula(m)].exists => l = m

\* The inductive invariant.
Inv ==
  /\ States(cfg, st, dyn, removing)
  /\ wan \in BOOLEAN /\ no_delegation \in BOOLEAN /\ refresh \in BOOLEAN
  /\ \A k \in Key : PI(k, prefix[k], cfg, st, no_delegation, refresh)
  /\ OneUla(prefix)


\* Two prefixes that differ in assignments and addresses.
SameFields(p, q) ==
  /\ q.exists = p.exists /\ q.plen = p.plen /\ q.excl = p.excl /\ q.class = p.class
  /\ q.left = p.left /\ q.listed = p.listed /\ q.null = p.null

\* A list with other assignments; nothing is in the kernel.
LEMMA Replaced ==
  ASSUME NEW p \in PRec, p.addrs = {}, NEW l \in Seq(Ent), Fresh(l), NEW b \in {None} \cup Basis
  PROVE  LET q == [p EXCEPT !.asg = l, !.basis = b]
         IN  /\ q \in PRec /\ AddrOK(q) /\ SameFields(p, q) /\ q.asg = l /\ q.basis = b
             /\ q.addrs = {}
<1> DEFINE q == [p EXCEPT !.asg = l, !.basis = b]
<1>1. q \in PRec /\ SameFields(p, q) /\ q.asg = l /\ q.basis = b /\ q.addrs = {}
  BY DEF PRec, SameFields
<1>2. \A j \in DOMAIN l : ~l[j].enabled
  BY DEF Fresh
<1> HIDE DEF q
<1>3. AddrOK(q)
  BY <1>1, <1>2 DEF AddrOK
<1> QED
  BY <1>1, <1>3 DEF q

\* interface_update_prefix_assignments() takes every address out of the kernel before
\* it drops the assignments, and puts in those of the new ones.
LEMMA UpdateFacts ==
  ASSUME NEW p \in PRec, AddrOK(p), NEW c \in Cfgs, NEW s, EnabledOK(p, c, s),
         Desc(p) \in Descs, NEW setup \in BOOLEAN
  PROVE  LET q == interface_update_prefix_assignments(p, c, s, setup)
         IN  /\ q \in PRec /\ AddrOK(q) /\ EnabledOK(q, c, s) /\ SameFields(p, q)
             /\ ~setup => q.basis = None /\ q.asg = <<>> /\ q.addrs = {}
             /\ setup =>
                  /\ q.basis = [cfg |-> c, excl |-> p.excl, class |-> p.class, same |-> Iface]
                  /\ Good(q.asg, Shl(64 - p.plen)) /\ FairList(q.asg, c, p.class, Shl(64 - p.plen))
                  /\ \A j \in DOMAIN q.asg :
                       Within(q.asg[j].name, c, s, Iface, {"up"}) => q.asg[j].enabled
<1> DEFINE d == DelAddresses(p, c, s, Iface)
           q0 == [d EXCEPT !.asg = <<>>, !.basis = None]
           B == [cfg |-> c, excl |-> p.excl, class |-> p.class, same |-> Iface]
           A == Assigned[<<Desc(p), c>>]
           q1 == [q0 EXCEPT !.asg = A, !.basis = B]
           q2 == AddAddresses(q1, c, s, Iface)
           q == interface_update_prefix_assignments(p, c, s, setup)
<1>1. q = IF ~setup THEN q0 ELSE q2
  BY DEF interface_update_prefix_assignments
<1>2. /\ d \in PRec /\ AddrOK(d) /\ SameButAddresses(p, d)
      /\ \A j \in DOMAIN p.asg :
           d.asg[j].enabled <=> /\ p.asg[j].enabled
                                /\ ~Within(p.asg[j].name, c, s, Iface, {"lost", "up", "teardown"})
  BY DelFacts
<1> HIDE DEF d
<1>3. \A j \in DOMAIN d.asg : ~d.asg[j].enabled
  <2>1. DOMAIN d.asg = DOMAIN p.asg
    BY <1>2 DEF SameButAddresses, SamePlaces
  <2> QED
    BY <1>2, <2>1 DEF EnabledOK, Within, HasL3
<1>4. d.addrs = {} /\ SameFields(p, d)
  BY <1>2, <1>3 DEF AddrOK, SameButAddresses, SameFields
<1>5. /\ q0 \in PRec /\ AddrOK(q0) /\ SameFields(d, q0) /\ q0.asg = <<>> /\ q0.basis = None
      /\ q0.addrs = {}
  <2>1. <<>> \in Seq(Ent) /\ Fresh(<<>>)
    BY DEF Fresh
  <2>2. None \in {None} \cup Basis
    OBVIOUS
  <2> HIDE DEF q0
  <2> QED
    BY <1>2, <1>4, <2>1, <2>2, Replaced DEF q0
<1> HIDE DEF q0
<1>6. EnabledOK(q0, c, s) /\ SameFields(p, q0)
  BY <1>4, <1>5 DEF EnabledOK, SameFields
<1>7. /\ A \in Seq(Ent) /\ Good(A, Shl(64 - p.plen)) /\ Fresh(A)
      /\ FairList(A, c, p.class, Shl(64 - p.plen))
  <2>1. Desc(p).plen = p.plen /\ Desc(p).class = p.class
    BY DEF Desc
  <2> QED
    BY <2>1, AssignedGood, AssignedFair
<1> HIDE DEF A
<1>8. B \in Basis
  BY DEF PRec, Basis
<1> HIDE DEF B
<1>9. /\ q1 \in PRec /\ AddrOK(q1) /\ SameFields(q0, q1) /\ q1.asg = A /\ q1.basis = B
      /\ q1.addrs = {}
  BY <1>5, <1>7, <1>8, Replaced
<1> HIDE DEF q1
<1>10. /\ q2 \in PRec /\ AddrOK(q2) /\ SameButAddresses(q1, q2)
       /\ \A j \in DOMAIN q1.asg :
            q2.asg[j].enabled <=> \/ q1.asg[j].enabled
                                  \/ Within(q1.asg[j].name, c, s, Iface, {"lost", "up"})
  BY <1>9, AddFacts
<1> HIDE DEF q2
<1>11. SameFields(p, q2) /\ q2.basis = B /\ SamePlaces(A, q2.asg)
  BY <1>6, <1>9, <1>10 DEF SameFields, SameButAddresses
<1>12. Good(q2.asg, Shl(64 - p.plen)) /\ FairList(q2.asg, c, p.class, Shl(64 - p.plen))
  <2>1. q2.asg \in Seq(Ent)
    BY <1>10 DEF PRec
  <2> QED
    BY <1>7, <1>11, <2>1, GoodSame, FairSame
<1>13. \A j \in DOMAIN q2.asg :
         q2.asg[j].enabled <=> Within(q2.asg[j].name, c, s, Iface, {"lost", "up"})
  <2>1. \A j \in DOMAIN A : ~A[j].enabled
    BY <1>7 DEF Fresh
  <2> QED
    BY <1>9, <1>10, <1>11, <2>1 DEF SamePlaces
<1>14. EnabledOK(q2, c, s)
  BY <1>13 DEF EnabledOK, Within, HasL3
<1>15. \A j \in DOMAIN q2.asg : Within(q2.asg[j].name, c, s, Iface, {"up"}) => q2.asg[j].enabled
  BY <1>13 DEF Within
<1>16. CASE ~setup
  <2>1. q = q0
    BY <1>1, <1>16
  <2> HIDE DEF q
  <2> QED
    BY <1>5, <1>6, <1>16, <2>1 DEF q
<1>17. CASE setup
  <2>1. q = q2
    BY <1>1, <1>17
  <2> HIDE DEF q
  <2> QED
    BY <1>10, <1>11, <1>12, <1>14, <1>15, <1>17, <2>1 DEF q, B
<1> QED
  BY <1>16, <1>17

\* The invariant of a prefix that is not there.
LEMMA NoPrefixPI == ASSUME NEW k, NEW c, NEW s, NEW nd, NEW rf PROVE PI(k, NoPrefix, c, s, nd, rf)
<1>1. NoPrefix \in PRec
  BY DEF NoPrefix, PRec, Exc, Class
<1>2. /\ NoPrefix.asg = <<>> /\ NoPrefix.basis = None /\ NoPrefix.addrs = {} /\ NoPrefix.null = FALSE
      /\ NoPrefix.exists = FALSE /\ NoPrefix.listed = FALSE
  BY DEF NoPrefix
<1>3. AddrOK(NoPrefix)
  <2>1. DOMAIN <<>> = {}
    OBVIOUS
  <2> QED
    BY <1>2, <2>1 DEF AddrOK
<1>4. EnabledOK(NoPrefix, c, s) /\ UpOK(NoPrefix, c, s)
  BY <1>2 DEF EnabledOK, UpOK
<1>5. KnownOK(k, NoPrefix, nd) /\ BasisOK(NoPrefix, c, rf)
  BY <1>2 DEF KnownOK, BasisOK
<1> QED
  BY <1>1, <1>3, <1>4, <1>5 DEF PI

\* A prefix that is in the list of prefixes is there.
LEMMA ListedExists ==
  ASSUME NEW k, NEW p, NEW nd, KnownOK(k, p, nd), p.listed
  PROVE  p.exists
<1>1. NoPrefix.listed = FALSE
  BY DEF NoPrefix
<1> QED
  BY <1>1 DEF KnownOK

\* What does not hang on the addresses.
LEMMA SameKeeps ==
  ASSUME NEW k, NEW p \in PRec, NEW q \in PRec, NEW c, NEW nd, NEW rf, SameButAddresses(p, q),
         p.exists, KnownOK(k, p, nd), BasisOK(p, c, rf)
  PROVE  KnownOK(k, q, nd) /\ BasisOK(q, c, rf) /\ q.exists
<1>1. Desc(q) = Desc(p)
  BY DEF Desc, SameButAddresses
<1>2. KnownOK(k, q, nd) /\ q.exists
  BY <1>1 DEF KnownOK, SameButAddresses
<1>3. p.asg = <<>> => q.asg = <<>>
  BY DEF SameButAddresses, SamePlaces, PRec
<1>4. Good(p.asg, Shl(64 - p.plen)) => Good(q.asg, Shl(64 - q.plen))
  <2> SUFFICES ASSUME Good(p.asg, Shl(64 - p.plen)) PROVE Good(q.asg, Shl(64 - q.plen))
    OBVIOUS
  <2>1. q.plen = p.plen /\ q.asg \in Seq(Ent) /\ SamePlaces(p.asg, q.asg)
    BY DEF SameButAddresses, PRec
  <2> QED
    BY <2>1, GoodSame
<1>5. q.listed = p.listed /\ q.basis = p.basis
  BY DEF SameButAddresses
<1>6. ASSUME Good(p.asg, Shl(64 - p.plen)), FairList(p.asg, p.basis.cfg, p.basis.class, Shl(64 - p.plen))
      PROVE  FairList(q.asg, q.basis.cfg, q.basis.class, Shl(64 - q.plen))
  <2>1. q.plen = p.plen /\ q.asg \in Seq(Ent) /\ SamePlaces(p.asg, q.asg)
    BY DEF SameButAddresses, PRec
  <2> QED
    BY <1>5, <1>6, <2>1, FairSame
<1>7. BasisOK(q, c, rf)
  BY <1>3, <1>4, <1>5, <1>6 DEF BasisOK
<1> QED
  BY <1>2, <1>7

\* The assignments of a listed prefix are made anew: whatever options they were made
\* from, they now are those in force.
LEMMA UpdatePI ==
  ASSUME NEW k, NEW p \in PRec, AddrOK(p), NEW c \in Cfgs, NEW s, EnabledOK(p, c, s), NEW nd, NEW rf,
         KnownOK(k, p, nd), p.exists, p.listed
  PROVE  PI(k, interface_update_prefix_assignments(p, c, s, Valid(p)), c, s, nd, rf)
<1> DEFINE q == interface_update_prefix_assignments(p, c, s, Valid(p))
<1>1. Desc(p) \in Descs
  BY DEF KnownOK
<1>2. Valid(p) \in BOOLEAN
  BY DEF Valid
<1>3. /\ q \in PRec /\ AddrOK(q) /\ EnabledOK(q, c, s) /\ SameFields(p, q)
      /\ ~Valid(p) => q.basis = None /\ q.asg = <<>> /\ q.addrs = {}
      /\ Valid(p) =>
           /\ q.basis = [cfg |-> c, excl |-> p.excl, class |-> p.class, same |-> Iface]
           /\ Good(q.asg, Shl(64 - p.plen)) /\ FairList(q.asg, c, p.class, Shl(64 - p.plen))
           /\ \A j \in DOMAIN q.asg :
                Within(q.asg[j].name, c, s, Iface, {"up"}) => q.asg[j].enabled
  BY <1>1, <1>2, UpdateFacts
<1> HIDE DEF q
<1>4. Valid(q) = Valid(p) /\ Desc(q) = Desc(p)
  BY <1>3 DEF Valid, Desc, SameFields
<1>5. UpOK(q, c, s)
  BY <1>3, <1>4 DEF UpOK
<1>6. KnownOK(k, q, nd)
  BY <1>3, <1>4 DEF KnownOK, SameFields
<1>7. BasisOK(q, c, rf)
  <2>1. CASE ~Valid(p)
    BY <1>3, <2>1 DEF BasisOK
  <2>2. CASE Valid(p)
    <3>1. q.basis.cfg = c /\ q.basis.class = p.class /\ q.basis # None
      <4>1. [cfg |-> c, excl |-> p.excl, class |-> p.class, same |-> Iface] \in Basis
        BY DEF PRec, Basis
      <4> QED
        BY <1>3, <2>2, <4>1, NoneAssumption
    <3>2. q.plen = p.plen /\ q.listed
      BY <1>3 DEF SameFields
    <3>3. \A i \in q.basis.same : q.basis.cfg[i] # None => c[i] # None /\ (~rf => q.basis.cfg[i] = c[i])
      BY <3>1
    <3> QED
      BY <1>3, <2>2, <3>1, <3>2, <3>3 DEF BasisOK
  <2> QED
    BY <2>1, <2>2
<1>8. PI(k, q, c, s, nd, rf)
  BY <1>3, <1>5, <1>6, <1>7 DEF PI
<1> QED
  BY <1>8 DEF q

\* What can be announced.
LEMMA OfferFacts ==
  ASSUME NEW o \in Offers
  PROVE  /\ o.excl \in Exc /\ o.class \in Class /\ o.life \in {None} \cup Int
         /\ [plen |-> o.plen, excl |-> o.excl, class |-> o.class] \in Descs
<1>1. o.life \in {None} \cup Int
  <2>1. \A x \in Offers : x.life \in {None} \cup Nat
    BY PrefixAssumption
  <2> QED
    BY <2>1
<1>2. o.excl \in Exc
  BY DEF Exc
<1>3. o.class \in Class
  BY DEF Class
<1>4. [plen |-> o.plen, excl |-> o.excl, class |-> o.class] \in Descs
  BY DEF Descs
<1> QED
  BY <1>1, <1>2, <1>3, <1>4

\* A prefix that goes leaves nothing behind.
LEMMA GoneIs ==
  ASSUME NEW k, NEW p, NEW c \in Cfgs, NEW s, NEW nd, NEW rf, PI(k, p, c, s, nd, rf), p.exists
  PROVE  PrefixGone(p, c, s) = NoPrefix
<1> DEFINE q == interface_update_prefix_assignments(p, c, s, FALSE)
<1>1. p \in PRec /\ AddrOK(p) /\ EnabledOK(p, c, s) /\ Desc(p) \in Descs
  BY DEF PI, KnownOK
<1>2. q.addrs = {}
  BY <1>1, UpdateFacts
<1> HIDE DEF q
<1>3. PrefixGone(p, c, s) = [NoPrefix EXCEPT !.addrs = q.addrs]
  BY DEF PrefixGone, q
<1> QED
  BY <1>2, <1>3 DEF NoPrefix

\* A prefix that comes, with the options it is announced with.
LEMMA NewPI ==
  ASSUME NEW k, NEW o, NEW listed \in BOOLEAN, NEW c \in Cfgs, NEW s, NEW nd, NEW rf,
         o.plen = k[2], [plen |-> o.plen, excl |-> o.excl, class |-> o.class] \in Descs,
         o.excl \in Exc, o.class \in Class, o.life \in {None} \cup Int,
         listed = (k \in PdKey => ~nd)
  PROVE  PI(k, PrefixNew(o, listed, c, s), c, s, nd, rf) /\ PrefixNew(o, listed, c, s).exists
<1> DEFINE p == [NoPrefix EXCEPT !.exists = TRUE, !.plen = o.plen, !.excl = o.excl, !.class = o.class,
                                 !.left = o.life, !.null = TRUE, !.listed = listed]
           q == interface_update_prefix_assignments(p, c, s, Valid(p))
<1>1. PrefixNew(o, listed, c, s) = IF listed THEN q ELSE p
  BY DEF PrefixNew
<1>2. o.plen \in 1 .. 64
  <2>1. [plen |-> o.plen, excl |-> o.excl, class |-> o.class].plen \in 1 .. 64
    BY DescFacts
  <2> QED
    BY <2>1
<1>3. /\ p \in PRec /\ p.exists /\ p.plen = o.plen /\ p.excl = o.excl /\ p.class = o.class
      /\ p.listed = listed /\ p.asg = <<>> /\ p.basis = None /\ p.addrs = {} /\ p.null
  <2>1. NoPrefix \in PRec /\ NoPrefix.asg = <<>> /\ NoPrefix.basis = None /\ NoPrefix.addrs = {}
    BY NoPrefixPI DEF PI, NoPrefix
  <2>2. p \in PRec
    BY <1>2, <2>1 DEF PRec
  <2>3. DOMAIN NoPrefix = {"exists", "plen", "excl", "class", "left", "listed", "asg", "basis", "addrs", "null"}
    BY DEF NoPrefix
  <2>4. /\ p.exists /\ p.plen = o.plen /\ p.excl = o.excl /\ p.class = o.class /\ p.listed = listed
        /\ p.asg = NoPrefix.asg /\ p.basis = NoPrefix.basis /\ p.addrs = NoPrefix.addrs /\ p.null
    BY <2>3
  <2> HIDE DEF p
  <2> QED
    BY <2>1, <2>2, <2>4
<1> HIDE DEF p, q
<1>4. AddrOK(p) /\ EnabledOK(p, c, s)
  <2>1. DOMAIN <<>> = {}
    OBVIOUS
  <2>2. AddrOK(p)
    BY <1>3, <2>1 DEF AddrOK
  <2> QED
    BY <1>3, <2>1, <2>2 DEF EnabledOK
<1>5. KnownOK(k, p, nd) /\ BasisOK(p, c, rf)
  BY <1>3 DEF KnownOK, BasisOK, Desc
<1>6. CASE listed
  <2>1. PI(k, q, c, s, nd, rf)
    BY <1>3, <1>4, <1>5, <1>6, UpdatePI DEF q
  <2>2. q.exists
    <3>1. Valid(p) \in BOOLEAN /\ Desc(p) \in Descs
      BY <1>3, <1>5 DEF Valid, KnownOK
    <3>2. SameFields(p, q)
      BY <1>3, <1>4, <3>1, UpdateFacts DEF q
    <3> QED
      BY <1>3, <3>2 DEF SameFields
  <2> QED
    BY <1>1, <1>6, <2>1, <2>2
<1>7. CASE ~listed
  <2>1. UpOK(p, c, s)
    BY <1>3, <1>7 DEF UpOK
  <2>2. PI(k, p, c, s, nd, rf)
    BY <1>3, <1>4, <1>5, <2>1 DEF PI
  <2> QED
    BY <1>1, <1>3, <1>7, <2>2
<1> QED
  BY <1>6, <1>7

\* A prefix with other options or another lifetime: its addresses come or go, by the
\* lifetime.
LEMMA AgainPI ==
  ASSUME NEW k \in PdKey, NEW p, NEW c \in Cfgs, NEW s, NEW nd \in BOOLEAN, NEW rf,
         PI(k, p, c, s, nd, rf), p.exists, NEW o \in Offers, Pd(o.plen) = k
  PROVE  /\ PI(k, PrefixAgain(p, o, ~nd, c, s), c, s, nd, rf)
         /\ SamePlaces(p.asg, PrefixAgain(p, o, ~nd, c, s).asg)
<1> DEFINE r == [p EXCEPT !.excl = o.excl, !.class = o.class, !.left = o.life, !.listed = ~nd]
           q == PrefixAgain(p, o, ~nd, c, s)
<1>1. q = IF Valid(r) THEN AddAddresses(r, c, s, Iface) ELSE DelAddresses(r, c, s, Iface)
  BY DEF PrefixAgain, SetAddresses
<1>2. p \in PRec /\ AddrOK(p) /\ EnabledOK(p, c, s) /\ KnownOK(k, p, nd) /\ BasisOK(p, c, rf)
  BY DEF PI
<1>3. p.listed = ~nd /\ p.null /\ p.plen = k[2] /\ k[2] = o.plen
  BY <1>2 DEF KnownOK, Pd
<1>4. /\ r \in PRec /\ r.exists /\ r.null /\ r.plen = p.plen /\ r.excl = o.excl /\ r.class = o.class
      /\ r.listed = p.listed /\ r.asg = p.asg /\ r.basis = p.basis /\ r.addrs = p.addrs
  <2>1. o.excl \in Exc /\ o.class \in Class /\ o.life \in {None} \cup Int
    BY OfferFacts
  <2>2. DOMAIN p = {"exists", "plen", "excl", "class", "left", "listed", "asg", "basis", "addrs", "null"}
    BY <1>2 DEF PRec
  <2>3. /\ r.exists = p.exists /\ r.null = p.null /\ r.plen = p.plen /\ r.excl = o.excl /\ r.class = o.class
        /\ r.listed = ~nd /\ r.asg = p.asg /\ r.basis = p.basis /\ r.addrs = p.addrs
    BY <2>2
  <2>4. r \in PRec
    BY <1>2, <2>1 DEF PRec
  <2> HIDE DEF r
  <2> QED
    BY <1>3, <2>3, <2>4
<1> HIDE DEF r, q
<1>5. AddrOK(r) /\ EnabledOK(r, c, s) /\ BasisOK(r, c, rf)
  BY <1>2, <1>4 DEF AddrOK, EnabledOK, BasisOK
<1>6. KnownOK(k, r, nd)
  <2>1. Desc(r) \in Descs
    BY <1>3, <1>4, OfferFacts DEF Desc
  <2> QED
    BY <1>2, <1>3, <1>4, <2>1 DEF KnownOK
<1>7. CASE Valid(r)
  <2>1. q = AddAddresses(r, c, s, Iface)
    BY <1>1, <1>7
  <2>2. /\ q \in PRec /\ AddrOK(q) /\ SameButAddresses(r, q)
        /\ \A j \in DOMAIN r.asg :
             q.asg[j].enabled <=> \/ r.asg[j].enabled
                                  \/ Within(r.asg[j].name, c, s, Iface, {"lost", "up"})
    BY <1>4, <1>5, <2>1, AddFacts
  <2>3. KnownOK(k, q, nd) /\ BasisOK(q, c, rf)
    BY <1>4, <1>5, <1>6, <2>2, SameKeeps
  <2>4. SamePlaces(r.asg, q.asg)
    BY <2>2 DEF SameButAddresses
  <2>5. EnabledOK(q, c, s)
    BY <1>5, <2>2, <2>4 DEF EnabledOK, Within, HasL3, SamePlaces
  <2>6. UpOK(q, c, s)
    BY <2>2, <2>4 DEF UpOK, Within, SamePlaces
  <2> QED
    BY <1>4, <2>2, <2>3, <2>4, <2>5, <2>6 DEF PI, q
<1>8. CASE ~Valid(r)
  <2>1. q = DelAddresses(r, c, s, Iface)
    BY <1>1, <1>8
  <2>2. /\ q \in PRec /\ AddrOK(q) /\ SameButAddresses(r, q)
        /\ \A j \in DOMAIN r.asg :
             q.asg[j].enabled <=> /\ r.asg[j].enabled
                                  /\ ~Within(r.asg[j].name, c, s, Iface, {"lost", "up", "teardown"})
    BY <1>4, <1>5, <2>1, DelFacts
  <2>3. KnownOK(k, q, nd) /\ BasisOK(q, c, rf)
    BY <1>4, <1>5, <1>6, <2>2, SameKeeps
  <2>4. SamePlaces(r.asg, q.asg) /\ q.left = r.left
    BY <2>2 DEF SameButAddresses
  <2>5. EnabledOK(q, c, s)
    BY <1>5, <2>2, <2>4 DEF EnabledOK, SamePlaces
  <2>6. UpOK(q, c, s)
    BY <1>8, <2>4 DEF UpOK, Valid
  <2> QED
    BY <1>4, <2>2, <2>3, <2>4, <2>5, <2>6 DEF PI, q
<1> QED
  BY <1>7, <1>8

\* A second passes.
LEMMA TickPI ==
  ASSUME NEW k, NEW p, NEW c, NEW s, NEW nd, NEW rf, PI(k, p, c, s, nd, rf), p.left # None
  PROVE  LET q == [p EXCEPT !.left = IF @ < 0 THEN @ ELSE @ - 1]
         IN  PI(k, q, c, s, nd, rf) /\ SamePlaces(p.asg, q.asg)
<1> DEFINE x == IF p.left < 0 THEN p.left ELSE p.left - 1
           q == [p EXCEPT !.left = x]
<1>1. p \in PRec /\ p.left \in Int
  BY DEF PI, PRec
<1>2. x \in Int /\ x <= p.left
  BY <1>1
<1> HIDE DEF x
<1>3. /\ q \in PRec /\ q.exists = p.exists /\ q.plen = p.plen /\ q.excl = p.excl /\ q.class = p.class
      /\ q.left = x /\ q.listed = p.listed /\ q.asg = p.asg /\ q.basis = p.basis
      /\ q.addrs = p.addrs /\ q.null = p.null
  BY <1>1, <1>2 DEF PRec
<1>4. q = [p EXCEPT !.left = IF @ < 0 THEN @ ELSE @ - 1]
  BY DEF x
<1> HIDE DEF q
<1>5. p.exists
  <2>1. NoPrefix.left = None
    BY DEF NoPrefix
  <2> QED
    BY <2>1 DEF PI, KnownOK
<1>6. AddrOK(q) /\ EnabledOK(q, c, s) /\ BasisOK(q, c, rf)
  BY <1>3 DEF PI, AddrOK, EnabledOK, BasisOK
<1>7. KnownOK(k, q, nd)
  BY <1>3, <1>5 DEF PI, KnownOK, Desc
<1>8. UpOK(q, c, s)
  <2>1. Valid(q) => Valid(p)
    BY <1>1, <1>2, <1>3, NoneAssumption DEF Valid
  <2> QED
    BY <1>3, <2>1 DEF PI, UpOK
<1>9. PI(k, q, c, s, nd, rf) /\ SamePlaces(p.asg, q.asg)
  BY <1>3, <1>6, <1>7, <1>8 DEF PI, SamePlaces
<1> QED
  BY <1>4, <1>9

\* Interfaces that keep their devices and do not come up.
LEMMA StatePI ==
  ASSUME NEW k, NEW p, NEW c, NEW s, NEW t, NEW nd, NEW rf, PI(k, p, c, s, nd, rf),
         \A n \in Iface : (HasL3(s[n]) => HasL3(t[n])) /\ (t[n] = "up" => s[n] = "up")
  PROVE  PI(k, p, c, t, nd, rf)
<1>1. EnabledOK(p, c, t)
  BY DEF PI, EnabledOK
<1>2. UpOK(p, c, t)
  BY DEF PI, UpOK, Within
<1> QED
  BY <1>1, <1>2 DEF PI

\* The other interfaces keep their states.
Others(s, u, i) == \A n \in Iface \ {i} : u[n] = s[n]

\* No interface of a set has an address.
Without(p, names) == \A j \in DOMAIN p.asg : p.asg[j].name \in names => ~p.asg[j].enabled

\* An interface comes up: the entries it has get their addresses.
LEMMA UpPI ==
  ASSUME NEW k, NEW p, NEW c, NEW s, NEW t, NEW u, NEW nd, NEW rf, PI(k, p, c, s, nd, rf),
         NEW i \in Iface, c[i] # None, t[i] = "lost", u[i] = "up",
         Others(s, t, i), Others(s, u, i)
  PROVE  LET q == interface_ip_set_enabled(p, c, t, i, TRUE)
         IN  PI(k, q, c, u, nd, rf) /\ SamePlaces(p.asg, q.asg)
<1> DEFINE q == interface_ip_set_enabled(p, c, t, i, TRUE)
<1>1. p \in PRec /\ AddrOK(p) /\ EnabledOK(p, c, s) /\ UpOK(p, c, s) /\ KnownOK(k, p, nd)
      /\ BasisOK(p, c, rf)
  BY DEF PI
<1>2. CASE ~p.listed
  <2>1. q = p /\ p.asg = <<>>
    BY <1>1, <1>2 DEF interface_ip_set_enabled, BasisOK
  <2> HIDE DEF q
  <2>2. EnabledOK(p, c, u) /\ UpOK(p, c, u)
    BY <1>2, <2>1 DEF EnabledOK, UpOK
  <2> QED
    BY <1>1, <2>1, <2>2 DEF PI, SamePlaces, q
<1>3. CASE p.listed
  <2>1. q = AddAddresses(p, c, t, {i})
    BY <1>3 DEF interface_ip_set_enabled, SetAddresses
  <2> HIDE DEF q
  <2>2. /\ q \in PRec /\ AddrOK(q) /\ SameButAddresses(p, q)
        /\ \A j \in DOMAIN p.asg :
             q.asg[j].enabled <=> \/ p.asg[j].enabled
                                  \/ Within(p.asg[j].name, c, t, {i}, {"lost", "up"})
    BY <1>1, <2>1, AddFacts
  <2>3. p.exists
    BY <1>1, <1>3, ListedExists
  <2>4. KnownOK(k, q, nd) /\ BasisOK(q, c, rf)
    BY <1>1, <2>2, <2>3, SameKeeps
  <2>5. SamePlaces(p.asg, q.asg) /\ q.listed = p.listed /\ q.left = p.left
    BY <2>2 DEF SameButAddresses
  <2>6. EnabledOK(q, c, u)
    BY <1>1, <2>2, <2>5 DEF EnabledOK, Within, HasL3, SamePlaces, Others
  <2>7. UpOK(q, c, u)
    <3>1. Valid(q) => Valid(p)
      BY <2>5 DEF Valid
    <3> QED
      BY <1>1, <2>2, <2>5, <3>1 DEF UpOK, Within, SamePlaces, Others
  <2> QED
    BY <2>2, <2>4, <2>5, <2>6, <2>7 DEF PI, q
<1> QED
  BY <1>2, <1>3

\* An interface loses its link or goes down: its addresses go.
LEMMA DownPI ==
  ASSUME NEW k, NEW p, NEW c, NEW s, NEW u, NEW nd, NEW rf, PI(k, p, c, s, nd, rf),
         NEW i \in Iface, c[i] # None, HasL3(s[i]), u[i] # "up", Others(s, u, i)
  PROVE  LET q == interface_ip_set_enabled(p, c, s, i, FALSE)
         IN  /\ PI(k, q, c, u, nd, rf) /\ SamePlaces(p.asg, q.asg)
             /\ Without(q, {i})
<1> DEFINE q == interface_ip_set_enabled(p, c, s, i, FALSE)
<1>1. p \in PRec /\ AddrOK(p) /\ EnabledOK(p, c, s) /\ UpOK(p, c, s) /\ KnownOK(k, p, nd)
      /\ BasisOK(p, c, rf)
  BY DEF PI
<1>2. CASE ~p.listed
  <2>1. q = p /\ p.asg = <<>>
    BY <1>1, <1>2 DEF interface_ip_set_enabled, BasisOK
  <2> HIDE DEF q
  <2>2. EnabledOK(p, c, u) /\ UpOK(p, c, u)
    BY <1>2, <2>1 DEF EnabledOK, UpOK
  <2>3. PI(k, q, c, u, nd, rf) /\ SamePlaces(p.asg, q.asg)
    BY <1>1, <2>1, <2>2 DEF PI, SamePlaces
  <2>4. Without(q, {i})
    BY <2>1 DEF Without
  <2> QED
    BY <2>3, <2>4 DEF q
<1>3. CASE p.listed
  <2>1. q = DelAddresses(p, c, s, {i})
    BY <1>3 DEF interface_ip_set_enabled, SetAddresses
  <2> HIDE DEF q
  <2>2. /\ q \in PRec /\ AddrOK(q) /\ SameButAddresses(p, q)
        /\ \A j \in DOMAIN p.asg :
             q.asg[j].enabled <=> /\ p.asg[j].enabled
                                  /\ ~Within(p.asg[j].name, c, s, {i}, {"lost", "up", "teardown"})
    BY <1>1, <2>1, DelFacts
  <2>3. p.exists
    BY <1>1, <1>3, ListedExists
  <2>4. KnownOK(k, q, nd) /\ BasisOK(q, c, rf)
    BY <1>1, <2>2, <2>3, SameKeeps
  <2>5. SamePlaces(p.asg, q.asg) /\ q.listed = p.listed /\ q.left = p.left
    BY <2>2 DEF SameButAddresses
  <2>6. Without(q, {i})
    BY <2>2, <2>5 DEF Within, HasL3, SamePlaces, Without
  <2>7. EnabledOK(q, c, u)
    BY <1>1, <2>2, <2>5, <2>6 DEF EnabledOK, HasL3, SamePlaces, Others, Without
  <2>8. UpOK(q, c, u)
    <3>1. Valid(q) => Valid(p)
      BY <2>5 DEF Valid
    <3> QED
      BY <1>1, <2>2, <2>5, <3>1 DEF UpOK, Within, SamePlaces, Others
  <2> QED
    BY <2>2, <2>4, <2>5, <2>6, <2>7, <2>8 DEF PI, q
<1> QED
  BY <1>2, <1>3

\* Interfaces go; they have no addresses any more.
LEMMA ForgetPI ==
  ASSUME NEW k, NEW p, NEW c, NEW d, NEW s, NEW t, NEW nd, NEW rf, NEW gone,
         PI(k, p, c, s, nd, rf), Without(p, gone),
         \A n \in gone : d[n] = None,
         \A n \in Iface \ gone : /\ d[n] = c[n] /\ (HasL3(s[n]) => HasL3(t[n]))
                                 /\ t[n] = "up" => s[n] = "up"
  PROVE  PI(k, Forget(p, gone), d, t, nd, rf) /\ SamePlaces(p.asg, Forget(p, gone).asg)
<1> DEFINE q == Forget(p, gone)
<1>1. p \in PRec /\ AddrOK(p) /\ EnabledOK(p, c, s) /\ UpOK(p, c, s) /\ KnownOK(k, p, nd)
      /\ BasisOK(p, c, rf)
  BY DEF PI
<1>2. /\ q \in PRec /\ q.exists = p.exists /\ q.plen = p.plen /\ q.excl = p.excl /\ q.class = p.class
      /\ q.left = p.left /\ q.listed = p.listed /\ q.asg = p.asg /\ q.addrs = p.addrs /\ q.null = p.null
      /\ p.basis = None => q = p
      /\ p.basis # None => /\ q.basis # None /\ q.basis.cfg = p.basis.cfg /\ q.basis.class = p.basis.class
                           /\ q.basis.same = p.basis.same \ gone
  <2>1. CASE p.basis = None
    BY <1>1, <2>1 DEF Forget
  <2>2. CASE p.basis # None
    <3> DEFINE b == [p.basis EXCEPT !.same = p.basis.same \ gone]
    <3>1. p.basis \in Basis
      BY <1>1, <2>2 DEF PRec
    <3>2. b \in Basis /\ b.cfg = p.basis.cfg /\ b.class = p.basis.class /\ b.same = p.basis.same \ gone
      BY <3>1 DEF Basis
    <3>3. q = [p EXCEPT !.basis = b]
      BY <2>2 DEF Forget
    <3> HIDE DEF b, q
    <3>4. q \in PRec
      BY <1>1, <3>2, <3>3 DEF PRec
    <3>5. q.basis = b
      BY <1>1, <3>3 DEF PRec
    <3>6. /\ q.exists = p.exists /\ q.plen = p.plen /\ q.excl = p.excl /\ q.class = p.class
          /\ q.left = p.left /\ q.listed = p.listed /\ q.asg = p.asg /\ q.addrs = p.addrs /\ q.null = p.null
      BY <1>1, <3>3 DEF PRec
    <3> QED
      BY <2>2, <3>2, <3>4, <3>5, <3>6, NoneAssumption
  <2> QED
    BY <2>1, <2>2
<1> HIDE DEF q
<1>3. AddrOK(q)
  BY <1>1, <1>2 DEF AddrOK
<1>4. EnabledOK(q, d, t)
  BY <1>1, <1>2 DEF EnabledOK, Without
<1>5. UpOK(q, d, t)
  <2>1. Valid(q) = Valid(p)
    BY <1>2 DEF Valid
  <2> QED
    BY <1>1, <1>2, <2>1 DEF UpOK, Within
<1>6. KnownOK(k, q, nd)
  <2>1. Desc(q) = Desc(p)
    BY <1>2 DEF Desc
  <2>2. ~p.exists => p.basis = None
    <3>1. NoPrefix.basis = None
      BY DEF NoPrefix
    <3> QED
      BY <1>1, <3>1 DEF KnownOK
  <2> QED
    BY <1>1, <1>2, <2>1, <2>2 DEF KnownOK
<1>7. BasisOK(q, d, rf)
  <2>1. CASE p.basis = None
    BY <1>1, <1>2, <2>1 DEF BasisOK
  <2>2. CASE p.basis # None
    <3>1. \A n \in q.basis.same : n \in Iface \ gone /\ n \in p.basis.same
      <4>1. p.basis.same \subseteq Iface
        BY <1>1, <2>2 DEF PRec, Basis
      <4> QED
        BY <1>2, <2>2, <4>1
    <3>2. \A n \in q.basis.same : q.basis.cfg[n] # None =>
            d[n] # None /\ (~rf => q.basis.cfg[n] = d[n])
      BY <1>1, <1>2, <2>2, <3>1 DEF BasisOK
    <3> QED
      BY <1>1, <1>2, <2>2, <3>2 DEF BasisOK
  <2> QED
    BY <2>1, <2>2
<1> QED
  BY <1>2, <1>3, <1>4, <1>5, <1>6, <1>7 DEF PI, SamePlaces, q

\* Interfaces come or get other options, for which a refresh is due.
LEMMA ConfigPI ==
  ASSUME NEW k, NEW p, NEW c, NEW d, NEW s, NEW nd, NEW rf \in BOOLEAN, NEW due \in BOOLEAN,
         PI(k, p, c, s, nd, rf), ~due => ~rf,
         \A n \in Iface : /\ c[n] = None => s[n] # "up"
                          /\ c[n] # None => d[n] # None /\ (~due => d[n] = c[n])
  PROVE  PI(k, p, d, s, nd, due)
<1>1. EnabledOK(p, d, s)
  BY DEF PI, EnabledOK
<1>2. UpOK(p, d, s)
  BY DEF PI, UpOK, Within
<1>3. BasisOK(p, d, due)
  <2>1. BasisOK(p, c, rf)
    BY DEF PI
  <2>2. CASE p.basis = None
    BY <2>1, <2>2 DEF BasisOK
  <2>3. CASE p.basis # None
    <3>1. p.basis.same \subseteq Iface
      BY <2>3 DEF PI, PRec, Basis
    <3>2. \A n \in p.basis.same : p.basis.cfg[n] # None =>
            d[n] # None /\ (~due => p.basis.cfg[n] = d[n])
      BY <2>1, <2>3, <3>1 DEF BasisOK
    <3> QED
      BY <2>1, <2>3, <3>2 DEF BasisOK
  <2> QED
    BY <2>2, <2>3
<1> QED
  BY <1>1, <1>2, <1>3 DEF PI

\* The uplink begins or ends to delegate.
LEMMA DelegationPI ==
  ASSUME NEW k, NEW p, NEW c \in Cfgs, NEW nd \in BOOLEAN, NEW rf, no_delegation \in BOOLEAN,
         PI(k, p, c, st, no_delegation, rf)
  PROVE  LET q == interface_update_prefix_delegation(k, p, c, nd)
         IN  PI(k, q, c, st, nd, rf) /\ (nd = no_delegation => q = p)
<1> DEFINE q == interface_update_prefix_delegation(k, p, c, nd)
<1>1. CASE k \in PdKey /\ p.exists /\ nd # no_delegation
  <2> DEFINE r == interface_update_prefix_assignments(p, c, st, ~nd /\ Valid(p))
  <2>1. q = [r EXCEPT !.listed = ~nd]
    BY <1>1 DEF interface_update_prefix_delegation
  <2>2. p \in PRec /\ AddrOK(p) /\ EnabledOK(p, c, st) /\ KnownOK(k, p, no_delegation) /\ Desc(p) \in Descs
    BY <1>1 DEF PI, KnownOK
  <2>3. (~nd /\ Valid(p)) \in BOOLEAN
    OBVIOUS
  <2>4. /\ r \in PRec /\ AddrOK(r) /\ EnabledOK(r, c, st) /\ SameFields(p, r)
        /\ ~(~nd /\ Valid(p)) => r.basis = None /\ r.asg = <<>> /\ r.addrs = {}
        /\ (~nd /\ Valid(p)) =>
             /\ r.basis = [cfg |-> c, excl |-> p.excl, class |-> p.class, same |-> Iface]
             /\ Good(r.asg, Shl(64 - p.plen)) /\ FairList(r.asg, c, p.class, Shl(64 - p.plen))
             /\ \A j \in DOMAIN r.asg :
                  Within(r.asg[j].name, c, st, Iface, {"up"}) => r.asg[j].enabled
    BY <2>2, <2>3, UpdateFacts
  <2> HIDE DEF r, q
  <2>5. /\ q \in PRec /\ q.exists = r.exists /\ q.plen = r.plen /\ q.excl = r.excl /\ q.class = r.class
        /\ q.left = r.left /\ q.listed = ~nd /\ q.asg = r.asg /\ q.basis = r.basis
        /\ q.addrs = r.addrs /\ q.null = r.null
    BY <2>1, <2>4 DEF PRec
  <2>6. AddrOK(q) /\ EnabledOK(q, c, st)
    BY <2>4, <2>5 DEF AddrOK, EnabledOK
  <2>7. Valid(q) = Valid(p) /\ Desc(q) = Desc(p)
    BY <2>4, <2>5 DEF Valid, Desc, SameFields
  <2>8. KnownOK(k, q, nd)
    BY <1>1, <2>2, <2>4, <2>5, <2>7 DEF KnownOK, SameFields
  <2>9. UpOK(q, c, st)
    BY <2>4, <2>5, <2>7 DEF UpOK
  <2>10. BasisOK(q, c, rf)
    <3>1. CASE ~(~nd /\ Valid(p))
      BY <2>4, <2>5, <3>1 DEF BasisOK
    <3>2. CASE ~nd /\ Valid(p)
      <4>1. [cfg |-> c, excl |-> p.excl, class |-> p.class, same |-> Iface] \in Basis
        BY <2>2 DEF PRec, Basis
      <4>2. q.basis.cfg = c /\ q.basis.class = p.class /\ q.basis # None
        BY <2>4, <2>5, <3>2, <4>1, NoneAssumption
      <4>3. /\ q.plen = p.plen /\ q.listed /\ Good(q.asg, Shl(64 - q.plen))
            /\ FairList(q.asg, c, p.class, Shl(64 - q.plen))
        BY <2>4, <2>5, <3>2 DEF SameFields
      <4>4. \A i \in q.basis.same : q.basis.cfg[i] # None => c[i] # None /\ (~rf => q.basis.cfg[i] = c[i])
        BY <4>2
      <4> QED
        BY <4>2, <4>3, <4>4 DEF BasisOK
    <3> QED
      BY <3>1, <3>2
  <2> QED
    BY <1>1, <2>5, <2>6, <2>8, <2>9, <2>10 DEF PI, q
<1>2. CASE ~(k \in PdKey /\ p.exists /\ nd # no_delegation)
  <2>1. q = p
    BY <1>2 DEF interface_update_prefix_delegation
  <2> HIDE DEF q
  <2>2. KnownOK(k, p, nd)
    BY <1>2 DEF PI, KnownOK
  <2> QED
    BY <2>1, <2>2 DEF PI, q
<1> QED
  BY <1>1, <1>2

\* The keys of the prefixes.
LEMMA KeyFacts ==
  /\ \A k \in PdKey : k \in Key /\ \E o \in Offers : k = Pd(o.plen)
  /\ \A k \in Key : k \notin PdKey => \E l \in Ulas \ {None} : k = Ula(l)
  /\ \A l \in Ulas \ {None} : Ula(l) \in Key /\ Ula(l) \notin PdKey
  /\ \A l, m : Ula(l) = Ula(m) => l = m
  BY DEF Key, PdKey, Ula, Pd

\* The ULA prefix of the configuration.
LEMMA UlaPI ==
  ASSUME NEW k \in Key, NEW p, NEW c \in Cfgs, NEW l \in Ulas, NEW nd, NEW rf, PI(k, p, c, st, nd, rf)
  PROVE  LET q == interface_ip_set_ula_prefix(k, p, c, l)
         IN  /\ PI(k, q, c, st, nd, rf) /\ (p.exists /\ q.exists => q = p)
             /\ k \notin PdKey => q.exists = (k = Ula(l))
<1> DEFINE q == interface_ip_set_ula_prefix(k, p, c, l)
           o == [plen |-> l, excl |-> None, class |-> "local", life |-> None]
<1>1. p.exists \in BOOLEAN
  BY DEF PI, PRec
<1>2. CASE k \in PdKey \/ p.exists = (k = Ula(l))
  <2>1. q = p
    BY <1>2 DEF interface_ip_set_ula_prefix
  <2> HIDE DEF q
  <2> QED
    BY <1>2, <2>1 DEF q
<1>3. CASE k \notin PdKey /\ p.exists /\ k # Ula(l)
  <2>1. q = PrefixGone(p, c, st)
    BY <1>3 DEF interface_ip_set_ula_prefix
  <2>2. q = NoPrefix
    BY <1>3, <2>1, GoneIs
  <2> HIDE DEF q
  <2>3. NoPrefix.exists = FALSE
    BY DEF NoPrefix
  <2> QED
    BY <1>3, <2>2, <2>3, NoPrefixPI DEF q
<1>4. CASE k \notin PdKey /\ ~p.exists /\ k = Ula(l)
  <2>1. q = PrefixNew(o, TRUE, c, st)
    BY <1>4 DEF interface_ip_set_ula_prefix
  <2>2. l \in Ulas \ {None}
    BY <1>4, KeyFacts
  <2>3. o.plen = k[2] /\ o.excl = None /\ o.class = "local" /\ o.life = None /\ o.plen = l
    BY <1>4 DEF Ula
  <2> HIDE DEF o, q
  <2>4. [plen |-> o.plen, excl |-> o.excl, class |-> o.class] \in Descs
    BY <2>2, <2>3 DEF Descs
  <2>5. o.excl \in Exc /\ o.class \in Class /\ o.life \in {None} \cup Int
    BY <2>3 DEF Exc, Class
  <2>6. PI(k, q, c, st, nd, rf) /\ q.exists
    BY <1>4, <2>1, <2>3, <2>4, <2>5, NewPI
  <2> QED
    BY <1>4, <2>6 DEF q, PI, PRec
<1> QED
  BY <1>1, <1>2, <1>3, <1>4

\* Interfaces are to go at once: their addresses go.
LEMMA FreePI ==
  ASSUME NEW k, NEW p, NEW c, NEW s, NEW t, NEW nd, NEW rf, PI(k, p, c, s, nd, rf), NEW freed,
         \A n \in freed : t[n] # "up",
         \A n \in Iface \ freed : (HasL3(s[n]) => HasL3(t[n])) /\ (t[n] = "up" => s[n] = "up")
  PROVE  LET q == IF p.listed THEN DelAddresses(p, c, s, freed) ELSE p
         IN  /\ PI(k, q, c, t, nd, rf) /\ SamePlaces(p.asg, q.asg)
             /\ Without(q, freed)
<1> DEFINE q == IF p.listed THEN DelAddresses(p, c, s, freed) ELSE p
<1>1. p \in PRec /\ AddrOK(p) /\ EnabledOK(p, c, s) /\ UpOK(p, c, s) /\ KnownOK(k, p, nd)
      /\ BasisOK(p, c, rf)
  BY DEF PI
<1>2. CASE ~p.listed
  <2>1. q = p /\ p.asg = <<>>
    BY <1>1, <1>2 DEF BasisOK
  <2> HIDE DEF q
  <2>2. EnabledOK(p, c, t) /\ UpOK(p, c, t)
    BY <1>2, <2>1 DEF EnabledOK, UpOK
  <2>3. PI(k, q, c, t, nd, rf) /\ SamePlaces(p.asg, q.asg)
    BY <1>1, <2>1, <2>2 DEF PI, SamePlaces
  <2>4. Without(q, freed)
    BY <2>1 DEF Without
  <2> QED
    BY <2>3, <2>4 DEF q
<1>3. CASE p.listed
  <2>1. q = DelAddresses(p, c, s, freed)
    BY <1>3
  <2> HIDE DEF q
  <2>2. /\ q \in PRec /\ AddrOK(q) /\ SameButAddresses(p, q)
        /\ \A j \in DOMAIN p.asg :
             q.asg[j].enabled <=> /\ p.asg[j].enabled
                                  /\ ~Within(p.asg[j].name, c, s, freed, {"lost", "up", "teardown"})
    BY <1>1, <2>1, DelFacts
  <2>3. p.exists
    BY <1>1, <1>3, ListedExists
  <2>4. KnownOK(k, q, nd) /\ BasisOK(q, c, rf)
    BY <1>1, <2>2, <2>3, SameKeeps
  <2>5. SamePlaces(p.asg, q.asg) /\ q.listed = p.listed /\ q.left = p.left
    BY <2>2 DEF SameButAddresses
  <2>6. Without(q, freed)
    BY <1>1, <2>2, <2>5 DEF EnabledOK, Within, HasL3, SamePlaces, Without
  <2>7. EnabledOK(q, c, t)
    BY <1>1, <2>2, <2>5, <2>6 DEF EnabledOK, SamePlaces, Without
  <2>8. UpOK(q, c, t)
    <3>1. Valid(q) => Valid(p)
      BY <2>5 DEF Valid
    <3> QED
      BY <1>1, <2>2, <2>5, <3>1 DEF UpOK, Within, SamePlaces
  <2> QED
    BY <2>2, <2>4, <2>5, <2>6, <2>7, <2>8 DEF PI, q
<1> QED
  BY <1>2, <1>3

\* With the refresh that was due the options in force are those of the assignments.
LEMMA RefreshPI ==
  ASSUME NEW k, NEW p, NEW c \in Cfgs, NEW s, NEW nd, NEW due \in BOOLEAN, PI(k, p, c, s, nd, due)
  PROVE  PI(k, interface_refresh_assignments(p, c, s, due), c, s, nd, FALSE)
<1> DEFINE q == interface_refresh_assignments(p, c, s, due)
<1>1. p \in PRec /\ AddrOK(p) /\ EnabledOK(p, c, s) /\ KnownOK(k, p, nd) /\ BasisOK(p, c, due)
  BY DEF PI
<1>2. CASE p.listed /\ due
  <2>1. p.exists
    BY <1>1, <1>2, ListedExists
  <2>2. q = interface_update_prefix_assignments(p, c, s, Valid(p))
    BY <1>2 DEF interface_refresh_assignments
  <2> HIDE DEF q
  <2>3. PI(k, q, c, s, nd, FALSE)
    BY <1>1, <1>2, <2>1, <2>2, UpdatePI
  <2> QED
    BY <2>3 DEF q
<1>3. CASE ~(p.listed /\ due)
  <2>1. q = p
    BY <1>3 DEF interface_refresh_assignments
  <2> HIDE DEF q
  <2>2. BasisOK(p, c, FALSE)
    BY <1>1, <1>3 DEF BasisOK
  <2> QED
    BY <2>1, <2>2 DEF PI, q
<1> QED
  BY <1>2, <1>3

-----------------------------------------------------------------------------
(***************************************************************************)
(* The steps.                                                              *)
(***************************************************************************)
\* The subprefixes of a prefix that stays are where they were.
Stays ==
  \A k \in Key :
    (/\ prefix[k].exists /\ prefix'[k].exists
     /\ cfg' = cfg /\ no_delegation' = no_delegation /\ refresh' = refresh) =>
       SamePlaces(prefix[k].asg, prefix'[k].asg)

\* A list has the places it has.
LEMMA SameSelf == ASSUME NEW a PROVE SamePlaces(a, a)
  BY DEF SamePlaces

\* There is no ULA prefix more than before.
LEMMA UlaKept ==
  ASSUME NEW f, NEW g, OneUla(f), \A k \in Key : k \notin PdKey /\ g[k].exists => f[k].exists
  PROVE  OneUla(g)
  BY KeyFacts DEF OneUla

\* No prefix, no interface.
LEMMA InitInv == Init => Inv
<1> SUFFICES ASSUME Init PROVE Inv
  OBVIOUS
<1>1. cfg \in Cfgs
  BY DEF Init, Cfgs, Opts
<1>2. States(cfg, st, dyn, removing)
  BY <1>1 DEF Init, States, IfState
<1>3. \A k \in Key : prefix[k] = NoPrefix
  BY DEF Init
<1>4. \A k \in Key : PI(k, prefix[k], cfg, st, no_delegation, refresh)
  BY <1>3, NoPrefixPI
<1>5. OneUla(prefix)
  <2>1. NoPrefix.exists = FALSE
    BY DEF NoPrefix
  <2> QED
    BY <1>3, <2>1, KeyFacts DEF OneUla
<1> QED
  BY <1>2, <1>4, <1>5 DEF Init, Inv

\* An announcement.
LEMMA AnnounceInv ==
  ASSUME Inv, NEW os \in SUBSET Offers, NEW keep \in BOOLEAN, Announce(os, keep)
  PROVE  Inv' /\ Stays
<1>1. UNCHANGED <<cfg, st, dyn, removing, wan, no_delegation, refresh>>
  BY DEF Announce
<1>2. cfg \in Cfgs /\ no_delegation \in BOOLEAN
  BY DEF Inv, States
<1>3. ASSUME NEW k \in Key
      PROVE  /\ PI(k, prefix'[k], cfg, st, no_delegation, refresh)
             /\ prefix[k].exists /\ prefix'[k].exists => SamePlaces(prefix[k].asg, prefix'[k].asg)
             /\ k \notin PdKey /\ prefix'[k].exists => prefix[k].exists
  <2> DEFINE p == prefix[k]
             o == OfferOf(os, k)
  <2>1. prefix'[k] = IF k \notin PdKey THEN p
                     ELSE IF k \in {Pd(x.plen) : x \in os}
                          THEN IF p.exists
                               THEN PrefixAgain(p, o, ~no_delegation, cfg, st)
                               ELSE PrefixNew(o, ~no_delegation, cfg, st)
                          ELSE IF p.exists /\ ~keep THEN PrefixGone(p, cfg, st) ELSE p
    BY DEF Announce
  <2>2. PI(k, p, cfg, st, no_delegation, refresh)
    BY DEF Inv
  <2> HIDE DEF p, o
  <2>3. CASE prefix'[k] = p
    BY <2>2, <2>3, SameSelf DEF p
  <2>4. CASE k \in PdKey /\ k \in {Pd(x.plen) : x \in os}
    <3>1. o \in Offers /\ Pd(o.plen) = k
      <4>1. \E x \in os : Pd(x.plen) = k
        BY <2>4
      <4> QED
        BY <4>1 DEF OfferOf, o
    <3>2. CASE p.exists
      <4>1. prefix'[k] = PrefixAgain(p, o, ~no_delegation, cfg, st)
        BY <2>1, <2>4, <3>2
      <4> QED
        BY <1>2, <2>2, <2>4, <3>1, <3>2, <4>1, AgainPI DEF p
    <3>3. CASE ~p.exists
      <4>1. prefix'[k] = PrefixNew(o, ~no_delegation, cfg, st)
        BY <2>1, <2>4, <3>3
      <4>2. o.plen = k[2] /\ (~no_delegation) \in BOOLEAN /\ (~no_delegation) = (k \in PdKey => ~no_delegation)
        BY <2>4, <3>1 DEF Pd
      <4>3. /\ o.excl \in Exc /\ o.class \in Class /\ o.life \in {None} \cup Int
            /\ [plen |-> o.plen, excl |-> o.excl, class |-> o.class] \in Descs
        BY <3>1, OfferFacts
      <4>4. PI(k, PrefixNew(o, ~no_delegation, cfg, st), cfg, st, no_delegation, refresh)
        BY <1>2, <4>2, <4>3, NewPI
      <4> QED
        BY <2>4, <3>3, <4>1, <4>4 DEF p
    <3> QED
      BY <3>2, <3>3
  <2>5. CASE k \in PdKey /\ prefix'[k] = PrefixGone(p, cfg, st) /\ p.exists
    <3>1. prefix'[k] = NoPrefix
      BY <1>2, <2>2, <2>5, GoneIs
    <3>2. NoPrefix.exists = FALSE
      BY DEF NoPrefix
    <3> QED
      BY <2>5, <3>1, <3>2, NoPrefixPI
  <2> QED
    BY <2>1, <2>3, <2>4, <2>5
<1>4. OneUla(prefix')
  BY <1>3, UlaKept DEF Inv
<1>5. Inv'
  BY <1>1, <1>3, <1>4 DEF Inv, States
<1> QED
  BY <1>1, <1>3, <1>5 DEF Stays

\* The uplink goes down.
LEMMA UplinkDownInv == ASSUME Inv, UplinkDown PROVE Inv' /\ Stays
<1>1. UNCHANGED <<cfg, st, dyn, removing, no_delegation, refresh>> /\ wan' = FALSE
  BY DEF UplinkDown
<1>2. cfg \in Cfgs
  BY DEF Inv, States
<1>3. ASSUME NEW k \in Key
      PROVE  /\ PI(k, prefix'[k], cfg, st, no_delegation, refresh)
             /\ prefix[k].exists /\ prefix'[k].exists => SamePlaces(prefix[k].asg, prefix'[k].asg)
             /\ k \notin PdKey /\ prefix'[k].exists => prefix[k].exists
  <2>1. prefix'[k] = IF k \in PdKey /\ prefix[k].exists THEN PrefixGone(prefix[k], cfg, st) ELSE prefix[k]
    BY DEF UplinkDown
  <2>2. PI(k, prefix[k], cfg, st, no_delegation, refresh)
    BY DEF Inv
  <2>3. CASE k \in PdKey /\ prefix[k].exists
    <3>1. prefix'[k] = NoPrefix
      BY <1>2, <2>1, <2>2, <2>3, GoneIs
    <3>2. NoPrefix.exists = FALSE
      BY DEF NoPrefix
    <3> QED
      BY <3>1, <3>2, NoPrefixPI
  <2>4. CASE ~(k \in PdKey /\ prefix[k].exists)
    BY <2>1, <2>2, <2>4, SameSelf
  <2> QED
    BY <2>3, <2>4
<1>4. OneUla(prefix')
  BY <1>3, UlaKept DEF Inv
<1>5. Inv'
  BY <1>1, <1>3, <1>4 DEF Inv, States
<1> QED
  BY <1>1, <1>3, <1>5 DEF Stays

\* Time passes.
LEMMA TickInv == ASSUME Inv, Tick PROVE Inv' /\ Stays
<1>1. UNCHANGED <<cfg, st, dyn, removing, wan, no_delegation, refresh>>
  BY DEF Tick
<1>2. cfg \in Cfgs
  BY DEF Inv, States
<1>3. ASSUME NEW k \in Key
      PROVE  /\ PI(k, prefix'[k], cfg, st, no_delegation, refresh)
             /\ prefix[k].exists /\ prefix'[k].exists => SamePlaces(prefix[k].asg, prefix'[k].asg)
             /\ k \notin PdKey /\ prefix'[k].exists => prefix[k].exists
  <2> DEFINE p == prefix[k]
  <2>1. prefix'[k] = IF p.left = None THEN p
                     ELSE IF wan /\ p.left <= 0 THEN PrefixGone(p, cfg, st)
                     ELSE [p EXCEPT !.left = IF @ < 0 THEN @ ELSE @ - 1]
    BY DEF Tick
  <2>2. PI(k, p, cfg, st, no_delegation, refresh)
    BY DEF Inv
  <2> HIDE DEF p
  <2>3. CASE p.left = None
    BY <2>1, <2>2, <2>3, SameSelf DEF p
  <2>a. p.left # None => p.exists
    <3>1. NoPrefix.left = None
      BY DEF NoPrefix
    <3> QED
      BY <2>2, <3>1 DEF PI, KnownOK
  <2>4. CASE p.left # None /\ prefix'[k] = PrefixGone(p, cfg, st)
    <3>1. prefix'[k] = NoPrefix
      BY <1>2, <2>2, <2>4, <2>a, GoneIs
    <3>2. NoPrefix.exists = FALSE
      BY DEF NoPrefix
    <3> QED
      BY <3>1, <3>2, NoPrefixPI
  <2>5. CASE p.left # None /\ prefix'[k] = [p EXCEPT !.left = IF @ < 0 THEN @ ELSE @ - 1]
    BY <2>2, <2>5, <2>a, TickPI DEF p
  <2> QED
    BY <2>1, <2>3, <2>4, <2>5
<1>4. OneUla(prefix')
  BY <1>3, UlaKept DEF Inv
<1>5. Inv'
  BY <1>1, <1>3, <1>4 DEF Inv, States
<1> QED
  BY <1>1, <1>3, <1>5 DEF Stays

\* An interface that is not down has options.
LEMMA Present == ASSUME Inv, NEW i \in Iface, st[i] # "down" PROVE cfg[i] # None
  BY DEF Inv, States

\* An interface comes up.
LEMMA IfUpInv == ASSUME Inv, NEW i \in Iface, IfUp(i) PROVE Inv' /\ Stays
<1>1. UNCHANGED <<cfg, dyn, removing, wan, no_delegation, refresh>> /\ st' = [st EXCEPT ![i] = "up"]
      /\ cfg[i] # None /\ st[i] # "teardown"
  BY DEF IfUp
<1>2. st \in [Iface -> IfState]
  BY DEF Inv, States
<1> DEFINE t == [st EXCEPT ![i] = "lost"]
<1>3. t[i] = "lost" /\ st'[i] = "up" /\ Others(st, t, i) /\ Others(st, st', i)
  BY <1>1, <1>2 DEF Others
<1>4. ASSUME NEW k \in Key
      PROVE  /\ PI(k, prefix'[k], cfg, st', no_delegation, refresh)
             /\ SamePlaces(prefix[k].asg, prefix'[k].asg)
             /\ prefix'[k].exists => prefix[k].exists
  <2>1. prefix'[k] = interface_ip_set_enabled(prefix[k], cfg, t, i, TRUE)
    BY DEF IfUp
  <2>2. PI(k, prefix[k], cfg, st, no_delegation, refresh)
    BY DEF Inv
  <2> HIDE DEF t
  <2>a. cfg[i] # None
    BY <1>1
  <2>3. PI(k, prefix'[k], cfg, st', no_delegation, refresh) /\ SamePlaces(prefix[k].asg, prefix'[k].asg)
    BY <1>3, <2>1, <2>2, <2>a, UpPI
  <2>4. prefix'[k].exists => prefix[k].exists
    <3>1. CASE prefix[k].listed
      BY <2>2, <3>1, ListedExists DEF PI
    <3>2. CASE ~prefix[k].listed
      BY <2>1, <3>2 DEF interface_ip_set_enabled
    <3> QED
      BY <3>1, <3>2
  <2> QED
    BY <2>3, <2>4
<1>5. OneUla(prefix')
  BY <1>4, UlaKept DEF Inv
<1>6. States(cfg, st', dyn, removing)
  BY <1>1, <1>2 DEF Inv, States, IfState
<1>7. Inv'
  BY <1>1, <1>4, <1>5, <1>6 DEF Inv, States
<1> QED
  BY <1>4, <1>7 DEF Stays

\* An interface loses its link.
LEMMA LinkLostInv == ASSUME Inv, NEW i \in Iface, LinkLost(i) PROVE Inv' /\ Stays
<1>1. UNCHANGED <<cfg, dyn, removing, wan, no_delegation, refresh>> /\ st' = [st EXCEPT ![i] = "lost"]
      /\ st[i] = "up"
  BY DEF LinkLost
<1>2. st \in [Iface -> IfState] /\ cfg[i] # None
  BY <1>1, Present DEF Inv, States
<1>3. st'[i] # "up" /\ HasL3(st[i]) /\ Others(st, st', i)
  BY <1>1, <1>2 DEF HasL3, Others
<1>4. ASSUME NEW k \in Key
      PROVE  /\ PI(k, prefix'[k], cfg, st', no_delegation, refresh)
             /\ SamePlaces(prefix[k].asg, prefix'[k].asg)
             /\ prefix'[k].exists => prefix[k].exists
  <2>1. prefix'[k] = interface_ip_set_enabled(prefix[k], cfg, st, i, FALSE)
    BY DEF LinkLost
  <2>2. PI(k, prefix[k], cfg, st, no_delegation, refresh)
    BY DEF Inv
  <2>3. PI(k, prefix'[k], cfg, st', no_delegation, refresh) /\ SamePlaces(prefix[k].asg, prefix'[k].asg)
    BY <1>2, <1>3, <2>1, <2>2, DownPI
  <2>4. prefix'[k].exists => prefix[k].exists
    <3>1. CASE prefix[k].listed
      BY <2>2, <3>1, ListedExists DEF PI
    <3>2. CASE ~prefix[k].listed
      BY <2>1, <3>2 DEF interface_ip_set_enabled
    <3> QED
      BY <3>1, <3>2
  <2> QED
    BY <2>3, <2>4
<1>5. OneUla(prefix')
  BY <1>4, UlaKept DEF Inv
<1>6. States(cfg, st', dyn, removing)
  BY <1>1, <1>2 DEF Inv, States, IfState
<1>7. Inv'
  BY <1>1, <1>4, <1>5, <1>6 DEF Inv, States
<1> QED
  BY <1>4, <1>7 DEF Stays

\* An interface is told to go down.
LEMMA SetDownInv == ASSUME Inv, NEW i \in Iface, SetDown(i) PROVE Inv' /\ Stays
<1>1. /\ UNCHANGED <<cfg, dyn, wan, prefix, no_delegation, refresh>> /\ st' = [st EXCEPT ![i] = "teardown"]
      /\ st[i] \in {"up", "lost"} /\ removing' \subseteq removing \cup {i}
  BY DEF SetDown
<1>2. st \in [Iface -> IfState] /\ cfg[i] # None
  BY <1>1, Present DEF Inv, States
<1>3. \A n \in Iface : (HasL3(st[n]) => HasL3(st'[n])) /\ (st'[n] = "up" => st[n] = "up")
  BY <1>1, <1>2 DEF HasL3
<1>4. \A k \in Key : PI(k, prefix[k], cfg, st', no_delegation, refresh)
  <2> SUFFICES ASSUME NEW k \in Key PROVE PI(k, prefix[k], cfg, st', no_delegation, refresh)
    OBVIOUS
  <2>1. PI(k, prefix[k], cfg, st, no_delegation, refresh)
    BY DEF Inv
  <2> QED
    BY <1>3, <2>1, StatePI
<1>5. States(cfg, st', dyn, removing')
  BY <1>1, <1>2 DEF Inv, States, IfState
<1>6. Inv'
  BY <1>1, <1>4, <1>5 DEF Inv
<1> QED
  BY <1>1, <1>6, SameSelf DEF Stays

\* An interface is down; one that is to be removed is no more.
LEMMA IfDownInv == ASSUME Inv, NEW i \in Iface, IfDown(i) PROVE Inv' /\ Stays
<1>1. /\ UNCHANGED <<wan, no_delegation, refresh>> /\ st' = [st EXCEPT ![i] = "down"]
      /\ st[i] = "teardown" /\ cfg' = [cfg EXCEPT ![i] = IF i \in removing THEN None ELSE cfg[i]]
      /\ dyn' = (IF i \in removing THEN dyn \ {i} ELSE dyn) /\ removing' = removing \ {i}
  BY DEF IfDown
<1>2. st \in [Iface -> IfState] /\ cfg[i] # None /\ cfg \in Cfgs
  BY <1>1, Present DEF Inv, States
<1>3. st'[i] # "up" /\ HasL3(st[i]) /\ Others(st, st', i)
  BY <1>1, <1>2 DEF HasL3, Others
<1> DEFINE gone == removing \cap {i}
<1>4. /\ \A n \in gone : cfg'[n] = None
      /\ \A n \in Iface \ gone : cfg'[n] = cfg[n]
  BY <1>1, <1>2 DEF Cfgs
<1>5. ASSUME NEW k \in Key
      PROVE  /\ PI(k, prefix'[k], cfg', st', no_delegation, refresh)
             /\ SamePlaces(prefix[k].asg, prefix'[k].asg)
             /\ prefix'[k].exists => prefix[k].exists
  <2> DEFINE q == interface_ip_set_enabled(prefix[k], cfg, st, i, FALSE)
  <2>1. prefix'[k] = Forget(q, gone)
    BY DEF IfDown
  <2>2. PI(k, prefix[k], cfg, st, no_delegation, refresh)
    BY DEF Inv
  <2>a. q = interface_ip_set_enabled(prefix[k], cfg, st, i, FALSE)
    OBVIOUS
  <2> HIDE DEF q
  <2>3. /\ PI(k, q, cfg, st', no_delegation, refresh) /\ SamePlaces(prefix[k].asg, q.asg)
        /\ Without(q, {i})
    BY <1>2, <1>3, <2>2, <2>a, DownPI
  <2>4. q.exists => prefix[k].exists
    <3>1. CASE prefix[k].listed
      BY <2>2, <3>1, ListedExists DEF PI
    <3>2. CASE ~prefix[k].listed
      BY <2>a, <3>2 DEF interface_ip_set_enabled
    <3> QED
      BY <3>1, <3>2
  <2>5. Without(q, gone)
    BY <2>3 DEF Without
  <2> HIDE DEF gone
  <2>6. PI(k, Forget(q, gone), cfg', st', no_delegation, refresh) /\ SamePlaces(q.asg, Forget(q, gone).asg)
    BY <1>4, <2>3, <2>5, ForgetPI
  <2>7. SamePlaces(prefix[k].asg, prefix'[k].asg)
    BY <2>1, <2>3, <2>6 DEF SamePlaces
  <2>8. prefix'[k].exists => q.exists
    BY <2>1, <2>3 DEF Forget, PI, PRec
  <2> QED
    BY <2>1, <2>4, <2>6, <2>7, <2>8
<1>6. OneUla(prefix')
  BY <1>5, UlaKept DEF Inv
<1>7. cfg' \in Cfgs
  BY <1>1, <1>2 DEF Cfgs, Opts
<1>8. States(cfg', st', dyn', removing')
  <2>1. \A n \in Iface : cfg'[n] = None => st'[n] = "down" /\ n \notin dyn'
    BY <1>1, <1>2, <1>4 DEF Inv, States
  <2>2. st' \in [Iface -> IfState]
    BY <1>1, <1>2 DEF IfState
  <2>3. removing' \subseteq {n \in Iface : st'[n] = "teardown"}
    BY <1>1, <1>3 DEF Inv, States, Others
  <2>4. dyn' \subseteq Iface
    BY <1>1 DEF Inv, States
  <2> QED
    BY <1>7, <2>1, <2>2, <2>3, <2>4 DEF States
<1>9. Inv'
  BY <1>1, <1>5, <1>6, <1>8 DEF Inv
<1> QED
  BY <1>5, <1>9 DEF Stays

\* A ubus client adds an interface.
LEMMA AddDynamicInv == ASSUME Inv, NEW e \in Dynamic, AddDynamic(e[1], e[2]) PROVE Inv' /\ Stays
<1> DEFINE i == e[1]
           a == e[2]
           due == refresh \/ interface_merge_assignment_data(cfg, [cfg EXCEPT ![i] = a]) # {}
<1>1. /\ UNCHANGED <<st, removing, wan, prefix, no_delegation>> /\ cfg' = [cfg EXCEPT ![i] = a]
      /\ dyn' = dyn \cup {i} /\ refresh' = due
  BY DEF AddDynamic
<1>2. i \in Iface /\ a # None /\ a \in Opts(i)
  BY PrefixAssumption DEF Opts
<1>3. cfg \in Cfgs /\ cfg \in [Iface -> UNION {Opts(n) : n \in Iface}] /\ refresh \in BOOLEAN
  BY DEF Inv, States, Cfgs
<1> HIDE DEF i, a
<1>4. cfg' \in Cfgs
  BY <1>1, <1>2, <1>3 DEF Cfgs
<1>5. cfg'[i] = a /\ \A n \in Iface \ {i} : cfg'[n] = cfg[n]
  BY <1>1, <1>2, <1>3
<1>6. ASSUME NEW n \in Iface
      PROVE  /\ cfg[n] = None => st[n] # "up"
             /\ cfg[n] # None => cfg'[n] # None /\ (~due => cfg'[n] = cfg[n])
  <2>1. cfg[n] = None => st[n] # "up"
    BY DEF Inv, States
  <2>2. cfg[n] # None => cfg'[n] # None
    BY <1>2, <1>5
  <2>3. ASSUME cfg[n] # None, ~due PROVE cfg'[n] = cfg[n]
    <3>1. interface_merge_assignment_data(cfg, cfg') = {}
      BY <1>1, <2>3
    <3> QED
      BY <2>2, <2>3, <3>1 DEF interface_merge_assignment_data
  <2> QED
    BY <2>1, <2>2, <2>3
<1>7. due \in BOOLEAN /\ (~due => ~refresh)
  BY <1>3
<1> HIDE DEF due
<1>8. \A k \in Key : PI(k, prefix[k], cfg', st, no_delegation, due)
  <2> SUFFICES ASSUME NEW k \in Key PROVE PI(k, prefix[k], cfg', st, no_delegation, due)
    OBVIOUS
  <2>1. PI(k, prefix[k], cfg, st, no_delegation, refresh)
    BY DEF Inv
  <2> QED
    BY <1>3, <1>6, <1>7, <2>1, ConfigPI
<1>9. States(cfg', st, dyn', removing)
  BY <1>1, <1>2, <1>4, <1>5 DEF Inv, States
<1>10. Inv'
  BY <1>1, <1>7, <1>8, <1>9 DEF Inv
<1> QED
  BY <1>1, <1>10, SameSelf DEF Stays

\* The configuration is loaded.
LEMMA ReloadInv ==
  ASSUME Inv, NEW new \in Configs, NEW l \in Ulas, NEW nd \in BOOLEAN, NEW quick \in BOOLEAN,
         Reload(new, l, nd, quick)
  PROVE  Inv' /\ Stays
<1> DEFINE changed == interface_merge_assignment_data(cfg, new)
           c == [i \in Iface |-> IF new[i] # None THEN new[i] ELSE cfg[i]]
           drop == {i \in Iface : new[i] = None /\ cfg[i] # None /\ i \notin dyn}
           freed == {i \in drop : st[i] = "down" \/ quick}
           c2 == [i \in Iface |-> IF i \in freed THEN None ELSE c[i]]
           s2 == [i \in Iface |-> IF i \in freed THEN "down"
                                  ELSE IF i \in drop THEN "teardown" ELSE st[i]]
           due == refresh \/ changed # {}
           p1(k) == interface_update_prefix_delegation(k, prefix[k], c, nd)
           p2(k) == interface_ip_set_ula_prefix(k, p1(k), c, l)
           p3(k) == IF p2(k).listed THEN DelAddresses(p2(k), c, st, freed) ELSE p2(k)
           p4(k) == Forget(p3(k), freed)
<1>1. /\ cfg' = c2 /\ st' = s2 /\ dyn' = {i \in dyn : new[i] = None}
      /\ removing' = (removing \cup drop) \ freed /\ no_delegation' = nd /\ refresh' = FALSE
      /\ wan' = wan
  BY DEF Reload
<1>2. \A k \in Key : prefix'[k] = interface_refresh_assignments(p4(k), c2, s2, due)
  BY DEF Reload
<1>3. /\ cfg \in Cfgs /\ cfg \in [Iface -> UNION {Opts(i) : i \in Iface}]
      /\ \A i \in Iface : cfg[i] \in Opts(i)
      /\ st \in [Iface -> IfState] /\ dyn \subseteq Iface
      /\ removing \subseteq {i \in Iface : st[i] = "teardown"}
      /\ \A i \in Iface : cfg[i] = None => st[i] = "down" /\ i \notin dyn
      /\ no_delegation \in BOOLEAN /\ refresh \in BOOLEAN /\ wan \in BOOLEAN
  BY DEF Inv, States, Cfgs
<1>4. c \in Cfgs
  <2>1. \A i \in Iface : c[i] \in Opts(i)
    BY <1>3 DEF Opts
  <2>2. c \in [Iface -> UNION {Opts(i) : i \in Iface}]
    BY <1>3 DEF Opts
  <2> HIDE DEF c
  <2> QED
    BY <2>1, <2>2 DEF Cfgs
<1>5. \A i \in Iface : c[i] = IF new[i] # None THEN new[i] ELSE cfg[i]
  OBVIOUS
<1> HIDE DEF c
<1>6. /\ drop \subseteq Iface /\ freed \subseteq drop
      /\ \A i \in drop : new[i] = None /\ cfg[i] # None /\ i \notin dyn
      /\ \A i \in drop \ freed : st[i] # "down"
  OBVIOUS
<1> HIDE DEF drop, freed
<1>7. c2 \in Cfgs
  <2>1. \A i \in Iface : None \in Opts(i) /\ c[i] \in Opts(i)
    BY <1>4 DEF Opts, Cfgs
  <2>2. \A i \in Iface : c2[i] \in Opts(i)
    BY <2>1
  <2>3. c2 \in [Iface -> UNION {Opts(i) : i \in Iface}]
    BY <2>1
  <2> HIDE DEF c2
  <2> QED
    BY <2>2, <2>3 DEF Cfgs
<1>8. /\ \A i \in freed : c2[i] = None /\ s2[i] = "down"
      /\ \A i \in Iface \ freed : c2[i] = c[i]
      /\ \A i \in Iface : i \in drop \ freed => s2[i] = "teardown"
      /\ \A i \in Iface : i \notin drop => s2[i] = st[i]
  BY <1>6
<1>9. s2 \in [Iface -> IfState]
  BY <1>3 DEF IfState
<1> HIDE DEF c2, s2
<1>10. States(c2, s2, dyn', removing')
  <2>1. ASSUME NEW i \in Iface, c2[i] = None PROVE s2[i] = "down" /\ i \notin dyn'
    <3>1. CASE i \in freed
      BY <1>1, <1>6, <1>8, <3>1
    <3>2. CASE i \notin freed
      <4>1. c[i] = None /\ cfg[i] = None
        BY <1>5, <1>8, <2>1, <3>2
      <4>2. i \notin drop
        BY <1>6, <4>1
      <4> QED
        BY <1>1, <1>3, <1>8, <4>1, <4>2
    <3> QED
      BY <3>1, <3>2
  <2>2. removing' \subseteq {i \in Iface : s2[i] = "teardown"}
    <3> SUFFICES ASSUME NEW i \in removing' PROVE i \in Iface /\ s2[i] = "teardown"
      OBVIOUS
    <3>1. i \in removing \cup drop /\ i \notin freed
      BY <1>1
    <3>2. CASE i \in drop
      BY <1>6, <1>8, <3>1, <3>2
    <3>3. CASE i \notin drop
      BY <1>3, <1>8, <3>1, <3>3
    <3> QED
      BY <3>2, <3>3
  <2>3. dyn' \subseteq Iface
    BY <1>1, <1>3
  <2> QED
    BY <1>7, <1>9, <2>1, <2>2, <2>3 DEF States
<1>11. \A n \in Iface : /\ cfg[n] = None => st[n] # "up"
                        /\ cfg[n] # None => c[n] # None /\ (~due => c[n] = cfg[n])
  BY <1>3, <1>5 DEF interface_merge_assignment_data
<1>12. due \in BOOLEAN /\ (~due => ~refresh)
  BY <1>3
<1>13. \A n \in freed : s2[n] # "up"
  BY <1>8
<1>14. ASSUME NEW n \in Iface \ freed
       PROVE  /\ c2[n] = c[n] /\ (HasL3(st[n]) => HasL3(s2[n]))
              /\ s2[n] = "up" => st[n] = "up"
  BY <1>8 DEF HasL3
<1> HIDE DEF due
<1>15. ASSUME NEW k \in Key
       PROVE  /\ PI(k, p1(k), c, st, nd, due) /\ PI(k, p2(k), c, st, nd, due)
              /\ PI(k, p4(k), c2, s2, nd, due)
              /\ nd = no_delegation => p1(k) = prefix[k]
              /\ p1(k).exists /\ p2(k).exists => p2(k) = p1(k)
              /\ k \notin PdKey => p2(k).exists = (k = Ula(l))
              /\ SamePlaces(p2(k).asg, p4(k).asg) /\ p4(k).exists = p2(k).exists
  <2>1. PI(k, prefix[k], cfg, st, no_delegation, refresh)
    BY DEF Inv
  <2>2. PI(k, prefix[k], c, st, no_delegation, due)
    BY <1>3, <1>11, <1>12, <2>1, ConfigPI
  <2>3. PI(k, p1(k), c, st, nd, due) /\ (nd = no_delegation => p1(k) = prefix[k])
    BY <1>3, <1>4, <2>2, DelegationPI
  <2> HIDE DEF p1
  <2>4. /\ PI(k, p2(k), c, st, nd, due) /\ (p1(k).exists /\ p2(k).exists => p2(k) = p1(k))
        /\ k \notin PdKey => p2(k).exists = (k = Ula(l))
    BY <1>4, <2>3, UlaPI
  <2> HIDE DEF p2
  <2>5. PI(k, p3(k), c, s2, nd, due) /\ SamePlaces(p2(k).asg, p3(k).asg) /\ Without(p3(k), freed)
    BY <1>13, <1>14, <2>4, FreePI
  <2>6. p3(k).exists = p2(k).exists
    BY <2>4 DEF DelAddresses, PI, PRec
  <2> HIDE DEF p3
  <2>7. PI(k, p4(k), c2, s2, nd, due) /\ SamePlaces(p3(k).asg, p4(k).asg)
    BY <1>8, <1>14, <2>5, ForgetPI
  <2>8. p4(k).exists = p3(k).exists
    BY <2>5 DEF Forget, PI, PRec
  <2>9. SamePlaces(p2(k).asg, p4(k).asg)
    BY <2>5, <2>7 DEF SamePlaces
  <2> QED
    BY <2>3, <2>4, <2>6, <2>7, <2>8, <2>9
<1> HIDE DEF p1, p2, p3, p4
<1>16. ASSUME NEW k \in Key
       PROVE  /\ PI(k, prefix'[k], c2, s2, nd, FALSE)
              /\ k \notin PdKey /\ prefix'[k].exists => k = Ula(l)
  <2>1. prefix'[k] = interface_refresh_assignments(p4(k), c2, s2, due)
    BY <1>2
  <2>2. PI(k, p4(k), c2, s2, nd, due)
    BY <1>15
  <2>3. PI(k, prefix'[k], c2, s2, nd, FALSE)
    BY <1>7, <1>12, <2>1, <2>2, RefreshPI
  <2>4. prefix'[k].exists => p4(k).exists
    <3>1. CASE p4(k).listed
      BY <2>2, <3>1, ListedExists DEF PI
    <3>2. CASE ~p4(k).listed
      BY <2>1, <3>2 DEF interface_refresh_assignments
    <3> QED
      BY <3>1, <3>2
  <2> QED
    BY <1>15, <2>3, <2>4
<1>17. OneUla(prefix')
  BY <1>16, KeyFacts DEF OneUla
<1>18. Inv'
  BY <1>1, <1>3, <1>10, <1>16, <1>17 DEF Inv
<1>19. Stays
  <2> SUFFICES ASSUME NEW k \in Key, prefix[k].exists, prefix'[k].exists,
                      cfg' = cfg, no_delegation' = no_delegation, refresh' = refresh
               PROVE  SamePlaces(prefix[k].asg, prefix'[k].asg)
    BY DEF Stays
  <2>1. freed = {}
    BY <1>1, <1>6, <1>8
  <2>2. changed = {}
    BY <1>1, <1>5, <1>8, <2>1 DEF interface_merge_assignment_data
  <2>3. ~due
    BY <1>1, <2>2 DEF due
  <2>4. prefix'[k] = p4(k)
    BY <1>2, <2>3 DEF interface_refresh_assignments
  <2>5. p1(k) = prefix[k] /\ p2(k) = p1(k)
    BY <1>1, <1>15, <2>4
  <2> QED
    BY <1>15, <2>4, <2>5
<1> QED
  BY <1>18, <1>19

\* Every step keeps the invariant, and the subprefixes of a prefix that stays.
LEMMA NextInv == ASSUME Inv, [Next]_vars PROVE Inv' /\ Stays
<1>1. CASE UNCHANGED vars
  <2>1. UNCHANGED <<cfg, st, dyn, removing, wan, prefix, no_delegation, refresh>>
    BY <1>1 DEF vars
  <2>2. Inv'
    BY <2>1 DEF Inv
  <2> QED
    BY <2>1, <2>2, SameSelf DEF Stays
<1>2. ASSUME NEW os \in Announced, NEW keep \in BOOLEAN, Announce(os, keep) PROVE Inv' /\ Stays
  BY <1>2, AnnounceInv DEF Announced
<1>3. CASE UplinkUp
  <2>1. UNCHANGED <<cfg, st, dyn, removing, prefix, no_delegation, refresh>> /\ wan' = TRUE
    BY <1>3 DEF UplinkUp
  <2>2. Inv'
    BY <2>1 DEF Inv
  <2> QED
    BY <2>1, <2>2, SameSelf DEF Stays
<1>4. CASE UplinkDown
  BY <1>4, UplinkDownInv
<1>5. CASE Tick
  BY <1>5, TickInv
<1>6. ASSUME NEW i \in Iface, IfUp(i) \/ LinkLost(i) \/ SetDown(i) \/ IfDown(i) PROVE Inv' /\ Stays
  BY <1>6, IfUpInv, LinkLostInv, SetDownInv, IfDownInv
<1>7. ASSUME NEW e \in Dynamic, AddDynamic(e[1], e[2]) PROVE Inv' /\ Stays
  BY <1>7, AddDynamicInv
<1>8. CASE DoReload
  BY <1>8, ReloadInv DEF DoReload
<1> QED
  BY <1>1, <1>2, <1>3, <1>4, <1>5, <1>6, <1>7, <1>8 DEF Next

-----------------------------------------------------------------------------
\* The inductive invariant holds always.
LEMMA InvAlways == Spec => []Inv
<1>1. Init => Inv
  BY InitInv
<1>2. Inv /\ [Next]_vars => Inv'
  BY NextInv
<1> QED
  BY <1>1, <1>2, PTL DEF Spec

\* The invariant implies that the lists are sound.
LEMMA InvDisjoint == Inv => AssignmentsDisjoint
<1> SUFFICES ASSUME Inv PROVE AssignmentsDisjoint
  OBVIOUS
<1>1. TypeOK
  <2>1. \A k \in Key : ~prefix[k].exists =>
          prefix[k] = [NoPrefix EXCEPT !.addrs = prefix[k].addrs, !.null = prefix[k].null]
    <3> SUFFICES ASSUME NEW k \in Key, ~prefix[k].exists
                 PROVE  prefix[k] = [NoPrefix EXCEPT !.addrs = prefix[k].addrs, !.null = prefix[k].null]
      OBVIOUS
    <3>1. prefix[k] = NoPrefix
      BY DEF Inv, PI, KnownOK
    <3>2. NoPrefix = [NoPrefix EXCEPT !.addrs = NoPrefix.addrs, !.null = NoPrefix.null]
      BY DEF NoPrefix
    <3> QED
      BY <3>1, <3>2
  <2> QED
    BY <2>1 DEF Inv, States, IfState, TypeOK
<1>2. Disjoint
  <2> SUFFICES ASSUME NEW k \in Computed
               PROVE  LET e == Entries(prefix[k])
                      IN  /\ \A j \in DOMAIN e :
                               e[j].name # "!excluded" =>
                                 /\ e[j].assigned % Size(e[j]) = 0
                                 /\ k[2] > 33 => e[j].assigned >= 0
                                                 /\ e[j].assigned + Size(e[j]) <= 2 ^ (64 - k[2])
                          /\ \A j, n \in DOMAIN e : j < n => e[j].assigned + Size(e[j]) <= e[n].assigned
    BY DEF Disjoint
  <2> DEFINE p == prefix[k]
             a == p.asg
             e == Entries(p)
             L == Shl(64 - p.plen)
  <2>1. Good(a, L) /\ p.plen = k[2] /\ p.plen \in 1 .. 64
    BY DEF Computed, Inv, PI, KnownOK, BasisOK, PRec
  <2>2. a \in Seq(Ent) /\ Len(a) \in Nat /\ Len(a) >= 1
    BY <2>1 DEF Good
  <2>3. e = SubSeq(a, 1, Len(a) - 1)
    BY DEF Entries
  <2> HIDE DEF a, e
  <2>4. DOMAIN e = 1 .. (Len(a) - 1) /\ \A j \in 1 .. (Len(a) - 1) : e[j] = a[j]
    <3>1. \A j \in 1 .. (Len(a) - 1) : j \in 1 .. Len(a)
      BY <2>2
    <3> QED
      BY <2>2, <2>3, <3>1
  <2>5. k[2] > 33 => L = 2 ^ (64 - k[2])
    <3> SUFFICES ASSUME k[2] > 33 PROVE L = 2 ^ (64 - k[2])
      OBVIOUS
    <3>1. 64 - p.plen \in 0 .. 30
      BY <2>1
    <3>2. Shl(64 - p.plen) = 2 ^ (64 - p.plen)
      BY <3>1, ShlFacts
    <3> QED
      BY <2>1, <3>2
  <2> HIDE DEF L, p
  <2>6. ASSUME NEW j \in DOMAIN e, e[j].name # "!excluded"
        PROVE  /\ e[j].assigned % Size(e[j]) = 0
               /\ k[2] > 33 => e[j].assigned >= 0 /\ e[j].assigned + Size(e[j]) <= 2 ^ (64 - k[2])
    <3>1. Placeable(e[j], L)
      BY <2>1, <2>4 DEF Good
    <3>2. e[j] \in Ent
      BY <2>2, <2>4
    <3>3. /\ e[j].assigned % Size(e[j]) = 0 /\ e[j].assigned + Size(e[j]) <= L /\ 0 <= e[j].assigned
          /\ e[j].assigned \in Int
      BY <2>6, <3>1, <3>2 DEF Placeable, Ent
    <3> QED
      BY <2>5, <3>3
  <2>7. \A j, n \in DOMAIN e : j < n => e[j].assigned + Size(e[j]) <= e[n].assigned
    BY <2>1, <2>4 DEF Good
  <2> QED
    BY <2>6, <2>7 DEF e, p
<1> QED
  BY <1>1, <1>2 DEF AssignmentsDisjoint

\* The invariant implies that the kernel follows.
LEMMA InvFollows == Inv => KernelFollows
<1> SUFFICES ASSUME Inv PROVE KernelFollows
  OBVIOUS
<1>1. RefreshApplied
  BY DEF RefreshApplied, Computed, Inv, PI, BasisOK
<1>2. NoAddressLeaks
  BY DEF NoAddressLeaks, Inv, PI, AddrOK
<1>3. UpHasAddress
  BY DEF UpHasAddress, Inv, PI, UpOK, Within
<1>4. NullRouted
  <2>1. \A k \in Key : prefix[k].null = prefix[k].exists
    BY DEF Inv, PI, KnownOK
  <2> QED
    BY <2>1 DEF NullRouted, Inv, OneUla
<1> QED
  BY <1>1, <1>2, <1>3, <1>4 DEF KernelFollows

\* The invariant implies that the assignments are fair.
LEMMA InvFair == Inv => AssignmentsFair
<1> SUFFICES ASSUME Inv, NEW k \in Computed,
                    NEW p, p = prefix[k], NEW c, c = p.basis.cfg, NEW L, L = Shl(64 - p.plen)
             PROVE  /\ k[2] > 33 => \A i \in Iface :
                         (Eligible(c[i], p.basis) /\ i \notin Placed(Entries(p))) =>
                           \A x \in 0..(2 ^ (64 - k[2]) - 1) :
                             \E j \in DOMAIN Entries(p) :
                               x \in Entries(p)[j].assigned..(Entries(p)[j].assigned + Size(Entries(p)[j]) - 1)
                    /\ k[2] > 33 => \A i \in Iface :
                         (Eligible(c[i], p.basis) /\ c[i].hint # -1) =>
                           LET w == Wanted(c, i)
                           IN  \/ \E j \in DOMAIN p.asg : Address(p.asg[j]) = Address(w)
                               \/ w.assigned < 0 \/ w.assigned + Size(w) > 2 ^ (64 - k[2])
                               \/ \E j \in DOMAIN p.asg :
                                    /\ p.asg[j].name = "!excluded"
                                       \/ (/\ p.asg[j].name \in Iface /\ Rank(p.asg[j].name) < Rank(i)
                                           /\ Address(p.asg[j]) = Address(Wanted(c, p.asg[j].name)))
                                    /\ ~Apart(p.asg[j], w)
                    /\ \A i \in Iface :
                         (Eligible(c[i], p.basis) /\ i \notin Placed(p.asg)) =>
                           \A j \in DOMAIN p.asg :
                             (p.asg[j].name \in Iface /\ c[p.asg[j].name] # None
                              /\ p.asg[j].assigned # Wanted(c, p.asg[j].name).assigned) =>
                                LET a == c[p.asg[j].name]
                                IN  a.len < c[i].len \/ (a.len = c[i].len /\ a.weight >= c[i].weight)
  BY DEF AssignmentsFair, NoneLeftOut, HintKept, HeavierFirst
<1> DEFINE l == p.asg
           e == Entries(p)
<1>1. /\ Good(l, L) /\ FairList(l, c, p.basis.class, L) /\ p.plen = k[2] /\ p.plen \in 1 .. 64
      /\ p.basis \in Basis
  BY DEF Computed, Inv, PI, KnownOK, BasisOK, PRec
<1>2. c \in Cfgs /\ L \in Int
  <2>1. 64 - p.plen \in Nat
    BY <1>1
  <2> QED
    BY <1>1, <2>1, ShlInt DEF Basis
<1>3. l \in Seq(Ent) /\ Len(l) \in Nat /\ Len(l) >= 1 /\ DOMAIN l = 1 .. Len(l)
  BY <1>1, GoodTypes
<1>4. e = SubSeq(l, 1, Len(l) - 1)
  BY DEF Entries
<1>5. k[2] > 33 => L = 2 ^ (64 - k[2])
  <2> SUFFICES ASSUME k[2] > 33 PROVE L = 2 ^ (64 - k[2])
    OBVIOUS
  <2>1. 64 - p.plen \in 0 .. 30
    BY <1>1
  <2>2. Shl(64 - p.plen) = 2 ^ (64 - p.plen)
    BY <2>1, ShlFacts
  <2> QED
    BY <1>1, <2>2
<1> HIDE DEF l, e
<1>6. DOMAIN e = 1 .. (Len(l) - 1) /\ \A j \in 1 .. (Len(l) - 1) : e[j] = l[j] /\ j \in 1 .. Len(l)
  <2>1. \A j \in 1 .. (Len(l) - 1) : j \in 1 .. Len(l)
    BY <1>3
  <2> QED
    BY <1>3, <1>4, <2>1
<1>7. \A i : AsksOf(c[i], p.basis.class) <=> Eligible(c[i], p.basis)
  BY DEF AsksOf, Eligible
<1>8. \A x \in Body(l) : \E j \in DOMAIN l : x = l[j]
  BY <1>3, <1>6 DEF Body
<1>9. \A i \in Iface : i \in Placed(l) => i \in Served(l)
  <2> SUFFICES ASSUME NEW i \in Iface, NEW j \in DOMAIN l, l[j].name = i PROVE i \in Served(l)
    BY DEF Placed
  <2>1. l[Len(l)].name = "" /\ i # ""
    BY <1>1, PrefixAssumption DEF FairList
  <2>2. j # Len(l)
    BY <2>1
  <2>3. j \in 1 .. (Len(l) - 1)
    BY <1>3, <2>2
  <2> QED
    BY <2>3 DEF Served, Body
<1>10. Placed(e) = Served(l) /\ Served(l) \subseteq Placed(l)
  BY <1>3, <1>6 DEF Placed, Served, Body
<1>11. ASSUME k[2] > 33, NEW i \in Iface, Eligible(c[i], p.basis), i \notin Placed(e),
              NEW x \in 0..(2 ^ (64 - k[2]) - 1)
       PROVE  \E j \in DOMAIN e : x \in e[j].assigned..(e[j].assigned + Size(e[j]) - 1)
  <2>1. Full(l)
    BY <1>1, <1>7, <1>10, <1>11 DEF FairList
  <2>2. x \in 0 .. (L - 1)
    BY <1>5, <1>11
  <2>3. PICK j \in 1 .. (Len(l) - 1) : x \in l[j].assigned .. (l[j].assigned + Size(l[j]) - 1)
    BY <1>1, <1>2, <2>1, <2>2, FullCovers
  <2> QED
    BY <1>6, <2>3
<1>12. ASSUME k[2] > 33, NEW i \in Iface, Eligible(c[i], p.basis), c[i].hint # -1
       PROVE  LET w == Wanted(c, i)
              IN  \/ \E j \in DOMAIN l : Address(l[j]) = Address(w)
                  \/ w.assigned < 0 \/ w.assigned + Size(w) > 2 ^ (64 - k[2])
                  \/ \E j \in DOMAIN l :
                       /\ l[j].name = "!excluded"
                          \/ (/\ l[j].name \in Iface /\ Rank(l[j].name) < Rank(i)
                              /\ Address(l[j]) = Address(Wanted(c, l[j].name)))
                       /\ ~Apart(l[j], w)
  <2>1. HintOK(Body(l), c, i, L)
    BY <1>1, <1>7, <1>12 DEF FairList
  <2> QED
    BY <1>5, <1>8, <1>12, <2>1 DEF HintOK, HintEntry
<1>13. ASSUME NEW i \in Iface, Eligible(c[i], p.basis), i \notin Placed(l),
              NEW j \in DOMAIN l, l[j].name \in Iface, c[l[j].name] # None,
              l[j].assigned # Wanted(c, l[j].name).assigned
       PROVE  LET a == c[l[j].name]
              IN  a.len < c[i].len \/ (a.len = c[i].len /\ a.weight >= c[i].weight)
  <2>1. j \in 1 .. (Len(l) - 1)
    <3>1. l[Len(l)].name = "" /\ l[j].name # ""
      BY <1>1, <1>13, PrefixAssumption DEF FairList
    <3>2. j # Len(l)
      BY <3>1
    <3> QED
      BY <1>3, <3>2
  <2>2. l[j] \in Body(l)
    BY <2>1 DEF Body
  <2>3. prefix_assignment_cmp(c, l[j].name, i)
    BY <1>1, <1>7, <1>10, <1>13, <2>2 DEF FairList
  <2>4. c[i].weight \in Int /\ c[l[j].name].weight \in Int
    <3>1. c[i] # None
      BY <1>13 DEF Eligible
    <3> QED
      BY <1>2, <1>13, <3>1, CfgFacts DEF IsOption
  <2> QED
    BY <2>3, <2>4 DEF prefix_assignment_cmp
<1> QED
  BY <1>11, <1>12, <1>13 DEF l, e

\* interface_prefix_assign() and the loops around it (interface-ip.c) hand out aligned
\* subprefixes inside the prefix that overlap neither each other nor the excluded part,
\* for any set of interfaces, options, prefixes and any sequence of announcements,
\* reloads and interface events.
THEOREM AssignmentsAreDisjoint == Spec => []AssignmentsDisjoint
  BY InvAlways, InvDisjoint, PTL

\* An interface gets the subprefix of its hint unless an earlier interface, the excluded
\* part or the end of the prefix is in the way; one that is left without a subprefix
\* finds not one /64 free, and has come after those that found room
\* (interface_update_prefix_assignments(), interface_prefix_assign(),
\* prefix_assignment_cmp()), for any set of interfaces, options and prefixes.
THEOREM AssignmentsAreFair == Spec => []AssignmentsFair
  BY InvAlways, InvFair, PTL

\* The addresses in the kernel are those of the enabled entries, none is left behind
\* when an assignment, a prefix or an interface goes (interface_set_prefix_address(),
\* interface_update_prefix_assignments()), interfaces that are up have theirs, and the
\* options in force are those of the assignments.
THEOREM KernelFollowsAlways == Spec => []KernelFollows
  BY InvAlways, InvFollows, PTL

\* Announcing a prefix again, time and what the interfaces do move no subprefix
\* (interface_update_prefix()).
THEOREM PlacesAlwaysStay == Spec => PlacesStay
<1>1. Inv /\ [Next]_vars =>
        [\A k \in Key :
           (/\ prefix[k].exists /\ prefix'[k].exists
            /\ cfg' = cfg /\ no_delegation' = no_delegation /\ refresh' = refresh) =>
              {Address(prefix[k].asg[j]) : j \in DOMAIN prefix[k].asg}
              = {Address(prefix'[k].asg[j]) : j \in DOMAIN prefix'[k].asg}]_vars
  <2> SUFFICES ASSUME Inv, [Next]_vars, NEW k \in Key, prefix[k].exists, prefix'[k].exists,
                      cfg' = cfg, no_delegation' = no_delegation, refresh' = refresh
               PROVE  {Address(prefix[k].asg[j]) : j \in DOMAIN prefix[k].asg}
                      = {Address(prefix'[k].asg[j]) : j \in DOMAIN prefix'[k].asg}
    OBVIOUS
  <2>1. Stays
    BY NextInv
  <2>2. SamePlaces(prefix[k].asg, prefix'[k].asg)
    BY <2>1 DEF Stays
  <2> QED
    BY <2>2, PlacesSame
<1> QED
  BY <1>1, InvAlways, PTL DEF Spec, PlacesStay
=============================================================================
