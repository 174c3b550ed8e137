------------------------------ MODULE IpProofs ------------------------------
(***************************************************************************)
(* What holds of the addresses, routes, neighbours and policy rules of     *)
(* interface-ip.c for all announcements, configurations and refusals, and  *)
(* whatever the searches of a tree out of order meet: AddressesMatch,      *)
(* RoutesMatch and TargetVia.                                              *)
(*                                                                         *)
(* The functions of the code are operators from a state to a state, and    *)
(* the invariant is an operator on states.  Core relates each list to the  *)
(* kernel and holds after every function, whatever the settings are.       *)
(* Settled adds what holds of the settings the interface has now (current  *)
(* metric and table, the option "defaultroute", entries on or off with the *)
(* interface); between a change of the settings and the end of             *)
(* interface_change_config() only Core holds.  Inv adds what goes with     *)
(* the layer 3 device and with being up; Resting says it of the variables  *)
(* and is the inductive invariant.                                         *)
(*                                                                         *)
(* An address goes to the kernel in four calls.  Between them some of what *)
(* the entry needs is missing, or some of what it had is too many:         *)
(* AddrBut, NullBut, RulesBut and RoutesBut say what, and each call        *)
(* settles its part and leaves the others.  A list is walked by a pass     *)
(* (Iteration): what is pending in it loses the element whose turn it is.  *)
(***************************************************************************)
EXTENDS Ip, Iteration, SequenceTheorems, FiniteSetTheorems, TLAPS

-----------------------------------------------------------------------------
(***************************************************************************)
(* Types.                                                                  *)
(***************************************************************************)
EntryType == [id : STRING, idx : Nat, v6 : BOOLEAN, off : BOOLEAN, left : Maybe(Int), ptp : Nat,
              enabled : BOOLEAN, failed : BOOLEAN, ptab : Nat, sub : Maybe(SubnetType)]

\* The names of entries.
NodeType == (DOMAIN Mask) \X Maybe(Nat) \X Maybe(Nat) \X Nat

RouteLists == {"route", "croute", "hroute"}

NeighEntryType == [id : STRING, mac : Nat, enabled : BOOLEAN]

KAddrType == [id : STRING, left : Maybe(Int)]

KRouteType == (STRING \cup DOMAIN Mask) \X Nat \X Nat \X (STRING \cup {None})

IfRuleType == {<<"fail">>} \cup ({"lo"} \X Nat)

RuleType == IfRuleType \cup ({"addr"} \X STRING \X Nat)

Kinds == {"addr", "null", "rule", "route"}

HistoryType == Kinds \X (STRING \cup KRouteType \cup RuleType)

StateType ==
  [l3 : BOOLEAN, up : BOOLEAN, enabled : BOOLEAN, set : SetType, addr : SUBSET EntryType,
   route : SUBSET RouteEntryType, neigh : SUBSET NeighEntryType, croute : SUBSET RouteEntryType,
   hroute : SUBSET RouteEntryType, policy_rules_set : BOOLEAN, kaddr : SUBSET KAddrType,
   kroute : SUBSET KRouteType, knull : SUBSET STRING, krule : SUBSET RuleType,
   kneigh : SUBSET NeighType, lost : SUBSET HistoryType, orphans : SUBSET HistoryType,
   faults : Nat, bad : SUBSET Refused, fresh : SUBSET RouteEntryType, unsorted : SUBSET RouteLists,
   nrefused : SUBSET STRING, unclaimed : BOOLEAN, unseen : SUBSET NodeType, met : SUBSET NodeType]

Fields == {"l3", "up", "enabled", "set", "addr", "route", "neigh", "croute", "hroute",
           "policy_rules_set", "kaddr", "kroute", "knull", "krule", "kneigh", "lost", "orphans",
           "faults", "bad", "fresh", "unsorted", "nrefused", "unclaimed", "unseen", "met"}

\* R is S but for the fields in F.
Same(R, S, F) == \A x \in Fields \ F : R[x] = S[x]

\* The two histories have the same to say of a kind of object.
LostSame(R, S, kind) == \A v : <<kind, v>> \in R.lost <=> <<kind, v>> \in S.lost

OrphansSame(R, S, kind) == \A v : <<kind, v>> \in R.orphans <=> <<kind, v>> \in S.orphans
-----------------------------------------------------------------------------
(***************************************************************************)
(* What every function of the model keeps.                                 *)
(***************************************************************************)
Finite(S) ==
  IsFiniteSet(S.addr) /\ IsFiniteSet(S.neigh) /\ \A L \in RouteLists : IsFiniteSet(S[L])

Keys(S) == \A a, b \in S.addr : AddrKey(a) = AddrKey(b) => a = b

\* Addresses.
AddrOK(S) ==
  /\ \A a \in S.addr :
       (a.enabled /\ ~a.failed /\ ~Ended(a) /\ <<"addr", a.id>> \notin S.lost) =>
         [id |-> a.id, left |-> a.left] \in S.kaddr
  /\ \A x \in S.kaddr : <<"addr", x.id>> \in S.orphans \/ \E a \in S.addr : a.id = x.id /\ a.enabled

\* The unreachable routes.
NullOK(S) ==
  /\ \A a \in S.addr : (a.off /\ a.enabled /\ <<"null", a.id>> \notin S.lost) => a.id \in S.knull
  /\ \A x \in S.knull : <<"null", x>> \in S.orphans \/ \E a \in S.addr : a.id = x /\ a.off /\ a.enabled

\* The rules; those of the interface may be for a table it no longer has.
RulesOK(S) ==
  /\ \A a \in S.addr : a.enabled => \A x \in AddrRules(a) : x \in S.krule \/ <<"rule", x>> \in S.lost
  /\ \A x \in S.krule : \/ <<"rule", x>> \in S.orphans
                        \/ \E a \in S.addr : a.enabled /\ x \in AddrRules(a)
                        \/ S.policy_rules_set /\ x \in IfRuleType

\* The routes the kernel has accepted.
Needed(S) ==
  {KRoute(r) : r \in {x \in Routes(S) : x.enabled /\ ~x.failed}}
    \cup {a.sub : a \in {b \in S.addr : b.enabled /\ b.sub # None}}

Has(S, k) == <<"route", k>> \in S.lost \/ \E m \in S.kroute : SameSlot(m, k)

Owns(S, k) == <<"route", k>> \in S.orphans \/ k \in Enabled(S)

RoutesOK(S) == (\A k \in Needed(S) : Has(S, k)) /\ (\A k \in S.kroute : Owns(S, k))

\* An entry that is not enabled has no subnet route.
SubnetsOff(S) == \A a \in S.addr : ~a.enabled => a.sub = None

NeighOK(S) ==
  /\ \A n, o \in S.neigh : n.id = o.id => n = o
  /\ \A n \in S.neigh : (n.enabled /\ n.id \notin S.nrefused) => [id |-> n.id, mac |-> n.mac] \in S.kneigh
  /\ \A x \in S.kneigh : \E n \in S.neigh : n.id = x.id /\ n.enabled

Core(S) ==
  /\ Finite(S) /\ Keys(S) /\ AddrOK(S) /\ NullOK(S) /\ RulesOK(S) /\ RoutesOK(S) /\ SubnetsOff(S)
  /\ NeighOK(S)
-----------------------------------------------------------------------------
(***************************************************************************)
(* What holds of the settings the interface has now.                       *)
(***************************************************************************)
SubnetsCurrent(S) == \A a \in S.addr : (a.enabled /\ a.sub # None) => a.sub = Subnet(S, a)

RulesCurrent(S) ==
  \A x \in S.krule : x \in IfRuleType =>
    <<"rule", x>> \in S.orphans \/ (S.policy_rules_set /\ x \in IfRules(S))

Current(S, L) ==
  \A r \in S[L] :
    r.enabled => (r.met = None => r.metric = S.set.metric) /\ (r.tab = None => r.table = S.set.table)

Obeys(S, L) == \A r \in S[L] : r.enabled = enable_route(S, L, r)

NeighCurrent(S) == \A n \in S.neigh : n.enabled = S.enabled

\* All of it, in a state that no operation is changing.
Settled(S) ==
  /\ Core(S) /\ SubnetsCurrent(S) /\ RulesCurrent(S) /\ NeighCurrent(S)
  /\ Current(S, "route") /\ Current(S, "croute") /\ (\A L \in RouteLists : Obeys(S, L))
  /\ S.policy_rules_set = S.enabled

\* The invariant of the specification.
Inv(S) ==
  /\ Settled(S)
  /\ S.up => S.l3 /\ (S.enabled \/ S.unclaimed)
  /\ ~S.l3 => ~S.enabled /\ S.addr = {} /\ S.route = {} /\ S.hroute = {} /\ S.neigh = {}
-----------------------------------------------------------------------------
\* The types of the fields.
LEMMA Typed ==
  ASSUME NEW S \in StateType
  PROVE  /\ DOMAIN S = Fields
         /\ S.l3 \in BOOLEAN /\ S.up \in BOOLEAN /\ S.enabled \in BOOLEAN /\ S.policy_rules_set \in BOOLEAN
         /\ S.set \in SetType /\ S.addr \in SUBSET EntryType /\ S.neigh \in SUBSET NeighEntryType
         /\ \A L \in RouteLists : S[L] \in SUBSET RouteEntryType
         /\ S.kaddr \in SUBSET KAddrType /\ S.kroute \in SUBSET KRouteType /\ S.knull \in SUBSET STRING
         /\ S.krule \in SUBSET RuleType /\ S.kneigh \in SUBSET NeighType
         /\ S.lost \in SUBSET HistoryType /\ S.orphans \in SUBSET HistoryType
         /\ S.faults \in Nat /\ S.bad \in SUBSET Refused /\ S.fresh \in SUBSET RouteEntryType
         /\ S.unsorted \in SUBSET RouteLists /\ S.nrefused \in SUBSET STRING /\ S.unclaimed \in BOOLEAN
         /\ S.unseen \in SUBSET NodeType /\ S.met \in SUBSET NodeType
  BY DEF StateType, Fields, RouteLists

\* What the histories can record.
LEMMA HistoryIn ==
  ASSUME NEW kind \in Kinds, NEW v, v \in STRING \/ v \in KRouteType \/ v \in RuleType
  PROVE  <<kind, v>> \in HistoryType
  BY DEF HistoryType

\* Changes add up.
LEMMA SameTrans ==
  ASSUME NEW Q, NEW R, NEW S, NEW F, NEW G, Same(Q, R, F), Same(R, S, G)
  PROVE  Same(Q, S, F \cup G)
  BY DEF Same

\* A change of fewer fields is one of more.
LEMMA SameMore ==
  ASSUME NEW R, NEW S, NEW F, NEW G, F \subseteq G, Same(R, S, F)
  PROVE  Same(R, S, G)
  BY DEF Same

-----------------------------------------------------------------------------
(***************************************************************************)
(* The calls to the kernel.                                                *)
(***************************************************************************)
\* system_add_route() replaces what is in the slot, which is then no longer lost.
LEMMA AddRoute ==
  ASSUME NEW S \in StateType, NEW k \in KRouteType
  PROVE  LET R == system_add_route(S, k)
         IN  /\ R \in StateType /\ Same(R, S, {"kroute", "lost"})
             /\ R.kroute = {m \in S.kroute : ~SameSlot(k, m)} \cup {k}
             /\ \A kind \in {"addr", "null", "rule"} : LostSame(R, S, kind)
             /\ \A m : <<"route", m>> \in R.lost <=> <<"route", m>> \in S.lost /\ ~SameSlot(m, k)
<1> DEFINE K == {m \in S.kroute : ~SameSlot(k, m)} \cup {k}
           H == {x \in S.lost : ~(x[1] = "route" /\ SameSlot(x[2], k))}
           R == [S EXCEPT !.kroute = K, !.lost = H]
<1>1. system_add_route(S, k) = R
  BY DEF system_add_route
<1>2. K \in SUBSET KRouteType /\ H \in SUBSET HistoryType
  BY Typed
<1>3. \A kind \in {"addr", "null", "rule"} : \A v : <<kind, v>> \in H <=> <<kind, v>> \in S.lost
  OBVIOUS
<1>4. \A m : <<"route", m>> \in H <=> <<"route", m>> \in S.lost /\ ~SameSlot(m, k)
  OBVIOUS
<1> HIDE DEF K, H
<1>5. R \in StateType
  BY <1>2 DEF StateType
<1>6. Same(R, S, {"kroute", "lost"}) /\ R.kroute = K /\ R.lost = H
  BY Typed DEF Same, Fields
<1> HIDE DEF R
<1> QED
  BY <1>1, <1>3, <1>4, <1>5, <1>6 DEF LostSame, K

\* system_del_route() takes one route away; those in its slot are recorded as lost.
LEMMA DelRoute ==
  ASSUME NEW S \in StateType, NEW k \in KRouteType, Enabled(S) \in SUBSET KRouteType
  PROVE  LET R == system_del_route(S, k)
         IN  /\ R \in StateType /\ Same(R, S, {"kroute", "lost"})
             /\ R.kroute = S.kroute \ {k}
             /\ \A kind \in {"addr", "null", "rule"} : LostSame(R, S, kind)
             /\ \A m : (<<"route", m>> \in S.lost /\ m # k) \/ (m \in Enabled(S) /\ SameSlot(m, k))
                         => <<"route", m>> \in R.lost
<1> DEFINE H == (S.lost \ {<<"route", k>>}) \cup {<<"route", m>> : m \in {x \in Enabled(S) : SameSlot(x, k)}}
           R == [S EXCEPT !.kroute = @ \ {k}, !.lost = H]
<1>1. system_del_route(S, k) = R
  BY DEF system_del_route
<1>2. H \in SUBSET HistoryType
  <2>1. S.lost \in SUBSET HistoryType
    BY Typed
  <2>2. ASSUME NEW m \in Enabled(S) PROVE <<"route", m>> \in HistoryType
    BY HistoryIn DEF Kinds
  <2> QED
    BY <2>1, <2>2
<1>3. \A kind \in {"addr", "null", "rule"} : \A v : <<kind, v>> \in H <=> <<kind, v>> \in S.lost
  OBVIOUS
<1>4. \A m : (<<"route", m>> \in S.lost /\ m # k) \/ (m \in Enabled(S) /\ SameSlot(m, k)) => <<"route", m>> \in H
  OBVIOUS
<1> HIDE DEF H
<1>5. R \in StateType
  BY <1>2 DEF StateType
<1>6. Same(R, S, {"kroute", "lost"}) /\ R.kroute = S.kroute \ {k} /\ R.lost = H
  BY Typed DEF Same, Fields
<1> HIDE DEF R
<1> QED
  BY <1>1, <1>3, <1>4, <1>5, <1>6 DEF LostSame

\* A route entry is a kernel route.
LEMMA KRouteTyped == ASSUME NEW r \in RouteEntryType PROVE KRoute(r) \in KRouteType
  BY DEF RouteEntryType, KRouteType, KRoute

\* A subnet route is a kernel route.
LEMMA SubnetTyped == SubnetType \subseteq KRouteType
  BY DEF SubnetType, KRouteType

\* The enabled routes are kernel routes, and the needed ones are enabled.
LEMMA EnabledTyped ==
  ASSUME NEW S \in StateType
  PROVE  Enabled(S) \in SUBSET KRouteType /\ Needed(S) \subseteq Enabled(S)
<1>1. Routes(S) \in SUBSET RouteEntryType
  BY Typed DEF Routes, RouteLists
<1>2. \A r \in Routes(S) : KRoute(r) \in KRouteType
  BY <1>1, KRouteTyped
<1>3. \A a \in S.addr : a.sub # None => a.sub \in KRouteType
  BY Typed, SubnetTyped DEF EntryType, Maybe
<1> QED
  BY <1>2, <1>3 DEF Enabled, Needed

\* Lists that are the same have the same routes.
LEMMA EnabledSame ==
  ASSUME NEW R, NEW S, R.addr = S.addr, \A L \in RouteLists : R[L] = S[L]
  PROVE  Enabled(R) = Enabled(S) /\ Needed(R) = Needed(S) /\ Routes(R) = Routes(S)
<1>1. R.route = S.route /\ R.croute = S.croute /\ R.hroute = S.hroute
  BY DEF RouteLists
<1>2. Routes(R) = Routes(S)
  BY <1>1 DEF Routes
<1> QED
  BY <1>2 DEF Enabled, Needed

\* system_add_address(): one address more, unless it is refused.
LEMMA AddAddress ==
  ASSUME NEW S \in StateType, NEW a \in EntryType
  PROVE  LET R == system_add_address(S, a)
         IN  /\ R \in StateType /\ Same(R, S, {"kaddr", "lost"})
             /\ \A kind \in {"null", "rule", "route"} : LostSame(R, S, kind)
             /\ \A i : i # a.id => (<<"addr", i>> \in R.lost <=> <<"addr", i>> \in S.lost)
             /\ AddrRefused(S, a) => R = S
             /\ ~AddrRefused(S, a) =>
                  /\ R.kaddr = {x \in S.kaddr : x.id # a.id} \cup {[id |-> a.id, left |-> a.left]}
                  /\ <<"addr", a.id>> \in R.lost <=>
                       \E b \in S.addr : b.id = a.id /\ b.enabled /\ ~b.failed /\ b.left # a.left
<1>1. CASE AddrRefused(S, a)
  BY <1>1 DEF system_add_address, Same, LostSame
<1>2. CASE ~AddrRefused(S, a)
  <2> DEFINE K == {x \in S.kaddr : x.id # a.id} \cup {[id |-> a.id, left |-> a.left]}
             other == \E b \in S.addr : b.id = a.id /\ b.enabled /\ ~b.failed /\ b.left # a.left
             H == IF other THEN S.lost \cup {<<"addr", a.id>>} ELSE S.lost \ {<<"addr", a.id>>}
             R == [S EXCEPT !.kaddr = K, !.lost = H]
  <2>1. system_add_address(S, a) = R
    BY <1>2 DEF system_add_address
  <2>2. a.id \in STRING /\ a.left \in Maybe(Int) /\ <<"addr", a.id>> \in HistoryType
    BY HistoryIn DEF EntryType, Kinds
  <2>3. K \in SUBSET KAddrType
    BY <2>2, Typed DEF KAddrType
  <2>4. H \in SUBSET HistoryType
    BY <2>2, Typed
  <2>5. \A kind \in {"null", "rule", "route"} : \A v : <<kind, v>> \in H <=> <<kind, v>> \in S.lost
    OBVIOUS
  <2>6. \A i : i # a.id => (<<"addr", i>> \in H <=> <<"addr", i>> \in S.lost)
    OBVIOUS
  <2>7. <<"addr", a.id>> \in H <=> other
    OBVIOUS
  <2> HIDE DEF K, H
  <2>8. R \in StateType
    BY <2>3, <2>4 DEF StateType
  <2>9. Same(R, S, {"kaddr", "lost"}) /\ R.kaddr = K /\ R.lost = H
    BY Typed DEF Same, Fields
  <2> HIDE DEF R
  <2> QED
    BY <1>2, <2>1, <2>5, <2>6, <2>7, <2>8, <2>9 DEF LostSame, K
<1> QED
  BY <1>1, <1>2

\* system_del_address(): one address less, unless it has ended.
LEMMA DelAddress ==
  ASSUME NEW S \in StateType, NEW a \in EntryType
  PROVE  LET R == system_del_address(S, a)
         IN  /\ R \in StateType /\ Same(R, S, {"kaddr", "lost", "orphans"})
             /\ \A kind \in {"null", "rule", "route"} : LostSame(R, S, kind) /\ OrphansSame(R, S, kind)
             /\ \A i : i # a.id => (<<"addr", i>> \in R.lost <=> <<"addr", i>> \in S.lost)
             /\ S.orphans \subseteq R.orphans
             /\ Ended(a) => R.kaddr = S.kaddr /\ R.lost = S.lost /\ <<"addr", a.id>> \in R.orphans
             /\ ~Ended(a) =>
                  /\ R.kaddr = {x \in S.kaddr : x.id # a.id}
                  /\ (\E b \in S.addr : b.id = a.id /\ b.enabled) => <<"addr", a.id>> \in R.lost
<1>0. <<"addr", a.id>> \in HistoryType
  BY HistoryIn DEF EntryType, Kinds
<1>1. CASE Ended(a)
  <2> DEFINE H == S.orphans \cup {<<"addr", a.id>>}
             R == [S EXCEPT !.orphans = H]
  <2>1. system_del_address(S, a) = R
    BY <1>1 DEF system_del_address
  <2>2. H \in SUBSET HistoryType
    BY <1>0, Typed
  <2>3. \A kind \in {"null", "rule", "route"} : \A v : <<kind, v>> \in H <=> <<kind, v>> \in S.orphans
    OBVIOUS
  <2>4. S.orphans \subseteq H /\ <<"addr", a.id>> \in H
    OBVIOUS
  <2> HIDE DEF H
  <2>5. R \in StateType
    BY <2>2 DEF StateType
  <2>6. Same(R, S, {"kaddr", "lost", "orphans"}) /\ R.kaddr = S.kaddr /\ R.lost = S.lost /\ R.orphans = H
    BY Typed DEF Same, Fields
  <2> HIDE DEF R
  <2> QED
    BY <1>1, <2>1, <2>3, <2>4, <2>5, <2>6 DEF LostSame, OrphansSame
<1>2. CASE ~Ended(a)
  <2> DEFINE K == {x \in S.kaddr : x.id # a.id}
             other == \E b \in S.addr : b.id = a.id /\ b.enabled
             H == IF other THEN S.lost \cup {<<"addr", a.id>>} ELSE S.lost \ {<<"addr", a.id>>}
             R == [S EXCEPT !.kaddr = K, !.lost = H]
  <2>1. system_del_address(S, a) = R
    BY <1>2 DEF system_del_address
  <2>2. K \in SUBSET KAddrType /\ H \in SUBSET HistoryType
    BY <1>0, Typed
  <2>3. \A kind \in {"null", "rule", "route"} : \A v : <<kind, v>> \in H <=> <<kind, v>> \in S.lost
    OBVIOUS
  <2>4. \A i : i # a.id => (<<"addr", i>> \in H <=> <<"addr", i>> \in S.lost)
    OBVIOUS
  <2>5. other => <<"addr", a.id>> \in H
    OBVIOUS
  <2> HIDE DEF K, H
  <2>6. R \in StateType
    BY <2>2 DEF StateType
  <2>7. Same(R, S, {"kaddr", "lost", "orphans"}) /\ R.kaddr = K /\ R.lost = H /\ R.orphans = S.orphans
    BY Typed DEF Same, Fields
  <2> HIDE DEF R
  <2> QED
    BY <1>2, <2>1, <2>3, <2>4, <2>5, <2>6, <2>7 DEF LostSame, OrphansSame, K
<1> QED
  BY <1>1, <1>2

\* The rules of an address are rules, and none of the interface's own.
LEMMA RulesTyped ==
  ASSUME NEW a \in EntryType
  PROVE  /\ AddrRules(a) \in SUBSET RuleType /\ Rules(AddrRules(a)) \in SUBSET HistoryType
         /\ AddrRules(a) \cap IfRuleType = {}
<1>1. AddrRules(a) \in SUBSET RuleType
  BY DEF EntryType, AddrRules, RuleType
<1>2. \A x \in AddrRules(a) : <<"rule", x>> \in HistoryType
  BY <1>1, HistoryIn DEF Kinds
<1>3. Rules(AddrRules(a)) \in SUBSET HistoryType
  BY <1>2 DEF Rules
<1>4. AddrRules(a) \cap IfRuleType = {}
  <2>1. \A x \in AddrRules(a) : x = <<"addr", a.id, a.ptab>>
    BY DEF AddrRules
  <2>2. <<"addr", a.id, a.ptab>> \notin {<<"fail">>}
    OBVIOUS
  <2>3. <<"addr", a.id, a.ptab>> \notin {"lo"} \X Nat
    OBVIOUS
  <2> QED
    BY <2>1, <2>2, <2>3 DEF IfRuleType
<1> QED
  BY <1>1, <1>3, <1>4

\* The rules of an address go.
LEMMA DelRulesFacts ==
  ASSUME NEW S \in StateType, NEW a \in EntryType
  PROVE  LET R == DelRules(S, a)
         IN  /\ R \in StateType /\ Same(R, S, {"krule", "lost"})
             /\ \A kind \in {"addr", "null", "route"} : LostSame(R, S, kind)
             /\ R.krule = S.krule \ AddrRules(a)
             /\ \A x : x \notin AddrRules(a) => (<<"rule", x>> \in R.lost <=> <<"rule", x>> \in S.lost)
             /\ \A x \in AddrRules(a), b \in S.addr : b.enabled /\ x \in AddrRules(b) => <<"rule", x>> \in R.lost
<1> DEFINE A == AddrRules(a)
           U == UNION {AddrRules(b) : b \in {c \in S.addr : c.enabled}}
           H == (S.lost \ Rules(A)) \cup Rules(A \cap U)
           K == S.krule \ A
           R == [S EXCEPT !.krule = K, !.lost = H]
<1>1. DelRules(S, a) = R
  BY DEF DelRules
<1>2. K \in SUBSET RuleType /\ H \in SUBSET HistoryType
  BY RulesTyped, Typed DEF Rules
<1>3. \A kind \in {"addr", "null", "route"} : \A v : <<kind, v>> \in H <=> <<kind, v>> \in S.lost
  BY DEF Rules
<1>4. \A x : x \notin A => (<<"rule", x>> \in H <=> <<"rule", x>> \in S.lost)
  BY DEF Rules
<1>5. \A x \in A, b \in S.addr : b.enabled /\ x \in AddrRules(b) => <<"rule", x>> \in H
  <2> SUFFICES ASSUME NEW x \in A, NEW b \in S.addr, b.enabled, x \in AddrRules(b) PROVE <<"rule", x>> \in H
    OBVIOUS
  <2>1. x \in U
    OBVIOUS
  <2> HIDE DEF U
  <2> QED
    BY <2>1 DEF Rules
<1> HIDE DEF K, H
<1>6. R \in StateType
  BY <1>2 DEF StateType
<1>7. Same(R, S, {"krule", "lost"}) /\ R.krule = K /\ R.lost = H
  BY Typed DEF Same, Fields
<1> HIDE DEF R
<1> QED
  BY <1>1, <1>3, <1>4, <1>5, <1>6, <1>7 DEF LostSame, K

\* The rules of an address come.
LEMMA AddRulesFacts ==
  ASSUME NEW S \in StateType, NEW a \in EntryType
  PROVE  LET R == AddRules(S, a)
         IN  /\ R \in StateType /\ Same(R, S, {"krule", "lost"})
             /\ \A kind \in {"addr", "null", "route"} : LostSame(R, S, kind)
             /\ R.krule = S.krule \cup AddrRules(a)
             /\ \A x : x \notin AddrRules(a) => (<<"rule", x>> \in R.lost <=> <<"rule", x>> \in S.lost)
<1> DEFINE A == AddrRules(a)
           H == S.lost \ Rules(A)
           K == S.krule \cup A
           R == [S EXCEPT !.krule = K, !.lost = H]
<1>1. AddRules(S, a) = R
  BY DEF AddRules
<1>2. K \in SUBSET RuleType /\ H \in SUBSET HistoryType
  BY RulesTyped, Typed
<1>3. \A kind \in {"addr", "null", "route"} : \A v : <<kind, v>> \in H <=> <<kind, v>> \in S.lost
  BY DEF Rules
<1>4. \A x : x \notin A => (<<"rule", x>> \in H <=> <<"rule", x>> \in S.lost)
  BY DEF Rules
<1> HIDE DEF K, H
<1>6. R \in StateType
  BY <1>2 DEF StateType
<1>7. Same(R, S, {"krule", "lost"}) /\ R.krule = K /\ R.lost = H
  BY Typed DEF Same, Fields
<1> HIDE DEF R
<1> QED
  BY <1>1, <1>3, <1>4, <1>6, <1>7 DEF LostSame, K

\* The unreachable route of an off-link address comes.
LEMMA AddNullFacts ==
  ASSUME NEW S \in StateType, NEW a \in EntryType
  PROVE  LET R == AddNull(S, a)
         IN  /\ R \in StateType /\ Same(R, S, {"knull", "lost"})
             /\ \A kind \in {"addr", "rule", "route"} : LostSame(R, S, kind)
             /\ \A i : i # a.id => (<<"null", i>> \in R.lost <=> <<"null", i>> \in S.lost)
             /\ ~a.off => R = S
             /\ a.off => R.knull = S.knull \cup {a.id}
<1>1. CASE ~a.off
  BY <1>1 DEF AddNull, Same, LostSame
<1>2. CASE a.off
  <2> DEFINE K == S.knull \cup {a.id}
             H == S.lost \ {<<"null", a.id>>}
             R == [S EXCEPT !.knull = K, !.lost = H]
  <2>1. AddNull(S, a) = R
    BY <1>2 DEF AddNull
  <2>2. K \in SUBSET STRING /\ H \in SUBSET HistoryType
    BY Typed DEF EntryType
  <2>3. \A kind \in {"addr", "rule", "route"} : \A v : <<kind, v>> \in H <=> <<kind, v>> \in S.lost
    OBVIOUS
  <2>4. \A i : i # a.id => (<<"null", i>> \in H <=> <<"null", i>> \in S.lost)
    OBVIOUS
  <2> HIDE DEF K, H
  <2>5. R \in StateType
    BY <2>2 DEF StateType
  <2>6. Same(R, S, {"knull", "lost"}) /\ R.knull = K /\ R.lost = H
    BY Typed DEF Same, Fields
  <2> HIDE DEF R
  <2> QED
    BY <1>2, <2>1, <2>3, <2>4, <2>5, <2>6 DEF LostSame, K
<1> QED
  BY <1>1, <1>2

\* The unreachable route of an off-link address goes.
LEMMA DelNullFacts ==
  ASSUME NEW S \in StateType, NEW a \in EntryType
  PROVE  LET R == DelNull(S, a)
         IN  /\ R \in StateType /\ Same(R, S, {"knull", "lost"})
             /\ \A kind \in {"addr", "rule", "route"} : LostSame(R, S, kind)
             /\ \A i : i # a.id => (<<"null", i>> \in R.lost <=> <<"null", i>> \in S.lost)
             /\ ~a.off => R = S
             /\ a.off =>
                  /\ R.knull = S.knull \ {a.id}
                  /\ \A b \in S.addr : b # a /\ b.id = a.id /\ b.off /\ b.enabled => <<"null", a.id>> \in R.lost
<1>1. CASE ~a.off
  BY <1>1 DEF DelNull, Same, LostSame
<1>2. CASE a.off
  <2> DEFINE K == S.knull \ {a.id}
             other == \E b \in S.addr \ {a} : b.id = a.id /\ b.off /\ b.enabled
             H == IF other THEN S.lost \cup {<<"null", a.id>>} ELSE S.lost \ {<<"null", a.id>>}
             R == [S EXCEPT !.knull = K, !.lost = H]
  <2>1. DelNull(S, a) = R
    BY <1>2 DEF DelNull
  <2>0. <<"null", a.id>> \in HistoryType
    BY HistoryIn DEF EntryType, Kinds
  <2>2. K \in SUBSET STRING /\ H \in SUBSET HistoryType
    BY <2>0, Typed DEF EntryType
  <2>3. \A kind \in {"addr", "rule", "route"} : \A v : <<kind, v>> \in H <=> <<kind, v>> \in S.lost
    OBVIOUS
  <2>4. \A i : i # a.id => (<<"null", i>> \in H <=> <<"null", i>> \in S.lost)
    OBVIOUS
  <2>4a. other => <<"null", a.id>> \in H
    OBVIOUS
  <2> HIDE DEF K, H
  <2>5. R \in StateType
    BY <2>2 DEF StateType
  <2>6. Same(R, S, {"knull", "lost"}) /\ R.knull = K /\ R.lost = H
    BY Typed DEF Same, Fields
  <2> HIDE DEF R
  <2> QED
    BY <1>2, <2>1, <2>3, <2>4, <2>4a, <2>5, <2>6 DEF LostSame, K
<1> QED
  BY <1>1, <1>2

-----------------------------------------------------------------------------
(***************************************************************************)
(* Routes.                                                                 *)
(***************************************************************************)
\* AddrOK depends on the addresses and their history only.
LEMMA AddrFrame ==
  ASSUME NEW R, NEW S, R.addr = S.addr, R.kaddr = S.kaddr, LostSame(R, S, "addr"),
         OrphansSame(R, S, "addr"), AddrOK(S)
  PROVE  AddrOK(R)
  BY DEF AddrOK, LostSame, OrphansSame

\* NullOK depends on the addresses, the unreachable routes and their history only.
LEMMA NullFrame ==
  ASSUME NEW R, NEW S, R.addr = S.addr, R.knull = S.knull, LostSame(R, S, "null"),
         OrphansSame(R, S, "null"), NullOK(S)
  PROVE  NullOK(R)
  BY DEF NullOK, LostSame, OrphansSame

\* RulesOK depends on the addresses, the rules and their history only.
LEMMA RulesFrame ==
  ASSUME NEW R, NEW S, R.addr = S.addr, R.krule = S.krule, R.policy_rules_set = S.policy_rules_set,
         LostSame(R, S, "rule"), OrphansSame(R, S, "rule"), RulesOK(S)
  PROVE  RulesOK(R)
  BY DEF RulesOK, LostSame, OrphansSame

\* NeighOK depends on the neighbours only.
LEMMA NeighFrame ==
  ASSUME NEW R, NEW S, R.neigh = S.neigh, R.kneigh = S.kneigh, R.nrefused = S.nrefused, NeighOK(S)
  PROVE  NeighOK(R)
  BY DEF NeighOK

\* A change of one list of routes.
Changed(R, S, L, N, O) ==
  /\ R.addr = S.addr /\ \A M \in RouteLists \ {L} : R[M] = S[M]
  /\ R[L] \subseteq S[L] \cup N /\ S[L] \subseteq R[L] \cup O

\* What is needed then is needed now or is a route of N.
NeededFrom(R, S, N) ==
  \A k \in Needed(R) : k \in Needed(S) \/ \E r \in N : r.enabled /\ ~r.failed /\ k = KRoute(r)

\* What is enabled now stays so, but for the routes in O.
EnabledBut(R, S, O) == \A k \in Enabled(S) : k \in Enabled(R) \/ \E r \in O : r.enabled /\ k = KRoute(r)

\* What a change of one list does to the needed and the enabled routes.
LEMMA ListChange ==
  ASSUME NEW S, NEW R, NEW L \in RouteLists, NEW N, NEW O, Changed(R, S, L, N, O)
  PROVE  /\ NeededFrom(R, S, N) /\ EnabledBut(R, S, O)
         /\ \A r \in R[L] : r.enabled => KRoute(r) \in Enabled(R)
<1>1. Routes(R) \subseteq Routes(S) \cup N /\ Routes(S) \subseteq Routes(R) \cup O /\ R[L] \subseteq Routes(R)
  BY DEF Routes, RouteLists, Changed
<1>1a. R.addr = S.addr
  BY DEF Changed
<1>2. ASSUME NEW k \in Needed(R)
      PROVE  k \in Needed(S) \/ \E r \in N : r.enabled /\ ~r.failed /\ k = KRoute(r)
  BY <1>1, <1>1a DEF Needed
<1>3. ASSUME NEW k \in Enabled(S)
      PROVE  k \in Enabled(R) \/ \E r \in O : r.enabled /\ k = KRoute(r)
  BY <1>1, <1>1a DEF Enabled
<1>4. ASSUME NEW r \in R[L], r.enabled PROVE KRoute(r) \in Enabled(R)
  BY <1>1, <1>4 DEF Enabled
<1> QED
  BY <1>2, <1>3, <1>4 DEF NeededFrom, EnabledBut

\* The kernel's routes are in order once the one that was missing is added.
LEMMA AddRouteOK ==
  ASSUME NEW S \in StateType, NEW k \in KRouteType, Owns(S, k),
         \A m \in Needed(S) : SameSlot(m, k) \/ Has(S, m), \A m \in S.kroute : Owns(S, m)
  PROVE  RoutesOK(system_add_route(S, k))
<1> DEFINE R == system_add_route(S, k)
<1>1. /\ Same(R, S, {"kroute", "lost"}) /\ R.kroute = {m \in S.kroute : ~SameSlot(k, m)} \cup {k}
      /\ \A m : <<"route", m>> \in R.lost <=> <<"route", m>> \in S.lost /\ ~SameSlot(m, k)
  BY AddRoute
<1> HIDE DEF R
<1>2. R.addr = S.addr /\ R.orphans = S.orphans /\ \A L \in RouteLists : R[L] = S[L]
  BY <1>1 DEF Same, Fields, RouteLists
<1>3. Enabled(R) = Enabled(S) /\ Needed(R) = Needed(S)
  BY <1>2, EnabledSame
<1>4. ASSUME NEW m \in Needed(R) PROVE Has(R, m)
  <2>1. CASE SameSlot(m, k)
    BY <1>1, <2>1 DEF Has, SameSlot
  <2>2. CASE ~SameSlot(m, k) /\ <<"route", m>> \in S.lost
    BY <1>1, <2>2 DEF Has
  <2>3. CASE ~SameSlot(m, k) /\ \E n \in S.kroute : SameSlot(n, m)
    BY <1>1, <2>3 DEF Has, SameSlot
  <2> QED
    BY <1>3, <1>4, <2>1, <2>2, <2>3 DEF Has
<1>5. ASSUME NEW m \in R.kroute PROVE Owns(R, m)
  BY <1>1, <1>2, <1>3 DEF Owns
<1> QED
  BY <1>4, <1>5 DEF RoutesOK, R

\* The kernel's routes are in order once the one that was too many is deleted.
LEMMA DelRouteOK ==
  ASSUME NEW S \in StateType, NEW k \in KRouteType,
         \A m \in Needed(S) : Has(S, m), \A m \in S.kroute : m = k \/ Owns(S, m)
  PROVE  RoutesOK(system_del_route(S, k))
<1> DEFINE R == system_del_route(S, k)
<1>0. Enabled(S) \in SUBSET KRouteType /\ Needed(S) \subseteq Enabled(S)
  BY EnabledTyped
<1>1. /\ Same(R, S, {"kroute", "lost"}) /\ R.kroute = S.kroute \ {k}
      /\ \A m : (<<"route", m>> \in S.lost /\ m # k) \/ (m \in Enabled(S) /\ SameSlot(m, k))
                         => <<"route", m>> \in R.lost
  BY <1>0, DelRoute
<1> HIDE DEF R
<1>2. R.addr = S.addr /\ R.orphans = S.orphans /\ \A L \in RouteLists : R[L] = S[L]
  BY <1>1 DEF Same, Fields, RouteLists
<1>3. Enabled(R) = Enabled(S) /\ Needed(R) = Needed(S)
  BY <1>2, EnabledSame
<1>4. ASSUME NEW m \in Needed(R) PROVE Has(R, m)
  <2>1. CASE SameSlot(m, k)
    BY <1>0, <1>1, <1>3, <2>1 DEF Has
  <2>2. CASE ~SameSlot(m, k) /\ <<"route", m>> \in S.lost
    BY <1>1, <2>2 DEF Has, SameSlot
  <2>3. CASE ~SameSlot(m, k) /\ \E n \in S.kroute : SameSlot(n, m)
    BY <1>1, <2>3 DEF Has, SameSlot
  <2> QED
    BY <1>3, <1>4, <2>1, <2>2, <2>3 DEF Has
<1>5. ASSUME NEW m \in R.kroute PROVE Owns(R, m)
  BY <1>1, <1>2, <1>3 DEF Owns
<1> QED
  BY <1>4, <1>5 DEF RoutesOK, R

\* The histories have the same to say of everything but routes.
OthersSame(R, S) == \A kind \in {"addr", "null", "rule"} : LostSame(R, S, kind) /\ OrphansSame(R, S, kind)

\* A change of the routes leaves the rest.
LEMMA RouteOpCore ==
  ASSUME NEW S \in StateType, NEW R \in StateType, NEW L \in RouteLists,
         Same(R, S, {L, "kroute", "lost", "unsorted", "fresh", "orphans"}), OthersSame(R, S),
         Core(S), RoutesOK(R), IsFiniteSet(R[L])
  PROVE  Core(R)
<1>1. /\ R.addr = S.addr /\ R.kaddr = S.kaddr /\ R.knull = S.knull /\ R.krule = S.krule
      /\ R.policy_rules_set = S.policy_rules_set /\ R.neigh = S.neigh /\ R.kneigh = S.kneigh
      /\ R.nrefused = S.nrefused /\ \A M \in RouteLists \ {L} : R[M] = S[M]
  BY DEF Same, Fields, RouteLists
<1>2. \A kind \in {"addr", "null", "rule"} : LostSame(R, S, kind) /\ OrphansSame(R, S, kind)
  BY DEF OthersSame
<1>3. AddrOK(R)
  BY <1>1, <1>2, AddrFrame DEF Core
<1>4. NullOK(R)
  BY <1>1, <1>2, NullFrame DEF Core
<1>5. RulesOK(R)
  BY <1>1, <1>2, RulesFrame DEF Core
<1>6. NeighOK(R)
  BY <1>1, NeighFrame DEF Core
<1>7. Finite(R)
  BY <1>1 DEF Core, Finite
<1>8. Keys(R) /\ SubnetsOff(R)
  BY <1>1 DEF Core, Keys, SubnetsOff
<1> QED
  BY <1>3, <1>4, <1>5, <1>6, <1>7, <1>8 DEF Core

\* A state with another list.
With(S, L, X) == [S EXCEPT ![L] = X]

\* A state with another list of routes.
LEMMA WithRoutes ==
  ASSUME NEW S \in StateType, NEW L \in RouteLists, NEW X \in SUBSET RouteEntryType
  PROVE  With(S, L, X) \in StateType /\ Same(With(S, L, X), S, {L}) /\ With(S, L, X)[L] = X
<1>1. With(S, L, X) \in StateType
  BY DEF StateType, RouteLists, With
<1>2. Same(With(S, L, X), S, {L}) /\ With(S, L, X)[L] = X
  BY Typed DEF With, Same, Fields, RouteLists
<1> QED
  BY <1>1, <1>2

RouteFields(L) == {L, "kroute", "lost", "unsorted"}

\* Removing an entry takes its route from the kernel.
LEMMA RemoveRouteKeeps ==
  ASSUME NEW S \in StateType, Core(S), NEW L \in RouteLists, NEW r \in RouteEntryType
  PROVE  LET R == RemoveRoute(S, L, r)
         IN  /\ R \in StateType /\ Core(R) /\ Same(R, S, RouteFields(L)) /\ R[L] = S[L] \ {r}
             /\ OthersSame(R, S) /\ R.unsorted = S.unsorted /\ R.orphans = S.orphans
<1> DEFINE R == RemoveRoute(S, L, r)
           X == S[L] \ {r}
           S1 == With(S, L, X)
           k == KRoute(r)
<1>1. R = IF r.enabled THEN system_del_route(S1, k) ELSE S1
  BY DEF RemoveRoute, With
<1>2. X \in SUBSET RouteEntryType /\ IsFiniteSet(X)
  BY Typed, FS_RemoveElement DEF Core, Finite
<1>3. X \subseteq S[L] /\ S[L] \subseteq X \cup {r}
  OBVIOUS
<1>4. k \in KRouteType
  BY KRouteTyped
<1> HIDE DEF X, R
<1>5. S1 \in StateType /\ Same(S1, S, {L}) /\ S1[L] = X
  BY <1>2, WithRoutes
<1> HIDE DEF S1, k
<1>6. /\ S1.addr = S.addr /\ S1.kroute = S.kroute /\ S1.lost = S.lost /\ S1.orphans = S.orphans
      /\ \A M \in RouteLists \ {L} : S1[M] = S[M]
  BY <1>5 DEF Same, Fields, RouteLists
<1>7. /\ \A m \in Needed(S1) : m \in Needed(S)
      /\ \A m \in Enabled(S) : m \in Enabled(S1) \/ (r.enabled /\ m = k)
  <2> DEFINE N == {}  O == {r}
  <2>1. Changed(S1, S, L, N, O)
    BY <1>3, <1>5, <1>6 DEF Changed
  <2> HIDE DEF N, O
  <2>2. NeededFrom(S1, S, N) /\ EnabledBut(S1, S, O)
    BY <2>1, ListChange
  <2> QED
    BY <2>2 DEF k, N, O, NeededFrom, EnabledBut
<1>8. \A m \in Needed(S1) : Has(S1, m)
  BY <1>6, <1>7 DEF Core, RoutesOK, Has
<1>9. \A m \in S1.kroute : (r.enabled /\ m = k) \/ Owns(S1, m)
  BY <1>6, <1>7 DEF Core, RoutesOK, Owns
<1>10. R \in StateType /\ Same(R, S1, {"kroute", "lost"}) /\ RoutesOK(R)
       /\ \A kind \in {"addr", "null", "rule"} : LostSame(R, S1, kind)
  <2>1. CASE r.enabled
    <3>1. R = system_del_route(S1, k)
      BY <1>1, <2>1
    <3>2. RoutesOK(R)
      BY <1>4, <1>5, <1>8, <1>9, <3>1, DelRouteOK
    <3> QED
      BY <1>4, <1>5, <3>1, <3>2, DelRoute, EnabledTyped
  <2>2. CASE ~r.enabled
    BY <1>1, <1>5, <1>8, <1>9, <2>2 DEF RoutesOK, Same, LostSame
  <2> QED
    BY <2>1, <2>2
<1>11. Same(R, S, RouteFields(L)) /\ R[L] = X
  BY <1>5, <1>10 DEF Same, RouteFields, Fields, RouteLists
<1>12. Same(R, S, {L, "kroute", "lost", "unsorted", "fresh", "orphans"}) /\ R.orphans = S.orphans
       /\ R.unsorted = S.unsorted
  BY <1>5, <1>10, <1>11 DEF Same, RouteFields, Fields, RouteLists
<1>13. OthersSame(R, S)
  BY <1>6, <1>10, <1>12 DEF LostSame, OrphansSame, OthersSame
<1>14. Core(R)
  BY <1>2, <1>10, <1>11, <1>12, <1>13, RouteOpCore
<1> QED
  BY <1>10, <1>11, <1>12, <1>13, <1>14 DEF X, R

\* enable_route() answers yes or no.
LEMMA EnableRoute ==
  ASSUME NEW S \in StateType, NEW L, NEW r
  PROVE  enable_route(S, L, r) \in BOOLEAN
  BY DEF enable_route

\* interface_set_route_info() gives an entry the metric and the table of the interface.
LEMMA RouteInfo ==
  ASSUME NEW S \in StateType, NEW r \in RouteEntryType
  PROVE  LET n == interface_set_route_info(S, r)
         IN  /\ n \in RouteEntryType /\ n.dst = r.dst /\ n.gw = r.gw
             /\ n.met = None => n.metric = S.set.metric
             /\ n.tab = None => n.table = S.set.table
             /\ n.enabled = r.enabled /\ n.failed = r.failed
<1>1. S.set.metric \in Nat /\ S.set.table \in Nat
  BY Typed DEF SetType
<1> QED
  BY <1>1 DEF interface_set_route_info, RouteEntryType

\* A route that is set or put.
Setting(S, L, want, r) == r.enabled = (want /\ enable_route(S, L, r))

\* Turning one entry on or off keeps the kernel in order.
LEMMA SetRouteKeeps ==
  ASSUME NEW S \in StateType, Core(S), NEW L \in RouteLists, NEW r \in RouteEntryType, NEW want \in BOOLEAN
  PROVE  LET R == interface_ip_set_route_enabled(S, L, r, want)
         IN  /\ R \in StateType /\ Core(R) /\ Same(R, S, RouteFields(L)) /\ R.unsorted = S.unsorted
             /\ \A q \in R[L] : (q \in S[L] /\ q # r) \/ Setting(S, L, want, q)
             /\ Current(S, L) => Current(R, L)
<1> DEFINE R == interface_ip_set_route_enabled(S, L, r, want)
           on == want /\ enable_route(S, L, r)
           i == interface_set_route_info(S, r)
           n == [i EXCEPT !.enabled = TRUE, !.failed = @ \/ RouteRefused(S, r)]
           off == [r EXCEPT !.enabled = FALSE]
           m == IF on THEN n ELSE off
           X == (S[L] \ {r}) \cup {m}
           S1 == With(S, L, X)
<1>1. /\ r.enabled = on => R = S
      /\ r.enabled # on /\ on => R = AddIfTaken(S1, n)
      /\ r.enabled # on /\ ~on => R = system_del_route(S1, KRoute(r))
  BY DEF interface_ip_set_route_enabled, With
<1>2. on \in BOOLEAN /\ r.enabled \in BOOLEAN
  BY EnableRoute DEF RouteEntryType
<1>3. /\ n \in RouteEntryType /\ n.dst = r.dst /\ n.enabled = TRUE
      /\ RouteRefused(S, r) => n.failed = TRUE
      /\ n.met = None => n.metric = S.set.metric
      /\ n.tab = None => n.table = S.set.table
  <2>1. /\ i \in RouteEntryType /\ i.dst = r.dst
        /\ i.met = None => i.metric = S.set.metric
        /\ i.tab = None => i.table = S.set.table
    BY RouteInfo
  <2>2. RouteRefused(S, r) \in BOOLEAN
    BY DEF RouteRefused
  <2> HIDE DEF i
  <2> QED
    BY <2>1, <2>2 DEF RouteEntryType
<1>4. off \in RouteEntryType /\ off.dst = r.dst /\ off.enabled = FALSE
  BY DEF RouteEntryType
<1> HIDE DEF n, off, i
<1>5. m \in RouteEntryType /\ m.dst = r.dst /\ m.enabled = on
  BY <1>2, <1>3, <1>4
<1>6. S[L] \in SUBSET RouteEntryType /\ IsFiniteSet(S[L])
  BY Typed DEF Core, Finite
<1>7. X \in SUBSET RouteEntryType /\ IsFiniteSet(X)
  <2>1. IsFiniteSet(S[L] \ {r})
    BY <1>6, FS_RemoveElement
  <2> DEFINE Y == S[L] \ {r}
  <2> HIDE DEF Y, m
  <2>2. IsFiniteSet(Y \cup {m})
    BY <2>1, FS_AddElement DEF Y
  <2> QED
    BY <1>5, <1>6, <2>2 DEF Y
<1>8. /\ X \subseteq S[L] \cup {m} /\ S[L] \subseteq X \cup {r} /\ m \in X
      /\ \A q \in X : (q \in S[L] /\ q # r) \/ q = m
  OBVIOUS
<1>9. Setting(S, L, want, m)
  BY <1>5 DEF Setting, enable_route
<1>10. Current(S, L) => \A q \in X : q.enabled =>
         (q.met = None => q.metric = S.set.metric) /\ (q.tab = None => q.table = S.set.table)
  <2>1. m.enabled => (m.met = None => m.metric = S.set.metric) /\ (m.tab = None => m.table = S.set.table)
    BY <1>3, <1>5
  <2> QED
    BY <1>8, <2>1 DEF Current
<1>11. m = IF on THEN n ELSE off
  OBVIOUS
<1> HIDE DEF X, m, on, R
<1>12. S1 \in StateType /\ Same(S1, S, {L}) /\ S1[L] = X
  BY <1>7, WithRoutes
<1> HIDE DEF S1
<1>13. /\ S1.addr = S.addr /\ S1.kroute = S.kroute /\ S1.lost = S.lost /\ S1.orphans = S.orphans
       /\ S1.set = S.set /\ S1.bad = S.bad /\ \A M \in RouteLists \ {L} : S1[M] = S[M]
  BY <1>12 DEF Same, Fields, RouteLists
<1>14. /\ \A k \in Needed(S1) : k \in Needed(S) \/ (m.enabled /\ ~m.failed /\ k = KRoute(m))
       /\ \A k \in Enabled(S) : k \in Enabled(S1) \/ (r.enabled /\ k = KRoute(r))
       /\ m.enabled => KRoute(m) \in Enabled(S1)
  <2> DEFINE N == {m}  O == {r}
  <2>1. Changed(S1, S, L, N, O)
    BY <1>8, <1>12, <1>13 DEF Changed
  <2> HIDE DEF N, O
  <2>2. NeededFrom(S1, S, N) /\ EnabledBut(S1, S, O) /\ \A q \in S1[L] : q.enabled => KRoute(q) \in Enabled(S1)
    BY <2>1, ListChange
  <2> QED
    BY <1>8, <1>12, <2>2 DEF N, O, NeededFrom, EnabledBut
<1>15. CASE r.enabled = on
  <2>1. R = S
    BY <1>1, <1>15
  <2>2. Setting(S, L, want, r)
    BY <1>15 DEF Setting, on
  <2> QED
    BY <2>1, <2>2 DEF Same, R
<1>16. CASE r.enabled # on
  <2>1. \A k \in S.kroute : Owns(S, k)
    BY DEF Core, RoutesOK
  <2>2. \A k \in Needed(S) : Has(S1, k)
    BY <1>13 DEF Core, RoutesOK, Has
  <2>3. /\ R \in StateType /\ Same(R, S1, {"kroute", "lost"}) /\ RoutesOK(R)
        /\ \A kind \in {"addr", "null", "rule"} : LostSame(R, S1, kind)
    <3>1. CASE on
      <4>1. m = n /\ m.enabled /\ ~r.enabled
        BY <1>2, <1>5, <1>11, <1>16, <3>1
      <4>2. R = AddIfTaken(S1, m)
        BY <1>1, <1>16, <3>1, <4>1
      <4>3. \A k \in S1.kroute : Owns(S1, k)
        BY <1>13, <1>14, <2>1, <4>1 DEF Owns
      <4>4. RouteRefused(S1, m) = RouteRefused(S, r)
        BY <1>5, <1>13 DEF RouteRefused
      <4>5. CASE RouteRefused(S1, m)
        <5>1. R = S1
          BY <4>2, <4>5 DEF AddIfTaken
        <5>2. m.failed = TRUE
          BY <1>3, <4>1, <4>4, <4>5
        <5>3. RoutesOK(S1)
          BY <1>14, <2>2, <4>3, <5>2 DEF RoutesOK
        <5> QED
          BY <1>12, <5>1, <5>3 DEF Same, LostSame
      <4>6. CASE ~RouteRefused(S1, m)
        <5> DEFINE k == KRoute(m)
        <5>1. R = system_add_route(S1, k) /\ Owns(S1, k)
          BY <1>14, <4>1, <4>2, <4>6 DEF AddIfTaken, Owns
        <5>2. k \in KRouteType
          BY <1>5, KRouteTyped
        <5>3. \A x \in Needed(S1) : SameSlot(x, k) \/ Has(S1, x)
          BY <1>14, <2>2 DEF SameSlot
        <5> HIDE DEF k
        <5>4. RoutesOK(R)
          BY <1>12, <4>3, <5>1, <5>2, <5>3, AddRouteOK
        <5> QED
          BY <1>12, <5>1, <5>2, <5>4, AddRoute
      <4> QED
        BY <4>5, <4>6
    <3>2. CASE ~on
      <4>1. ~m.enabled /\ r.enabled
        BY <1>2, <1>5, <1>16, <3>2
      <4> DEFINE k == KRoute(r)
      <4>2. R = system_del_route(S1, k)
        BY <1>1, <1>16, <3>2
      <4>3. k \in KRouteType
        BY KRouteTyped
      <4>4. \A x \in S1.kroute : x = k \/ Owns(S1, x)
        BY <1>13, <1>14, <2>1 DEF Owns
      <4>5. \A x \in Needed(S1) : Has(S1, x)
        BY <1>14, <2>2, <4>1
      <4> HIDE DEF k
      <4>6. RoutesOK(R)
        BY <1>12, <4>2, <4>3, <4>4, <4>5, DelRouteOK
      <4> QED
        BY <1>12, <4>2, <4>3, <4>6, DelRoute, EnabledTyped
    <3> QED
      BY <3>1, <3>2
  <2>4. Same(R, S, RouteFields(L)) /\ R[L] = X /\ R.set = S.set /\ R.unsorted = S.unsorted
    BY <1>12, <2>3 DEF Same, RouteFields, Fields, RouteLists
  <2>5. Same(R, S, {L, "kroute", "lost", "unsorted", "fresh", "orphans"}) /\ R.orphans = S.orphans
    BY <2>4 DEF Same, RouteFields, Fields, RouteLists
  <2>6. OthersSame(R, S)
    BY <1>13, <2>3, <2>5 DEF LostSame, OrphansSame, OthersSame
  <2>7. Core(R)
    BY <1>7, <2>3, <2>4, <2>5, <2>6, RouteOpCore
  <2>8. \A q \in R[L] : (q \in S[L] /\ q # r) \/ Setting(S, L, want, q)
    BY <1>8, <1>9, <2>4
  <2>9. Current(S, L) => Current(R, L)
    BY <1>10, <2>4 DEF Current
  <2> QED
    BY <2>3, <2>4, <2>7, <2>8, <2>9 DEF R
<1> QED
  BY <1>15, <1>16

\* A state with an announced route.
WithFresh(S, L, X, F) == [S EXCEPT ![L] = X, !.fresh = F]

\* A state with another list of routes and other fresh ones.
LEMMA WithFreshRoutes ==
  ASSUME NEW S \in StateType, NEW L \in RouteLists, NEW X \in SUBSET RouteEntryType,
         NEW F \in SUBSET RouteEntryType
  PROVE  LET R == WithFresh(S, L, X, F)
         IN  R \in StateType /\ Same(R, S, {L, "fresh"}) /\ R[L] = X /\ R.fresh = F
<1>1. WithFresh(S, L, X, F) \in StateType
  BY DEF StateType, RouteLists, WithFresh
<1>2. Same(WithFresh(S, L, X, F), S, {L, "fresh"}) /\ WithFresh(S, L, X, F)[L] = X
      /\ WithFresh(S, L, X, F).fresh = F
  BY Typed DEF WithFresh, Same, Fields, RouteLists
<1> QED
  BY <1>1, <1>2

\* Entries with the same key and gateway are the same route.
LEMMA KeyRoute ==
  ASSUME NEW r, NEW o, RouteKey(r) = RouteKey(o), r.gw = o.gw
  PROVE  KRoute(r) = KRoute(o) /\ r.dst = o.dst
<1>1. /\ r.dst = o.dst /\ r.metric = o.metric /\ r.table = o.table /\ r.src = o.src
      /\ (r.tab # None) = (o.tab # None)
  BY DEF RouteKey
<1> QED
  BY <1>1 DEF KRoute

\* A number is left.
LEMMA NumberedFacts ==
  ASSUME NEW X, IsFiniteSet(X), NEW n \in RouteEntryType
  PROVE  \E k \in Nat : Numbered(X, n) = [n EXCEPT !.no = k]
<1> DEFINE N == Cardinality(X)
           Named(k) == [n EXCEPT !.no = k]
           Left(k) == \A q \in X : Node(q) # Node(Named(k))
<1>1. N \in Nat
  BY FS_CardinalityType
<1>2. \E k \in 0..N : Left(k)
  <2> SUFFICES ASSUME \A k \in 0..N : ~Left(k) PROVE FALSE
    OBVIOUS
  <2> DEFINE I == {q.no : q \in X}
  <2>1. ASSUME NEW k \in 0..N PROVE k \in I
    <3>1. PICK q \in X : Node(q) = Node(Named(k))
      OBVIOUS
    <3>2. Named(k).no = k
      BY DEF RouteEntryType
    <3> HIDE DEF Named
    <3>3. q.no = k
      BY <3>1, <3>2 DEF Node
    <3> QED
      BY <3>3
  <2>2. IsFiniteSet(I) /\ Cardinality(I) <= N
    <3> DEFINE f == [q \in X |-> q.no]
    <3>1. f \in Surjection(X, I)
      BY DEF Surjection
    <3> HIDE DEF f, I
    <3> QED
      BY <3>1, FS_Surjection
  <2>3. IsFiniteSet(0..N) /\ Cardinality(0..N) = N + 1
    <3> HIDE DEF N
    <3>1. 0 \in Int /\ N \in Int /\ ~(0 > N)
      BY <1>1
    <3>2. IsFiniteSet(0..N) /\ Cardinality(0..N) = IF 0 > N THEN 0 ELSE N - 0 + 1
      BY <3>1, FS_Interval
    <3> QED
      BY <1>1, <3>1, <3>2
  <2>4. 0..N \subseteq I
    BY <2>1
  <2> HIDE DEF I, N
  <2>5. Cardinality(0..N) <= Cardinality(I) /\ Cardinality(I) \in Nat
    BY <2>2, <2>4, FS_Subset, FS_CardinalityType
  <2> QED
    BY <1>1, <2>2, <2>3, <2>5
<1> DEFINE m == CHOOSE k \in 0..N : Left(k)
<1>3. m \in 0..N
  <2> HIDE DEF Left
  <2> QED
    BY <1>2
<1>4. Numbered(X, n) = Named(m)
  BY DEF Numbered
<1>5. m \in Nat
  BY <1>1, <1>3
<1> HIDE DEF m
<1>6. Numbered(X, n) = [n EXCEPT !.no = m]
  BY <1>4
<1> QED
  BY <1>5, <1>6

\* The entry that is put, m being the one given with a number of its own.
Entered(S, L, n, m, keep) ==
  [m EXCEPT !.enabled = enable_route(S, L, n), !.failed = ~keep /\ enable_route(S, L, n) /\ RouteRefused(S, n)]

\* An entry as it goes into the list.
LEMMA EnteredFacts ==
  ASSUME NEW S \in StateType, NEW L, NEW n \in RouteEntryType, NEW m,
         \E k \in Nat : m = [n EXCEPT !.no = k], NEW keep \in BOOLEAN
  PROVE  LET r == Entered(S, L, n, m, keep)
         IN  /\ r \in RouteEntryType /\ r.dst = n.dst /\ r.gw = n.gw /\ RouteKey(r) = RouteKey(n)
             /\ r.met = n.met /\ r.tab = n.tab /\ r.metric = n.metric /\ r.table = n.table
             /\ r.enabled = enable_route(S, L, r)
             /\ r.failed = (~keep /\ enable_route(S, L, n) /\ RouteRefused(S, n))
<1> DEFINE on == enable_route(S, L, n)
           failed == ~keep /\ on /\ RouteRefused(S, n)
           r == [m EXCEPT !.enabled = on, !.failed = failed]
<1>1. on \in BOOLEAN /\ failed \in BOOLEAN
  BY EnableRoute
<1>2. Entered(S, L, n, m, keep) = r
  BY DEF Entered
<1> HIDE DEF on, failed
<1>3. /\ m \in RouteEntryType /\ m.dst = n.dst /\ m.gw = n.gw
      /\ m.met = n.met /\ m.tab = n.tab /\ m.metric = n.metric /\ m.table = n.table /\ m.src = n.src
  BY DEF RouteEntryType
<1>4. /\ r \in RouteEntryType /\ r.dst = n.dst /\ r.gw = n.gw /\ r.enabled = on /\ r.failed = failed
      /\ r.met = n.met /\ r.tab = n.tab /\ r.metric = n.metric /\ r.table = n.table /\ r.src = n.src
  BY <1>1, <1>3 DEF RouteEntryType
<1> HIDE DEF r
<1>5. RouteKey(r) = RouteKey(n) /\ enable_route(S, L, r) = on
  BY <1>4 DEF RouteKey, enable_route, on
<1> QED
  BY <1>2, <1>4, <1>5 DEF on, failed

NewInfo(S, n) == (n.met = None => n.metric = S.set.metric) /\ (n.tab = None => n.table = S.set.table)

UpdateFields(L) == {L, "kroute", "lost", "fresh", "orphans"}

\* A state with one more route that is left behind.
Leaves(S, k) == [S EXCEPT !.orphans = @ \cup {<<"route", k>>}]

LEMMA LeavesFacts ==
  ASSUME NEW S \in StateType, NEW k \in KRouteType
  PROVE  LET R == Leaves(S, k)
         IN  R \in StateType /\ Same(R, S, {"orphans"}) /\ R.orphans = S.orphans \cup {<<"route", k>>}
<1> DEFINE O == S.orphans \cup {<<"route", k>>}
           R == [S EXCEPT !.orphans = O]
<1>1. Leaves(S, k) = R
  BY DEF Leaves
<1>2. O \in SUBSET HistoryType
  <2>1. <<"route", k>> \in HistoryType
    BY HistoryIn DEF Kinds
  <2> QED
    BY <2>1, Typed
<1> HIDE DEF O
<1>3. R \in StateType
  BY <1>2 DEF StateType
<1>4. Same(R, S, {"orphans"}) /\ R.orphans = O
  BY Typed DEF Same, Fields
<1> QED
  BY <1>1, <1>3, <1>4 DEF O

\* The state with the entry r in the list, or with its route left behind.
Put(S, L, r, drop) == IF drop THEN Leaves(S, KRoute(r)) ELSE WithFresh(S, L, S[L] \cup {r}, S.fresh \cup {r})

\* R is S with r in the list or left behind.
PutIn(R, S, L, r) ==
  /\ R \in StateType /\ Same(R, S, {L, "fresh", "orphans"}) /\ IsFiniteSet(R[L])
  /\ R[L] \subseteq S[L] \cup {r} /\ S.orphans \subseteq R.orphans
  /\ \A kind \in {"addr", "null", "rule"} : OrphansSame(R, S, kind)
  /\ \A k \in Needed(R) : k \in Needed(S) \/ (r.enabled /\ ~r.failed /\ k = KRoute(r))
  /\ Enabled(S) \subseteq Enabled(R)
  /\ r.enabled => Owns(R, KRoute(r))

\* What that does to the needed and the enabled routes.
LEMMA PutFacts ==
  ASSUME NEW S \in StateType, NEW L \in RouteLists, IsFiniteSet(S[L]), NEW r \in RouteEntryType, NEW drop \in BOOLEAN
  PROVE  PutIn(Put(S, L, r, drop), S, L, r)
<1> DEFINE R == Put(S, L, r, drop)
<1>1. CASE drop
  <2>1. R = Leaves(S, KRoute(r))
    BY <1>1 DEF Put
  <2>2. R \in StateType /\ Same(R, S, {"orphans"}) /\ R.orphans = S.orphans \cup {<<"route", KRoute(r)>>}
    BY <2>1, LeavesFacts, KRouteTyped
  <2> HIDE DEF R
  <2>3. R.addr = S.addr /\ (\A M \in RouteLists : R[M] = S[M]) /\ Same(R, S, {L, "fresh", "orphans"})
    BY <2>2 DEF Same, Fields, RouteLists
  <2>4. Enabled(R) = Enabled(S) /\ Needed(R) = Needed(S)
    BY <2>3, EnabledSame
  <2>5. \A kind \in {"addr", "null", "rule"} : OrphansSame(R, S, kind)
    BY <2>2 DEF OrphansSame
  <2>6. Owns(R, KRoute(r))
    BY <2>2 DEF Owns
  <2> QED
    BY <2>2, <2>3, <2>4, <2>5, <2>6 DEF R, PutIn
<1>2. CASE ~drop
  <2> DEFINE X == S[L] \cup {r}
             F == S.fresh \cup {r}
  <2>1. R = WithFresh(S, L, X, F)
    BY <1>2 DEF Put
  <2>2. X \in SUBSET RouteEntryType /\ F \in SUBSET RouteEntryType /\ IsFiniteSet(X)
    BY Typed, FS_AddElement
  <2>3. X \subseteq S[L] \cup {r} /\ S[L] \subseteq X /\ r \in X
    OBVIOUS
  <2> HIDE DEF X, F, R
  <2>4. R \in StateType /\ Same(R, S, {L, "fresh"}) /\ R[L] = X
    BY <2>1, <2>2, WithFreshRoutes
  <2>5. R.addr = S.addr /\ R.orphans = S.orphans /\ \A M \in RouteLists \ {L} : R[M] = S[M]
    BY <2>4 DEF Same, Fields, RouteLists
  <2>6. Same(R, S, {L, "fresh", "orphans"}) /\ \A kind : OrphansSame(R, S, kind)
    BY <2>4, <2>5 DEF Same, OrphansSame
  <2> DEFINE N == {r}  O == {}
  <2>7. Changed(R, S, L, N, O)
    BY <2>3, <2>4, <2>5 DEF Changed
  <2> HIDE DEF N, O
  <2>8. NeededFrom(R, S, N) /\ EnabledBut(R, S, O) /\ \A q \in R[L] : q.enabled => KRoute(q) \in Enabled(R)
    BY <2>7, ListChange
  <2>9. (\A k \in Needed(R) : k \in Needed(S) \/ (r.enabled /\ ~r.failed /\ k = KRoute(r)))
        /\ Enabled(S) \subseteq Enabled(R)
    BY <2>8 DEF NeededFrom, EnabledBut, N, O
  <2>10. r.enabled => Owns(R, KRoute(r))
    BY <2>3, <2>4, <2>8 DEF Owns
  <2> QED
    BY <2>2, <2>3, <2>4, <2>5, <2>6, <2>9, <2>10 DEF R, PutIn
<1> QED
  BY <1>1, <1>2

\* __interface_update_route() keeps the kernel in order; the only new entry is the one given.
LEMMA UpdateRouteKeeps ==
  ASSUME NEW S \in StateType, Core(S), NEW L \in RouteLists, Obeys(S, L), NEW n \in RouteEntryType
  PROVE  LET R == __interface_update_route(S, L, n)
         IN  /\ R \in StateType /\ Core(R) /\ Same(R, S, UpdateFields(L)) /\ Obeys(R, L)
             /\ S.orphans \subseteq R.orphans /\ OthersSame(R, S)
             /\ Current(S, L) /\ NewInfo(S, n) => Current(R, L)
             /\ \A q \in R[L] : q \in S[L] \/ (q.dst = n.dst /\ q.gw = n.gw)
<1> DEFINE R == __interface_update_route(S, L, n)
           old == Found(S, L, n)
           o == CHOOSE r \in old : TRUE
           keep == old # {} /\ o.gw = n.gw /\ ~o.failed
           on == enable_route(S, L, n)
           Y == S[L] \ {o}
           S1 == IF old = {} THEN S ELSE IF keep THEN With(S, L, Y) ELSE RemoveRoute(S, L, o)
           r == Entered(S, L, n, Numbered(S1[L], n), keep)
           drop == old # {} /\ Dropped(S1, L, r)
           S2 == Put(S1, L, r, drop)
<1>1. R = IF ~keep /\ on THEN AddIfTaken(S2, r) ELSE S2
  BY DEF __interface_update_route, With, WithFresh, Entered, Put, Insert, Leaves
<1>2. keep \in BOOLEAN /\ on \in BOOLEAN /\ drop \in BOOLEAN
  BY EnableRoute DEF Dropped
<1>3. S[L] \in SUBSET RouteEntryType /\ IsFiniteSet(S[L])
  BY Typed DEF Core, Finite
<1>4. /\ old # {} => o \in S[L] /\ o \in RouteEntryType /\ RouteKey(o) = RouteKey(n)
      /\ keep => old # {} /\ o.gw = n.gw /\ ~o.failed
  BY <1>3 DEF Found
<1>5. Y \in SUBSET RouteEntryType /\ Y \subseteq S[L] /\ S[L] \subseteq Y \cup {o} /\ IsFiniteSet(Y)
  BY <1>3, FS_RemoveElement
<1>6. /\ old = {} => S1 = S
      /\ old # {} /\ keep => S1 = With(S, L, Y)
      /\ old # {} /\ ~keep => S1 = RemoveRoute(S, L, o)
  OBVIOUS
<1> HIDE DEF old, o, keep, Y, S1, drop
<1>8. /\ S1 \in StateType /\ Same(S1, S, RouteFields(L)) /\ S1[L] \subseteq S[L] /\ IsFiniteSet(S1[L])
      /\ ~keep => Core(S1)
      /\ keep => Same(S1, S, {L}) /\ S1[L] = Y
      /\ OthersSame(S1, S)
  <2>1. CASE old = {}
    BY <1>3, <1>4, <1>6, <2>1 DEF Same, OthersSame, LostSame, OrphansSame
  <2>2. CASE old # {} /\ keep
    <3>1. S1 \in StateType /\ Same(S1, S, {L}) /\ S1[L] = Y
      BY <1>5, <1>6, <2>2, WithRoutes
    <3>2. S1.lost = S.lost /\ S1.orphans = S.orphans
      BY <3>1 DEF Same, Fields, RouteLists
    <3> QED
      BY <1>5, <2>2, <3>1, <3>2 DEF Same, RouteFields, OthersSame, LostSame, OrphansSame
  <2>3. CASE old # {} /\ ~keep
    <3>1. /\ S1 \in StateType /\ Core(S1) /\ Same(S1, S, RouteFields(L)) /\ S1[L] = S[L] \ {o} /\ OthersSame(S1, S)
      BY <1>4, <1>6, <2>3, RemoveRouteKeeps
    <3> QED
      BY <1>5, <2>3, <3>1 DEF Y
  <2> QED
    BY <2>1, <2>2, <2>3
<1>8a. S1.orphans = S.orphans /\ S1.unsorted = S.unsorted
  <2>1. CASE old = {}
    BY <1>6, <2>1
  <2>2. CASE old # {} /\ keep
    BY <1>8, <2>2 DEF Same, Fields, RouteLists
  <2>3. CASE old # {} /\ ~keep
    BY <1>4, <1>6, <2>3, RemoveRouteKeeps
  <2> QED
    BY <2>1, <2>2, <2>3
<1>7a. /\ r \in RouteEntryType /\ r.dst = n.dst /\ r.gw = n.gw /\ RouteKey(r) = RouteKey(n)
       /\ r.met = n.met /\ r.tab = n.tab /\ r.metric = n.metric /\ r.table = n.table
       /\ r.enabled = enable_route(S, L, r)
       /\ r.failed = (~keep /\ on /\ RouteRefused(S, n))
  <2> DEFINE m == Numbered(S1[L], n)
  <2>1. \E k \in Nat : m = [n EXCEPT !.no = k]
    BY <1>8, NumberedFacts
  <2> HIDE DEF m
  <2>2. LET q == Entered(S, L, n, m, keep)
        IN  /\ q \in RouteEntryType /\ q.dst = n.dst /\ q.gw = n.gw /\ RouteKey(q) = RouteKey(n)
            /\ q.met = n.met /\ q.tab = n.tab /\ q.metric = n.metric /\ q.table = n.table
            /\ q.enabled = enable_route(S, L, q)
            /\ q.failed = (~keep /\ enable_route(S, L, n) /\ RouteRefused(S, n))
    BY <1>2, <2>1, EnteredFacts
  <2> QED
    BY <2>2 DEF m
<1> HIDE DEF r
<1>7b. enable_route(S, L, r) = on
  BY <1>7a DEF enable_route
<1> HIDE DEF on
<1>7. /\ r \in RouteEntryType /\ r.dst = n.dst /\ r.gw = n.gw /\ RouteKey(r) = RouteKey(n)
      /\ r.met = n.met /\ r.tab = n.tab /\ r.metric = n.metric /\ r.table = n.table
      /\ r.enabled = enable_route(S, L, r) /\ r.enabled = on
      /\ r.failed = (~keep /\ on /\ RouteRefused(S, n))
  BY <1>7a, <1>7b
<1>11. /\ S2 \in StateType /\ Same(S2, S1, {L, "fresh", "orphans"}) /\ IsFiniteSet(S2[L])
       /\ S2[L] \subseteq S1[L] \cup {r} /\ S1.orphans \subseteq S2.orphans
       /\ \A kind \in {"addr", "null", "rule"} : OrphansSame(S2, S1, kind)
       /\ \A k \in Needed(S2) : k \in Needed(S1) \/ (r.enabled /\ ~r.failed /\ k = KRoute(r))
       /\ Enabled(S1) \subseteq Enabled(S2)
       /\ r.enabled => Owns(S2, KRoute(r))
  <2>1. S1 \in StateType /\ IsFiniteSet(S1[L]) /\ r \in RouteEntryType
    BY <1>7, <1>8
  <2>2. drop \in BOOLEAN
    BY <1>2
  <2>3. PutIn(S2, S1, L, r)
    BY <2>1, <2>2, PutFacts
  <2> HIDE DEF S2
  <2> QED
    BY <2>3 DEF PutIn
<1> HIDE DEF S2, R
<1>12. S2.kroute = S1.kroute /\ S2.lost = S1.lost /\ S2.bad = S.bad
  BY <1>8, <1>11 DEF Same, Fields, RouteLists, RouteFields
<1>13. /\ R \in StateType /\ Same(R, S2, {"kroute", "lost"}) /\ RoutesOK(R)
       /\ \A kind \in {"addr", "null", "rule"} : LostSame(R, S2, kind)
  <2>1. CASE keep
    <3>1. R = S2
      BY <1>1, <2>1
    <3>2. /\ S1.addr = S.addr /\ S1.kroute = S.kroute /\ S1.lost = S.lost /\ S1.orphans = S.orphans
          /\ \A M \in RouteLists \ {L} : S1[M] = S[M]
      BY <1>8, <2>1 DEF Same, Fields, RouteLists
    <3>3. KRoute(r) = KRoute(o) /\ r.dst = o.dst
      BY <1>4, <1>7, <2>1, KeyRoute
    <3>4. o.enabled = r.enabled /\ ~o.failed /\ o \in S[L]
      BY <1>4, <1>7, <2>1, <3>3 DEF Obeys, enable_route
    <3> DEFINE N == {}  O == {o}
    <3>5. Changed(S1, S, L, N, O)
      BY <1>5, <1>8, <2>1, <3>2 DEF Changed
    <3> HIDE DEF N, O
    <3>6. NeededFrom(S1, S, N) /\ EnabledBut(S1, S, O)
      BY <3>5, ListChange
    <3>7. o.enabled => KRoute(o) \in Needed(S)
      BY <3>4 DEF Needed, Routes, RouteLists
    <3>8. ASSUME NEW k \in Needed(S2) PROVE Has(S2, k)
      <4>1. k \in Needed(S)
        BY <1>11, <3>3, <3>4, <3>6, <3>7, <3>8 DEF NeededFrom, N
      <4> QED
        BY <1>12, <3>2, <4>1 DEF Core, RoutesOK, Has
    <3>9. ASSUME NEW k \in S2.kroute PROVE Owns(S2, k)
      <4>1. Owns(S, k)
        BY <1>12, <3>2, <3>9 DEF Core, RoutesOK
      <4>2. k \in Enabled(S) => k \in Enabled(S2) \/ (r.enabled /\ k = KRoute(r))
        BY <1>11, <3>3, <3>4, <3>6 DEF EnabledBut, O
      <4> QED
        BY <1>11, <3>2, <4>1, <4>2 DEF Owns
    <3> QED
      BY <1>11, <3>1, <3>8, <3>9 DEF RoutesOK, Same, LostSame
  <2>2. CASE ~keep
    <3>3. RoutesOK(S1)
      BY <1>8, <2>2 DEF Core
    <3>4. \A k \in S2.kroute : Owns(S2, k)
      BY <1>11, <1>12, <3>3 DEF RoutesOK, Owns
    <3>5. \A k \in Needed(S2) : Has(S2, k) \/ (r.enabled /\ ~r.failed /\ k = KRoute(r))
      BY <1>11, <1>12, <3>3 DEF RoutesOK, Has
    <3>6. RouteRefused(S2, r) = RouteRefused(S, n)
      BY <1>7, <1>12 DEF RouteRefused
    <3>7. CASE on /\ ~RouteRefused(S2, r)
      <4> DEFINE k == KRoute(r)
      <4>1. R = system_add_route(S2, k)
        BY <1>1, <2>2, <3>7 DEF AddIfTaken
      <4>2. k \in KRouteType /\ Owns(S2, k)
        BY <1>7, <1>11, <3>7, KRouteTyped
      <4>3. \A x \in Needed(S2) : SameSlot(x, k) \/ Has(S2, x)
        BY <3>5 DEF SameSlot
      <4> HIDE DEF k
      <4>4. RoutesOK(R)
        BY <1>11, <3>4, <4>1, <4>2, <4>3, AddRouteOK
      <4> QED
        BY <1>11, <4>1, <4>2, <4>4, AddRoute
    <3>8. CASE ~on \/ RouteRefused(S2, r)
      <4>1. R = S2
        BY <1>1, <2>2, <3>8 DEF AddIfTaken
      <4>2. ~(r.enabled /\ ~r.failed)
        BY <1>7, <2>2, <3>6, <3>8
      <4> QED
        BY <1>11, <3>4, <3>5, <4>1, <4>2 DEF RoutesOK, Same, LostSame
    <3> QED
      BY <3>7, <3>8
  <2> QED
    BY <1>2, <2>1, <2>2
<1>14. Same(R, S, {L, "kroute", "lost", "unsorted", "fresh", "orphans"}) /\ R.unsorted = S.unsorted /\ R[L] = S2[L]
       /\ R.set = S.set /\ R.enabled = S.enabled /\ R.orphans = S2.orphans
  BY <1>8, <1>8a, <1>11, <1>13 DEF Same, RouteFields, Fields, RouteLists
<1>14a. Same(R, S, UpdateFields(L)) /\ S.orphans \subseteq R.orphans
  BY <1>8a, <1>11, <1>14 DEF Same, UpdateFields
<1>15. OthersSame(R, S)
  BY <1>8, <1>11, <1>12, <1>13, <1>14 DEF LostSame, OrphansSame, OthersSame
<1>16. Core(R)
  BY <1>11, <1>13, <1>14, <1>15, RouteOpCore
<1>17. ASSUME NEW q \in R[L] PROVE q \in S[L] \/ q = r
  BY <1>8, <1>11, <1>14
<1>18. Obeys(R, L)
  BY <1>7, <1>14, <1>17 DEF Obeys, enable_route
<1>19. ASSUME Current(S, L), NewInfo(S, n) PROVE Current(R, L)
  <2>1. (r.met = None => r.metric = S.set.metric) /\ (r.tab = None => r.table = S.set.table)
    BY <1>7, <1>19 DEF NewInfo
  <2> QED
    BY <1>14, <1>17, <1>19, <2>1 DEF Current
<1>20. \A q \in R[L] : q \in S[L] \/ (q.dst = n.dst /\ q.gw = n.gw)
  BY <1>7, <1>17
<1> QED
  BY <1>13, <1>14a, <1>15, <1>16, <1>18, <1>19, <1>20 DEF R

-----------------------------------------------------------------------------
(***************************************************************************)
(* The passes over a list: what every round keeps, the pass keeps.         *)
(***************************************************************************)

\* The order of a pass over a set meets each element.
LEMMA SetToSeqFacts == ASSUME NEW T, IsFiniteSet(T) PROVE Turns(Len(SetToSeq(T)), SetToSeq(T), T)
<1> DEFINE N == Cardinality(T)
           q == SetToSeq(T)
<1>1. N \in Nat /\ ExistsBijection(1 .. N, T)
  BY FS_CardinalityType
<1>2. PICK b : b \in Bijection(1 .. N, T)
  BY <1>1 DEF ExistsBijection
<1>3. b \in [1 .. N -> T] /\ IsInjective(b)
  BY <1>2 DEF Bijection, Injection, IsInjective
<1>4. q \in [1 .. N -> T] /\ IsInjective(q)
  <2>1. q = CHOOSE f \in [1 .. N -> T] : IsInjective(f)
    BY DEF SetToSeq
  <2> QED
    BY <1>3, <2>1
<1> HIDE DEF N, q
<1>5. q \in Injection(1 .. N, T)
  BY <1>4 DEF Injection, IsInjective
<1>6. Cardinality(1 .. N) = N
  BY <1>1, FS_Interval
<1>7. q \in Surjection(1 .. N, T)
  BY <1>5, <1>6, FS_Injection DEF N
<1>8. \A x \in T : \E i \in 1 .. N : q[i] = x
  BY <1>7 DEF Surjection
<1>9. Len(q) = N
  BY <1>1, <1>4, LenProperties
<1> QED
  BY <1>1, <1>4, <1>8, <1>9 DEF Turns, q

\* RemoveRoutes().
RemoveRouteRound(D, T, L) == [x \in D \X T |-> RemoveRoute(x[1], L, x[2])]

\* A pass that removes routes ends in D with none of them pending.
LEMMA RemoveRoutesPass ==
  ASSUME NEW S, NEW L, NEW T, IsFiniteSet(T), NEW D, S \in D, NEW w, w[S] \subseteq T, Drains(RemoveRouteRound(D,
         T, L), w, D, T)
  PROVE  RemoveRoutes(S, L, T) \in D /\ w[RemoveRoutes(S, L, T)] = {}
<1> DEFINE q == SetToSeq(T)
           N == Len(q)
           g == RemoveRouteRound(D, T, L)
           Eq(a) == a = [n \in 0 .. N |-> IF n = 0 THEN S ELSE RemoveRoute(a[n - 1], L, q[n])]
           after == CHOOSE a : Eq(a)
<1>1. RemoveRoutes(S, L, T) = after[N]
  BY DEF RemoveRoutes, ForEach, InOrder
<1>2. Turns(N, q, T)
  BY SetToSeqFacts
<1>3. N \in Nat /\ Lists(q, N, T)
  BY <1>2 DEF Turns, Lists
<1> HIDE DEF q, N
<1>4. \A s \in D, x \in T : g[<<s, x>>] = RemoveRoute(s, L, x)
  BY DEF RemoveRouteRound
<1>5. g = [x \in D \X T |-> RemoveRoute(x[1], L, x[2])]
  BY DEF RemoveRouteRound
<1> HIDE DEF g, RemoveRouteRound
<1>6. Drains(g, w, D, T)
  BY DEF g
<1>7. Round(g, D, T)
  BY <1>5, <1>6 DEF Round, Drains
<1>8. PICK f : Loop(f, D, N, S, g, q)
  <2> HIDE DEF Eq, after
  <2> QED
    BY <1>3, <1>7, LoopExists
<1>9. f \in [0 .. N -> D] /\ f[0] = S /\ \A n \in 1 .. N : f[n] = g[<<f[n - 1], q[n]>>]
  BY <1>8 DEF Loop
<1>10. ASSUME NEW n \in 1 .. N PROVE f[n] = RemoveRoute(f[n - 1], L, q[n])
  <2>1. f[n - 1] \in D /\ q[n] \in T
    BY <1>3, <1>9 DEF Lists
  <2> QED
    BY <1>4, <1>9, <2>1
<1>11. Eq(f)
  <2>1. \A n \in 0 .. N : f[n] = IF n = 0 THEN S ELSE RemoveRoute(f[n - 1], L, q[n])
    BY <1>3, <1>9, <1>10
  <2> QED
    BY <1>9, <2>1
<1>12. Eq(after)
  <2> HIDE DEF Eq
  <2> QED
    BY <1>11
<1> HIDE DEF after
<1>13. after[0] = S /\ \A n \in 1 .. N : after[n] = RemoveRoute(after[n - 1], L, q[n])
  BY <1>3, <1>12
<1> HIDE DEF Eq
<1>14. after[0] \in D /\ Follows(after, D, N, g, q)
  BY <1>3, <1>4, <1>13 DEF Lists, Follows
<1> QED
  BY <1>1, <1>2, <1>6, <1>13, <1>14, PassEnds

\* UpdateRoutes().
UpdateRouteRound(D, T, L) == [x \in D \X T |-> __interface_update_route(x[1], L, NewRoute(x[1], x[2]))]

\* The same for a pass over announced routes.
LEMMA UpdateRoutesPass ==
  ASSUME NEW S, NEW L, NEW T, IsFiniteSet(T), NEW D, S \in D, NEW w, w[S] \subseteq T, Drains(UpdateRouteRound(D,
         T, L), w, D, T)
  PROVE  UpdateRoutes(S, L, T) \in D /\ w[UpdateRoutes(S, L, T)] = {}
<1> DEFINE q == SetToSeq(T)
           N == Len(q)
           g == UpdateRouteRound(D, T, L)
           Eq(a) == a = [n \in 0 .. N |-> IF n = 0 THEN S ELSE __interface_update_route(a[n - 1], L, NewRoute(a[n - 1], q[n]))]
           after == CHOOSE a : Eq(a)
<1>1. UpdateRoutes(S, L, T) = after[N]
  BY DEF UpdateRoutes, ForEach, InOrder
<1>2. Turns(N, q, T)
  BY SetToSeqFacts
<1>3. N \in Nat /\ Lists(q, N, T)
  BY <1>2 DEF Turns, Lists
<1> HIDE DEF q, N
<1>4. \A s \in D, x \in T : g[<<s, x>>] = __interface_update_route(s, L, NewRoute(s, x))
  BY DEF UpdateRouteRound
<1>5. g = [x \in D \X T |-> __interface_update_route(x[1], L, NewRoute(x[1], x[2]))]
  BY DEF UpdateRouteRound
<1> HIDE DEF g, UpdateRouteRound
<1>6. Drains(g, w, D, T)
  BY DEF g
<1>7. Round(g, D, T)
  BY <1>5, <1>6 DEF Round, Drains
<1>8. PICK f : Loop(f, D, N, S, g, q)
  <2> HIDE DEF Eq, after
  <2> QED
    BY <1>3, <1>7, LoopExists
<1>9. f \in [0 .. N -> D] /\ f[0] = S /\ \A n \in 1 .. N : f[n] = g[<<f[n - 1], q[n]>>]
  BY <1>8 DEF Loop
<1>10. ASSUME NEW n \in 1 .. N PROVE f[n] = __interface_update_route(f[n - 1], L, NewRoute(f[n - 1], q[n]))
  <2>1. f[n - 1] \in D /\ q[n] \in T
    BY <1>3, <1>9 DEF Lists
  <2> QED
    BY <1>4, <1>9, <2>1
<1>11. Eq(f)
  <2>1. \A n \in 0 .. N : f[n] = IF n = 0 THEN S ELSE __interface_update_route(f[n - 1], L, NewRoute(f[n - 1], q[n]))
    BY <1>3, <1>9, <1>10
  <2> QED
    BY <1>9, <2>1
<1>12. Eq(after)
  <2> HIDE DEF Eq
  <2> QED
    BY <1>11
<1> HIDE DEF after
<1>13. after[0] = S /\ \A n \in 1 .. N : after[n] = __interface_update_route(after[n - 1], L, NewRoute(after[n - 1], q[n]))
  BY <1>3, <1>12
<1> HIDE DEF Eq
<1>14. after[0] \in D /\ Follows(after, D, N, g, q)
  BY <1>3, <1>4, <1>13 DEF Lists, Follows
<1> QED
  BY <1>1, <1>2, <1>6, <1>13, <1>14, PassEnds

\* SetRoutes(), before it looks at the order.
SetEach(S, L, want) == ForEach(LAMBDA T, r : interface_ip_set_route_enabled(T, L, r, want), S, S[L])

SetRouteRound(D, T, L, want) == [x \in D \X T |-> interface_ip_set_route_enabled(x[1], L, x[2], want)]

\* The same for a pass that turns the routes of a list on or off.
LEMMA SetRoutesPass ==
  ASSUME NEW S, NEW L, NEW want, NEW T, T = S[L], IsFiniteSet(T), NEW D, S \in D, NEW w, w[S] \subseteq T,
         Drains(SetRouteRound(D, T, L, want), w, D, T)
  PROVE  SetEach(S, L, want) \in D /\ w[SetEach(S, L, want)] = {}
<1> DEFINE q == SetToSeq(T)
           N == Len(q)
           g == SetRouteRound(D, T, L, want)
           Eq(a) == a = [n \in 0 .. N |-> IF n = 0 THEN S ELSE interface_ip_set_route_enabled(a[n - 1], L, q[n], want)]
           after == CHOOSE a : Eq(a)
<1>1. SetEach(S, L, want) = after[N]
  BY DEF SetEach, ForEach, InOrder
<1>2. Turns(N, q, T)
  BY SetToSeqFacts
<1>3. N \in Nat /\ Lists(q, N, T)
  BY <1>2 DEF Turns, Lists
<1> HIDE DEF q, N
<1>4. \A s \in D, x \in T : g[<<s, x>>] = interface_ip_set_route_enabled(s, L, x, want)
  BY DEF SetRouteRound
<1>5. g = [x \in D \X T |-> interface_ip_set_route_enabled(x[1], L, x[2], want)]
  BY DEF SetRouteRound
<1> HIDE DEF g, SetRouteRound
<1>6. Drains(g, w, D, T)
  BY DEF g
<1>7. Round(g, D, T)
  BY <1>5, <1>6 DEF Round, Drains
<1>8. PICK f : Loop(f, D, N, S, g, q)
  <2> HIDE DEF Eq, after
  <2> QED
    BY <1>3, <1>7, LoopExists
<1>9. f \in [0 .. N -> D] /\ f[0] = S /\ \A n \in 1 .. N : f[n] = g[<<f[n - 1], q[n]>>]
  BY <1>8 DEF Loop
<1>10. ASSUME NEW n \in 1 .. N PROVE f[n] = interface_ip_set_route_enabled(f[n - 1], L, q[n], want)
  <2>1. f[n - 1] \in D /\ q[n] \in T
    BY <1>3, <1>9 DEF Lists
  <2> QED
    BY <1>4, <1>9, <2>1
<1>11. Eq(f)
  <2>1. \A n \in 0 .. N : f[n] = IF n = 0 THEN S ELSE interface_ip_set_route_enabled(f[n - 1], L, q[n], want)
    BY <1>3, <1>9, <1>10
  <2> QED
    BY <1>9, <2>1
<1>12. Eq(after)
  <2> HIDE DEF Eq
  <2> QED
    BY <1>11
<1> HIDE DEF after
<1>13. after[0] = S /\ \A n \in 1 .. N : after[n] = interface_ip_set_route_enabled(after[n - 1], L, q[n], want)
  BY <1>3, <1>12
<1> HIDE DEF Eq
<1>14. after[0] \in D /\ Follows(after, D, N, g, q)
  BY <1>3, <1>4, <1>13 DEF Lists, Follows
<1> QED
  BY <1>1, <1>2, <1>6, <1>13, <1>14, PassEnds

\* RemoveNeighs().
RemoveNeighRound(D, T) == [x \in D \X T |-> RemoveNeigh(x[1], x[2])]

\* The same for a pass that removes neighbours.
LEMMA RemoveNeighsPass ==
  ASSUME NEW S, NEW T, IsFiniteSet(T), NEW D, S \in D, NEW w, w[S] \subseteq T, Drains(RemoveNeighRound(D, T), w, D, T)
  PROVE  RemoveNeighs(S, T) \in D /\ w[RemoveNeighs(S, T)] = {}
<1> DEFINE q == SetToSeq(T)
           N == Len(q)
           g == RemoveNeighRound(D, T)
           Eq(a) == a = [n \in 0 .. N |-> IF n = 0 THEN S ELSE RemoveNeigh(a[n - 1], q[n])]
           after == CHOOSE a : Eq(a)
<1>1. RemoveNeighs(S, T) = after[N]
  BY DEF RemoveNeighs, ForEach, InOrder
<1>2. Turns(N, q, T)
  BY SetToSeqFacts
<1>3. N \in Nat /\ Lists(q, N, T)
  BY <1>2 DEF Turns, Lists
<1> HIDE DEF q, N
<1>4. \A s \in D, x \in T : g[<<s, x>>] = RemoveNeigh(s, x)
  BY DEF RemoveNeighRound
<1>5. g = [x \in D \X T |-> RemoveNeigh(x[1], x[2])]
  BY DEF RemoveNeighRound
<1> HIDE DEF g, RemoveNeighRound
<1>6. Drains(g, w, D, T)
  BY DEF g
<1>7. Round(g, D, T)
  BY <1>5, <1>6 DEF Round, Drains
<1>8. PICK f : Loop(f, D, N, S, g, q)
  <2> HIDE DEF Eq, after
  <2> QED
    BY <1>3, <1>7, LoopExists
<1>9. f \in [0 .. N -> D] /\ f[0] = S /\ \A n \in 1 .. N : f[n] = g[<<f[n - 1], q[n]>>]
  BY <1>8 DEF Loop
<1>10. ASSUME NEW n \in 1 .. N PROVE f[n] = RemoveNeigh(f[n - 1], q[n])
  <2>1. f[n - 1] \in D /\ q[n] \in T
    BY <1>3, <1>9 DEF Lists
  <2> QED
    BY <1>4, <1>9, <2>1
<1>11. Eq(f)
  <2>1. \A n \in 0 .. N : f[n] = IF n = 0 THEN S ELSE RemoveNeigh(f[n - 1], q[n])
    BY <1>3, <1>9, <1>10
  <2> QED
    BY <1>9, <2>1
<1>12. Eq(after)
  <2> HIDE DEF Eq
  <2> QED
    BY <1>11
<1> HIDE DEF after
<1>13. after[0] = S /\ \A n \in 1 .. N : after[n] = RemoveNeigh(after[n - 1], q[n])
  BY <1>3, <1>12
<1> HIDE DEF Eq
<1>14. after[0] \in D /\ Follows(after, D, N, g, q)
  BY <1>3, <1>4, <1>13 DEF Lists, Follows
<1> QED
  BY <1>1, <1>2, <1>6, <1>13, <1>14, PassEnds

\* UpdateNeighs().
UpdateNeighRound(D, T) == [x \in D \X T |-> interface_update_proto_neighbor(x[1], x[2])]

\* The same for a pass over announced neighbours.
LEMMA UpdateNeighsPass ==
  ASSUME NEW S, NEW T, IsFiniteSet(T), NEW D, S \in D, NEW w, w[S] \subseteq T, Drains(UpdateNeighRound(D, T), w, D, T)
  PROVE  UpdateNeighs(S, T) \in D /\ w[UpdateNeighs(S, T)] = {}
<1> DEFINE q == SetToSeq(T)
           N == Len(q)
           g == UpdateNeighRound(D, T)
           Eq(a) == a = [n \in 0 .. N |-> IF n = 0 THEN S ELSE interface_update_proto_neighbor(a[n - 1], q[n])]
           after == CHOOSE a : Eq(a)
<1>1. UpdateNeighs(S, T) = after[N]
  BY DEF UpdateNeighs, ForEach, InOrder
<1>2. Turns(N, q, T)
  BY SetToSeqFacts
<1>3. N \in Nat /\ Lists(q, N, T)
  BY <1>2 DEF Turns, Lists
<1> HIDE DEF q, N
<1>4. \A s \in D, x \in T : g[<<s, x>>] = interface_update_proto_neighbor(s, x)
  BY DEF UpdateNeighRound
<1>5. g = [x \in D \X T |-> interface_update_proto_neighbor(x[1], x[2])]
  BY DEF UpdateNeighRound
<1> HIDE DEF g, UpdateNeighRound
<1>6. Drains(g, w, D, T)
  BY DEF g
<1>7. Round(g, D, T)
  BY <1>5, <1>6 DEF Round, Drains
<1>8. PICK f : Loop(f, D, N, S, g, q)
  <2> HIDE DEF Eq, after
  <2> QED
    BY <1>3, <1>7, LoopExists
<1>9. f \in [0 .. N -> D] /\ f[0] = S /\ \A n \in 1 .. N : f[n] = g[<<f[n - 1], q[n]>>]
  BY <1>8 DEF Loop
<1>10. ASSUME NEW n \in 1 .. N PROVE f[n] = interface_update_proto_neighbor(f[n - 1], q[n])
  <2>1. f[n - 1] \in D /\ q[n] \in T
    BY <1>3, <1>9 DEF Lists
  <2> QED
    BY <1>4, <1>9, <2>1
<1>11. Eq(f)
  <2>1. \A n \in 0 .. N : f[n] = IF n = 0 THEN S ELSE interface_update_proto_neighbor(f[n - 1], q[n])
    BY <1>3, <1>9, <1>10
  <2> QED
    BY <1>9, <2>1
<1>12. Eq(after)
  <2> HIDE DEF Eq
  <2> QED
    BY <1>11
<1> HIDE DEF after
<1>13. after[0] = S /\ \A n \in 1 .. N : after[n] = interface_update_proto_neighbor(after[n - 1], q[n])
  BY <1>3, <1>12
<1> HIDE DEF Eq
<1>14. after[0] \in D /\ Follows(after, D, N, g, q)
  BY <1>3, <1>4, <1>13 DEF Lists, Follows
<1> QED
  BY <1>1, <1>2, <1>6, <1>13, <1>14, PassEnds

\* SetNeighs().
SetNeighRound(D, T, want) == [x \in D \X T |-> SetNeigh(x[1], x[2], want)]

\* The same for a pass that turns the neighbours on or off.
LEMMA SetNeighsPass ==
  ASSUME NEW S, NEW want, NEW T, T = S.neigh, IsFiniteSet(T), NEW D, S \in D, NEW w, w[S] \subseteq T,
         Drains(SetNeighRound(D, T, want), w, D, T)
  PROVE  SetNeighs(S, want) \in D /\ w[SetNeighs(S, want)] = {}
<1> DEFINE q == SetToSeq(T)
           N == Len(q)
           g == SetNeighRound(D, T, want)
           Eq(a) == a = [n \in 0 .. N |-> IF n = 0 THEN S ELSE SetNeigh(a[n - 1], q[n], want)]
           after == CHOOSE a : Eq(a)
<1>1. SetNeighs(S, want) = after[N]
  BY DEF SetNeighs, ForEach, InOrder
<1>2. Turns(N, q, T)
  BY SetToSeqFacts
<1>3. N \in Nat /\ Lists(q, N, T)
  BY <1>2 DEF Turns, Lists
<1> HIDE DEF q, N
<1>4. \A s \in D, x \in T : g[<<s, x>>] = SetNeigh(s, x, want)
  BY DEF SetNeighRound
<1>5. g = [x \in D \X T |-> SetNeigh(x[1], x[2], want)]
  BY DEF SetNeighRound
<1> HIDE DEF g, SetNeighRound
<1>6. Drains(g, w, D, T)
  BY DEF g
<1>7. Round(g, D, T)
  BY <1>5, <1>6 DEF Round, Drains
<1>8. PICK f : Loop(f, D, N, S, g, q)
  <2> HIDE DEF Eq, after
  <2> QED
    BY <1>3, <1>7, LoopExists
<1>9. f \in [0 .. N -> D] /\ f[0] = S /\ \A n \in 1 .. N : f[n] = g[<<f[n - 1], q[n]>>]
  BY <1>8 DEF Loop
<1>10. ASSUME NEW n \in 1 .. N PROVE f[n] = SetNeigh(f[n - 1], q[n], want)
  <2>1. f[n - 1] \in D /\ q[n] \in T
    BY <1>3, <1>9 DEF Lists
  <2> QED
    BY <1>4, <1>9, <2>1
<1>11. Eq(f)
  <2>1. \A n \in 0 .. N : f[n] = IF n = 0 THEN S ELSE SetNeigh(f[n - 1], q[n], want)
    BY <1>3, <1>9, <1>10
  <2> QED
    BY <1>9, <2>1
<1>12. Eq(after)
  <2> HIDE DEF Eq
  <2> QED
    BY <1>11
<1> HIDE DEF after
<1>13. after[0] = S /\ \A n \in 1 .. N : after[n] = SetNeigh(after[n - 1], q[n], want)
  BY <1>3, <1>12
<1> HIDE DEF Eq
<1>14. after[0] \in D /\ Follows(after, D, N, g, q)
  BY <1>3, <1>4, <1>13 DEF Lists, Follows
<1> QED
  BY <1>1, <1>2, <1>6, <1>13, <1>14, PassEnds

\* RemoveAddrs().
RemoveAddrRound(D, T) == [x \in D \X T |-> RemoveAddr(x[1], x[2])]

\* The same for a pass that removes addresses.
LEMMA RemoveAddrsPass ==
  ASSUME NEW S, NEW T, IsFiniteSet(T), NEW D, S \in D, NEW w, w[S] \subseteq T, Drains(RemoveAddrRound(D, T), w, D, T)
  PROVE  RemoveAddrs(S, T) \in D /\ w[RemoveAddrs(S, T)] = {}
<1> DEFINE q == SetToSeq(T)
           N == Len(q)
           g == RemoveAddrRound(D, T)
           Eq(a) == a = [n \in 0 .. N |-> IF n = 0 THEN S ELSE RemoveAddr(a[n - 1], q[n])]
           after == CHOOSE a : Eq(a)
<1>1. RemoveAddrs(S, T) = after[N]
  BY DEF RemoveAddrs, ForEach, InOrder
<1>2. Turns(N, q, T)
  BY SetToSeqFacts
<1>3. N \in Nat /\ Lists(q, N, T)
  BY <1>2 DEF Turns, Lists
<1> HIDE DEF q, N
<1>4. \A s \in D, x \in T : g[<<s, x>>] = RemoveAddr(s, x)
  BY DEF RemoveAddrRound
<1>5. g = [x \in D \X T |-> RemoveAddr(x[1], x[2])]
  BY DEF RemoveAddrRound
<1> HIDE DEF g, RemoveAddrRound
<1>6. Drains(g, w, D, T)
  BY DEF g
<1>7. Round(g, D, T)
  BY <1>5, <1>6 DEF Round, Drains
<1>8. PICK f : Loop(f, D, N, S, g, q)
  <2> HIDE DEF Eq, after
  <2> QED
    BY <1>3, <1>7, LoopExists
<1>9. f \in [0 .. N -> D] /\ f[0] = S /\ \A n \in 1 .. N : f[n] = g[<<f[n - 1], q[n]>>]
  BY <1>8 DEF Loop
<1>10. ASSUME NEW n \in 1 .. N PROVE f[n] = RemoveAddr(f[n - 1], q[n])
  <2>1. f[n - 1] \in D /\ q[n] \in T
    BY <1>3, <1>9 DEF Lists
  <2> QED
    BY <1>4, <1>9, <2>1
<1>11. Eq(f)
  <2>1. \A n \in 0 .. N : f[n] = IF n = 0 THEN S ELSE RemoveAddr(f[n - 1], q[n])
    BY <1>3, <1>9, <1>10
  <2> QED
    BY <1>9, <2>1
<1>12. Eq(after)
  <2> HIDE DEF Eq
  <2> QED
    BY <1>11
<1> HIDE DEF after
<1>13. after[0] = S /\ \A n \in 1 .. N : after[n] = RemoveAddr(after[n - 1], q[n])
  BY <1>3, <1>12
<1> HIDE DEF Eq
<1>14. after[0] \in D /\ Follows(after, D, N, g, q)
  BY <1>3, <1>4, <1>13 DEF Lists, Follows
<1> QED
  BY <1>1, <1>2, <1>6, <1>13, <1>14, PassEnds

\* SetAddrs().
SetAddrRound(D, T, want) == [x \in D \X T |-> SetAddr(x[1], x[2], want)]

\* The same for a pass that turns the addresses on or off.
LEMMA SetAddrsPass ==
  ASSUME NEW S, NEW want, NEW T, T = S.addr, IsFiniteSet(T), NEW D, S \in D, NEW w, w[S] \subseteq T,
         Drains(SetAddrRound(D, T, want), w, D, T)
  PROVE  SetAddrs(S, want) \in D /\ w[SetAddrs(S, want)] = {}
<1> DEFINE q == SetToSeq(T)
           N == Len(q)
           g == SetAddrRound(D, T, want)
           Eq(a) == a = [n \in 0 .. N |-> IF n = 0 THEN S ELSE SetAddr(a[n - 1], q[n], want)]
           after == CHOOSE a : Eq(a)
<1>1. SetAddrs(S, want) = after[N]
  BY DEF SetAddrs, ForEach, InOrder
<1>2. Turns(N, q, T)
  BY SetToSeqFacts
<1>3. N \in Nat /\ Lists(q, N, T)
  BY <1>2 DEF Turns, Lists
<1> HIDE DEF q, N
<1>4. \A s \in D, x \in T : g[<<s, x>>] = SetAddr(s, x, want)
  BY DEF SetAddrRound
<1>5. g = [x \in D \X T |-> SetAddr(x[1], x[2], want)]
  BY DEF SetAddrRound
<1> HIDE DEF g, SetAddrRound
<1>6. Drains(g, w, D, T)
  BY DEF g
<1>7. Round(g, D, T)
  BY <1>5, <1>6 DEF Round, Drains
<1>8. PICK f : Loop(f, D, N, S, g, q)
  <2> HIDE DEF Eq, after
  <2> QED
    BY <1>3, <1>7, LoopExists
<1>9. f \in [0 .. N -> D] /\ f[0] = S /\ \A n \in 1 .. N : f[n] = g[<<f[n - 1], q[n]>>]
  BY <1>8 DEF Loop
<1>10. ASSUME NEW n \in 1 .. N PROVE f[n] = SetAddr(f[n - 1], q[n], want)
  <2>1. f[n - 1] \in D /\ q[n] \in T
    BY <1>3, <1>9 DEF Lists
  <2> QED
    BY <1>4, <1>9, <2>1
<1>11. Eq(f)
  <2>1. \A n \in 0 .. N : f[n] = IF n = 0 THEN S ELSE SetAddr(f[n - 1], q[n], want)
    BY <1>3, <1>9, <1>10
  <2> QED
    BY <1>9, <2>1
<1>12. Eq(after)
  <2> HIDE DEF Eq
  <2> QED
    BY <1>11
<1> HIDE DEF after
<1>13. after[0] = S /\ \A n \in 1 .. N : after[n] = SetAddr(after[n - 1], q[n], want)
  BY <1>3, <1>12
<1> HIDE DEF Eq
<1>14. after[0] \in D /\ Follows(after, D, N, g, q)
  BY <1>3, <1>4, <1>13 DEF Lists, Follows
<1> QED
  BY <1>1, <1>2, <1>6, <1>13, <1>14, PassEnds

\* UpdateAddrs().
UpdateAddrRound(D, T) == [x \in D \X T |-> interface_update_proto_addr(x[1], x[2])]

\* The same for a pass over a list of announced addresses.
LEMMA UpdateAddrsPass ==
  ASSUME NEW S, NEW T, NEW list \in Seq(T), NEW D, S \in D, NEW w, w[S] = {}, Drains(UpdateAddrRound(D, T), w, D, T)
  PROVE  UpdateAddrs(S, list) \in D /\ w[UpdateAddrs(S, list)] = {}
<1> DEFINE q == list
           N == Len(q)
           g == UpdateAddrRound(D, T)
           Eq(a) == a = [n \in 0 .. N |-> IF n = 0 THEN S ELSE interface_update_proto_addr(a[n - 1], q[n])]
           after == CHOOSE a : Eq(a)
<1>1. UpdateAddrs(S, list) = after[N]
  BY DEF UpdateAddrs, InOrder
<1>2. N \in Nat /\ \A i \in 1 .. N : q[i] \in T
  OBVIOUS
<1>3. N \in Nat /\ Lists(q, N, T)
  BY <1>2 DEF Turns, Lists
<1> HIDE DEF q, N
<1>4. \A s \in D, x \in T : g[<<s, x>>] = interface_update_proto_addr(s, x)
  BY DEF UpdateAddrRound
<1>5. g = [x \in D \X T |-> interface_update_proto_addr(x[1], x[2])]
  BY DEF UpdateAddrRound
<1> HIDE DEF g, UpdateAddrRound
<1>6. Drains(g, w, D, T)
  BY DEF g
<1>7. Round(g, D, T)
  BY <1>5, <1>6, ZenonT(60) DEF Round, Drains
<1>8. PICK f : Loop(f, D, N, S, g, q)
  <2> HIDE DEF Eq, after
  <2> QED
    BY <1>3, <1>7, LoopExists
<1>9. f \in [0 .. N -> D] /\ f[0] = S /\ \A n \in 1 .. N : f[n] = g[<<f[n - 1], q[n]>>]
  BY <1>8 DEF Loop
<1>10. ASSUME NEW n \in 1 .. N PROVE f[n] = interface_update_proto_addr(f[n - 1], q[n])
  <2>1. f[n - 1] \in D /\ q[n] \in T
    BY <1>3, <1>9 DEF Lists
  <2> QED
    BY <1>4, <1>9, <2>1
<1>11. Eq(f)
  <2>1. \A n \in 0 .. N : f[n] = IF n = 0 THEN S ELSE interface_update_proto_addr(f[n - 1], q[n])
    BY <1>3, <1>9, <1>10
  <2> QED
    BY <1>9, <2>1
<1>12. Eq(after)
  <2> HIDE DEF Eq
  <2> QED
    BY <1>11
<1> HIDE DEF after
<1>13. after[0] = S /\ \A n \in 1 .. N : after[n] = interface_update_proto_addr(after[n - 1], q[n])
  BY <1>3, <1>12
<1> HIDE DEF Eq
<1>14. after[0] \in D /\ Follows(after, D, N, g, q)
  BY <1>3, <1>4, <1>13 DEF Lists, Follows
<1> QED
  BY <1>1, <1>3, <1>6, <1>13, <1>14, ListEnds

\* Two changes of the same fields are one.
LEMMA SameStep ==
  ASSUME NEW Q, NEW R, NEW S, NEW F, Same(Q, R, F), Same(R, S, F)
  PROVE  Same(Q, S, F)
  BY DEF Same

\* After the pass none of the routes is left, and the kernel is in order.
LEMMA RemoveRoutesKeeps ==
  ASSUME NEW S \in StateType, Core(S), NEW L \in RouteLists, NEW T \in SUBSET S[L]
  PROVE  LET R == RemoveRoutes(S, L, T)
         IN  /\ R \in StateType /\ Core(R) /\ Same(R, S, RouteFields(L))
             /\ R[L] \subseteq S[L] /\ R[L] \cap T = {}
<1> DEFINE RF == RouteFields(L)
           D == {s \in StateType : Core(s) /\ Same(s, S, RF) /\ s[L] \subseteq S[L]}
<1>1. T \in SUBSET RouteEntryType /\ IsFiniteSet(T)
  BY Typed, FS_Subset DEF Core, Finite
<1>2. S \in D
  BY DEF Same
<1>3. ASSUME NEW s \in D, NEW x \in T PROVE RemoveRoute(s, L, x) \in D /\ RemoveRoute(s, L, x)[L] = s[L] \ {x}
  <2> DEFINE R == RemoveRoute(s, L, x)
  <2>1. R \in StateType /\ Core(R) /\ Same(R, s, RF) /\ R[L] = s[L] \ {x}
    BY <1>1, RemoveRouteKeeps
  <2> HIDE DEF R, RF
  <2>2. Same(R, S, RF)
    BY <2>1, SameStep
  <2> QED
    BY <2>1, <2>2 DEF R
<1> DEFINE w == [s \in D |-> s[L] \cap T]
<1>4. Drains(RemoveRouteRound(D, T, L), w, D, T) /\ w[S] \subseteq T
  <2> HIDE DEF D
  <2> QED
    BY <1>2, <1>3 DEF Drains, RemoveRouteRound
<1> HIDE DEF D, w
<1>5. RemoveRoutes(S, L, T) \in D /\ w[RemoveRoutes(S, L, T)] = {}
  BY <1>1, <1>2, <1>4, RemoveRoutesPass
<1> QED
  BY <1>5 DEF D, w

Disordered(S, L) == [S EXCEPT !.unsorted = @ \cup {L}]

\* Nothing but the searches depends on the order.
LEMMA DisorderedFacts ==
  ASSUME NEW S \in StateType, Core(S), NEW L \in RouteLists
  PROVE  LET R == Disordered(S, L)
         IN  R \in StateType /\ Core(R) /\ Same(R, S, {"unsorted"}) /\ R[L] = S[L] /\ R.set = S.set
<1> DEFINE U == S.unsorted \cup {L}
           R == [S EXCEPT !.unsorted = U]
<1>1. Disordered(S, L) = R
  BY DEF Disordered
<1>2. U \in SUBSET RouteLists
  BY Typed
<1> HIDE DEF U
<1>3. R \in StateType
  BY <1>2 DEF StateType
<1>4. Same(R, S, {"unsorted"})
  BY Typed DEF Same, Fields
<1> HIDE DEF R
<1>5. /\ R.addr = S.addr /\ R.kroute = S.kroute /\ R.lost = S.lost /\ R.orphans = S.orphans /\ R.set = S.set
      /\ \A M \in RouteLists : R[M] = S[M]
  BY <1>4 DEF Same, Fields, RouteLists
<1>6. Enabled(R) = Enabled(S) /\ Needed(R) = Needed(S)
  BY <1>5, EnabledSame
<1>7. RoutesOK(R)
  BY <1>5, <1>6 DEF Core, RoutesOK, Has, Owns
<1>8. OthersSame(R, S) /\ IsFiniteSet(R[L])
  BY <1>5 DEF OthersSame, LostSame, OrphansSame, Core, Finite
<1>9. Same(R, S, {L, "kroute", "lost", "unsorted", "fresh", "orphans"})
  BY <1>4 DEF Same
<1>10. Core(R)
  BY <1>3, <1>7, <1>8, <1>9, RouteOpCore
<1> QED
  BY <1>1, <1>3, <1>4, <1>5, <1>10

\* After the pass every entry is on or off as it should be.
LEMMA SetRoutesKeeps ==
  ASSUME NEW S \in StateType, Core(S), NEW L \in RouteLists, NEW want \in BOOLEAN
  PROVE  LET R == SetRoutes(S, L, want)
         IN  /\ R \in StateType /\ Core(R) /\ Same(R, S, RouteFields(L))
             /\ \A r \in R[L] : Setting(S, L, want, r)
             /\ Current(S, L) => Current(R, L)
<1> DEFINE RF == RouteFields(L)
           D == {s \in StateType : Core(s) /\ Same(s, S, RF) /\ (Current(S, L) => Current(s, L))}
<1>1. S[L] \in SUBSET RouteEntryType /\ IsFiniteSet(S[L])
  BY Typed DEF Core, Finite
<1>2. S \in D
  BY DEF Same
<1>3. ASSUME NEW s \in D, NEW x \in S[L]
      PROVE  /\ interface_ip_set_route_enabled(s, L, x, want) \in D
             /\ \A r \in interface_ip_set_route_enabled(s, L, x, want)[L] :
                  (r \in s[L] /\ r # x) \/ Setting(S, L, want, r)
  <2> DEFINE R == interface_ip_set_route_enabled(s, L, x, want)
  <2>1. /\ R \in StateType /\ Core(R) /\ Same(R, s, RF) /\ (Current(s, L) => Current(R, L))
        /\ \A r \in R[L] : (r \in s[L] /\ r # x) \/ Setting(s, L, want, r)
    BY <1>1, SetRouteKeeps
  <2>2. \A r : Setting(s, L, want, r) = Setting(S, L, want, r)
    <3>1. s.set = S.set /\ s.enabled = S.enabled
      BY DEF Same, RouteFields, Fields, RouteLists
    <3> QED
      BY <3>1 DEF Setting, enable_route
  <2> HIDE DEF R, RF
  <2>3. Same(R, S, RF)
    BY <2>1, SameStep
  <2> QED
    BY <2>1, <2>2, <2>3 DEF R
<1> DEFINE T == S[L]
           w == [s \in D |-> {r \in s[L] : ~Setting(S, L, want, r)}]
<1>4. Drains(SetRouteRound(D, T, L, want), w, D, T) /\ w[S] \subseteq T
  <2> HIDE DEF D
  <2> QED
    BY <1>2, <1>3 DEF Drains, SetRouteRound
<1> HIDE DEF D, w
<1>5. SetEach(S, L, want) \in D /\ w[SetEach(S, L, want)] = {}
  BY <1>1, <1>2, <1>4, SetRoutesPass
<1> DEFINE R == SetEach(S, L, want)
           Q == Disordered(R, L)
<1>6. SetRoutes(S, L, want) \in {R, Q}
  BY DEF SetRoutes, SetEach, Disordered
<1> HIDE DEF R, Q
<1>7. R \in StateType /\ Core(R) /\ Same(R, S, RF) /\ (Current(S, L) => Current(R, L))
      /\ \A r \in R[L] : Setting(S, L, want, r)
  BY <1>5 DEF D, w, R
<1>8. Q \in StateType /\ Core(Q) /\ Same(Q, R, {"unsorted"}) /\ Q[L] = R[L] /\ Q.set = R.set
  BY <1>7, DisorderedFacts DEF Q
<1>9. Same(Q, S, RF)
  BY <1>7, <1>8 DEF Same, RouteFields
<1>10. Current(R, L) => Current(Q, L)
  BY <1>8 DEF Current
<1> HIDE DEF RF
<1> QED
  BY <1>6, <1>7, <1>8, <1>9, <1>10 DEF RF

\* A route as announced has the metric and the table of the interface.
LEMMA NewRouteFacts ==
  ASSUME NEW S \in StateType, NEW d \in RouteType
  PROVE  NewRoute(S, d) \in RouteEntryType /\ NewInfo(S, NewRoute(S, d))
<1> DEFINE r == [dst |-> d.dst, met |-> d.met, tab |-> d.tab, gw |-> d.gw, left |-> d.left,
                 metric |-> IF d.met = None THEN 0 ELSE d.met,
                 table |-> IF d.tab = None THEN 0 ELSE d.tab,
                 src |-> FALSE, enabled |-> FALSE, failed |-> FALSE, no |-> 0]
<1>1. r \in RouteEntryType
  BY DEF RouteType, RouteEntryType, Maybe
<1> HIDE DEF r
<1>2. interface_set_route_info(S, r) \in RouteEntryType /\ NewInfo(S, interface_set_route_info(S, r))
  BY <1>1, RouteInfo DEF NewInfo
<1> QED
  BY <1>2 DEF NewRoute, r

\* Announced routes are in the list as the interface wants them.
LEMMA UpdateRoutesKeeps ==
  ASSUME NEW S \in StateType, Core(S), NEW L \in RouteLists, Obeys(S, L), Current(S, L),
         NEW T \in SUBSET RouteType, IsFiniteSet(T)
  PROVE  LET R == UpdateRoutes(S, L, T)
         IN  /\ R \in StateType /\ Core(R) /\ Same(R, S, UpdateFields(L))
             /\ S.orphans \subseteq R.orphans /\ Obeys(R, L) /\ Current(R, L)
<1> DEFINE RF == UpdateFields(L)
           D == {s \in StateType : /\ Core(s) /\ Same(s, S, RF) /\ S.orphans \subseteq s.orphans
                                   /\ Obeys(s, L) /\ Current(s, L)}
<1>2. S \in D
  BY DEF Same
<1>3. ASSUME NEW s \in D, NEW x \in T PROVE __interface_update_route(s, L, NewRoute(s, x)) \in D
  <2> DEFINE n == NewRoute(s, x)
             R == __interface_update_route(s, L, n)
  <2>1. n \in RouteEntryType /\ NewInfo(s, n)
    BY NewRouteFacts
  <2> HIDE DEF n
  <2>2. R \in StateType /\ Core(R) /\ Same(R, s, RF) /\ s.orphans \subseteq R.orphans /\ Obeys(R, L) /\ Current(R, L)
    BY <2>1, UpdateRouteKeeps
  <2> HIDE DEF R, RF
  <2>3. Same(R, S, RF)
    BY <2>2, SameStep
  <2> QED
    BY <2>2, <2>3 DEF R, n
<1> DEFINE w == [s \in D |-> {}]
<1>4. Drains(UpdateRouteRound(D, T, L), w, D, T) /\ w[S] \subseteq T
  <2> HIDE DEF D
  <2> QED
    BY <1>2, <1>3 DEF Drains, UpdateRouteRound
<1> HIDE DEF D, w
<1>5. UpdateRoutes(S, L, T) \in D
  BY <1>2, <1>4, UpdateRoutesPass
<1> QED
  BY <1>5 DEF D

-----------------------------------------------------------------------------
(***************************************************************************)
(* Neighbours.                                                             *)
(***************************************************************************)
NeighFields == {"neigh", "kneigh", "nrefused"}

\* The kernel has taken or refused the neighbour n.
Offered(R, S, n) ==
  \/ /\ R.kneigh = {x \in S.kneigh : x.id # n.id} \cup {[id |-> n.id, mac |-> n.mac]}
     /\ R.nrefused = S.nrefused \ {n.id}
  \/ R.kneigh = S.kneigh /\ R.nrefused = S.nrefused \cup {n.id}

NeighPresent(S) ==
  \A n \in S.neigh : (n.enabled /\ n.id \notin S.nrefused) => [id |-> n.id, mac |-> n.mac] \in S.kneigh

\* A change of the neighbours leaves the rest of Core.
LEMMA NeighOpCore ==
  ASSUME NEW S \in StateType, NEW R \in StateType, Same(R, S, NeighFields), Core(S), NeighOK(R),
         IsFiniteSet(R.neigh)
  PROVE  Core(R)
<1>1. /\ R.addr = S.addr /\ R.kaddr = S.kaddr /\ R.knull = S.knull /\ R.krule = S.krule
      /\ R.policy_rules_set = S.policy_rules_set /\ R.kroute = S.kroute
      /\ R.orphans = S.orphans /\ R.lost = S.lost /\ \A M \in RouteLists : R[M] = S[M]
  BY DEF Same, Fields, RouteLists, NeighFields
<1>2. \A kind : OrphansSame(R, S, kind) /\ LostSame(R, S, kind)
  BY <1>1 DEF OrphansSame, LostSame
<1>3. AddrOK(R)
  BY <1>1, <1>2, AddrFrame DEF Core
<1>4. NullOK(R)
  BY <1>1, <1>2, NullFrame DEF Core
<1>5. RulesOK(R)
  BY <1>1, <1>2, RulesFrame DEF Core
<1>6. Enabled(R) = Enabled(S) /\ Needed(R) = Needed(S)
  BY <1>1, EnabledSame
<1>7. RoutesOK(R)
  BY <1>1, <1>6 DEF Core, RoutesOK, Has, Owns
<1>8. Finite(R) /\ Keys(R) /\ SubnetsOff(R)
  BY <1>1 DEF Core, Finite, Keys, SubnetsOff
<1> QED
  BY <1>3, <1>4, <1>5, <1>7, <1>8 DEF Core

\* A state with other neighbours in the kernel.
WithKernel(S, K, H) == [S EXCEPT !.kneigh = K, !.nrefused = H]

LEMMA WithKernelFacts ==
  ASSUME NEW S \in StateType, NEW K \in SUBSET NeighType, NEW H \in SUBSET STRING
  PROVE  LET R == WithKernel(S, K, H)
         IN  R \in StateType /\ Same(R, S, {"kneigh", "nrefused"}) /\ R.kneigh = K /\ R.nrefused = H
<1>1. WithKernel(S, K, H) \in StateType
  BY DEF StateType, WithKernel
<1>2. Same(WithKernel(S, K, H), S, {"kneigh", "nrefused"}) /\ WithKernel(S, K, H).kneigh = K
      /\ WithKernel(S, K, H).nrefused = H
  BY Typed DEF WithKernel, Same, Fields
<1> QED
  BY <1>1, <1>2

\* system_add_neighbor().
LEMMA AddNeighbor ==
  ASSUME NEW S \in StateType, NEW n \in NeighEntryType
  PROVE  LET R == system_add_neighbor(S, n)
         IN  R \in StateType /\ Same(R, S, {"kneigh", "nrefused"}) /\ Offered(R, S, n)
<1> DEFINE K == {x \in S.kneigh : x.id # n.id} \cup {[id |-> n.id, mac |-> n.mac]}
           R == system_add_neighbor(S, n)
<1>1. /\ <<"neigh", n.id>> \in S.bad => R = WithKernel(S, S.kneigh, S.nrefused \cup {n.id})
      /\ <<"neigh", n.id>> \notin S.bad => R = WithKernel(S, K, S.nrefused \ {n.id})
  BY Typed DEF system_add_neighbor, WithKernel, StateType
<1>2. K \in SUBSET NeighType /\ S.kneigh \in SUBSET NeighType
  BY Typed DEF NeighType, NeighEntryType
<1>3. S.nrefused \cup {n.id} \in SUBSET STRING /\ S.nrefused \ {n.id} \in SUBSET STRING
  BY Typed DEF NeighEntryType
<1>4. K = {x \in S.kneigh : x.id # n.id} \cup {[id |-> n.id, mac |-> n.mac]}
  OBVIOUS
<1> HIDE DEF K, R
<1>5. CASE <<"neigh", n.id>> \in S.bad
  BY <1>1, <1>2, <1>3, <1>5, WithKernelFacts DEF Offered, R
<1>6. CASE <<"neigh", n.id>> \notin S.bad
  BY <1>1, <1>2, <1>3, <1>4, <1>6, WithKernelFacts DEF Offered, R
<1> QED
  BY <1>5, <1>6

\* system_del_neighbor().
LEMMA DelNeighbor ==
  ASSUME NEW S \in StateType, NEW n \in NeighEntryType
  PROVE  LET R == system_del_neighbor(S, n)
         IN  /\ R \in StateType /\ Same(R, S, {"kneigh", "nrefused"})
             /\ R.kneigh = {x \in S.kneigh : x.id # n.id} /\ R.nrefused = S.nrefused \ {n.id}
<1> DEFINE K == {x \in S.kneigh : x.id # n.id}
           H == S.nrefused \ {n.id}
<1>1. system_del_neighbor(S, n) = WithKernel(S, K, H)
  BY DEF system_del_neighbor, WithKernel
<1>2. K \in SUBSET NeighType /\ H \in SUBSET STRING
  BY Typed
<1> HIDE DEF K, H
<1>3. LET R == WithKernel(S, K, H)
      IN  R \in StateType /\ Same(R, S, {"kneigh", "nrefused"}) /\ R.kneigh = K /\ R.nrefused = H
  BY <1>2, WithKernelFacts
<1> QED
  BY <1>1, <1>3 DEF K, H

\* A state with another list of neighbours.
LEMMA WithNeigh ==
  ASSUME NEW S \in StateType, NEW X \in SUBSET NeighEntryType
  PROVE  LET R == With(S, "neigh", X) IN R \in StateType /\ Same(R, S, {"neigh"}) /\ R.neigh = X
<1>1. With(S, "neigh", X) \in StateType
  BY DEF StateType, With
<1>2. Same(With(S, "neigh", X), S, {"neigh"}) /\ With(S, "neigh", X).neigh = X
  BY Typed DEF With, Same, Fields
<1> QED
  BY <1>1, <1>2

\* Removing a neighbour takes it from the kernel.
LEMMA RemoveNeighKeeps ==
  ASSUME NEW S \in StateType, Core(S), NEW n \in NeighEntryType, \A m \in S.neigh : m.id = n.id => m = n
  PROVE  LET R == RemoveNeigh(S, n)
         IN  R \in StateType /\ Core(R) /\ Same(R, S, NeighFields) /\ R.neigh = S.neigh \ {n}
<1> DEFINE R == RemoveNeigh(S, n)
           X == S.neigh \ {n}
           S1 == With(S, "neigh", X)
<1>1. R = IF n.enabled THEN system_del_neighbor(S1, n) ELSE S1
  BY DEF RemoveNeigh, With
<1>2. X \in SUBSET NeighEntryType /\ IsFiniteSet(X)
  BY Typed, FS_RemoveElement DEF Core, Finite
<1>3. X = S.neigh \ {n}
  OBVIOUS
<1> HIDE DEF R, X
<1>4. S1 \in StateType /\ Same(S1, S, {"neigh"}) /\ S1.neigh = X
  BY <1>2, WithNeigh
<1> HIDE DEF S1
<1>5. S1.kneigh = S.kneigh /\ S1.nrefused = S.nrefused
  BY <1>4 DEF Same, Fields
<1>6. /\ R \in StateType /\ Same(R, S1, {"kneigh", "nrefused"})
      /\ R.kneigh = IF n.enabled THEN {x \in S.kneigh : x.id # n.id} ELSE S.kneigh
      /\ R.nrefused = IF n.enabled THEN S.nrefused \ {n.id} ELSE S.nrefused
  <2>1. CASE n.enabled
    BY <1>1, <1>4, <1>5, <2>1, DelNeighbor
  <2>2. CASE ~n.enabled
    BY <1>1, <1>4, <1>5, <2>2 DEF Same
  <2> QED
    BY <2>1, <2>2
<1>7. Same(R, S, NeighFields) /\ R.neigh = X
  BY <1>4, <1>6 DEF Same, NeighFields, Fields
<1>8. NeighOK(R)
  <2>1. \A m, o \in R.neigh : m.id = o.id => m = o
    BY <1>3, <1>7 DEF Core, NeighOK
  <2>2. NeighPresent(R)
    BY <1>3, <1>6, <1>7 DEF Core, NeighOK, NeighPresent
  <2>3. \A x \in R.kneigh : \E m \in R.neigh : m.id = x.id /\ m.enabled
    BY <1>3, <1>6, <1>7 DEF Core, NeighOK
  <2> QED
    BY <2>1, <2>2, <2>3 DEF NeighOK, NeighPresent
<1>9. Core(R)
  BY <1>2, <1>6, <1>7, <1>8, NeighOpCore
<1> QED
  BY <1>3, <1>6, <1>7, <1>9 DEF R

\* The same for a set of neighbours.
LEMMA RemoveNeighsKeeps ==
  ASSUME NEW S \in StateType, Core(S), NEW T \in SUBSET S.neigh
  PROVE  LET R == RemoveNeighs(S, T)
         IN  R \in StateType /\ Core(R) /\ Same(R, S, NeighFields) /\ R.neigh = S.neigh \ T
<1> DEFINE D == {s \in StateType : /\ Core(s) /\ Same(s, S, NeighFields)
                                   /\ s.neigh \subseteq S.neigh /\ S.neigh \ T \subseteq s.neigh}
<1>1. T \in SUBSET NeighEntryType /\ IsFiniteSet(T)
  BY Typed, FS_Subset DEF Core, Finite
<1>2. S \in D
  BY DEF Same
<1>3. ASSUME NEW s \in D, NEW x \in T PROVE RemoveNeigh(s, x) \in D /\ RemoveNeigh(s, x).neigh = s.neigh \ {x}
  <2> DEFINE R == RemoveNeigh(s, x)
  <2>0. \A m \in s.neigh : m.id = x.id => m = x
    BY DEF Core, NeighOK
  <2>1. R \in StateType /\ Core(R) /\ Same(R, s, NeighFields) /\ R.neigh = s.neigh \ {x}
    BY <1>1, <2>0, RemoveNeighKeeps
  <2> HIDE DEF R
  <2>2. Same(R, S, NeighFields)
    BY <2>1, SameStep
  <2> QED
    BY <2>1, <2>2 DEF R
<1> DEFINE w == [s \in D |-> s.neigh \cap T]
<1>4. Drains(RemoveNeighRound(D, T), w, D, T) /\ w[S] \subseteq T
  <2> HIDE DEF D
  <2> QED
    BY <1>2, <1>3 DEF Drains, RemoveNeighRound
<1> HIDE DEF D, w
<1>5. RemoveNeighs(S, T) \in D /\ w[RemoveNeighs(S, T)] = {}
  BY <1>1, <1>2, <1>4, RemoveNeighsPass
<1> QED
  BY <1>5 DEF D, w

\* An announced neighbour replaces the one with its address.
LEMMA UpdateNeighKeeps ==
  ASSUME NEW S \in StateType, Core(S), NeighCurrent(S), NEW d \in NeighType
  PROVE  LET R == interface_update_proto_neighbor(S, d)
         IN  R \in StateType /\ Core(R) /\ Same(R, S, NeighFields) /\ NeighCurrent(R)
<1> DEFINE R == interface_update_proto_neighbor(S, d)
           n == [id |-> d.id, mac |-> d.mac, enabled |-> S.enabled]
           old == {x \in S.neigh : x.id = d.id}
           keep == \E x \in old : x.mac = d.mac
           S1 == IF keep THEN With(S, "neigh", S.neigh \ old) ELSE RemoveNeighs(S, old)
           X == S1.neigh \cup {n}
           S2 == With(S1, "neigh", X)
<1>1. R = IF ~keep /\ S.enabled THEN system_add_neighbor(S2, n) ELSE S2
  BY DEF interface_update_proto_neighbor, With
<1>2. n \in NeighEntryType /\ n.id = d.id /\ n.mac = d.mac /\ n.enabled = S.enabled
  BY Typed DEF NeighType, NeighEntryType
<1>3. old \in SUBSET S.neigh /\ S.neigh \ old \in SUBSET NeighEntryType
  BY Typed
<1>4. \A x \in S.neigh : x \notin old => x.id # d.id
  OBVIOUS
<1>4a. \A x \in old : x \in S.neigh /\ x.id = d.id /\ x.enabled = S.enabled
  BY DEF NeighCurrent
<1>4b. keep <=> \E x \in old : x.mac = d.mac
  OBVIOUS
<1>5. /\ S1 \in StateType /\ Same(S1, S, NeighFields) /\ S1.neigh = S.neigh \ old
      /\ keep => S1.kneigh = S.kneigh /\ S1.nrefused = S.nrefused
      /\ ~keep => Core(S1)
  <2>1. CASE keep
    <3> HIDE DEF n, old, keep
    <3>1. S1 \in StateType /\ Same(S1, S, {"neigh"}) /\ S1.neigh = S.neigh \ old
      BY <1>3, <2>1, WithNeigh
    <3> QED
      BY <2>1, <3>1 DEF Same, NeighFields, Fields
  <2>2. CASE ~keep
    <3> HIDE DEF n, old, keep
    <3> QED
      BY <1>3, <2>2, RemoveNeighsKeeps
  <2> QED
    BY <2>1, <2>2
<1> HIDE DEF R, n, old, keep, S1
<1>6. X \in SUBSET NeighEntryType /\ IsFiniteSet(X)
  <2>1. IsFiniteSet(S.neigh \ old)
    BY FS_Difference DEF Core, Finite
  <2> QED
    BY <1>2, <1>3, <1>5, <2>1, FS_AddElement
<1>7. X = (S.neigh \ old) \cup {n}
  BY <1>5
<1> HIDE DEF X
<1>8. S2 \in StateType /\ Same(S2, S1, {"neigh"}) /\ S2.neigh = X
  BY <1>5, <1>6, WithNeigh
<1> HIDE DEF S2
<1>9. S2.kneigh = S1.kneigh /\ S2.nrefused = S1.nrefused
  BY <1>8 DEF Same, Fields
<1>10. /\ R \in StateType /\ Same(R, S2, {"kneigh", "nrefused"})
       /\ ~keep /\ S.enabled => Offered(R, S1, n)
       /\ keep \/ ~S.enabled => R.kneigh = S1.kneigh /\ R.nrefused = S1.nrefused
  <2>1. CASE ~keep /\ S.enabled
    <3>1. R \in StateType /\ Same(R, S2, {"kneigh", "nrefused"}) /\ Offered(R, S2, n)
      BY <1>1, <1>2, <1>8, <2>1, AddNeighbor
    <3> QED
      BY <1>9, <2>1, <3>1 DEF Offered
  <2>2. CASE ~(~keep /\ S.enabled)
    BY <1>1, <1>8, <1>9, <2>2 DEF Same
  <2> QED
    BY <2>1, <2>2
<1>11. Same(R, S, NeighFields) /\ R.neigh = X
  BY <1>5, <1>8, <1>10 DEF Same, NeighFields, Fields
<1>12. R.enabled = S.enabled
  BY <1>11 DEF Same, NeighFields, Fields
<1>13. NeighCurrent(R)
  BY <1>2, <1>7, <1>11, <1>12 DEF NeighCurrent
<1>14. \A m, o \in R.neigh : m.id = o.id => m = o
  BY <1>2, <1>4, <1>7, <1>11 DEF Core, NeighOK
<1>15. NeighOK(R)
  <2>1. CASE keep
    <3>1. PICK x \in old : x.mac = d.mac
      BY <1>4b, <2>1
    <3>2. x \in S.neigh /\ x.id = d.id /\ x.enabled = S.enabled /\ \A y \in old : y = x
      BY <1>4a DEF Core, NeighOK
    <3>3. R.kneigh = S.kneigh /\ R.nrefused = S.nrefused
      BY <1>5, <1>10, <2>1
    <3>4. NeighPresent(R)
      BY <1>2, <1>7, <1>11, <3>1, <3>2, <3>3 DEF Core, NeighOK, NeighPresent
    <3>5. \A y \in R.kneigh : \E m \in R.neigh : m.id = y.id /\ m.enabled
      BY <1>2, <1>7, <1>11, <3>1, <3>2, <3>3 DEF Core, NeighOK
    <3> QED
      BY <1>14, <3>4, <3>5 DEF NeighOK, NeighPresent
  <2>2. CASE ~keep
    <3>1. NeighPresent(S1) /\ \A y \in S1.kneigh : \E m \in S1.neigh : m.id = y.id /\ m.enabled
      BY <1>5, <2>2 DEF Core, NeighOK, NeighPresent
    <3>2. \A m \in S1.neigh : m.id # n.id
      BY <1>2, <1>4, <1>5
    <3>3. R.neigh = S1.neigh \cup {n}
      BY <1>5, <1>7, <1>11
    <3>4. CASE S.enabled
      <4>1. Offered(R, S1, n) /\ n.enabled
        BY <1>2, <1>10, <2>2, <3>4
      <4>2. NeighPresent(R)
        BY <3>1, <3>2, <3>3, <4>1 DEF Offered, NeighPresent
      <4>3. \A y \in R.kneigh : \E m \in R.neigh : m.id = y.id /\ m.enabled
        BY <3>1, <3>3, <4>1 DEF Offered
      <4> QED
        BY <1>14, <4>2, <4>3 DEF NeighOK, NeighPresent
    <3>5. CASE ~S.enabled
      <4>1. R.kneigh = S1.kneigh /\ R.nrefused = S1.nrefused /\ ~n.enabled
        BY <1>2, <1>10, <3>5
      <4>2. NeighPresent(R) /\ \A y \in R.kneigh : \E m \in R.neigh : m.id = y.id /\ m.enabled
        BY <3>1, <3>3, <4>1 DEF NeighPresent
      <4> QED
        BY <1>14, <4>2 DEF NeighOK, NeighPresent
    <3> QED
      BY <3>4, <3>5
  <2> QED
    BY <2>1, <2>2
<1>16. Core(R)
  BY <1>6, <1>10, <1>11, <1>15, NeighOpCore
<1> QED
  BY <1>10, <1>11, <1>13, <1>16 DEF R

\* The same for a set of neighbours.
LEMMA UpdateNeighsKeeps ==
  ASSUME NEW S \in StateType, Core(S), NeighCurrent(S), NEW T \in SUBSET NeighType, IsFiniteSet(T)
  PROVE  LET R == UpdateNeighs(S, T)
         IN  R \in StateType /\ Core(R) /\ Same(R, S, NeighFields) /\ NeighCurrent(R)
<1> DEFINE D == {s \in StateType : Core(s) /\ Same(s, S, NeighFields) /\ NeighCurrent(s)}
<1>2. S \in D
  BY DEF Same
<1>3. ASSUME NEW s \in D, NEW x \in T PROVE interface_update_proto_neighbor(s, x) \in D
  <2> DEFINE R == interface_update_proto_neighbor(s, x)
  <2>1. R \in StateType /\ Core(R) /\ Same(R, s, NeighFields) /\ NeighCurrent(R)
    BY UpdateNeighKeeps
  <2> HIDE DEF R
  <2>2. Same(R, S, NeighFields)
    BY <2>1, SameStep
  <2> QED
    BY <2>1, <2>2 DEF R
<1> DEFINE w == [s \in D |-> {}]
<1>4. Drains(UpdateNeighRound(D, T), w, D, T) /\ w[S] \subseteq T
  <2> HIDE DEF D
  <2> QED
    BY <1>2, <1>3 DEF Drains, UpdateNeighRound
<1> HIDE DEF D, w
<1>5. UpdateNeighs(S, T) \in D
  BY <1>2, <1>4, UpdateNeighsPass
<1> QED
  BY <1>5 DEF D

\* A neighbour that is turned on or off.
Turned(n, want) == [n EXCEPT !.enabled = want]

\* Turning one neighbour on or off keeps the kernel in order.
LEMMA SetNeighKeeps ==
  ASSUME NEW S \in StateType, Core(S), NEW n \in NeighEntryType, NEW want \in BOOLEAN,
         \A m \in S.neigh : m.id = n.id => m \in {n, Turned(n, want)}
  PROVE  LET R == SetNeigh(S, n, want)
         IN  /\ R \in StateType /\ Core(R) /\ Same(R, S, NeighFields)
             /\ R.neigh = IF n.enabled = want THEN S.neigh ELSE (S.neigh \ {n}) \cup {Turned(n, want)}
<1>1. CASE n.enabled = want
  BY <1>1 DEF SetNeigh, Same
<1>2. CASE n.enabled # want
  <2> DEFINE R == SetNeigh(S, n, want)
             m == Turned(n, want)
             X == (S.neigh \ {n}) \cup {m}
             S1 == With(S, "neigh", X)
  <2>1. R = IF want THEN system_add_neighbor(S1, m) ELSE system_del_neighbor(S1, m)
    BY <1>2 DEF SetNeigh, With, Turned
  <2>2. m \in NeighEntryType /\ m.id = n.id /\ m.mac = n.mac /\ m.enabled = want
    BY DEF Turned, NeighEntryType
  <2> HIDE DEF R, m
  <2>3. X \in SUBSET NeighEntryType /\ IsFiniteSet(X)
    BY <2>2, Typed, FS_RemoveElement, FS_AddElement DEF Core, Finite
  <2>4. X = (S.neigh \ {n}) \cup {m}
    OBVIOUS
  <2> HIDE DEF X
  <2>5. S1 \in StateType /\ Same(S1, S, {"neigh"}) /\ S1.neigh = X
    BY <2>3, WithNeigh
  <2> HIDE DEF S1
  <2>6. S1.kneigh = S.kneigh /\ S1.nrefused = S.nrefused
    BY <2>5 DEF Same, Fields
  <2>7. /\ R \in StateType /\ Same(R, S1, {"kneigh", "nrefused"})
        /\ want => Offered(R, S, m)
        /\ ~want => R.kneigh = {x \in S.kneigh : x.id # n.id} /\ R.nrefused = S.nrefused \ {n.id}
    <3>1. CASE want
      <4>1. R \in StateType /\ Same(R, S1, {"kneigh", "nrefused"}) /\ Offered(R, S1, m)
        BY <2>1, <2>2, <2>5, <3>1, AddNeighbor
      <4> QED
        BY <2>6, <3>1, <4>1 DEF Offered
    <3>2. CASE ~want
      BY <2>1, <2>2, <2>5, <2>6, <3>2, DelNeighbor
    <3> QED
      BY <3>1, <3>2
  <2>8. Same(R, S, NeighFields) /\ R.neigh = X
    BY <2>5, <2>7 DEF Same, NeighFields, Fields
  <2>9. \A x \in S.neigh : x.id = n.id => x \in {n, m}
    BY DEF m
  <2>10. \A x \in X : x = m \/ (x \in S.neigh /\ x.id # n.id)
    BY <2>4, <2>9
  <2>11. NeighOK(R)
    <3>1. \A x, o \in R.neigh : x.id = o.id => x = o
      BY <2>2, <2>8, <2>10 DEF Core, NeighOK
    <3>2. NeighPresent(R)
      <4>1. CASE want
        BY <2>2, <2>7, <2>8, <2>10, <4>1 DEF Core, NeighOK, NeighPresent, Offered
      <4>2. CASE ~want
        BY <2>2, <2>7, <2>8, <2>10, <4>2 DEF Core, NeighOK, NeighPresent
      <4> QED
        BY <4>1, <4>2
    <3>3. \A y \in R.kneigh : \E x \in R.neigh : x.id = y.id /\ x.enabled
      <4>1. \A y \in S.kneigh : \E x \in S.neigh : x.id = y.id /\ x.enabled
        BY DEF Core, NeighOK
      <4>2. CASE want
        <5>1. ~n.enabled
          BY <1>2, <4>2 DEF NeighEntryType
        <5>2. \A x \in S.neigh : x.enabled => x \in R.neigh
          BY <2>4, <2>8, <5>1
        <5>3. m \in R.neigh /\ m.enabled
          BY <2>2, <2>4, <2>8, <4>2
        <5>4. \A y \in R.kneigh : y \in S.kneigh \/ y.id = m.id
          BY <2>7, <4>2 DEF Offered
        <5> QED
          BY <4>1, <5>2, <5>3, <5>4
      <4>3. CASE ~want
        BY <2>2, <2>4, <2>7, <2>8, <4>1, <4>3
      <4> QED
        BY <4>2, <4>3
    <3> QED
      BY <3>1, <3>2, <3>3 DEF NeighOK, NeighPresent
  <2>12. Core(R)
    BY <2>3, <2>7, <2>8, <2>11, NeighOpCore
  <2> QED
    BY <1>2, <2>4, <2>7, <2>8, <2>12 DEF R, m
<1> QED
  BY <1>1, <1>2

\* After the pass every neighbour is on or off as wanted.
LEMMA SetNeighsKeeps ==
  ASSUME NEW S \in StateType, Core(S), NEW want \in BOOLEAN
  PROVE  LET R == SetNeighs(S, want)
         IN  /\ R \in StateType /\ Core(R) /\ Same(R, S, NeighFields)
             /\ \A n \in R.neigh : n.enabled = want
<1> DEFINE Known(s) == \A y \in s.neigh : \E x \in S.neigh : y \in {x, Turned(x, want)}
           D == {s \in StateType : Core(s) /\ Same(s, S, NeighFields) /\ Known(s)}
           T == S.neigh
<1>1. T \in SUBSET NeighEntryType /\ IsFiniteSet(T)
  BY Typed DEF Core, Finite
<1>2. S \in D
  BY DEF Same
<1>3. ASSUME NEW s \in D, NEW x \in T
      PROVE  /\ SetNeigh(s, x, want) \in D
             /\ \A n \in SetNeigh(s, x, want).neigh : (n \in s.neigh /\ n # x) \/ n.enabled = want
  <2> DEFINE R == SetNeigh(s, x, want)
             t == Turned(x, want)
  <2>0. \A m \in s.neigh : m.id = x.id => m \in {x, t}
    <3> SUFFICES ASSUME NEW m \in s.neigh, m.id = x.id PROVE m \in {x, t}
      OBVIOUS
    <3>1. PICK y \in S.neigh : m \in {y, Turned(y, want)}
      OBVIOUS
    <3>2. Turned(y, want).id = y.id
      BY <1>1 DEF Turned, NeighEntryType
    <3>3. y = x
      BY <3>1, <3>2 DEF Core, NeighOK
    <3> QED
      BY <3>1, <3>3
  <2>0a. t.enabled = want
    BY <1>1 DEF Turned, NeighEntryType
  <2>1. /\ R \in StateType /\ Core(R) /\ Same(R, s, NeighFields)
        /\ R.neigh = IF x.enabled = want THEN s.neigh ELSE (s.neigh \ {x}) \cup {t}
    BY <1>1, <2>0, SetNeighKeeps
  <2> HIDE DEF R, t
  <2>2. Same(R, S, NeighFields)
    BY <2>1, SameStep
  <2>3. Known(R)
    BY <2>1 DEF t
  <2>4. \A n \in R.neigh : (n \in s.neigh /\ n # x) \/ n.enabled = want
    BY <2>1, <2>0a
  <2> QED
    BY <2>1, <2>2, <2>3, <2>4 DEF R
<1> DEFINE w == [s \in D |-> {n \in s.neigh : n.enabled # want}]
<1>4. Drains(SetNeighRound(D, T, want), w, D, T) /\ w[S] \subseteq T
  <2> HIDE DEF D
  <2> QED
    BY <1>2, <1>3 DEF Drains, SetNeighRound
<1> HIDE DEF D, w
<1>5. SetNeighs(S, want) \in D /\ w[SetNeighs(S, want)] = {}
  BY <1>1, <1>2, <1>4, SetNeighsPass
<1> QED
  BY <1>5 DEF D, w

-----------------------------------------------------------------------------
(***************************************************************************)
(* Addresses.  While an address comes or goes, a part of the invariant     *)
(* does not hold for what is still to be added (E) or to be deleted (O).   *)
(***************************************************************************)
AddrBut(S, E, O) ==
  /\ \A a \in S.addr :
       (a.enabled /\ ~a.failed /\ ~Ended(a) /\ <<"addr", a.id>> \notin S.lost) =>
         a \in E \/ [id |-> a.id, left |-> a.left] \in S.kaddr
  /\ \A x \in S.kaddr : x.id \in O \/ <<"addr", x.id>> \in S.orphans \/ \E a \in S.addr : a.id = x.id /\ a.enabled

NullBut(S, E, O) ==
  /\ \A a \in S.addr : (a.off /\ a.enabled /\ <<"null", a.id>> \notin S.lost) => a.id \in E \/ a.id \in S.knull
  /\ \A x \in S.knull : x \in O \/ <<"null", x>> \in S.orphans \/ \E a \in S.addr : a.id = x /\ a.off /\ a.enabled

RulesBut(S, E, O) ==
  /\ \A a \in S.addr : a.enabled => \A x \in AddrRules(a) : x \in E \/ x \in S.krule \/ <<"rule", x>> \in S.lost
  /\ \A x \in S.krule : \/ x \in O
                        \/ <<"rule", x>> \in S.orphans
                        \/ \E a \in S.addr : a.enabled /\ x \in AddrRules(a)
                        \/ S.policy_rules_set /\ x \in IfRuleType

RoutesBut(S, E, O) == (\A k \in Needed(S) : k \in E \/ Has(S, k)) /\ (\A k \in S.kroute : k \in O \/ Owns(S, k))

\* Nothing missing and nothing too many: in order.
LEMMA AllThere ==
  ASSUME NEW S
  PROVE  /\ AddrOK(S) <=> AddrBut(S, {}, {})
         /\ NullOK(S) <=> NullBut(S, {}, {})
         /\ RulesOK(S) <=> RulesBut(S, {}, {})
         /\ RoutesOK(S) <=> RoutesBut(S, {}, {})
<1>1. AddrOK(S) <=> AddrBut(S, {}, {})
  BY DEF AddrOK, AddrBut
<1>2. NullOK(S) <=> NullBut(S, {}, {})
  BY DEF NullOK, NullBut
<1>3. RulesOK(S) <=> RulesBut(S, {}, {})
  BY DEF RulesOK, RulesBut
<1>4. RoutesOK(S) <=> RoutesBut(S, {}, {})
  BY DEF RoutesOK, RoutesBut
<1> QED
  BY <1>1, <1>2, <1>3, <1>4

\* R has what S has of one kind.
AddrSame(R, S) == R.addr = S.addr /\ R.kaddr = S.kaddr /\ LostSame(R, S, "addr") /\ OrphansSame(R, S, "addr")

NullSame(R, S) == R.addr = S.addr /\ R.knull = S.knull /\ LostSame(R, S, "null") /\ OrphansSame(R, S, "null")

RuleSame(R, S) ==
  /\ R.addr = S.addr /\ R.krule = S.krule /\ R.policy_rules_set = S.policy_rules_set
  /\ LostSame(R, S, "rule") /\ OrphansSame(R, S, "rule")

RouteSame(R, S) ==
  /\ R.addr = S.addr /\ R.kroute = S.kroute /\ \A L \in RouteLists : R[L] = S[L]
  /\ LostSame(R, S, "route") /\ OrphansSame(R, S, "route")

\* AddrBut depends on what AddrSame names only.
LEMMA AddrButSame == ASSUME NEW R, NEW S, NEW E, NEW O, AddrSame(R, S), AddrBut(S, E, O) PROVE AddrBut(R, E, O)
  BY DEF AddrSame, AddrBut, LostSame, OrphansSame

\* NullBut depends on what NullSame names only.
LEMMA NullButSame == ASSUME NEW R, NEW S, NEW E, NEW O, NullSame(R, S), NullBut(S, E, O) PROVE NullBut(R, E, O)
  BY DEF NullSame, NullBut, LostSame, OrphansSame

\* RulesBut depends on what RuleSame names only.
LEMMA RulesButSame == ASSUME NEW R, NEW S, NEW E, NEW O, RuleSame(R, S), RulesBut(S, E, O) PROVE RulesBut(R, E, O)
  BY DEF RuleSame, RulesBut, LostSame, OrphansSame

\* RoutesBut depends on what RouteSame names only.
LEMMA RoutesButSame == ASSUME NEW R, NEW S, NEW E, NEW O, RouteSame(R, S), RoutesBut(S, E, O) PROVE RoutesBut(R, E, O)
<1>1. Enabled(R) = Enabled(S) /\ Needed(R) = Needed(S)
  BY EnabledSame DEF RouteSame
<1> QED
  BY <1>1 DEF RoutesBut, RouteSame, Has, Owns, LostSame, OrphansSame

\* What an operation on the kernel may change, and what it does to the rules of the interface.
KernelFields == {"kaddr", "kroute", "knull", "krule", "lost", "orphans"}

AddrFields == {"addr"} \cup KernelFields

RulesStay(R, S) == (\A x \in R.krule : x \in IfRuleType => x \in S.krule) /\ S.orphans \subseteq R.orphans

\* RulesStay composes.
LEMMA StaySame ==
  ASSUME NEW Q, NEW R, NEW S, RulesStay(Q, R), RulesStay(R, S)
  PROVE  RulesStay(Q, S)
  BY DEF RulesStay

\* A call to the kernel leaves the lists.
LEMMA KernelSame ==
  ASSUME NEW R, NEW S, NEW F, F \subseteq KernelFields, Same(R, S, F)
  PROVE  Same(R, S, KernelFields) /\ R.addr = S.addr /\ \A L \in RouteLists : R[L] = S[L]
<1>1. Same(R, S, KernelFields)
  BY SameMore
<1> QED
  BY <1>1 DEF Same, KernelFields, Fields, RouteLists

\* The routes of an address that are to be added or deleted.
Sub(a) == IF a.sub = None THEN {} ELSE {a.sub}

OffId(a) == IF a.off THEN {a.id} ELSE {}

\* DelRules settles the rules that are too many and nothing else.
LEMMA DelRulesStep ==
  ASSUME NEW S \in StateType, NEW a \in EntryType
  PROVE  LET R == DelRules(S, a)
         IN  /\ R \in StateType /\ Same(R, S, KernelFields) /\ AddrSame(R, S) /\ NullSame(R, S) /\ RouteSame(R, S)
             /\ RulesStay(R, S)
             /\ RulesBut(S, {}, AddrRules(a)) => RulesOK(R)
<1> DEFINE R == DelRules(S, a)
<1>1. /\ R \in StateType /\ Same(R, S, {"krule", "lost"})
      /\ \A kind \in {"addr", "null", "route"} : LostSame(R, S, kind)
      /\ R.krule = S.krule \ AddrRules(a)
      /\ \A x : x \notin AddrRules(a) => (<<"rule", x>> \in R.lost <=> <<"rule", x>> \in S.lost)
      /\ \A x \in AddrRules(a), b \in S.addr : b.enabled /\ x \in AddrRules(b) => <<"rule", x>> \in R.lost
  BY DelRulesFacts
<1> HIDE DEF R
<1>2. Same(R, S, KernelFields) /\ R.addr = S.addr /\ \A L \in RouteLists : R[L] = S[L]
  BY <1>1, KernelSame DEF KernelFields
<1>3. /\ R.kaddr = S.kaddr /\ R.knull = S.knull /\ R.kroute = S.kroute /\ R.orphans = S.orphans
      /\ R.policy_rules_set = S.policy_rules_set
  BY <1>1 DEF Same, Fields
<1>4. \A kind : OrphansSame(R, S, kind)
  BY <1>3 DEF OrphansSame
<1>5. AddrSame(R, S) /\ NullSame(R, S) /\ RouteSame(R, S)
  BY <1>1, <1>2, <1>3, <1>4 DEF AddrSame, NullSame, RouteSame
<1>6. RulesStay(R, S)
  BY <1>1, <1>3 DEF RulesStay
<1>7. ASSUME RulesBut(S, {}, AddrRules(a)) PROVE RulesOK(R)
  <2>1. \A b \in R.addr : b.enabled => \A x \in AddrRules(b) : x \in R.krule \/ <<"rule", x>> \in R.lost
    BY <1>1, <1>2, <1>7 DEF RulesBut
  <2>2. \A x \in R.krule : \/ <<"rule", x>> \in R.orphans
                           \/ \E b \in R.addr : b.enabled /\ x \in AddrRules(b)
                           \/ R.policy_rules_set /\ x \in IfRuleType
    BY <1>1, <1>2, <1>3, <1>7 DEF RulesBut
  <2> QED
    BY <2>1, <2>2 DEF RulesOK
<1> QED
  BY <1>1, <1>2, <1>5, <1>6, <1>7 DEF R

\* AddRules settles the rules that are missing and nothing else.
LEMMA AddRulesStep ==
  ASSUME NEW S \in StateType, NEW a \in EntryType, a \in S.addr, a.enabled
  PROVE  LET R == AddRules(S, a)
         IN  /\ R \in StateType /\ Same(R, S, KernelFields) /\ AddrSame(R, S) /\ NullSame(R, S) /\ RouteSame(R, S)
             /\ RulesStay(R, S)
             /\ RulesBut(S, AddrRules(a), {}) => RulesOK(R)
<1> DEFINE R == AddRules(S, a)
<1>1. /\ R \in StateType /\ Same(R, S, {"krule", "lost"})
      /\ \A kind \in {"addr", "null", "route"} : LostSame(R, S, kind)
      /\ R.krule = S.krule \cup AddrRules(a)
      /\ \A x : x \notin AddrRules(a) => (<<"rule", x>> \in R.lost <=> <<"rule", x>> \in S.lost)
  BY AddRulesFacts
<1> HIDE DEF R
<1>2. Same(R, S, KernelFields) /\ R.addr = S.addr /\ \A L \in RouteLists : R[L] = S[L]
  BY <1>1, KernelSame DEF KernelFields
<1>3. /\ R.kaddr = S.kaddr /\ R.knull = S.knull /\ R.kroute = S.kroute /\ R.orphans = S.orphans
      /\ R.policy_rules_set = S.policy_rules_set
  BY <1>1 DEF Same, Fields
<1>4. \A kind : OrphansSame(R, S, kind)
  BY <1>3 DEF OrphansSame
<1>5. AddrSame(R, S) /\ NullSame(R, S) /\ RouteSame(R, S)
  BY <1>1, <1>2, <1>3, <1>4 DEF AddrSame, NullSame, RouteSame
<1>6. RulesStay(R, S)
  <2>1. AddrRules(a) \cap IfRuleType = {}
    BY RulesTyped
  <2> QED
    BY <1>1, <1>3, <2>1 DEF RulesStay
<1>7. ASSUME RulesBut(S, AddrRules(a), {}) PROVE RulesOK(R)
  <2>1. \A b \in R.addr : b.enabled => \A x \in AddrRules(b) : x \in R.krule \/ <<"rule", x>> \in R.lost
    BY <1>1, <1>2, <1>7 DEF RulesBut
  <2>2. \A x \in R.krule : \/ <<"rule", x>> \in R.orphans
                           \/ \E b \in R.addr : b.enabled /\ x \in AddrRules(b)
                           \/ R.policy_rules_set /\ x \in IfRuleType
    BY <1>1, <1>2, <1>3, <1>7 DEF RulesBut
  <2> QED
    BY <2>1, <2>2 DEF RulesOK
<1> QED
  BY <1>1, <1>2, <1>5, <1>6, <1>7 DEF R

\* AddNull settles the unreachable route that is missing and nothing else.
LEMMA AddNullStep ==
  ASSUME NEW S \in StateType, NEW a \in EntryType, a \in S.addr, a.enabled
  PROVE  LET R == AddNull(S, a)
         IN  /\ R \in StateType /\ Same(R, S, KernelFields) /\ AddrSame(R, S) /\ RuleSame(R, S) /\ RouteSame(R, S)
             /\ RulesStay(R, S)
             /\ NullBut(S, OffId(a), {}) => NullOK(R)
<1> DEFINE R == AddNull(S, a)
<1>1. /\ R \in StateType /\ Same(R, S, {"knull", "lost"})
      /\ \A kind \in {"addr", "rule", "route"} : LostSame(R, S, kind)
      /\ \A i : i # a.id => (<<"null", i>> \in R.lost <=> <<"null", i>> \in S.lost)
      /\ ~a.off => R = S
      /\ a.off => R.knull = S.knull \cup {a.id}
  BY AddNullFacts
<1> HIDE DEF R
<1>2. Same(R, S, KernelFields) /\ R.addr = S.addr /\ \A L \in RouteLists : R[L] = S[L]
  BY <1>1, KernelSame DEF KernelFields
<1>3. /\ R.kaddr = S.kaddr /\ R.krule = S.krule /\ R.kroute = S.kroute /\ R.orphans = S.orphans
      /\ R.policy_rules_set = S.policy_rules_set
  BY <1>1 DEF Same, Fields
<1>4. \A kind : OrphansSame(R, S, kind)
  BY <1>3 DEF OrphansSame
<1>5. AddrSame(R, S) /\ RuleSame(R, S) /\ RouteSame(R, S)
  BY <1>1, <1>2, <1>3, <1>4 DEF AddrSame, RuleSame, RouteSame
<1>6. RulesStay(R, S)
  BY <1>3 DEF RulesStay
<1>7. ASSUME NullBut(S, OffId(a), {}) PROVE NullOK(R)
  <2>1. \A b \in R.addr : (b.off /\ b.enabled /\ <<"null", b.id>> \notin R.lost) => b.id \in R.knull
    BY <1>1, <1>2, <1>7 DEF NullBut, OffId
  <2>2. \A x \in R.knull : <<"null", x>> \in R.orphans \/ \E b \in R.addr : b.id = x /\ b.off /\ b.enabled
    BY <1>1, <1>2, <1>3, <1>7 DEF NullBut
  <2> QED
    BY <2>1, <2>2 DEF NullOK
<1> QED
  BY <1>1, <1>2, <1>5, <1>6, <1>7 DEF R

\* DelNull settles the unreachable route that is too many and nothing else.
LEMMA DelNullStep ==
  ASSUME NEW S \in StateType, NEW a \in EntryType, a \notin S.addr
  PROVE  LET R == DelNull(S, a)
         IN  /\ R \in StateType /\ Same(R, S, KernelFields) /\ AddrSame(R, S) /\ RuleSame(R, S) /\ RouteSame(R, S)
             /\ RulesStay(R, S)
             /\ NullBut(S, {}, OffId(a)) => NullOK(R)
<1> DEFINE R == DelNull(S, a)
<1>1. /\ R \in StateType /\ Same(R, S, {"knull", "lost"})
      /\ \A kind \in {"addr", "rule", "route"} : LostSame(R, S, kind)
      /\ \A i : i # a.id => (<<"null", i>> \in R.lost <=> <<"null", i>> \in S.lost)
      /\ ~a.off => R = S
      /\ a.off =>
           /\ R.knull = S.knull \ {a.id}
           /\ \A b \in S.addr : b # a /\ b.id = a.id /\ b.off /\ b.enabled => <<"null", a.id>> \in R.lost
  BY DelNullFacts
<1> HIDE DEF R
<1>2. Same(R, S, KernelFields) /\ R.addr = S.addr /\ \A L \in RouteLists : R[L] = S[L]
  BY <1>1, KernelSame DEF KernelFields
<1>3. /\ R.kaddr = S.kaddr /\ R.krule = S.krule /\ R.kroute = S.kroute /\ R.orphans = S.orphans
      /\ R.policy_rules_set = S.policy_rules_set
  BY <1>1 DEF Same, Fields
<1>4. \A kind : OrphansSame(R, S, kind)
  BY <1>3 DEF OrphansSame
<1>5. AddrSame(R, S) /\ RuleSame(R, S) /\ RouteSame(R, S)
  BY <1>1, <1>2, <1>3, <1>4 DEF AddrSame, RuleSame, RouteSame
<1>6. RulesStay(R, S)
  BY <1>3 DEF RulesStay
<1>7. ASSUME NullBut(S, {}, OffId(a)) PROVE NullOK(R)
  <2>1. \A b \in R.addr : (b.off /\ b.enabled /\ <<"null", b.id>> \notin R.lost) => b.id \in R.knull
    BY <1>1, <1>2, <1>7 DEF NullBut
  <2>2. \A x \in R.knull : <<"null", x>> \in R.orphans \/ \E b \in R.addr : b.id = x /\ b.off /\ b.enabled
    BY <1>1, <1>2, <1>3, <1>7 DEF NullBut, OffId
  <2> QED
    BY <2>1, <2>2 DEF NullOK
<1> QED
  BY <1>1, <1>2, <1>5, <1>6, <1>7 DEF R

\* The unreachable route of an IPv6 address stays.
LeaveNull(S, a) == [S EXCEPT !.orphans = @ \cup {<<"null", a.id>>}]

\* The unreachable route of an IPv6 address stays, and is recorded.
LEMMA LeaveNullStep ==
  ASSUME NEW S \in StateType, NEW a \in EntryType
  PROVE  LET R == LeaveNull(S, a)
         IN  /\ R \in StateType /\ Same(R, S, KernelFields) /\ AddrSame(R, S) /\ RuleSame(R, S) /\ RouteSame(R, S)
             /\ RulesStay(R, S)
             /\ NullBut(S, {}, OffId(a)) => NullOK(R)
<1> DEFINE R == LeaveNull(S, a)
           H == S.orphans \cup {<<"null", a.id>>}
<1>0. <<"null", a.id>> \in HistoryType
  BY HistoryIn DEF EntryType, Kinds
<1>1. H \in SUBSET HistoryType
  BY <1>0, Typed
<1>2. R = [S EXCEPT !.orphans = H]
  BY DEF LeaveNull
<1>3. S.orphans \subseteq H /\ <<"null", a.id>> \in H
  OBVIOUS
<1>4. \A kind \in {"addr", "rule", "route"} : \A v : <<kind, v>> \in H <=> <<kind, v>> \in S.orphans
  OBVIOUS
<1> HIDE DEF R, H
<1>5. R \in StateType
  BY <1>1, <1>2 DEF StateType
<1>6. Same(R, S, {"orphans"}) /\ R.orphans = H
  BY <1>2, Typed DEF Same, Fields
<1>7. Same(R, S, KernelFields) /\ R.addr = S.addr /\ \A L \in RouteLists : R[L] = S[L]
  BY <1>6, KernelSame DEF KernelFields
<1>8. /\ R.kaddr = S.kaddr /\ R.krule = S.krule /\ R.kroute = S.kroute /\ R.lost = S.lost /\ R.knull = S.knull
      /\ R.policy_rules_set = S.policy_rules_set
  BY <1>6 DEF Same, Fields
<1>9. \A kind : LostSame(R, S, kind)
  BY <1>8 DEF LostSame
<1>10. AddrSame(R, S) /\ RuleSame(R, S) /\ RouteSame(R, S)
  BY <1>4, <1>6, <1>7, <1>8, <1>9 DEF AddrSame, RuleSame, RouteSame, OrphansSame
<1>11. RulesStay(R, S)
  BY <1>3, <1>6, <1>8 DEF RulesStay
<1>12. ASSUME NullBut(S, {}, OffId(a)) PROVE NullOK(R)
  BY <1>3, <1>6, <1>7, <1>8, <1>12 DEF NullBut, NullOK, OffId
<1> QED
  BY <1>5, <1>7, <1>10, <1>11, <1>12 DEF R

\* system_del_address() settles the address that is too many and nothing else.
LEMMA DelAddressStep ==
  ASSUME NEW S \in StateType, NEW a \in EntryType
  PROVE  LET R == system_del_address(S, a)
         IN  /\ R \in StateType /\ Same(R, S, KernelFields) /\ NullSame(R, S) /\ RuleSame(R, S) /\ RouteSame(R, S)
             /\ RulesStay(R, S)
             /\ AddrBut(S, {}, {a.id}) => AddrOK(R)
<1> DEFINE R == system_del_address(S, a)
<1>1. /\ R \in StateType /\ Same(R, S, {"kaddr", "lost", "orphans"})
      /\ \A kind \in {"null", "rule", "route"} : LostSame(R, S, kind) /\ OrphansSame(R, S, kind)
      /\ \A i : i # a.id => (<<"addr", i>> \in R.lost <=> <<"addr", i>> \in S.lost)
      /\ S.orphans \subseteq R.orphans
      /\ Ended(a) => R.kaddr = S.kaddr /\ R.lost = S.lost /\ <<"addr", a.id>> \in R.orphans
      /\ ~Ended(a) =>
           /\ R.kaddr = {x \in S.kaddr : x.id # a.id}
           /\ (\E b \in S.addr : b.id = a.id /\ b.enabled) => <<"addr", a.id>> \in R.lost
  BY DelAddress
<1> HIDE DEF R
<1>2. Same(R, S, KernelFields) /\ R.addr = S.addr /\ \A L \in RouteLists : R[L] = S[L]
  BY <1>1, KernelSame DEF KernelFields
<1>3. /\ R.knull = S.knull /\ R.krule = S.krule /\ R.kroute = S.kroute
      /\ R.policy_rules_set = S.policy_rules_set
  BY <1>1 DEF Same, Fields
<1>5. NullSame(R, S) /\ RuleSame(R, S) /\ RouteSame(R, S)
  BY <1>1, <1>2, <1>3 DEF NullSame, RuleSame, RouteSame
<1>6. RulesStay(R, S)
  BY <1>1, <1>3 DEF RulesStay
<1>7. ASSUME AddrBut(S, {}, {a.id}) PROVE AddrOK(R)
  <2>1. \A b \in R.addr :
          (b.enabled /\ ~b.failed /\ ~Ended(b) /\ <<"addr", b.id>> \notin R.lost) =>
            [id |-> b.id, left |-> b.left] \in R.kaddr
    <3> SUFFICES ASSUME NEW b \in S.addr, b.enabled, ~b.failed, ~Ended(b), <<"addr", b.id>> \notin R.lost
                 PROVE  [id |-> b.id, left |-> b.left] \in R.kaddr
      BY <1>2
    <3>1. CASE Ended(a)
      BY <1>1, <1>7, <3>1 DEF AddrBut
    <3>2. CASE ~Ended(a)
      BY <1>1, <1>7, <3>2 DEF AddrBut
    <3> QED
      BY <3>1, <3>2
  <2>2. \A x \in R.kaddr : <<"addr", x.id>> \in R.orphans \/ \E b \in R.addr : b.id = x.id /\ b.enabled
    BY <1>1, <1>2, <1>7 DEF AddrBut
  <2> QED
    BY <2>1, <2>2 DEF AddrOK
<1> QED
  BY <1>1, <1>2, <1>5, <1>6, <1>7 DEF R

\* system_add_address() settles the address that is missing and nothing else.
LEMMA AddAddressStep ==
  ASSUME NEW S \in StateType, NEW a \in EntryType, a \in S.addr, a.enabled
  PROVE  LET R == system_add_address(S, a)
         IN  /\ R \in StateType /\ Same(R, S, KernelFields) /\ NullSame(R, S) /\ RuleSame(R, S) /\ RouteSame(R, S)
             /\ RulesStay(R, S)
             /\ AddrBut(S, {a}, {}) /\ (AddrRefused(S, a) => a.failed \/ Ended(a) \/ <<"addr", a.id>> \in S.lost)
                  => AddrOK(R)
<1> DEFINE R == system_add_address(S, a)
<1>1. /\ R \in StateType /\ Same(R, S, {"kaddr", "lost"})
      /\ \A kind \in {"null", "rule", "route"} : LostSame(R, S, kind)
      /\ \A i : i # a.id => (<<"addr", i>> \in R.lost <=> <<"addr", i>> \in S.lost)
      /\ AddrRefused(S, a) => R = S
      /\ ~AddrRefused(S, a) =>
           /\ R.kaddr = {x \in S.kaddr : x.id # a.id} \cup {[id |-> a.id, left |-> a.left]}
           /\ <<"addr", a.id>> \in R.lost <=>
                \E b \in S.addr : b.id = a.id /\ b.enabled /\ ~b.failed /\ b.left # a.left
  BY AddAddress
<1> HIDE DEF R
<1>2. Same(R, S, KernelFields) /\ R.addr = S.addr /\ \A L \in RouteLists : R[L] = S[L]
  BY <1>1, KernelSame DEF KernelFields
<1>3. /\ R.knull = S.knull /\ R.krule = S.krule /\ R.kroute = S.kroute /\ R.orphans = S.orphans
      /\ R.policy_rules_set = S.policy_rules_set
  BY <1>1 DEF Same, Fields
<1>4. \A kind : OrphansSame(R, S, kind)
  BY <1>3 DEF OrphansSame
<1>5. NullSame(R, S) /\ RuleSame(R, S) /\ RouteSame(R, S)
  BY <1>1, <1>2, <1>3, <1>4 DEF NullSame, RuleSame, RouteSame
<1>6. RulesStay(R, S)
  BY <1>1, <1>3 DEF RulesStay
<1>7. ASSUME AddrBut(S, {a}, {}), AddrRefused(S, a) => a.failed \/ Ended(a) \/ <<"addr", a.id>> \in S.lost
      PROVE  AddrOK(R)
  <2>1. CASE AddrRefused(S, a)
    BY <1>1, <1>7, <2>1 DEF AddrBut, AddrOK
  <2>2. CASE ~AddrRefused(S, a)
    <3>1. \A b \in R.addr :
            (b.enabled /\ ~b.failed /\ ~Ended(b) /\ <<"addr", b.id>> \notin R.lost) =>
              [id |-> b.id, left |-> b.left] \in R.kaddr
      BY <1>1, <1>2, <1>7, <2>2 DEF AddrBut
    <3>2. \A x \in R.kaddr : <<"addr", x.id>> \in R.orphans \/ \E b \in R.addr : b.id = x.id /\ b.enabled
      <4> SUFFICES ASSUME NEW x \in R.kaddr
                   PROVE  <<"addr", x.id>> \in R.orphans \/ \E b \in R.addr : b.id = x.id /\ b.enabled
        OBVIOUS
      <4>1. x \in S.kaddr \/ x = [id |-> a.id, left |-> a.left]
        BY <1>1, <2>2
      <4>2. CASE x \in S.kaddr
        BY <1>2, <1>3, <1>7, <4>2 DEF AddrBut
      <4>3. CASE x = [id |-> a.id, left |-> a.left]
        BY <1>2, <4>3
      <4> QED
        BY <4>1, <4>2, <4>3
    <3> QED
      BY <3>1, <3>2 DEF AddrOK
  <2> QED
    BY <2>1, <2>2
<1> QED
  BY <1>1, <1>2, <1>5, <1>6, <1>7 DEF R

\* DelSubnet settles the subnet route that is too many and nothing else.
LEMMA DelSubnetStep ==
  ASSUME NEW S \in StateType, NEW a \in EntryType
  PROVE  LET R == DelSubnet(S, a)
         IN  /\ R \in StateType /\ Same(R, S, KernelFields) /\ AddrSame(R, S) /\ NullSame(R, S) /\ RuleSame(R, S)
             /\ RulesStay(R, S)
             /\ RoutesBut(S, {}, Sub(a)) => RoutesOK(R)
<1>1. CASE a.sub = None
  <2>1. DelSubnet(S, a) = S /\ Sub(a) = {}
    BY <1>1 DEF DelSubnet, Sub
  <2> QED
    BY <2>1, AllThere DEF Same, AddrSame, NullSame, RuleSame, RulesStay, LostSame, OrphansSame
<1>2. CASE a.sub # None
  <2> DEFINE k == a.sub
             R == system_del_route(S, k)
  <2>1. DelSubnet(S, a) = R /\ Sub(a) = {k}
    BY <1>2 DEF DelSubnet, Sub
  <2>2. k \in KRouteType
    BY <1>2, SubnetTyped DEF EntryType, Maybe
  <2>3. Enabled(S) \in SUBSET KRouteType
    BY EnabledTyped
  <2> HIDE DEF k
  <2>4. /\ R \in StateType /\ Same(R, S, {"kroute", "lost"})
        /\ \A kind \in {"addr", "null", "rule"} : LostSame(R, S, kind)
    BY <2>2, <2>3, DelRoute
  <2>5. ASSUME RoutesBut(S, {}, Sub(a)) PROVE RoutesOK(R)
    <3>1. (\A m \in Needed(S) : Has(S, m)) /\ (\A m \in S.kroute : m = k \/ Owns(S, m))
      BY <2>1, <2>5 DEF RoutesBut
    <3> QED
      BY <2>2, <3>1, DelRouteOK
  <2> HIDE DEF R
  <2>6. Same(R, S, KernelFields) /\ R.addr = S.addr
    BY <2>4, KernelSame DEF KernelFields
  <2>7. /\ R.kaddr = S.kaddr /\ R.knull = S.knull /\ R.krule = S.krule /\ R.orphans = S.orphans
        /\ R.policy_rules_set = S.policy_rules_set
    BY <2>4 DEF Same, Fields
  <2>8. \A kind : OrphansSame(R, S, kind)
    BY <2>7 DEF OrphansSame
  <2>9. AddrSame(R, S) /\ NullSame(R, S) /\ RuleSame(R, S) /\ RulesStay(R, S)
    BY <2>4, <2>6, <2>7, <2>8 DEF AddrSame, NullSame, RuleSame, RulesStay
  <2> QED
    BY <2>1, <2>4, <2>5, <2>6, <2>9
<1> QED
  BY <1>1, <1>2

\* The subnet route an entry gets.
LEMMA SubnetIn == ASSUME NEW S \in StateType, NEW a \in EntryType PROVE Subnet(S, a) \in SubnetType
  BY Typed DEF Subnet, SubnetType, EntryType, SetType

\* AddSubnet settles the subnet route that is missing and nothing else.
LEMMA AddSubnetStep ==
  ASSUME NEW S \in StateType, NEW a \in EntryType, a \in S.addr, a.enabled,
         a.sub = IF WantsSubnet(S, a) THEN Subnet(S, a) ELSE None
  PROVE  LET R == AddSubnet(S, a)
         IN  /\ R \in StateType /\ Same(R, S, KernelFields) /\ AddrSame(R, S) /\ NullSame(R, S) /\ RuleSame(R, S)
             /\ RulesStay(R, S)
             /\ RoutesBut(S, Sub(a), {}) => RoutesOK(R)
<1>1. CASE ~WantsSubnet(S, a)
  <2>1. AddSubnet(S, a) = S /\ Sub(a) = {}
    BY <1>1 DEF AddSubnet, Sub
  <2> QED
    BY <2>1, AllThere DEF Same, AddrSame, NullSame, RuleSame, RulesStay, LostSame, OrphansSame
<1>2. CASE WantsSubnet(S, a)
  <2> DEFINE k == Subnet(S, a)
             R == system_add_route(S, k)
  <2>1. k # None /\ k \in KRouteType
    BY SubnetIn, SubnetTyped, IpAssumption
  <2>2. AddSubnet(S, a) = R /\ Sub(a) = {k}
    BY <1>2, <2>1 DEF AddSubnet, Sub
  <2>3. k \in Enabled(S)
    BY <1>2, <2>1 DEF Enabled
  <2> HIDE DEF k
  <2>4. /\ R \in StateType /\ Same(R, S, {"kroute", "lost"})
        /\ \A kind \in {"addr", "null", "rule"} : LostSame(R, S, kind)
    BY <2>1, AddRoute
  <2>5. ASSUME RoutesBut(S, Sub(a), {}) PROVE RoutesOK(R)
    <3>1. (\A m \in Needed(S) : SameSlot(m, k) \/ Has(S, m)) /\ (\A m \in S.kroute : Owns(S, m))
      BY <2>2, <2>5 DEF RoutesBut, SameSlot
    <3> QED
      BY <2>1, <2>3, <3>1, AddRouteOK DEF Owns
  <2> HIDE DEF R
  <2>6. Same(R, S, KernelFields) /\ R.addr = S.addr
    BY <2>4, KernelSame DEF KernelFields
  <2>7. /\ R.kaddr = S.kaddr /\ R.knull = S.knull /\ R.krule = S.krule /\ R.orphans = S.orphans
        /\ R.policy_rules_set = S.policy_rules_set
    BY <2>4 DEF Same, Fields
  <2>8. \A kind : OrphansSame(R, S, kind)
    BY <2>7 DEF OrphansSame
  <2>9. AddrSame(R, S) /\ NullSame(R, S) /\ RuleSame(R, S) /\ RulesStay(R, S)
    BY <2>4, <2>6, <2>7, <2>8 DEF AddrSame, NullSame, RuleSame, RulesStay
  <2> QED
    BY <2>2, <2>4, <2>5, <2>6, <2>9
<1> QED
  BY <1>1, <1>2

\* What is wrong while an address goes, and while it comes.
Going(S, a) ==
  /\ a \notin S.addr
  /\ AddrBut(S, {}, {a.id}) /\ NullBut(S, {}, OffId(a)) /\ RulesBut(S, {}, AddrRules(a)) /\ RoutesBut(S, {}, Sub(a))

Coming(S, a) ==
  /\ a \in S.addr /\ a.enabled /\ a.sub = IF WantsSubnet(S, a) THEN Subnet(S, a) ELSE None
  /\ AddrRefused(S, a) => a.failed \/ Ended(a) \/ <<"addr", a.id>> \in S.lost
  /\ AddrBut(S, {a}, {}) /\ NullBut(S, OffId(a), {}) /\ RulesBut(S, AddrRules(a), {}) /\ RoutesBut(S, Sub(a), {})

\* The kernel part of the invariant.
KernelOK(S) == AddrOK(S) /\ NullOK(S) /\ RulesOK(S) /\ RoutesOK(S)

\* AddrOK depends on what AddrSame names only.
LEMMA AddrOKSame == ASSUME NEW R, NEW S, AddrSame(R, S), AddrOK(S) PROVE AddrOK(R)
  BY AddrFrame DEF AddrSame

\* NullOK depends on what NullSame names only.
LEMMA NullOKSame == ASSUME NEW R, NEW S, NullSame(R, S), NullOK(S) PROVE NullOK(R)
  BY NullFrame DEF NullSame

\* RulesOK depends on what RuleSame names only.
LEMMA RulesOKSame == ASSUME NEW R, NEW S, RuleSame(R, S), RulesOK(S) PROVE RulesOK(R)
  BY RulesFrame DEF RuleSame

\* RoutesOK depends on what RouteSame names only.
LEMMA RoutesOKSame == ASSUME NEW R, NEW S, RouteSame(R, S), RoutesOK(S) PROVE RoutesOK(R)
  BY RoutesButSame, AllThere

\* A call to the kernel leaves the list of addresses and the settings.
LEMMA KernelStep ==
  ASSUME NEW R, NEW S, Same(R, S, KernelFields)
  PROVE  R.addr = S.addr /\ R.set = S.set /\ R.bad = S.bad
  BY DEF Same, Fields, KernelFields

\* The calls for an address that is turned off leave the kernel in order.
LEMMA GoneOff ==
  ASSUME NEW S \in StateType, NEW a \in EntryType, Going(S, a)
  PROVE  LET R == DelRules(DelNull(system_del_address(DelSubnet(S, a), a), a), a)
         IN  R \in StateType /\ Same(R, S, KernelFields) /\ RulesStay(R, S) /\ KernelOK(R)
<1> DEFINE S1 == DelSubnet(S, a)
           S2 == system_del_address(S1, a)
           S3 == DelNull(S2, a)
           S4 == DelRules(S3, a)
<1>0. /\ a \notin S.addr /\ AddrBut(S, {}, {a.id}) /\ NullBut(S, {}, OffId(a))
      /\ RulesBut(S, {}, AddrRules(a)) /\ RoutesBut(S, {}, Sub(a))
  BY DEF Going
<1>1. /\ S1 \in StateType /\ Same(S1, S, KernelFields) /\ AddrSame(S1, S) /\ NullSame(S1, S) /\ RuleSame(S1, S)
      /\ RulesStay(S1, S) /\ RoutesOK(S1)
  BY <1>0, DelSubnetStep
<1> HIDE DEF S1
<1>2. AddrBut(S1, {}, {a.id}) /\ NullBut(S1, {}, OffId(a)) /\ RulesBut(S1, {}, AddrRules(a)) /\ a \notin S1.addr
  BY <1>0, <1>1, AddrButSame, NullButSame, RulesButSame, KernelStep
<1>3. /\ S2 \in StateType /\ Same(S2, S1, KernelFields) /\ NullSame(S2, S1) /\ RuleSame(S2, S1) /\ RouteSame(S2, S1)
      /\ RulesStay(S2, S1) /\ AddrOK(S2)
  BY <1>1, <1>2, DelAddressStep
<1> HIDE DEF S2
<1>4. NullBut(S2, {}, OffId(a)) /\ RulesBut(S2, {}, AddrRules(a)) /\ a \notin S2.addr /\ RoutesOK(S2)
  BY <1>1, <1>2, <1>3, NullButSame, RulesButSame, RoutesOKSame, KernelStep
<1>5. /\ S3 \in StateType /\ Same(S3, S2, KernelFields) /\ AddrSame(S3, S2) /\ RuleSame(S3, S2) /\ RouteSame(S3, S2)
      /\ RulesStay(S3, S2) /\ NullOK(S3)
  BY <1>3, <1>4, DelNullStep
<1> HIDE DEF S3
<1>6. RulesBut(S3, {}, AddrRules(a)) /\ AddrOK(S3) /\ RoutesOK(S3)
  BY <1>3, <1>4, <1>5, RulesButSame, AddrOKSame, RoutesOKSame
<1>7. /\ S4 \in StateType /\ Same(S4, S3, KernelFields) /\ AddrSame(S4, S3) /\ NullSame(S4, S3) /\ RouteSame(S4, S3)
      /\ RulesStay(S4, S3) /\ RulesOK(S4)
  BY <1>5, <1>6, DelRulesStep
<1> HIDE DEF S4
<1>8. KernelOK(S4)
  BY <1>5, <1>6, <1>7, AddrOKSame, NullOKSame, RoutesOKSame DEF KernelOK
<1>9. Same(S4, S, KernelFields) /\ RulesStay(S4, S)
  BY <1>1, <1>3, <1>5, <1>7, SameStep, StaySame
<1> QED
  BY <1>7, <1>8, <1>9 DEF S1, S2, S3, S4

\* The calls for an address that leaves the list leave the kernel in order.
LEMMA GoneList ==
  ASSUME NEW S \in StateType, NEW a \in EntryType, Going(S, a)
  PROVE  LET S2 == system_del_address(DelSubnet(DelRules(S, a), a), a)
             R == IF a.off /\ a.v6 THEN LeaveNull(S2, a) ELSE DelNull(S2, a)
         IN  R \in StateType /\ Same(R, S, KernelFields) /\ RulesStay(R, S) /\ KernelOK(R)
<1> DEFINE S1 == DelRules(S, a)
           S2 == DelSubnet(S1, a)
           S3 == system_del_address(S2, a)
           S4 == IF a.off /\ a.v6 THEN LeaveNull(S3, a) ELSE DelNull(S3, a)
<1>0. /\ a \notin S.addr /\ AddrBut(S, {}, {a.id}) /\ NullBut(S, {}, OffId(a))
      /\ RulesBut(S, {}, AddrRules(a)) /\ RoutesBut(S, {}, Sub(a))
  BY DEF Going
<1>1. /\ S1 \in StateType /\ Same(S1, S, KernelFields) /\ AddrSame(S1, S) /\ NullSame(S1, S) /\ RouteSame(S1, S)
      /\ RulesStay(S1, S) /\ RulesOK(S1)
  BY <1>0, DelRulesStep
<1> HIDE DEF S1
<1>2. AddrBut(S1, {}, {a.id}) /\ NullBut(S1, {}, OffId(a)) /\ RoutesBut(S1, {}, Sub(a)) /\ a \notin S1.addr
  BY <1>0, <1>1, AddrButSame, NullButSame, RoutesButSame, KernelStep
<1>3. /\ S2 \in StateType /\ Same(S2, S1, KernelFields) /\ AddrSame(S2, S1) /\ NullSame(S2, S1) /\ RuleSame(S2, S1)
      /\ RulesStay(S2, S1) /\ RoutesOK(S2)
  BY <1>1, <1>2, DelSubnetStep
<1> HIDE DEF S2
<1>4. AddrBut(S2, {}, {a.id}) /\ NullBut(S2, {}, OffId(a)) /\ a \notin S2.addr /\ RulesOK(S2)
  BY <1>1, <1>2, <1>3, AddrButSame, NullButSame, RulesOKSame, KernelStep
<1>5. /\ S3 \in StateType /\ Same(S3, S2, KernelFields) /\ NullSame(S3, S2) /\ RuleSame(S3, S2) /\ RouteSame(S3, S2)
      /\ RulesStay(S3, S2) /\ AddrOK(S3)
  BY <1>3, <1>4, DelAddressStep
<1> HIDE DEF S3
<1>6. NullBut(S3, {}, OffId(a)) /\ a \notin S3.addr /\ RulesOK(S3) /\ RoutesOK(S3)
  BY <1>3, <1>4, <1>5, NullButSame, RulesOKSame, RoutesOKSame, KernelStep
<1>7. /\ S4 \in StateType /\ Same(S4, S3, KernelFields) /\ AddrSame(S4, S3) /\ RuleSame(S4, S3) /\ RouteSame(S4, S3)
      /\ RulesStay(S4, S3) /\ NullOK(S4)
  <2>1. CASE a.off /\ a.v6
    BY <1>5, <1>6, <2>1, LeaveNullStep
  <2>2. CASE ~(a.off /\ a.v6)
    BY <1>5, <1>6, <2>2, DelNullStep
  <2> QED
    BY <2>1, <2>2
<1> HIDE DEF S4
<1>8. KernelOK(S4)
  BY <1>5, <1>6, <1>7, AddrOKSame, RulesOKSame, RoutesOKSame DEF KernelOK
<1>9. Same(S4, S, KernelFields) /\ RulesStay(S4, S)
  BY <1>1, <1>3, <1>5, <1>7, SameStep, StaySame
<1> QED
  BY <1>7, <1>8, <1>9 DEF S1, S2, S3, S4

\* The calls for a new address leave the kernel in order.
LEMMA Come ==
  ASSUME NEW S \in StateType, NEW a \in EntryType, Coming(S, a)
  PROVE  LET R == AddRules(AddNull(AddSubnet(system_add_address(S, a), a), a), a)
         IN  R \in StateType /\ Same(R, S, KernelFields) /\ RulesStay(R, S) /\ KernelOK(R)
<1> DEFINE S1 == system_add_address(S, a)
           S2 == AddSubnet(S1, a)
           S3 == AddNull(S2, a)
           S4 == AddRules(S3, a)
<1>0. /\ a \in S.addr /\ a.enabled /\ a.sub = IF WantsSubnet(S, a) THEN Subnet(S, a) ELSE None
      /\ AddrRefused(S, a) => a.failed \/ Ended(a) \/ <<"addr", a.id>> \in S.lost
      /\ AddrBut(S, {a}, {}) /\ NullBut(S, OffId(a), {}) /\ RulesBut(S, AddrRules(a), {}) /\ RoutesBut(S, Sub(a), {})
  BY DEF Coming
<1>1. /\ S1 \in StateType /\ Same(S1, S, KernelFields) /\ NullSame(S1, S) /\ RuleSame(S1, S) /\ RouteSame(S1, S)
      /\ RulesStay(S1, S) /\ AddrOK(S1)
  BY <1>0, AddAddressStep
<1> HIDE DEF S1
<1>2. /\ NullBut(S1, OffId(a), {}) /\ RulesBut(S1, AddrRules(a), {}) /\ RoutesBut(S1, Sub(a), {})
      /\ a \in S1.addr /\ S1.set = S.set
  BY <1>0, <1>1, NullButSame, RulesButSame, RoutesButSame, KernelStep
<1>2a. a.sub = IF WantsSubnet(S1, a) THEN Subnet(S1, a) ELSE None
  BY <1>0, <1>2 DEF WantsSubnet, Subnet
<1>3. /\ S2 \in StateType /\ Same(S2, S1, KernelFields) /\ AddrSame(S2, S1) /\ NullSame(S2, S1) /\ RuleSame(S2, S1)
      /\ RulesStay(S2, S1) /\ RoutesOK(S2)
  BY <1>0, <1>1, <1>2, <1>2a, AddSubnetStep
<1> HIDE DEF S2
<1>4. NullBut(S2, OffId(a), {}) /\ RulesBut(S2, AddrRules(a), {}) /\ a \in S2.addr /\ AddrOK(S2)
  BY <1>1, <1>2, <1>3, NullButSame, RulesButSame, AddrOKSame, KernelStep
<1>5. /\ S3 \in StateType /\ Same(S3, S2, KernelFields) /\ AddrSame(S3, S2) /\ RuleSame(S3, S2) /\ RouteSame(S3, S2)
      /\ RulesStay(S3, S2) /\ NullOK(S3)
  BY <1>0, <1>3, <1>4, AddNullStep
<1> HIDE DEF S3
<1>6. RulesBut(S3, AddrRules(a), {}) /\ a \in S3.addr /\ AddrOK(S3) /\ RoutesOK(S3)
  BY <1>3, <1>4, <1>5, RulesButSame, AddrOKSame, RoutesOKSame, KernelStep
<1>7. /\ S4 \in StateType /\ Same(S4, S3, KernelFields) /\ AddrSame(S4, S3) /\ NullSame(S4, S3) /\ RouteSame(S4, S3)
      /\ RulesStay(S4, S3) /\ RulesOK(S4)
  BY <1>0, <1>5, <1>6, AddRulesStep
<1> HIDE DEF S4
<1>8. KernelOK(S4)
  BY <1>5, <1>6, <1>7, AddrOKSame, NullOKSame, RoutesOKSame DEF KernelOK
<1>9. Same(S4, S, KernelFields) /\ RulesStay(S4, S)
  BY <1>1, <1>3, <1>5, <1>7, SameStep, StaySame
<1> QED
  BY <1>7, <1>8, <1>9 DEF S1, S2, S3, S4

\* A state with another list of addresses, and with more that is lost.
Listed(S, X, H) == [S EXCEPT !.addr = X, !.lost = H]

\* A state with another list of addresses and another history.
LEMMA ListedFacts ==
  ASSUME NEW S \in StateType, NEW X \in SUBSET EntryType, NEW H \in SUBSET HistoryType
  PROVE  LET T == Listed(S, X, H)
         IN  T \in StateType /\ Same(T, S, {"addr", "lost"}) /\ T.addr = X /\ T.lost = H
<1>1. Listed(S, X, H) \in StateType
  BY DEF StateType, Listed
<1>2. Same(Listed(S, X, H), S, {"addr", "lost"}) /\ Listed(S, X, H).addr = X /\ Listed(S, X, H).lost = H
  BY Typed DEF Listed, Same, Fields
<1> QED
  BY <1>1, <1>2

\* A state with another list of addresses.
LEMMA WithAddr ==
  ASSUME NEW S \in StateType, NEW X \in SUBSET EntryType
  PROVE  With(S, "addr", X) = Listed(S, X, S.lost)
  BY Typed DEF With, Listed, StateType

\* T has the addresses of S, without a, or with a.
GoneOnly(T, S, a) ==
  /\ a \notin T.addr /\ (\A b \in S.addr : b.enabled => b = a \/ b \in T.addr)
  /\ (\A b \in T.addr : b.enabled => b \in S.addr)

ComeOnly(T, S, a) ==
  /\ a \in T.addr /\ a.enabled /\ (\A b \in S.addr : b.enabled => b \in T.addr)
  /\ (\A b \in T.addr : b.enabled => b = a \/ b \in S.addr)

\* Another list of addresses leaves the kernel and the routes.
LEMMA ListRest ==
  ASSUME NEW T, NEW S, Same(T, S, {"addr", "lost"})
  PROVE  /\ T.kaddr = S.kaddr /\ T.kroute = S.kroute /\ T.knull = S.knull /\ T.krule = S.krule
         /\ T.orphans = S.orphans /\ T.policy_rules_set = S.policy_rules_set /\ T.set = S.set /\ T.bad = S.bad
         /\ Routes(T) = Routes(S)
  BY DEF Same, Fields, Routes

\* Without one enabled entry only what it had is too many.
LEMMA GoneFrom ==
  ASSUME NEW S, NEW T, Core(S), Same(T, S, {"addr", "lost"}), S.lost \subseteq T.lost, NEW a, GoneOnly(T, S, a)
  PROVE  Going(T, a)
<1>1. /\ T.kaddr = S.kaddr /\ T.kroute = S.kroute /\ T.knull = S.knull /\ T.krule = S.krule
      /\ T.orphans = S.orphans /\ T.policy_rules_set = S.policy_rules_set /\ Routes(T) = Routes(S)
  BY ListRest
<1>2. AddrBut(T, {}, {a.id})
  BY <1>1 DEF GoneOnly, AddrBut, Core, AddrOK
<1>3. NullBut(T, {}, OffId(a))
  BY <1>1 DEF GoneOnly, NullBut, Core, NullOK, OffId
<1>4. RulesBut(T, {}, AddrRules(a))
  BY <1>1 DEF GoneOnly, RulesBut, Core, RulesOK
<1>5. RoutesBut(T, {}, Sub(a))
  <2>1. \A k \in Needed(T) : k \in Needed(S)
    BY <1>1 DEF Needed, GoneOnly
  <2>2. \A k \in Enabled(S) : k \in Enabled(T) \/ k \in Sub(a)
    BY <1>1 DEF Enabled, GoneOnly, Sub
  <2> QED
    BY <1>1, <2>1, <2>2 DEF RoutesBut, Core, RoutesOK, Has, Owns
<1> QED
  BY <1>2, <1>3, <1>4, <1>5 DEF Going, GoneOnly

\* With one more enabled entry only what it needs is missing.
LEMMA ComeTo ==
  ASSUME NEW S, NEW T, Core(S), Same(T, S, {"addr", "lost"}), S.lost \subseteq T.lost, NEW a, ComeOnly(T, S, a),
         a.sub = IF WantsSubnet(T, a) THEN Subnet(T, a) ELSE None,
         AddrRefused(T, a) => a.failed \/ Ended(a) \/ <<"addr", a.id>> \in T.lost
  PROVE  Coming(T, a)
<1>1. /\ T.kaddr = S.kaddr /\ T.kroute = S.kroute /\ T.knull = S.knull /\ T.krule = S.krule
      /\ T.orphans = S.orphans /\ T.policy_rules_set = S.policy_rules_set /\ Routes(T) = Routes(S)
  BY ListRest
<1>2. AddrBut(T, {a}, {})
  BY <1>1 DEF ComeOnly, AddrBut, Core, AddrOK
<1>3. NullBut(T, OffId(a), {})
  BY <1>1 DEF ComeOnly, NullBut, Core, NullOK, OffId
<1>4. RulesBut(T, AddrRules(a), {})
  BY <1>1 DEF ComeOnly, RulesBut, Core, RulesOK
<1>5. RoutesBut(T, Sub(a), {})
  <2>1. \A k \in Needed(T) : k \in Needed(S) \/ k \in Sub(a)
    BY <1>1 DEF Needed, ComeOnly, Sub
  <2>2. \A k \in Enabled(S) : k \in Enabled(T)
    BY <1>1 DEF Enabled, ComeOnly
  <2> QED
    BY <1>1, <2>1, <2>2 DEF RoutesBut, Core, RoutesOK, Has, Owns
<1> QED
  BY <1>2, <1>3, <1>4, <1>5 DEF Coming, ComeOnly

\* An entry that is not enabled may go.
LEMMA Unused ==
  ASSUME NEW S, NEW T, Core(S), Same(T, S, {"addr", "lost"}), T.lost = S.lost, NEW a, ~a.enabled,
         T.addr = S.addr \ {a}
  PROVE  KernelOK(T)
<1>1. /\ T.kaddr = S.kaddr /\ T.kroute = S.kroute /\ T.knull = S.knull /\ T.krule = S.krule
      /\ T.orphans = S.orphans /\ T.policy_rules_set = S.policy_rules_set /\ Routes(T) = Routes(S)
  BY ListRest
<1>0. (\A b \in S.addr : b.enabled => b \in T.addr) /\ (\A b \in T.addr : b \in S.addr)
  OBVIOUS
<1>2. AddrOK(T)
  BY <1>0, <1>1 DEF Core, AddrOK
<1>3. NullOK(T)
  BY <1>0, <1>1 DEF Core, NullOK
<1>4. RulesOK(T)
  BY <1>0, <1>1 DEF Core, RulesOK
<1>5. RoutesOK(T)
  <2>1. \A k \in Needed(T) : k \in Needed(S)
    BY <1>0, <1>1 DEF Needed
  <2>2. \A k \in Enabled(S) : k \in Enabled(T)
    BY <1>0, <1>1 DEF Enabled
  <2> QED
    BY <1>1, <2>1, <2>2 DEF Core, RoutesOK, Has, Owns
<1> QED
  BY <1>2, <1>3, <1>4, <1>5 DEF KernelOK

\* What an operation on the addresses keeps.
AddrKeeps(R, S) ==
  /\ R \in StateType /\ Core(R) /\ Same(R, S, AddrFields)
  /\ RulesCurrent(S) => RulesCurrent(R)
  /\ SubnetsCurrent(S) => SubnetsCurrent(R)

\* Operations on addresses compose.
LEMMA AddrKeepsStep == ASSUME NEW Q, NEW R, NEW S, AddrKeeps(Q, R), AddrKeeps(R, S) PROVE AddrKeeps(Q, S)
  BY SameStep DEF AddrKeeps

\* T is S with another list, R is T with the kernel in order.
LEMMA AddrOpCore ==
  ASSUME NEW S \in StateType, Core(S), NEW T \in StateType, Same(T, S, {"addr", "lost"}),
         NEW R \in StateType, Same(R, T, KernelFields), RulesStay(R, T), KernelOK(R),
         IsFiniteSet(T.addr), Keys(T), SubnetsOff(T), SubnetsCurrent(S) => SubnetsCurrent(T)
  PROVE  AddrKeeps(R, S) /\ R.addr = T.addr
<1>0. Same(R, S, AddrFields)
  <2>1. {"addr", "lost"} \cup KernelFields = AddrFields
    BY DEF KernelFields, AddrFields
  <2> QED
    BY <2>1, SameTrans
<1>1. /\ R.neigh = S.neigh /\ R.kneigh = S.kneigh /\ R.nrefused = S.nrefused /\ \A M \in RouteLists : R[M] = S[M]
  BY <1>0 DEF Same, Fields, RouteLists, AddrFields, KernelFields
<1>2. R.addr = T.addr /\ R.set = T.set /\ R.policy_rules_set = T.policy_rules_set
  BY DEF Same, Fields, KernelFields
<1>3. T.krule = S.krule /\ T.orphans = S.orphans /\ T.set = S.set /\ T.policy_rules_set = S.policy_rules_set
  BY ListRest
<1>4. NeighOK(R)
  BY <1>1, NeighFrame DEF Core
<1>5. Finite(R) /\ Keys(R) /\ SubnetsOff(R)
  BY <1>1, <1>2 DEF Core, Finite, Keys, SubnetsOff
<1>6. Core(R)
  BY <1>4, <1>5 DEF Core, KernelOK
<1>7. RulesCurrent(S) => RulesCurrent(R)
  BY <1>2, <1>3 DEF RulesCurrent, RulesStay, IfRules
<1>8. SubnetsCurrent(S) => SubnetsCurrent(R)
  BY <1>2 DEF SubnetsCurrent, Subnet
<1> QED
  BY <1>0, <1>2, <1>6, <1>7, <1>8 DEF AddrKeeps

\* Removing an address keeps the kernel in order.
LEMMA RemoveAddrKeeps ==
  ASSUME NEW S \in StateType, Core(S), NEW a \in EntryType
  PROVE  AddrKeeps(RemoveAddr(S, a), S) /\ RemoveAddr(S, a).addr = S.addr \ {a}
<1> DEFINE R == RemoveAddr(S, a)
           X == S.addr \ {a}
           H == S.lost
           T == Listed(S, X, H)
<1>1. X \in SUBSET EntryType /\ IsFiniteSet(X) /\ H \in SUBSET HistoryType
  BY Typed, FS_RemoveElement DEF Core, Finite
<1>2. X = S.addr \ {a} /\ H = S.lost
  OBVIOUS
<1>3. [S EXCEPT !.addr = @ \ {a}] = T
  BY <1>1, WithAddr DEF With
<1> HIDE DEF X, H
<1>4. T \in StateType /\ Same(T, S, {"addr", "lost"}) /\ T.addr = X /\ T.lost = S.lost
  BY <1>1, <1>2, ListedFacts
<1> HIDE DEF T
<1>5. T.set = S.set
  BY <1>4, ListRest
<1>6. Keys(T) /\ SubnetsOff(T) /\ (SubnetsCurrent(S) => SubnetsCurrent(T))
  BY <1>2, <1>4, <1>5 DEF Core, Keys, SubnetsOff, SubnetsCurrent, Subnet
<1>7. R \in StateType /\ Same(R, T, KernelFields) /\ RulesStay(R, T) /\ KernelOK(R)
  <2>1. CASE a.enabled
    <3> DEFINE S2 == system_del_address(DelSubnet(DelRules(T, a), a), a)
               Q == IF a.off /\ a.v6 THEN LeaveNull(S2, a) ELSE DelNull(S2, a)
    <3>1. R = Q
      BY <1>3, <2>1 DEF RemoveAddr, drop_addr, LeaveNull
    <3>2. GoneOnly(T, S, a)
      BY <1>2, <1>4 DEF GoneOnly
    <3>3. Going(T, a)
      BY <1>4, <3>2, GoneFrom
    <3>4. Q \in StateType /\ Same(Q, T, KernelFields) /\ RulesStay(Q, T) /\ KernelOK(Q)
      BY <1>4, <3>3, GoneList
    <3> HIDE DEF Q, R
    <3> QED
      BY <3>1, <3>4
  <2>2. CASE ~a.enabled
    <3>1. R = T
      BY <1>3, <2>2 DEF RemoveAddr
    <3>2. KernelOK(T)
      BY <1>2, <1>4, <2>2, Unused
    <3> QED
      BY <1>4, <3>1, <3>2 DEF Same, RulesStay
  <2> QED
    BY <2>1, <2>2
<1> HIDE DEF R
<1>8. AddrKeeps(R, S) /\ R.addr = T.addr
  BY <1>1, <1>4, <1>6, <1>7, AddrOpCore
<1> QED
  BY <1>2, <1>4, <1>8 DEF R

\* The same for a set of addresses.
LEMMA RemoveAddrsKeeps ==
  ASSUME NEW S \in StateType, Core(S), NEW A \in SUBSET EntryType, IsFiniteSet(A)
  PROVE  LET R == RemoveAddrs(S, A)
         IN  AddrKeeps(R, S) /\ R.addr = S.addr \ A
<1> DEFINE D == {s \in StateType : AddrKeeps(s, S) /\ s.addr \subseteq S.addr /\ S.addr \ A \subseteq s.addr}
<1>1. S \in D
  BY DEF AddrKeeps, Same
<1>2. ASSUME NEW s \in D, NEW x \in A PROVE RemoveAddr(s, x) \in D /\ RemoveAddr(s, x).addr = s.addr \ {x}
  <2> DEFINE R == RemoveAddr(s, x)
  <2>1. Core(s) /\ AddrKeeps(s, S)
    BY DEF AddrKeeps
  <2>2. AddrKeeps(R, s) /\ R.addr = s.addr \ {x}
    BY <2>1, RemoveAddrKeeps
  <2> HIDE DEF R
  <2>3. AddrKeeps(R, S)
    BY <2>1, <2>2, AddrKeepsStep
  <2>4. R \in StateType
    BY <2>3 DEF AddrKeeps
  <2> QED
    BY <2>2, <2>3, <2>4 DEF R
<1> DEFINE w == [s \in D |-> s.addr \cap A]
<1>3. Drains(RemoveAddrRound(D, A), w, D, A) /\ w[S] \subseteq A
  <2> HIDE DEF D
  <2> QED
    BY <1>1, <1>2 DEF Drains, RemoveAddrRound
<1> HIDE DEF D, w
<1>4. RemoveAddrs(S, A) \in D /\ w[RemoveAddrs(S, A)] = {}
  BY <1>1, <1>3, RemoveAddrsPass
<1> QED
  BY <1>4 DEF D, w

\* An entry that is turned on or off.
OnEntry(S, a) ==
  [a EXCEPT !.enabled = TRUE, !.ptab = S.set.table, !.sub = IF WantsSubnet(S, a) THEN Subnet(S, a) ELSE None]

OffEntry(a) == [a EXCEPT !.enabled = FALSE, !.sub = None]

SetEntry(S, a, want) == IF want THEN OnEntry(S, a) ELSE OffEntry(a)

\* An entry that is turned on has the table and the subnet route of the interface.
LEMMA OnFacts ==
  ASSUME NEW S \in StateType, NEW a \in EntryType
  PROVE  LET n == OnEntry(S, a)
         IN  /\ n \in EntryType /\ AddrKey(n) = AddrKey(a) /\ n.id = a.id /\ n.left = a.left /\ n.failed = a.failed
             /\ n.off = a.off /\ n.enabled /\ n.sub = IF WantsSubnet(S, a) THEN Subnet(S, a) ELSE None
<1> DEFINE s == IF WantsSubnet(S, a) THEN Subnet(S, a) ELSE None
           t == S.set.table
<1>1. s \in Maybe(SubnetType)
  BY SubnetIn DEF Maybe
<1>2. t \in Nat
  BY Typed DEF SetType
<1>3. OnEntry(S, a) = [a EXCEPT !.enabled = TRUE, !.ptab = t, !.sub = s]
  BY DEF OnEntry
<1> HIDE DEF s, t
<1>4. [a EXCEPT !.enabled = TRUE, !.ptab = t, !.sub = s] \in EntryType
  BY <1>1, <1>2 DEF EntryType
<1>5. /\ [a EXCEPT !.enabled = TRUE, !.ptab = t, !.sub = s].id = a.id
      /\ [a EXCEPT !.enabled = TRUE, !.ptab = t, !.sub = s].left = a.left
      /\ [a EXCEPT !.enabled = TRUE, !.ptab = t, !.sub = s].failed = a.failed
      /\ [a EXCEPT !.enabled = TRUE, !.ptab = t, !.sub = s].off = a.off
      /\ [a EXCEPT !.enabled = TRUE, !.ptab = t, !.sub = s].idx = a.idx
      /\ [a EXCEPT !.enabled = TRUE, !.ptab = t, !.sub = s].v6 = a.v6
      /\ [a EXCEPT !.enabled = TRUE, !.ptab = t, !.sub = s].enabled = TRUE
      /\ [a EXCEPT !.enabled = TRUE, !.ptab = t, !.sub = s].sub = s
  BY DEF EntryType
<1> QED
  BY <1>3, <1>4, <1>5 DEF AddrKey, s

\* An entry that is turned off has no subnet route.
LEMMA OffFacts ==
  ASSUME NEW a \in EntryType
  PROVE  LET n == OffEntry(a)
         IN  n \in EntryType /\ AddrKey(n) = AddrKey(a) /\ ~n.enabled /\ n.sub = None
<1>1. OffEntry(a) \in EntryType
  BY DEF EntryType, OffEntry, Maybe
<1>2. /\ OffEntry(a).id = a.id /\ OffEntry(a).off = a.off /\ OffEntry(a).idx = a.idx /\ OffEntry(a).v6 = a.v6
      /\ OffEntry(a).enabled = FALSE /\ OffEntry(a).sub = None
  BY DEF EntryType, OffEntry
<1> QED
  BY <1>1, <1>2 DEF AddrKey

\* Turning one address on or off keeps the kernel in order.
LEMMA SetAddrKeeps ==
  ASSUME NEW S \in StateType, Core(S), NEW a \in EntryType, NEW want \in BOOLEAN,
         \A m \in S.addr : AddrKey(m) = AddrKey(a) => m \in {a, SetEntry(S, a, want)}
  PROVE  LET R == SetAddr(S, a, want)
         IN  /\ AddrKeeps(R, S)
             /\ R.addr = IF a.enabled = want THEN S.addr ELSE (S.addr \ {a}) \cup {SetEntry(S, a, want)}
<1>1. CASE a.enabled = want
  BY <1>1 DEF SetAddr, AddrKeeps, Same
<1>2. CASE a.enabled # want
  <2> DEFINE R == SetAddr(S, a, want)
             n == SetEntry(S, a, want)
             X == (S.addr \ {a}) \cup {n}
             H == IF want /\ AddrRefused(S, a) THEN S.lost \cup {<<"addr", a.id>>} ELSE S.lost
             T == Listed(S, X, H)
  <2>0. a.enabled \in BOOLEAN
    BY DEF EntryType
  <2>1. R = IF want THEN AddRules(AddNull(AddSubnet(system_add_address(T, n), n), n), n)
            ELSE DelRules(DelNull(system_del_address(DelSubnet(T, a), a), a), a)
    BY <1>2 DEF SetAddr, SetEntry, OnEntry, OffEntry, Listed
  <2>2. n \in EntryType /\ AddrKey(n) = AddrKey(a) /\ n.enabled = want /\ n # a
    <3>1. CASE want
      <4>1. n = OnEntry(S, a)
        BY <3>1 DEF SetEntry
      <4>2. OnEntry(S, a) \in EntryType /\ AddrKey(OnEntry(S, a)) = AddrKey(a) /\ OnEntry(S, a).enabled
        BY OnFacts
      <4> HIDE DEF n
      <4>3. n \in EntryType /\ AddrKey(n) = AddrKey(a) /\ n.enabled
        BY <4>1, <4>2
      <4>4. n.enabled \in BOOLEAN
        BY <4>3 DEF EntryType
      <4> QED
        BY <1>2, <2>0, <3>1, <4>3, <4>4
    <3>2. CASE ~want
      <4>1. n = OffEntry(a)
        BY <3>2 DEF SetEntry
      <4> QED
        BY <1>2, <2>0, <3>2, <4>1, OffFacts DEF EntryType
    <3> QED
      BY <3>1, <3>2
  <2>3. /\ want => n.id = a.id /\ n.left = a.left /\ n.failed = a.failed /\ n.off = a.off
                   /\ n.sub = IF WantsSubnet(S, a) THEN Subnet(S, a) ELSE None
        /\ ~want => n.sub = None
    BY OnFacts, OffFacts DEF SetEntry
  <2>4. \A m \in S.addr : AddrKey(m) = AddrKey(a) => m \in {a, n}
    OBVIOUS
  <2> HIDE DEF R, n
  <2>5. X \in SUBSET EntryType /\ IsFiniteSet(X)
    BY <2>2, Typed, FS_RemoveElement, FS_AddElement DEF Core, Finite
  <2>6. X = (S.addr \ {a}) \cup {n}
    OBVIOUS
  <2>7. H \in SUBSET HistoryType /\ S.lost \subseteq H /\ (want /\ AddrRefused(S, a) => <<"addr", a.id>> \in H)
    <3>1. <<"addr", a.id>> \in HistoryType
      BY HistoryIn DEF EntryType, Kinds
    <3> QED
      BY <3>1, Typed
  <2> HIDE DEF X, H
  <2>8. T \in StateType /\ Same(T, S, {"addr", "lost"}) /\ T.addr = X /\ T.lost = H
    BY <2>5, <2>7, ListedFacts
  <2> HIDE DEF T
  <2>9. T.set = S.set /\ T.bad = S.bad
    BY <2>8, ListRest
  <2>10. Keys(T)
    <3> SUFFICES ASSUME NEW b \in X, NEW c \in X, AddrKey(b) = AddrKey(c) PROVE b = c
      BY <2>8 DEF Keys
    <3>1. CASE b = n /\ c # n
      BY <2>2, <2>4, <2>6, <3>1
    <3>2. CASE c = n /\ b # n
      BY <2>2, <2>4, <2>6, <3>2
    <3>3. CASE b # n /\ c # n
      BY <2>6, <3>3 DEF Core, Keys
    <3> QED
      BY <3>1, <3>2, <3>3
  <2>11. SubnetsOff(T)
    BY <2>2, <2>3, <2>6, <2>8 DEF Core, SubnetsOff
  <2>12. SubnetsCurrent(S) => SubnetsCurrent(T)
    BY <2>2, <2>3, <2>6, <2>8, <2>9 DEF SubnetsCurrent, Subnet
  <2>13. R \in StateType /\ Same(R, T, KernelFields) /\ RulesStay(R, T) /\ KernelOK(R)
    <3>1. CASE want
      <4>1. ComeOnly(T, S, n)
        BY <1>2, <2>0, <2>2, <2>6, <2>8, <3>1 DEF ComeOnly
      <4>2. n.sub = IF WantsSubnet(T, n) THEN Subnet(T, n) ELSE None
        BY <2>3, <2>9, <3>1 DEF WantsSubnet, Subnet
      <4>3. AddrRefused(T, n) => <<"addr", n.id>> \in T.lost
        BY <2>3, <2>7, <2>8, <2>9, <3>1 DEF AddrRefused, Ended
      <4>4. Coming(T, n)
        BY <2>7, <2>8, <4>1, <4>2, <4>3, ComeTo
      <4> QED
        BY <2>1, <2>2, <2>8, <3>1, <4>4, Come
    <3>2. CASE ~want
      <4>1. GoneOnly(T, S, a)
        BY <1>2, <2>0, <2>2, <2>6, <2>8, <3>2 DEF GoneOnly
      <4>2. Going(T, a)
        BY <2>7, <2>8, <4>1, GoneFrom
      <4> QED
        BY <2>1, <2>8, <3>2, <4>2, GoneOff
    <3> QED
      BY <3>1, <3>2
  <2>14. AddrKeeps(R, S) /\ R.addr = T.addr
    BY <2>5, <2>8, <2>10, <2>11, <2>12, <2>13, AddrOpCore
  <2> QED
    BY <1>2, <2>6, <2>8, <2>14 DEF R, n
<1> QED
  BY <1>1, <1>2

\* After the pass every address is on or off as wanted.
LEMMA SetAddrsKeeps ==
  ASSUME NEW S \in StateType, Core(S), NEW want \in BOOLEAN
  PROVE  LET R == SetAddrs(S, want)
         IN  AddrKeeps(R, S) /\ \A a \in R.addr : a.enabled = want
<1> DEFINE Known(s) == \A y \in s.addr : \E x \in S.addr : y \in {x, SetEntry(S, x, want)}
           D == {s \in StateType : AddrKeeps(s, S) /\ Known(s)}
           T == S.addr
<1>1. T \in SUBSET EntryType /\ IsFiniteSet(T)
  BY Typed DEF Core, Finite
<1>2. S \in D
  BY DEF AddrKeeps, Same
<1>3. ASSUME NEW s \in D, NEW x \in T
      PROVE  /\ SetAddr(s, x, want) \in D
             /\ \A n \in SetAddr(s, x, want).addr : (n \in s.addr /\ n # x) \/ n.enabled = want
  <2> DEFINE R == SetAddr(s, x, want)
             t == SetEntry(s, x, want)
  <2>1. Core(s) /\ AddrKeeps(s, S)
    BY DEF AddrKeeps
  <2>2. s.set = S.set
    BY <2>1 DEF AddrKeeps, Same, Fields, AddrFields, KernelFields
  <2>3. \A y : SetEntry(s, y, want) = SetEntry(S, y, want)
    BY <2>2 DEF SetEntry, OnEntry, WantsSubnet, Subnet
  <2>4. \A y \in T : AddrKey(SetEntry(S, y, want)) = AddrKey(y) /\ SetEntry(S, y, want).enabled = want
    <3> SUFFICES ASSUME NEW y \in T
                 PROVE  AddrKey(SetEntry(S, y, want)) = AddrKey(y) /\ SetEntry(S, y, want).enabled = want
      OBVIOUS
    <3>1. y \in EntryType
      BY <1>1
    <3>2. CASE want
      <4>1. OnEntry(S, y) \in EntryType /\ OnEntry(S, y).enabled /\ AddrKey(OnEntry(S, y)) = AddrKey(y)
        BY <3>1, OnFacts
      <4> QED
        BY <3>2, <4>1 DEF SetEntry, EntryType
    <3>3. CASE ~want
      <4>1. OffEntry(y) \in EntryType /\ ~OffEntry(y).enabled /\ AddrKey(OffEntry(y)) = AddrKey(y)
        BY <3>1, OffFacts
      <4> QED
        BY <3>3, <4>1 DEF SetEntry, EntryType
    <3> QED
      BY <3>2, <3>3
  <2>5. \A m \in s.addr : AddrKey(m) = AddrKey(x) => m \in {x, t}
    <3> SUFFICES ASSUME NEW m \in s.addr, AddrKey(m) = AddrKey(x) PROVE m \in {x, t}
      OBVIOUS
    <3>1. PICK y \in S.addr : m \in {y, SetEntry(S, y, want)}
      OBVIOUS
    <3>2. AddrKey(y) = AddrKey(x)
      BY <2>4, <3>1
    <3>3. y = x
      BY <3>2 DEF Core, Keys
    <3> QED
      BY <2>3, <3>1, <3>3
  <2>6. AddrKeeps(R, s) /\ R.addr = IF x.enabled = want THEN s.addr ELSE (s.addr \ {x}) \cup {t}
    BY <1>1, <2>1, <2>5, SetAddrKeeps
  <2>7. t = SetEntry(S, x, want) /\ t.enabled = want
    BY <2>3, <2>4
  <2> HIDE DEF R, t
  <2>8. AddrKeeps(R, S)
    BY <2>1, <2>6, AddrKeepsStep
  <2>9. R \in StateType
    BY <2>8 DEF AddrKeeps
  <2>10. Known(R)
    BY <2>6, <2>7
  <2>11. \A n \in R.addr : (n \in s.addr /\ n # x) \/ n.enabled = want
    BY <2>6, <2>7
  <2> QED
    BY <2>8, <2>9, <2>10, <2>11 DEF R
<1> DEFINE w == [s \in D |-> {n \in s.addr : n.enabled # want}]
<1>4. Drains(SetAddrRound(D, T, want), w, D, T) /\ w[S] \subseteq T
  <2> HIDE DEF D
  <2> QED
    BY <1>2, <1>3 DEF Drains, SetAddrRound
<1> HIDE DEF D, w
<1>5. SetAddrs(S, want) \in D /\ w[SetAddrs(S, want)] = {}
  BY <1>1, <1>2, <1>4, SetAddrsPass
<1> QED
  BY <1>5 DEF D, w

\* An address as announced, with its place.
DatumType == [idx : Nat, id : STRING, v6 : BOOLEAN, off : BOOLEAN, left : Maybe(Nat), ptp : Nat]

\* An address as announced.
LEMMA NewAddrFacts ==
  ASSUME NEW S \in StateType, NEW d \in DatumType
  PROVE  LET n == NewAddr(S, d)
         IN  /\ n \in EntryType /\ AddrKey(n) = AddrKey(d) /\ n.left = d.left /\ n.id = d.id /\ n.off = d.off
             /\ n.enabled /\ n.sub = None
<1>1. S.set.table \in Nat
  BY Typed DEF SetType
<1>2. NewAddr(S, d) \in EntryType
  BY <1>1 DEF NewAddr, EntryType, DatumType, Maybe
<1>3. AddrKey(NewAddr(S, d)) = AddrKey(d)
  BY DEF NewAddr, AddrKey
<1> QED
  BY <1>2, <1>3 DEF NewAddr

\* The entry put_addr() makes of it; p says whether it is passed on to the kernel.
Entry(S, n, p) ==
  [n EXCEPT !.failed = p /\ AddrRefused(S, n), !.sub = IF p /\ WantsSubnet(S, n) THEN Subnet(S, n) ELSE None]

\* An address as it goes into the list.
LEMMA EntryFacts ==
  ASSUME NEW S \in StateType, NEW n \in EntryType, NEW p \in BOOLEAN
  PROVE  LET e == Entry(S, n, p)
         IN  /\ e \in EntryType /\ AddrKey(e) = AddrKey(n) /\ e.id = n.id /\ e.left = n.left /\ e.off = n.off
             /\ e.enabled = n.enabled /\ e.ptab = n.ptab
             /\ e.failed <=> (p /\ AddrRefused(S, n))
             /\ e.sub = IF p /\ WantsSubnet(S, n) THEN Subnet(S, n) ELSE None
<1> DEFINE s == IF p /\ WantsSubnet(S, n) THEN Subnet(S, n) ELSE None
           f == p /\ AddrRefused(S, n)
<1>1. s \in Maybe(SubnetType) /\ f \in BOOLEAN
  BY SubnetIn DEF Maybe, AddrRefused, Ended
<1>3. Entry(S, n, p) = [n EXCEPT !.failed = f, !.sub = s]
  BY DEF Entry
<1> HIDE DEF s, f
<1>4. [n EXCEPT !.failed = f, !.sub = s] \in EntryType
  BY <1>1 DEF EntryType
<1>5. /\ [n EXCEPT !.failed = f, !.sub = s].id = n.id
      /\ [n EXCEPT !.failed = f, !.sub = s].left = n.left
      /\ [n EXCEPT !.failed = f, !.sub = s].off = n.off
      /\ [n EXCEPT !.failed = f, !.sub = s].idx = n.idx
      /\ [n EXCEPT !.failed = f, !.sub = s].v6 = n.v6
      /\ [n EXCEPT !.failed = f, !.sub = s].ptab = n.ptab
      /\ [n EXCEPT !.failed = f, !.sub = s].enabled = n.enabled
      /\ [n EXCEPT !.failed = f, !.sub = s].failed = f
      /\ [n EXCEPT !.failed = f, !.sub = s].sub = s
  BY DEF EntryType
<1> QED
  BY <1>3, <1>4, <1>5 DEF AddrKey, s, f

\* A new address keeps the kernel in order.
LEMMA PutNewKeeps ==
  ASSUME NEW S \in StateType, Core(S), NEW n \in EntryType, n.enabled,
         \A b \in S.addr : AddrKey(b) # AddrKey(n)
  PROVE  AddrKeeps(put_addr(S, n, FALSE, FALSE), S)
<1> DEFINE R == put_addr(S, n, FALSE, FALSE)
           e == Entry(S, n, TRUE)
           X == S.addr \cup {e}
           H == S.lost
           T == Listed(S, X, H)
<1>0. e = [n EXCEPT !.failed = (~FALSE \/ FALSE) /\ AddrRefused(S, n),
                    !.sub = IF (~FALSE \/ FALSE) /\ WantsSubnet(S, n) THEN Subnet(S, n) ELSE None]
  BY DEF Entry
<1>1. /\ e \in EntryType /\ AddrKey(e) = AddrKey(n) /\ e.id = n.id /\ e.left = n.left /\ e.off = n.off
      /\ e.enabled /\ (e.failed <=> AddrRefused(S, n))
      /\ e.sub = IF WantsSubnet(S, n) THEN Subnet(S, n) ELSE None
  BY EntryFacts, ZenonT(60)
<1> HIDE DEF e
<1>2. X \in SUBSET EntryType /\ IsFiniteSet(X) /\ H \in SUBSET HistoryType
  BY <1>1, Typed, FS_AddElement DEF Core, Finite
<1>3. X = S.addr \cup {e} /\ H = S.lost
  OBVIOUS
<1>4. [S EXCEPT !.addr = @ \cup {e}] = T
  BY <1>2, WithAddr DEF With
<1>5. R = AddRules(AddNull(AddSubnet(system_add_address(T, e), e), e), e)
  <2> HIDE DEF T
  <2> QED
    BY <1>0, <1>4 DEF put_addr
<1> HIDE DEF X, H, R
<1>6. T \in StateType /\ Same(T, S, {"addr", "lost"}) /\ T.addr = X /\ T.lost = S.lost
  BY <1>2, <1>3, ListedFacts
<1> HIDE DEF T
<1>7. T.set = S.set /\ T.bad = S.bad
  BY <1>6, ListRest
<1>8. Keys(T)
  BY <1>1, <1>3, <1>6 DEF Core, Keys
<1>9. SubnetsOff(T)
  BY <1>1, <1>3, <1>6 DEF Core, SubnetsOff
<1>10. SubnetsCurrent(S) => SubnetsCurrent(T)
  BY <1>1, <1>3, <1>6, <1>7 DEF SubnetsCurrent, Subnet
<1>11. ComeOnly(T, S, e)
  BY <1>1, <1>3, <1>6 DEF ComeOnly
<1>12. e.sub = IF WantsSubnet(T, e) THEN Subnet(T, e) ELSE None
  BY <1>1, <1>7 DEF WantsSubnet, Subnet
<1>13. AddrRefused(T, e) => e.failed
  BY <1>1, <1>7 DEF AddrRefused, Ended
<1>14. Coming(T, e)
  BY <1>6, <1>11, <1>12, <1>13, ComeTo
<1>15. R \in StateType /\ Same(R, T, KernelFields) /\ RulesStay(R, T) /\ KernelOK(R)
  BY <1>1, <1>5, <1>6, <1>14, Come
<1>16. AddrKeeps(R, S)
  BY <1>2, <1>6, <1>8, <1>9, <1>10, <1>15, AddrOpCore
<1> QED
  BY <1>16 DEF R

\* Losing track of objects.
Forget(S, O, H) == [S EXCEPT !.orphans = @ \cup O, !.lost = @ \cup H]

\* A state with more in its histories.
LEMMA ForgetFacts ==
  ASSUME NEW S \in StateType, NEW O \in SUBSET HistoryType, NEW H \in SUBSET HistoryType
  PROVE  LET R == Forget(S, O, H)
         IN  /\ R \in StateType /\ Same(R, S, {"orphans", "lost"})
             /\ S.orphans \subseteq R.orphans /\ O \subseteq R.orphans /\ S.lost \subseteq R.lost /\ H \subseteq R.lost
<1> DEFINE P == S.orphans \cup O
           Q == S.lost \cup H
           R == [S EXCEPT !.orphans = P, !.lost = Q]
<1>1. P \in SUBSET HistoryType /\ Q \in SUBSET HistoryType
  BY Typed
<1>2. Forget(S, O, H) = R
  BY DEF Forget
<1> HIDE DEF P, Q
<1>3. R \in StateType
  BY <1>1 DEF StateType
<1>4. Same(R, S, {"orphans", "lost"}) /\ R.orphans = P /\ R.lost = Q
  BY Typed DEF Same, Fields
<1> HIDE DEF R
<1> QED
  BY <1>2, <1>3, <1>4 DEF P, Q

\* The histories cover what is wrong.
Covered(E, N, F, G, K, O, H) ==
  /\ \A a \in E : <<"addr", a.id>> \in H
  /\ \A i \in N : <<"null", i>> \in H
  /\ Rules(F) \subseteq H /\ Rules(G) \subseteq O
  /\ \A k \in K : <<"route", k>> \in O

\* What is missing or too many is no fault once the histories have it.
LEMMA Forgotten ==
  ASSUME NEW S \in StateType, NEW O \in SUBSET HistoryType, NEW H \in SUBSET HistoryType,
         NEW E, NEW N, NEW F, NEW G, NEW K, Covered(E, N, F, G, K, O, H),
         AddrBut(S, E, {}), NullBut(S, N, {}), RulesBut(S, F, G), RoutesBut(S, {}, K)
  PROVE  LET R == Forget(S, O, H)
         IN  R \in StateType /\ Same(R, S, KernelFields) /\ RulesStay(R, S) /\ KernelOK(R)
<1> DEFINE R == Forget(S, O, H)
<1>1. /\ R \in StateType /\ Same(R, S, {"orphans", "lost"})
      /\ S.orphans \subseteq R.orphans /\ O \subseteq R.orphans /\ S.lost \subseteq R.lost /\ H \subseteq R.lost
  BY ForgetFacts
<1> HIDE DEF R
<1>2. Same(R, S, KernelFields) /\ R.addr = S.addr /\ \A L \in RouteLists : R[L] = S[L]
  BY <1>1, KernelSame DEF KernelFields
<1>3. /\ R.kaddr = S.kaddr /\ R.knull = S.knull /\ R.krule = S.krule /\ R.kroute = S.kroute
      /\ R.policy_rules_set = S.policy_rules_set
  BY <1>1 DEF Same, Fields
<1>4. RulesStay(R, S)
  BY <1>1, <1>3 DEF RulesStay
<1>5. AddrOK(R)
  BY <1>1, <1>2, <1>3 DEF AddrOK, AddrBut, Covered
<1>6. NullOK(R)
  BY <1>1, <1>2, <1>3 DEF NullOK, NullBut, Covered
<1>7. (\A x \in F : <<"rule", x>> \in R.lost) /\ (\A x \in G : <<"rule", x>> \in R.orphans)
  BY <1>1 DEF Covered, Rules
<1>8. RulesOK(R)
  BY <1>1, <1>2, <1>3, <1>7 DEF RulesOK, RulesBut
<1>9. Enabled(R) = Enabled(S) /\ Needed(R) = Needed(S)
  BY <1>2, EnabledSame
<1>10. RoutesOK(R)
  BY <1>1, <1>3, <1>9 DEF RoutesOK, RoutesBut, Covered, Has, Owns
<1> QED
  BY <1>1, <1>2, <1>4, <1>5, <1>6, <1>8, <1>10 DEF KernelOK, R

\* What netifd loses track of when it keeps an entry.
LeftOver(S, o, n, replace) ==
  Rules(AddrRules(o) \ AddrRules(n))
    \cup (IF o.sub # None /\ ~(replace /\ WantsSubnet(S, n)) THEN {<<"route", o.sub>>} ELSE {})

Missing(o, n, replace) ==
  Rules(IF o.enabled THEN AddrRules(n) \ AddrRules(o) ELSE AddrRules(n))
    \cup (IF o.enabled THEN {} ELSE {<<"null", o.id>>} \cup (IF replace THEN {} ELSE {<<"addr", o.id>>}))

\* What a kept entry leaves behind or lacks can be recorded.
LEMMA HistoriesTyped ==
  ASSUME NEW S \in StateType, NEW o \in EntryType, NEW n \in EntryType, NEW replace
  PROVE  LeftOver(S, o, n, replace) \in SUBSET HistoryType /\ Missing(o, n, replace) \in SUBSET HistoryType
<1>1. Rules(AddrRules(o)) \in SUBSET HistoryType /\ Rules(AddrRules(n)) \in SUBSET HistoryType
  BY RulesTyped
<1>2. <<"null", o.id>> \in HistoryType /\ <<"addr", o.id>> \in HistoryType
  BY HistoryIn DEF EntryType, Kinds
<1>3. o.sub # None => <<"route", o.sub>> \in HistoryType
  <2>1. o.sub # None => o.sub \in KRouteType
    BY SubnetTyped DEF EntryType, Maybe
  <2> QED
    BY <2>1, HistoryIn DEF Kinds
<1>4. LeftOver(S, o, n, replace) \in SUBSET HistoryType
  BY <1>1, <1>3 DEF LeftOver, Rules
<1>5. Missing(o, n, replace) \in SUBSET HistoryType
  BY <1>1, <1>2 DEF Missing, Rules
<1> QED
  BY <1>4, <1>5

\* An entry that is kept.
Kept(S, o, n, replace) ==
  LET e == Entry(S, n, replace)
      T == Listed(S, (S.addr \ {o}) \cup {e}, S.lost)
      S2 == IF replace THEN AddSubnet(system_add_address(T, e), e) ELSE T
  IN  Forget(S2, LeftOver(S, o, n, replace), Missing(o, n, replace))

\* An address that is announced again and kept leaves the kernel in order, but for what is recorded.
LEMMA KeptKeeps ==
  ASSUME NEW S \in StateType, Core(S), SubnetsCurrent(S), NEW o \in S.addr, ~o.failed,
         NEW n \in EntryType, n.enabled, AddrKey(n) = AddrKey(o), NEW replace \in BOOLEAN,
         ~replace => n.left = o.left
  PROVE  AddrKeeps(Kept(S, o, n, replace), S)
<1> DEFINE e == Entry(S, n, replace)
           X == (S.addr \ {o}) \cup {e}
           T == Listed(S, X, S.lost)
           S2 == IF replace THEN AddSubnet(system_add_address(T, e), e) ELSE T
           P == LeftOver(S, o, n, replace)
           H == Missing(o, n, replace)
           R == Forget(S2, P, H)
<1>0. Kept(S, o, n, replace) = R
  BY DEF Kept
<1>1. o \in EntryType /\ n.id = o.id /\ n.off = o.off
  BY Typed DEF AddrKey
<1>2. /\ e \in EntryType /\ AddrKey(e) = AddrKey(o) /\ e.id = o.id /\ e.left = n.left /\ e.off = o.off
      /\ e.enabled /\ e.ptab = n.ptab /\ (e.failed <=> (replace /\ AddrRefused(S, n)))
      /\ e.sub = IF replace /\ WantsSubnet(S, n) THEN Subnet(S, n) ELSE None
  BY <1>1, EntryFacts
<1>3. P \in SUBSET HistoryType /\ H \in SUBSET HistoryType
  BY <1>1, HistoriesTyped
<1> HIDE DEF e, P, H
<1>4. X \in SUBSET EntryType /\ IsFiniteSet(X) /\ S.lost \in SUBSET HistoryType
  BY <1>2, Typed, FS_RemoveElement, FS_AddElement DEF Core, Finite
<1>5. X = (S.addr \ {o}) \cup {e}
  OBVIOUS
<1> HIDE DEF X
<1>6. T \in StateType /\ Same(T, S, {"addr", "lost"}) /\ T.addr = X /\ T.lost = S.lost
  BY <1>4, ListedFacts
<1> HIDE DEF T
<1>7. /\ T.kaddr = S.kaddr /\ T.kroute = S.kroute /\ T.knull = S.knull /\ T.krule = S.krule
      /\ T.orphans = S.orphans /\ T.policy_rules_set = S.policy_rules_set /\ T.set = S.set /\ T.bad = S.bad
      /\ Routes(T) = Routes(S)
  BY <1>6, ListRest
<1>8. \A b \in X : b = e \/ (b \in S.addr /\ b # o)
  BY <1>5
<1>9. e \in X /\ \A b \in S.addr : b = o \/ b \in X
  BY <1>5
<1>10. Keys(T)
  <2> SUFFICES ASSUME NEW b \in X, NEW c \in X, AddrKey(b) = AddrKey(c) PROVE b = c
    BY <1>6 DEF Keys
  <2> QED
    BY <1>2, <1>8 DEF Core, Keys
<1>11. SubnetsOff(T)
  BY <1>2, <1>6, <1>8 DEF Core, SubnetsOff
<1>12. SubnetsCurrent(T)
  BY <1>1, <1>2, <1>6, <1>7, <1>8 DEF SubnetsCurrent, Subnet
<1> DEFINE EA == IF replace \/ o.enabled THEN {} ELSE {e}
           EN == IF o.enabled THEN {} ELSE {o.id}
           EF == IF o.enabled THEN AddrRules(n) \ AddrRules(o) ELSE AddrRules(n)
           EG == AddrRules(o) \ AddrRules(n)
           EK == IF o.sub # None /\ ~(replace /\ WantsSubnet(S, n)) THEN {o.sub} ELSE {}
<1>13. AddrBut(T, {e}, {}) /\ (~replace => AddrBut(T, EA, {}))
  <2>1. \A x \in T.kaddr : <<"addr", x.id>> \in T.orphans \/ \E a \in T.addr : a.id = x.id /\ a.enabled
    BY <1>2, <1>6, <1>7, <1>9 DEF Core, AddrOK
  <2>2. \A b \in T.addr : (b # e /\ b.enabled /\ ~b.failed /\ ~Ended(b) /\ <<"addr", b.id>> \notin T.lost) =>
          [id |-> b.id, left |-> b.left] \in T.kaddr
    BY <1>6, <1>7, <1>8 DEF Core, AddrOK
  <2>3. (~replace /\ o.enabled /\ ~Ended(e) /\ <<"addr", e.id>> \notin T.lost) => [id |-> e.id, left |-> e.left] \in T.kaddr
    BY <1>2, <1>6, <1>7 DEF Core, AddrOK, Ended
  <2> QED
    BY <2>1, <2>2, <2>3 DEF AddrBut
<1>14. NullBut(T, EN, {})
  <2>1. \A x \in T.knull : <<"null", x>> \in T.orphans \/ \E a \in T.addr : a.id = x /\ a.off /\ a.enabled
    BY <1>2, <1>6, <1>7, <1>9 DEF Core, NullOK
  <2>2. \A b \in T.addr : (b.off /\ b.enabled /\ <<"null", b.id>> \notin T.lost) => b.id \in EN \/ b.id \in T.knull
    BY <1>2, <1>6, <1>7, <1>8 DEF Core, NullOK
  <2> QED
    BY <2>1, <2>2 DEF NullBut
<1>15. RulesBut(T, EF, EG)
  <2>0. AddrRules(e) = AddrRules(n)
    BY <1>1, <1>2 DEF AddrRules
  <2>1. \A b \in T.addr : b.enabled => \A x \in AddrRules(b) : x \in EF \/ x \in T.krule \/ <<"rule", x>> \in T.lost
    BY <1>6, <1>7, <1>8, <2>0 DEF Core, RulesOK
  <2>2. \A x \in T.krule : \/ x \in EG
                           \/ <<"rule", x>> \in T.orphans
                           \/ \E a \in T.addr : a.enabled /\ x \in AddrRules(a)
                           \/ T.policy_rules_set /\ x \in IfRuleType
    BY <1>2, <1>6, <1>7, <1>9, <2>0 DEF Core, RulesOK
  <2> QED
    BY <2>1, <2>2 DEF RulesBut
<1>16. RoutesBut(T, Sub(e), EK)
  <2>1. \A k \in Needed(T) : k \in Needed(S) \/ k \in Sub(e)
    BY <1>6, <1>7, <1>8 DEF Needed, Sub
  <2>2. Subnet(S, n) # None
    BY SubnetIn, IpAssumption
  <2>3. o.enabled /\ o.sub # None => o.sub = Subnet(S, n)
    BY <1>1 DEF SubnetsCurrent, Subnet
  <2>4. o.enabled /\ o.sub # None => o.sub \in EK \/ (e.sub # None /\ e.sub = o.sub)
    BY <1>2, <2>2, <2>3
  <2> HIDE DEF EK
  <2>5. \A k \in Enabled(S) : k \in Enabled(T) \/ k \in EK
    BY <1>2, <1>6, <1>7, <1>9, <2>4 DEF Enabled
  <2> QED
    BY <1>6, <1>7, <2>1, <2>5 DEF RoutesBut, Core, RoutesOK, Has, Owns
<1>17. Covered(EA, EN, EF, EG, EK, P, H)
  <2>1. Rules(EF) \subseteq H /\ Rules(EG) \subseteq P
    BY DEF H, P, Missing, LeftOver
  <2>2. (\A a \in EA : <<"addr", a.id>> \in H) /\ (\A i \in EN : <<"null", i>> \in H)
    BY <1>2 DEF H, Missing
  <2>3. \A k \in EK : <<"route", k>> \in P
    BY DEF P, LeftOver
  <2> QED
    BY <2>1, <2>2, <2>3 DEF Covered
<1>18. EA \subseteq {e} /\ (replace => EA = {}) /\ (replace /\ WantsSubnet(S, n) => EK = {})
  OBVIOUS
<1> HIDE DEF EA, EN, EF, EG, EK
<1>19. /\ S2 \in StateType /\ Same(S2, T, KernelFields) /\ RulesStay(S2, T)
       /\ AddrBut(S2, EA, {}) /\ NullBut(S2, EN, {}) /\ RulesBut(S2, EF, EG) /\ RoutesBut(S2, {}, EK)
  <2>1. CASE ~replace
    <3>1. S2 = T /\ Sub(e) = {}
      BY <1>2, <2>1 DEF Sub
    <3> QED
      BY <1>6, <1>13, <1>14, <1>15, <1>16, <2>1, <3>1 DEF Same, RulesStay
  <2>2. CASE replace
    <3> DEFINE T1 == system_add_address(T, e)
               T2 == AddSubnet(T1, e)
    <3>0. S2 = T2
      BY <2>2
    <3>1. AddrRefused(T, e) => e.failed
      BY <1>1, <1>2, <1>7, <2>2 DEF AddrRefused, Ended
    <3>2. /\ T1 \in StateType /\ Same(T1, T, KernelFields) /\ NullSame(T1, T) /\ RuleSame(T1, T) /\ RouteSame(T1, T)
          /\ RulesStay(T1, T) /\ AddrOK(T1)
      BY <1>2, <1>6, <1>9, <1>13, <3>1, AddAddressStep
    <3> HIDE DEF T1
    <3>3. NullBut(T1, EN, {}) /\ RulesBut(T1, EF, EG) /\ RoutesBut(T1, Sub(e), EK) /\ AddrBut(T1, {}, {})
      BY <1>14, <1>15, <1>16, <3>2, NullButSame, RulesButSame, RoutesButSame, AllThere
    <3>4. T1.addr = X /\ T1.set = S.set
      BY <1>6, <1>7, <3>2, KernelStep
    <3>5. e.sub = IF WantsSubnet(T1, e) THEN Subnet(T1, e) ELSE None
      BY <1>1, <1>2, <2>2, <3>4 DEF WantsSubnet, Subnet
    <3>6. e \in T1.addr
      BY <1>9, <3>4
    <3>7. /\ T2 \in StateType /\ Same(T2, T1, KernelFields) /\ AddrSame(T2, T1) /\ NullSame(T2, T1) /\ RuleSame(T2, T1)
          /\ RulesStay(T2, T1) /\ (RoutesBut(T1, Sub(e), {}) => RoutesOK(T2))
      BY <1>2, <3>2, <3>5, <3>6, AddSubnetStep
    <3>8. RoutesBut(T2, {}, EK)
      <4>1. CASE WantsSubnet(S, n)
        BY <1>18, <2>2, <3>3, <3>7, <4>1, AllThere
      <4>2. CASE ~WantsSubnet(S, n)
        <5>1. ~WantsSubnet(T1, e) /\ Sub(e) = {}
          BY <1>1, <1>2, <3>4, <4>2 DEF WantsSubnet, Sub
        <5>2. T2 = T1
          BY <5>1 DEF AddSubnet
        <5> QED
          BY <3>3, <5>1, <5>2
      <4> QED
        BY <4>1, <4>2
    <3> HIDE DEF T2
    <3>9. NullBut(T2, EN, {}) /\ RulesBut(T2, EF, EG) /\ AddrBut(T2, {}, {})
      BY <3>3, <3>7, NullButSame, RulesButSame, AddrButSame
    <3>10. Same(T2, T, KernelFields) /\ RulesStay(T2, T)
      BY <3>2, <3>7, SameStep, StaySame
    <3> QED
      BY <1>18, <2>2, <3>0, <3>7, <3>8, <3>9, <3>10
  <2> QED
    BY <2>1, <2>2
<1> HIDE DEF S2
<1>20. R \in StateType /\ Same(R, S2, KernelFields) /\ RulesStay(R, S2) /\ KernelOK(R)
  BY <1>3, <1>17, <1>19, Forgotten
<1> HIDE DEF R
<1>21. Same(R, T, KernelFields) /\ RulesStay(R, T)
  BY <1>19, <1>20, SameStep, StaySame
<1>22. AddrKeeps(R, S)
  BY <1>4, <1>6, <1>10, <1>11, <1>12, <1>20, <1>21, AddrOpCore
<1> QED
  BY <1>0, <1>22

\* put_addr() of a kept entry.
LEMMA PutKept ==
  ASSUME NEW S \in StateType, NEW o \in EntryType, NEW n \in EntryType, NEW replace \in BOOLEAN
  PROVE  LET e == Entry(S, n, replace)
             T == Listed(S, (S.addr \ {o}) \cup {e}, S.lost)
         IN  put_addr([S EXCEPT !.addr = @ \ {o}], n, TRUE, replace)
               = IF replace THEN AddSubnet(system_add_address(T, e), e) ELSE T
<1> DEFINE e == Entry(S, n, replace)
           A == S.addr \ {o}
           S1 == With(S, "addr", A)
           X == A \cup {e}
           T == Listed(S, X, S.lost)
           a == [n EXCEPT !.failed = (~TRUE \/ replace) /\ AddrRefused(S1, n),
                          !.sub = IF (~TRUE \/ replace) /\ WantsSubnet(S1, n) THEN Subnet(S1, n) ELSE None]
<1>1. [S EXCEPT !.addr = @ \ {o}] = S1
  BY DEF With
<1>2. S1.set = S.set /\ S1.bad = S.bad /\ S1.addr = A
  BY DEF With, StateType
<1>3. a = e
  <2> HIDE DEF S1
  <2>1. AddrRefused(S1, n) = AddrRefused(S, n) /\ WantsSubnet(S1, n) = WantsSubnet(S, n) /\ Subnet(S1, n) = Subnet(S, n)
    BY <1>2 DEF AddrRefused, WantsSubnet, Subnet
  <2> QED
    BY <2>1 DEF Entry
<1>4. e \in EntryType
  BY EntryFacts
<1> HIDE DEF e
<1>5. X \in SUBSET EntryType
  BY <1>4, Typed
<1>6. [S1 EXCEPT !.addr = @ \cup {e}] = With(S, "addr", X)
  BY <1>2 DEF With, StateType
<1>7. With(S, "addr", X) = T
  <2> HIDE DEF X
  <2> QED
    BY <1>5, WithAddr
<1> HIDE DEF T, S1, X, A, a
<1>8. put_addr(S1, n, TRUE, replace) =
        LET S3 == [S1 EXCEPT !.addr = @ \cup {a}]
        IN  IF replace THEN AddSubnet(system_add_address(S3, a), a) ELSE S3
  BY DEF put_addr, a
<1> QED
  BY <1>1, <1>3, <1>6, <1>7, <1>8 DEF e, T, X, A

\* interface_update_proto_addr() keeps the kernel in order.
LEMMA UpdateAddrKeeps ==
  ASSUME NEW S \in StateType, Core(S), SubnetsCurrent(S), NEW d \in DatumType
  PROVE  AddrKeeps(interface_update_proto_addr(S, d), S)
<1> DEFINE R == interface_update_proto_addr(S, d)
           old == {a \in S.addr : AddrKey(a) = AddrKey(d)}
           n == NewAddr(S, d)
<1>1. n \in EntryType /\ AddrKey(n) = AddrKey(d) /\ n.left = d.left /\ n.enabled
  BY NewAddrFacts
<1>2. CASE old = {}
  <2>1. R = put_addr(S, n, FALSE, FALSE)
    BY <1>2 DEF interface_update_proto_addr
  <2>2. \A b \in S.addr : AddrKey(b) # AddrKey(n)
    BY <1>1, <1>2
  <2> HIDE DEF n, R, old
  <2>3. AddrKeeps(put_addr(S, n, FALSE, FALSE), S)
    BY <1>1, <2>2, PutNewKeeps
  <2> QED
    BY <2>1, <2>3 DEF R
<1>3. CASE old # {}
  <2> DEFINE o == CHOOSE a \in old : TRUE
             keep == ~o.failed /\ o.ptp = d.ptp
             replace == o.left # d.left
  <2>1. o \in S.addr /\ AddrKey(o) = AddrKey(n)
    BY <1>1, <1>3
  <2>2. o \in EntryType /\ replace \in BOOLEAN
    BY <2>1, Typed
  <2>3. CASE ~keep
    <3> DEFINE S1 == RemoveAddr(S, o)
    <3>1. R = put_addr(S1, n, FALSE, replace)
      BY <1>3, <2>3 DEF interface_update_proto_addr
    <3>2. put_addr(S1, n, FALSE, replace) = put_addr(S1, n, FALSE, FALSE)
      BY DEF put_addr
    <3> HIDE DEF n, R, old, o, keep, replace
    <3>3. AddrKeeps(S1, S) /\ S1.addr = S.addr \ {o}
      BY <2>2, RemoveAddrKeeps
    <3> HIDE DEF S1
    <3>4. S1 \in StateType /\ Core(S1)
      BY <3>3 DEF AddrKeeps
    <3>5. \A b \in S1.addr : AddrKey(b) # AddrKey(n)
      BY <2>1, <3>3 DEF Core, Keys
    <3>6. AddrKeeps(put_addr(S1, n, FALSE, FALSE), S1)
      BY <1>1, <3>4, <3>5, PutNewKeeps
    <3>7. AddrKeeps(put_addr(S1, n, FALSE, FALSE), S)
      BY <3>3, <3>6, AddrKeepsStep
    <3> QED
      BY <3>1, <3>2, <3>7 DEF R
  <2>4. CASE keep
    <3> DEFINE S1 == [S EXCEPT !.addr = @ \ {o}]
               S2 == put_addr(S1, n, TRUE, replace)
               O1 == Rules(AddrRules(o) \ AddrRules(n))
               O2 == IF o.sub # None /\ ~(replace /\ WantsSubnet(S, n)) THEN {<<"route", o.sub>>} ELSE {}
               H1 == Rules(IF o.enabled THEN AddrRules(n) \ AddrRules(o) ELSE AddrRules(n))
               H2 == IF o.enabled THEN {}
                     ELSE {<<"null", o.id>>} \cup (IF replace THEN {} ELSE {<<"addr", o.id>>})
    <3>1. R = [S2 EXCEPT !.orphans = @ \cup O1 \cup O2, !.lost = @ \cup H1 \cup H2]
      BY <1>3, <2>4 DEF interface_update_proto_addr
    <3>2. LeftOver(S, o, n, replace) = O1 \cup O2 /\ Missing(o, n, replace) = H1 \cup H2
      BY DEF LeftOver, Missing
    <3>3. ~o.failed /\ (~replace => n.left = o.left)
      BY <1>1, <2>4
    <3> HIDE DEF n, R, old, o, keep, replace, O1, O2, H1, H2
    <3>4. S2 = LET e == Entry(S, n, replace)
                   T == Listed(S, (S.addr \ {o}) \cup {e}, S.lost)
               IN  IF replace THEN AddSubnet(system_add_address(T, e), e) ELSE T
      BY <1>1, <2>2, PutKept
    <3> HIDE DEF S2
    <3>5. R = Forget(S2, O1 \cup O2, H1 \cup H2)
      <4>1. S2.orphans \cup O1 \cup O2 = S2.orphans \cup (O1 \cup O2) /\ S2.lost \cup H1 \cup H2 = S2.lost \cup (H1 \cup H2)
        OBVIOUS
      <4> QED
        BY <3>1, <4>1 DEF Forget
    <3>6. R = Kept(S, o, n, replace)
      BY <3>2, <3>4, <3>5 DEF Kept
    <3>7. AddrKeeps(Kept(S, o, n, replace), S)
      BY <1>1, <2>1, <2>2, <3>3, KeptKeeps
    <3> QED
      BY <3>6, <3>7 DEF R
  <2> QED
    BY <2>3, <2>4
<1> QED
  BY <1>2, <1>3

\* The same for a list of addresses.
LEMMA UpdateAddrsKeeps ==
  ASSUME NEW S \in StateType, Core(S), SubnetsCurrent(S), NEW list \in Seq(DatumType)
  PROVE  AddrKeeps(UpdateAddrs(S, list), S)
<1> DEFINE D == {s \in StateType : AddrKeeps(s, S)}
           T == DatumType
<1>1. S \in D
  BY DEF AddrKeeps, Same
<1>2. ASSUME NEW s \in D, NEW x \in T PROVE interface_update_proto_addr(s, x) \in D
  <2> DEFINE R == interface_update_proto_addr(s, x)
  <2>1. Core(s) /\ SubnetsCurrent(s) /\ AddrKeeps(s, S)
    BY DEF AddrKeeps
  <2>2. AddrKeeps(R, s)
    BY <2>1, UpdateAddrKeeps
  <2> HIDE DEF R
  <2>3. AddrKeeps(R, S)
    BY <2>1, <2>2, AddrKeepsStep
  <2>4. R \in StateType
    BY <2>3 DEF AddrKeeps
  <2> QED
    BY <2>3, <2>4 DEF R
<1> DEFINE w == [s \in D |-> {}]
<1>3. Drains(UpdateAddrRound(D, T), w, D, T) /\ w[S] = {}
  <2> HIDE DEF D
  <2> QED
    BY <1>1, <1>2 DEF Drains, UpdateAddrRound
<1>4. list \in Seq(T)
  OBVIOUS
<1> HIDE DEF D, w, T
<1>5. UpdateAddrs(S, list) \in D
  BY <1>1, <1>3, <1>4, UpdateAddrsPass
<1> QED
  BY <1>5 DEF D

-----------------------------------------------------------------------------
(***************************************************************************)
(* What is settled stays so.                                               *)
(***************************************************************************)
\* What is settled stays so when a list of routes changes as the interface wants.
LEMMA SettledRoutes ==
  ASSUME NEW S, NEW R, Settled(S), NEW L \in RouteLists, Core(R), S.orphans \subseteq R.orphans,
         Same(R, S, {L, "kroute", "lost", "unsorted", "fresh", "orphans"}),
         Obeys(R, L), L = "hroute" \/ Current(R, L)
  PROVE  Settled(R)
<1>1. /\ R.addr = S.addr /\ R.neigh = S.neigh /\ R.krule = S.krule /\ R.set = S.set
      /\ R.enabled = S.enabled /\ R.policy_rules_set = S.policy_rules_set
      /\ \A M \in RouteLists \ {L} : R[M] = S[M]
  BY DEF Same, Fields, RouteLists
<1>2. SubnetsCurrent(R)
  BY <1>1 DEF Settled, SubnetsCurrent, Subnet
<1>3. RulesCurrent(R)
  BY <1>1 DEF Settled, RulesCurrent, IfRules
<1>4. NeighCurrent(R) /\ R.policy_rules_set = R.enabled
  BY <1>1 DEF Settled, NeighCurrent
<1>5. \A M \in RouteLists : Obeys(R, M)
  BY <1>1 DEF Settled, Obeys, enable_route
<1>6. \A M \in {"route", "croute"} : Current(R, M)
  <2> SUFFICES ASSUME NEW M \in {"route", "croute"}, M # L PROVE Current(R, M)
    OBVIOUS
  <2>1. Current(S, M) /\ R[M] = S[M]
    BY <1>1 DEF Settled, RouteLists
  <2> QED
    BY <1>1, <2>1 DEF Current
<1> QED
  BY <1>2, <1>3, <1>4, <1>5, <1>6 DEF Settled

\* What is settled stays so when the neighbours change as the interface wants.
LEMMA SettledNeigh ==
  ASSUME NEW S, NEW R, Settled(S), Core(R), Same(R, S, NeighFields), NeighCurrent(R)
  PROVE  Settled(R)
<1>1. /\ R.addr = S.addr /\ R.krule = S.krule /\ R.orphans = S.orphans /\ R.set = S.set
      /\ R.enabled = S.enabled /\ R.policy_rules_set = S.policy_rules_set
      /\ \A M \in RouteLists : R[M] = S[M]
  BY DEF Same, Fields, RouteLists, NeighFields
<1>2. SubnetsCurrent(R)
  BY <1>1 DEF Settled, SubnetsCurrent, Subnet
<1>3. RulesCurrent(R)
  BY <1>1 DEF Settled, RulesCurrent, IfRules
<1>4. R.policy_rules_set = R.enabled
  BY <1>1 DEF Settled
<1>5. \A M \in RouteLists : Obeys(R, M)
  BY <1>1 DEF Settled, Obeys, enable_route
<1>6. Current(R, "route") /\ Current(R, "croute")
  BY <1>1 DEF Settled, Current, RouteLists
<1> QED
  BY <1>2, <1>3, <1>4, <1>5, <1>6 DEF Settled

\* What is settled stays so when the addresses change.
LEMMA SettledAddr ==
  ASSUME NEW S, NEW R, Settled(S), AddrKeeps(R, S)
  PROVE  Settled(R)
<1>1. /\ R.neigh = S.neigh /\ R.set = S.set /\ R.enabled = S.enabled /\ R.policy_rules_set = S.policy_rules_set
      /\ \A M \in RouteLists : R[M] = S[M]
  BY DEF AddrKeeps, Same, Fields, RouteLists, AddrFields, KernelFields
<1>2. Core(R) /\ SubnetsCurrent(R) /\ RulesCurrent(R)
  BY DEF Settled, AddrKeeps
<1>4. NeighCurrent(R) /\ R.policy_rules_set = R.enabled
  BY <1>1 DEF Settled, NeighCurrent
<1>5. \A M \in RouteLists : Obeys(R, M)
  BY <1>1 DEF Settled, Obeys, enable_route
<1>6. Current(R, "route") /\ Current(R, "croute")
  BY <1>1 DEF Settled, Current, RouteLists
<1> QED
  BY <1>2, <1>4, <1>5, <1>6 DEF Settled

\* Removing routes leaves what is settled.
LEMMA RemoveRoutesSettled ==
  ASSUME NEW S \in StateType, Settled(S), NEW L \in RouteLists, NEW T \in SUBSET S[L]
  PROVE  LET R == RemoveRoutes(S, L, T)
         IN  R \in StateType /\ Settled(R) /\ Same(R, S, RouteFields(L)) /\ R[L] \subseteq S[L] /\ R[L] \cap T = {}
<1> DEFINE R == RemoveRoutes(S, L, T)
<1>1. R \in StateType /\ Core(R) /\ Same(R, S, RouteFields(L)) /\ R[L] \subseteq S[L] /\ R[L] \cap T = {}
  BY RemoveRoutesKeeps DEF Settled
<1> HIDE DEF R
<1>2. Same(R, S, {L, "kroute", "lost", "unsorted", "fresh", "orphans"}) /\ R.orphans = S.orphans
  BY <1>1 DEF Same, RouteFields, Fields, RouteLists
<1>3. R.set = S.set /\ R.enabled = S.enabled
  BY <1>2 DEF Same, Fields, RouteLists
<1>4. Obeys(R, L)
  <2>1. Obeys(S, L)
    BY DEF Settled
  <2> QED
    BY <1>1, <1>3, <2>1 DEF Obeys, enable_route
<1>5. L = "hroute" \/ Current(R, L)
  <2>1. L = "hroute" \/ Current(S, L)
    BY DEF Settled, RouteLists
  <2> QED
    BY <1>1, <1>3, <2>1 DEF Current
<1>6. Settled(R)
  BY <1>1, <1>2, <1>4, <1>5, SettledRoutes
<1> QED
  BY <1>1, <1>6 DEF R

\* Announced routes leave what is settled.
LEMMA UpdateRoutesSettled ==
  ASSUME NEW S \in StateType, Settled(S), NEW L \in {"route", "croute"}, NEW T \in SUBSET RouteType, IsFiniteSet(T)
  PROVE  LET R == UpdateRoutes(S, L, T)
         IN  R \in StateType /\ Settled(R) /\ Same(R, S, UpdateFields(L))
<1> DEFINE R == UpdateRoutes(S, L, T)
<1>1. L \in RouteLists /\ Core(S) /\ Obeys(S, L) /\ Current(S, L)
  BY DEF Settled, RouteLists
<1>2. R \in StateType /\ Core(R) /\ Same(R, S, UpdateFields(L)) /\ Obeys(R, L) /\ Current(R, L)
      /\ S.orphans \subseteq R.orphans
  BY <1>1, UpdateRoutesKeeps
<1> HIDE DEF R
<1>3. Same(R, S, {L, "kroute", "lost", "unsorted", "fresh", "orphans"})
  BY <1>2 DEF Same, UpdateFields
<1>4. Settled(R)
  BY <1>1, <1>2, <1>3, SettledRoutes
<1> QED
  BY <1>2, <1>4 DEF R

\* Removing neighbours leaves what is settled.
LEMMA RemoveNeighsSettled ==
  ASSUME NEW S \in StateType, Settled(S), NEW T \in SUBSET S.neigh
  PROVE  LET R == RemoveNeighs(S, T)
         IN  R \in StateType /\ Settled(R) /\ Same(R, S, NeighFields) /\ R.neigh = S.neigh \ T
<1> DEFINE R == RemoveNeighs(S, T)
<1>1. R \in StateType /\ Core(R) /\ Same(R, S, NeighFields) /\ R.neigh = S.neigh \ T
  BY RemoveNeighsKeeps DEF Settled
<1> HIDE DEF R
<1>2. R.enabled = S.enabled
  BY <1>1 DEF Same, Fields, NeighFields
<1>3. NeighCurrent(R)
  BY <1>1, <1>2 DEF Settled, NeighCurrent
<1>4. Settled(R)
  BY <1>1, <1>3, SettledNeigh
<1> QED
  BY <1>1, <1>4 DEF R

\* Announced neighbours leave what is settled.
LEMMA UpdateNeighsSettled ==
  ASSUME NEW S \in StateType, Settled(S), NEW T \in SUBSET NeighType, IsFiniteSet(T)
  PROVE  LET R == UpdateNeighs(S, T) IN R \in StateType /\ Settled(R) /\ Same(R, S, NeighFields)
<1> DEFINE R == UpdateNeighs(S, T)
<1>1. R \in StateType /\ Core(R) /\ Same(R, S, NeighFields) /\ NeighCurrent(R)
  BY UpdateNeighsKeeps DEF Settled
<1> HIDE DEF R
<1>2. Settled(R)
  BY <1>1, SettledNeigh
<1> QED
  BY <1>1, <1>2 DEF R

\* Removing addresses leaves what is settled.
LEMMA RemoveAddrsSettled ==
  ASSUME NEW S \in StateType, Settled(S), NEW A \in SUBSET EntryType, IsFiniteSet(A)
  PROVE  LET R == RemoveAddrs(S, A)
         IN  R \in StateType /\ Settled(R) /\ Same(R, S, AddrFields) /\ R.addr = S.addr \ A
<1> DEFINE R == RemoveAddrs(S, A)
<1>1. AddrKeeps(R, S) /\ R.addr = S.addr \ A
  BY RemoveAddrsKeeps DEF Settled
<1> HIDE DEF R
<1>2. Settled(R)
  BY <1>1, SettledAddr
<1>3. R \in StateType /\ Same(R, S, AddrFields)
  BY <1>1 DEF AddrKeeps
<1> QED
  BY <1>1, <1>2, <1>3 DEF R

\* Announced addresses leave what is settled.
LEMMA UpdateAddrsSettled ==
  ASSUME NEW S \in StateType, Settled(S), NEW list \in Seq(DatumType)
  PROVE  LET R == UpdateAddrs(S, list) IN R \in StateType /\ Settled(R) /\ Same(R, S, AddrFields)
<1> DEFINE R == UpdateAddrs(S, list)
<1>1. AddrKeeps(R, S)
  BY UpdateAddrsKeeps DEF Settled
<1> HIDE DEF R
<1>2. Settled(R)
  BY <1>1, SettledAddr
<1>3. R \in StateType /\ Same(R, S, AddrFields)
  BY <1>1 DEF AddrKeeps
<1> QED
  BY <1>1, <1>2, <1>3 DEF R

-----------------------------------------------------------------------------
(***************************************************************************)
(* interface_ip_set_enabled().                                             *)
(***************************************************************************)
PolicyFields == {"policy_rules_set", "krule", "orphans"}

\* The rules of the interface.
LEMMA IfRulesTyped ==
  ASSUME NEW S \in StateType
  PROVE  IfRules(S) \subseteq IfRuleType /\ IfRuleType \subseteq RuleType /\ <<"fail">> \in IfRules(S)
<1>1. S.set.table \in Nat
  BY Typed DEF SetType
<1> QED
  BY <1>1 DEF IfRules, IfRuleType, RuleType

\* A rule of the interface that is not for its table is one for another.
LEMMA OtherTable == ASSUME NEW x \in IfRuleType, x # <<"fail">> PROVE x[1] = "lo"
  BY DEF IfRuleType

\* A change of the interface's rules leaves the rest of Core.
LEMMA PolicyCore ==
  ASSUME NEW S \in StateType, Core(S), NEW R \in StateType, Same(R, S, PolicyFields), S.orphans \subseteq R.orphans,
         RulesOK(R)
  PROVE  Core(R)
<1>1. /\ R.addr = S.addr /\ R.kaddr = S.kaddr /\ R.knull = S.knull /\ R.neigh = S.neigh /\ R.kneigh = S.kneigh
      /\ R.nrefused = S.nrefused /\ R.kroute = S.kroute /\ R.lost = S.lost /\ \A M \in RouteLists : R[M] = S[M]
  BY DEF Same, Fields, RouteLists, PolicyFields
<1>2. AddrOK(R)
  BY <1>1 DEF Core, AddrOK
<1>3. NullOK(R)
  BY <1>1 DEF Core, NullOK
<1>4. Enabled(R) = Enabled(S) /\ Needed(R) = Needed(S)
  BY <1>1, EnabledSame
<1>5. RoutesOK(R)
  BY <1>1, <1>4 DEF Core, RoutesOK, Has, Owns
<1>6. NeighOK(R)
  BY <1>1, NeighFrame DEF Core
<1>7. Finite(R) /\ Keys(R) /\ SubnetsOff(R)
  BY <1>1 DEF Core, Finite, Keys, SubnetsOff
<1> QED
  BY <1>2, <1>3, <1>5, <1>6, <1>7 DEF Core

\* Rules that are set or taken back are those of the table the interface has now.
LEMMA SetPolicyKeeps ==
  ASSUME NEW S \in StateType, Core(S), NEW want \in BOOLEAN
  PROVE  LET R == SetPolicyRules(S, want)
         IN  /\ R \in StateType /\ Core(R) /\ Same(R, S, PolicyFields) /\ R.policy_rules_set = want
             /\ S.policy_rules_set = want => R = S
             /\ S.policy_rules_set # want => RulesCurrent(R)
<1>1. CASE S.policy_rules_set = want
  BY <1>1 DEF SetPolicyRules, Same
<1>2. CASE S.policy_rules_set # want
  <2> DEFINE R == SetPolicyRules(S, want)
             K == IF want THEN S.krule \cup IfRules(S) ELSE S.krule \ IfRules(S)
             O == {<<"rule", x>> : x \in {y \in S.krule \ IfRules(S) : y[1] = "lo"}}
             P == IF want THEN S.orphans ELSE S.orphans \cup O
             Q == [S EXCEPT !.policy_rules_set = want, !.krule = K, !.orphans = P]
  <2>1. R = Q
    BY <1>2 DEF SetPolicyRules
  <2>2. IfRules(S) \subseteq IfRuleType /\ IfRuleType \subseteq RuleType /\ <<"fail">> \in IfRules(S)
    BY IfRulesTyped
  <2>3. K \in SUBSET RuleType
    BY <2>2, Typed
  <2>4. \A x \in S.krule : <<"rule", x>> \in HistoryType
    BY Typed, HistoryIn DEF Kinds
  <2>5. P \in SUBSET HistoryType /\ S.orphans \subseteq P
    BY <2>4, Typed
  <2>6. ~want => \A x \in S.krule \ IfRules(S) : x[1] = "lo" => <<"rule", x>> \in P
    OBVIOUS
  <2>7. (want => K = S.krule \cup IfRules(S)) /\ (~want => K = S.krule \ IfRules(S))
    OBVIOUS
  <2> HIDE DEF K, P, R
  <2>8. Q \in StateType
    BY <2>3, <2>5 DEF StateType
  <2>9. Same(Q, S, PolicyFields) /\ Q.policy_rules_set = want /\ Q.krule = K /\ Q.orphans = P
    BY Typed DEF Same, Fields, PolicyFields
  <2> HIDE DEF Q
  <2>10. Q.addr = S.addr /\ Q.lost = S.lost /\ Q.set = S.set
    BY <2>9 DEF Same, Fields, PolicyFields
  <2>11. \A a \in S.addr : AddrRules(a) \cap IfRuleType = {}
    BY Typed, RulesTyped
  <2>12. ~want => \A x \in K : x \in IfRuleType => <<"rule", x>> \in P
    <3> SUFFICES ASSUME ~want, NEW x \in K, x \in IfRuleType PROVE <<"rule", x>> \in P
      OBVIOUS
    <3>1. x \in S.krule \ IfRules(S) /\ x # <<"fail">>
      BY <2>2, <2>7
    <3>2. x[1] = "lo"
      BY <3>1, OtherTable
    <3> QED
      BY <2>6, <3>1, <3>2
  <2>13. RulesOK(Q)
    <3>1. \A a \in Q.addr : a.enabled => \A x \in AddrRules(a) : x \in Q.krule \/ <<"rule", x>> \in Q.lost
      BY <2>2, <2>7, <2>9, <2>10, <2>11 DEF Core, RulesOK
    <3>2. CASE want
      <4>1. \A x \in Q.krule : \/ <<"rule", x>> \in Q.orphans
                               \/ \E a \in Q.addr : a.enabled /\ x \in AddrRules(a)
                               \/ Q.policy_rules_set /\ x \in IfRuleType
        BY <2>2, <2>5, <2>7, <2>9, <2>10, <3>2 DEF Core, RulesOK
      <4> QED
        BY <3>1, <4>1 DEF RulesOK
    <3>3. CASE ~want
      <4>1. \A x \in Q.krule : \/ <<"rule", x>> \in Q.orphans
                               \/ \E a \in Q.addr : a.enabled /\ x \in AddrRules(a)
                               \/ Q.policy_rules_set /\ x \in IfRuleType
        BY <2>5, <2>7, <2>9, <2>10, <2>12, <3>3 DEF Core, RulesOK
      <4> QED
        BY <3>1, <4>1 DEF RulesOK
    <3> QED
      BY <3>2, <3>3
  <2>14. Core(Q)
    BY <2>5, <2>8, <2>9, <2>13, PolicyCore
  <2>15. RulesCurrent(Q)
    <3>1. IfRules(Q) = IfRules(S)
      BY <2>10 DEF IfRules
    <3>2. CASE want
      <4>1. ~S.policy_rules_set
        BY <1>2, <3>2, Typed
      <4>2. \A x \in S.krule : x \in IfRuleType => <<"rule", x>> \in S.orphans
        BY <2>11, <4>1 DEF Core, RulesOK
      <4> QED
        BY <2>5, <2>7, <2>9, <3>1, <3>2, <4>2 DEF RulesCurrent
    <3>3. CASE ~want
      BY <2>9, <2>12, <3>3 DEF RulesCurrent
    <3> QED
      BY <3>2, <3>3
  <2> QED
    BY <1>2, <2>1, <2>8, <2>9, <2>14, <2>15 DEF R
<1> QED
  BY <1>1, <1>2

\* Turning the interface on or off without its lists.
Switched(S, want) == [S EXCEPT !.enabled = want]

\* The flag alone does not touch the kernel.
LEMMA SwitchedFacts ==
  ASSUME NEW S \in StateType, NEW want \in BOOLEAN
  PROVE  LET R == Switched(S, want)
         IN  /\ R \in StateType /\ Same(R, S, {"enabled"}) /\ R.enabled = want
             /\ Core(S) => Core(R)
             /\ S.enabled = want => R = S
<1> DEFINE R == Switched(S, want)
<1>1. R \in StateType
  BY DEF StateType, Switched
<1>2. Same(R, S, {"enabled"}) /\ R.enabled = want
  BY Typed DEF Same, Fields, Switched
<1>3. S.enabled = want => R = S
  BY DEF Switched, StateType
<1> HIDE DEF R
<1>4. ASSUME Core(S) PROVE Core(R)
  <2>1. /\ R.addr = S.addr /\ R.kaddr = S.kaddr /\ R.knull = S.knull /\ R.neigh = S.neigh /\ R.kneigh = S.kneigh
        /\ R.nrefused = S.nrefused /\ R.kroute = S.kroute /\ R.lost = S.lost /\ (\A M \in RouteLists : R[M] = S[M])
        /\ R.orphans = S.orphans /\ R.policy_rules_set = S.policy_rules_set /\ R.krule = S.krule
    BY <1>2 DEF Same, Fields, RouteLists
  <2>2. Same(R, S, {"enabled"} \cup PolicyFields)
    BY <1>2, SameMore
  <2>3. AddrOK(R) /\ NullOK(R) /\ RulesOK(R)
    <3>1. \A kind : LostSame(R, S, kind) /\ OrphansSame(R, S, kind)
      BY <2>1 DEF LostSame, OrphansSame
    <3> QED
      BY <1>4, <2>1, <3>1, AddrFrame, NullFrame, RulesFrame DEF Core
  <2>4. Enabled(R) = Enabled(S) /\ Needed(R) = Needed(S)
    BY <2>1, EnabledSame
  <2>5. RoutesOK(R)
    BY <1>4, <2>1, <2>4 DEF Core, RoutesOK, Has, Owns
  <2>6. NeighOK(R) /\ Finite(R) /\ Keys(R) /\ SubnetsOff(R)
    BY <1>4, <2>1, NeighFrame DEF Core, Finite, Keys, SubnetsOff
  <2> QED
    BY <2>3, <2>5, <2>6 DEF Core
<1> QED
  BY <1>1, <1>2, <1>3, <1>4 DEF R

\* What every part of interface_ip_set_enabled() keeps.
Keeps(R, S) ==
  /\ R \in StateType /\ Core(R)
  /\ RulesCurrent(S) => RulesCurrent(R)
  /\ SubnetsCurrent(S) => SubnetsCurrent(R)
  /\ \A L \in RouteLists : Current(S, L) => Current(R, L)

\* Keeps composes.
LEMMA KeepsStep == ASSUME NEW Q, NEW R, NEW S, Keeps(Q, R), Keeps(R, S) PROVE Keeps(Q, S)
  BY DEF Keeps

\* The flag.
LEMMA SwitchedKeeps ==
  ASSUME NEW S \in StateType, Core(S), NEW want \in BOOLEAN
  PROVE  Keeps(Switched(S, want), S)
<1> DEFINE R == Switched(S, want)
<1>1. R \in StateType /\ Same(R, S, {"enabled"}) /\ Core(R)
  BY SwitchedFacts
<1> HIDE DEF R
<1>2. /\ R.addr = S.addr /\ R.krule = S.krule /\ R.orphans = S.orphans /\ R.set = S.set
      /\ R.policy_rules_set = S.policy_rules_set /\ \A M \in RouteLists : R[M] = S[M]
  BY <1>1 DEF Same, Fields, RouteLists
<1>3. Keeps(R, S)
  BY <1>1, <1>2 DEF Keeps, RulesCurrent, IfRules, SubnetsCurrent, Subnet, Current
<1> QED
  BY <1>3 DEF R

\* A list of routes: afterwards its entries obey the settings.
LEMMA SetRoutesKeepsAll ==
  ASSUME NEW S \in StateType, Core(S), NEW L \in RouteLists, NEW want \in BOOLEAN, S.enabled = want
  PROVE  LET R == SetRoutes(S, L, want) IN Keeps(R, S) /\ Obeys(R, L) /\ Same(R, S, RouteFields(L))
<1> DEFINE R == SetRoutes(S, L, want)
<1>1. /\ R \in StateType /\ Core(R) /\ Same(R, S, RouteFields(L))
      /\ \A r \in R[L] : Setting(S, L, want, r)
      /\ Current(S, L) => Current(R, L)
  BY SetRoutesKeeps
<1> HIDE DEF R
<1>2. /\ R.addr = S.addr /\ R.krule = S.krule /\ R.orphans = S.orphans /\ R.set = S.set /\ R.enabled = S.enabled
      /\ R.policy_rules_set = S.policy_rules_set /\ \A M \in RouteLists \ {L} : R[M] = S[M]
  BY <1>1 DEF Same, Fields, RouteLists, RouteFields
<1>3. Obeys(R, L)
  BY <1>1, <1>2 DEF Obeys, Setting, enable_route
<1>4. \A M \in RouteLists : Current(S, M) => Current(R, M)
  <2> SUFFICES ASSUME NEW M \in RouteLists, M # L PROVE Current(S, M) => Current(R, M)
    BY <1>1
  <2> QED
    BY <1>2 DEF Current
<1>5. Keeps(R, S)
  BY <1>1, <1>2, <1>4 DEF Keeps, RulesCurrent, IfRules, SubnetsCurrent, Subnet
<1> QED
  BY <1>1, <1>3, <1>5 DEF R

\* The addresses.
LEMMA SetAddrsKeepsAll ==
  ASSUME NEW S \in StateType, Core(S), NEW want \in BOOLEAN
  PROVE  LET R == SetAddrs(S, want)
         IN  Keeps(R, S) /\ Same(R, S, AddrFields) /\ \A a \in R.addr : a.enabled = want
<1> DEFINE R == SetAddrs(S, want)
<1>1. AddrKeeps(R, S) /\ \A a \in R.addr : a.enabled = want
  BY SetAddrsKeeps
<1> HIDE DEF R
<1>2. R.set = S.set /\ \A M \in RouteLists : R[M] = S[M]
  BY <1>1 DEF AddrKeeps, Same, Fields, RouteLists, AddrFields, KernelFields
<1>3. Keeps(R, S) /\ Same(R, S, AddrFields)
  BY <1>1, <1>2 DEF Keeps, AddrKeeps, Current
<1> QED
  BY <1>1, <1>3 DEF R

\* The neighbours.
LEMMA SetNeighsKeepsAll ==
  ASSUME NEW S \in StateType, Core(S), NEW want \in BOOLEAN
  PROVE  LET R == SetNeighs(S, want)
         IN  Keeps(R, S) /\ Same(R, S, NeighFields) /\ \A n \in R.neigh : n.enabled = want
<1> DEFINE R == SetNeighs(S, want)
<1>1. R \in StateType /\ Core(R) /\ Same(R, S, NeighFields) /\ \A n \in R.neigh : n.enabled = want
  BY SetNeighsKeeps
<1> HIDE DEF R
<1>2. /\ R.addr = S.addr /\ R.krule = S.krule /\ R.orphans = S.orphans /\ R.set = S.set
      /\ R.policy_rules_set = S.policy_rules_set /\ \A M \in RouteLists : R[M] = S[M]
  BY <1>1 DEF Same, Fields, RouteLists, NeighFields
<1>3. Keeps(R, S)
  BY <1>1, <1>2 DEF Keeps, RulesCurrent, IfRules, SubnetsCurrent, Subnet, Current
<1> QED
  BY <1>1, <1>3 DEF R

\* The rules of the interface.
LEMMA SetPolicyKeepsAll ==
  ASSUME NEW S \in StateType, Core(S), NEW want \in BOOLEAN
  PROVE  LET R == SetPolicyRules(S, want)
         IN  /\ Keeps(R, S) /\ Same(R, S, PolicyFields) /\ R.policy_rules_set = want
             /\ S.policy_rules_set = want => R = S
             /\ S.policy_rules_set # want => RulesCurrent(R)
<1> DEFINE R == SetPolicyRules(S, want)
<1>1. /\ R \in StateType /\ Core(R) /\ Same(R, S, PolicyFields) /\ R.policy_rules_set = want
      /\ S.policy_rules_set = want => R = S
      /\ S.policy_rules_set # want => RulesCurrent(R)
  BY SetPolicyKeeps
<1> HIDE DEF R
<1>2. R.addr = S.addr /\ R.set = S.set /\ \A M \in RouteLists : R[M] = S[M]
  BY <1>1 DEF Same, Fields, RouteLists, PolicyFields
<1>3. Keeps(R, S)
  BY <1>1, <1>2 DEF Keeps, SubnetsCurrent, Subnet, Current
<1> QED
  BY <1>1, <1>3 DEF R

\* What stays as it is when an interface is turned on or off.
Settings == {"l3", "up", "set", "faults", "bad", "fresh", "unclaimed", "unseen", "met"}

\* proto_ip is turned on or off in R, as want says.
ProtoTurned(R, want) ==
  /\ R.enabled = want /\ R.policy_rules_set = want
  /\ (\A a \in R.addr : a.enabled = want) /\ NeighCurrent(R)
  /\ Obeys(R, "route") /\ Obeys(R, "hroute")

\* And so is config_ip.
TurnedTo(R, want) == ProtoTurned(R, want) /\ \A L \in RouteLists : Obeys(R, L)

\* A pass over an empty list does nothing.
LEMMA SetNoRoutes ==
  ASSUME NEW S, NEW L \in RouteLists, NEW want \in BOOLEAN, S[L] = {}
  PROVE  SetRoutes(S, L, want) = S
<1> DEFINE D == {S}
           T == S[L]
           w == [s \in D |-> {}]
<1>1. Drains(SetRouteRound(D, T, L, want), w, D, T) /\ w[S] \subseteq T /\ IsFiniteSet(T) /\ S \in D
  BY FS_EmptySet DEF Drains, SetRouteRound
<1>2. SetEach(S, L, want) \in D
  <2> HIDE DEF D, w
  <2> QED
    BY <1>1, SetRoutesPass
<1>3. ~Unsorts(S, L, want)
  BY DEF Unsorts
<1> QED
  BY <1>2, <1>3 DEF SetRoutes, SetEach

ConfigFields == {"enabled", "croute", "kroute", "lost", "unsorted", "policy_rules_set", "krule", "orphans"}

\* interface_ip_set_enabled() of config_ip.
LEMMA ConfigKeeps ==
  ASSUME NEW S \in StateType, Core(S), NEW want \in BOOLEAN, S.l3
  PROVE  LET R == SetEnabledConfig(S, want)
         IN  /\ Keeps(R, S) /\ Same(R, S, ConfigFields)
             /\ R.enabled = want /\ R.policy_rules_set = want /\ Obeys(R, "croute")
             /\ S.policy_rules_set # want => RulesCurrent(R)
<1> DEFINE A == Switched(S, want)
           B == SetRoutes(A, "croute", want)
           C == SetPolicyRules(B, want)
<1>1. SetEnabledConfig(S, want) = C
  BY DEF SetEnabledConfig, Switched
<1>2. A \in StateType /\ Same(A, S, {"enabled"}) /\ A.enabled = want /\ Core(A) /\ Keeps(A, S)
  BY SwitchedFacts, SwitchedKeeps
<1> HIDE DEF A
<1>3. Keeps(B, A) /\ Obeys(B, "croute") /\ Same(B, A, RouteFields("croute"))
  BY <1>2, SetRoutesKeepsAll DEF RouteLists
<1>4. B \in StateType /\ Core(B)
  BY <1>3 DEF Keeps
<1> HIDE DEF B
<1>5. /\ Keeps(C, B) /\ Same(C, B, PolicyFields) /\ C.policy_rules_set = want
      /\ B.policy_rules_set # want => RulesCurrent(C)
  BY <1>4, SetPolicyKeepsAll
<1> HIDE DEF C
<1>6. Keeps(C, S)
  BY <1>2, <1>3, <1>5, KeepsStep
<1>7. Same(C, S, ConfigFields)
  BY <1>2, <1>3, <1>5 DEF Same, PolicyFields, RouteFields, ConfigFields
<1>8. /\ C.enabled = want /\ B.policy_rules_set = S.policy_rules_set
      /\ C.enabled = B.enabled /\ C.set = B.set /\ C["croute"] = B["croute"]
  BY <1>2, <1>3, <1>5 DEF Same, Fields, PolicyFields, RouteFields
<1>9. Obeys(C, "croute")
  BY <1>3, <1>8 DEF Obeys, enable_route
<1> QED
  BY <1>1, <1>5, <1>6, <1>7, <1>8, <1>9

\* interface_ip_set_enabled() of proto_ip.
LEMMA ProtoKeeps ==
  ASSUME NEW S \in StateType, Core(S), NEW want \in BOOLEAN, S.l3
  PROVE  LET R == interface_ip_set_enabled(S, want)
         IN  /\ Keeps(R, S) /\ (\A x \in Settings \cup {"croute"} : R[x] = S[x]) /\ ProtoTurned(R, want)
             /\ S.policy_rules_set # want => RulesCurrent(R)
             /\ S.hroute = {} => R.hroute = {}
<1> DEFINE A == Switched(S, want)
           B == SetAddrs(A, want)
           C == SetRoutes(B, "route", want)
           D == SetRoutes(C, "hroute", want)
           E == SetNeighs(D, want)
           R == SetPolicyRules(E, want)
<1>1. A \in StateType /\ Same(A, S, {"enabled"}) /\ A.enabled = want /\ Core(A) /\ Keeps(A, S)
  BY SwitchedFacts, SwitchedKeeps
<1>2. interface_ip_set_enabled(S, want) = R
  BY DEF interface_ip_set_enabled, Switched
<1> HIDE DEF A
<1>3. Keeps(B, A) /\ Same(B, A, AddrFields) /\ \A a \in B.addr : a.enabled = want
  BY <1>1, SetAddrsKeepsAll
<1>4. B \in StateType /\ Core(B) /\ B.enabled = want
  BY <1>1, <1>3 DEF Keeps, Same, Fields, AddrFields, KernelFields
<1> HIDE DEF B
<1>5. Keeps(C, B) /\ Obeys(C, "route") /\ Same(C, B, RouteFields("route"))
  BY <1>4, SetRoutesKeepsAll DEF RouteLists
<1>6. C \in StateType /\ Core(C) /\ C.enabled = want
  BY <1>4, <1>5 DEF Keeps, Same, Fields, RouteFields
<1> HIDE DEF C
<1>7. Keeps(D, C) /\ Obeys(D, "hroute") /\ Same(D, C, RouteFields("hroute"))
  BY <1>6, SetRoutesKeepsAll DEF RouteLists
<1>8. D \in StateType /\ Core(D) /\ (S.hroute = {} => D["hroute"] = {})
  <2>1. C["hroute"] = S.hroute
    BY <1>1, <1>3, <1>5 DEF Same, Fields, AddrFields, KernelFields, RouteFields
  <2> QED
    BY <1>6, <1>7, <2>1, SetNoRoutes DEF Keeps, RouteLists
<1> HIDE DEF D
<1>9. Keeps(E, D) /\ Same(E, D, NeighFields) /\ \A n \in E.neigh : n.enabled = want
  BY <1>8, SetNeighsKeepsAll
<1>10. E \in StateType /\ Core(E)
  BY <1>9 DEF Keeps
<1> HIDE DEF E
<1>10a. /\ Keeps(R, E) /\ Same(R, E, PolicyFields) /\ R.policy_rules_set = want
        /\ E.policy_rules_set # want => RulesCurrent(R)
  BY <1>10, SetPolicyKeepsAll
<1> HIDE DEF R
<1>11. (\A x \in Settings \cup {"croute"} : R[x] = S[x]) /\ E.policy_rules_set = S.policy_rules_set
  <2> DEFINE Rest == Settings \cup {"croute", "policy_rules_set"}
  <2>1. (\A x \in Rest : A[x] = S[x]) /\ (\A x \in Rest : B[x] = A[x])
    BY <1>1, <1>3 DEF Same, Fields, AddrFields, KernelFields, Settings
  <2>2. \A x \in Rest : C[x] = B[x]
    BY <1>5 DEF Same, Fields, RouteFields, Settings
  <2>3. \A x \in Rest : D[x] = C[x]
    BY <1>7 DEF Same, Fields, RouteFields, Settings
  <2>4. \A x \in Rest : E[x] = D[x]
    BY <1>9 DEF Same, Fields, NeighFields, Settings
  <2>5. \A x \in Settings \cup {"croute"} : R[x] = E[x]
    BY <1>10a DEF Same, Fields, PolicyFields, Settings
  <2>6. \A x \in Rest : E[x] = S[x]
    <3> HIDE DEF Rest
    <3> QED
      BY <2>1, <2>2, <2>3, <2>4
  <2> QED
    BY <2>5, <2>6
<1>12. Keeps(R, S)
  <2>1. Keeps(C, S)
    BY <1>1, <1>3, <1>5, KeepsStep
  <2> QED
    BY <1>7, <1>9, <1>10a, <2>1, KeepsStep
<1>13. S.policy_rules_set # want => RulesCurrent(R)
  BY <1>10a, <1>11
<1>14. ProtoTurned(R, want)
  <2>1. D["route"] = C["route"] /\ D.set = C.set /\ D.enabled = C.enabled /\ D.addr = C.addr
    BY <1>7 DEF Same, Fields, RouteFields
  <2>2. E["route"] = D["route"] /\ E["hroute"] = D["hroute"] /\ E.set = D.set /\ E.enabled = D.enabled /\ E.addr = D.addr
    BY <1>9 DEF Same, Fields, NeighFields
  <2>3. /\ R["route"] = E["route"] /\ R["hroute"] = E["hroute"] /\ R.set = E.set /\ R.enabled = E.enabled
        /\ R.addr = E.addr /\ R.neigh = E.neigh
    BY <1>10a DEF Same, Fields, PolicyFields
  <2>4. R.addr = B.addr /\ R.enabled = want
    BY <1>5, <1>6, <2>1, <2>2, <2>3 DEF Same, Fields, RouteFields
  <2>5. \A a \in R.addr : a.enabled = want
    BY <1>3, <2>4
  <2>6. NeighCurrent(R)
    BY <1>9, <2>3, <2>4 DEF NeighCurrent
  <2>7. Obeys(R, "route")
    BY <1>5, <2>1, <2>2, <2>3 DEF Obeys, enable_route
  <2>8. Obeys(R, "hroute")
    BY <1>7, <2>2, <2>3 DEF Obeys, enable_route
  <2> QED
    BY <1>10a, <2>4, <2>5, <2>6, <2>7, <2>8 DEF ProtoTurned
<1>15. R["hroute"] = D["hroute"]
  BY <1>9, <1>10a DEF Same, Fields, NeighFields, PolicyFields
<1> QED
  BY <1>2, <1>8, <1>11, <1>12, <1>13, <1>14, <1>15

\* What both functions do, in either order.
BothTurned(R, S, want) ==
  /\ Keeps(R, S) /\ (\A x \in Settings : R[x] = S[x]) /\ TurnedTo(R, want)
  /\ S.policy_rules_set # want => RulesCurrent(R)
  /\ S.hroute = {} => R.hroute = {}

\* Both: everything is on or off as wanted, even if the settings have just changed.
LEMMA SetEnabledKeeps ==
  ASSUME NEW S \in StateType, Core(S), NEW want \in BOOLEAN, S.l3
  PROVE  BothTurned(SetEnabled(S, want), S, want)
<1> DEFINE A == SetEnabledConfig(S, want)
           R == interface_ip_set_enabled(A, want)
<1>1. /\ Keeps(A, S) /\ Same(A, S, ConfigFields)
      /\ A.enabled = want /\ A.policy_rules_set = want /\ Obeys(A, "croute")
      /\ S.policy_rules_set # want => RulesCurrent(A)
  BY ConfigKeeps
<1> HIDE DEF A
<1>2. A \in StateType /\ Core(A)
  BY <1>1 DEF Keeps
<1>3. A.l3 = S.l3 /\ A.hroute = S.hroute /\ \A x \in Settings : A[x] = S[x]
  BY <1>1 DEF Same, Fields, Settings, ConfigFields
<1>4. /\ Keeps(R, A) /\ (\A x \in Settings \cup {"croute"} : R[x] = A[x]) /\ ProtoTurned(R, want)
      /\ A.hroute = {} => R.hroute = {}
  BY <1>2, <1>3, ProtoKeeps
<1> HIDE DEF R
<1>5. Keeps(R, S)
  BY <1>1, <1>4, KeepsStep
<1>6. S.policy_rules_set # want => RulesCurrent(R)
  BY <1>1, <1>4 DEF Keeps
<1>7. SetEnabled(S, want) = R
  BY DEF SetEnabled, R, A
<1>8. TurnedTo(R, want)
  <2>1. R["croute"] = A["croute"] /\ R.set = A.set /\ R.enabled = A.enabled
    BY <1>1, <1>4 DEF Settings, ProtoTurned
  <2>2. Obeys(R, "croute")
    BY <1>1, <2>1 DEF Obeys, enable_route
  <2> QED
    BY <1>4, <2>2 DEF TurnedTo, ProtoTurned, RouteLists
<1> QED
  BY <1>3, <1>4, <1>5, <1>6, <1>7, <1>8 DEF BothTurned

\* The same with proto_ip first.
LEMMA ProtoFirst ==
  ASSUME NEW S \in StateType, Core(S), NEW want \in BOOLEAN, S.l3
  PROVE  BothTurned(SetEnabledConfig(interface_ip_set_enabled(S, want), want), S, want)
<1> DEFINE A == interface_ip_set_enabled(S, want)
           R == SetEnabledConfig(A, want)
<1>1. /\ Keeps(A, S) /\ (\A x \in Settings \cup {"croute"} : A[x] = S[x]) /\ ProtoTurned(A, want)
      /\ S.policy_rules_set # want => RulesCurrent(A)
      /\ S.hroute = {} => A.hroute = {}
  BY ProtoKeeps
<1> HIDE DEF A
<1>2. A \in StateType /\ Core(A) /\ A.l3 = S.l3
  BY <1>1 DEF Keeps, Settings
<1>3. /\ Keeps(R, A) /\ Same(R, A, ConfigFields)
      /\ R.enabled = want /\ R.policy_rules_set = want /\ Obeys(R, "croute")
  BY <1>2, ConfigKeeps
<1> HIDE DEF R
<1>4. /\ R.addr = A.addr /\ R.neigh = A.neigh /\ R["route"] = A["route"] /\ R["hroute"] = A["hroute"]
      /\ R.set = A.set /\ A.enabled = want /\ \A x \in Settings : R[x] = A[x]
  BY <1>1, <1>3 DEF Same, Fields, Settings, ConfigFields, ProtoTurned
<1>5. Keeps(R, S)
  BY <1>1, <1>3, KeepsStep
<1>6. S.policy_rules_set # want => RulesCurrent(R)
  BY <1>1, <1>3 DEF Keeps
<1>7. NeighCurrent(R) /\ \A a \in R.addr : a.enabled = want
  BY <1>1, <1>3, <1>4 DEF ProtoTurned, NeighCurrent
<1>8. Obeys(R, "route") /\ Obeys(R, "hroute")
  BY <1>1, <1>3, <1>4 DEF ProtoTurned, Obeys, enable_route
<1>9. TurnedTo(R, want)
  BY <1>3, <1>7, <1>8 DEF TurnedTo, ProtoTurned, RouteLists
<1>10. (\A x \in Settings : R[x] = S[x]) /\ (S.hroute = {} => R.hroute = {})
  BY <1>1, <1>4
<1> QED
  BY <1>5, <1>6, <1>9, <1>10 DEF BothTurned, R, A

\* With everything off nothing has to be up to date.
LEMMA OffCurrent ==
  ASSUME NEW S, TurnedTo(S, FALSE)
  PROVE  SubnetsCurrent(S) /\ \A L \in RouteLists : Current(S, L)
  BY DEF TurnedTo, ProtoTurned, SubnetsCurrent, Current, Obeys, enable_route

\* Turning the interface on or off leaves what is settled.
LEMMA TurnedSettled ==
  ASSUME NEW S, NEW R, Settled(S), NEW want, BothTurned(R, S, want)
  PROVE  /\ R \in StateType /\ Settled(R) /\ R.enabled = want /\ (\A x \in Settings : R[x] = S[x])
         /\ S.hroute = {} => R.hroute = {}
<1>1. Keeps(R, S) /\ TurnedTo(R, want)
  BY DEF BothTurned
<1>2. SubnetsCurrent(R) /\ RulesCurrent(R) /\ Current(R, "route") /\ Current(R, "croute")
  BY <1>1 DEF Keeps, Settled, RouteLists
<1>3. R \in StateType /\ Core(R)
  BY <1>1 DEF Keeps
<1>4. Settled(R) /\ R.enabled = want
  BY <1>1, <1>2, <1>3 DEF TurnedTo, ProtoTurned, Settled
<1> QED
  BY <1>3, <1>4 DEF BothTurned

LEMMA SetEnabledSettled ==
  ASSUME NEW S \in StateType, Settled(S), NEW want \in BOOLEAN, S.l3
  PROVE  LET R == SetEnabled(S, want)
         IN  /\ R \in StateType /\ Settled(R) /\ R.enabled = want /\ (\A x \in Settings : R[x] = S[x])
             /\ S.hroute = {} => R.hroute = {}
<1> DEFINE R == SetEnabled(S, want)
<1>1. BothTurned(R, S, want)
  BY SetEnabledKeeps DEF Settled
<1> HIDE DEF R
<1>2. /\ R \in StateType /\ Settled(R) /\ R.enabled = want /\ (\A x \in Settings : R[x] = S[x])
      /\ S.hroute = {} => R.hroute = {}
  BY <1>1, TurnedSettled
<1> QED
  BY <1>2 DEF R

-----------------------------------------------------------------------------
(***************************************************************************)
(* interface_ip_flush(), interface_ip_update_complete() and                *)
(* interface_change_config().                                              *)
(***************************************************************************)
\* After interface_ip_flush() the protocol has nothing.
LEMMA FlushSettled ==
  ASSUME NEW S \in StateType, Settled(S)
  PROVE  LET R == interface_ip_flush(S)
         IN  /\ R \in StateType /\ Settled(R) /\ R.enabled = S.enabled /\ (\A x \in Settings : R[x] = S[x])
             /\ R.addr = {} /\ R.route = {} /\ R.hroute = {} /\ R.neigh = {}
<1> DEFINE A == RemoveRoutes(S, "hroute", S.hroute)
           B == RemoveRoutes(A, "route", S.route)
           C == RemoveAddrs(B, S.addr)
           R == RemoveNeighs(C, S.neigh)
<1>1. interface_ip_flush(S) = R
  BY DEF interface_ip_flush
<1>2. A \in StateType /\ Settled(A) /\ Same(A, S, RouteFields("hroute")) /\ A["hroute"] = {}
  <2> "hroute" \in RouteLists /\ S["hroute"] = S.hroute
    BY DEF RouteLists
  <2>1. S.hroute \in SUBSET S["hroute"]
    OBVIOUS
  <2>2. /\ A \in StateType /\ Settled(A) /\ Same(A, S, RouteFields("hroute"))
        /\ A["hroute"] \subseteq S["hroute"] /\ A["hroute"] \cap S.hroute = {}
    BY <2>1, RemoveRoutesSettled
  <2> HIDE DEF A
  <2> QED
    BY <2>2
<1> HIDE DEF A
<1>3. /\ \A x \in Settings : A[x] = S[x]
      /\ A.enabled = S.enabled /\ A.addr = S.addr /\ A.neigh = S.neigh /\ A["route"] = S.route
  BY <1>2 DEF Same, Fields, RouteFields, Settings
<1>4. B \in StateType /\ Settled(B) /\ Same(B, A, RouteFields("route")) /\ B["route"] = {}
  <2>1. S.route \in SUBSET A["route"] /\ "route" \in RouteLists
    BY <1>3 DEF RouteLists
  <2>2. /\ B \in StateType /\ Settled(B) /\ Same(B, A, RouteFields("route"))
        /\ B["route"] \subseteq A["route"] /\ B["route"] \cap S.route = {}
    BY <1>2, <2>1, RemoveRoutesSettled
  <2> HIDE DEF B
  <2> QED
    BY <1>3, <2>2
<1> HIDE DEF B
<1>5. /\ \A x \in Settings : B[x] = A[x]
      /\ B.enabled = A.enabled /\ B.addr = A.addr /\ B.neigh = A.neigh /\ B["hroute"] = A["hroute"]
  BY <1>4 DEF Same, Fields, RouteFields, Settings
<1>6. S.addr \in SUBSET EntryType /\ IsFiniteSet(S.addr)
  BY Typed DEF Settled, Core, Finite
<1>7. C \in StateType /\ Settled(C) /\ Same(C, B, AddrFields) /\ C.addr = B.addr \ S.addr
  BY <1>4, <1>6, RemoveAddrsSettled
<1> HIDE DEF C
<1>8. /\ \A x \in Settings : C[x] = B[x]
      /\ C.enabled = B.enabled /\ C.neigh = B.neigh /\ C["hroute"] = B["hroute"] /\ C["route"] = B["route"]
  BY <1>7 DEF Same, Fields, AddrFields, KernelFields, Settings
<1>9. S.neigh \in SUBSET C.neigh
  BY <1>3, <1>5, <1>8
<1>10. R \in StateType /\ Settled(R) /\ Same(R, C, NeighFields) /\ R.neigh = C.neigh \ S.neigh
  BY <1>7, <1>9, RemoveNeighsSettled
<1> HIDE DEF R
<1>11. /\ \A x \in Settings : R[x] = C[x]
       /\ R.enabled = C.enabled /\ R.addr = C.addr /\ R["hroute"] = C["hroute"] /\ R["route"] = C["route"]
  BY <1>10 DEF Same, Fields, NeighFields, Settings
<1>12. R.addr = {} /\ R.neigh = {}
  BY <1>3, <1>5, <1>7, <1>8, <1>10, <1>11
<1>13. R.route = {} /\ R.hroute = {}
  BY <1>2, <1>4, <1>5, <1>8, <1>11
<1>14. (\A x \in Settings : R[x] = S[x]) /\ R.enabled = S.enabled
  BY <1>3, <1>5, <1>8, <1>11
<1> QED
  BY <1>1, <1>10, <1>12, <1>13, <1>14

\* What an update of the protocol's lists leaves alone.
ProtoFields == {"addr", "route", "neigh", "kaddr", "kroute", "knull", "krule", "kneigh", "lost", "orphans", "fresh",
                "unsorted", "nrefused"}

\* interface_ip_update_complete() leaves what is settled.
LEMMA FlushedSettled ==
  ASSUME NEW S \in StateType, Settled(S), NEW m
  PROVE  LET R == Flushed(S, m) IN R \in StateType /\ Settled(R) /\ Same(R, S, ProtoFields)
<1> DEFINE T == S.route \ S.fresh
           U == {a \in S.addr : AddrKey(a) \notin {AddrKey(Indexed(m)[j]) : j \in DOMAIN m.addr}}
           V == {n \in S.neigh : n.id \notin {d.id : d \in m.neigh}}
           A == RemoveRoutes(S, "route", T)
           B == RemoveAddrs(A, U)
           R == RemoveNeighs(B, V)
<1>1. Flushed(S, m) = R
  BY DEF Flushed
<1>2. T \in SUBSET S["route"] /\ "route" \in RouteLists
  BY DEF RouteLists
<1>3. U \in SUBSET EntryType /\ IsFiniteSet(U)
  <2>1. S.addr \in SUBSET EntryType /\ IsFiniteSet(S.addr)
    BY Typed DEF Settled, Core, Finite
  <2>2. U \subseteq S.addr
    OBVIOUS
  <2> HIDE DEF U
  <2> QED
    BY <2>1, <2>2, FS_Subset
<1>4. V \in SUBSET S.neigh
  OBVIOUS
<1> HIDE DEF T, U, V
<1>5. A \in StateType /\ Settled(A) /\ Same(A, S, RouteFields("route"))
  BY <1>2, RemoveRoutesSettled
<1> HIDE DEF A
<1>6. B \in StateType /\ Settled(B) /\ Same(B, A, AddrFields)
  BY <1>3, <1>5, RemoveAddrsSettled
<1> HIDE DEF B
<1>7. A.neigh = S.neigh
  BY <1>5 DEF Same, Fields, RouteFields
<1>8. B.neigh = A.neigh
  BY <1>6 DEF Same, Fields, AddrFields, KernelFields
<1>9. R \in StateType /\ Settled(R) /\ Same(R, B, NeighFields)
  BY <1>4, <1>6, <1>7, <1>8, RemoveNeighsSettled
<1> HIDE DEF R
<1>10. Same(A, S, ProtoFields)
  BY <1>5, SameMore DEF ProtoFields, RouteFields
<1>11. Same(B, A, ProtoFields)
  BY <1>6, SameMore DEF ProtoFields, AddrFields, KernelFields
<1>12. Same(R, B, ProtoFields)
  BY <1>9, SameMore DEF ProtoFields, NeighFields
<1> QED
  BY <1>1, <1>9, <1>10, <1>11, <1>12, SameStep

\* The new settings before anything follows them.
Resettled(S, new) == [S EXCEPT !.set = new]

\* New settings alone do not touch the kernel.
LEMMA ResettledFacts ==
  ASSUME NEW S \in StateType, Core(S), NEW new \in SetType
  PROVE  LET R == Resettled(S, new) IN R \in StateType /\ Core(R) /\ Same(R, S, {"set"}) /\ R.set = new
<1> DEFINE R == Resettled(S, new)
<1>1. R \in StateType
  BY DEF StateType, Resettled
<1>2. Same(R, S, {"set"}) /\ R.set = new
  BY Typed DEF Same, Fields, Resettled
<1> HIDE DEF R
<1>3. /\ R.addr = S.addr /\ R.kaddr = S.kaddr /\ R.knull = S.knull /\ R.neigh = S.neigh /\ R.kneigh = S.kneigh
      /\ R.nrefused = S.nrefused /\ R.kroute = S.kroute /\ R.lost = S.lost /\ (\A M \in RouteLists : R[M] = S[M])
      /\ R.orphans = S.orphans /\ R.policy_rules_set = S.policy_rules_set /\ R.krule = S.krule
  BY <1>2 DEF Same, Fields, RouteLists
<1>4. AddrOK(R) /\ NullOK(R) /\ RulesOK(R)
  <2>1. \A kind : LostSame(R, S, kind) /\ OrphansSame(R, S, kind)
    BY <1>3 DEF LostSame, OrphansSame
  <2> QED
    BY <1>3, <2>1, AddrFrame, NullFrame, RulesFrame DEF Core
<1>5. Enabled(R) = Enabled(S) /\ Needed(R) = Needed(S)
  BY <1>3, EnabledSame
<1>6. RoutesOK(R)
  BY <1>3, <1>5 DEF Core, RoutesOK, Has, Owns
<1>7. NeighOK(R) /\ Finite(R) /\ Keys(R) /\ SubnetsOff(R)
  BY <1>3, NeighFrame DEF Core, Finite, Keys, SubnetsOff
<1>8. Core(R)
  BY <1>4, <1>6, <1>7 DEF Core
<1> QED
  BY <1>1, <1>2, <1>8 DEF R

\* Without a layer 3 device nothing is turned on.
LEMMA NoDevice ==
  ASSUME NEW S \in StateType, ~S.l3, ~S.enabled
  PROVE  /\ SetEnabled(S, FALSE) = S
         /\ SetEnabledConfig(interface_ip_set_enabled(S, FALSE), FALSE) = S
<1>1. [S EXCEPT !.enabled = FALSE] = S
  <2>1. S.enabled = FALSE
    BY Typed
  <2>2. Switched(S, FALSE) = S
    BY <2>1, SwitchedFacts
  <2> QED
    BY <2>2 DEF Switched
<1>2. SetEnabledConfig(S, FALSE) = S
  BY <1>1 DEF SetEnabledConfig
<1>3. interface_ip_set_enabled(S, FALSE) = S
  BY <1>1 DEF interface_ip_set_enabled
<1> QED
  BY <1>2, <1>3 DEF SetEnabled

\* After interface_change_config() everything follows the new settings.
LEMMA ReloadSettled ==
  ASSUME NEW S \in StateType, Inv(S), NEW new \in SetType
  PROVE  LET R == reload_ip(S, new)
         IN  /\ R \in StateType /\ Inv(R) /\ R.set = new
             /\ \A x \in Settings \ {"set"} : R[x] = S[x]
             /\ new = S.set => R = S
<1> DEFINE T == Resettled(S, new)
           A == SetEnabled(T, FALSE)
           R == SetEnabledConfig(interface_ip_set_enabled(A, S.enabled), S.enabled)
<1> USE DEF Inv
<1>1. CASE new = S.set
  BY <1>1 DEF reload_ip
<1>2. CASE new # S.set
  <2>1. reload_ip(S, new) = R
    BY <1>2 DEF reload_ip, Resettled
  <2>2. T \in StateType /\ Core(T) /\ Same(T, S, {"set"}) /\ T.set = new
    BY ResettledFacts DEF Settled
  <2> HIDE DEF T
  <2>3. /\ T.l3 = S.l3 /\ T.enabled = S.enabled /\ T.policy_rules_set = S.policy_rules_set
        /\ T.addr = S.addr /\ T.neigh = S.neigh /\ T.krule = S.krule /\ T.orphans = S.orphans
        /\ T.up = S.up /\ T.unclaimed = S.unclaimed
        /\ (\A x \in Settings \ {"set"} : T[x] = S[x]) /\ (\A L \in RouteLists : T[L] = S[L])
    BY <2>2 DEF Same, Fields, Settings, RouteLists
  <2>4. S.enabled \in BOOLEAN /\ S.l3 \in BOOLEAN /\ T.policy_rules_set = S.enabled
    BY <2>3, Typed DEF Settled
  <2>5. CASE S.l3
    <3>1. /\ Keeps(A, T) /\ (\A x \in Settings : A[x] = T[x]) /\ TurnedTo(A, FALSE)
          /\ T.policy_rules_set # FALSE => RulesCurrent(A)
      BY <2>2, <2>3, <2>5, SetEnabledKeeps DEF BothTurned
    <3> HIDE DEF A
    <3>2. RulesCurrent(A)
      <4>1. CASE S.enabled
        BY <2>4, <3>1, <4>1
      <4>2. CASE ~S.enabled
        <5>1. \A x \in S.krule : x \in IfRuleType => <<"rule", x>> \in S.orphans
          BY <2>3, <2>4, <4>2 DEF Settled, RulesCurrent
        <5>2. RulesCurrent(T)
          BY <2>3, <5>1 DEF RulesCurrent
        <5> QED
          BY <3>1, <5>2 DEF Keeps
      <4> QED
        BY <4>1, <4>2
    <3>3. SubnetsCurrent(A) /\ \A L \in RouteLists : Current(A, L)
      BY <3>1, OffCurrent
    <3>4. A \in StateType /\ Core(A)
      BY <3>1 DEF Keeps
    <3>5. Settled(A)
      BY <3>1, <3>2, <3>3, <3>4 DEF Settled, TurnedTo, ProtoTurned, RouteLists
    <3>6. A.l3 = T.l3 /\ A.set = T.set
      BY <3>1 DEF Settings
    <3>7. R \in StateType /\ Settled(R) /\ R.enabled = S.enabled /\ (\A x \in Settings : R[x] = A[x])
      <4>1. A.l3 /\ S.enabled \in BOOLEAN
        BY <2>3, <2>4, <2>5, <3>6
      <4> HIDE DEF Inv
      <4>2. \A want \in BOOLEAN : BothTurned(SetEnabledConfig(interface_ip_set_enabled(A, want), want), A, want)
        BY <3>4, <4>1, ProtoFirst
      <4>3. BothTurned(R, A, S.enabled)
        BY <4>1, <4>2
      <4> HIDE DEF R
      <4> QED
        BY <3>5, <4>3, TurnedSettled
    <3> HIDE DEF R
    <3>8. R.l3 = S.l3 /\ R.up = S.up /\ R.unclaimed = S.unclaimed /\ R.set = new /\ \A x \in Settings \ {"set"} : R[x] = S[x]
      BY <2>2, <2>3, <3>1, <3>6, <3>7 DEF Settings
    <3>9. Inv(R)
      BY <2>5, <3>7, <3>8
    <3> QED
      BY <1>2, <2>1, <3>7, <3>8, <3>9
  <2>6. CASE ~S.l3
    <3>1. A = T
      BY <2>2, <2>3, <2>6, NoDevice
    <3>2. R = T
      <4>1. S.enabled = FALSE
        BY <2>4, <2>6
      <4> QED
        BY <2>2, <2>3, <2>6, <3>1, <4>1, NoDevice
    <3>3. SubnetsCurrent(T) /\ NeighCurrent(T) /\ T.policy_rules_set = T.enabled
      BY <2>3, <2>4, <2>6 DEF SubnetsCurrent, NeighCurrent
    <3>4. RulesCurrent(T)
      BY <2>3, <2>4, <2>6 DEF Settled, RulesCurrent
    <3>5. \A L \in RouteLists : Obeys(T, L)
      BY <2>3, <2>6 DEF Settled, Obeys, enable_route
    <3>6. \A L \in RouteLists : Current(T, L)
      BY <2>3, <2>6, <3>5 DEF Current, Obeys, enable_route
    <3>7. Settled(T)
      BY <2>2, <3>3, <3>4, <3>5, <3>6 DEF Settled, RouteLists
    <3>8. T.route = {} /\ T.hroute = {}
      BY <2>3, <2>6 DEF RouteLists
    <3>9. Inv(T)
      BY <2>3, <2>6, <3>7, <3>8
    <3> QED
      BY <1>2, <2>1, <2>2, <2>3, <3>2, <3>9
  <2> QED
    BY <2>4, <2>5, <2>6
<1> QED
  BY <1>1, <1>2

-----------------------------------------------------------------------------
(***************************************************************************)
(* The steps.                                                              *)
(***************************************************************************)
StepFields == {"l3", "up", "faults", "bad", "fresh", "unsorted", "unclaimed", "unseen", "met"}

\* What is settled does not depend on the state of the interface.
LEMMA SettledSame ==
  ASSUME NEW S, NEW R, Settled(S), Same(R, S, StepFields)
  PROVE  Settled(R)
<1>1. /\ R.addr = S.addr /\ R.kaddr = S.kaddr /\ R.knull = S.knull /\ R.neigh = S.neigh /\ R.kneigh = S.kneigh
      /\ R.nrefused = S.nrefused /\ R.kroute = S.kroute /\ R.lost = S.lost /\ (\A M \in RouteLists : R[M] = S[M])
      /\ R.orphans = S.orphans /\ R.policy_rules_set = S.policy_rules_set /\ R.krule = S.krule
      /\ R.set = S.set /\ R.enabled = S.enabled
  BY DEF Same, Fields, RouteLists, StepFields
<1>2. Core(R)
  <2>1. AddrOK(R)
    BY <1>1 DEF Settled, Core, AddrOK
  <2>2. NullOK(R)
    BY <1>1 DEF Settled, Core, NullOK
  <2>3. RulesOK(R)
    BY <1>1 DEF Settled, Core, RulesOK
  <2>4. Enabled(R) = Enabled(S) /\ Needed(R) = Needed(S)
    BY <1>1, EnabledSame
  <2>5. RoutesOK(R)
    BY <1>1, <2>4 DEF Settled, Core, RoutesOK, Has, Owns
  <2>6. NeighOK(R) /\ Finite(R) /\ Keys(R) /\ SubnetsOff(R)
    BY <1>1, NeighFrame DEF Settled, Core, Finite, Keys, SubnetsOff
  <2> QED
    BY <2>1, <2>2, <2>3, <2>5, <2>6 DEF Core
<1>3. SubnetsCurrent(R) /\ NeighCurrent(R) /\ R.policy_rules_set = R.enabled
  BY <1>1 DEF Settled, SubnetsCurrent, Subnet, NeighCurrent
<1>4. RulesCurrent(R)
  BY <1>1 DEF Settled, RulesCurrent, IfRules
<1>5. \A L \in RouteLists : Obeys(R, L)
  BY <1>1 DEF Settled, Obeys, enable_route
<1>6. Current(R, "route") /\ Current(R, "croute")
  BY <1>1 DEF Settled, Current, RouteLists
<1> QED
  BY <1>2, <1>3, <1>4, <1>5, <1>6 DEF Settled

\* A state between two steps.
Ready(S) == S \in StateType /\ Inv(S) /\ S.set \in {c.set : c \in Configs} /\ S.faults \in 0..MaxFaults

\* The state after a step to S.
Pruned(S) ==
  [l3 |-> S.l3, up |-> S.up, enabled |-> S.enabled, set |-> S.set, addr |-> S.addr, route |-> S.route,
   neigh |-> S.neigh, croute |-> S.croute, hroute |-> S.hroute, policy_rules_set |-> S.policy_rules_set,
   kaddr |-> S.kaddr, kroute |-> S.kroute, knull |-> S.knull, krule |-> S.krule, kneigh |-> S.kneigh,
   lost |-> {x \in S.lost :
       CASE x[1] \in {"addr", "null"} -> \E a \in S.addr : a.enabled /\ a.id = x[2]
         [] x[1] = "rule" -> \E a \in S.addr : a.enabled /\ x[2] \in AddrRules(a)
         [] x[1] = "route" -> x[2] \in Enabled(S)},
   orphans |-> {x \in S.orphans : x[2] \in (CASE x[1] = "addr" -> {y.id : y \in S.kaddr}
                                               [] x[1] = "null" -> S.knull
                                               [] x[1] = "route" -> S.kroute
                                               [] x[1] = "rule" -> S.krule)},
   faults |-> S.faults, bad |-> {}, fresh |-> {}, unsorted |-> {L \in S.unsorted : \E r, q \in S[L] : r # q},
   nrefused |-> S.nrefused, unclaimed |-> S.unclaimed, unseen |-> {}, met |-> {}]

\* What that may change.
PrunedFields == {"lost", "orphans", "bad", "fresh", "unsorted", "unseen", "met"}

\* The history keeps what is still enabled or still in the kernel.
LEMMA PrunedFacts ==
  ASSUME NEW S \in StateType
  PROVE  LET R == Pruned(S)
         IN  /\ R \in StateType /\ Same(R, S, PrunedFields)
             /\ \A a \in S.addr : a.enabled =>
                  \A kind \in {"addr", "null"} : <<kind, a.id>> \in S.lost => <<kind, a.id>> \in R.lost
             /\ \A a \in S.addr : a.enabled =>
                  \A x \in AddrRules(a) : <<"rule", x>> \in S.lost => <<"rule", x>> \in R.lost
             /\ \A k \in Enabled(S) : <<"route", k>> \in S.lost => <<"route", k>> \in R.lost
             /\ \A x \in S.kaddr : <<"addr", x.id>> \in S.orphans => <<"addr", x.id>> \in R.orphans
             /\ \A x \in S.knull : <<"null", x>> \in S.orphans => <<"null", x>> \in R.orphans
             /\ \A x \in S.kroute : <<"route", x>> \in S.orphans => <<"route", x>> \in R.orphans
             /\ \A x \in S.krule : <<"rule", x>> \in S.orphans => <<"rule", x>> \in R.orphans
<1> DEFINE H == {x \in S.lost :
                   CASE x[1] \in {"addr", "null"} -> \E a \in S.addr : a.enabled /\ a.id = x[2]
                     [] x[1] = "rule" -> \E a \in S.addr : a.enabled /\ x[2] \in AddrRules(a)
                     [] x[1] = "route" -> x[2] \in Enabled(S)}
           O == {x \in S.orphans : x[2] \in (CASE x[1] = "addr" -> {y.id : y \in S.kaddr}
                                               [] x[1] = "null" -> S.knull
                                               [] x[1] = "route" -> S.kroute
                                               [] x[1] = "rule" -> S.krule)}
           U == {L \in S.unsorted : \E r, q \in S[L] : r # q}
           R == Pruned(S)
<1>1. H \in SUBSET HistoryType /\ O \in SUBSET HistoryType /\ U \in SUBSET RouteLists
  BY Typed
<1>2. ASSUME NEW a \in S.addr, a.enabled, NEW kind \in {"addr", "null"}, <<kind, a.id>> \in S.lost
      PROVE  <<kind, a.id>> \in H
  BY <1>2
<1>3. ASSUME NEW a \in S.addr, a.enabled, NEW x \in AddrRules(a), <<"rule", x>> \in S.lost
      PROVE  <<"rule", x>> \in H
  BY <1>3
<1>4. ASSUME NEW k \in Enabled(S), <<"route", k>> \in S.lost PROVE <<"route", k>> \in H
  BY <1>4
<1>5. ASSUME NEW x \in S.kaddr, <<"addr", x.id>> \in S.orphans PROVE <<"addr", x.id>> \in O
  BY <1>5
<1>6. ASSUME NEW x \in S.knull, <<"null", x>> \in S.orphans PROVE <<"null", x>> \in O
  BY <1>6
<1>7. ASSUME NEW x \in S.kroute, <<"route", x>> \in S.orphans PROVE <<"route", x>> \in O
  BY <1>7
<1>8. ASSUME NEW x \in S.krule, <<"rule", x>> \in S.orphans PROVE <<"rule", x>> \in O
  BY <1>8
<1>9. R = [l3 |-> S.l3, up |-> S.up, enabled |-> S.enabled, set |-> S.set, addr |-> S.addr, route |-> S.route,
           neigh |-> S.neigh, croute |-> S.croute, hroute |-> S.hroute, policy_rules_set |-> S.policy_rules_set,
           kaddr |-> S.kaddr, kroute |-> S.kroute, knull |-> S.knull, krule |-> S.krule, kneigh |-> S.kneigh,
           lost |-> H, orphans |-> O, faults |-> S.faults, bad |-> {}, fresh |-> {}, unsorted |-> U,
           nrefused |-> S.nrefused, unclaimed |-> S.unclaimed, unseen |-> {}, met |-> {}]
  BY DEF Pruned
<1> HIDE DEF H, O, U, R
<1>10. R \in StateType
  BY <1>1, <1>9 DEF StateType
<1>11. Same(R, S, PrunedFields) /\ R.lost = H /\ R.orphans = O
  BY <1>9 DEF Same, Fields, PrunedFields
<1> QED
  BY <1>2, <1>3, <1>4, <1>5, <1>6, <1>7, <1>8, <1>10, <1>11 DEF R

\* What the history no longer has to say is not missed.
LEMMA PrunedReady ==
  ASSUME NEW S, Ready(S)
  PROVE  Ready(Pruned(S))
<1> DEFINE R == Pruned(S)
<1> S \in StateType /\ Inv(S) /\ Settled(S) /\ Core(S)
  BY DEF Ready, Inv, Settled
<1>1. /\ R \in StateType /\ Same(R, S, PrunedFields)
      /\ \A a \in S.addr : a.enabled =>
           \A kind \in {"addr", "null"} : <<kind, a.id>> \in S.lost => <<kind, a.id>> \in R.lost
      /\ \A a \in S.addr : a.enabled =>
           \A x \in AddrRules(a) : <<"rule", x>> \in S.lost => <<"rule", x>> \in R.lost
      /\ \A k \in Enabled(S) : <<"route", k>> \in S.lost => <<"route", k>> \in R.lost
      /\ \A x \in S.kaddr : <<"addr", x.id>> \in S.orphans => <<"addr", x.id>> \in R.orphans
      /\ \A x \in S.knull : <<"null", x>> \in S.orphans => <<"null", x>> \in R.orphans
      /\ \A x \in S.kroute : <<"route", x>> \in S.orphans => <<"route", x>> \in R.orphans
      /\ \A x \in S.krule : <<"rule", x>> \in S.orphans => <<"rule", x>> \in R.orphans
  BY PrunedFacts
<1> HIDE DEF R
<1>2. /\ R.addr = S.addr /\ R.kaddr = S.kaddr /\ R.knull = S.knull /\ R.neigh = S.neigh /\ R.kneigh = S.kneigh
      /\ R.nrefused = S.nrefused /\ R.kroute = S.kroute /\ (\A M \in RouteLists : R[M] = S[M])
      /\ R.policy_rules_set = S.policy_rules_set /\ R.krule = S.krule
      /\ R.set = S.set /\ R.enabled = S.enabled /\ R.l3 = S.l3 /\ R.up = S.up /\ R.faults = S.faults
      /\ R.route = S.route /\ R.hroute = S.hroute /\ R.unclaimed = S.unclaimed
  BY <1>1 DEF Same, Fields, RouteLists, PrunedFields
<1>3. AddrOK(R)
  BY <1>1, <1>2 DEF Core, AddrOK
<1>4. NullOK(R)
  BY <1>1, <1>2 DEF Core, NullOK
<1>5. RulesOK(R)
  BY <1>1, <1>2 DEF Core, RulesOK
<1>6. Enabled(R) = Enabled(S) /\ Needed(R) = Needed(S) /\ Needed(S) \subseteq Enabled(S)
  BY <1>2, EnabledSame, EnabledTyped
<1>7. RoutesOK(R)
  BY <1>1, <1>2, <1>6 DEF Core, RoutesOK, Has, Owns
<1>8. NeighOK(R) /\ Finite(R) /\ Keys(R) /\ SubnetsOff(R)
  BY <1>2, NeighFrame DEF Core, Finite, Keys, SubnetsOff
<1>9. Core(R)
  BY <1>3, <1>4, <1>5, <1>7, <1>8 DEF Core
<1>10. SubnetsCurrent(R) /\ NeighCurrent(R) /\ R.policy_rules_set = R.enabled
  BY <1>2 DEF Settled, SubnetsCurrent, Subnet, NeighCurrent
<1>11. RulesCurrent(R)
  BY <1>1, <1>2 DEF Settled, RulesCurrent, IfRules
<1>12. \A L \in RouteLists : Obeys(R, L)
  BY <1>2 DEF Settled, Obeys, enable_route
<1>13. Current(R, "route") /\ Current(R, "croute")
  BY <1>2 DEF Settled, Current, RouteLists
<1>14. Settled(R)
  BY <1>9, <1>10, <1>11, <1>12, <1>13 DEF Settled
<1>15. Ready(R)
  BY <1>1, <1>2, <1>14 DEF Ready, Inv
<1> QED
  BY <1>15 DEF R

\* The inductive invariant.
Resting == faults \in Nat /\ Ready(Now({}))

\* A step to a state in order rests in one.
LEMMA BecomesReady ==
  ASSUME NEW S, Ready(S), Becomes(S)
  PROVE  Resting' /\ hroute' = S.hroute /\ set' = S.set /\ up' = S.up
<1>1. S.faults \in Nat /\ Cardinality({}) = 0
  BY FS_EmptySet, Typed DEF Ready
<1>2. S.faults + Cardinality({}) = S.faults
  BY <1>1
<1>3. Now({})' = Pruned(S)
  BY <1>2 DEF Now, Becomes, Pruned
<1>4. Ready(Pruned(S))
  BY PrunedReady
<1>5. faults' \in Nat
  BY <1>1 DEF Becomes
<1> QED
  BY <1>3, <1>4, <1>5 DEF Resting, Becomes

\* The record has the values of the variables.
LEMMA NowFacts ==
  ASSUME NEW bad
  PROVE  LET S == Now(bad)
         IN  /\ S.l3 = l3 /\ S.up = up /\ S.enabled = enabled /\ S.set = set /\ S.unclaimed = unclaimed
             /\ S.addr = addr /\ S.route = route /\ S.croute = croute /\ S.hroute = hroute
  BY DEF Now

\* Refusals stay within their bound.
LEMMA BadFacts ==
  ASSUME NEW T, NEW bad \in Bad(T), Resting
  PROVE  Ready(Now(bad))
<1> DEFINE N == Now({})
           R == Now(bad)
<1>1. Cardinality({}) = 0 /\ \A x : Cardinality({x}) = 1
  BY FS_EmptySet, FS_Singleton
<1>2. N.faults = faults + 0
  BY <1>1 DEF Now
<1>3. faults + 0 \in 0..MaxFaults /\ MaxFaults \in Nat
  BY <1>2, IpAssumption DEF Ready, Resting
<1>4. faults + Cardinality(bad) \in 0..MaxFaults /\ bad \in SUBSET Refused
  <2>1. CASE bad = {}
    BY <1>1, <1>3, <2>1
  <2>2. CASE bad # {}
    <3>1. PICK x \in IF faults < MaxFaults THEN T \cap Refused ELSE {} : bad = {x}
      BY <2>2 DEF Bad
    <3>2. faults < MaxFaults /\ x \in Refused
      BY <3>1
    <3>3. Cardinality(bad) = 1 /\ bad \in SUBSET Refused
      BY <1>1, <3>1, <3>2
    <3> QED
      BY <1>3, <3>2, <3>3 DEF Resting
  <2> QED
    BY <2>1, <2>2
<1>5. R \in StateType
  BY <1>4 DEF Ready, Resting, StateType, Now
<1>6. Same(R, N, {"faults", "bad"}) /\ R.faults = faults + Cardinality(bad)
  BY DEF Same, Fields, Now
<1> HIDE DEF R, N
<1>7. Same(R, N, StepFields)
  BY <1>6, SameMore DEF StepFields
<1>8. Settled(R)
  BY <1>7, SettledSame DEF Ready, Resting, Inv, N
<1>9. /\ R.l3 = N.l3 /\ R.up = N.up /\ R.enabled = N.enabled /\ R.addr = N.addr /\ R.route = N.route
      /\ R.hroute = N.hroute /\ R.neigh = N.neigh /\ R.set = N.set /\ R.unclaimed = N.unclaimed
  BY <1>6 DEF Same, Fields
<1>10. Ready(R)
  BY <1>4, <1>5, <1>6, <1>8, <1>9 DEF Ready, Resting, Inv, N
<1> QED
  BY <1>10 DEF R

\* What the searches of a tree out of order meet does not change what is in order.
LEMMA SearchingReady ==
  ASSUME NEW S, Ready(S), NEW L \in RouteLists, NEW R \in Searching(S, L)
  PROVE  Ready(R) /\ Same(R, S, {"unseen", "met"})
<1> DEFINE All == {Node(r) : r \in S[L]}
           Twice == {Node(r) : r \in {x \in S[L] : \E q \in S[L] \ {x} : RouteKey(q) = RouteKey(x)}}
<1>1. S \in StateType /\ S[L] \in SUBSET RouteEntryType
  BY Typed DEF Ready
<1>2. \A r \in RouteEntryType : Node(r) \in NodeType
  BY DEF Node, NodeType, RouteEntryType
<1>3. All \subseteq NodeType /\ Twice \subseteq NodeType
  BY <1>1, <1>2
<1>4. CASE R = S
  BY <1>4 DEF Same
<1>5. CASE R # S
  <2>0. R \in {[S EXCEPT !.unseen = c[1], !.met = c[2]] : c \in (SUBSET All) \X (SUBSET Twice)}
    BY <1>5, Zenon DEF Searching
  <2> HIDE DEF All, Twice
  <2>1. PICK u \in SUBSET All, m \in SUBSET Twice : R = [S EXCEPT !.unseen = u, !.met = m]
    BY <2>0
  <2>2. u \in SUBSET NodeType /\ m \in SUBSET NodeType
    BY <1>3, <2>1
  <2>3. R \in StateType
    BY <1>1, <2>1, <2>2 DEF StateType
  <2>4. Same(R, S, {"unseen", "met"})
    BY <1>1, <2>1, Typed DEF Same, Fields
  <2>5. Settled(R)
    BY <2>4, SettledSame, SameMore DEF StepFields, Ready, Inv
  <2>6. /\ R.l3 = S.l3 /\ R.up = S.up /\ R.enabled = S.enabled /\ R.addr = S.addr /\ R.route = S.route
        /\ R.hroute = S.hroute /\ R.neigh = S.neigh /\ R.set = S.set /\ R.unclaimed = S.unclaimed
        /\ R.faults = S.faults
    BY <2>4 DEF Same, Fields
  <2> QED
    BY <2>3, <2>4, <2>5, <2>6 DEF Ready, Inv
<1> QED
  BY <1>4, <1>5

\* What the invariant says of the variables.
LEMMA RestFacts ==
  ASSUME Resting
  PROVE  /\ Ready(Now({})) /\ Now({}) \in StateType /\ Settled(Now({})) /\ Inv(Now({}))
         /\ l3 \in BOOLEAN /\ up \in BOOLEAN /\ enabled \in BOOLEAN /\ unclaimed \in BOOLEAN
         /\ Now({}).l3 = l3 /\ Now({}).up = up /\ Now({}).enabled = enabled /\ Now({}).set = set
         /\ Now({}).addr = addr /\ Now({}).route = route /\ Now({}).croute = croute /\ Now({}).hroute = hroute
         /\ up => l3 /\ (enabled \/ unclaimed)
         /\ ~l3 => ~enabled
<1>1. /\ Now({}).l3 = l3 /\ Now({}).up = up /\ Now({}).enabled = enabled /\ Now({}).set = set
      /\ Now({}).addr = addr /\ Now({}).route = route /\ Now({}).croute = croute /\ Now({}).hroute = hroute
      /\ Now({}).unclaimed = unclaimed
  BY DEF Now
<1> QED
  BY <1>1, Typed DEF Resting, Ready, Inv

\* The layer 3 device, whether it could not be claimed, and the state of the interface.
Placed(S, device, state, failing) == [S EXCEPT !.up = state, !.l3 = device, !.unclaimed = failing]

\* A settled state with a device, or without one and with empty lists, is in order.
LEMMA PlacedReady ==
  ASSUME NEW S \in StateType, Settled(S), NEW device \in BOOLEAN, NEW state \in BOOLEAN, NEW failing \in BOOLEAN,
         state => device /\ (S.enabled \/ failing),
         ~device => ~S.enabled /\ S.addr = {} /\ S.route = {} /\ S.hroute = {} /\ S.neigh = {},
         S.set \in {c.set : c \in Configs}, S.faults \in 0..MaxFaults
  PROVE  LET R == Placed(S, device, state, failing) IN Ready(R) /\ R.hroute = S.hroute /\ R.up = state
<1> DEFINE R == Placed(S, device, state, failing)
<1>1. R \in StateType
  BY DEF StateType, Placed
<1>2. Same(R, S, {"l3", "up", "unclaimed"}) /\ R.l3 = device /\ R.up = state /\ R.unclaimed = failing
  BY Typed DEF Same, Fields, Placed
<1> HIDE DEF R
<1>3. Settled(R)
  BY <1>2, SettledSame, SameMore DEF StepFields
<1>4. /\ R.enabled = S.enabled /\ R.addr = S.addr /\ R.route = S.route
      /\ R.hroute = S.hroute /\ R.neigh = S.neigh /\ R.set = S.set /\ R.faults = S.faults
  BY <1>2 DEF Same, Fields
<1>5. Ready(R)
  BY <1>1, <1>2, <1>3, <1>4 DEF Ready, Inv
<1> QED
  BY <1>2, <1>4, <1>5 DEF R

\* A state with the settings of a resting one.
LEMMA SettingsReady ==
  ASSUME NEW S, Ready(S), NEW R, \A x \in Settings : R[x] = S[x]
  PROVE  /\ R.l3 = S.l3 /\ R.up = S.up /\ R.set = S.set /\ R.faults = S.faults /\ R.unclaimed = S.unclaimed
         /\ R.set \in {c.set : c \in Configs} /\ R.faults \in 0..MaxFaults
  BY DEF Ready, Settings

\* mark_interface_down() turns everything off and empties the lists of the protocol.
LEMMA MarkDown ==
  ASSUME NEW S, Ready(S), S.l3
  PROVE  LET R == mark_interface_down(S)
         IN  /\ R \in StateType /\ Settled(R) /\ R.enabled = FALSE
             /\ R.addr = {} /\ R.route = {} /\ R.hroute = {} /\ R.neigh = {}
             /\ R.set = S.set /\ R.set \in {c.set : c \in Configs} /\ R.faults \in 0..MaxFaults
             /\ R.l3 = TRUE /\ R.up = S.up /\ R.unclaimed = S.unclaimed
<1> DEFINE A == SetEnabled(S, FALSE)
           R == interface_ip_flush(A)
<1>1. mark_interface_down(S) = R
  BY DEF mark_interface_down
<1>2. A \in StateType /\ Settled(A) /\ A.enabled = FALSE /\ (\A x \in Settings : A[x] = S[x])
  BY SetEnabledSettled DEF Ready, Inv
<1> HIDE DEF A
<1>3. /\ R \in StateType /\ Settled(R) /\ R.enabled = A.enabled /\ (\A x \in Settings : R[x] = A[x])
      /\ R.addr = {} /\ R.route = {} /\ R.hroute = {} /\ R.neigh = {}
  BY <1>2, FlushSettled
<1> HIDE DEF R
<1>4. \A x \in Settings : R[x] = S[x]
  BY <1>2, <1>3
<1>5. S.l3 = TRUE
  BY Typed DEF Ready
<1> QED
  BY <1>1, <1>2, <1>3, <1>4, <1>5, SettingsReady

\* interface_set_l3_dev().
LEMMA SetL3Rests == ASSUME Resting, SetL3 PROVE Resting' /\ hroute' \subseteq hroute
<1> DEFINE X == IF l3 THEN {<<"claim", "l3">>} \cup Refusable({}, croute, {}) ELSE {}
<1>1. PICK bad \in Bad(X) :
        LET S == Now(bad)
            S1 == interface_ip_flush(SetEnabled(S, FALSE))
        IN  Becomes(IF ~l3 THEN [S EXCEPT !.l3 = TRUE, !.enabled = FALSE]
                    ELSE IF <<"claim", "l3">> \in bad THEN [S1 EXCEPT !.unclaimed = up]
                    ELSE SetEnabled(S1, enabled))
  BY Zenon DEF SetL3
<1> DEFINE S == Now(bad)
           A == mark_interface_down(S)
<1>2. Ready(S)
  BY BadFacts
<1>3. /\ S.l3 = l3 /\ S.up = up /\ S.enabled = enabled /\ S.hroute = hroute /\ S.unclaimed = unclaimed
  BY NowFacts
<1>4. /\ l3 \in BOOLEAN /\ up \in BOOLEAN /\ enabled \in BOOLEAN /\ unclaimed \in BOOLEAN
      /\ up => l3 /\ (enabled \/ unclaimed)
      /\ ~l3 => ~enabled
  BY RestFacts
<1>5. CASE ~l3
  <2> DEFINE R == [S EXCEPT !.l3 = TRUE, !.enabled = FALSE]
             T == Placed(S, TRUE, FALSE, unclaimed)
  <2>1. Becomes(R)
    BY <1>1, <1>5
  <2> HIDE DEF S
  <2>2. S.enabled = FALSE /\ S.up = FALSE
    BY <1>3, <1>4, <1>5
  <2>3. R = T
    BY <1>2, <1>3, <2>2 DEF StateType, Placed, Ready
  <2>4. S \in StateType /\ Settled(S) /\ S.set \in {c.set : c \in Configs} /\ S.faults \in 0..MaxFaults
    BY <1>2 DEF Ready, Inv
  <2>5. Ready(T) /\ T.hroute = S.hroute
    BY <1>4, <2>4, PlacedReady
  <2> HIDE DEF R, T
  <2> QED
    BY <1>3, <2>1, <2>3, <2>5, BecomesReady
<1>6. CASE l3 /\ <<"claim", "l3">> \in bad
  <2> DEFINE R == [A EXCEPT !.unclaimed = up]
             T == Placed(A, l3, up, up)
  <2>1. Becomes(R)
    BY <1>1, <1>6 DEF mark_interface_down
  <2> HIDE DEF S
  <2>2. A \in StateType /\ Settled(A) /\ A.set \in {c.set : c \in Configs} /\ A.faults \in 0..MaxFaults
    BY <1>2, <1>3, <1>6, MarkDown
  <2>3. A.l3 = TRUE /\ A.up = up /\ A.hroute = {}
    BY <1>2, <1>3, <1>6, MarkDown
  <2> HIDE DEF A
  <2>4. R = T
    BY <1>6, <2>2, <2>3 DEF StateType, Placed
  <2>5. Ready(T) /\ T.hroute = A.hroute
    <3>1. up => l3 /\ (A.enabled \/ up)
      BY <1>6
    <3>2. ~l3 => ~A.enabled /\ A.addr = {} /\ A.route = {} /\ A.hroute = {} /\ A.neigh = {}
      BY <1>6
    <3> QED
      BY <1>4, <2>2, <3>1, <3>2, PlacedReady
  <2> HIDE DEF R, T
  <2> QED
    BY <2>1, <2>3, <2>4, <2>5, BecomesReady
<1>7. CASE l3 /\ <<"claim", "l3">> \notin bad
  <2> DEFINE R == SetEnabled(A, enabled)
  <2>1. Becomes(R)
    BY <1>1, <1>7 DEF mark_interface_down
  <2> HIDE DEF S
  <2>2. /\ A \in StateType /\ Settled(A) /\ A.set \in {c.set : c \in Configs} /\ A.faults \in 0..MaxFaults
        /\ A.l3 = TRUE /\ A.up = up /\ A.unclaimed = unclaimed /\ A.hroute = {}
    BY <1>2, <1>3, <1>7, MarkDown
  <2> HIDE DEF A
  <2>3. /\ R \in StateType /\ Settled(R) /\ R.enabled = enabled /\ (\A x \in Settings : R[x] = A[x])
        /\ R.hroute = {}
    BY <1>4, <2>2, SetEnabledSettled
  <2> HIDE DEF R
  <2>4. R.l3 = A.l3 /\ R.up = A.up /\ R.set = A.set /\ R.faults = A.faults /\ R.unclaimed = A.unclaimed
    BY <2>3 DEF Settings
  <2>5. Ready(R)
    BY <1>4, <2>2, <2>3, <2>4 DEF Ready, Inv
  <2> QED
    BY <2>1, <2>3, <2>5, BecomesReady
<1> QED
  BY <1>4, <1>5, <1>6, <1>7

\* IFPEV_UP.
LEMMA UpRests == ASSUME Resting, Up PROVE Resting' /\ up' = TRUE
<1> DEFINE T == Refusable(Off(addr), Off(Routes(Now({}))), Off(neigh))
<1>1. PICK bad \in Bad(T) : Becomes([SetEnabled(Now(bad), TRUE) EXCEPT !.up = TRUE])
  BY DEF Up
<1> DEFINE S == Now(bad)
           A == SetEnabled(S, TRUE)
           R == [A EXCEPT !.up = TRUE]
           Q == Placed(A, TRUE, TRUE, A.unclaimed)
<1>2. Ready(S)
  BY BadFacts
<1>3. S.l3
  BY NowFacts DEF Up
<1>4. Becomes(R)
  BY <1>1
<1> HIDE DEF S, T
<1>5. A \in StateType /\ Settled(A) /\ A.enabled = TRUE /\ (\A x \in Settings : A[x] = S[x])
  BY <1>2, <1>3, SetEnabledSettled DEF Ready, Inv
<1> HIDE DEF A
<1>6. A.l3 = S.l3 /\ A.set \in {c.set : c \in Configs} /\ A.faults \in 0..MaxFaults
  BY <1>2, <1>5, SettingsReady
<1>7. R = Q
  <2>1. A.l3 = TRUE
    BY <1>3, <1>5, <1>6, Typed
  <2> QED
    BY <1>5, <2>1 DEF StateType, Placed
<1>8. Ready(Q) /\ Q.up = TRUE
  <2>1. A.unclaimed \in BOOLEAN
    BY <1>5, Typed
  <2> QED
    BY <1>5, <1>6, <2>1, PlacedReady
<1> HIDE DEF R, Q
<1> QED
  BY <1>4, <1>7, <1>8, BecomesReady

\* IFPEV_LINK_LOST.
LEMMA LinkLostRests == ASSUME Resting, LinkLost PROVE Resting' /\ up' = FALSE
<1> DEFINE S == Now({})
           A == mark_interface_down(S)
           R == [A EXCEPT !.up = FALSE, !.unclaimed = FALSE]
           Q == Placed(A, TRUE, FALSE, FALSE)
<1>1. Becomes(R)
  BY DEF LinkLost
<1>2. Ready(S) /\ S.l3
  BY RestFacts DEF LinkLost
<1> HIDE DEF S
<1>3. /\ A \in StateType /\ Settled(A) /\ A.set \in {c.set : c \in Configs} /\ A.faults \in 0..MaxFaults
      /\ A.l3 = TRUE
  BY <1>2, MarkDown
<1> HIDE DEF A
<1>4. R = Q
  BY <1>3 DEF StateType, Placed
<1>5. Ready(Q) /\ Q.up = FALSE
  BY <1>3, PlacedReady
<1> HIDE DEF R, Q
<1> QED
  BY <1>1, <1>4, <1>5, BecomesReady

\* IFPEV_DOWN.
LEMMA DownRests == ASSUME Resting, Down PROVE Resting' /\ hroute' = {}
<1> DEFINE S == Now({})
           A == mark_interface_down(S)
           Q == Placed(A, FALSE, FALSE, FALSE)
<1>1. Becomes(Q)
  BY DEF Down, Placed
<1>2. Ready(S) /\ S.l3
  BY RestFacts DEF Down
<1> HIDE DEF S
<1>3. /\ A \in StateType /\ Settled(A) /\ A.set \in {c.set : c \in Configs} /\ A.faults \in 0..MaxFaults
      /\ A.enabled = FALSE /\ A.addr = {} /\ A.route = {} /\ A.hroute = {} /\ A.neigh = {}
  BY <1>2, MarkDown
<1> HIDE DEF A
<1>4. Ready(Q) /\ Q.hroute = {}
  BY <1>3, PlacedReady
<1> HIDE DEF Q
<1> QED
  BY <1>1, <1>4, BecomesReady

\* The types of what is announced.
LEMMA AnnouncedFacts ==
  ASSUME NEW m \in Announcements
  PROVE  /\ Indexed(m) \in Seq(DatumType)
         /\ m.route \in SUBSET RouteType /\ IsFiniteSet(m.route)
         /\ m.neigh \in SUBSET NeighType /\ IsFiniteSet(m.neigh)
<1>1. m.addr \in Seq(AddrType) /\ m.neigh \in SUBSET NeighType /\ IsFiniteSet(m.neigh)
  BY IpAssumption
<1>2. m.route \in SUBSET RouteType /\ IsFiniteSet(m.route)
  <2>1. m.route \in {x.route : x \in Announcements} \cup {x.routes : x \in Configs}
    OBVIOUS
  <2> QED
    BY <2>1, IpAssumption
<1>3. Len(m.addr) \in Nat /\ DOMAIN m.addr = 1..Len(m.addr) /\ \A j \in DOMAIN m.addr : m.addr[j] \in AddrType
  BY <1>1
<1>4. ASSUME NEW j \in 1..Len(m.addr) PROVE Indexed(m)[j] \in DatumType
  <2>1. Indexed(m)[j] = [idx |-> j, id |-> m.addr[j].id, v6 |-> m.addr[j].v6, off |-> m.addr[j].off,
                         left |-> m.addr[j].left, ptp |-> m.addr[j].ptp]
    BY <1>3 DEF Indexed
  <2>2. m.addr[j] \in AddrType /\ j \in Nat
    BY <1>3
  <2> QED
    BY <2>1, <2>2 DEF AddrType, DatumType
<1>5. Indexed(m) \in [1..Len(m.addr) -> DatumType]
  <2>1. DOMAIN Indexed(m) = 1..Len(m.addr) /\ Indexed(m) = [j \in 1..Len(m.addr) |-> Indexed(m)[j]]
    BY <1>3 DEF Indexed
  <2> QED
    BY <1>4, <2>1
<1>6. Indexed(m) \in Seq(DatumType)
  BY <1>3, <1>5, SeqDef
<1> QED
  BY <1>1, <1>2, <1>6

\* An announcement of the handler.
LEMMA AnnounceRests ==
  ASSUME Resting, NEW m \in Announcements, NEW keep_old \in BOOLEAN, Announce(m, keep_old)
  PROVE  Resting' /\ hroute' = hroute
<1> DEFINE X == Refusable({m.addr[j] : j \in DOMAIN m.addr}, m.route, m.neigh)
<1>1. PICK bad \in Bad(X) : \E S \in Searching(Now(bad), "route") :
        LET S1 == UpdateRoutes(UpdateAddrs(S, Indexed(m)), "route", m.route)
            S2 == UpdateNeighs(S1, m.neigh)
            S3 == IF keep_old THEN S2 ELSE Flushed(S2, m)
        IN  Becomes(S3)
  BY Zenon DEF Announce
<1>2. PICK S \in Searching(Now(bad), "route") :
        LET S1 == UpdateRoutes(UpdateAddrs(S, Indexed(m)), "route", m.route)
            S2 == UpdateNeighs(S1, m.neigh)
            S3 == IF keep_old THEN S2 ELSE Flushed(S2, m)
        IN  Becomes(S3)
  BY <1>1, Zenon
<1> DEFINE A == UpdateAddrs(S, Indexed(m))
           B == UpdateRoutes(A, "route", m.route)
           C == UpdateNeighs(B, m.neigh)
           R == IF keep_old THEN C ELSE Flushed(C, m)
<1>3. Becomes(R)
  BY <1>2
<1>4. Ready(S) /\ S.l3 /\ S.hroute = hroute
  <2>1. Ready(Now(bad)) /\ Now(bad).l3 = l3 /\ Now(bad).hroute = hroute /\ l3
    BY BadFacts, NowFacts DEF Announce
  <2>2. Ready(S) /\ Same(S, Now(bad), {"unseen", "met"})
    BY <2>1, SearchingReady DEF RouteLists
  <2> QED
    BY <2>1, <2>2 DEF Same, Fields
<1>5. A \in StateType /\ Settled(A) /\ Same(A, S, AddrFields)
  BY <1>4, AnnouncedFacts, UpdateAddrsSettled DEF Ready, Inv
<1> HIDE DEF A
<1>6. B \in StateType /\ Settled(B) /\ Same(B, A, UpdateFields("route"))
  BY <1>5, AnnouncedFacts, UpdateRoutesSettled
<1> HIDE DEF B
<1>7. C \in StateType /\ Settled(C) /\ Same(C, B, NeighFields)
  BY <1>6, AnnouncedFacts, UpdateNeighsSettled
<1> HIDE DEF C
<1>8. R \in StateType /\ Settled(R) /\ Same(R, C, ProtoFields)
  BY <1>7, FlushedSettled DEF Same
<1> HIDE DEF R
<1>9. Same(R, S, ProtoFields)
  <2>1. Same(A, S, ProtoFields)
    BY <1>5, SameMore DEF ProtoFields, AddrFields, KernelFields
  <2>2. Same(B, A, ProtoFields)
    BY <1>6, SameMore DEF ProtoFields, UpdateFields
  <2>3. Same(C, B, ProtoFields)
    BY <1>7, SameMore DEF ProtoFields, NeighFields
  <2> QED
    BY <1>8, <2>1, <2>2, <2>3, SameStep
<1>10. /\ R.l3 = S.l3 /\ R.up = S.up /\ R.enabled = S.enabled /\ R.set = S.set /\ R.faults = S.faults
       /\ R.hroute = S.hroute /\ R.unclaimed = S.unclaimed
  BY <1>9 DEF Same, Fields, ProtoFields
<1>11. Ready(R)
  BY <1>4, <1>8, <1>10 DEF Ready, Inv
<1> QED
  BY <1>3, <1>4, <1>10, <1>11, BecomesReady

\* A reload of the configuration.
LEMMA ReloadRests == ASSUME Resting, NEW c \in Configs, Reload(c) PROVE Resting' /\ (set' = set => hroute' = hroute)
<1> DEFINE X == Refusable(addr, Routes(Now({})) \cup c.routes, neigh)
<1>1. PICK bad \in Bad(X) : \E S \in Searching(reload_ip(Now(bad), c.set), "croute") :
        LET S1 == UpdateRoutes(S, "croute", c.routes)
        IN  Becomes(RemoveRoutes(S1, "croute", S1.croute \ S1.fresh))
  BY Zenon DEF Reload
<1>2. PICK B \in Searching(reload_ip(Now(bad), c.set), "croute") :
        LET S1 == UpdateRoutes(B, "croute", c.routes)
        IN  Becomes(RemoveRoutes(S1, "croute", S1.croute \ S1.fresh))
  BY <1>1, Zenon
<1> DEFINE S == Now(bad)
           A == reload_ip(S, c.set)
           C == UpdateRoutes(B, "croute", c.routes)
           T == C.croute \ C.fresh
           R == RemoveRoutes(C, "croute", T)
<1>3. Becomes(R) /\ B \in Searching(A, "croute")
  BY <1>2
<1>4. Ready(S) /\ S.hroute = hroute /\ S.set = set
  BY BadFacts, NowFacts
<1> HIDE DEF S
<1>5. c.set \in SetType /\ c.set \in {d.set : d \in Configs}
  BY IpAssumption
<1>6. c.routes \in SUBSET RouteType /\ IsFiniteSet(c.routes)
  <2>1. c.routes \in {x.route : x \in Announcements} \cup {x.routes : x \in Configs}
    OBVIOUS
  <2> QED
    BY <2>1, IpAssumption
<1>7. /\ A \in StateType /\ Inv(A) /\ A.set = c.set /\ (\A x \in Settings \ {"set"} : A[x] = S[x])
      /\ c.set = S.set => A = S
  BY <1>4, <1>5, ReloadSettled DEF Ready
<1> HIDE DEF A
<1>8. A.faults = S.faults
  BY <1>7 DEF Settings
<1>9. Ready(A)
  BY <1>4, <1>5, <1>7, <1>8 DEF Ready
<1>10. Ready(B) /\ B.hroute = A.hroute /\ B.set = A.set
  <2>1. Ready(B) /\ Same(B, A, {"unseen", "met"})
    BY <1>3, <1>9, SearchingReady DEF RouteLists
  <2> QED
    BY <2>1 DEF Same, Fields
<1>11. C \in StateType /\ Settled(C) /\ Same(C, B, UpdateFields("croute"))
  BY <1>6, <1>10, UpdateRoutesSettled DEF Ready, Inv
<1> HIDE DEF C
<1>12. T \in SUBSET C["croute"] /\ "croute" \in RouteLists
  BY DEF RouteLists
<1> HIDE DEF T
<1>13. R \in StateType /\ Settled(R) /\ Same(R, C, RouteFields("croute"))
  BY <1>11, <1>12, RemoveRoutesSettled
<1> HIDE DEF R
<1>14. /\ R.l3 = B.l3 /\ R.up = B.up /\ R.enabled = B.enabled /\ R.addr = B.addr /\ R.route = B.route
       /\ R.hroute = B.hroute /\ R.neigh = B.neigh /\ R.set = B.set /\ R.faults = B.faults
       /\ R.unclaimed = B.unclaimed
  BY <1>11, <1>13 DEF Same, Fields, RouteFields, UpdateFields
<1>15. Ready(R)
  BY <1>10, <1>13, <1>14 DEF Ready, Inv
<1> QED
  BY <1>3, <1>4, <1>7, <1>10, <1>14, <1>15, BecomesReady

-----------------------------------------------------------------------------
(***************************************************************************)
(* The route to a host.  What is pending in the loop is what leads to the  *)
(* host and beats the best route so far; a round takes its route from it,  *)
(* and what beats the new best route beats the old one too.                *)
(***************************************************************************)
Beats(q, r) ==
  \/ Mask[q.dst] > Mask[r.dst]
  \/ Mask[q.dst] = Mask[r.dst] /\ q.met # None /\ q.metric < r.metric

\* Masks and metrics are numbers: no route beats itself, and what beats a route that beats
\* another beats that too.
LEMMA BeatsOrder ==
  /\ \A q \in RouteEntryType : ~Beats(q, q)
  /\ \A p, q, r \in RouteEntryType : Beats(p, q) /\ Beats(q, r) => Beats(p, r)
<1>1. ASSUME NEW r \in RouteEntryType PROVE Mask[r.dst] \in Int /\ r.metric \in Int
  <2>1. r.dst \in DOMAIN Mask /\ r.metric \in Nat
    BY DEF RouteEntryType
  <2>2. Mask[r.dst] \in 0..128
    BY <2>1, IpAssumption
  <2> QED
    BY <2>1, <2>2
<1> QED
  BY <1>1 DEF Beats

\* The routes of X that lead to the host t.
Leading(X, t) == {r \in X : Leads(r, t)}

\* A state of the loop over routes of X: the best so far, if there is one.
Results(X, t) == {None} \cup Leading(X, t)

\* What of T is still to come after the result res.
Ahead(T, t, res) == {q \in Leading(T, t) : res = None \/ Beats(q, res)}

\* A round of the loop.
TargetRound(D, T, t) == [x \in D \X T |-> __find_ip_route_target(x[1], x[2], t)]

\* A round leaves fewer routes ahead, and among those that are met not the one of the round.
LEMMA RoundAhead ==
  ASSUME NEW X \in SUBSET RouteEntryType, NEW t, NEW res \in Results(X, t), NEW x \in X
  PROVE  LET new == __find_ip_route_target(res, x, t)
         IN  /\ new \in Results(X, t)
             /\ \A T \in SUBSET X : Ahead(T, t, new) \subseteq Ahead(T, t, res) \ {x}
<1>1. None \notin X
  BY IpAssumption
<1>2. \A q \in X : ~Beats(q, q)
  BY BeatsOrder
<1>3. \A p, q, r \in X : Beats(p, q) /\ Beats(q, r) => Beats(p, r)
  BY BeatsOrder
<1>4. CASE Leads(x, t) /\ (res = None \/ Beats(x, res))
  <2>1. __find_ip_route_target(res, x, t) = x
    BY <1>4 DEF __find_ip_route_target, Beats
  <2>2. x \in Results(X, t)
    BY <1>4 DEF Results, Leading
  <2>3. ASSUME NEW T \in SUBSET X, NEW q \in Ahead(T, t, x) PROVE q \in Ahead(T, t, res) \ {x}
    <3>1. q \in X /\ q \in Leading(T, t) /\ Beats(q, x)
      BY <1>1, <2>3 DEF Ahead, Leading
    <3>2. q # x
      BY <1>2, <3>1
    <3>3. res = None \/ Beats(q, res)
      BY <1>3, <1>4, <3>1 DEF Results, Leading
    <3> QED
      BY <3>1, <3>2, <3>3 DEF Ahead
  <2> QED
    BY <2>1, <2>2, <2>3
<1>5. CASE ~(Leads(x, t) /\ (res = None \/ Beats(x, res)))
  <2>1. __find_ip_route_target(res, x, t) = res
    BY <1>5 DEF __find_ip_route_target, Beats
  <2>2. \A T : x \notin Ahead(T, t, res)
    BY <1>5 DEF Ahead, Leading
  <2> QED
    BY <2>1, <2>2
<1> QED
  BY <1>4, <1>5

\* A pass of the loop of __find_ip_route_target().
TargetPass(res, list, t) == InOrder(LAMBDA x, r : __find_ip_route_target(x, r, t), res, list)

\* A pass over a list ends in D with nothing ahead.
LEMMA TargetPassEnds ==
  ASSUME NEW S, NEW q, NEW t, NEW T, Turns(Len(q), q, T), NEW D, S \in D, NEW w, w[S] \subseteq T,
         Drains(TargetRound(D, T, t), w, D, T)
  PROVE  TargetPass(S, q, t) \in D /\ w[TargetPass(S, q, t)] = {}
<1> DEFINE N == Len(q)
           g == TargetRound(D, T, t)
           Eq(a) == a = [n \in 0 .. N |-> IF n = 0 THEN S ELSE __find_ip_route_target(a[n - 1], q[n], t)]
           after == CHOOSE a : Eq(a)
<1>1. TargetPass(S, q, t) = after[N]
  BY DEF TargetPass, InOrder
<1>2. Turns(N, q, T)
  OBVIOUS
<1>3. N \in Nat /\ Lists(q, N, T)
  BY <1>2 DEF Turns, Lists
<1> HIDE DEF N
<1>4. \A s \in D, x \in T : g[<<s, x>>] = __find_ip_route_target(s, x, t)
  BY DEF TargetRound
<1>5. g = [x \in D \X T |-> __find_ip_route_target(x[1], x[2], t)]
  BY DEF TargetRound
<1> HIDE DEF g, TargetRound
<1>6. Drains(g, w, D, T)
  BY DEF g
<1>7. Round(g, D, T)
  BY <1>5, <1>6 DEF Round, Drains
<1>8. PICK f : Loop(f, D, N, S, g, q)
  <2> HIDE DEF Eq, after
  <2> QED
    BY <1>3, <1>7, LoopExists
<1>9. f \in [0 .. N -> D] /\ f[0] = S /\ \A n \in 1 .. N : f[n] = g[<<f[n - 1], q[n]>>]
  BY <1>8 DEF Loop
<1>10. ASSUME NEW n \in 1 .. N PROVE f[n] = __find_ip_route_target(f[n - 1], q[n], t)
  <2>1. f[n - 1] \in D /\ q[n] \in T
    BY <1>3, <1>9 DEF Lists
  <2> QED
    BY <1>4, <1>9, <2>1
<1>11. Eq(f)
  <2>1. \A n \in 0 .. N : f[n] = IF n = 0 THEN S ELSE __find_ip_route_target(f[n - 1], q[n], t)
    BY <1>3, <1>9, <1>10
  <2> QED
    BY <1>9, <2>1
<1>12. Eq(after)
  <2> HIDE DEF Eq
  <2> QED
    BY <1>11
<1> HIDE DEF after
<1>13. after[0] = S /\ \A n \in 1 .. N : after[n] = __find_ip_route_target(after[n - 1], q[n], t)
  BY <1>3, <1>12
<1> HIDE DEF Eq
<1>14. after[0] \in D /\ Follows(after, D, N, g, q)
  BY <1>3, <1>4, <1>13 DEF Lists, Follows
<1> QED
  BY <1>1, <1>2, <1>6, <1>13, <1>14, PassEnds

\* A walk meets each entry of the list.
LEMMA WalkFacts ==
  ASSUME NEW S, NEW L, IsFiniteSet(S[L]), NEW q \in Walks(S, L)
  PROVE  Turns(Len(q), q, S[L])
<1> DEFINE T == S[L]
           N == Cardinality(T)
<1>1. N \in Nat
  BY FS_CardinalityType
<1>2. q \in [1 .. N -> T] /\ \A i, j \in 1 .. N : i # j => q[i] # q[j]
  BY DEF Walks, SetToSeqs
<1> HIDE DEF N
<1>3. q \in Injection(1 .. N, T)
  BY <1>2 DEF Injection, IsInjective
<1>4. Cardinality(1 .. N) = N
  BY <1>1, FS_Interval
<1>5. q \in Surjection(1 .. N, T)
  BY <1>3, <1>4, FS_Injection DEF N
<1>6. \A x \in T : \E i \in 1 .. N : q[i] = x
  BY <1>5 DEF Surjection
<1>7. Len(q) = N
  BY <1>1, <1>2, LenProperties
<1> QED
  BY <1>1, <1>2, <1>6, <1>7 DEF Turns

\* The two passes of interface_ip_find_route_target() end with a route that leads to the
\* host and that no other beats, or without one.
LEMMA TargetFound ==
  ASSUME NEW A, NEW B, A \cup B \in SUBSET RouteEntryType, NEW t,
         NEW p, Turns(Len(p), p, A), NEW c, Turns(Len(c), c, B)
  PROVE  LET r == interface_ip_find_route_target(p, c, t)
         IN  r \in Results(A \cup B, t) /\ Ahead(A, t, r) = {} /\ Ahead(B, t, r) = {}
<1> DEFINE X == A \cup B
           D == Results(X, t)
           v == [res \in D |-> Ahead(A, t, res)]
           E == {res \in D : Ahead(A, t, res) = {}}
           w == [res \in E |-> Ahead(B, t, res)]
           r1 == TargetPass(None, p, t)
           r2 == TargetPass(r1, c, t)
<1>1. interface_ip_find_route_target(p, c, t) = r2
  BY Zenon DEF interface_ip_find_route_target, TargetPass
<1>2. \A res \in D, x \in X : LET new == __find_ip_route_target(res, x, t)
         IN  /\ new \in D
             /\ \A T \in SUBSET X : Ahead(T, t, new) \subseteq Ahead(T, t, res) \ {x}
  BY RoundAhead
<1>3. None \in D /\ A \in SUBSET X /\ B \in SUBSET X
  BY DEF Results
<1>4. \A T, res : Ahead(T, t, res) \subseteq T
  BY DEF Ahead, Leading
<1> HIDE DEF X, D
<1>5. Drains(TargetRound(D, A, t), v, D, A)
  <2>1. ASSUME NEW s \in D, NEW x \in A
        PROVE  TargetRound(D, A, t)[<<s, x>>] \in D /\ v[TargetRound(D, A, t)[<<s, x>>]] \subseteq v[s] \ {x}
    <3>1. TargetRound(D, A, t)[<<s, x>>] = __find_ip_route_target(s, x, t)
      BY DEF TargetRound
    <3>2. __find_ip_route_target(s, x, t) \in D
          /\ Ahead(A, t, __find_ip_route_target(s, x, t)) \subseteq Ahead(A, t, s) \ {x}
      BY <1>2, <1>3
    <3> QED
      BY <3>1, <3>2
  <2> HIDE DEF v
  <2> QED
    BY <2>1 DEF Drains
<1>6. r1 \in D /\ v[r1] = {}
  <2>1. v[None] \subseteq A
    BY <1>3, <1>4
  <2> HIDE DEF v
  <2> QED
    BY <1>3, <1>5, <2>1, TargetPassEnds
<1> HIDE DEF r1
<1>7. r1 \in E
  BY <1>6
<1>8. Drains(TargetRound(E, B, t), w, E, B)
  <2>1. ASSUME NEW s \in E, NEW x \in B
        PROVE  TargetRound(E, B, t)[<<s, x>>] \in E /\ w[TargetRound(E, B, t)[<<s, x>>]] \subseteq w[s] \ {x}
    <3>1. TargetRound(E, B, t)[<<s, x>>] = __find_ip_route_target(s, x, t)
      BY DEF TargetRound
    <3>2. __find_ip_route_target(s, x, t) \in D
          /\ Ahead(A, t, __find_ip_route_target(s, x, t)) \subseteq Ahead(A, t, s) \ {x}
          /\ Ahead(B, t, __find_ip_route_target(s, x, t)) \subseteq Ahead(B, t, s) \ {x}
      BY <1>2, <1>3
    <3>3. __find_ip_route_target(s, x, t) \in E
      BY <3>2
    <3> QED
      BY <3>1, <3>2, <3>3
  <2> HIDE DEF w
  <2> QED
    BY <2>1 DEF Drains
<1>9. r2 \in E /\ w[r2] = {}
  <2>1. w[r1] \subseteq B
    BY <1>4, <1>7
  <2> HIDE DEF w, E
  <2> QED
    BY <1>7, <1>8, <2>1, TargetPassEnds
<1> HIDE DEF r2
<1>10. r2 \in D /\ Ahead(A, t, r2) = {} /\ Ahead(B, t, r2) = {}
  BY <1>9
<1> QED
  BY <1>1, <1>10 DEF D, X

\* A route leads to t, and no other that does has a longer mask or, with the same mask, a
\* lower metric of its own.
BestFor(r, t) ==
  /\ r.enabled /\ <<r.dst, t>> \in Covers
  /\ \A q \in route \cup croute :
       (q.enabled /\ q.tab = None /\ <<q.dst, t>> \in Covers) =>
         /\ Mask[q.dst] <= Mask[r.dst]
         /\ (Mask[q.dst] = Mask[r.dst] /\ q.met # None) => ~(q.metric < r.metric)

\* What the loop finds is the best.
LEMMA TargetLeads ==
  ASSUME Resting, NEW t, NEW p \in Walks(Now({}), "route"), NEW c \in Walks(Now({}), "croute"),
         interface_ip_find_route_target(p, c, t) # None
  PROVE  LET r == interface_ip_find_route_target(p, c, t) IN r \in route \cup croute /\ BestFor(r, t)
<1> DEFINE S == Now({})
           r == interface_ip_find_route_target(p, c, t)
<1>1. S \in StateType /\ Core(S) /\ S["route"] = route /\ S["croute"] = croute
  BY RestFacts DEF Settled
<1>2. route \in SUBSET RouteEntryType /\ croute \in SUBSET RouteEntryType /\ IsFiniteSet(route) /\ IsFiniteSet(croute)
  <2> HIDE DEF S
  <2> QED
    BY <1>1, Typed DEF RouteLists, Core, Finite
<1>3. Turns(Len(p), p, route) /\ Turns(Len(c), c, croute)
  BY <1>1, <1>2, WalkFacts
<1>4. route \cup croute \in SUBSET RouteEntryType
  BY <1>2
<1>5. r \in Results(route \cup croute, t) /\ Ahead(route, t, r) = {} /\ Ahead(croute, t, r) = {} /\ r # None
  BY <1>3, <1>4, TargetFound
<1> HIDE DEF r, S
<1>6. r \in route \cup croute /\ Leads(r, t)
  BY <1>5 DEF Results, Leading
<1>7. ASSUME NEW q \in route \cup croute, Leads(q, t) PROVE ~Beats(q, r)
  BY <1>5, <1>7 DEF Ahead, Leading
<1>8. ASSUME NEW q \in RouteEntryType PROVE Mask[q.dst] \in Int
  <2>1. q.dst \in DOMAIN Mask
    BY DEF RouteEntryType
  <2>2. Mask[q.dst] \in 0..128
    BY <2>1, IpAssumption
  <2> QED
    BY <2>2
<1>9. ASSUME NEW q \in route \cup croute, Leads(q, t)
      PROVE  /\ Mask[q.dst] <= Mask[r.dst]
             /\ (Mask[q.dst] = Mask[r.dst] /\ q.met # None) => ~(q.metric < r.metric)
  BY <1>4, <1>6, <1>7, <1>8, <1>9 DEF Beats
<1> QED
  BY <1>6, <1>9 DEF BestFor, Leads, r

\* The route for a host is a route entry.
LEMMA HostRouteTyped ==
  ASSUME NEW r \in RouteEntryType, NEW t \in Targets
  PROVE  HostRoute(t, r) \in RouteEntryType
<1>1. t \in DOMAIN Mask
  BY IpAssumption
<1> QED
  BY <1>1 DEF HostRoute, RouteEntryType, Maybe

\* interface_ip_add_target_route().
LEMMA AddTargetRests ==
  ASSUME Resting, NEW t \in Targets, AddTarget(t)
  PROVE  Resting' /\ \A h \in hroute' \ hroute : \E r \in route \cup croute : r.gw = h.gw /\ BestFor(r, h.dst)
<1> DEFINE N == Now({})
<1>1. PICK p \in Walks(N, "route"), c \in Walks(N, "croute"), S \in Searching(N, "hroute") :
        LET r == interface_ip_find_route_target(p, c, t)
        IN  r # None /\ Becomes(__interface_update_route(S, "hroute", HostRoute(t, r)))
  BY Zenon DEF AddTarget
<1> DEFINE r == interface_ip_find_route_target(p, c, t)
           n == HostRoute(t, r)
           R == __interface_update_route(S, "hroute", n)
<1>2. Becomes(R) /\ r # None
  BY <1>1
<1>3. r \in route \cup croute /\ BestFor(r, t)
  BY <1>2, TargetLeads
<1> HIDE DEF r
<1>4. /\ Ready(N) /\ N \in StateType /\ Settled(N) /\ Inv(N)
      /\ N.route = route /\ N.croute = croute /\ N.hroute = hroute /\ N.enabled = enabled /\ N.l3 = l3
  BY RestFacts
<1> HIDE DEF N
<1>5. r \in RouteEntryType /\ r.enabled
  BY <1>3, <1>4, Typed DEF RouteLists, BestFor
<1>6. N.l3
  <2>1. N.enabled
    BY <1>3, <1>4, <1>5 DEF Settled, Obeys, enable_route, RouteLists
  <2> QED
    BY <1>4, <2>1 DEF Inv
<1>7. Ready(S) /\ Same(S, N, {"unseen", "met"})
  BY <1>1, <1>4, SearchingReady DEF RouteLists
<1>8. S.hroute = hroute /\ S.l3
  BY <1>4, <1>6, <1>7 DEF Same, Fields
<1>9. S \in StateType /\ Settled(S) /\ Core(S) /\ "hroute" \in RouteLists /\ Obeys(S, "hroute") /\ n \in RouteEntryType
  BY <1>5, <1>7, HostRouteTyped DEF Ready, Inv, Settled, RouteLists
<1>10. n.dst = t /\ n.gw = r.gw
  BY DEF HostRoute
<1> HIDE DEF n
<1>11. /\ R \in StateType /\ Core(R) /\ Same(R, S, UpdateFields("hroute")) /\ Obeys(R, "hroute")
       /\ S.orphans \subseteq R.orphans
       /\ \A q \in R["hroute"] : q \in S["hroute"] \/ (q.dst = n.dst /\ q.gw = n.gw)
  BY <1>9, UpdateRouteKeeps
<1> HIDE DEF R
<1>12. Settled(R)
  <2>1. Same(R, S, {"hroute", "kroute", "lost", "unsorted", "fresh", "orphans"})
    BY <1>11, SameMore DEF UpdateFields
  <2> QED
    BY <1>9, <1>11, <2>1, SettledRoutes
<1>13. /\ R.l3 = S.l3 /\ R.up = S.up /\ R.enabled = S.enabled /\ R.set = S.set /\ R.faults = S.faults
       /\ R.unclaimed = S.unclaimed
  BY <1>11 DEF Same, Fields, UpdateFields
<1>14. Ready(R)
  BY <1>7, <1>8, <1>11, <1>12, <1>13 DEF Ready, Inv
<1>15. Resting' /\ hroute' = R.hroute
  BY <1>2, <1>14, BecomesReady
<1> QED
  BY <1>3, <1>8, <1>10, <1>11, <1>15

\* A second passes.
OlderLeft(l) == IF l = None \/ l < 0 THEN l ELSE l - 1

\* The same address, and the same route, but for its lifetime.
AddrLike(a, b) ==
  /\ a.id = b.id /\ a.idx = b.idx /\ a.v6 = b.v6 /\ a.off = b.off /\ a.ptp = b.ptp
  /\ a.enabled = b.enabled /\ a.failed = b.failed /\ a.ptab = b.ptab /\ a.sub = b.sub

RouteLike(r, q) ==
  /\ r.dst = q.dst /\ r.met = q.met /\ r.tab = q.tab /\ r.gw = q.gw /\ r.metric = q.metric /\ r.table = q.table
  /\ r.src = q.src /\ r.enabled = q.enabled /\ r.failed = q.failed /\ r.no = q.no

\* A lifetime stays one.
LEMMA OlderLeftTyped ==
  ASSUME NEW l \in Maybe(Int)
  PROVE  OlderLeft(l) \in Maybe(Int)
<1>1. CASE l = None
  BY <1>1 DEF OlderLeft
<1>2. CASE l # None
  <2>1. l \in Int
    BY <1>2 DEF Maybe
  <2> QED
    BY <2>1 DEF OlderLeft, Maybe
<1> QED
  BY <1>1, <1>2

\* An address a second later.
LEMMA OlderAddr ==
  ASSUME NEW a \in EntryType
  PROVE  Older(a) \in EntryType /\ AddrLike(Older(a), a) /\ Older(a).left = OlderLeft(a.left)
<1> DEFINE b == [a EXCEPT !.left = OlderLeft(a.left)]
<1>1. Older(a) = b
  BY DEF Older, OlderLeft, EntryType
<1>2. OlderLeft(a.left) \in Maybe(Int)
  BY OlderLeftTyped DEF EntryType
<1>3. b \in EntryType /\ AddrLike(b, a) /\ b.left = OlderLeft(a.left)
  BY <1>2 DEF EntryType, AddrLike
<1> QED
  BY <1>1, <1>3

\* A route a second later.
LEMMA OlderRoute ==
  ASSUME NEW r \in RouteEntryType
  PROVE  Older(r) \in RouteEntryType /\ RouteLike(Older(r), r)
<1> DEFINE q == [r EXCEPT !.left = OlderLeft(r.left)]
<1>1. Older(r) = q
  BY DEF Older, OlderLeft, RouteEntryType
<1>2. OlderLeft(r.left) \in Maybe(Int)
  BY OlderLeftTyped DEF RouteEntryType
<1>3. q \in RouteEntryType /\ RouteLike(q, r)
  BY <1>2 DEF RouteEntryType, RouteLike
<1> QED
  BY <1>1, <1>3

\* An address of the kernel a second later.
LEMMA OlderKernel ==
  ASSUME NEW x \in KAddrType
  PROVE  Older(x) \in KAddrType /\ Older(x) = [id |-> x.id, left |-> OlderLeft(x.left)]
<1> DEFINE y == [x EXCEPT !.left = OlderLeft(x.left)]
<1>1. Older(x) = y
  BY DEF Older, OlderLeft, KAddrType
<1>2. OlderLeft(x.left) \in Maybe(Int)
  BY OlderLeftTyped DEF KAddrType
<1>3. y \in KAddrType /\ y = [id |-> x.id, left |-> OlderLeft(x.left)]
  BY <1>2 DEF KAddrType
<1> QED
  BY <1>1, <1>3

\* A second adds no entry.
LEMMA OlderFinite ==
  ASSUME NEW X, IsFiniteSet(X)
  PROVE  IsFiniteSet({Older(x) : x \in X})
<1> DEFINE Y == {Older(x) : x \in X}
           f == [x \in X |-> Older(x)]
<1>1. f \in Surjection(X, Y)
  BY DEF Surjection
<1> QED
  BY <1>1, FS_Surjection

\* An address that has not ended after the second had not before.
LEMMA NotEndedBefore ==
  ASSUME NEW a \in EntryType, ~Ended(Older(a))
  PROVE  ~Ended(a)
<1>1. Older(a).left = OlderLeft(a.left) /\ a.left \in Maybe(Int)
  BY OlderAddr DEF EntryType
<1>2. CASE a.left = None
  BY <1>2 DEF Ended
<1>3. CASE a.left # None
  <2>1. a.left \in Int
    BY <1>1, <1>3 DEF Maybe
  <2>2. ~(Older(a).left # None /\ Older(a).left <= 0)
    BY DEF Ended
  <2>3. OlderLeft(a.left) \in Int
    BY <1>3, <2>1 DEF OlderLeft
  <2>4. OlderLeft(a.left) # None
    BY <2>3, IpAssumption
  <2>5. ~(OlderLeft(a.left) <= 0)
    BY <1>1, <2>2, <2>4
  <2> QED
    BY <1>3, <2>1, <2>5 DEF Ended, OlderLeft
<1> QED
  BY <1>2, <1>3

Aged(S) ==
  [S EXCEPT !.addr = {Older(a) : a \in @}, !.route = {Older(r) : r \in @},
            !.kaddr = {y \in {Older(x) : x \in @} : ~Ended(y)}]

\* The state a second later.
LEMMA AgedFacts ==
  ASSUME NEW S \in StateType
  PROVE  LET R == Aged(S)
         IN  /\ R \in StateType /\ Same(R, S, {"addr", "route", "kaddr"})
             /\ R.addr = {Older(a) : a \in S.addr} /\ R.route = {Older(r) : r \in S.route}
             /\ R.kaddr = {y \in {Older(x) : x \in S.kaddr} : ~Ended(y)}
<1> DEFINE A == {Older(a) : a \in S.addr}
           B == {Older(r) : r \in S.route}
           C == {y \in {Older(x) : x \in S.kaddr} : ~Ended(y)}
           R == [S EXCEPT !.addr = A, !.route = B, !.kaddr = C]
<1>1. Aged(S) = R
  BY DEF Aged
<1>2. A \in SUBSET EntryType
  BY OlderAddr, Typed
<1>3. B \in SUBSET RouteEntryType
  BY OlderRoute, Typed DEF RouteLists
<1>4. C \in SUBSET KAddrType
  BY OlderKernel, Typed
<1> HIDE DEF A, B, C
<1>5. R \in StateType
  BY <1>2, <1>3, <1>4 DEF StateType
<1>6. Same(R, S, {"addr", "route", "kaddr"}) /\ R.addr = A /\ R.route = B /\ R.kaddr = C
  BY Typed DEF Same, Fields
<1> HIDE DEF R
<1> QED
  BY <1>1, <1>5, <1>6 DEF A, B, C

\* A second leaves what is settled.
LEMMA AgedSettled ==
  ASSUME NEW S \in StateType, Settled(S)
  PROVE  Settled(Aged(S))
<1> DEFINE R == Aged(S)
<1>1. /\ R \in StateType /\ Same(R, S, {"addr", "route", "kaddr"})
      /\ R.addr = {Older(a) : a \in S.addr} /\ R.route = {Older(r) : r \in S.route}
      /\ R.kaddr = {y \in {Older(x) : x \in S.kaddr} : ~Ended(y)}
  BY AgedFacts
<1> HIDE DEF R
<1>2. /\ R.knull = S.knull /\ R.neigh = S.neigh /\ R.kneigh = S.kneigh /\ R.kroute = S.kroute /\ R.lost = S.lost
      /\ (\A M \in RouteLists \ {"route"} : R[M] = S[M]) /\ R.croute = S.croute /\ R.hroute = S.hroute
      /\ R.orphans = S.orphans /\ R.policy_rules_set = S.policy_rules_set /\ R.krule = S.krule
      /\ R.set = S.set /\ R.enabled = S.enabled /\ R.nrefused = S.nrefused
  BY <1>1 DEF Same, Fields, RouteLists
<1>3. Core(S) /\ S.addr \in SUBSET EntryType /\ S.route \in SUBSET RouteEntryType /\ S.kaddr \in SUBSET KAddrType
  BY Typed DEF Settled, RouteLists
<1>4. \A a \in S.addr : Older(a) \in R.addr /\ AddrLike(Older(a), a) /\ Older(a).left = OlderLeft(a.left)
  BY <1>1, <1>3, OlderAddr
<1>5. \A b \in R.addr : \E a \in S.addr : b = Older(a) /\ AddrLike(b, a) /\ b.left = OlderLeft(a.left)
  BY <1>1, <1>4
<1>6. \A r \in S.route : Older(r) \in R.route /\ RouteLike(Older(r), r)
  BY <1>1, <1>3, OlderRoute
<1>7. \A q \in R.route : \E r \in S.route : q = Older(r) /\ RouteLike(q, r)
  BY <1>1, <1>6
<1>8. \A x \in S.kaddr : Older(x) = [id |-> x.id, left |-> OlderLeft(x.left)]
  BY <1>3, OlderKernel
<1>9. Finite(R)
  <2>1. IsFiniteSet(R.addr) /\ IsFiniteSet(R.route)
    BY <1>1, <1>3, OlderFinite DEF Core, Finite, RouteLists
  <2>2. \A L \in RouteLists \ {"route"} : IsFiniteSet(R[L])
    BY <1>2, <1>3 DEF Core, Finite
  <2> QED
    BY <1>2, <1>3, <2>1, <2>2 DEF Core, Finite, RouteLists
<1>10. Keys(R)
  <2> SUFFICES ASSUME NEW a \in R.addr, NEW b \in R.addr, AddrKey(a) = AddrKey(b) PROVE a = b
    BY DEF Keys
  <2>1. PICK c \in S.addr : a = Older(c) /\ AddrLike(a, c)
    BY <1>5
  <2>2. PICK d \in S.addr : b = Older(d) /\ AddrLike(b, d)
    BY <1>5
  <2>3. AddrKey(c) = AddrKey(d)
    BY <2>1, <2>2 DEF AddrKey, AddrLike
  <2>4. c = d
    BY <1>3, <2>3 DEF Core, Keys
  <2> QED
    BY <2>1, <2>2, <2>4
<1>11. AddrOK(R)
  <2>1. ASSUME NEW b \in R.addr, b.enabled, ~b.failed, ~Ended(b), <<"addr", b.id>> \notin R.lost
        PROVE  [id |-> b.id, left |-> b.left] \in R.kaddr
    <3>1. PICK a \in S.addr : b = Older(a) /\ AddrLike(b, a) /\ b.left = OlderLeft(a.left)
      BY <1>5
    <3>2. ~Ended(a)
      BY <1>3, <2>1, <3>1, NotEndedBefore
    <3>3. a.enabled /\ ~a.failed /\ <<"addr", a.id>> \notin S.lost
      BY <1>2, <2>1, <3>1 DEF AddrLike
    <3> DEFINE x == [id |-> a.id, left |-> a.left]
    <3>4. x \in S.kaddr
      BY <1>3, <3>2, <3>3 DEF Core, AddrOK
    <3>5. Older(x) = [id |-> b.id, left |-> b.left]
      BY <1>8, <3>1, <3>4 DEF AddrLike
    <3>6. ~Ended([id |-> b.id, left |-> b.left])
      BY <2>1 DEF Ended
    <3> HIDE DEF x
    <3> QED
      BY <1>1, <3>4, <3>5, <3>6
  <2>2. ASSUME NEW y \in R.kaddr PROVE <<"addr", y.id>> \in R.orphans \/ \E a \in R.addr : a.id = y.id /\ a.enabled
    <3>1. PICK x \in S.kaddr : y = Older(x)
      BY <1>1
    <3>2. y.id = x.id
      BY <1>8, <3>1
    <3>3. CASE <<"addr", x.id>> \in S.orphans
      BY <1>2, <3>2, <3>3
    <3>4. CASE <<"addr", x.id>> \notin S.orphans
      <4>1. PICK a \in S.addr : a.id = x.id /\ a.enabled
        BY <1>3, <3>4 DEF Core, AddrOK
      <4>2. Older(a) \in R.addr /\ Older(a).id = y.id /\ Older(a).enabled
        BY <1>4, <3>2, <4>1 DEF AddrLike
      <4> QED
        BY <4>2
    <3> QED
      BY <3>3, <3>4
  <2> QED
    BY <2>1, <2>2 DEF AddrOK
<1>12. NullOK(R)
  BY <1>2, <1>3, <1>4, <1>5 DEF Core, NullOK, AddrLike
<1>13. RulesOK(R)
  <2>1. \A a, b : AddrLike(a, b) => AddrRules(a) = AddrRules(b)
    BY DEF AddrLike, AddrRules
  <2> QED
    BY <1>2, <1>3, <1>4, <1>5, <2>1 DEF Core, RulesOK, AddrLike
<1>14. Enabled(R) = Enabled(S) /\ Needed(R) = Needed(S)
  <2>1. \A r, q : RouteLike(r, q) => KRoute(r) = KRoute(q) /\ r.enabled = q.enabled /\ r.failed = q.failed
    BY DEF RouteLike, KRoute
  <2>2. \A r \in Routes(R) : \E q \in Routes(S) : KRoute(r) = KRoute(q) /\ r.enabled = q.enabled /\ r.failed = q.failed
    BY <1>2, <1>7, <2>1 DEF Routes
  <2>3. \A q \in Routes(S) : \E r \in Routes(R) : KRoute(r) = KRoute(q) /\ r.enabled = q.enabled /\ r.failed = q.failed
    BY <1>2, <1>6, <2>1 DEF Routes
  <2>4. \A a \in R.addr : \E b \in S.addr : a.enabled = b.enabled /\ a.sub = b.sub
    BY <1>5 DEF AddrLike
  <2>5. \A b \in S.addr : \E a \in R.addr : a.enabled = b.enabled /\ a.sub = b.sub
    BY <1>4 DEF AddrLike
  <2>6. Enabled(R) \subseteq Enabled(S) /\ Needed(R) \subseteq Needed(S)
    BY <2>2, <2>4 DEF Enabled, Needed
  <2>7. Enabled(S) \subseteq Enabled(R) /\ Needed(S) \subseteq Needed(R)
    BY <2>3, <2>5 DEF Enabled, Needed
  <2> QED
    BY <2>6, <2>7
<1>15. RoutesOK(R)
  BY <1>2, <1>3, <1>14 DEF Core, RoutesOK, Has, Owns
<1>16. NeighOK(R)
  BY <1>2, <1>3, NeighFrame DEF Core
<1>17. SubnetsOff(R)
  BY <1>3, <1>5 DEF Core, SubnetsOff, AddrLike
<1>18. Core(R)
  BY <1>9, <1>10, <1>11, <1>12, <1>13, <1>15, <1>16, <1>17 DEF Core
<1>19. SubnetsCurrent(R)
  BY <1>2, <1>5 DEF Settled, SubnetsCurrent, Subnet, AddrLike
<1>20. RulesCurrent(R)
  BY <1>2 DEF Settled, RulesCurrent, IfRules
<1>21. NeighCurrent(R) /\ R.policy_rules_set = R.enabled
  BY <1>2 DEF Settled, NeighCurrent
<1>22. Obeys(R, "route")
  <2>1. Obeys(S, "route")
    BY DEF Settled, RouteLists
  <2> QED
    BY <1>2, <1>7, <2>1 DEF Obeys, enable_route, RouteLike
<1>23. \A L \in RouteLists : Obeys(R, L)
  <2>1. \A L \in RouteLists \ {"route"} : Obeys(R, L)
    BY <1>2 DEF Settled, Obeys, enable_route
  <2> QED
    BY <1>22, <2>1
<1>24. Current(R, "route")
  BY <1>2, <1>7 DEF Settled, Current, RouteLike
<1>25. Current(R, "croute")
  BY <1>2 DEF Settled, Current
<1>26. Settled(R)
  BY <1>18, <1>19, <1>20, <1>21, <1>23, <1>24, <1>25 DEF Settled
<1> QED
  BY <1>26 DEF R

\* A second, with interface_ip_valid_until_handler().
LEMMA TickRests == ASSUME Resting, Tick PROVE Resting' /\ hroute' = hroute
<1> DEFINE N == Now({})
           S == Aged(N)
           T == {a \in S.addr : a.left # None /\ a.left < 0}
           U == {r \in S.route : r.left # None /\ r.left < 0}
           A == RemoveAddrs(S, T)
           B == RemoveRoutes(A, "route", U)
           R == IF up THEN B ELSE S
<1>1. Becomes(R)
  BY Zenon DEF Tick, Aged
<1>2. Ready(N) /\ N \in StateType /\ Settled(N) /\ Inv(N) /\ N.hroute = hroute /\ N.l3
  <2>1. addr \cup route # {}
    BY DEF Tick
  <2> QED
    BY <2>1, RestFacts DEF Inv
<1> HIDE DEF N
<1>3. S \in StateType /\ Same(S, N, {"addr", "route", "kaddr"}) /\ Settled(S)
  BY <1>2, AgedFacts, AgedSettled
<1>4. T \in SUBSET EntryType /\ IsFiniteSet(T) /\ U \in SUBSET S.route
  <2>1. S.addr \in SUBSET EntryType /\ IsFiniteSet(S.addr)
    BY <1>3, Typed DEF Settled, Core, Finite
  <2> HIDE DEF S
  <2> QED
    BY <2>1, FS_Subset
<1> HIDE DEF S, T, U
<1>5. A \in StateType /\ Settled(A) /\ Same(A, S, AddrFields)
  BY <1>3, <1>4, RemoveAddrsSettled
<1> HIDE DEF A
<1>6. A["route"] = S.route
  BY <1>5 DEF Same, Fields, AddrFields, KernelFields
<1>7. B \in StateType /\ Settled(B) /\ Same(B, A, RouteFields("route"))
  BY <1>4, <1>5, <1>6, RemoveRoutesSettled DEF RouteLists
<1> HIDE DEF B
<1>8. R \in StateType /\ Settled(R)
  BY <1>3, <1>7
<1>9. Same(R, N, ProtoFields)
  <2>1. Same(S, N, ProtoFields)
    BY <1>3, SameMore DEF ProtoFields
  <2>2. Same(A, S, ProtoFields)
    BY <1>5, SameMore DEF ProtoFields, AddrFields, KernelFields
  <2>3. Same(B, A, ProtoFields)
    BY <1>7, SameMore DEF ProtoFields, RouteFields
  <2> QED
    BY <2>1, <2>2, <2>3, SameStep
<1> HIDE DEF R
<1>10. /\ R.l3 = N.l3 /\ R.up = N.up /\ R.enabled = N.enabled /\ R.set = N.set /\ R.faults = N.faults
       /\ R.hroute = N.hroute /\ R.unclaimed = N.unclaimed
  BY <1>9 DEF Same, Fields, ProtoFields
<1>11. Ready(R)
  BY <1>2, <1>8, <1>10 DEF Ready, Inv
<1> QED
  BY <1>1, <1>2, <1>10, <1>11, BecomesReady

-----------------------------------------------------------------------------
(***************************************************************************)
(* The theorems.                                                           *)
(***************************************************************************)
\* The inductive invariant holds at the start.
LEMMA InitRests == ASSUME Init PROVE Resting
<1> DEFINE S == Now({})
<1>1. faults = 0 /\ Cardinality({}) = 0 /\ MaxFaults \in Nat
  BY FS_EmptySet, IpAssumption DEF Init
<1>2. set \in SetType /\ set \in {c.set : c \in Configs}
  BY IpAssumption DEF Init
<1>3. S = [l3 |-> FALSE, up |-> FALSE, enabled |-> FALSE, set |-> set, addr |-> {}, route |-> {},
           neigh |-> {}, croute |-> {}, hroute |-> {}, policy_rules_set |-> FALSE,
           kaddr |-> {}, kroute |-> {}, knull |-> {}, krule |-> {}, kneigh |-> {},
           lost |-> {}, orphans |-> {}, faults |-> 0, bad |-> {}, fresh |-> {}, unsorted |-> {},
           nrefused |-> {}, unclaimed |-> FALSE, unseen |-> {}, met |-> {}]
  <2>1. faults + Cardinality({}) = 0
    BY <1>1
  <2> QED
    BY <2>1, Zenon DEF Init, Now
<1> HIDE DEF S
<1>4. S \in StateType
  BY <1>2, <1>3 DEF StateType
<1>5. /\ S.l3 = FALSE /\ S.up = FALSE /\ S.enabled = FALSE /\ S.policy_rules_set = FALSE /\ S.set = set
      /\ S.addr = {} /\ S.neigh = {} /\ S.route = {} /\ S.hroute = {} /\ S.croute = {} /\ S.faults = 0
      /\ S.kaddr = {} /\ S.kroute = {} /\ S.knull = {} /\ S.krule = {} /\ S.kneigh = {}
  BY <1>3
<1>6. \A L \in RouteLists : S[L] = {}
  BY <1>5 DEF RouteLists
<1>7. Finite(S)
  BY <1>5, <1>6, FS_EmptySet DEF Finite
<1>8. Keys(S) /\ AddrOK(S) /\ NullOK(S) /\ RulesOK(S) /\ SubnetsOff(S) /\ NeighOK(S)
  BY <1>5 DEF Keys, AddrOK, NullOK, RulesOK, SubnetsOff, NeighOK
<1>9. RoutesOK(S)
  BY <1>5 DEF RoutesOK, Needed, Routes
<1>10. SubnetsCurrent(S) /\ RulesCurrent(S) /\ NeighCurrent(S)
  BY <1>5 DEF SubnetsCurrent, RulesCurrent, NeighCurrent
<1>11. \A L \in RouteLists : Obeys(S, L) /\ Current(S, L)
  BY <1>6 DEF Obeys, Current
<1>12. Settled(S)
  BY <1>5, <1>7, <1>8, <1>9, <1>10, <1>11 DEF Settled, Core, RouteLists
<1>13. Ready(S)
  BY <1>1, <1>2, <1>4, <1>5, <1>12 DEF Ready, Inv
<1> QED
  BY <1>1, <1>13 DEF Resting, S

\* Every step keeps the inductive invariant.
LEMMA NextRests == ASSUME Resting, [Next]_vars PROVE Resting'
<1>1. CASE SetL3
  BY <1>1, SetL3Rests
<1>2. CASE \E m \in Announcements, keep_old \in BOOLEAN : Announce(m, keep_old)
  BY <1>2, AnnounceRests
<1>3. CASE Up
  BY <1>3, UpRests
<1>4. CASE LinkLost
  BY <1>4, LinkLostRests
<1>5. CASE Down
  BY <1>5, DownRests
<1>6. CASE \E c \in Configs : Reload(c)
  BY <1>6, ReloadRests
<1>7. CASE Tick
  BY <1>7, TickRests
<1>8. CASE \E t \in Targets : AddTarget(t)
  BY <1>8, AddTargetRests
<1>9. CASE UNCHANGED vars
  BY <1>9 DEF vars, Resting, Now
<1> QED
  BY <1>1, <1>2, <1>3, <1>4, <1>5, <1>6, <1>7, <1>8, <1>9 DEF Next

OwnedRoute(k) ==
  \/ <<"route", k>> \in orphans
  \/ \E r \in AllRoutes : r.enabled /\ KRoute(r) = k
  \/ \E a \in addr : a.enabled /\ a.sub = k

\* RoutesOwned, one route at a time.
LEMMA AllOwned == ASSUME \A k \in kroute : OwnedRoute(k) PROVE RoutesOwned
  BY Zenon DEF RoutesOwned, OwnedRoute

\* What the inductive invariant says of the variables.
LEMMA RestingMatches == ASSUME Resting PROVE AddressesMatch /\ RoutesMatch
<1> DEFINE S == Now({})
<1>1. S \in StateType /\ Inv(S) /\ Settled(S) /\ Core(S) /\ set \in {c.set : c \in Configs} /\ S.faults \in 0..MaxFaults
  BY RestFacts DEF Ready, Settled
<1>2. /\ S.l3 = l3 /\ S.up = up /\ S.enabled = enabled /\ S.set = set /\ S.addr = addr /\ S.route = route
      /\ S.neigh = neigh /\ S.croute = croute /\ S.hroute = hroute /\ S.policy_rules_set = policy_rules_set
      /\ S.kaddr = kaddr /\ S.kroute = kroute /\ S.knull = knull /\ S.krule = krule /\ S.kneigh = kneigh
      /\ S.lost = lost /\ S.orphans = orphans /\ S.nrefused = nrefused /\ S.unclaimed = unclaimed
  BY DEF Now
<1>3. faults \in 0..MaxFaults
  <2>1. S.faults = faults + Cardinality({})
    BY DEF Now
  <2>2. S.faults = faults
    BY <2>1, FS_EmptySet DEF Resting
  <2> QED
    BY <1>1, <2>2
<1>4. IfRules(Now({})) = IfRules(S)
  OBVIOUS
<1> HIDE DEF S
<1>5. TypeOK
  <2>1. (up => l3 /\ (enabled \/ unclaimed)) /\ policy_rules_set = enabled
    BY <1>1, <1>2 DEF Inv, Settled
  <2>2. ~l3 => ~enabled /\ ~policy_rules_set /\ addr = {} /\ route = {} /\ hroute = {} /\ neigh = {}
    BY <1>1, <1>2, <2>1 DEF Inv
  <2>3. \A a, b \in addr : AddrKey(a) = AddrKey(b) => a = b
    BY <1>1, <1>2 DEF Core, Keys
  <2> QED
    BY <1>1, <1>3, <2>1, <2>2, <2>3 DEF TypeOK
<1>6. AddressesPresent /\ AddressesOwned
  BY <1>1, <1>2 DEF Core, AddrOK, AddressesPresent, AddressesOwned
<1>7. NullRoutes
  BY <1>1, <1>2 DEF Core, NullOK, NullRoutes
<1>8. RulesMatch
  <2>1. ASSUME NEW a \in addr, a.enabled, NEW x \in AddrRules(a) PROVE x \in krule \/ <<"rule", x>> \in lost
    BY <1>1, <1>2, <2>1 DEF Core, RulesOK
  <2>2. ASSUME NEW x \in krule
        PROVE  \/ <<"rule", x>> \in orphans
               \/ \E a \in addr : a.enabled /\ x \in AddrRules(a)
               \/ policy_rules_set /\ x \in IfRules(Now({}))
    <3>1. CASE x \in IfRuleType
      BY <1>1, <1>2, <1>4, <3>1 DEF Settled, RulesCurrent
    <3>2. CASE x \notin IfRuleType
      BY <1>1, <1>2, <3>2 DEF Core, RulesOK
    <3> QED
      BY <3>1, <3>2
  <2> QED
    BY <2>1, <2>2 DEF RulesMatch
<1>9. NeighboursMatch
  BY <1>1, <1>2 DEF Core, NeighOK, NeighboursMatch
<1>10. AllRoutes = Routes(S)
  BY <1>2 DEF AllRoutes, Routes
<1>11. \A k, m : SameSlot(k, m) <=> SameSlot(m, k)
  BY DEF SameSlot
<1>12. RoutesPresent
  <2>1. ASSUME NEW r \in AllRoutes, r.enabled, ~r.failed, <<"route", KRoute(r)>> \notin lost
        PROVE  \E k \in kroute : SameSlot(k, KRoute(r))
    <3>1. KRoute(r) \in Needed(S)
      BY <1>10, <2>1 DEF Needed
    <3>2. Has(S, KRoute(r))
      BY <1>1, <3>1 DEF Core, RoutesOK
    <3> QED
      BY <1>2, <2>1, <3>2 DEF Has
  <2>2. ASSUME NEW a \in addr, a.enabled, a.sub # None, <<"route", a.sub>> \notin lost
        PROVE  \E k \in kroute : SameSlot(k, a.sub)
    <3>1. a.sub \in Needed(S)
      BY <1>2, <2>2 DEF Needed
    <3>2. Has(S, a.sub)
      BY <1>1, <3>1 DEF Core, RoutesOK
    <3> QED
      BY <1>2, <2>2, <3>2 DEF Has
  <2> QED
    BY <2>1, <2>2 DEF RoutesPresent
<1>13. RoutesOwned
  <2>1. ASSUME NEW k \in kroute PROVE OwnedRoute(k)
    <3>1. <<"route", k>> \in orphans \/ k \in Enabled(S)
      BY <1>1, <1>2 DEF Core, RoutesOK, Owns
    <3>2. k \in Enabled(S) => \/ \E r \in AllRoutes : r.enabled /\ KRoute(r) = k
                              \/ \E a \in addr : a.enabled /\ a.sub = k
      BY <1>2, <1>10 DEF Enabled
    <3> QED
      BY <3>1, <3>2 DEF OwnedRoute
  <2> QED
    BY <2>1, AllOwned
<1>14. InfoIsCurrent
  <2>1. Current(S, "route") /\ Current(S, "croute")
    BY <1>1 DEF Settled
  <2> QED
    BY <1>2, <2>1 DEF Current, InfoIsCurrent, AllRoutes
<1>15. DefaultRouteObeyed
  <2>1. Obeys(S, "route")
    BY <1>1 DEF Settled, RouteLists
  <2> QED
    BY <1>2, <2>1 DEF Obeys, enable_route, DefaultRouteObeyed
<1> QED
  BY <1>5, <1>6, <1>7, <1>8, <1>9, <1>12, <1>13, <1>14, <1>15 DEF AddressesMatch, RoutesMatch

\* The inductive invariant holds always.
LEMMA SpecRests == Spec => []Resting
<1>1. Init => Resting
  BY InitRests
<1>2. Resting /\ [Next]_vars => Resting'
  BY NextRests
<1> QED
  BY <1>1, <1>2, PTL DEF Spec

\* The kernel has the addresses, policy rules, unreachable routes and neighbours that the
\* lists of interface-ip.c have enabled, after every sequence of announcements, reloads,
\* refusals, ends of lifetimes, ups and downs, but for what is recorded as refused, lost
\* or left.
THEOREM AddressesAlwaysMatch == Spec => []AddressesMatch
<1>1. Resting => AddressesMatch
  BY RestingMatches
<1> QED
  BY <1>1, SpecRests, PTL

\* The kernel has the routes that the lists have enabled, with the metric and in the table
\* the interface has now, but for what is recorded as lost or left, and the option
\* "defaultroute" is obeyed, also when the search trees are out of order.
THEOREM RoutesAlwaysMatch == Spec => []RoutesMatch
<1>1. Resting => RoutesMatch
  BY RestingMatches
<1> QED
  BY <1>1, SpecRests, PTL

\* Only a request for a host adds a route to it, and the gateway is that of a route with
\* the longest mask and, among those, not a worse metric: the loops of
\* __find_ip_route_target() find one in whichever order they meet the routes.
THEOREM TargetsGoByTheLongestMask == Spec => TargetVia
<1> DEFINE Via ==
             \A h \in hroute' \ hroute :
               (h.enabled /\ set' = set /\ up' = up /\ addr' = addr /\ route' = route) =>
                 \E r \in route \cup croute :
                   /\ r.enabled /\ r.gw = h.gw /\ <<r.dst, h.dst>> \in Covers
                   /\ \A q \in route \cup croute :
                        (q.enabled /\ q.tab = None /\ <<q.dst, h.dst>> \in Covers) =>
                          /\ Mask[q.dst] <= Mask[r.dst]
                          /\ (Mask[q.dst] = Mask[r.dst] /\ q.met # None) => ~(q.metric < r.metric)
<1>1. ASSUME Resting, [Next]_vars PROVE [Via]_vars
  <2> USE <1>1
  <2>1. CASE SetL3
    BY <2>1, SetL3Rests
  <2>2. CASE \E m \in Announcements, keep_old \in BOOLEAN : Announce(m, keep_old)
    BY <2>2, AnnounceRests
  <2>3. CASE Up
    <3>1. up' = TRUE /\ ~up
      BY <2>3, UpRests DEF Up
    <3> QED
      BY <3>1
  <2>4. CASE LinkLost
    <3>1. up' = FALSE /\ up
      BY <2>4, LinkLostRests DEF LinkLost
    <3> QED
      BY <3>1
  <2>5. CASE Down
    BY <2>5, DownRests
  <2>6. CASE \E c \in Configs : Reload(c)
    BY <2>6, ReloadRests
  <2>7. CASE Tick
    BY <2>7, TickRests
  <2>8. CASE \E t \in Targets : AddTarget(t)
    <3>1. \A h \in hroute' \ hroute : \E r \in route \cup croute : r.gw = h.gw /\ BestFor(r, h.dst)
      BY <2>8, AddTargetRests
    <3>2. Via
      BY <3>1 DEF BestFor
    <3> QED
      BY <3>2
  <2>9. CASE UNCHANGED vars
    BY <2>9
  <2> QED
    BY <2>1, <2>2, <2>3, <2>4, <2>5, <2>6, <2>7, <2>8, <2>9 DEF Next
<1>2. TargetVia <=> [][Via]_vars
  BY DEF TargetVia
<1> HIDE DEF Via
<1>3. Resting /\ [Next]_vars => [Via]_vars
  BY <1>1
<1> QED
  BY <1>2, <1>3, SpecRests, PTL DEF Spec
=============================================================================
