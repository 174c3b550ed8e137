--------------------------------- MODULE Ip ---------------------------------
(***************************************************************************)
(* The addresses, routes, neighbours and policy rules of an interface      *)
(* (interface-ip.c) and what the kernel has of them.  The protocol handler *)
(* announces addresses, routes and neighbours, the configuration adds      *)
(* routes, a host route is added for the peer of a tunnel, lifetimes end,  *)
(* the interface goes up and down, and a reload changes its metric, its    *)
(* routing table or its option "defaultroute" while all that is in place.  *)
(*                                                                         *)
(* Kernel objects are known by what tells them apart: an address by its    *)
(* name, a route by destination, metric, table and gateway.  The kernel    *)
(* may refuse to add an address, a route or a neighbour, and the claim of  *)
(* another layer 3 device may fail.  A list of routes is a search tree     *)
(* whose keys change in place; once it is out of order a search may pass   *)
(* by any entry.  Subprefixes are in module Prefix; name servers and       *)
(* entries the handler sets up itself (DEVADDR_EXTERNAL) are left out.     *)
(* What the code is known to lose or to leave behind is recorded in the    *)
(* variables lost, orphans, nrefused and unclaimed, so that the properties *)
(* say that nothing else is.                                               *)
(***************************************************************************)
EXTENDS Integers, Sequences, FiniteSets, SequencesExt

CONSTANTS
  Announcements,  \* what the handler can announce: addresses, routes, neighbours
  Configs,        \* configurations: metric, table and no_defaultroute in set, and routes
  Targets,        \* hosts a route can be asked for
  Onlink,         \* pairs of an address and a host in its network
  Covers,         \* pairs of a destination and a host in it
  Mask,           \* per destination the length of its mask, 0 for the default route
  Refused,        \* objects the kernel may refuse
  MaxFaults,      \* bound: how often it does
  MaxRoutes,      \* bound: routes of the protocol at the end of a step
  MaxHostRoutes,  \* bound: host routes of the interface
  None

Maybe(T) == T \cup {None}

AddrType == [id : STRING, v6 : BOOLEAN, off : BOOLEAN, left : Maybe(Nat), ptp : Nat]

NeighType == [id : STRING, mac : Nat]

SetType == [metric : Nat, table : Nat, nodef : BOOLEAN]

\* Subnet routes: network, metric and table, no gateway.
SubnetType == STRING \X Nat \X Nat \X {None}

RouteType == [dst : DOMAIN Mask, met : Maybe(Nat), tab : Maybe(Nat), gw : STRING, left : Maybe(Nat)]

\* Entries of a list of routes.
RouteEntryType == [dst : DOMAIN Mask, met : Maybe(Nat), tab : Maybe(Nat), gw : STRING, left : Maybe(Int),
                   metric : Nat, table : Nat, src : BOOLEAN, enabled : BOOLEAN, failed : BOOLEAN, no : Nat]

\* Of the routes with the same destination and metric, and of the neighbours with the same
\* address, the last one announced is left.
ASSUME IpAssumption ==
  /\ \A m \in Announcements :
       /\ m.addr \in Seq(AddrType)
       /\ m.neigh \in SUBSET NeighType /\ IsFiniteSet(m.neigh)
       /\ \A n, o \in m.neigh : n.id = o.id => n = o
  /\ \A routes \in {x.route : x \in Announcements} \cup {x.routes : x \in Configs} :
       /\ routes \in SUBSET RouteType /\ IsFiniteSet(routes)
       /\ \A r, q \in routes : <<r.dst, r.met, r.tab>> = <<q.dst, q.met, q.tab>> => r = q
  /\ \A c \in Configs : c.set \in SetType
  /\ \A d \in DOMAIN Mask : Mask[d] \in 0..128
  /\ Targets \subseteq DOMAIN Mask
  /\ None \notin Int /\ None \notin SubnetType /\ None \notin RouteEntryType
  /\ MaxFaults \in Nat /\ MaxRoutes \in Nat /\ MaxHostRoutes \in Nat

VARIABLES
  l3,        \* there is a layer 3 device
  up,        \* IFS_UP
  enabled,   \* config_ip.enabled and proto_ip.enabled
  set,       \* metric, ip4table and ip6table, no_defaultroute
  addr, route, neigh,   \* proto_ip
  croute,    \* config_ip.route
  hroute,    \* host_routes
  unsorted,  \* the lists of routes whose tree may be out of order
  policy_rules_set,
  kaddr, kroute, knull, krule, kneigh,   \* the kernel
  lost, orphans, nrefused, unclaimed, faults

vars == <<l3, up, enabled, set, addr, route, neigh, croute, hroute, unsorted, policy_rules_set,
          kaddr, kroute, knull, krule, kneigh, lost, orphans, nrefused, unclaimed, faults>>

\* The state as a record; bad is what is refused in this step, fresh the routes that are
\* announced in it, unseen the entries its searches of a tree out of order pass by, and
\* met those its insertions there come upon.
Now(bad) ==
  [l3 |-> l3, up |-> up, enabled |-> enabled, set |-> set, addr |-> addr, route |-> route,
   neigh |-> neigh, croute |-> croute, hroute |-> hroute, unsorted |-> unsorted,
   policy_rules_set |-> policy_rules_set, kaddr |-> kaddr, kroute |-> kroute, knull |-> knull,
   krule |-> krule, kneigh |-> kneigh, lost |-> lost, orphans |-> orphans, nrefused |-> nrefused,
   unclaimed |-> unclaimed, faults |-> faults + Cardinality(bad), bad |-> bad, fresh |-> {},
   unseen |-> {}, met |-> {}]

\* A pass over a list, and over a set in some order.
InOrder(Step(_, _), S, list) ==
  LET after[n \in 0..Len(list)] == IF n = 0 THEN S ELSE Step(after[n - 1], list[n])
  IN  after[Len(list)]

ForEach(Step(_, _), S, T) == InOrder(Step, S, SetToSeq(T))
-----------------------------------------------------------------------------
(***************************************************************************)
(* The kernel.                                                             *)
(***************************************************************************)

\* system_addr() does not send anything for an address whose lifetime has ended.
Ended(a) == a.left # None /\ a.left <= 0

AddrRefused(S, a) == Ended(a) \/ <<"addr", a.id>> \in S.bad

\* An entry that has the same address with another lifetime loses its own.
system_add_address(S, a) ==
  IF AddrRefused(S, a) THEN S
  ELSE [S EXCEPT !.kaddr = {x \in @ : x.id # a.id} \cup {[id |-> a.id, left |-> a.left]},
                 !.lost = IF \E b \in S.addr : b.id = a.id /\ b.enabled /\ ~b.failed /\ b.left # a.left
                          THEN @ \cup {<<"addr", a.id>>} ELSE @ \ {<<"addr", a.id>>}]

\* An address that another entry has too is lost to it.  One announced with a lifetime that
\* has ended stays in the kernel, for as long as it was announced before.
system_del_address(S, a) ==
  IF Ended(a) THEN [S EXCEPT !.orphans = @ \cup {<<"addr", a.id>>}]
  ELSE [S EXCEPT !.kaddr = {x \in @ : x.id # a.id},
                 !.lost = IF \E b \in S.addr : b.id = a.id /\ b.enabled
                          THEN @ \cup {<<"addr", a.id>>} ELSE @ \ {<<"addr", a.id>>}]

\* A route without a table of its own and without the interface's is in the main table.
KRoute(r) == <<r.dst, r.metric, IF r.tab # None \/ r.src THEN r.table ELSE 0, r.gw>>

SameSlot(k, m) == k[1] = m[1] /\ k[2] = m[2] /\ k[3] = m[3]

Routes(S) == S.route \cup S.croute \cup S.hroute

Enabled(S) ==
  {KRoute(r) : r \in {x \in Routes(S) : x.enabled}} \cup {a.sub : a \in {b \in S.addr : b.enabled /\ b.sub # None}}

system_add_route(S, k) ==
  [S EXCEPT !.kroute = {m \in @ : ~SameSlot(k, m)} \cup {k},
            !.lost = {x \in @ : ~(x[1] = "route" /\ SameSlot(x[2], k))}]

system_del_route(S, k) ==
  [S EXCEPT !.kroute = @ \ {k},
            !.lost = (@ \ {<<"route", k>>})
                       \cup {<<"route", m>> : m \in {x \in Enabled(S) : SameSlot(x, k)}}]
-----------------------------------------------------------------------------
(***************************************************************************)
(* Addresses.  An entry is known by its place in the announcement, its     *)
(* flags and its address.                                                  *)
(***************************************************************************)
AddrKey(a) == <<a.idx, a.v6, a.off, a.id>>

Subnet(S, a) == <<a.id, S.set.metric, S.set.table, None>>

WantsSubnet(S, a) == ~a.off /\ (S.set.metric # 0 \/ S.set.table # 0)

\* interface_handle_subnet_route(): the subnet route with the metric and the table of the
\* interface; what the entry remembers is what is deleted.
AddSubnet(S, a) == IF WantsSubnet(S, a) THEN system_add_route(S, Subnet(S, a)) ELSE S

DelSubnet(S, a) == IF a.sub = None THEN S ELSE system_del_route(S, a.sub)

\* interface_add_addr_rules().
AddrRules(a) == IF a.ptab = 0 THEN {} ELSE {<<"addr", a.id, a.ptab>>}

Rules(R) == {<<"rule", x>> : x \in R}

\* A rule that another entry has too goes with it.
DelRules(S, a) ==
  [S EXCEPT !.krule = @ \ AddrRules(a),
            !.lost = (@ \ Rules(AddrRules(a)))
                       \cup Rules(AddrRules(a) \cap UNION {AddrRules(b) : b \in {c \in S.addr : c.enabled}})]

AddRules(S, a) == [S EXCEPT !.krule = @ \cup AddrRules(a), !.lost = @ \ Rules(AddrRules(a))]

\* The route that keeps packets to the rest of an off-link network from looping.
AddNull(S, a) == IF a.off THEN [S EXCEPT !.knull = @ \cup {a.id}, !.lost = @ \ {<<"null", a.id>>}] ELSE S

DelNull(S, a) ==
  IF a.off
  THEN [S EXCEPT !.knull = @ \ {a.id},
                 !.lost = IF \E b \in S.addr \ {a} : b.id = a.id /\ b.off /\ b.enabled
                          THEN @ \cup {<<"null", a.id>>} ELSE @ \ {<<"null", a.id>>}]
  ELSE S

\* interface_update_proto_addr() of an enabled entry that is not kept.  The null route is
\* looked for as an IPv4 route: that of an IPv6 address stays.
drop_addr(S, a) ==
  LET S1 == DelRules([S EXCEPT !.addr = @ \ {a}], a)
      S2 == system_del_address(DelSubnet(S1, a), a)
  IN  IF a.off /\ a.v6 THEN [S2 EXCEPT !.orphans = @ \cup {<<"null", a.id>>}] ELSE DelNull(S2, a)

RemoveAddr(S, a) == IF a.enabled THEN drop_addr(S, a) ELSE [S EXCEPT !.addr = @ \ {a}]

RemoveAddrs(S, A) == ForEach(LAMBDA T, a : RemoveAddr(T, a), S, A)

NewAddr(S, d) == [id |-> d.id, idx |-> d.idx, v6 |-> d.v6, off |-> d.off,
                  left |-> d.left, ptp |-> d.ptp, enabled |-> TRUE, failed |-> FALSE,
                  ptab |-> S.set.table, sub |-> None]

\* The new entry into the list and, as far as needed, into the kernel.  Without replace a
\* kept entry forgets its subnet route.
put_addr(S, n, keep, replace) ==
  LET a == [n EXCEPT !.failed = (~keep \/ replace) /\ AddrRefused(S, n),
                     !.sub = IF (~keep \/ replace) /\ WantsSubnet(S, n)
                             THEN Subnet(S, n) ELSE None]
      S1 == [S EXCEPT !.addr = @ \cup {a}]
      S2 == AddSubnet(system_add_address(S1, a), a)
  IN  IF keep /\ ~replace THEN S1
      ELSE IF keep THEN S2
      ELSE AddRules(AddNull(S2, a), a)

\* Mutant: an address the kernel has refused is kept like the others.
interface_update_proto_addr_Keeps(S, d) ==
  LET old == {a \in S.addr : AddrKey(a) = AddrKey(d)}
      n == NewAddr(S, d)
  IN  IF old = {} THEN put_addr(S, n, FALSE, FALSE)
      ELSE LET o == CHOOSE a \in old : TRUE
               keep == o.ptp = d.ptp
               replace == o.left # d.left
               S1 == IF keep THEN [S EXCEPT !.addr = @ \ {o}] ELSE RemoveAddr(S, o)
               S2 == put_addr(S1, n, keep, replace)
           IN  IF ~keep THEN S2
               ELSE [S2 EXCEPT
                       !.orphans = @ \cup Rules(AddrRules(o) \ AddrRules(n))
                                     \cup (IF o.sub # None /\ ~(replace /\ WantsSubnet(S, n))
                                           THEN {<<"route", o.sub>>} ELSE {}),
                       !.lost = @ \cup Rules(IF o.enabled THEN AddrRules(n) \ AddrRules(o) ELSE AddrRules(n))
                                  \cup (IF o.enabled THEN {}
                                        ELSE {<<"null", o.id>>} \cup (IF replace THEN {} ELSE {<<"addr", o.id>>}))]

\* An entry that is announced again is kept if it is the same and had been accepted: only
\* a new lifetime is passed on.  One that was disabled then counts as enabled, and one
\* with rules for a table the interface no longer has keeps those.
interface_update_proto_addr(S, d) ==
  LET old == {a \in S.addr : AddrKey(a) = AddrKey(d)}
      n == NewAddr(S, d)
  IN  IF old = {} THEN put_addr(S, n, FALSE, FALSE)
      ELSE LET o == CHOOSE a \in old : TRUE
               keep == ~o.failed /\ o.ptp = d.ptp
               replace == o.left # d.left
               S1 == IF keep THEN [S EXCEPT !.addr = @ \ {o}] ELSE RemoveAddr(S, o)
               S2 == put_addr(S1, n, keep, replace)
           IN  IF ~keep THEN S2
               ELSE [S2 EXCEPT
                       !.orphans = @ \cup Rules(AddrRules(o) \ AddrRules(n))
                                     \cup (IF o.sub # None /\ ~(replace /\ WantsSubnet(S, n))
                                           THEN {<<"route", o.sub>>} ELSE {}),
                       !.lost = @ \cup Rules(IF o.enabled THEN AddrRules(n) \ AddrRules(o) ELSE AddrRules(n))
                                  \cup (IF o.enabled THEN {}
                                        ELSE {<<"null", o.id>>} \cup (IF replace THEN {} ELSE {<<"addr", o.id>>}))]

UpdateAddrs(S, list) == InOrder(LAMBDA T, d : interface_update_proto_addr(T, d), S, list)
-----------------------------------------------------------------------------
(***************************************************************************)
(* Routes.  An entry of a list L is looked up by its destination, metric,  *)
(* table and flags; no tells apart those announced alike.                  *)
(***************************************************************************)
RouteKey(r) == <<r.dst, r.metric, r.table, r.met # None, r.tab # None, r.src>>

\* interface_set_route_info(): the metric and the table of the interface for a route
\* without its own.  The flag for the table is never taken back.
interface_set_route_info(S, r) ==
  [r EXCEPT !.metric = IF r.met = None THEN S.set.metric ELSE @,
            !.table = IF r.tab = None THEN S.set.table ELSE @,
            !.src = @ \/ (r.tab = None /\ S.set.table # 0)]

\* A route as announced or configured.
NewRoute(S, d) ==
  interface_set_route_info(S, [dst |-> d.dst, met |-> d.met, tab |-> d.tab, gw |-> d.gw, left |-> d.left,
                               metric |-> IF d.met = None THEN 0 ELSE d.met,
                               table |-> IF d.tab = None THEN 0 ELSE d.tab,
                               src |-> FALSE, enabled |-> FALSE, failed |-> FALSE, no |-> 0])

\* DEVROUTE_METRIC, DEVROUTE_TABLE and DEVROUTE_SRCTABLE.
Flags(r) == (IF r.met = None THEN 0 ELSE 8) + (IF r.tab = None THEN 0 ELSE 128) + (IF r.src THEN 256 ELSE 0)

\* route_cmp(): r is sorted before q.  Routes that differ in the destination alone are left
\* as they are: a destination never changes.
Before(r, q) ==
  \/ Mask[r.dst] > Mask[q.dst]
  \/ /\ Mask[r.dst] = Mask[q.dst]
     /\ \/ r.metric < q.metric
        \/ r.metric = q.metric /\ Flags(r) > Flags(q)
        \/ r.metric = q.metric /\ Flags(r) = Flags(q) /\ r.table < q.table

\* The option "defaultroute" is the protocol's.
enable_route(S, L, r) == S.enabled /\ ~(L # "croute" /\ S.set.nodef /\ Mask[r.dst] = 0)

RouteRefused(S, r) == <<"route", r.dst>> \in S.bad

AddIfTaken(S, r) == IF RouteRefused(S, r) THEN S ELSE system_add_route(S, KRoute(r))

RemoveRoute(S, L, r) ==
  LET S1 == [S EXCEPT ![L] = @ \ {r}]
  IN  IF r.enabled THEN system_del_route(S1, KRoute(r)) ELSE S1

\* The name of an entry: as it was announced, and its number among those.
Node(r) == <<r.dst, r.met, r.tab, r.no>>

\* n with a number no entry of the list X has that was announced like it.
Numbered(X, n) ==
  LET Named(k) == [n EXCEPT !.no = k]
  IN  Named(CHOOSE k \in 0..Cardinality(X) : \A q \in X : Node(q) # Node(Named(k)))

\* vlist_add(): the entries with the key of n the search can find.
Found(S, L, n) == {r \in S[L] : RouteKey(r) = RouteKey(n) /\ (L \in S.unsorted => Node(r) \notin S.unseen)}

\* vlist_add() when avl_insert() comes upon another entry with that key: n does not get
\* into the list, what the kernel has of it is forgotten.
Dropped(S, L, n) == L \in S.unsorted /\ \E q \in S[L] : RouteKey(q) = RouteKey(n) /\ Node(q) \in S.met

Insert(S, L, n) ==
  IF Dropped(S, L, n) THEN [S EXCEPT !.orphans = @ \cup {<<"route", KRoute(n)>>}]
  ELSE [S EXCEPT ![L] = @ \cup {n}, !.fresh = @ \cup {n}]

\* An entry that is announced again is kept if its gateway is the same and it had been
\* accepted.
__interface_update_route(S, L, n) ==
  LET old == Found(S, L, n)
      o == CHOOSE r \in old : TRUE
      keep == old # {} /\ o.gw = n.gw /\ ~o.failed
      S1 == IF old = {} THEN S
            ELSE IF keep THEN [S EXCEPT ![L] = @ \ {o}] ELSE RemoveRoute(S, L, o)
      on == enable_route(S, L, n)
      r == [Numbered(S1[L], n) EXCEPT !.enabled = on, !.failed = ~keep /\ on /\ RouteRefused(S, n)]
      S2 == IF old = {} THEN [S1 EXCEPT ![L] = @ \cup {r}, !.fresh = @ \cup {r}] ELSE Insert(S1, L, r)
  IN  IF ~keep /\ on THEN AddIfTaken(S2, r) ELSE S2

\* Mutant: the new metric and table are set before the old route is deleted.
interface_ip_set_route_enabled_InfoFirst(S, L, r, want) ==
  LET on == want /\ enable_route(S, L, r)
      n == interface_set_route_info(S, r)
      S1 == [S EXCEPT ![L] = (@ \ {r}) \cup {[n EXCEPT !.enabled = on, !.failed = @ \/ (on /\ RouteRefused(S, r))]}]
  IN  IF r.enabled = on THEN S
      ELSE IF on THEN AddIfTaken(S1, n) ELSE system_del_route(S1, KRoute(n))

interface_ip_set_route_enabled(S, L, r, want) ==
  LET on == want /\ enable_route(S, L, r)
      n == [interface_set_route_info(S, r) EXCEPT !.enabled = TRUE, !.failed = @ \/ RouteRefused(S, r)]
      off == [r EXCEPT !.enabled = FALSE]
  IN  IF r.enabled = on THEN S
      ELSE IF on THEN AddIfTaken([S EXCEPT ![L] = (@ \ {r}) \cup {n}], n)
      ELSE system_del_route([S EXCEPT ![L] = (@ \ {r}) \cup {off}], KRoute(r))

\* An entry after it has been turned on or off.
Informed(S, L, r, want) ==
  IF ~r.enabled /\ want /\ enable_route(S, L, r) THEN interface_set_route_info(S, r) ELSE r

\* Entries of the list change places in the order of route_cmp(), not in the tree.
Unsorts(S, L, want) ==
  \E r, q \in S[L] : Before(r, q) # Before(Informed(S, L, r, want), Informed(S, L, q, want))

SetRoutes(S, L, want) ==
  LET R == ForEach(LAMBDA T, r : interface_ip_set_route_enabled(T, L, r, want), S, S[L])
  IN  IF Unsorts(S, L, want) THEN [R EXCEPT !.unsorted = @ \cup {L}] ELSE R

RemoveRoutes(S, L, R) == ForEach(LAMBDA T, r : RemoveRoute(T, L, r), S, R)

UpdateRoutes(S, L, R) == ForEach(LAMBDA T, d : __interface_update_route(T, L, NewRoute(T, d)), S, R)
-----------------------------------------------------------------------------
(***************************************************************************)
(* Neighbours: name and hardware address.  A neighbour the kernel refuses  *)
(* is marked as failed, which nothing looks at: it counts as enabled, and  *)
(* is kept when it is announced again.                                     *)
(***************************************************************************)
system_add_neighbor(S, n) ==
  IF <<"neigh", n.id>> \in S.bad THEN [S EXCEPT !.nrefused = @ \cup {n.id}]
  ELSE [S EXCEPT !.kneigh = {x \in @ : x.id # n.id} \cup {[id |-> n.id, mac |-> n.mac]},
                 !.nrefused = @ \ {n.id}]

system_del_neighbor(S, n) == [S EXCEPT !.kneigh = {x \in @ : x.id # n.id}, !.nrefused = @ \ {n.id}]

RemoveNeigh(S, n) ==
  LET S1 == [S EXCEPT !.neigh = @ \ {n}] IN IF n.enabled THEN system_del_neighbor(S1, n) ELSE S1

RemoveNeighs(S, N) == ForEach(LAMBDA T, n : RemoveNeigh(T, n), S, N)

interface_update_proto_neighbor(S, d) ==
  LET n == [id |-> d.id, mac |-> d.mac, enabled |-> S.enabled]
      old == {x \in S.neigh : x.id = d.id}
      keep == \E x \in old : x.mac = d.mac
      S1 == IF keep THEN [S EXCEPT !.neigh = @ \ old]
            ELSE RemoveNeighs(S, old)
      S2 == [S1 EXCEPT !.neigh = @ \cup {n}]
  IN  IF ~keep /\ S.enabled THEN system_add_neighbor(S2, n) ELSE S2

UpdateNeighs(S, N) == ForEach(LAMBDA T, d : interface_update_proto_neighbor(T, d), S, N)

SetNeigh(S, n, want) ==
  LET m == [n EXCEPT !.enabled = want]
      S1 == [S EXCEPT !.neigh = (@ \ {n}) \cup {m}]
  IN  IF n.enabled = want THEN S
      ELSE IF want THEN system_add_neighbor(S1, m) ELSE system_del_neighbor(S1, m)

SetNeighs(S, want) == ForEach(LAMBDA T, n : SetNeigh(T, n, want), S, S.neigh)
-----------------------------------------------------------------------------
(***************************************************************************)
(* interface_ip_set_enabled().                                             *)
(***************************************************************************)
SetAddr(S, a, want) ==
  LET on == [a EXCEPT !.enabled = TRUE, !.ptab = S.set.table,
                      !.sub = IF WantsSubnet(S, a) THEN Subnet(S, a) ELSE None]
      off == [a EXCEPT !.enabled = FALSE, !.sub = None]
      S1 == [S EXCEPT !.addr = (@ \ {a}) \cup {IF want THEN on ELSE off},
                      !.lost = IF want /\ AddrRefused(S, a) THEN @ \cup {<<"addr", a.id>>} ELSE @]
  IN  IF a.enabled = want THEN S
      ELSE IF want THEN AddRules(AddNull(AddSubnet(system_add_address(S1, on), on), on), on)
      ELSE DelRules(DelNull(system_del_address(DelSubnet(S1, a), a), a), a)

SetAddrs(S, want) == ForEach(LAMBDA T, a : SetAddr(T, a, want), S, S.addr)

\* The rules of the interface: for packets of the router itself (set_ip_lo_policy()), and
\* the one that fails what no other rule takes.  A rule for a table the interface had
\* before a reload stays.
IfRules(S) == {<<"fail">>} \cup (IF S.set.table = 0 THEN {} ELSE {<<"lo", S.set.table>>})

SetPolicyRules(S, want) ==
  IF S.policy_rules_set = want THEN S
  ELSE [S EXCEPT !.policy_rules_set = want,
                 !.krule = IF want THEN @ \cup IfRules(S) ELSE @ \ IfRules(S),
                 !.orphans = IF want THEN @
                             ELSE @ \cup {<<"rule", x>> : x \in {y \in S.krule \ IfRules(S) : y[1] = "lo"}}]

SetEnabledConfig(S, want) ==
  LET S1 == [S EXCEPT !.enabled = want]
  IN  IF ~S.l3 THEN S1 ELSE SetPolicyRules(SetRoutes(S1, "croute", want), want)

\* Of proto_ip, with the host routes.
interface_ip_set_enabled(S, want) ==
  LET S1 == [S EXCEPT !.enabled = want]
      S2 == SetRoutes(SetRoutes(SetAddrs(S1, want), "route", want), "hroute", want)
  IN  IF ~S.l3 THEN S1 ELSE SetPolicyRules(SetNeighs(S2, want), want)

SetEnabled(S, want) == interface_ip_set_enabled(SetEnabledConfig(S, want), want)

\* interface_ip_flush() of proto_ip.
interface_ip_flush(S) ==
  LET S1 == RemoveRoutes(RemoveRoutes(S, "hroute", S.hroute), "route", S.route)
  IN  RemoveNeighs(RemoveAddrs(S1, S.addr), S.neigh)
-----------------------------------------------------------------------------
(***************************************************************************)
(* The actions.                                                            *)
(***************************************************************************)

\* The step to S, with the history of what S still has.  A tree of one entry is in order.
Becomes(S) ==
  /\ l3' = S.l3 /\ up' = S.up /\ enabled' = S.enabled /\ set' = S.set /\ addr' = S.addr
  /\ route' = S.route /\ neigh' = S.neigh /\ croute' = S.croute /\ hroute' = S.hroute
  /\ policy_rules_set' = S.policy_rules_set /\ kaddr' = S.kaddr /\ kroute' = S.kroute
  /\ knull' = S.knull /\ krule' = S.krule /\ kneigh' = S.kneigh
  /\ nrefused' = S.nrefused /\ unclaimed' = S.unclaimed /\ faults' = S.faults
  /\ unsorted' = {L \in S.unsorted : \E r, q \in S[L] : r # q}
  /\ lost' = {x \in S.lost :
       CASE x[1] \in {"addr", "null"} -> \E a \in S.addr : a.enabled /\ a.id = x[2]
         [] x[1] = "rule" -> \E a \in S.addr : a.enabled /\ x[2] \in AddrRules(a)
         [] x[1] = "route" -> x[2] \in Enabled(S)}
  /\ orphans' = {x \in S.orphans : x[2] \in (CASE x[1] = "addr" -> {y.id : y \in S.kaddr}
                                               [] x[1] = "null" -> S.knull
                                               [] x[1] = "route" -> S.kroute
                                               [] x[1] = "rule" -> S.krule)}

\* What may be refused in a step.
Bad(T) == {{}} \cup {{x} : x \in IF faults < MaxFaults THEN T \cap Refused ELSE {}}

Refusable(A, R, N) ==
  {<<"addr", a.id>> : a \in A} \cup {<<"route", r.dst>> : r \in R} \cup {<<"neigh", n.id>> : n \in N}

\* The step in which the searches of list L, and its insertions, meet what they happen to.
Searching(S, L) ==
  LET all == {Node(r) : r \in S[L]}
      twice == {Node(r) : r \in {x \in S[L] : \E q \in S[L] \ {x} : RouteKey(q) = RouteKey(x)}}
  IN  IF L \notin S.unsorted THEN {S}
      ELSE {[S EXCEPT !.unseen = c[1], !.met = c[2]] : c \in (SUBSET all) \X (SUBSET twice)}

\* interface_set_l3_dev(): the handler names the device, for the first time or another one.
\* If that cannot be claimed as the old one was, the lists stay off.
SetL3 ==
  \E bad \in Bad(IF l3 THEN {<<"claim", "l3">>} \cup Refusable({}, croute, {}) ELSE {}) :
    LET S == Now(bad)
        S1 == interface_ip_flush(SetEnabled(S, FALSE))
    IN  Becomes(IF ~l3 THEN [S EXCEPT !.l3 = TRUE, !.enabled = FALSE]
                ELSE IF <<"claim", "l3">> \in bad THEN [S1 EXCEPT !.unclaimed = up]
                ELSE SetEnabled(S1, enabled))

Indexed(m) == [j \in DOMAIN m.addr |-> [idx |-> j, id |-> m.addr[j].id, v6 |-> m.addr[j].v6,
                                        off |-> m.addr[j].off,
                                        left |-> m.addr[j].left, ptp |-> m.addr[j].ptp]]

\* interface_ip_update_complete(): what was not announced goes, routes first.
Flushed(S, m) ==
  LET keys == {AddrKey(Indexed(m)[j]) : j \in DOMAIN m.addr}
      S1 == RemoveRoutes(S, "route", S.route \ S.fresh)
      S2 == RemoveAddrs(S1, {a \in S.addr : AddrKey(a) \notin keys})
  IN  RemoveNeighs(S2, {n \in S.neigh : n.id \notin {d.id : d \in m.neigh}})

\* The handler announces what it has; with keep_old what it had stays.
Announce(m, keep_old) ==
  /\ l3
  /\ \E bad \in Bad(Refusable({m.addr[j] : j \in DOMAIN m.addr}, m.route, m.neigh)) :
       \E S \in Searching(Now(bad), "route") :
         LET S1 == UpdateRoutes(UpdateAddrs(S, Indexed(m)), "route", m.route)
             S2 == UpdateNeighs(S1, m.neigh)
             S3 == IF keep_old THEN S2 ELSE Flushed(S2, m)
         IN  Cardinality(S3.route) <= MaxRoutes /\ Becomes(S3)

Off(T) == {x \in T : ~x.enabled}

\* IFPEV_UP.
Up ==
  /\ l3 /\ ~up
  /\ \E bad \in Bad(Refusable(Off(addr), Off(Routes(Now({}))), Off(neigh))) :
       Becomes([SetEnabled(Now(bad), TRUE) EXCEPT !.up = TRUE])

mark_interface_down(S) == interface_ip_flush(SetEnabled(S, FALSE))

LinkLost ==
  /\ up
  /\ Becomes([mark_interface_down(Now({})) EXCEPT !.up = FALSE, !.unclaimed = FALSE])

\* IFPEV_DOWN: the layer 3 device goes too.
Down ==
  /\ l3
  /\ Becomes([mark_interface_down(Now({})) EXCEPT !.up = FALSE, !.l3 = FALSE, !.unclaimed = FALSE])

\* interface_change_config(): a new metric, table or option "defaultroute".
reload_ip(S, new) ==
  LET T == SetEnabled([S EXCEPT !.set = new], FALSE)
  IN  IF new = S.set THEN S ELSE SetEnabledConfig(interface_ip_set_enabled(T, S.enabled), S.enabled)

\* A reload: the settings, then the routes of the configuration (config_init_ip()).
Reload(c) ==
  \E bad \in Bad(Refusable(addr, Routes(Now({})) \cup c.routes, neigh)) :
    \E S \in Searching(reload_ip(Now(bad), c.set), "croute") :
      LET S1 == UpdateRoutes(S, "croute", c.routes)
      IN  Becomes(RemoveRoutes(S1, "croute", S1.croute \ S1.fresh))

Older(x) == IF x.left = None \/ x.left < 0 THEN x ELSE [x EXCEPT !.left = @ - 1]

\* A second passes: the kernel drops addresses, interface_ip_valid_until_handler() entries.
Tick ==
  /\ \E x \in addr \cup route : x.left # None /\ x.left >= 0
  /\ LET S == [Now({}) EXCEPT !.addr = {Older(a) : a \in @}, !.route = {Older(r) : r \in @},
                              !.kaddr = {y \in {Older(x) : x \in @} : ~Ended(y)}]
         S1 == RemoveAddrs(S, {a \in S.addr : a.left # None /\ a.left < 0})
         S2 == RemoveRoutes(S1, "route", {r \in S.route : r.left # None /\ r.left < 0})
     IN  Becomes(IF up THEN S2 ELSE S)

\* The orders in which the entries of a list are met.
Walks(S, L) ==
  {w \in SetToSeqs(S[L]) : L \in S.unsorted \/ \A i, j \in DOMAIN w : i < j => ~Before(w[j], w[i])}

Leads(r, t) == r.enabled /\ <<r.dst, t>> \in Covers /\ r.tab = None

\* Mutant: the first route to the host is taken.
__find_ip_route_target_First(res, r, t) == IF Leads(r, t) /\ res = None THEN r ELSE res

\* A round of the loop: res is the best route so far.
__find_ip_route_target(res, r, t) ==
  IF /\ Leads(r, t)
     /\ \/ res = None
        \/ Mask[r.dst] > Mask[res.dst]
        \/ Mask[r.dst] = Mask[res.dst] /\ r.met # None /\ r.metric < res.metric
  THEN r ELSE res

\* Through the routes of the protocol, then on through those of the configuration.
interface_ip_find_route_target(p, c, t) ==
  LET Loop(res, list) == InOrder(LAMBDA x, r : __find_ip_route_target(x, r, t), res, list)
  IN  Loop(Loop(None, p), c)

HostRoute(t, r) ==
  [dst |-> t, met |-> None, tab |-> None, gw |-> r.gw, left |-> None, metric |-> r.metric,
   table |-> r.table, src |-> FALSE, enabled |-> FALSE, failed |-> FALSE, no |-> 0]

\* interface_ip_add_target_route(), for a host that is not in the network of an address.
AddTarget(t) ==
  /\ \A a \in addr : a.enabled => <<a.id, t>> \notin Onlink
  /\ \E p \in Walks(Now({}), "route"), c \in Walks(Now({}), "croute"), S \in Searching(Now({}), "hroute") :
       LET r == interface_ip_find_route_target(p, c, t)
           S1 == __interface_update_route(S, "hroute", HostRoute(t, r))
       IN  r # None /\ Cardinality(S1.hroute) <= MaxHostRoutes /\ Becomes(S1)
-----------------------------------------------------------------------------
Init ==
  /\ l3 = FALSE /\ up = FALSE /\ enabled = FALSE /\ set \in {c.set : c \in Configs}
  /\ addr = {} /\ route = {} /\ neigh = {} /\ croute = {} /\ hroute = {}
  /\ policy_rules_set = FALSE
  /\ kaddr = {} /\ kroute = {} /\ knull = {} /\ krule = {} /\ kneigh = {} /\ unsorted = {}
  /\ lost = {} /\ orphans = {} /\ nrefused = {} /\ unclaimed = FALSE /\ faults = 0

Next ==
  \/ SetL3
  \/ \E m \in Announcements, keep_old \in BOOLEAN : Announce(m, keep_old)
  \/ Up
  \/ LinkLost
  \/ Down
  \/ \E c \in Configs : Reload(c)
  \/ Tick
  \/ \E t \in Targets : AddTarget(t)

Spec == Init /\ [][Next]_vars
-----------------------------------------------------------------------------
(***************************************************************************)
(* Properties.                                                             *)
(***************************************************************************)
AllRoutes == route \cup croute \cup hroute

\* The state stays in its types; without a layer 3 device nothing is enabled, and with the
\* interface up everything is, unless another device could not be claimed.
TypeOK ==
  /\ set \in {c.set : c \in Configs} /\ faults \in 0..MaxFaults
  /\ up => l3 /\ (enabled \/ unclaimed)
  /\ ~l3 => ~enabled /\ ~policy_rules_set /\ addr = {} /\ route = {} /\ hroute = {} /\ neigh = {}
  /\ policy_rules_set = enabled
  /\ \A a, b \in addr : AddrKey(a) = AddrKey(b) => a = b

\* An enabled address the kernel has accepted and that has not ended is in the kernel, for
\* as long as it was announced.
AddressesPresent ==
  \A a \in addr :
    (a.enabled /\ ~a.failed /\ ~Ended(a) /\ <<"addr", a.id>> \notin lost) =>
      [id |-> a.id, left |-> a.left] \in kaddr

\* The kernel has no address that netifd does not know as enabled: none survives a new
\* announcement, an end of its lifetime or the interface's going down.
AddressesOwned == \A x \in kaddr : <<"addr", x.id>> \in orphans \/ \E a \in addr : a.id = x.id /\ a.enabled

\* An enabled route the kernel has accepted is in the kernel, with the metric and in the
\* table the interface has now, and so is the subnet route of an address.
RoutesPresent ==
  /\ \A r \in AllRoutes :
       (r.enabled /\ ~r.failed /\ <<"route", KRoute(r)>> \notin lost) => \E k \in kroute : SameSlot(k, KRoute(r))
  /\ \A a \in addr :
       (a.enabled /\ a.sub # None /\ <<"route", a.sub>> \notin lost) => \E k \in kroute : SameSlot(k, a.sub)

\* The kernel has no other route of this interface.
RoutesOwned ==
  \A k \in kroute : \/ <<"route", k>> \in orphans
                    \/ \E r \in AllRoutes : r.enabled /\ KRoute(r) = k
                    \/ \E a \in addr : a.enabled /\ a.sub = k

\* After a reload every route without a metric or a table of its own has the interface's.
InfoIsCurrent ==
  \A r \in AllRoutes \ hroute :
    r.enabled => (r.met = None => r.metric = set.metric) /\ (r.tab = None => r.table = set.table)

\* The policy rules are those of the enabled addresses and of the interface.
RulesMatch ==
  /\ \A a \in addr : a.enabled => \A x \in AddrRules(a) : x \in krule \/ <<"rule", x>> \in lost
  /\ \A x \in krule : \/ <<"rule", x>> \in orphans
                      \/ \E a \in addr : a.enabled /\ x \in AddrRules(a)
                      \/ policy_rules_set /\ x \in IfRules(Now({}))

\* An off-link address has its unreachable route while it is enabled.
NullRoutes ==
  /\ \A a \in addr : (a.off /\ a.enabled /\ <<"null", a.id>> \notin lost) => a.id \in knull
  /\ \A x \in knull : <<"null", x>> \in orphans \/ \E a \in addr : a.id = x /\ a.off /\ a.enabled

\* No default route of the protocol is in use against the option "defaultroute", and one
\* that is wanted again is in use.
DefaultRouteObeyed ==
  \A r \in route : Mask[r.dst] = 0 => r.enabled = (enabled /\ ~set.nodef)

\* The routes of the kernel are those the lists of interface-ip.c have enabled, with the
\* metric and table they have now, except for the recorded refusals and leaks.
RoutesMatch == RoutesPresent /\ RoutesOwned /\ InfoIsCurrent /\ DefaultRouteObeyed

\* A neighbour entry of the kernel is one netifd knows, and the other way round unless it
\* was refused.
NeighboursMatch ==
  /\ \A n \in neigh : (n.enabled /\ n.id \notin nrefused) => [id |-> n.id, mac |-> n.mac] \in kneigh
  /\ \A x \in kneigh : \E n \in neigh : n.id = x.id /\ n.enabled

\* The addresses, rules and neighbours of the kernel are those the lists of interface-ip.c
\* have enabled, except for the recorded refusals and leaks.
AddressesMatch ==
  /\ TypeOK
  /\ AddressesPresent
  /\ AddressesOwned
  /\ RulesMatch
  /\ NullRoutes
  /\ NeighboursMatch

\* A route to a host goes where the longest mask leads that covers it, and among equals no
\* route whose own metric is lower was passed over.
TargetVia ==
  [][\A h \in hroute' \ hroute :
       (h.enabled /\ set' = set /\ up' = up /\ addr' = addr /\ route' = route) =>
         \E r \in route \cup croute :
           /\ r.enabled /\ r.gw = h.gw /\ <<r.dst, h.dst>> \in Covers
           /\ \A q \in route \cup croute :
                (q.enabled /\ q.tab = None /\ <<q.dst, h.dst>> \in Covers) =>
                  /\ Mask[q.dst] <= Mask[r.dst]
                  /\ (Mask[q.dst] = Mask[r.dst] /\ q.met # None) => ~(q.metric < r.metric)]_vars
=============================================================================
