------------------------------- MODULE Prefix -------------------------------
(***************************************************************************)
(* IPv6 prefixes and the subprefixes the interfaces get of them            *)
(* (interface-ip.c, interface.c): the ULA prefix of the configuration and  *)
(* the prefixes delegated to an uplink are divided among the interfaces    *)
(* that ask for a subprefix, by length, hint, weight and class; each       *)
(* interface that is up has an address in its subprefix.  The prefixes     *)
(* come, change, expire and go while interfaces come and go and the        *)
(* configuration is reloaded.                                              *)
(*                                                                         *)
(* A subprefix is its offset in units of a /64 and its length.  The        *)
(* address of an interface in it, its route and its rules are put and      *)
(* removed together and are known by the interface and the subprefix; the  *)
(* kernel keeps a deprecated one for two hours, on its own account, which  *)
(* is left out.  The prefixes do not touch each other: each is a state of  *)
(* its own, with what the kernel has of it.                                *)
(***************************************************************************)
EXTENDS Integers, Sequences, FiniteSets, SequencesExt, FiniteSetsExt

CONSTANTS
  Names,     \* the interfaces with a subprefix, in the order of their names
  Configs,   \* configurations: per interface ip6assign, ip6hint (-1: none), ip6weight and
             \* ip6class ({}: any), or None
  Ulas,      \* lengths of the ULA prefix, None for no prefix
  Offers,    \* prefixes the uplink can be delegated: length, excluded part, class, lifetime
  Dynamic,   \* interfaces and options a ubus client can add
  Active,    \* bound: the interfaces that come up
  None

Iface == ToSet(Names)

\* The options of an interface; the length has 8 bits.
IsOption(o) == o.len \in 0..255 /\ o.hint \in Int /\ o.weight \in Int

\* An excluded part is a part of the prefix, and the mask that cuts its address to an
\* offset, (1 << (64 - length)) - 1, is one of a 32 bit int.
ASSUME PrefixAssumption ==
  /\ Names \in Seq(Iface) /\ Iface \cap {"", "!excluded"} = {}
  /\ \A m, n \in DOMAIN Names : Names[m] = Names[n] => m = n
  /\ \A c \in Configs : \A i \in Iface : c[i] = None \/ IsOption(c[i])
  /\ \A d \in Dynamic : d[1] \in Iface /\ d[2] # None /\ IsOption(d[2])
  /\ Ulas \subseteq {None} \cup 1..64
  /\ \A o \in Offers :
       /\ o.plen \in 1..64 /\ o.life \in {None} \cup Nat
       /\ o.excl # None => o.plen > 33 /\ o.excl.at \in Nat /\ o.excl.len \in o.plen..64
  /\ Active \subseteq Iface

\* A prefix is known by its address and length.
Ula(l) == <<"ula", l>>
Pd(l) == <<"pd", l>>
Key == {Ula(l) : l \in Ulas \ {None}} \cup {Pd(o.plen) : o \in Offers}

VARIABLES
  cfg,        \* the interfaces and their assignment options
  st,         \* an interface is down, up, torn down or (IFPEV_LINK_LOST) set up again
  dyn,        \* interfaces added over ubus
  removing,   \* IFC_REMOVE
  wan,        \* the uplink is in IFS_UP
  prefix,     \* per key the prefix and what the kernel has of it
  no_delegation,
  refresh     \* the static flag of interface_refresh_assignments()

vars == <<cfg, st, dyn, removing, wan, prefix, no_delegation, refresh>>
-----------------------------------------------------------------------------
(***************************************************************************)
(* The assignment algorithm.                                               *)
(***************************************************************************)

\* 1 << n in a 32 bit int.  A shift by 32 and more is undefined; the processor takes
\* the count modulo 32.
Shl(n) == IF n % 32 = 31 THEN -2147483647 - 1 ELSE 2 ^ (n % 32)

Size(a) == Shl(64 - a.length)

\* Where the gap before the j-th entry of the list begins.
Gap(list, j) == IF j = 1 THEN 0 ELSE list[j - 1].assigned + Size(list[j - 1])

\* (current + asize) & ~asize.
Align(x, size) == ((x + size - 1) \div size) * size

\* Mutant: a subprefix begins where the last one ends.
interface_prefix_assign_Unaligned(list, a) ==
  LET at(j) == IF a.assigned # -1 THEN a.assigned ELSE Gap(list, j)
      fits == {j \in DOMAIN list :
                 at(j) >= Gap(list, j) /\ at(j) + Size(a) - 1 < list[j].assigned}
  IN  IF fits = {} THEN None
      ELSE LET j == Min(fits) IN InsertAt(list, j, [a EXCEPT !.assigned = at(j)])

\* The first gap that holds the subprefix, at the place it asks for or anywhere.  The
\* list is sorted and ends with a sentinel; None if there is no such gap.
interface_prefix_assign(list, a) ==
  LET at(j) == IF a.assigned # -1 THEN a.assigned ELSE Align(Gap(list, j), Size(a))
      fits == {j \in DOMAIN list :
                 at(j) >= Gap(list, j) /\ at(j) + Size(a) - 1 < list[j].assigned}
  IN  IF fits = {} THEN None
      ELSE LET j == Min(fits) IN InsertAt(list, j, [a EXCEPT !.assigned = at(j)])

\* "Test whether there is a matching class".
Eligible(c, p) == c # None /\ c.len \in 48..64 /\ (c.class = {} \/ p.class \in c.class)

Entry(name, at, len) == [name |-> name, assigned |-> at, length |-> len, enabled |-> FALSE]

\* The options of an interface as an entry of the list.  The hint is cut to a multiple
\* of the size when it is parsed.
Wanted(c, i) ==
  Entry(i, IF c[i].hint = -1 THEN -1 ELSE c[i].hint - (c[i].hint % Shl(64 - c[i].len)),
        c[i].len)

\* The list before any interface: the sentinel, and what is excluded.
InitialList(p) ==
  LET end == Entry("", Shl(64 - p.plen), 64)
  IN  IF p.excl = None THEN <<end>>
      ELSE <<Entry("!excluded", p.excl.at % Shl(64 - p.plen), p.excl.len), end>>

\* Mutant: the hint is not looked at.
AssignHint_Blind(c, p, list, i) ==
  LET r == interface_prefix_assign(list, [Wanted(c, i) EXCEPT !.assigned = -1])
  IN  IF ~Eligible(c[i], p) \/ c[i].hint = -1 \/ r = None THEN list ELSE r

\* An interface with a hint gets its place, if that is free.
AssignHint(c, p, list, i) ==
  LET r == interface_prefix_assign(list, Wanted(c, i))
  IN  IF ~Eligible(c[i], p) \/ c[i].hint = -1 \/ r = None THEN list ELSE r

\* The loop over the interfaces, by name.
AssignHints(c, p) ==
  LET after[n \in 0 .. Len(Names)] ==
        IF n = 0 THEN InitialList(p) ELSE AssignHint(c, p, after[n - 1], Names[n])
  IN  after[Len(Names)]

Placed(list) == {list[j].name : j \in DOMAIN list}

Rank(i) == CHOOSE n \in DOMAIN Names : Names[n] = i

\* By length, by weight, by name: i comes before k.
prefix_assignment_cmp(c, i, k) ==
  \/ c[i].len < c[k].len
  \/ c[i].len = c[k].len /\ c[i].weight > c[k].weight
  \/ c[i].len = c[k].len /\ c[i].weight = c[k].weight /\ Rank(i) < Rank(k)

\* A subprefix that does not fit is made smaller until it does, down to a /64.
AssignLater(c, list, i) ==
  LET a == [Wanted(c, i) EXCEPT !.assigned = -1]
      fits == {l \in a.length..64 : interface_prefix_assign(list, [a EXCEPT !.length = l]) # None}
  IN  IF fits = {} THEN list
      ELSE interface_prefix_assign(list, [a EXCEPT !.length = Min(fits)])

\* The n-th of a set of interfaces in that order.
Nth(c, set, n) == CHOOSE i \in set : Cardinality({k \in set : prefix_assignment_cmp(c, k, i)}) = n - 1

\* The tree assign_later: those without a hint, and those whose hint was not free.
AssignRest(c, p, list) ==
  LET rest == {i \in Iface : Eligible(c[i], p) /\ i \notin Placed(list)}
      after[n \in 0 .. Cardinality(rest)] ==
        IF n = 0 THEN list
        ELSE AssignLater(c, after[n - 1], Nth(c, rest, n))
  IN  after[Cardinality(rest)]

\* What a prefix may be, and the options the interfaces may have.
Descs == {[plen |-> l, excl |-> None, class |-> "local"] : l \in Ulas \ {None}}
         \cup {[plen |-> o.plen, excl |-> o.excl, class |-> o.class] : o \in Offers}
Opts(i) == {None} \cup {c[i] : c \in Configs} \cup {d[2] : d \in {e \in Dynamic : e[1] = i}}
Cfgs == {c \in [Iface -> UNION {Opts(i) : i \in Iface}] : \A i \in Iface : c[i] \in Opts(i)}

\* What assignments are made from: the options of the interfaces, what is excluded and
\* the class of the prefix; same are the interfaces that have been there since.
Exc == {None} \cup {o.excl : o \in Offers}
Class == {"", "local"} \cup {o.class : o \in Offers}
Basis == [cfg : Cfgs, excl : Exc, class : Class, same : SUBSET Iface]

\* An entry of the list of assignments.
Ent == [name : Iface \cup {"", "!excluded"}, assigned : Int, length : 0..64, enabled : BOOLEAN]

ASSUME NoneAssumption == None \notin Basis /\ None \notin Int /\ None \notin Seq(Ent)

\* The list of every prefix for every set of options.
Assigned == [x \in Descs \X Cfgs |-> AssignRest(x[2], x[1], AssignHints(x[2], x[1]))]

Desc(p) == [plen |-> p.plen, excl |-> p.excl, class |-> p.class]
-----------------------------------------------------------------------------
(***************************************************************************)
(* A prefix: its options, its list of assignments, whether it is in the    *)
(* list of prefixes, and in the kernel the addresses in it and the route   *)
(* that keeps packets to the rest of it from looping.  basis remembers     *)
(* what the assignments were made from.                                    *)
(***************************************************************************)
NoPrefix == [exists |-> FALSE, plen |-> 64, excl |-> None, class |-> "", left |-> None,
             listed |-> FALSE, asg |-> <<>>, basis |-> None, addrs |-> {}, null |-> FALSE]

\* !(valid_until && valid_until - 1 <= now), of the seconds left.
Valid(p) == p.left = None \/ p.left > 1

Address(a) == <<a.name, a.assigned, a.length>>

HasL3(s) == s \in {"lost", "up", "teardown"}

\* interface_set_prefix_address() for the entries of the interfaces in names.
DelAddresses(p, c, s, names) ==
  LET hit(a) == /\ a.name \in names /\ c[a.name] # None /\ HasL3(s[a.name])
                /\ a.enabled
  IN  [p EXCEPT !.asg = [j \in DOMAIN p.asg |->
                           IF hit(p.asg[j]) THEN [p.asg[j] EXCEPT !.enabled = FALSE] ELSE p.asg[j]],
                !.addrs = @ \ {Address(p.asg[j]) : j \in {n \in DOMAIN p.asg : hit(p.asg[n])}}]

\* An address can always be made and the kernel takes it: the two early returns of the
\* code are left out.
AddAddresses(p, c, s, names) ==
  LET hit(a) == a.name \in names /\ c[a.name] # None /\ s[a.name] \in {"lost", "up"}
  IN  [p EXCEPT !.asg = [j \in DOMAIN p.asg |->
                           IF hit(p.asg[j]) THEN [p.asg[j] EXCEPT !.enabled = TRUE] ELSE p.asg[j]],
                !.addrs = @ \cup {Address(p.asg[j]) : j \in {n \in DOMAIN p.asg : hit(p.asg[n])}}]

SetAddresses(p, c, s, names, add) ==
  IF add THEN AddAddresses(p, c, s, names) ELSE DelAddresses(p, c, s, names)

interface_update_prefix_assignments(p, c, s, setup) ==
  LET q == [DelAddresses(p, c, s, Iface) EXCEPT !.asg = <<>>, !.basis = None]
  IN  IF ~setup THEN q
      ELSE AddAddresses([q EXCEPT !.asg = Assigned[<<Desc(p), c>>],
                                  !.basis = [cfg |-> c, excl |-> p.excl, class |-> p.class, same |-> Iface]],
                        c, s, Iface)

\* interface_update_prefix(): a prefix comes, is announced again, or goes.
PrefixNew(o, listed, c, s) ==
  LET p == [NoPrefix EXCEPT !.exists = TRUE, !.plen = o.plen, !.excl = o.excl, !.class = o.class,
                            !.left = o.life, !.null = TRUE, !.listed = listed]
  IN  IF listed THEN interface_update_prefix_assignments(p, c, s, Valid(p)) ELSE p

\* Mutant: a renewed prefix is assigned anew.
PrefixAgain_Forgets(old, o, listed, c, s) == PrefixNew(o, listed, c, s)

\* The assignments move over as they are, whatever else has changed.
PrefixAgain(old, o, listed, c, s) ==
  LET p == [old EXCEPT !.excl = o.excl, !.class = o.class,
                       !.left = o.life, !.listed = listed]
  IN  SetAddresses(p, c, s, Iface, Valid(p))

PrefixGone(p, c, s) ==
  [NoPrefix EXCEPT !.addrs = interface_update_prefix_assignments(p, c, s, FALSE).addrs]
-----------------------------------------------------------------------------
PdKey == {Pd(o.plen) : o \in Offers}

OfferOf(os, k) == CHOOSE o \in os : Pd(o.plen) = k

(***************************************************************************)
(* The protocol handler of the uplink announces the prefixes it has: the   *)
(* others go, unless it asks to keep them.  A late announcement is taken   *)
(* in any state of the uplink.                                             *)
(***************************************************************************)
Announce(os, keep) ==
  /\ prefix' =
       [k \in Key |->
          LET p == prefix[k]
          IN  IF k \notin PdKey THEN p
              ELSE IF k \in {Pd(o.plen) : o \in os}
                   THEN IF p.exists
                        THEN PrefixAgain(p, OfferOf(os, k), ~no_delegation, cfg, st)
                        ELSE PrefixNew(OfferOf(os, k), ~no_delegation, cfg, st)
                   ELSE IF p.exists /\ ~keep THEN PrefixGone(p, cfg, st) ELSE p]
  /\ UNCHANGED <<cfg, st, dyn, removing, wan, no_delegation, refresh>>

UplinkUp ==
  /\ ~wan
  /\ wan' = TRUE
  /\ UNCHANGED <<cfg, st, dyn, removing, prefix, no_delegation, refresh>>

\* mark_interface_down(): interface_ip_flush().
UplinkDown ==
  /\ wan
  /\ wan' = FALSE
  /\ prefix' = [k \in Key |-> IF k \in PdKey /\ prefix[k].exists
                              THEN PrefixGone(prefix[k], cfg, st) ELSE prefix[k]]
  /\ UNCHANGED <<cfg, st, dyn, removing, no_delegation, refresh>>

\* A second passes, and interface_ip_valid_until_handler() looks at the prefixes of the
\* interfaces in IFS_UP.  Seconds past the end are not counted.
Tick ==
  /\ \E k \in PdKey : prefix[k].left # None
  /\ prefix' = [k \in Key |->
                  IF prefix[k].left = None THEN prefix[k]
                  ELSE IF wan /\ prefix[k].left <= 0 THEN PrefixGone(prefix[k], cfg, st)
                  ELSE [prefix[k] EXCEPT !.left = IF @ < 0 THEN @ ELSE @ - 1]]
  /\ UNCHANGED <<cfg, st, dyn, removing, wan, no_delegation, refresh>>
-----------------------------------------------------------------------------
(***************************************************************************)
(* The interfaces.                                                         *)
(***************************************************************************)
\* interface_ip_set_enabled(), of the interface i: the part for a prefix.
interface_ip_set_enabled(p, c, s, i, enabled) ==
  IF p.listed THEN SetAddresses(p, c, s, {i}, enabled) ELSE p

\* An interface that is added again later is not the one the assignments were made for.
Forget(p, gone) == IF p.basis = None THEN p ELSE [p EXCEPT !.basis.same = @ \ gone]

IfUp(i) ==
  /\ cfg[i] # None /\ st[i] \in {"down", "lost"} /\ i \in Active \ removing
  /\ st' = [st EXCEPT ![i] = "up"]
  /\ prefix' = [k \in Key |-> interface_ip_set_enabled(prefix[k], cfg, [st EXCEPT ![i] = "lost"], i, TRUE)]
  /\ UNCHANGED <<cfg, dyn, removing, wan, no_delegation, refresh>>

\* IFPEV_LINK_LOST: the layer 3 device stays.
LinkLost(i) ==
  /\ st[i] = "up"
  /\ st' = [st EXCEPT ![i] = "lost"]
  /\ prefix' = [k \in Key |-> interface_ip_set_enabled(prefix[k], cfg, st, i, FALSE)]
  /\ UNCHANGED <<cfg, dyn, removing, wan, no_delegation, refresh>>

\* __interface_set_down() of an interface that is up or set up.
SetDown(i) ==
  /\ st[i] \in {"up", "lost"}
  /\ st' = [st EXCEPT ![i] = "teardown"]
  /\ removing' = IF i \in dyn THEN removing \cup {i} ELSE removing
  /\ UNCHANGED <<cfg, dyn, wan, prefix, no_delegation, refresh>>

\* IFPEV_DOWN; an interface that is to be removed is freed.
IfDown(i) ==
  /\ st[i] = "teardown"
  /\ prefix' = [k \in Key |-> Forget(interface_ip_set_enabled(prefix[k], cfg, st, i, FALSE), removing \cap {i})]
  /\ st' = [st EXCEPT ![i] = "down"]
  /\ cfg' = [cfg EXCEPT ![i] = IF i \in removing THEN None ELSE @]
  /\ dyn' = IF i \in removing THEN dyn \ {i} ELSE dyn
  /\ removing' = removing \ {i}
  /\ UNCHANGED <<wan, no_delegation, refresh>>
-----------------------------------------------------------------------------
(***************************************************************************)
(* The configuration.                                                      *)
(***************************************************************************)
\* Mutant: only a new length is noticed.
interface_merge_assignment_data_Length(c, new) == {i \in Iface : c[i] # None /\ new[i] # None /\ c[i].len # new[i].len}

\* The interfaces whose options differ from the ones they had.
interface_merge_assignment_data(c, new) ==
  {i \in Iface : c[i] # None /\ new[i] # None /\ c[i] # new[i]}

\* interface_add() of a ubus client: the assignments are not made anew before the next
\* reload.
AddDynamic(i, a) ==
  /\ cfg' = [cfg EXCEPT ![i] = a]
  /\ dyn' = dyn \cup {i}
  /\ refresh' = (refresh \/ interface_merge_assignment_data(cfg, [cfg EXCEPT ![i] = a]) # {})
  /\ UNCHANGED <<st, removing, wan, prefix, no_delegation>>

\* The uplink's section, when only its option "delegate" has changed.
interface_update_prefix_delegation(k, p, c, nd) ==
  IF k \in PdKey /\ p.exists /\ nd # no_delegation
  THEN [interface_update_prefix_assignments(p, c, st, ~nd /\ Valid(p)) EXCEPT !.listed = ~nd]
  ELSE p

interface_ip_set_ula_prefix(k, p, c, l) ==
  IF k \in PdKey \/ p.exists = (k = Ula(l)) THEN p
  ELSE IF p.exists THEN PrefixGone(p, c, st)
  ELSE PrefixNew([plen |-> l, excl |-> None, class |-> "local", life |-> None], TRUE, c, st)

\* interface_refresh_assignments(false), when one is due.
interface_refresh_assignments(p, c, s, due) ==
  IF p.listed /\ due THEN interface_update_prefix_assignments(p, c, s, Valid(p)) ELSE p

(***************************************************************************)
(* config_init_all().  The sections of the interfaces come before the      *)
(* uplink's; l is the ULA prefix, or the one in use if there is no section *)
(* "globals".  The handlers of the interfaces that go end at once when    *)
(* they are told to, or (not quick) later.                                 *)
(***************************************************************************)
Reload(new, l, nd, quick) ==
  LET changed == interface_merge_assignment_data(cfg, new)
      c == [i \in Iface |-> IF new[i] # None THEN new[i] ELSE cfg[i]]
      drop == {i \in Iface : new[i] = None /\ cfg[i] # None /\ i \notin dyn}
      freed == {i \in drop : st[i] = "down" \/ quick}
      c2 == [i \in Iface |-> IF i \in freed THEN None ELSE c[i]]
      s2 == [i \in Iface |-> IF i \in freed THEN "down"
                             ELSE IF i \in drop THEN "teardown" ELSE st[i]]
      after(k) == LET p1 == interface_update_prefix_delegation(k, prefix[k], c, nd)
                      p2 == interface_ip_set_ula_prefix(k, p1, c, l)
                      p3 == IF p2.listed THEN DelAddresses(p2, c, st, freed) ELSE p2
                  IN  interface_refresh_assignments(Forget(p3, freed), c2, s2, refresh \/ changed # {})
  IN  /\ cfg' = c2
      /\ st' = s2
      /\ dyn' = {i \in dyn : new[i] = None}
      /\ removing' = (removing \cup drop) \ freed
      /\ no_delegation' = nd
      /\ prefix' = [k \in Key |-> after(k)]
      /\ refresh' = FALSE
      /\ UNCHANGED wan
-----------------------------------------------------------------------------
Init ==
  /\ cfg = [i \in Iface |-> None]
  /\ st = [i \in Iface |-> "down"]
  /\ dyn = {} /\ removing = {} /\ wan = FALSE
  /\ prefix = [k \in Key |-> NoPrefix]
  /\ no_delegation = FALSE /\ refresh = FALSE

\* No prefix, or one; with keep there are more.
Announced == {os \in SUBSET Offers : Cardinality(os) <= 1}

DoReload == \E new \in Configs, l \in Ulas, nd \in BOOLEAN, quick \in BOOLEAN :
              /\ quick => \E i \in Iface : new[i] = None /\ cfg[i] # None
              /\ Reload(new, l, nd, quick)

Next ==
  \/ \E os \in Announced, keep \in BOOLEAN : Announce(os, keep)
  \/ UplinkUp
  \/ UplinkDown
  \/ Tick
  \/ \E i \in Iface : IfUp(i) \/ LinkLost(i) \/ SetDown(i) \/ IfDown(i)
  \/ \E d \in Dynamic : AddDynamic(d[1], d[2])
  \/ DoReload

Spec == Init /\ [][Next]_vars
-----------------------------------------------------------------------------
(***************************************************************************)
(* Properties.                                                             *)
(***************************************************************************)

\* The state stays in its types.
TypeOK ==
  /\ st \in [Iface -> {"down", "up", "lost", "teardown"}]
  /\ dyn \subseteq Iface /\ removing \subseteq {i \in Iface : st[i] = "teardown"}
  /\ wan \in BOOLEAN /\ no_delegation \in BOOLEAN /\ refresh \in BOOLEAN
  /\ \A i \in Iface : cfg[i] = None => st[i] = "down" /\ i \notin dyn
  /\ \A k \in Key : ~prefix[k].exists => prefix[k] = [NoPrefix EXCEPT !.addrs = prefix[k].addrs, !.null = prefix[k].null]

\* The prefixes with assignments.
Computed == {k \in Key : prefix[k].exists /\ prefix[k].basis # None}

\* The entries of a prefix without the sentinel, and the /64s of one.
Entries(p) == SubSeq(p.asg, 1, Len(p.asg) - 1)

\* Two entries do not share a /64 (by their ends: a subprefix can be a /48).
Apart(a, b) == a.assigned + Size(a) <= b.assigned \/ b.assigned + Size(b) <= a.assigned

\* No two interfaces share a /64, none gets what the delegating router has excluded,
\* and every subprefix is a subprefix: inside the prefix and at a multiple of its size.
\* The list interface_prefix_assign() walks stays sorted.
Disjoint ==
  \A k \in Computed :
    LET e == Entries(prefix[k])
    IN  /\ \A j \in DOMAIN e :
             e[j].name # "!excluded" =>
               /\ e[j].assigned % Size(e[j]) = 0
               /\ k[2] > 33 => e[j].assigned >= 0 /\ e[j].assigned + Size(e[j]) <= 2 ^ (64 - k[2])
        /\ \A j, n \in DOMAIN e : j < n => e[j].assigned + Size(e[j]) <= e[n].assigned

\* interface_prefix_assign hands out aligned subprefixes inside the prefix that overlap
\* neither each other nor the excluded part.
AssignmentsDisjoint == TypeOK /\ Disjoint

\* An interface is left without a subprefix only when there is not one /64 left for it.
\* (The lengths up to 33 are beyond the 32 bit arithmetic of the list.)
NoneLeftOut ==
  \A k \in Computed : k[2] > 33 =>
    LET p == prefix[k] e == Entries(p)
    IN  \A i \in Iface :
          (Eligible(p.basis.cfg[i], p.basis) /\ i \notin Placed(e)) =>
            \A x \in 0..(2 ^ (64 - k[2]) - 1) :
              \E j \in DOMAIN e : x \in e[j].assigned..(e[j].assigned + Size(e[j]) - 1)

\* An interface gets the subprefix of its hint unless that is not in the prefix, is
\* excluded, or goes to an interface with a hint and an earlier name.
HintKept ==
  \A k \in Computed : k[2] > 33 =>
    LET p == prefix[k] c == p.basis.cfg
    IN  \A i \in Iface :
          (Eligible(c[i], p.basis) /\ c[i].hint # -1) =>
            LET w == Wanted(c, i)
            IN  \/ \E j \in DOMAIN p.asg : Address(p.asg[j]) = Address(w)
                \/ w.assigned < 0 \/ w.assigned + Size(w) > 2 ^ (64 - k[2])
                \/ \E j \in DOMAIN p.asg :
                     /\ p.asg[j].name = "!excluded"
                        \/ (/\ p.asg[j].name \in Iface /\ Rank(p.asg[j].name) < Rank(i)
                            /\ Address(p.asg[j]) = Address(Wanted(c, p.asg[j].name)))
                     /\ ~Apart(p.asg[j], w)

\* Who is left out asked for a smaller subprefix than those who found room without a
\* hint, or for one of that size with no more weight.
HeavierFirst ==
  \A k \in Computed :
    LET p == prefix[k] c == p.basis.cfg
    IN  \A i \in Iface :
          (Eligible(c[i], p.basis) /\ i \notin Placed(p.asg)) =>
            \A j \in DOMAIN p.asg :
              (p.asg[j].name \in Iface /\ c[p.asg[j].name] # None
               /\ p.asg[j].assigned # Wanted(c, p.asg[j].name).assigned) =>
                 LET a == c[p.asg[j].name]
                 IN  a.len < c[i].len \/ (a.len = c[i].len /\ a.weight >= c[i].weight)

\* The assignments of interface-ip.c respect hints and weights, and an interface is left
\* out only if its part does not fit.
AssignmentsFair == NoneLeftOut /\ HintKept /\ HeavierFirst

\* The assignments are those of the options in force: a change of ip6assign, ip6hint,
\* ip6weight or ip6class of an interface that was there reaches every prefix with the
\* reload that brings it.
RefreshApplied ==
  ~refresh => \A k \in Computed : prefix[k].listed =>
    \A i \in prefix[k].basis.same :
      (prefix[k].basis.cfg[i] # None /\ cfg[i] # None) => prefix[k].basis.cfg[i] = cfg[i]

\* The kernel has the addresses of the enabled entries and no other: none is left
\* behind when an assignment, a prefix or an interface goes.
NoAddressLeaks ==
  \A k \in Key :
    prefix[k].addrs = {Address(prefix[k].asg[j]) : j \in {n \in DOMAIN prefix[k].asg : prefix[k].asg[n].enabled}}

\* An interface that is up has its address in every prefix that still is valid and has
\* a subprefix for it.
UpHasAddress ==
  \A k \in Key : (prefix[k].listed /\ Valid(prefix[k])) =>
    \A j \in DOMAIN prefix[k].asg :
      (prefix[k].asg[j].name \in Iface /\ cfg[prefix[k].asg[j].name] # None
       /\ st[prefix[k].asg[j].name] = "up") => prefix[k].asg[j].enabled

\* There is an unreachable route for each prefix netifd knows, and no other; there is
\* one ULA prefix at most.
NullRouted ==
  /\ \A k \in Key : prefix[k].null = prefix[k].exists
  /\ \A l, m \in Ulas \ {None} : prefix[Ula(l)].exists /\ prefix[Ula(m)].exists => l = m

\* What the kernel has follows the assignments: addresses of the interfaces that are up,
\* none of vanished prefixes, and the unreachable route of every delegated one.
KernelFollows == RefreshApplied /\ NoAddressLeaks /\ UpHasAddress /\ NullRouted

\* The announcement of a prefix that is known, the passing of time and what the
\* interfaces do neither move a subprefix nor take it away.
PlacesStay ==
  [][\A k \in Key :
       (/\ prefix[k].exists /\ prefix'[k].exists
        /\ cfg' = cfg /\ no_delegation' = no_delegation /\ refresh' = refresh) =>
         {Address(prefix[k].asg[j]) : j \in DOMAIN prefix[k].asg}
         = {Address(prefix'[k].asg[j]) : j \in DOMAIN prefix'[k].asg}]_vars
=============================================================================
