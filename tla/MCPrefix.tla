------------------------------ MODULE MCPrefix ------------------------------
(***************************************************************************)
(* Three interfaces that ask for subprefixes of different sizes, with and  *)
(* without hints, of a prefix with eight /64s, of one with four and of one *)
(* whose length is beyond the 32 bit arithmetic.                           *)
(***************************************************************************)
EXTENDS Prefix

Ask(len, hint, weight, class) == [len |-> len, hint |-> hint, weight |-> weight, class |-> class]

MCNames == <<"a", "b", "c">>

\* Sizes that compete, hints that collide with each other or lie outside, and a class.
MCConfigs ==
  {[a |-> Ask(63, -1, 0, {}), b |-> Ask(64, 1, 0, {}), c |-> Ask(64, -1, 5, {})],
   [a |-> Ask(63, 1, 0, {}), b |-> Ask(64, 1, 0, {}), c |-> None],
   [a |-> None, b |-> Ask(60, -1, 0, {}), c |-> Ask(64, 9, 0, {"wan6"})]}

MCDynamic == {<<"c", Ask(64, 0, 0, {})>>}

MCUlas == {None, 61, 33}

Offer(plen, excl, class, life) == [plen |-> plen, excl |-> excl, class |-> class, life |-> life]

MCOffers ==
  {Offer(62, None, "wan6", 2), Offer(62, [at |-> 1, len |-> 64], "wan", None)}

\* There is something to assign. (With the comparison TLC computes the table once.)
ASSUME TableAssumption == Assigned # <<>>
=============================================================================
