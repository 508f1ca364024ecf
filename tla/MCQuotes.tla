------------------------------ MODULE MCQuotes ------------------------------
(***************************************************************************)
(* Instances of Quotes for TLC.                                            *)
(***************************************************************************)
EXTENDS Quotes

CONSTANTS a1, a2, b1, b2

\* A LIMIT offer of two units that may be filled in part: its margin of 5 does not
\* split evenly, its fee is rounded down at every split, and it is good only for the
\* moment it is sent in, so that expiry races every other call.
LimitLong ==
  [partyA |-> a1, whiteList |-> {}, positionType |-> "LONG", orderType |-> "LIMIT",
   price |-> 3, feePrice |-> 3, quantity |-> 2, locked |-> 5, lifetime |-> 0]

MarketShort ==
  [partyA |-> a1, whiteList |-> {b2}, positionType |-> "SHORT", orderType |-> "MARKET",
   price |-> 2, feePrice |-> 3, quantity |-> 1, locked |-> 4, lifetime |-> 1]

MixedOffers == {LimitLong, MarketShort}

\* A short of either partyA: one expires within the run, the other only a force
\* cancel can end in it.
LimitShort == [LimitLong EXCEPT !.positionType = "SHORT"]
PairOffers == {LimitShort, [LimitShort EXCEPT !.partyA = a2, !.locked = 3, !.lifetime = 2]}
=============================================================================
