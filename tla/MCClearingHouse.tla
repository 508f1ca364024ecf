---------------------------- MODULE MCClearingHouse ----------------------------
(***************************************************************************)
(* Two partyAs and two partyBs, b2 in cross mode.  a1 has positions of     *)
(* opposite signs with b2, one with b1, who can hardly pay it, and a quote *)
(* b2 has locked; a2 a position with b2.  At 3 a1 is solvent again (a      *)
(* deferred liquidation is NORMAL), at 2 it is LATE, at 1 OVERDUE; a2 can  *)
(* be liquidated beside it once collateral was taken from it.  b2 lives on *)
(* what it has made with a1, and is insolvent in between.  In the overdue  *)
(* book b1 has positions of both signs and could pay what they come to.    *)
(***************************************************************************)
EXTENDS ClearingHouse, TLC

CONSTANTS a1, a2, b1, b2

Quote(a, b, type, n, cva, lf, fee, status) ==
  [partyA |-> a, partyB |-> b, positionType |-> type, quantity |-> n, cva |-> cva, lf |-> lf,
   fee |-> fee, openedPrice |-> 4, status |-> status]

MCBook ==
  <<Quote(a1, b1, "SHORT", 3, 1, 2, 0, "OPENED"),
    Quote(a1, b2, "LONG", 11, 1, 1, 0, "OPENED"),
    Quote(a1, b2, "SHORT", 3, 0, 1, 0, "OPENED"),
    Quote(a2, b2, "LONG", 3, 1, 1, 0, "OPENED"),
    Quote(a1, b2, "LONG", 1, 1, 1, 6, "LOCKED")>>

\* b1 has gained on one position and lost on another; a1 owes b2 far more.
OverdueBook ==
  <<Quote(a1, b1, "SHORT", 6, 1, 0, 0, "OPENED"),
    Quote(a1, b1, "LONG", 3, 1, 0, 0, "OPENED"),
    Quote(a1, b2, "LONG", 18, 1, 0, 0, "OPENED")>>

MCQuoteIds == DOMAIN MCBook
OverdueQuoteIds == DOMAIN OverdueBook
MCPartyAAllocation == (a1 :> 11) @@ (a2 :> 14)
MCPartyBAllocation ==
  (b1 :> ((a1 :> 1) @@ (a2 :> 0) @@ (Zero :> 0))) @@
  (b2 :> ((a1 :> 0) @@ (a2 :> 0) @@ (Zero :> 3)))

OverdueAllocation == (a1 :> 3) @@ (a2 :> 0)
OverdueBuckets ==
  (b1 :> ((a1 :> 11) @@ (a2 :> 0) @@ (Zero :> 0))) @@
  (b2 :> ((a1 :> 0) @@ (a2 :> 0) @@ (Zero :> 0)))

\* What the accounts are owed.
Claims ==
  Sum(LAMBDA a : allocatedBalances[a] + partyAReservedOpenFees[a] + partyAReimbursement[a]
                   + partyADeferredBalance[a] + liquidationEscrow[a] + takeover[a].pool, PartyA)
  + Sum(LAMBDA b : balances[b] + crossLiquidation[b].pool
                     + Sum(LAMBDA key : partyBAllocatedBalances[b][key], BucketOf), PartyB)
  + liquidatorsBalance + insuranceVault

Deposited ==
  Sum(LAMBDA a : PartyAAllocation[a] + Sum(LAMBDA q : Book[q].fee, BookOf({"PENDING", "LOCKED"}, a)), PartyA)
  + Sum(LAMBDA b : FreeBalance + Sum(LAMBDA key : PartyBAllocation[b][key], BucketOf), PartyB)

\* What docs/v0.8.5/liquidation-insurance.md says of an OVERDUE liquidation: partyB
\* absorbs the losses.  When no liquidation is under way the accounts are then owed no
\* more than was deposited, but for one unit of rounding per position and for what a
\* liquidation had settled when it was taken over.
ClaimsBacked ==
  (\A a \in PartyA : ~liquidationStatus[a]) =>
    Claims <= Deposited + Sum(LAMBDA a : paidAhead[a], PartyA)
                + Cardinality({q \in QuoteIds : quotes[q].status = "LIQUIDATED"})
=============================================================================
