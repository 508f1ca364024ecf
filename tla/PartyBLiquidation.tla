-------------------------- MODULE PartyBLiquidation --------------------------
(***************************************************************************)
(* The liquidation of an isolated partyB towards one partyA, beside live   *)
(* trading.  It is two transactions of liquidators: liquidatePartyB seizes *)
(* the pair's allocated balance, zeroes its margins and drops the quotes   *)
(* partyB held; liquidatePositionsPartyB then ends the positions, in any   *)
(* number of calls.  In between the pair is frozen for every other handler *)
(* while both parties go on trading with everybody else.                   *)
(*                                                                         *)
(* The PnL the oracle signs is drawn from LiquidationUpnls.  As in Quotes  *)
(* the margin stands for lf alone: cva and the maintenance margins are     *)
(* zero, so that the whole margin is what liquidators are paid from.  The  *)
(* liquidators' accounts are added up in one balance.                      *)
(***************************************************************************)
EXTENDS Quotes

CONSTANTS
  LiquidationUpnls,          \* what the oracle may sign for a partyB
  LiquidatorShare            \* the first liquidator's share, in units of 1/FeeScale

ASSUME LiquidationAssumption ==
  /\ LiquidationUpnls \subseteq Int
  /\ LiquidatorShare \in 0..FeeScale

VARIABLES
  partyBLiquidationStatus,          \* [B][A]
  partyBPositionLiquidatorsShare,   \* [B][A]
  liquidatorsBalance                \* allocatedBalances of the liquidators

liquidation == <<partyBLiquidationStatus, partyBPositionLiquidatorsShare, liquidatorsBalance>>
liquidationVars == <<vars, liquidation>>

----------------------------------------------------------------------------

\* The quotes of a's pending list that b holds.
Doomed(b, a) ==
  {q \in partyAPendingQuotes[a] : quotes[q].partyB = b /\ quotes[q].status \in HeldStatus}

\* What is left of the pair's margin when the shortfall is paid out of it.
RemainingLf(locked, shortfall) == IF shortfall < locked THEN locked - shortfall ELSE 0

Mutant_EmptyPair_KeepsCross(f, b, a) == [f EXCEPT ![b][a] = 0]

\* The pair's pool leaves the address(0) bucket before it is zeroed.
EmptyPair(f, b, a) == [f EXCEPT ![b][Zero] = @ - f[b][a], ![b][a] = 0]

\* LibLiquidation.liquidatePartyB, with what is in the pair's allocated balance.
SeizePair(b, a, allocated, upnl) ==
  LET locked == partyBLockedBalances[b][a]
      shortfall == locked - allocated - upnl
      remainingLf == RemainingLf(locked, shortfall)
      liquidatorShare == (remainingLf * LiquidatorShare) \div FeeScale
      count == Cardinality(partyBOpenPositions[b][a])
      doomed == Doomed(b, a) IN
  /\ shortfall > 0
  /\ shortfall < locked => count > 0
  /\ allocated >= remainingLf
  /\ partyBLiquidationStatus' = [partyBLiquidationStatus EXCEPT ![b][a] = TRUE]
  /\ partyBPositionLiquidatorsShare' =
       [partyBPositionLiquidatorsShare EXCEPT ![b][a] =
          IF shortfall < locked THEN (remainingLf - liquidatorShare) \div count ELSE 0]
  /\ liquidatorsBalance' = liquidatorsBalance + liquidatorShare
  /\ quotes' = [q \in QuoteIds |->
       IF q \in doomed
       THEN [quotes[q] EXCEPT !.status = "LIQUIDATED_PENDING", !.modified = now]
       ELSE quotes[q]]
  /\ partyAPendingQuotes' = [partyAPendingQuotes EXCEPT ![a] = @ \ doomed]
  /\ pendingLockedBalances[a] >= Margin(doomed)
  /\ pendingLockedBalances' = [pendingLockedBalances EXCEPT ![a] = @ - Margin(doomed)]
  /\ partyAReservedOpenFees' =
       [partyAReservedOpenFees EXCEPT ![a] = Decrease(@, Fees(doomed))]
  /\ allocatedBalances' =
       [allocatedBalances EXCEPT ![a] = @ + Fees(doomed) + allocated - remainingLf]
  /\ partyBPendingQuotes' = [partyBPendingQuotes EXCEPT ![b][a] = {}]
  /\ UNCHANGED <<partyAOpenPositions, partyBOpenPositions, partyBPositionsCount>>
  /\ RemoveConnectionIfNoPositions(a, b)
  /\ partyBAllocatedBalances' = [partyBAllocatedBalances EXCEPT ![b][a] = 0]
  /\ Covers(partyBLockedBalances, b, a, locked)
  /\ Covers(partyBPendingLockedBalances, b, a, partyBPendingLockedBalances[b][a])
  /\ partyBLockedBalances' = EmptyPair(partyBLockedBalances, b, a)
  /\ partyBPendingLockedBalances' = EmptyPair(partyBPendingLockedBalances, b, a)
  /\ UNCHANGED <<lastId, lockedBalances, feeCollectorBalance, world>>

\* A partyB without positions towards a has no PnL to sign.
LiquidatePartyB(b, a, upnl) ==
  /\ ~partyBLiquidationStatus[b][a]
  /\ b \notin CrossPartyB
  /\ partyBOpenPositions[b][a] # {}
  /\ SeizePair(b, a, partyBAllocatedBalances[b][a], upnl)

Mutant_Ended_WhenFirstGone(b, a, S) == S # {} \/ partyBOpenPositions[b][a] = {}

\* The call that takes the last position ends the liquidation.
Ended(b, a, S) == partyBOpenPositions[b][a] \ S = {}

Mutant_PaidFor_TheWholePair(b, a, S) == Cardinality(partyBOpenPositions[b][a] \cup S)
PaidFor(b, a, S) == Cardinality(S)

InPair(q, b, a) ==
  quotes[q].status \in OpenStatus /\ quotes[q].partyA = a /\ quotes[q].partyB = b

\* One call for the positions S of the pair, an empty call included.
LiquidatePositionsPartyB(b, a, S) ==
  /\ partyBLiquidationStatus[b][a]
  /\ \A q \in S : InPair(q, b, a)
  /\ quotes' = [q \in QuoteIds |->
       IF q \in S
       THEN [quotes[q] EXCEPT !.status = "LIQUIDATED", !.modified = now,
                              !.closedAmount = quotes[q].quantity]
       ELSE quotes[q]]
  /\ lockedBalances[a] >= Margin(S)
  /\ lockedBalances' = [lockedBalances EXCEPT ![a] = @ - Margin(S)]
  /\ partyAOpenPositions' = [partyAOpenPositions EXCEPT ![a] = @ \ S]
  /\ partyBOpenPositions' = [partyBOpenPositions EXCEPT ![b][a] = @ \ S]
  /\ partyBPositionsCount[b] >= Cardinality(S)
  /\ partyBPositionsCount' = [partyBPositionsCount EXCEPT ![b] = @ - Cardinality(S)]
  /\ UNCHANGED partyBPendingQuotes
  /\ IF S = {} THEN UNCHANGED connectedPartyBs ELSE RemoveConnectionIfNoPositions(a, b)
  /\ liquidatorsBalance' =
       liquidatorsBalance + partyBPositionLiquidatorsShare[b][a] * PaidFor(b, a, S)
  /\ partyBLiquidationStatus' = [partyBLiquidationStatus EXCEPT ![b][a] = ~Ended(b, a, S)]
  /\ UNCHANGED <<lastId, partyAPendingQuotes, pendingLockedBalances,
                 partyBPendingLockedBalances, partyBLockedBalances, funds, world,
                 partyBPositionLiquidatorsShare>>

----------------------------------------------------------------------------
(* Trading beside it.                                                      *)

Mutant_Solvent_Always(b, a) == TRUE

\* The requirement every handler on a pair makes.
Solvent(b, a) == ~partyBLiquidationStatus[b][a]

\* The modifier notLiquidated; nobody is at fault for a quote that nobody holds.
NotLiquidated(q) == quotes[q].partyB \in PartyB => Solvent(quotes[q].partyB, quotes[q].partyA)

Trade ==
  /\ \/ \E o \in Offers : SendQuote(o)
     \/ \E o \in Offers, b \in PartyB, p \in Prices :
          Solvent(b, o.partyA) /\ InstantOpen(o, b, p)
     \/ \E q \in QuoteIds, b \in PartyB :
          quotes[q].status = "PENDING" /\ Solvent(b, quotes[q].partyA) /\ LockQuote(b, q)
     \/ \E q \in QuoteIds :
          NotLiquidated(q) /\ (PartyAStep(q) \/ PartyBStep(q) \/ ExpireQuote(q))
     \/ SetEmergencyMode \/ SetSymbolValidationState
     \/ Tick
  /\ UNCHANGED liquidation

LiquidationStep ==
  \/ \E b \in PartyB, a \in PartyA, upnl \in LiquidationUpnls : LiquidatePartyB(b, a, upnl)
  \/ \E b \in PartyB, a \in PartyA, S \in SUBSET QuoteIds : LiquidatePositionsPartyB(b, a, S)

LiquidationInit ==
  /\ Init
  /\ partyBLiquidationStatus = [b \in PartyB |-> [a \in PartyA |-> FALSE]]
  /\ partyBPositionLiquidatorsShare = [b \in PartyB |-> [a \in PartyA |-> 0]]
  /\ liquidatorsBalance = 0

LiquidationSpec == LiquidationInit /\ [][Trade \/ LiquidationStep]_liquidationVars

\* What ends a request, or frees the pair for it, is open to somebody who wants it:
\* the clock, the forced cancellation of the partyA, anybody's expiry, a liquidator.
LiquidationFairness ==
  /\ WF_liquidationVars(Tick /\ UNCHANGED liquidation)
  /\ \A q \in QuoteIds :
       WF_liquidationVars(NotLiquidated(q) /\ (ForceCancelQuote(q) \/ ExpireQuote(q))
                            /\ UNCHANGED liquidation)
  /\ WF_liquidationVars(\E b \in PartyB, a \in PartyA :
       LiquidatePositionsPartyB(b, a, partyBOpenPositions[b][a]))

FairLiquidationSpec == LiquidationSpec /\ LiquidationFairness

----------------------------------------------------------------------------
(* Properties.                                                             *)

\* The margin the solvency checks read for a pair: none once it is seized.
LiveMargin(b, a) == IF partyBLiquidationStatus[b][a] THEN 0 ELSE Margin(PositionsOf(b, a))

\* While one pair of a partyB is being wound up the pools of its other pairs, and
\* the address(0) bucket they share, still add up to the quotes they stand for,
\* and partyA's locked margin to the positions not yet ended.
PoolsMatchLivePairs ==
  /\ \A a \in PartyA :
       /\ pendingLockedBalances[a] = Margin(PendingOf(a))
       /\ lockedBalances[a] = Margin(OpenOf(a))
  /\ \A b \in PartyB :
       /\ \A a \in PartyA :
            /\ partyBPendingLockedBalances[b][a] = Margin(HeldBy(b, a))
            /\ partyBLockedBalances[b][a] = LiveMargin(b, a)
       /\ partyBPendingLockedBalances[b][Zero] = Margin(UNION {HeldBy(b, a) : a \in PartyA})
       /\ partyBLockedBalances[b][Zero] =
            Margin(UNION {PositionsOf(b, a) : a \in {x \in PartyA : ~partyBLiquidationStatus[b][x]}})

\* Between the two transactions nobody but a liquidator touches a quote of the
\* pair: no fill, cancellation or expiry ends one, no lock or template adds one.
PairFrozen ==
  [][\A b \in PartyB, a \in PartyA :
       partyBLiquidationStatus[b][a] =>
         /\ HeldBy(b, a)' \cup PositionsOf(b, a)' \subseteq PositionsOf(b, a)
         /\ \A q \in PositionsOf(b, a) :
              quotes'[q] # quotes[q] => quotes'[q].status = "LIQUIDATED"]_liquidationVars

\* The pair trades again only when nothing of it is left.
EndsClean ==
  [][\A b \in PartyB, a \in PartyA :
       partyBLiquidationStatus[b][a] /\ ~partyBLiquidationStatus'[b][a] =>
         /\ HeldBy(b, a)' = {} /\ PositionsOf(b, a)' = {}
         /\ b \notin connectedPartyBs'[a]]_liquidationVars

\* Quotes that were, or are to be, liquidated as positions.
Taken ==
  {q \in QuoteIds : \/ quotes[q].status = "LIQUIDATED"
                    \/ \E b \in PartyB, a \in PartyA :
                         partyBLiquidationStatus[b][a] /\ q \in PositionsOf(b, a)}

\* What the liquidators have yet to be paid for positions not taken so far.
OwedFor(b, a) ==
  IF partyBLiquidationStatus[b][a]
  THEN partyBPositionLiquidatorsShare[b][a] * Cardinality(partyBOpenPositions[b][a])
  ELSE 0

Owed == Total(PartyB \X PartyA, [x \in PartyB \X PartyA |-> OwedFor(x[1], x[2])])

\* Seizing a pair splits its balance between partyA, the first liquidator and those
\* who take the positions, in several calls: what is paid and owed never exceeds
\* what was deposited, and only the rounding of fees and shares is lost.
SharesBacked ==
  Claims + liquidatorsBalance + Owed
    \in (Deposited - Cardinality(Rests) - Cardinality(Taken))..Deposited

=============================================================================
