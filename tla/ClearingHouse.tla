----------------------------- MODULE ClearingHouse -----------------------------
(***************************************************************************)
(* The clearing house: it liquidates a cross partyB as a whole, takes over *)
(* a partyA's liquidation (on request, or because a quote it has to        *)
(* liquidate is that partyA's), moves collateral through a pool it keeps   *)
(* for the one it liquidates, and settles.  It composes with the normal    *)
(* liquidation of PartyALiquidation, which runs beside it until a takeover *)
(* shuts it out.                                                           *)
(*                                                                         *)
(* Amounts, and whom they are taken from and given to, are the operator's. *)
(* It is trusted with one thing: it hands settlePartyATakeover every       *)
(* partyB with a settlement.                                               *)
(***************************************************************************)
EXTENDS PartyALiquidation

NotTakenOver == [inProgress |-> FALSE, pool |-> 0]
Started      == [inProgress |-> TRUE, pool |-> 0]

LiquidateCrossPartyB(b) ==
  /\ b \in CrossPartyB /\ ~crossLiquidation[b].inProgress
  /\ MaySign(LAMBDA price : PartyBForLiquidation(b, Zero, price) < 0)
  /\ crossLiquidation' = [crossLiquidation EXCEPT ![b] = Started]
  /\ UNCHANGED <<quotes, allocatedBalances, partyBAllocatedBalances, balances, pools, escrows,
                 earnings, progress, takeover, paidAhead, transfers>>

\* Shuts the normal liquidation of a out; nothing where there is none.
ExecuteTakeover(a) ==
  IF Liquidating(a)
  THEN /\ liquidationDetails' =
            [liquidationDetails EXCEPT ![a].disputed = FALSE, ![a].liquidationFee = 0]
       /\ takeover' = [takeover EXCEPT ![a] = Started]
  ELSE UNCHANGED <<liquidationDetails, takeover>>

TakeoverPartyALiquidation(a) ==
  /\ Liquidating(a)
  /\ ExecuteTakeover(a)
  /\ UNCHANGED <<quotes, allocatedBalances, partyBAllocatedBalances, balances, pools, escrows,
                 earnings, liquidationStatus, settlementStates,
                 partyBLiquidationSettlementReserve, crossLiquidation, paidAhead, transfers>>

----------------------------------------------------------------------------
(* Collateral.                                                             *)

InProgress(subject) ==
  IF subject \in PartyB THEN crossLiquidation[subject].inProgress ELSE takeover[subject].inProgress
PoolOf(subject) ==
  IF subject \in PartyB THEN crossLiquidation[subject].pool ELSE takeover[subject].pool

AddToPool(subject, n) ==
  IF subject \in PartyB
  THEN crossLiquidation' = [crossLiquidation EXCEPT ![subject].pool = @ + n] /\ UNCHANGED takeover
  ELSE takeover' = [takeover EXCEPT ![subject].pool = @ + n] /\ UNCHANGED crossLiquidation

PullFromPartyA(subject, a, n) ==
  /\ subject \in PartyA => a = subject
  /\ allocatedBalances[a] >= n
  /\ allocatedBalances' = [allocatedBalances EXCEPT ![a] = @ - n]
  /\ UNCHANGED <<partyBAllocatedBalances, partyAReimbursement>>

PullFromReimbursement(a, n) ==
  /\ partyAReimbursement[a] >= n
  /\ partyAReimbursement' = [partyAReimbursement EXCEPT ![a] = @ - n]
  /\ UNCHANGED <<allocatedBalances, partyBAllocatedBalances>>

PullFromPartyB(subject, b, key, n) ==
  /\ subject \in PartyB => b = subject
  /\ partyBAllocatedBalances[b][key] >= n
  /\ partyBAllocatedBalances' = [partyBAllocatedBalances EXCEPT ![b][key] = @ - n]
  /\ UNCHANGED <<allocatedBalances, partyAReimbursement>>

DeallocateForClearingHouse(subject, n) ==
  /\ InProgress(subject)
  /\ Transfer
  /\ AddToPool(subject, n)
  /\ \/ \E a \in PartyA : PullFromPartyA(subject, a, n)
     \/ subject \in PartyA /\ PullFromReimbursement(subject, n)
     \/ \E b \in PartyB, key \in BucketOf : PullFromPartyB(subject, b, key, n)
  /\ UNCHANGED <<quotes, balances, pools, partyADeferredBalance, liquidationEscrow, earnings,
                 progress, paidAhead>>

CreditPartyB(b, key, n) ==
  /\ partyBAllocatedBalances' = [partyBAllocatedBalances EXCEPT ![b][key] = @ + n]
  /\ UNCHANGED <<allocatedBalances, partyAReimbursement>>

CreditAllocation(a, n) ==
  /\ allocatedBalances' = [allocatedBalances EXCEPT ![a] = @ + n]
  /\ UNCHANGED <<partyBAllocatedBalances, partyAReimbursement>>

\* What a liquidated partyA receives is kept where the settlement does not take it.
CreditPartyA(a, n) ==
  IF liquidationStatus[a]
  THEN /\ partyAReimbursement' = [partyAReimbursement EXCEPT ![a] = @ + n]
       /\ UNCHANGED <<allocatedBalances, partyBAllocatedBalances>>
  ELSE CreditAllocation(a, n)

Distributed(subject) ==
  /\ InProgress(subject) /\ PoolOf(subject) > 0
  /\ AddToPool(subject, -PoolOf(subject))
  /\ UNCHANGED <<quotes, balances, pools, partyADeferredBalance, liquidationEscrow, earnings,
                 progress, paidAhead, transfers>>

DistributeForClearingHouse(subject) ==
  /\ Distributed(subject)
  /\ \/ \E a \in PartyA : CreditPartyA(a, PoolOf(subject))
     \/ \E b \in PartyB, key \in BucketOf : CreditPartyB(b, key, PoolOf(subject))

DistributeFromLiquidationEscrow(a) ==
  /\ liquidationEscrow[a] > 0
  /\ \/ \E b \in PartyB, key \in BucketOf : CreditPartyB(b, key, liquidationEscrow[a])
     \/ \E other \in PartyA : CreditAllocation(other, liquidationEscrow[a])
  /\ liquidationEscrow' = [liquidationEscrow EXCEPT ![a] = 0]
  /\ UNCHANGED <<quotes, balances, pools, partyADeferredBalance, earnings, progress, clearing,
                 paidAhead, transfers>>

\* A penalty for b, solvent or not; the collector's account is added to the vault's.
SoftPartyBLiquidation(b, n) ==
  /\ Transfer
  /\ \/ /\ balances[b] >= n
        /\ balances' = [balances EXCEPT ![b] = @ - n]
        /\ UNCHANGED partyBAllocatedBalances
     \/ \E key \in BucketOf :
          /\ partyBAllocatedBalances[b][key] >= n
          /\ partyBAllocatedBalances' = [partyBAllocatedBalances EXCEPT ![b][key] = @ - n]
          /\ UNCHANGED balances
  /\ insuranceVault' = insuranceVault + n
  /\ UNCHANGED <<quotes, allocatedBalances, pools, escrows, liquidatorsBalance, progress,
                 clearing, paidAhead>>

----------------------------------------------------------------------------
(* Quotes.                                                                 *)

\* The pending quotes that cross partyB b holds of a; the fees go back to a.
LiquidatePendingPositionsOfCross(b, a) ==
  LET held == HeldBy(b, a)
      fees == Fees(held) IN
  /\ crossLiquidation[b].inProgress
  /\ ExecuteTakeover(a)
  /\ quotes' = Ended(held, "LIQUIDATED_PENDING")
  /\ pendingLockedBalances' = [pendingLockedBalances EXCEPT ![a] = @ - Sum(Margin, held)]
  /\ partyAReservedOpenFees' = [partyAReservedOpenFees EXCEPT ![a] = Positive(@ - fees)]
  /\ CreditPartyA(a, fees)
  /\ partyBPendingLockedBalances' =
       Less(partyBPendingLockedBalances, b, a, partyBPendingLockedBalances[b][a])
  /\ RemoveConnectionIfNoPositions(a, b)
  /\ UNCHANGED <<balances, lockedBalances, partyBLockedBalances, partyADeferredBalance,
                 liquidationEscrow, earnings, liquidationStatus, settlementStates,
                 partyBLiquidationSettlementReserve, crossLiquidation, paidAhead, transfers>>

LiquidatePendingPositionsOfTakeover(a) ==
  takeover[a].inProgress /\ PendingOf(a) # {} /\ DropPending(a)

\* One position, closed at the clearing house's price: no PnL moves.
ClosePosition(q) ==
  LET a == quotes[q].partyA
      b == quotes[q].partyB IN
  /\ q \in OpenOf(a) /\ partyBLockedBalances[b][a] >= Margin(q)
  /\ quotes' = Ended({q}, "LIQUIDATED")
  /\ lockedBalances' =
       [lockedBalances EXCEPT ![a] = [cva |-> @.cva - quotes[q].cva, lf |-> @.lf - quotes[q].lf]]
  /\ partyBLockedBalances' = Less(partyBLockedBalances, b, a, Margin(q))
  /\ RemoveConnectionIfNoPositions(a, b)
  /\ UNCHANGED <<allocatedBalances, partyBAllocatedBalances, balances, pendingLockedBalances,
                 partyBPendingLockedBalances, partyAReservedOpenFees, escrows, earnings,
                 liquidationStatus, settlementStates, partyBLiquidationSettlementReserve,
                 crossLiquidation, paidAhead, transfers>>

LiquidatePositionOfCross(q) ==
  /\ crossLiquidation[quotes[q].partyB].inProgress
  /\ ExecuteTakeover(quotes[q].partyA)
  /\ ClosePosition(q)

LiquidatePositionOfTakeover(q) ==
  /\ takeover[quotes[q].partyA].inProgress /\ ~crossLiquidation[quotes[q].partyB].inProgress
  /\ ClosePosition(q)
  /\ UNCHANGED <<liquidationDetails, takeover>>

----------------------------------------------------------------------------
(* Settlement.                                                             *)

Mutant_NothingLeft_GoesByMargins(a) ==
  lockedBalances[a] = [cva |-> 0, lf |-> 0] /\ pendingLockedBalances[a] = 0 /\ takeover[a].pool = 0

NothingLeft(a) == OpenOf(a) = {} /\ PendingOf(a) = {} /\ takeover[a].pool = 0

\* The operator names every partyB with a settlement.
TrustedList(a, settledPartyBs) == Pending(a) \subseteq settledPartyBs

\* What the settlements with the partyBs named had reserved is released with them.
SettlePartyATakeover(a, settledPartyBs) ==
  /\ takeover[a].inProgress /\ NothingLeft(a)
  /\ partyBLiquidationSettlementReserve' =
       [b \in PartyB |->
          IF b \in settledPartyBs \cap Pending(a)
          THEN Reserve(b, settlementStates[a][b].actual, 0)[b]
          ELSE partyBLiquidationSettlementReserve[b]]
  /\ settlementStates' =
       [settlementStates EXCEPT ![a] =
          [b \in PartyB |-> IF b \in settledPartyBs THEN NoSettlement ELSE @[b]]]
  /\ allocatedBalances' =
       [allocatedBalances EXCEPT ![a] = @ + partyAReimbursement[a] + partyADeferredBalance[a]]
  /\ partyAReimbursement' = [partyAReimbursement EXCEPT ![a] = 0]
  /\ partyADeferredBalance' = [partyADeferredBalance EXCEPT ![a] = 0]
  /\ lockedBalances' = [lockedBalances EXCEPT ![a] = [cva |-> 0, lf |-> 0]]
  /\ liquidationStatus' = [liquidationStatus EXCEPT ![a] = FALSE]
  /\ liquidationDetails' = [liquidationDetails EXCEPT ![a] = NoDetail]
  /\ takeover' = [takeover EXCEPT ![a] = NotTakenOver]
  /\ UNCHANGED <<quotes, partyBAllocatedBalances, balances, pendingLockedBalances,
                 partyBPendingLockedBalances, partyBLockedBalances, partyAReservedOpenFees,
                 connectedPartyBs, liquidationEscrow, earnings, crossLiquidation, paidAhead,
                 transfers>>

SettleCrossPartyBLiquidation(b) ==
  /\ crossLiquidation[b].inProgress
  /\ PartyBPositions(b) = {} /\ partyBPendingLockedBalances[b][Zero] = 0
  /\ crossLiquidation[b].pool = 0
  /\ crossLiquidation' = [crossLiquidation EXCEPT ![b].inProgress = FALSE]
  /\ UNCHANGED <<quotes, allocatedBalances, partyBAllocatedBalances, balances, pools, escrows,
                 earnings, progress, takeover, paidAhead, transfers>>

----------------------------------------------------------------------------

\* What ends the liquidations that have begun.
Finish ==
  \/ \E a \in PartyA :
       \/ TakeoverPartyALiquidation(a)
       \/ LiquidatePendingPositionsOfTakeover(a)
       \/ \E settledPartyBs \in SUBSET PartyB :
            TrustedList(a, settledPartyBs) /\ SettlePartyATakeover(a, settledPartyBs)
  \/ \E b \in PartyB, a \in PartyA : LiquidatePendingPositionsOfCross(b, a)
  \/ \E q \in QuoteIds : LiquidatePositionOfCross(q) \/ LiquidatePositionOfTakeover(q)
  \/ \E b \in PartyB : SettleCrossPartyBLiquidation(b)
  \/ \E subject \in PartyA \cup PartyB : DistributeForClearingHouse(subject)

ClearingHouseStep ==
  \/ Finish
  \/ \E b \in PartyB : LiquidateCrossPartyB(b)
  \/ \E a \in PartyA : DistributeFromLiquidationEscrow(a)
  \/ \E b \in PartyB, n \in Amounts : SoftPartyBLiquidation(b, n)
  \/ \E subject \in PartyA \cup PartyB, n \in Amounts : DeallocateForClearingHouse(subject, n)

Next == PartyALiquidationStep \/ ClearingHouseStep

\* The clearing house goes on while there is something it can do to end a liquidation,
\* in an order of its own.  Normal liquidators owe nothing, nor does the dispute resolver.
Spec == Init /\ [][Next]_vars /\ WF_vars(Finish)

----------------------------------------------------------------------------

\* A cross partyB's reserve is what it owes in the settlements still pending, whatever
\* the order in which positions, resolutions, settlements and takeovers come; each
\* liquidation counts the partyBs it still waits for, and leaves none behind.
SettlementsMatch ==
  /\ \A b \in PartyB :
       partyBLiquidationSettlementReserve[b] =
         IF b \in CrossPartyB
         THEN Total(PartyA, [a \in PartyA |-> Positive(settlementStates[a][b].actual)])
         ELSE 0
  /\ \A a \in PartyA :
       /\ liquidationDetails[a].involvedPartyBCounts = Cardinality(Pending(a))
       /\ Pending(a) # {} => liquidationStatus[a]
       /\ takeover[a].inProgress => liquidationStatus[a]
       /\ OpenOf(a) = {} /\ ~liquidationStatus[a] => lockedBalances[a] = [cva |-> 0, lf |-> 0]

\* What partyA had when its insolvency was graded is what its liquidation sets out to
\* pay partyBs, liquidators and vault: exactly, or with a haircut no less, and more only
\* by what rounding leaves of it between the positions that share it.  Type, haircuts and
\* shares of the CVA are worked out position by position, in several calls, while the
\* first partyBs are already settled.  It says nothing once the amounts are a resolver's
\* or the clearing house's.
SettlementsCovered ==
  \A a \in PartyA :
    LET detail == liquidationDetails[a]
        state == settlementStates[a]
        due == Sum(LAMBDA b : state[b].cva - state[b].actual, Pending(a))
                 + detail.liquidationFee + paidAhead[a]
        sharing == {q \in With({"LIQUIDATED"}, a) :
                      detail.type = "LATE" \/ Pnl(q, detail.price) < 0}
    IN  Liquidating(a) /\ detail.asComputed /\ OpenOf(a) = {} =>
          due - detail.had \in
            0..(IF detail.type = "NORMAL" THEN 0 ELSE Cardinality(sharing) - 1)

\* A liquidation that has begun ends, whatever happens to the partyBs meanwhile.
LiquidationEnds == \A a \in PartyA : liquidationStatus[a] ~> ~liquidationStatus[a]
=============================================================================
