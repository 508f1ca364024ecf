--------------------------- MODULE PartyALiquidation ---------------------------
(***************************************************************************)
(* The liquidation of a partyA, in phases and by several callers: proof of *)
(* insolvency (at once or from the past), the prices, the quotes still     *)
(* pending, the positions, a dispute where the positions do not add up to  *)
(* the PnL that was signed, and the settlement with one partyB after the   *)
(* other.  Beside it partyBs move their own collateral and a liquidator    *)
(* realizes a cross partyB's PnL with other partyAs.                       *)
(*                                                                         *)
(* It starts from a book of quotes; Quotes tells how they come about.      *)
(* Lists of quotes are read off their statuses, calls for several quotes   *)
(* or partyBs are calls for one after another, one price stands for all    *)
(* symbols, maintenance margins and funding are zero, and the liquidators' *)
(* accounts are added up.  The oracle signs what the positions are worth   *)
(* at one of Prices.  Isolated pairs being wound up are in                 *)
(* PartyBLiquidation.                                                      *)
(***************************************************************************)
EXTENDS Sums, FiniteSetsExt

CONSTANTS
  PartyA, PartyB,
  CrossPartyB,                \* the partyBs in cross mode
  Zero,                       \* address(0), the bucket of a cross partyB
  QuoteIds,
  Book,                       \* the quotes at the start, by id
  PartyAAllocation,           \* [PartyA -> amount] at the start
  PartyBAllocation,           \* [PartyB -> [BucketOf -> amount]] at the start
  FreeBalance,                \* what each partyB holds unallocated
  Prices,
  Excess,                     \* what partyA may have added since it became insolvent
  Amounts, MaxTransfers,      \* the amount of one transfer by choice, and how many there are
  Resolutions,                \* amounts a dispute may be resolved by
  MaxLiquidationProfitPerPosition,
  UintModulus                 \* stands for 2^256

BucketOf == PartyA \cup {Zero}

QuoteType ==
  [partyA : PartyA, partyB : PartyB, positionType : {"LONG", "SHORT"}, quantity : Nat,
   cva : Nat, lf : Nat, fee : Nat, openedPrice : Nat,
   status : {"PENDING", "LOCKED", "OPENED", "LIQUIDATED_PENDING", "LIQUIDATED"}]

ASSUME LiquidationAssumption ==
  /\ IsFiniteSet(PartyA) /\ IsFiniteSet(PartyB) /\ IsFiniteSet(QuoteIds)
  /\ CrossPartyB \subseteq PartyB /\ Zero \notin PartyA
  /\ Book \in [QuoteIds -> QuoteType]
  /\ PartyAAllocation \in [PartyA -> Nat]
  /\ PartyBAllocation \in [PartyB -> [BucketOf -> Nat]]
  /\ FreeBalance \in Nat /\ Prices \subseteq Nat /\ Resolutions \subseteq Int
  /\ Excess \subseteq Nat /\ Amounts \subseteq Nat \ {0} /\ MaxTransfers \in Nat
  /\ MaxLiquidationProfitPerPosition \in Nat /\ UintModulus \in Nat \ {0}

VARIABLES
  quotes,
  allocatedBalances, pendingLockedBalances, lockedBalances, partyAReservedOpenFees,
  partyBAllocatedBalances, partyBPendingLockedBalances, partyBLockedBalances,
  connectedPartyBs,
  balances,                           \* of partyBs
  liquidationStatus,                  \* of partyAs
  liquidationDetails, settlementStates,
  partyBLiquidationSettlementReserve,
  partyAReimbursement, partyADeferredBalance, liquidationEscrow,
  liquidatorsBalance, insuranceVault,
  takeover, crossLiquidation,         \* the clearing house's, see ClearingHouse
  paidAhead,                          \* history: settled or insured, not yet taken from partyA
  transfers                           \* made by choice so far

pools     == <<pendingLockedBalances, lockedBalances, partyBPendingLockedBalances,
               partyBLockedBalances, partyAReservedOpenFees, connectedPartyBs>>
escrows   == <<partyAReimbursement, partyADeferredBalance, liquidationEscrow>>
earnings  == <<liquidatorsBalance, insuranceVault>>
progress  == <<liquidationStatus, liquidationDetails, settlementStates,
               partyBLiquidationSettlementReserve>>
clearing  == <<takeover, crossLiquidation>>
vars == <<quotes, allocatedBalances, partyBAllocatedBalances, balances, pools, escrows,
          earnings, progress, clearing, paidAhead, transfers>>

----------------------------------------------------------------------------
(* The book.                                                               *)

With(status, a) == {q \in QuoteIds : quotes[q].status \in status /\ quotes[q].partyA = a}
PendingOf(a)      == With({"PENDING", "LOCKED"}, a)
OpenOf(a)         == With({"OPENED"}, a)
HeldBy(b, a)      == {q \in With({"LOCKED"}, a) : quotes[q].partyB = b}
PositionsOf(b, a) == {q \in OpenOf(a) : quotes[q].partyB = b}
PartyBPositions(b) == UNION {PositionsOf(b, a) : a \in PartyA}

Margin(q) == quotes[q].cva + quotes[q].lf
Fees(S) == Total(S, [q \in S |-> quotes[q].fee])
Sum(F(_), S) == MapThenSumSet(F, S)
Positive(n) == IF n > 0 THEN n ELSE 0
Lesser(m, n) == IF m < n THEN m ELSE n

\* What partyA gains from a position at a price.
Pnl(q, price) ==
  LET rise == (price - quotes[q].openedPrice) * quotes[q].quantity
  IN  IF quotes[q].positionType = "LONG" THEN rise ELSE -rise

\* The oracle signs whatever price it is.
MaySign(Holds(_)) == {price \in Prices : Holds(price)} # {}

Gains(S, price)  == Total(S, [q \in S |-> Positive(Pnl(q, price))])
Losses(S, price) == Total(S, [q \in S |-> Positive(-Pnl(q, price))])
Upnl(S, price)   == Gains(S, price) - Losses(S, price)

PartyBAllocationKey(b, a) == IF b \in CrossPartyB THEN Zero ELSE a

AvailableForLiquidation(a, allocated, upnl) ==
  allocated - (lockedBalances[a].cva + lockedBalances[a].lf) + upnl

\* What a partyB could still lock in a bucket, and lose before it is insolvent.
BucketUpnl(b, key, price) ==
  -Upnl(IF key = Zero THEN PartyBPositions(b) ELSE PositionsOf(b, key), price)
PartyBForLiquidation(b, key, price) ==
  partyBAllocatedBalances[b][key] - partyBLockedBalances[b][key] + BucketUpnl(b, key, price)
PartyBForQuote(b, key, price) ==
  PartyBForLiquidation(b, key, price) - partyBPendingLockedBalances[b][key]

\* A margin leaves the pool of the pair and the address(0) bucket.
Less(pool, b, a, n) == [pool EXCEPT ![b][a] = @ - n, ![b][Zero] = @ - n]

RemoveConnectionIfNoPositions(a, b) ==
  connectedPartyBs' =
    [connectedPartyBs EXCEPT ![a] =
       IF HeldBy(b, a)' \cup PositionsOf(b, a)' = {} THEN @ \ {b} ELSE @]

Ended(S, status) ==
  [q \in QuoteIds |-> IF q \in S THEN [quotes[q] EXCEPT !.status = status] ELSE quotes[q]]

----------------------------------------------------------------------------
(* The beginning.                                                          *)

NoDetail ==
  [type |-> "NONE", upnl |-> 0, totalUnrealizedLoss |-> 0, price |-> 0, priceSet |-> FALSE,
   deficit |-> 0, liquidationFee |-> 0, involvedPartyBCounts |-> 0,
   partyAAccumulatedUpnl |-> 0, disputed |-> FALSE,
   had |-> 0, asComputed |-> FALSE]   \* history, from the moment the type is determined
NoSettlement == [pending |-> FALSE, actual |-> 0, expected |-> 0, cva |-> 0]

\* What the oracle signs for a, under one liquidation id.
Signed(a, price) ==
  [NoDetail EXCEPT
     !.price = price, !.upnl = Upnl(OpenOf(a), price),
     !.totalUnrealizedLoss = -Losses(OpenOf(a), price)]

Begin(a, detail) ==
  /\ ~liquidationStatus[a] /\ ~takeover[a].inProgress
  /\ liquidationStatus' = [liquidationStatus EXCEPT ![a] = TRUE]
  /\ liquidationDetails' = [liquidationDetails EXCEPT ![a] = detail]
  /\ UNCHANGED <<quotes, partyBAllocatedBalances, balances, pools, settlementStates,
                 partyBLiquidationSettlementReserve, partyAReimbursement, liquidationEscrow,
                 earnings, clearing, paidAhead, transfers>>

LiquidatePartyA(a, price) ==
  LET detail == Signed(a, price) IN
  /\ OpenOf(a) # {}
  /\ AvailableForLiquidation(a, allocatedBalances[a], detail.upnl) < 0
  /\ Begin(a, detail)
  /\ UNCHANGED <<allocatedBalances, partyADeferredBalance>>

\* From a proof that a was insolvent when it had excess less than it has now.
DeferredLiquidatePartyA(a, price, excess) ==
  LET detail == Signed(a, price)
      available == AvailableForLiquidation(a, allocatedBalances[a], detail.upnl) IN
  /\ allocatedBalances[a] >= excess /\ available - excess < 0
  /\ Begin(a, detail)
  /\ allocatedBalances' = [allocatedBalances EXCEPT ![a] = @ - Positive(available)]
  /\ partyADeferredBalance' = [partyADeferredBalance EXCEPT ![a] = @ + Positive(available)]

\* Both phases after the first are closed to normal liquidators once taken over.
Liquidating(a) == liquidationStatus[a] /\ ~takeover[a].inProgress

\* The type, the deficit and the fee, for a shortfall that is read as unsigned.
Typed(a, available) ==
  LET shortfall == (-available) % UintModulus
      cva == lockedBalances[a].cva
      lf == lockedBalances[a].lf
      maxLf == MaxLiquidationProfitPerPosition * Cardinality(OpenOf(a))
  IN  CASE shortfall < lf ->
             [type |-> "NORMAL", deficit |-> 0, fee |-> Lesser(lf - shortfall, maxLf),
              insured |-> Positive(lf - shortfall - maxLf)]
        [] shortfall \in lf..lf + cva ->
             [type |-> "LATE", deficit |-> shortfall - lf, fee |-> 0, insured |-> 0]
        [] OTHER ->
             [type |-> "OVERDUE", deficit |-> shortfall - lf - cva, fee |-> 0, insured |-> 0]

DetermineLiquidationType(a) ==
  LET detail == liquidationDetails[a]
      available == AvailableForLiquidation(a, allocatedBalances[a], detail.upnl)
      typed == Typed(a, available) IN
  IF detail.type # "NONE"
  THEN /\ liquidationDetails' = [liquidationDetails EXCEPT ![a].priceSet = TRUE]
       /\ UNCHANGED <<insuranceVault, paidAhead>>
  ELSE /\ liquidationDetails' =
            [liquidationDetails EXCEPT
               ![a].priceSet = TRUE, ![a].type = typed.type,
               ![a].deficit = typed.deficit, ![a].liquidationFee = typed.fee,
               ![a].had = allocatedBalances[a], ![a].asComputed = available <= 0]
       /\ insuranceVault' = insuranceVault + typed.insured
       /\ paidAhead' = [paidAhead EXCEPT ![a] = @ + typed.insured]

SetSymbolsPrice(a) ==
  /\ Liquidating(a)
  /\ DetermineLiquidationType(a)
  /\ UNCHANGED <<quotes, allocatedBalances, partyBAllocatedBalances, balances, pools,
                 escrows, liquidatorsBalance, liquidationStatus, settlementStates,
                 partyBLiquidationSettlementReserve, clearing, transfers>>

----------------------------------------------------------------------------
(* The quotes.                                                             *)

\* Held margins of every partyB towards a are dropped with its pending quotes.
DropPending(a) ==
  LET pending == PendingOf(a)
      fees == Fees(pending)
      holders == {quotes[q].partyB : q \in With({"LOCKED"}, a)} IN
  /\ quotes' = Ended(pending, "LIQUIDATED_PENDING")
  /\ partyBPendingLockedBalances' =
       [b \in PartyB |->
          IF b \in holders
          THEN [partyBPendingLockedBalances[b] EXCEPT
                  ![a] = 0, ![Zero] = @ - partyBPendingLockedBalances[b][a]]
          ELSE partyBPendingLockedBalances[b]]
  /\ connectedPartyBs' =
       [connectedPartyBs EXCEPT ![a] = @ \ {b \in holders : PositionsOf(b, a) = {}}]
  /\ partyAReservedOpenFees' = [partyAReservedOpenFees EXCEPT ![a] = Positive(@ - fees)]
  /\ partyAReimbursement' = [partyAReimbursement EXCEPT ![a] = @ + fees]
  /\ pendingLockedBalances' = [pendingLockedBalances EXCEPT ![a] = 0]
  /\ UNCHANGED <<allocatedBalances, partyBAllocatedBalances, balances, lockedBalances,
                 partyBLockedBalances, partyADeferredBalance, liquidationEscrow, earnings,
                 progress, clearing, paidAhead, transfers>>

LiquidatePendingPositionsPartyA(a) == Liquidating(a) /\ DropPending(a)

Mutant_Adds_GainsHaircutToo(a, q) ==
  LET detail == liquidationDetails[a]
      pnl == Pnl(q, detail.price)
      cva == quotes[q].cva
      haircut == ((-pnl) * detail.deficit) \div (-detail.totalUnrealizedLoss)
  IN  CASE detail.type = "NORMAL" -> [cva |-> cva, actual |-> pnl, expected |-> pnl]
        [] detail.type = "LATE" ->
             [cva |-> cva - (cva * detail.deficit) \div lockedBalances[a].cva,
              actual |-> pnl, expected |-> pnl]
        [] detail.type = "OVERDUE" ->
             [cva |-> 0, expected |-> pnl,
              actual |-> IF detail.totalUnrealizedLoss = 0 THEN pnl ELSE pnl + haircut]

\* What a position adds to the settlement with its partyB.
Adds(a, q) ==
  LET detail == liquidationDetails[a]
      pnl == Pnl(q, detail.price)
      cva == quotes[q].cva
      haircut == ((-pnl) * detail.deficit) \div (-detail.totalUnrealizedLoss)
  IN  CASE detail.type = "NORMAL" -> [cva |-> cva, actual |-> pnl, expected |-> pnl]
        [] detail.type = "LATE" ->
             [cva |-> cva - (cva * detail.deficit) \div lockedBalances[a].cva,
              actual |-> pnl, expected |-> pnl]
        [] detail.type = "OVERDUE" ->
             [cva |-> 0, actual |-> IF pnl >= 0 THEN pnl ELSE pnl + haircut, expected |-> pnl]

\* The code's checked divisions and products.
MayAdd(a, q) ==
  LET detail == liquidationDetails[a] IN
  /\ detail.type = "LATE" => lockedBalances[a].cva > 0
  /\ detail.type = "OVERDUE" =>
       Positive(-Pnl(q, detail.price)) * detail.deficit < UintModulus

Mutant_Reserve_AddsOnly(b, old, new) ==
  [partyBLiquidationSettlementReserve EXCEPT ![b] =
     IF b \in CrossPartyB THEN @ + Positive(new - old) ELSE @]

\* The settlement reserve follows what a cross partyB has to pay.
Reserve(b, old, new) ==
  [partyBLiquidationSettlementReserve EXCEPT ![b] =
     IF b \in CrossPartyB THEN @ + Positive(new) - Positive(old) ELSE @]

\* What partyA is reckoned to have made with b, when its last position with b goes.
Reckoned(b, a, expected) ==
  IF expected < 0 THEN expected
  ELSE Lesser(expected, partyBAllocatedBalances[b][PartyBAllocationKey(b, a)])

LiquidatePositionPartyA(a, q) ==
  LET b == quotes[q].partyB
      detail == liquidationDetails[a]
      old == settlementStates[a][b]
      added == Adds(a, q)
      new == [pending |-> TRUE, actual |-> old.actual + added.actual,
              expected |-> old.expected + added.expected, cva |-> old.cva + added.cva]
      accumulated == detail.partyAAccumulatedUpnl
                       + (IF PositionsOf(b, a) = {q} THEN Reckoned(b, a, new.expected) ELSE 0) IN
  /\ Liquidating(a)
  /\ q \in OpenOf(a) /\ detail.priceSet /\ ~crossLiquidation[b].inProgress
  /\ MayAdd(a, q)
  /\ partyBLockedBalances[b][a] >= Margin(q)
  /\ quotes' = Ended({q}, "LIQUIDATED")
  /\ settlementStates' = [settlementStates EXCEPT ![a][b] = new]
  /\ partyBLiquidationSettlementReserve' = Reserve(b, old.actual, new.actual)
  /\ partyBLockedBalances' = Less(partyBLockedBalances, b, a, Margin(q))
  /\ RemoveConnectionIfNoPositions(a, b)
  /\ liquidationDetails' =
       [liquidationDetails EXCEPT
          ![a].involvedPartyBCounts = IF old.pending THEN @ ELSE @ + 1,
          ![a].partyAAccumulatedUpnl = accumulated,
          ![a].disputed = @ \/ (OpenOf(a) = {q} /\ accumulated # detail.upnl)]
  /\ UNCHANGED <<allocatedBalances, partyBAllocatedBalances, balances, pendingLockedBalances,
                 lockedBalances, partyBPendingLockedBalances, partyAReservedOpenFees, escrows,
                 earnings, liquidationStatus, clearing, paidAhead, transfers>>

\* A call that names no quote repeats the last check, also after a resolution.
DisputeAgain(a) ==
  /\ Liquidating(a) /\ OpenOf(a) = {}
  /\ liquidationDetails[a].partyAAccumulatedUpnl # liquidationDetails[a].upnl
  /\ liquidationDetails' = [liquidationDetails EXCEPT ![a].disputed = TRUE]
  /\ UNCHANGED <<quotes, allocatedBalances, partyBAllocatedBalances, balances, pools, escrows,
                 earnings, liquidationStatus, settlementStates,
                 partyBLiquidationSettlementReserve, clearing, paidAhead, transfers>>

----------------------------------------------------------------------------
(* The settlement.                                                         *)

Pending(a) == {b \in PartyB : settlementStates[a][b].pending}

\* What b pays of amount: an isolated partyB no more than it has.
Collected(b, a, amount) ==
  IF b \in CrossPartyB THEN amount
  ELSE Lesser(amount,
              partyBAllocatedBalances[b][PartyBAllocationKey(b, a)] + settlementStates[a][b].cva)

\* The resolver is trusted with one thing: it names no partyB without a settlement.
TrustedResolution(a, amounts) == DOMAIN amounts \subseteq Pending(a)

\* An amount for each partyB it names, at any time, dispute or not.
ResolveLiquidationDispute(a, amounts, disputed) ==
  /\ ~takeover[a].inProgress
  /\ liquidationDetails' =
       [liquidationDetails EXCEPT ![a].disputed = disputed, ![a].asComputed = FALSE]
  /\ settlementStates' =
       [settlementStates EXCEPT ![a] =
          [b \in PartyB |->
             IF b \in DOMAIN amounts THEN [@[b] EXCEPT !.actual = amounts[b]] ELSE @[b]]]
  /\ partyBLiquidationSettlementReserve' =
       [b \in PartyB |->
          IF b \in DOMAIN amounts
          THEN Reserve(b, settlementStates[a][b].actual, amounts[b])[b]
          ELSE partyBLiquidationSettlementReserve[b]]
  /\ UNCHANGED <<quotes, allocatedBalances, partyBAllocatedBalances, balances, pools, escrows,
                 earnings, liquidationStatus, clearing, paidAhead, transfers>>

\* Where the fees of the pending quotes go.
ToEscrow(a) == liquidationDetails[a].type \in {"LATE", "OVERDUE"}

\* The last partyB closes the liquidation.
Close(a) ==
  LET fee == liquidationDetails[a].liquidationFee IN
  /\ allocatedBalances' =
       [allocatedBalances EXCEPT ![a] =
          partyADeferredBalance[a] + (IF ToEscrow(a) THEN 0 ELSE partyAReimbursement[a])]
  /\ liquidationEscrow' =
       [liquidationEscrow EXCEPT ![a] = @ + (IF ToEscrow(a) THEN partyAReimbursement[a] ELSE 0)]
  /\ partyADeferredBalance' = [partyADeferredBalance EXCEPT ![a] = 0]
  /\ partyAReimbursement' = [partyAReimbursement EXCEPT ![a] = 0]
  /\ lockedBalances' = [lockedBalances EXCEPT ![a] = [cva |-> 0, lf |-> 0]]
  /\ liquidatorsBalance' = liquidatorsBalance + 2 * (fee \div 2)
  /\ liquidationStatus' = [liquidationStatus EXCEPT ![a] = FALSE]
  /\ paidAhead' = [paidAhead EXCEPT ![a] = 0]

SettlePartyALiquidation(a, b) ==
  LET state == settlementStates[a][b]
      key == PartyBAllocationKey(b, a)
      last == liquidationDetails[a].involvedPartyBCounts = 1
      outlay == state.cva - Collected(b, a, state.actual) IN
  /\ Liquidating(a) /\ ~liquidationDetails[a].disputed
  /\ OpenOf(a) = {} /\ PendingOf(a) = {}
  /\ ~crossLiquidation[b].inProgress /\ state.pending
  /\ partyBAllocatedBalances[b][key] + outlay >= 0
  /\ partyBAllocatedBalances' = [partyBAllocatedBalances EXCEPT ![b][key] = @ + outlay]
  /\ partyBLiquidationSettlementReserve[b] >= (IF b \in CrossPartyB THEN state.actual ELSE 0)
  /\ partyBLiquidationSettlementReserve' = Reserve(b, state.actual, 0)
  /\ settlementStates' = [settlementStates EXCEPT ![a][b] = NoSettlement]
  /\ liquidationDetails' =
       [liquidationDetails EXCEPT ![a].involvedPartyBCounts = @ - 1,
                                  ![a].type = IF last THEN "NONE" ELSE @]
  /\ IF last
     THEN Close(a)
     ELSE /\ paidAhead' = [paidAhead EXCEPT ![a] = @ + state.cva - state.actual]
          /\ UNCHANGED <<allocatedBalances, escrows, lockedBalances, liquidatorsBalance,
                         liquidationStatus>>
  /\ UNCHANGED <<quotes, balances, pendingLockedBalances, partyBPendingLockedBalances,
                 partyBLockedBalances, partyAReservedOpenFees, connectedPartyBs,
                 insuranceVault, clearing, transfers>>

----------------------------------------------------------------------------
(* Beside it.                                                              *)

\* A liquidator realizes what cross partyB b has made on q, a position with another
\* partyA, at a price between the opened and the current one.
SettlePartyBUpnlForLiquidation(a, b, q, updated) ==
  LET other == quotes[q].partyA
      opened == quotes[q].openedPrice
      gain == Pnl(q, updated) IN
  /\ liquidationStatus[a] /\ b \in CrossPartyB /\ settlementStates[a][b].pending
  /\ q \in OpenOf(other) /\ quotes[q].partyB = b /\ other # a
  /\ ~liquidationStatus[other] /\ ~crossLiquidation[b].inProgress
  /\ MaySign(LAMBDA price :
       /\ PartyBForLiquidation(b, Zero, price) >= 0
       /\ AvailableForLiquidation(other, allocatedBalances[other], Upnl(OpenOf(other), price)) >= 0
       /\ IF opened > price THEN updated \in price..opened - 1 ELSE updated \in opened + 1..price)
  /\ allocatedBalances[other] + gain >= 0 /\ partyBAllocatedBalances[b][Zero] >= gain
  /\ allocatedBalances' = [allocatedBalances EXCEPT ![other] = @ + gain]
  /\ partyBAllocatedBalances' = [partyBAllocatedBalances EXCEPT ![b][Zero] = @ - gain]
  /\ quotes' = [quotes EXCEPT ![q].openedPrice = updated]
  /\ UNCHANGED <<balances, pools, escrows, earnings, progress, clearing, paidAhead, transfers>>

\* notLiquidatedPartyB.
MayMove(b) == ~crossLiquidation[b].inProgress

Transfer == transfers < MaxTransfers /\ transfers' = transfers + 1

AllocateForPartyB(b, key, n) ==
  /\ Transfer /\ MayMove(b) /\ (b \in CrossPartyB => key = Zero)
  /\ balances[b] >= n
  /\ balances' = [balances EXCEPT ![b] = @ - n]
  /\ partyBAllocatedBalances' = [partyBAllocatedBalances EXCEPT ![b][key] = @ + n]
  /\ UNCHANGED <<quotes, allocatedBalances, pools, escrows, earnings, progress, clearing,
                 paidAhead>>

\* In cross mode the address(0) bucket decides, less what settlements will take.
Deallocatable(b, key, price) ==
  IF b \in CrossPartyB
  THEN PartyBForQuote(b, Zero, price) - partyBLiquidationSettlementReserve[b]
  ELSE PartyBForQuote(b, key, price)

DeallocateForPartyB(b, key, n) ==
  /\ Transfer /\ MayMove(b) /\ (key \in PartyA => ~liquidationStatus[key])
  /\ partyBAllocatedBalances[b][key] >= n
  /\ MaySign(LAMBDA price :
       Deallocatable(b, key, price) >= IF b \notin CrossPartyB \/ key = Zero THEN n ELSE 0)
  /\ balances' = [balances EXCEPT ![b] = @ + n]
  /\ partyBAllocatedBalances' = [partyBAllocatedBalances EXCEPT ![b][key] = @ - n]
  /\ UNCHANGED <<quotes, allocatedBalances, pools, escrows, earnings, progress, clearing,
                 paidAhead>>

----------------------------------------------------------------------------

\* The pools of a book.
BookOf(status, a) == {q \in QuoteIds : Book[q].status \in status /\ Book[q].partyA = a}
BookLocked(a) ==
  LET open == BookOf({"OPENED"}, a)
  IN  [cva |-> Total(open, [q \in open |-> Book[q].cva]),
       lf  |-> Total(open, [q \in open |-> Book[q].lf])]
BookMargin(status, b, a) ==
  Sum(LAMBDA q : Book[q].cva + Book[q].lf, {q \in BookOf(status, a) : Book[q].partyB = b})
BookPools(status) ==
  [b \in PartyB |-> [key \in BucketOf |->
     Sum(LAMBDA a : BookMargin(status, b, a), IF key = Zero THEN PartyA ELSE {key})]]

Init ==
  /\ quotes = Book
  /\ allocatedBalances = PartyAAllocation
  /\ partyBAllocatedBalances = PartyBAllocation
  /\ balances = [b \in PartyB |-> FreeBalance]
  /\ pendingLockedBalances =
       [a \in PartyA |-> Sum(LAMBDA q : Book[q].cva + Book[q].lf, BookOf({"PENDING", "LOCKED"}, a))]
  /\ lockedBalances = [a \in PartyA |-> BookLocked(a)]
  /\ partyBPendingLockedBalances = BookPools({"LOCKED"})
  /\ partyBLockedBalances = BookPools({"OPENED"})
  /\ partyAReservedOpenFees =
       [a \in PartyA |-> Sum(LAMBDA q : Book[q].fee, BookOf({"PENDING", "LOCKED"}, a))]
  /\ connectedPartyBs =
       [a \in PartyA |-> {Book[q].partyB : q \in BookOf({"LOCKED", "OPENED"}, a)}]
  /\ liquidationStatus = [a \in PartyA |-> FALSE]
  /\ liquidationDetails = [a \in PartyA |-> NoDetail]
  /\ settlementStates = [a \in PartyA |-> [b \in PartyB |-> NoSettlement]]
  /\ partyBLiquidationSettlementReserve = [b \in PartyB |-> 0]
  /\ partyAReimbursement = [a \in PartyA |-> 0]
  /\ partyADeferredBalance = [a \in PartyA |-> 0]
  /\ liquidationEscrow = [a \in PartyA |-> 0]
  /\ liquidatorsBalance = 0 /\ insuranceVault = 0
  /\ takeover = [a \in PartyA |-> [inProgress |-> FALSE, pool |-> 0]]
  /\ crossLiquidation = [b \in PartyB |-> [inProgress |-> FALSE, pool |-> 0]]
  /\ paidAhead = [a \in PartyA |-> 0] /\ transfers = 0

PartyALiquidationStep ==
  \/ \E a \in PartyA, price \in Prices :
       \/ LiquidatePartyA(a, price)
       \/ \E excess \in Excess : DeferredLiquidatePartyA(a, price, excess)
  \/ \E a \in PartyA : SetSymbolsPrice(a) \/ LiquidatePendingPositionsPartyA(a) \/ DisputeAgain(a)
  \/ \E a \in PartyA, q \in QuoteIds : LiquidatePositionPartyA(a, q)
  \/ \E a \in PartyA, disputed \in BOOLEAN, named \in SUBSET PartyB :
       \E amounts \in [named -> Resolutions] :
         TrustedResolution(a, amounts) /\ ResolveLiquidationDispute(a, amounts, disputed)
  \/ \E a \in PartyA, b \in PartyB : SettlePartyALiquidation(a, b)
  \/ \E a \in PartyA, b \in PartyB, q \in QuoteIds, updated \in Prices :
       SettlePartyBUpnlForLiquidation(a, b, q, updated)
  \/ \E b \in PartyB, key \in BucketOf, n \in Amounts :
       AllocateForPartyB(b, key, n) \/ DeallocateForPartyB(b, key, n)
=============================================================================
