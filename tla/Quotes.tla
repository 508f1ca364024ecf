------------------------------- MODULE Quotes -------------------------------
(***************************************************************************)
(* The trading core of the diamond: the life of a quote from sendQuote to  *)
(* its close, cancellation or expiry, and every list and pool the handlers *)
(* keep beside it: pending and open lists, connections, locked margins,    *)
(* reserved opening fees, allocated balances and the fee collector.        *)
(*                                                                         *)
(* What is abstracted.  The four lockedValues components (cva, lf,         *)
(* partyAmm, partyBmm) are scaled, split and moved by the same formula, so *)
(* one number stands for each of them.  Amounts and prices are small       *)
(* naturals in units where quantity * price needs no rescaling.  The       *)
(* unrealized PnL and the solvency verdict come signed from the Muon       *)
(* oracle: the verdict may be favourable to any operation, the PnL is      *)
(* drawn from Upnls.  Roles, pauses, signature nonces, hooks and events    *)
(* restrict or report calls and are left out; binding and liquidation are  *)
(* components of their own; funding is off (epochDuration = 0).  A call    *)
(* that reverts changes nothing, so it is an action that is not enabled;   *)
(* the guards that compare a pool with an amount are Solidity's checked    *)
(* subtractions.                                                           *)
(***************************************************************************)
EXTENDS Sums

CONSTANTS
  PartyA, PartyB,             \* the accounts of each side
  Zero,                       \* address(0): no partyB, and the cross bucket
  CrossPartyB,                \* the partyBs in cross mode
  Offers,                     \* the quotes partyAs may send
  Prices,                     \* execution and requested close prices
  Upnls,                      \* signed PnL, net of the maintenance margin it offsets
  InitialAllocation,          \* the allocated balance of every party at the start
  MaxQuotes,                  \* bound on lastId
  MaxTime,                    \* bound on the clock
  Switches,                   \* the switches the administrator may flip
  Lifetimes,                  \* how far ahead a close request's deadline may be
  CloseOrderTypes,            \* the order types close requests are sent with
  OpenFeeRate, CloseFeeRate, FeeScale,
  MinQuoteValue, MaxLeverage,
  PendingQuotesValidLength, MaxPartyAConnectionLimit,
  ForceCancelCooldown, ForceCancelCloseCooldown

OfferType ==
  [partyA : PartyA, whiteList : SUBSET PartyB, positionType : {"LONG", "SHORT"},
   orderType : {"LIMIT", "MARKET"}, price : Nat \ {0}, feePrice : Nat,
   quantity : Nat \ {0}, locked : Nat, lifetime : Nat]

ASSUME PartiesAssumption ==
  /\ IsFiniteSet(PartyA) /\ IsFiniteSet(PartyB)
  /\ Zero \notin PartyA /\ Zero \notin PartyB
  /\ CrossPartyB \subseteq PartyB
  /\ Offers \subseteq OfferType
  /\ CloseOrderTypes \subseteq {"LIMIT", "MARKET"}
  /\ Switches \subseteq {"emergencyMode", "symbolValid"}

ASSUME NumbersAssumption ==
  /\ Prices \subseteq Nat /\ Upnls \subseteq Int /\ Lifetimes \subseteq Nat
  /\ InitialAllocation \in Nat /\ MaxQuotes \in Nat /\ MaxTime \in Nat
  /\ OpenFeeRate \in Nat /\ CloseFeeRate \in Nat /\ FeeScale \in Nat \ {0}
  /\ MinQuoteValue \in Nat /\ MaxLeverage \in Nat
  /\ PendingQuotesValidLength \in Nat /\ MaxPartyAConnectionLimit \in Nat
  /\ ForceCancelCooldown \in Nat /\ ForceCancelCloseCooldown \in Nat

VARIABLES
  quotes,                \* QuoteStorage.quotes, NoQuote for ids not yet used
  lastId,
  partyAPendingQuotes, partyBPendingQuotes,      \* [A], [B][A]
  partyAOpenPositions, partyBOpenPositions,      \* [A], [B][A]
  partyBPositionsCount,                          \* [B][address(0)]: all of B's
  connectedPartyBs,
  pendingLockedBalances, lockedBalances,         \* [A]
  partyBPendingLockedBalances, partyBLockedBalances,   \* [B][A or address(0)]
  partyAReservedOpenFees,
  allocatedBalances, partyBAllocatedBalances,    \* [A], [B][A or address(0)]
  feeCollectorBalance,
  emergencyMode, symbolValid,
  now                                            \* block.timestamp

lists == <<partyAPendingQuotes, partyBPendingQuotes, partyAOpenPositions,
           partyBOpenPositions, partyBPositionsCount, connectedPartyBs>>
pools == <<pendingLockedBalances, lockedBalances,
           partyBPendingLockedBalances, partyBLockedBalances>>
funds == <<partyAReservedOpenFees, allocatedBalances, partyBAllocatedBalances,
           feeCollectorBalance>>
world == <<emergencyMode, symbolValid, now>>
vars  == <<quotes, lastId, lists, pools, funds, world>>

----------------------------------------------------------------------------
(* Quotes.                                                                 *)

PendingStatus == {"PENDING", "LOCKED", "CANCEL_PENDING"}
HeldStatus    == {"LOCKED", "CANCEL_PENDING"}
ClosingStatus == {"CLOSE_PENDING", "CANCEL_CLOSE_PENDING"}
OpenStatus    == {"OPENED"} \cup ClosingStatus
FinalStatus   == {"CANCELED", "EXPIRED", "CLOSED", "LIQUIDATED", "LIQUIDATED_PENDING"}
QuoteStatus   == {"NONE"} \cup PendingStatus \cup OpenStatus \cup FinalStatus

QuoteIds == 1..MaxQuotes
BucketOf == PartyA \cup {Zero}

QuoteType ==
  [status : QuoteStatus, partyA : PartyA \cup {Zero}, partyB : PartyB \cup {Zero},
   whiteList : SUBSET PartyB,
   positionType : {"LONG", "SHORT"}, orderType : {"LIMIT", "MARKET"},
   price : Nat \ {0}, feePrice : Nat, openedPrice : Nat, closePrice : Nat,
   quantity : Nat \ {0}, closedAmount : Nat, quantityToClose : Nat,
   locked : Nat, deadline : Nat, modified : Nat, parent : Nat]

NoQuote ==
  [status |-> "NONE", partyA |-> Zero, partyB |-> Zero, whiteList |-> {},
   positionType |-> "LONG", orderType |-> "LIMIT", price |-> 1, feePrice |-> 0,
   openedPrice |-> 0, closePrice |-> 0, quantity |-> 1, closedAmount |-> 0,
   quantityToClose |-> 0, locked |-> 0, deadline |-> 0, modified |-> 0, parent |-> 0]

\* The quote sendQuote stores for offer o.
QuoteOf(o) ==
  [NoQuote EXCEPT !.status = "PENDING", !.partyA = o.partyA, !.whiteList = o.whiteList,
     !.positionType = o.positionType, !.orderType = o.orderType, !.price = o.price,
     !.feePrice = o.feePrice, !.quantity = o.quantity, !.locked = o.locked,
     !.deadline = now + o.lifetime, !.modified = now]

OpenAmount(qt) == qt.quantity - qt.closedAmount

\* getOpenTradingFee: feePrice is the requested price of a LIMIT quote, the
\* market price of a MARKET quote.
OpenTradingFee(qt) == (OpenAmount(qt) * qt.feePrice * OpenFeeRate) \div FeeScale

\* The part of a margin that n of m units carry, rounded down.
Portion(margin, n, m) == (margin * n) \div m

\* Is p no worse for the party that asked for limit than the limit itself?
OpenPriceOk(qt, p) == IF qt.positionType = "LONG" THEN p <= qt.price ELSE p >= qt.price
ClosePriceOk(qt, p) ==
  IF qt.positionType = "LONG" THEN p >= qt.closePrice ELSE p <= qt.closePrice

\* getValueOfQuoteForPartyA, as a signed number.
Pnl(qt, n, p) ==
  IF qt.positionType = "LONG" THEN (p - qt.openedPrice) * n ELSE (qt.openedPrice - p) * n

PartyBAllocationKey(b, a) == IF b \in CrossPartyB THEN Zero ELSE a

\* LibAccount writes B's pools under partyA and under address(0).
Add(f, b, a, n) ==
  [f EXCEPT ![b] = [k \in BucketOf |-> IF k \in {a, Zero} THEN @[k] + n ELSE @[k]]]
Sub(f, b, a, n) ==
  [f EXCEPT ![b] = [k \in BucketOf |-> IF k \in {a, Zero} THEN @[k] - n ELSE @[k]]]
Covers(f, b, a, n) == f[b][a] >= n /\ f[b][Zero] >= n

AvailableForQuoteA(a, upnl) ==
  allocatedBalances[a] + upnl - (lockedBalances[a] + pendingLockedBalances[a])

AvailableForQuoteB(b, a, upnl) ==
  LET k == PartyBAllocationKey(b, a)
  IN  partyBAllocatedBalances[b][k] + upnl
        - (partyBLockedBalances[b][k] + partyBPendingLockedBalances[b][k])

Mutant_RemoveConnection_PendingOnly(a, b) ==
  connectedPartyBs' =
    IF partyBPendingQuotes'[b][a] = {}
    THEN [connectedPartyBs EXCEPT ![a] = @ \ {b}]
    ELSE connectedPartyBs

\* removeConnectionIfNoPositions, reading the lists as this step leaves them.
RemoveConnectionIfNoPositions(a, b) ==
  connectedPartyBs' =
    IF partyBOpenPositions'[b][a] = {} /\ partyBPendingQuotes'[b][a] = {}
    THEN [connectedPartyBs EXCEPT ![a] = @ \ {b}]
    ELSE connectedPartyBs

Mutant_AddConnection_OffByOne(a, b) ==
  /\ b \notin connectedPartyBs[a] =>
       Cardinality(connectedPartyBs[a]) <= MaxPartyAConnectionLimit
  /\ connectedPartyBs' = [connectedPartyBs EXCEPT ![a] = @ \cup {b}]

AddConnection(a, b) ==
  /\ b \notin connectedPartyBs[a] =>
       Cardinality(connectedPartyBs[a]) < MaxPartyAConnectionLimit
  /\ connectedPartyBs' = [connectedPartyBs EXCEPT ![a] = @ \cup {b}]

Mutant_Decrease_Forgotten(reserved, fee) == reserved
Decrease(reserved, fee) == IF fee >= reserved THEN 0 ELSE reserved - fee

----------------------------------------------------------------------------
(* Sending, locking and leaving the pending states.                        *)

MaySend(o) ==
  LET fee == OpenTradingFee(QuoteOf(o)) IN
  /\ lastId < MaxQuotes
  /\ Cardinality(partyAPendingQuotes[o.partyA]) < PendingQuotesValidLength
  /\ symbolValid
  /\ o.locked >= MinQuoteValue
  /\ \E upnl \in Upnls :
       /\ AvailableForQuoteA(o.partyA, upnl) > 0
       /\ AvailableForQuoteA(o.partyA, upnl) >= o.locked + fee
  /\ allocatedBalances[o.partyA] >= fee

SendQuote(o) ==
  LET a == o.partyA
      fee == OpenTradingFee(QuoteOf(o)) IN
  /\ MaySend(o)
  /\ lastId' = lastId + 1
  /\ quotes' = [quotes EXCEPT ![lastId + 1] = QuoteOf(o)]
  /\ partyAPendingQuotes' = [partyAPendingQuotes EXCEPT ![a] = @ \cup {lastId + 1}]
  /\ pendingLockedBalances' = [pendingLockedBalances EXCEPT ![a] = @ + o.locked]
  /\ allocatedBalances' = [allocatedBalances EXCEPT ![a] = @ - fee]
  /\ partyAReservedOpenFees' = [partyAReservedOpenFees EXCEPT ![a] = @ + fee]
  /\ UNCHANGED <<partyBPendingQuotes, partyAOpenPositions, partyBOpenPositions,
                 partyBPositionsCount, connectedPartyBs, lockedBalances,
                 partyBPendingLockedBalances, partyBLockedBalances,
                 partyBAllocatedBalances, feeCollectorBalance, world>>

MayLock(b, qt) ==
  /\ qt.status = "PENDING"
  /\ now <= qt.deadline
  /\ qt.whiteList = {} \/ b \in qt.whiteList
  /\ \E upnl \in Upnls : AvailableForQuoteB(b, qt.partyA, upnl) >= qt.locked

LockQuote(b, q) ==
  LET qt == quotes[q] IN
  /\ MayLock(b, qt)
  /\ quotes' = [quotes EXCEPT ![q].status = "LOCKED", ![q].partyB = b, ![q].modified = now]
  /\ partyBPendingLockedBalances' = Add(partyBPendingLockedBalances, b, qt.partyA, qt.locked)
  /\ partyBPendingQuotes' = [partyBPendingQuotes EXCEPT ![b][qt.partyA] = @ \cup {q}]
  /\ UNCHANGED <<lastId, partyAPendingQuotes, partyAOpenPositions, partyBOpenPositions,
                 partyBPositionsCount, connectedPartyBs, pendingLockedBalances,
                 lockedBalances, partyBLockedBalances, funds, world>>

\* What B gave up for quote q comes off its pools, lists and connections.
PartyBLetsGo(q) ==
  LET qt == quotes[q] IN
  /\ Covers(partyBPendingLockedBalances, qt.partyB, qt.partyA, qt.locked)
  /\ partyBPendingLockedBalances' =
       Sub(partyBPendingLockedBalances, qt.partyB, qt.partyA, qt.locked)
  /\ q \in partyBPendingQuotes[qt.partyB][qt.partyA]
  /\ partyBPendingQuotes' = [partyBPendingQuotes EXCEPT ![qt.partyB][qt.partyA] = @ \ {q}]
  /\ UNCHANGED <<partyAOpenPositions, partyBOpenPositions>>
  /\ RemoveConnectionIfNoPositions(qt.partyA, qt.partyB)

\* The end of a quote that never opened: margin and fee go back to partyA.
Leave(q, status) ==
  LET qt == quotes[q]
      a == qt.partyA
      fee == OpenTradingFee(qt) IN
  /\ quotes' = [quotes EXCEPT ![q].status = status, ![q].modified = now]
  /\ pendingLockedBalances[a] >= qt.locked
  /\ pendingLockedBalances' = [pendingLockedBalances EXCEPT ![a] = @ - qt.locked]
  /\ q \in partyAPendingQuotes[a]
  /\ partyAPendingQuotes' = [partyAPendingQuotes EXCEPT ![a] = @ \ {q}]
  /\ partyAReservedOpenFees' = [partyAReservedOpenFees EXCEPT ![a] = Decrease(@, fee)]
  /\ allocatedBalances' = [allocatedBalances EXCEPT ![a] = @ + fee]
  /\ IF qt.status \in HeldStatus
     THEN PartyBLetsGo(q)
     ELSE UNCHANGED <<partyBPendingLockedBalances, partyBPendingQuotes,
                      partyAOpenPositions, partyBOpenPositions, connectedPartyBs>>
  /\ UNCHANGED <<lastId, partyBPositionsCount, lockedBalances, partyBLockedBalances,
                 partyBAllocatedBalances, feeCollectorBalance, world>>

\* The handlers that touch only the quote itself.
UpdateOnly(q, qt) ==
  /\ quotes' = [quotes EXCEPT ![q] = qt]
  /\ UNCHANGED <<lastId, lists, pools, funds, world>>

\* The quote as a close request leaves it when it is withdrawn or runs out.
Reopened(qt) ==
  [qt EXCEPT !.status = "OPENED", !.closePrice = 0, !.quantityToClose = 0, !.modified = now]

ExpirePending(q) ==
  /\ quotes[q].status \in PendingStatus
  /\ now > quotes[q].deadline
  /\ Leave(q, "EXPIRED")

Mutant_ExpireClose_NotCancelled(q) ==
  /\ quotes[q].status = "CLOSE_PENDING"
  /\ now > quotes[q].deadline
  /\ UpdateOnly(q, Reopened(quotes[q]))

ExpireClose(q) ==
  /\ quotes[q].status \in ClosingStatus
  /\ now > quotes[q].deadline
  /\ UpdateOnly(q, Reopened(quotes[q]))

ExpireQuote(q) == ExpirePending(q) \/ ExpireClose(q)

RequestToCancelQuote(q) ==
  LET qt == quotes[q] IN
  /\ qt.status \in {"PENDING", "LOCKED"}
  /\ \/ ExpirePending(q)
     \/ /\ now <= qt.deadline /\ qt.status = "PENDING"
        /\ Leave(q, "CANCELED")
     \/ /\ now <= qt.deadline /\ qt.status = "LOCKED"
        /\ UpdateOnly(q, [qt EXCEPT !.status = "CANCEL_PENDING", !.modified = now])

UnlockQuote(q) ==
  LET qt == quotes[q] IN
  /\ qt.status = "LOCKED"
  /\ \/ ExpirePending(q)
     \/ /\ now <= qt.deadline
        /\ quotes' = [quotes EXCEPT ![q].status = "PENDING", ![q].partyB = Zero,
                                    ![q].modified = now]
        /\ PartyBLetsGo(q)
        /\ UNCHANGED <<lastId, partyAPendingQuotes, partyBPositionsCount,
                       pendingLockedBalances, lockedBalances, partyBLockedBalances,
                       funds, world>>

AcceptCancelRequest(q) == quotes[q].status = "CANCEL_PENDING" /\ Leave(q, "CANCELED")

Mutant_ForceCancelQuote_WrongStatus(q) ==
  /\ quotes[q].status = "LOCKED"
  /\ now > quotes[q].modified + ForceCancelCooldown
  /\ Leave(q, "CANCELED")

ForceCancelQuote(q) ==
  /\ quotes[q].status = "CANCEL_PENDING"
  /\ now > quotes[q].modified + ForceCancelCooldown
  /\ Leave(q, "CANCELED")

----------------------------------------------------------------------------
(* Opening.                                                                *)

MayOpen(qt, n, p) ==
  /\ ~emergencyMode /\ symbolValid
  /\ qt.status \in HeldStatus
  /\ now <= qt.deadline
  /\ IF qt.orderType = "LIMIT" THEN n \in 1..qt.quantity ELSE n = qt.quantity
  /\ OpenPriceOk(qt, p)

\* The position that n units filled at p leave under the quote's id, with
\* margin (before rescaling to the opened price) taken from the pending quote.
Opened(qt, n, p, margin) ==
  [qt EXCEPT !.status = "OPENED", !.openedPrice = p, !.quantity = n,
             !.locked = Portion(margin, p, qt.price), !.modified = now]

PositionOk(pos) ==
  /\ pos.locked >= MinQuoteValue /\ pos.locked > 0
  /\ (pos.quantity * pos.openedPrice) \div pos.locked <= MaxLeverage

\* The new position enters the locked pools, the open lists and the connections.
AddPosition(q, pos) ==
  LET a == pos.partyA
      b == pos.partyB IN
  /\ PositionOk(pos)
  /\ lockedBalances' = [lockedBalances EXCEPT ![a] = @ + pos.locked]
  /\ partyBLockedBalances' = Add(partyBLockedBalances, b, a, pos.locked)
  /\ partyAOpenPositions' = [partyAOpenPositions EXCEPT ![a] = @ \cup {q}]
  /\ partyBOpenPositions' = [partyBOpenPositions EXCEPT ![b][a] = @ \cup {q}]
  /\ partyBPositionsCount' = [partyBPositionsCount EXCEPT ![b] = @ + 1]
  /\ AddConnection(a, b)

\* removeFromPendingQuotes, and B's whole pending margin.
LeavePendingLists(q) ==
  LET qt == quotes[q]
      a == qt.partyA
      b == qt.partyB IN
  /\ q \in partyAPendingQuotes[a] /\ q \in partyBPendingQuotes[b][a]
  /\ partyBPendingQuotes' = [partyBPendingQuotes EXCEPT ![b][a] = @ \ {q}]
  /\ Covers(partyBPendingLockedBalances, b, a, qt.locked)
  /\ partyBPendingLockedBalances' = Sub(partyBPendingLockedBalances, b, a, qt.locked)

Mutant_Rest_KeepsPartyB(q, qt, n) ==
  [qt EXCEPT !.status = IF qt.status = "CANCEL_PENDING" THEN "CANCELED" ELSE "PENDING",
             !.quantity = qt.quantity - n,
             !.locked = qt.locked - Portion(qt.locked, n, qt.quantity),
             !.parent = q, !.modified = now]

\* What a partial fill of qt leaves unfilled, and its shares of partyA's pending
\* list, pending margin and fee reserve.
Rest(q, qt, n) ==
  [qt EXCEPT !.status = IF qt.status = "CANCEL_PENDING" THEN "CANCELED" ELSE "PENDING",
             !.partyB = Zero, !.quantity = qt.quantity - n,
             !.locked = qt.locked - Portion(qt.locked, n, qt.quantity),
             !.parent = q, !.modified = now]

Mutant_RestPending_CancelledToo(qt) == {lastId + 1}
Mutant_ReleasedPending_FilledOnly(qt, filled) == filled
Mutant_ReleasedPending_WholeAlways(qt, filled) == qt.locked
Mutant_RealizedFee_Whole(qt, restFee) == OpenTradingFee(qt)

RestPending(qt)         == IF qt.status = "CANCEL_PENDING" THEN {} ELSE {lastId + 1}
ReleasedPending(qt, filled) == IF qt.status = "CANCEL_PENDING" THEN qt.locked ELSE filled
RealizedFee(qt, restFee)    == OpenTradingFee(qt) - restFee

OpenWhole(q, p) ==
  LET qt == quotes[q]
      a == qt.partyA
      fee == OpenTradingFee(qt)
      pos == Opened(qt, qt.quantity, p, qt.locked) IN
  /\ MayOpen(qt, qt.quantity, p)
  /\ LeavePendingLists(q)
  /\ partyAPendingQuotes' = [partyAPendingQuotes EXCEPT ![a] = @ \ {q}]
  /\ pendingLockedBalances[a] >= qt.locked
  /\ pendingLockedBalances' = [pendingLockedBalances EXCEPT ![a] = @ - qt.locked]
  /\ quotes' = [quotes EXCEPT ![q] = pos]
  /\ AddPosition(q, pos)
  /\ feeCollectorBalance' = feeCollectorBalance + fee
  /\ partyAReservedOpenFees' = [partyAReservedOpenFees EXCEPT ![a] = Decrease(@, fee)]
  /\ UNCHANGED <<lastId, allocatedBalances, partyBAllocatedBalances, world>>

\* A LIMIT quote filled for n < quantity units: the rest becomes a new quote,
\* pending again or, when partyA had asked to cancel, cancelled at once.
OpenPart(q, n, p) ==
  LET qt == quotes[q]
      a == qt.partyA
      cancelled == qt.status = "CANCEL_PENDING"
      filled == Portion(qt.locked, n, qt.quantity)
      pos == Opened(qt, n, p, filled)
      rest == Rest(q, qt, n)
      restFee == OpenTradingFee(rest) IN
  /\ n < qt.quantity
  /\ MayOpen(qt, n, p)
  /\ lastId < MaxQuotes
  /\ cancelled \/ rest.locked >= MinQuoteValue
  /\ LeavePendingLists(q)
  /\ partyAPendingQuotes' = [partyAPendingQuotes EXCEPT ![a] = (@ \ {q}) \cup RestPending(qt)]
  /\ pendingLockedBalances[a] >= ReleasedPending(qt, filled)
  /\ pendingLockedBalances' =
       [pendingLockedBalances EXCEPT ![a] = @ - ReleasedPending(qt, filled)]
  /\ lastId' = lastId + 1
  /\ quotes' = [quotes EXCEPT ![q] = pos, ![lastId + 1] = rest]
  /\ AddPosition(q, pos)
  /\ feeCollectorBalance' = feeCollectorBalance + (n * qt.feePrice * OpenFeeRate) \div FeeScale
  /\ partyAReservedOpenFees' =
       [partyAReservedOpenFees EXCEPT ![a] =
          Decrease(IF cancelled THEN Decrease(@, restFee) ELSE @, RealizedFee(qt, restFee))]
  /\ allocatedBalances' = [allocatedBalances EXCEPT ![a] = @ + (IF cancelled THEN restFee ELSE 0)]
  /\ UNCHANGED <<partyBAllocatedBalances, world>>

\* One template of the instant layer: sendQuote, lockQuote and openPosition in
\* one transaction under instantOpenMode, which skips the pending lists, the
\* pending pools and the fee reserve and requires a full fill.
InstantOpen(o, b, p) ==
  LET sent == QuoteOf(o)
      locked == [sent EXCEPT !.status = "LOCKED", !.partyB = b]
      pos == Opened(locked, sent.quantity, p, sent.locked)
      fee == OpenTradingFee(sent) IN
  /\ MaySend(o) /\ MayLock(b, sent) /\ MayOpen(locked, sent.quantity, p)
  /\ lastId' = lastId + 1
  /\ quotes' = [quotes EXCEPT ![lastId + 1] = pos]
  /\ AddPosition(lastId + 1, pos)
  /\ allocatedBalances' = [allocatedBalances EXCEPT ![o.partyA] = @ - fee]
  /\ feeCollectorBalance' = feeCollectorBalance + fee
  /\ UNCHANGED <<partyAPendingQuotes, partyBPendingQuotes, pendingLockedBalances,
                 partyBPendingLockedBalances, partyAReservedOpenFees,
                 partyBAllocatedBalances, world>>

----------------------------------------------------------------------------
(* Closing.                                                                *)

RequestToClosePosition(q, n, p, orderType, lifetime) ==
  LET qt == quotes[q]
      open == OpenAmount(qt) IN
  /\ qt.status = "OPENED"
  /\ open >= n
  /\ open > n => ((open - n) * qt.locked) \div open >= MinQuoteValue
  /\ UpdateOnly(q, [qt EXCEPT !.status = "CLOSE_PENDING", !.closePrice = p,
                              !.quantityToClose = n, !.orderType = orderType,
                              !.deadline = now + lifetime, !.modified = now])

RequestToCancelCloseRequest(q) ==
  LET qt == quotes[q] IN
  /\ qt.status = "CLOSE_PENDING"
  /\ \/ ExpireClose(q)
     \/ /\ now <= qt.deadline
        /\ UpdateOnly(q, [qt EXCEPT !.status = "CANCEL_CLOSE_PENDING", !.modified = now])

AcceptCancelCloseRequest(q) ==
  /\ quotes[q].status = "CANCEL_CLOSE_PENDING"
  /\ UpdateOnly(q, Reopened(quotes[q]))

ForceCancelCloseRequest(q) ==
  /\ quotes[q].status = "CANCEL_CLOSE_PENDING"
  /\ now > quotes[q].modified + ForceCancelCloseCooldown
  /\ UpdateOnly(q, Reopened(quotes[q]))

\* The margin the position keeps when n of its open units are closed.
Kept(qt, n) == qt.locked - Portion(qt.locked, n, OpenAmount(qt))

\* closeQuote's effect on the quote it is given.
Closed(qt, n) ==
  LET left == [qt EXCEPT !.locked = Kept(qt, n), !.closedAmount = @ + n,
                         !.quantityToClose = @ - n]
  IN  IF left.closedAmount = left.quantity
      THEN [left EXCEPT !.status = "CLOSED", !.closePrice = 0, !.modified = now]
      ELSE IF left.status = "CANCEL_CLOSE_PENDING" \/ left.quantityToClose = 0
           THEN Reopened(left)
           ELSE left

\* The loser of the closed part, and partyA for the fee, can pay.
Mutant_Covered_NoFee(a, b, pnl, fee) ==
  /\ partyBAllocatedBalances[b][PartyBAllocationKey(b, a)] >= pnl
  /\ allocatedBalances[a] + pnl >= 0

Covered(a, b, pnl, fee) ==
  /\ partyBAllocatedBalances[b][PartyBAllocationKey(b, a)] >= pnl
  /\ allocatedBalances[a] + pnl >= fee

\* closeQuote's effect on everything else, for n units of qt at price p.
CloseQuote(q, qt, n, p) ==
  LET a == qt.partyA
      b == qt.partyB
      k == PartyBAllocationKey(b, a)
      fee == (n * p * CloseFeeRate) \div FeeScale
      pnl == Pnl(qt, n, p)
      freed == Portion(qt.locked, n, OpenAmount(qt)) IN
  /\ freed > 0
  /\ lockedBalances[a] >= qt.locked /\ Covers(partyBLockedBalances, b, a, qt.locked)
  /\ lockedBalances' = [lockedBalances EXCEPT ![a] = @ - freed]
  /\ partyBLockedBalances' = Sub(partyBLockedBalances, b, a, freed)
  /\ OpenAmount(qt) = qt.quantityToClose => Kept(qt, n) = 0 \/ Kept(qt, n) >= MinQuoteValue
  /\ Covered(a, b, pnl, fee)
  /\ partyBAllocatedBalances' = [partyBAllocatedBalances EXCEPT ![b][k] = @ - pnl]
  /\ allocatedBalances' = [allocatedBalances EXCEPT ![a] = @ + pnl - fee]
  /\ feeCollectorBalance' = feeCollectorBalance + fee
  /\ qt.quantityToClose >= n
  /\ UNCHANGED partyBPendingQuotes
  /\ IF qt.closedAmount + n = qt.quantity
     THEN /\ partyAOpenPositions' = [partyAOpenPositions EXCEPT ![a] = @ \ {q}]
          /\ partyBOpenPositions' = [partyBOpenPositions EXCEPT ![b][a] = @ \ {q}]
          /\ partyBPositionsCount[b] > 0
          /\ partyBPositionsCount' = [partyBPositionsCount EXCEPT ![b] = @ - 1]
          /\ RemoveConnectionIfNoPositions(a, b)
     ELSE UNCHANGED <<partyAOpenPositions, partyBOpenPositions, partyBPositionsCount,
                      connectedPartyBs>>
  /\ UNCHANGED <<lastId, partyAPendingQuotes, pendingLockedBalances,
                 partyBPendingLockedBalances, partyAReservedOpenFees, world>>

FillCloseRequest(q, n, p) ==
  LET qt == quotes[q] IN
  /\ qt.status \in ClosingStatus
  /\ now <= qt.deadline
  /\ ClosePriceOk(qt, p)
  /\ IF qt.orderType = "LIMIT" THEN n <= qt.quantityToClose ELSE n = qt.quantityToClose
  /\ CloseQuote(q, qt, n, p)
  /\ quotes' = [quotes EXCEPT ![q] = Closed(qt, n)]

\* fillCloseRequestToLiquidation lets the oracle's PnL choose how much of a
\* LIMIT request is filled, and refuses to leave a position below the minimum.
FillCloseRequestToLiquidation(q, n, p) ==
  LET qt == quotes[q] IN
  /\ qt.status \in ClosingStatus /\ qt.orderType = "LIMIT"
  /\ n \in 1..qt.quantityToClose
  /\ n < qt.quantityToClose => Kept(qt, n) = 0 \/ Kept(qt, n) >= MinQuoteValue
  /\ FillCloseRequest(q, n, p)

EmergencyClosePosition(q, p) ==
  LET qt == quotes[q]
      all == [qt EXCEPT !.quantityToClose = OpenAmount(qt), !.closePrice = p] IN
  /\ emergencyMode \/ ~symbolValid
  /\ qt.status \in {"OPENED", "CLOSE_PENDING"}
  /\ CloseQuote(q, all, OpenAmount(qt), p)
  /\ quotes' = [quotes EXCEPT ![q] = Closed(all, OpenAmount(qt))]

Mutant_RestoredQuantity_AsAsked(left, asked) == asked
RestoredQuantity(left, asked) == IF left >= asked THEN asked ELSE left

\* partyB deleverages n units at p: a request that was pending is set aside,
\* and put back for what is still open.
AdlClose(q, n, p) ==
  LET qt == quotes[q]
      asked == [qt EXCEPT !.status = "CLOSE_PENDING", !.quantityToClose = n,
                          !.closePrice = p, !.modified = now]
      done == Closed(asked, n)
      left == OpenAmount(done)
      restored == [done EXCEPT !.status = qt.status, !.closePrice = qt.closePrice,
                     !.quantityToClose = RestoredQuantity(left, qt.quantityToClose)] IN
  /\ qt.status \in OpenStatus
  /\ n \in 1..OpenAmount(qt)
  /\ CloseQuote(q, asked, n, p)
  /\ quotes' = [quotes EXCEPT ![q] =
                  IF qt.status \in ClosingStatus /\ left > 0 THEN restored ELSE done]

----------------------------------------------------------------------------
(* The environment.                                                        *)

Tick ==
  /\ now < MaxTime
  /\ now' = now + 1
  /\ UNCHANGED <<quotes, lastId, lists, pools, funds, emergencyMode, symbolValid>>

SetEmergencyMode ==
  /\ "emergencyMode" \in Switches
  /\ emergencyMode' = ~emergencyMode
  /\ UNCHANGED <<quotes, lastId, lists, pools, funds, symbolValid, now>>

SetSymbolValidationState ==
  /\ "symbolValid" \in Switches
  /\ symbolValid' = ~symbolValid
  /\ UNCHANGED <<quotes, lastId, lists, pools, funds, emergencyMode, now>>

Init ==
  /\ quotes = [q \in QuoteIds |-> NoQuote]
  /\ lastId = 0
  /\ partyAPendingQuotes = [a \in PartyA |-> {}]
  /\ partyBPendingQuotes = [b \in PartyB |-> [a \in PartyA |-> {}]]
  /\ partyAOpenPositions = [a \in PartyA |-> {}]
  /\ partyBOpenPositions = [b \in PartyB |-> [a \in PartyA |-> {}]]
  /\ partyBPositionsCount = [b \in PartyB |-> 0]
  /\ connectedPartyBs = [a \in PartyA |-> {}]
  /\ pendingLockedBalances = [a \in PartyA |-> 0]
  /\ lockedBalances = [a \in PartyA |-> 0]
  /\ partyBPendingLockedBalances = [b \in PartyB |-> [k \in BucketOf |-> 0]]
  /\ partyBLockedBalances = [b \in PartyB |-> [k \in BucketOf |-> 0]]
  /\ partyAReservedOpenFees = [a \in PartyA |-> 0]
  /\ allocatedBalances = [a \in PartyA |-> InitialAllocation]
  /\ partyBAllocatedBalances =
       [b \in PartyB |-> [k \in BucketOf |->
          IF (b \in CrossPartyB) = (k = Zero) THEN InitialAllocation ELSE 0]]
  /\ feeCollectorBalance = 0
  /\ emergencyMode = FALSE /\ symbolValid = TRUE
  /\ now = 0

PartyAStep(q) ==
  \/ RequestToCancelQuote(q)
  \/ ForceCancelQuote(q)
  \/ \E n \in 0..quotes[q].quantity, p \in Prices, t \in CloseOrderTypes, l \in Lifetimes :
       RequestToClosePosition(q, n, p, t, l)
  \/ RequestToCancelCloseRequest(q)
  \/ ForceCancelCloseRequest(q)

PartyBStep(q) ==
  \/ UnlockQuote(q)
  \/ AcceptCancelRequest(q)
  \/ \E p \in Prices : OpenWhole(q, p)
  \/ \E n \in 1..quotes[q].quantity, p \in Prices : OpenPart(q, n, p)
  \/ AcceptCancelCloseRequest(q)
  \/ \E n \in 0..quotes[q].quantity, p \in Prices : FillCloseRequest(q, n, p)
  \/ \E n \in 1..quotes[q].quantity, p \in Prices : FillCloseRequestToLiquidation(q, n, p)
  \/ \E p \in Prices : EmergencyClosePosition(q, p)
  \/ \E n \in 1..quotes[q].quantity, p \in Prices : AdlClose(q, n, p)

Next ==
  \/ \E o \in Offers : SendQuote(o)
  \/ \E o \in Offers, b \in PartyB, p \in Prices : InstantOpen(o, b, p)
  \/ \E q \in QuoteIds, b \in PartyB : LockQuote(b, q)
  \/ \E q \in QuoteIds : PartyAStep(q) \/ PartyBStep(q) \/ ExpireQuote(q)
  \/ SetEmergencyMode \/ SetSymbolValidationState
  \/ Tick

Spec == Init /\ [][Next]_vars

----------------------------------------------------------------------------
(* Properties.                                                             *)

TypeOK ==
  /\ quotes \in [QuoteIds -> QuoteType]
  /\ lastId \in 0..MaxQuotes
  /\ partyAPendingQuotes \in [PartyA -> SUBSET QuoteIds]
  /\ partyBPendingQuotes \in [PartyB -> [PartyA -> SUBSET QuoteIds]]
  /\ partyAOpenPositions \in [PartyA -> SUBSET QuoteIds]
  /\ partyBOpenPositions \in [PartyB -> [PartyA -> SUBSET QuoteIds]]
  /\ partyBPositionsCount \in [PartyB -> Nat]
  /\ connectedPartyBs \in [PartyA -> SUBSET PartyB]
  /\ pendingLockedBalances \in [PartyA -> Nat]
  /\ lockedBalances \in [PartyA -> Nat]
  /\ partyBPendingLockedBalances \in [PartyB -> [BucketOf -> Nat]]
  /\ partyBLockedBalances \in [PartyB -> [BucketOf -> Nat]]
  /\ partyAReservedOpenFees \in [PartyA -> Nat]
  /\ allocatedBalances \in [PartyA -> Nat]
  /\ partyBAllocatedBalances \in [PartyB -> [BucketOf -> Nat]]
  /\ feeCollectorBalance \in Nat
  /\ emergencyMode \in BOOLEAN /\ symbolValid \in BOOLEAN
  /\ now \in 0..MaxTime

PendingOf(a)     == {q \in QuoteIds : quotes[q].partyA = a /\ quotes[q].status \in PendingStatus}
OpenOf(a)        == {q \in QuoteIds : quotes[q].partyA = a /\ quotes[q].status \in OpenStatus}
HeldBy(b, a)     == {q \in QuoteIds : quotes[q].partyA = a /\ quotes[q].partyB = b
                                        /\ quotes[q].status \in HeldStatus}
PositionsOf(b, a) == {q \in QuoteIds : quotes[q].partyA = a /\ quotes[q].partyB = b
                                         /\ quotes[q].status \in OpenStatus}

\* Every handler moves a quote between lists by hand.  Whatever the order of
\* calls, the lists of both parties hold exactly the quotes whose status says so,
\* and the address(0) counter counts all of a partyB's positions.
ListsMatchStatus ==
  /\ \A a \in PartyA :
       /\ partyAPendingQuotes[a] = PendingOf(a)
       /\ partyAOpenPositions[a] = OpenOf(a)
  /\ \A b \in PartyB, a \in PartyA :
       /\ partyBPendingQuotes[b][a] = HeldBy(b, a)
       /\ partyBOpenPositions[b][a] = PositionsOf(b, a)
  /\ \A b \in PartyB :
       partyBPositionsCount[b] =
         Cardinality({q \in QuoteIds : quotes[q].partyB = b /\ quotes[q].status \in OpenStatus})

\* The margin the quotes of S carry, and the opening fees due on them.
Margin(S) == Total(S, [q \in S |-> quotes[q].locked])
Fees(S)   == Total(S, [q \in S |-> OpenTradingFee(quotes[q])])

\* The running totals that solvency checks read are the sums of the margins of
\* the quotes they stand for, in both of partyB's buckets, after any sequence of
\* partial fills, rescalings and proportional closes with their roundings.
PoolsMatchQuotes ==
  /\ \A a \in PartyA :
       /\ pendingLockedBalances[a] = Margin(PendingOf(a))
       /\ lockedBalances[a] = Margin(OpenOf(a))
  /\ \A b \in PartyB :
       /\ \A a \in PartyA :
            /\ partyBPendingLockedBalances[b][a] = Margin(HeldBy(b, a))
            /\ partyBLockedBalances[b][a] = Margin(PositionsOf(b, a))
       /\ partyBPendingLockedBalances[b][Zero] = Margin(UNION {HeldBy(b, a) : a \in PartyA})
       /\ partyBLockedBalances[b][Zero] = Margin(UNION {PositionsOf(b, a) : a \in PartyA})

\* The reserve that liquidation adds back to partyA's balance is exactly the
\* opening fees of the quotes still pending, whichever way each one leaves.
FeesReserved == \A a \in PartyA : partyAReservedOpenFees[a] = Fees(PendingOf(a))

\* What was allocated before the first quote, to partyAs, cross partyBs and pairs.
Deposited ==
  InitialAllocation *
    (Cardinality(PartyA) + Cardinality(CrossPartyB)
      + Cardinality((PartyB \ CrossPartyB) \X PartyA))

\* What the accounts of all parties, and the fee collector, may claim.
Claims ==
  Total(PartyA, [a \in PartyA |-> allocatedBalances[a] + partyAReservedOpenFees[a]])
  + Total(PartyB \X BucketOf, [x \in PartyB \X BucketOf |-> partyBAllocatedBalances[x[1]][x[2]]])
  + feeCollectorBalance

\* The quotes that are the rest of a partial fill.
Rests == {q \in QuoteIds : quotes[q].parent # 0}

\* Refunds, fees and profits move collateral without creating any: the claims of
\* all accounts never exceed what was deposited, and fall short of it by at most
\* one unit of rounded-off fee for every partial fill.
ClaimsBacked == Claims \in (Deposited - Cardinality(Rests))..Deposited

\* A partyA is connected to every partyB it has a position with, and to no partyB
\* that neither has a position nor holds one of its quotes: a connection left
\* behind would restrict the symbols partyA may trade for good.
ConnectionsMatch ==
  \A a \in PartyA, b \in PartyB :
    /\ PositionsOf(b, a) # {} => b \in connectedPartyBs[a]
    /\ b \in connectedPartyBs[a] => PositionsOf(b, a) # {} \/ HeldBy(b, a) # {}

\* The limits that keep liquidation loops short are checked only by sendQuote and
\* openPosition; partial fills, unlocks and template opens must not exceed them.
ListsBounded ==
  \A a \in PartyA :
    /\ Cardinality(partyAPendingQuotes[a]) <= PendingQuotesValidLength
    /\ Cardinality(connectedPartyBs[a]) <= MaxPartyAConnectionLimit

\* A close request never asks for more than is open, also after a deleverage
\* behind its back put it on again, and an open position without a request
\* carries no trace of one.
RequestWithinOpen ==
  \A q \in QuoteIds :
    LET qt == quotes[q] IN
    /\ qt.status \in ClosingStatus => qt.quantityToClose <= OpenAmount(qt)
    /\ qt.status \in OpenStatus => OpenAmount(qt) > 0
    /\ qt.status = "OPENED" => qt.quantityToClose = 0 /\ qt.closePrice = 0

\* Once its deadline has passed, nothing - no pool too small for its checked
\* subtraction, no list the quote is missing from - can keep anybody from expiring
\* a pending quote or a close request.
ExpiryAlwaysPossible ==
  \A q \in QuoteIds :
    /\ quotes[q].status \in PendingStatus \cup ClosingStatus
    /\ now > quotes[q].deadline
    => ENABLED ExpireQuote(q)

\* A partyB that never answers a cancel request cannot keep partyA's margin: the
\* request ends in a cancellation, a fill or an expiry (the clock must have room
\* for the cooldown).
CancelRequestEnds ==
  \A q \in QuoteIds :
    (quotes[q].status = "CANCEL_PENDING" /\ quotes[q].modified + ForceCancelCooldown < MaxTime)
      ~> (quotes[q].status # "CANCEL_PENDING")

\* A close request ends by its deadline too, even one being cancelled, whatever
\* deleverages partyB slips in between.
CloseRequestEnds ==
  \A q \in QuoteIds :
    (quotes[q].status \in ClosingStatus /\ quotes[q].deadline < MaxTime)
      ~> (quotes[q].status \notin ClosingStatus)

\* The abstract life of a quote that the handlers implement.
PhaseOf(qt) ==
  CASE qt.status = "NONE"               -> "unused"
    [] qt.status = "PENDING"            -> "offered"
    [] qt.status \in HeldStatus         -> "held"
    [] qt.status \in OpenStatus         -> "live"
    [] OTHER                            -> "over"

Life == INSTANCE QuoteLifecycle WITH
  Id <- QuoteIds, Holder <- PartyB, Nobody <- Zero,
  phase  <- [q \in QuoteIds |-> PhaseOf(quotes[q])],
  holder <- [q \in QuoteIds |-> quotes[q].partyB]

\* Every handler's effect on the quotes is one step of the abstract life, or none.
LifecycleKept == Life!LSpec

=============================================================================
