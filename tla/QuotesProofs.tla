---------------------------- MODULE QuotesProofs ----------------------------
(***************************************************************************)
(* Machine-checked facts about the trading core, for every value of the    *)
(* constants: first types, quotes and their life, then what the handlers   *)
(* keep beside the quotes - lists, connections, pools, reserves, claims.   *)
(***************************************************************************)
EXTENDS Quotes, SumsProofs

LEMMA MulNat == ASSUME NEW x \in Nat, NEW y \in Nat PROVE x * y \in Nat
OBVIOUS

LEMMA DivNat == ASSUME NEW x \in Nat, NEW y \in Nat \ {0} PROVE x \div y \in Nat
OBVIOUS

\* A quotient of products of naturals is a natural number.
LEMMA RatioNat ==
  ASSUME NEW x \in Nat, NEW y \in Nat, NEW z \in Nat \ {0}
  PROVE  (x * y) \div z \in Nat
<1>. DEFINE p == x * y
<1>1. p \in Nat
  BY MulNat
<1>2. p \div z \in Nat
  <2>. HIDE DEF p
  <2>. QED  BY <1>1, DivNat
<1>. QED  BY <1>2

\* A fraction of a margin is no more than the margin when it is a proper one.
LEMMA PortionWithin ==
  ASSUME NEW margin \in Nat, NEW n \in Nat, NEW m \in Nat \ {0}, n <= m
  PROVE  Portion(margin, n, m) \in Nat /\ Portion(margin, n, m) <= margin
<1>1. margin * n <= margin * m
  OBVIOUS
<1>. DEFINE x == margin * n
<1>2. x \in Nat /\ x <= margin * m
  BY <1>1
<1>3. x \div m <= margin
  <2>. HIDE DEF x
  <2>. QED  BY <1>2
<1>. QED  BY <1>3, RatioNat DEF Portion

LEMMA FeeNat ==
  ASSUME NEW qt \in QuoteType, qt.closedAmount <= qt.quantity
  PROVE  OpenTradingFee(qt) \in Nat
<1>. DEFINE value == OpenAmount(qt) * qt.feePrice
<1>1. value \in Nat
  <2>1. OpenAmount(qt) \in Nat /\ qt.feePrice \in Nat
    BY DEF OpenAmount, QuoteType
  <2>. QED  BY <2>1, MulNat
<1>2. (value * OpenFeeRate) \div FeeScale \in Nat
  <2>. HIDE DEF value
  <2>. QED  BY <1>1, RatioNat, NumbersAssumption
<1>. QED  BY <1>2 DEF OpenTradingFee

----------------------------------------------------------------------------
(* The inductive invariant: types, and what a status says of its record.   *)

GoodQuote(qt) ==
  /\ qt \in QuoteType
  /\ qt.status # "NONE" => qt.partyA \in PartyA
  /\ qt.status \in HeldStatus \cup OpenStatus => qt.partyB \in PartyB
  /\ qt.status \in PendingStatus =>
       qt.closedAmount = 0 /\ qt.quantityToClose = 0 /\ qt.closePrice = 0
  /\ qt.closedAmount <= qt.quantity
  /\ qt.status \in ClosingStatus => qt.quantityToClose <= OpenAmount(qt)
  /\ qt.status \in OpenStatus => OpenAmount(qt) > 0
  /\ qt.status = "OPENED" => qt.quantityToClose = 0 /\ qt.closePrice = 0

TypeInv == TypeOK /\ \A q \in QuoteIds : GoodQuote(quotes[q])

USE DEF PendingStatus, HeldStatus, ClosingStatus, OpenStatus, FinalStatus, QuoteStatus

LEMMA QuoteOfGood ==
  ASSUME NEW o \in Offers, now \in Nat
  PROVE  GoodQuote(QuoteOf(o)) /\ QuoteOf(o).partyA = o.partyA /\ o.partyA \in PartyA
<1>1. o \in OfferType
  BY PartiesAssumption
<1>2. QuoteOf(o) \in QuoteType
  <2>1. /\ o.partyA \in PartyA /\ o.whiteList \in SUBSET PartyB
        /\ o.positionType \in {"LONG", "SHORT"} /\ o.orderType \in {"LIMIT", "MARKET"}
        /\ o.price \in Nat \ {0} /\ o.feePrice \in Nat /\ o.quantity \in Nat \ {0}
        /\ o.locked \in Nat /\ now + o.lifetime \in Nat
    BY <1>1 DEF OfferType
  <2>2. NoQuote \in QuoteType
    BY DEF NoQuote, QuoteType
  <2>3. "PENDING" \in QuoteStatus
    OBVIOUS
  <2>. QED
    BY <2>1, <2>2, <2>3 DEF QuoteOf, QuoteType
<1>3. /\ QuoteOf(o).status = "PENDING" /\ QuoteOf(o).partyA = o.partyA
      /\ QuoteOf(o).closedAmount = 0 /\ QuoteOf(o).quantityToClose = 0
      /\ QuoteOf(o).closePrice = 0
  BY DEF QuoteOf, NoQuote
<1>4. o.partyA \in PartyA
  BY <1>1 DEF OfferType
<1>5. QuoteOf(o).quantity \in Nat
  BY <1>2 DEF QuoteType
<1>. QED
  BY <1>2, <1>3, <1>4, <1>5 DEF GoodQuote

LEMMA ReopenedGood ==
  ASSUME NEW qt \in QuoteType, qt.partyA \in PartyA, qt.partyB \in PartyB,
         qt.closedAmount < qt.quantity, now \in Nat
  PROVE  GoodQuote(Reopened(qt)) /\ Reopened(qt).status = "OPENED"
<1>1. Reopened(qt) \in QuoteType
  BY DEF Reopened, QuoteType
<1>2. /\ Reopened(qt).status = "OPENED" /\ Reopened(qt).partyA = qt.partyA
      /\ Reopened(qt).partyB = qt.partyB /\ Reopened(qt).closedAmount = qt.closedAmount
      /\ Reopened(qt).quantity = qt.quantity /\ Reopened(qt).quantityToClose = 0
      /\ Reopened(qt).closePrice = 0
  BY DEF Reopened, QuoteType
<1>3. qt.closedAmount \in Nat /\ qt.quantity \in Nat
  BY DEF QuoteType
<1>. QED
  BY <1>1, <1>2, <1>3 DEF GoodQuote, OpenAmount

LEMMA OpenedGood ==
  ASSUME NEW qt, GoodQuote(qt), qt.status \in HeldStatus, now \in Nat,
         NEW n \in 1..qt.quantity, NEW p \in Nat, NEW margin \in Nat
  PROVE  /\ GoodQuote(Opened(qt, n, p, margin))
         /\ Opened(qt, n, p, margin).status = "OPENED"
         /\ Opened(qt, n, p, margin).partyA = qt.partyA
         /\ Opened(qt, n, p, margin).partyB = qt.partyB
<1>1. qt \in QuoteType
  BY DEF GoodQuote
<1>2. Portion(margin, p, qt.price) \in Nat
  BY <1>1, RatioNat DEF Portion, QuoteType
<1>3. Opened(qt, n, p, margin) \in QuoteType
  <2>1. n \in Nat \ {0} /\ "OPENED" \in QuoteStatus
    BY <1>1 DEF QuoteType
  <2>. QED
    BY <1>1, <1>2, <2>1 DEF Opened, QuoteType
<1>. DEFINE pos == Opened(qt, n, p, margin)
<1>4. /\ pos.status = "OPENED" /\ pos.partyA = qt.partyA /\ pos.partyB = qt.partyB
      /\ pos.quantity = n /\ pos.closedAmount = qt.closedAmount
      /\ pos.quantityToClose = qt.quantityToClose /\ pos.closePrice = qt.closePrice
  BY <1>1 DEF Opened, QuoteType
<1>5. /\ qt.partyA \in PartyA /\ qt.partyB \in PartyB /\ qt.closedAmount = 0
      /\ qt.quantityToClose = 0 /\ qt.closePrice = 0
  BY DEF GoodQuote
<1>. QED
  BY <1>3, <1>4, <1>5 DEF GoodQuote, OpenAmount

LEMMA RestGood ==
  ASSUME NEW q \in QuoteIds, NEW qt, GoodQuote(qt), qt.status \in HeldStatus, now \in Nat,
         NEW n \in 1..qt.quantity, n < qt.quantity
  PROVE  /\ GoodQuote(Rest(q, qt, n))
         /\ Rest(q, qt, n).status \in {"PENDING", "CANCELED"}
         /\ Rest(q, qt, n).status = "CANCELED" <=> qt.status = "CANCEL_PENDING"
         /\ Rest(q, qt, n).partyA = qt.partyA
         /\ Rest(q, qt, n).partyB = Zero
<1>1. qt \in QuoteType
  BY DEF GoodQuote
<1>2. Portion(qt.locked, n, qt.quantity) \in Nat /\ Portion(qt.locked, n, qt.quantity) <= qt.locked
  BY <1>1, PortionWithin DEF QuoteType
<1>3. Rest(q, qt, n) \in QuoteType
  <2>1. qt.locked - Portion(qt.locked, n, qt.quantity) \in Nat
    BY <1>1, <1>2 DEF QuoteType
  <2>2. qt.quantity - n \in Nat \ {0} /\ q \in Nat
    BY <1>1 DEF QuoteType, QuoteIds
  <2>. QED
    BY <1>1, <2>1, <2>2 DEF Rest, QuoteType
<1>. DEFINE rest == Rest(q, qt, n)
<1>4. /\ rest.status = IF qt.status = "CANCEL_PENDING" THEN "CANCELED" ELSE "PENDING"
      /\ rest.partyA = qt.partyA /\ rest.partyB = Zero /\ rest.closedAmount = qt.closedAmount
      /\ rest.quantityToClose = qt.quantityToClose /\ rest.closePrice = qt.closePrice
      /\ rest.quantity = qt.quantity - n
  BY <1>1 DEF Rest, QuoteType
<1>5. /\ qt.partyA \in PartyA /\ qt.closedAmount = 0
      /\ qt.quantityToClose = 0 /\ qt.closePrice = 0 /\ qt.quantity \in Nat
  BY <1>1 DEF GoodQuote, QuoteType
<1>. QED
  BY <1>3, <1>4, <1>5 DEF GoodQuote, OpenAmount

\* What closeQuote leaves of a position, given a request for at least n units.
LEMMA ClosedGood ==
  ASSUME NEW qt \in QuoteType, qt.partyA \in PartyA, qt.partyB \in PartyB, now \in Nat,
         qt.status \in OpenStatus, OpenAmount(qt) > 0,
         NEW n \in Nat, n <= qt.quantityToClose, qt.quantityToClose <= OpenAmount(qt),
         qt.status = "OPENED" => n = OpenAmount(qt)
  PROVE  /\ GoodQuote(Closed(qt, n))
         /\ Closed(qt, n).status \in OpenStatus \cup {"CLOSED"}
         /\ Closed(qt, n).status = "CLOSED" <=> qt.closedAmount + n = qt.quantity
         /\ Closed(qt, n).partyA = qt.partyA /\ Closed(qt, n).partyB = qt.partyB
         /\ Closed(qt, n).quantity = qt.quantity
         /\ Closed(qt, n).closedAmount = qt.closedAmount + n
<1>. DEFINE left == [qt EXCEPT !.locked = Kept(qt, n), !.closedAmount = @ + n,
                               !.quantityToClose = @ - n]
<1>1. OpenAmount(qt) \in Nat \ {0} /\ n <= OpenAmount(qt)
  BY DEF OpenAmount, QuoteType
<1>2. Kept(qt, n) \in Nat
  <2>1. qt.locked \in Nat
    BY DEF QuoteType
  <2>2. Portion(qt.locked, n, OpenAmount(qt)) \in Nat
        /\ Portion(qt.locked, n, OpenAmount(qt)) <= qt.locked
    BY <1>1, <2>1, PortionWithin
  <2>. QED  BY <2>1, <2>2 DEF Kept
<1>3. left \in QuoteType
  <2>1. qt.closedAmount + n \in Nat /\ qt.quantityToClose - n \in Nat
    BY DEF QuoteType
  <2>. QED
    BY <1>2, <2>1 DEF QuoteType
<1>4. /\ left.partyA = qt.partyA /\ left.partyB = qt.partyB /\ left.status = qt.status
      /\ left.quantity = qt.quantity /\ left.closedAmount = qt.closedAmount + n
      /\ left.quantityToClose = qt.quantityToClose - n
      /\ left.closedAmount <= left.quantity
      /\ left.quantityToClose <= OpenAmount(left)
  BY <1>1, <1>2 DEF QuoteType, OpenAmount
<1>5. Closed(qt, n) =
        IF left.closedAmount = left.quantity
        THEN [left EXCEPT !.status = "CLOSED", !.closePrice = 0, !.modified = now]
        ELSE IF left.status = "CANCEL_CLOSE_PENDING" \/ left.quantityToClose = 0
             THEN Reopened(left) ELSE left
  BY DEF Closed
<1>. HIDE DEF left
<1>6. CASE left.closedAmount = left.quantity
  <2>. DEFINE done == [left EXCEPT !.status = "CLOSED", !.closePrice = 0, !.modified = now]
  <2>1. Closed(qt, n) = done
    BY <1>5, <1>6
  <2>2. done \in QuoteType
    BY <1>3 DEF QuoteType
  <2>3. /\ done.status = "CLOSED" /\ done.partyA = left.partyA /\ done.partyB = left.partyB
        /\ done.quantity = left.quantity /\ done.closedAmount = left.closedAmount
    BY <1>3 DEF QuoteType
  <2>4. qt.quantity \in Nat
    BY DEF QuoteType
  <2>. QED
    BY <1>4, <1>6, <2>1, <2>2, <2>3, <2>4 DEF GoodQuote
<1>7. CASE left.closedAmount # left.quantity /\ (left.status = "CANCEL_CLOSE_PENDING" \/ left.quantityToClose = 0)
  <2>1. Closed(qt, n) = Reopened(left)
    BY <1>5, <1>7
  <2>2. left.closedAmount < left.quantity
    BY <1>3, <1>4, <1>7 DEF QuoteType
  <2>3. GoodQuote(Reopened(left))
    BY <1>3, <1>4, <2>2, ReopenedGood
  <2>4. /\ Reopened(left).status = "OPENED" /\ Reopened(left).partyA = left.partyA
        /\ Reopened(left).partyB = left.partyB /\ Reopened(left).quantity = left.quantity
        /\ Reopened(left).closedAmount = left.closedAmount
    BY <1>3 DEF Reopened, QuoteType
  <2>. QED
    BY <1>4, <1>7, <2>1, <2>3, <2>4
<1>8. CASE left.closedAmount # left.quantity /\ ~(left.status = "CANCEL_CLOSE_PENDING" \/ left.quantityToClose = 0)
  <2>1. Closed(qt, n) = left
    BY <1>5, <1>8
  <2>2. left.status = "CLOSE_PENDING"
    BY <1>1, <1>3, <1>4, <1>8 DEF QuoteType, OpenAmount
  <2>. QED
    BY <1>3, <1>4, <1>8, <2>1, <2>2 DEF GoodQuote, QuoteType, OpenAmount
<1>. QED  BY <1>6, <1>7, <1>8

----------------------------------------------------------------------------
(* Type correctness.                                                       *)

Buckets == [PartyB -> [BucketOf -> Nat]]

LEMMA AddType ==
  ASSUME NEW f \in Buckets, NEW b \in PartyB, NEW a \in PartyA, NEW n \in Nat
  PROVE  Add(f, b, a, n) \in Buckets
<1>. DEFINE g == [k \in BucketOf |-> IF k \in {a, Zero} THEN f[b][k] + n ELSE f[b][k]]
<1>1. \A k \in BucketOf : f[b][k] \in Nat
  BY DEF Buckets
<1>2. g \in [BucketOf -> Nat]
  BY <1>1
<1>3. Add(f, b, a, n) = [f EXCEPT ![b] = g]
  BY DEF Add, Buckets
<1>. QED
  BY <1>2, <1>3 DEF Buckets

LEMMA SubType ==
  ASSUME NEW f \in Buckets, NEW b \in PartyB, NEW a \in PartyA, NEW n \in Nat, Covers(f, b, a, n)
  PROVE  Sub(f, b, a, n) \in Buckets
<1>. DEFINE g == [k \in BucketOf |-> IF k \in {a, Zero} THEN f[b][k] - n ELSE f[b][k]]
<1>1. \A k \in BucketOf : f[b][k] \in Nat /\ (k \in {a, Zero} => f[b][k] >= n)
  BY DEF Buckets, Covers
<1>2. g \in [BucketOf -> Nat]
  BY <1>1
<1>3. Sub(f, b, a, n) = [f EXCEPT ![b] = g]
  BY DEF Sub, Buckets
<1>. QED
  BY <1>2, <1>3 DEF Buckets

\* What every handler may assume of the quote it is called with.
LEMMA QuoteFacts ==
  ASSUME TypeInv, NEW q \in QuoteIds
  PROVE  /\ GoodQuote(quotes[q]) /\ quotes[q] \in QuoteType
         /\ quotes[q].locked \in Nat /\ OpenTradingFee(quotes[q]) \in Nat
         /\ quotes[q].status # "NONE" => quotes[q].partyA \in PartyA
         /\ quotes[q].status \in HeldStatus \cup OpenStatus => quotes[q].partyB \in PartyB
         /\ now \in Nat
<1>1. GoodQuote(quotes[q]) /\ quotes[q] \in QuoteType /\ now \in Nat
  BY NumbersAssumption DEF TypeInv, TypeOK, GoodQuote
<1>2. quotes[q].closedAmount <= quotes[q].quantity /\ quotes[q].locked \in Nat
  BY <1>1 DEF GoodQuote, QuoteType
<1>. QED
  BY <1>1, <1>2, FeeNat DEF GoodQuote

LEMMA InitType == Init => TypeInv
<1>. SUFFICES ASSUME Init PROVE TypeInv
  OBVIOUS
<1>1. GoodQuote(NoQuote)
  <2>1. NoQuote \in QuoteType
    BY DEF NoQuote, QuoteType
  <2>. QED
    BY <2>1 DEF NoQuote, GoodQuote
<1>2. quotes \in [QuoteIds -> QuoteType] /\ \A q \in QuoteIds : GoodQuote(quotes[q])
  BY <1>1 DEF Init, GoodQuote
<1>3. partyBAllocatedBalances \in Buckets
  BY NumbersAssumption DEF Init, Buckets
<1>4. TypeOK
  <2>1. /\ partyBPendingLockedBalances \in Buckets /\ partyBLockedBalances \in Buckets
    BY DEF Init, Buckets
  <2>2. /\ partyBPendingQuotes \in [PartyB -> [PartyA -> SUBSET QuoteIds]]
        /\ partyBOpenPositions \in [PartyB -> [PartyA -> SUBSET QuoteIds]]
        /\ partyBPositionsCount \in [PartyB -> Nat]
    BY DEF Init
  <2>3. /\ partyAPendingQuotes \in [PartyA -> SUBSET QuoteIds]
        /\ partyAOpenPositions \in [PartyA -> SUBSET QuoteIds]
        /\ connectedPartyBs \in [PartyA -> SUBSET PartyB]
        /\ pendingLockedBalances \in [PartyA -> Nat] /\ lockedBalances \in [PartyA -> Nat]
        /\ partyAReservedOpenFees \in [PartyA -> Nat] /\ allocatedBalances \in [PartyA -> Nat]
    BY NumbersAssumption DEF Init
  <2>4. /\ lastId \in 0..MaxQuotes /\ feeCollectorBalance \in Nat /\ now \in 0..MaxTime
    BY NumbersAssumption DEF Init
  <2>5. emergencyMode \in BOOLEAN /\ symbolValid \in BOOLEAN
    BY Zenon DEF Init
  <2>. QED
    BY <1>2, <1>3, <2>1, <2>2, <2>3, <2>4, <2>5 DEF TypeOK, Buckets
<1>. QED
  BY <1>2, <1>4 DEF TypeInv

\* Replacing quotes by good quotes keeps all of them good.
LEMMA UpdateGood ==
  ASSUME TypeInv, NEW q \in QuoteIds, NEW qt, GoodQuote(qt), quotes' = [quotes EXCEPT ![q] = qt]
  PROVE  quotes' \in [QuoteIds -> QuoteType] /\ \A r \in QuoteIds : GoodQuote(quotes'[r])
BY DEF TypeInv, TypeOK, GoodQuote

\* A pending quote stays good when only its status, partyB and time change.
LEMMA StatusGood ==
  ASSUME NEW qt, GoodQuote(qt), qt.status \in PendingStatus, NEW t \in Nat,
         NEW st \in PendingStatus \cup {"CANCELED", "EXPIRED"}
  PROVE  /\ (st \in HeldStatus => qt.partyB \in PartyB) =>
              GoodQuote([qt EXCEPT !.status = st, !.modified = t])
         /\ \A b \in PartyB \cup {Zero} : (st \in HeldStatus => b \in PartyB) =>
              GoodQuote([qt EXCEPT !.status = st, !.partyB = b, !.modified = t])
<1>1. /\ qt \in QuoteType /\ st \in QuoteStatus
      /\ qt.partyA \in PartyA /\ qt.closedAmount = 0 /\ qt.quantityToClose = 0
      /\ qt.closePrice = 0 /\ qt.quantity \in Nat
  BY DEF GoodQuote, QuoteType
<1>2. ASSUME st \in HeldStatus => qt.partyB \in PartyB
      PROVE  GoodQuote([qt EXCEPT !.status = st, !.modified = t])
  <2>. DEFINE new == [qt EXCEPT !.status = st, !.modified = t]
  <2>1. new \in QuoteType
    BY <1>1 DEF QuoteType
  <2>2. /\ new.status = st /\ new.partyA = qt.partyA /\ new.partyB = qt.partyB
        /\ new.closedAmount = 0 /\ new.quantityToClose = 0 /\ new.closePrice = 0
        /\ new.quantity = qt.quantity
    BY <1>1 DEF QuoteType
  <2>. QED
    BY <1>1, <1>2, <2>1, <2>2 DEF GoodQuote
<1>3. ASSUME NEW b \in PartyB \cup {Zero}, st \in HeldStatus => b \in PartyB
      PROVE  GoodQuote([qt EXCEPT !.status = st, !.partyB = b, !.modified = t])
  <2>. DEFINE new == [qt EXCEPT !.status = st, !.partyB = b, !.modified = t]
  <2>1. new \in QuoteType
    BY <1>1 DEF QuoteType
  <2>2. /\ new.status = st /\ new.partyA = qt.partyA /\ new.partyB = b
        /\ new.closedAmount = 0 /\ new.quantityToClose = 0 /\ new.closePrice = 0
        /\ new.quantity = qt.quantity
    BY <1>1 DEF QuoteType
  <2>. QED
    BY <1>1, <1>3, <2>1, <2>2 DEF GoodQuote
<1>. QED
  BY <1>2, <1>3

LEMMA LetsGoType ==
  ASSUME TypeInv, NEW q \in QuoteIds, quotes[q].partyA \in PartyA, quotes[q].partyB \in PartyB,
         quotes[q].locked \in Nat, PartyBLetsGo(q)
  PROVE  /\ partyBPendingQuotes' \in [PartyB -> [PartyA -> SUBSET QuoteIds]]
         /\ partyAOpenPositions' \in [PartyA -> SUBSET QuoteIds]
         /\ partyBOpenPositions' \in [PartyB -> [PartyA -> SUBSET QuoteIds]]
         /\ partyBPendingLockedBalances' \in Buckets
         /\ connectedPartyBs' \in [PartyA -> SUBSET PartyB]
<1>. DEFINE a == quotes[q].partyA
            b == quotes[q].partyB
            n == quotes[q].locked
<1>1. partyBPendingLockedBalances' \in Buckets
  <2>1. partyBPendingLockedBalances \in Buckets
    BY DEF TypeInv, TypeOK, Buckets
  <2>2. /\ Covers(partyBPendingLockedBalances, b, a, n)
        /\ partyBPendingLockedBalances' = Sub(partyBPendingLockedBalances, b, a, n)
    BY DEF PartyBLetsGo
  <2>. QED
    BY <2>1, <2>2, SubType
<1>2. partyBPendingQuotes' \in [PartyB -> [PartyA -> SUBSET QuoteIds]]
  <2>1. partyBPendingQuotes' = [partyBPendingQuotes EXCEPT ![b][a] = @ \ {q}]
    BY DEF PartyBLetsGo
  <2>. QED
    BY <2>1 DEF TypeInv, TypeOK
<1>3. connectedPartyBs' \in [PartyA -> SUBSET PartyB]
  BY DEF PartyBLetsGo, RemoveConnectionIfNoPositions, TypeInv, TypeOK
<1>. QED
  BY <1>1, <1>2, <1>3 DEF PartyBLetsGo, TypeInv, TypeOK

LEMMA LeaveType ==
  ASSUME TypeInv, NEW q \in QuoteIds, quotes[q].status \in PendingStatus,
         NEW st \in {"CANCELED", "EXPIRED"}, Leave(q, st)
  PROVE  TypeInv'
<1>. DEFINE qt == quotes[q]
            a == qt.partyA
            b == qt.partyB
            fee == OpenTradingFee(qt)
<1>1. /\ GoodQuote(qt) /\ qt.locked \in Nat /\ fee \in Nat /\ a \in PartyA /\ now \in Nat
      /\ qt.status \in HeldStatus => b \in PartyB
  BY QuoteFacts
<1>2. quotes' = [quotes EXCEPT ![q] = [qt EXCEPT !.status = st, !.modified = now]]
  BY DEF Leave, TypeInv, TypeOK
<1>3. quotes' \in [QuoteIds -> QuoteType] /\ \A r \in QuoteIds : GoodQuote(quotes'[r])
  BY <1>1, <1>2, StatusGood, UpdateGood
<1>4. /\ pendingLockedBalances' \in [PartyA -> Nat]
      /\ partyAPendingQuotes' \in [PartyA -> SUBSET QuoteIds]
      /\ partyAReservedOpenFees' \in [PartyA -> Nat]
      /\ allocatedBalances' \in [PartyA -> Nat]
  BY <1>1 DEF Leave, TypeInv, TypeOK, Decrease
<1>5. /\ partyBPendingQuotes' \in [PartyB -> [PartyA -> SUBSET QuoteIds]]
      /\ partyAOpenPositions' \in [PartyA -> SUBSET QuoteIds]
      /\ partyBOpenPositions' \in [PartyB -> [PartyA -> SUBSET QuoteIds]]
      /\ partyBPendingLockedBalances' \in Buckets
      /\ connectedPartyBs' \in [PartyA -> SUBSET PartyB]
  <2>1. CASE qt.status \in HeldStatus
    <3>1. PartyBLetsGo(q) /\ b \in PartyB
      BY <1>1, <2>1 DEF Leave
    <3>. QED
      BY <1>1, <3>1, LetsGoType
  <2>2. CASE qt.status \notin HeldStatus
    BY <2>2 DEF Leave, TypeInv, TypeOK, Buckets
  <2>. QED  BY <2>1, <2>2
<1>6. UNCHANGED <<lastId, partyBPositionsCount, lockedBalances, partyBLockedBalances,
                  partyBAllocatedBalances, feeCollectorBalance, world>>
  BY DEF Leave
<1>. QED
  BY <1>3, <1>4, <1>5, <1>6 DEF TypeInv, TypeOK, Buckets, world

\* The handlers that replace one quote and nothing else.
LEMMA UpdateOnlyType ==
  ASSUME TypeInv, NEW q \in QuoteIds, NEW qt, GoodQuote(qt), UpdateOnly(q, qt)
  PROVE  TypeInv'
<1>1. quotes' \in [QuoteIds -> QuoteType] /\ \A r \in QuoteIds : GoodQuote(quotes'[r])
  BY UpdateGood DEF UpdateOnly
<1>. QED
  BY <1>1 DEF UpdateOnly, TypeInv, TypeOK, lists, pools, funds, world

LEMMA ExpireType ==
  ASSUME TypeInv, NEW q \in QuoteIds, ExpireQuote(q)
  PROVE  TypeInv'
<1>1. CASE ExpirePending(q)
  BY <1>1, LeaveType DEF ExpirePending
<1>2. CASE ExpireClose(q)
  <2>1. /\ quotes[q] \in QuoteType /\ quotes[q].partyA \in PartyA /\ quotes[q].partyB \in PartyB
        /\ quotes[q].closedAmount < quotes[q].quantity /\ now \in Nat
    BY <1>2, QuoteFacts DEF ExpireClose, GoodQuote, OpenAmount, QuoteType
  <2>. QED
    BY <1>2, <2>1, ReopenedGood, UpdateOnlyType DEF ExpireClose
<1>. QED  BY <1>1, <1>2 DEF ExpireQuote

LEMMA SendQuoteType ==
  ASSUME TypeInv, NEW o \in Offers, SendQuote(o)
  PROVE  TypeInv'
<1>. DEFINE a == o.partyA
            fee == OpenTradingFee(QuoteOf(o))
<1>1. /\ now \in Nat /\ lastId + 1 \in QuoteIds
  <2>1. now \in 0..MaxTime /\ lastId \in 0..MaxQuotes
    BY DEF TypeInv, TypeOK
  <2>2. lastId < MaxQuotes
    BY DEF SendQuote, MaySend
  <2>. QED  BY <2>1, <2>2, NumbersAssumption DEF QuoteIds
<1>2. GoodQuote(QuoteOf(o)) /\ a \in PartyA /\ QuoteOf(o) \in QuoteType /\ o.locked \in Nat
  BY <1>1, QuoteOfGood, PartiesAssumption DEF GoodQuote, OfferType
<1>3. fee \in Nat
  BY <1>2, FeeNat DEF GoodQuote
<1>4. quotes' \in [QuoteIds -> QuoteType] /\ \A r \in QuoteIds : GoodQuote(quotes'[r])
  BY <1>1, <1>2, UpdateGood DEF SendQuote
<1>5. /\ lastId' \in 0..MaxQuotes
      /\ partyAPendingQuotes' \in [PartyA -> SUBSET QuoteIds]
      /\ pendingLockedBalances' \in [PartyA -> Nat]
      /\ allocatedBalances' \in [PartyA -> Nat]
      /\ partyAReservedOpenFees' \in [PartyA -> Nat]
  <2>1. /\ allocatedBalances' = [allocatedBalances EXCEPT ![a] = @ - fee]
        /\ allocatedBalances[a] >= fee
        /\ partyAReservedOpenFees' = [partyAReservedOpenFees EXCEPT ![a] = @ + fee]
    BY DEF SendQuote, MaySend
  <2>2. /\ lastId' = lastId + 1
        /\ partyAPendingQuotes' = [partyAPendingQuotes EXCEPT ![a] = @ \cup {lastId + 1}]
        /\ pendingLockedBalances' = [pendingLockedBalances EXCEPT ![a] = @ + o.locked]
    BY DEF SendQuote
  <2>. HIDE DEF fee, a
  <2>3. allocatedBalances' \in [PartyA -> Nat] /\ partyAReservedOpenFees' \in [PartyA -> Nat]
    BY <1>2, <1>3, <2>1 DEF TypeInv, TypeOK
  <2>4. /\ partyAPendingQuotes' \in [PartyA -> SUBSET QuoteIds]
        /\ pendingLockedBalances' \in [PartyA -> Nat]
    BY <1>1, <1>2, <2>2 DEF TypeInv, TypeOK
  <2>5. lastId' \in 0..MaxQuotes
    BY <1>1, <2>2, NumbersAssumption DEF TypeInv, TypeOK, QuoteIds
  <2>. QED
    BY <2>3, <2>4, <2>5
<1>. QED
  BY <1>4, <1>5 DEF SendQuote, TypeInv, TypeOK, world

LEMMA LockQuoteType ==
  ASSUME TypeInv, NEW b \in PartyB, NEW q \in QuoteIds, LockQuote(b, q)
  PROVE  TypeInv'
<1>. DEFINE qt == quotes[q]
<1>1. /\ GoodQuote(qt) /\ qt.status = "PENDING" /\ qt.partyA \in PartyA /\ qt.locked \in Nat
      /\ now \in Nat
  BY QuoteFacts DEF LockQuote, MayLock
<1>2. quotes' = [quotes EXCEPT ![q] = [qt EXCEPT !.status = "LOCKED", !.partyB = b, !.modified = now]]
  BY DEF LockQuote, TypeInv, TypeOK
<1>3. quotes' \in [QuoteIds -> QuoteType] /\ \A r \in QuoteIds : GoodQuote(quotes'[r])
  BY <1>1, <1>2, StatusGood, UpdateGood
<1>4. partyBPendingLockedBalances' \in Buckets
  BY <1>1, AddType DEF LockQuote, TypeInv, TypeOK, Buckets
<1>5. partyBPendingQuotes' \in [PartyB -> [PartyA -> SUBSET QuoteIds]]
  BY <1>1 DEF LockQuote, TypeInv, TypeOK
<1>. QED
  BY <1>3, <1>4, <1>5 DEF LockQuote, TypeInv, TypeOK, Buckets, funds, world

LEMMA UnlockQuoteType ==
  ASSUME TypeInv, NEW q \in QuoteIds, UnlockQuote(q)
  PROVE  TypeInv'
<1>. DEFINE qt == quotes[q]
<1>1. /\ GoodQuote(qt) /\ qt.status = "LOCKED" /\ qt.partyA \in PartyA /\ qt.partyB \in PartyB
      /\ qt.locked \in Nat /\ now \in Nat
  BY QuoteFacts DEF UnlockQuote
<1>2. CASE ExpirePending(q)
  BY <1>2, ExpireType DEF ExpireQuote
<1>3. CASE ~ExpirePending(q)
  <2>1. PartyBLetsGo(q)
    BY <1>3 DEF UnlockQuote
  <2>2. quotes' = [quotes EXCEPT ![q] = [qt EXCEPT !.status = "PENDING", !.partyB = Zero,
                                                   !.modified = now]]
    BY <1>3 DEF UnlockQuote, TypeInv, TypeOK
  <2>3. quotes' \in [QuoteIds -> QuoteType] /\ \A r \in QuoteIds : GoodQuote(quotes'[r])
    BY <1>1, <2>2, StatusGood, UpdateGood
  <2>4. UNCHANGED <<lastId, partyAPendingQuotes, partyBPositionsCount, pendingLockedBalances,
                    lockedBalances, partyBLockedBalances, funds, world>>
    BY <1>3 DEF UnlockQuote
  <2>. QED
    BY <1>1, <2>1, <2>3, <2>4, LetsGoType DEF TypeInv, TypeOK, Buckets, funds, world
<1>. QED  BY <1>2, <1>3

LEMMA RequestToCancelQuoteType ==
  ASSUME TypeInv, NEW q \in QuoteIds, RequestToCancelQuote(q)
  PROVE  TypeInv'
<1>. DEFINE qt == quotes[q]
            asked == [qt EXCEPT !.status = "CANCEL_PENDING", !.modified = now]
<1>1. CASE ExpirePending(q)
  BY <1>1, ExpireType DEF ExpireQuote
<1>2. CASE qt.status = "PENDING" /\ Leave(q, "CANCELED")
  BY <1>2, LeaveType
<1>3. CASE qt.status = "LOCKED" /\ UpdateOnly(q, asked)
  <2>1. GoodQuote(qt) /\ qt.partyB \in PartyB /\ now \in Nat
    BY <1>3, QuoteFacts
  <2>2. GoodQuote(asked)
    BY <1>3, <2>1, StatusGood
  <2>. QED
    BY <1>3, <2>2, UpdateOnlyType
<1>. QED  BY <1>1, <1>2, <1>3 DEF RequestToCancelQuote

LEMMA CancelledType ==
  ASSUME TypeInv, NEW q \in QuoteIds, AcceptCancelRequest(q) \/ ForceCancelQuote(q)
  PROVE  TypeInv'
BY LeaveType DEF AcceptCancelRequest, ForceCancelQuote

LEMMA AddPositionType ==
  ASSUME TypeInv, NEW q \in QuoteIds, NEW pos \in QuoteType,
         pos.partyA \in PartyA, pos.partyB \in PartyB, AddPosition(q, pos)
  PROVE  /\ lockedBalances' \in [PartyA -> Nat]
         /\ partyBLockedBalances' \in Buckets
         /\ partyAOpenPositions' \in [PartyA -> SUBSET QuoteIds]
         /\ partyBOpenPositions' \in [PartyB -> [PartyA -> SUBSET QuoteIds]]
         /\ partyBPositionsCount' \in [PartyB -> Nat]
         /\ connectedPartyBs' \in [PartyA -> SUBSET PartyB]
<1>1. pos.locked \in Nat
  BY DEF QuoteType
<1>2. lockedBalances' \in [PartyA -> Nat]
  BY <1>1 DEF AddPosition, TypeInv, TypeOK
<1>3. partyBLockedBalances' \in Buckets
  BY <1>1, AddType DEF AddPosition, TypeInv, TypeOK, Buckets
<1>4. /\ partyAOpenPositions' \in [PartyA -> SUBSET QuoteIds]
      /\ partyBOpenPositions' \in [PartyB -> [PartyA -> SUBSET QuoteIds]]
  BY DEF AddPosition, TypeInv, TypeOK
<1>5. partyBPositionsCount' \in [PartyB -> Nat]
  BY DEF AddPosition, TypeInv, TypeOK
<1>6. connectedPartyBs' \in [PartyA -> SUBSET PartyB]
  BY DEF AddPosition, AddConnection, TypeInv, TypeOK
<1>. QED  BY <1>2, <1>3, <1>4, <1>5, <1>6

LEMMA LeavePendingListsType ==
  ASSUME TypeInv, NEW q \in QuoteIds, quotes[q].status \in HeldStatus, LeavePendingLists(q)
  PROVE  /\ partyBPendingQuotes' \in [PartyB -> [PartyA -> SUBSET QuoteIds]]
         /\ partyBPendingLockedBalances' \in Buckets
<1>1. quotes[q].partyA \in PartyA /\ quotes[q].partyB \in PartyB /\ quotes[q].locked \in Nat
  BY QuoteFacts
<1>2. partyBPendingLockedBalances' \in Buckets
  BY <1>1, SubType DEF LeavePendingLists, TypeInv, TypeOK, Buckets
<1>3. partyBPendingQuotes' \in [PartyB -> [PartyA -> SUBSET QuoteIds]]
  BY <1>1 DEF LeavePendingLists, TypeInv, TypeOK
<1>. QED  BY <1>2, <1>3

LEMMA DecreaseNat ==
  ASSUME NEW x \in Nat, NEW y \in Int PROVE Decrease(x, y) \in Nat
BY DEF Decrease

LEMMA OpenWholeType ==
  ASSUME TypeInv, NEW q \in QuoteIds, NEW p \in Prices, OpenWhole(q, p)
  PROVE  TypeInv'
<1>. DEFINE qt == quotes[q]
            a == qt.partyA
            fee == OpenTradingFee(qt)
            pos == Opened(qt, qt.quantity, p, qt.locked)
<1>1. /\ GoodQuote(qt) /\ qt \in QuoteType /\ qt.status \in HeldStatus /\ a \in PartyA
      /\ qt.locked \in Nat /\ fee \in Nat /\ now \in Nat /\ p \in Nat
  BY QuoteFacts, NumbersAssumption DEF OpenWhole, MayOpen
<1>2. qt.quantity \in 1..qt.quantity
  BY <1>1 DEF QuoteType
<1>3. GoodQuote(pos) /\ pos \in QuoteType /\ pos.partyA = a /\ pos.partyB = qt.partyB
      /\ qt.partyB \in PartyB
  <2>1. GoodQuote(pos) /\ pos.partyA = a /\ pos.partyB = qt.partyB
    BY <1>1, <1>2, OpenedGood
  <2>2. qt.partyB \in PartyB
    BY <1>1, QuoteFacts
  <2>. QED
    BY <2>1, <2>2 DEF GoodQuote
<1>4. quotes' \in [QuoteIds -> QuoteType] /\ \A r \in QuoteIds : GoodQuote(quotes'[r])
  BY <1>3, UpdateGood DEF OpenWhole
<1>5. /\ lockedBalances' \in [PartyA -> Nat]
      /\ partyBLockedBalances' \in Buckets
      /\ partyAOpenPositions' \in [PartyA -> SUBSET QuoteIds]
      /\ partyBOpenPositions' \in [PartyB -> [PartyA -> SUBSET QuoteIds]]
      /\ partyBPositionsCount' \in [PartyB -> Nat]
      /\ connectedPartyBs' \in [PartyA -> SUBSET PartyB]
  <2>1. AddPosition(q, pos)
    BY DEF OpenWhole
  <2>. HIDE DEF pos
  <2>. QED  BY <1>1, <1>3, <2>1, AddPositionType
<1>6. /\ partyBPendingQuotes' \in [PartyB -> [PartyA -> SUBSET QuoteIds]]
      /\ partyBPendingLockedBalances' \in Buckets
  BY <1>1, LeavePendingListsType DEF OpenWhole
<1>7. /\ partyAPendingQuotes' \in [PartyA -> SUBSET QuoteIds]
      /\ pendingLockedBalances' \in [PartyA -> Nat]
      /\ partyAReservedOpenFees' \in [PartyA -> Nat]
      /\ feeCollectorBalance' \in Nat
  <2>1. /\ partyAPendingQuotes' = [partyAPendingQuotes EXCEPT ![a] = @ \ {q}]
        /\ pendingLockedBalances[a] >= qt.locked
        /\ pendingLockedBalances' = [pendingLockedBalances EXCEPT ![a] = @ - qt.locked]
        /\ feeCollectorBalance' = feeCollectorBalance + fee
        /\ partyAReservedOpenFees' = [partyAReservedOpenFees EXCEPT ![a] = Decrease(@, fee)]
    BY DEF OpenWhole
  <2>2. pendingLockedBalances[a] \in Nat /\ partyAReservedOpenFees[a] \in Nat
    BY <1>1 DEF TypeInv, TypeOK
  <2>. HIDE DEF fee, a, qt
  <2>3. Decrease(partyAReservedOpenFees[a], fee) \in Nat
    <3>1. fee \in Int
      BY <1>1
    <3>. QED  BY <2>2, <3>1, DecreaseNat
  <2>4. partyAReservedOpenFees' \in [PartyA -> Nat] /\ feeCollectorBalance' \in Nat
    BY <1>1, <2>1, <2>3 DEF TypeInv, TypeOK
  <2>5. /\ partyAPendingQuotes' \in [PartyA -> SUBSET QuoteIds]
        /\ pendingLockedBalances' \in [PartyA -> Nat]
    BY <1>1, <2>1, <2>2 DEF TypeInv, TypeOK
  <2>. QED  BY <2>4, <2>5
<1>8. UNCHANGED <<lastId, allocatedBalances, partyBAllocatedBalances, world>>
  BY DEF OpenWhole
<1>. QED
  BY <1>4, <1>5, <1>6, <1>7, <1>8 DEF TypeInv, TypeOK, Buckets, world

LEMMA OpenPartType ==
  ASSUME TypeInv, NEW q \in QuoteIds, NEW n \in 1..quotes[q].quantity, NEW p \in Prices,
         OpenPart(q, n, p)
  PROVE  TypeInv'
<1>. DEFINE qt == quotes[q]
            a == qt.partyA
            cancelled == qt.status = "CANCEL_PENDING"
            filled == Portion(qt.locked, n, qt.quantity)
            pos == Opened(qt, n, p, filled)
            rest == Rest(q, qt, n)
            restFee == OpenTradingFee(rest)
            released == ReleasedPending(qt, filled)
            fee == RealizedFee(qt, restFee)
            taken == (n * qt.feePrice * OpenFeeRate) \div FeeScale
<1>1. /\ GoodQuote(qt) /\ qt \in QuoteType /\ qt.status \in HeldStatus /\ a \in PartyA
      /\ qt.locked \in Nat /\ OpenTradingFee(qt) \in Nat /\ now \in Nat /\ p \in Nat
      /\ qt.partyB \in PartyB
  BY QuoteFacts, NumbersAssumption DEF OpenPart, MayOpen
<1>2. n < qt.quantity /\ n \in Nat /\ qt.quantity \in Nat \ {0} /\ filled \in Nat
  <2>1. n < qt.quantity /\ n <= qt.quantity /\ n \in Nat /\ qt.quantity \in Nat \ {0}
    BY <1>1 DEF OpenPart, QuoteType
  <2>. QED  BY <1>1, <2>1, PortionWithin
<1>3. GoodQuote(pos) /\ pos \in QuoteType /\ pos.partyA = a /\ pos.partyB = qt.partyB
  <2>1. GoodQuote(pos) /\ pos.partyA = a /\ pos.partyB = qt.partyB
    <3>. HIDE DEF filled
    <3>. QED  BY <1>1, <1>2, OpenedGood
  <2>. QED
    BY <2>1 DEF GoodQuote
<1>4. GoodQuote(rest) /\ rest \in QuoteType /\ restFee \in Nat
  <2>1. GoodQuote(rest)
    BY <1>1, <1>2, RestGood
  <2>. QED
    BY <2>1, FeeNat DEF GoodQuote
<1>5. lastId + 1 \in QuoteIds
  BY NumbersAssumption DEF OpenPart, TypeInv, TypeOK, QuoteIds
<1>6. quotes' \in [QuoteIds -> QuoteType] /\ \A r \in QuoteIds : GoodQuote(quotes'[r])
  <2>1. quotes' = [quotes EXCEPT ![q] = pos, ![lastId + 1] = rest]
    BY DEF OpenPart
  <2>. HIDE DEF pos, rest
  <2>2. quotes' \in [QuoteIds -> QuoteType]
    BY <1>3, <1>4, <1>5, <2>1 DEF TypeInv, TypeOK
  <2>3. \A r \in QuoteIds : quotes'[r] \in {quotes[r], pos, rest}
    BY <1>5, <2>1 DEF TypeInv, TypeOK
  <2>. QED  BY <1>3, <1>4, <2>2, <2>3 DEF TypeInv
<1>7. /\ lockedBalances' \in [PartyA -> Nat]
      /\ partyBLockedBalances' \in Buckets
      /\ partyAOpenPositions' \in [PartyA -> SUBSET QuoteIds]
      /\ partyBOpenPositions' \in [PartyB -> [PartyA -> SUBSET QuoteIds]]
      /\ partyBPositionsCount' \in [PartyB -> Nat]
      /\ connectedPartyBs' \in [PartyA -> SUBSET PartyB]
  <2>1. AddPosition(q, pos)
    BY DEF OpenPart
  <2>. HIDE DEF pos
  <2>. QED  BY <1>1, <1>3, <2>1, AddPositionType
<1>8. /\ partyBPendingQuotes' \in [PartyB -> [PartyA -> SUBSET QuoteIds]]
      /\ partyBPendingLockedBalances' \in Buckets
  BY <1>1, LeavePendingListsType DEF OpenPart
<1>9. /\ partyAPendingQuotes' \in [PartyA -> SUBSET QuoteIds]
      /\ pendingLockedBalances' \in [PartyA -> Nat]
  <2>1. /\ partyAPendingQuotes' = [partyAPendingQuotes EXCEPT ![a] = (@ \ {q}) \cup RestPending(qt)]
        /\ pendingLockedBalances[a] >= released
        /\ pendingLockedBalances' = [pendingLockedBalances EXCEPT ![a] = @ - released]
    BY DEF OpenPart
  <2>2. released \in Nat
    BY <1>1, <1>2 DEF ReleasedPending
  <2>3. RestPending(qt) \subseteq QuoteIds
    BY <1>5 DEF RestPending
  <2>4. pendingLockedBalances[a] - released \in Nat
    BY <1>1, <2>1, <2>2 DEF TypeInv, TypeOK
  <2>. HIDE DEF released, a, qt
  <2>. QED  BY <2>1, <2>3, <2>4 DEF TypeInv, TypeOK
<1>10. partyAReservedOpenFees' \in [PartyA -> Nat]
  <2>. DEFINE freed == IF cancelled THEN Decrease(partyAReservedOpenFees[a], restFee)
                       ELSE partyAReservedOpenFees[a]
  <2>1. partyAReservedOpenFees' = [partyAReservedOpenFees EXCEPT ![a] = Decrease(freed, fee)]
    BY <1>1 DEF OpenPart, TypeInv, TypeOK
  <2>2. freed \in Nat /\ fee \in Int
    <3>1. partyAReservedOpenFees[a] \in Nat
      BY <1>1 DEF TypeInv, TypeOK
    <3>2. fee \in Int
      BY <1>1, <1>4 DEF RealizedFee
    <3>. HIDE DEF restFee, fee
    <3>3. Decrease(partyAReservedOpenFees[a], restFee) \in Nat
      <4>1. restFee \in Int
        BY <1>4
      <4>. QED  BY <3>1, <4>1, DecreaseNat
    <3>. QED  BY <3>1, <3>2, <3>3
  <2>3. Decrease(freed, fee) \in Nat
    BY <2>2, DecreaseNat
  <2>. HIDE DEF freed, fee, a
  <2>. QED  BY <2>1, <2>3 DEF TypeInv, TypeOK
<1>11. allocatedBalances' \in [PartyA -> Nat]
  <2>1. allocatedBalances' = [allocatedBalances EXCEPT ![a] = @ + (IF cancelled THEN restFee ELSE 0)]
    BY DEF OpenPart
  <2>. HIDE DEF restFee, cancelled, a
  <2>. QED  BY <1>1, <1>4, <2>1 DEF TypeInv, TypeOK
<1>12. feeCollectorBalance' \in Nat
  <2>1. feeCollectorBalance' = feeCollectorBalance + taken
    BY DEF OpenPart
  <2>2. taken \in Nat
    <3>. DEFINE value == n * qt.feePrice
    <3>1. value \in Nat
      <4>1. qt.feePrice \in Nat
        BY <1>1 DEF QuoteType
      <4>. QED  BY <1>2, <4>1, MulNat
    <3>2. (value * OpenFeeRate) \div FeeScale \in Nat
      <4>. HIDE DEF value
      <4>. QED  BY <3>1, RatioNat, NumbersAssumption
    <3>. QED  BY <3>2
  <2>. HIDE DEF taken
  <2>. QED  BY <2>1, <2>2 DEF TypeInv, TypeOK
<1>13. lastId' \in 0..MaxQuotes /\ UNCHANGED <<partyBAllocatedBalances, world>>
  <2>1. lastId' = lastId + 1 /\ UNCHANGED <<partyBAllocatedBalances, world>>
    BY DEF OpenPart
  <2>. QED  BY <1>5, <2>1, NumbersAssumption DEF QuoteIds, TypeInv, TypeOK
<1>. QED
  BY <1>6, <1>7, <1>8, <1>9, <1>10, <1>11, <1>12, <1>13 DEF TypeInv, TypeOK, Buckets, world

LEMMA InstantOpenType ==
  ASSUME TypeInv, NEW o \in Offers, NEW b \in PartyB, NEW p \in Prices, InstantOpen(o, b, p)
  PROVE  TypeInv'
<1>. DEFINE sent == QuoteOf(o)
            locked == [sent EXCEPT !.status = "LOCKED", !.partyB = b]
            pos == Opened(locked, sent.quantity, p, sent.locked)
            fee == OpenTradingFee(sent)
            a == o.partyA
<1>1. now \in Nat /\ p \in Nat /\ lastId + 1 \in QuoteIds
  <2>1. now \in 0..MaxTime /\ lastId \in 0..MaxQuotes
    BY DEF TypeInv, TypeOK
  <2>2. lastId < MaxQuotes
    BY DEF InstantOpen, MaySend
  <2>. QED  BY <2>1, <2>2, NumbersAssumption DEF QuoteIds
<1>2. /\ GoodQuote(sent) /\ sent \in QuoteType /\ sent.partyA = a /\ a \in PartyA
      /\ sent.status = "PENDING" /\ sent.modified = now
  <2>1. GoodQuote(sent) /\ sent.partyA = a /\ a \in PartyA
    BY <1>1, QuoteOfGood
  <2>2. sent.status = "PENDING" /\ sent.modified = now
    BY DEF QuoteOf, NoQuote
  <2>. QED  BY <2>1, <2>2 DEF GoodQuote
<1>3. fee \in Nat
  BY <1>2, FeeNat DEF GoodQuote
<1>4. /\ GoodQuote(locked) /\ locked.status = "LOCKED" /\ locked.partyA = a
      /\ locked.partyB = b /\ sent.quantity \in 1..locked.quantity /\ sent.locked \in Nat
  <2>1. locked \in QuoteType
    BY <1>2 DEF QuoteType
  <2>2. /\ locked.status = "LOCKED" /\ locked.partyA = sent.partyA /\ locked.partyB = b
        /\ locked.closedAmount = sent.closedAmount /\ locked.quantity = sent.quantity
        /\ locked.quantityToClose = sent.quantityToClose /\ locked.closePrice = sent.closePrice
    BY <1>2 DEF QuoteType
  <2>3. sent.quantity \in 1..sent.quantity /\ sent.locked \in Nat
    BY <1>2 DEF QuoteType
  <2>. HIDE DEF sent, locked
  <2>. QED
    BY <1>2, <2>1, <2>2, <2>3 DEF GoodQuote
<1>5. GoodQuote(pos) /\ pos.partyA = a /\ pos.partyB = b /\ pos \in QuoteType
  <2>. HIDE DEF sent, locked
  <2>1. GoodQuote(pos) /\ pos.partyA = a /\ pos.partyB = b
    BY <1>1, <1>4, OpenedGood
  <2>. QED  BY <2>1 DEF GoodQuote
<1>6. quotes' \in [QuoteIds -> QuoteType] /\ \A r \in QuoteIds : GoodQuote(quotes'[r])
  <2>1. quotes' = [quotes EXCEPT ![lastId + 1] = pos]
    BY DEF InstantOpen
  <2>. HIDE DEF pos
  <2>. QED  BY <1>1, <1>5, <2>1, UpdateGood
<1>7. /\ lockedBalances' \in [PartyA -> Nat]
      /\ partyBLockedBalances' \in Buckets
      /\ partyAOpenPositions' \in [PartyA -> SUBSET QuoteIds]
      /\ partyBOpenPositions' \in [PartyB -> [PartyA -> SUBSET QuoteIds]]
      /\ partyBPositionsCount' \in [PartyB -> Nat]
      /\ connectedPartyBs' \in [PartyA -> SUBSET PartyB]
  <2>1. AddPosition(lastId + 1, pos)
    BY DEF InstantOpen
  <2>. HIDE DEF pos
  <2>. QED  BY <1>1, <1>2, <1>5, <2>1, AddPositionType
<1>8. allocatedBalances' \in [PartyA -> Nat] /\ feeCollectorBalance' \in Nat
      /\ lastId' \in 0..MaxQuotes
  <2>1. /\ allocatedBalances' = [allocatedBalances EXCEPT ![a] = @ - fee]
        /\ feeCollectorBalance' = feeCollectorBalance + fee
        /\ allocatedBalances[a] >= fee /\ lastId' = lastId + 1
    BY DEF InstantOpen, MaySend
  <2>2. lastId' \in 0..MaxQuotes
    BY <1>1, <2>1, NumbersAssumption DEF QuoteIds, TypeInv, TypeOK
  <2>. HIDE DEF fee, a
  <2>3. allocatedBalances' \in [PartyA -> Nat] /\ feeCollectorBalance' \in Nat
    BY <1>2, <1>3, <2>1 DEF TypeInv, TypeOK
  <2>. QED  BY <2>2, <2>3
<1>9. UNCHANGED <<partyAPendingQuotes, partyBPendingQuotes, pendingLockedBalances,
                  partyBPendingLockedBalances, partyAReservedOpenFees,
                  partyBAllocatedBalances, world>>
  BY DEF InstantOpen
<1>. QED
  BY <1>6, <1>7, <1>8, <1>9 DEF TypeInv, TypeOK, Buckets, world

LEMMA RequestToCloseType ==
  ASSUME TypeInv, NEW q \in QuoteIds, NEW n \in 0..quotes[q].quantity, NEW p \in Prices,
         NEW t \in CloseOrderTypes, NEW l \in Lifetimes, RequestToClosePosition(q, n, p, t, l)
  PROVE  TypeInv'
<1>. DEFINE qt == quotes[q]
            asked == [qt EXCEPT !.status = "CLOSE_PENDING", !.closePrice = p,
                                !.quantityToClose = n, !.orderType = t,
                                !.deadline = now + l, !.modified = now]
<1>1. /\ GoodQuote(qt) /\ qt \in QuoteType /\ qt.status = "OPENED" /\ qt.partyA \in PartyA
      /\ qt.partyB \in PartyB /\ now \in Nat
  BY QuoteFacts DEF RequestToClosePosition
<1>2. /\ p \in Nat /\ n \in Nat /\ t \in {"LIMIT", "MARKET"} /\ now + l \in Nat
      /\ n <= OpenAmount(qt) /\ OpenAmount(qt) > 0 /\ qt.closedAmount <= qt.quantity
  <2>1. p \in Nat /\ t \in {"LIMIT", "MARKET"} /\ now + l \in Nat
    BY <1>1, NumbersAssumption, PartiesAssumption
  <2>2. n \in Nat
    BY <1>1 DEF QuoteType
  <2>3. OpenAmount(qt) \in Int /\ OpenAmount(qt) > 0 /\ qt.closedAmount <= qt.quantity
    BY <1>1 DEF GoodQuote, OpenAmount, QuoteType
  <2>4. n <= OpenAmount(qt)
    BY <2>2, <2>3 DEF RequestToClosePosition
  <2>. QED  BY <2>1, <2>2, <2>3, <2>4
<1>3. asked \in QuoteType
  BY <1>1, <1>2 DEF QuoteType
<1>4. /\ asked.status = "CLOSE_PENDING" /\ asked.partyA = qt.partyA /\ asked.partyB = qt.partyB
      /\ asked.closedAmount = qt.closedAmount /\ asked.quantity = qt.quantity
      /\ asked.quantityToClose = n
  BY <1>1 DEF QuoteType
<1>5. GoodQuote(asked)
  <2>. HIDE DEF asked
  <2>. QED  BY <1>1, <1>2, <1>3, <1>4 DEF GoodQuote, OpenAmount
<1>. QED
  BY <1>5, UpdateOnlyType DEF RequestToClosePosition

LEMMA ReopeningType ==
  ASSUME TypeInv, NEW q \in QuoteIds,
         RequestToCancelCloseRequest(q) \/ AcceptCancelCloseRequest(q) \/ ForceCancelCloseRequest(q)
  PROVE  TypeInv'
<1>. DEFINE qt == quotes[q]
            asked == [qt EXCEPT !.status = "CANCEL_CLOSE_PENDING", !.modified = now]
<1>1. /\ GoodQuote(qt) /\ qt \in QuoteType /\ qt.status \in ClosingStatus /\ qt.partyA \in PartyA
      /\ qt.partyB \in PartyB /\ now \in Nat
  BY QuoteFacts DEF RequestToCancelCloseRequest, AcceptCancelCloseRequest, ForceCancelCloseRequest
<1>2. qt.closedAmount < qt.quantity
  BY <1>1 DEF GoodQuote, OpenAmount, QuoteType
<1>3. CASE ExpireClose(q)
  BY <1>3, ExpireType DEF ExpireQuote
<1>4. CASE UpdateOnly(q, Reopened(qt))
  BY <1>1, <1>2, <1>4, ReopenedGood, UpdateOnlyType
<1>5. CASE UpdateOnly(q, asked)
  <2>1. asked \in QuoteType
    BY <1>1 DEF QuoteType
  <2>2. /\ asked.status = "CANCEL_CLOSE_PENDING" /\ asked.partyA = qt.partyA
        /\ asked.partyB = qt.partyB /\ asked.closedAmount = qt.closedAmount
        /\ asked.quantity = qt.quantity /\ asked.quantityToClose = qt.quantityToClose
    BY <1>1 DEF QuoteType
  <2>3. GoodQuote(asked)
    <3>. HIDE DEF asked
    <3>. QED  BY <1>1, <2>1, <2>2 DEF GoodQuote, OpenAmount
  <2>. QED
    BY <1>5, <2>3, UpdateOnlyType
<1>. QED
  BY <1>3, <1>4, <1>5
     DEF RequestToCancelCloseRequest, AcceptCancelCloseRequest, ForceCancelCloseRequest

LEMMA IntProduct == ASSUME NEW x \in Int, NEW y \in Int PROVE x * y \in Int
OBVIOUS

LEMMA PnlInt ==
  ASSUME NEW qt \in QuoteType, NEW n \in Nat, NEW p \in Nat
  PROVE  Pnl(qt, n, p) \in Int
<1>1. qt.openedPrice \in Nat
  BY DEF QuoteType
<1>2. (p - qt.openedPrice) * n \in Int /\ (qt.openedPrice - p) * n \in Int
  BY <1>1, IntProduct
<1>. QED  BY <1>2 DEF Pnl

\* closeQuote keeps every balance, pool and counter at or above zero.
LEMMA CloseQuoteType ==
  ASSUME TypeInv, NEW q \in QuoteIds, NEW qt \in QuoteType,
         qt.partyA \in PartyA, qt.partyB \in PartyB, OpenAmount(qt) > 0,
         NEW n \in Nat, n <= OpenAmount(qt), NEW p \in Nat, CloseQuote(q, qt, n, p),
         quotes' \in [QuoteIds -> QuoteType], \A r \in QuoteIds : GoodQuote(quotes'[r])
  PROVE  TypeInv'
<1>. DEFINE a == qt.partyA
            b == qt.partyB
            k == PartyBAllocationKey(b, a)
            fee == (n * p * CloseFeeRate) \div FeeScale
            pnl == Pnl(qt, n, p)
            freed == Portion(qt.locked, n, OpenAmount(qt))
<1>1. fee \in Nat
  <2>. DEFINE value == n * p
  <2>1. value \in Nat
    BY MulNat
  <2>2. (value * CloseFeeRate) \div FeeScale \in Nat
    <3>. HIDE DEF value
    <3>. QED  BY <2>1, RatioNat, NumbersAssumption
  <2>. QED  BY <2>2
<1>2. freed \in Nat /\ freed <= qt.locked /\ qt.locked \in Nat
  <2>1. qt.locked \in Nat /\ OpenAmount(qt) \in Nat \ {0}
    BY DEF QuoteType, OpenAmount
  <2>. QED  BY <2>1, PortionWithin
<1>3. pnl \in Int
  BY PnlInt
<1>4. k \in BucketOf
  BY DEF PartyBAllocationKey, BucketOf
<1>5. /\ lockedBalances[a] >= qt.locked /\ Covers(partyBLockedBalances, b, a, qt.locked)
      /\ lockedBalances' = [lockedBalances EXCEPT ![a] = @ - freed]
      /\ partyBLockedBalances' = Sub(partyBLockedBalances, b, a, freed)
      /\ partyBAllocatedBalances[b][k] >= pnl /\ allocatedBalances[a] + pnl >= fee
      /\ partyBAllocatedBalances' = [partyBAllocatedBalances EXCEPT ![b][k] = @ - pnl]
      /\ allocatedBalances' = [allocatedBalances EXCEPT ![a] = @ + pnl - fee]
      /\ feeCollectorBalance' = feeCollectorBalance + fee
  BY DEF CloseQuote, Covered
<1>6. /\ UNCHANGED partyBPendingQuotes
      /\ \/ /\ partyAOpenPositions' = [partyAOpenPositions EXCEPT ![a] = @ \ {q}]
            /\ partyBOpenPositions' = [partyBOpenPositions EXCEPT ![b][a] = @ \ {q}]
            /\ partyBPositionsCount[b] > 0
            /\ partyBPositionsCount' = [partyBPositionsCount EXCEPT ![b] = @ - 1]
            /\ RemoveConnectionIfNoPositions(a, b)
         \/ UNCHANGED <<partyAOpenPositions, partyBOpenPositions, partyBPositionsCount,
                        connectedPartyBs>>
      /\ UNCHANGED <<lastId, partyAPendingQuotes, pendingLockedBalances,
                     partyBPendingLockedBalances, partyAReservedOpenFees, world>>
  BY DEF CloseQuote
<1>. HIDE DEF a, b, k, fee, pnl, freed
<1>7. a \in PartyA /\ b \in PartyB
  BY DEF a, b
<1>8. lockedBalances' \in [PartyA -> Nat] /\ partyBLockedBalances' \in Buckets
  <2>1. lockedBalances' \in [PartyA -> Nat]
    BY <1>2, <1>5, <1>7 DEF TypeInv, TypeOK
  <2>2. partyBLockedBalances \in Buckets /\ Covers(partyBLockedBalances, b, a, freed)
    <3>1. partyBLockedBalances \in Buckets
      BY DEF TypeInv, TypeOK, Buckets
    <3>2. a \in BucketOf /\ Zero \in BucketOf
      BY <1>7 DEF BucketOf
    <3>. QED  BY <1>2, <1>5, <1>7, <3>1, <3>2 DEF Covers, Buckets
  <2>. QED  BY <1>2, <1>5, <1>7, <2>1, <2>2, SubType
<1>9. /\ allocatedBalances' \in [PartyA -> Nat] /\ partyBAllocatedBalances' \in Buckets
      /\ feeCollectorBalance' \in Nat
  <2>1. allocatedBalances' \in [PartyA -> Nat] /\ feeCollectorBalance' \in Nat
    BY <1>1, <1>3, <1>5, <1>7 DEF TypeInv, TypeOK
  <2>2. partyBAllocatedBalances' \in Buckets
    BY <1>3, <1>4, <1>5, <1>7 DEF TypeInv, TypeOK, Buckets
  <2>. QED  BY <2>1, <2>2
<1>10. /\ partyAOpenPositions' \in [PartyA -> SUBSET QuoteIds]
       /\ partyBOpenPositions' \in [PartyB -> [PartyA -> SUBSET QuoteIds]]
       /\ partyBPositionsCount' \in [PartyB -> Nat]
       /\ connectedPartyBs' \in [PartyA -> SUBSET PartyB]
  <2>1. CASE UNCHANGED <<partyAOpenPositions, partyBOpenPositions, partyBPositionsCount,
                        connectedPartyBs>>
    BY <2>1 DEF TypeInv, TypeOK
  <2>2. CASE /\ partyAOpenPositions' = [partyAOpenPositions EXCEPT ![a] = @ \ {q}]
             /\ partyBOpenPositions' = [partyBOpenPositions EXCEPT ![b][a] = @ \ {q}]
             /\ partyBPositionsCount[b] > 0
             /\ partyBPositionsCount' = [partyBPositionsCount EXCEPT ![b] = @ - 1]
             /\ RemoveConnectionIfNoPositions(a, b)
    <3>1. /\ partyAOpenPositions' \in [PartyA -> SUBSET QuoteIds]
          /\ partyBOpenPositions' \in [PartyB -> [PartyA -> SUBSET QuoteIds]]
      BY <1>7, <2>2 DEF TypeInv, TypeOK
    <3>2. partyBPositionsCount' \in [PartyB -> Nat]
      BY <1>7, <2>2 DEF TypeInv, TypeOK
    <3>3. connectedPartyBs' \in [PartyA -> SUBSET PartyB]
      BY <1>7, <2>2 DEF RemoveConnectionIfNoPositions, TypeInv, TypeOK
    <3>. QED  BY <3>1, <3>2, <3>3
  <2>. QED  BY <1>6, <2>1, <2>2
<1>. QED
  BY <1>6, <1>8, <1>9, <1>10 DEF TypeInv, TypeOK, Buckets, world

LEMMA FillCloseRequestType ==
  ASSUME TypeInv, NEW q \in QuoteIds, NEW n \in Nat, NEW p \in Prices, FillCloseRequest(q, n, p)
  PROVE  TypeInv'
<1>. DEFINE qt == quotes[q]
<1>1. /\ GoodQuote(qt) /\ qt \in QuoteType /\ qt.status \in ClosingStatus /\ qt.partyA \in PartyA
      /\ qt.partyB \in PartyB /\ now \in Nat
  BY QuoteFacts DEF FillCloseRequest
<1>2. CloseQuote(q, qt, n, p) /\ quotes' = [quotes EXCEPT ![q] = Closed(qt, n)]
  BY DEF FillCloseRequest
<1>3. /\ OpenAmount(qt) > 0 /\ qt.quantityToClose <= OpenAmount(qt) /\ n <= qt.quantityToClose
      /\ n <= OpenAmount(qt) /\ p \in Nat
  <2>1. OpenAmount(qt) > 0 /\ qt.quantityToClose <= OpenAmount(qt)
    BY <1>1 DEF GoodQuote
  <2>2. n <= qt.quantityToClose /\ qt.quantityToClose \in Nat /\ OpenAmount(qt) \in Int
    BY <1>1, <1>2 DEF CloseQuote, QuoteType, OpenAmount
  <2>. QED  BY <2>1, <2>2, NumbersAssumption
<1>4. GoodQuote(Closed(qt, n))
  BY <1>1, <1>3, ClosedGood
<1>5. quotes' \in [QuoteIds -> QuoteType] /\ \A r \in QuoteIds : GoodQuote(quotes'[r])
  BY <1>2, <1>4, UpdateGood
<1>. QED
  BY <1>1, <1>2, <1>3, <1>5, CloseQuoteType

LEMMA EmergencyCloseType ==
  ASSUME TypeInv, NEW q \in QuoteIds, NEW p \in Prices, EmergencyClosePosition(q, p)
  PROVE  TypeInv'
<1>. DEFINE qt == quotes[q]
            n == OpenAmount(qt)
            all == [qt EXCEPT !.quantityToClose = n, !.closePrice = p]
<1>1. /\ GoodQuote(qt) /\ qt \in QuoteType /\ qt.status \in {"OPENED", "CLOSE_PENDING"}
      /\ qt.partyA \in PartyA /\ qt.partyB \in PartyB /\ now \in Nat /\ p \in Nat
  BY QuoteFacts, NumbersAssumption DEF EmergencyClosePosition
<1>2. n \in Nat /\ n > 0
  BY <1>1 DEF GoodQuote, OpenAmount, QuoteType
<1>3. CloseQuote(q, all, n, p) /\ quotes' = [quotes EXCEPT ![q] = Closed(all, n)]
  BY DEF EmergencyClosePosition
<1>4. /\ all \in QuoteType /\ all.status = qt.status /\ all.partyA = qt.partyA
      /\ all.partyB = qt.partyB /\ OpenAmount(all) = n /\ all.quantityToClose = n
  BY <1>1, <1>2 DEF QuoteType, OpenAmount
<1>. HIDE DEF all, n
<1>5. GoodQuote(Closed(all, n))
  <2>1. all.status \in OpenStatus /\ n <= all.quantityToClose /\ all.quantityToClose <= OpenAmount(all)
    BY <1>1, <1>2, <1>4
  <2>. QED  BY <1>1, <1>2, <1>4, <2>1, ClosedGood
<1>6. quotes' \in [QuoteIds -> QuoteType] /\ \A r \in QuoteIds : GoodQuote(quotes'[r])
  BY <1>3, <1>5, UpdateGood
<1>. QED
  BY <1>1, <1>2, <1>3, <1>4, <1>6, CloseQuoteType

LEMMA AdlCloseType ==
  ASSUME TypeInv, NEW q \in QuoteIds, NEW n \in Nat, NEW p \in Prices, AdlClose(q, n, p)
  PROVE  TypeInv'
<1>. DEFINE qt == quotes[q]
            asked == [qt EXCEPT !.status = "CLOSE_PENDING", !.quantityToClose = n,
                                !.closePrice = p, !.modified = now]
            done == Closed(asked, n)
            left == OpenAmount(done)
            restored == [done EXCEPT !.status = qt.status, !.closePrice = qt.closePrice,
                           !.quantityToClose = RestoredQuantity(left, qt.quantityToClose)]
<1>1. /\ GoodQuote(qt) /\ qt \in QuoteType /\ qt.status \in OpenStatus
      /\ qt.partyA \in PartyA /\ qt.partyB \in PartyB /\ now \in Nat /\ p \in Nat
  BY QuoteFacts, NumbersAssumption DEF AdlClose
<1>2. OpenAmount(qt) \in Nat /\ n > 0 /\ n <= OpenAmount(qt)
  BY <1>1 DEF GoodQuote, OpenAmount, QuoteType, AdlClose
<1>3. /\ CloseQuote(q, asked, n, p)
      /\ quotes' = [quotes EXCEPT ![q] =
                      IF qt.status \in ClosingStatus /\ left > 0 THEN restored ELSE done]
  BY DEF AdlClose
<1>4. /\ asked \in QuoteType /\ asked.status = "CLOSE_PENDING" /\ asked.partyA = qt.partyA
      /\ asked.partyB = qt.partyB /\ OpenAmount(asked) = OpenAmount(qt)
      /\ asked.quantityToClose = n
  BY <1>1, <1>2 DEF QuoteType, OpenAmount
<1>. HIDE DEF asked
<1>5. GoodQuote(done) /\ done \in QuoteType /\ done.partyA = qt.partyA /\ done.partyB = qt.partyB
  <2>1. /\ asked.status \in OpenStatus /\ OpenAmount(asked) > 0
        /\ n <= asked.quantityToClose /\ asked.quantityToClose <= OpenAmount(asked)
        /\ asked.status # "OPENED"
    BY <1>1, <1>2, <1>4
  <2>2. GoodQuote(done) /\ done.partyA = asked.partyA /\ done.partyB = asked.partyB
    BY <1>1, <1>4, <2>1, ClosedGood
  <2>. QED  BY <1>4, <2>2 DEF GoodQuote
<1>. HIDE DEF done
<1>6. ASSUME qt.status \in ClosingStatus, left > 0
      PROVE  GoodQuote(restored)
  <2>1. left \in Nat /\ qt.quantityToClose \in Nat /\ qt.closePrice \in Nat
    BY <1>1, <1>5, <1>6 DEF OpenAmount, QuoteType
  <2>2. RestoredQuantity(left, qt.quantityToClose) \in Nat
        /\ RestoredQuantity(left, qt.quantityToClose) <= left
    BY <2>1 DEF RestoredQuantity
  <2>3. restored \in QuoteType
    BY <1>1, <1>5, <2>1, <2>2 DEF QuoteType
  <2>4. /\ restored.status = qt.status /\ restored.partyA = qt.partyA /\ restored.partyB = qt.partyB
        /\ restored.closedAmount = done.closedAmount /\ restored.quantity = done.quantity
        /\ restored.quantityToClose = RestoredQuantity(left, qt.quantityToClose)
    BY <1>1, <1>5 DEF QuoteType
  <2>5. done.closedAmount <= done.quantity
    BY <1>5 DEF GoodQuote
  <2>6. OpenAmount(restored) = left
    BY <2>4 DEF OpenAmount
  <2>. HIDE DEF restored, left
  <2>. QED
    BY <1>1, <1>6, <2>1, <2>2, <2>3, <2>4, <2>5, <2>6 DEF GoodQuote
<1>. HIDE DEF left, restored
<1>7. quotes' \in [QuoteIds -> QuoteType] /\ \A r \in QuoteIds : GoodQuote(quotes'[r])
  <2>1. PICK new : GoodQuote(new) /\ quotes' = [quotes EXCEPT ![q] = new]
    BY <1>3, <1>5, <1>6
  <2>. QED  BY <2>1, UpdateGood
<1>8. OpenAmount(asked) > 0 /\ n <= OpenAmount(asked)
  BY <1>2, <1>4
<1>. QED
  BY <1>1, <1>3, <1>4, <1>7, <1>8, CloseQuoteType

LEMMA WorldType ==
  ASSUME TypeInv, Tick \/ SetEmergencyMode \/ SetSymbolValidationState
  PROVE  TypeInv'
<1>1. UNCHANGED <<quotes, lastId, lists, pools, funds>>
  BY DEF Tick, SetEmergencyMode, SetSymbolValidationState
<1>2. now' \in 0..MaxTime
  BY NumbersAssumption DEF Tick, SetEmergencyMode, SetSymbolValidationState, TypeInv, TypeOK
<1>3. emergencyMode' \in BOOLEAN /\ symbolValid' \in BOOLEAN
  BY Zenon DEF Tick, SetEmergencyMode, SetSymbolValidationState, TypeInv, TypeOK
<1>. QED
  BY <1>1, <1>2, <1>3 DEF TypeInv, TypeOK, lists, pools, funds

LEMMA StutterType == ASSUME TypeInv, UNCHANGED vars PROVE TypeInv'
BY DEF vars, lists, pools, funds, world, TypeInv, TypeOK

\* Every handler keeps the invariant.
LEMMA NextType == ASSUME TypeInv, [Next]_vars PROVE TypeInv'
<1>1. ASSUME NEW o \in Offers, SendQuote(o) PROVE TypeInv'
  BY <1>1, SendQuoteType
<1>2. ASSUME NEW o \in Offers, NEW b \in PartyB, NEW p \in Prices, InstantOpen(o, b, p)
      PROVE  TypeInv'
  BY <1>2, InstantOpenType
<1>3. ASSUME NEW q \in QuoteIds, PartyAStep(q) PROVE TypeInv'
  BY <1>3, RequestToCancelQuoteType, CancelledType, RequestToCloseType, ReopeningType
     DEF PartyAStep
<1>4. ASSUME NEW q \in QuoteIds, PartyBStep(q) PROVE TypeInv'
  <2>2. CASE UnlockQuote(q) \/ AcceptCancelRequest(q) \/ AcceptCancelCloseRequest(q)
    BY <2>2, UnlockQuoteType, CancelledType, ReopeningType
  <2>3. CASE \E p \in Prices : OpenWhole(q, p)
    BY <2>3, OpenWholeType
  <2>4. CASE \E n \in 1..quotes[q].quantity, p \in Prices : OpenPart(q, n, p)
    BY <2>4, OpenPartType
  <2>5. 0..quotes[q].quantity \subseteq Nat /\ 1..quotes[q].quantity \subseteq Nat
    BY QuoteFacts DEF QuoteType
  <2>6. CASE \E n \in 0..quotes[q].quantity, p \in Prices : FillCloseRequest(q, n, p)
    BY <2>5, <2>6, FillCloseRequestType
  <2>7. CASE \E n \in 1..quotes[q].quantity, p \in Prices : FillCloseRequestToLiquidation(q, n, p)
    BY <2>5, <2>7, FillCloseRequestType DEF FillCloseRequestToLiquidation
  <2>8. CASE \E p \in Prices : EmergencyClosePosition(q, p)
    BY <2>8, EmergencyCloseType
  <2>9. CASE \E n \in 1..quotes[q].quantity, p \in Prices : AdlClose(q, n, p)
    BY <2>5, <2>9, AdlCloseType
  <2>. QED
    BY <1>4, <2>2, <2>3, <2>4, <2>6, <2>7, <2>8, <2>9 DEF PartyBStep
<1>5. ASSUME NEW q \in QuoteIds, ExpireQuote(q) PROVE TypeInv'
  BY <1>5, ExpireType
<1>8. ASSUME NEW q \in QuoteIds, NEW b \in PartyB, LockQuote(b, q) PROVE TypeInv'
  BY <1>8, LockQuoteType
<1>6. CASE SetEmergencyMode \/ SetSymbolValidationState \/ Tick
  BY <1>6, WorldType
<1>7. CASE UNCHANGED vars
  BY <1>7, StutterType
<1>. QED
  BY <1>1, <1>2, <1>3, <1>4, <1>5, <1>6, <1>7, <1>8 DEF Next

\* The invariant behind the theorems below.
THEOREM TypeInvariant == Spec => []TypeInv
<1>1. Init => TypeInv
  BY InitType
<1>2. TypeInv /\ [Next]_vars => TypeInv'
  BY NextType
<1>. QED
  BY <1>1, <1>2, PTL DEF Spec

\* No order of handler calls - partial fills, rescalings, proportional closes,
\* deleverages, refunds - drives a pool, a reserve, a counter or an allocated
\* balance below zero or a list outside its ids.
THEOREM TypeCorrect == Spec => []TypeOK
<1>1. TypeInv => TypeOK
  BY DEF TypeInv
<1>. QED
  BY <1>1, TypeInvariant, PTL

\* A close request never asks for more than is open, and a position without one
\* carries no trace of an earlier one.
THEOREM RequestsWithinOpen == Spec => []RequestWithinOpen
<1>1. TypeInv => RequestWithinOpen
  BY DEF TypeInv, GoodQuote, RequestWithinOpen
<1>. QED
  BY <1>1, TypeInvariant, PTL

-----------------------------------------------------------------------------
(* What one step of the trading core can do to the quotes, whoever takes    *)
(* it.  The handlers are many, their effects few: a quote is sent, locked,  *)
(* unlocked, dropped, opened whole, in part or from a template, retouched,  *)
(* or closed by some units.  The invariants about lists and pools, and the  *)
(* refinement of the abstract life of a quote, are proved for them.         *)

\* A pending quote leaves for good.
Dropped(q, st) ==
  /\ st \in {"CANCELED", "EXPIRED"}
  /\ quotes[q].status \in PendingStatus
  /\ Leave(q, st)

\* partyB gives a quote back to the market.
Unlocked(q) ==
  /\ quotes[q].status = "LOCKED"
  /\ quotes' = [quotes EXCEPT ![q] = [quotes[q] EXCEPT !.status = "PENDING", !.partyB = Zero,
                                                       !.modified = now]]
  /\ PartyBLetsGo(q)
  /\ UNCHANGED <<lastId, partyAPendingQuotes, partyBPositionsCount, pendingLockedBalances,
                 lockedBalances, partyBLockedBalances, funds, world>>

\* A quote changes without leaving the pools and lists it is in.
Retouched(q, new) ==
  LET qt == quotes[q] IN
  /\ GoodQuote(new)
  /\ new.partyA = qt.partyA /\ new.partyB = qt.partyB /\ new.locked = qt.locked
  /\ new.parent = qt.parent
  /\ \/ qt.status \in HeldStatus /\ new.status \in HeldStatus
        /\ OpenTradingFee(new) = OpenTradingFee(qt)
     \/ qt.status \in OpenStatus /\ new.status \in OpenStatus
  /\ UpdateOnly(q, new)

\* n units of a position are closed, under the request in qt.
ClosedBy(q, qt, n, p, new) ==
  LET old == quotes[q] IN
  /\ old.status \in OpenStatus
  /\ qt \in QuoteType /\ qt.partyA = old.partyA /\ qt.partyB = old.partyB
  /\ qt.locked = old.locked /\ OpenAmount(qt) > 0
  /\ n \in Nat /\ n <= OpenAmount(qt) /\ p \in Nat
  /\ CloseQuote(q, qt, n, p)
  /\ GoodQuote(new) /\ new.partyA = old.partyA /\ new.partyB = old.partyB
  /\ new.locked = Kept(qt, n) /\ new.parent = old.parent
  /\ new.status \in OpenStatus \cup {"CLOSED"}
  /\ new.status = "CLOSED" <=> qt.closedAmount + n = qt.quantity
  /\ quotes' = [quotes EXCEPT ![q] = new]

\* Neither quotes nor anything kept beside them.
Elsewhere == UNCHANGED <<quotes, lastId, lists, pools, funds>>

QuoteStep(q) ==
  \/ \E st \in {"CANCELED", "EXPIRED"} : Dropped(q, st)
  \/ Unlocked(q)
  \/ \E new : Retouched(q, new)
  \/ \E p \in Prices : OpenWhole(q, p)
  \/ \E n \in 1..quotes[q].quantity, p \in Prices : OpenPart(q, n, p)
  \/ \E qt, n, p, new : ClosedBy(q, qt, n, p, new)

----------------------------------------------------------------------------

LEMMA ReopenedKeeps ==
  ASSUME TypeInv, NEW q \in QuoteIds, quotes[q].status \in ClosingStatus,
         UpdateOnly(q, Reopened(quotes[q]))
  PROVE  QuoteStep(q)
<1>. DEFINE qt == quotes[q]
            new == Reopened(qt)
<1>1. /\ GoodQuote(qt) /\ qt \in QuoteType /\ qt.partyA \in PartyA /\ qt.partyB \in PartyB
      /\ now \in Nat /\ qt.closedAmount < qt.quantity
  BY QuoteFacts DEF GoodQuote, OpenAmount, QuoteType
<1>2. GoodQuote(new) /\ new.status = "OPENED"
  BY <1>1, ReopenedGood
<1>3. /\ new.partyA = qt.partyA /\ new.partyB = qt.partyB /\ new.locked = qt.locked
      /\ new.parent = qt.parent
  BY <1>1 DEF Reopened, QuoteType
<1>4. Retouched(q, new)
  <2>. HIDE DEF new
  <2>. QED  BY <1>2, <1>3 DEF Retouched, new
<1>. QED  BY <1>4 DEF QuoteStep

LEMMA ExpireEffect ==
  ASSUME TypeInv, NEW q \in QuoteIds, ExpireQuote(q)
  PROVE  QuoteStep(q)
<1>1. CASE ExpirePending(q)
  BY <1>1 DEF ExpirePending, QuoteStep, Dropped
<1>2. CASE ExpireClose(q)
  BY <1>2, ReopenedKeeps DEF ExpireClose
<1>. QED  BY <1>1, <1>2 DEF ExpireQuote

\* A status that moves within the held or within the open ones.
LEMMA StatusKeeps ==
  ASSUME TypeInv, NEW q \in QuoteIds, NEW new \in QuoteType, GoodQuote(new),
         \/ quotes[q].status \in HeldStatus /\ new.status \in HeldStatus
         \/ quotes[q].status \in OpenStatus /\ new.status \in OpenStatus,
         new.partyA = quotes[q].partyA, new.partyB = quotes[q].partyB,
         new.locked = quotes[q].locked, new.closedAmount = quotes[q].closedAmount,
         new.quantity = quotes[q].quantity, new.feePrice = quotes[q].feePrice,
         new.parent = quotes[q].parent,
         UpdateOnly(q, new)
  PROVE  QuoteStep(q)
<1>1. OpenTradingFee(new) = OpenTradingFee(quotes[q])
  BY DEF OpenTradingFee, OpenAmount
<1>2. Retouched(q, new)
  BY <1>1 DEF Retouched
<1>. QED  BY <1>2 DEF QuoteStep

LEMMA RequestToCancelEffect ==
  ASSUME TypeInv, NEW q \in QuoteIds, RequestToCancelQuote(q)
  PROVE  QuoteStep(q)
<1>. DEFINE qt == quotes[q]
            asked == [qt EXCEPT !.status = "CANCEL_PENDING", !.modified = now]
<1>1. CASE ExpirePending(q)
  BY <1>1, ExpireEffect DEF ExpireQuote
<1>2. CASE qt.status = "PENDING" /\ Leave(q, "CANCELED")
  BY <1>2 DEF QuoteStep, Dropped
<1>3. CASE qt.status = "LOCKED" /\ UpdateOnly(q, asked)
  <2>1. GoodQuote(qt) /\ qt \in QuoteType /\ qt.partyB \in PartyB /\ now \in Nat
    BY <1>3, QuoteFacts
  <2>2. GoodQuote(asked)
    BY <1>3, <2>1, StatusGood
  <2>3. /\ asked \in QuoteType /\ asked.status = "CANCEL_PENDING"
        /\ asked.partyA = qt.partyA /\ asked.partyB = qt.partyB /\ asked.locked = qt.locked
        /\ asked.closedAmount = qt.closedAmount /\ asked.quantity = qt.quantity
        /\ asked.feePrice = qt.feePrice /\ asked.parent = qt.parent
    BY <2>1, <2>2 DEF GoodQuote, QuoteType
  <2>. HIDE DEF asked
  <2>. QED
    BY <1>3, <2>2, <2>3, StatusKeeps
<1>. QED  BY <1>1, <1>2, <1>3 DEF RequestToCancelQuote

LEMMA UnlockEffect ==
  ASSUME TypeInv, NEW q \in QuoteIds, UnlockQuote(q)
  PROVE  QuoteStep(q)
<1>1. CASE ExpirePending(q)
  BY <1>1, ExpireEffect DEF ExpireQuote
<1>2. CASE ~ExpirePending(q)
  <2>1. Unlocked(q)
    BY <1>2 DEF UnlockQuote, Unlocked, TypeInv, TypeOK
  <2>. QED  BY <2>1 DEF QuoteStep
<1>. QED  BY <1>1, <1>2

LEMMA CancelledEffect ==
  ASSUME TypeInv, NEW q \in QuoteIds, AcceptCancelRequest(q) \/ ForceCancelQuote(q)
  PROVE  QuoteStep(q)
BY DEF AcceptCancelRequest, ForceCancelQuote, QuoteStep, Dropped

LEMMA RequestToCloseEffect ==
  ASSUME TypeInv, TypeInv', NEW q \in QuoteIds, NEW n \in 0..quotes[q].quantity, NEW p \in Prices,
         NEW t \in CloseOrderTypes, NEW l \in Lifetimes, RequestToClosePosition(q, n, p, t, l)
  PROVE  QuoteStep(q)
<1>. DEFINE qt == quotes[q]
            asked == [qt EXCEPT !.status = "CLOSE_PENDING", !.closePrice = p,
                                !.quantityToClose = n, !.orderType = t,
                                !.deadline = now + l, !.modified = now]
<1>1. qt \in QuoteType /\ qt.status = "OPENED"
  BY QuoteFacts DEF RequestToClosePosition
<1>2. UpdateOnly(q, asked)
  BY DEF RequestToClosePosition
<1>3. GoodQuote(asked) /\ asked \in QuoteType
  <2>1. asked = quotes'[q]
    BY <1>2 DEF UpdateOnly, TypeInv, TypeOK
  <2>. HIDE DEF asked
  <2>. QED  BY <2>1 DEF TypeInv, GoodQuote
<1>4. /\ asked.status = "CLOSE_PENDING" /\ asked.partyA = qt.partyA /\ asked.partyB = qt.partyB
      /\ asked.closedAmount = qt.closedAmount /\ asked.quantity = qt.quantity
      /\ asked.locked = qt.locked /\ asked.feePrice = qt.feePrice /\ asked.parent = qt.parent
  BY <1>1 DEF QuoteType
<1>. HIDE DEF asked
<1>. QED
  BY <1>1, <1>2, <1>3, <1>4, StatusKeeps

LEMMA ReopeningEffect ==
  ASSUME TypeInv, TypeInv', NEW q \in QuoteIds,
         RequestToCancelCloseRequest(q) \/ AcceptCancelCloseRequest(q) \/ ForceCancelCloseRequest(q)
  PROVE  QuoteStep(q)
<1>. DEFINE qt == quotes[q]
            asked == [qt EXCEPT !.status = "CANCEL_CLOSE_PENDING", !.modified = now]
<1>1. qt \in QuoteType /\ qt.status \in ClosingStatus
  BY QuoteFacts DEF RequestToCancelCloseRequest, AcceptCancelCloseRequest, ForceCancelCloseRequest
<1>2. CASE ExpireClose(q)
  BY <1>2, ExpireEffect DEF ExpireQuote
<1>3. CASE UpdateOnly(q, Reopened(qt))
  BY <1>1, <1>3, ReopenedKeeps
<1>4. CASE UpdateOnly(q, asked)
  <2>1. GoodQuote(asked) /\ asked \in QuoteType
    <3>1. asked = quotes'[q]
      BY <1>4 DEF UpdateOnly, TypeInv, TypeOK
    <3>. HIDE DEF asked
    <3>. QED  BY <3>1 DEF TypeInv, GoodQuote
  <2>2. /\ asked.status = "CANCEL_CLOSE_PENDING" /\ asked.partyA = qt.partyA
        /\ asked.partyB = qt.partyB /\ asked.closedAmount = qt.closedAmount
        /\ asked.quantity = qt.quantity /\ asked.locked = qt.locked
        /\ asked.feePrice = qt.feePrice /\ asked.parent = qt.parent
    BY <1>1 DEF QuoteType
  <2>. HIDE DEF asked
  <2>. QED  BY <1>1, <1>4, <2>1, <2>2, StatusKeeps
<1>. QED
  BY <1>2, <1>3, <1>4
     DEF RequestToCancelCloseRequest, AcceptCancelCloseRequest, ForceCancelCloseRequest

\* However closeQuote leaves the status, it leaves the margin that is kept.
LEMMA ClosedLocked ==
  ASSUME NEW qt \in QuoteType, NEW n \in Nat
  PROVE  Closed(qt, n).locked = Kept(qt, n) /\ Closed(qt, n).parent = qt.parent
<1>. DEFINE left == [qt EXCEPT !.locked = Kept(qt, n), !.closedAmount = @ + n,
                               !.quantityToClose = @ - n]
<1>1. left.locked = Kept(qt, n) /\ left.parent = qt.parent
  BY DEF QuoteType
<1>2. Closed(qt, n) =
        IF left.closedAmount = left.quantity
        THEN [left EXCEPT !.status = "CLOSED", !.closePrice = 0, !.modified = now]
        ELSE IF left.status = "CANCEL_CLOSE_PENDING" \/ left.quantityToClose = 0
             THEN Reopened(left) ELSE left
  BY DEF Closed
<1>3. DOMAIN left = DOMAIN qt
  OBVIOUS
<1>4. "locked" \in DOMAIN left /\ "parent" \in DOMAIN left
  BY <1>3 DEF QuoteType
<1>. HIDE DEF left
<1>5. /\ [left EXCEPT !.status = "CLOSED", !.closePrice = 0, !.modified = now].locked = left.locked
      /\ Reopened(left).locked = left.locked
      /\ [left EXCEPT !.status = "CLOSED", !.closePrice = 0, !.modified = now].parent = left.parent
      /\ Reopened(left).parent = left.parent
  BY <1>4 DEF Reopened
<1>. QED  BY <1>1, <1>2, <1>5

LEMMA FillCloseEffect ==
  ASSUME TypeInv, NEW q \in QuoteIds, NEW n \in Nat, NEW p \in Prices, FillCloseRequest(q, n, p)
  PROVE  QuoteStep(q)
<1>. DEFINE qt == quotes[q]
            new == Closed(qt, n)
<1>1. /\ GoodQuote(qt) /\ qt \in QuoteType /\ qt.status \in ClosingStatus /\ qt.partyA \in PartyA
      /\ qt.partyB \in PartyB /\ now \in Nat
  BY QuoteFacts DEF FillCloseRequest
<1>2. CloseQuote(q, qt, n, p) /\ quotes' = [quotes EXCEPT ![q] = new]
  BY DEF FillCloseRequest
<1>3. /\ OpenAmount(qt) > 0 /\ qt.quantityToClose <= OpenAmount(qt) /\ n <= qt.quantityToClose
      /\ n <= OpenAmount(qt) /\ p \in Nat
  <2>1. OpenAmount(qt) > 0 /\ qt.quantityToClose <= OpenAmount(qt)
    BY <1>1 DEF GoodQuote
  <2>2. n <= qt.quantityToClose /\ qt.quantityToClose \in Nat /\ OpenAmount(qt) \in Int
    BY <1>1, <1>2 DEF CloseQuote, QuoteType, OpenAmount
  <2>. QED  BY <2>1, <2>2, NumbersAssumption
<1>4. /\ GoodQuote(new) /\ new.partyA = qt.partyA /\ new.partyB = qt.partyB
      /\ new.status \in OpenStatus \cup {"CLOSED"}
      /\ new.status = "CLOSED" <=> qt.closedAmount + n = qt.quantity
      /\ new.locked = Kept(qt, n) /\ new.parent = qt.parent
  BY <1>1, <1>3, ClosedGood, ClosedLocked
<1>5. ClosedBy(q, qt, n, p, new)
  <2>. HIDE DEF new
  <2>. QED  BY <1>1, <1>2, <1>3, <1>4 DEF ClosedBy
<1>. QED  BY <1>5 DEF QuoteStep

LEMMA EmergencyCloseEffect ==
  ASSUME TypeInv, NEW q \in QuoteIds, NEW p \in Prices, EmergencyClosePosition(q, p)
  PROVE  QuoteStep(q)
<1>. DEFINE qt == quotes[q]
            n == OpenAmount(qt)
            all == [qt EXCEPT !.quantityToClose = n, !.closePrice = p]
            new == Closed(all, n)
<1>1. /\ GoodQuote(qt) /\ qt \in QuoteType /\ qt.status \in {"OPENED", "CLOSE_PENDING"}
      /\ qt.partyA \in PartyA /\ qt.partyB \in PartyB /\ now \in Nat /\ p \in Nat
  BY QuoteFacts, NumbersAssumption DEF EmergencyClosePosition
<1>2. n \in Nat /\ n > 0
  BY <1>1 DEF GoodQuote, OpenAmount, QuoteType
<1>3. CloseQuote(q, all, n, p) /\ quotes' = [quotes EXCEPT ![q] = new]
  BY DEF EmergencyClosePosition
<1>4. /\ all \in QuoteType /\ all.status = qt.status /\ all.partyA = qt.partyA
      /\ all.partyB = qt.partyB /\ OpenAmount(all) = n /\ all.quantityToClose = n
      /\ all.locked = qt.locked /\ all.parent = qt.parent
  BY <1>1, <1>2 DEF QuoteType, OpenAmount
<1>. HIDE DEF all, n
<1>5. /\ GoodQuote(new) /\ new.partyA = all.partyA /\ new.partyB = all.partyB
      /\ new.status \in OpenStatus \cup {"CLOSED"}
      /\ new.status = "CLOSED" <=> all.closedAmount + n = all.quantity
      /\ new.locked = Kept(all, n) /\ new.parent = all.parent
  <2>1. all.status \in OpenStatus /\ n <= all.quantityToClose /\ all.quantityToClose <= OpenAmount(all)
    BY <1>1, <1>2, <1>4
  <2>. QED  BY <1>1, <1>2, <1>4, <2>1, ClosedGood, ClosedLocked
<1>6. ClosedBy(q, all, n, p, new)
  <2>1. n <= OpenAmount(all) /\ OpenAmount(all) > 0 /\ qt.status \in OpenStatus
    BY <1>1, <1>2, <1>4
  <2>. HIDE DEF new
  <2>. QED  BY <1>1, <1>2, <1>3, <1>4, <1>5, <2>1 DEF ClosedBy
<1>. QED  BY <1>6 DEF QuoteStep

LEMMA AdlCloseEffect ==
  ASSUME TypeInv, TypeInv', NEW q \in QuoteIds, NEW n \in Nat, NEW p \in Prices, AdlClose(q, n, p)
  PROVE  QuoteStep(q)
<1>. DEFINE qt == quotes[q]
            asked == [qt EXCEPT !.status = "CLOSE_PENDING", !.quantityToClose = n,
                                !.closePrice = p, !.modified = now]
            done == Closed(asked, n)
            left == OpenAmount(done)
            restored == [done EXCEPT !.status = qt.status, !.closePrice = qt.closePrice,
                           !.quantityToClose = RestoredQuantity(left, qt.quantityToClose)]
            new == IF qt.status \in ClosingStatus /\ left > 0 THEN restored ELSE done
<1>1. /\ GoodQuote(qt) /\ qt \in QuoteType /\ qt.status \in OpenStatus
      /\ qt.partyA \in PartyA /\ qt.partyB \in PartyB /\ now \in Nat /\ p \in Nat
  BY QuoteFacts, NumbersAssumption DEF AdlClose
<1>2. OpenAmount(qt) \in Nat /\ n > 0 /\ n <= OpenAmount(qt)
  BY <1>1 DEF GoodQuote, OpenAmount, QuoteType, AdlClose
<1>3. CloseQuote(q, asked, n, p) /\ quotes' = [quotes EXCEPT ![q] = new]
  BY DEF AdlClose
<1>4. /\ asked \in QuoteType /\ asked.status = "CLOSE_PENDING" /\ asked.partyA = qt.partyA
      /\ asked.partyB = qt.partyB /\ OpenAmount(asked) = OpenAmount(qt)
      /\ asked.quantityToClose = n /\ asked.locked = qt.locked /\ asked.parent = qt.parent
  BY <1>1, <1>2 DEF QuoteType, OpenAmount
<1>. HIDE DEF asked
<1>5. /\ GoodQuote(done) /\ done.partyA = qt.partyA /\ done.partyB = qt.partyB
      /\ done.status \in OpenStatus \cup {"CLOSED"}
      /\ done.status = "CLOSED" <=> asked.closedAmount + n = asked.quantity
      /\ done.locked = Kept(asked, n) /\ done.parent = asked.parent
      /\ done.quantity = asked.quantity /\ done.closedAmount = asked.closedAmount + n
  <2>1. /\ asked.status \in OpenStatus /\ OpenAmount(asked) > 0
        /\ n <= asked.quantityToClose /\ asked.quantityToClose <= OpenAmount(asked)
        /\ asked.status # "OPENED"
    BY <1>1, <1>2, <1>4
  <2>. QED  BY <1>1, <1>4, <2>1, ClosedGood, ClosedLocked
<1>6. done \in QuoteType
  BY <1>5 DEF GoodQuote
<1>7. left > 0 => done.status # "CLOSED"
  <2>1. asked.closedAmount \in Nat /\ asked.quantity \in Nat
    BY <1>4 DEF QuoteType
  <2>. QED  BY <1>5, <2>1 DEF OpenAmount
<1>8. GoodQuote(new)
  <2>1. new = quotes'[q]
    BY <1>3 DEF TypeInv, TypeOK
  <2>. HIDE DEF new
  <2>. QED  BY <2>1 DEF TypeInv
<1>9. /\ new.partyA = qt.partyA /\ new.partyB = qt.partyB /\ new.locked = Kept(asked, n)
      /\ new.parent = qt.parent
      /\ new.status \in OpenStatus \cup {"CLOSED"}
      /\ new.status = "CLOSED" <=> asked.closedAmount + n = asked.quantity
  <2>1. CASE qt.status \in ClosingStatus /\ left > 0
    <3>1. /\ restored.partyA = done.partyA /\ restored.partyB = done.partyB
          /\ restored.locked = done.locked /\ restored.status = qt.status
          /\ restored.parent = done.parent
      BY <1>6 DEF QuoteType
    <3>. HIDE DEF done, restored
    <3>. QED  BY <1>4, <1>5, <1>7, <2>1, <3>1
  <2>2. CASE ~(qt.status \in ClosingStatus /\ left > 0)
    <3>. HIDE DEF done, restored
    <3>. QED  BY <1>4, <1>5, <2>2
  <2>. QED  BY <2>1, <2>2
<1>10. ClosedBy(q, asked, n, p, new)
  <2>1. n <= OpenAmount(asked) /\ OpenAmount(asked) > 0
    BY <1>2, <1>4
  <2>. HIDE DEF new
  <2>. QED  BY <1>1, <1>3, <1>4, <1>8, <1>9, <2>1 DEF ClosedBy
<1>. QED  BY <1>10 DEF QuoteStep

\* Every handler of one quote has one of these effects on it.
LEMMA HandlerEffect ==
  ASSUME TypeInv, TypeInv', NEW q \in QuoteIds, PartyAStep(q) \/ PartyBStep(q) \/ ExpireQuote(q)
  PROVE  QuoteStep(q)
<1>1. CASE PartyAStep(q)
  BY <1>1, RequestToCancelEffect, CancelledEffect, RequestToCloseEffect, ReopeningEffect
     DEF PartyAStep
<1>2. CASE PartyBStep(q)
  <2>1. CASE UnlockQuote(q) \/ AcceptCancelRequest(q) \/ AcceptCancelCloseRequest(q)
    BY <2>1, UnlockEffect, CancelledEffect, ReopeningEffect
  <2>2. CASE \/ \E p \in Prices : OpenWhole(q, p)
             \/ \E n \in 1..quotes[q].quantity, p \in Prices : OpenPart(q, n, p)
    BY <2>2 DEF QuoteStep
  <2>3. 0..quotes[q].quantity \subseteq Nat /\ 1..quotes[q].quantity \subseteq Nat
    BY QuoteFacts DEF QuoteType
  <2>4. CASE \/ \E n \in 0..quotes[q].quantity, p \in Prices : FillCloseRequest(q, n, p)
             \/ \E n \in 1..quotes[q].quantity, p \in Prices : FillCloseRequestToLiquidation(q, n, p)
    BY <2>3, <2>4, FillCloseEffect DEF FillCloseRequestToLiquidation
  <2>5. CASE \E p \in Prices : EmergencyClosePosition(q, p)
    BY <2>5, EmergencyCloseEffect
  <2>6. CASE \E n \in 1..quotes[q].quantity, p \in Prices : AdlClose(q, n, p)
    BY <2>3, <2>6, AdlCloseEffect
  <2>. QED
    BY <1>2, <2>1, <2>2, <2>4, <2>5, <2>6 DEF PartyBStep
<1>. QED  BY <1>1, <1>2, ExpireEffect

\* Every step of the specification has one of these effects.
LEMMA StepEffect ==
  ASSUME TypeInv, TypeInv', Next
  PROVE  \/ \E o \in Offers : SendQuote(o)
         \/ \E o \in Offers, b \in PartyB, p \in Prices : InstantOpen(o, b, p)
         \/ \E q \in QuoteIds, b \in PartyB : LockQuote(b, q)
         \/ \E q \in QuoteIds : QuoteStep(q)
         \/ Elsewhere
<1>1. CASE SetEmergencyMode \/ SetSymbolValidationState \/ Tick
  BY <1>1 DEF Elsewhere, SetEmergencyMode, SetSymbolValidationState, Tick
<1>. QED
  BY <1>1, HandlerEffect DEF Next

----------------------------------------------------------------------------
(* The records the opening handlers write.                                 *)

LEMMA SendFacts ==
  ASSUME TypeInv, NEW o \in Offers, SendQuote(o)
  PROVE  /\ lastId + 1 \in QuoteIds /\ o.partyA \in PartyA /\ o.locked \in Nat
         /\ GoodQuote(QuoteOf(o)) /\ QuoteOf(o).status = "PENDING"
         /\ QuoteOf(o).partyA = o.partyA /\ QuoteOf(o).partyB = Zero
         /\ QuoteOf(o).locked = o.locked
         /\ quotes' = [quotes EXCEPT ![lastId + 1] = QuoteOf(o)]
<1>1. now \in Nat /\ lastId + 1 \in QuoteIds
  <2>1. now \in 0..MaxTime /\ lastId \in 0..MaxQuotes /\ lastId < MaxQuotes
    BY DEF TypeInv, TypeOK, SendQuote, MaySend
  <2>. QED  BY <2>1, NumbersAssumption DEF QuoteIds
<1>2. /\ QuoteOf(o).status = "PENDING" /\ QuoteOf(o).partyB = Zero
      /\ QuoteOf(o).locked = o.locked
  BY DEF QuoteOf, NoQuote
<1>3. o.locked \in Nat
  BY PartiesAssumption DEF OfferType
<1>4. quotes' = [quotes EXCEPT ![lastId + 1] = QuoteOf(o)]
  BY DEF SendQuote
<1>. QED  BY <1>1, <1>2, <1>3, <1>4, QuoteOfGood

\* The position a template opens at once.
Templated(o, b, p) ==
  Opened([QuoteOf(o) EXCEPT !.status = "LOCKED", !.partyB = b], QuoteOf(o).quantity, p,
         QuoteOf(o).locked)

LEMMA InstantOpenFacts ==
  ASSUME TypeInv, NEW o \in Offers, NEW b \in PartyB, NEW p \in Prices, InstantOpen(o, b, p)
  PROVE  /\ lastId + 1 \in QuoteIds /\ o.partyA \in PartyA
         /\ GoodQuote(Templated(o, b, p)) /\ Templated(o, b, p).status = "OPENED"
         /\ Templated(o, b, p).partyA = o.partyA /\ Templated(o, b, p).partyB = b
         /\ quotes' = [quotes EXCEPT ![lastId + 1] = Templated(o, b, p)]
         /\ AddPosition(lastId + 1, Templated(o, b, p))
<1>. DEFINE sent == QuoteOf(o)
            locked == [sent EXCEPT !.status = "LOCKED", !.partyB = b]
<1>1. now \in Nat /\ p \in Nat /\ lastId + 1 \in QuoteIds
  <2>1. now \in 0..MaxTime /\ lastId \in 0..MaxQuotes /\ lastId < MaxQuotes
    BY DEF TypeInv, TypeOK, InstantOpen, MaySend
  <2>. QED  BY <2>1, NumbersAssumption DEF QuoteIds
<1>2. /\ GoodQuote(sent) /\ sent \in QuoteType /\ sent.partyA = o.partyA /\ o.partyA \in PartyA
      /\ sent.status = "PENDING"
  <2>1. GoodQuote(sent) /\ sent.partyA = o.partyA /\ o.partyA \in PartyA
    BY <1>1, QuoteOfGood
  <2>2. sent.status = "PENDING"
    BY DEF QuoteOf, NoQuote
  <2>. QED  BY <2>1, <2>2 DEF GoodQuote
<1>3. /\ GoodQuote(locked) /\ locked.status = "LOCKED" /\ locked.partyA = o.partyA
      /\ locked.partyB = b /\ sent.quantity \in 1..locked.quantity /\ sent.locked \in Nat
  <2>1. locked \in QuoteType
    BY <1>2 DEF QuoteType
  <2>2. /\ locked.status = "LOCKED" /\ locked.partyA = sent.partyA /\ locked.partyB = b
        /\ locked.closedAmount = sent.closedAmount /\ locked.quantity = sent.quantity
        /\ locked.quantityToClose = sent.quantityToClose /\ locked.closePrice = sent.closePrice
    BY <1>2 DEF QuoteType
  <2>3. sent.quantity \in 1..sent.quantity /\ sent.locked \in Nat
    BY <1>2 DEF QuoteType
  <2>. HIDE DEF sent, locked
  <2>. QED
    BY <1>2, <2>1, <2>2, <2>3 DEF GoodQuote
<1>4. Templated(o, b, p) = Opened(locked, sent.quantity, p, sent.locked)
  BY DEF Templated
<1>5. /\ quotes' = [quotes EXCEPT ![lastId + 1] = Templated(o, b, p)]
      /\ AddPosition(lastId + 1, Templated(o, b, p))
  BY DEF InstantOpen, Templated
<1>. HIDE DEF sent, locked
<1>. QED
  BY <1>1, <1>2, <1>3, <1>4, <1>5, OpenedGood

LEMMA OpenWholeFacts ==
  ASSUME TypeInv, NEW q \in QuoteIds, NEW p \in Prices, OpenWhole(q, p)
  PROVE  /\ quotes[q].status \in HeldStatus
         /\ quotes[q].partyA \in PartyA /\ quotes[q].partyB \in PartyB
         /\ \E pos : /\ GoodQuote(pos) /\ pos.status = "OPENED"
                     /\ pos.partyA = quotes[q].partyA /\ pos.partyB = quotes[q].partyB
                     /\ pos.parent = quotes[q].parent
                     /\ quotes' = [quotes EXCEPT ![q] = pos]
                     /\ AddPosition(q, pos)
<1>. DEFINE qt == quotes[q]
            pos == Opened(qt, qt.quantity, p, qt.locked)
<1>1. /\ GoodQuote(qt) /\ qt \in QuoteType /\ qt.status \in HeldStatus /\ qt.partyA \in PartyA
      /\ qt.partyB \in PartyB /\ qt.locked \in Nat /\ now \in Nat /\ p \in Nat
  BY QuoteFacts, NumbersAssumption DEF OpenWhole, MayOpen
<1>2. qt.quantity \in 1..qt.quantity
  BY <1>1 DEF QuoteType
<1>3. /\ GoodQuote(pos) /\ pos.status = "OPENED" /\ pos.partyA = qt.partyA
      /\ pos.partyB = qt.partyB /\ pos.parent = qt.parent
  <2>1. pos.parent = qt.parent
    BY <1>1 DEF Opened, QuoteType
  <2>. HIDE DEF pos
  <2>. QED  BY <1>1, <1>2, <2>1, OpenedGood DEF pos
<1>4. quotes' = [quotes EXCEPT ![q] = pos] /\ AddPosition(q, pos)
  BY DEF OpenWhole
<1>. HIDE DEF pos
<1>. QED  BY <1>1, <1>3, <1>4

\* The part of q that n units fill.
PartOf(q, n, p) == Opened(quotes[q], n, p, Portion(quotes[q].locked, n, quotes[q].quantity))

LEMMA OpenPartFacts ==
  ASSUME TypeInv, NEW q \in QuoteIds, NEW n \in 1..quotes[q].quantity, NEW p \in Prices,
         OpenPart(q, n, p)
  PROVE  LET qt == quotes[q]
             pos == PartOf(q, n, p)
             rest == Rest(q, qt, n) IN
         /\ qt.status \in HeldStatus /\ qt.partyA \in PartyA /\ qt.partyB \in PartyB
         /\ lastId + 1 \in QuoteIds
         /\ n \in Nat /\ n < qt.quantity
         /\ Portion(qt.locked, n, qt.quantity) \in Nat
         /\ Portion(qt.locked, n, qt.quantity) <= qt.locked
         /\ GoodQuote(pos) /\ pos.status = "OPENED" /\ pos.partyA = qt.partyA
         /\ pos.partyB = qt.partyB
         /\ GoodQuote(rest) /\ rest.partyA = qt.partyA /\ rest.partyB = Zero
         /\ rest.status \in {"PENDING", "CANCELED"}
         /\ rest.status = "CANCELED" <=> qt.status = "CANCEL_PENDING"
         /\ rest.locked = qt.locked - Portion(qt.locked, n, qt.quantity)
         /\ quotes' = [quotes EXCEPT ![q] = pos, ![lastId + 1] = rest]
         /\ AddPosition(q, pos)
<1>. DEFINE qt == quotes[q]
            filled == Portion(qt.locked, n, qt.quantity)
            pos == PartOf(q, n, p)
            rest == Rest(q, qt, n)
<1>1. /\ GoodQuote(qt) /\ qt \in QuoteType /\ qt.status \in HeldStatus /\ qt.partyA \in PartyA
      /\ qt.locked \in Nat /\ now \in Nat /\ p \in Nat /\ qt.partyB \in PartyB
  BY QuoteFacts, NumbersAssumption DEF OpenPart, MayOpen
<1>2. n < qt.quantity /\ n \in Nat /\ filled \in Nat /\ filled <= qt.locked
  <2>1. n < qt.quantity /\ n <= qt.quantity /\ n \in Nat /\ qt.quantity \in Nat \ {0}
    BY <1>1 DEF OpenPart, QuoteType
  <2>. QED  BY <1>1, <2>1, PortionWithin
<1>3. GoodQuote(pos) /\ pos.status = "OPENED" /\ pos.partyA = qt.partyA /\ pos.partyB = qt.partyB
  <2>1. pos = Opened(qt, n, p, filled)
    BY DEF PartOf
  <2>. HIDE DEF filled, pos
  <2>. QED  BY <1>1, <1>2, <2>1, OpenedGood
<1>4. /\ GoodQuote(rest) /\ rest.partyA = qt.partyA /\ rest.partyB = Zero
      /\ rest.status \in {"PENDING", "CANCELED"}
      /\ rest.status = "CANCELED" <=> qt.status = "CANCEL_PENDING"
  BY <1>1, <1>2, RestGood
<1>5. rest.locked = qt.locked - filled
  BY <1>1 DEF Rest, QuoteType
<1>6. lastId + 1 \in QuoteIds
  BY NumbersAssumption DEF OpenPart, TypeInv, TypeOK, QuoteIds
<1>7. quotes' = [quotes EXCEPT ![q] = pos, ![lastId + 1] = rest] /\ AddPosition(q, pos)
  BY DEF OpenPart, PartOf
<1>. HIDE DEF filled, pos, rest
<1>. QED  BY <1>1, <1>2, <1>3, <1>4, <1>5, <1>6, <1>7 DEF filled, pos, rest

----------------------------------------------------------------------------
(* Ids are handed out in order: the ones above lastId are untouched.       *)

IdsFresh == \A q \in QuoteIds : q > lastId => quotes[q] = NoQuote

\* The status of the quote a step replaces, and the id it may take.
LEMMA UsedId ==
  ASSUME TypeInv, IdsFresh, NEW q \in QuoteIds, quotes[q].status # "NONE"
  PROVE  q <= lastId /\ q # lastId + 1
<1>1. quotes[q] # NoQuote
  BY DEF NoQuote
<1>2. q \in Nat /\ lastId \in Nat
  BY NumbersAssumption DEF QuoteIds, TypeInv, TypeOK
<1>. QED  BY <1>1, <1>2 DEF IdsFresh

LEMMA FreshId ==
  ASSUME TypeInv, IdsFresh, lastId + 1 \in QuoteIds
  PROVE  quotes[lastId + 1] = NoQuote /\ quotes[lastId + 1].status = "NONE"
         /\ quotes[lastId + 1].partyA = Zero /\ quotes[lastId + 1].partyB = Zero
<1>1. lastId + 1 > lastId
  BY NumbersAssumption DEF TypeInv, TypeOK
<1>2. quotes[lastId + 1] = NoQuote
  BY <1>1 DEF IdsFresh
<1>. QED  BY <1>2 DEF NoQuote

LEMMA InitFresh == Init => IdsFresh
BY DEF Init, IdsFresh

\* A used quote replaced, or a fresh id taken, leaves the ids above fresh.
LEMMA ReplaceFresh ==
  ASSUME TypeInv, IdsFresh, NEW q \in QuoteIds, quotes[q].status # "NONE",
         NEW new, quotes' = [quotes EXCEPT ![q] = new], lastId' = lastId
  PROVE  IdsFresh'
<1>1. q <= lastId
  BY UsedId
<1>2. q \in Nat /\ lastId \in Nat
  BY NumbersAssumption DEF QuoteIds, TypeInv, TypeOK
<1>. QED  BY <1>1, <1>2 DEF IdsFresh, TypeInv, TypeOK, QuoteIds

LEMMA TakeFresh ==
  ASSUME TypeInv, IdsFresh, lastId + 1 \in QuoteIds, NEW new,
         \/ quotes' = [quotes EXCEPT ![lastId + 1] = new]
         \/ \E q \in QuoteIds : \E pos : q <= lastId
              /\ quotes' = [quotes EXCEPT ![q] = pos, ![lastId + 1] = new],
         lastId' = lastId + 1
  PROVE  IdsFresh'
<1>1. lastId \in Nat
  BY NumbersAssumption DEF TypeInv, TypeOK
<1>2. SUFFICES ASSUME NEW r \in QuoteIds, r > lastId + 1 PROVE quotes'[r] = NoQuote
  BY DEF IdsFresh
<1>3. r \in Nat /\ r # lastId + 1 /\ r > lastId
  BY <1>1, <1>2 DEF QuoteIds
<1>4. quotes[r] = NoQuote
  BY <1>3 DEF IdsFresh
<1>5. quotes \in [QuoteIds -> QuoteType]
  BY DEF TypeInv, TypeOK
<1>6. CASE quotes' = [quotes EXCEPT ![lastId + 1] = new]
  BY <1>3, <1>4, <1>5, <1>6
<1>7. ASSUME NEW q \in QuoteIds, NEW pos, q <= lastId,
             quotes' = [quotes EXCEPT ![q] = pos, ![lastId + 1] = new]
      PROVE  quotes'[r] = NoQuote
  <2>1. r # q
    BY <1>1, <1>3, <1>7 DEF QuoteIds
  <2>. QED  BY <1>3, <1>4, <1>5, <1>7, <2>1
<1>. QED  BY <1>6, <1>7

LEMMA QuoteStepFresh ==
  ASSUME TypeInv, IdsFresh, NEW q \in QuoteIds, QuoteStep(q)
  PROVE  IdsFresh'
<1>1. ASSUME NEW st, Dropped(q, st) PROVE IdsFresh'
  <2>1. /\ quotes' = [quotes EXCEPT ![q] = [quotes[q] EXCEPT !.status = st, !.modified = now]]
        /\ lastId' = lastId /\ quotes[q].status # "NONE"
    BY <1>1 DEF Dropped, Leave, TypeInv, TypeOK
  <2>. QED  BY <2>1, ReplaceFresh
<1>2. CASE Unlocked(q)
  BY <1>2, ReplaceFresh DEF Unlocked
<1>3. ASSUME NEW new, Retouched(q, new) PROVE IdsFresh'
  BY <1>3, ReplaceFresh DEF Retouched, UpdateOnly
<1>4. ASSUME NEW p \in Prices, OpenWhole(q, p) PROVE IdsFresh'
  <2>1. lastId' = lastId
    BY <1>4 DEF OpenWhole
  <2>. QED  BY <1>4, <2>1, OpenWholeFacts, ReplaceFresh
<1>5. ASSUME NEW n \in 1..quotes[q].quantity, NEW p \in Prices, OpenPart(q, n, p) PROVE IdsFresh'
  <2>1. lastId' = lastId + 1
    BY <1>5 DEF OpenPart
  <2>2. lastId + 1 \in QuoteIds /\ quotes[q].status \in HeldStatus
        /\ quotes' = [quotes EXCEPT ![q] = PartOf(q, n, p), ![lastId + 1] = Rest(q, quotes[q], n)]
    BY <1>5, OpenPartFacts
  <2>3. q <= lastId
    BY <2>2, UsedId
  <2>. QED  BY <2>1, <2>2, <2>3, TakeFresh
<1>6. ASSUME NEW qt, NEW n, NEW p, NEW new, ClosedBy(q, qt, n, p, new) PROVE IdsFresh'
  <2>1. /\ quotes' = [quotes EXCEPT ![q] = new]
        /\ lastId' = lastId /\ quotes[q].status # "NONE"
    BY <1>6 DEF ClosedBy, CloseQuote
  <2>. QED  BY <2>1, ReplaceFresh
<1>. QED  BY <1>1, <1>2, <1>3, <1>4, <1>5, <1>6 DEF QuoteStep

LEMMA NextFresh ==
  ASSUME TypeInv, TypeInv', IdsFresh, [Next]_vars
  PROVE  IdsFresh'
<1>1. ASSUME NEW o \in Offers, SendQuote(o) PROVE IdsFresh'
  <2>1. lastId' = lastId + 1
    BY <1>1 DEF SendQuote
  <2>. QED  BY <1>1, <2>1, SendFacts, TakeFresh
<1>2. ASSUME NEW o \in Offers, NEW b \in PartyB, NEW p \in Prices, InstantOpen(o, b, p)
      PROVE  IdsFresh'
  <2>1. lastId' = lastId + 1
    BY <1>2 DEF InstantOpen
  <2>. QED  BY <1>2, <2>1, InstantOpenFacts, TakeFresh
<1>3. ASSUME NEW q \in QuoteIds, NEW b \in PartyB, LockQuote(b, q) PROVE IdsFresh'
  <2>1. /\ quotes' = [quotes EXCEPT ![q] = [quotes[q] EXCEPT !.status = "LOCKED", !.partyB = b,
                                                             !.modified = now]]
        /\ lastId' = lastId /\ quotes[q].status # "NONE"
    BY <1>3 DEF LockQuote, MayLock, TypeInv, TypeOK
  <2>. QED  BY <2>1, ReplaceFresh
<1>4. CASE Elsewhere \/ UNCHANGED vars
  BY <1>4 DEF Elsewhere, vars, IdsFresh
<1>. QED
  BY <1>1, <1>2, <1>3, <1>4, QuoteStepFresh, StepEffect

\* The invariant behind the theorems that follow: ids above lastId are untouched.
THEOREM FreshInvariant == Spec => [](TypeInv /\ IdsFresh)
<1>1. Init => IdsFresh
  BY InitFresh
<1>2. TypeInv /\ TypeInv' /\ IdsFresh /\ [Next]_vars => IdsFresh'
  BY NextFresh
<1>. QED
  BY <1>1, <1>2, TypeInvariant, PTL DEF Spec

----------------------------------------------------------------------------
(* The abstract life of a quote: every effect is a step of QuoteLifecycle  *)
(* under the mapping of Quotes, or leaves phase and holder alone.          *)

\* The two sides of the mapping.
Phases  == [q \in QuoteIds |-> PhaseOf(quotes[q])]
Holders == [q \in QuoteIds |-> quotes[q].partyB]

LMaps == Life!LNext \/ UNCHANGED <<Phases, Holders>>

LEMMA PhaseFacts ==
  ASSUME NEW qt
  PROVE  /\ qt.status = "NONE" => PhaseOf(qt) = "unused"
         /\ qt.status = "PENDING" => PhaseOf(qt) = "offered"
         /\ qt.status \in HeldStatus => PhaseOf(qt) = "held"
         /\ qt.status \in OpenStatus => PhaseOf(qt) = "live"
         /\ qt.status \in FinalStatus => PhaseOf(qt) = "over"
BY DEF PhaseOf

LEMMA PhasesPrime == Phases' = [q \in QuoteIds |-> PhaseOf(quotes'[q])]
BY DEF Phases, PhaseOf

\* One quote replaced is one id that becomes something else.
LEMMA ReplacedBecomes ==
  ASSUME TypeInv, NEW q \in QuoteIds, NEW new, quotes' = [quotes EXCEPT ![q] = new]
  PROVE  /\ Life!Become(q, PhaseOf(new), new.partyB)
         /\ PhaseOf(new) = PhaseOf(quotes[q]) /\ new.partyB = quotes[q].partyB
              => UNCHANGED <<Phases, Holders>>
<1>1. \A r \in QuoteIds : quotes'[r] = IF r = q THEN new ELSE quotes[r]
  BY DEF TypeInv, TypeOK
<1>2. Phases' = [Phases EXCEPT ![q] = PhaseOf(new)]
  <2>1. \A r \in QuoteIds : PhaseOf(quotes'[r]) = IF r = q THEN PhaseOf(new) ELSE PhaseOf(quotes[r])
    BY <1>1
  <2>2. Phases' = [r \in QuoteIds |-> IF r = q THEN PhaseOf(new) ELSE PhaseOf(quotes[r])]
    BY <2>1, PhasesPrime
  <2>. QED  BY <2>2 DEF Phases
<1>3. Holders' = [Holders EXCEPT ![q] = new.partyB]
  <2>1. \A r \in QuoteIds : quotes'[r].partyB = IF r = q THEN new.partyB ELSE quotes[r].partyB
    BY <1>1
  <2>2. Holders' = [r \in QuoteIds |-> IF r = q THEN new.partyB ELSE quotes[r].partyB]
    BY <2>1 DEF Holders
  <2>. QED  BY <2>2 DEF Holders
<1>4. Life!Become(q, PhaseOf(new), new.partyB)
  BY <1>2, <1>3 DEF Life!Become, Phases, Holders
<1>5. ASSUME PhaseOf(new) = PhaseOf(quotes[q]), new.partyB = quotes[q].partyB
      PROVE  UNCHANGED <<Phases, Holders>>
  BY <1>1, <1>5 DEF Phases, Holders
<1>. QED  BY <1>4, <1>5

LEMMA Becomes ==
  ASSUME TypeInv, NEW q \in QuoteIds, NEW new, quotes' = [quotes EXCEPT ![q] = new],
         NEW p, NEW h, PhaseOf(new) = p, new.partyB = h
  PROVE  Life!Become(q, p, h)
BY ReplacedBecomes

LEMMA MapValues ==
  ASSUME NEW q \in QuoteIds
  PROVE  Phases[q] = PhaseOf(quotes[q]) /\ Holders[q] = quotes[q].partyB
BY DEF Phases, Holders

LEMMA OfferOrTake ==
  /\ \A q \in QuoteIds : Life!Offer(q) => Life!LNext
  /\ \A q \in QuoteIds, b \in PartyB : Life!Take(q, b) => Life!LNext
BY DEF Life!LNext

LEMMA SendOffers ==
  ASSUME TypeInv, IdsFresh, NEW o \in Offers, SendQuote(o)
  PROVE  Life!LNext
<1>. DEFINE new == QuoteOf(o)
<1>. PICK r \in QuoteIds : r = lastId + 1
  BY SendFacts
<1>1. /\ r \in QuoteIds /\ new.status = "PENDING" /\ new.partyB = Zero
      /\ quotes' = [quotes EXCEPT ![r] = new]
  BY SendFacts
<1>2. Phases[r] = "unused"
  BY <1>1, FreshId, MapValues, PhaseFacts
<1>3. Life!Become(r, "offered", Zero)
  BY <1>1, ReplacedBecomes, PhaseFacts
<1>4. Life!Offer(r)
  BY <1>2, <1>3 DEF Life!Offer, Phases
<1>. QED  BY <1>1, <1>4, OfferOrTake

LEMMA InstantOpenTakes ==
  ASSUME TypeInv, IdsFresh, NEW o \in Offers, NEW b \in PartyB, NEW p \in Prices,
         InstantOpen(o, b, p)
  PROVE  Life!LNext
<1>. DEFINE new == Templated(o, b, p)
<1>. PICK r \in QuoteIds : r = lastId + 1
  BY InstantOpenFacts
<1>1. /\ r \in QuoteIds /\ new.status = "OPENED" /\ new.partyB = b
      /\ quotes' = [quotes EXCEPT ![r] = new]
  BY InstantOpenFacts
<1>2. Phases[r] = "unused"
  BY <1>1, FreshId, MapValues, PhaseFacts
<1>3. Life!Become(r, "live", b)
  BY <1>1, ReplacedBecomes, PhaseFacts
<1>4. Life!Take(r, b)
  BY <1>2, <1>3 DEF Life!Take, Phases
<1>. QED  BY <1>1, <1>4, OfferOrTake

LEMMA LockHolds ==
  ASSUME TypeInv, NEW q \in QuoteIds, NEW b \in PartyB, LockQuote(b, q)
  PROVE  Life!LNext
<1>. DEFINE new == [quotes[q] EXCEPT !.status = "LOCKED", !.partyB = b, !.modified = now]
<1>1. quotes[q] \in QuoteType /\ quotes[q].status = "PENDING"
  BY QuoteFacts DEF LockQuote, MayLock
<1>2. quotes' = [quotes EXCEPT ![q] = new]
  BY DEF LockQuote, TypeInv, TypeOK
<1>3. new.status = "LOCKED" /\ new.partyB = b
  BY <1>1 DEF QuoteType
<1>. HIDE DEF new
<1>4. Phases[q] = "offered"
  BY <1>1, MapValues, PhaseFacts
<1>5. Life!Become(q, "held", b)
  BY <1>2, <1>3, ReplacedBecomes, PhaseFacts
<1>6. Life!Hold(q, b)
  BY <1>4, <1>5 DEF Life!Hold, Phases
<1>. QED  BY <1>6 DEF Life!LNext

LEMMA QuoteStepMaps ==
  ASSUME TypeInv, TypeInv', IdsFresh, NEW q \in QuoteIds, QuoteStep(q)
  PROVE  LMaps
<1>. DEFINE old == quotes[q]
<1>1. ASSUME NEW st, Dropped(q, st) PROVE LMaps
  <2>. DEFINE new == [old EXCEPT !.status = st, !.modified = now]
  <2>1. old \in QuoteType /\ old.status \in PendingStatus /\ st \in {"CANCELED", "EXPIRED"}
    BY <1>1, QuoteFacts DEF Dropped
  <2>2. quotes' = [quotes EXCEPT ![q] = new]
    BY <1>1 DEF Dropped, Leave, TypeInv, TypeOK
  <2>3. new.status \in FinalStatus /\ new.partyB = old.partyB
    BY <2>1 DEF QuoteType
  <2>. HIDE DEF new
  <2>4. Phases[q] \in {"offered", "held"} /\ Holders[q] = old.partyB
    BY <2>1, MapValues, PhaseFacts
  <2>5. Life!Become(q, "over", Holders[q])
    <3>1. PhaseOf(new) = "over" /\ new.partyB = Holders[q]
      BY <2>3, <2>4, PhaseFacts
    <3>. PICK h : h = Holders[q]
      OBVIOUS
    <3>2. Life!Become(q, "over", h)
      BY <2>2, <3>1, Becomes
    <3>. QED  BY <3>2 DEF Life!Become
  <2>6. Life!Withdraw(q)
    BY <2>4, <2>5 DEF Life!Withdraw, Phases, Holders
  <2>. QED  BY <2>6 DEF LMaps, Life!LNext
<1>2. CASE Unlocked(q)
  <2>. DEFINE new == [old EXCEPT !.status = "PENDING", !.partyB = Zero, !.modified = now]
  <2>1. old \in QuoteType /\ old.status = "LOCKED" /\ quotes' = [quotes EXCEPT ![q] = new]
    BY <1>2, QuoteFacts DEF Unlocked
  <2>2. new.status = "PENDING" /\ new.partyB = Zero
    BY <2>1 DEF QuoteType
  <2>. HIDE DEF new
  <2>3. Phases[q] = "held"
    BY <2>1, MapValues, PhaseFacts
  <2>4. Life!Become(q, "offered", Zero)
    BY <2>1, <2>2, ReplacedBecomes, PhaseFacts
  <2>5. Life!Release(q)
    BY <2>3, <2>4 DEF Life!Release, Phases
  <2>. QED  BY <2>5 DEF LMaps, Life!LNext
<1>3. ASSUME NEW new, Retouched(q, new) PROVE LMaps
  <2>1. quotes' = [quotes EXCEPT ![q] = new] /\ new.partyB = old.partyB
        /\ \/ old.status \in HeldStatus /\ new.status \in HeldStatus
           \/ old.status \in OpenStatus /\ new.status \in OpenStatus
    BY <1>3 DEF Retouched, UpdateOnly
  <2>2. PhaseOf(new) = PhaseOf(old)
    BY <2>1, PhaseFacts
  <2>. QED  BY <2>1, <2>2, ReplacedBecomes DEF LMaps
<1>4. ASSUME NEW p \in Prices, OpenWhole(q, p) PROVE LMaps
  <2>1. PICK pos : /\ pos.status = "OPENED" /\ pos.partyB = old.partyB
                   /\ quotes' = [quotes EXCEPT ![q] = pos]
    BY <1>4, OpenWholeFacts
  <2>2. Phases[q] = "held" /\ Holders[q] = old.partyB
    BY <1>4, OpenWholeFacts, MapValues, PhaseFacts
  <2>3. Life!Become(q, "live", Holders[q])
    <3>1. PhaseOf(pos) = "live" /\ pos.partyB = Holders[q]
      BY <2>1, <2>2, PhaseFacts
    <3>. PICK h : h = Holders[q]
      OBVIOUS
    <3>2. Life!Become(q, "live", h)
      BY <2>1, <3>1, Becomes
    <3>. QED  BY <3>2 DEF Life!Become
  <2>4. Life!Fill(q)
    BY <2>2, <2>3 DEF Life!Fill, Phases, Holders
  <2>. QED  BY <2>4 DEF LMaps, Life!LNext
<1>5. ASSUME NEW n \in 1..quotes[q].quantity, NEW p \in Prices, OpenPart(q, n, p) PROVE LMaps
  <2>. DEFINE r == lastId + 1
              pos == PartOf(q, n, p)
              rest == Rest(q, old, n)
  <2>1. /\ r \in QuoteIds /\ old.status \in HeldStatus /\ pos.status = "OPENED"
        /\ pos.partyB = old.partyB /\ rest.partyB = Zero
        /\ rest.status \in {"PENDING", "CANCELED"}
        /\ quotes' = [quotes EXCEPT ![q] = pos, ![r] = rest]
    BY <1>5, OpenPartFacts
  <2>2. q # r /\ quotes[r].status = "NONE" /\ quotes[r].partyB = Zero
    BY <2>1, UsedId, FreshId
  <2>. HIDE DEF r, pos, rest
  <2>3. Phases[q] = "held" /\ Phases[r] = "unused"
    BY <2>1, <2>2, MapValues, PhaseFacts
  <2>4. \A s \in QuoteIds : quotes'[s] = IF s = q THEN pos ELSE IF s = r THEN rest ELSE quotes[s]
    BY <2>1, <2>2 DEF TypeInv, TypeOK
  <2>5. PhaseOf(pos) = "live" /\ PhaseOf(rest) \in {"offered", "over"}
    BY <2>1, PhaseFacts
  <2>6. Phases' = [Phases EXCEPT ![q] = "live", ![r] = PhaseOf(rest)]
    <3>1. \A s \in QuoteIds : PhaseOf(quotes'[s]) =
            IF s = r THEN PhaseOf(rest) ELSE IF s = q THEN "live" ELSE PhaseOf(quotes[s])
      BY <2>2, <2>4, <2>5
    <3>2. Phases' = [s \in QuoteIds |->
            IF s = r THEN PhaseOf(rest) ELSE IF s = q THEN "live" ELSE PhaseOf(quotes[s])]
      BY <3>1, PhasesPrime
    <3>. QED  BY <2>1, <2>2, <3>2 DEF Phases
  <2>7. Holders' = Holders
    <3>1. \A s \in QuoteIds : quotes'[s].partyB = quotes[s].partyB
      BY <2>1, <2>2, <2>4
    <3>. QED  BY <3>1 DEF Holders
  <2>8. Life!FillPart(q, r, PhaseOf(rest))
    BY <2>3, <2>6, <2>7 DEF Life!FillPart, Phases, Holders
  <2>. QED  BY <2>1, <2>5, <2>8 DEF LMaps, Life!LNext
<1>6. ASSUME NEW qt, NEW n, NEW p, NEW new, ClosedBy(q, qt, n, p, new) PROVE LMaps
  <2>1. /\ quotes' = [quotes EXCEPT ![q] = new] /\ new.partyB = old.partyB
        /\ old.status \in OpenStatus /\ new.status \in OpenStatus \cup {"CLOSED"}
    BY <1>6 DEF ClosedBy
  <2>2. Phases[q] = "live" /\ Holders[q] = old.partyB
    BY <2>1, MapValues, PhaseFacts
  <2>3. CASE new.status \in OpenStatus
    <3>1. PhaseOf(new) = PhaseOf(old)
      BY <2>1, <2>3, PhaseFacts
    <3>. QED  BY <2>1, <3>1, ReplacedBecomes DEF LMaps
  <2>4. CASE new.status = "CLOSED"
    <3>1. Life!Become(q, "over", Holders[q])
      <4>1. PhaseOf(new) = "over" /\ new.partyB = Holders[q]
        BY <2>1, <2>2, <2>4, PhaseFacts
      <4>. PICK h : h = Holders[q]
        OBVIOUS
      <4>2. Life!Become(q, "over", h)
        BY <2>1, <4>1, Becomes
      <4>. QED  BY <4>2 DEF Life!Become
    <3>2. Life!Finish(q)
      BY <2>2, <3>1 DEF Life!Finish, Phases, Holders
    <3>. QED  BY <3>2 DEF LMaps, Life!LNext
  <2>. QED  BY <2>1, <2>3, <2>4
<1>. QED  BY <1>1, <1>2, <1>3, <1>4, <1>5, <1>6 DEF QuoteStep

LEMMA NextMaps ==
  ASSUME TypeInv, TypeInv', IdsFresh, [Next]_vars
  PROVE  LMaps
<1>1. CASE Elsewhere \/ UNCHANGED vars
  BY <1>1 DEF Elsewhere, vars, LMaps, Phases, Holders
<1>2. ASSUME NEW o \in Offers, SendQuote(o) PROVE LMaps
  BY <1>2, SendOffers DEF LMaps
<1>3. ASSUME NEW o \in Offers, NEW b \in PartyB, NEW p \in Prices, InstantOpen(o, b, p)
      PROVE  LMaps
  BY <1>3, InstantOpenTakes DEF LMaps
<1>4. ASSUME NEW q \in QuoteIds, NEW b \in PartyB, LockQuote(b, q) PROVE LMaps
  BY <1>4, LockHolds DEF LMaps
<1>. QED  BY <1>1, <1>2, <1>3, <1>4, StepEffect, QuoteStepMaps

LEMMA InitMaps == Init => Life!LInit
<1>. SUFFICES ASSUME Init PROVE Life!LInit
  OBVIOUS
<1>1. \A q \in QuoteIds : quotes[q] = NoQuote
  BY DEF Init
<1>2. NoQuote.status = "NONE" /\ NoQuote.partyB = Zero
  BY DEF NoQuote
<1>3. \A q \in QuoteIds : PhaseOf(quotes[q]) = "unused" /\ quotes[q].partyB = Zero
  BY <1>1, <1>2, PhaseFacts
<1>. QED  BY <1>3 DEF Life!LInit

\* Every behaviour of the handlers, for any parties, offers and prices, is a
\* behaviour of the abstract life of a quote: an id is offered once, has one
\* holder at a time, is filled by the partyB that held it, and ends for good.
THEOREM LifecycleImplemented == Spec => LifecycleKept
<1>1. Init => Life!LInit
  BY InitMaps
<1>2. TypeInv /\ TypeInv' /\ IdsFresh /\ [Next]_vars
        => [Life!LNext]_<<[q \in QuoteIds |-> PhaseOf(quotes[q])],
                          [q \in QuoteIds |-> quotes[q].partyB]>>
  BY NextMaps DEF LMaps, Phases, Holders
<1>. QED
  BY <1>1, <1>2, FreshInvariant, PTL DEF Spec, LifecycleKept, Life!LSpec

----------------------------------------------------------------------------
(***************************************************************************)
(* What the handlers keep beside the quotes, for every value of the        *)
(* constants: the lists, counters and connections say exactly what the     *)
(* quotes say; the pools and reserves are the sums of what the quotes      *)
(* carry; what all accounts may claim is what was deposited, but for the   *)
(* fees rounded off.                                                       *)
(***************************************************************************)

----------------------------------------------------------------------------
(* How the sets of quotes change when one or two quotes are replaced.      *)

\* All positions of b, whoever they are with.
AllPositionsOf(b) == {q \in QuoteIds : quotes[q].partyB = b /\ quotes[q].status \in OpenStatus}

\* S after q was replaced by a quote that belongs to it or does not.
Refiled(S, q, belongs) == IF belongs THEN S \cup {q} ELSE S \ {q}

\* What replacing q by new does to the sets.
Refiling(q, new) ==
  /\ \A a \in PartyA :
       /\ PendingOf(a)' = Refiled(PendingOf(a), q, new.partyA = a /\ new.status \in PendingStatus)
       /\ OpenOf(a)' = Refiled(OpenOf(a), q, new.partyA = a /\ new.status \in OpenStatus)
  /\ \A b \in PartyB, a \in PartyA :
       /\ HeldBy(b, a)' =
            Refiled(HeldBy(b, a), q, new.partyA = a /\ new.partyB = b /\ new.status \in HeldStatus)
       /\ PositionsOf(b, a)' =
            Refiled(PositionsOf(b, a), q, new.partyA = a /\ new.partyB = b /\ new.status \in OpenStatus)
  /\ \A b \in PartyB :
       AllPositionsOf(b)' =
         Refiled(AllPositionsOf(b), q, new.partyB = b /\ new.status \in OpenStatus)

LEMMA OneReplaced ==
  ASSUME TypeInv, NEW q \in QuoteIds, NEW new, quotes' = [quotes EXCEPT ![q] = new]
  PROVE  Refiling(q, new)
<1>1. quotes'[q] = new /\ \A r \in QuoteIds \ {q} : quotes'[r] = quotes[r]
  BY DEF TypeInv, TypeOK
<1>2. ASSUME NEW a \in PartyA
      PROVE  /\ PendingOf(a)' = Refiled(PendingOf(a), q,
                                  new.partyA = a /\ new.status \in PendingStatus)
             /\ OpenOf(a)' = Refiled(OpenOf(a), q, new.partyA = a /\ new.status \in OpenStatus)
  BY <1>1 DEF PendingOf, OpenOf, Refiled
<1>3. ASSUME NEW b \in PartyB, NEW a \in PartyA
      PROVE  /\ HeldBy(b, a)' = Refiled(HeldBy(b, a), q,
                  new.partyA = a /\ new.partyB = b /\ new.status \in HeldStatus)
             /\ PositionsOf(b, a)' = Refiled(PositionsOf(b, a), q,
                  new.partyA = a /\ new.partyB = b /\ new.status \in OpenStatus)
  BY <1>1 DEF HeldBy, PositionsOf, Refiled
<1>4. ASSUME NEW b \in PartyB
      PROVE  AllPositionsOf(b)' = Refiled(AllPositionsOf(b), q,
                                    new.partyB = b /\ new.status \in OpenStatus)
  BY <1>1 DEF AllPositionsOf, Refiled
<1>. QED  BY <1>2, <1>3, <1>4 DEF Refiling

\* What replacing two quotes at once does to them.
RefilingTwo(q, new, r, rest) ==
  /\ \A a \in PartyA :
       /\ PendingOf(a)' =
            Refiled(Refiled(PendingOf(a), q, new.partyA = a /\ new.status \in PendingStatus),
                    r, rest.partyA = a /\ rest.status \in PendingStatus)
       /\ OpenOf(a)' =
            Refiled(Refiled(OpenOf(a), q, new.partyA = a /\ new.status \in OpenStatus),
                    r, rest.partyA = a /\ rest.status \in OpenStatus)
  /\ \A b \in PartyB, a \in PartyA :
       /\ HeldBy(b, a)' =
            Refiled(Refiled(HeldBy(b, a), q,
                      new.partyA = a /\ new.partyB = b /\ new.status \in HeldStatus),
                    r, rest.partyA = a /\ rest.partyB = b /\ rest.status \in HeldStatus)
       /\ PositionsOf(b, a)' =
            Refiled(Refiled(PositionsOf(b, a), q,
                      new.partyA = a /\ new.partyB = b /\ new.status \in OpenStatus),
                    r, rest.partyA = a /\ rest.partyB = b /\ rest.status \in OpenStatus)
  /\ \A b \in PartyB :
       AllPositionsOf(b)' =
         Refiled(Refiled(AllPositionsOf(b), q, new.partyB = b /\ new.status \in OpenStatus),
                 r, rest.partyB = b /\ rest.status \in OpenStatus)

LEMMA TwoReplaced ==
  ASSUME TypeInv, NEW q \in QuoteIds, NEW r \in QuoteIds, q # r, NEW new, NEW rest,
         quotes' = [quotes EXCEPT ![q] = new, ![r] = rest]
  PROVE  RefilingTwo(q, new, r, rest)
<1>1. /\ quotes'[q] = new /\ quotes'[r] = rest
      /\ \A x \in QuoteIds \ {q, r} : quotes'[x] = quotes[x]
  BY DEF TypeInv, TypeOK
<1>2. ASSUME NEW a \in PartyA
      PROVE  /\ PendingOf(a)' =
                  Refiled(Refiled(PendingOf(a), q, new.partyA = a /\ new.status \in PendingStatus),
                          r, rest.partyA = a /\ rest.status \in PendingStatus)
             /\ OpenOf(a)' =
                  Refiled(Refiled(OpenOf(a), q, new.partyA = a /\ new.status \in OpenStatus),
                          r, rest.partyA = a /\ rest.status \in OpenStatus)
  BY <1>1 DEF PendingOf, OpenOf, Refiled
<1>3. ASSUME NEW b \in PartyB, NEW a \in PartyA
      PROVE  /\ HeldBy(b, a)' =
                  Refiled(Refiled(HeldBy(b, a), q,
                            new.partyA = a /\ new.partyB = b /\ new.status \in HeldStatus),
                          r, rest.partyA = a /\ rest.partyB = b /\ rest.status \in HeldStatus)
             /\ PositionsOf(b, a)' =
                  Refiled(Refiled(PositionsOf(b, a), q,
                            new.partyA = a /\ new.partyB = b /\ new.status \in OpenStatus),
                          r, rest.partyA = a /\ rest.partyB = b /\ rest.status \in OpenStatus)
  <2>1. HeldBy(b, a)' =
          Refiled(Refiled(HeldBy(b, a), q,
                    new.partyA = a /\ new.partyB = b /\ new.status \in HeldStatus),
                  r, rest.partyA = a /\ rest.partyB = b /\ rest.status \in HeldStatus)
    BY <1>1 DEF HeldBy, Refiled
  <2>2. PositionsOf(b, a)' =
          Refiled(Refiled(PositionsOf(b, a), q,
                    new.partyA = a /\ new.partyB = b /\ new.status \in OpenStatus),
                  r, rest.partyA = a /\ rest.partyB = b /\ rest.status \in OpenStatus)
    BY <1>1 DEF PositionsOf, Refiled
  <2>. QED  BY <2>1, <2>2
<1>4. ASSUME NEW b \in PartyB
      PROVE  AllPositionsOf(b)' =
               Refiled(Refiled(AllPositionsOf(b), q, new.partyB = b /\ new.status \in OpenStatus),
                       r, rest.partyB = b /\ rest.status \in OpenStatus)
  BY <1>1 DEF AllPositionsOf, Refiled
<1>. QED  BY <1>2, <1>3, <1>4 DEF RefilingTwo

----------------------------------------------------------------------------
(* Counting.                                                               *)

LEMMA IdsFinite == ASSUME NEW S \in SUBSET QuoteIds PROVE IsFiniteSet(S)
<1>1. IsFiniteSet(QuoteIds)
  BY NumbersAssumption, FS_Interval DEF QuoteIds
<1>. QED  BY <1>1, FS_Subset

LEMMA CountIn ==
  ASSUME NEW S \in SUBSET QuoteIds, NEW q \in QuoteIds
  PROVE  /\ Cardinality(S) \in Nat
         /\ q \notin S => Cardinality(S \cup {q}) = Cardinality(S) + 1
         /\ q \in S => Cardinality(S \ {q}) = Cardinality(S) - 1
BY IdsFinite, FS_CardinalityType, FS_AddElement, FS_RemoveElement

\* The address(0) counters.
CountsMatch == \A b \in PartyB : partyBPositionsCount[b] = Cardinality(AllPositionsOf(b))

\* The lists of both parties.
ListsMatch ==
  /\ \A a \in PartyA :
       /\ partyAPendingQuotes[a] = PendingOf(a)
       /\ partyAOpenPositions[a] = OpenOf(a)
  /\ \A b \in PartyB, a \in PartyA :
       /\ partyBPendingQuotes[b][a] = HeldBy(b, a)
       /\ partyBOpenPositions[b][a] = PositionsOf(b, a)

LEMMA ListsSplit == ListsMatchStatus <=> ListsMatch /\ CountsMatch
BY DEF ListsMatchStatus, ListsMatch, CountsMatch, AllPositionsOf

ListsInv == TypeInv /\ IdsFresh /\ ListsMatch /\ CountsMatch

\* Where a quote is filed.
LEMMA Filed ==
  ASSUME NEW q \in QuoteIds
  PROVE  /\ \A a \in PartyA :
              /\ q \in PendingOf(a) <=> quotes[q].partyA = a /\ quotes[q].status \in PendingStatus
              /\ q \in OpenOf(a) <=> quotes[q].partyA = a /\ quotes[q].status \in OpenStatus
         /\ \A b \in PartyB, a \in PartyA :
              /\ q \in HeldBy(b, a) <=>
                   quotes[q].partyA = a /\ quotes[q].partyB = b /\ quotes[q].status \in HeldStatus
              /\ q \in PositionsOf(b, a) <=>
                   quotes[q].partyA = a /\ quotes[q].partyB = b /\ quotes[q].status \in OpenStatus
         /\ \A b \in PartyB :
              q \in AllPositionsOf(b) <=> quotes[q].partyB = b /\ quotes[q].status \in OpenStatus
BY DEF PendingOf, OpenOf, HeldBy, PositionsOf, AllPositionsOf

\* A quote that is filed where it was leaves a set as it was.
LEMMA RefiledSame ==
  ASSUME NEW S, NEW q, NEW c \in BOOLEAN, c <=> q \in S
  PROVE  (IF c THEN S \cup {q} ELSE S \ {q}) = S
OBVIOUS

LEMMA Unmoved ==
  ASSUME NEW q \in QuoteIds, NEW new, Refiling(q, new)
  PROVE  /\ \A a \in PartyA :
              /\ (q \in PendingOf(a) <=> new.partyA = a /\ new.status \in PendingStatus)
                   => PendingOf(a)' = PendingOf(a)
              /\ (q \in OpenOf(a) <=> new.partyA = a /\ new.status \in OpenStatus)
                   => OpenOf(a)' = OpenOf(a)
         /\ \A b \in PartyB, a \in PartyA :
              /\ (q \in HeldBy(b, a) <=> new.partyA = a /\ new.partyB = b /\ new.status \in HeldStatus)
                   => HeldBy(b, a)' = HeldBy(b, a)
              /\ (q \in PositionsOf(b, a) <=>
                    new.partyA = a /\ new.partyB = b /\ new.status \in OpenStatus)
                   => PositionsOf(b, a)' = PositionsOf(b, a)
         /\ \A b \in PartyB :
              (q \in AllPositionsOf(b) <=> new.partyB = b /\ new.status \in OpenStatus)
                => AllPositionsOf(b)' = AllPositionsOf(b)
<1>1. ASSUME NEW a \in PartyA,
             q \in PendingOf(a) <=> new.partyA = a /\ new.status \in PendingStatus
      PROVE  PendingOf(a)' = PendingOf(a)
  <2>. DEFINE c == new.partyA = a /\ new.status \in PendingStatus
  <2>1. PendingOf(a)' = IF c THEN PendingOf(a) \cup {q} ELSE PendingOf(a) \ {q}
    BY Zenon DEF Refiling, Refiled
  <2>. QED  BY <1>1, <2>1, Zenon, RefiledSame
<1>2. ASSUME NEW a \in PartyA, q \in OpenOf(a) <=> new.partyA = a /\ new.status \in OpenStatus
      PROVE  OpenOf(a)' = OpenOf(a)
  <2>. DEFINE c == new.partyA = a /\ new.status \in OpenStatus
  <2>1. OpenOf(a)' = IF c THEN OpenOf(a) \cup {q} ELSE OpenOf(a) \ {q}
    BY Zenon DEF Refiling, Refiled
  <2>. QED  BY <1>2, <2>1, Zenon, RefiledSame
<1>3. ASSUME NEW b \in PartyB, NEW a \in PartyA,
             q \in HeldBy(b, a) <=> new.partyA = a /\ new.partyB = b /\ new.status \in HeldStatus
      PROVE  HeldBy(b, a)' = HeldBy(b, a)
  <2>. DEFINE c == new.partyA = a /\ new.partyB = b /\ new.status \in HeldStatus
  <2>1. HeldBy(b, a)' = IF c THEN HeldBy(b, a) \cup {q} ELSE HeldBy(b, a) \ {q}
    BY Zenon DEF Refiling, Refiled
  <2>. QED  BY <1>3, <2>1, Zenon, RefiledSame
<1>4. ASSUME NEW b \in PartyB, NEW a \in PartyA,
             q \in PositionsOf(b, a) <=> new.partyA = a /\ new.partyB = b /\ new.status \in OpenStatus
      PROVE  PositionsOf(b, a)' = PositionsOf(b, a)
  <2>. DEFINE c == new.partyA = a /\ new.partyB = b /\ new.status \in OpenStatus
  <2>1. PositionsOf(b, a)' = IF c THEN PositionsOf(b, a) \cup {q} ELSE PositionsOf(b, a) \ {q}
    BY Zenon DEF Refiling, Refiled
  <2>. QED  BY <1>4, <2>1, Zenon, RefiledSame
<1>5. ASSUME NEW b \in PartyB, q \in AllPositionsOf(b) <=> new.partyB = b /\ new.status \in OpenStatus
      PROVE  AllPositionsOf(b)' = AllPositionsOf(b)
  <2>. DEFINE c == new.partyB = b /\ new.status \in OpenStatus
  <2>1. AllPositionsOf(b)' = IF c THEN AllPositionsOf(b) \cup {q} ELSE AllPositionsOf(b) \ {q}
    BY Zenon DEF Refiling, Refiled
  <2>. QED  BY <1>5, <2>1, Zenon, RefiledSame
<1>. QED  BY <1>1, <1>2, <1>3, <1>4, <1>5

\* The lists as functions of the right shape.
LEMMA ListTypes ==
  ASSUME TypeInv
  PROVE  /\ partyAPendingQuotes \in [PartyA -> SUBSET QuoteIds]
         /\ partyAOpenPositions \in [PartyA -> SUBSET QuoteIds]
         /\ partyBPendingQuotes \in [PartyB -> [PartyA -> SUBSET QuoteIds]]
         /\ partyBOpenPositions \in [PartyB -> [PartyA -> SUBSET QuoteIds]]
         /\ partyBPositionsCount \in [PartyB -> Nat]
BY DEF TypeInv, TypeOK

LEMMA InitLists == Init => ListsMatch /\ CountsMatch
<1>. SUFFICES ASSUME Init PROVE ListsMatch /\ CountsMatch
  OBVIOUS
<1>1. \A q \in QuoteIds : quotes[q].status = "NONE"
  BY DEF Init, NoQuote
<1>2. /\ \A a \in PartyA : PendingOf(a) = {} /\ OpenOf(a) = {}
      /\ \A b \in PartyB, a \in PartyA : HeldBy(b, a) = {} /\ PositionsOf(b, a) = {}
      /\ \A b \in PartyB : AllPositionsOf(b) = {}
  BY <1>1 DEF PendingOf, OpenOf, HeldBy, PositionsOf, AllPositionsOf
<1>. QED  BY <1>2, FS_EmptySet DEF Init, ListsMatch, CountsMatch

LEMMA DroppedLists ==
  ASSUME ListsInv, NEW q \in QuoteIds, NEW st, Dropped(q, st)
  PROVE  ListsMatch' /\ CountsMatch'
<1>. DEFINE qt == quotes[q]
            new == [qt EXCEPT !.status = st, !.modified = now]
            a0 == qt.partyA
            b0 == qt.partyB
<1>1. /\ TypeInv /\ st \in {"CANCELED", "EXPIRED"} /\ qt.status \in PendingStatus
      /\ a0 \in PartyA /\ qt.status \in HeldStatus => b0 \in PartyB
      /\ qt \in QuoteType
  BY QuoteFacts DEF ListsInv, Dropped
<1>2. quotes' = [quotes EXCEPT ![q] = new] /\ new.status = st
  BY <1>1 DEF Dropped, Leave, TypeInv, TypeOK, QuoteType
<1>3. partyAPendingQuotes' = [partyAPendingQuotes EXCEPT ![a0] = @ \ {q}]
  BY DEF Dropped, Leave
<1>4. UNCHANGED <<partyAOpenPositions, partyBOpenPositions, partyBPositionsCount>>
  BY DEF Dropped, Leave, PartyBLetsGo
<1>5. \/ /\ qt.status \in HeldStatus
         /\ partyBPendingQuotes' = [partyBPendingQuotes EXCEPT ![b0][a0] = @ \ {q}]
      \/ qt.status = "PENDING" /\ UNCHANGED partyBPendingQuotes
  BY <1>1 DEF Dropped, Leave, PartyBLetsGo
<1>. HIDE DEF new
<1>9. Refiling(q, new)
  BY <1>1, <1>2, OneReplaced
<1>6. ASSUME NEW a \in PartyA
      PROVE  partyAPendingQuotes'[a] = PendingOf(a)' /\ partyAOpenPositions'[a] = OpenOf(a)'
  <2>1. PendingOf(a)' = PendingOf(a) \ {q} /\ OpenOf(a)' = OpenOf(a) \ {q}
    BY <1>1, <1>2, <1>9 DEF Refiling, Refiled
  <2>2. /\ a # a0 => q \notin PendingOf(a)
        /\ q \notin OpenOf(a)
    BY <1>1, Filed
  <2>. QED
    BY <1>1, <1>3, <1>4, <2>1, <2>2, ListTypes DEF ListsInv, ListsMatch
<1>7. ASSUME NEW b \in PartyB, NEW a \in PartyA
      PROVE  partyBPendingQuotes'[b][a] = HeldBy(b, a)' /\ partyBOpenPositions'[b][a] = PositionsOf(b, a)'
  <2>1. HeldBy(b, a)' = HeldBy(b, a) \ {q}
    BY <1>1, <1>2, <1>9 DEF Refiling, Refiled
  <2>2. PositionsOf(b, a)' = PositionsOf(b, a) \ {q}
    BY <1>1, <1>2, <1>9 DEF Refiling, Refiled
  <2>3. /\ a # a0 \/ b # b0 \/ qt.status = "PENDING" => q \notin HeldBy(b, a)
        /\ q \notin PositionsOf(b, a)
    BY <1>1, Filed
  <2>. QED
    BY <1>1, <1>4, <1>5, <2>1, <2>2, <2>3, ListTypes DEF ListsInv, ListsMatch
<1>8. ASSUME NEW b \in PartyB
      PROVE  partyBPositionsCount'[b] = Cardinality(AllPositionsOf(b)')
  <2>1. AllPositionsOf(b)' = AllPositionsOf(b) \ {q}
    BY <1>1, <1>2, <1>9 DEF Refiling, Refiled
  <2>2. q \notin AllPositionsOf(b)
    BY <1>1, Filed
  <2>. QED  BY <1>4, <2>1, <2>2 DEF ListsInv, CountsMatch
<1>. QED  BY <1>6, <1>7, <1>8 DEF ListsMatch, CountsMatch

LEMMA UnlockedLists ==
  ASSUME ListsInv, NEW q \in QuoteIds, Unlocked(q)
  PROVE  ListsMatch' /\ CountsMatch'
<1>. DEFINE qt == quotes[q]
            new == [qt EXCEPT !.status = "PENDING", !.partyB = Zero, !.modified = now]
            a0 == qt.partyA
            b0 == qt.partyB
<1>1. /\ TypeInv /\ qt.status = "LOCKED" /\ a0 \in PartyA /\ b0 \in PartyB /\ qt \in QuoteType
  BY QuoteFacts DEF ListsInv, Unlocked
<1>2. /\ quotes' = [quotes EXCEPT ![q] = new]
      /\ new.status = "PENDING" /\ new.partyA = a0 /\ new.partyB = Zero
  BY <1>1 DEF Unlocked, QuoteType
<1>3. /\ partyBPendingQuotes' = [partyBPendingQuotes EXCEPT ![b0][a0] = @ \ {q}]
      /\ UNCHANGED <<partyAPendingQuotes, partyAOpenPositions, partyBOpenPositions,
                     partyBPositionsCount>>
  BY DEF Unlocked, PartyBLetsGo
<1>. HIDE DEF new
<1>4. Refiling(q, new)
  BY <1>1, <1>2, OneReplaced
<1>5. ASSUME NEW a \in PartyA
      PROVE  partyAPendingQuotes'[a] = PendingOf(a)' /\ partyAOpenPositions'[a] = OpenOf(a)'
  <2>1. PendingOf(a)' = PendingOf(a)
    BY <1>1, <1>2, <1>4, Filed, Unmoved
  <2>2. OpenOf(a)' = OpenOf(a)
    BY <1>1, <1>2, <1>4, Filed, Unmoved
  <2>. QED
    BY <1>3, <2>1, <2>2 DEF ListsInv, ListsMatch
<1>6. ASSUME NEW b \in PartyB, NEW a \in PartyA
      PROVE  partyBPendingQuotes'[b][a] = HeldBy(b, a)' /\ partyBOpenPositions'[b][a] = PositionsOf(b, a)'
  <2>1. HeldBy(b, a)' = HeldBy(b, a) \ {q}
    BY <1>1, <1>2, <1>4 DEF Refiling, Refiled
  <2>2. PositionsOf(b, a)' = PositionsOf(b, a) \ {q}
    BY <1>1, <1>2, <1>4 DEF Refiling, Refiled
  <2>3. /\ a # a0 \/ b # b0 => q \notin HeldBy(b, a)
        /\ q \notin PositionsOf(b, a)
    BY <1>1, Filed
  <2>. QED
    BY <1>1, <1>3, <2>1, <2>2, <2>3, ListTypes DEF ListsInv, ListsMatch
<1>7. ASSUME NEW b \in PartyB
      PROVE  partyBPositionsCount'[b] = Cardinality(AllPositionsOf(b)')
  <2>1. AllPositionsOf(b)' = AllPositionsOf(b) \ {q}
    BY <1>1, <1>2, <1>4 DEF Refiling, Refiled
  <2>2. q \notin AllPositionsOf(b)
    BY <1>1, Filed
  <2>. QED  BY <1>3, <2>1, <2>2 DEF ListsInv, CountsMatch
<1>. QED  BY <1>5, <1>6, <1>7 DEF ListsMatch, CountsMatch

LEMMA LockedLists ==
  ASSUME ListsInv, NEW q \in QuoteIds, NEW b0 \in PartyB, LockQuote(b0, q)
  PROVE  ListsMatch' /\ CountsMatch'
<1>. DEFINE qt == quotes[q]
            new == [qt EXCEPT !.status = "LOCKED", !.partyB = b0, !.modified = now]
            a0 == qt.partyA
<1>1. /\ TypeInv /\ qt.status = "PENDING" /\ a0 \in PartyA /\ qt \in QuoteType
  BY QuoteFacts DEF ListsInv, LockQuote, MayLock
<1>2. /\ quotes' = [quotes EXCEPT ![q] = new]
      /\ new.status = "LOCKED" /\ new.partyA = a0 /\ new.partyB = b0
  BY <1>1 DEF LockQuote, QuoteType, TypeInv, TypeOK
<1>3. /\ partyBPendingQuotes' = [partyBPendingQuotes EXCEPT ![b0][a0] = @ \cup {q}]
      /\ UNCHANGED <<partyAPendingQuotes, partyAOpenPositions, partyBOpenPositions,
                     partyBPositionsCount>>
  BY DEF LockQuote
<1>. HIDE DEF new
<1>4. Refiling(q, new)
  BY <1>1, <1>2, OneReplaced
<1>5. ASSUME NEW a \in PartyA
      PROVE  partyAPendingQuotes'[a] = PendingOf(a)' /\ partyAOpenPositions'[a] = OpenOf(a)'
  <2>1. PendingOf(a)' = PendingOf(a)
    BY <1>1, <1>2, <1>4, Filed, Unmoved
  <2>2. OpenOf(a)' = OpenOf(a)
    BY <1>1, <1>2, <1>4, Filed, Unmoved
  <2>. QED
    BY <1>3, <2>1, <2>2 DEF ListsInv, ListsMatch
<1>6. ASSUME NEW b \in PartyB, NEW a \in PartyA
      PROVE  partyBPendingQuotes'[b][a] = HeldBy(b, a)' /\ partyBOpenPositions'[b][a] = PositionsOf(b, a)'
  <2>1. q \notin HeldBy(b, a) /\ q \notin PositionsOf(b, a)
    BY <1>1, Filed
  <2>2. PositionsOf(b, a)' = PositionsOf(b, a)
    BY <1>1, <1>2, <1>4, <2>1, Unmoved
  <2>3. CASE a = a0 /\ b = b0
    <3>1. HeldBy(b, a)' = HeldBy(b, a) \cup {q}
      BY <1>1, <1>2, <1>4, <2>3 DEF Refiling, Refiled
    <3>. QED  BY <1>1, <1>3, <2>2, <2>3, <3>1, ListTypes DEF ListsInv, ListsMatch
  <2>4. CASE ~(a = a0 /\ b = b0)
    <3>1. HeldBy(b, a)' = HeldBy(b, a)
      BY <1>1, <1>2, <1>4, <2>1, <2>4, Unmoved
    <3>. QED  BY <1>1, <1>3, <2>2, <2>4, <3>1, ListTypes DEF ListsInv, ListsMatch
  <2>. QED  BY <2>3, <2>4
<1>7. ASSUME NEW b \in PartyB
      PROVE  partyBPositionsCount'[b] = Cardinality(AllPositionsOf(b)')
  <2>1. AllPositionsOf(b)' = AllPositionsOf(b) \ {q}
    BY <1>1, <1>2, <1>4 DEF Refiling, Refiled
  <2>2. q \notin AllPositionsOf(b)
    BY <1>1, Filed
  <2>. QED  BY <1>3, <2>1, <2>2 DEF ListsInv, CountsMatch
<1>. QED  BY <1>5, <1>6, <1>7 DEF ListsMatch, CountsMatch

LEMMA RetouchedLists ==
  ASSUME ListsInv, NEW q \in QuoteIds, NEW new, Retouched(q, new)
  PROVE  ListsMatch' /\ CountsMatch'
<1>. DEFINE qt == quotes[q]
<1>1. /\ TypeInv /\ quotes' = [quotes EXCEPT ![q] = new]
      /\ new.partyA = qt.partyA /\ new.partyB = qt.partyB
      /\ \/ qt.status \in HeldStatus /\ new.status \in HeldStatus
         \/ qt.status \in OpenStatus /\ new.status \in OpenStatus
  BY DEF ListsInv, Retouched, UpdateOnly
<1>2. UNCHANGED lists
  BY DEF Retouched, UpdateOnly
<1>3. Refiling(q, new)
  BY <1>1, OneReplaced
<1>4. ASSUME NEW a \in PartyA
      PROVE  PendingOf(a)' = PendingOf(a) /\ OpenOf(a)' = OpenOf(a)
  <2>1. PendingOf(a)' = PendingOf(a)
    BY <1>1, <1>3, Filed, Unmoved
  <2>2. OpenOf(a)' = OpenOf(a)
    BY <1>1, <1>3, Filed, Unmoved
  <2>. QED  BY <2>1, <2>2
<1>5. ASSUME NEW b \in PartyB, NEW a \in PartyA
      PROVE  HeldBy(b, a)' = HeldBy(b, a) /\ PositionsOf(b, a)' = PositionsOf(b, a)
  <2>1. HeldBy(b, a)' = HeldBy(b, a)
    BY <1>1, <1>3, Filed, Unmoved
  <2>2. PositionsOf(b, a)' = PositionsOf(b, a)
    BY <1>1, <1>3, Filed, Unmoved
  <2>. QED  BY <2>1, <2>2
<1>6. ASSUME NEW b \in PartyB
      PROVE  AllPositionsOf(b)' = AllPositionsOf(b)
  BY <1>1, <1>3, Filed, Unmoved
<1>. QED  BY <1>2, <1>4, <1>5, <1>6 DEF lists, ListsInv, ListsMatch, CountsMatch

LEMMA SentLists ==
  ASSUME ListsInv, NEW o \in Offers, SendQuote(o)
  PROVE  ListsMatch' /\ CountsMatch'
<1>. DEFINE r == lastId + 1
            new == QuoteOf(o)
            a0 == o.partyA
<1>1. /\ TypeInv /\ r \in QuoteIds /\ a0 \in PartyA
      /\ new.status = "PENDING" /\ new.partyA = a0 /\ new.partyB = Zero
      /\ quotes' = [quotes EXCEPT ![r] = new]
      /\ quotes[r].status = "NONE"
  BY SendFacts, FreshId DEF ListsInv
<1>2. /\ partyAPendingQuotes' = [partyAPendingQuotes EXCEPT ![a0] = @ \cup {r}]
      /\ UNCHANGED <<partyBPendingQuotes, partyAOpenPositions, partyBOpenPositions,
                     partyBPositionsCount>>
  BY DEF SendQuote
<1>. HIDE DEF new, r
<1>3. Refiling(r, new)
  BY <1>1, OneReplaced
<1>4. ASSUME NEW a \in PartyA
      PROVE  partyAPendingQuotes'[a] = PendingOf(a)' /\ partyAOpenPositions'[a] = OpenOf(a)'
  <2>1. r \notin PendingOf(a) /\ r \notin OpenOf(a)
    BY <1>1, Filed
  <2>2. OpenOf(a)' = OpenOf(a)
    BY <1>1, <1>3, <2>1, Unmoved
  <2>3. CASE a = a0
    <3>1. PendingOf(a)' = PendingOf(a) \cup {r}
      BY <1>1, <1>3, <2>3 DEF Refiling, Refiled
    <3>. QED  BY <1>1, <1>2, <2>2, <2>3, <3>1, ListTypes DEF ListsInv, ListsMatch
  <2>4. CASE a # a0
    <3>1. PendingOf(a)' = PendingOf(a)
      BY <1>1, <1>3, <2>1, <2>4, Unmoved
    <3>. QED  BY <1>1, <1>2, <2>2, <2>4, <3>1, ListTypes DEF ListsInv, ListsMatch
  <2>. QED  BY <2>3, <2>4
<1>5. ASSUME NEW b \in PartyB, NEW a \in PartyA
      PROVE  partyBPendingQuotes'[b][a] = HeldBy(b, a)' /\ partyBOpenPositions'[b][a] = PositionsOf(b, a)'
  <2>1. r \notin HeldBy(b, a) /\ r \notin PositionsOf(b, a)
    BY <1>1, Filed
  <2>2. HeldBy(b, a)' = HeldBy(b, a) /\ PositionsOf(b, a)' = PositionsOf(b, a)
    BY <1>1, <1>3, <2>1, Unmoved
  <2>. QED  BY <1>2, <2>2 DEF ListsInv, ListsMatch
<1>6. ASSUME NEW b \in PartyB
      PROVE  partyBPositionsCount'[b] = Cardinality(AllPositionsOf(b)')
  <2>1. r \notin AllPositionsOf(b)
    BY <1>1, Filed
  <2>2. AllPositionsOf(b)' = AllPositionsOf(b)
    BY <1>1, <1>3, <2>1, Unmoved
  <2>. QED  BY <1>2, <2>2 DEF ListsInv, CountsMatch
<1>. QED  BY <1>4, <1>5, <1>6 DEF ListsMatch, CountsMatch

\* Where a new position is filed.
Entering(q, pos) ==
  /\ \A a \in PartyA :
       OpenOf(a)' = IF a = pos.partyA THEN OpenOf(a) \cup {q} ELSE OpenOf(a)
  /\ \A b \in PartyB, a \in PartyA :
       PositionsOf(b, a)' = IF a = pos.partyA /\ b = pos.partyB
                            THEN PositionsOf(b, a) \cup {q} ELSE PositionsOf(b, a)
  /\ \A b \in PartyB :
       AllPositionsOf(b)' = IF b = pos.partyB THEN AllPositionsOf(b) \cup {q}
                            ELSE AllPositionsOf(b)

\* addToOpenPositions files it there.
LEMMA EnteredLists ==
  ASSUME ListsInv, NEW q \in QuoteIds, quotes[q].status \notin OpenStatus, NEW pos,
         pos.partyA \in PartyA, pos.partyB \in PartyB, AddPosition(q, pos), Entering(q, pos)
  PROVE  /\ \A a \in PartyA : partyAOpenPositions'[a] = OpenOf(a)'
         /\ \A b \in PartyB, a \in PartyA : partyBOpenPositions'[b][a] = PositionsOf(b, a)'
         /\ \A b \in PartyB : partyBPositionsCount'[b] = Cardinality(AllPositionsOf(b)')
<1>. DEFINE a0 == pos.partyA
            b0 == pos.partyB
<1>1. /\ partyAOpenPositions' = [partyAOpenPositions EXCEPT ![a0] = @ \cup {q}]
      /\ partyBOpenPositions' = [partyBOpenPositions EXCEPT ![b0][a0] = @ \cup {q}]
      /\ partyBPositionsCount' = [partyBPositionsCount EXCEPT ![b0] = @ + 1]
  BY DEF AddPosition
<1>2. ASSUME NEW a \in PartyA PROVE partyAOpenPositions'[a] = OpenOf(a)'
  BY <1>1, ListTypes DEF Entering, ListsInv, ListsMatch
<1>3. ASSUME NEW b \in PartyB, NEW a \in PartyA PROVE partyBOpenPositions'[b][a] = PositionsOf(b, a)'
  BY <1>1, ListTypes DEF Entering, ListsInv, ListsMatch
<1>4. ASSUME NEW b \in PartyB PROVE partyBPositionsCount'[b] = Cardinality(AllPositionsOf(b)')
  <2>1. q \notin AllPositionsOf(b) /\ AllPositionsOf(b) \in SUBSET QuoteIds
    BY DEF AllPositionsOf
  <2>2. partyBPositionsCount[b] = Cardinality(AllPositionsOf(b))
    BY DEF ListsInv, CountsMatch
  <2>3. CASE b = b0
    <3>1. Cardinality(AllPositionsOf(b)') = Cardinality(AllPositionsOf(b)) + 1
      BY <2>1, <2>3, CountIn DEF Entering
    <3>. QED  BY <1>1, <2>2, <2>3, <3>1, ListTypes DEF ListsInv
  <2>4. CASE b # b0
    BY <1>1, <2>2, <2>4, ListTypes DEF ListsInv, Entering
  <2>. QED  BY <2>3, <2>4
<1>. QED  BY <1>2, <1>3, <1>4

LEMMA EnteringOne ==
  ASSUME TypeInv, NEW q \in QuoteIds, quotes[q].status \notin OpenStatus, NEW pos,
         pos.status = "OPENED", Refiling(q, pos)
  PROVE  Entering(q, pos)
<1>1. ASSUME NEW a \in PartyA
      PROVE  OpenOf(a)' = IF a = pos.partyA THEN OpenOf(a) \cup {q} ELSE OpenOf(a)
  <2>1. q \notin OpenOf(a)
    BY Filed
  <2>2. CASE a = pos.partyA
    BY <2>2 DEF Refiling, Refiled
  <2>3. CASE a # pos.partyA
    BY <2>1, <2>3, Unmoved
  <2>. QED  BY <2>2, <2>3
<1>2. ASSUME NEW b \in PartyB, NEW a \in PartyA
      PROVE  PositionsOf(b, a)' = IF a = pos.partyA /\ b = pos.partyB
                                  THEN PositionsOf(b, a) \cup {q} ELSE PositionsOf(b, a)
  <2>1. q \notin PositionsOf(b, a)
    BY Filed
  <2>2. CASE a = pos.partyA /\ b = pos.partyB
    BY <2>2 DEF Refiling, Refiled
  <2>3. CASE ~(a = pos.partyA /\ b = pos.partyB)
    BY <2>1, <2>3, Unmoved
  <2>. QED  BY <2>2, <2>3
<1>3. ASSUME NEW b \in PartyB
      PROVE  AllPositionsOf(b)' = IF b = pos.partyB THEN AllPositionsOf(b) \cup {q}
                                  ELSE AllPositionsOf(b)
  <2>1. q \notin AllPositionsOf(b)
    BY Filed
  <2>2. CASE b = pos.partyB
    BY <2>2 DEF Refiling, Refiled
  <2>3. CASE b # pos.partyB
    BY <2>1, <2>3, Unmoved
  <2>. QED  BY <2>2, <2>3
<1>. QED  BY <1>1, <1>2, <1>3 DEF Entering

LEMMA TemplatedLists ==
  ASSUME ListsInv, NEW o \in Offers, NEW b0 \in PartyB, NEW p \in Prices, InstantOpen(o, b0, p)
  PROVE  ListsMatch' /\ CountsMatch'
<1>. DEFINE r == lastId + 1
            pos == Templated(o, b0, p)
<1>1. /\ TypeInv /\ r \in QuoteIds /\ pos.status = "OPENED"
      /\ pos.partyA \in PartyA /\ pos.partyB \in PartyB
      /\ quotes' = [quotes EXCEPT ![r] = pos]
      /\ AddPosition(r, pos)
      /\ quotes[r].status = "NONE"
  BY InstantOpenFacts, FreshId DEF ListsInv
<1>2. UNCHANGED <<partyAPendingQuotes, partyBPendingQuotes>>
  BY DEF InstantOpen
<1>. HIDE DEF r, pos
<1>3. Refiling(r, pos)
  BY <1>1, OneReplaced
<1>4. Entering(r, pos)
  BY <1>1, <1>3, EnteringOne
<1>5. ASSUME NEW a \in PartyA PROVE partyAPendingQuotes'[a] = PendingOf(a)'
  <2>1. r \notin PendingOf(a)
    BY <1>1, Filed
  <2>. QED  BY <1>1, <1>2, <1>3, <2>1, Unmoved DEF ListsInv, ListsMatch
<1>6. ASSUME NEW b \in PartyB, NEW a \in PartyA PROVE partyBPendingQuotes'[b][a] = HeldBy(b, a)'
  <2>1. r \notin HeldBy(b, a)
    BY <1>1, Filed
  <2>. QED  BY <1>1, <1>2, <1>3, <2>1, Unmoved DEF ListsInv, ListsMatch
<1>7. /\ \A a \in PartyA : partyAOpenPositions'[a] = OpenOf(a)'
      /\ \A b \in PartyB, a \in PartyA : partyBOpenPositions'[b][a] = PositionsOf(b, a)'
      /\ \A b \in PartyB : partyBPositionsCount'[b] = Cardinality(AllPositionsOf(b)')
  BY <1>1, <1>4, EnteredLists
<1>. QED  BY <1>5, <1>6, <1>7 DEF ListsMatch, CountsMatch

\* removeFromPendingQuotes, on partyB's side.
LEMMA LeftPending ==
  ASSUME ListsInv, NEW q \in QuoteIds, quotes[q].status \in HeldStatus, LeavePendingLists(q),
         \A b \in PartyB, a \in PartyA : HeldBy(b, a)' = HeldBy(b, a) \ {q}
  PROVE  \A b \in PartyB, a \in PartyA : partyBPendingQuotes'[b][a] = HeldBy(b, a)'
<1>. DEFINE a0 == quotes[q].partyA
            b0 == quotes[q].partyB
<1>1. TypeInv /\ a0 \in PartyA /\ b0 \in PartyB
  BY QuoteFacts DEF ListsInv
<1>2. partyBPendingQuotes' = [partyBPendingQuotes EXCEPT ![b0][a0] = @ \ {q}]
  BY DEF LeavePendingLists
<1>. SUFFICES ASSUME NEW b \in PartyB, NEW a \in PartyA
              PROVE  partyBPendingQuotes'[b][a] = HeldBy(b, a)'
  OBVIOUS
<1>3. HeldBy(b, a)' = HeldBy(b, a) \ {q}
  OBVIOUS
<1>4. a # a0 \/ b # b0 => q \notin HeldBy(b, a)
  BY <1>1, Filed
<1>. QED  BY <1>1, <1>2, <1>3, <1>4, ListTypes DEF ListsInv, ListsMatch

LEMMA OpenWholeLists ==
  ASSUME ListsInv, NEW q \in QuoteIds, NEW p \in Prices, OpenWhole(q, p)
  PROVE  ListsMatch' /\ CountsMatch'
<1>. DEFINE qt == quotes[q]
            a0 == qt.partyA
<1>1. TypeInv /\ qt.status \in HeldStatus /\ a0 \in PartyA /\ qt.partyB \in PartyB
  BY OpenWholeFacts DEF ListsInv
<1>2. PICK pos : /\ pos.status = "OPENED" /\ pos.partyA = a0 /\ pos.partyB = qt.partyB
                 /\ quotes' = [quotes EXCEPT ![q] = pos] /\ AddPosition(q, pos)
  BY OpenWholeFacts DEF ListsInv
<1>3. /\ partyAPendingQuotes' = [partyAPendingQuotes EXCEPT ![a0] = @ \ {q}]
      /\ LeavePendingLists(q)
  BY DEF OpenWhole
<1>4. Refiling(q, pos)
  BY <1>1, <1>2, OneReplaced
<1>5. Entering(q, pos)
  BY <1>1, <1>2, <1>4, EnteringOne
<1>6. ASSUME NEW a \in PartyA PROVE partyAPendingQuotes'[a] = PendingOf(a)'
  <2>1. PendingOf(a)' = PendingOf(a) \ {q}
    BY <1>2, <1>4 DEF Refiling, Refiled
  <2>2. a # a0 => q \notin PendingOf(a)
    BY <1>1, Filed
  <2>. QED  BY <1>1, <1>3, <2>1, <2>2, ListTypes DEF ListsInv, ListsMatch
<1>7. \A b \in PartyB, a \in PartyA : partyBPendingQuotes'[b][a] = HeldBy(b, a)'
  <2>1. \A b \in PartyB, a \in PartyA : HeldBy(b, a)' = HeldBy(b, a) \ {q}
    BY <1>2, <1>4 DEF Refiling, Refiled
  <2>. QED  BY <1>1, <1>3, <2>1, LeftPending
<1>8. /\ \A a \in PartyA : partyAOpenPositions'[a] = OpenOf(a)'
      /\ \A b \in PartyB, a \in PartyA : partyBOpenPositions'[b][a] = PositionsOf(b, a)'
      /\ \A b \in PartyB : partyBPositionsCount'[b] = Cardinality(AllPositionsOf(b)')
  BY <1>1, <1>2, <1>5, EnteredLists
<1>. QED  BY <1>6, <1>7, <1>8 DEF ListsMatch, CountsMatch

\* The rest of a partial fill is filed, if at all, with partyA's pending quotes.
LEMMA EnteringPart ==
  ASSUME TypeInv, NEW q \in QuoteIds, NEW r \in QuoteIds, q # r,
         quotes[q].status \in HeldStatus, quotes[r].status = "NONE",
         NEW pos, pos.status = "OPENED", NEW rest, rest.status \in {"PENDING", "CANCELED"},
         RefilingTwo(q, pos, r, rest)
  PROVE  /\ Entering(q, pos)
         /\ \A b \in PartyB, a \in PartyA : HeldBy(b, a)' = HeldBy(b, a) \ {q}
         /\ \A a \in PartyA :
              PendingOf(a)' = (PendingOf(a) \ {q})
                \cup (IF rest.partyA = a /\ rest.status = "PENDING" THEN {r} ELSE {})
<1>1. ASSUME NEW a \in PartyA
      PROVE  OpenOf(a)' = IF a = pos.partyA THEN OpenOf(a) \cup {q} ELSE OpenOf(a)
  <2>1. q \notin OpenOf(a) /\ r \notin OpenOf(a)
    BY Filed
  <2>2. OpenOf(a)' = Refiled(OpenOf(a), q, pos.partyA = a) \ {r}
    BY DEF RefilingTwo, Refiled
  <2>. QED  BY <2>1, <2>2 DEF Refiled
<1>2. ASSUME NEW b \in PartyB, NEW a \in PartyA
      PROVE  PositionsOf(b, a)' = IF a = pos.partyA /\ b = pos.partyB
                                  THEN PositionsOf(b, a) \cup {q} ELSE PositionsOf(b, a)
  <2>1. q \notin PositionsOf(b, a) /\ r \notin PositionsOf(b, a)
    BY Filed
  <2>2. PositionsOf(b, a)' = Refiled(PositionsOf(b, a), q, pos.partyA = a /\ pos.partyB = b) \ {r}
    BY DEF RefilingTwo, Refiled
  <2>. QED  BY <2>1, <2>2 DEF Refiled
<1>3. ASSUME NEW b \in PartyB
      PROVE  AllPositionsOf(b)' = IF b = pos.partyB THEN AllPositionsOf(b) \cup {q}
                                  ELSE AllPositionsOf(b)
  <2>1. q \notin AllPositionsOf(b) /\ r \notin AllPositionsOf(b)
    BY Filed
  <2>2. AllPositionsOf(b)' = Refiled(AllPositionsOf(b), q, pos.partyB = b) \ {r}
    BY DEF RefilingTwo, Refiled
  <2>. QED  BY <2>1, <2>2 DEF Refiled
<1>4. ASSUME NEW b \in PartyB, NEW a \in PartyA PROVE HeldBy(b, a)' = HeldBy(b, a) \ {q}
  <2>1. r \notin HeldBy(b, a)
    BY Filed
  <2>2. HeldBy(b, a)' = (HeldBy(b, a) \ {q}) \ {r}
    BY DEF RefilingTwo, Refiled
  <2>. QED  BY <2>1, <2>2
<1>5. ASSUME NEW a \in PartyA
      PROVE  PendingOf(a)' = (PendingOf(a) \ {q})
               \cup (IF rest.partyA = a /\ rest.status = "PENDING" THEN {r} ELSE {})
  <2>1. r \notin PendingOf(a)
    BY Filed
  <2>2. PendingOf(a)' = Refiled(PendingOf(a) \ {q}, r, rest.partyA = a /\ rest.status \in PendingStatus)
    BY DEF RefilingTwo, Refiled
  <2>. QED  BY <2>1, <2>2 DEF Refiled
<1>. QED  BY <1>1, <1>2, <1>3, <1>4, <1>5 DEF Entering

LEMMA OpenPartLists ==
  ASSUME ListsInv, NEW q \in QuoteIds, NEW n \in 1..quotes[q].quantity, NEW p \in Prices,
         OpenPart(q, n, p)
  PROVE  ListsMatch' /\ CountsMatch'
<1>. DEFINE qt == quotes[q]
            a0 == qt.partyA
            r == lastId + 1
            pos == PartOf(q, n, p)
            rest == Rest(q, qt, n)
<1>1. /\ TypeInv /\ r \in QuoteIds /\ q # r /\ quotes[r].status = "NONE"
      /\ qt.status \in HeldStatus /\ a0 \in PartyA /\ qt.partyB \in PartyB
      /\ pos.status = "OPENED" /\ pos.partyA = a0 /\ pos.partyB = qt.partyB
      /\ rest.partyA = a0 /\ rest.status \in {"PENDING", "CANCELED"}
      /\ rest.status = "CANCELED" <=> qt.status = "CANCEL_PENDING"
      /\ quotes' = [quotes EXCEPT ![q] = pos, ![r] = rest]
      /\ AddPosition(q, pos)
  BY OpenPartFacts, UsedId, FreshId DEF ListsInv
<1>2. /\ partyAPendingQuotes' =
           [partyAPendingQuotes EXCEPT ![a0] =
              (@ \ {q}) \cup (IF qt.status = "CANCEL_PENDING" THEN {} ELSE {r})]
      /\ LeavePendingLists(q)
  BY DEF OpenPart, RestPending
<1>. HIDE DEF r, pos, rest
<1>3. RefilingTwo(q, pos, r, rest)
  BY <1>1, TwoReplaced
<1>4. /\ Entering(q, pos)
      /\ \A b \in PartyB, a \in PartyA : HeldBy(b, a)' = HeldBy(b, a) \ {q}
      /\ \A a \in PartyA :
           PendingOf(a)' = (PendingOf(a) \ {q})
             \cup (IF rest.partyA = a /\ rest.status = "PENDING" THEN {r} ELSE {})
  BY <1>1, <1>3, EnteringPart
<1>5. ASSUME NEW a \in PartyA PROVE partyAPendingQuotes'[a] = PendingOf(a)'
  <2>1. a # a0 => q \notin PendingOf(a)
    BY <1>1, Filed
  <2>2. CASE a = a0
    BY <1>1, <1>2, <1>4, <2>2, ListTypes DEF ListsInv, ListsMatch
  <2>3. CASE a # a0
    <3>1. PendingOf(a)' = PendingOf(a)
      BY <1>1, <1>4, <2>1, <2>3
    <3>2. partyAPendingQuotes'[a] = partyAPendingQuotes[a]
      BY <1>1, <1>2, <2>3, ListTypes
    <3>. QED  BY <3>1, <3>2 DEF ListsInv, ListsMatch
  <2>. QED  BY <2>2, <2>3
<1>6. \A b \in PartyB, a \in PartyA : partyBPendingQuotes'[b][a] = HeldBy(b, a)'
  BY <1>1, <1>2, <1>4, LeftPending
<1>7. /\ \A a \in PartyA : partyAOpenPositions'[a] = OpenOf(a)'
      /\ \A b \in PartyB, a \in PartyA : partyBOpenPositions'[b][a] = PositionsOf(b, a)'
      /\ \A b \in PartyB : partyBPositionsCount'[b] = Cardinality(AllPositionsOf(b)')
  BY <1>1, <1>4, EnteredLists
<1>. QED  BY <1>5, <1>6, <1>7 DEF ListsMatch, CountsMatch

LEMMA ClosedLists ==
  ASSUME ListsInv, NEW q \in QuoteIds, NEW qt, NEW n, NEW p, NEW new, ClosedBy(q, qt, n, p, new)
  PROVE  ListsMatch' /\ CountsMatch'
<1>. DEFINE old == quotes[q]
            a0 == old.partyA
            b0 == old.partyB
<1>1. /\ TypeInv /\ old.status \in OpenStatus /\ a0 \in PartyA /\ b0 \in PartyB
      /\ qt.partyA = a0 /\ qt.partyB = b0 /\ new.partyA = a0 /\ new.partyB = b0
      /\ new.status \in OpenStatus \cup {"CLOSED"}
      /\ new.status = "CLOSED" <=> qt.closedAmount + n = qt.quantity
      /\ quotes' = [quotes EXCEPT ![q] = new]
  BY QuoteFacts DEF ClosedBy, ListsInv
<1>2. UNCHANGED <<partyAPendingQuotes, partyBPendingQuotes>>
  BY DEF ClosedBy, CloseQuote
<1>3. Refiling(q, new)
  BY <1>1, OneReplaced
<1>4. ASSUME NEW a \in PartyA PROVE partyAPendingQuotes'[a] = PendingOf(a)'
  <2>1. q \notin PendingOf(a)
    BY <1>1, Filed
  <2>. QED  BY <1>1, <1>2, <1>3, <2>1, Unmoved DEF ListsInv, ListsMatch
<1>5. ASSUME NEW b \in PartyB, NEW a \in PartyA PROVE partyBPendingQuotes'[b][a] = HeldBy(b, a)'
  <2>1. q \notin HeldBy(b, a)
    BY <1>1, Filed
  <2>. QED  BY <1>1, <1>2, <1>3, <2>1, Unmoved DEF ListsInv, ListsMatch
<1>6. CASE new.status = "CLOSED"
  <2>1. /\ partyAOpenPositions' = [partyAOpenPositions EXCEPT ![a0] = @ \ {q}]
        /\ partyBOpenPositions' = [partyBOpenPositions EXCEPT ![b0][a0] = @ \ {q}]
        /\ partyBPositionsCount' = [partyBPositionsCount EXCEPT ![b0] = @ - 1]
    BY <1>1, <1>6 DEF ClosedBy, CloseQuote
  <2>2. ASSUME NEW a \in PartyA PROVE partyAOpenPositions'[a] = OpenOf(a)'
    <3>1. OpenOf(a)' = OpenOf(a) \ {q}
      BY <1>3, <1>6 DEF Refiling, Refiled
    <3>2. a # a0 => q \notin OpenOf(a)
      BY <1>1, Filed
    <3>. QED  BY <1>1, <2>1, <3>1, <3>2, ListTypes DEF ListsInv, ListsMatch
  <2>3. ASSUME NEW b \in PartyB, NEW a \in PartyA
        PROVE  partyBOpenPositions'[b][a] = PositionsOf(b, a)'
    <3>1. PositionsOf(b, a)' = PositionsOf(b, a) \ {q}
      BY <1>3, <1>6 DEF Refiling, Refiled
    <3>2. a # a0 \/ b # b0 => q \notin PositionsOf(b, a)
      BY <1>1, Filed
    <3>. QED  BY <1>1, <2>1, <3>1, <3>2, ListTypes DEF ListsInv, ListsMatch
  <2>4. ASSUME NEW b \in PartyB PROVE partyBPositionsCount'[b] = Cardinality(AllPositionsOf(b)')
    <3>1. AllPositionsOf(b)' = AllPositionsOf(b) \ {q}
      BY <1>3, <1>6 DEF Refiling, Refiled
    <3>2. AllPositionsOf(b) \in SUBSET QuoteIds
      BY DEF AllPositionsOf
    <3>3. partyBPositionsCount[b] = Cardinality(AllPositionsOf(b))
      BY DEF ListsInv, CountsMatch
    <3>4. CASE b = b0
      <4>1. q \in AllPositionsOf(b)
        BY <1>1, <3>4, Filed
      <4>. QED  BY <1>1, <2>1, <3>1, <3>2, <3>3, <3>4, <4>1, CountIn, ListTypes
    <3>5. CASE b # b0
      <4>1. q \notin AllPositionsOf(b)
        BY <1>1, <3>5, Filed
      <4>. QED  BY <1>1, <2>1, <3>1, <3>3, <3>5, <4>1, ListTypes
    <3>. QED  BY <3>4, <3>5
  <2>. QED  BY <1>4, <1>5, <2>2, <2>3, <2>4 DEF ListsMatch, CountsMatch
<1>7. CASE new.status # "CLOSED"
  <2>1. UNCHANGED <<partyAOpenPositions, partyBOpenPositions, partyBPositionsCount>>
    BY <1>1, <1>7 DEF ClosedBy, CloseQuote
  <2>2. ASSUME NEW a \in PartyA PROVE OpenOf(a)' = OpenOf(a)
    BY <1>1, <1>3, <1>7, Filed, Unmoved
  <2>3. ASSUME NEW b \in PartyB, NEW a \in PartyA PROVE PositionsOf(b, a)' = PositionsOf(b, a)
    BY <1>1, <1>3, <1>7, Filed, Unmoved
  <2>4. ASSUME NEW b \in PartyB PROVE AllPositionsOf(b)' = AllPositionsOf(b)
    BY <1>1, <1>3, <1>7, Filed, Unmoved
  <2>. QED
    BY <1>4, <1>5, <2>1, <2>2, <2>3, <2>4 DEF ListsInv, ListsMatch, CountsMatch
<1>. QED  BY <1>6, <1>7

LEMMA ElsewhereLists ==
  ASSUME ListsInv, Elsewhere \/ UNCHANGED vars
  PROVE  ListsMatch' /\ CountsMatch'
<1>1. UNCHANGED <<quotes, lists>>
  BY DEF Elsewhere, vars
<1>. QED
  BY <1>1 DEF ListsInv, ListsMatch, CountsMatch, lists, PendingOf, OpenOf, HeldBy, PositionsOf,
              AllPositionsOf

LEMMA QuoteStepLists ==
  ASSUME ListsInv, NEW q \in QuoteIds, QuoteStep(q)
  PROVE  ListsMatch' /\ CountsMatch'
BY DroppedLists, UnlockedLists, RetouchedLists, OpenWholeLists, OpenPartLists, ClosedLists
   DEF QuoteStep

LEMMA NextLists ==
  ASSUME ListsInv, [Next]_vars
  PROVE  ListsInv'
<1>1. TypeInv'
  BY NextType DEF ListsInv
<1>2. IdsFresh'
  BY <1>1, NextFresh DEF ListsInv
<1>3. ListsMatch' /\ CountsMatch'
  BY <1>1, StepEffect, SentLists, TemplatedLists, LockedLists, QuoteStepLists, ElsewhereLists
     DEF ListsInv
<1>. QED  BY <1>1, <1>2, <1>3 DEF ListsInv

\* The invariant behind the theorems on lists, connections and their bounds.
THEOREM ListsInvariant == Spec => []ListsInv
<1>1. Init => ListsInv
  BY InitType, InitFresh, InitLists DEF ListsInv
<1>2. ListsInv /\ [Next]_vars => ListsInv'
  BY NextLists
<1>. QED
  BY <1>1, <1>2, PTL DEF Spec

\* Whatever the order of handler calls, the pending and open lists of both parties
\* and the address(0) counters hold exactly the quotes whose status says so.
THEOREM ListsCorrect == Spec => []ListsMatchStatus
<1>1. ListsInv => ListsMatchStatus
  BY ListsSplit DEF ListsInv
<1>. QED
  BY <1>1, ListsInvariant, PTL

----------------------------------------------------------------------------
(* Connections.                                                            *)

\* ConnectionsMatch, said of partyB's lists instead of the quotes.
Connected ==
  \A a \in PartyA, b \in PartyB :
    /\ partyBOpenPositions[b][a] # {} => b \in connectedPartyBs[a]
    /\ b \in connectedPartyBs[a] => partyBOpenPositions[b][a] # {} \/ partyBPendingQuotes[b][a] # {}

LEMMA ConnectedSays == ListsMatch => (Connected <=> ConnectionsMatch)
BY DEF ListsMatch, Connected, ConnectionsMatch

LEMMA InitConnected == Init => Connected
BY DEF Init, Connected

\* partyB's lists lose q for a0 and the connection goes when nothing is left.
LEMMA DisconnectedKeeps ==
  ASSUME TypeInv, Connected, NEW a0 \in PartyA, NEW b0 \in PartyB, NEW S,
         \/ partyBPendingQuotes' = [partyBPendingQuotes EXCEPT ![b0][a0] = S]
            /\ UNCHANGED partyBOpenPositions
         \/ partyBOpenPositions' = [partyBOpenPositions EXCEPT ![b0][a0] = @ \ S]
            /\ UNCHANGED partyBPendingQuotes,
         RemoveConnectionIfNoPositions(a0, b0)
  PROVE  Connected'
<1>1. connectedPartyBs \in [PartyA -> SUBSET PartyB]
  BY DEF TypeInv, TypeOK
<1>2. ASSUME NEW a \in PartyA, NEW b \in PartyB
      PROVE  /\ partyBOpenPositions'[b][a] # {} => b \in connectedPartyBs'[a]
             /\ b \in connectedPartyBs'[a] =>
                  partyBOpenPositions'[b][a] # {} \/ partyBPendingQuotes'[b][a] # {}
  <2>1. CASE a = a0 /\ b = b0
    <3>1. partyBOpenPositions'[b][a] \subseteq partyBOpenPositions[b][a]
      BY <2>1, ListTypes
    <3>2. connectedPartyBs'[a] =
            IF partyBOpenPositions'[b][a] = {} /\ partyBPendingQuotes'[b][a] = {}
            THEN connectedPartyBs[a] \ {b} ELSE connectedPartyBs[a]
      BY <1>1, <2>1 DEF RemoveConnectionIfNoPositions
    <3>3. partyBOpenPositions[b][a] # {} => b \in connectedPartyBs[a]
      BY DEF Connected
    <3>. QED  BY <3>1, <3>2, <3>3
  <2>2. CASE ~(a = a0 /\ b = b0)
    <3>1. /\ partyBOpenPositions'[b][a] = partyBOpenPositions[b][a]
          /\ partyBPendingQuotes'[b][a] = partyBPendingQuotes[b][a]
      BY <2>2, ListTypes
    <3>2. b \in connectedPartyBs'[a] <=> b \in connectedPartyBs[a]
      BY <1>1, <2>2 DEF RemoveConnectionIfNoPositions
    <3>. QED  BY <3>1, <3>2 DEF Connected
  <2>. QED  BY <2>1, <2>2
<1>. QED  BY <1>2 DEF Connected

\* A new position connects the pair; what it leaves in the pending list of
\* another pair is untouched.
LEMMA AddedConnects ==
  ASSUME TypeInv, Connected, NEW q, NEW pos, pos.partyA \in PartyA, pos.partyB \in PartyB,
         AddPosition(q, pos), NEW S,
         \/ UNCHANGED partyBPendingQuotes
         \/ partyBPendingQuotes' = [partyBPendingQuotes EXCEPT ![pos.partyB][pos.partyA] = S]
  PROVE  Connected'
<1>. DEFINE a0 == pos.partyA
            b0 == pos.partyB
<1>1. /\ partyBOpenPositions' = [partyBOpenPositions EXCEPT ![b0][a0] = @ \cup {q}]
      /\ connectedPartyBs' = [connectedPartyBs EXCEPT ![a0] = @ \cup {b0}]
  BY DEF AddPosition, AddConnection
<1>2. connectedPartyBs \in [PartyA -> SUBSET PartyB]
  BY DEF TypeInv, TypeOK
<1>3. ASSUME NEW a \in PartyA, NEW b \in PartyB
      PROVE  /\ partyBOpenPositions'[b][a] # {} => b \in connectedPartyBs'[a]
             /\ b \in connectedPartyBs'[a] =>
                  partyBOpenPositions'[b][a] # {} \/ partyBPendingQuotes'[b][a] # {}
  <2>1. CASE a = a0 /\ b = b0
    <3>1. q \in partyBOpenPositions'[b][a] /\ b \in connectedPartyBs'[a]
      BY <1>1, <1>2, <2>1, ListTypes
    <3>. QED  BY <3>1
  <2>2. CASE ~(a = a0 /\ b = b0)
    <3>1. /\ partyBOpenPositions'[b][a] = partyBOpenPositions[b][a]
          /\ partyBPendingQuotes'[b][a] = partyBPendingQuotes[b][a]
      BY <1>1, <2>2, ListTypes
    <3>2. b \in connectedPartyBs'[a] <=> b \in connectedPartyBs[a]
      BY <1>1, <1>2, <2>2
    <3>. QED  BY <3>1, <3>2 DEF Connected
  <2>. QED  BY <2>1, <2>2
<1>. QED  BY <1>3 DEF Connected

LEMMA QuoteStepConnected ==
  ASSUME TypeInv, Connected, NEW q \in QuoteIds, QuoteStep(q)
  PROVE  Connected'
<1>. DEFINE old == quotes[q]
            a0 == old.partyA
            b0 == old.partyB
<1>1. /\ old.status # "NONE" => a0 \in PartyA
      /\ old.status \in HeldStatus \cup OpenStatus => b0 \in PartyB
  BY QuoteFacts
<1>2. ASSUME PartyBLetsGo(q), old.status \in HeldStatus PROVE Connected'
  <2>1. /\ partyBPendingQuotes' =
             [partyBPendingQuotes EXCEPT ![b0][a0] = partyBPendingQuotes[b0][a0] \ {q}]
        /\ UNCHANGED partyBOpenPositions /\ RemoveConnectionIfNoPositions(a0, b0)
    BY <1>1, <1>2, ListTypes DEF PartyBLetsGo
  <2>. QED  BY <1>1, <1>2, <2>1, DisconnectedKeeps
<1>3. ASSUME NEW st, Dropped(q, st) PROVE Connected'
  <2>1. CASE old.status \in HeldStatus
    <3>1. PartyBLetsGo(q)
      BY <1>3, <2>1 DEF Dropped, Leave
    <3>. QED  BY <1>2, <2>1, <3>1
  <2>2. CASE old.status \notin HeldStatus
    BY <1>3, <2>2 DEF Dropped, Leave, Connected
  <2>. QED  BY <2>1, <2>2
<1>4. CASE Unlocked(q)
  BY <1>2, <1>4 DEF Unlocked
<1>5. ASSUME NEW new, Retouched(q, new) PROVE Connected'
  BY <1>5 DEF Retouched, UpdateOnly, lists, Connected
<1>6. ASSUME LeavePendingLists(q), NEW pos, AddPosition(q, pos),
             pos.partyA = a0, pos.partyB = b0, old.status \in HeldStatus
      PROVE  Connected'
  <2>1. partyBPendingQuotes' =
          [partyBPendingQuotes EXCEPT ![b0][a0] = partyBPendingQuotes[b0][a0] \ {q}]
    BY <1>1, <1>6, ListTypes DEF LeavePendingLists
  <2>. QED  BY <1>1, <1>6, <2>1, AddedConnects
<1>7. ASSUME NEW p \in Prices, OpenWhole(q, p) PROVE Connected'
  <2>1. LeavePendingLists(q)
    BY <1>7 DEF OpenWhole
  <2>. QED  BY <1>6, <1>7, <2>1, OpenWholeFacts
<1>8. ASSUME NEW n \in 1..quotes[q].quantity, NEW p \in Prices, OpenPart(q, n, p) PROVE Connected'
  <2>1. LeavePendingLists(q)
    BY <1>8 DEF OpenPart
  <2>. QED  BY <1>6, <1>8, <2>1, OpenPartFacts
<1>9. ASSUME NEW qt, NEW n, NEW p, NEW new, ClosedBy(q, qt, n, p, new) PROVE Connected'
  <2>1. /\ qt.partyA = a0 /\ qt.partyB = b0 /\ old.status \in OpenStatus
        /\ UNCHANGED partyBPendingQuotes
        /\ \/ /\ partyBOpenPositions' = [partyBOpenPositions EXCEPT ![b0][a0] = @ \ {q}]
              /\ RemoveConnectionIfNoPositions(a0, b0)
           \/ UNCHANGED <<partyBOpenPositions, connectedPartyBs>>
    BY <1>9 DEF ClosedBy, CloseQuote
  <2>2. CASE /\ partyBOpenPositions' = [partyBOpenPositions EXCEPT ![b0][a0] = @ \ {q}]
             /\ RemoveConnectionIfNoPositions(a0, b0)
    BY <1>1, <2>1, <2>2, DisconnectedKeeps
  <2>3. CASE UNCHANGED <<partyBOpenPositions, connectedPartyBs>>
    BY <2>1, <2>3 DEF Connected
  <2>. QED  BY <2>1, <2>2, <2>3
<1>. QED  BY <1>3, <1>4, <1>5, <1>7, <1>8, <1>9 DEF QuoteStep

LEMMA NextConnected ==
  ASSUME TypeInv, TypeInv', Connected, [Next]_vars
  PROVE  Connected'
<1>1. ASSUME NEW o \in Offers, SendQuote(o) PROVE Connected'
  BY <1>1 DEF SendQuote, Connected
<1>2. ASSUME NEW o \in Offers, NEW b \in PartyB, NEW p \in Prices, InstantOpen(o, b, p)
      PROVE  Connected'
  <2>1. UNCHANGED partyBPendingQuotes
    BY <1>2 DEF InstantOpen
  <2>. QED  BY <1>2, <2>1, InstantOpenFacts, AddedConnects
<1>3. ASSUME NEW q \in QuoteIds, NEW b \in PartyB, LockQuote(b, q) PROVE Connected'
  <2>1. quotes[q].partyA \in PartyA
    BY <1>3, QuoteFacts DEF LockQuote, MayLock
  <2>2. /\ partyBPendingQuotes' = [partyBPendingQuotes EXCEPT ![b][quotes[q].partyA] = @ \cup {q}]
        /\ UNCHANGED <<partyBOpenPositions, connectedPartyBs>>
    BY <1>3 DEF LockQuote
  <2>3. \A x \in PartyB, a \in PartyA : partyBPendingQuotes[x][a] \subseteq partyBPendingQuotes'[x][a]
    BY <2>1, <2>2, ListTypes
  <2>. QED  BY <2>2, <2>3 DEF Connected
<1>4. CASE Elsewhere \/ UNCHANGED vars
  BY <1>4 DEF Elsewhere, vars, lists, Connected
<1>. QED
  BY <1>1, <1>2, <1>3, <1>4, QuoteStepConnected, StepEffect

\* A partyA is connected to every partyB it has a position with and to none that
\* neither has one nor holds a quote of it: no handler forgets to connect or to
\* disconnect them.
THEOREM ConnectionsCorrect == Spec => []ConnectionsMatch
<1>1. Init => Connected
  BY InitConnected
<1>2. TypeInv /\ TypeInv' /\ Connected /\ [Next]_vars => Connected'
  BY NextConnected
<1>3. ListsInv /\ Connected => ConnectionsMatch
  BY ConnectedSays DEF ListsInv
<1>. QED
  BY <1>1, <1>2, <1>3, TypeInvariant, ListsInvariant, PTL DEF Spec

----------------------------------------------------------------------------
(* The limits that keep liquidation loops short.                           *)

\* The set of connections is finite because it grows by one at a time.
Bounded ==
  \A a \in PartyA :
    /\ Cardinality(partyAPendingQuotes[a]) <= PendingQuotesValidLength
    /\ IsFiniteSet(connectedPartyBs[a])
    /\ Cardinality(connectedPartyBs[a]) <= MaxPartyAConnectionLimit

LEMMA InitBounded == Init => Bounded
BY NumbersAssumption, FS_EmptySet DEF Init, Bounded

\* A part of a finite set is no larger.
LEMMA PartBounded ==
  ASSUME NEW S, IsFiniteSet(S), NEW T \in SUBSET S, NEW n \in Nat, Cardinality(S) <= n
  PROVE  IsFiniteSet(T) /\ Cardinality(T) <= n
BY FS_Subset, FS_CardinalityType

\* Connections that only go, or come within the limit, and pending lists that keep
\* their size or shrink.
LEMMA ConnectionsBounded ==
  ASSUME TypeInv, Bounded,
         \/ \A a \in PartyA : connectedPartyBs'[a] \subseteq connectedPartyBs[a]
         \/ \E a0 \in PartyA, b0 \in PartyB : AddConnection(a0, b0)
  PROVE  \A a \in PartyA : /\ IsFiniteSet(connectedPartyBs'[a])
                           /\ Cardinality(connectedPartyBs'[a]) <= MaxPartyAConnectionLimit
<1>. SUFFICES ASSUME NEW a \in PartyA
              PROVE  /\ IsFiniteSet(connectedPartyBs'[a])
                     /\ Cardinality(connectedPartyBs'[a]) <= MaxPartyAConnectionLimit
  OBVIOUS
<1>1. /\ connectedPartyBs \in [PartyA -> SUBSET PartyB] /\ MaxPartyAConnectionLimit \in Nat
      /\ IsFiniteSet(connectedPartyBs[a])
      /\ Cardinality(connectedPartyBs[a]) <= MaxPartyAConnectionLimit
      /\ Cardinality(connectedPartyBs[a]) \in Nat
  BY NumbersAssumption, FS_CardinalityType DEF TypeInv, TypeOK, Bounded
<1>2. CASE connectedPartyBs'[a] \subseteq connectedPartyBs[a]
  BY <1>1, <1>2, PartBounded
<1>3. ASSUME NEW a0 \in PartyA, NEW b0 \in PartyB, AddConnection(a0, b0)
      PROVE  /\ IsFiniteSet(connectedPartyBs'[a])
             /\ Cardinality(connectedPartyBs'[a]) <= MaxPartyAConnectionLimit
  <2>1. /\ connectedPartyBs' = [connectedPartyBs EXCEPT ![a0] = @ \cup {b0}]
        /\ b0 \notin connectedPartyBs[a0] =>
             Cardinality(connectedPartyBs[a0]) < MaxPartyAConnectionLimit
    BY <1>3 DEF AddConnection
  <2>2. CASE a = a0 /\ b0 \notin connectedPartyBs[a]
    <3>1. connectedPartyBs'[a] = connectedPartyBs[a] \cup {b0}
      BY <1>1, <2>1, <2>2
    <3>2. /\ IsFiniteSet(connectedPartyBs'[a])
          /\ Cardinality(connectedPartyBs'[a]) = Cardinality(connectedPartyBs[a]) + 1
      BY <1>1, <2>2, <3>1, FS_AddElement
    <3>. QED  BY <1>1, <2>1, <2>2, <3>2
  <2>3. CASE ~(a = a0 /\ b0 \notin connectedPartyBs[a])
    <3>1. connectedPartyBs'[a] = connectedPartyBs[a]
      BY <1>1, <2>1, <2>3
    <3>. QED  BY <1>1, <3>1
  <2>. QED  BY <2>2, <2>3
<1>. QED  BY <1>2, <1>3

LEMMA RemovalShrinks ==
  ASSUME TypeInv, NEW a0, NEW b0, RemoveConnectionIfNoPositions(a0, b0)
  PROVE  \A a \in PartyA : connectedPartyBs'[a] \subseteq connectedPartyBs[a]
<1>1. connectedPartyBs \in [PartyA -> SUBSET PartyB]
  BY DEF TypeInv, TypeOK
<1>. QED  BY <1>1 DEF RemoveConnectionIfNoPositions

\* The pending list of one partyA loses q, or has it replaced by r, or gains r
\* while it is short enough.
LEMMA PendingBounded ==
  ASSUME TypeInv, Bounded, NEW a0 \in PartyA, NEW q \in QuoteIds, NEW r \in QuoteIds,
         \/ partyAPendingQuotes' = [partyAPendingQuotes EXCEPT ![a0] = @ \ {q}]
         \/ q \in partyAPendingQuotes[a0]
            /\ partyAPendingQuotes' = [partyAPendingQuotes EXCEPT ![a0] = (@ \ {q}) \cup {r}]
         \/ Cardinality(partyAPendingQuotes[a0]) < PendingQuotesValidLength
            /\ partyAPendingQuotes' = [partyAPendingQuotes EXCEPT ![a0] = @ \cup {r}]
         \/ UNCHANGED partyAPendingQuotes
  PROVE  \A a \in PartyA : Cardinality(partyAPendingQuotes'[a]) <= PendingQuotesValidLength
<1>. SUFFICES ASSUME NEW a \in PartyA
              PROVE  Cardinality(partyAPendingQuotes'[a]) <= PendingQuotesValidLength
  OBVIOUS
<1>. DEFINE S == partyAPendingQuotes[a]
<1>1. /\ partyAPendingQuotes \in [PartyA -> SUBSET QuoteIds] /\ PendingQuotesValidLength \in Nat
      /\ S \in SUBSET QuoteIds /\ Cardinality(S) <= PendingQuotesValidLength
  BY NumbersAssumption DEF TypeInv, TypeOK, Bounded
<1>2. IsFiniteSet(S) /\ Cardinality(S) \in Nat
  BY <1>1, IdsFinite, CountIn
<1>3. CASE partyAPendingQuotes'[a] = S
  BY <1>1, <1>3
<1>4. CASE partyAPendingQuotes'[a] = S \ {q}
  BY <1>1, <1>2, <1>4, PartBounded
<1>5. CASE q \in S /\ partyAPendingQuotes'[a] = (S \ {q}) \cup {r}
  <2>. DEFINE T == S \ {q}
  <2>1. T \in SUBSET QuoteIds /\ Cardinality(T) = Cardinality(S) - 1
    BY <1>1, <1>5, CountIn
  <2>2. Cardinality(T \cup {r}) <= Cardinality(T) + 1
    <3>1. CASE r \in T
      <4>1. T \cup {r} = T
        BY <3>1
      <4>2. Cardinality(T \cup {r}) = Cardinality(T)
        BY <4>1
      <4>3. Cardinality(T) \in Nat
        BY <2>1, CountIn
      <4>. HIDE DEF T
      <4>. QED  BY <4>2, <4>3
    <3>2. CASE r \notin T
      BY <2>1, <3>2, CountIn
    <3>. QED  BY <3>1, <3>2
  <2>3. Cardinality(T \cup {r}) \in Nat
    BY <2>1, CountIn
  <2>. HIDE DEF T
  <2>. QED  BY <1>1, <1>2, <1>5, <2>1, <2>2, <2>3 DEF T
<1>6. CASE Cardinality(S) < PendingQuotesValidLength /\ partyAPendingQuotes'[a] = S \cup {r}
  <2>1. CASE r \in S
    <3>1. S \cup {r} = S
      BY <2>1
    <3>. QED  BY <1>1, <1>6, <3>1
  <2>2. CASE r \notin S
    BY <1>1, <1>2, <1>6, <2>2, CountIn
  <2>. QED  BY <2>1, <2>2
<1>. QED  BY <1>1, <1>3, <1>4, <1>5, <1>6

LEMMA QuoteStepBounded ==
  ASSUME TypeInv, Bounded, NEW q \in QuoteIds, QuoteStep(q)
  PROVE  Bounded'
<1>. DEFINE old == quotes[q]
            a0 == old.partyA
            b0 == old.partyB
<1>1. old.status # "NONE" => a0 \in PartyA
  BY QuoteFacts
<1>2. ASSUME NEW st, Dropped(q, st) PROVE Bounded'
  <2>1. a0 \in PartyA /\ partyAPendingQuotes' = [partyAPendingQuotes EXCEPT ![a0] = @ \ {q}]
    BY <1>1, <1>2 DEF Dropped, Leave
  <2>2. UNCHANGED connectedPartyBs \/ RemoveConnectionIfNoPositions(a0, b0)
    BY <1>2 DEF Dropped, Leave, PartyBLetsGo
  <2>3. \A a \in PartyA : connectedPartyBs'[a] \subseteq connectedPartyBs[a]
    BY <2>2, RemovalShrinks
  <2>. QED  BY <2>1, <2>3, PendingBounded, ConnectionsBounded DEF Bounded
<1>3. CASE Unlocked(q)
  <2>1. a0 \in PartyA /\ UNCHANGED partyAPendingQuotes
    BY <1>1, <1>3 DEF Unlocked
  <2>2. RemoveConnectionIfNoPositions(a0, b0)
    BY <1>3 DEF Unlocked, PartyBLetsGo
  <2>3. \A a \in PartyA : connectedPartyBs'[a] \subseteq connectedPartyBs[a]
    BY <2>2, RemovalShrinks
  <2>. QED  BY <2>1, <2>3, PendingBounded, ConnectionsBounded DEF Bounded
<1>4. ASSUME NEW new, Retouched(q, new) PROVE Bounded'
  BY <1>4 DEF Retouched, UpdateOnly, lists, Bounded
<1>5. ASSUME NEW p \in Prices, OpenWhole(q, p) PROVE Bounded'
  <2>1. a0 \in PartyA /\ b0 \in PartyB
        /\ partyAPendingQuotes' = [partyAPendingQuotes EXCEPT ![a0] = @ \ {q}]
    BY <1>5, OpenWholeFacts DEF OpenWhole
  <2>2. AddConnection(a0, b0)
    BY <1>5, OpenWholeFacts DEF AddPosition
  <2>. QED  BY <2>1, <2>2, PendingBounded, ConnectionsBounded DEF Bounded
<1>6. ASSUME NEW n \in 1..quotes[q].quantity, NEW p \in Prices, OpenPart(q, n, p) PROVE Bounded'
  <2>1. a0 \in PartyA /\ b0 \in PartyB /\ lastId + 1 \in QuoteIds
    BY <1>6, OpenPartFacts
  <2>2. /\ q \in partyAPendingQuotes[a0]
        /\ \/ partyAPendingQuotes' = [partyAPendingQuotes EXCEPT ![a0] = (@ \ {q}) \cup {lastId + 1}]
           \/ partyAPendingQuotes' = [partyAPendingQuotes EXCEPT ![a0] = @ \ {q}]
    <3>1. partyAPendingQuotes' = [partyAPendingQuotes EXCEPT ![a0] = (@ \ {q}) \cup RestPending(old)]
      BY <1>6 DEF OpenPart
    <3>2. RestPending(old) \in {{}, {lastId + 1}}
      BY DEF RestPending
    <3>3. q \in partyAPendingQuotes[a0]
      BY <1>6 DEF OpenPart, LeavePendingLists
    <3>. QED  BY <3>1, <3>2, <3>3
  <2>3. AddConnection(a0, b0)
    BY <1>6, OpenPartFacts DEF AddPosition
  <2>4. \A a \in PartyA : Cardinality(partyAPendingQuotes'[a]) <= PendingQuotesValidLength
    BY <2>1, <2>2, PendingBounded
  <2>. QED  BY <2>1, <2>3, <2>4, ConnectionsBounded DEF Bounded
<1>7. ASSUME NEW qt, NEW n, NEW p, NEW new, ClosedBy(q, qt, n, p, new) PROVE Bounded'
  <2>1. a0 \in PartyA /\ UNCHANGED partyAPendingQuotes
    BY <1>1, <1>7 DEF ClosedBy, CloseQuote
  <2>2. UNCHANGED connectedPartyBs \/ RemoveConnectionIfNoPositions(a0, b0)
    BY <1>7 DEF ClosedBy, CloseQuote
  <2>3. \A a \in PartyA : connectedPartyBs'[a] \subseteq connectedPartyBs[a]
    BY <2>2, RemovalShrinks
  <2>. QED  BY <2>1, <2>3, PendingBounded, ConnectionsBounded DEF Bounded
<1>. QED  BY <1>2, <1>3, <1>4, <1>5, <1>6, <1>7 DEF QuoteStep

LEMMA NextBounded ==
  ASSUME TypeInv, TypeInv', Bounded, [Next]_vars
  PROVE  Bounded'
<1>1. ASSUME NEW o \in Offers, SendQuote(o) PROVE Bounded'
  <2>1. /\ o.partyA \in PartyA /\ lastId + 1 \in QuoteIds
        /\ Cardinality(partyAPendingQuotes[o.partyA]) < PendingQuotesValidLength
        /\ partyAPendingQuotes' = [partyAPendingQuotes EXCEPT ![o.partyA] = @ \cup {lastId + 1}]
        /\ UNCHANGED connectedPartyBs
    BY <1>1, SendFacts DEF SendQuote, MaySend
  <2>2. \A a \in PartyA : Cardinality(partyAPendingQuotes'[a]) <= PendingQuotesValidLength
    BY <2>1, PendingBounded
  <2>. QED  BY <2>1, <2>2 DEF Bounded
<1>2. ASSUME NEW o \in Offers, NEW b \in PartyB, NEW p \in Prices, InstantOpen(o, b, p)
      PROVE  Bounded'
  <2>1. UNCHANGED partyAPendingQuotes
    BY <1>2 DEF InstantOpen
  <2>2. o.partyA \in PartyA /\ AddConnection(o.partyA, b)
    BY <1>2, InstantOpenFacts DEF AddPosition
  <2>3. \A a \in PartyA : /\ IsFiniteSet(connectedPartyBs'[a])
                          /\ Cardinality(connectedPartyBs'[a]) <= MaxPartyAConnectionLimit
    BY <2>2, ConnectionsBounded
  <2>. QED  BY <2>1, <2>3 DEF Bounded
<1>3. ASSUME NEW q \in QuoteIds, NEW b \in PartyB, LockQuote(b, q) PROVE Bounded'
  BY <1>3 DEF LockQuote, Bounded
<1>4. CASE Elsewhere \/ UNCHANGED vars
  BY <1>4 DEF Elsewhere, vars, lists, Bounded
<1>. QED
  BY <1>1, <1>2, <1>3, <1>4, QuoteStepBounded, StepEffect

\* The loops over a partyA's pending quotes and connections never exceed the limits
\* that sendQuote and openPosition check, whatever splits, fills and templates do
\* to the lists in between.
THEOREM ListsStayBounded == Spec => []ListsBounded
<1>1. Init => Bounded
  BY InitBounded
<1>2. TypeInv /\ TypeInv' /\ Bounded /\ [Next]_vars => Bounded'
  BY NextBounded
<1>3. Bounded => ListsBounded
  BY DEF Bounded, ListsBounded
<1>. QED
  BY <1>1, <1>2, <1>3, TypeInvariant, PTL DEF Spec

----------------------------------------------------------------------------
(* What one quote puts into each pool, and the pools as sums over all ids. *)

PendingShare(qt, a) == IF qt.partyA = a /\ qt.status \in PendingStatus THEN qt.locked ELSE 0
LockedShare(qt, a)  == IF qt.partyA = a /\ qt.status \in OpenStatus THEN qt.locked ELSE 0
FeeShare(qt, a)     == IF qt.partyA = a /\ qt.status \in PendingStatus THEN OpenTradingFee(qt) ELSE 0

\* k is a partyA, or Zero for all of them.
HeldShare(qt, b, k) ==
  IF qt.partyB = b /\ k \in {qt.partyA, Zero} /\ qt.status \in HeldStatus THEN qt.locked ELSE 0
PositionShare(qt, b, k) ==
  IF qt.partyB = b /\ k \in {qt.partyA, Zero} /\ qt.status \in OpenStatus THEN qt.locked ELSE 0

PendingSum(a)     == Total(QuoteIds, [q \in QuoteIds |-> PendingShare(quotes[q], a)])
LockedSum(a)      == Total(QuoteIds, [q \in QuoteIds |-> LockedShare(quotes[q], a)])
FeeSum(a)         == Total(QuoteIds, [q \in QuoteIds |-> FeeShare(quotes[q], a)])
HeldSum(b, k)     == Total(QuoteIds, [q \in QuoteIds |-> HeldShare(quotes[q], b, k)])
PositionSum(b, k) == Total(QuoteIds, [q \in QuoteIds |-> PositionShare(quotes[q], b, k)])

\* The pools are these sums.
PoolsExact ==
  /\ \A a \in PartyA :
       /\ pendingLockedBalances[a] = PendingSum(a)
       /\ lockedBalances[a] = LockedSum(a)
  /\ \A b \in PartyB, k \in BucketOf :
       /\ partyBPendingLockedBalances[b][k] = HeldSum(b, k)
       /\ partyBLockedBalances[b][k] = PositionSum(b, k)

FeesExact == \A a \in PartyA : partyAReservedOpenFees[a] = FeeSum(a)

LEMMA IdsAreFinite == IsFiniteSet(QuoteIds)
BY NumbersAssumption, FS_Interval DEF QuoteIds

LEMMA SharesNat ==
  ASSUME NEW qt \in QuoteType, qt.closedAmount <= qt.quantity, NEW a, NEW b, NEW k
  PROVE  /\ PendingShare(qt, a) \in Nat /\ LockedShare(qt, a) \in Nat /\ FeeShare(qt, a) \in Nat
         /\ HeldShare(qt, b, k) \in Nat /\ PositionShare(qt, b, k) \in Nat
<1>1. qt.locked \in Nat /\ OpenTradingFee(qt) \in Nat
  BY FeeNat DEF QuoteType
<1>. QED  BY <1>1 DEF PendingShare, LockedShare, FeeShare, HeldShare, PositionShare

LEMMA AllSharesNat ==
  ASSUME TypeInv, NEW q \in QuoteIds, NEW a, NEW b, NEW k
  PROVE  /\ PendingShare(quotes[q], a) \in Nat /\ LockedShare(quotes[q], a) \in Nat
         /\ FeeShare(quotes[q], a) \in Nat
         /\ HeldShare(quotes[q], b, k) \in Nat /\ PositionShare(quotes[q], b, k) \in Nat
<1>1. quotes[q] \in QuoteType /\ quotes[q].closedAmount <= quotes[q].quantity
  BY QuoteFacts DEF GoodQuote
<1>. QED  BY <1>1, SharesNat

\* Pools and reserves as the properties of Quotes state them.
LEMMA MarginSum ==
  ASSUME TypeInv, NEW S \in SUBSET QuoteIds, NEW f,
         \A q \in QuoteIds : f[q] = IF q \in S THEN quotes[q].locked ELSE 0
  PROVE  Total(QuoteIds, f) = Margin(S)
<1>. DEFINE g == [q \in S |-> quotes[q].locked]
<1>1. \A q \in QuoteIds : f[q] \in Nat
  BY QuoteFacts
<1>2. \A q \in QuoteIds \ S : f[q] = 0
  OBVIOUS
<1>3. \A q \in S : g[q] = f[q]
  OBVIOUS
<1>. HIDE DEF g
<1>4. Total(QuoteIds, f) = Total(S, g)
  BY <1>1, <1>2, <1>3, IdsAreFinite, TotalWithin
<1>. QED  BY <1>4 DEF g, Margin

LEMMA SumsSay ==
  ASSUME TypeInv
  PROVE  /\ \A a \in PartyA : /\ PendingSum(a) = Margin(PendingOf(a))
                              /\ LockedSum(a) = Margin(OpenOf(a))
                              /\ FeeSum(a) = Fees(PendingOf(a))
         /\ \A b \in PartyB :
              /\ \A a \in PartyA : /\ HeldSum(b, a) = Margin(HeldBy(b, a))
                                   /\ PositionSum(b, a) = Margin(PositionsOf(b, a))
              /\ HeldSum(b, Zero) = Margin(UNION {HeldBy(b, a) : a \in PartyA})
              /\ PositionSum(b, Zero) = Margin(UNION {PositionsOf(b, a) : a \in PartyA})
<1>1. ASSUME NEW a \in PartyA PROVE PendingSum(a) = Margin(PendingOf(a))
  <2>. DEFINE f == [q \in QuoteIds |-> PendingShare(quotes[q], a)]
  <2>1. \A q \in QuoteIds : f[q] = IF q \in PendingOf(a) THEN quotes[q].locked ELSE 0
    BY DEF PendingShare, PendingOf
  <2>2. PendingOf(a) \in SUBSET QuoteIds
    BY DEF PendingOf
  <2>. HIDE DEF f
  <2>3. Total(QuoteIds, f) = Margin(PendingOf(a))
    BY <2>1, <2>2, MarginSum
  <2>. QED  BY <2>3 DEF f, PendingSum
<1>2. ASSUME NEW a \in PartyA PROVE LockedSum(a) = Margin(OpenOf(a))
  <2>. DEFINE f == [q \in QuoteIds |-> LockedShare(quotes[q], a)]
  <2>1. \A q \in QuoteIds : f[q] = IF q \in OpenOf(a) THEN quotes[q].locked ELSE 0
    BY DEF LockedShare, OpenOf
  <2>2. OpenOf(a) \in SUBSET QuoteIds
    BY DEF OpenOf
  <2>. HIDE DEF f
  <2>3. Total(QuoteIds, f) = Margin(OpenOf(a))
    BY <2>1, <2>2, MarginSum
  <2>. QED  BY <2>3 DEF f, LockedSum
<1>3. ASSUME NEW a \in PartyA PROVE FeeSum(a) = Fees(PendingOf(a))
  <2>. DEFINE f == [q \in QuoteIds |-> FeeShare(quotes[q], a)]
              g == [q \in PendingOf(a) |-> OpenTradingFee(quotes[q])]
  <2>1. /\ \A q \in QuoteIds : f[q] \in Nat
        /\ PendingOf(a) \in SUBSET QuoteIds
        /\ \A q \in QuoteIds \ PendingOf(a) : f[q] = 0
        /\ \A q \in PendingOf(a) : g[q] = f[q]
    BY AllSharesNat DEF FeeShare, PendingOf
  <2>. HIDE DEF f, g
  <2>2. Total(QuoteIds, f) = Total(PendingOf(a), g)
    BY <2>1, IdsAreFinite, TotalWithin
  <2>. QED  BY <2>2 DEF f, g, FeeSum, Fees
<1>4. ASSUME NEW b \in PartyB, NEW a \in PartyA PROVE HeldSum(b, a) = Margin(HeldBy(b, a))
  <2>. DEFINE f == [q \in QuoteIds |-> HeldShare(quotes[q], b, a)]
  <2>1. \A q \in QuoteIds : f[q] = IF q \in HeldBy(b, a) THEN quotes[q].locked ELSE 0
    BY PartiesAssumption DEF HeldShare, HeldBy
  <2>2. HeldBy(b, a) \in SUBSET QuoteIds
    BY DEF HeldBy
  <2>. HIDE DEF f
  <2>3. Total(QuoteIds, f) = Margin(HeldBy(b, a))
    BY <2>1, <2>2, MarginSum
  <2>. QED  BY <2>3 DEF f, HeldSum
<1>5. ASSUME NEW b \in PartyB, NEW a \in PartyA PROVE PositionSum(b, a) = Margin(PositionsOf(b, a))
  <2>. DEFINE f == [q \in QuoteIds |-> PositionShare(quotes[q], b, a)]
  <2>1. \A q \in QuoteIds : f[q] = IF q \in PositionsOf(b, a) THEN quotes[q].locked ELSE 0
    BY PartiesAssumption DEF PositionShare, PositionsOf
  <2>2. PositionsOf(b, a) \in SUBSET QuoteIds
    BY DEF PositionsOf
  <2>. HIDE DEF f
  <2>3. Total(QuoteIds, f) = Margin(PositionsOf(b, a))
    BY <2>1, <2>2, MarginSum
  <2>. QED  BY <2>3 DEF f, PositionSum
<1>6. ASSUME NEW b \in PartyB
      PROVE  HeldSum(b, Zero) = Margin(UNION {HeldBy(b, a) : a \in PartyA})
  <2>. DEFINE f == [q \in QuoteIds |-> HeldShare(quotes[q], b, Zero)]
              S == UNION {HeldBy(b, a) : a \in PartyA}
  <2>1. \A q \in QuoteIds : f[q] = IF q \in S THEN quotes[q].locked ELSE 0
    <3>1. \A q \in QuoteIds : q \in S <=> quotes[q].partyB = b /\ quotes[q].status \in HeldStatus
      BY QuoteFacts DEF HeldBy
    <3>. HIDE DEF S
    <3>. QED  BY <3>1 DEF HeldShare
  <2>2. S \in SUBSET QuoteIds
    BY DEF HeldBy
  <2>. HIDE DEF f, S
  <2>3. Total(QuoteIds, f) = Margin(S)
    BY <2>1, <2>2, MarginSum
  <2>. QED  BY <2>3 DEF f, S, HeldSum
<1>7. ASSUME NEW b \in PartyB
      PROVE  PositionSum(b, Zero) = Margin(UNION {PositionsOf(b, a) : a \in PartyA})
  <2>. DEFINE f == [q \in QuoteIds |-> PositionShare(quotes[q], b, Zero)]
              S == UNION {PositionsOf(b, a) : a \in PartyA}
  <2>1. \A q \in QuoteIds : f[q] = IF q \in S THEN quotes[q].locked ELSE 0
    <3>1. \A q \in QuoteIds : q \in S <=> quotes[q].partyB = b /\ quotes[q].status \in OpenStatus
      BY QuoteFacts DEF PositionsOf
    <3>. HIDE DEF S
    <3>. QED  BY <3>1 DEF PositionShare
  <2>2. S \in SUBSET QuoteIds
    BY DEF PositionsOf
  <2>. HIDE DEF f, S
  <2>3. Total(QuoteIds, f) = Margin(S)
    BY <2>1, <2>2, MarginSum
  <2>. QED  BY <2>3 DEF f, S, PositionSum
<1>. QED  BY <1>1, <1>2, <1>3, <1>4, <1>5, <1>6, <1>7

LEMMA ExactSays ==
  ASSUME TypeInv
  PROVE  /\ PoolsExact <=> PoolsMatchQuotes
         /\ FeesExact <=> FeesReserved
<1>1. PoolsExact <=>
        /\ \A a \in PartyA : /\ pendingLockedBalances[a] = Margin(PendingOf(a))
                             /\ lockedBalances[a] = Margin(OpenOf(a))
        /\ \A b \in PartyB, k \in BucketOf :
             /\ partyBPendingLockedBalances[b][k] = HeldSum(b, k)
             /\ partyBLockedBalances[b][k] = PositionSum(b, k)
  BY SumsSay DEF PoolsExact
<1>2. (\A b \in PartyB, k \in BucketOf :
         /\ partyBPendingLockedBalances[b][k] = HeldSum(b, k)
         /\ partyBLockedBalances[b][k] = PositionSum(b, k))
      <=> \A b \in PartyB :
            /\ \A a \in PartyA :
                 /\ partyBPendingLockedBalances[b][a] = Margin(HeldBy(b, a))
                 /\ partyBLockedBalances[b][a] = Margin(PositionsOf(b, a))
            /\ partyBPendingLockedBalances[b][Zero] = Margin(UNION {HeldBy(b, a) : a \in PartyA})
            /\ partyBLockedBalances[b][Zero] = Margin(UNION {PositionsOf(b, a) : a \in PartyA})
  BY SumsSay DEF BucketOf
<1>3. FeesExact <=> FeesReserved
  BY SumsSay DEF FeesExact, FeesReserved
<1>. QED  BY <1>1, <1>2, <1>3 DEF PoolsMatchQuotes
----------------------------------------------------------------------------
(* What replacing quotes does to the sums.                                 *)

\* One quote goes from old to new, and an id not used before becomes rest.
SumsMove(old, new, rest) ==
  /\ \A a \in PartyA :
       /\ PendingSum(a)' = PendingSum(a) - PendingShare(old, a) + PendingShare(new, a)
                             + PendingShare(rest, a)
       /\ LockedSum(a)' = LockedSum(a) - LockedShare(old, a) + LockedShare(new, a)
                            + LockedShare(rest, a)
       /\ FeeSum(a)' = FeeSum(a) - FeeShare(old, a) + FeeShare(new, a) + FeeShare(rest, a)
  /\ \A b \in PartyB, k \in BucketOf :
       /\ HeldSum(b, k)' = HeldSum(b, k) - HeldShare(old, b, k) + HeldShare(new, b, k)
                             + HeldShare(rest, b, k)
       /\ PositionSum(b, k)' = PositionSum(b, k) - PositionShare(old, b, k)
                                 + PositionShare(new, b, k) + PositionShare(rest, b, k)

LEMMA NothingShared ==
  ASSUME NEW qt, qt.status = "NONE", NEW a, NEW b, NEW k
  PROVE  /\ PendingShare(qt, a) = 0 /\ LockedShare(qt, a) = 0 /\ FeeShare(qt, a) = 0
         /\ HeldShare(qt, b, k) = 0 /\ PositionShare(qt, b, k) = 0
BY DEF PendingShare, LockedShare, FeeShare, HeldShare, PositionShare

\* The share functions of the next state, in terms of its quotes.
LEMMA SumsPrime ==
  /\ \A a : /\ PendingSum(a)' = Total(QuoteIds, [x \in QuoteIds |-> PendingShare(quotes'[x], a)])
            /\ LockedSum(a)' = Total(QuoteIds, [x \in QuoteIds |-> LockedShare(quotes'[x], a)])
            /\ FeeSum(a)' = Total(QuoteIds, [x \in QuoteIds |-> FeeShare(quotes'[x], a)])
  /\ \A b, k :
       /\ HeldSum(b, k)' = Total(QuoteIds, [x \in QuoteIds |-> HeldShare(quotes'[x], b, k)])
       /\ PositionSum(b, k)' = Total(QuoteIds, [x \in QuoteIds |-> PositionShare(quotes'[x], b, k)])
BY DEF PendingSum, LockedSum, FeeSum, HeldSum, PositionSum, PendingShare, LockedShare, FeeShare,
       HeldShare, PositionShare, OpenTradingFee, OpenAmount

LEMMA OneMoves ==
  ASSUME NEW f \in [QuoteIds -> Nat], NEW g \in [QuoteIds -> Nat], NEW q \in QuoteIds,
         \A x \in QuoteIds : x # q => f[x] = g[x]
  PROVE  Total(QuoteIds, g) = Total(QuoteIds, f) - f[q] + g[q]
<1>1. \A x \in QuoteIds : f[x] \in Nat /\ g[x] \in Nat
  OBVIOUS
<1>2. \A x \in QuoteIds \ {q} : f[x] = g[x]
  OBVIOUS
<1>. QED  BY <1>1, <1>2, IdsAreFinite, TotalUpdate

LEMMA TwoMove ==
  ASSUME NEW f \in [QuoteIds -> Nat], NEW g \in [QuoteIds -> Nat],
         NEW q \in QuoteIds, NEW r \in QuoteIds, q # r,
         \A x \in QuoteIds : x \notin {q, r} => f[x] = g[x]
  PROVE  Total(QuoteIds, g) = Total(QuoteIds, f) - f[q] + g[q] - f[r] + g[r]
<1>. DEFINE h == [f EXCEPT ![q] = g[q]]
<1>1. /\ h \in [QuoteIds -> Nat] /\ h[q] = g[q] /\ h[r] = f[r]
      /\ \A x \in QuoteIds : x # q => f[x] = h[x]
      /\ \A x \in QuoteIds : x # r => h[x] = g[x]
  OBVIOUS
<1>. HIDE DEF h
<1>2. Total(QuoteIds, h) = Total(QuoteIds, f) - f[q] + h[q]
  BY <1>1, OneMoves
<1>3. Total(QuoteIds, g) = Total(QuoteIds, h) - h[r] + g[r]
  BY <1>1, OneMoves
<1>4. Total(QuoteIds, f) \in Nat /\ f[q] \in Nat /\ g[q] \in Nat
  BY IdsAreFinite, UnitsFinite
<1>. QED  BY <1>1, <1>2, <1>3, <1>4

LEMMA QuotesMove ==
  ASSUME TypeInv, TypeInv', NEW q \in QuoteIds, NEW r \in QuoteIds,
         NEW new, NEW rest,
         \A x \in QuoteIds : quotes'[x] = IF x = q THEN new ELSE IF x = r THEN rest ELSE quotes[x],
         q # r => quotes[r].status = "NONE",
         q = r => rest.status = "NONE"
  PROVE  SumsMove(quotes[q], new, rest)
<1>1. \A x \in QuoteIds : \A a, b, k :
        /\ PendingShare(quotes'[x], a) \in Nat /\ LockedShare(quotes'[x], a) \in Nat
        /\ FeeShare(quotes'[x], a) \in Nat
        /\ HeldShare(quotes'[x], b, k) \in Nat /\ PositionShare(quotes'[x], b, k) \in Nat
  <2>1. \A x \in QuoteIds : quotes'[x] \in QuoteType /\ quotes'[x].closedAmount <= quotes'[x].quantity
    BY DEF TypeInv, GoodQuote
  <2>. QED  BY <2>1, SharesNat
<1>2. ASSUME NEW a \in PartyA
      PROVE  PendingSum(a)' = PendingSum(a) - PendingShare(quotes[q], a) + PendingShare(new, a)
                                + PendingShare(rest, a)
  <2>. DEFINE f == [x \in QuoteIds |-> PendingShare(quotes[x], a)]
              g == [x \in QuoteIds |-> PendingShare(quotes'[x], a)]
  <2>1. f \in [QuoteIds -> Nat] /\ g \in [QuoteIds -> Nat]
    BY <1>1, AllSharesNat
  <2>2. \A x \in QuoteIds : x \notin {q, r} => f[x] = g[x]
    OBVIOUS
  <2>3. q # r => f[r] = 0
    BY NothingShared
  <2>4. /\ f[q] = PendingShare(quotes[q], a) /\ g[q] = PendingShare(new, a)
        /\ q # r => g[r] = PendingShare(rest, a)
        /\ q = r => PendingShare(rest, a) = 0
    BY NothingShared
  <2>5. PendingSum(a) = Total(QuoteIds, f) /\ PendingSum(a)' = Total(QuoteIds, g)
    BY SumsPrime DEF PendingSum
  <2>. HIDE DEF f, g
  <2>6. q = r => Total(QuoteIds, g) = Total(QuoteIds, f) - f[q] + g[q]
    BY <2>1, <2>2, OneMoves
  <2>7. ASSUME q # r
        PROVE  Total(QuoteIds, g) = Total(QuoteIds, f) - f[q] + g[q] - f[r] + g[r]
    BY <2>1, <2>2, <2>7, TwoMove
  <2>8. /\ Total(QuoteIds, f) \in Nat /\ f[q] \in Nat /\ g[q] \in Nat
        /\ f[r] \in Nat /\ g[r] \in Nat
    BY <2>1, IdsAreFinite, UnitsFinite
  <2>. QED  BY <2>3, <2>4, <2>5, <2>6, <2>7, <2>8
<1>3. ASSUME NEW a \in PartyA
      PROVE  LockedSum(a)' = LockedSum(a) - LockedShare(quotes[q], a) + LockedShare(new, a)
                                + LockedShare(rest, a)
  <2>. DEFINE f == [x \in QuoteIds |-> LockedShare(quotes[x], a)]
              g == [x \in QuoteIds |-> LockedShare(quotes'[x], a)]
  <2>1. f \in [QuoteIds -> Nat] /\ g \in [QuoteIds -> Nat]
    BY <1>1, AllSharesNat
  <2>2. \A x \in QuoteIds : x \notin {q, r} => f[x] = g[x]
    OBVIOUS
  <2>3. q # r => f[r] = 0
    BY NothingShared
  <2>4. /\ f[q] = LockedShare(quotes[q], a) /\ g[q] = LockedShare(new, a)
        /\ q # r => g[r] = LockedShare(rest, a)
        /\ q = r => LockedShare(rest, a) = 0
    BY NothingShared
  <2>5. LockedSum(a) = Total(QuoteIds, f) /\ LockedSum(a)' = Total(QuoteIds, g)
    BY SumsPrime DEF LockedSum
  <2>. HIDE DEF f, g
  <2>6. q = r => Total(QuoteIds, g) = Total(QuoteIds, f) - f[q] + g[q]
    BY <2>1, <2>2, OneMoves
  <2>7. ASSUME q # r
        PROVE  Total(QuoteIds, g) = Total(QuoteIds, f) - f[q] + g[q] - f[r] + g[r]
    BY <2>1, <2>2, <2>7, TwoMove
  <2>8. /\ Total(QuoteIds, f) \in Nat /\ f[q] \in Nat /\ g[q] \in Nat
        /\ f[r] \in Nat /\ g[r] \in Nat
    BY <2>1, IdsAreFinite, UnitsFinite
  <2>. QED  BY <2>3, <2>4, <2>5, <2>6, <2>7, <2>8
<1>4. ASSUME NEW a \in PartyA
      PROVE  FeeSum(a)' = FeeSum(a) - FeeShare(quotes[q], a) + FeeShare(new, a)
                                + FeeShare(rest, a)
  <2>. DEFINE f == [x \in QuoteIds |-> FeeShare(quotes[x], a)]
              g == [x \in QuoteIds |-> FeeShare(quotes'[x], a)]
  <2>1. f \in [QuoteIds -> Nat] /\ g \in [QuoteIds -> Nat]
    BY <1>1, AllSharesNat
  <2>2. \A x \in QuoteIds : x \notin {q, r} => f[x] = g[x]
    OBVIOUS
  <2>3. q # r => f[r] = 0
    BY NothingShared
  <2>4. /\ f[q] = FeeShare(quotes[q], a) /\ g[q] = FeeShare(new, a)
        /\ q # r => g[r] = FeeShare(rest, a)
        /\ q = r => FeeShare(rest, a) = 0
    BY NothingShared
  <2>5. FeeSum(a) = Total(QuoteIds, f) /\ FeeSum(a)' = Total(QuoteIds, g)
    BY SumsPrime DEF FeeSum
  <2>. HIDE DEF f, g
  <2>6. q = r => Total(QuoteIds, g) = Total(QuoteIds, f) - f[q] + g[q]
    BY <2>1, <2>2, OneMoves
  <2>7. ASSUME q # r
        PROVE  Total(QuoteIds, g) = Total(QuoteIds, f) - f[q] + g[q] - f[r] + g[r]
    BY <2>1, <2>2, <2>7, TwoMove
  <2>8. /\ Total(QuoteIds, f) \in Nat /\ f[q] \in Nat /\ g[q] \in Nat
        /\ f[r] \in Nat /\ g[r] \in Nat
    BY <2>1, IdsAreFinite, UnitsFinite
  <2>. QED  BY <2>3, <2>4, <2>5, <2>6, <2>7, <2>8
<1>5. ASSUME NEW b \in PartyB, NEW k \in BucketOf
      PROVE  HeldSum(b, k)' = HeldSum(b, k) - HeldShare(quotes[q], b, k) + HeldShare(new, b, k)
                                + HeldShare(rest, b, k)
  <2>. DEFINE f == [x \in QuoteIds |-> HeldShare(quotes[x], b, k)]
              g == [x \in QuoteIds |-> HeldShare(quotes'[x], b, k)]
  <2>1. f \in [QuoteIds -> Nat] /\ g \in [QuoteIds -> Nat]
    BY <1>1, AllSharesNat
  <2>2. \A x \in QuoteIds : x \notin {q, r} => f[x] = g[x]
    OBVIOUS
  <2>3. q # r => f[r] = 0
    BY NothingShared
  <2>4. /\ f[q] = HeldShare(quotes[q], b, k) /\ g[q] = HeldShare(new, b, k)
        /\ q # r => g[r] = HeldShare(rest, b, k)
        /\ q = r => HeldShare(rest, b, k) = 0
    BY NothingShared
  <2>5. HeldSum(b, k) = Total(QuoteIds, f) /\ HeldSum(b, k)' = Total(QuoteIds, g)
    BY SumsPrime DEF HeldSum
  <2>. HIDE DEF f, g
  <2>6. q = r => Total(QuoteIds, g) = Total(QuoteIds, f) - f[q] + g[q]
    BY <2>1, <2>2, OneMoves
  <2>7. ASSUME q # r
        PROVE  Total(QuoteIds, g) = Total(QuoteIds, f) - f[q] + g[q] - f[r] + g[r]
    BY <2>1, <2>2, <2>7, TwoMove
  <2>8. /\ Total(QuoteIds, f) \in Nat /\ f[q] \in Nat /\ g[q] \in Nat
        /\ f[r] \in Nat /\ g[r] \in Nat
    BY <2>1, IdsAreFinite, UnitsFinite
  <2>. QED  BY <2>3, <2>4, <2>5, <2>6, <2>7, <2>8
<1>6. ASSUME NEW b \in PartyB, NEW k \in BucketOf
      PROVE  PositionSum(b, k)' = PositionSum(b, k) - PositionShare(quotes[q], b, k) + PositionShare(new, b, k)
                                + PositionShare(rest, b, k)
  <2>. DEFINE f == [x \in QuoteIds |-> PositionShare(quotes[x], b, k)]
              g == [x \in QuoteIds |-> PositionShare(quotes'[x], b, k)]
  <2>1. f \in [QuoteIds -> Nat] /\ g \in [QuoteIds -> Nat]
    BY <1>1, AllSharesNat
  <2>2. \A x \in QuoteIds : x \notin {q, r} => f[x] = g[x]
    OBVIOUS
  <2>3. q # r => f[r] = 0
    BY NothingShared
  <2>4. /\ f[q] = PositionShare(quotes[q], b, k) /\ g[q] = PositionShare(new, b, k)
        /\ q # r => g[r] = PositionShare(rest, b, k)
        /\ q = r => PositionShare(rest, b, k) = 0
    BY NothingShared
  <2>5. PositionSum(b, k) = Total(QuoteIds, f) /\ PositionSum(b, k)' = Total(QuoteIds, g)
    BY SumsPrime DEF PositionSum
  <2>. HIDE DEF f, g
  <2>6. q = r => Total(QuoteIds, g) = Total(QuoteIds, f) - f[q] + g[q]
    BY <2>1, <2>2, OneMoves
  <2>7. ASSUME q # r
        PROVE  Total(QuoteIds, g) = Total(QuoteIds, f) - f[q] + g[q] - f[r] + g[r]
    BY <2>1, <2>2, <2>7, TwoMove
  <2>8. /\ Total(QuoteIds, f) \in Nat /\ f[q] \in Nat /\ g[q] \in Nat
        /\ f[r] \in Nat /\ g[r] \in Nat
    BY <2>1, IdsAreFinite, UnitsFinite
  <2>. QED  BY <2>3, <2>4, <2>5, <2>6, <2>7, <2>8
<1>. QED  BY <1>2, <1>3, <1>4, <1>5, <1>6 DEF SumsMove
----------------------------------------------------------------------------
(* What the handlers do to the pools, in the same terms.                   *)

PendingMoves(old, new, rest) ==
  \A a \in PartyA :
    pendingLockedBalances'[a] =
      pendingLockedBalances[a] - PendingShare(old, a) + PendingShare(new, a)
        + PendingShare(rest, a)

LockedMoves(old, new, rest) ==
  \A a \in PartyA :
    lockedBalances'[a] =
      lockedBalances[a] - LockedShare(old, a) + LockedShare(new, a) + LockedShare(rest, a)

FeesMove(old, new, rest) ==
  \A a \in PartyA :
    partyAReservedOpenFees'[a] =
      partyAReservedOpenFees[a] - FeeShare(old, a) + FeeShare(new, a) + FeeShare(rest, a)

HeldMoves(old, new, rest) ==
  \A b \in PartyB, k \in BucketOf :
    partyBPendingLockedBalances'[b][k] =
      partyBPendingLockedBalances[b][k] - HeldShare(old, b, k) + HeldShare(new, b, k)
        + HeldShare(rest, b, k)

PositionsMove(old, new, rest) ==
  \A b \in PartyB, k \in BucketOf :
    partyBLockedBalances'[b][k] =
      partyBLockedBalances[b][k] - PositionShare(old, b, k) + PositionShare(new, b, k)
        + PositionShare(rest, b, k)

PoolsMove(old, new, rest) ==
  /\ PendingMoves(old, new, rest) /\ LockedMoves(old, new, rest) /\ FeesMove(old, new, rest)
  /\ HeldMoves(old, new, rest) /\ PositionsMove(old, new, rest)

LEMMA ExactKept ==
  ASSUME PoolsExact, FeesExact, NEW old, NEW new, NEW rest, SumsMove(old, new, rest),
         PoolsMove(old, new, rest)
  PROVE  PoolsExact' /\ FeesExact'
<1>1. \A a \in PartyA :
        /\ pendingLockedBalances'[a] = PendingSum(a)' /\ lockedBalances'[a] = LockedSum(a)'
        /\ partyAReservedOpenFees'[a] = FeeSum(a)'
  BY DEF PoolsExact, FeesExact, SumsMove, PoolsMove, PendingMoves, LockedMoves, FeesMove
<1>2. \A b \in PartyB, k \in BucketOf :
        /\ partyBPendingLockedBalances'[b][k] = HeldSum(b, k)'
        /\ partyBLockedBalances'[b][k] = PositionSum(b, k)'
  BY DEF PoolsExact, SumsMove, PoolsMove, HeldMoves, PositionsMove
<1>. QED  BY <1>1, <1>2 DEF PoolsExact, FeesExact

LEMMA AddAt ==
  ASSUME NEW f \in Buckets, NEW b0 \in PartyB, NEW a0 \in PartyA, NEW n,
         NEW b \in PartyB, NEW k \in BucketOf
  PROVE  Add(f, b0, a0, n)[b][k] = IF b0 = b /\ k \in {a0, Zero} THEN f[b][k] + n ELSE f[b][k]
BY DEF Add, Buckets

LEMMA SubAt ==
  ASSUME NEW f \in Buckets, NEW b0 \in PartyB, NEW a0 \in PartyA, NEW n,
         NEW b \in PartyB, NEW k \in BucketOf
  PROVE  Sub(f, b0, a0, n)[b][k] = IF b0 = b /\ k \in {a0, Zero} THEN f[b][k] - n ELSE f[b][k]
BY DEF Sub, Buckets

\* The shares of a quote, by what its status is.
LEMMA OfferedShares ==
  ASSUME NEW qt, qt.status = "PENDING"
  PROVE  /\ \A a : /\ PendingShare(qt, a) = IF qt.partyA = a THEN qt.locked ELSE 0
                   /\ FeeShare(qt, a) = IF qt.partyA = a THEN OpenTradingFee(qt) ELSE 0
                   /\ LockedShare(qt, a) = 0
         /\ \A b, k : HeldShare(qt, b, k) = 0 /\ PositionShare(qt, b, k) = 0
BY DEF PendingShare, LockedShare, FeeShare, HeldShare, PositionShare

LEMMA HeldShares ==
  ASSUME NEW qt, qt.status \in HeldStatus
  PROVE  /\ \A a : /\ PendingShare(qt, a) = IF qt.partyA = a THEN qt.locked ELSE 0
                   /\ FeeShare(qt, a) = IF qt.partyA = a THEN OpenTradingFee(qt) ELSE 0
                   /\ LockedShare(qt, a) = 0
         /\ \A b, k : /\ HeldShare(qt, b, k) =
                           IF qt.partyB = b /\ k \in {qt.partyA, Zero} THEN qt.locked ELSE 0
                      /\ PositionShare(qt, b, k) = 0
BY DEF PendingShare, LockedShare, FeeShare, HeldShare, PositionShare

LEMMA LiveShares ==
  ASSUME NEW qt, qt.status \in OpenStatus
  PROVE  /\ \A a : /\ LockedShare(qt, a) = IF qt.partyA = a THEN qt.locked ELSE 0
                   /\ PendingShare(qt, a) = 0 /\ FeeShare(qt, a) = 0
         /\ \A b, k : /\ PositionShare(qt, b, k) =
                           IF qt.partyB = b /\ k \in {qt.partyA, Zero} THEN qt.locked ELSE 0
                      /\ HeldShare(qt, b, k) = 0
BY DEF PendingShare, LockedShare, FeeShare, HeldShare, PositionShare

LEMMA GoneShares ==
  ASSUME NEW qt, qt.status \in FinalStatus \cup {"NONE"}
  PROVE  /\ \A a : PendingShare(qt, a) = 0 /\ LockedShare(qt, a) = 0 /\ FeeShare(qt, a) = 0
         /\ \A b, k : HeldShare(qt, b, k) = 0 /\ PositionShare(qt, b, k) = 0
BY DEF PendingShare, LockedShare, FeeShare, HeldShare, PositionShare

LEMMA PoolTypes ==
  ASSUME TypeInv
  PROVE  /\ pendingLockedBalances \in [PartyA -> Nat] /\ lockedBalances \in [PartyA -> Nat]
         /\ partyBPendingLockedBalances \in Buckets /\ partyBLockedBalances \in Buckets
         /\ partyAReservedOpenFees \in [PartyA -> Nat]
         /\ \A b \in PartyB, k \in BucketOf :
              partyBPendingLockedBalances[b][k] \in Nat /\ partyBLockedBalances[b][k] \in Nat
BY DEF TypeInv, TypeOK, Buckets

\* The reserve covers the fee of every pending quote, so that taking it off is exact.
LEMMA FeeCovered ==
  ASSUME TypeInv, FeesExact, NEW q \in QuoteIds, quotes[q].status \in PendingStatus
  PROVE  LET a == quotes[q].partyA
             fee == OpenTradingFee(quotes[q]) IN
         /\ fee \in Nat /\ fee <= partyAReservedOpenFees[a]
         /\ Decrease(partyAReservedOpenFees[a], fee) = partyAReservedOpenFees[a] - fee
<1>. DEFINE a == quotes[q].partyA
            f == [x \in QuoteIds |-> FeeShare(quotes[x], a)]
<1>1. a \in PartyA /\ OpenTradingFee(quotes[q]) \in Nat
  BY QuoteFacts
<1>2. f[q] = OpenTradingFee(quotes[q])
  BY DEF FeeShare
<1>3. \A x \in QuoteIds : f[x] \in Nat
  BY AllSharesNat
<1>4. f[q] <= Total(QuoteIds, f)
  <2>. HIDE DEF f
  <2>. QED  BY <1>3, IdsAreFinite, TotalAtLeast
<1>5. partyAReservedOpenFees[a] = Total(QuoteIds, f)
  BY <1>1 DEF FeesExact, FeeSum
<1>6. partyAReservedOpenFees[a] \in Nat
  BY <1>1, PoolTypes
<1>. HIDE DEF f, a
<1>. QED  BY <1>1, <1>2, <1>4, <1>5, <1>6 DEF Decrease, a

LEMMA SentMoves ==
  ASSUME TypeInv, NEW o \in Offers, SendQuote(o)
  PROVE  PoolsMove(NoQuote, QuoteOf(o), NoQuote)
<1>. DEFINE new == QuoteOf(o)
            fee == OpenTradingFee(new)
<1>1. /\ new.status = "PENDING" /\ new.partyA = o.partyA /\ new.locked = o.locked
      /\ o.partyA \in PartyA /\ new \in QuoteType /\ new.closedAmount <= new.quantity
  BY SendFacts DEF GoodQuote
<1>2. o.locked \in Nat /\ fee \in Nat
  BY <1>1, FeeNat DEF QuoteType
<1>3. /\ pendingLockedBalances' = [pendingLockedBalances EXCEPT ![o.partyA] = @ + o.locked]
      /\ partyAReservedOpenFees' = [partyAReservedOpenFees EXCEPT ![o.partyA] = @ + fee]
      /\ UNCHANGED <<lockedBalances, partyBPendingLockedBalances, partyBLockedBalances>>
  BY DEF SendQuote
<1>4. NoQuote.status = "NONE"
  BY DEF NoQuote
<1>. HIDE DEF new
<1>5. FeesMove(NoQuote, new, NoQuote)
  BY <1>1, <1>2, <1>3, <1>4, PoolTypes, OfferedShares, GoneShares DEF FeesMove
<1>6. PendingMoves(NoQuote, new, NoQuote)
  BY <1>1, <1>2, <1>3, <1>4, PoolTypes, OfferedShares, GoneShares DEF PendingMoves
<1>7. LockedMoves(NoQuote, new, NoQuote)
  BY <1>1, <1>3, <1>4, PoolTypes, OfferedShares, GoneShares DEF LockedMoves
<1>8. HeldMoves(NoQuote, new, NoQuote)
  BY <1>1, <1>3, <1>4, PoolTypes, OfferedShares, GoneShares DEF HeldMoves
<1>9. PositionsMove(NoQuote, new, NoQuote)
  BY <1>1, <1>3, <1>4, PoolTypes, OfferedShares, GoneShares DEF PositionsMove
<1>. QED  BY <1>5, <1>6, <1>7, <1>8, <1>9 DEF PoolsMove, new

\* A position entering the locked pools; a held quote leaving partyB's pending ones.
LEMMA EnteredMoves ==
  ASSUME TypeInv, NEW q, NEW pos, GoodQuote(pos), pos.status = "OPENED",
         pos.partyA \in PartyA, pos.partyB \in PartyB, AddPosition(q, pos)
  PROVE  /\ \A a \in PartyA : lockedBalances'[a] = lockedBalances[a] + LockedShare(pos, a)
         /\ \A b \in PartyB, k \in BucketOf :
              partyBLockedBalances'[b][k] = partyBLockedBalances[b][k] + PositionShare(pos, b, k)
<1>1. pos.locked \in Nat
  BY DEF GoodQuote, QuoteType
<1>2. /\ lockedBalances' = [lockedBalances EXCEPT ![pos.partyA] = @ + pos.locked]
      /\ partyBLockedBalances' = Add(partyBLockedBalances, pos.partyB, pos.partyA, pos.locked)
  BY DEF AddPosition
<1>3. \A a \in PartyA : lockedBalances'[a] = lockedBalances[a] + LockedShare(pos, a)
  BY <1>1, <1>2, PoolTypes, LiveShares
<1>4. ASSUME NEW b \in PartyB, NEW k \in BucketOf
      PROVE  partyBLockedBalances'[b][k] = partyBLockedBalances[b][k] + PositionShare(pos, b, k)
  <2>1. partyBLockedBalances'[b][k] =
          IF pos.partyB = b /\ k \in {pos.partyA, Zero}
          THEN partyBLockedBalances[b][k] + pos.locked ELSE partyBLockedBalances[b][k]
    BY <1>2, PoolTypes, AddAt
  <2>2. partyBLockedBalances[b][k] \in Nat
    BY PoolTypes
  <2>. QED  BY <1>1, <2>1, <2>2, LiveShares
<1>. QED  BY <1>3, <1>4

LEMMA LetGoMoves ==
  ASSUME TypeInv, NEW q \in QuoteIds, quotes[q].status \in HeldStatus,
         partyBPendingLockedBalances' =
           Sub(partyBPendingLockedBalances, quotes[q].partyB, quotes[q].partyA, quotes[q].locked)
  PROVE  \A b \in PartyB, k \in BucketOf :
           partyBPendingLockedBalances'[b][k] =
             partyBPendingLockedBalances[b][k] - HeldShare(quotes[q], b, k)
<1>. SUFFICES ASSUME NEW b \in PartyB, NEW k \in BucketOf
              PROVE  partyBPendingLockedBalances'[b][k] =
                       partyBPendingLockedBalances[b][k] - HeldShare(quotes[q], b, k)
  OBVIOUS
<1>. DEFINE qt == quotes[q]
<1>1. qt.partyA \in PartyA /\ qt.partyB \in PartyB /\ qt.locked \in Nat
  BY QuoteFacts
<1>2. partyBPendingLockedBalances'[b][k] =
        IF qt.partyB = b /\ k \in {qt.partyA, Zero}
        THEN partyBPendingLockedBalances[b][k] - qt.locked ELSE partyBPendingLockedBalances[b][k]
  BY <1>1, PoolTypes, SubAt
<1>3. partyBPendingLockedBalances[b][k] \in Nat
  BY PoolTypes
<1>. QED  BY <1>1, <1>2, <1>3, HeldShares

LEMMA TemplatedMoves ==
  ASSUME TypeInv, NEW o \in Offers, NEW b \in PartyB, NEW p \in Prices, InstantOpen(o, b, p)
  PROVE  PoolsMove(NoQuote, Templated(o, b, p), NoQuote)
<1>. DEFINE new == Templated(o, b, p)
<1>1. /\ GoodQuote(new) /\ new.status = "OPENED" /\ new.partyA \in PartyA /\ new.partyB \in PartyB
      /\ AddPosition(lastId + 1, new)
  BY InstantOpenFacts
<1>2. UNCHANGED <<pendingLockedBalances, partyBPendingLockedBalances, partyAReservedOpenFees>>
  BY DEF InstantOpen
<1>3. NoQuote.status = "NONE" /\ new.locked \in Nat
  BY <1>1 DEF NoQuote, GoodQuote, QuoteType
<1>. HIDE DEF new
<1>4. /\ \A a \in PartyA : lockedBalances'[a] = lockedBalances[a] + LockedShare(new, a)
      /\ \A c \in PartyB, k \in BucketOf :
           partyBLockedBalances'[c][k] = partyBLockedBalances[c][k] + PositionShare(new, c, k)
  BY <1>1, EnteredMoves
<1>5. PendingMoves(NoQuote, new, NoQuote) /\ FeesMove(NoQuote, new, NoQuote)
  BY <1>1, <1>2, <1>3, PoolTypes, LiveShares, GoneShares DEF PendingMoves, FeesMove
<1>6. HeldMoves(NoQuote, new, NoQuote)
  BY <1>1, <1>2, <1>3, PoolTypes, LiveShares, GoneShares DEF HeldMoves
<1>7. LockedMoves(NoQuote, new, NoQuote)
  BY <1>1, <1>3, <1>4, PoolTypes, LiveShares, GoneShares DEF LockedMoves
<1>8. PositionsMove(NoQuote, new, NoQuote)
  BY <1>1, <1>3, <1>4, PoolTypes, LiveShares, GoneShares DEF PositionsMove
<1>. QED  BY <1>5, <1>6, <1>7, <1>8 DEF PoolsMove, new

LEMMA LockedByMoves ==
  ASSUME TypeInv, NEW q \in QuoteIds, NEW b0 \in PartyB, LockQuote(b0, q)
  PROVE  LET new == [quotes[q] EXCEPT !.status = "LOCKED", !.partyB = b0, !.modified = now] IN
         /\ quotes' = [quotes EXCEPT ![q] = new]
         /\ PoolsMove(quotes[q], new, NoQuote)
<1>. DEFINE old == quotes[q]
            new == [old EXCEPT !.status = "LOCKED", !.partyB = b0, !.modified = now]
<1>1. old \in QuoteType /\ old.status = "PENDING" /\ old.partyA \in PartyA /\ old.locked \in Nat
      /\ OpenTradingFee(old) \in Nat
  BY QuoteFacts DEF LockQuote, MayLock
<1>2. quotes' = [quotes EXCEPT ![q] = new]
  BY DEF LockQuote, TypeInv, TypeOK
<1>3. /\ new.status = "LOCKED" /\ new.partyA = old.partyA /\ new.partyB = b0
      /\ new.locked = old.locked /\ OpenTradingFee(new) = OpenTradingFee(old)
  BY <1>1 DEF QuoteType, OpenTradingFee, OpenAmount
<1>4. /\ partyBPendingLockedBalances' = Add(partyBPendingLockedBalances, b0, old.partyA, old.locked)
      /\ UNCHANGED <<pendingLockedBalances, lockedBalances, partyBLockedBalances,
                     partyAReservedOpenFees>>
  BY DEF LockQuote, funds
<1>5. NoQuote.status = "NONE"
  BY DEF NoQuote
<1>. HIDE DEF new
<1>6. PendingMoves(old, new, NoQuote)
  BY <1>1, <1>3, <1>4, <1>5, PoolTypes, OfferedShares, HeldShares, GoneShares DEF PendingMoves
<1>7. FeesMove(old, new, NoQuote)
  BY <1>1, <1>3, <1>4, <1>5, PoolTypes, OfferedShares, HeldShares, GoneShares DEF FeesMove
<1>8. LockedMoves(old, new, NoQuote)
  BY <1>1, <1>3, <1>4, <1>5, PoolTypes, OfferedShares, HeldShares, GoneShares DEF LockedMoves
<1>9. PositionsMove(old, new, NoQuote)
  BY <1>1, <1>3, <1>4, <1>5, PoolTypes, OfferedShares, HeldShares, GoneShares DEF PositionsMove
<1>10. HeldMoves(old, new, NoQuote)
  <2>1. ASSUME NEW b \in PartyB, NEW k \in BucketOf
        PROVE  partyBPendingLockedBalances'[b][k] =
                 partyBPendingLockedBalances[b][k] - HeldShare(old, b, k) + HeldShare(new, b, k)
                   + HeldShare(NoQuote, b, k)
    <3>1. partyBPendingLockedBalances'[b][k] =
            IF b0 = b /\ k \in {old.partyA, Zero}
            THEN partyBPendingLockedBalances[b][k] + old.locked
            ELSE partyBPendingLockedBalances[b][k]
      BY <1>1, <1>4, PoolTypes, AddAt
    <3>2. partyBPendingLockedBalances[b][k] \in Nat
      BY PoolTypes
    <3>3. HeldShare(old, b, k) = 0 /\ HeldShare(NoQuote, b, k) = 0
      BY <1>1, <1>5, OfferedShares, GoneShares
    <3>4. HeldShare(new, b, k) = IF b0 = b /\ k \in {old.partyA, Zero} THEN old.locked ELSE 0
      BY <1>3, HeldShares
    <3>. QED  BY <1>1, <3>1, <3>2, <3>3, <3>4
  <2>. QED  BY <2>1 DEF HeldMoves
<1>. QED  BY <1>2, <1>6, <1>7, <1>8, <1>9, <1>10 DEF PoolsMove, new

LEMMA DroppedMoves ==
  ASSUME TypeInv, FeesExact, NEW q \in QuoteIds, NEW st, Dropped(q, st)
  PROVE  LET new == [quotes[q] EXCEPT !.status = st, !.modified = now] IN
         /\ quotes' = [quotes EXCEPT ![q] = new]
         /\ PoolsMove(quotes[q], new, NoQuote)
<1>. DEFINE old == quotes[q]
            fee == OpenTradingFee(old)
            new == [old EXCEPT !.status = st, !.modified = now]
<1>1. /\ old \in QuoteType /\ old.status \in PendingStatus /\ old.partyA \in PartyA
      /\ old.locked \in Nat /\ fee \in Nat /\ st \in {"CANCELED", "EXPIRED"}
  BY QuoteFacts DEF Dropped
<1>2. quotes' = [quotes EXCEPT ![q] = new]
  BY DEF Dropped, Leave, TypeInv, TypeOK
<1>3. new.status = st
  BY <1>1 DEF QuoteType
<1>4. /\ pendingLockedBalances' = [pendingLockedBalances EXCEPT ![old.partyA] = @ - old.locked]
      /\ partyAReservedOpenFees' = [partyAReservedOpenFees EXCEPT ![old.partyA] = Decrease(@, fee)]
      /\ UNCHANGED <<lockedBalances, partyBLockedBalances>>
      /\ IF old.status \in HeldStatus
         THEN partyBPendingLockedBalances' =
                Sub(partyBPendingLockedBalances, old.partyB, old.partyA, old.locked)
         ELSE UNCHANGED partyBPendingLockedBalances
  BY DEF Dropped, Leave, PartyBLetsGo
<1>5. Decrease(partyAReservedOpenFees[old.partyA], fee) = partyAReservedOpenFees[old.partyA] - fee
  BY <1>1, FeeCovered
<1>6. NoQuote.status = "NONE"
  BY DEF NoQuote
<1>7. \A a : /\ PendingShare(old, a) = IF old.partyA = a THEN old.locked ELSE 0
             /\ FeeShare(old, a) = IF old.partyA = a THEN fee ELSE 0
             /\ LockedShare(old, a) = 0
  BY <1>1 DEF PendingShare, FeeShare, LockedShare
<1>8. \A b, k : PositionShare(old, b, k) = 0
  BY <1>1 DEF PositionShare
<1>. HIDE DEF new, fee
<1>9. PendingMoves(old, new, NoQuote)
  BY <1>1, <1>3, <1>4, <1>6, <1>7, PoolTypes, GoneShares DEF PendingMoves
<1>10. FeesMove(old, new, NoQuote)
  BY <1>1, <1>3, <1>4, <1>5, <1>6, <1>7, PoolTypes, GoneShares DEF FeesMove
<1>11. LockedMoves(old, new, NoQuote)
  BY <1>1, <1>3, <1>4, <1>6, <1>7, PoolTypes, GoneShares DEF LockedMoves
<1>12. PositionsMove(old, new, NoQuote)
  BY <1>1, <1>3, <1>4, <1>6, <1>8, PoolTypes, GoneShares DEF PositionsMove
<1>13. HeldMoves(old, new, NoQuote)
  <2>1. CASE old.status \in HeldStatus
    <3>1. \A b \in PartyB, k \in BucketOf :
            partyBPendingLockedBalances'[b][k] =
              partyBPendingLockedBalances[b][k] - HeldShare(old, b, k)
      BY <1>4, <2>1, LetGoMoves
    <3>2. \A b, k : HeldShare(old, b, k) \in Nat
      BY AllSharesNat
    <3>. QED  BY <1>1, <1>3, <1>6, <3>1, <3>2, PoolTypes, GoneShares DEF HeldMoves
  <2>2. CASE old.status = "PENDING"
    BY <1>1, <1>3, <1>4, <1>6, <2>2, PoolTypes, OfferedShares, GoneShares DEF HeldMoves
  <2>. QED  BY <1>1, <2>1, <2>2
<1>. QED  BY <1>2, <1>9, <1>10, <1>11, <1>12, <1>13 DEF PoolsMove, new

LEMMA UnlockedMoves ==
  ASSUME TypeInv, NEW q \in QuoteIds, Unlocked(q)
  PROVE  LET new == [quotes[q] EXCEPT !.status = "PENDING", !.partyB = Zero, !.modified = now] IN
         /\ quotes' = [quotes EXCEPT ![q] = new]
         /\ PoolsMove(quotes[q], new, NoQuote)
<1>. DEFINE old == quotes[q]
            new == [old EXCEPT !.status = "PENDING", !.partyB = Zero, !.modified = now]
<1>1. old \in QuoteType /\ old.status \in HeldStatus /\ old.partyA \in PartyA /\ old.locked \in Nat
      /\ OpenTradingFee(old) \in Nat
  BY QuoteFacts DEF Unlocked
<1>2. quotes' = [quotes EXCEPT ![q] = new]
  BY DEF Unlocked
<1>3. /\ new.status = "PENDING" /\ new.partyA = old.partyA
      /\ new.locked = old.locked /\ OpenTradingFee(new) = OpenTradingFee(old)
  BY <1>1 DEF QuoteType, OpenTradingFee, OpenAmount
<1>4. /\ partyBPendingLockedBalances' =
           Sub(partyBPendingLockedBalances, old.partyB, old.partyA, old.locked)
      /\ UNCHANGED <<pendingLockedBalances, lockedBalances, partyBLockedBalances,
                     partyAReservedOpenFees>>
  BY DEF Unlocked, PartyBLetsGo, funds
<1>5. NoQuote.status = "NONE"
  BY DEF NoQuote
<1>. HIDE DEF new
<1>6. PendingMoves(old, new, NoQuote)
  BY <1>1, <1>3, <1>4, <1>5, PoolTypes, OfferedShares, HeldShares, GoneShares DEF PendingMoves
<1>7. FeesMove(old, new, NoQuote)
  BY <1>1, <1>3, <1>4, <1>5, PoolTypes, OfferedShares, HeldShares, GoneShares DEF FeesMove
<1>8. LockedMoves(old, new, NoQuote)
  BY <1>1, <1>3, <1>4, <1>5, PoolTypes, OfferedShares, HeldShares, GoneShares DEF LockedMoves
<1>9. PositionsMove(old, new, NoQuote)
  BY <1>1, <1>3, <1>4, <1>5, PoolTypes, OfferedShares, HeldShares, GoneShares DEF PositionsMove
<1>10. HeldMoves(old, new, NoQuote)
  <2>1. \A b \in PartyB, k \in BucketOf :
          partyBPendingLockedBalances'[b][k] =
            partyBPendingLockedBalances[b][k] - HeldShare(old, b, k)
    BY <1>1, <1>4, LetGoMoves
  <2>2. \A b, k : HeldShare(old, b, k) \in Nat
    BY AllSharesNat
  <2>. QED  BY <1>3, <1>5, <2>1, <2>2, PoolTypes, OfferedShares, GoneShares DEF HeldMoves
<1>. QED  BY <1>2, <1>6, <1>7, <1>8, <1>9, <1>10 DEF PoolsMove, new

LEMMA RetouchedMoves ==
  ASSUME TypeInv, NEW q \in QuoteIds, NEW new, Retouched(q, new)
  PROVE  quotes' = [quotes EXCEPT ![q] = new] /\ PoolsMove(quotes[q], new, NoQuote)
<1>. DEFINE old == quotes[q]
<1>1. quotes' = [quotes EXCEPT ![q] = new] /\ UNCHANGED <<pools, funds>>
  BY DEF Retouched, UpdateOnly
<1>2. UNCHANGED <<pendingLockedBalances, lockedBalances, partyBPendingLockedBalances,
                  partyBLockedBalances, partyAReservedOpenFees>>
  BY <1>1 DEF pools, funds
<1>3. /\ \A a : /\ PendingShare(new, a) = PendingShare(old, a)
                /\ LockedShare(new, a) = LockedShare(old, a)
                /\ FeeShare(new, a) = FeeShare(old, a)
      /\ \A b, k : /\ HeldShare(new, b, k) = HeldShare(old, b, k)
                   /\ PositionShare(new, b, k) = PositionShare(old, b, k)
  BY DEF Retouched, PendingShare, LockedShare, FeeShare, HeldShare, PositionShare
<1>4. NoQuote.status = "NONE"
  BY DEF NoQuote
<1>5. /\ \A a : /\ PendingShare(old, a) \in Nat /\ LockedShare(old, a) \in Nat
                /\ FeeShare(old, a) \in Nat
      /\ \A b, k : HeldShare(old, b, k) \in Nat /\ PositionShare(old, b, k) \in Nat
  BY AllSharesNat
<1>6. PendingMoves(old, new, NoQuote) /\ LockedMoves(old, new, NoQuote)
  BY <1>2, <1>3, <1>4, <1>5, PoolTypes, GoneShares DEF PendingMoves, LockedMoves
<1>7. FeesMove(old, new, NoQuote)
  BY <1>2, <1>3, <1>4, <1>5, PoolTypes, GoneShares DEF FeesMove
<1>8. HeldMoves(old, new, NoQuote)
  BY <1>2, <1>3, <1>4, <1>5, PoolTypes, GoneShares DEF HeldMoves
<1>9. PositionsMove(old, new, NoQuote)
  BY <1>2, <1>3, <1>4, <1>5, PoolTypes, GoneShares DEF PositionsMove
<1>. QED  BY <1>1, <1>6, <1>7, <1>8, <1>9 DEF PoolsMove

\* A position closed by n units gives up the margin of those units, all of it
\* when nothing stays open.
LEMMA PortionWhole ==
  ASSUME NEW margin \in Nat, NEW m \in Nat \ {0}
  PROVE  Portion(margin, m, m) = margin
<1>. DEFINE x == margin * m
<1>1. x \in Nat /\ x = margin * m
  OBVIOUS
<1>2. x \div m = margin
  <2>. HIDE DEF x
  <2>. QED  BY <1>1
<1>. QED  BY <1>2 DEF Portion

LEMMA ClosedByMoves ==
  ASSUME TypeInv, NEW q \in QuoteIds, NEW qt, NEW n, NEW p, NEW new, ClosedBy(q, qt, n, p, new)
  PROVE  quotes' = [quotes EXCEPT ![q] = new] /\ PoolsMove(quotes[q], new, NoQuote)
<1>. DEFINE old == quotes[q]
            freed == Portion(qt.locked, n, OpenAmount(qt))
<1>1. /\ old.status \in OpenStatus /\ old.partyA \in PartyA /\ old.partyB \in PartyB
      /\ old.locked \in Nat /\ quotes' = [quotes EXCEPT ![q] = new]
  BY QuoteFacts DEF ClosedBy
<1>2. /\ qt \in QuoteType /\ qt.partyA = old.partyA /\ qt.partyB = old.partyB
      /\ qt.locked = old.locked /\ OpenAmount(qt) > 0 /\ n \in Nat /\ n <= OpenAmount(qt)
      /\ new.partyA = old.partyA /\ new.partyB = old.partyB
      /\ new.status \in OpenStatus \cup {"CLOSED"}
      /\ new.status = "CLOSED" => qt.closedAmount + n = qt.quantity
  BY DEF ClosedBy
<1>3. OpenAmount(qt) \in Nat \ {0}
  BY <1>2 DEF OpenAmount, QuoteType
<1>4. freed \in Nat /\ freed <= old.locked
  BY <1>1, <1>2, <1>3, PortionWithin
<1>5. new.locked = old.locked - freed
  BY <1>2 DEF ClosedBy, Kept
<1>6. new.status = "CLOSED" => freed = old.locked
  <2>1. new.status = "CLOSED" => n = OpenAmount(qt)
    BY <1>2 DEF OpenAmount, QuoteType
  <2>. QED  BY <1>1, <1>2, <1>3, <2>1, PortionWhole
<1>7. /\ lockedBalances' = [lockedBalances EXCEPT ![old.partyA] = @ - freed]
      /\ partyBLockedBalances' = Sub(partyBLockedBalances, old.partyB, old.partyA, freed)
      /\ UNCHANGED <<pendingLockedBalances, partyBPendingLockedBalances, partyAReservedOpenFees>>
  BY <1>2 DEF ClosedBy, CloseQuote
<1>8. NoQuote.status = "NONE"
  BY DEF NoQuote
<1>9. \A a : /\ LockedShare(old, a) = IF old.partyA = a THEN old.locked ELSE 0
             /\ LockedShare(new, a) = IF old.partyA = a THEN old.locked - freed ELSE 0
             /\ PendingShare(new, a) = 0 /\ FeeShare(new, a) = 0
  BY <1>1, <1>2, <1>4, <1>5, <1>6 DEF LockedShare, PendingShare, FeeShare
<1>10. \A b, k : /\ PositionShare(old, b, k) =
                      IF old.partyB = b /\ k \in {old.partyA, Zero} THEN old.locked ELSE 0
                 /\ PositionShare(new, b, k) =
                      IF old.partyB = b /\ k \in {old.partyA, Zero} THEN old.locked - freed ELSE 0
                 /\ HeldShare(new, b, k) = 0
  BY <1>1, <1>2, <1>4, <1>5, <1>6 DEF PositionShare, HeldShare
<1>. HIDE DEF freed
<1>11. PendingMoves(old, new, NoQuote)
  BY <1>1, <1>7, <1>8, <1>9, PoolTypes, LiveShares, GoneShares DEF PendingMoves
<1>12. FeesMove(old, new, NoQuote)
  BY <1>1, <1>7, <1>8, <1>9, PoolTypes, LiveShares, GoneShares DEF FeesMove
<1>13. HeldMoves(old, new, NoQuote)
  BY <1>1, <1>7, <1>8, <1>10, PoolTypes, LiveShares, GoneShares DEF HeldMoves
<1>14. LockedMoves(old, new, NoQuote)
  BY <1>1, <1>4, <1>7, <1>8, <1>9, PoolTypes, GoneShares DEF LockedMoves
<1>15. PositionsMove(old, new, NoQuote)
  <2>1. ASSUME NEW b \in PartyB, NEW k \in BucketOf
        PROVE  partyBLockedBalances'[b][k] =
                 partyBLockedBalances[b][k] - PositionShare(old, b, k) + PositionShare(new, b, k)
                   + PositionShare(NoQuote, b, k)
    <3>1. partyBLockedBalances'[b][k] =
            IF old.partyB = b /\ k \in {old.partyA, Zero}
            THEN partyBLockedBalances[b][k] - freed ELSE partyBLockedBalances[b][k]
      BY <1>1, <1>7, PoolTypes, SubAt
    <3>2. partyBLockedBalances[b][k] \in Nat
      BY PoolTypes
    <3>3. PositionShare(NoQuote, b, k) = 0
      BY <1>8, GoneShares
    <3>. QED  BY <1>1, <1>4, <1>10, <3>1, <3>2, <3>3
  <2>. QED  BY <2>1 DEF PositionsMove
<1>. QED  BY <1>1, <1>11, <1>12, <1>13, <1>14, <1>15 DEF PoolsMove

LEMMA OpenWholeMoves ==
  ASSUME TypeInv, FeesExact, NEW q \in QuoteIds, NEW p \in Prices, OpenWhole(q, p)
  PROVE  \E pos : quotes' = [quotes EXCEPT ![q] = pos] /\ PoolsMove(quotes[q], pos, NoQuote)
<1>. DEFINE old == quotes[q]
            fee == OpenTradingFee(old)
<1>1. /\ old.status \in HeldStatus /\ old.partyA \in PartyA /\ old.partyB \in PartyB
      /\ old.locked \in Nat /\ fee \in Nat
  BY OpenWholeFacts, QuoteFacts
<1>2. PICK pos : /\ GoodQuote(pos) /\ pos.status = "OPENED"
                 /\ pos.partyA = old.partyA /\ pos.partyB = old.partyB
                 /\ quotes' = [quotes EXCEPT ![q] = pos]
                 /\ AddPosition(q, pos)
  BY OpenWholeFacts
<1>3. /\ pendingLockedBalances' = [pendingLockedBalances EXCEPT ![old.partyA] = @ - old.locked]
      /\ partyAReservedOpenFees' = [partyAReservedOpenFees EXCEPT ![old.partyA] = Decrease(@, fee)]
      /\ partyBPendingLockedBalances' =
           Sub(partyBPendingLockedBalances, old.partyB, old.partyA, old.locked)
  BY DEF OpenWhole, LeavePendingLists
<1>4. Decrease(partyAReservedOpenFees[old.partyA], fee) = partyAReservedOpenFees[old.partyA] - fee
  BY <1>1, FeeCovered
<1>5. /\ \A a \in PartyA : lockedBalances'[a] = lockedBalances[a] + LockedShare(pos, a)
      /\ \A b \in PartyB, k \in BucketOf :
           partyBLockedBalances'[b][k] = partyBLockedBalances[b][k] + PositionShare(pos, b, k)
  BY <1>1, <1>2, EnteredMoves
<1>6. \A b \in PartyB, k \in BucketOf :
        partyBPendingLockedBalances'[b][k] = partyBPendingLockedBalances[b][k] - HeldShare(old, b, k)
  BY <1>1, <1>3, LetGoMoves
<1>7. NoQuote.status = "NONE" /\ pos.status \in OpenStatus /\ pos.locked \in Nat
  BY <1>2 DEF NoQuote, GoodQuote, QuoteType
<1>. HIDE DEF fee
<1>8. PendingMoves(old, pos, NoQuote)
  BY <1>1, <1>3, <1>7, PoolTypes, HeldShares, LiveShares, GoneShares DEF PendingMoves
<1>9. FeesMove(old, pos, NoQuote)
  BY <1>1, <1>3, <1>4, <1>7, PoolTypes, HeldShares, LiveShares, GoneShares DEF FeesMove, fee
<1>10. LockedMoves(old, pos, NoQuote)
  BY <1>1, <1>5, <1>7, PoolTypes, HeldShares, LiveShares, GoneShares DEF LockedMoves
<1>11. PositionsMove(old, pos, NoQuote)
  BY <1>1, <1>5, <1>7, PoolTypes, HeldShares, LiveShares, GoneShares DEF PositionsMove
<1>12. HeldMoves(old, pos, NoQuote)
  BY <1>1, <1>6, <1>7, PoolTypes, HeldShares, LiveShares, GoneShares DEF HeldMoves
<1>. QED  BY <1>2, <1>8, <1>9, <1>10, <1>11, <1>12 DEF PoolsMove

LEMMA DivMonotone ==
  ASSUME NEW x \in Nat, NEW y \in Nat, NEW s \in Nat \ {0}, x <= y
  PROVE  x \div s <= y \div s
OBVIOUS

LEMMA MulMonotone ==
  ASSUME NEW x \in Nat, NEW y \in Nat, NEW z \in Nat, x <= y
  PROVE  x * z <= y * z
OBVIOUS

\* The fee on the rest of a partial fill is part of the fee that was reserved.
LEMMA RestFeeWithin ==
  ASSUME NEW q, NEW qt, GoodQuote(qt), qt.status \in HeldStatus, NEW n \in 1..qt.quantity,
         GoodQuote(Rest(q, qt, n))
  PROVE  /\ OpenTradingFee(Rest(q, qt, n)) \in Nat
         /\ OpenTradingFee(Rest(q, qt, n)) <= OpenTradingFee(qt)
<1>. DEFINE rest == Rest(q, qt, n)
            small == (qt.quantity - n) * qt.feePrice
            large == qt.quantity * qt.feePrice
<1>1. /\ qt \in QuoteType /\ qt.closedAmount = 0 /\ qt.quantity \in Nat /\ qt.feePrice \in Nat
      /\ qt.quantity - n \in Nat /\ qt.quantity - n <= qt.quantity
  BY DEF GoodQuote, QuoteType
<1>2. OpenAmount(rest) = qt.quantity - n /\ rest.feePrice = qt.feePrice
      /\ OpenAmount(qt) = qt.quantity
  BY <1>1 DEF Rest, QuoteType, OpenAmount
<1>3. small \in Nat /\ large \in Nat /\ small <= large
  BY <1>1, MulNat, MulMonotone
<1>4. /\ OpenTradingFee(rest) = (small * OpenFeeRate) \div FeeScale
      /\ OpenTradingFee(qt) = (large * OpenFeeRate) \div FeeScale
  BY <1>2 DEF OpenTradingFee
<1>. HIDE DEF small, large, rest
<1>5. /\ small * OpenFeeRate \in Nat /\ large * OpenFeeRate \in Nat
      /\ small * OpenFeeRate <= large * OpenFeeRate
  BY <1>3, MulNat, MulMonotone, NumbersAssumption
<1>6. /\ (small * OpenFeeRate) \div FeeScale <= (large * OpenFeeRate) \div FeeScale
      /\ (small * OpenFeeRate) \div FeeScale \in Nat
  BY <1>3, <1>5, DivMonotone, RatioNat, NumbersAssumption
<1>. QED  BY <1>4, <1>6 DEF rest

LEMMA OpenPartMoves ==
  ASSUME TypeInv, FeesExact, NEW q \in QuoteIds, NEW n \in 1..quotes[q].quantity,
         NEW p \in Prices, OpenPart(q, n, p)
  PROVE  PoolsMove(quotes[q], PartOf(q, n, p), Rest(q, quotes[q], n))
<1>. DEFINE old == quotes[q]
            pos == PartOf(q, n, p)
            rest == Rest(q, old, n)
            filled == Portion(old.locked, n, old.quantity)
            fee == OpenTradingFee(old)
            restFee == OpenTradingFee(rest)
            cancelled == old.status = "CANCEL_PENDING"
<1>1. /\ old.status \in HeldStatus /\ old.partyA \in PartyA /\ old.partyB \in PartyB
      /\ old.locked \in Nat /\ fee \in Nat /\ GoodQuote(old)
      /\ filled \in Nat /\ filled <= old.locked
      /\ GoodQuote(pos) /\ pos.status = "OPENED" /\ pos.partyA = old.partyA
      /\ pos.partyB = old.partyB /\ AddPosition(q, pos)
      /\ GoodQuote(rest) /\ rest.partyA = old.partyA
      /\ rest.status \in {"PENDING", "CANCELED"}
      /\ rest.status = "CANCELED" <=> cancelled
      /\ rest.locked = old.locked - filled
  BY OpenPartFacts, QuoteFacts
<1>2. restFee \in Nat /\ restFee <= fee
  BY <1>1, RestFeeWithin
<1>3. /\ pendingLockedBalances' =
           [pendingLockedBalances EXCEPT ![old.partyA] = @ - IF cancelled THEN old.locked ELSE filled]
      /\ partyAReservedOpenFees' =
           [partyAReservedOpenFees EXCEPT ![old.partyA] =
              Decrease(IF cancelled THEN Decrease(@, restFee) ELSE @, fee - restFee)]
      /\ partyBPendingLockedBalances' =
           Sub(partyBPendingLockedBalances, old.partyB, old.partyA, old.locked)
  BY DEF OpenPart, LeavePendingLists, ReleasedPending, RealizedFee
<1>4. fee <= partyAReservedOpenFees[old.partyA] /\ partyAReservedOpenFees[old.partyA] \in Nat
  BY <1>1, FeeCovered, PoolTypes
<1>5. /\ \A a \in PartyA : lockedBalances'[a] = lockedBalances[a] + LockedShare(pos, a)
      /\ \A b \in PartyB, k \in BucketOf :
           partyBLockedBalances'[b][k] = partyBLockedBalances[b][k] + PositionShare(pos, b, k)
  BY <1>1, EnteredMoves
<1>6. \A b \in PartyB, k \in BucketOf :
        partyBPendingLockedBalances'[b][k] = partyBPendingLockedBalances[b][k] - HeldShare(old, b, k)
  BY <1>1, <1>3, LetGoMoves
<1>7. pos.status \in OpenStatus /\ pos.locked \in Nat
  BY <1>1 DEF GoodQuote, QuoteType
<1>8. /\ \A a : /\ PendingShare(rest, a) =
                     IF old.partyA = a /\ ~cancelled THEN old.locked - filled ELSE 0
                /\ FeeShare(rest, a) = IF old.partyA = a /\ ~cancelled THEN restFee ELSE 0
                /\ LockedShare(rest, a) = 0
      /\ \A b, k : HeldShare(rest, b, k) = 0 /\ PositionShare(rest, b, k) = 0
  BY <1>1 DEF PendingShare, FeeShare, LockedShare, HeldShare, PositionShare
<1>. HIDE DEF fee, restFee, rest, pos, filled
<1>9. PendingMoves(old, pos, rest)
  BY <1>1, <1>3, <1>7, <1>8, PoolTypes, HeldShares, LiveShares DEF PendingMoves
<1>10. FeesMove(old, pos, rest)
  <2>1. Decrease(IF cancelled THEN Decrease(partyAReservedOpenFees[old.partyA], restFee)
                              ELSE partyAReservedOpenFees[old.partyA], fee - restFee)
          = partyAReservedOpenFees[old.partyA] - fee + IF cancelled THEN 0 ELSE restFee
    BY <1>1, <1>2, <1>4 DEF Decrease
  <2>2. \A a \in PartyA :
          partyAReservedOpenFees'[a] =
            IF a = old.partyA
            THEN partyAReservedOpenFees[a] - fee + IF cancelled THEN 0 ELSE restFee
            ELSE partyAReservedOpenFees[a]
    BY <1>1, <1>3, <2>1, PoolTypes
  <2>3. \A a : FeeShare(old, a) = (IF old.partyA = a THEN fee ELSE 0) /\ FeeShare(pos, a) = 0
    BY <1>1, <1>7, HeldShares, LiveShares DEF fee
  <2>. QED  BY <1>1, <1>2, <1>8, <2>2, <2>3, PoolTypes DEF FeesMove
<1>11. LockedMoves(old, pos, rest)
  BY <1>1, <1>5, <1>7, <1>8, PoolTypes, HeldShares, LiveShares DEF LockedMoves
<1>12. PositionsMove(old, pos, rest)
  BY <1>1, <1>5, <1>7, <1>8, PoolTypes, HeldShares, LiveShares DEF PositionsMove
<1>13. HeldMoves(old, pos, rest)
  BY <1>1, <1>6, <1>7, <1>8, PoolTypes, HeldShares, LiveShares DEF HeldMoves
<1>. QED  BY <1>9, <1>10, <1>11, <1>12, <1>13 DEF PoolsMove, pos, rest

----------------------------------------------------------------------------
(* The invariant.                                                          *)

ExactInv == TypeInv /\ IdsFresh /\ PoolsExact /\ FeesExact

\* q is replaced by new, an id r not used before may become rest (r is q when none
\* does), and the pools move to match.
Moving(q, r, new, rest) ==
  /\ \A x \in QuoteIds :
       quotes'[x] = IF x = q THEN new ELSE IF x = r THEN rest ELSE quotes[x]
  /\ q # r => quotes[r].status = "NONE"
  /\ q = r => rest.status = "NONE"
  /\ PoolsMove(quotes[q], new, rest)

Moves == \E q, r \in QuoteIds : \E new, rest : Moving(q, r, new, rest)

LEMMA ReplacedMoves ==
  ASSUME TypeInv, NEW q \in QuoteIds, NEW old, NEW new,
         old = quotes[q], quotes' = [quotes EXCEPT ![q] = new],
         PoolsMove(old, new, NoQuote)
  PROVE  Moves
<1>1. \A x \in QuoteIds :
        quotes'[x] = IF x = q THEN new ELSE IF x = q THEN NoQuote ELSE quotes[x]
  BY DEF TypeInv, TypeOK
<1>2. NoQuote.status = "NONE"
  BY DEF NoQuote
<1>3. Moving(q, q, new, NoQuote)
  BY <1>1, <1>2 DEF Moving
<1>. QED  BY <1>3 DEF Moves

LEMMA SplitMoves ==
  ASSUME TypeInv, IdsFresh, FeesExact, NEW q \in QuoteIds, NEW n \in 1..quotes[q].quantity,
         NEW p \in Prices, OpenPart(q, n, p)
  PROVE  Moves
<1>. DEFINE pos == PartOf(q, n, p)
            rest == Rest(q, quotes[q], n)
            r == lastId + 1
<1>1. /\ r \in QuoteIds /\ quotes[q].status \in HeldStatus
      /\ quotes' = [quotes EXCEPT ![q] = pos, ![r] = rest]
  BY OpenPartFacts
<1>2. q # r /\ quotes[r].status = "NONE"
  BY <1>1, UsedId, FreshId
<1>3. PoolsMove(quotes[q], pos, rest)
  BY OpenPartMoves
<1>. HIDE DEF pos, rest, r
<1>4. \A x \in QuoteIds :
        quotes'[x] = IF x = q THEN pos ELSE IF x = r THEN rest ELSE quotes[x]
  BY <1>1, <1>2 DEF TypeInv, TypeOK
<1>5. Moving(q, r, pos, rest)
  BY <1>2, <1>3, <1>4 DEF Moving
<1>. QED  BY <1>1, <1>5 DEF Moves

LEMMA QuoteStepMoves ==
  ASSUME TypeInv, IdsFresh, FeesExact, NEW q \in QuoteIds, QuoteStep(q)
  PROVE  Moves
<1>1. ASSUME NEW st \in {"CANCELED", "EXPIRED"}, Dropped(q, st) PROVE Moves
  BY <1>1, DroppedMoves, ReplacedMoves
<1>2. CASE Unlocked(q)
  BY <1>2, UnlockedMoves, ReplacedMoves
<1>3. ASSUME NEW new, Retouched(q, new) PROVE Moves
  BY <1>3, RetouchedMoves, ReplacedMoves
<1>4. ASSUME NEW p \in Prices, OpenWhole(q, p) PROVE Moves
  BY <1>4, OpenWholeMoves, ReplacedMoves
<1>5. ASSUME NEW n \in 1..quotes[q].quantity, NEW p \in Prices, OpenPart(q, n, p) PROVE Moves
  BY <1>5, SplitMoves
<1>6. ASSUME NEW qt, NEW n, NEW p, NEW new, ClosedBy(q, qt, n, p, new) PROVE Moves
  BY <1>6, ClosedByMoves, ReplacedMoves
<1>. QED  BY <1>1, <1>2, <1>3, <1>4, <1>5, <1>6 DEF QuoteStep

\* A step leaves quotes and pools alone, or moves them together.
LEMMA NextMoves ==
  ASSUME TypeInv, TypeInv', IdsFresh, FeesExact, [Next]_vars
  PROVE  UNCHANGED <<quotes, pools, partyAReservedOpenFees>> \/ Moves
<1>1. ASSUME NEW o \in Offers, SendQuote(o) PROVE Moves
  <2>1. /\ lastId + 1 \in QuoteIds /\ NoQuote = quotes[lastId + 1]
        /\ quotes' = [quotes EXCEPT ![lastId + 1] = QuoteOf(o)]
    BY <1>1, SendFacts, FreshId
  <2>2. PoolsMove(NoQuote, QuoteOf(o), NoQuote)
    BY <1>1, SentMoves
  <2>. QED  BY <2>1, <2>2, ReplacedMoves
<1>2. ASSUME NEW o \in Offers, NEW b \in PartyB, NEW p \in Prices, InstantOpen(o, b, p)
      PROVE  Moves
  <2>1. /\ lastId + 1 \in QuoteIds /\ NoQuote = quotes[lastId + 1]
        /\ quotes' = [quotes EXCEPT ![lastId + 1] = Templated(o, b, p)]
    BY <1>2, InstantOpenFacts, FreshId
  <2>2. PoolsMove(NoQuote, Templated(o, b, p), NoQuote)
    BY <1>2, TemplatedMoves
  <2>. QED  BY <2>1, <2>2, ReplacedMoves
<1>3. ASSUME NEW q \in QuoteIds, NEW b \in PartyB, LockQuote(b, q) PROVE Moves
  BY <1>3, LockedByMoves, ReplacedMoves
<1>4. CASE Elsewhere \/ UNCHANGED vars
  BY <1>4 DEF Elsewhere, vars, funds
<1>. QED
  BY <1>1, <1>2, <1>3, <1>4, QuoteStepMoves, StepEffect

LEMMA MovesSums ==
  ASSUME TypeInv, TypeInv', NEW q \in QuoteIds, NEW r \in QuoteIds, NEW new, NEW rest,
         Moving(q, r, new, rest)
  PROVE  SumsMove(quotes[q], new, rest)
BY QuotesMove DEF Moving

\* The sums are a function of the quotes.
LEMMA SumsStill ==
  ASSUME UNCHANGED quotes
  PROVE  /\ \A a : PendingSum(a)' = PendingSum(a) /\ LockedSum(a)' = LockedSum(a)
                   /\ FeeSum(a)' = FeeSum(a)
         /\ \A b, k : HeldSum(b, k)' = HeldSum(b, k) /\ PositionSum(b, k)' = PositionSum(b, k)
BY SumsPrime DEF PendingSum, LockedSum, FeeSum, HeldSum, PositionSum

LEMMA NextExact ==
  ASSUME ExactInv, TypeInv', [Next]_vars
  PROVE  PoolsExact' /\ FeesExact'
<1>1. CASE UNCHANGED <<quotes, pools, partyAReservedOpenFees>>
  BY <1>1, SumsStill DEF ExactInv, PoolsExact, FeesExact, pools
<1>2. ASSUME NEW q \in QuoteIds, NEW r \in QuoteIds, NEW new, NEW rest, Moving(q, r, new, rest)
      PROVE  PoolsExact' /\ FeesExact'
  BY <1>2, MovesSums, ExactKept DEF ExactInv, Moving
<1>. QED  BY <1>1, <1>2, NextMoves DEF ExactInv, Moves

\* Before the first quote all pools and all sums are zero.
LEMMA InitExact == Init => PoolsExact /\ FeesExact
<1>. SUFFICES ASSUME Init PROVE PoolsExact /\ FeesExact
  OBVIOUS
<1>1. \A q \in QuoteIds : quotes[q].status = "NONE"
  BY DEF Init, NoQuote
<1>2. /\ \A a \in PartyA : PendingSum(a) = 0 /\ LockedSum(a) = 0 /\ FeeSum(a) = 0
      /\ \A b \in PartyB, k \in BucketOf : HeldSum(b, k) = 0 /\ PositionSum(b, k) = 0
  <2>1. ASSUME NEW f, \A q \in QuoteIds : f[q] = 0 PROVE Total(QuoteIds, f) = 0
    BY <2>1, IdsAreFinite, TotalNone
  <2>2. ASSUME NEW a \in PartyA PROVE PendingSum(a) = 0 /\ LockedSum(a) = 0 /\ FeeSum(a) = 0
    BY <1>1, <2>1, GoneShares DEF PendingSum, LockedSum, FeeSum
  <2>3. ASSUME NEW b \in PartyB, NEW k \in BucketOf
        PROVE  HeldSum(b, k) = 0 /\ PositionSum(b, k) = 0
    BY <1>1, <2>1, GoneShares DEF HeldSum, PositionSum
  <2>. QED  BY <2>2, <2>3
<1>. QED  BY <1>2 DEF Init, PoolsExact, FeesExact

\* The invariant behind the theorems on pools and reserves: every running total
\* is the sum of what the quotes carry.
THEOREM ExactInvariant == Spec => []ExactInv
<1>1. Init => PoolsExact /\ FeesExact
  BY InitExact
<1>2. ExactInv /\ TypeInv' /\ [Next]_vars => PoolsExact' /\ FeesExact'
  BY NextExact
<1>3. TypeInv /\ IdsFresh /\ PoolsExact /\ FeesExact => ExactInv
  BY DEF ExactInv
<1>4. ExactInv => PoolsExact /\ FeesExact
  BY DEF ExactInv
<1>. QED
  BY <1>1, <1>2, <1>3, <1>4, FreshInvariant, PTL DEF Spec

\* The pools that solvency checks read are the sums of the margins of the quotes
\* they stand for, whatever partial fills, rescalings and closes came before.
THEOREM PoolsCorrect == Spec => []PoolsMatchQuotes
<1>1. ExactInv => PoolsMatchQuotes
  BY ExactSays DEF ExactInv
<1>. QED  BY <1>1, ExactInvariant, PTL

\* partyA's fee reserve is exactly the opening fees of its pending quotes,
\* whichever way each one leaves.
THEOREM FeesCorrect == Spec => []FeesReserved
<1>1. ExactInv => FeesReserved
  BY ExactSays DEF ExactInv
<1>. QED  BY <1>1, ExactInvariant, PTL

----------------------------------------------------------------------------
(* What all accounts may claim.                                            *)

AccountSum == Total(PartyA, [a \in PartyA |-> allocatedBalances[a] + partyAReservedOpenFees[a]])
AllocationSum ==
  Total(PartyB \X BucketOf, [x \in PartyB \X BucketOf |-> partyBAllocatedBalances[x[1]][x[2]]])

LEMMA FundTypes ==
  ASSUME TypeInv
  PROVE  /\ allocatedBalances \in [PartyA -> Nat] /\ partyAReservedOpenFees \in [PartyA -> Nat]
         /\ partyBAllocatedBalances \in Buckets /\ feeCollectorBalance \in Nat
         /\ \A b \in PartyB, k \in BucketOf : partyBAllocatedBalances[b][k] \in Nat
BY DEF TypeInv, TypeOK, Buckets

LEMMA PairsAreFinite ==
  /\ IsFiniteSet(BucketOf) /\ IsFiniteSet(PartyB \X BucketOf)
<1>1. IsFiniteSet({Zero})
  BY FS_Singleton
<1>2. IsFiniteSet(BucketOf)
  BY <1>1, PartiesAssumption, FS_Union DEF BucketOf
<1>. QED  BY <1>2, PartiesAssumption, FS_Product

LEMMA ClaimsSplit ==
  ASSUME TypeInv
  PROVE  /\ Claims = AccountSum + AllocationSum + feeCollectorBalance
         /\ AccountSum \in Nat /\ AllocationSum \in Nat
<1>1. AccountSum \in Nat
  <2>. DEFINE f == [a \in PartyA |-> allocatedBalances[a] + partyAReservedOpenFees[a]]
  <2>1. \A a \in PartyA : f[a] \in Nat
    BY FundTypes
  <2>. HIDE DEF f
  <2>2. Total(PartyA, f) \in Nat
    BY <2>1, PartiesAssumption, UnitsFinite
  <2>. QED  BY <2>2 DEF f, AccountSum
<1>2. AllocationSum \in Nat
  <2>. DEFINE f == [x \in PartyB \X BucketOf |-> partyBAllocatedBalances[x[1]][x[2]]]
  <2>1. \A x \in PartyB \X BucketOf : f[x] \in Nat
    BY FundTypes
  <2>. HIDE DEF f
  <2>2. Total(PartyB \X BucketOf, f) \in Nat
    BY <2>1, PairsAreFinite, UnitsFinite
  <2>. QED  BY <2>2 DEF f, AllocationSum
<1>. QED  BY <1>1, <1>2 DEF Claims, AccountSum, AllocationSum

\* What one partyA gains or loses, the sum does.
LEMMA AccountsMove ==
  ASSUME TypeInv, TypeInv', NEW a0 \in PartyA,
         \A a \in PartyA : a # a0 => /\ allocatedBalances'[a] = allocatedBalances[a]
                                     /\ partyAReservedOpenFees'[a] = partyAReservedOpenFees[a]
  PROVE  AccountSum' = AccountSum - (allocatedBalances[a0] + partyAReservedOpenFees[a0])
                         + (allocatedBalances'[a0] + partyAReservedOpenFees'[a0])
<1>. DEFINE f == [a \in PartyA |-> allocatedBalances[a] + partyAReservedOpenFees[a]]
            g == [a \in PartyA |-> allocatedBalances'[a] + partyAReservedOpenFees'[a]]
<1>1. \A a \in PartyA : f[a] \in Nat
  BY FundTypes
<1>2. \A a \in PartyA : g[a] \in Nat
  BY DEF TypeInv, TypeOK
<1>3. \A a \in PartyA \ {a0} : f[a] = g[a]
  OBVIOUS
<1>4. AccountSum = Total(PartyA, f) /\ AccountSum' = Total(PartyA, g)
  BY DEF AccountSum
<1>5. /\ f[a0] = allocatedBalances[a0] + partyAReservedOpenFees[a0]
      /\ g[a0] = allocatedBalances'[a0] + partyAReservedOpenFees'[a0]
  OBVIOUS
<1>. HIDE DEF f, g
<1>6. Total(PartyA, g) = Total(PartyA, f) - f[a0] + g[a0]
  BY <1>1, <1>2, <1>3, PartiesAssumption, TotalUpdate
<1>. QED  BY <1>4, <1>5, <1>6

\* The same for one allocation of one partyB.
LEMMA AllocationsMove ==
  ASSUME TypeInv, TypeInv', NEW b0 \in PartyB, NEW k0 \in BucketOf,
         \A b \in PartyB, k \in BucketOf :
           ~(b = b0 /\ k = k0) => partyBAllocatedBalances'[b][k] = partyBAllocatedBalances[b][k]
  PROVE  AllocationSum' = AllocationSum - partyBAllocatedBalances[b0][k0]
                            + partyBAllocatedBalances'[b0][k0]
<1>. DEFINE S == PartyB \X BucketOf
            f == [x \in S |-> partyBAllocatedBalances[x[1]][x[2]]]
            g == [x \in S |-> partyBAllocatedBalances'[x[1]][x[2]]]
            y == <<b0, k0>>
<1>1. \A x \in S : f[x] \in Nat
  BY FundTypes
<1>2. \A x \in S : g[x] \in Nat
  BY DEF TypeInv, TypeOK
<1>3. y \in S /\ \A x \in S \ {y} : f[x] = g[x]
  OBVIOUS
<1>4. AllocationSum = Total(S, f) /\ AllocationSum' = Total(S, g)
  BY DEF AllocationSum
<1>5. f[y] = partyBAllocatedBalances[b0][k0] /\ g[y] = partyBAllocatedBalances'[b0][k0]
  OBVIOUS
<1>6. IsFiniteSet(S)
  BY PairsAreFinite
<1>. HIDE DEF f, g, y, S
<1>7. \A x \in S : f[x] \in Nat /\ g[x] \in Nat
  BY <1>1, <1>2
<1>8. Total(S, g) = Total(S, f) - f[y] + g[y]
  BY <1>3, <1>6, <1>7, TotalUpdate
<1>. QED  BY <1>4, <1>5, <1>8

\* Only one partyA's balances and the fee collector change.
LEMMA OneAccountMoves ==
  ASSUME TypeInv, TypeInv', NEW a0 \in PartyA, UNCHANGED partyBAllocatedBalances,
         \A a \in PartyA : a # a0 => /\ allocatedBalances'[a] = allocatedBalances[a]
                                     /\ partyAReservedOpenFees'[a] = partyAReservedOpenFees[a]
  PROVE  Claims' = Claims
           - (allocatedBalances[a0] + partyAReservedOpenFees[a0] + feeCollectorBalance)
           + (allocatedBalances'[a0] + partyAReservedOpenFees'[a0] + feeCollectorBalance')
<1>1. AllocationSum' = AllocationSum
  BY DEF AllocationSum
<1>2. AccountSum' = AccountSum - (allocatedBalances[a0] + partyAReservedOpenFees[a0])
                      + (allocatedBalances'[a0] + partyAReservedOpenFees'[a0])
  BY AccountsMove
<1>3. Claims' = AccountSum' + AllocationSum' + feeCollectorBalance'
  BY DEF Claims, AccountSum, AllocationSum
<1>4. /\ allocatedBalances[a0] \in Nat /\ partyAReservedOpenFees[a0] \in Nat
      /\ allocatedBalances'[a0] \in Nat /\ partyAReservedOpenFees'[a0] \in Nat
      /\ feeCollectorBalance \in Nat /\ feeCollectorBalance' \in Nat
  BY DEF TypeInv, TypeOK
<1>. QED  BY <1>1, <1>2, <1>3, <1>4, ClaimsSplit

LEMMA FundsStill ==
  ASSUME UNCHANGED funds
  PROVE  Claims' = Claims
BY DEF funds, Claims

LEMMA SameRests ==
  ASSUME TypeInv, NEW q \in QuoteIds, NEW new, quotes' = [quotes EXCEPT ![q] = new],
         new.parent = quotes[q].parent
  PROVE  Rests' = Rests
<1>1. \A x \in QuoteIds : quotes'[x].parent = quotes[x].parent
  BY DEF TypeInv, TypeOK
<1>. QED  BY <1>1 DEF Rests

LEMMA SentClaims ==
  ASSUME TypeInv, TypeInv', NEW o \in Offers, SendQuote(o)
  PROVE  Claims' = Claims
<1>. DEFINE a == o.partyA
            fee == OpenTradingFee(QuoteOf(o))
<1>1. a \in PartyA /\ fee \in Nat
  BY SendFacts, FeeNat DEF GoodQuote
<1>2. /\ allocatedBalances' = [allocatedBalances EXCEPT ![a] = @ - fee]
      /\ partyAReservedOpenFees' = [partyAReservedOpenFees EXCEPT ![a] = @ + fee]
      /\ UNCHANGED <<partyBAllocatedBalances, feeCollectorBalance>>
  BY DEF SendQuote
<1>. HIDE DEF a, fee
<1>3. Claims' = Claims
        - (allocatedBalances[a] + partyAReservedOpenFees[a] + feeCollectorBalance)
        + (allocatedBalances'[a] + partyAReservedOpenFees'[a] + feeCollectorBalance')
  BY <1>1, <1>2, FundTypes, OneAccountMoves
<1>4. /\ allocatedBalances'[a] = allocatedBalances[a] - fee
      /\ partyAReservedOpenFees'[a] = partyAReservedOpenFees[a] + fee
      /\ allocatedBalances[a] \in Nat /\ partyAReservedOpenFees[a] \in Nat
  BY <1>1, <1>2, FundTypes
<1>. QED  BY <1>1, <1>2, <1>3, <1>4, FundTypes, ClaimsSplit

LEMMA TemplatedClaims ==
  ASSUME TypeInv, TypeInv', NEW o \in Offers, NEW b \in PartyB, NEW p \in Prices, InstantOpen(o, b, p)
  PROVE  Claims' = Claims
<1>. DEFINE a == o.partyA
            fee == OpenTradingFee(QuoteOf(o))
<1>1. a \in PartyA /\ fee \in Nat
  <2>1. now \in Nat
    BY NumbersAssumption DEF TypeInv, TypeOK
  <2>. QED  BY <2>1, InstantOpenFacts, QuoteOfGood, FeeNat DEF GoodQuote
<1>2. /\ allocatedBalances' = [allocatedBalances EXCEPT ![a] = @ - fee]
      /\ feeCollectorBalance' = feeCollectorBalance + fee
      /\ UNCHANGED <<partyBAllocatedBalances, partyAReservedOpenFees>>
  BY DEF InstantOpen
<1>. HIDE DEF a, fee
<1>3. Claims' = Claims
        - (allocatedBalances[a] + partyAReservedOpenFees[a] + feeCollectorBalance)
        + (allocatedBalances'[a] + partyAReservedOpenFees'[a] + feeCollectorBalance')
  BY <1>1, <1>2, FundTypes, OneAccountMoves
<1>4. /\ allocatedBalances'[a] = allocatedBalances[a] - fee
      /\ allocatedBalances[a] \in Nat /\ partyAReservedOpenFees[a] \in Nat
  BY <1>1, <1>2, FundTypes
<1>. QED  BY <1>1, <1>2, <1>3, <1>4, FundTypes, ClaimsSplit

LEMMA DroppedClaims ==
  ASSUME TypeInv, TypeInv', FeesExact, NEW q \in QuoteIds, NEW st, Dropped(q, st)
  PROVE  Claims' = Claims
<1>. DEFINE a == quotes[q].partyA
            fee == OpenTradingFee(quotes[q])
<1>1. /\ a \in PartyA /\ fee \in Nat
      /\ Decrease(partyAReservedOpenFees[a], fee) = partyAReservedOpenFees[a] - fee
  BY QuoteFacts, FeeCovered DEF Dropped
<1>2. /\ partyAReservedOpenFees' = [partyAReservedOpenFees EXCEPT ![a] = Decrease(@, fee)]
      /\ allocatedBalances' = [allocatedBalances EXCEPT ![a] = @ + fee]
      /\ UNCHANGED <<partyBAllocatedBalances, feeCollectorBalance>>
  BY DEF Dropped, Leave
<1>. HIDE DEF a, fee
<1>3. Claims' = Claims
        - (allocatedBalances[a] + partyAReservedOpenFees[a] + feeCollectorBalance)
        + (allocatedBalances'[a] + partyAReservedOpenFees'[a] + feeCollectorBalance')
  BY <1>1, <1>2, FundTypes, OneAccountMoves
<1>4. /\ allocatedBalances'[a] = allocatedBalances[a] + fee
      /\ partyAReservedOpenFees'[a] = partyAReservedOpenFees[a] - fee
      /\ allocatedBalances[a] \in Nat /\ partyAReservedOpenFees[a] \in Nat
  BY <1>1, <1>2, FundTypes
<1>. QED  BY <1>1, <1>2, <1>3, <1>4, FundTypes, ClaimsSplit

LEMMA OpenWholeClaims ==
  ASSUME TypeInv, TypeInv', FeesExact, NEW q \in QuoteIds, NEW p \in Prices, OpenWhole(q, p)
  PROVE  Claims' = Claims
<1>. DEFINE a == quotes[q].partyA
            fee == OpenTradingFee(quotes[q])
<1>1. /\ a \in PartyA /\ fee \in Nat
      /\ Decrease(partyAReservedOpenFees[a], fee) = partyAReservedOpenFees[a] - fee
  BY OpenWholeFacts, QuoteFacts, FeeCovered
<1>2. /\ partyAReservedOpenFees' = [partyAReservedOpenFees EXCEPT ![a] = Decrease(@, fee)]
      /\ feeCollectorBalance' = feeCollectorBalance + fee
      /\ UNCHANGED <<partyBAllocatedBalances, allocatedBalances>>
  BY DEF OpenWhole
<1>. HIDE DEF a, fee
<1>3. Claims' = Claims
        - (allocatedBalances[a] + partyAReservedOpenFees[a] + feeCollectorBalance)
        + (allocatedBalances'[a] + partyAReservedOpenFees'[a] + feeCollectorBalance')
  BY <1>1, <1>2, FundTypes, OneAccountMoves
<1>4. /\ partyAReservedOpenFees'[a] = partyAReservedOpenFees[a] - fee
      /\ allocatedBalances[a] \in Nat /\ partyAReservedOpenFees[a] \in Nat
  BY <1>1, <1>2, FundTypes
<1>. QED  BY <1>1, <1>2, <1>3, <1>4, FundTypes, ClaimsSplit

\* Closing moves the PnL from one party to the other and the fee to the collector.
LEMMA ClosedByClaims ==
  ASSUME TypeInv, TypeInv', NEW q \in QuoteIds, NEW qt, NEW n, NEW p, NEW new,
         ClosedBy(q, qt, n, p, new)
  PROVE  Claims' = Claims
<1>. DEFINE a == qt.partyA
            b == qt.partyB
            k == PartyBAllocationKey(b, a)
            fee == (n * p * CloseFeeRate) \div FeeScale
            pnl == Pnl(qt, n, p)
<1>1. a \in PartyA /\ b \in PartyB /\ k \in BucketOf
  BY QuoteFacts DEF ClosedBy, PartyBAllocationKey, BucketOf
<1>2. n \in Nat /\ p \in Nat /\ qt \in QuoteType
  BY DEF ClosedBy
<1>3. fee \in Nat
  <2>1. n * p \in Nat
    BY <1>2, MulNat
  <2>. QED  BY <2>1, RatioNat, NumbersAssumption
<1>4. pnl \in Int
  BY <1>2 DEF Pnl, QuoteType
<1>5. /\ partyBAllocatedBalances' = [partyBAllocatedBalances EXCEPT ![b][k] = @ - pnl]
      /\ allocatedBalances' = [allocatedBalances EXCEPT ![a] = @ + pnl - fee]
      /\ feeCollectorBalance' = feeCollectorBalance + fee
      /\ UNCHANGED partyAReservedOpenFees
  BY DEF ClosedBy, CloseQuote
<1>. HIDE DEF a, b, k, fee, pnl
<1>6. /\ allocatedBalances'[a] = allocatedBalances[a] + pnl - fee
      /\ partyBAllocatedBalances'[b][k] = partyBAllocatedBalances[b][k] - pnl
      /\ allocatedBalances[a] \in Nat /\ partyAReservedOpenFees[a] \in Nat
      /\ partyBAllocatedBalances[b][k] \in Nat
  BY <1>1, <1>5, FundTypes DEF Buckets
<1>7. AccountSum' = AccountSum - (allocatedBalances[a] + partyAReservedOpenFees[a])
                      + (allocatedBalances'[a] + partyAReservedOpenFees'[a])
  BY <1>1, <1>5, FundTypes, AccountsMove
<1>8. AllocationSum' = AllocationSum - partyBAllocatedBalances[b][k] + partyBAllocatedBalances'[b][k]
  <2>1. \A c \in PartyB, j \in BucketOf :
          ~(c = b /\ j = k) => partyBAllocatedBalances'[c][j] = partyBAllocatedBalances[c][j]
    BY <1>1, <1>5, FundTypes DEF Buckets
  <2>. QED  BY <1>1, <2>1, AllocationsMove
<1>9. Claims' = AccountSum' + AllocationSum' + feeCollectorBalance'
  BY DEF Claims, AccountSum, AllocationSum
<1>. QED  BY <1>3, <1>4, <1>5, <1>6, <1>7, <1>8, <1>9, FundTypes, ClaimsSplit

\* Two fees rounded apart are at most one unit less than the fee on both.
LEMMA DivSplit ==
  ASSUME NEW x \in Nat, NEW y \in Nat, NEW s \in Nat \ {0}
  PROVE  /\ x \div s + y \div s <= (x + y) \div s
         /\ (x + y) \div s <= x \div s + y \div s + 1
OBVIOUS

LEMMA FeeSplit ==
  ASSUME NEW q, NEW qt, GoodQuote(qt), qt.status \in HeldStatus, NEW n \in 1..qt.quantity
  PROVE  LET part == (n * qt.feePrice * OpenFeeRate) \div FeeScale
             rest == OpenTradingFee(Rest(q, qt, n))
             whole == OpenTradingFee(qt) IN
         /\ part \in Nat
         /\ part + rest <= whole /\ whole <= part + rest + 1
<1>. DEFINE part == n * qt.feePrice * OpenFeeRate
            rest == (qt.quantity - n) * qt.feePrice * OpenFeeRate
            whole == qt.quantity * qt.feePrice * OpenFeeRate
<1>1. /\ qt \in QuoteType /\ qt.closedAmount = 0 /\ qt.quantity \in Nat /\ qt.feePrice \in Nat
      /\ qt.quantity - n \in Nat /\ n \in Nat
  BY DEF GoodQuote, QuoteType
<1>2. /\ OpenAmount(Rest(q, qt, n)) = qt.quantity - n /\ Rest(q, qt, n).feePrice = qt.feePrice
      /\ OpenAmount(qt) = qt.quantity
  BY <1>1 DEF Rest, QuoteType, OpenAmount
<1>3. part \in Nat /\ rest \in Nat
  BY <1>1, MulNat, NumbersAssumption
<1>4. whole = part + rest
  <2>. DEFINE c == qt.feePrice * OpenFeeRate
  <2>1. c \in Nat
    BY <1>1, MulNat, NumbersAssumption
  <2>2. whole = qt.quantity * c /\ part = n * c /\ rest = (qt.quantity - n) * c
    BY <1>1, NumbersAssumption
  <2>. HIDE DEF c, whole, part, rest
  <2>. QED  BY <1>1, <2>1, <2>2
<1>5. /\ OpenTradingFee(Rest(q, qt, n)) = rest \div FeeScale
      /\ OpenTradingFee(qt) = whole \div FeeScale
  BY <1>2 DEF OpenTradingFee
<1>. HIDE DEF part, rest, whole
<1>6. part \div FeeScale \in Nat
  BY <1>3, DivNat, NumbersAssumption
<1>. QED  BY <1>3, <1>4, <1>5, <1>6, DivSplit, NumbersAssumption DEF part

\* A partial fill realizes the fee on what was filled, keeps or refunds the fee
\* on the rest, and loses at most one unit to the rounding of the two.
LEMMA OpenPartClaims ==
  ASSUME TypeInv, TypeInv', FeesExact, NEW q \in QuoteIds, NEW n \in 1..quotes[q].quantity,
         NEW p \in Prices, OpenPart(q, n, p)
  PROVE  Claims' \in {Claims - 1, Claims}
<1>. DEFINE a == quotes[q].partyA
            cancelled == quotes[q].status = "CANCEL_PENDING"
            fee == OpenTradingFee(quotes[q])
            restFee == OpenTradingFee(Rest(q, quotes[q], n))
            part == (n * quotes[q].feePrice * OpenFeeRate) \div FeeScale
            reserved == partyAReservedOpenFees[a]
<1>1. /\ GoodQuote(quotes[q]) /\ quotes[q].status \in HeldStatus /\ a \in PartyA
      /\ GoodQuote(Rest(q, quotes[q], n)) /\ fee \in Nat
  BY OpenPartFacts, QuoteFacts
<1>2. fee <= reserved /\ reserved \in Nat
  BY <1>1, FeeCovered, PoolTypes
<1>3. /\ restFee \in Nat /\ restFee <= fee /\ part \in Nat
      /\ part + restFee <= fee /\ fee <= part + restFee + 1
  BY <1>1, RestFeeWithin, FeeSplit
<1>4. /\ feeCollectorBalance' = feeCollectorBalance + part
      /\ partyAReservedOpenFees' =
           [partyAReservedOpenFees EXCEPT ![a] =
              Decrease(IF cancelled THEN Decrease(@, restFee) ELSE @, fee - restFee)]
      /\ allocatedBalances' =
           [allocatedBalances EXCEPT ![a] = @ + (IF cancelled THEN restFee ELSE 0)]
      /\ UNCHANGED partyBAllocatedBalances
  BY DEF OpenPart, RealizedFee
<1>. HIDE DEF a, fee, restFee, part
<1>5. Claims' = Claims
        - (allocatedBalances[a] + partyAReservedOpenFees[a] + feeCollectorBalance)
        + (allocatedBalances'[a] + partyAReservedOpenFees'[a] + feeCollectorBalance')
  BY <1>1, <1>4, FundTypes, OneAccountMoves
<1>6. partyAReservedOpenFees'[a] = reserved - fee + IF cancelled THEN 0 ELSE restFee
  <2>1. Decrease(IF cancelled THEN Decrease(reserved, restFee) ELSE reserved, fee - restFee)
          = reserved - fee + IF cancelled THEN 0 ELSE restFee
    BY <1>1, <1>2, <1>3 DEF Decrease
  <2>. QED  BY <1>1, <1>4, <2>1, FundTypes
<1>7. /\ allocatedBalances'[a] = allocatedBalances[a] + IF cancelled THEN restFee ELSE 0
      /\ allocatedBalances[a] \in Nat
  BY <1>1, <1>4, FundTypes
<1>8. Claims' = Claims - fee + restFee + part
  <2>1. feeCollectorBalance' = feeCollectorBalance + part /\ Claims \in Int
        /\ feeCollectorBalance \in Nat
    BY <1>4, FundTypes, ClaimsSplit
  <2>. HIDE DEF cancelled, reserved
  <2>. QED  BY <1>1, <1>2, <1>3, <1>5, <1>6, <1>7, <2>1 DEF reserved
<1>9. Claims \in Int
  BY FundTypes, ClaimsSplit
<1>. QED  BY <1>1, <1>3, <1>8, <1>9

LEMMA RestsFinite ==
  IsFiniteSet(Rests) /\ Cardinality(Rests) \in Nat
<1>1. Rests \in SUBSET QuoteIds
  BY DEF Rests
<1>. QED  BY <1>1, IdsAreFinite, FS_Subset, FS_CardinalityType

\* Only a partial fill makes a quote that is the rest of another, and it makes one.
LEMMA OpenPartRests ==
  ASSUME TypeInv, IdsFresh, NEW q \in QuoteIds, NEW n \in 1..quotes[q].quantity,
         NEW p \in Prices, OpenPart(q, n, p)
  PROVE  Cardinality(Rests)' = Cardinality(Rests) + 1
<1>. DEFINE r == lastId + 1
            pos == PartOf(q, n, p)
            rest == Rest(q, quotes[q], n)
<1>1. /\ r \in QuoteIds /\ quotes[q].status \in HeldStatus
      /\ quotes' = [quotes EXCEPT ![q] = pos, ![r] = rest]
  BY OpenPartFacts
<1>2. q # r /\ quotes[r] = NoQuote
  BY <1>1, UsedId, FreshId
<1>3. quotes[q] \in QuoteType /\ q # 0 /\ NoQuote.parent = 0
  BY QuoteFacts DEF QuoteIds, NoQuote
<1>4. pos.parent = quotes[q].parent /\ rest.parent # 0
  BY <1>3 DEF PartOf, Opened, Rest, QuoteType
<1>. HIDE DEF pos, rest, r
<1>5. \A x \in QuoteIds :
        quotes'[x].parent # 0 <=> x = r \/ quotes[x].parent # 0
  BY <1>1, <1>2, <1>4 DEF TypeInv, TypeOK
<1>6. Rests' = Rests \cup {r} /\ r \notin Rests
  BY <1>1, <1>2, <1>3, <1>5 DEF Rests
<1>7. Cardinality(Rests \cup {r}) = Cardinality(Rests) + 1
  BY <1>6, RestsFinite, FS_AddElement
<1>. QED  BY <1>6, <1>7

LEMMA QuoteStepClaims ==
  ASSUME TypeInv, TypeInv', IdsFresh, FeesExact, NEW q \in QuoteIds, QuoteStep(q)
  PROVE  \/ Claims' = Claims /\ Rests' = Rests
         \/ Claims' \in {Claims - 1, Claims} /\ Cardinality(Rests)' = Cardinality(Rests) + 1
<1>1. ASSUME NEW st \in {"CANCELED", "EXPIRED"}, Dropped(q, st)
      PROVE  Claims' = Claims /\ Rests' = Rests
  <2>1. [quotes[q] EXCEPT !.status = st, !.modified = now].parent = quotes[q].parent
    BY QuoteFacts DEF QuoteType
  <2>. QED  BY <1>1, <2>1, DroppedMoves, DroppedClaims, SameRests
<1>2. ASSUME Unlocked(q) PROVE Claims' = Claims /\ Rests' = Rests
  <2>1. [quotes[q] EXCEPT !.status = "PENDING", !.partyB = Zero, !.modified = now].parent
          = quotes[q].parent
    BY QuoteFacts DEF QuoteType
  <2>2. UNCHANGED funds
    BY <1>2 DEF Unlocked
  <2>. QED  BY <1>2, <2>1, <2>2, UnlockedMoves, FundsStill, SameRests
<1>3. ASSUME NEW new, Retouched(q, new) PROVE Claims' = Claims /\ Rests' = Rests
  BY <1>3, FundsStill, SameRests DEF Retouched, UpdateOnly
<1>4. ASSUME NEW p \in Prices, OpenWhole(q, p) PROVE Claims' = Claims /\ Rests' = Rests
  BY <1>4, OpenWholeFacts, OpenWholeClaims, SameRests
<1>5. ASSUME NEW n \in 1..quotes[q].quantity, NEW p \in Prices, OpenPart(q, n, p)
      PROVE  Claims' \in {Claims - 1, Claims} /\ Cardinality(Rests)' = Cardinality(Rests) + 1
  BY <1>5, OpenPartClaims, OpenPartRests
<1>6. ASSUME NEW qt, NEW n, NEW p, NEW new, ClosedBy(q, qt, n, p, new)
      PROVE  Claims' = Claims /\ Rests' = Rests
  <2>1. quotes' = [quotes EXCEPT ![q] = new] /\ new.parent = quotes[q].parent
    BY <1>6 DEF ClosedBy
  <2>. QED  BY <1>6, <2>1, ClosedByClaims, SameRests
<1>. QED  BY <1>1, <1>2, <1>3, <1>4, <1>5, <1>6 DEF QuoteStep

LEMMA NextClaims ==
  ASSUME TypeInv, TypeInv', IdsFresh, FeesExact, [Next]_vars
  PROVE  \/ Claims' = Claims /\ Rests' = Rests
         \/ Claims' \in {Claims - 1, Claims} /\ Cardinality(Rests)' = Cardinality(Rests) + 1
<1>1. ASSUME NEW o \in Offers, SendQuote(o) PROVE Claims' = Claims /\ Rests' = Rests
  <2>1. /\ lastId + 1 \in QuoteIds /\ quotes[lastId + 1] = NoQuote
        /\ quotes' = [quotes EXCEPT ![lastId + 1] = QuoteOf(o)]
    BY <1>1, SendFacts, FreshId
  <2>2. QuoteOf(o).parent = NoQuote.parent
    BY DEF QuoteOf, NoQuote
  <2>. QED  BY <1>1, <2>1, <2>2, SentClaims, SameRests
<1>2. ASSUME NEW o \in Offers, NEW b \in PartyB, NEW p \in Prices, InstantOpen(o, b, p)
      PROVE  Claims' = Claims /\ Rests' = Rests
  <2>1. /\ lastId + 1 \in QuoteIds /\ quotes[lastId + 1] = NoQuote
        /\ quotes' = [quotes EXCEPT ![lastId + 1] = Templated(o, b, p)]
    BY <1>2, InstantOpenFacts, FreshId
  <2>2. Templated(o, b, p).parent = NoQuote.parent
    BY DEF Templated, Opened, QuoteOf, NoQuote
  <2>. QED  BY <1>2, <2>1, <2>2, TemplatedClaims, SameRests
<1>3. ASSUME NEW q \in QuoteIds, NEW b \in PartyB, LockQuote(b, q)
      PROVE  Claims' = Claims /\ Rests' = Rests
  <2>1. [quotes[q] EXCEPT !.status = "LOCKED", !.partyB = b, !.modified = now].parent
          = quotes[q].parent
    BY QuoteFacts DEF QuoteType
  <2>2. UNCHANGED funds
    BY <1>3 DEF LockQuote
  <2>3. quotes' = [quotes EXCEPT ![q] = [quotes[q] EXCEPT !.status = "LOCKED", !.partyB = b,
                                                          !.modified = now]]
    BY <1>3, LockedByMoves
  <2>. QED  BY <2>1, <2>2, <2>3, FundsStill, SameRests
<1>4. CASE Elsewhere \/ UNCHANGED vars
  <2>1. UNCHANGED <<quotes, funds>>
    BY <1>4 DEF Elsewhere, vars
  <2>2. Claims' = Claims
    BY <2>1, FundsStill
  <2>. QED  BY <2>1, <2>2 DEF Rests
<1>. QED
  BY <1>1, <1>2, <1>3, <1>4, QuoteStepClaims, StepEffect

LEMMA DepositedNat ==
  /\ Deposited \in Nat
  /\ Deposited = InitialAllocation * Cardinality(PartyA)
                   + InitialAllocation *
                       (Cardinality(CrossPartyB) + Cardinality((PartyB \ CrossPartyB) \X PartyA))
<1>1. IsFiniteSet(CrossPartyB) /\ IsFiniteSet(PartyB \ CrossPartyB)
  BY PartiesAssumption, FS_Subset
<1>2. IsFiniteSet((PartyB \ CrossPartyB) \X PartyA)
  BY <1>1, PartiesAssumption, FS_Product
<1>3. /\ Cardinality(PartyA) \in Nat /\ Cardinality(CrossPartyB) \in Nat
      /\ Cardinality((PartyB \ CrossPartyB) \X PartyA) \in Nat
  BY <1>1, <1>2, PartiesAssumption, FS_CardinalityType
<1>. QED  BY <1>3, NumbersAssumption DEF Deposited

\* The allocations that hold something at the start: one for every cross partyB,
\* one for every pair of a partyA and another partyB.
LEMMA InitClaims ==
  ASSUME Init
  PROVE  Claims = Deposited /\ Rests = {}
<1>1. AccountSum = InitialAllocation * Cardinality(PartyA)
  <2>. DEFINE f == [a \in PartyA |-> allocatedBalances[a] + partyAReservedOpenFees[a]]
  <2>1. \A a \in PartyA : f[a] = InitialAllocation
    BY NumbersAssumption DEF Init
  <2>. HIDE DEF f
  <2>2. Total(PartyA, f) = InitialAllocation * Cardinality(PartyA)
    BY <2>1, PartiesAssumption, NumbersAssumption, TotalConst
  <2>. QED  BY <2>2 DEF f, AccountSum
<1>2. AllocationSum =
        InitialAllocation *
          (Cardinality(CrossPartyB) + Cardinality((PartyB \ CrossPartyB) \X PartyA))
  <2>. DEFINE S == PartyB \X BucketOf
              f == [x \in S |-> partyBAllocatedBalances[x[1]][x[2]]]
              C == CrossPartyB \X {Zero}
              P == (PartyB \ CrossPartyB) \X PartyA
  <2>1. \A x \in S : f[x] = IF x \in C \cup P THEN InitialAllocation ELSE 0
    BY PartiesAssumption DEF Init, BucketOf
  <2>2. IsFiniteSet(C) /\ IsFiniteSet(P)
    <3>1. IsFiniteSet(CrossPartyB) /\ IsFiniteSet(PartyB \ CrossPartyB) /\ IsFiniteSet({Zero})
      BY PartiesAssumption, FS_Subset, FS_Singleton
    <3>. QED  BY <3>1, PartiesAssumption, FS_Product
  <2>3. Cardinality(C) = Cardinality(CrossPartyB)
    <3>1. IsFiniteSet(CrossPartyB) /\ IsFiniteSet({Zero}) /\ Cardinality({Zero}) = 1
      BY PartiesAssumption, FS_Subset, FS_Singleton
    <3>2. Cardinality(C) = Cardinality(CrossPartyB) * Cardinality({Zero})
      BY <3>1, FS_Product
    <3>3. Cardinality(CrossPartyB) \in Nat
      BY <3>1, FS_CardinalityType
    <3>. QED  BY <3>1, <3>2, <3>3
  <2>4. Cardinality(C \cup P) = Cardinality(C) + Cardinality(P)
    <3>1. C \cap P = {}
      OBVIOUS
    <3>2. Cardinality(C \cap P) = 0
      BY <3>1, FS_EmptySet
    <3>3. Cardinality(C) \in Nat /\ Cardinality(P) \in Nat
      BY <2>2, FS_CardinalityType
    <3>4. Cardinality(C \cup P) = Cardinality(C) + Cardinality(P) - Cardinality(C \cap P)
      BY <2>2, FS_Union
    <3>. QED  BY <3>2, <3>3, <3>4
  <2>5. C \cup P \in SUBSET S /\ IsFiniteSet(C \cup P) /\ IsFiniteSet(S)
    <3>1. C \cup P \in SUBSET S
      BY PartiesAssumption DEF BucketOf
    <3>. QED  BY <2>2, <3>1, PairsAreFinite, FS_Union
  <2>6. AllocationSum = Total(S, f)
    BY DEF AllocationSum
  <2>. HIDE DEF f, S, C, P
  <2>7. Total(S, f) = Total(C \cup P, f)
    <3>1. /\ \A x \in S : f[x] \in Nat
          /\ \A x \in S \ (C \cup P) : f[x] = 0
      BY <2>1, NumbersAssumption
    <3>. QED  BY <2>5, <3>1, TotalWithin
  <2>8. Total(C \cup P, f) = InitialAllocation * Cardinality(C \cup P)
    <3>1. \A x \in C \cup P : f[x] = InitialAllocation
      BY <2>1, <2>5
    <3>. QED  BY <2>5, <3>1, NumbersAssumption, TotalConst
  <2>. QED  BY <2>3, <2>4, <2>6, <2>7, <2>8 DEF P
<1>3. feeCollectorBalance = 0 /\ Claims = AccountSum + AllocationSum + feeCollectorBalance
  BY DEF Init, Claims, AccountSum, AllocationSum
<1>4. AccountSum \in Nat /\ AllocationSum \in Nat
  BY InitType, ClaimsSplit
<1>5. Rests = {}
  BY DEF Init, Rests, NoQuote
<1>. QED  BY <1>1, <1>2, <1>3, <1>4, <1>5, DepositedNat

\* Collateral is conserved: whatever is refunded, realized, won or lost, all
\* accounts together may claim what was deposited, short of it by at most one
\* unit of rounded-off fee for every partial fill.
THEOREM ClaimsCorrect == Spec => []ClaimsBacked
<1>1. Init => ClaimsBacked
  <2>. SUFFICES ASSUME Init PROVE ClaimsBacked
    OBVIOUS
  <2>1. Cardinality({}) = 0
    BY FS_EmptySet
  <2>. QED  BY <2>1, InitClaims, DepositedNat DEF ClaimsBacked
<1>2. ExactInv /\ TypeInv' /\ ClaimsBacked /\ [Next]_vars => ClaimsBacked'
  <2>. SUFFICES ASSUME ExactInv, TypeInv', ClaimsBacked, [Next]_vars PROVE ClaimsBacked'
    OBVIOUS
  <2>1. Deposited' = Deposited
    BY DEF Deposited
  <2>2. /\ Claims \in Int /\ Cardinality(Rests) \in Nat /\ Deposited \in Nat
        /\ Deposited - Cardinality(Rests) <= Claims /\ Claims <= Deposited
    BY ClaimsSplit, FundTypes, RestsFinite, DepositedNat DEF ClaimsBacked, ExactInv
  <2>3. CASE Claims' = Claims /\ Rests' = Rests
    <3>1. Claims' \in (Deposited - Cardinality(Rests'))..Deposited
      BY <2>2, <2>3
    <3>. QED  BY <2>1, <3>1 DEF ClaimsBacked
  <2>4. CASE Claims' \in {Claims - 1, Claims} /\ Cardinality(Rests)' = Cardinality(Rests) + 1
    <3>1. Claims' \in (Deposited - Cardinality(Rests)')..Deposited
      BY <2>2, <2>4
    <3>. QED  BY <2>1, <3>1 DEF ClaimsBacked
  <2>. QED  BY <2>3, <2>4, NextClaims DEF ExactInv
<1>3. ExactInv => TypeInv
  BY DEF ExactInv
<1>. QED
  BY <1>1, <1>2, <1>3, ExactInvariant, PTL DEF Spec
=============================================================================
