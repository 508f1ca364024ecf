------------------------- MODULE ClearingHouseProofs -------------------------
(***************************************************************************)
(* What a partyA liquidation keeps account of is exact, for every value of *)
(* the constants and whatever the order in which liquidators, the dispute  *)
(* resolver and the clearing house act: the reserves of the cross partyBs, *)
(* the count of the settlements outstanding, and what is locked once a     *)
(* liquidation is over.                                                    *)
(***************************************************************************)
EXTENDS ClearingHouse, SumsProofs

----------------------------------------------------------------------------
(* The inductive invariant.                                                *)

LiquidationDetail ==
  [type : {"NONE", "NORMAL", "LATE", "OVERDUE"}, upnl : Int, totalUnrealizedLoss : Int,
   price : Nat, priceSet : BOOLEAN, deficit : Int, liquidationFee : Int,
   involvedPartyBCounts : Int, partyAAccumulatedUpnl : Int, disputed : BOOLEAN,
   had : Int, asComputed : BOOLEAN]
SettlementState == [pending : BOOLEAN, actual : Int, expected : Int, cva : Int]
Process == [inProgress : BOOLEAN, pool : Int]

MoneyTyped ==
  /\ allocatedBalances \in [PartyA -> Int]
  /\ partyBAllocatedBalances \in [PartyB -> [BucketOf -> Int]]
  /\ partyAReimbursement \in [PartyA -> Int]
  /\ partyADeferredBalance \in [PartyA -> Int]
  /\ liquidationEscrow \in [PartyA -> Int]
  /\ crossLiquidation \in [PartyB -> Process]

BookTyped ==
  /\ quotes \in [QuoteIds -> QuoteType]
  /\ lockedBalances \in [PartyA -> [cva : Int, lf : Int]]
  /\ liquidationStatus \in [PartyA -> BOOLEAN]
  /\ liquidationDetails \in [PartyA -> LiquidationDetail]
  /\ settlementStates \in [PartyA -> [PartyB -> SettlementState]]
  /\ partyBLiquidationSettlementReserve \in [PartyB -> Int]
  /\ takeover \in [PartyA -> Process]

\* What b owes in the settlements still pending.
Owed(b) == Total(PartyA, [a \in PartyA |-> Positive(settlementStates[a][b].actual)])

Reserved ==
  \A b \in PartyB :
    partyBLiquidationSettlementReserve[b] = IF b \in CrossPartyB THEN Owed(b) ELSE 0

\* A settlement that is not pending owes nothing.
Counted ==
  \A a \in PartyA :
    /\ liquidationDetails[a].involvedPartyBCounts = Cardinality(Pending(a))
    /\ \A b \in PartyB \ Pending(a) : settlementStates[a][b].actual = 0

Live ==
  \A a \in PartyA : Pending(a) # {} \/ takeover[a].inProgress => liquidationStatus[a]

OpenLocked(a) ==
  [cva |-> Total(OpenOf(a), [q \in OpenOf(a) |-> quotes[q].cva]),
   lf  |-> Total(OpenOf(a), [q \in OpenOf(a) |-> quotes[q].lf])]

LockedWhileSolvent ==
  \A a \in PartyA : ~liquidationStatus[a] => lockedBalances[a] = OpenLocked(a)

\* What the deficit is shared by: the losses signed count every position still open.
Shared ==
  \A a \in PartyA : liquidationStatus[a] =>
    /\ liquidationDetails[a].priceSet => liquidationDetails[a].type # "NONE"
    /\ \A q \in OpenOf(a) :
         Positive(-Pnl(q, liquidationDetails[a].price)) <= -liquidationDetails[a].totalUnrealizedLoss

Accounts == Reserved /\ Counted /\ Live /\ LockedWhileSolvent /\ Shared

Inv == MoneyTyped /\ BookTyped /\ Accounts

----------------------------------------------------------------------------
(* What the operators return.                                              *)

LEMMA PositiveNat ==
  ASSUME NEW n \in Int
  PROVE  Positive(n) \in Nat
BY DEF Positive

LEMMA PnlInt ==
  ASSUME quotes \in [QuoteIds -> QuoteType], NEW q \in QuoteIds, NEW price \in Int
  PROVE  Pnl(q, price) \in Int
<1>1. quotes[q].openedPrice \in Int /\ quotes[q].quantity \in Int
  BY DEF QuoteType
<1>2. (price - quotes[q].openedPrice) * quotes[q].quantity \in Int
  BY <1>1
<1>. QED
  BY <1>2 DEF Pnl

LEMMA SubsetFinite ==
  ASSUME NEW a
  PROVE  /\ OpenOf(a) \subseteq QuoteIds /\ IsFiniteSet(OpenOf(a))
         /\ PendingOf(a) \subseteq QuoteIds /\ IsFiniteSet(PendingOf(a))
         /\ Pending(a) \subseteq PartyB /\ IsFiniteSet(Pending(a))
<1>1. OpenOf(a) \subseteq QuoteIds /\ PendingOf(a) \subseteq QuoteIds /\ Pending(a) \subseteq PartyB
  BY DEF OpenOf, PendingOf, With, Pending
<1>2. IsFiniteSet(QuoteIds) /\ IsFiniteSet(PartyB)
  BY LiquidationAssumption
<1>. QED
  BY <1>1, <1>2, FS_Subset

LEMMA UpnlInt ==
  ASSUME quotes \in [QuoteIds -> QuoteType], NEW a, NEW price \in Int
  PROVE  Losses(OpenOf(a), price) \in Nat /\ Upnl(OpenOf(a), price) \in Int
<1>1. \A q \in OpenOf(a) :
        Positive(Pnl(q, price)) \in Nat /\ Positive(-Pnl(q, price)) \in Nat
  BY SubsetFinite, PnlInt, PositiveNat
<1>2. Gains(OpenOf(a), price) \in Nat /\ Losses(OpenOf(a), price) \in Nat
  BY <1>1, SubsetFinite, UnitsFinite DEF Gains, Losses
<1>. QED
  BY <1>2 DEF Upnl

LEMMA FeesNat ==
  ASSUME quotes \in [QuoteIds -> QuoteType], NEW S, S \subseteq QuoteIds
  PROVE  Fees(S) \in Nat
<1>1. \A q \in S : quotes[q].fee \in Nat
  BY DEF QuoteType
<1>2. IsFiniteSet(S)
  BY LiquidationAssumption, FS_Subset
<1>. QED
  BY <1>1, <1>2, UnitsFinite DEF Fees

LEMMA TypedInt ==
  ASSUME BookTyped, NEW a \in PartyA, NEW available \in Int
  PROVE  /\ Typed(a, available).type \in {"NORMAL", "LATE", "OVERDUE"}
         /\ Typed(a, available).deficit \in Int /\ Typed(a, available).fee \in Int
<1>. DEFINE shortfall == (-available) % UintModulus
            maxLf == MaxLiquidationProfitPerPosition * Cardinality(OpenOf(a))
<1>1. lockedBalances[a].cva \in Int /\ lockedBalances[a].lf \in Int
  BY DEF BookTyped
<1>2. shortfall \in Int
  BY LiquidationAssumption
<1>3. maxLf \in Int
  BY LiquidationAssumption, SubsetFinite, FS_CardinalityType
<1>4. Lesser(lockedBalances[a].lf - shortfall, maxLf) \in Int
  BY <1>1, <1>2, <1>3 DEF Lesser
<1>. QED
  BY <1>1, <1>2, <1>4 DEF Typed

\* A settlement stays in integers: what losses are divided by is not zero.
LEMMA AddsInt ==
  ASSUME BookTyped, Shared, NEW a \in PartyA, NEW q \in OpenOf(a),
         liquidationStatus[a], liquidationDetails[a].priceSet, MayAdd(a, q)
  PROVE  Adds(a, q).cva \in Int /\ Adds(a, q).actual \in Int /\ Adds(a, q).expected \in Int
<1>. DEFINE detail == liquidationDetails[a]
            pnl == Pnl(q, detail.price)
<1>1. q \in QuoteIds /\ detail \in LiquidationDetail /\ lockedBalances[a].cva \in Int
  BY SubsetFinite DEF BookTyped
<1>2. detail.deficit \in Int /\ detail.totalUnrealizedLoss \in Int /\ detail.price \in Int
  BY <1>1 DEF LiquidationDetail
<1>3. pnl \in Int
  BY <1>1, <1>2, PnlInt DEF BookTyped
<1>4. quotes[q].cva \in Int
  BY <1>1 DEF BookTyped, QuoteType
<1>5. detail.type \in {"NORMAL", "LATE", "OVERDUE"}
  BY <1>1 DEF Shared, LiquidationDetail
<1>6. Positive(-pnl) <= -detail.totalUnrealizedLoss
  BY DEF Shared
<1>7. CASE detail.type = "NORMAL"
  BY <1>3, <1>4, <1>7 DEF Adds
<1>8. CASE detail.type = "LATE"
  <2>1. lockedBalances[a].cva > 0
    BY <1>8 DEF MayAdd
  <2>2. quotes[q].cva * detail.deficit \in Int
    BY <1>2, <1>4
  <2>3. (quotes[q].cva * detail.deficit) \div lockedBalances[a].cva \in Int
    BY <1>1, <2>1, <2>2
  <2>. QED
    BY <1>3, <1>4, <1>8, <2>3 DEF Adds
<1>9. CASE detail.type = "OVERDUE"
  <2>1. (-pnl) * detail.deficit \in Int
    BY <1>2, <1>3
  <2>2. ASSUME ~(pnl >= 0)
        PROVE  ((-pnl) * detail.deficit) \div (-detail.totalUnrealizedLoss) \in Int
    <3>1. -detail.totalUnrealizedLoss > 0
      BY <1>2, <1>3, <1>6, <2>2 DEF Positive
    <3>. QED
      BY <1>2, <2>1, <3>1
  <2>. QED
    BY <1>3, <1>9, <2>2 DEF Adds
<1>. QED
  BY <1>5, <1>7, <1>8, <1>9

----------------------------------------------------------------------------
(* The beginning.                                                          *)

LEMMA InitInv ==
  Init => Inv
<1>. SUFFICES ASSUME Init PROVE Inv
  OBVIOUS
<1>0. /\ quotes = Book /\ lockedBalances = [a \in PartyA |-> BookLocked(a)]
      /\ liquidationStatus = [a \in PartyA |-> FALSE]
      /\ liquidationDetails = [a \in PartyA |-> NoDetail]
      /\ settlementStates = [a \in PartyA |-> [b \in PartyB |-> NoSettlement]]
      /\ partyBLiquidationSettlementReserve = [b \in PartyB |-> 0]
      /\ takeover = [a \in PartyA |-> [inProgress |-> FALSE, pool |-> 0]]
  BY Zenon DEF Init
<1>1. MoneyTyped
  <2>1. PartyAAllocation \in [PartyA -> Int] /\ PartyBAllocation \in [PartyB -> [BucketOf -> Int]]
    BY LiquidationAssumption
  <2>2. /\ allocatedBalances = PartyAAllocation
        /\ partyBAllocatedBalances = PartyBAllocation
        /\ partyAReimbursement = [a \in PartyA |-> 0]
        /\ partyADeferredBalance = [a \in PartyA |-> 0]
        /\ liquidationEscrow = [a \in PartyA |-> 0]
        /\ crossLiquidation = [b \in PartyB |-> [inProgress |-> FALSE, pool |-> 0]]
    BY Zenon DEF Init
  <2>. QED
    BY <2>1, <2>2 DEF MoneyTyped, Process
<1>2. \A a \in PartyA : OpenLocked(a) = BookLocked(a)
  BY <1>0 DEF OpenLocked, BookLocked, OpenOf, With, BookOf
<1>3. ASSUME NEW a \in PartyA PROVE OpenLocked(a) \in [cva : Int, lf : Int]
  <2>1. \A q \in OpenOf(a) : quotes[q].cva \in Nat /\ quotes[q].lf \in Nat
    BY <1>0, LiquidationAssumption, SubsetFinite DEF QuoteType
  <2>2. /\ Total(OpenOf(a), [q \in OpenOf(a) |-> quotes[q].cva]) \in Nat
        /\ Total(OpenOf(a), [q \in OpenOf(a) |-> quotes[q].lf]) \in Nat
    BY <2>1, SubsetFinite, UnitsFinite
  <2>. QED
    BY <2>2 DEF OpenLocked
<1>4. BookTyped
  <2>1. NoDetail \in LiquidationDetail /\ NoSettlement \in SettlementState
    BY DEF NoDetail, LiquidationDetail, NoSettlement, SettlementState
  <2>. QED
    BY <1>0, <1>2, <1>3, <2>1, LiquidationAssumption DEF BookTyped, Process
<1>5. Reserved
  <2>1. \A b \in PartyB : Owed(b) = 0
    BY <1>0, TotalNone DEF Owed, NoSettlement, Positive
  <2>. QED
    BY <1>0, <2>1 DEF Reserved
<1>6. Counted /\ Live
  <2>1. \A a \in PartyA : Pending(a) = {}
    BY <1>0 DEF Pending, NoSettlement
  <2>. QED
    BY <1>0, <2>1, FS_EmptySet DEF Counted, Live, NoDetail, NoSettlement
<1>7. LockedWhileSolvent /\ Shared
  BY <1>0, <1>2 DEF LockedWhileSolvent, Shared
<1>. QED
  BY <1>1, <1>4, <1>5, <1>6, <1>7 DEF Inv, Accounts

----------------------------------------------------------------------------
(* How the sums and counts move.                                           *)

\* A reserve that follows what one partyA's settlements owe stays exact.
LEMMA ReserveFollows ==
  ASSUME BookTyped, BookTyped', Reserved, NEW a \in PartyA,
         \A x \in PartyA \ {a} : settlementStates'[x] = settlementStates[x],
         \A b \in PartyB : partyBLiquidationSettlementReserve'[b] =
           IF b \in CrossPartyB
           THEN partyBLiquidationSettlementReserve[b]
                  + Positive(settlementStates'[a][b].actual) - Positive(settlementStates[a][b].actual)
           ELSE partyBLiquidationSettlementReserve[b]
  PROVE  Reserved'
<1>. SUFFICES ASSUME NEW b \in CrossPartyB
              PROVE  partyBLiquidationSettlementReserve'[b] = Owed(b)'
  BY DEF Reserved
<1>. b \in PartyB
  BY LiquidationAssumption
<1>. DEFINE f == [x \in PartyA |-> Positive(settlementStates[x][b].actual)]
            g == [x \in PartyA |-> Positive(settlementStates'[x][b].actual)]
<1>1. \A x \in PartyA : settlementStates[x][b].actual \in Int /\ settlementStates'[x][b].actual \in Int
  BY DEF BookTyped, SettlementState
<1>2. \A x \in PartyA : f[x] \in Nat /\ g[x] \in Nat
  BY <1>1, PositiveNat
<1>3. \A x \in PartyA \ {a} : f[x] = g[x]
  OBVIOUS
<1>4. IsFiniteSet(PartyA)
  BY LiquidationAssumption
<1>5. Total(PartyA, g) = Total(PartyA, f) - f[a] + g[a]
  <2>. HIDE DEF f, g
  <2>. QED
    BY <1>2, <1>3, <1>4, TotalUpdate, SMTT(60)
<1>6. Total(PartyA, f) \in Nat
  BY <1>2, <1>4, UnitsFinite
<1>7. Owed(b) = Total(PartyA, f) /\ Owed(b)' = Total(PartyA, g)
  BY DEF Owed
<1>8. partyBLiquidationSettlementReserve[b] = Owed(b)
  BY DEF Reserved
<1>. QED
  BY <1>2, <1>5, <1>6, <1>7, <1>8

LEMMA ReservedSame ==
  ASSUME Reserved, UNCHANGED <<settlementStates, partyBLiquidationSettlementReserve>>
  PROVE  Reserved'
BY DEF Reserved, Owed

LEMMA OpenLockedSame ==
  ASSUME NEW a, OpenOf(a)' = OpenOf(a),
         \A q \in OpenOf(a) : quotes'[q].cva = quotes[q].cva /\ quotes'[q].lf = quotes[q].lf
  PROVE  OpenLocked(a)' = OpenLocked(a)
<1>1. /\ Total(OpenOf(a), [q \in OpenOf(a) |-> quotes'[q].cva])
           = Total(OpenOf(a), [q \in OpenOf(a) |-> quotes[q].cva])
      /\ Total(OpenOf(a), [q \in OpenOf(a) |-> quotes'[q].lf])
           = Total(OpenOf(a), [q \in OpenOf(a) |-> quotes[q].lf])
  BY TotalSame
<1>. QED
  BY <1>1 DEF OpenLocked

\* A sum without one of its summands.
LEMMA TotalWithout ==
  ASSUME NEW S, IsFiniteSet(S), NEW x \in S, NEW f, NEW g, \A i \in S : f[i] \in Nat,
         \A i \in S \ {x} : g[i] = f[i]
  PROVE  Total(S \ {x}, g) = Total(S, f) - f[x] /\ Total(S, f) \in Nat
<1>1. Total(S, f) = Total({x}, f) + Total(S \ {x}, f)
  BY TotalSplit
<1>2. Total({x}, f) = f[x]
  BY TotalOne
<1>3. Total(S \ {x}, g) = Total(S \ {x}, f)
  BY TotalSame
<1>4. Total(S \ {x}, f) \in Nat
  BY FS_Subset, UnitsFinite
<1>. QED
  BY <1>1, <1>2, <1>3, <1>4

LEMMA LockedWithout ==
  ASSUME BookTyped, NEW a \in PartyA, NEW q \in OpenOf(a)
  PROVE  LET T == OpenOf(a) \ {q}
         IN  /\ Total(T, [x \in T |-> quotes[x].cva]) = OpenLocked(a).cva - quotes[q].cva
             /\ Total(T, [x \in T |-> quotes[x].lf]) = OpenLocked(a).lf - quotes[q].lf
<1>. DEFINE S == OpenOf(a)
            f == [x \in S |-> quotes[x].cva]
            g == [x \in S \ {q} |-> quotes[x].cva]
            f2 == [x \in S |-> quotes[x].lf]
            g2 == [x \in S \ {q} |-> quotes[x].lf]
<1>1. /\ \A x \in S : f[x] \in Nat
      /\ \A x \in S : f2[x] \in Nat
  BY SubsetFinite DEF BookTyped, QuoteType
<1>2. /\ \A x \in S \ {q} : g[x] = f[x]
      /\ \A x \in S \ {q} : g2[x] = f2[x]
  OBVIOUS
<1>3. IsFiniteSet(S) /\ q \in S
  BY SubsetFinite
<1>4. OpenLocked(a).cva = Total(S, f) /\ OpenLocked(a).lf = Total(S, f2)
  BY DEF OpenLocked
<1>5. f[q] = quotes[q].cva /\ f2[q] = quotes[q].lf
  BY <1>3
<1>. HIDE DEF S, f, g, f2, g2
<1>6. Total(S \ {q}, g) = Total(S, f) - f[q]
  BY <1>1, <1>2, <1>3, TotalWithout
<1>7. Total(S \ {q}, g2) = Total(S, f2) - f2[q]
  BY <1>1, <1>2, <1>3, TotalWithout
<1>. QED
  BY <1>4, <1>5, <1>6, <1>7 DEF S, g, g2

LEMMA OpenLockedLess ==
  ASSUME BookTyped, NEW a \in PartyA, NEW q \in OpenOf(a), OpenOf(a)' = OpenOf(a) \ {q},
         \A x \in OpenOf(a) : quotes'[x].cva = quotes[x].cva /\ quotes'[x].lf = quotes[x].lf
  PROVE  OpenLocked(a)' = [cva |-> OpenLocked(a).cva - quotes[q].cva,
                           lf  |-> OpenLocked(a).lf - quotes[q].lf]
<1>. DEFINE T == OpenOf(a) \ {q}
<1>1. /\ Total(T, [x \in T |-> quotes'[x].cva]) = Total(T, [x \in T |-> quotes[x].cva])
      /\ Total(T, [x \in T |-> quotes'[x].lf]) = Total(T, [x \in T |-> quotes[x].lf])
  BY TotalSame
<1>. QED
  BY <1>1, LockedWithout DEF OpenLocked

\* The terms of a position are what they were.
SameTerms(q) ==
  /\ quotes'[q].cva = quotes[q].cva /\ quotes'[q].lf = quotes[q].lf
  /\ quotes'[q].openedPrice = quotes[q].openedPrice
  /\ quotes'[q].quantity = quotes[q].quantity
  /\ quotes'[q].positionType = quotes[q].positionType

\* Ending quotes takes them out of the open ones and changes nothing else about them.
LEMMA EndedBook ==
  ASSUME BookTyped, NEW S, NEW status \in {"LIQUIDATED_PENDING", "LIQUIDATED"},
         quotes' = Ended(S, status)
  PROVE  /\ quotes' \in [QuoteIds -> QuoteType]
         /\ \A a : OpenOf(a)' = OpenOf(a) \ S
         /\ \A q \in QuoteIds : SameTerms(q)
<1>1. \A q \in QuoteIds : quotes[q] \in QuoteType
  BY DEF BookTyped
<1>2. ASSUME NEW q \in QuoteIds
      PROVE  /\ quotes'[q] \in QuoteType
             /\ quotes'[q].status = IF q \in S THEN status ELSE quotes[q].status
             /\ quotes'[q].partyA = quotes[q].partyA /\ SameTerms(q)
  <2>1. quotes'[q] = IF q \in S THEN [quotes[q] EXCEPT !.status = status] ELSE quotes[q]
    BY DEF Ended
  <2>. QED
    BY <1>1, <2>1 DEF QuoteType, SameTerms
<1>3. quotes' \in [QuoteIds -> QuoteType]
  BY <1>2 DEF Ended
<1>4. \A a : OpenOf(a)' = OpenOf(a) \ S
  BY <1>2 DEF OpenOf, With
<1>. QED
  BY <1>2, <1>3, <1>4

----------------------------------------------------------------------------
(* Steps that settle nothing.                                              *)

\* Where no liquidation begins, and what is open in one keeps its terms and the prices
\* it was signed with, the losses signed go on counting it.
LEMMA SharedKept ==
  ASSUME Shared,
         \A a \in PartyA : liquidationStatus'[a] =>
           /\ liquidationStatus[a]
           /\ liquidationDetails'[a].price = liquidationDetails[a].price
           /\ liquidationDetails'[a].totalUnrealizedLoss = liquidationDetails[a].totalUnrealizedLoss
           /\ liquidationDetails'[a].priceSet => liquidationDetails'[a].type # "NONE"
           /\ OpenOf(a)' \subseteq OpenOf(a) /\ \A q \in OpenOf(a)' : SameTerms(q)
  PROVE  Shared'
<1>. SUFFICES ASSUME NEW a \in PartyA, liquidationStatus'[a], NEW q \in OpenOf(a)'
              PROVE  Positive(-Pnl(q, liquidationDetails[a].price))'
                       <= -liquidationDetails'[a].totalUnrealizedLoss
  BY DEF Shared
<1>1. /\ liquidationStatus[a] /\ q \in OpenOf(a) /\ SameTerms(q)
      /\ liquidationDetails'[a].price = liquidationDetails[a].price
      /\ liquidationDetails'[a].totalUnrealizedLoss = liquidationDetails[a].totalUnrealizedLoss
  OBVIOUS
<1>2. Positive(-Pnl(q, liquidationDetails[a].price)) <= -liquidationDetails[a].totalUnrealizedLoss
  BY <1>1 DEF Shared
<1>3. Pnl(q, liquidationDetails[a].price)' = Pnl(q, liquidationDetails[a].price)
  BY <1>1 DEF Pnl, SameTerms
<1>4. Positive(-Pnl(q, liquidationDetails[a].price))' = Positive(-Pnl(q, liquidationDetails[a].price))
  BY <1>3 DEF Positive
<1>. QED
  BY <1>1, <1>2, <1>4

\* What of a liquidation such a step leaves as it is.
SameSignature(a) ==
  /\ liquidationDetails'[a].involvedPartyBCounts = liquidationDetails[a].involvedPartyBCounts
  /\ liquidationDetails'[a].price = liquidationDetails[a].price
  /\ liquidationDetails'[a].totalUnrealizedLoss = liquidationDetails[a].totalUnrealizedLoss

\* The accounts stay exact where no settlement moves, if a takeover is of a liquidation,
\* margins are released as quotes end, and what is open in a liquidation keeps its terms.
LEMMA AccountsKept ==
  ASSUME Accounts,
         UNCHANGED <<settlementStates, partyBLiquidationSettlementReserve, liquidationStatus>>,
         \A a \in PartyA :
           /\ SameSignature(a)
           /\ takeover'[a].inProgress => liquidationStatus[a]
           /\ ~liquidationStatus[a] => lockedBalances'[a] = OpenLocked(a)'
           /\ liquidationStatus[a] =>
                /\ liquidationDetails'[a].priceSet => liquidationDetails'[a].type # "NONE"
                /\ OpenOf(a)' \subseteq OpenOf(a) /\ \A q \in OpenOf(a)' : SameTerms(q)
  PROVE  Accounts'
<1>1. Reserved'
  BY ReservedSame DEF Accounts
<1>2. Counted'
  BY DEF Accounts, Counted, Pending, SameSignature
<1>3. Live'
  BY DEF Accounts, Live, Pending
<1>4. LockedWhileSolvent'
  BY DEF LockedWhileSolvent
<1>5. Shared'
  <2>1. \A a \in PartyA : liquidationStatus'[a] =>
           /\ liquidationStatus[a]
           /\ liquidationDetails'[a].price = liquidationDetails[a].price
           /\ liquidationDetails'[a].totalUnrealizedLoss = liquidationDetails[a].totalUnrealizedLoss
           /\ liquidationDetails'[a].priceSet => liquidationDetails'[a].type # "NONE"
           /\ OpenOf(a)' \subseteq OpenOf(a) /\ \A q \in OpenOf(a)' : SameTerms(q)
    BY DEF SameSignature
  <2>. QED
    BY <2>1, SharedKept DEF Accounts
<1>. QED
  BY <1>1, <1>2, <1>3, <1>4, <1>5 DEF Accounts

LEMMA AsideKept ==
  ASSUME Inv, UNCHANGED <<quotes, lockedBalances, progress>>,
         takeover' \in [PartyA -> Process],
         \A a \in PartyA : takeover'[a].inProgress = takeover[a].inProgress
  PROVE  BookTyped' /\ Accounts'
<1>1. BookTyped'
  BY DEF Inv, BookTyped, progress
<1>2. ASSUME NEW a \in PartyA
      PROVE  /\ OpenOf(a)' = OpenOf(a) /\ OpenLocked(a)' = OpenLocked(a)
             /\ \A q : SameTerms(q)
  BY DEF OpenOf, With, OpenLocked, SameTerms
<1>3. ASSUME NEW a \in PartyA
      PROVE  /\ SameSignature(a)
             /\ takeover'[a].inProgress => liquidationStatus[a]
             /\ ~liquidationStatus[a] => lockedBalances'[a] = OpenLocked(a)'
             /\ liquidationStatus[a] =>
                  /\ liquidationDetails'[a].priceSet => liquidationDetails'[a].type # "NONE"
                  /\ OpenOf(a)' \subseteq OpenOf(a) /\ \A q \in OpenOf(a)' : SameTerms(q)
  BY <1>2 DEF Inv, Accounts, Live, LockedWhileSolvent, Shared, SameSignature, progress
<1>. QED
  BY <1>1, <1>3, AccountsKept DEF Inv, progress

LEMMA KeyInBuckets ==
  ASSUME NEW b, NEW a \in PartyA
  PROVE  PartyBAllocationKey(b, a) \in BucketOf
BY DEF PartyBAllocationKey, BucketOf

LEMMA MovesOfPartyB ==
  ASSUME Inv, NEW b \in PartyB, NEW key \in BucketOf, NEW n \in Amounts,
         AllocateForPartyB(b, key, n) \/ DeallocateForPartyB(b, key, n)
           \/ SoftPartyBLiquidation(b, n)
  PROVE  Inv'
<1>1. n \in Int
  BY LiquidationAssumption
<1>2. MoneyTyped'
  <2>1. CASE AllocateForPartyB(b, key, n)
    BY <1>1, <2>1 DEF AllocateForPartyB, Inv, MoneyTyped, escrows, clearing
  <2>2. CASE DeallocateForPartyB(b, key, n)
    BY <1>1, <2>2 DEF DeallocateForPartyB, Inv, MoneyTyped, escrows, clearing
  <2>3. CASE SoftPartyBLiquidation(b, n)
    BY <1>1, <2>3 DEF SoftPartyBLiquidation, Inv, MoneyTyped, escrows, clearing
  <2>. QED
    BY <2>1, <2>2, <2>3
<1>3. UNCHANGED <<quotes, pools, progress, clearing>>
  BY DEF AllocateForPartyB, DeallocateForPartyB, SoftPartyBLiquidation
<1>4. BookTyped' /\ Accounts'
  BY <1>3, AsideKept DEF pools, clearing, Inv, BookTyped
<1>. QED
  BY <1>2, <1>4 DEF Inv

LEMMA CrossPartyBBeginsOrEnds ==
  ASSUME Inv, NEW b \in PartyB, LiquidateCrossPartyB(b) \/ SettleCrossPartyBLiquidation(b)
  PROVE  Inv'
<1>1. crossLiquidation' \in [PartyB -> Process]
  <2>1. crossLiquidation \in [PartyB -> Process] /\ crossLiquidation[b] \in Process
    BY DEF Inv, MoneyTyped
  <2>2. Started \in Process
    BY DEF Started, Process
  <2>3. ASSUME NEW p \in Process PROVE [p EXCEPT !.inProgress = FALSE] \in Process
    BY DEF Process
  <2>4. CASE LiquidateCrossPartyB(b)
    BY <2>1, <2>2, <2>4 DEF LiquidateCrossPartyB
  <2>5. CASE SettleCrossPartyBLiquidation(b)
    BY <2>1, <2>3, <2>5 DEF SettleCrossPartyBLiquidation
  <2>. QED
    BY <2>4, <2>5
<1>3. MoneyTyped'
  BY <1>1 DEF LiquidateCrossPartyB, SettleCrossPartyBLiquidation, Inv, MoneyTyped, escrows
<1>2. UNCHANGED <<quotes, pools, progress, takeover>>
  BY DEF LiquidateCrossPartyB, SettleCrossPartyBLiquidation
<1>4. BookTyped' /\ Accounts'
  BY <1>2, AsideKept DEF pools, Inv, BookTyped
<1>. QED
  BY <1>3, <1>4 DEF Inv

LEMMA PoolGrows ==
  ASSUME Inv, NEW subject \in PartyA \cup PartyB, NEW n \in Int, AddToPool(subject, n)
  PROVE  /\ takeover' \in [PartyA -> Process] /\ crossLiquidation' \in [PartyB -> Process]
         /\ \A a \in PartyA : takeover'[a].inProgress = takeover[a].inProgress
<1>1. takeover \in [PartyA -> Process] /\ crossLiquidation \in [PartyB -> Process]
  BY DEF Inv, BookTyped, MoneyTyped
<1>2. ASSUME NEW p \in Process
      PROVE  /\ [p EXCEPT !.pool = @ + n] \in Process
             /\ [p EXCEPT !.pool = @ + n].inProgress = p.inProgress
  BY DEF Process
<1>3. CASE subject \in PartyB
  <2>1. crossLiquidation[subject] \in Process
    BY <1>1, <1>3
  <2>. QED
    BY <1>1, <1>2, <1>3, <2>1 DEF AddToPool
<1>4. CASE subject \notin PartyB
  <2>1. subject \in PartyA /\ takeover[subject] \in Process
    BY <1>1, <1>4
  <2>. QED
    BY <1>1, <1>2, <1>4, <2>1 DEF AddToPool
<1>. QED
  BY <1>3, <1>4

LEMMA PoolInt ==
  ASSUME Inv, NEW subject \in PartyA \cup PartyB
  PROVE  PoolOf(subject) \in Int
BY DEF PoolOf, Inv, BookTyped, MoneyTyped, Process

LEMMA ClearingHouseDeallocates ==
  ASSUME Inv, NEW subject \in PartyA \cup PartyB, NEW n \in Amounts,
         DeallocateForClearingHouse(subject, n)
  PROVE  Inv'
<1>1. n \in Int
  BY LiquidationAssumption
<1>2. AddToPool(subject, n) /\ UNCHANGED <<quotes, pools, partyADeferredBalance, liquidationEscrow, progress>>
  BY DEF DeallocateForClearingHouse
<1>3. /\ allocatedBalances' \in [PartyA -> Int] /\ partyAReimbursement' \in [PartyA -> Int]
      /\ partyBAllocatedBalances' \in [PartyB -> [BucketOf -> Int]]
  BY <1>1 DEF DeallocateForClearingHouse, PullFromPartyA, PullFromReimbursement, PullFromPartyB,
              Inv, MoneyTyped
<1>4. BookTyped' /\ Accounts'
  BY <1>1, <1>2, PoolGrows, AsideKept DEF pools
<1>. QED
  BY <1>1, <1>2, <1>3, <1>4, PoolGrows DEF Inv, MoneyTyped

LEMMA CreditTyped ==
  ASSUME Inv, NEW n \in Int,
         \/ \E a \in PartyA : CreditPartyA(a, n) \/ CreditAllocation(a, n)
         \/ \E b \in PartyB, key \in BucketOf : CreditPartyB(b, key, n)
  PROVE  /\ allocatedBalances' \in [PartyA -> Int] /\ partyAReimbursement' \in [PartyA -> Int]
         /\ partyBAllocatedBalances' \in [PartyB -> [BucketOf -> Int]]
BY DEF CreditPartyA, CreditAllocation, CreditPartyB, Inv, MoneyTyped

LEMMA ClearingHouseDistributes ==
  ASSUME Inv, NEW subject \in PartyA \cup PartyB, DistributeForClearingHouse(subject)
  PROVE  Inv'
<1>1. PoolOf(subject) \in Int /\ -PoolOf(subject) \in Int
  BY PoolInt
<1>2. /\ AddToPool(subject, -PoolOf(subject))
      /\ UNCHANGED <<quotes, pools, partyADeferredBalance, liquidationEscrow, progress>>
  BY DEF DistributeForClearingHouse, Distributed
<1>3. \/ \E a \in PartyA : CreditPartyA(a, PoolOf(subject))
      \/ \E b \in PartyB, key \in BucketOf : CreditPartyB(b, key, PoolOf(subject))
  BY DEF DistributeForClearingHouse
<1>4. BookTyped' /\ Accounts'
  BY <1>1, <1>2, PoolGrows, AsideKept DEF pools
<1>. QED
  BY <1>1, <1>2, <1>3, <1>4, PoolGrows, CreditTyped DEF Inv, MoneyTyped

LEMMA EscrowDistributed ==
  ASSUME Inv, NEW a \in PartyA, DistributeFromLiquidationEscrow(a)
  PROVE  Inv'
<1>1. liquidationEscrow[a] \in Int
  BY DEF Inv, MoneyTyped
<1>2. UNCHANGED <<quotes, pools, partyADeferredBalance, progress, clearing>>
  BY DEF DistributeFromLiquidationEscrow
<1>3. \/ \E x \in PartyA : CreditAllocation(x, liquidationEscrow[a])
      \/ \E b \in PartyB, key \in BucketOf : CreditPartyB(b, key, liquidationEscrow[a])
  BY DEF DistributeFromLiquidationEscrow
<1>4. liquidationEscrow' \in [PartyA -> Int]
  BY DEF DistributeFromLiquidationEscrow, Inv, MoneyTyped
<1>5. BookTyped' /\ Accounts'
  BY <1>2, AsideKept DEF pools, clearing, Inv, BookTyped
<1>. QED
  BY <1>1, <1>2, <1>3, <1>4, <1>5, CreditTyped DEF Inv, MoneyTyped, clearing

----------------------------------------------------------------------------
(* Takeovers, prices and repeated disputes.                                *)

LEMMA TakesOver ==
  ASSUME Inv, NEW a \in PartyA, ExecuteTakeover(a)
  PROVE  /\ liquidationDetails' \in [PartyA -> LiquidationDetail]
         /\ takeover' \in [PartyA -> Process]
         /\ \A x \in PartyA :
              /\ SameSignature(x) /\ (takeover'[x].inProgress => liquidationStatus[x])
              /\ liquidationDetails'[x].type = liquidationDetails[x].type
              /\ liquidationDetails'[x].priceSet = liquidationDetails[x].priceSet
<1>1. liquidationDetails \in [PartyA -> LiquidationDetail] /\ takeover \in [PartyA -> Process]
  BY DEF Inv, BookTyped
<1>2. \A x \in PartyA : takeover[x].inProgress => liquidationStatus[x]
  BY DEF Inv, Accounts, Live
<1>3. CASE Liquidating(a)
  <2>1. Started \in Process
    BY DEF Started, Process
  <2>2. takeover' = [takeover EXCEPT ![a] = Started]
    BY <1>3 DEF ExecuteTakeover
  <2>3. ASSUME NEW d \in LiquidationDetail
        PROVE  [d EXCEPT !.disputed = FALSE, !.liquidationFee = 0] \in LiquidationDetail
    <3>1. 0 \in Int /\ FALSE \in BOOLEAN
      OBVIOUS
    <3>2. [d EXCEPT !.disputed = FALSE] \in LiquidationDetail
      BY <3>1 DEF LiquidationDetail
    <3>3. \A e \in LiquidationDetail : [e EXCEPT !.liquidationFee = 0] \in LiquidationDetail
      BY <3>1 DEF LiquidationDetail
    <3>. QED
      BY <3>2, <3>3
  <2>4. liquidationDetails' =
          [liquidationDetails EXCEPT
             ![a] = [liquidationDetails[a] EXCEPT !.disputed = FALSE, !.liquidationFee = 0]]
    BY <1>1, <1>3 DEF ExecuteTakeover
  <2>5. /\ takeover' \in [PartyA -> Process]
        /\ \A x \in PartyA : takeover'[x].inProgress => liquidationStatus[x]
    BY <1>1, <1>2, <1>3, <2>1, <2>2 DEF Liquidating
  <2>6. ASSUME NEW x \in PartyA
        PROVE  /\ SameSignature(x)
               /\ liquidationDetails'[x].type = liquidationDetails[x].type
               /\ liquidationDetails'[x].priceSet = liquidationDetails[x].priceSet
    BY <1>1, <2>4 DEF SameSignature, LiquidationDetail
  <2>7. liquidationDetails' \in [PartyA -> LiquidationDetail]
    BY <1>1, <2>3, <2>4
  <2>. QED
    BY <2>5, <2>6, <2>7
<1>4. CASE ~Liquidating(a)
  <2>1. UNCHANGED <<liquidationDetails, takeover>>
    BY <1>4 DEF ExecuteTakeover
  <2>. QED
    BY <1>1, <1>2, <2>1 DEF SameSignature
<1>. QED
  BY <1>3, <1>4

\* Steps that only write down something about a liquidation.
LEMMA NoteKept ==
  ASSUME Inv, UNCHANGED <<quotes, lockedBalances, liquidationStatus, settlementStates,
                          partyBLiquidationSettlementReserve>>,
         liquidationDetails' \in [PartyA -> LiquidationDetail], takeover' \in [PartyA -> Process],
         \A a \in PartyA :
           /\ SameSignature(a) /\ (takeover'[a].inProgress => liquidationStatus[a])
           /\ \/ /\ liquidationDetails'[a].type = liquidationDetails[a].type
                 /\ liquidationDetails'[a].priceSet = liquidationDetails[a].priceSet
              \/ liquidationDetails'[a].type # "NONE"
  PROVE  BookTyped' /\ Accounts'
<1>1. BookTyped'
  BY DEF Inv, BookTyped
<1>2. ASSUME NEW a \in PartyA
      PROVE  /\ OpenOf(a)' = OpenOf(a) /\ OpenLocked(a)' = OpenLocked(a)
             /\ \A q : SameTerms(q)
  BY DEF OpenOf, With, OpenLocked, SameTerms
<1>3. ASSUME NEW a \in PartyA
      PROVE  /\ SameSignature(a)
             /\ takeover'[a].inProgress => liquidationStatus[a]
             /\ ~liquidationStatus[a] => lockedBalances'[a] = OpenLocked(a)'
             /\ liquidationStatus[a] =>
                  /\ liquidationDetails'[a].priceSet => liquidationDetails'[a].type # "NONE"
                  /\ OpenOf(a)' \subseteq OpenOf(a) /\ \A q \in OpenOf(a)' : SameTerms(q)
  BY <1>2 DEF Inv, Accounts, LockedWhileSolvent, Shared
<1>. QED
  BY <1>1, <1>3, AccountsKept DEF Inv

LEMMA TakenOver ==
  ASSUME Inv, NEW a \in PartyA, TakeoverPartyALiquidation(a)
  PROVE  Inv'
<1>1. /\ ExecuteTakeover(a)
      /\ UNCHANGED <<quotes, allocatedBalances, partyBAllocatedBalances, pools, escrows,
                     liquidationStatus, settlementStates, partyBLiquidationSettlementReserve,
                     crossLiquidation>>
  BY DEF TakeoverPartyALiquidation
<1>2. MoneyTyped'
  BY <1>1 DEF Inv, MoneyTyped, escrows
<1>3. BookTyped' /\ Accounts'
  BY <1>1, TakesOver, NoteKept DEF pools
<1>. QED
  BY <1>2, <1>3 DEF Inv

LEMMA DisputedAgain ==
  ASSUME Inv, NEW a \in PartyA, DisputeAgain(a)
  PROVE  Inv'
<1>1. /\ liquidationDetails' = [liquidationDetails EXCEPT ![a].disputed = TRUE]
      /\ UNCHANGED <<quotes, allocatedBalances, partyBAllocatedBalances, pools, escrows,
                     liquidationStatus, settlementStates, partyBLiquidationSettlementReserve,
                     clearing>>
  BY DEF DisputeAgain
<1>2. MoneyTyped'
  BY <1>1 DEF Inv, MoneyTyped, escrows, clearing
<1>3. liquidationDetails \in [PartyA -> LiquidationDetail]
  BY DEF Inv, BookTyped
<1>4. ASSUME NEW d \in LiquidationDetail
      PROVE  [d EXCEPT !.disputed = TRUE] \in LiquidationDetail
  BY DEF LiquidationDetail
<1>5. liquidationDetails' \in [PartyA -> LiquidationDetail]
  BY <1>1, <1>3, <1>4
<1>6. \A x \in PartyA :
        /\ SameSignature(x)
        /\ liquidationDetails'[x].type = liquidationDetails[x].type
        /\ liquidationDetails'[x].priceSet = liquidationDetails[x].priceSet
  BY <1>1, <1>3 DEF SameSignature, LiquidationDetail
<1>7. takeover' \in [PartyA -> Process] /\ \A x \in PartyA : takeover'[x].inProgress => liquidationStatus[x]
  BY <1>1 DEF Inv, Accounts, Live, BookTyped, clearing
<1>8. BookTyped' /\ Accounts'
  BY <1>1, <1>5, <1>6, <1>7, NoteKept DEF pools
<1>. QED
  BY <1>2, <1>8 DEF Inv

LEMMA AvailableInt ==
  ASSUME BookTyped, NEW a \in PartyA, NEW allocated \in Int, NEW upnl \in Int
  PROVE  AvailableForLiquidation(a, allocated, upnl) \in Int
<1>1. lockedBalances[a].cva \in Int /\ lockedBalances[a].lf \in Int
  BY DEF BookTyped
<1>. QED
  BY <1>1 DEF AvailableForLiquidation

LEMMA PricesSet ==
  ASSUME Inv, NEW a \in PartyA, SetSymbolsPrice(a)
  PROVE  Inv'
<1>. DEFINE detail == liquidationDetails[a]
            available == AvailableForLiquidation(a, allocatedBalances[a], detail.upnl)
            typed == Typed(a, available)
            short == available <= 0
<1>1. /\ DetermineLiquidationType(a)
      /\ UNCHANGED <<quotes, allocatedBalances, partyBAllocatedBalances, pools, escrows,
                     liquidationStatus, settlementStates, partyBLiquidationSettlementReserve,
                     clearing>>
  BY DEF SetSymbolsPrice
<1>2. MoneyTyped'
  BY <1>1 DEF Inv, MoneyTyped, escrows, clearing
<1>3. liquidationDetails \in [PartyA -> LiquidationDetail] /\ detail \in LiquidationDetail
  BY DEF Inv, BookTyped
<1>4. typed.type \in {"NORMAL", "LATE", "OVERDUE"} /\ typed.deficit \in Int /\ typed.fee \in Int
  <2>1. allocatedBalances[a] \in Int /\ detail.upnl \in Int
    BY <1>3 DEF Inv, MoneyTyped, LiquidationDetail
  <2>. QED
    BY <2>1, AvailableInt, TypedInt DEF Inv
<1>40. allocatedBalances[a] \in Int /\ short \in BOOLEAN
  BY DEF Inv, MoneyTyped
<1>. HIDE DEF typed, available, short
<1>5. \/ /\ detail.type # "NONE"
         /\ liquidationDetails' = [liquidationDetails EXCEPT ![a] = [detail EXCEPT !.priceSet = TRUE]]
      \/ liquidationDetails' =
           [liquidationDetails EXCEPT
              ![a] = [detail EXCEPT !.priceSet = TRUE, !.type = typed.type,
                                    !.deficit = typed.deficit, !.liquidationFee = typed.fee,
                                    !.had = allocatedBalances[a], !.asComputed = short]]
  BY <1>1, <1>3 DEF DetermineLiquidationType, typed, available, short
<1>6. ASSUME NEW d \in LiquidationDetail
      PROVE  /\ [d EXCEPT !.priceSet = TRUE] \in LiquidationDetail
             /\ [d EXCEPT !.priceSet = TRUE, !.type = typed.type,
                          !.deficit = typed.deficit, !.liquidationFee = typed.fee,
                          !.had = allocatedBalances[a], !.asComputed = short]
                  \in LiquidationDetail
  BY <1>4, <1>40 DEF LiquidationDetail
<1>7. liquidationDetails' \in [PartyA -> LiquidationDetail]
  BY <1>3, <1>5, <1>6
<1>8. ASSUME NEW x \in PartyA
      PROVE  /\ SameSignature(x)
             /\ \/ /\ liquidationDetails'[x].type = liquidationDetails[x].type
                   /\ liquidationDetails'[x].priceSet = liquidationDetails[x].priceSet
                \/ liquidationDetails'[x].type # "NONE"
  <2>1. CASE x # a
    BY <1>3, <1>5, <2>1 DEF SameSignature
  <2>2. CASE x = a
    <3>1. \/ /\ detail.type # "NONE"
             /\ liquidationDetails'[a] = [detail EXCEPT !.priceSet = TRUE]
          \/ liquidationDetails'[a] =
               [detail EXCEPT !.priceSet = TRUE, !.type = typed.type,
                              !.deficit = typed.deficit, !.liquidationFee = typed.fee,
                              !.had = allocatedBalances[a], !.asComputed = short]
      BY <1>3, <1>5
    <3>2. /\ liquidationDetails'[a].involvedPartyBCounts = detail.involvedPartyBCounts
          /\ liquidationDetails'[a].price = detail.price
          /\ liquidationDetails'[a].totalUnrealizedLoss = detail.totalUnrealizedLoss
          /\ liquidationDetails'[a].type # "NONE"
      <4>. HIDE DEF detail
      <4>. QED
        BY <1>3, <1>4, <3>1 DEF LiquidationDetail
    <3>. QED
      BY <2>2, <3>2 DEF SameSignature
  <2>. QED
    BY <2>1, <2>2
<1>9. takeover' \in [PartyA -> Process] /\ \A x \in PartyA : takeover'[x].inProgress => liquidationStatus[x]
  BY <1>1 DEF Inv, Accounts, Live, BookTyped, clearing
<1>10. BookTyped' /\ Accounts'
  BY <1>1, <1>7, <1>8, <1>9, NoteKept DEF pools
<1>. QED
  BY <1>2, <1>10 DEF Inv

----------------------------------------------------------------------------
(* Quotes that end with their margins.                                     *)

\* Ending pending quotes leaves what is open.
LEMMA PendingEnded ==
  ASSUME Inv, NEW S, \A q \in S : quotes[q].status \in {"PENDING", "LOCKED"},
         quotes' = Ended(S, "LIQUIDATED_PENDING"),
         UNCHANGED <<lockedBalances, liquidationStatus, settlementStates,
                     partyBLiquidationSettlementReserve>>,
         liquidationDetails' \in [PartyA -> LiquidationDetail], takeover' \in [PartyA -> Process],
         \A x \in PartyA :
           /\ SameSignature(x) /\ (takeover'[x].inProgress => liquidationStatus[x])
           /\ liquidationDetails'[x].type = liquidationDetails[x].type
           /\ liquidationDetails'[x].priceSet = liquidationDetails[x].priceSet
  PROVE  BookTyped' /\ Accounts'
<1>1. /\ quotes' \in [QuoteIds -> QuoteType]
      /\ \A x : OpenOf(x)' = OpenOf(x) \ S
      /\ \A q \in QuoteIds : SameTerms(q)
  BY EndedBook DEF Inv
<1>2. ASSUME NEW x PROVE OpenOf(x)' = OpenOf(x)
  <2>1. S \cap OpenOf(x) = {}
    BY DEF OpenOf, With
  <2>. QED
    BY <1>1, <2>1
<1>3. BookTyped'
  BY <1>1 DEF Inv, BookTyped
<1>4. ASSUME NEW x
      PROVE  OpenLocked(x)' = OpenLocked(x) /\ \A q \in OpenOf(x)' : SameTerms(q)
  <2>1. \A q \in OpenOf(x) : SameTerms(q)
    BY <1>1, SubsetFinite
  <2>2. \A q \in OpenOf(x) : quotes'[q].cva = quotes[q].cva /\ quotes'[q].lf = quotes[q].lf
    BY <2>1 DEF SameTerms
  <2>3. OpenLocked(x)' = OpenLocked(x)
    BY <1>2, <2>2, OpenLockedSame
  <2>. QED
    BY <1>2, <2>1, <2>3
<1>5. ASSUME NEW x \in PartyA
      PROVE  /\ SameSignature(x)
             /\ takeover'[x].inProgress => liquidationStatus[x]
             /\ ~liquidationStatus[x] => lockedBalances'[x] = OpenLocked(x)'
             /\ liquidationStatus[x] =>
                  /\ liquidationDetails'[x].priceSet => liquidationDetails'[x].type # "NONE"
                  /\ OpenOf(x)' \subseteq OpenOf(x) /\ \A q \in OpenOf(x)' : SameTerms(q)
  BY <1>2, <1>4 DEF Inv, Accounts, LockedWhileSolvent, Shared
<1>. QED
  BY <1>3, <1>5, AccountsKept DEF Inv

LEMMA PendingDropped ==
  ASSUME Inv, NEW a \in PartyA, DropPending(a)
  PROVE  Inv'
<1>1. /\ quotes' = Ended(PendingOf(a), "LIQUIDATED_PENDING")
      /\ partyAReimbursement' = [partyAReimbursement EXCEPT ![a] = @ + Fees(PendingOf(a))]
      /\ UNCHANGED <<allocatedBalances, partyBAllocatedBalances, lockedBalances,
                     partyADeferredBalance, liquidationEscrow, progress, clearing>>
  BY DEF DropPending
<1>2. MoneyTyped'
  <2>1. Fees(PendingOf(a)) \in Nat
    BY SubsetFinite, FeesNat DEF Inv, BookTyped
  <2>. QED
    BY <1>1, <2>1 DEF Inv, MoneyTyped, clearing
<1>3. \A q \in PendingOf(a) : quotes[q].status \in {"PENDING", "LOCKED"}
  BY DEF PendingOf, With
<1>4. /\ liquidationDetails' \in [PartyA -> LiquidationDetail] /\ takeover' \in [PartyA -> Process]
      /\ \A x \in PartyA :
           /\ SameSignature(x) /\ (takeover'[x].inProgress => liquidationStatus[x])
           /\ liquidationDetails'[x].type = liquidationDetails[x].type
           /\ liquidationDetails'[x].priceSet = liquidationDetails[x].priceSet
  BY <1>1 DEF Inv, BookTyped, Accounts, Live, SameSignature, progress, clearing
<1>5. BookTyped' /\ Accounts'
  BY <1>1, <1>3, <1>4, PendingEnded DEF progress
<1>. QED
  BY <1>2, <1>5 DEF Inv

LEMMA PendingOfCrossDropped ==
  ASSUME Inv, NEW b \in PartyB, NEW a \in PartyA, LiquidatePendingPositionsOfCross(b, a)
  PROVE  Inv'
<1>1. /\ ExecuteTakeover(a)
      /\ quotes' = Ended(HeldBy(b, a), "LIQUIDATED_PENDING")
      /\ CreditPartyA(a, Fees(HeldBy(b, a)))
      /\ UNCHANGED <<lockedBalances, partyADeferredBalance, liquidationEscrow,
                     liquidationStatus, settlementStates, partyBLiquidationSettlementReserve,
                     crossLiquidation>>
  BY DEF LiquidatePendingPositionsOfCross
<1>2. MoneyTyped'
  <2>1. HeldBy(b, a) \subseteq QuoteIds
    BY DEF HeldBy, With
  <2>2. Fees(HeldBy(b, a)) \in Int
    BY <2>1, FeesNat DEF Inv, BookTyped
  <2>. QED
    BY <1>1, <2>2, CreditTyped DEF Inv, MoneyTyped
<1>3. \A q \in HeldBy(b, a) : quotes[q].status \in {"PENDING", "LOCKED"}
  BY DEF HeldBy, With
<1>4. BookTyped' /\ Accounts'
  BY <1>1, <1>3, TakesOver, PendingEnded
<1>. QED
  BY <1>2, <1>4 DEF Inv

\* A position closed by the clearing house takes its margin out of what is locked.
LEMMA PositionClosed ==
  ASSUME Inv, NEW q \in QuoteIds, ClosePosition(q),
         liquidationDetails' \in [PartyA -> LiquidationDetail], takeover' \in [PartyA -> Process],
         \A x \in PartyA :
           /\ SameSignature(x) /\ (takeover'[x].inProgress => liquidationStatus[x])
           /\ liquidationDetails'[x].type = liquidationDetails[x].type
           /\ liquidationDetails'[x].priceSet = liquidationDetails[x].priceSet
  PROVE  Inv'
<1>. DEFINE a == quotes[q].partyA
<1>1. /\ q \in OpenOf(a) /\ quotes' = Ended({q}, "LIQUIDATED")
      /\ lockedBalances' =
           [lockedBalances EXCEPT ![a] = [cva |-> @.cva - quotes[q].cva, lf |-> @.lf - quotes[q].lf]]
      /\ UNCHANGED <<allocatedBalances, partyBAllocatedBalances, escrows, liquidationStatus,
                     settlementStates, partyBLiquidationSettlementReserve, crossLiquidation>>
  BY DEF ClosePosition
<1>2. MoneyTyped'
  BY <1>1 DEF Inv, MoneyTyped, escrows
<1>3. /\ quotes' \in [QuoteIds -> QuoteType]
      /\ \A x : OpenOf(x)' = OpenOf(x) \ {q}
      /\ \A p \in QuoteIds : SameTerms(p)
  BY <1>1, EndedBook DEF Inv
<1>4. /\ a \in PartyA /\ quotes[q].cva \in Int /\ quotes[q].lf \in Int
      /\ lockedBalances \in [PartyA -> [cva : Int, lf : Int]]
      /\ lockedBalances[a].cva \in Int /\ lockedBalances[a].lf \in Int
  BY DEF Inv, BookTyped, QuoteType
<1>. HIDE DEF a
<1>5. /\ \A x \in PartyA \ {a} : lockedBalances'[x] = lockedBalances[x]
      /\ lockedBalances'[a] = [cva |-> lockedBalances[a].cva - quotes[q].cva,
                               lf |-> lockedBalances[a].lf - quotes[q].lf]
  BY <1>1, <1>4
<1>6. lockedBalances' \in [PartyA -> [cva : Int, lf : Int]]
  BY <1>1, <1>4
<1>7. BookTyped'
  BY <1>1, <1>3, <1>6 DEF Inv, BookTyped
<1>8. ASSUME NEW x \in PartyA, ~liquidationStatus[x]
      PROVE  lockedBalances'[x] = OpenLocked(x)'
  <2>1. \A p \in OpenOf(x) : quotes'[p].cva = quotes[p].cva /\ quotes'[p].lf = quotes[p].lf
    BY <1>3, SubsetFinite DEF SameTerms
  <2>2. lockedBalances[x] = OpenLocked(x)
    BY <1>8 DEF Inv, Accounts, LockedWhileSolvent
  <2>3. CASE x = a
    <3>1. q \in OpenOf(x) /\ OpenOf(x)' = OpenOf(x) \ {q}
      BY <1>1, <1>3, <2>3
    <3>2. OpenLocked(x)' = [cva |-> OpenLocked(x).cva - quotes[q].cva,
                            lf  |-> OpenLocked(x).lf - quotes[q].lf]
      BY <2>1, <3>1, OpenLockedLess DEF Inv
    <3>. QED
      BY <1>5, <2>2, <2>3, <3>2
  <2>4. CASE x # a
    <3>1. q \notin OpenOf(x)
      BY <1>1, <2>4 DEF OpenOf, With
    <3>2. OpenOf(x)' = OpenOf(x)
      BY <1>3, <3>1
    <3>3. OpenLocked(x)' = OpenLocked(x)
      BY <2>1, <3>2, OpenLockedSame
    <3>. QED
      BY <1>4, <1>5, <2>2, <2>4, <3>3
  <2>. QED
    BY <2>3, <2>4
<1>9. ASSUME NEW x \in PartyA
      PROVE  /\ SameSignature(x)
             /\ takeover'[x].inProgress => liquidationStatus[x]
             /\ ~liquidationStatus[x] => lockedBalances'[x] = OpenLocked(x)'
             /\ liquidationStatus[x] =>
                  /\ liquidationDetails'[x].priceSet => liquidationDetails'[x].type # "NONE"
                  /\ OpenOf(x)' \subseteq OpenOf(x) /\ \A p \in OpenOf(x)' : SameTerms(p)
  BY <1>3, <1>8, SubsetFinite DEF Inv, Accounts, Shared
<1>10. Accounts'
  BY <1>1, <1>9, AccountsKept DEF Inv
<1>. QED
  BY <1>2, <1>7, <1>10 DEF Inv

LEMMA PositionOfCrossClosed ==
  ASSUME Inv, NEW q \in QuoteIds, LiquidatePositionOfCross(q)
  PROVE  Inv'
<1>1. quotes[q].partyA \in PartyA
  BY DEF Inv, BookTyped, QuoteType
<1>2. ExecuteTakeover(quotes[q].partyA) /\ ClosePosition(q)
  BY DEF LiquidatePositionOfCross
<1>. QED
  BY <1>1, <1>2, TakesOver, PositionClosed

LEMMA PositionOfTakeoverClosed ==
  ASSUME Inv, NEW q \in QuoteIds, LiquidatePositionOfTakeover(q)
  PROVE  Inv'
<1>1. ClosePosition(q) /\ UNCHANGED <<liquidationDetails, takeover>>
  BY DEF LiquidatePositionOfTakeover
<1>2. /\ liquidationDetails' \in [PartyA -> LiquidationDetail] /\ takeover' \in [PartyA -> Process]
      /\ \A x \in PartyA :
           /\ SameSignature(x) /\ (takeover'[x].inProgress => liquidationStatus[x])
           /\ liquidationDetails'[x].type = liquidationDetails[x].type
           /\ liquidationDetails'[x].priceSet = liquidationDetails[x].priceSet
  BY <1>1 DEF Inv, BookTyped, Accounts, Live, SameSignature
<1>. QED
  BY <1>1, <1>2, PositionClosed

----------------------------------------------------------------------------
(* A partyB's PnL realized with another partyA.                            *)

LEMMA UpnlOfPartyBSettled ==
  ASSUME Inv, NEW a \in PartyA, NEW b \in PartyB, NEW q \in QuoteIds, NEW updated \in Prices,
         SettlePartyBUpnlForLiquidation(a, b, q, updated)
  PROVE  Inv'
<1>. DEFINE other == quotes[q].partyA
            gain == Pnl(q, updated)
<1>1. /\ q \in OpenOf(other) /\ ~liquidationStatus[other]
      /\ allocatedBalances' = [allocatedBalances EXCEPT ![other] = @ + gain]
      /\ partyBAllocatedBalances' = [partyBAllocatedBalances EXCEPT ![b][Zero] = @ - gain]
      /\ quotes' = [quotes EXCEPT ![q].openedPrice = updated]
      /\ UNCHANGED <<pools, escrows, progress, clearing>>
  BY DEF SettlePartyBUpnlForLiquidation
<1>2. updated \in Nat /\ gain \in Int
  <2>1. updated \in Nat
    BY LiquidationAssumption
  <2>2. updated \in Int
    BY <2>1
  <2>. QED
    BY <2>1, <2>2, PnlInt DEF Inv, BookTyped
<1>3. MoneyTyped'
  <2>. HIDE DEF other, gain
  <2>1. Zero \in BucketOf
    BY DEF BucketOf
  <2>2. allocatedBalances' \in [PartyA -> Int]
    <3>1. other \in PartyA
      BY DEF other, Inv, BookTyped, QuoteType
    <3>2. allocatedBalances \in [PartyA -> Int]
      BY DEF Inv, MoneyTyped
    <3>. QED
      BY <1>1, <1>2, <3>1, <3>2
  <2>3. partyBAllocatedBalances' \in [PartyB -> [BucketOf -> Int]]
    BY <1>1, <1>2, <2>1 DEF Inv, MoneyTyped
  <2>. QED
    BY <1>1, <2>2, <2>3 DEF Inv, MoneyTyped, escrows, clearing
<1>4. ASSUME NEW p \in QuoteIds
      PROVE  /\ quotes'[p] \in QuoteType
             /\ quotes'[p].status = quotes[p].status /\ quotes'[p].partyA = quotes[p].partyA
             /\ quotes'[p].cva = quotes[p].cva /\ quotes'[p].lf = quotes[p].lf
             /\ p # q => SameTerms(p)
  <2>1. quotes \in [QuoteIds -> QuoteType]
    BY DEF Inv, BookTyped
  <2>. QED
    BY <1>1, <1>2, <2>1 DEF QuoteType, SameTerms
<1>5. BookTyped'
  <2>1. quotes' \in [QuoteIds -> QuoteType]
    BY <1>1, <1>4 DEF Inv, BookTyped
  <2>. QED
    BY <1>1, <2>1 DEF Inv, BookTyped, pools, progress, clearing
<1>6. ASSUME NEW x PROVE OpenOf(x)' = OpenOf(x) /\ OpenLocked(x)' = OpenLocked(x)
  <2>1. OpenOf(x)' = OpenOf(x)
    BY <1>4 DEF OpenOf, With
  <2>2. \A p \in OpenOf(x) : quotes'[p].cva = quotes[p].cva /\ quotes'[p].lf = quotes[p].lf
    BY <1>4, SubsetFinite
  <2>. QED
    BY <2>1, <2>2, OpenLockedSame
<1>7. ASSUME NEW x \in PartyA, liquidationStatus[x], NEW p \in OpenOf(x)
      PROVE  SameTerms(p)
  <2>1. p \in QuoteIds /\ quotes[p].partyA = x
    BY DEF OpenOf, With
  <2>2. p # q
    BY <1>1, <1>7, <2>1
  <2>. QED
    BY <1>4, <2>1, <2>2
<1>8. ASSUME NEW x \in PartyA
      PROVE  /\ SameSignature(x)
             /\ takeover'[x].inProgress => liquidationStatus[x]
             /\ ~liquidationStatus[x] => lockedBalances'[x] = OpenLocked(x)'
             /\ liquidationStatus[x] =>
                  /\ liquidationDetails'[x].priceSet => liquidationDetails'[x].type # "NONE"
                  /\ OpenOf(x)' \subseteq OpenOf(x) /\ \A p \in OpenOf(x)' : SameTerms(p)
  BY <1>1, <1>6, <1>7
     DEF Inv, Accounts, Live, LockedWhileSolvent, Shared, SameSignature, pools, progress, clearing
<1>9. Accounts'
  BY <1>1, <1>8, AccountsKept DEF Inv, progress
<1>. QED
  BY <1>3, <1>5, <1>9 DEF Inv

----------------------------------------------------------------------------
(* A liquidation begins.                                                   *)

LEMMA SignedDetail ==
  ASSUME BookTyped, NEW a, NEW price \in Prices
  PROVE  /\ Signed(a, price) \in LiquidationDetail
         /\ Signed(a, price).involvedPartyBCounts = 0 /\ Signed(a, price).priceSet = FALSE
         /\ Signed(a, price).price = price /\ Signed(a, price).upnl \in Int
         /\ Signed(a, price).totalUnrealizedLoss = -Losses(OpenOf(a), price)
<1>1. price \in Nat /\ price \in Int
  BY LiquidationAssumption
<1>2. Losses(OpenOf(a), price) \in Int /\ Upnl(OpenOf(a), price) \in Int
  BY <1>1, UpnlInt DEF BookTyped
<1>3. -Losses(OpenOf(a), price) \in Int
  BY <1>2
<1>. DEFINE upnl == Upnl(OpenOf(a), price)
            loss == -Losses(OpenOf(a), price)
<1>4. Signed(a, price) = [NoDetail EXCEPT !.price = price, !.upnl = upnl, !.totalUnrealizedLoss = loss]
  BY DEF Signed
<1>5. upnl \in Int /\ loss \in Int
  BY <1>2, <1>3
<1>. HIDE DEF upnl, loss
<1>6. ASSUME NEW d \in LiquidationDetail
      PROVE  [d EXCEPT !.price = price, !.upnl = upnl, !.totalUnrealizedLoss = loss]
               \in LiquidationDetail
  BY <1>1, <1>5 DEF LiquidationDetail
<1>7. NoDetail \in LiquidationDetail
  BY DEF NoDetail, LiquidationDetail
<1>8. Signed(a, price) \in LiquidationDetail
  BY <1>4, <1>6, <1>7
<1>9. Signed(a, price).involvedPartyBCounts = 0 /\ Signed(a, price).priceSet = FALSE
  BY <1>4 DEF NoDetail
<1>10. Signed(a, price).price = price /\ Signed(a, price).totalUnrealizedLoss = loss
  BY <1>4 DEF NoDetail
<1>11. Signed(a, price).upnl \in Int
  BY <1>8 DEF LiquidationDetail
<1>. QED
  BY <1>8, <1>9, <1>10, <1>11 DEF loss

LEMMA LossAtMost ==
  ASSUME BookTyped, NEW a, NEW price \in Prices, NEW q \in OpenOf(a)
  PROVE  Positive(-Pnl(q, price)) <= Losses(OpenOf(a), price)
<1>. DEFINE S == OpenOf(a)
            f == [x \in S |-> Positive(-Pnl(x, price))]
<1>1. price \in Int
  BY LiquidationAssumption
<1>2. \A x \in S : f[x] \in Nat
  BY <1>1, SubsetFinite, PnlInt, PositiveNat DEF BookTyped
<1>3. IsFiniteSet(S) /\ q \in S
  BY SubsetFinite
<1>4. f[q] = Positive(-Pnl(q, price)) /\ Losses(OpenOf(a), price) = Total(S, f)
  BY DEF Losses
<1>. HIDE DEF S, f
<1>5. f[q] <= Total(S, f)
  BY <1>2, <1>3, TotalAtLeast
<1>. QED
  BY <1>4, <1>5

LEMMA Begun ==
  ASSUME Inv, NEW a \in PartyA, NEW price \in Prices, Begin(a, Signed(a, price))
  PROVE  BookTyped' /\ Accounts'
<1>. DEFINE detail == Signed(a, price)
<1>1. /\ ~liquidationStatus[a] /\ ~takeover[a].inProgress
      /\ liquidationStatus' = [liquidationStatus EXCEPT ![a] = TRUE]
      /\ liquidationDetails' = [liquidationDetails EXCEPT ![a] = detail]
      /\ UNCHANGED <<quotes, pools, settlementStates, partyBLiquidationSettlementReserve, clearing>>
  BY DEF Begin
<1>2. /\ detail \in LiquidationDetail
      /\ detail.involvedPartyBCounts = 0 /\ detail.priceSet = FALSE
      /\ detail.price = price /\ detail.totalUnrealizedLoss = -Losses(OpenOf(a), price)
  BY SignedDetail DEF Inv
<1>. HIDE DEF detail
<1>3. BookTyped'
  BY <1>1, <1>2 DEF Inv, BookTyped, pools, clearing
<1>4. liquidationDetails'[a] = detail /\ liquidationStatus'[a]
      /\ \A x \in PartyA \ {a} : liquidationDetails'[x] = liquidationDetails[x]
                                  /\ liquidationStatus'[x] = liquidationStatus[x]
  BY <1>1 DEF Inv, BookTyped
<1>5. Reserved'
  BY <1>1, ReservedSame DEF Inv, Accounts
<1>6. Counted'
  <2>1. \A x : Pending(x)' = Pending(x)
    BY <1>1 DEF Pending
  <2>2. Pending(a) = {}
    BY <1>1 DEF Inv, Accounts, Live
  <2>3. Cardinality(Pending(a)) = 0
    BY <2>2, FS_EmptySet
  <2>. QED
    BY <1>1, <1>2, <1>4, <2>1, <2>3 DEF Inv, Accounts, Counted
<1>7. Live'
  BY <1>1, <1>4 DEF Inv, Accounts, Live, Pending, clearing
<1>8. LockedWhileSolvent'
  <2>1. \A x : OpenLocked(x)' = OpenLocked(x)
    BY <1>1 DEF OpenLocked, OpenOf, With
  <2>. QED
    BY <1>1, <1>4, <2>1 DEF Inv, Accounts, LockedWhileSolvent, pools
<1>9. Shared'
  <2>1. ASSUME NEW x \in PartyA, liquidationStatus'[x]
        PROVE  /\ liquidationDetails'[x].priceSet => liquidationDetails'[x].type # "NONE"
               /\ \A q \in OpenOf(x) :
                    Positive(-Pnl(q, liquidationDetails'[x].price))
                      <= -liquidationDetails'[x].totalUnrealizedLoss
    <3>1. CASE x = a
      <4>1. ASSUME NEW q \in OpenOf(a) PROVE Positive(-Pnl(q, price)) <= -(-Losses(OpenOf(a), price))
        <5>1. Losses(OpenOf(a), price) \in Int
          <6>1. price \in Int
            BY LiquidationAssumption
          <6>. QED
            BY <6>1, UpnlInt DEF Inv, BookTyped
        <5>2. Positive(-Pnl(q, price)) <= Losses(OpenOf(a), price)
          BY LossAtMost DEF Inv
        <5>3. -(-Losses(OpenOf(a), price)) = Losses(OpenOf(a), price)
          BY <5>1
        <5>. QED
          BY <5>2, <5>3
      <4>. QED
        BY <1>2, <1>4, <3>1, <4>1
    <3>2. CASE x # a
      BY <1>4, <2>1, <3>2 DEF Inv, Accounts, Shared
    <3>. QED
      BY <3>1, <3>2
  <2>2. \A x : OpenOf(x)' = OpenOf(x)
    BY <1>1 DEF OpenOf, With
  <2>3. ASSUME NEW x \in PartyA, NEW q
        PROVE  Positive(-Pnl(q, liquidationDetails[x].price))' = Positive(-Pnl(q, liquidationDetails'[x].price))
    BY <1>1 DEF Positive, Pnl
  <2>. QED
    BY <2>1, <2>2, <2>3 DEF Shared
<1>. QED
  BY <1>3, <1>5, <1>6, <1>7, <1>8, <1>9 DEF Accounts

LEMMA LiquidationBegun ==
  ASSUME Inv, NEW a \in PartyA, NEW price \in Prices, LiquidatePartyA(a, price)
  PROVE  Inv'
<1>1. /\ Begin(a, Signed(a, price))
      /\ UNCHANGED <<allocatedBalances, partyADeferredBalance>>
  BY DEF LiquidatePartyA
<1>2. MoneyTyped'
  BY <1>1 DEF Begin, Inv, MoneyTyped, clearing
<1>. QED
  BY <1>1, <1>2, Begun DEF Inv

LEMMA DeferredLiquidationBegun ==
  ASSUME Inv, NEW a \in PartyA, NEW price \in Prices, NEW excess \in Excess,
         DeferredLiquidatePartyA(a, price, excess)
  PROVE  Inv'
<1>. DEFINE available == AvailableForLiquidation(a, allocatedBalances[a], Signed(a, price).upnl)
<1>1. /\ Begin(a, Signed(a, price))
      /\ allocatedBalances' = [allocatedBalances EXCEPT ![a] = @ - Positive(available)]
      /\ partyADeferredBalance' = [partyADeferredBalance EXCEPT ![a] = @ + Positive(available)]
  BY DEF DeferredLiquidatePartyA
<1>2. Positive(available) \in Int
  <2>1. allocatedBalances[a] \in Int /\ Signed(a, price).upnl \in Int
    BY SignedDetail DEF Inv, MoneyTyped
  <2>2. available \in Int
    BY <2>1, AvailableInt DEF Inv
  <2>. QED
    BY <2>2 DEF Positive
<1>. HIDE DEF available
<1>3. MoneyTyped'
  <2>1. UNCHANGED <<partyBAllocatedBalances, partyAReimbursement, liquidationEscrow, clearing>>
    BY <1>1 DEF Begin
  <2>. QED
    BY <1>1, <1>2, <2>1 DEF Inv, MoneyTyped, clearing
<1>. QED
  BY <1>1, <1>3, Begun DEF Inv

----------------------------------------------------------------------------
(* A position is liquidated.                                               *)

LEMMA ReserveAt ==
  ASSUME BookTyped, NEW b \in PartyB, NEW old, NEW new
  PROVE  /\ \A x \in PartyB : Reserve(b, old, new)[x] =
              IF x = b /\ b \in CrossPartyB
              THEN partyBLiquidationSettlementReserve[b] + Positive(new) - Positive(old)
              ELSE partyBLiquidationSettlementReserve[x]
         /\ old \in Int /\ new \in Int => Reserve(b, old, new) \in [PartyB -> Int]
<1>1. partyBLiquidationSettlementReserve \in [PartyB -> Int]
  BY DEF BookTyped
<1>2. \A x \in PartyB : Reserve(b, old, new)[x] =
        IF x = b /\ b \in CrossPartyB
        THEN partyBLiquidationSettlementReserve[b] + Positive(new) - Positive(old)
        ELSE partyBLiquidationSettlementReserve[x]
  BY <1>1 DEF Reserve
<1>3. ASSUME old \in Int, new \in Int PROVE Reserve(b, old, new) \in [PartyB -> Int]
  <2>1. Positive(old) \in Int /\ Positive(new) \in Int
    BY <1>3, PositiveNat
  <2>. QED
    BY <1>1, <2>1 DEF Reserve
<1>. QED
  BY <1>2, <1>3

LEMMA ReckonedInt ==
  ASSUME Inv, NEW b \in PartyB, NEW a \in PartyA, NEW expected \in Int
  PROVE  Reckoned(b, a, expected) \in Int
<1>1. partyBAllocatedBalances[b][PartyBAllocationKey(b, a)] \in Int
  BY KeyInBuckets DEF Inv, MoneyTyped
<1>. QED
  BY <1>1 DEF Reckoned, Lesser

\* What one more position makes of a settlement.
LEMMA PositionAdded ==
  ASSUME Inv, NEW a \in PartyA, NEW q \in QuoteIds, NEW b \in PartyB, b = quotes[q].partyB,
         LiquidatePositionPartyA(a, q)
  PROVE  /\ settlementStates' \in [PartyA -> [PartyB -> SettlementState]]
         /\ \A x \in PartyA \ {a} : settlementStates'[x] = settlementStates[x]
         /\ \A y \in PartyB \ {b} : settlementStates'[a][y] = settlementStates[a][y]
         /\ settlementStates'[a][b].pending = TRUE
         /\ partyBLiquidationSettlementReserve'
              = Reserve(b, settlementStates[a][b].actual, settlementStates'[a][b].actual)
<1>. DEFINE old == settlementStates[a][b]
            added == Adds(a, q)
            new == [pending |-> TRUE, actual |-> old.actual + added.actual,
                    expected |-> old.expected + added.expected, cva |-> old.cva + added.cva]
<1>1. /\ liquidationStatus[a] /\ q \in OpenOf(a) /\ liquidationDetails[a].priceSet /\ MayAdd(a, q)
      /\ settlementStates' = [settlementStates EXCEPT ![a][b] = new]
      /\ partyBLiquidationSettlementReserve' = Reserve(b, old.actual, new.actual)
  BY DEF LiquidatePositionPartyA, Liquidating
<1>2. added.cva \in Int /\ added.actual \in Int /\ added.expected \in Int
  BY <1>1, AddsInt DEF Inv, Accounts
<1>3. settlementStates \in [PartyA -> [PartyB -> SettlementState]] /\ old \in SettlementState
  BY DEF Inv, BookTyped
<1>4. new \in SettlementState /\ new.pending = TRUE
  BY <1>2, <1>3 DEF SettlementState
<1>. HIDE DEF old, added, new
<1>5. settlementStates'[a][b] = new
  BY <1>1, <1>3
<1>. QED
  BY <1>1, <1>3, <1>4, <1>5 DEF old

LEMMA DetailAfterPosition ==
  ASSUME Inv, NEW a \in PartyA, NEW q \in QuoteIds, NEW b \in PartyB, b = quotes[q].partyB,
         LiquidatePositionPartyA(a, q)
  PROVE  /\ liquidationDetails' \in [PartyA -> LiquidationDetail]
         /\ \A x \in PartyA \ {a} : liquidationDetails'[x] = liquidationDetails[x]
         /\ liquidationDetails'[a].price = liquidationDetails[a].price
         /\ liquidationDetails'[a].totalUnrealizedLoss = liquidationDetails[a].totalUnrealizedLoss
         /\ liquidationDetails'[a].priceSet = liquidationDetails[a].priceSet
         /\ liquidationDetails'[a].type = liquidationDetails[a].type
         /\ liquidationDetails'[a].involvedPartyBCounts =
              IF settlementStates[a][b].pending THEN liquidationDetails[a].involvedPartyBCounts
              ELSE liquidationDetails[a].involvedPartyBCounts + 1
<1>. DEFINE detail == liquidationDetails[a]
            expected == settlementStates[a][b].expected + Adds(a, q).expected
            accumulated == detail.partyAAccumulatedUpnl
                             + (IF PositionsOf(b, a) = {q} THEN Reckoned(b, a, expected) ELSE 0)
            disputed == detail.disputed \/ (OpenOf(a) = {q} /\ accumulated # detail.upnl)
            count == IF settlementStates[a][b].pending THEN detail.involvedPartyBCounts
                     ELSE detail.involvedPartyBCounts + 1
<1>1. /\ liquidationStatus[a] /\ q \in OpenOf(a) /\ detail.priceSet /\ MayAdd(a, q)
      /\ liquidationDetails' =
           [liquidationDetails EXCEPT
              ![a].involvedPartyBCounts = IF settlementStates[a][b].pending THEN @ ELSE @ + 1,
              ![a].partyAAccumulatedUpnl = accumulated,
              ![a].disputed = @ \/ (OpenOf(a) = {q} /\ accumulated # detail.upnl)]
  BY DEF LiquidatePositionPartyA, Liquidating
<1>2. liquidationDetails \in [PartyA -> LiquidationDetail] /\ detail \in LiquidationDetail
  BY DEF Inv, BookTyped
<1>3. expected \in Int
  <2>1. settlementStates[a][b].expected \in Int
    BY DEF Inv, BookTyped, SettlementState
  <2>2. Adds(a, q).expected \in Int
    BY <1>1, AddsInt DEF Inv, Accounts
  <2>. QED
    BY <2>1, <2>2
<1>4. accumulated \in Int
  <2>1. detail.partyAAccumulatedUpnl \in Int
    BY <1>2 DEF LiquidationDetail
  <2>2. Reckoned(b, a, expected) \in Int
    BY <1>3, ReckonedInt
  <2>. QED
    BY <2>1, <2>2
<1>5. count \in Int
  BY <1>2 DEF LiquidationDetail
<1>6. disputed \in BOOLEAN
  BY <1>2 DEF LiquidationDetail
<1>7. liquidationDetails' =
        [liquidationDetails EXCEPT
           ![a] = [detail EXCEPT !.involvedPartyBCounts = count,
                                 !.partyAAccumulatedUpnl = accumulated, !.disputed = disputed]]
  BY <1>1, <1>2
<1>. HIDE DEF detail, accumulated, disputed, count
<1>8. ASSUME NEW d \in LiquidationDetail
      PROVE  [d EXCEPT !.involvedPartyBCounts = count,
                       !.partyAAccumulatedUpnl = accumulated, !.disputed = disputed]
               \in LiquidationDetail
  BY <1>4, <1>5, <1>6 DEF LiquidationDetail
<1>9. liquidationDetails' \in [PartyA -> LiquidationDetail]
  BY <1>2, <1>7, <1>8
<1>10. \A x \in PartyA \ {a} : liquidationDetails'[x] = liquidationDetails[x]
  BY <1>2, <1>7
<1>11. liquidationDetails'[a] = [detail EXCEPT !.involvedPartyBCounts = count,
                                   !.partyAAccumulatedUpnl = accumulated, !.disputed = disputed]
  BY <1>2, <1>7
<1>12. /\ liquidationDetails'[a].price = detail.price
       /\ liquidationDetails'[a].totalUnrealizedLoss = detail.totalUnrealizedLoss
       /\ liquidationDetails'[a].priceSet = detail.priceSet
       /\ liquidationDetails'[a].type = detail.type
       /\ liquidationDetails'[a].involvedPartyBCounts = count
  BY <1>2, <1>11 DEF LiquidationDetail
<1>. QED
  BY <1>9, <1>10, <1>12 DEF detail, count

LEMMA PositionLiquidated ==
  ASSUME Inv, NEW a \in PartyA, NEW q \in QuoteIds, LiquidatePositionPartyA(a, q)
  PROVE  Inv'
<1>1. PICK b \in PartyB : b = quotes[q].partyB
  BY DEF Inv, BookTyped, QuoteType
<1>2. /\ liquidationStatus[a] /\ q \in OpenOf(a) /\ quotes' = Ended({q}, "LIQUIDATED")
      /\ UNCHANGED <<allocatedBalances, partyBAllocatedBalances, lockedBalances, escrows,
                     liquidationStatus, clearing>>
  BY DEF LiquidatePositionPartyA, Liquidating
<1>3. MoneyTyped'
  BY <1>2 DEF Inv, MoneyTyped, escrows, clearing
<1>4. /\ settlementStates' \in [PartyA -> [PartyB -> SettlementState]]
      /\ \A x \in PartyA \ {a} : settlementStates'[x] = settlementStates[x]
      /\ \A y \in PartyB \ {b} : settlementStates'[a][y] = settlementStates[a][y]
      /\ settlementStates'[a][b].pending = TRUE
      /\ partyBLiquidationSettlementReserve'
           = Reserve(b, settlementStates[a][b].actual, settlementStates'[a][b].actual)
  BY <1>1, PositionAdded
<1>5. /\ liquidationDetails' \in [PartyA -> LiquidationDetail]
      /\ \A x \in PartyA \ {a} : liquidationDetails'[x] = liquidationDetails[x]
      /\ liquidationDetails'[a].price = liquidationDetails[a].price
      /\ liquidationDetails'[a].totalUnrealizedLoss = liquidationDetails[a].totalUnrealizedLoss
      /\ liquidationDetails'[a].priceSet = liquidationDetails[a].priceSet
      /\ liquidationDetails'[a].type = liquidationDetails[a].type
      /\ liquidationDetails'[a].involvedPartyBCounts =
           IF settlementStates[a][b].pending THEN liquidationDetails[a].involvedPartyBCounts
           ELSE liquidationDetails[a].involvedPartyBCounts + 1
  BY <1>1, DetailAfterPosition
<1>6. /\ quotes' \in [QuoteIds -> QuoteType]
      /\ \A x : OpenOf(x)' = OpenOf(x) \ {q}
      /\ \A p \in QuoteIds : SameTerms(p)
  BY <1>2, EndedBook DEF Inv
<1>7. BookTyped'
  <2>1. settlementStates[a][b].actual \in Int /\ settlementStates'[a][b].actual \in Int
    BY <1>4 DEF Inv, BookTyped, SettlementState
  <2>2. partyBLiquidationSettlementReserve' \in [PartyB -> Int]
    BY <1>4, <2>1, ReserveAt DEF Inv
  <2>. QED
    BY <1>2, <1>4, <1>5, <1>6, <2>2 DEF Inv, BookTyped, clearing
<1>8. Reserved'
  <2>1. \A y \in PartyB : partyBLiquidationSettlementReserve'[y] =
          IF y \in CrossPartyB
          THEN partyBLiquidationSettlementReserve[y]
                 + Positive(settlementStates'[a][y].actual) - Positive(settlementStates[a][y].actual)
          ELSE partyBLiquidationSettlementReserve[y]
    <3>. SUFFICES ASSUME NEW y \in PartyB
                  PROVE  partyBLiquidationSettlementReserve'[y] =
          IF y \in CrossPartyB
          THEN partyBLiquidationSettlementReserve[y]
                 + Positive(settlementStates'[a][y].actual) - Positive(settlementStates[a][y].actual)
          ELSE partyBLiquidationSettlementReserve[y]
      OBVIOUS
    <3>1. CASE y = b
      BY <1>4, <3>1, ReserveAt DEF Inv
    <3>2. CASE y # b
      <4>1. settlementStates'[a][y] = settlementStates[a][y]
        BY <1>4, <3>2
      <4>2. partyBLiquidationSettlementReserve'[y] = partyBLiquidationSettlementReserve[y]
        BY <1>4, <3>2, ReserveAt DEF Inv
      <4>3. settlementStates[a][y].actual \in Int /\ partyBLiquidationSettlementReserve[y] \in Int
        BY DEF Inv, BookTyped, SettlementState
      <4>4. Positive(settlementStates[a][y].actual) \in Int
        BY <4>3, PositiveNat
      <4>. QED
        BY <4>1, <4>2, <4>3, <4>4
    <3>. QED
      BY <3>1, <3>2
  <2>. QED
    BY <1>4, <1>7, <2>1, ReserveFollows DEF Inv, Accounts
<1>9. Pending(a)' = Pending(a) \cup {b} /\ \A x \in PartyA \ {a} : Pending(x)' = Pending(x)
  BY <1>4 DEF Pending
<1>10. Counted'
  <2>1. Cardinality(Pending(a) \cup {b}) =
          IF b \in Pending(a) THEN Cardinality(Pending(a)) ELSE Cardinality(Pending(a)) + 1
    BY SubsetFinite, FS_AddElement
  <2>2. b \in Pending(a) <=> settlementStates[a][b].pending
    BY DEF Pending
  <2>3. /\ liquidationDetails[a].involvedPartyBCounts = Cardinality(Pending(a))
        /\ \A y \in PartyB \ Pending(a) : settlementStates[a][y].actual = 0
    BY DEF Inv, Accounts, Counted
  <2>4. liquidationDetails'[a].involvedPartyBCounts = Cardinality(Pending(a)')
    BY <1>5, <1>9, <2>1, <2>2, <2>3
  <2>5. \A y \in PartyB \ Pending(a)' : settlementStates'[a][y].actual = 0
    BY <1>4, <1>9, <2>3
  <2>6. ASSUME NEW x \in PartyA, x # a
        PROVE  /\ liquidationDetails'[x].involvedPartyBCounts = Cardinality(Pending(x)')
               /\ \A y \in PartyB \ Pending(x)' : settlementStates'[x][y].actual = 0
    BY <1>4, <1>5, <1>9, <2>6 DEF Inv, Accounts, Counted
  <2>. QED
    BY <2>4, <2>5, <2>6 DEF Counted
<1>11. Live'
  BY <1>2, <1>9 DEF Inv, Accounts, Live, clearing
<1>12. LockedWhileSolvent'
  <2>1. ASSUME NEW x \in PartyA, ~liquidationStatus[x] PROVE OpenLocked(x)' = OpenLocked(x)
    <3>1. q \notin OpenOf(x)
      BY <1>2, <2>1 DEF OpenOf, With
    <3>2. OpenOf(x)' = OpenOf(x)
      BY <1>6, <3>1
    <3>3. \A p \in OpenOf(x) : quotes'[p].cva = quotes[p].cva /\ quotes'[p].lf = quotes[p].lf
      BY <1>6, SubsetFinite DEF SameTerms
    <3>. QED
      BY <3>2, <3>3, OpenLockedSame
  <2>. QED
    BY <1>2, <2>1 DEF Inv, Accounts, LockedWhileSolvent
<1>13. Shared'
  <2>1. \A x \in PartyA : liquidationStatus'[x] =>
           /\ liquidationStatus[x]
           /\ liquidationDetails'[x].price = liquidationDetails[x].price
           /\ liquidationDetails'[x].totalUnrealizedLoss = liquidationDetails[x].totalUnrealizedLoss
           /\ liquidationDetails'[x].priceSet => liquidationDetails'[x].type # "NONE"
           /\ OpenOf(x)' \subseteq OpenOf(x) /\ \A p \in OpenOf(x)' : SameTerms(p)
    BY <1>2, <1>5, <1>6, SubsetFinite DEF Inv, Accounts, Shared
  <2>. QED
    BY <2>1, SharedKept DEF Inv, Accounts
<1>. QED
  BY <1>3, <1>7, <1>8, <1>10, <1>11, <1>12, <1>13 DEF Inv, Accounts

----------------------------------------------------------------------------
(* A dispute is resolved, and settlements end.                             *)

LEMMA DisputeResolved ==
  ASSUME Inv, NEW a \in PartyA, NEW disputed \in BOOLEAN, NEW named \in SUBSET PartyB,
         NEW amounts \in [named -> Resolutions],
         TrustedResolution(a, amounts), ResolveLiquidationDispute(a, amounts, disputed)
  PROVE  Inv'
<1>0. named \subseteq Pending(a) /\ DOMAIN amounts = named
  BY DEF TrustedResolution
<1>1. /\ liquidationDetails' =
           [liquidationDetails EXCEPT ![a].disputed = disputed, ![a].asComputed = FALSE]
      /\ settlementStates' =
           [settlementStates EXCEPT ![a] =
              [b \in PartyB |->
                 IF b \in named THEN [settlementStates[a][b] EXCEPT !.actual = amounts[b]]
                 ELSE settlementStates[a][b]]]
      /\ partyBLiquidationSettlementReserve' =
           [b \in PartyB |->
              IF b \in named
              THEN Reserve(b, settlementStates[a][b].actual, amounts[b])[b]
              ELSE partyBLiquidationSettlementReserve[b]]
      /\ UNCHANGED <<quotes, allocatedBalances, partyBAllocatedBalances, lockedBalances, escrows,
                     liquidationStatus, clearing>>
  BY <1>0 DEF ResolveLiquidationDispute, pools
<1>2. MoneyTyped'
  BY <1>1 DEF Inv, MoneyTyped, escrows, clearing
<1>3. /\ liquidationDetails \in [PartyA -> LiquidationDetail]
      /\ settlementStates \in [PartyA -> [PartyB -> SettlementState]]
      /\ partyBLiquidationSettlementReserve \in [PartyB -> Int]
  BY DEF Inv, BookTyped
<1>4. \A b \in named : amounts[b] \in Int
  BY LiquidationAssumption
<1>5. ASSUME NEW b \in PartyB
      PROVE  /\ settlementStates'[a][b] \in SettlementState
             /\ settlementStates'[a][b].pending = settlementStates[a][b].pending
             /\ settlementStates'[a][b].actual =
                  IF b \in named THEN amounts[b] ELSE settlementStates[a][b].actual
  <2>1. settlementStates[a][b] \in SettlementState
    BY <1>3
  <2>2. settlementStates'[a][b] =
          IF b \in named THEN [settlementStates[a][b] EXCEPT !.actual = amounts[b]]
          ELSE settlementStates[a][b]
    BY <1>1, <1>3
  <2>3. \A s \in SettlementState, n \in Int :
          /\ [s EXCEPT !.actual = n] \in SettlementState
          /\ [s EXCEPT !.actual = n].pending = s.pending
          /\ [s EXCEPT !.actual = n].actual = n
    BY DEF SettlementState
  <2>. QED
    BY <1>4, <2>1, <2>2, <2>3
<1>6. \A x \in PartyA \ {a} : settlementStates'[x] = settlementStates[x]
  BY <1>1, <1>3
<1>7. settlementStates' \in [PartyA -> [PartyB -> SettlementState]]
  BY <1>1, <1>3, <1>5
<1>8. /\ liquidationDetails' \in [PartyA -> LiquidationDetail]
      /\ \A x \in PartyA :
           /\ SameSignature(x)
           /\ liquidationDetails'[x].priceSet = liquidationDetails[x].priceSet
           /\ liquidationDetails'[x].type = liquidationDetails[x].type
  <2>1. ASSUME NEW d \in LiquidationDetail
        PROVE  [d EXCEPT !.disputed = disputed, !.asComputed = FALSE] \in LiquidationDetail
    BY DEF LiquidationDetail
  <2>. QED
    BY <1>1, <1>3, <2>1 DEF SameSignature, LiquidationDetail
<1>9. ASSUME NEW b \in PartyB
      PROVE  /\ partyBLiquidationSettlementReserve'[b] \in Int
             /\ partyBLiquidationSettlementReserve'[b] =
                  IF b \in CrossPartyB
                  THEN partyBLiquidationSettlementReserve[b]
                    + Positive(settlementStates'[a][b].actual) - Positive(settlementStates[a][b].actual)
                  ELSE partyBLiquidationSettlementReserve[b]
  <2>1. /\ settlementStates[a][b].actual \in Int /\ partyBLiquidationSettlementReserve[b] \in Int
        /\ settlementStates'[a][b].actual \in Int
    BY <1>3, <1>5 DEF SettlementState
  <2>2. Positive(settlementStates[a][b].actual) \in Int /\ Positive(settlementStates'[a][b].actual) \in Int
    BY <2>1, PositiveNat
  <2>3. CASE b \in named
    <3>1. partyBLiquidationSettlementReserve'[b]
            = Reserve(b, settlementStates[a][b].actual, settlementStates'[a][b].actual)[b]
      BY <1>1, <1>5, <2>3
    <3>. QED
      BY <2>1, <2>2, <3>1, ReserveAt DEF Inv
  <2>4. CASE b \notin named
    <3>1. settlementStates'[a][b].actual = settlementStates[a][b].actual
      BY <1>5, <2>4
    <3>2. partyBLiquidationSettlementReserve'[b] = partyBLiquidationSettlementReserve[b]
      BY <1>1, <2>4
    <3>. QED
      BY <2>1, <2>2, <3>1, <3>2
  <2>. QED
    BY <2>3, <2>4
<1>10. BookTyped'
  <2>1. partyBLiquidationSettlementReserve' \in [PartyB -> Int]
    BY <1>1, <1>9
  <2>. QED
    BY <1>1, <1>7, <1>8, <2>1 DEF Inv, BookTyped, clearing
<1>11. Reserved'
  BY <1>6, <1>9, <1>10, ReserveFollows DEF Inv, Accounts
<1>12. \A x \in PartyA : Pending(x)' = Pending(x)
  BY <1>5, <1>6 DEF Pending
<1>13. Counted'
  <2>1. ASSUME NEW x \in PartyA, NEW y \in PartyB \ Pending(x)
        PROVE  settlementStates'[x][y].actual = 0
    BY <1>0, <1>5, <1>6 DEF Inv, Accounts, Counted
  <2>. QED
    BY <1>8, <1>12, <2>1 DEF Inv, Accounts, Counted, SameSignature
<1>14. Live'
  BY <1>1, <1>12 DEF Inv, Accounts, Live, clearing
<1>15. \A x : OpenOf(x)' = OpenOf(x) /\ OpenLocked(x)' = OpenLocked(x) /\ \A q : SameTerms(q)
  BY <1>1 DEF OpenOf, With, OpenLocked, SameTerms
<1>16. LockedWhileSolvent'
  BY <1>1, <1>15 DEF Inv, Accounts, LockedWhileSolvent
<1>17. Shared'
  <2>1. \A x \in PartyA : liquidationStatus'[x] =>
           /\ liquidationStatus[x]
           /\ liquidationDetails'[x].price = liquidationDetails[x].price
           /\ liquidationDetails'[x].totalUnrealizedLoss = liquidationDetails[x].totalUnrealizedLoss
           /\ liquidationDetails'[x].priceSet => liquidationDetails'[x].type # "NONE"
           /\ OpenOf(x)' \subseteq OpenOf(x) /\ \A p \in OpenOf(x)' : SameTerms(p)
    BY <1>1, <1>8, <1>15 DEF Inv, Accounts, Shared, SameSignature
  <2>. QED
    BY <2>1, SharedKept DEF Inv, Accounts
<1>. QED
  BY <1>2, <1>10, <1>11, <1>13, <1>14, <1>16, <1>17 DEF Inv, Accounts

LEMMA NothingLocked ==
  ASSUME NEW a, OpenOf(a) = {}
  PROVE  OpenLocked(a) = [cva |-> 0, lf |-> 0]
<1>1. /\ Total(OpenOf(a), [q \in OpenOf(a) |-> quotes[q].cva]) = 0
      /\ Total(OpenOf(a), [q \in OpenOf(a) |-> quotes[q].lf]) = 0
  BY TotalNone
<1>. QED
  BY <1>1 DEF OpenLocked

\* What is left when a's liquidation is over, or has one settlement less.
LEMMA AccountsAfterSettlement ==
  ASSUME Inv, BookTyped', NEW a \in PartyA, OpenOf(a) = {}, Reserved', Counted',
         UNCHANGED quotes,
         \A x \in PartyA \ {a} :
           /\ settlementStates'[x] = settlementStates[x] /\ takeover'[x] = takeover[x]
           /\ liquidationStatus'[x] = liquidationStatus[x]
           /\ lockedBalances'[x] = lockedBalances[x]
           /\ liquidationDetails'[x] = liquidationDetails[x],
         liquidationStatus[a],
         \/ /\ ~liquidationStatus'[a] /\ Pending(a)' = {} /\ ~takeover'[a].inProgress
            /\ lockedBalances'[a] = [cva |-> 0, lf |-> 0]
         \/ /\ liquidationStatus'[a]
            /\ liquidationDetails'[a].price = liquidationDetails[a].price
            /\ liquidationDetails'[a].totalUnrealizedLoss = liquidationDetails[a].totalUnrealizedLoss
            /\ liquidationDetails'[a].priceSet = liquidationDetails[a].priceSet
            /\ liquidationDetails'[a].type = liquidationDetails[a].type
  PROVE  Accounts'
<1>1. \A x : OpenOf(x)' = OpenOf(x) /\ OpenLocked(x)' = OpenLocked(x) /\ \A q : SameTerms(q)
  BY DEF OpenOf, With, OpenLocked, SameTerms
<1>2. \A x \in PartyA \ {a} : Pending(x)' = Pending(x)
  BY DEF Pending
<1>3. Live'
  BY <1>2 DEF Inv, Accounts, Live
<1>4. OpenLocked(a) = [cva |-> 0, lf |-> 0]
  BY NothingLocked
<1>5. LockedWhileSolvent'
  BY <1>1, <1>4 DEF Inv, Accounts, LockedWhileSolvent
<1>6. Shared'
  <2>1. \A x \in PartyA : liquidationStatus'[x] =>
           /\ liquidationStatus[x]
           /\ liquidationDetails'[x].price = liquidationDetails[x].price
           /\ liquidationDetails'[x].totalUnrealizedLoss = liquidationDetails[x].totalUnrealizedLoss
           /\ liquidationDetails'[x].priceSet => liquidationDetails'[x].type # "NONE"
           /\ OpenOf(x)' \subseteq OpenOf(x) /\ \A p \in OpenOf(x)' : SameTerms(p)
    BY <1>1 DEF Inv, Accounts, Shared
  <2>. QED
    BY <2>1, SharedKept DEF Inv, Accounts
<1>. QED
  BY <1>3, <1>5, <1>6 DEF Accounts

\* One settlement less: what the reserve holds and what is counted.
LEMMA SettlementTaken ==
  ASSUME Inv, NEW a \in PartyA, NEW b \in PartyB, SettlePartyALiquidation(a, b)
  PROVE  /\ settlementStates' \in [PartyA -> [PartyB -> SettlementState]]
         /\ \A x \in PartyA \ {a} : settlementStates'[x] = settlementStates[x]
         /\ Pending(a)' = Pending(a) \ {b} /\ b \in Pending(a)
         /\ \A y \in PartyB \ Pending(a)' : settlementStates'[a][y].actual = 0
         /\ partyBLiquidationSettlementReserve' \in [PartyB -> Int]
         /\ \A y \in PartyB : partyBLiquidationSettlementReserve'[y] =
              IF y \in CrossPartyB
              THEN partyBLiquidationSettlementReserve[y]
                + Positive(settlementStates'[a][y].actual) - Positive(settlementStates[a][y].actual)
              ELSE partyBLiquidationSettlementReserve[y]
<1>1. /\ settlementStates[a][b].pending
      /\ settlementStates' = [settlementStates EXCEPT ![a][b] = NoSettlement]
      /\ partyBLiquidationSettlementReserve' = Reserve(b, settlementStates[a][b].actual, 0)
  BY DEF SettlePartyALiquidation
<1>2. /\ settlementStates \in [PartyA -> [PartyB -> SettlementState]]
      /\ partyBLiquidationSettlementReserve \in [PartyB -> Int]
      /\ \A y \in PartyB \ Pending(a) : settlementStates[a][y].actual = 0
  BY DEF Inv, BookTyped, Accounts, Counted
<1>3. NoSettlement \in SettlementState /\ NoSettlement.actual = 0 /\ NoSettlement.pending = FALSE
  BY DEF NoSettlement, SettlementState
<1>4. /\ settlementStates' \in [PartyA -> [PartyB -> SettlementState]]
      /\ \A x \in PartyA \ {a} : settlementStates'[x] = settlementStates[x]
      /\ \A y \in PartyB \ {b} : settlementStates'[a][y] = settlementStates[a][y]
      /\ settlementStates'[a][b] = NoSettlement
  BY <1>1, <1>2, <1>3
<1>5. Pending(a)' = Pending(a) \ {b} /\ b \in Pending(a)
  BY <1>1, <1>3, <1>4 DEF Pending
<1>6. \A y \in PartyB \ Pending(a)' : settlementStates'[a][y].actual = 0
  BY <1>2, <1>3, <1>4, <1>5
<1>7. \A y \in PartyB :
        /\ settlementStates[a][y].actual \in Int
        /\ Positive(settlementStates[a][y].actual) \in Int
  BY <1>2, PositiveNat DEF SettlementState
<1>8. partyBLiquidationSettlementReserve' \in [PartyB -> Int]
  BY <1>1, <1>7, ReserveAt DEF Inv
<1>9. ASSUME NEW y \in PartyB
      PROVE  partyBLiquidationSettlementReserve'[y] =
              IF y \in CrossPartyB
              THEN partyBLiquidationSettlementReserve[y]
                + Positive(settlementStates'[a][y].actual) - Positive(settlementStates[a][y].actual)
              ELSE partyBLiquidationSettlementReserve[y]
  <2>1. CASE y = b
    BY <1>1, <1>3, <1>4, <2>1, ReserveAt DEF Inv
  <2>2. CASE y # b
    <3>1. partyBLiquidationSettlementReserve'[y] = partyBLiquidationSettlementReserve[y]
      BY <1>1, <2>2, ReserveAt DEF Inv
    <3>. QED
      BY <1>2, <1>4, <1>7, <2>2, <3>1
  <2>. QED
    BY <2>1, <2>2
<1>. QED
  BY <1>4, <1>5, <1>6, <1>8, <1>9

LEMMA DetailAfterSettlement ==
  ASSUME Inv, NEW a \in PartyA, NEW b \in PartyB, SettlePartyALiquidation(a, b)
  PROVE  LET counts == liquidationDetails[a].involvedPartyBCounts
         IN  /\ liquidationDetails' \in [PartyA -> LiquidationDetail]
             /\ \A x \in PartyA \ {a} : liquidationDetails'[x] = liquidationDetails[x]
             /\ liquidationDetails'[a].price = liquidationDetails[a].price
             /\ liquidationDetails'[a].totalUnrealizedLoss = liquidationDetails[a].totalUnrealizedLoss
             /\ liquidationDetails'[a].priceSet = liquidationDetails[a].priceSet
             /\ counts # 1 => liquidationDetails'[a].type = liquidationDetails[a].type
             /\ liquidationDetails'[a].involvedPartyBCounts = counts - 1
<1>. DEFINE detail == liquidationDetails[a]
            count == detail.involvedPartyBCounts - 1
            type == IF detail.involvedPartyBCounts = 1 THEN "NONE" ELSE detail.type
<1>1. liquidationDetails \in [PartyA -> LiquidationDetail] /\ detail \in LiquidationDetail
  BY DEF Inv, BookTyped
<1>2. count \in Int /\ type \in {"NONE", "NORMAL", "LATE", "OVERDUE"}
  BY <1>1 DEF LiquidationDetail
<1>3. liquidationDetails' =
        [liquidationDetails EXCEPT
           ![a] = [detail EXCEPT !.involvedPartyBCounts = count, !.type = type]]
  BY <1>1 DEF SettlePartyALiquidation
<1>. HIDE DEF count, type
<1>4. ASSUME NEW d \in LiquidationDetail
      PROVE  [d EXCEPT !.involvedPartyBCounts = count, !.type = type] \in LiquidationDetail
  BY <1>2 DEF LiquidationDetail
<1>5. liquidationDetails' \in [PartyA -> LiquidationDetail]
  BY <1>1, <1>3, <1>4
<1>6. /\ liquidationDetails'[a] = [detail EXCEPT !.involvedPartyBCounts = count, !.type = type]
      /\ \A x \in PartyA \ {a} : liquidationDetails'[x] = liquidationDetails[x]
  BY <1>1, <1>3
<1>7. /\ liquidationDetails'[a].price = detail.price
      /\ liquidationDetails'[a].totalUnrealizedLoss = detail.totalUnrealizedLoss
      /\ liquidationDetails'[a].priceSet = detail.priceSet
      /\ liquidationDetails'[a].type = type
      /\ liquidationDetails'[a].involvedPartyBCounts = count
  BY <1>1, <1>6 DEF LiquidationDetail
<1>8. detail.involvedPartyBCounts # 1 => type = detail.type
  BY DEF type
<1>. QED
  BY <1>5, <1>6, <1>7, <1>8 DEF count

LEMMA MoneyAfterSettlement ==
  ASSUME Inv, NEW a \in PartyA, NEW b \in PartyB, SettlePartyALiquidation(a, b)
  PROVE  MoneyTyped'
<1>. DEFINE key == PartyBAllocationKey(b, a)
            outlay == settlementStates[a][b].cva - Collected(b, a, settlementStates[a][b].actual)
<1>1. /\ partyBAllocatedBalances' = [partyBAllocatedBalances EXCEPT ![b][key] = @ + outlay]
      /\ UNCHANGED clearing
      /\ Close(a) \/ UNCHANGED <<allocatedBalances, escrows>>
  BY DEF SettlePartyALiquidation
<1>2. key \in BucketOf
  BY KeyInBuckets
<1>3. outlay \in Int
  <2>1. settlementStates[a][b].cva \in Int /\ settlementStates[a][b].actual \in Int
    BY DEF Inv, BookTyped, SettlementState
  <2>2. partyBAllocatedBalances[b][key] \in Int
    BY <1>2 DEF Inv, MoneyTyped
  <2>3. Collected(b, a, settlementStates[a][b].actual) \in Int
    BY <2>1, <2>2 DEF Collected, Lesser
  <2>. QED
    BY <2>1, <2>3
<1>4. partyBAllocatedBalances' \in [PartyB -> [BucketOf -> Int]]
  <2>. HIDE DEF key, outlay
  <2>. QED
    BY <1>1, <1>2, <1>3 DEF Inv, MoneyTyped
<1>5. CASE UNCHANGED <<allocatedBalances, escrows>>
  BY <1>1, <1>4, <1>5 DEF Inv, MoneyTyped, escrows, clearing
<1>6. CASE Close(a)
  <2>1. /\ allocatedBalances' \in [PartyA -> Int] /\ partyAReimbursement' \in [PartyA -> Int]
        /\ partyADeferredBalance' \in [PartyA -> Int] /\ liquidationEscrow' \in [PartyA -> Int]
    BY <1>6 DEF Close, Inv, MoneyTyped
  <2>. QED
    BY <1>1, <1>4, <2>1 DEF Inv, MoneyTyped, clearing
<1>. QED
  BY <1>1, <1>5, <1>6

LEMMA SettledWithPartyB ==
  ASSUME Inv, NEW a \in PartyA, NEW b \in PartyB, SettlePartyALiquidation(a, b)
  PROVE  Inv'
<1>. DEFINE last == liquidationDetails[a].involvedPartyBCounts = 1
<1>1. /\ liquidationStatus[a] /\ ~takeover[a].inProgress /\ OpenOf(a) = {}
      /\ UNCHANGED <<quotes, takeover>>
      /\ last => /\ lockedBalances' = [lockedBalances EXCEPT ![a] = [cva |-> 0, lf |-> 0]]
                 /\ liquidationStatus' = [liquidationStatus EXCEPT ![a] = FALSE]
      /\ ~last => UNCHANGED <<lockedBalances, liquidationStatus>>
  BY DEF SettlePartyALiquidation, Liquidating, Close, clearing
<1>. HIDE DEF last
<1>2. MoneyTyped'
  BY MoneyAfterSettlement
<1>3. BookTyped'
  <2>1. /\ lockedBalances' \in [PartyA -> [cva : Int, lf : Int]]
        /\ liquidationStatus' \in [PartyA -> BOOLEAN]
    <3>1. [cva |-> 0, lf |-> 0] \in [cva : Int, lf : Int]
      OBVIOUS
    <3>. QED
      BY <1>1, <3>1 DEF Inv, BookTyped
  <2>. QED
    BY <1>1, <2>1, SettlementTaken, DetailAfterSettlement DEF Inv, BookTyped
<1>4. Reserved'
  BY <1>3, SettlementTaken, ReserveFollows DEF Inv, Accounts
<1>5. Cardinality(Pending(a) \ {b}) = Cardinality(Pending(a)) - 1
  BY SubsetFinite, SettlementTaken, FS_RemoveElement
<1>6. liquidationDetails[a].involvedPartyBCounts = Cardinality(Pending(a))
  BY DEF Inv, Accounts, Counted
<1>7. Counted'
  <2>1. liquidationDetails'[a].involvedPartyBCounts = Cardinality(Pending(a)')
    BY <1>5, <1>6, SettlementTaken, DetailAfterSettlement
  <2>2. ASSUME NEW x \in PartyA, x # a
        PROVE  /\ liquidationDetails'[x].involvedPartyBCounts = Cardinality(Pending(x)')
               /\ \A y \in PartyB \ Pending(x)' : settlementStates'[x][y].actual = 0
    <3>1. settlementStates'[x] = settlementStates[x] /\ liquidationDetails'[x] = liquidationDetails[x]
      BY <2>2, SettlementTaken, DetailAfterSettlement
    <3>2. Pending(x)' = Pending(x)
      BY <3>1 DEF Pending
    <3>. QED
      BY <3>1, <3>2 DEF Inv, Accounts, Counted
  <2>. QED
    BY <2>1, <2>2, SettlementTaken DEF Counted
<1>8. \A x \in PartyA \ {a} :
           /\ settlementStates'[x] = settlementStates[x] /\ takeover'[x] = takeover[x]
           /\ liquidationStatus'[x] = liquidationStatus[x]
           /\ lockedBalances'[x] = lockedBalances[x]
           /\ liquidationDetails'[x] = liquidationDetails[x]
  BY <1>1, SettlementTaken, DetailAfterSettlement DEF Inv, BookTyped
<1>9. CASE last
  <2>1. Pending(a)' = {}
    <3>1. Cardinality(Pending(a) \ {b}) = 0
      BY <1>5, <1>6, <1>9 DEF last
    <3>2. IsFiniteSet(Pending(a) \ {b})
      BY SubsetFinite, FS_RemoveElement
    <3>. QED
      BY <3>1, <3>2, SettlementTaken, FS_EmptySet
  <2>2. ~liquidationStatus'[a] /\ ~takeover'[a].inProgress /\ lockedBalances'[a] = [cva |-> 0, lf |-> 0]
    BY <1>1, <1>9 DEF Inv, BookTyped
  <2>. QED
    BY <1>1, <1>2, <1>3, <1>4, <1>7, <1>8, <2>1, <2>2, AccountsAfterSettlement DEF Inv
<1>10. CASE ~last
  <2>1. /\ liquidationStatus'[a]
        /\ liquidationDetails'[a].price = liquidationDetails[a].price
        /\ liquidationDetails'[a].totalUnrealizedLoss = liquidationDetails[a].totalUnrealizedLoss
        /\ liquidationDetails'[a].priceSet = liquidationDetails[a].priceSet
        /\ liquidationDetails'[a].type = liquidationDetails[a].type
    BY <1>1, <1>10, DetailAfterSettlement DEF last
  <2>. QED
    BY <1>1, <1>2, <1>3, <1>4, <1>7, <1>8, <2>1, AccountsAfterSettlement DEF Inv
<1>. QED
  BY <1>9, <1>10

\* A takeover ends every settlement of a at once, and gives back what they had reserved.
LEMMA TakeoverSettled ==
  ASSUME Inv, NEW a \in PartyA, NEW settledPartyBs \in SUBSET PartyB,
         TrustedList(a, settledPartyBs), SettlePartyATakeover(a, settledPartyBs)
  PROVE  Inv'
<1>1. /\ takeover[a].inProgress /\ OpenOf(a) = {}
      /\ partyBLiquidationSettlementReserve' =
           [b \in PartyB |->
              IF b \in Pending(a) THEN Reserve(b, settlementStates[a][b].actual, 0)[b]
              ELSE partyBLiquidationSettlementReserve[b]]
      /\ settlementStates' =
           [settlementStates EXCEPT ![a] =
              [b \in PartyB |->
                 IF b \in settledPartyBs THEN NoSettlement ELSE settlementStates[a][b]]]
      /\ allocatedBalances' =
           [allocatedBalances EXCEPT ![a] = @ + partyAReimbursement[a] + partyADeferredBalance[a]]
      /\ partyAReimbursement' = [partyAReimbursement EXCEPT ![a] = 0]
      /\ partyADeferredBalance' = [partyADeferredBalance EXCEPT ![a] = 0]
      /\ lockedBalances' = [lockedBalances EXCEPT ![a] = [cva |-> 0, lf |-> 0]]
      /\ liquidationStatus' = [liquidationStatus EXCEPT ![a] = FALSE]
      /\ liquidationDetails' = [liquidationDetails EXCEPT ![a] = NoDetail]
      /\ takeover' = [takeover EXCEPT ![a] = NotTakenOver]
      /\ UNCHANGED <<quotes, partyBAllocatedBalances, liquidationEscrow, crossLiquidation>>
  BY DEF SettlePartyATakeover, NothingLeft, TrustedList
<1>2. MoneyTyped'
  BY <1>1 DEF Inv, MoneyTyped
<1>3. /\ settlementStates \in [PartyA -> [PartyB -> SettlementState]]
      /\ partyBLiquidationSettlementReserve \in [PartyB -> Int]
      /\ lockedBalances \in [PartyA -> [cva : Int, lf : Int]]
      /\ liquidationStatus \in [PartyA -> BOOLEAN]
      /\ liquidationDetails \in [PartyA -> LiquidationDetail]
      /\ takeover \in [PartyA -> Process]
  BY DEF Inv, BookTyped
<1>4. /\ NoSettlement \in SettlementState /\ NoSettlement.actual = 0 /\ NoSettlement.pending = FALSE
      /\ NoDetail \in LiquidationDetail /\ NoDetail.involvedPartyBCounts = 0
      /\ NotTakenOver \in Process /\ NotTakenOver.inProgress = FALSE
      /\ [cva |-> 0, lf |-> 0] \in [cva : Int, lf : Int]
  BY DEF NoSettlement, SettlementState, NoDetail, LiquidationDetail, NotTakenOver, Process
<1>5. /\ settlementStates' \in [PartyA -> [PartyB -> SettlementState]]
      /\ \A x \in PartyA \ {a} : settlementStates'[x] = settlementStates[x]
      /\ \A b \in PartyB :
           ~settlementStates'[a][b].pending /\ settlementStates'[a][b].actual = 0
  <2>1. ASSUME NEW b \in PartyB
        PROVE  /\ settlementStates'[a][b] \in SettlementState
               /\ ~settlementStates'[a][b].pending /\ settlementStates'[a][b].actual = 0
    <3>1. settlementStates'[a][b] =
            IF b \in settledPartyBs THEN NoSettlement ELSE settlementStates[a][b]
      BY <1>1, <1>3
    <3>2. CASE b \in settledPartyBs
      BY <1>4, <3>1, <3>2
    <3>3. CASE b \notin settledPartyBs
      <4>1. b \in PartyB \ Pending(a)
        BY <3>3 DEF TrustedList
      <4>2. settlementStates[a][b].actual = 0
        BY <4>1 DEF Inv, Accounts, Counted
      <4>3. ~settlementStates[a][b].pending
        BY <4>1 DEF Pending
      <4>4. settlementStates'[a][b] = settlementStates[a][b]
        BY <3>1, <3>3
      <4>5. settlementStates[a][b] \in SettlementState
        BY <1>3
      <4>. QED
        BY <4>2, <4>3, <4>4, <4>5
    <3>. QED
      BY <3>2, <3>3
  <2>2. /\ settlementStates' \in [PartyA -> [PartyB -> SettlementState]]
        /\ \A x \in PartyA \ {a} : settlementStates'[x] = settlementStates[x]
    BY <1>1, <1>3, <2>1
  <2>. QED
    BY <2>1, <2>2
<1>6. ASSUME NEW b \in PartyB
      PROVE  /\ partyBLiquidationSettlementReserve'[b] \in Int
             /\ partyBLiquidationSettlementReserve'[b] =
                  IF b \in CrossPartyB
                  THEN partyBLiquidationSettlementReserve[b]
                    + Positive(settlementStates'[a][b].actual) - Positive(settlementStates[a][b].actual)
                  ELSE partyBLiquidationSettlementReserve[b]
  <2>1. /\ settlementStates[a][b].actual \in Int /\ partyBLiquidationSettlementReserve[b] \in Int
        /\ settlementStates'[a][b].actual = 0
    BY <1>3, <1>4, <1>5 DEF SettlementState
  <2>2. Positive(settlementStates[a][b].actual) \in Int /\ Positive(0) = 0
    BY <2>1, PositiveNat DEF Positive
  <2>3. CASE b \in Pending(a)
    <3>1. partyBLiquidationSettlementReserve'[b] = Reserve(b, settlementStates[a][b].actual, 0)[b]
      BY <1>1, <2>3
    <3>. QED
      BY <2>1, <2>2, <3>1, ReserveAt DEF Inv
  <2>4. CASE b \notin Pending(a)
    <3>1. settlementStates[a][b].actual = 0
      BY <2>4 DEF Inv, Accounts, Counted
    <3>2. partyBLiquidationSettlementReserve'[b] = partyBLiquidationSettlementReserve[b]
      BY <1>1, <2>4
    <3>. QED
      BY <2>1, <2>2, <3>1, <3>2
  <2>. QED
    BY <2>3, <2>4
<1>7. BookTyped'
  <2>1. partyBLiquidationSettlementReserve' \in [PartyB -> Int]
    BY <1>1, <1>6
  <2>2. /\ lockedBalances' \in [PartyA -> [cva : Int, lf : Int]]
        /\ liquidationStatus' \in [PartyA -> BOOLEAN]
        /\ liquidationDetails' \in [PartyA -> LiquidationDetail]
        /\ takeover' \in [PartyA -> Process]
    BY <1>1, <1>3, <1>4
  <2>. QED
    BY <1>1, <1>5, <2>1, <2>2 DEF Inv, BookTyped
<1>8. Reserved'
  BY <1>5, <1>6, <1>7, ReserveFollows DEF Inv, Accounts
<1>9. Pending(a)' = {}
  BY <1>4, <1>5 DEF Pending
<1>10. \A x \in PartyA \ {a} :
           /\ settlementStates'[x] = settlementStates[x] /\ takeover'[x] = takeover[x]
           /\ liquidationStatus'[x] = liquidationStatus[x]
           /\ lockedBalances'[x] = lockedBalances[x]
           /\ liquidationDetails'[x] = liquidationDetails[x]
  BY <1>1, <1>3, <1>5
<1>11. /\ ~liquidationStatus'[a] /\ ~takeover'[a].inProgress
       /\ lockedBalances'[a] = [cva |-> 0, lf |-> 0] /\ liquidationDetails'[a] = NoDetail
  BY <1>1, <1>3, <1>4
<1>12. Counted'
  <2>1. /\ liquidationDetails'[a].involvedPartyBCounts = Cardinality(Pending(a)')
        /\ \A y \in PartyB : settlementStates'[a][y].actual = 0
    BY <1>4, <1>5, <1>9, <1>11, FS_EmptySet
  <2>2. ASSUME NEW x \in PartyA, x # a
        PROVE  /\ liquidationDetails'[x].involvedPartyBCounts = Cardinality(Pending(x)')
               /\ \A y \in PartyB \ Pending(x)' : settlementStates'[x][y].actual = 0
    <3>1. Pending(x)' = Pending(x)
      BY <1>10, <2>2 DEF Pending
    <3>. QED
      BY <1>10, <2>2, <3>1 DEF Inv, Accounts, Counted
  <2>. QED
    BY <2>1, <2>2 DEF Counted
<1>13. liquidationStatus[a]
  BY <1>1 DEF Inv, Accounts, Live
<1>. QED
  BY <1>1, <1>2, <1>7, <1>8, <1>9, <1>10, <1>11, <1>12, <1>13, AccountsAfterSettlement DEF Inv

----------------------------------------------------------------------------
(* Every step, and what follows.                                           *)

LEMMA LiquidationStepInv ==
  ASSUME Inv, PartyALiquidationStep
  PROVE  Inv'
<1>1. ASSUME NEW a \in PartyA, NEW price \in Prices, LiquidatePartyA(a, price) PROVE Inv'
  BY <1>1, LiquidationBegun
<1>2. ASSUME NEW a \in PartyA, NEW price \in Prices, NEW excess \in Excess,
             DeferredLiquidatePartyA(a, price, excess)
      PROVE  Inv'
  BY <1>2, DeferredLiquidationBegun
<1>3. ASSUME NEW a \in PartyA,
             SetSymbolsPrice(a) \/ LiquidatePendingPositionsPartyA(a) \/ DisputeAgain(a)
      PROVE  Inv'
  BY <1>3, PricesSet, PendingDropped, DisputedAgain DEF LiquidatePendingPositionsPartyA
<1>4. ASSUME NEW a \in PartyA, NEW q \in QuoteIds, LiquidatePositionPartyA(a, q) PROVE Inv'
  BY <1>4, PositionLiquidated
<1>5. ASSUME NEW a \in PartyA, NEW disputed \in BOOLEAN, NEW named \in SUBSET PartyB,
             NEW amounts \in [named -> Resolutions],
             TrustedResolution(a, amounts), ResolveLiquidationDispute(a, amounts, disputed)
      PROVE  Inv'
  BY <1>5, DisputeResolved
<1>6. ASSUME NEW a \in PartyA, NEW b \in PartyB, SettlePartyALiquidation(a, b) PROVE Inv'
  BY <1>6, SettledWithPartyB
<1>7. ASSUME NEW a \in PartyA, NEW b \in PartyB, NEW q \in QuoteIds, NEW updated \in Prices,
             SettlePartyBUpnlForLiquidation(a, b, q, updated)
      PROVE  Inv'
  BY <1>7, UpnlOfPartyBSettled
<1>8. ASSUME NEW b \in PartyB, NEW key \in BucketOf, NEW n \in Amounts,
             AllocateForPartyB(b, key, n) \/ DeallocateForPartyB(b, key, n)
      PROVE  Inv'
  BY <1>8, MovesOfPartyB
<1>. QED
  BY <1>1, <1>2, <1>3, <1>4, <1>5, <1>6, <1>7, <1>8 DEF PartyALiquidationStep

LEMMA ClearingHouseStepInv ==
  ASSUME Inv, ClearingHouseStep
  PROVE  Inv'
<1>1. ASSUME NEW a \in PartyA,
             \/ TakeoverPartyALiquidation(a) \/ LiquidatePendingPositionsOfTakeover(a)
             \/ \E settledPartyBs \in SUBSET PartyB :
                  TrustedList(a, settledPartyBs) /\ SettlePartyATakeover(a, settledPartyBs)
      PROVE  Inv'
  BY <1>1, TakenOver, PendingDropped, TakeoverSettled DEF LiquidatePendingPositionsOfTakeover
<1>2. ASSUME NEW b \in PartyB, NEW a \in PartyA, LiquidatePendingPositionsOfCross(b, a) PROVE Inv'
  BY <1>2, PendingOfCrossDropped
<1>3. ASSUME NEW q \in QuoteIds, LiquidatePositionOfCross(q) \/ LiquidatePositionOfTakeover(q)
      PROVE  Inv'
  BY <1>3, PositionOfCrossClosed, PositionOfTakeoverClosed
<1>4. ASSUME NEW b \in PartyB, LiquidateCrossPartyB(b) \/ SettleCrossPartyBLiquidation(b)
      PROVE  Inv'
  BY <1>4, CrossPartyBBeginsOrEnds
<1>5. ASSUME NEW subject \in PartyA \cup PartyB, DistributeForClearingHouse(subject) PROVE Inv'
  BY <1>5, ClearingHouseDistributes
<1>6. ASSUME NEW a \in PartyA, DistributeFromLiquidationEscrow(a) PROVE Inv'
  BY <1>6, EscrowDistributed
<1>7. ASSUME NEW b \in PartyB, NEW n \in Amounts, SoftPartyBLiquidation(b, n) PROVE Inv'
  <2>1. Zero \in BucketOf
    BY DEF BucketOf
  <2>. QED
    BY <1>7, <2>1, MovesOfPartyB
<1>8. ASSUME NEW subject \in PartyA \cup PartyB, NEW n \in Amounts,
             DeallocateForClearingHouse(subject, n)
      PROVE  Inv'
  BY <1>8, ClearingHouseDeallocates
<1>. QED
  BY <1>1, <1>2, <1>3, <1>4, <1>5, <1>6, <1>7, <1>8 DEF ClearingHouseStep, Finish

LEMMA StutterInv ==
  ASSUME Inv, UNCHANGED vars
  PROVE  Inv'
<1>1. UNCHANGED <<quotes, allocatedBalances, partyBAllocatedBalances, pools, escrows, progress,
                  clearing>>
  BY DEF vars
<1>2. MoneyTyped'
  BY <1>1 DEF Inv, MoneyTyped, escrows, clearing
<1>3. BookTyped' /\ Accounts'
  BY <1>1, AsideKept DEF Inv, BookTyped, pools, clearing
<1>. QED
  BY <1>2, <1>3 DEF Inv

LEMMA NextInv ==
  Inv /\ [Next]_vars => Inv'
BY LiquidationStepInv, ClearingHouseStepInv, StutterInv DEF Next

\* A margin still locked has its position, or its liquidation.
LEMMA InvMatches ==
  Inv => SettlementsMatch
<1>. SUFFICES ASSUME Inv PROVE SettlementsMatch
  OBVIOUS
<1>1. \A b \in PartyB :
        partyBLiquidationSettlementReserve[b] =
          IF b \in CrossPartyB
          THEN Total(PartyA, [a \in PartyA |-> Positive(settlementStates[a][b].actual)])
          ELSE 0
  BY DEF Inv, Accounts, Reserved, Owed
<1>2. ASSUME NEW a \in PartyA
      PROVE  /\ liquidationDetails[a].involvedPartyBCounts = Cardinality(Pending(a))
             /\ Pending(a) # {} => liquidationStatus[a]
             /\ takeover[a].inProgress => liquidationStatus[a]
             /\ OpenOf(a) = {} /\ ~liquidationStatus[a] => lockedBalances[a] = [cva |-> 0, lf |-> 0]
  BY NothingLocked DEF Inv, Accounts, Counted, Live, LockedWhileSolvent
<1>. QED
  BY <1>1, <1>2 DEF SettlementsMatch

----------------------------------------------------------------------------

\* The accounts of every liquidation are exact in every state: the reserve of a cross
\* partyB (partyBLiquidationSettlementReserve) is what its pending settlements say it owes,
\* a settlement not pending owes nothing, a partyA not in liquidation has locked what its
\* open positions lock, and the losses signed count every position still to be liquidated.
THEOREM AccountsExact ==
  Spec => []Accounts
<1>1. Inv => Accounts
  BY DEF Inv
<1>. QED
  BY <1>1, InitInv, NextInv, PTL DEF Spec

\* Reserves, counts of settlements outstanding and locked margins match, in whatever order
\* liquidators, the resolver and the clearing house act.
THEOREM SettlementsCorrect ==
  Spec => []SettlementsMatch
BY InitInv, NextInv, InvMatches, PTL DEF Spec
=============================================================================
