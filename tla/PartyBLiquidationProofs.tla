----------------------- MODULE PartyBLiquidationProofs -----------------------
(***************************************************************************)
(* What the liquidation of a pair leaves alone, and what it settles, for   *)
(* every value of the constants: the pair is frozen between its two        *)
(* transactions and ends clean, the pools of the other pairs stay the sums *)
(* of their quotes, and the seized balance is shared out within one unit   *)
(* per position, beside any trading of everybody else.                     *)
(***************************************************************************)
EXTENDS PartyBLiquidation, QuotesProofs

USE DEF PendingStatus, HeldStatus, ClosingStatus, OpenStatus, FinalStatus, QuoteStatus

----------------------------------------------------------------------------
(* What trading can do to a quote.                                         *)

LEMMA TradeIsNext == Trade => Next /\ UNCHANGED liquidation
BY DEF Trade, Next

\* One handler of q, seen from the quotes: those it does not replace stay, but for a
\* fresh id that no partyB holds yet; q keeps its partyA, and changes partyB at most
\* to nobody; nothing final comes back and nothing is liquidated.
Confined(q) ==
  /\ quotes[q].status \notin FinalStatus \cup {"NONE"}
  /\ quotes'[q].status \notin {"LIQUIDATED", "LIQUIDATED_PENDING"}
  /\ quotes'[q].partyA = quotes[q].partyA
  /\ quotes'[q].partyB \in {quotes[q].partyB, Zero}
  /\ \A x \in QuoteIds \ {q} : quotes'[x] # quotes[x] =>
       /\ quotes[x] = NoQuote
       /\ quotes'[x].partyB = Zero /\ quotes'[x].status \in {"PENDING", "CANCELED"}

LEMMA ReplacedConfined ==
  ASSUME TypeInv, NEW q \in QuoteIds, NEW new, quotes' = [quotes EXCEPT ![q] = new],
         quotes[q].status \notin FinalStatus \cup {"NONE"},
         new.status \notin {"LIQUIDATED", "LIQUIDATED_PENDING"},
         new.partyA = quotes[q].partyA, new.partyB \in {quotes[q].partyB, Zero}
  PROVE  Confined(q)
<1>1. quotes'[q] = new /\ \A x \in QuoteIds \ {q} : quotes'[x] = quotes[x]
  BY DEF TypeInv, TypeOK
<1>. QED  BY <1>1 DEF Confined

LEMMA QuoteStepConfined ==
  ASSUME TypeInv, IdsFresh, NEW q \in QuoteIds, QuoteStep(q)
  PROVE  Confined(q)
<1>. DEFINE old == quotes[q]
<1>1. ASSUME NEW st \in {"CANCELED", "EXPIRED"}, Dropped(q, st) PROVE Confined(q)
  <2>. DEFINE new == [old EXCEPT !.status = st, !.modified = now]
  <2>1. quotes' = [quotes EXCEPT ![q] = new]
    BY <1>1 DEF Dropped, Leave, TypeInv, TypeOK
  <2>3. old.status \in PendingStatus
    BY <1>1 DEF Dropped
  <2>2. new.status = st /\ new.partyA = old.partyA /\ new.partyB = old.partyB
    BY QuoteFacts DEF QuoteType
  <2>. HIDE DEF new
  <2>. QED  BY <2>1, <2>2, <2>3, ReplacedConfined
<1>2. CASE Unlocked(q)
  <2>. DEFINE new == [old EXCEPT !.status = "PENDING", !.partyB = Zero, !.modified = now]
  <2>1. quotes' = [quotes EXCEPT ![q] = new] /\ old.status = "LOCKED"
    BY <1>2 DEF Unlocked
  <2>2. new.status = "PENDING" /\ new.partyA = old.partyA /\ new.partyB = Zero
    BY QuoteFacts DEF QuoteType
  <2>. HIDE DEF new
  <2>. QED  BY <2>1, <2>2, ReplacedConfined
<1>3. ASSUME NEW new, Retouched(q, new) PROVE Confined(q)
  BY <1>3, ReplacedConfined DEF Retouched, UpdateOnly
<1>4. ASSUME NEW p \in Prices, OpenWhole(q, p) PROVE Confined(q)
  <2>1. PICK pos : /\ pos.status = "OPENED" /\ pos.partyA = old.partyA /\ pos.partyB = old.partyB
                   /\ quotes' = [quotes EXCEPT ![q] = pos] /\ old.status \in HeldStatus
    BY <1>4, OpenWholeFacts
  <2>. QED  BY <2>1, ReplacedConfined
<1>5. ASSUME NEW n \in 1..quotes[q].quantity, NEW p \in Prices, OpenPart(q, n, p) PROVE Confined(q)
  <2>. DEFINE r == lastId + 1
              pos == PartOf(q, n, p)
              rest == Rest(q, old, n)
  <2>1. /\ r \in QuoteIds /\ old.status \in HeldStatus /\ pos.status = "OPENED"
        /\ pos.partyA = old.partyA /\ pos.partyB = old.partyB /\ rest.partyB = Zero
        /\ rest.status \in {"PENDING", "CANCELED"}
        /\ quotes' = [quotes EXCEPT ![q] = pos, ![r] = rest]
    BY <1>5, OpenPartFacts
  <2>2. q # r /\ quotes[r] = NoQuote
    BY <2>1, UsedId, FreshId
  <2>. HIDE DEF r, pos, rest
  <2>3. /\ quotes'[q] = pos /\ quotes'[r] = rest
        /\ \A x \in QuoteIds \ {q, r} : quotes'[x] = quotes[x]
    BY <2>1, <2>2 DEF TypeInv, TypeOK
  <2>. QED  BY <2>1, <2>2, <2>3 DEF Confined
<1>6. ASSUME NEW qt, NEW n, NEW p, NEW new, ClosedBy(q, qt, n, p, new) PROVE Confined(q)
  BY <1>6, ReplacedConfined DEF ClosedBy
<1>. QED  BY <1>1, <1>2, <1>3, <1>4, <1>5, <1>6 DEF QuoteStep

\* A quote that b holds of a, or has as a position with a.
Engaged(qt, b, a) == qt.partyA = a /\ qt.partyB = b /\ qt.status \in HeldStatus \cup OpenStatus

\* Trading touches no quote of a pair that is being liquidated.
Untouched(b, a) ==
  \A x \in QuoteIds :
    Engaged(quotes[x], b, a) \/ Engaged(quotes'[x], b, a) => quotes'[x] = quotes[x]

\* What any step of trading leaves for good.
Settled ==
  \A x \in QuoteIds : quotes'[x] # quotes[x] =>
    /\ quotes[x].status \notin FinalStatus
    /\ quotes'[x].status \notin {"LIQUIDATED", "LIQUIDATED_PENDING"}

LEMMA ConfinedKeeps ==
  ASSUME NEW q \in QuoteIds, Confined(q)
  PROVE  /\ Settled
         /\ \A b \in PartyB, a \in PartyA :
              ~(quotes[q].partyB = b /\ quotes[q].partyA = a) => Untouched(b, a)
<1>1. NoQuote.status = "NONE" /\ NoQuote.partyB = Zero
  BY DEF NoQuote
<1>2. Settled
  BY <1>1 DEF Confined, Settled
<1>3. ASSUME NEW b \in PartyB, NEW a \in PartyA,
             ~(quotes[q].partyB = b /\ quotes[q].partyA = a)
      PROVE  Untouched(b, a)
  <2>1. b # Zero
    BY PartiesAssumption
  <2>2. ~Engaged(quotes[q], b, a) /\ ~Engaged(quotes'[q], b, a)
    BY <1>3, <2>1 DEF Confined, Engaged
  <2>3. ASSUME NEW x \in QuoteIds \ {q}, quotes'[x] # quotes[x]
        PROVE  ~Engaged(quotes[x], b, a) /\ ~Engaged(quotes'[x], b, a)
    BY <1>1, <2>1, <2>3 DEF Confined, Engaged
  <2>. QED  BY <2>2, <2>3 DEF Untouched
<1>. QED  BY <1>2, <1>3

\* A quote that enters by a fresh id, or a pending quote that a partyB takes.
LEMMA EnteringKeeps ==
  ASSUME TypeInv, NEW q \in QuoteIds, NEW new, quotes' = [quotes EXCEPT ![q] = new],
         quotes[q].status \in {"NONE", "PENDING"},
         new.status \in {"PENDING", "LOCKED", "OPENED"}
  PROVE  /\ Settled
         /\ \A b \in PartyB, a \in PartyA : ~Engaged(new, b, a) => Untouched(b, a)
<1>1. quotes'[q] = new /\ \A x \in QuoteIds \ {q} : quotes'[x] = quotes[x]
  BY DEF TypeInv, TypeOK
<1>2. \A b, a : ~Engaged(quotes[q], b, a)
  BY DEF Engaged
<1>3. Settled
  BY <1>1 DEF Settled
<1>. QED  BY <1>1, <1>2, <1>3 DEF Untouched

LEMMA TradeKeeps ==
  ASSUME TypeInv, TypeInv', IdsFresh, Trade
  PROVE  /\ Settled
         /\ \A b \in PartyB, a \in PartyA : partyBLiquidationStatus[b][a] => Untouched(b, a)
<1>. DEFINE Goal == /\ Settled
                    /\ \A b \in PartyB, a \in PartyA :
                         partyBLiquidationStatus[b][a] => Untouched(b, a)
<1>1. ASSUME NEW o \in Offers, SendQuote(o) PROVE Goal
  <2>. DEFINE new == QuoteOf(o)
  <2>1. /\ lastId + 1 \in QuoteIds /\ quotes[lastId + 1].status = "NONE"
        /\ new.status = "PENDING" /\ quotes' = [quotes EXCEPT ![lastId + 1] = new]
    BY <1>1, SendFacts, FreshId
  <2>. HIDE DEF new
  <2>2. \A b, a : ~Engaged(new, b, a)
    BY <2>1 DEF Engaged
  <2>. QED  BY <2>1, <2>2, EnteringKeeps
<1>2. ASSUME NEW o \in Offers, NEW b0 \in PartyB, NEW p \in Prices,
             Solvent(b0, o.partyA), InstantOpen(o, b0, p)
      PROVE  Goal
  <2>. DEFINE new == Templated(o, b0, p)
  <2>1. /\ lastId + 1 \in QuoteIds /\ quotes[lastId + 1].status = "NONE"
        /\ new.status = "OPENED" /\ new.partyA = o.partyA /\ new.partyB = b0
        /\ quotes' = [quotes EXCEPT ![lastId + 1] = new]
    BY <1>2, InstantOpenFacts, FreshId
  <2>. HIDE DEF new
  <2>2. \A b, a : Engaged(new, b, a) => ~partyBLiquidationStatus[b][a]
    BY <1>2, <2>1 DEF Engaged, Solvent
  <2>. QED  BY <2>1, <2>2, EnteringKeeps
<1>3. ASSUME NEW q \in QuoteIds, NEW b0 \in PartyB, Solvent(b0, quotes[q].partyA), LockQuote(b0, q)
      PROVE  Goal
  <2>. DEFINE new == [quotes[q] EXCEPT !.status = "LOCKED", !.partyB = b0, !.modified = now]
  <2>1. quotes[q] \in QuoteType /\ quotes[q].status = "PENDING"
    BY <1>3, QuoteFacts DEF LockQuote, MayLock
  <2>2. quotes' = [quotes EXCEPT ![q] = new]
    BY <1>3, LockedByMoves
  <2>3. new.status = "LOCKED" /\ new.partyA = quotes[q].partyA /\ new.partyB = b0
    BY <2>1 DEF QuoteType
  <2>. HIDE DEF new
  <2>4. \A b, a : Engaged(new, b, a) => ~partyBLiquidationStatus[b][a]
    BY <1>3, <2>3 DEF Engaged, Solvent
  <2>. QED  BY <2>1, <2>2, <2>3, <2>4, EnteringKeeps
<1>4. ASSUME NEW q \in QuoteIds, NotLiquidated(q), PartyAStep(q) \/ PartyBStep(q) \/ ExpireQuote(q)
      PROVE  Goal
  <2>1. Confined(q)
    BY <1>4, HandlerEffect, QuoteStepConfined
  <2>2. \A b \in PartyB, a \in PartyA :
          partyBLiquidationStatus[b][a] => ~(quotes[q].partyB = b /\ quotes[q].partyA = a)
    BY <1>4 DEF NotLiquidated, Solvent
  <2>. QED  BY <2>1, <2>2, ConfinedKeeps
<1>5. CASE SetEmergencyMode \/ SetSymbolValidationState \/ Tick
  BY <1>5 DEF SetEmergencyMode, SetSymbolValidationState, Tick, Settled, Untouched
<1>. QED  BY <1>1, <1>2, <1>3, <1>4, <1>5 DEF Trade

\* So the sets of the pair stay what they are.
LEMMA UntouchedSets ==
  ASSUME NEW b \in PartyB, NEW a \in PartyA, Untouched(b, a)
  PROVE  /\ HeldBy(b, a)' = HeldBy(b, a) /\ PositionsOf(b, a)' = PositionsOf(b, a)
         /\ \A q \in PositionsOf(b, a) : quotes'[q] = quotes[q]
<1>1. HeldBy(b, a)' = HeldBy(b, a)
  BY DEF Untouched, Engaged, HeldBy
<1>2. PositionsOf(b, a)' = PositionsOf(b, a)
  BY DEF Untouched, Engaged, PositionsOf
<1>. QED  BY <1>1, <1>2 DEF Untouched, Engaged, PositionsOf

----------------------------------------------------------------------------
(* What a liquidator's call does to the quotes.                            *)

\* The quotes of S end where they are; the others stay.
Ends(S) ==
  /\ S \in SUBSET QuoteIds
  /\ \A x \in S : /\ GoodQuote(quotes'[x])
                  /\ quotes'[x].status \in {"LIQUIDATED", "LIQUIDATED_PENDING"}
                  /\ quotes'[x].parent = quotes[x].parent
                  /\ quotes'[x].partyB = quotes[x].partyB
  /\ \A x \in QuoteIds \ S : quotes'[x] = quotes[x]

LEMMA EndsSets ==
  ASSUME NEW S, Ends(S)
  PROVE  /\ \A a \in PartyA : PendingOf(a)' = PendingOf(a) \ S /\ OpenOf(a)' = OpenOf(a) \ S
         /\ \A b \in PartyB, a \in PartyA :
              HeldBy(b, a)' = HeldBy(b, a) \ S /\ PositionsOf(b, a)' = PositionsOf(b, a) \ S
         /\ \A b \in PartyB : AllPositionsOf(b)' = AllPositionsOf(b) \ S
<1>1. ASSUME NEW a \in PartyA
      PROVE  PendingOf(a)' = PendingOf(a) \ S /\ OpenOf(a)' = OpenOf(a) \ S
  BY DEF Ends, PendingOf, OpenOf
<1>2. ASSUME NEW b \in PartyB, NEW a \in PartyA
      PROVE  HeldBy(b, a)' = HeldBy(b, a) \ S /\ PositionsOf(b, a)' = PositionsOf(b, a) \ S
  BY DEF Ends, HeldBy, PositionsOf
<1>3. ASSUME NEW b \in PartyB PROVE AllPositionsOf(b)' = AllPositionsOf(b) \ S
  BY DEF Ends, AllPositionsOf
<1>. QED  BY <1>1, <1>2, <1>3

LEMMA EndsFresh ==
  ASSUME TypeInv, IdsFresh, NEW S, Ends(S), \A x \in S : quotes[x].status # "NONE",
         lastId' = lastId
  PROVE  IdsFresh'
<1>1. ASSUME NEW x \in QuoteIds, x > lastId PROVE quotes'[x] = NoQuote
  <2>1. quotes[x] = NoQuote /\ quotes[x].status = "NONE"
    BY <1>1 DEF IdsFresh, NoQuote
  <2>. QED  BY <2>1 DEF Ends
<1>. QED  BY <1>1 DEF IdsFresh

LEMMA SeizedQuotes ==
  ASSUME TypeInv, NEW b, NEW a, NEW allocated, NEW upnl, SeizePair(b, a, allocated, upnl),
         partyAPendingQuotes[a] \in SUBSET QuoteIds
  PROVE  Ends(Doomed(b, a)) /\ \A x \in QuoteIds : quotes'[x] \in QuoteType
<1>1. Doomed(b, a) \in SUBSET QuoteIds
  BY DEF Doomed
<1>2. ASSUME NEW x \in Doomed(b, a)
      PROVE  /\ GoodQuote(quotes'[x])
             /\ quotes'[x].status = "LIQUIDATED_PENDING"
             /\ quotes'[x].parent = quotes[x].parent
             /\ quotes'[x].partyB = quotes[x].partyB
  <2>. DEFINE new == [quotes[x] EXCEPT !.status = "LIQUIDATED_PENDING", !.modified = now]
  <2>1. x \in QuoteIds /\ quotes'[x] = new
    BY <1>1 DEF SeizePair
  <2>2. /\ quotes[x] \in QuoteType /\ GoodQuote(quotes[x]) /\ now \in Nat
        /\ quotes[x].status \in HeldStatus
    BY <2>1, QuoteFacts DEF Doomed
  <2>3. new \in QuoteType
    BY <2>2 DEF QuoteType
  <2>4. /\ new.status = "LIQUIDATED_PENDING" /\ new.partyA = quotes[x].partyA
        /\ new.closedAmount = quotes[x].closedAmount /\ new.quantity = quotes[x].quantity
        /\ new.parent = quotes[x].parent /\ new.partyB = quotes[x].partyB
    BY <2>2 DEF QuoteType
  <2>. HIDE DEF new
  <2>. QED  BY <2>1, <2>2, <2>3, <2>4 DEF GoodQuote
<1>3. \A x \in QuoteIds \ Doomed(b, a) : quotes'[x] = quotes[x]
  BY DEF SeizePair
<1>4. \A x \in QuoteIds : quotes'[x] \in QuoteType
  BY <1>1, <1>2, <1>3, QuoteFacts DEF GoodQuote
<1>. QED  BY <1>1, <1>2, <1>3, <1>4 DEF Ends

LEMMA EndedQuotes ==
  ASSUME TypeInv, NEW b \in PartyB, NEW a \in PartyA, NEW S \in SUBSET QuoteIds,
         LiquidatePositionsPartyB(b, a, S)
  PROVE  /\ Ends(S) /\ \A x \in QuoteIds : quotes'[x] \in QuoteType
         /\ \A x \in S : quotes'[x].status = "LIQUIDATED"
         /\ S \subseteq PositionsOf(b, a)
<1>1. S \subseteq PositionsOf(b, a)
  BY DEF LiquidatePositionsPartyB, InPair, PositionsOf
<1>2. ASSUME NEW x \in S
      PROVE  /\ GoodQuote(quotes'[x])
             /\ quotes'[x].status = "LIQUIDATED"
             /\ quotes'[x].parent = quotes[x].parent
             /\ quotes'[x].partyB = quotes[x].partyB
  <2>. DEFINE new == [quotes[x] EXCEPT !.status = "LIQUIDATED", !.modified = now,
                                       !.closedAmount = quotes[x].quantity]
  <2>1. x \in QuoteIds /\ quotes'[x] = new
    BY DEF LiquidatePositionsPartyB
  <2>2. /\ quotes[x] \in QuoteType /\ GoodQuote(quotes[x]) /\ now \in Nat
        /\ quotes[x].status \in OpenStatus /\ quotes[x].quantity \in Nat
    BY <1>1, <2>1, QuoteFacts DEF PositionsOf, QuoteType
  <2>3. new \in QuoteType
    BY <2>2 DEF QuoteType
  <2>4. /\ new.status = "LIQUIDATED" /\ new.partyA = quotes[x].partyA
        /\ new.closedAmount = quotes[x].quantity /\ new.quantity = quotes[x].quantity
        /\ new.parent = quotes[x].parent /\ new.partyB = quotes[x].partyB
    BY <2>2 DEF QuoteType
  <2>. HIDE DEF new
  <2>. QED  BY <2>1, <2>2, <2>3, <2>4 DEF GoodQuote
<1>3. \A x \in QuoteIds \ S : quotes'[x] = quotes[x]
  BY DEF LiquidatePositionsPartyB
<1>4. \A x \in QuoteIds : quotes'[x] \in QuoteType
  BY <1>2, <1>3, QuoteFacts DEF GoodQuote
<1>. QED  BY <1>1, <1>2, <1>3, <1>4 DEF Ends

\* The sums over a set of quotes are naturals.
LEMMA SetSums ==
  ASSUME TypeInv, NEW S \in SUBSET QuoteIds
  PROVE  Margin(S) \in Nat /\ Fees(S) \in Nat
<1>1. IsFiniteSet(S)
  BY IdsFinite
<1>2. Total(S, [q \in S |-> quotes[q].locked]) \in Nat
  <2>. DEFINE f == [q \in S |-> quotes[q].locked]
  <2>1. \A q \in S : f[q] \in Nat
    BY QuoteFacts
  <2>. HIDE DEF f
  <2>2. Total(S, f) \in Nat
    BY <1>1, <2>1, UnitsFinite
  <2>. QED  BY <2>2 DEF f
<1>3. Total(S, [q \in S |-> OpenTradingFee(quotes[q])]) \in Nat
  <2>. DEFINE f == [q \in S |-> OpenTradingFee(quotes[q])]
  <2>1. \A q \in S : f[q] \in Nat
    BY QuoteFacts
  <2>. HIDE DEF f
  <2>2. Total(S, f) \in Nat
    BY <1>1, <2>1, UnitsFinite
  <2>. QED  BY <2>2 DEF f
<1>. QED  BY <1>2, <1>3 DEF Margin, Fees

----------------------------------------------------------------------------
(* The numbers of a seizure.                                               *)

\* The margin that is left for liquidators, and the first liquidator's part of it.
SeizedLf(b, a, allocated, upnl) ==
  RemainingLf(partyBLockedBalances[b][a], partyBLockedBalances[b][a] - allocated - upnl)
FirstShare(b, a, allocated, upnl) == Portion(SeizedLf(b, a, allocated, upnl), LiquidatorShare, FeeScale)

LiquidationTypeOK ==
  /\ partyBLiquidationStatus \in [PartyB -> [PartyA -> BOOLEAN]]
  /\ partyBPositionLiquidatorsShare \in [PartyB -> [PartyA -> Nat]]
  /\ liquidatorsBalance \in Nat

LEMMA DivWithin ==
  ASSUME NEW x \in Nat, NEW n \in Nat \ {0}
  PROVE  /\ x \div n \in Nat
         /\ (x \div n) * n \in Nat
         /\ (x \div n) * n <= x /\ x <= (x \div n) * n + n
OBVIOUS

\* What the seizure pays at once, and sets aside for each of the positions, is what
\* is left of the margin, but for a unit per position.
LEMMA SeizedNumbers ==
  ASSUME TypeInv, NEW b \in PartyB, NEW a \in PartyA, NEW allocated \in Nat, NEW upnl \in Int,
         SeizePair(b, a, allocated, upnl)
  PROVE  /\ SeizedLf(b, a, allocated, upnl) \in Nat
         /\ SeizedLf(b, a, allocated, upnl) <= allocated
         /\ FirstShare(b, a, allocated, upnl) \in Nat
         /\ liquidatorsBalance' = liquidatorsBalance + FirstShare(b, a, allocated, upnl)
         /\ allocatedBalances' =
              [allocatedBalances EXCEPT ![a] =
                 @ + Fees(Doomed(b, a)) + allocated - SeizedLf(b, a, allocated, upnl)]
         /\ \E each \in Nat :
              /\ partyBPositionLiquidatorsShare' =
                   [partyBPositionLiquidatorsShare EXCEPT ![b][a] = each]
              /\ each * Cardinality(partyBOpenPositions[b][a]) \in Nat
              /\ each * Cardinality(partyBOpenPositions[b][a]) + FirstShare(b, a, allocated, upnl)
                   <= SeizedLf(b, a, allocated, upnl)
              /\ SeizedLf(b, a, allocated, upnl)
                   <= each * Cardinality(partyBOpenPositions[b][a])
                        + FirstShare(b, a, allocated, upnl)
                        + Cardinality(partyBOpenPositions[b][a])
<1>. DEFINE locked == partyBLockedBalances[b][a]
            shortfall == locked - allocated - upnl
            lf == SeizedLf(b, a, allocated, upnl)
            first == FirstShare(b, a, allocated, upnl)
            count == Cardinality(partyBOpenPositions[b][a])
            each == IF shortfall < locked THEN (lf - first) \div count ELSE 0
<1>1. locked \in Nat /\ shortfall \in Int
  BY PoolTypes DEF Buckets, BucketOf
<1>8. /\ shortfall > 0
      /\ shortfall < locked => count > 0
      /\ lf <= allocated
  BY DEF SeizePair, SeizedLf
<1>2. /\ liquidatorsBalance' = liquidatorsBalance + first
      /\ partyBPositionLiquidatorsShare' =
           [partyBPositionLiquidatorsShare EXCEPT ![b][a] = each]
      /\ allocatedBalances' =
           [allocatedBalances EXCEPT ![a] = @ + Fees(Doomed(b, a)) + allocated - lf]
  BY DEF SeizePair, SeizedLf, FirstShare, Portion
<1>3. lf \in Nat /\ (shortfall < locked \/ lf = 0)
  BY <1>1, <1>8 DEF SeizedLf, RemainingLf
<1>4. LiquidatorShare \in Nat /\ LiquidatorShare <= FeeScale /\ FeeScale \in Nat \ {0}
  BY LiquidationAssumption, NumbersAssumption
<1>5. first \in Nat /\ first <= lf
  BY <1>3, <1>4, PortionWithin DEF FirstShare
<1>6. count \in Nat
  <2>1. partyBOpenPositions[b][a] \in SUBSET QuoteIds
    BY DEF TypeInv, TypeOK
  <2>. QED  BY <2>1, IdsFinite, FS_CardinalityType
<1>. HIDE DEF locked, shortfall, lf, first, count
<1>7. each \in Nat /\ each * count \in Nat /\ each * count + first <= lf
      /\ lf <= each * count + first + count
  <2>1. CASE shortfall < locked
    <3>. DEFINE x == lf - first
    <3>1. x \in Nat
      BY <1>3, <1>5
    <3>5. count \in Nat \ {0}
      BY <1>6, <1>8, <2>1
    <3>2. each = x \div count
      BY <2>1
    <3>. HIDE DEF x, each
    <3>3. /\ each \in Nat /\ each * count \in Nat
          /\ each * count <= x /\ x <= each * count + count
      BY <3>1, <3>2, <3>5, DivWithin
    <3>. DEFINE y == each * count
    <3>4. y \in Nat /\ y <= x /\ x <= y + count
      BY <3>3
    <3>. HIDE DEF y
    <3>6. y + first <= lf /\ lf <= y + first + count
      BY <1>3, <1>5, <1>6, <3>4 DEF x
    <3>. QED  BY <3>3, <3>6 DEF y
  <2>2. CASE ~(shortfall < locked)
    <3>1. lf = 0 /\ first = 0 /\ each = 0 /\ each * count = 0
      BY <1>3, <1>5, <1>6, <2>2
    <3>. QED  BY <1>6, <3>1
  <2>. QED  BY <2>1, <2>2
<1>. HIDE DEF each
<1>. QED  BY <1>2, <1>3, <1>5, <1>7, <1>8 DEF lf, first, count

----------------------------------------------------------------------------
(* The invariant: types, fresh ids, lists and connections, and that a pair *)
(* being liquidated holds no quote that could still be filled.             *)

Frozen ==
  \A b \in PartyB, a \in PartyA : partyBLiquidationStatus[b][a] => HeldBy(b, a) = {}

LiquidationInv == ListsInv /\ Connected /\ LiquidationTypeOK /\ Frozen

\* Under it the loop over a's pending list finds exactly what b holds.
LEMMA DoomedAreHeld ==
  ASSUME ListsInv, NEW b \in PartyB, NEW a \in PartyA
  PROVE  Doomed(b, a) = HeldBy(b, a) /\ HeldBy(b, a) \in SUBSET PendingOf(a)
BY DEF ListsInv, ListsMatch, Doomed, PendingOf, HeldBy

LEMMA EmptyPairAt ==
  ASSUME NEW f \in Buckets, NEW b0 \in PartyB, NEW a0 \in PartyA, NEW b \in PartyB,
         NEW k \in BucketOf
  PROVE  EmptyPair(f, b0, a0)[b][k] =
           IF b = b0 /\ k = a0 THEN 0
           ELSE IF b = b0 /\ k = Zero THEN f[b][Zero] - f[b0][a0] ELSE f[b][k]
BY PartiesAssumption DEF EmptyPair, Buckets, BucketOf

LEMMA EmptyPairType ==
  ASSUME NEW f \in Buckets, NEW b \in PartyB, NEW a \in PartyA, Covers(f, b, a, f[b][a])
  PROVE  EmptyPair(f, b, a) \in Buckets
<1>1. /\ f[b] \in [BucketOf -> Nat] /\ a \in BucketOf /\ Zero \in BucketOf
      /\ f[b][a] \in Nat /\ f[b][Zero] \in Nat /\ f[b][Zero] >= f[b][a]
  BY DEF Buckets, BucketOf, Covers
<1>2. f[b][Zero] - f[b][a] \in Nat
  BY <1>1
<1>3. EmptyPair(f, b, a) =
        [f EXCEPT ![b] = [f[b] EXCEPT ![Zero] = f[b][Zero] - f[b][a], ![a] = 0]]
  BY <1>1 DEF EmptyPair, Buckets
<1>4. [f[b] EXCEPT ![Zero] = f[b][Zero] - f[b][a], ![a] = 0] \in [BucketOf -> Nat]
  BY <1>1, <1>2
<1>. QED  BY <1>3, <1>4 DEF Buckets

LEMMA RemovalType ==
  ASSUME TypeInv, NEW a, NEW b, RemoveConnectionIfNoPositions(a, b)
  PROVE  connectedPartyBs' \in [PartyA -> SUBSET PartyB]
BY DEF RemoveConnectionIfNoPositions, TypeInv, TypeOK

LEMMA SeizedType ==
  ASSUME ListsInv, NEW b \in PartyB, NEW a \in PartyA, NEW upnl \in LiquidationUpnls,
         LiquidatePartyB(b, a, upnl)
  PROVE  TypeInv' /\ IdsFresh'
<1>. DEFINE allocated == partyBAllocatedBalances[b][a]
            lf == SeizedLf(b, a, allocated, upnl)
            doomed == Doomed(b, a)
<1>1. /\ TypeInv /\ TypeOK /\ IdsFresh /\ SeizePair(b, a, allocated, upnl)
      /\ allocated \in Nat /\ upnl \in Int
  BY LiquidationAssumption DEF ListsInv, LiquidatePartyB, TypeInv, TypeOK, BucketOf
<1>2. Ends(doomed) /\ \A x \in QuoteIds : quotes'[x] \in QuoteType
  BY <1>1, SeizedQuotes DEF TypeOK
<1>3. Margin(doomed) \in Nat /\ Fees(doomed) \in Nat /\ doomed \in SUBSET QuoteIds
  BY <1>1, <1>2, SetSums DEF Ends
<1>4. lf \in Nat /\ lf <= allocated
  BY <1>1, SeizedNumbers
<1>5. allocatedBalances' = [allocatedBalances EXCEPT ![a] = @ + Fees(doomed) + allocated - lf]
  BY <1>1, SeizedNumbers
<1>6. quotes' \in [QuoteIds -> QuoteType] /\ \A x \in QuoteIds : GoodQuote(quotes'[x])
  <2>1. quotes' = [x \in QuoteIds |-> quotes'[x]]
    BY <1>1 DEF SeizePair
  <2>2. \A x \in QuoteIds : GoodQuote(quotes'[x])
    BY <1>1, <1>2, QuoteFacts DEF Ends
  <2>. QED  BY <1>2, <2>1, <2>2
<1>7. /\ partyAPendingQuotes' \in [PartyA -> SUBSET QuoteIds]
      /\ partyBPendingQuotes' \in [PartyB -> [PartyA -> SUBSET QuoteIds]]
      /\ partyAOpenPositions' \in [PartyA -> SUBSET QuoteIds]
      /\ partyBOpenPositions' \in [PartyB -> [PartyA -> SUBSET QuoteIds]]
      /\ partyBPositionsCount' \in [PartyB -> Nat]
  BY <1>1 DEF SeizePair, TypeOK
<1>8. connectedPartyBs' \in [PartyA -> SUBSET PartyB]
  BY <1>1, RemovalType DEF SeizePair
<1>9. pendingLockedBalances' \in [PartyA -> Nat] /\ lockedBalances' \in [PartyA -> Nat]
  <2>1. /\ pendingLockedBalances' = [pendingLockedBalances EXCEPT ![a] = @ - Margin(doomed)]
        /\ pendingLockedBalances[a] >= Margin(doomed) /\ lockedBalances' = lockedBalances
    BY <1>1 DEF SeizePair
  <2>2. pendingLockedBalances[a] - Margin(doomed) \in Nat
    BY <1>1, <1>3, <2>1 DEF TypeOK
  <2>. QED  BY <1>1, <2>1, <2>2 DEF TypeOK
<1>10. partyBPendingLockedBalances' \in Buckets /\ partyBLockedBalances' \in Buckets
  <2>1. /\ partyBLockedBalances \in Buckets /\ partyBPendingLockedBalances \in Buckets
        /\ Covers(partyBLockedBalances, b, a, partyBLockedBalances[b][a])
        /\ Covers(partyBPendingLockedBalances, b, a, partyBPendingLockedBalances[b][a])
        /\ partyBLockedBalances' = EmptyPair(partyBLockedBalances, b, a)
        /\ partyBPendingLockedBalances' = EmptyPair(partyBPendingLockedBalances, b, a)
    BY <1>1, PoolTypes DEF SeizePair
  <2>. QED  BY <2>1, EmptyPairType
<1>11. /\ partyAReservedOpenFees' \in [PartyA -> Nat] /\ allocatedBalances' \in [PartyA -> Nat]
       /\ partyBAllocatedBalances' \in [PartyB -> [BucketOf -> Nat]] /\ feeCollectorBalance' \in Nat
  <2>1. /\ partyAReservedOpenFees' =
             [partyAReservedOpenFees EXCEPT ![a] = Decrease(@, Fees(doomed))]
        /\ partyBAllocatedBalances' = [partyBAllocatedBalances EXCEPT ![b][a] = 0]
        /\ feeCollectorBalance' = feeCollectorBalance
    BY <1>1 DEF SeizePair
  <2>2. partyAReservedOpenFees[a] \in Nat /\ allocatedBalances[a] \in Nat
    BY <1>1 DEF TypeOK
  <2>. HIDE DEF allocated, lf, doomed
  <2>6. Fees(doomed) \in Int
    BY <1>3
  <2>3. Decrease(partyAReservedOpenFees[a], Fees(doomed)) \in Nat
    BY <2>2, <2>6, DecreaseNat
  <2>4. allocatedBalances[a] + Fees(doomed) + allocated - lf \in Nat
    BY <1>1, <1>3, <1>4, <2>2
  <2>5. partyAReservedOpenFees' \in [PartyA -> Nat] /\ allocatedBalances' \in [PartyA -> Nat]
    BY <1>1, <1>5, <2>1, <2>3, <2>4 DEF TypeOK
  <2>. QED  BY <1>1, <2>1, <2>5 DEF TypeOK
<1>12. lastId' \in 0..MaxQuotes /\ emergencyMode' \in BOOLEAN /\ symbolValid' \in BOOLEAN
       /\ now' \in 0..MaxTime
  BY <1>1 DEF SeizePair, world, TypeOK
<1>13. TypeInv'
  BY <1>6, <1>7, <1>8, <1>9, <1>10, <1>11, <1>12 DEF TypeInv, TypeOK, Buckets, GoodQuote
<1>14. IdsFresh'
  <2>1. \A x \in doomed : quotes[x].status # "NONE"
    BY DEF Doomed
  <2>2. lastId' = lastId
    BY <1>1 DEF SeizePair
  <2>. HIDE DEF doomed
  <2>. QED  BY <1>1, <1>2, <2>1, <2>2, EndsFresh
<1>. QED  BY <1>13, <1>14

LEMMA SeizedLists ==
  ASSUME ListsInv, Connected, NEW b \in PartyB, NEW a \in PartyA, NEW upnl \in LiquidationUpnls,
         LiquidatePartyB(b, a, upnl)
  PROVE  ListsMatch' /\ CountsMatch' /\ Connected' /\ HeldBy(b, a)' = {}
<1>. DEFINE doomed == Doomed(b, a)
<1>1. TypeInv /\ SeizePair(b, a, partyBAllocatedBalances[b][a], upnl)
  BY DEF ListsInv, LiquidatePartyB
<1>2. Ends(doomed)
  BY <1>1, SeizedQuotes, ListTypes
<1>3. doomed = HeldBy(b, a)
  BY DoomedAreHeld
<1>4. /\ partyAPendingQuotes' = [partyAPendingQuotes EXCEPT ![a] = @ \ doomed]
      /\ partyBPendingQuotes' = [partyBPendingQuotes EXCEPT ![b][a] = {}]
      /\ UNCHANGED <<partyAOpenPositions, partyBOpenPositions, partyBPositionsCount>>
      /\ RemoveConnectionIfNoPositions(a, b)
  BY <1>1 DEF SeizePair
<1>. HIDE DEF doomed
<1>5. /\ \A x \in PartyA : PendingOf(x)' = PendingOf(x) \ doomed /\ OpenOf(x)' = OpenOf(x) \ doomed
      /\ \A y \in PartyB, x \in PartyA :
           HeldBy(y, x)' = HeldBy(y, x) \ doomed /\ PositionsOf(y, x)' = PositionsOf(y, x) \ doomed
      /\ \A y \in PartyB : AllPositionsOf(y)' = AllPositionsOf(y) \ doomed
  BY <1>2, EndsSets
<1>6. ASSUME NEW q \in doomed
      PROVE  q \in QuoteIds /\ quotes[q].status \in HeldStatus /\ quotes[q].partyA = a
             /\ quotes[q].partyB = b
  BY <1>3 DEF HeldBy
<1>7. ASSUME NEW x \in PartyA
      PROVE  partyAPendingQuotes'[x] = PendingOf(x)' /\ partyAOpenPositions'[x] = OpenOf(x)'
  <2>1. OpenOf(x) \ doomed = OpenOf(x) /\ (x # a => PendingOf(x) \ doomed = PendingOf(x))
    BY <1>6 DEF OpenOf, PendingOf
  <2>. QED  BY <1>1, <1>4, <1>5, <2>1, ListTypes DEF ListsInv, ListsMatch
<1>8. ASSUME NEW y \in PartyB, NEW x \in PartyA
      PROVE  partyBPendingQuotes'[y][x] = HeldBy(y, x)' /\ partyBOpenPositions'[y][x] = PositionsOf(y, x)'
  <2>1. /\ PositionsOf(y, x) \ doomed = PositionsOf(y, x)
        /\ ~(y = b /\ x = a) => HeldBy(y, x) \ doomed = HeldBy(y, x)
    BY <1>6 DEF PositionsOf, HeldBy
  <2>2. HeldBy(b, a) \ doomed = {}
    BY <1>3
  <2>3. partyBOpenPositions'[y][x] = PositionsOf(y, x)'
    BY <1>4, <1>5, <2>1 DEF ListsInv, ListsMatch
  <2>4. CASE y = b /\ x = a
    <3>1. partyBPendingQuotes'[y][x] = {}
      BY <1>1, <1>4, <2>4, ListTypes
    <3>. QED  BY <1>5, <2>2, <2>3, <2>4, <3>1
  <2>5. CASE ~(y = b /\ x = a)
    <3>1. partyBPendingQuotes'[y][x] = partyBPendingQuotes[y][x]
      BY <1>1, <1>4, <2>5, ListTypes
    <3>. QED  BY <1>5, <2>1, <2>3, <2>5, <3>1 DEF ListsInv, ListsMatch
  <2>. QED  BY <2>4, <2>5
<1>9. ASSUME NEW y \in PartyB PROVE partyBPositionsCount'[y] = Cardinality(AllPositionsOf(y)')
  <2>1. AllPositionsOf(y) \ doomed = AllPositionsOf(y)
    BY <1>6 DEF AllPositionsOf
  <2>. QED  BY <1>4, <1>5, <2>1 DEF ListsInv, CountsMatch
<1>10. Connected'
  BY <1>1, <1>4, DisconnectedKeeps
<1>11. HeldBy(b, a)' = {}
  BY <1>3, <1>5
<1>. QED  BY <1>7, <1>8, <1>9, <1>10, <1>11 DEF ListsMatch, CountsMatch

LEMMA EndedType ==
  ASSUME ListsInv, NEW b \in PartyB, NEW a \in PartyA, NEW S \in SUBSET QuoteIds,
         LiquidatePositionsPartyB(b, a, S)
  PROVE  TypeInv' /\ IdsFresh'
<1>1. TypeInv /\ TypeOK /\ IdsFresh
  BY DEF ListsInv, TypeInv
<1>2. /\ Ends(S) /\ \A x \in QuoteIds : quotes'[x] \in QuoteType
      /\ S \subseteq PositionsOf(b, a)
  BY <1>1, EndedQuotes
<1>3. Margin(S) \in Nat /\ Cardinality(S) \in Nat
  BY <1>1, SetSums, IdsFinite, FS_CardinalityType
<1>4. quotes' \in [QuoteIds -> QuoteType] /\ \A x \in QuoteIds : GoodQuote(quotes'[x])
  <2>1. quotes' = [x \in QuoteIds |-> quotes'[x]]
    BY DEF LiquidatePositionsPartyB
  <2>2. \A x \in QuoteIds : GoodQuote(quotes'[x])
    BY <1>1, <1>2, QuoteFacts DEF Ends
  <2>. QED  BY <1>2, <2>1, <2>2
<1>5. /\ partyAPendingQuotes' \in [PartyA -> SUBSET QuoteIds]
      /\ partyBPendingQuotes' \in [PartyB -> [PartyA -> SUBSET QuoteIds]]
      /\ partyAOpenPositions' \in [PartyA -> SUBSET QuoteIds]
      /\ partyBOpenPositions' \in [PartyB -> [PartyA -> SUBSET QuoteIds]]
  BY <1>1 DEF LiquidatePositionsPartyB, TypeOK
<1>6. partyBPositionsCount' \in [PartyB -> Nat] /\ lockedBalances' \in [PartyA -> Nat]
  <2>1. /\ partyBPositionsCount' = [partyBPositionsCount EXCEPT ![b] = @ - Cardinality(S)]
        /\ partyBPositionsCount[b] >= Cardinality(S)
        /\ lockedBalances' = [lockedBalances EXCEPT ![a] = @ - Margin(S)]
        /\ lockedBalances[a] >= Margin(S)
    BY DEF LiquidatePositionsPartyB
  <2>2. /\ partyBPositionsCount[b] - Cardinality(S) \in Nat
        /\ lockedBalances[a] - Margin(S) \in Nat
    BY <1>1, <1>3, <2>1 DEF TypeOK
  <2>. QED  BY <1>1, <2>1, <2>2 DEF TypeOK
<1>7. connectedPartyBs' \in [PartyA -> SUBSET PartyB]
  <2>1. CASE S = {}
    BY <1>1, <2>1 DEF LiquidatePositionsPartyB, TypeOK
  <2>2. CASE S # {}
    BY <1>1, <2>2, RemovalType DEF LiquidatePositionsPartyB
  <2>. QED  BY <2>1, <2>2
<1>8. /\ pendingLockedBalances' \in [PartyA -> Nat]
      /\ partyBPendingLockedBalances' \in [PartyB -> [BucketOf -> Nat]]
      /\ partyBLockedBalances' \in [PartyB -> [BucketOf -> Nat]]
      /\ partyAReservedOpenFees' \in [PartyA -> Nat]
      /\ allocatedBalances' \in [PartyA -> Nat]
      /\ partyBAllocatedBalances' \in [PartyB -> [BucketOf -> Nat]]
      /\ feeCollectorBalance' \in Nat
  BY <1>1 DEF LiquidatePositionsPartyB, funds, TypeOK
<1>9. lastId' \in 0..MaxQuotes /\ emergencyMode' \in BOOLEAN /\ symbolValid' \in BOOLEAN
      /\ now' \in 0..MaxTime
  BY <1>1 DEF LiquidatePositionsPartyB, world, TypeOK
<1>10. TypeInv'
  BY <1>4, <1>5, <1>6, <1>7, <1>8, <1>9 DEF TypeInv, TypeOK, GoodQuote
<1>11. IdsFresh'
  <2>1. \A x \in S : quotes[x].status # "NONE"
    BY <1>2 DEF PositionsOf
  <2>2. lastId' = lastId
    BY DEF LiquidatePositionsPartyB
  <2>. QED  BY <1>1, <1>2, <2>1, <2>2, EndsFresh
<1>. QED  BY <1>10, <1>11

LEMMA EndedLists ==
  ASSUME ListsInv, Connected, NEW b \in PartyB, NEW a \in PartyA, NEW S \in SUBSET QuoteIds,
         LiquidatePositionsPartyB(b, a, S)
  PROVE  /\ ListsMatch' /\ CountsMatch' /\ Connected'
         /\ \A y \in PartyB, x \in PartyA : HeldBy(y, x)' = HeldBy(y, x)
<1>1. TypeInv /\ Ends(S) /\ S \subseteq PositionsOf(b, a)
  BY EndedQuotes DEF ListsInv
<1>2. /\ UNCHANGED <<partyAPendingQuotes, partyBPendingQuotes>>
      /\ partyAOpenPositions' = [partyAOpenPositions EXCEPT ![a] = @ \ S]
      /\ partyBOpenPositions' = [partyBOpenPositions EXCEPT ![b][a] = @ \ S]
      /\ partyBPositionsCount' = [partyBPositionsCount EXCEPT ![b] = @ - Cardinality(S)]
  BY DEF LiquidatePositionsPartyB
<1>3. /\ \A x \in PartyA : PendingOf(x)' = PendingOf(x) \ S /\ OpenOf(x)' = OpenOf(x) \ S
      /\ \A y \in PartyB, x \in PartyA :
           HeldBy(y, x)' = HeldBy(y, x) \ S /\ PositionsOf(y, x)' = PositionsOf(y, x) \ S
      /\ \A y \in PartyB : AllPositionsOf(y)' = AllPositionsOf(y) \ S
  BY <1>1, EndsSets
<1>4. ASSUME NEW q \in S
      PROVE  q \in QuoteIds /\ quotes[q].status \in OpenStatus /\ quotes[q].partyA = a
             /\ quotes[q].partyB = b
  BY <1>1 DEF PositionsOf
<1>5. \A y \in PartyB, x \in PartyA : HeldBy(y, x)' = HeldBy(y, x)
  <2>1. \A y \in PartyB, x \in PartyA : HeldBy(y, x) \ S = HeldBy(y, x)
    BY <1>4 DEF HeldBy
  <2>. QED  BY <1>3, <2>1
<1>6. ASSUME NEW x \in PartyA
      PROVE  partyAPendingQuotes'[x] = PendingOf(x)' /\ partyAOpenPositions'[x] = OpenOf(x)'
  <2>1. PendingOf(x) \ S = PendingOf(x) /\ (x # a => OpenOf(x) \ S = OpenOf(x))
    BY <1>4 DEF OpenOf, PendingOf
  <2>. QED  BY <1>1, <1>2, <1>3, <2>1, ListTypes DEF ListsInv, ListsMatch
<1>7. ASSUME NEW y \in PartyB, NEW x \in PartyA
      PROVE  partyBPendingQuotes'[y][x] = HeldBy(y, x)' /\ partyBOpenPositions'[y][x] = PositionsOf(y, x)'
  <2>1. partyBPendingQuotes'[y][x] = HeldBy(y, x)'
    BY <1>2, <1>5 DEF ListsInv, ListsMatch
  <2>2. ~(y = b /\ x = a) => PositionsOf(y, x) \ S = PositionsOf(y, x)
    BY <1>4 DEF PositionsOf
  <2>3. partyBOpenPositions'[y][x] =
          IF y = b /\ x = a THEN partyBOpenPositions[y][x] \ S ELSE partyBOpenPositions[y][x]
    BY <1>1, <1>2, ListTypes
  <2>4. partyBOpenPositions[y][x] = PositionsOf(y, x)
    BY DEF ListsInv, ListsMatch
  <2>. QED  BY <1>3, <2>1, <2>2, <2>3, <2>4
<1>8. ASSUME NEW y \in PartyB PROVE partyBPositionsCount'[y] = Cardinality(AllPositionsOf(y)')
  <2>1. /\ partyBPositionsCount[y] = Cardinality(AllPositionsOf(y))
        /\ AllPositionsOf(y)' = AllPositionsOf(y) \ S
    BY <1>3 DEF ListsInv, CountsMatch
  <2>2. CASE y = b
    <3>1. S \subseteq AllPositionsOf(y) /\ AllPositionsOf(y) \in SUBSET QuoteIds
      BY <1>4, <2>2 DEF AllPositionsOf
    <3>2. AllPositionsOf(y) \cap S = S
      BY <3>1
    <3>3. Cardinality(AllPositionsOf(y) \ S)
            = Cardinality(AllPositionsOf(y)) - Cardinality(AllPositionsOf(y) \cap S)
      BY <3>1, IdsFinite, FS_Difference
    <3>4. partyBPositionsCount'[y] = partyBPositionsCount[y] - Cardinality(S)
      BY <1>1, <1>2, <2>2, ListTypes
    <3>. QED  BY <2>1, <3>2, <3>3, <3>4
  <2>3. CASE y # b
    <3>1. AllPositionsOf(y) \ S = AllPositionsOf(y)
      BY <1>4, <2>3 DEF AllPositionsOf
    <3>2. partyBPositionsCount'[y] = partyBPositionsCount[y]
      BY <1>1, <1>2, <2>3, ListTypes
    <3>. QED  BY <2>1, <3>1, <3>2
  <2>. QED  BY <2>2, <2>3
<1>9. Connected'
  <2>1. CASE S = {}
    <3>1. partyBOpenPositions' = partyBOpenPositions
      BY <1>1, <1>2, <2>1, ListTypes
    <3>2. UNCHANGED connectedPartyBs
      BY <2>1 DEF LiquidatePositionsPartyB
    <3>. QED  BY <1>2, <3>1, <3>2 DEF Connected
  <2>2. CASE S # {}
    <3>1. RemoveConnectionIfNoPositions(a, b)
      BY <2>2 DEF LiquidatePositionsPartyB
    <3>. QED  BY <1>1, <1>2, <3>1, DisconnectedKeeps
  <2>. QED  BY <2>1, <2>2
<1>. QED  BY <1>5, <1>6, <1>7, <1>8, <1>9 DEF ListsMatch, CountsMatch

LEMMA SeizedInv ==
  ASSUME LiquidationInv, NEW b \in PartyB, NEW a \in PartyA, NEW upnl \in LiquidationUpnls,
         LiquidatePartyB(b, a, upnl)
  PROVE  LiquidationInv'
<1>1. /\ ListsInv /\ Connected /\ LiquidationTypeOK /\ TypeInv
      /\ SeizePair(b, a, partyBAllocatedBalances[b][a], upnl)
  BY DEF LiquidationInv, LiquidatePartyB, ListsInv
<1>2. /\ TypeInv' /\ IdsFresh' /\ ListsMatch' /\ CountsMatch' /\ Connected'
      /\ HeldBy(b, a)' = {}
  BY <1>1, SeizedType, SeizedLists
<1>3. partyBLiquidationStatus' = [partyBLiquidationStatus EXCEPT ![b][a] = TRUE]
  BY <1>1 DEF SeizePair
<1>4. LiquidationTypeOK'
  <2>1. partyBAllocatedBalances[b][a] \in Nat /\ upnl \in Int
    BY <1>1, LiquidationAssumption DEF TypeInv, TypeOK, BucketOf
  <2>2. \E each \in Nat :
          partyBPositionLiquidatorsShare' =
            [partyBPositionLiquidatorsShare EXCEPT ![b][a] = each]
    BY <1>1, <2>1, SeizedNumbers
  <2>3. liquidatorsBalance' \in Nat
    <3>1. \E n \in Nat : liquidatorsBalance' = liquidatorsBalance + n
      BY <1>1, <2>1, SeizedNumbers
    <3>. QED  BY <1>1, <3>1 DEF LiquidationTypeOK
  <2>. QED  BY <1>1, <1>3, <2>2, <2>3 DEF LiquidationTypeOK
<1>5. ASSUME NEW y \in PartyB, NEW x \in PartyA, partyBLiquidationStatus'[y][x]
      PROVE  HeldBy(y, x)' = {}
  <2>1. CASE y = b /\ x = a
    BY <1>2, <2>1
  <2>2. CASE ~(y = b /\ x = a)
    <3>1. partyBLiquidationStatus[y][x]
      BY <1>1, <1>3, <1>5, <2>2 DEF LiquidationTypeOK
    <3>2. HeldBy(y, x) = {}
      BY <3>1 DEF LiquidationInv, Frozen
    <3>3. HeldBy(y, x)' = HeldBy(y, x) \ Doomed(b, a)
      BY <1>1, SeizedQuotes, ListTypes, EndsSets
    <3>. QED  BY <3>2, <3>3
  <2>. QED  BY <2>1, <2>2
<1>. QED  BY <1>2, <1>4, <1>5 DEF LiquidationInv, ListsInv, Frozen

LEMMA EndedInv ==
  ASSUME LiquidationInv, NEW b \in PartyB, NEW a \in PartyA, NEW S \in SUBSET QuoteIds,
         LiquidatePositionsPartyB(b, a, S)
  PROVE  LiquidationInv'
<1>1. ListsInv /\ Connected /\ LiquidationTypeOK
  BY DEF LiquidationInv
<1>2. /\ TypeInv' /\ IdsFresh' /\ ListsMatch' /\ CountsMatch' /\ Connected'
      /\ \A y \in PartyB, x \in PartyA : HeldBy(y, x)' = HeldBy(y, x)
  BY <1>1, EndedType, EndedLists
<1>3. /\ partyBLiquidationStatus[b][a]
      /\ partyBLiquidationStatus' = [partyBLiquidationStatus EXCEPT ![b][a] = ~Ended(b, a, S)]
      /\ UNCHANGED partyBPositionLiquidatorsShare
      /\ liquidatorsBalance' =
           liquidatorsBalance + partyBPositionLiquidatorsShare[b][a] * Cardinality(S)
  BY DEF LiquidatePositionsPartyB, PaidFor
<1>4. LiquidationTypeOK'
  <2>1. \E c \in BOOLEAN :
          partyBLiquidationStatus' = [partyBLiquidationStatus EXCEPT ![b][a] = c]
    <3>1. (~Ended(b, a, S)) = TRUE \/ (~Ended(b, a, S)) = FALSE
      OBVIOUS
    <3>. QED  BY <1>3, <3>1
  <2>2. partyBLiquidationStatus' \in [PartyB -> [PartyA -> BOOLEAN]]
    BY <1>1, <2>1 DEF LiquidationTypeOK
  <2>3. partyBPositionLiquidatorsShare[b][a] * Cardinality(S) \in Nat
    <3>1. partyBPositionLiquidatorsShare[b][a] \in Nat /\ Cardinality(S) \in Nat
      BY <1>1, IdsFinite, FS_CardinalityType DEF LiquidationTypeOK
    <3>. QED  BY <3>1, MulNat
  <2>4. liquidatorsBalance' \in Nat
    BY <1>1, <1>3, <2>3 DEF LiquidationTypeOK
  <2>. QED  BY <1>1, <1>3, <2>2, <2>4 DEF LiquidationTypeOK
<1>5. ASSUME NEW y \in PartyB, NEW x \in PartyA, partyBLiquidationStatus'[y][x]
      PROVE  partyBLiquidationStatus[y][x]
  BY <1>1, <1>3, <1>5 DEF LiquidationTypeOK
<1>6. Frozen'
  BY <1>2, <1>5 DEF LiquidationInv, Frozen
<1>. QED  BY <1>2, <1>4, <1>6 DEF LiquidationInv, ListsInv

LEMMA TradeInv ==
  ASSUME LiquidationInv, Trade
  PROVE  LiquidationInv'
<1>1. /\ ListsInv /\ Connected /\ LiquidationTypeOK /\ Frozen /\ TypeInv /\ IdsFresh
      /\ [Next]_vars /\ UNCHANGED liquidation
  BY TradeIsNext DEF LiquidationInv, ListsInv
<1>2. TypeInv'
  BY <1>1, NextType
<1>3. ListsInv' /\ Connected'
  BY <1>1, <1>2, NextLists, NextConnected
<1>4. LiquidationTypeOK'
  BY <1>1 DEF liquidation, LiquidationTypeOK
<1>5. ASSUME NEW y \in PartyB, NEW x \in PartyA, partyBLiquidationStatus'[y][x]
      PROVE  HeldBy(y, x)' = {}
  <2>1. partyBLiquidationStatus[y][x]
    BY <1>1, <1>5 DEF liquidation
  <2>2. Untouched(y, x)
    BY <1>1, <1>2, <2>1, TradeKeeps
  <2>. QED  BY <1>1, <2>1, <2>2, UntouchedSets DEF Frozen
<1>. QED  BY <1>3, <1>4, <1>5 DEF LiquidationInv, Frozen

\* The invariant behind the theorems on a liquidation: the lists, connections and
\* counters of both parties stay right through it, and a frozen pair holds nothing.
THEOREM LiquidationInvariant == LiquidationSpec => []LiquidationInv
<1>1. LiquidationInit => LiquidationInv
  <2>. SUFFICES ASSUME LiquidationInit PROVE LiquidationInv
    OBVIOUS
  <2>1. ListsInv /\ Connected
    BY InitType, InitFresh, InitLists, InitConnected DEF LiquidationInit, ListsInv
  <2>2. LiquidationTypeOK /\ Frozen
    BY DEF LiquidationInit, LiquidationTypeOK, Frozen
  <2>. QED  BY <2>1, <2>2 DEF LiquidationInv
<1>2. LiquidationInv /\ [Trade \/ LiquidationStep]_liquidationVars => LiquidationInv'
  <2>. SUFFICES ASSUME LiquidationInv, [Trade \/ LiquidationStep]_liquidationVars
                PROVE  LiquidationInv'
    OBVIOUS
  <2>1. CASE Trade
    BY <2>1, TradeInv
  <2>2. CASE LiquidationStep
    BY <2>2, SeizedInv, EndedInv DEF LiquidationStep
  <2>3. CASE UNCHANGED liquidationVars
    <3>1. UNCHANGED <<vars, liquidation>>
      BY <2>3 DEF liquidationVars
    <3>2. ListsInv' /\ Connected'
      <4>1. TypeInv'
        BY <3>1, StutterType DEF LiquidationInv, ListsInv
      <4>. QED  BY <3>1, <4>1, NextLists, NextConnected DEF LiquidationInv, ListsInv
    <3>3. LiquidationTypeOK'
      BY <3>1 DEF liquidation, LiquidationTypeOK, LiquidationInv
    <3>4. Frozen'
      BY <3>1 DEF vars, liquidation, Frozen, LiquidationInv, HeldBy
    <3>. QED  BY <3>2, <3>3, <3>4 DEF LiquidationInv
  <2>. QED  BY <2>1, <2>2, <2>3
<1>. QED  BY <1>1, <1>2, PTL DEF LiquidationSpec

\* So whatever liquidations run beside the trading, the lists hold exactly the quotes
\* whose status says so, ...
THEOREM ListsThroughLiquidation == LiquidationSpec => []ListsMatchStatus
<1>1. LiquidationInv => ListsMatchStatus
  BY ListsSplit DEF LiquidationInv, ListsInv
<1>. QED  BY <1>1, LiquidationInvariant, PTL

\* ... and partyA is connected to the partyBs it has business with, and to no other.
THEOREM ConnectionsThroughLiquidation == LiquidationSpec => []ConnectionsMatch
<1>1. LiquidationInv => ConnectionsMatch
  BY ConnectedSays DEF LiquidationInv, ListsInv
<1>. QED  BY <1>1, LiquidationInvariant, PTL

----------------------------------------------------------------------------
(* Frozen between the two transactions, clean at the end.                  *)

FrozenStep ==
  \A b \in PartyB, a \in PartyA :
    partyBLiquidationStatus[b][a] =>
      /\ HeldBy(b, a)' \cup PositionsOf(b, a)' \subseteq PositionsOf(b, a)
      /\ \A q \in PositionsOf(b, a) :
           quotes'[q] # quotes[q] => quotes'[q].status = "LIQUIDATED"

LEMMA TradeFrozen == ASSUME LiquidationInv, Trade PROVE FrozenStep
<1>1. /\ TypeInv /\ IdsFresh /\ [Next]_vars
  BY TradeIsNext DEF LiquidationInv, ListsInv
<1>2. TypeInv'
  BY <1>1, NextType
<1>3. ASSUME NEW b \in PartyB, NEW a \in PartyA, partyBLiquidationStatus[b][a]
      PROVE  /\ HeldBy(b, a)' = {} /\ PositionsOf(b, a)' = PositionsOf(b, a)
             /\ \A q \in PositionsOf(b, a) : quotes'[q] = quotes[q]
  <2>1. Untouched(b, a)
    BY <1>1, <1>2, <1>3, TradeKeeps
  <2>2. HeldBy(b, a) = {}
    BY <1>3 DEF LiquidationInv, Frozen
  <2>. QED  BY <2>1, <2>2, UntouchedSets
<1>. QED  BY <1>3 DEF FrozenStep

LEMMA SeizedFrozen ==
  ASSUME LiquidationInv, NEW b0 \in PartyB, NEW a0 \in PartyA, NEW upnl \in LiquidationUpnls,
         LiquidatePartyB(b0, a0, upnl)
  PROVE  FrozenStep
<1>. DEFINE doomed == Doomed(b0, a0)
<1>1. /\ ListsInv /\ TypeInv /\ ~partyBLiquidationStatus[b0][a0]
      /\ SeizePair(b0, a0, partyBAllocatedBalances[b0][a0], upnl)
  BY DEF LiquidationInv, ListsInv, LiquidatePartyB
<1>2. Ends(doomed)
  BY <1>1, SeizedQuotes, ListTypes
<1>3. ASSUME NEW b \in PartyB, NEW a \in PartyA, partyBLiquidationStatus[b][a]
      PROVE  /\ HeldBy(b, a)' = {} /\ PositionsOf(b, a)' \subseteq PositionsOf(b, a)
             /\ \A q \in PositionsOf(b, a) : quotes'[q] = quotes[q]
  <2>1. HeldBy(b, a) = {}
    BY <1>3 DEF LiquidationInv, Frozen
  <2>2. \A q \in PositionsOf(b, a) : q \in QuoteIds \ doomed
    BY DEF PositionsOf, Doomed
  <2>. HIDE DEF doomed
  <2>3. HeldBy(b, a)' = HeldBy(b, a) \ doomed /\ PositionsOf(b, a)' = PositionsOf(b, a) \ doomed
    BY <1>2, EndsSets
  <2>. QED  BY <1>2, <2>1, <2>2, <2>3 DEF Ends
<1>. QED  BY <1>3 DEF FrozenStep

LEMMA EndedFrozen ==
  ASSUME LiquidationInv, NEW b0 \in PartyB, NEW a0 \in PartyA, NEW S \in SUBSET QuoteIds,
         LiquidatePositionsPartyB(b0, a0, S)
  PROVE  FrozenStep
<1>1. ListsInv /\ TypeInv /\ Connected
  BY DEF LiquidationInv, ListsInv
<1>2. /\ Ends(S) /\ \A x \in S : quotes'[x].status = "LIQUIDATED"
      /\ \A y \in PartyB, x \in PartyA : HeldBy(y, x)' = HeldBy(y, x)
  BY <1>1, EndedQuotes, EndedLists
<1>3. ASSUME NEW b \in PartyB, NEW a \in PartyA, partyBLiquidationStatus[b][a]
      PROVE  /\ HeldBy(b, a)' = {} /\ PositionsOf(b, a)' \subseteq PositionsOf(b, a)
             /\ \A q \in PositionsOf(b, a) :
                  quotes'[q] # quotes[q] => quotes'[q].status = "LIQUIDATED"
  <2>1. HeldBy(b, a)' = {}
    BY <1>2, <1>3 DEF LiquidationInv, Frozen
  <2>2. PositionsOf(b, a)' = PositionsOf(b, a) \ S /\ PositionsOf(b, a) \subseteq QuoteIds
    BY <1>2, EndsSets DEF PositionsOf
  <2>. QED  BY <1>2, <2>1, <2>2 DEF Ends
<1>. QED  BY <1>3 DEF FrozenStep

\* Between the two transactions only a liquidator touches a quote of the pair, and
\* no quote joins it.
THEOREM FrozenBetween == LiquidationSpec => PairFrozen
<1>1. LiquidationInv /\ [Trade \/ LiquidationStep]_liquidationVars
        => [FrozenStep]_liquidationVars
  BY TradeFrozen, SeizedFrozen, EndedFrozen DEF LiquidationStep
<1>. QED  BY <1>1, LiquidationInvariant, PTL DEF LiquidationSpec, PairFrozen, FrozenStep

CleanStep ==
  \A b \in PartyB, a \in PartyA :
    partyBLiquidationStatus[b][a] /\ ~partyBLiquidationStatus'[b][a] =>
      /\ HeldBy(b, a)' = {} /\ PositionsOf(b, a)' = {}
      /\ b \notin connectedPartyBs'[a]

LEMMA EndedClean ==
  ASSUME LiquidationInv, NEW b0 \in PartyB, NEW a0 \in PartyA, NEW S \in SUBSET QuoteIds,
         LiquidatePositionsPartyB(b0, a0, S)
  PROVE  CleanStep
<1>1. ListsInv /\ TypeInv /\ Connected /\ LiquidationTypeOK
  BY DEF LiquidationInv, ListsInv
<1>2. /\ ListsMatch' /\ Connected'
      /\ \A y \in PartyB, x \in PartyA : HeldBy(y, x)' = HeldBy(y, x)
  BY <1>1, EndedLists
<1>3. ASSUME NEW b \in PartyB, NEW a \in PartyA, partyBLiquidationStatus[b][a],
             ~partyBLiquidationStatus'[b][a]
      PROVE  /\ HeldBy(b, a)' = {} /\ PositionsOf(b, a)' = {}
             /\ b \notin connectedPartyBs'[a]
  <2>1. b = b0 /\ a = a0 /\ Ended(b, a, S)
    BY <1>1, <1>3 DEF LiquidatePositionsPartyB, LiquidationTypeOK
  <2>2. partyBOpenPositions'[b][a] = {}
    BY <1>1, <2>1, ListTypes DEF LiquidatePositionsPartyB, Ended
  <2>3. HeldBy(b, a)' = {}
    BY <1>2, <1>3 DEF LiquidationInv, Frozen
  <2>4. /\ PositionsOf(b, a)' = partyBOpenPositions'[b][a]
        /\ HeldBy(b, a)' = partyBPendingQuotes'[b][a]
    BY <1>2 DEF ListsMatch
  <2>5. b \in connectedPartyBs'[a] =>
          partyBOpenPositions'[b][a] # {} \/ partyBPendingQuotes'[b][a] # {}
    BY <1>2 DEF Connected
  <2>. QED  BY <2>2, <2>3, <2>4, <2>5
<1>. QED  BY <1>3 DEF CleanStep

\* The pair trades again only when nothing of it is left, and the two are no longer
\* connected.
THEOREM LiquidationEndsClean == LiquidationSpec => EndsClean
<1>1. LiquidationInv /\ [Trade \/ LiquidationStep]_liquidationVars
        => [CleanStep]_liquidationVars
  <2>. SUFFICES ASSUME LiquidationInv, Trade \/ LiquidationStep PROVE CleanStep
    OBVIOUS
  <2>1. CASE Trade
    BY <2>1 DEF Trade, liquidation, CleanStep
  <2>2. ASSUME NEW b \in PartyB, NEW a \in PartyA, NEW upnl \in LiquidationUpnls,
               LiquidatePartyB(b, a, upnl)
        PROVE  CleanStep
    <3>1. partyBLiquidationStatus' = [partyBLiquidationStatus EXCEPT ![b][a] = TRUE]
      BY <2>2 DEF LiquidatePartyB, SeizePair
    <3>2. partyBLiquidationStatus \in [PartyB -> [PartyA -> BOOLEAN]]
      BY DEF LiquidationInv, LiquidationTypeOK
    <3>3. \A y \in PartyB, x \in PartyA :
            partyBLiquidationStatus[y][x] => partyBLiquidationStatus'[y][x]
      BY <3>1, <3>2
    <3>. QED  BY <3>3 DEF CleanStep
  <2>. QED  BY <2>1, <2>2, EndedClean DEF LiquidationStep
<1>. QED  BY <1>1, LiquidationInvariant, PTL DEF LiquidationSpec, EndsClean, CleanStep

----------------------------------------------------------------------------
(* The abstract life of a quote.                                           *)

\* A liquidator's call is one abstract step: all of S, held by or live with b, end.
LEMMA EndsMaps ==
  ASSUME TypeInv, NEW b \in PartyB, NEW S, Ends(S),
         \A x \in S : quotes[x].partyB = b /\ quotes[x].status \in HeldStatus \cup OpenStatus
  PROVE  LMaps
<1>1. /\ S \in SUBSET QuoteIds
      /\ \A x \in S : /\ quotes'[x].status \in {"LIQUIDATED", "LIQUIDATED_PENDING"}
                      /\ quotes'[x].partyB = quotes[x].partyB
      /\ \A x \in QuoteIds \ S : quotes'[x] = quotes[x]
  BY DEF Ends
<1>2. \A x \in S : Phases[x] \in {"held", "live"} /\ Holders[x] = b
  BY <1>1, MapValues, PhaseFacts
<1>3. Phases' = [x \in QuoteIds |-> IF x \in S THEN "over" ELSE Phases[x]]
  <2>1. \A x \in QuoteIds : PhaseOf(quotes'[x]) = IF x \in S THEN "over" ELSE Phases[x]
    BY <1>1, MapValues, PhaseFacts
  <2>. QED  BY <2>1, PhasesPrime
<1>4. UNCHANGED Holders
  <2>1. \A x \in QuoteIds : quotes'[x].partyB = quotes[x].partyB
    BY <1>1
  <2>. QED  BY <2>1 DEF Holders
<1>5. Life!Liquidate(S, b)
  BY <1>2, <1>3, <1>4 DEF Life!Liquidate, Phases, Holders
<1>6. S \in SUBSET {x \in QuoteIds : Holders[x] = b}
  BY <1>1, <1>2
<1>. QED  BY <1>5, <1>6 DEF LMaps, Life!LNext, Holders

\* Trading beside liquidations still implements the abstract life of a quote: those
\* nobody held are never liquidated, and what was filled ends once.
THEOREM LifecycleThroughLiquidation == LiquidationSpec => LifecycleKept
<1>1. LiquidationInit => Life!LInit
  BY InitMaps DEF LiquidationInit
<1>2. LiquidationInv /\ LiquidationInv' /\ [Trade \/ LiquidationStep]_liquidationVars
        => [Life!LNext]_<<[q \in QuoteIds |-> PhaseOf(quotes[q])],
                          [q \in QuoteIds |-> quotes[q].partyB]>>
  <2>. SUFFICES ASSUME LiquidationInv, LiquidationInv',
                       [Trade \/ LiquidationStep]_liquidationVars
                PROVE  LMaps
    BY DEF LMaps, Phases, Holders
  <2>1. /\ ListsInv /\ TypeInv /\ TypeInv' /\ IdsFresh
    BY DEF LiquidationInv, ListsInv
  <2>2. CASE Trade \/ UNCHANGED liquidationVars
    <3>1. [Next]_vars
      BY <2>2, TradeIsNext DEF liquidationVars
    <3>. QED  BY <2>1, <3>1, NextMaps
  <2>3. ASSUME NEW b \in PartyB, NEW a \in PartyA, NEW upnl \in LiquidationUpnls,
               LiquidatePartyB(b, a, upnl)
        PROVE  LMaps
    <3>1. Ends(Doomed(b, a))
      BY <2>1, <2>3, SeizedQuotes, ListTypes DEF LiquidatePartyB
    <3>2. \A x \in Doomed(b, a) : quotes[x].partyB = b /\ quotes[x].status \in HeldStatus
      BY DEF Doomed
    <3>. QED  BY <2>1, <3>1, <3>2, EndsMaps
  <2>4. ASSUME NEW b \in PartyB, NEW a \in PartyA, NEW S \in SUBSET QuoteIds,
               LiquidatePositionsPartyB(b, a, S)
        PROVE  LMaps
    <3>1. Ends(S) /\ \A x \in S : quotes[x].partyB = b /\ quotes[x].status \in OpenStatus
      BY <2>1, <2>4, EndedQuotes DEF PositionsOf
    <3>. QED  BY <2>1, <3>1, EndsMaps
  <2>. QED  BY <2>2, <2>3, <2>4 DEF LiquidationStep
<1>. QED
  BY <1>1, <1>2, LiquidationInvariant, PTL DEF LiquidationSpec, LifecycleKept, Life!LSpec

----------------------------------------------------------------------------
(* The pools.  A frozen pair's positions are in no pool of partyB, so that *)
(* a pool and what the frozen pairs would put into it add up to the sum.   *)

FrozenShare(qt, b, k) == IF partyBLiquidationStatus[b][qt.partyA] THEN PositionShare(qt, b, k) ELSE 0
FrozenSum(b, k) == Total(QuoteIds, [q \in QuoteIds |-> FrozenShare(quotes[q], b, k)])

LivePoolsExact ==
  /\ \A a \in PartyA :
       /\ pendingLockedBalances[a] = PendingSum(a)
       /\ lockedBalances[a] = LockedSum(a)
  /\ \A b \in PartyB, k \in BucketOf :
       /\ partyBPendingLockedBalances[b][k] = HeldSum(b, k)
       /\ partyBLockedBalances[b][k] + FrozenSum(b, k) = PositionSum(b, k)

LiveInv == LiquidationInv /\ LivePoolsExact /\ FeesExact

LEMMA FrozenSharesNat ==
  ASSUME TypeInv, NEW q \in QuoteIds, NEW b, NEW k
  PROVE  FrozenShare(quotes[q], b, k) \in Nat
BY AllSharesNat DEF FrozenShare

\* The sums are naturals.
LEMMA SumsNat ==
  ASSUME TypeInv
  PROVE  /\ \A a : PendingSum(a) \in Nat /\ LockedSum(a) \in Nat /\ FeeSum(a) \in Nat
         /\ \A b, k : HeldSum(b, k) \in Nat /\ PositionSum(b, k) \in Nat /\ FrozenSum(b, k) \in Nat
<1>1. ASSUME NEW f, \A q \in QuoteIds : f[q] \in Nat PROVE Total(QuoteIds, f) \in Nat
  BY <1>1, IdsAreFinite, UnitsFinite
<1>2. ASSUME NEW a PROVE PendingSum(a) \in Nat /\ LockedSum(a) \in Nat /\ FeeSum(a) \in Nat
  <2>1. \A q \in QuoteIds : /\ PendingShare(quotes[q], a) \in Nat
                            /\ LockedShare(quotes[q], a) \in Nat
                            /\ FeeShare(quotes[q], a) \in Nat
    BY AllSharesNat
  <2>. QED  BY <1>1, <2>1 DEF PendingSum, LockedSum, FeeSum
<1>3. ASSUME NEW b, NEW k
      PROVE  HeldSum(b, k) \in Nat /\ PositionSum(b, k) \in Nat /\ FrozenSum(b, k) \in Nat
  <2>1. \A q \in QuoteIds : /\ HeldShare(quotes[q], b, k) \in Nat
                            /\ PositionShare(quotes[q], b, k) \in Nat
                            /\ FrozenShare(quotes[q], b, k) \in Nat
    BY AllSharesNat, FrozenSharesNat
  <2>. QED  BY <1>1, <2>1 DEF HeldSum, PositionSum, FrozenSum
<1>. QED  BY <1>2, <1>3

\* Summands outside S stay, those of S are dropped.
LEMMA TotalDrop ==
  ASSUME NEW f, NEW g, NEW S \in SUBSET QuoteIds, \A x \in QuoteIds : f[x] \in Nat,
         \A x \in QuoteIds : g[x] = IF x \in S THEN 0 ELSE f[x]
  PROVE  /\ Total(QuoteIds, f) = Total(QuoteIds, g) + Total(S, f)
         /\ Total(QuoteIds, g) \in Nat /\ Total(S, f) \in Nat
<1>. DEFINE R == QuoteIds \ S
<1>1. Total(QuoteIds, f) = Total(S, f) + Total(R, f)
  BY IdsAreFinite, TotalSplit
<1>2. Total(QuoteIds, g) = Total(R, f)
  <2>1. /\ \A x \in QuoteIds : g[x] \in Nat
        /\ R \in SUBSET QuoteIds
        /\ \A x \in QuoteIds \ R : g[x] = 0
        /\ \A x \in R : f[x] = g[x]
    OBVIOUS
  <2>. HIDE DEF R
  <2>. QED  BY <2>1, IdsAreFinite, TotalWithin
<1>3. IsFiniteSet(S) /\ IsFiniteSet(R)
  BY IdsAreFinite, FS_Subset
<1>4. Total(S, f) \in Nat /\ Total(R, f) \in Nat
  BY <1>3, UnitsFinite
<1>. QED  BY <1>1, <1>2, <1>4

\* Two sums whose summands are never both there add up.
LEMMA TotalApart ==
  ASSUME NEW f, NEW g, NEW h, \A x \in QuoteIds : f[x] \in Nat /\ g[x] \in Nat,
         \A x \in QuoteIds : (f[x] = 0 \/ g[x] = 0) /\ h[x] = f[x] + g[x]
  PROVE  Total(QuoteIds, h) = Total(QuoteIds, f) + Total(QuoteIds, g)
<1>. DEFINE S == {x \in QuoteIds : g[x] # 0}
<1>1. /\ S \in SUBSET QuoteIds /\ \A x \in QuoteIds : h[x] \in Nat
      /\ \A x \in QuoteIds : f[x] = IF x \in S THEN 0 ELSE h[x]
      /\ \A x \in QuoteIds \ S : g[x] = 0
      /\ \A x \in S : h[x] = g[x]
  OBVIOUS
<1>. HIDE DEF S
<1>2. /\ Total(QuoteIds, h) = Total(QuoteIds, f) + Total(S, h)
      /\ Total(QuoteIds, f) \in Nat /\ Total(S, h) \in Nat
  BY <1>1, TotalDrop
<1>3. Total(QuoteIds, g) = Total(S, h)
  BY <1>1, IdsAreFinite, TotalWithin
<1>. QED  BY <1>2, <1>3

\* The properties of pools, as sums.
LEMMA LiveSays == ASSUME LiveInv PROVE PoolsMatchLivePairs
<1>1. TypeInv /\ LivePoolsExact
  BY DEF LiveInv, LiquidationInv, ListsInv
<1>2. ASSUME NEW b \in PartyB, NEW a \in PartyA PROVE partyBLockedBalances[b][a] = LiveMargin(b, a)
  <2>1. /\ partyBLockedBalances[b][a] + FrozenSum(b, a) = PositionSum(b, a)
        /\ partyBLockedBalances[b][a] \in Nat /\ PositionSum(b, a) \in Nat
    BY <1>1, SumsNat, PoolTypes DEF LivePoolsExact, BucketOf
  <2>2. PositionSum(b, a) = Margin(PositionsOf(b, a))
    BY <1>1, SumsSay
  <2>. DEFINE f == [q \in QuoteIds |-> FrozenShare(quotes[q], b, a)]
              g == [q \in QuoteIds |-> PositionShare(quotes[q], b, a)]
  <2>3. FrozenSum(b, a) = Total(QuoteIds, f) /\ PositionSum(b, a) = Total(QuoteIds, g)
    BY DEF FrozenSum, PositionSum
  <2>4. \A q \in QuoteIds : f[q] = IF partyBLiquidationStatus[b][a] THEN g[q] ELSE 0
    BY PartiesAssumption DEF FrozenShare, PositionShare
  <2>. HIDE DEF f, g
  <2>5. CASE partyBLiquidationStatus[b][a]
    <3>1. Total(QuoteIds, f) = Total(QuoteIds, g)
      BY <2>4, <2>5, TotalSame
    <3>. QED  BY <2>1, <2>3, <2>5, <3>1 DEF LiveMargin
  <2>6. CASE ~partyBLiquidationStatus[b][a]
    <3>1. Total(QuoteIds, f) = 0
      BY <2>4, <2>6, IdsAreFinite, TotalNone
    <3>. QED  BY <2>1, <2>2, <2>3, <2>6, <3>1 DEF LiveMargin
  <2>. QED  BY <2>5, <2>6
<1>3. ASSUME NEW b \in PartyB
      PROVE  partyBLockedBalances[b][Zero] =
               Margin(UNION {PositionsOf(b, a) : a \in {x \in PartyA : ~partyBLiquidationStatus[b][x]}})
  <2>. DEFINE S == UNION {PositionsOf(b, a) : a \in {x \in PartyA : ~partyBLiquidationStatus[b][x]}}
              f == [q \in QuoteIds |-> IF q \in S THEN quotes[q].locked ELSE 0]
              g == [q \in QuoteIds |-> FrozenShare(quotes[q], b, Zero)]
              h == [q \in QuoteIds |-> PositionShare(quotes[q], b, Zero)]
  <2>1. /\ partyBLockedBalances[b][Zero] + FrozenSum(b, Zero) = PositionSum(b, Zero)
        /\ partyBLockedBalances[b][Zero] \in Nat /\ FrozenSum(b, Zero) \in Nat
    BY <1>1, SumsNat, PoolTypes DEF LivePoolsExact, BucketOf
  <2>2. FrozenSum(b, Zero) = Total(QuoteIds, g) /\ PositionSum(b, Zero) = Total(QuoteIds, h)
    BY DEF FrozenSum, PositionSum
  <2>3. \A q \in QuoteIds : q \in S <=>
          /\ quotes[q].partyB = b /\ quotes[q].status \in OpenStatus
          /\ ~partyBLiquidationStatus[b][quotes[q].partyA]
    BY <1>1, QuoteFacts DEF PositionsOf
  <2>4. S \in SUBSET QuoteIds
    BY DEF PositionsOf
  <2>. HIDE DEF S
  <2>5. \A q \in QuoteIds : f[q] \in Nat /\ g[q] \in Nat
    BY <1>1, QuoteFacts, FrozenSharesNat
  <2>6. \A q \in QuoteIds : (f[q] = 0 \/ g[q] = 0) /\ h[q] = f[q] + g[q]
    BY <1>1, <2>3, QuoteFacts DEF FrozenShare, PositionShare
  <2>9. \A q \in QuoteIds : f[q] = IF q \in S THEN quotes[q].locked ELSE 0
    OBVIOUS
  <2>. HIDE DEF f, g, h
  <2>7. Total(QuoteIds, h) = Total(QuoteIds, f) + Total(QuoteIds, g)
    BY <2>5, <2>6, TotalApart
  <2>8. Total(QuoteIds, f) = Margin(S) /\ Total(QuoteIds, f) \in Nat
    BY <1>1, <2>4, <2>5, <2>9, MarginSum, IdsAreFinite, UnitsFinite
  <2>10. partyBLockedBalances[b][Zero] = Margin(S)
    BY <2>1, <2>2, <2>7, <2>8
  <2>. QED  BY <2>10 DEF S
<1>4. /\ \A a \in PartyA :
           /\ pendingLockedBalances[a] = Margin(PendingOf(a))
           /\ lockedBalances[a] = Margin(OpenOf(a))
      /\ \A b \in PartyB :
           /\ \A a \in PartyA : partyBPendingLockedBalances[b][a] = Margin(HeldBy(b, a))
           /\ partyBPendingLockedBalances[b][Zero] = Margin(UNION {HeldBy(b, a) : a \in PartyA})
  BY <1>1, SumsSay DEF LivePoolsExact, BucketOf
<1>. QED  BY <1>2, <1>3, <1>4 DEF PoolsMatchLivePairs

\* Trading leaves what the frozen pairs would put into a pool; the rest moves as
\* it does without liquidations.
LEMMA FrozenIsEngaged ==
  ASSUME NEW qt, GoodQuote(qt), NEW b \in PartyB, NEW k, FrozenShare(qt, b, k) # 0
  PROVE  /\ qt.partyA \in PartyA /\ Engaged(qt, b, qt.partyA)
         /\ partyBLiquidationStatus[b][qt.partyA]
BY DEF FrozenShare, PositionShare, Engaged, GoodQuote

LEMMA TradeFrozenSums ==
  ASSUME TypeInv, TypeInv', IdsFresh, Trade, NEW b \in PartyB, NEW k
  PROVE  FrozenSum(b, k)' = FrozenSum(b, k)
<1>. DEFINE f == [x \in QuoteIds |-> FrozenShare(quotes[x], b, k)]
            g == [x \in QuoteIds |-> FrozenShare(quotes'[x], b, k)]
<1>1. UNCHANGED partyBLiquidationStatus
  BY DEF Trade, liquidation
<1>2. \A x \in QuoteIds : GoodQuote(quotes[x]) /\ GoodQuote(quotes'[x])
  BY DEF TypeInv
<1>3. \A a \in PartyA : partyBLiquidationStatus[b][a] => Untouched(b, a)
  BY TradeKeeps
<1>4. \A x \in QuoteIds : f[x] = g[x]
  <2>1. ASSUME NEW x \in QuoteIds, quotes'[x] # quotes[x]
        PROVE  FrozenShare(quotes[x], b, k) = 0 /\ FrozenShare(quotes'[x], b, k) = 0
    BY <1>2, <1>3, <2>1, FrozenIsEngaged DEF Untouched
  <2>. QED  BY <2>1
<1>5. FrozenSum(b, k)' = Total(QuoteIds, g)
  BY <1>1 DEF FrozenSum, FrozenShare, PositionShare
<1>6. FrozenSum(b, k) = Total(QuoteIds, f)
  BY DEF FrozenSum
<1>. HIDE DEF f, g
<1>. QED  BY <1>4, <1>5, <1>6, TotalSame

LEMMA TradeLive ==
  ASSUME LiveInv, TypeInv', Trade
  PROVE  LivePoolsExact' /\ FeesExact'
<1>1. /\ TypeInv /\ IdsFresh /\ LivePoolsExact /\ FeesExact /\ [Next]_vars
  BY TradeIsNext DEF LiveInv, LiquidationInv, ListsInv
<1>2. \A b \in PartyB, k \in BucketOf :
        /\ FrozenSum(b, k)' = FrozenSum(b, k)
        /\ FrozenSum(b, k) \in Nat /\ PositionSum(b, k) \in Nat
        /\ partyBLockedBalances[b][k] \in Nat
  BY <1>1, TradeFrozenSums, SumsNat, PoolTypes
<1>3. CASE UNCHANGED <<quotes, pools, partyAReservedOpenFees>>
  BY <1>1, <1>2, <1>3, SumsStill DEF LivePoolsExact, FeesExact, pools
<1>4. ASSUME NEW q \in QuoteIds, NEW r \in QuoteIds, NEW new, NEW rest, Moving(q, r, new, rest)
      PROVE  LivePoolsExact' /\ FeesExact'
  <2>1. SumsMove(quotes[q], new, rest) /\ PoolsMove(quotes[q], new, rest)
    BY <1>1, <1>4, MovesSums DEF Moving
  <2>2. \A a \in PartyA :
          /\ pendingLockedBalances'[a] = PendingSum(a)' /\ lockedBalances'[a] = LockedSum(a)'
          /\ partyAReservedOpenFees'[a] = FeeSum(a)'
    BY <1>1, <2>1
       DEF LivePoolsExact, FeesExact, SumsMove, PoolsMove, PendingMoves, LockedMoves, FeesMove
  <2>3. \A b \in PartyB, k \in BucketOf : partyBPendingLockedBalances'[b][k] = HeldSum(b, k)'
    BY <1>1, <2>1 DEF LivePoolsExact, SumsMove, PoolsMove, HeldMoves
  <2>4. ASSUME NEW b \in PartyB, NEW k \in BucketOf
        PROVE  partyBLockedBalances'[b][k] + FrozenSum(b, k)' = PositionSum(b, k)'
    <3>. DEFINE old == PositionShare(quotes[q], b, k)
                more == PositionShare(new, b, k)
                left == PositionShare(rest, b, k)
    <3>1. /\ partyBLockedBalances'[b][k] = partyBLockedBalances[b][k] - old + more + left
          /\ PositionSum(b, k)' = PositionSum(b, k) - old + more + left
      BY <2>1 DEF SumsMove, PoolsMove, PositionsMove
    <3>2. partyBLockedBalances[b][k] + FrozenSum(b, k) = PositionSum(b, k)
      BY <1>1 DEF LivePoolsExact
    <3>3. old \in Nat /\ more \in Nat /\ left \in Nat
      <4>1. /\ \A x \in QuoteIds : quotes'[x] \in QuoteType /\ quotes'[x].closedAmount <= quotes'[x].quantity
            /\ quotes[q] \in QuoteType /\ quotes[q].closedAmount <= quotes[q].quantity
        BY <1>1, QuoteFacts DEF TypeInv, GoodQuote
      <4>2. /\ new = quotes'[q]
            /\ rest = quotes'[r] \/ rest.status = "NONE"
        BY <1>4 DEF Moving
      <4>. QED  BY <4>1, <4>2, SharesNat, NothingShared
    <3>. HIDE DEF old, more, left
    <3>. QED  BY <1>2, <3>1, <3>2, <3>3
  <2>. QED  BY <2>2, <2>3, <2>4 DEF LivePoolsExact, FeesExact
<1>. QED  BY <1>1, <1>3, <1>4, NextMoves DEF Moves

\* A liquidator's call takes the quotes of S out of every sum.
LEMMA EndsShares ==
  ASSUME NEW S, Ends(S), NEW x \in QuoteIds
  PROVE  /\ \A a : /\ PendingShare(quotes'[x], a) = IF x \in S THEN 0 ELSE PendingShare(quotes[x], a)
                   /\ LockedShare(quotes'[x], a) = IF x \in S THEN 0 ELSE LockedShare(quotes[x], a)
                   /\ FeeShare(quotes'[x], a) = IF x \in S THEN 0 ELSE FeeShare(quotes[x], a)
         /\ \A b, k : /\ HeldShare(quotes'[x], b, k) = IF x \in S THEN 0 ELSE HeldShare(quotes[x], b, k)
                      /\ PositionShare(quotes'[x], b, k) =
                           IF x \in S THEN 0 ELSE PositionShare(quotes[x], b, k)
<1>1. CASE x \in S
  <2>1. quotes'[x].status \in FinalStatus \cup {"NONE"}
    BY <1>1 DEF Ends
  <2>. QED  BY <1>1, <2>1, GoneShares
<1>2. CASE x \notin S
  BY <1>2 DEF Ends
<1>. QED  BY <1>1, <1>2

\* Quotes of one partyA held by one partyB, taken out of the sums they are in.
LEMMA SeizedSums ==
  ASSUME TypeInv, NEW b \in PartyB, NEW a \in PartyA, Ends(HeldBy(b, a))
  PROVE  /\ \A x \in PartyA :
              /\ PendingSum(x)' = PendingSum(x) - IF x = a THEN Margin(HeldBy(b, a)) ELSE 0
              /\ FeeSum(x)' = FeeSum(x) - IF x = a THEN Fees(HeldBy(b, a)) ELSE 0
              /\ LockedSum(x)' = LockedSum(x)
              /\ x = a => Fees(HeldBy(b, a)) <= FeeSum(x)
         /\ \A y \in PartyB, k \in BucketOf :
              /\ HeldSum(y, k)' = HeldSum(y, k)
                                    - IF y = b /\ k \in {a, Zero} THEN HeldSum(b, a) ELSE 0
              /\ PositionSum(y, k)' = PositionSum(y, k)
<1>. DEFINE S == HeldBy(b, a)
<1>1. /\ S \in SUBSET QuoteIds
      /\ \A q \in S : quotes[q].partyA = a /\ quotes[q].partyB = b /\ quotes[q].status \in HeldStatus
  BY DEF HeldBy
<1>2. \A q \in QuoteIds \ S :
        ~(quotes[q].partyA = a /\ quotes[q].partyB = b /\ quotes[q].status \in HeldStatus)
  BY DEF HeldBy
<1>10. Ends(S)
  OBVIOUS
<1>11. Margin(S) = Total(S, [q \in S |-> quotes[q].locked])
       /\ Fees(S) = Total(S, [q \in S |-> OpenTradingFee(quotes[q])])
  BY DEF Margin, Fees
<1>12. HeldSum(b, a) = Margin(S)
  BY SumsSay
<1>. HIDE DEF S
<1>3. ASSUME NEW x \in PartyA
      PROVE  PendingSum(x)' = PendingSum(x) - IF x = a THEN Margin(S) ELSE 0
  <2>. DEFINE f == [q \in QuoteIds |-> PendingShare(quotes[q], x)]
              g == [q \in QuoteIds |-> PendingShare(quotes'[q], x)]
              m == [q \in S |-> quotes[q].locked]
  <2>1. PendingSum(x) = Total(QuoteIds, f) /\ PendingSum(x)' = Total(QuoteIds, g)
    BY SumsPrime DEF PendingSum
  <2>2. /\ \A q \in QuoteIds : f[q] \in Nat
        /\ \A q \in QuoteIds : g[q] = IF q \in S THEN 0 ELSE f[q]
    BY <1>10, AllSharesNat, EndsShares
  <2>3. /\ x = a => \A q \in S : f[q] = m[q]
        /\ x # a => \A q \in S : f[q] = 0
    BY <1>1 DEF PendingShare
  <2>4. Margin(S) = Total(S, m)
    BY <1>11
  <2>. HIDE DEF f, g, m
  <2>5. /\ Total(QuoteIds, f) = Total(QuoteIds, g) + Total(S, f)
        /\ Total(QuoteIds, g) \in Nat /\ Total(S, f) \in Nat
    BY <1>1, <2>2, TotalDrop
  <2>6. x = a => Total(S, f) = Margin(S)
    BY <2>3, <2>4, TotalSame
  <2>7. x # a => Total(S, f) = 0
    BY <2>3, TotalNone
  <2>. QED  BY <2>1, <2>5, <2>6, <2>7
<1>4. ASSUME NEW x \in PartyA
      PROVE  /\ FeeSum(x)' = FeeSum(x) - IF x = a THEN Fees(S) ELSE 0
             /\ x = a => Fees(S) <= FeeSum(x)
  <2>. DEFINE f == [q \in QuoteIds |-> FeeShare(quotes[q], x)]
              g == [q \in QuoteIds |-> FeeShare(quotes'[q], x)]
              m == [q \in S |-> OpenTradingFee(quotes[q])]
  <2>1. FeeSum(x) = Total(QuoteIds, f) /\ FeeSum(x)' = Total(QuoteIds, g)
    BY SumsPrime DEF FeeSum
  <2>2. /\ \A q \in QuoteIds : f[q] \in Nat
        /\ \A q \in QuoteIds : g[q] = IF q \in S THEN 0 ELSE f[q]
    BY <1>10, AllSharesNat, EndsShares
  <2>3. /\ x = a => \A q \in S : f[q] = m[q]
        /\ x # a => \A q \in S : f[q] = 0
    BY <1>1 DEF FeeShare
  <2>4. Fees(S) = Total(S, m)
    BY <1>11
  <2>. HIDE DEF f, g, m
  <2>5. /\ Total(QuoteIds, f) = Total(QuoteIds, g) + Total(S, f)
        /\ Total(QuoteIds, g) \in Nat /\ Total(S, f) \in Nat
    BY <1>1, <2>2, TotalDrop
  <2>6. x = a => Total(S, f) = Fees(S)
    BY <2>3, <2>4, TotalSame
  <2>7. x # a => Total(S, f) = 0
    BY <2>3, TotalNone
  <2>. QED  BY <2>1, <2>5, <2>6, <2>7
<1>5. ASSUME NEW x \in PartyA PROVE LockedSum(x)' = LockedSum(x)
  <2>. DEFINE f == [q \in QuoteIds |-> LockedShare(quotes[q], x)]
              g == [q \in QuoteIds |-> LockedShare(quotes'[q], x)]
  <2>1. LockedSum(x) = Total(QuoteIds, f) /\ LockedSum(x)' = Total(QuoteIds, g)
    BY SumsPrime DEF LockedSum
  <2>2. \A q \in QuoteIds : f[q] = g[q]
    BY <1>1, <1>10, EndsShares DEF LockedShare
  <2>. HIDE DEF f, g
  <2>. QED  BY <2>1, <2>2, TotalSame
<1>6. ASSUME NEW y \in PartyB, NEW k \in BucketOf
      PROVE  HeldSum(y, k)' = HeldSum(y, k) - IF y = b /\ k \in {a, Zero} THEN HeldSum(b, a) ELSE 0
  <2>. DEFINE f == [q \in QuoteIds |-> HeldShare(quotes[q], y, k)]
              g == [q \in QuoteIds |-> HeldShare(quotes'[q], y, k)]
              m == [q \in S |-> quotes[q].locked]
  <2>1. HeldSum(y, k) = Total(QuoteIds, f) /\ HeldSum(y, k)' = Total(QuoteIds, g)
    BY SumsPrime DEF HeldSum
  <2>2. /\ \A q \in QuoteIds : f[q] \in Nat
        /\ \A q \in QuoteIds : g[q] = IF q \in S THEN 0 ELSE f[q]
    BY <1>10, AllSharesNat, EndsShares
  <2>3. /\ y = b /\ k \in {a, Zero} => \A q \in S : f[q] = m[q]
        /\ ~(y = b /\ k \in {a, Zero}) => \A q \in S : f[q] = 0
    BY <1>1 DEF HeldShare
  <2>4. HeldSum(b, a) = Total(S, m)
    BY <1>11, <1>12
  <2>. HIDE DEF f, g, m
  <2>5. /\ Total(QuoteIds, f) = Total(QuoteIds, g) + Total(S, f)
        /\ Total(QuoteIds, g) \in Nat /\ Total(S, f) \in Nat
    BY <1>1, <2>2, TotalDrop
  <2>6. y = b /\ k \in {a, Zero} => Total(S, f) = HeldSum(b, a)
    BY <2>3, <2>4, TotalSame
  <2>7. ~(y = b /\ k \in {a, Zero}) => Total(S, f) = 0
    BY <2>3, TotalNone
  <2>. QED  BY <2>1, <2>5, <2>6, <2>7
<1>7. ASSUME NEW y \in PartyB, NEW k \in BucketOf PROVE PositionSum(y, k)' = PositionSum(y, k)
  <2>. DEFINE f == [q \in QuoteIds |-> PositionShare(quotes[q], y, k)]
              g == [q \in QuoteIds |-> PositionShare(quotes'[q], y, k)]
  <2>1. PositionSum(y, k) = Total(QuoteIds, f) /\ PositionSum(y, k)' = Total(QuoteIds, g)
    BY SumsPrime DEF PositionSum
  <2>2. \A q \in QuoteIds : f[q] = g[q]
    BY <1>1, <1>10, EndsShares DEF PositionShare
  <2>. HIDE DEF f, g
  <2>. QED  BY <2>1, <2>2, TotalSame
<1>. QED  BY <1>3, <1>4, <1>5, <1>6, <1>7 DEF S

\* What the frozen pairs would put into the pools of partyB, when one more freezes.
LEMMA FreezingSums ==
  ASSUME LiquidationInv, NEW b \in PartyB, NEW a \in PartyA, ~partyBLiquidationStatus[b][a],
         Ends(HeldBy(b, a)),
         partyBLiquidationStatus' = [partyBLiquidationStatus EXCEPT ![b][a] = TRUE],
         NEW y \in PartyB, NEW k \in BucketOf
  PROVE  /\ FrozenSum(y, k)' = FrozenSum(y, k)
                                 + IF y = b /\ k \in {a, Zero} THEN PositionSum(b, a) ELSE 0
         /\ FrozenSum(b, a) = 0
<1>. DEFINE f == [x \in QuoteIds |-> FrozenShare(quotes[x], y, k)]
            g == [x \in QuoteIds |->
                    IF y = b /\ k \in {a, Zero} THEN PositionShare(quotes[x], b, a) ELSE 0]
            h == [x \in QuoteIds |->
                    IF partyBLiquidationStatus'[y][quotes'[x].partyA]
                    THEN PositionShare(quotes'[x], y, k) ELSE 0]
            e == [x \in QuoteIds |-> FrozenShare(quotes[x], b, a)]
<1>1. TypeInv /\ partyBLiquidationStatus \in [PartyB -> [PartyA -> BOOLEAN]]
  BY DEF LiquidationInv, LiquidationTypeOK, ListsInv
<1>2. \A z \in PartyB, x \in PartyA :
        partyBLiquidationStatus'[z][x] <=> partyBLiquidationStatus[z][x] \/ (z = b /\ x = a)
  BY <1>1
<1>3. \A x \in QuoteIds : PositionShare(quotes'[x], y, k) = PositionShare(quotes[x], y, k)
  <2>1. \A x \in HeldBy(b, a) : PositionShare(quotes[x], y, k) = 0
    BY DEF HeldBy, PositionShare
  <2>. QED  BY <2>1, EndsShares
<1>4. \A x \in QuoteIds :
        PositionShare(quotes[x], y, k) # 0 =>
          /\ quotes[x].partyA \in PartyA /\ quotes[x].partyB = y
          /\ quotes'[x] = quotes[x] /\ quotes[x].status \in OpenStatus
          /\ k \in {quotes[x].partyA, Zero}
          /\ PositionShare(quotes[x], y, k) = quotes[x].locked
  <2>1. \A x \in HeldBy(b, a) : quotes[x].status \in HeldStatus
    BY DEF HeldBy
  <2>. QED  BY <1>1, <2>1, QuoteFacts DEF PositionShare, Ends
<1>5. FrozenSum(y, k) = Total(QuoteIds, f) /\ FrozenSum(y, k)' = Total(QuoteIds, h)
  BY DEF FrozenSum, FrozenShare, PositionShare
<1>6. FrozenSum(b, a) = 0
  <2>1. \A x \in QuoteIds : e[x] = 0
    BY PartiesAssumption DEF FrozenShare, PositionShare
  <2>2. FrozenSum(b, a) = Total(QuoteIds, e)
    BY DEF FrozenSum
  <2>. HIDE DEF e
  <2>. QED  BY <2>1, <2>2, TotalNone
<1>7. \A x \in QuoteIds : f[x] \in Nat /\ g[x] \in Nat
  BY <1>1, AllSharesNat, FrozenSharesNat
<1>8. \A x \in QuoteIds : (f[x] = 0 \/ g[x] = 0) /\ h[x] = f[x] + g[x]
  <2>. SUFFICES ASSUME NEW x \in QuoteIds PROVE (f[x] = 0 \/ g[x] = 0) /\ h[x] = f[x] + g[x]
    OBVIOUS
  <2>1. CASE PositionShare(quotes[x], y, k) = 0
    <3>1. f[x] = 0 /\ h[x] = 0
      BY <1>3, <2>1 DEF FrozenShare
    <3>2. g[x] = 0
      BY <2>1, PartiesAssumption DEF PositionShare
    <3>. QED  BY <3>1, <3>2
  <2>2. CASE PositionShare(quotes[x], y, k) # 0
    <3>. DEFINE at == quotes[x].partyA
                n == quotes[x].locked
    <3>1. /\ at \in PartyA /\ quotes[x].partyB = y /\ quotes'[x].partyA = at
          /\ quotes[x].status \in OpenStatus /\ k \in {at, Zero} /\ n \in Nat
          /\ PositionShare(quotes[x], y, k) = n /\ PositionShare(quotes'[x], y, k) = n
      BY <1>1, <1>3, <1>4, <2>2, QuoteFacts
    <3>2. f[x] = IF partyBLiquidationStatus[y][at] THEN n ELSE 0
      BY <3>1 DEF FrozenShare
    <3>3. h[x] = IF partyBLiquidationStatus'[y][at] THEN n ELSE 0
      BY <3>1
    <3>4. g[x] = IF y = b /\ at = a THEN n ELSE 0
      BY <3>1, PartiesAssumption DEF PositionShare
    <3>5. ~(partyBLiquidationStatus[y][at] /\ y = b /\ at = a)
      OBVIOUS
    <3>6. partyBLiquidationStatus'[y][at] <=> partyBLiquidationStatus[y][at] \/ (y = b /\ at = a)
      BY <1>2, <3>1
    <3>. HIDE DEF f, g, h, at, n
    <3>. QED  BY <3>1, <3>2, <3>3, <3>4, <3>5, <3>6
  <2>. QED  BY <2>1, <2>2
<1>9. Total(QuoteIds, g) = IF y = b /\ k \in {a, Zero} THEN PositionSum(b, a) ELSE 0
  <2>1. CASE y = b /\ k \in {a, Zero}
    BY <2>1 DEF PositionSum
  <2>2. CASE ~(y = b /\ k \in {a, Zero})
    <3>1. \A x \in QuoteIds : g[x] = 0
      BY <2>2
    <3>. HIDE DEF g
    <3>. QED  BY <2>2, <3>1, TotalNone
  <2>. QED  BY <2>1, <2>2
<1>. HIDE DEF f, g, h, e
<1>10. Total(QuoteIds, h) = Total(QuoteIds, f) + Total(QuoteIds, g)
  BY <1>7, <1>8, TotalApart
<1>. QED  BY <1>5, <1>6, <1>9, <1>10

LEMMA SeizedLive ==
  ASSUME LiveInv, NEW b \in PartyB, NEW a \in PartyA, NEW upnl \in LiquidationUpnls,
         LiquidatePartyB(b, a, upnl)
  PROVE  LivePoolsExact' /\ FeesExact'
<1>. DEFINE S == HeldBy(b, a)
<1>1. /\ LiquidationInv /\ ListsInv /\ TypeInv /\ LivePoolsExact /\ FeesExact
      /\ ~partyBLiquidationStatus[b][a]
      /\ SeizePair(b, a, partyBAllocatedBalances[b][a], upnl)
  BY DEF LiveInv, LiquidationInv, ListsInv, LiquidatePartyB
<1>2. Doomed(b, a) = S /\ Ends(S)
  <2>1. Ends(Doomed(b, a))
    BY <1>1, SeizedQuotes, ListTypes
  <2>. QED  BY <1>1, <2>1, DoomedAreHeld
<1>3. /\ partyBLiquidationStatus' = [partyBLiquidationStatus EXCEPT ![b][a] = TRUE]
      /\ pendingLockedBalances' = [pendingLockedBalances EXCEPT ![a] = @ - Margin(S)]
      /\ partyAReservedOpenFees' = [partyAReservedOpenFees EXCEPT ![a] = Decrease(@, Fees(S))]
      /\ partyBLockedBalances' = EmptyPair(partyBLockedBalances, b, a)
      /\ partyBPendingLockedBalances' = EmptyPair(partyBPendingLockedBalances, b, a)
      /\ UNCHANGED lockedBalances
  BY <1>1, <1>2 DEF SeizePair
<1>4. Margin(S) \in Nat /\ Fees(S) \in Nat
  BY <1>1, SetSums DEF HeldBy
<1>5. /\ \A x \in PartyA :
           /\ PendingSum(x)' = PendingSum(x) - IF x = a THEN Margin(S) ELSE 0
           /\ FeeSum(x)' = FeeSum(x) - IF x = a THEN Fees(S) ELSE 0
           /\ LockedSum(x)' = LockedSum(x)
           /\ x = a => Fees(S) <= FeeSum(x)
      /\ \A y \in PartyB, k \in BucketOf :
           /\ HeldSum(y, k)' = HeldSum(y, k) - IF y = b /\ k \in {a, Zero} THEN HeldSum(b, a) ELSE 0
           /\ PositionSum(y, k)' = PositionSum(y, k)
  BY <1>1, <1>2, SeizedSums
<1>6. \A y \in PartyB, k \in BucketOf :
        /\ FrozenSum(y, k)' = FrozenSum(y, k)
                                + IF y = b /\ k \in {a, Zero} THEN PositionSum(b, a) ELSE 0
        /\ FrozenSum(b, a) = 0
  BY <1>1, <1>2, <1>3, FreezingSums
<1>. HIDE DEF S
<1>7. ASSUME NEW x \in PartyA
      PROVE  /\ pendingLockedBalances'[x] = PendingSum(x)' /\ lockedBalances'[x] = LockedSum(x)'
             /\ partyAReservedOpenFees'[x] = FeeSum(x)'
  <2>1. /\ pendingLockedBalances[x] = PendingSum(x) /\ lockedBalances[x] = LockedSum(x)
        /\ partyAReservedOpenFees[x] = FeeSum(x)
    BY <1>1 DEF LivePoolsExact, FeesExact
  <2>2. PendingSum(x) \in Nat /\ FeeSum(x) \in Nat
    BY <1>1, SumsNat
  <2>3. /\ pendingLockedBalances'[x] = pendingLockedBalances[x] - IF x = a THEN Margin(S) ELSE 0
        /\ partyAReservedOpenFees'[x] =
             IF x = a THEN Decrease(partyAReservedOpenFees[x], Fees(S)) ELSE partyAReservedOpenFees[x]
    BY <1>1, <1>3, <2>1, <2>2, PoolTypes
  <2>4. x = a => Decrease(FeeSum(x), Fees(S)) = FeeSum(x) - Fees(S)
    BY <1>4, <1>5, <2>2 DEF Decrease
  <2>. QED  BY <1>3, <1>4, <1>5, <2>1, <2>2, <2>3, <2>4
<1>8. ASSUME NEW y \in PartyB, NEW k \in BucketOf
      PROVE  /\ partyBPendingLockedBalances'[y][k] = HeldSum(y, k)'
             /\ partyBLockedBalances'[y][k] + FrozenSum(y, k)' = PositionSum(y, k)'
  <2>1. /\ partyBPendingLockedBalances[y][k] = HeldSum(y, k)
        /\ partyBLockedBalances[y][k] + FrozenSum(y, k) = PositionSum(y, k)
        /\ partyBPendingLockedBalances[b][a] = HeldSum(b, a)
        /\ partyBLockedBalances[b][a] + FrozenSum(b, a) = PositionSum(b, a)
        /\ partyBPendingLockedBalances[b][Zero] = HeldSum(b, Zero)
        /\ partyBLockedBalances[b][Zero] + FrozenSum(b, Zero) = PositionSum(b, Zero)
    BY <1>1 DEF LivePoolsExact, BucketOf
  <2>2. /\ HeldSum(y, k) \in Nat /\ HeldSum(b, a) \in Nat
        /\ PositionSum(y, k) \in Nat /\ PositionSum(b, a) \in Nat
        /\ FrozenSum(y, k) \in Nat
        /\ partyBLockedBalances[y][k] \in Nat /\ partyBLockedBalances[b][a] \in Nat
    BY <1>1, SumsNat, PoolTypes DEF BucketOf
  <2>3. /\ partyBPendingLockedBalances'[y][k] =
             IF y = b /\ k = a THEN 0
             ELSE IF y = b /\ k = Zero
                  THEN partyBPendingLockedBalances[y][k] - partyBPendingLockedBalances[b][a]
                  ELSE partyBPendingLockedBalances[y][k]
        /\ partyBLockedBalances'[y][k] =
             IF y = b /\ k = a THEN 0
             ELSE IF y = b /\ k = Zero
                  THEN partyBLockedBalances[y][k] - partyBLockedBalances[b][a]
                  ELSE partyBLockedBalances[y][k]
    BY <1>1, <1>3, PoolTypes, EmptyPairAt
  <2>4. partyBPendingLockedBalances'[y][k] = HeldSum(y, k)'
    BY <1>5, <2>1, <2>2, <2>3
  <2>5. partyBLockedBalances'[y][k] + FrozenSum(y, k)' = PositionSum(y, k)'
    BY <1>5, <1>6, <2>1, <2>2, <2>3
  <2>. QED  BY <2>4, <2>5
<1>. QED  BY <1>7, <1>8 DEF LivePoolsExact, FeesExact

\* Positions of a frozen pair were in partyA's locked sum and in no pool of partyB.
LEMMA EndedSums ==
  ASSUME LiquidationInv, NEW b \in PartyB, NEW a \in PartyA, NEW S \in SUBSET QuoteIds,
         LiquidatePositionsPartyB(b, a, S)
  PROVE  /\ \A x \in PartyA :
              /\ PendingSum(x)' = PendingSum(x) /\ FeeSum(x)' = FeeSum(x)
              /\ LockedSum(x)' = LockedSum(x) - IF x = a THEN Margin(S) ELSE 0
         /\ \A y \in PartyB, k \in BucketOf :
              /\ HeldSum(y, k)' = HeldSum(y, k)
              /\ PositionSum(y, k)' \in Nat /\ FrozenSum(y, k)' \in Nat
              /\ \E n \in Nat : /\ PositionSum(y, k) = PositionSum(y, k)' + n
                                /\ FrozenSum(y, k) = FrozenSum(y, k)' + n
<1>1. /\ TypeInv /\ partyBLiquidationStatus \in [PartyB -> [PartyA -> BOOLEAN]]
      /\ partyBOpenPositions[b][a] = PositionsOf(b, a)
  BY DEF LiquidationInv, LiquidationTypeOK, ListsInv, ListsMatch
<1>2. Ends(S) /\ S \subseteq PositionsOf(b, a)
  BY <1>1, EndedQuotes
<1>3. \A x \in S : quotes[x].partyA = a /\ quotes[x].partyB = b /\ quotes[x].status \in OpenStatus
  BY <1>2 DEF PositionsOf
<1>4. /\ partyBLiquidationStatus[b][a]
      /\ \A z \in PartyB, x \in PartyA :
           partyBLiquidationStatus'[z][x]
             <=> partyBLiquidationStatus[z][x] /\ ~(z = b /\ x = a /\ PositionsOf(b, a) \ S = {})
  BY <1>1 DEF LiquidatePositionsPartyB, Ended
<1>5. ASSUME NEW x \in PartyA PROVE PendingSum(x)' = PendingSum(x) /\ FeeSum(x)' = FeeSum(x)
  <2>1. \A q \in QuoteIds : /\ PendingShare(quotes'[q], x) = PendingShare(quotes[q], x)
                            /\ FeeShare(quotes'[q], x) = FeeShare(quotes[q], x)
    BY <1>2, <1>3, EndsShares DEF PendingShare, FeeShare
  <2>2. ASSUME NEW f, NEW g, \A q \in QuoteIds : f[q] = g[q]
        PROVE  Total(QuoteIds, f) = Total(QuoteIds, g)
    BY <2>2, TotalSame
  <2>. QED  BY <2>1, <2>2, SumsPrime DEF PendingSum, FeeSum
<1>6. ASSUME NEW x \in PartyA
      PROVE  LockedSum(x)' = LockedSum(x) - IF x = a THEN Margin(S) ELSE 0
  <2>. DEFINE f == [q \in QuoteIds |-> LockedShare(quotes[q], x)]
              g == [q \in QuoteIds |-> LockedShare(quotes'[q], x)]
              m == [q \in S |-> quotes[q].locked]
  <2>1. LockedSum(x) = Total(QuoteIds, f) /\ LockedSum(x)' = Total(QuoteIds, g)
    BY SumsPrime DEF LockedSum
  <2>2. /\ \A q \in QuoteIds : f[q] \in Nat
        /\ \A q \in QuoteIds : g[q] = IF q \in S THEN 0 ELSE f[q]
    BY <1>1, <1>2, AllSharesNat, EndsShares
  <2>3. /\ x = a => \A q \in S : f[q] = m[q]
        /\ x # a => \A q \in S : f[q] = 0
    BY <1>3 DEF LockedShare
  <2>4. Margin(S) = Total(S, m)
    BY DEF Margin
  <2>. HIDE DEF f, g, m
  <2>5. /\ Total(QuoteIds, f) = Total(QuoteIds, g) + Total(S, f)
        /\ Total(QuoteIds, g) \in Nat /\ Total(S, f) \in Nat
    BY <2>2, TotalDrop
  <2>6. x = a => Total(S, f) = Margin(S)
    BY <2>3, <2>4, TotalSame
  <2>7. x # a => Total(S, f) = 0
    BY <2>3, TotalNone
  <2>. QED  BY <2>1, <2>5, <2>6, <2>7
<1>7. ASSUME NEW y \in PartyB, NEW k \in BucketOf
      PROVE  /\ HeldSum(y, k)' = HeldSum(y, k)
             /\ PositionSum(y, k)' \in Nat /\ FrozenSum(y, k)' \in Nat
             /\ \E n \in Nat : /\ PositionSum(y, k) = PositionSum(y, k)' + n
                               /\ FrozenSum(y, k) = FrozenSum(y, k)' + n
  <2>. DEFINE p == [q \in QuoteIds |-> PositionShare(quotes[q], y, k)]
              r == [q \in QuoteIds |-> PositionShare(quotes'[q], y, k)]
              f == [q \in QuoteIds |-> FrozenShare(quotes[q], y, k)]
              g == [q \in QuoteIds |->
                      IF partyBLiquidationStatus'[y][quotes'[q].partyA]
                      THEN PositionShare(quotes'[q], y, k) ELSE 0]
  <2>1. /\ PositionSum(y, k) = Total(QuoteIds, p) /\ PositionSum(y, k)' = Total(QuoteIds, r)
        /\ FrozenSum(y, k) = Total(QuoteIds, f) /\ FrozenSum(y, k)' = Total(QuoteIds, g)
    BY SumsPrime DEF PositionSum, FrozenSum, FrozenShare, PositionShare
  <2>2. /\ \A q \in QuoteIds : p[q] \in Nat /\ f[q] \in Nat
        /\ \A q \in QuoteIds : r[q] = IF q \in S THEN 0 ELSE p[q]
    <3>1. \A q \in QuoteIds : p[q] \in Nat
      BY <1>1, AllSharesNat
    <3>2. \A q \in QuoteIds : f[q] \in Nat
      BY <1>1, FrozenSharesNat
    <3>3. \A q \in QuoteIds : r[q] = IF q \in S THEN 0 ELSE p[q]
      BY <1>2, EndsShares
    <3>. QED  BY <3>1, <3>2, <3>3
  <2>8. \A q \in QuoteIds : HeldShare(quotes'[q], y, k) = HeldShare(quotes[q], y, k)
    <3>1. \A q \in S : HeldShare(quotes[q], y, k) = 0
      BY <1>3 DEF HeldShare
    <3>. QED  BY <1>2, <3>1, EndsShares
  <2>3. \A q \in S : p[q] = f[q]
    BY <1>3, <1>4 DEF FrozenShare, PositionShare
  <2>4. \A q \in QuoteIds : g[q] = IF q \in S THEN 0 ELSE f[q]
    <3>. SUFFICES ASSUME NEW q \in QuoteIds PROVE g[q] = IF q \in S THEN 0 ELSE f[q]
      OBVIOUS
    <3>1. CASE q \in S
      BY <1>2, <3>1, EndsShares
    <3>2. CASE q \notin S /\ PositionShare(quotes[q], y, k) = 0
      BY <1>2, <3>2, EndsShares DEF FrozenShare
    <3>3. CASE q \notin S /\ PositionShare(quotes[q], y, k) # 0
      <4>1. /\ quotes[q].partyA \in PartyA /\ quotes[q].partyB = y
            /\ quotes[q].status \in OpenStatus /\ quotes'[q] = quotes[q]
        BY <1>1, <1>2, <3>3, QuoteFacts DEF PositionShare, Ends
      <4>2. partyBLiquidationStatus'[y][quotes[q].partyA]
              <=> partyBLiquidationStatus[y][quotes[q].partyA]
        BY <1>4, <3>3, <4>1 DEF PositionsOf
      <4>. QED  BY <3>3, <4>1, <4>2 DEF FrozenShare
    <3>. QED  BY <3>1, <3>2, <3>3
  <2>5. HeldSum(y, k)' = HeldSum(y, k)
    <3>1. ASSUME NEW u, NEW v, \A q \in QuoteIds : u[q] = v[q]
          PROVE  Total(QuoteIds, u) = Total(QuoteIds, v)
      BY <3>1, TotalSame
    <3>. QED  BY <2>8, <3>1, SumsPrime DEF HeldSum
  <2>. HIDE DEF p, r, f, g
  <2>6. /\ Total(QuoteIds, p) = Total(QuoteIds, r) + Total(S, p)
        /\ Total(QuoteIds, f) = Total(QuoteIds, g) + Total(S, f)
        /\ Total(S, p) \in Nat /\ Total(QuoteIds, r) \in Nat /\ Total(QuoteIds, g) \in Nat
    BY <2>2, <2>4, TotalDrop
  <2>7. Total(S, p) = Total(S, f)
    BY <2>3, TotalSame
  <2>. QED  BY <2>1, <2>5, <2>6, <2>7
<1>. QED  BY <1>5, <1>6, <1>7

LEMMA EndedLive ==
  ASSUME LiveInv, NEW b \in PartyB, NEW a \in PartyA, NEW S \in SUBSET QuoteIds,
         LiquidatePositionsPartyB(b, a, S)
  PROVE  LivePoolsExact' /\ FeesExact'
<1>1. LiquidationInv /\ TypeInv /\ LivePoolsExact /\ FeesExact
  BY DEF LiveInv, LiquidationInv, ListsInv
<1>2. /\ lockedBalances' = [lockedBalances EXCEPT ![a] = @ - Margin(S)]
      /\ UNCHANGED <<pendingLockedBalances, partyAReservedOpenFees, partyBPendingLockedBalances,
                     partyBLockedBalances>>
  BY DEF LiquidatePositionsPartyB, funds
<1>3. /\ \A x \in PartyA :
           /\ PendingSum(x)' = PendingSum(x) /\ FeeSum(x)' = FeeSum(x)
           /\ LockedSum(x)' = LockedSum(x) - IF x = a THEN Margin(S) ELSE 0
      /\ \A y \in PartyB, k \in BucketOf :
           /\ HeldSum(y, k)' = HeldSum(y, k)
           /\ PositionSum(y, k)' \in Nat /\ FrozenSum(y, k)' \in Nat
           /\ \E n \in Nat : /\ PositionSum(y, k) = PositionSum(y, k)' + n
                             /\ FrozenSum(y, k) = FrozenSum(y, k)' + n
  BY <1>1, EndedSums
<1>4. ASSUME NEW x \in PartyA
      PROVE  /\ pendingLockedBalances'[x] = PendingSum(x)' /\ lockedBalances'[x] = LockedSum(x)'
             /\ partyAReservedOpenFees'[x] = FeeSum(x)'
  <2>1. LockedSum(x) \in Nat
    BY <1>1, SumsNat
  <2>2. lockedBalances'[x] = IF x = a THEN lockedBalances[x] - Margin(S) ELSE lockedBalances[x]
    BY <1>1, <1>2, PoolTypes
  <2>. QED  BY <1>1, <1>2, <1>3, <2>1, <2>2 DEF LivePoolsExact, FeesExact
<1>5. ASSUME NEW y \in PartyB, NEW k \in BucketOf
      PROVE  /\ partyBPendingLockedBalances'[y][k] = HeldSum(y, k)'
             /\ partyBLockedBalances'[y][k] + FrozenSum(y, k)' = PositionSum(y, k)'
  <2>1. /\ partyBPendingLockedBalances[y][k] = HeldSum(y, k)
        /\ partyBLockedBalances[y][k] + FrozenSum(y, k) = PositionSum(y, k)
        /\ partyBLockedBalances[y][k] \in Nat
    BY <1>1, PoolTypes DEF LivePoolsExact
  <2>2. PICK n \in Nat : /\ PositionSum(y, k) = PositionSum(y, k)' + n
                         /\ FrozenSum(y, k) = FrozenSum(y, k)' + n
    BY <1>3
  <2>3. PositionSum(y, k)' \in Nat /\ FrozenSum(y, k)' \in Nat
    BY <1>3
  <2>. QED  BY <1>2, <1>3, <2>1, <2>2, <2>3
<1>. QED  BY <1>4, <1>5 DEF LivePoolsExact, FeesExact

\* The invariant behind the theorems on pools and shares.
THEOREM LiveInvariant == LiquidationSpec => []LiveInv
<1>1. LiquidationInit => LivePoolsExact /\ FeesExact
  <2>. SUFFICES ASSUME LiquidationInit PROVE LivePoolsExact /\ FeesExact
    OBVIOUS
  <2>1. PoolsExact /\ FeesExact /\ TypeInv
    BY InitExact, InitType DEF LiquidationInit
  <2>2. ASSUME NEW b \in PartyB, NEW k PROVE FrozenSum(b, k) = 0
    <3>. DEFINE f == [q \in QuoteIds |-> FrozenShare(quotes[q], b, k)]
    <3>1. \A q \in QuoteIds : f[q] = 0
      BY GoneShares DEF LiquidationInit, Init, NoQuote, FrozenShare
    <3>2. FrozenSum(b, k) = Total(QuoteIds, f)
      BY DEF FrozenSum
    <3>. HIDE DEF f
    <3>. QED  BY <3>1, <3>2, TotalNone
  <2>3. \A b \in PartyB, k \in BucketOf : partyBLockedBalances[b][k] \in Nat
    BY <2>1, PoolTypes
  <2>. QED  BY <2>1, <2>2, <2>3 DEF PoolsExact, LivePoolsExact
<1>2. LiveInv /\ LiquidationInv' /\ [Trade \/ LiquidationStep]_liquidationVars
        => LivePoolsExact' /\ FeesExact'
  <2>. SUFFICES ASSUME LiveInv, LiquidationInv', [Trade \/ LiquidationStep]_liquidationVars
                PROVE  LivePoolsExact' /\ FeesExact'
    OBVIOUS
  <2>1. CASE Trade
    BY <2>1, TradeLive DEF LiquidationInv, ListsInv
  <2>2. CASE LiquidationStep
    BY <2>2, SeizedLive, EndedLive DEF LiquidationStep
  <2>3. CASE UNCHANGED liquidationVars
    <3>1. UNCHANGED <<quotes, pools, partyAReservedOpenFees, partyBLiquidationStatus>>
      BY <2>3 DEF liquidationVars, vars, liquidation, funds
    <3>2. \A b, k : FrozenSum(b, k)' = FrozenSum(b, k)
      BY <3>1 DEF FrozenSum, FrozenShare, PositionShare
    <3>. QED  BY <3>1, <3>2, SumsStill DEF LiveInv, LivePoolsExact, FeesExact, pools
  <2>. QED  BY <2>1, <2>2, <2>3
<1>3. LiquidationInv /\ LivePoolsExact /\ FeesExact => LiveInv
  BY DEF LiveInv
<1>. QED
  BY <1>1, <1>2, <1>3, LiquidationInvariant, PTL DEF LiquidationSpec

\* While pairs of a partyB are wound up, every pool, the bucket all its pairs share
\* included, stays the sum of the margins of the quotes it still stands for.
THEOREM PoolsThroughLiquidation == LiquidationSpec => []PoolsMatchLivePairs
BY LiveSays, LiveInvariant, PTL

\* partyA's fee reserve stays the opening fees of its pending quotes, also when a
\* seizure drops several of them at once.
THEOREM FeesThroughLiquidation == LiquidationSpec => []FeesReserved
<1>1. LiveInv => FeesReserved
  BY ExactSays DEF LiveInv, LiquidationInv, ListsInv
<1>. QED  BY <1>1, LiveInvariant, PTL

----------------------------------------------------------------------------
(* The liquidators' shares.                                                *)

Pairs == PartyB \X PartyA

LEMMA PairsFinite == IsFiniteSet(Pairs)
BY PartiesAssumption, FS_Product DEF Pairs

LEMMA OwedForNat ==
  ASSUME LiquidationInv, NEW b \in PartyB, NEW a \in PartyA
  PROVE  /\ Cardinality(partyBOpenPositions[b][a]) \in Nat
         /\ partyBPositionLiquidatorsShare[b][a] * Cardinality(partyBOpenPositions[b][a]) \in Nat
         /\ OwedFor(b, a) \in Nat
<1>1. TypeInv /\ partyBPositionLiquidatorsShare[b][a] \in Nat
  BY DEF LiquidationInv, LiquidationTypeOK, ListsInv
<1>2. Cardinality(partyBOpenPositions[b][a]) \in Nat
  BY <1>1, ListTypes, IdsFinite, FS_CardinalityType
<1>3. partyBPositionLiquidatorsShare[b][a] * Cardinality(partyBOpenPositions[b][a]) \in Nat
  BY <1>1, <1>2, MulNat
<1>. QED  BY <1>2, <1>3 DEF OwedFor

\* What is owed for one pair changes what is owed in all by as much.
LEMMA OwedMoves ==
  ASSUME LiquidationInv, NEW b \in PartyB, NEW a \in PartyA, NEW n \in Nat,
         OwedFor(b, a)' = n,
         \A y \in PartyB, x \in PartyA : ~(y = b /\ x = a) => OwedFor(y, x)' = OwedFor(y, x)
  PROVE  Owed' = Owed - OwedFor(b, a) + n
<1>. DEFINE f == [z \in Pairs |-> OwedFor(z[1], z[2])]
            g == [z \in Pairs |-> IF z = <<b, a>> THEN n ELSE OwedFor(z[1], z[2])]
            p == <<b, a>>
<1>1. \A z \in Pairs : f[z] \in Nat /\ g[z] \in Nat
  BY OwedForNat DEF Pairs
<1>2. p \in Pairs /\ \A z \in Pairs \ {p} : f[z] = g[z]
  BY DEF Pairs
<1>3. f[p] = OwedFor(b, a) /\ g[p] = n
  BY <1>2
<1>4. Owed = Total(Pairs, f)
  BY DEF Owed, Pairs
<1>5. Owed' = Total(Pairs, g)
  <2>. DEFINE h == [z \in Pairs |-> OwedFor(z[1], z[2])']
  <2>1. \A z \in Pairs : h[z] = g[z]
    BY DEF Pairs
  <2>2. Owed' = Total(Pairs, h)
    BY DEF Owed, Pairs
  <2>. HIDE DEF g, h
  <2>. QED  BY <2>1, <2>2, TotalSame
<1>. HIDE DEF f, g, p
<1>6. Total(Pairs, g) = Total(Pairs, f) - f[p] + g[p]
  BY <1>1, <1>2, PairsFinite, TotalUpdate
<1>. QED  BY <1>3, <1>4, <1>5, <1>6

LEMMA OwedNat == ASSUME LiquidationInv PROVE Owed \in Nat
<1>. DEFINE f == [z \in Pairs |-> OwedFor(z[1], z[2])]
<1>1. \A z \in Pairs : f[z] \in Nat
  BY OwedForNat DEF Pairs
<1>2. Owed = Total(Pairs, f)
  BY DEF Owed, Pairs
<1>. HIDE DEF f
<1>. QED  BY <1>1, <1>2, PairsFinite, UnitsFinite

LEMMA TakenFinite == IsFiniteSet(Taken) /\ Cardinality(Taken) \in Nat
<1>1. Taken \in SUBSET QuoteIds
  BY DEF Taken
<1>. QED  BY <1>1, IdsFinite, FS_CardinalityType

\* Trading neither changes what is owed nor what is taken.
LEMMA TradeShares ==
  ASSUME LiquidationInv, LiquidationInv', Trade
  PROVE  Owed' = Owed /\ Taken' = Taken /\ liquidatorsBalance' = liquidatorsBalance
<1>1. /\ TypeInv /\ TypeInv' /\ IdsFresh /\ ListsMatch /\ ListsMatch'
      /\ UNCHANGED <<partyBLiquidationStatus, partyBPositionLiquidatorsShare, liquidatorsBalance>>
  BY DEF LiquidationInv, ListsInv, Trade, liquidation
<1>2. /\ Settled
      /\ \A b \in PartyB, a \in PartyA : partyBLiquidationStatus[b][a] => Untouched(b, a)
  BY <1>1, TradeKeeps
<1>3. \A b \in PartyB, a \in PartyA :
        partyBLiquidationStatus[b][a] =>
          /\ PositionsOf(b, a)' = PositionsOf(b, a)
          /\ partyBOpenPositions'[b][a] = partyBOpenPositions[b][a]
  BY <1>1, <1>2, UntouchedSets DEF ListsMatch
<1>4. Owed' = Owed
  <2>. DEFINE f == [z \in Pairs |-> OwedFor(z[1], z[2])]
              g == [z \in Pairs |-> OwedFor(z[1], z[2])']
  <2>1. \A z \in Pairs : f[z] = g[z]
    BY <1>1, <1>3 DEF Pairs, OwedFor
  <2>2. Owed = Total(Pairs, f) /\ Owed' = Total(Pairs, g)
    BY DEF Owed, Pairs
  <2>. HIDE DEF f, g
  <2>. QED  BY <2>1, <2>2, TotalSame
<1>5. \A q \in QuoteIds : quotes'[q].status = "LIQUIDATED" <=> quotes[q].status = "LIQUIDATED"
  BY <1>2 DEF Settled
<1>6. Taken' = Taken
  <2>1. Taken' = {q \in QuoteIds : \/ quotes'[q].status = "LIQUIDATED"
                                   \/ \E b \in PartyB, a \in PartyA :
                                        partyBLiquidationStatus[b][a] /\ q \in PositionsOf(b, a)'}
    BY <1>1 DEF Taken
  <2>. QED  BY <1>3, <1>5, <2>1 DEF Taken
<1>. QED  BY <1>1, <1>4, <1>6

\* A seizure takes out of the claims what it leaves to the liquidators, ...
LEMMA SeizedClaims ==
  ASSUME LiveInv, LiveInv', NEW b \in PartyB, NEW a \in PartyA, NEW upnl \in LiquidationUpnls,
         LiquidatePartyB(b, a, upnl)
  PROVE  Claims' = Claims - SeizedLf(b, a, partyBAllocatedBalances[b][a], upnl)
<1>. DEFINE allocated == partyBAllocatedBalances[b][a]
            lf == SeizedLf(b, a, allocated, upnl)
            fees == Fees(HeldBy(b, a))
<1>1. /\ TypeInv /\ TypeInv' /\ ListsInv /\ FeesExact /\ SeizePair(b, a, allocated, upnl)
      /\ Doomed(b, a) = HeldBy(b, a)
  BY DoomedAreHeld DEF LiveInv, LiquidationInv, ListsInv, LiquidatePartyB
<1>2. allocated \in Nat /\ upnl \in Int
  BY <1>1, FundTypes, LiquidationAssumption DEF BucketOf
<1>3. /\ lf \in Nat
      /\ allocatedBalances' = [allocatedBalances EXCEPT ![a] = @ + fees + allocated - lf]
  BY <1>1, <1>2, SeizedNumbers
<1>4. /\ partyAReservedOpenFees' = [partyAReservedOpenFees EXCEPT ![a] = Decrease(@, fees)]
      /\ partyBAllocatedBalances' = [partyBAllocatedBalances EXCEPT ![b][a] = 0]
      /\ feeCollectorBalance' = feeCollectorBalance
  BY <1>1 DEF SeizePair
<1>5. fees \in Nat /\ fees <= partyAReservedOpenFees[a]
  <2>1. Ends(HeldBy(b, a))
    BY <1>1, SeizedQuotes, ListTypes
  <2>2. Fees(HeldBy(b, a)) <= FeeSum(a)
    BY <1>1, <2>1, SeizedSums
  <2>. QED  BY <1>1, <2>2, SetSums DEF HeldBy, FeesExact
<1>. HIDE DEF lf, fees
<1>6. /\ allocatedBalances'[a] = allocatedBalances[a] + fees + allocated - lf
      /\ partyAReservedOpenFees'[a] = partyAReservedOpenFees[a] - fees
      /\ allocatedBalances[a] \in Nat /\ partyAReservedOpenFees[a] \in Nat
      /\ partyBAllocatedBalances'[b][a] = 0
      /\ \A y \in PartyB, k \in BucketOf :
           ~(y = b /\ k = a) => partyBAllocatedBalances'[y][k] = partyBAllocatedBalances[y][k]
  <2>1. /\ allocatedBalances \in [PartyA -> Nat] /\ partyAReservedOpenFees \in [PartyA -> Nat]
        /\ partyBAllocatedBalances \in [PartyB -> [BucketOf -> Nat]] /\ a \in BucketOf
    BY <1>1, FundTypes DEF Buckets, BucketOf
  <2>2. partyAReservedOpenFees[a] \in Nat
    BY <2>1
  <2>3. Decrease(partyAReservedOpenFees[a], fees) = partyAReservedOpenFees[a] - fees
    BY <1>5, <2>2 DEF Decrease
  <2>4. partyAReservedOpenFees'[a] = partyAReservedOpenFees[a] - fees
    BY <1>4, <2>1, <2>3
  <2>5. allocatedBalances'[a] = allocatedBalances[a] + fees + allocated - lf
    BY <1>3, <2>1
  <2>6. /\ partyBAllocatedBalances'[b][a] = 0
        /\ \A y \in PartyB, k \in BucketOf :
             ~(y = b /\ k = a) => partyBAllocatedBalances'[y][k] = partyBAllocatedBalances[y][k]
    BY <1>4, <2>1
  <2>. QED  BY <2>1, <2>4, <2>5, <2>6
<1>7. AccountSum' = AccountSum - (allocatedBalances[a] + partyAReservedOpenFees[a])
                      + (allocatedBalances'[a] + partyAReservedOpenFees'[a])
  <2>1. \A x \in PartyA : x # a => /\ allocatedBalances'[x] = allocatedBalances[x]
                                   /\ partyAReservedOpenFees'[x] = partyAReservedOpenFees[x]
    BY <1>1, <1>3, <1>4, FundTypes
  <2>. QED  BY <1>1, <2>1, AccountsMove
<1>8. AllocationSum' = AllocationSum - allocated
  <2>1. a \in BucketOf
    BY DEF BucketOf
  <2>2. AllocationSum' = AllocationSum - partyBAllocatedBalances[b][a] + partyBAllocatedBalances'[b][a]
    BY <1>1, <1>6, <2>1, AllocationsMove
  <2>3. AllocationSum \in Nat
    BY <1>1, ClaimsSplit
  <2>. QED  BY <1>2, <1>6, <2>2, <2>3
<1>9. Claims' = AccountSum' + AllocationSum' + feeCollectorBalance'
  BY DEF Claims, AccountSum, AllocationSum
<1>10. /\ Claims = AccountSum + AllocationSum + feeCollectorBalance
       /\ AccountSum \in Nat /\ AllocationSum \in Nat /\ feeCollectorBalance \in Nat
  BY <1>1, ClaimsSplit, FundTypes
<1>. HIDE DEF allocated
<1>11. Claims' = Claims - lf
  BY <1>2, <1>3, <1>4, <1>5, <1>6, <1>7, <1>8, <1>9, <1>10
<1>. QED  BY <1>11 DEF lf, allocated

\* ... of which a unit per position may be lost to rounding.
LEMMA SeizedShares ==
  ASSUME LiveInv, LiveInv', NEW b \in PartyB, NEW a \in PartyA, NEW upnl \in LiquidationUpnls,
         LiquidatePartyB(b, a, upnl)
  PROVE  /\ Rests' = Rests
         /\ \E lf, first, left, count \in Nat :
              /\ left + first <= lf /\ lf <= left + first + count
              /\ Claims' = Claims - lf
              /\ liquidatorsBalance' = liquidatorsBalance + first
              /\ Owed' = Owed + left
              /\ Cardinality(Taken)' = Cardinality(Taken) + count
<1>. DEFINE allocated == partyBAllocatedBalances[b][a]
            lf == SeizedLf(b, a, allocated, upnl)
            first == FirstShare(b, a, allocated, upnl)
            count == Cardinality(partyBOpenPositions[b][a])
            S == HeldBy(b, a)
<1>1. /\ LiquidationInv /\ TypeInv /\ ListsInv /\ ListsMatch
      /\ ~partyBLiquidationStatus[b][a]
      /\ SeizePair(b, a, allocated, upnl) /\ Doomed(b, a) = S
      /\ partyBLiquidationStatus \in [PartyB -> [PartyA -> BOOLEAN]]
      /\ partyBPositionLiquidatorsShare \in [PartyB -> [PartyA -> Nat]]
  BY DoomedAreHeld DEF LiveInv, LiquidationInv, LiquidationTypeOK, ListsInv, LiquidatePartyB
<1>2. allocated \in Nat /\ upnl \in Int
  BY <1>1, FundTypes, LiquidationAssumption DEF BucketOf
<1>3. /\ partyBLiquidationStatus' = [partyBLiquidationStatus EXCEPT ![b][a] = TRUE]
      /\ UNCHANGED partyBOpenPositions
      /\ quotes' = [q \in QuoteIds |->
           IF q \in S
           THEN [quotes[q] EXCEPT !.status = "LIQUIDATED_PENDING", !.modified = now]
           ELSE quotes[q]]
  BY <1>1 DEF SeizePair
<1>4. lf \in Nat /\ first \in Nat /\ count \in Nat
  BY <1>1, <1>2, SeizedNumbers, OwedForNat
<1>5. PICK each \in Nat :
        /\ partyBPositionLiquidatorsShare' =
             [partyBPositionLiquidatorsShare EXCEPT ![b][a] = each]
        /\ each * count \in Nat
        /\ each * count + first <= lf /\ lf <= each * count + first + count
  BY <1>1, <1>2, SeizedNumbers
<1>6. liquidatorsBalance' = liquidatorsBalance + first
  BY <1>1, <1>2, SeizedNumbers
<1>7. Claims' = Claims - lf
  BY SeizedClaims
<1>8. Ends(S) /\ S \in SUBSET QuoteIds
  <2>1. Ends(Doomed(b, a))
    BY <1>1, SeizedQuotes, ListTypes
  <2>2. S \in SUBSET QuoteIds
    BY DEF HeldBy
  <2>. HIDE DEF S
  <2>. QED  BY <1>1, <2>1, <2>2
<1>9. /\ \A y \in PartyB, x \in PartyA :
           /\ partyBLiquidationStatus'[y][x] <=> partyBLiquidationStatus[y][x] \/ (y = b /\ x = a)
           /\ partyBPositionLiquidatorsShare'[y][x] =
                IF y = b /\ x = a THEN each ELSE partyBPositionLiquidatorsShare[y][x]
  BY <1>1, <1>3, <1>5
<1>. HIDE DEF allocated, lf, first
<1>10. Owed' = Owed + each * count
  <2>1. /\ OwedFor(b, a)' = each * count /\ OwedFor(b, a) = 0
        /\ \A y \in PartyB, x \in PartyA : ~(y = b /\ x = a) => OwedFor(y, x)' = OwedFor(y, x)
    BY <1>1, <1>3, <1>9 DEF OwedFor
  <2>. DEFINE n == each * count
  <2>2. n \in Nat
    BY <1>5
  <2>3. OwedFor(b, a)' = n
    BY <2>1
  <2>. HIDE DEF n, count
  <2>4. Owed' = Owed - OwedFor(b, a) + n
    BY <1>1, <2>1, <2>2, <2>3, OwedMoves
  <2>5. Owed \in Nat
    BY <1>1, OwedNat
  <2>. QED  BY <2>1, <2>2, <2>4, <2>5 DEF n, count
<1>11. Rests' = Rests
  <2>1. \A x \in QuoteIds : quotes'[x].parent = quotes[x].parent
    BY <1>8 DEF Ends
  <2>. QED  BY <2>1 DEF Rests
<1>12. Taken' = Taken \cup PositionsOf(b, a) /\ Taken \cap PositionsOf(b, a) = {}
  <2>1. \A x \in S : quotes[x].status \in HeldStatus
    BY DEF HeldBy
  <2>2. \A x \in S : quotes'[x].status = "LIQUIDATED_PENDING"
    BY <1>1, <1>3, <1>8, QuoteFacts DEF QuoteType
  <2>3. \A x \in QuoteIds : quotes'[x].status = "LIQUIDATED" <=> quotes[x].status = "LIQUIDATED"
    BY <1>8, <2>1, <2>2 DEF Ends
  <2>4. \A y \in PartyB, x \in PartyA : PositionsOf(y, x)' = PositionsOf(y, x)
    <3>1. \A y \in PartyB, x \in PartyA : PositionsOf(y, x) \ S = PositionsOf(y, x)
      BY <2>1 DEF PositionsOf
    <3>. HIDE DEF S, count
    <3>2. \A y \in PartyB, x \in PartyA : PositionsOf(y, x)' = PositionsOf(y, x) \ S
      BY <1>8, EndsSets
    <3>. QED  BY <3>1, <3>2
  <2>5. Taken' = {q \in QuoteIds : \/ quotes'[q].status = "LIQUIDATED"
                                   \/ \E y \in PartyB, x \in PartyA :
                                        partyBLiquidationStatus'[y][x] /\ q \in PositionsOf(y, x)'}
    BY DEF Taken
  <2>6. \A q \in PositionsOf(b, a) :
          /\ q \in QuoteIds /\ quotes[q].status # "LIQUIDATED"
          /\ \A y, x : q \in PositionsOf(y, x) => y = b /\ x = a
    BY DEF PositionsOf
  <2>7. Taken' = Taken \cup PositionsOf(b, a)
    BY <1>9, <2>3, <2>4, <2>5, <2>6 DEF Taken
  <2>8. Taken \cap PositionsOf(b, a) = {}
    BY <1>1, <2>6 DEF Taken
  <2>. QED  BY <2>7, <2>8
<1>13. Cardinality(Taken)' = Cardinality(Taken) + count
  <2>1. PositionsOf(b, a) = partyBOpenPositions[b][a] /\ PositionsOf(b, a) \in SUBSET QuoteIds
    BY <1>1 DEF ListsMatch, PositionsOf
  <2>2. IsFiniteSet(PositionsOf(b, a))
    BY <2>1, IdsFinite
  <2>3. Cardinality(Taken \cap PositionsOf(b, a)) = 0
    BY <1>12, FS_EmptySet
  <2>4. Cardinality(Taken \cup PositionsOf(b, a))
          = Cardinality(Taken) + Cardinality(PositionsOf(b, a))
              - Cardinality(Taken \cap PositionsOf(b, a))
    BY <2>2, TakenFinite, FS_Union
  <2>5. Cardinality(Taken)' = Cardinality(Taken \cup PositionsOf(b, a))
    BY <1>12
  <2>6. Cardinality(PositionsOf(b, a)) = count
    BY <2>1
  <2>. HIDE DEF count
  <2>. QED  BY <1>4, <2>3, <2>4, <2>5, <2>6, TakenFinite
<1>. HIDE DEF count, S
<1>. QED  BY <1>4, <1>5, <1>6, <1>7, <1>10, <1>11, <1>13

LEMMA TimesDifference ==
  ASSUME NEW c \in Nat, NEW m \in Nat, NEW n \in Nat, n <= m
  PROVE  /\ c * (m - n) = c * m - c * n
         /\ c * m \in Nat /\ c * n \in Nat /\ c * m - c * n \in Nat
<1>1. c * (m - n) = c * m - c * n
  OBVIOUS
<1>2. m - n \in Nat
  OBVIOUS
<1>. QED  BY <1>1, <1>2, MulNat

\* A call that takes positions pays for them what was owed for them.
LEMMA EndedShares ==
  ASSUME LiquidationInv, LiquidationInv', NEW b \in PartyB, NEW a \in PartyA,
         NEW S \in SUBSET QuoteIds, LiquidatePositionsPartyB(b, a, S)
  PROVE  /\ Claims' = Claims /\ Rests' = Rests /\ Taken' = Taken
         /\ \E paid \in Nat : /\ Owed' = Owed - paid
                              /\ liquidatorsBalance' = liquidatorsBalance + paid
<1>. DEFINE open == partyBOpenPositions[b][a]
            each == partyBPositionLiquidatorsShare[b][a]
            paid == each * Cardinality(S)
<1>1. /\ TypeInv /\ ListsMatch /\ partyBLiquidationStatus[b][a]
      /\ partyBLiquidationStatus \in [PartyB -> [PartyA -> BOOLEAN]]
      /\ partyBPositionLiquidatorsShare \in [PartyB -> [PartyA -> Nat]]
      /\ partyBOpenPositions \in [PartyB -> [PartyA -> SUBSET QuoteIds]]
  BY ListTypes DEF LiquidationInv, LiquidationTypeOK, ListsInv, LiquidatePositionsPartyB
<1>2. /\ Ends(S) /\ S \subseteq PositionsOf(b, a)
      /\ \A x \in S : quotes'[x].status = "LIQUIDATED"
  BY <1>1, EndedQuotes
<1>3. /\ partyBOpenPositions' = [partyBOpenPositions EXCEPT ![b][a] = @ \ S]
      /\ UNCHANGED <<funds, partyBPositionLiquidatorsShare>>
      /\ liquidatorsBalance' = liquidatorsBalance + paid
      /\ partyBLiquidationStatus' = [partyBLiquidationStatus EXCEPT ![b][a] = ~Ended(b, a, S)]
  BY DEF LiquidatePositionsPartyB, PaidFor
<1>4. /\ partyBLiquidationStatus'[b][a] <=> open \ S # {}
      /\ partyBOpenPositions'[b][a] = open \ S
      /\ \A y \in PartyB, x \in PartyA : ~(y = b /\ x = a) =>
           /\ partyBLiquidationStatus'[y][x] <=> partyBLiquidationStatus[y][x]
           /\ partyBOpenPositions'[y][x] = partyBOpenPositions[y][x]
  BY <1>1, <1>3 DEF Ended
<1>5. open = PositionsOf(b, a) /\ S \subseteq open /\ open \in SUBSET QuoteIds
  BY <1>1, <1>2 DEF ListsMatch
<1>6. Claims' = Claims
  BY <1>3, FundsStill
<1>7. Rests' = Rests
  <2>1. \A x \in QuoteIds : quotes'[x].parent = quotes[x].parent
    BY <1>2 DEF Ends
  <2>. QED  BY <2>1 DEF Rests
<1>8. Taken' = Taken
  <2>1. \A y \in PartyB, x \in PartyA : PositionsOf(y, x)' = PositionsOf(y, x) \ S
    <3>. HIDE DEF open, each, paid
    <3>. QED  BY <1>2, EndsSets
  <2>2. Taken' = {q \in QuoteIds : \/ quotes'[q].status = "LIQUIDATED"
                                   \/ \E y \in PartyB, x \in PartyA :
                                        partyBLiquidationStatus'[y][x] /\ q \in PositionsOf(y, x)'}
    BY DEF Taken
  <2>3. \A q \in QuoteIds \ S : quotes'[q] = quotes[q]
    BY <1>2 DEF Ends
  <2>4. S \subseteq Taken
    BY <1>1, <1>2 DEF Taken
  <2>5. S \subseteq Taken'
    BY <1>2, <2>2
  <2>6. ASSUME NEW q \in QuoteIds \ S, NEW y \in PartyB, NEW x \in PartyA
        PROVE  partyBLiquidationStatus'[y][x] /\ q \in PositionsOf(y, x)'
                 <=> partyBLiquidationStatus[y][x] /\ q \in PositionsOf(y, x)
    <3>1. CASE y = b /\ x = a
      BY <1>1, <1>4, <1>5, <2>1, <3>1
    <3>2. CASE ~(y = b /\ x = a)
      BY <1>4, <2>1, <3>2
    <3>. QED  BY <3>1, <3>2
  <2>7. \A q \in QuoteIds \ S : q \in Taken' <=> q \in Taken
    BY <2>2, <2>3, <2>6 DEF Taken
  <2>8. Taken \in SUBSET QuoteIds /\ Taken' \in SUBSET QuoteIds
    BY <2>2 DEF Taken
  <2>. QED  BY <2>4, <2>5, <2>7, <2>8
<1>9. /\ Cardinality(open) \in Nat /\ Cardinality(S) \in Nat
      /\ Cardinality(S) <= Cardinality(open)
      /\ Cardinality(open \ S) = Cardinality(open) - Cardinality(S)
      /\ each \in Nat
  <2>1. IsFiniteSet(open)
    BY <1>5, IdsFinite
  <2>2. open \cap S = S /\ IsFiniteSet(S)
    BY <1>5, <2>1, FS_Subset
  <2>3. Cardinality(S) <= Cardinality(open)
    BY <1>5, <2>1, FS_Subset
  <2>4. Cardinality(open \ S) = Cardinality(open) - Cardinality(S)
    <3>. HIDE DEF open
    <3>1. Cardinality(open \ S) = Cardinality(open) - Cardinality(open \cap S)
      BY <2>1, FS_Difference
    <3>. QED  BY <2>2, <3>1
  <2>5. Cardinality(open) \in Nat /\ Cardinality(S) \in Nat
    BY <2>1, <2>2, FS_CardinalityType
  <2>. QED  BY <1>1, <2>3, <2>4, <2>5
<1>10. /\ each * Cardinality(open \ S) = each * Cardinality(open) - paid
       /\ paid \in Nat /\ each * Cardinality(open) \in Nat
       /\ each * Cardinality(open) - paid \in Nat
  BY <1>9, TimesDifference
<1>11. OwedFor(b, a) = each * Cardinality(open)
  BY <1>1 DEF OwedFor
<1>12. OwedFor(b, a)' = each * Cardinality(open) - paid
  <2>1. CASE open \ S # {}
    BY <1>3, <1>4, <1>10, <2>1 DEF OwedFor
  <2>2. CASE open \ S = {}
    <3>1. OwedFor(b, a)' = 0
      BY <1>4, <2>2 DEF OwedFor
    <3>2. open = S
      BY <1>5, <2>2
    <3>. QED  BY <1>10, <3>1, <3>2
  <2>. QED  BY <2>1, <2>2
<1>13. Owed' = Owed - paid
  <2>. DEFINE n == each * Cardinality(open) - paid
  <2>2. n \in Nat /\ OwedFor(b, a)' = n
    BY <1>10, <1>12
  <2>3. \A y \in PartyB, x \in PartyA : ~(y = b /\ x = a) => OwedFor(y, x)' = OwedFor(y, x)
    BY <1>3, <1>4 DEF OwedFor
  <2>. HIDE DEF n, paid, open, each
  <2>4. Owed' = Owed - OwedFor(b, a) + n
    BY <2>2, <2>3, OwedMoves
  <2>5. Owed \in Nat
    BY OwedNat
  <2>. QED  BY <1>10, <1>11, <2>4, <2>5 DEF n
<1>. HIDE DEF paid
<1>. QED  BY <1>3, <1>6, <1>7, <1>8, <1>10, <1>13

LEMMA InitShares ==
  ASSUME LiquidationInit, LiquidationInv
  PROVE  SharesBacked
<1>1. Init /\ liquidatorsBalance = 0
  BY DEF LiquidationInit
<1>2. Owed = 0
  <2>. DEFINE f == [z \in Pairs |-> OwedFor(z[1], z[2])]
  <2>1. \A z \in Pairs : f[z] = 0
    BY DEF LiquidationInit, OwedFor, Pairs
  <2>2. Owed = Total(Pairs, f)
    BY DEF Owed, Pairs
  <2>. HIDE DEF f
  <2>. QED  BY <2>1, <2>2, TotalNone
<1>3. Taken = {}
  BY DEF LiquidationInit, Init, NoQuote, Taken
<1>4. Claims = Deposited /\ Rests = {}
  BY <1>1, InitClaims
<1>5. Cardinality(Taken) = 0 /\ Cardinality(Rests) = 0
  BY <1>3, <1>4, FS_EmptySet
<1>6. Deposited \in Nat
  BY DepositedNat
<1>. QED  BY <1>1, <1>2, <1>4, <1>5, <1>6 DEF SharesBacked

\* What the parties hold, what the liquidators were paid and what they are owed is
\* what was deposited, however many calls a liquidation takes and whatever is traded
\* in between, short of a unit for every partial fill and every position liquidated.
THEOREM SharesThroughLiquidation == LiquidationSpec => []SharesBacked
<1>1. LiquidationInit /\ LiveInv => SharesBacked
  BY InitShares DEF LiveInv
<1>2. LiveInv /\ LiveInv' /\ SharesBacked /\ [Trade \/ LiquidationStep]_liquidationVars
        => SharesBacked'
  <2>. SUFFICES ASSUME LiveInv, LiveInv', SharesBacked,
                       [Trade \/ LiquidationStep]_liquidationVars
                PROVE  SharesBacked'
    OBVIOUS
  <2>. DEFINE held == Claims + liquidatorsBalance + Owed
              slack == Cardinality(Rests) + Cardinality(Taken)
  <2>1. /\ LiquidationInv /\ LiquidationInv' /\ TypeInv /\ TypeInv' /\ IdsFresh /\ FeesExact
        /\ liquidatorsBalance \in Nat
    BY DEF LiveInv, LiquidationInv, LiquidationTypeOK, ListsInv
  <2>2. /\ Claims \in Int /\ Owed \in Nat
        /\ Cardinality(Rests) \in Nat /\ Cardinality(Taken) \in Nat /\ Deposited \in Nat
    BY <2>1, ClaimsSplit, FundTypes, OwedNat, RestsFinite, TakenFinite, DepositedNat
  <2>3. Deposited - slack <= held /\ held <= Deposited
    BY <2>1, <2>2 DEF SharesBacked
  <2>4. Deposited' = Deposited
    BY DEF Deposited
  <2>5. \E lost, units \in Nat : /\ lost <= units
                                 /\ held' = held - lost /\ slack' = slack + units
    <3>1. CASE Trade
      <4>1. /\ Owed' = Owed /\ Taken' = Taken /\ liquidatorsBalance' = liquidatorsBalance
        BY <2>1, <3>1, TradeShares
      <4>2. \/ Claims' = Claims /\ Rests' = Rests
            \/ Claims' \in {Claims - 1, Claims} /\ Cardinality(Rests)' = Cardinality(Rests) + 1
        <5>1. [Next]_vars
          BY <3>1, TradeIsNext
        <5>. QED  BY <2>1, <5>1, NextClaims
      <4>3. CASE Claims' = Claims /\ Rests' = Rests
        <5>1. held' = held - 0 /\ slack' = slack + 0
          BY <2>1, <2>2, <4>1, <4>3
        <5>. QED  BY <5>1
      <4>4. CASE Claims' = Claims - 1 /\ Cardinality(Rests)' = Cardinality(Rests) + 1
        <5>1. held' = held - 1 /\ slack' = slack + 1
          BY <2>1, <2>2, <4>1, <4>4
        <5>. QED  BY <5>1
      <4>5. CASE Claims' = Claims /\ Cardinality(Rests)' = Cardinality(Rests) + 1
        <5>1. held' = held - 0 /\ slack' = slack + 1
          BY <2>1, <2>2, <4>1, <4>5
        <5>. QED  BY <5>1
      <4>. QED  BY <4>2, <4>3, <4>4, <4>5
    <3>2. ASSUME NEW b \in PartyB, NEW a \in PartyA, NEW upnl \in LiquidationUpnls,
                 LiquidatePartyB(b, a, upnl)
          PROVE  \E lost, units \in Nat : /\ lost <= units
                                          /\ held' = held - lost /\ slack' = slack + units
      <4>1. Rests' = Rests
        BY <3>2, SeizedShares
      <4>2. PICK lf \in Nat, first \in Nat, left \in Nat, count \in Nat :
              /\ left + first <= lf /\ lf <= left + first + count
              /\ Claims' = Claims - lf
              /\ liquidatorsBalance' = liquidatorsBalance + first
              /\ Owed' = Owed + left
              /\ Cardinality(Taken)' = Cardinality(Taken) + count
        BY <3>2, SeizedShares
      <4>. DEFINE lost == lf - first - left
      <4>3. lost \in Nat /\ lost <= count
        BY <4>2
      <4>4. held' = held - lost /\ slack' = slack + count
        BY <2>1, <2>2, <4>1, <4>2
      <4>. HIDE DEF lost
      <4>. QED  BY <4>3, <4>4
    <3>3. ASSUME NEW b \in PartyB, NEW a \in PartyA, NEW S \in SUBSET QuoteIds,
                 LiquidatePositionsPartyB(b, a, S)
          PROVE  \E lost, units \in Nat : /\ lost <= units
                                          /\ held' = held - lost /\ slack' = slack + units
      <4>1. /\ Claims' = Claims /\ Rests' = Rests /\ Taken' = Taken
            /\ \E paid \in Nat : /\ Owed' = Owed - paid
                                 /\ liquidatorsBalance' = liquidatorsBalance + paid
        BY <2>1, <3>3, EndedShares
      <4>2. held' = held - 0 /\ slack' = slack + 0
        BY <2>1, <2>2, <4>1
      <4>. QED  BY <4>2
    <3>4. CASE UNCHANGED liquidationVars
      <4>1. /\ UNCHANGED <<funds, quotes, partyBOpenPositions, liquidation>>
        BY <3>4 DEF liquidationVars, vars, lists
      <4>2. Claims' = Claims
        BY <4>1, FundsStill
      <4>3. Rests' = Rests
        BY <4>1 DEF Rests
      <4>4. Owed' = Owed /\ liquidatorsBalance' = liquidatorsBalance
        BY <4>1 DEF Owed, OwedFor, liquidation
      <4>5. Taken' = Taken
        BY <4>1 DEF Taken, PositionsOf, liquidation
      <4>6. held' = held - 0 /\ slack' = slack + 0
        BY <2>1, <2>2, <4>2, <4>3, <4>4, <4>5
      <4>. QED  BY <4>6
    <3>. QED  BY <3>1, <3>2, <3>3, <3>4 DEF LiquidationStep
  <2>6. Cardinality(Rests)' \in Nat /\ Cardinality(Taken)' \in Nat
    <3>1. Rests' \in SUBSET QuoteIds /\ Taken' \in SUBSET QuoteIds
      BY DEF Rests, Taken
    <3>. QED  BY <3>1, IdsFinite, FS_CardinalityType
  <2>7. held \in Int /\ slack \in Nat
    BY <2>1, <2>2
  <2>8. held' = Claims' + liquidatorsBalance' + Owed'
        /\ slack' = Cardinality(Rests)' + Cardinality(Taken)'
    OBVIOUS
  <2>. HIDE DEF held, slack
  <2>9. held' \in (Deposited - slack')..Deposited
    BY <2>2, <2>3, <2>5, <2>7
  <2>10. Deposited - slack' = Deposited - Cardinality(Rests)' - Cardinality(Taken)'
    BY <2>2, <2>6, <2>8
  <2>. QED  BY <2>4, <2>8, <2>9, <2>10 DEF SharesBacked
<1>. QED
  BY <1>1, <1>2, LiveInvariant, PTL DEF LiquidationSpec

=============================================================================
