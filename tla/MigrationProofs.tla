--------------------------- MODULE MigrationProofs ---------------------------
(***************************************************************************)
(* The migration counts nothing twice and has no effect on a system that   *)
(* trades, for every history of the market, every input file however       *)
(* wrong, every chunking and every order of retries, faults and late       *)
(* transactions.                                                           *)
(***************************************************************************)
EXTENDS Migration, FiniteSetTheorems, TLAPS

\* The quotes behind each total.
FeeIds(quotes, a) ==
  {id \in DOMAIN quotes : quotes[id].partyA = a /\ quotes[id].status \in {"PENDING", "LOCKED"}}
PairIds(quotes, b, a) ==
  {id \in DOMAIN quotes : Between(quotes[id], b, a) /\ quotes[id].status = "OPENED"}
CrossIds(quotes, b, status) ==
  {id \in DOMAIN quotes : quotes[id].partyB = b /\ quotes[id].status = status}

\* Those of a partyB whose pair was added up.
AddedIds(c, b, status) ==
  {id \in CrossIds(c.quotes, b, status) : <<b, c.quotes[id].partyA>> \in c.pairsMigrated}

TotalsOK(totals) ==
  /\ totals = [reserved |-> totals.reserved, aggregated |-> totals.aggregated, cross |-> totals.cross,
               crossPending |-> totals.crossPending, connected |-> totals.connected]
  /\ totals.reserved \in [PartyA -> Nat] /\ totals.aggregated \in [PartyB \X PartyA -> Nat]
  /\ totals.cross \in [PartyB -> Nat] /\ totals.crossPending \in [PartyB -> Nat]

ChainOK(c) ==
  /\ c = [quotes |-> c.quotes, totals |-> c.totals, quoteMigrated |-> c.quoteMigrated,
          pairsMigrated |-> c.pairsMigrated, paused |-> c.paused, upgraded |-> c.upgraded,
          migrator |-> c.migrator, post |-> c.post]
  /\ c.quotes \in Seq(Quote) /\ TotalsOK(c.totals)
  /\ {c.paused, c.upgraded, c.migrator} \subseteq BOOLEAN /\ c.post \in 0..2

\* No total exceeds what there is to count ...
Within(quotes, totals) ==
  /\ \A a \in PartyA : totals.reserved[a] <= Cardinality(FeeIds(quotes, a))
  /\ \A p \in PartyB \X PartyA : totals.aggregated[p] <= Cardinality(PairIds(quotes, p[1], p[2]))
  /\ \A b \in PartyB : /\ totals.cross[b] <= Cardinality(CrossIds(quotes, b, "OPENED"))
                       /\ totals.crossPending[b] <= Cardinality(CrossIds(quotes, b, "LOCKED"))

\* ... and until the migration is closed none exceeds what is marked as counted.
WithinMarked(c) ==
  /\ \A a \in PartyA : c.totals.reserved[a] <= Cardinality(FeeIds(c.quotes, a) \cap c.quoteMigrated)
  /\ \A p \in PartyB \X PartyA :
       c.totals.aggregated[p] <= Cardinality(PairIds(c.quotes, p[1], p[2]) \cap c.quoteMigrated)
  /\ \A b \in PartyB : /\ c.totals.cross[b] <= Cardinality(AddedIds(c, b, "OPENED"))
                       /\ c.totals.crossPending[b] <= Cardinality(AddedIds(c, b, "LOCKED"))

\* The phases of the procedure: nothing is counted before the upgrade, nobody trades
\* between it and the last transaction, and the role is gone with the first.
Phases(c) ==
  /\ ~c.upgraded => c.totals = NoTotals /\ ~c.migrator /\ c.post = 0
  /\ c.upgraded /\ c.post < 2 => c.paused
  /\ c.post > 0 => ~c.migrator

CountInv ==
  /\ ChainOK(chain) /\ Phases(chain)
  /\ IF chain.post = 0 THEN WithinMarked(chain) ELSE Within(chain.quotes, chain.totals)

-----------------------------------------------------------------------------
(* Counting                                                                 *)

LEMMA IdsFinite ==
  ASSUME NEW quotes \in Seq(Quote), NEW S, S \subseteq DOMAIN quotes
  PROVE  IsFiniteSet(S) /\ Cardinality(S) \in Nat
<1>1. IsFiniteSet(DOMAIN quotes)
  <2>1. DOMAIN quotes = 1..Len(quotes) /\ Len(quotes) \in Nat
    OBVIOUS
  <2>. QED  BY <2>1, FS_Interval
<1>. QED  BY <1>1, FS_Subset, FS_CardinalityType

LEMMA AllFinite ==
  ASSUME NEW quotes \in Seq(Quote)
  PROVE  /\ \A a : IsFiniteSet(FeeIds(quotes, a)) /\ Cardinality(FeeIds(quotes, a)) \in Nat
         /\ \A b, a : IsFiniteSet(PairIds(quotes, b, a)) /\ Cardinality(PairIds(quotes, b, a)) \in Nat
         /\ \A b, s : IsFiniteSet(CrossIds(quotes, b, s)) /\ Cardinality(CrossIds(quotes, b, s)) \in Nat
<1>1. /\ \A a : FeeIds(quotes, a) \subseteq DOMAIN quotes
      /\ \A b, a : PairIds(quotes, b, a) \subseteq DOMAIN quotes
      /\ \A b, s : CrossIds(quotes, b, s) \subseteq DOMAIN quotes
  BY DEF FeeIds, PairIds, CrossIds
<1>. QED  BY <1>1, IdsFinite

LEMMA PartOf ==
  ASSUME NEW S, IsFiniteSet(S), NEW T, T \subseteq S
  PROVE  /\ IsFiniteSet(T) /\ Cardinality(T) \in Nat /\ Cardinality(S) \in Nat
         /\ Cardinality(T) <= Cardinality(S)
BY FS_Subset, FS_CardinalityType

\* A set that gains a disjoint one counts as many more.
LEMMA Gains ==
  ASSUME NEW S, IsFiniteSet(S), NEW T, IsFiniteSet(T), S \cap T = {}, NEW U, U = S \cup T
  PROVE  /\ Cardinality(U) = Cardinality(S) + Cardinality(T)
         /\ Cardinality(S) \in Nat /\ Cardinality(T) \in Nat
<1>1. Cardinality(S \cap T) = 0
  BY FS_EmptySet
<1>2. Cardinality(S \cup T) = Cardinality(S) + Cardinality(T) - Cardinality(S \cap T)
  BY FS_Union
<1>. QED  BY <1>1, <1>2, FS_CardinalityType

\* Two sets that differ in x at most.
LEMMA Toggled ==
  ASSUME NEW S, IsFiniteSet(S), NEW T, NEW x, S \ {x} = T \ {x}
  PROVE  /\ Cardinality(T) = Cardinality(S) - (IF x \in S THEN 1 ELSE 0) + (IF x \in T THEN 1 ELSE 0)
         /\ Cardinality(S) \in Nat /\ Cardinality(T) \in Nat
<1>. DEFINE R == S \ {x}
<1>1. IsFiniteSet(R) /\ x \notin R
  BY FS_RemoveElement
<1>2. /\ x \in S => S = R \cup {x}
      /\ x \notin S => S = R
      /\ x \in T => T = R \cup {x}
      /\ x \notin T => T = R
  OBVIOUS
<1>. HIDE DEF R
<1>3. Cardinality(R \cup {x}) = Cardinality(R) + 1 /\ Cardinality(R) \in Nat
  BY <1>1, FS_AddElement, FS_CardinalityType
<1>4. /\ x \in S => Cardinality(S) = Cardinality(R) + 1
      /\ x \notin S => Cardinality(S) = Cardinality(R)
      /\ x \in T => Cardinality(T) = Cardinality(R) + 1
      /\ x \notin T => Cardinality(T) = Cardinality(R)
  BY <1>2, <1>3
<1>5. Cardinality(S) = Cardinality(R) + (IF x \in S THEN 1 ELSE 0)
  BY <1>3, <1>4
<1>6. Cardinality(T) = Cardinality(R) + (IF x \in T THEN 1 ELSE 0)
  BY <1>3, <1>4
<1>. QED  BY <1>3, <1>5, <1>6

\* How much a quote counts for each total.
One(test) == IF test THEN 1 ELSE 0
Fee(q, a) == One(q.partyA = a /\ q.status \in {"PENDING", "LOCKED"})
Open(q, b, a) == One(Between(q, b, a) /\ q.status = "OPENED")
Cross(q, b, status) == One(q.partyB = b /\ q.status = status)

CountsReplaced(quotes, later, old, new) ==
  /\ \A a : Cardinality(FeeIds(later, a)) = Cardinality(FeeIds(quotes, a)) - Fee(old, a) + Fee(new, a)
  /\ \A b, a : Cardinality(PairIds(later, b, a))
                = Cardinality(PairIds(quotes, b, a)) - Open(old, b, a) + Open(new, b, a)
  /\ \A b, s : Cardinality(CrossIds(later, b, s))
                = Cardinality(CrossIds(quotes, b, s)) - Cross(old, b, s) + Cross(new, b, s)

LEMMA QuoteReplaced ==
  ASSUME NEW quotes \in Seq(Quote), NEW id \in DOMAIN quotes, NEW later \in Seq(Quote),
         NEW new, later = [quotes EXCEPT ![id] = new], NEW old, old = quotes[id]
  PROVE  CountsReplaced(quotes, later, old, new)
<1>1. DOMAIN later = DOMAIN quotes /\ later[id] = new /\ \A i \in DOMAIN quotes \ {id} : later[i] = quotes[i]
  OBVIOUS
<1>2. ASSUME NEW a
      PROVE  Cardinality(FeeIds(later, a)) = Cardinality(FeeIds(quotes, a)) - Fee(quotes[id], a) + Fee(new, a)
  <2>. DEFINE S == FeeIds(quotes, a)
              T == FeeIds(later, a)
  <2>1. S \ {id} = T \ {id}
    BY <1>1 DEF FeeIds
  <2>2. Fee(quotes[id], a) = (IF id \in S THEN 1 ELSE 0) /\ Fee(new, a) = (IF id \in T THEN 1 ELSE 0)
    BY <1>1 DEF FeeIds, Fee, One
  <2>3. IsFiniteSet(S)
    BY AllFinite
  <2>. HIDE DEF S, T
  <2>4. Cardinality(T) = Cardinality(S) - (IF id \in S THEN 1 ELSE 0) + (IF id \in T THEN 1 ELSE 0)
    BY <2>1, <2>3, Toggled
  <2>. QED  BY <2>2, <2>4 DEF S, T
<1>3. ASSUME NEW b, NEW a
      PROVE  Cardinality(PairIds(later, b, a))
               = Cardinality(PairIds(quotes, b, a)) - Open(quotes[id], b, a) + Open(new, b, a)
  <2>. DEFINE S == PairIds(quotes, b, a)
              T == PairIds(later, b, a)
  <2>1. S \ {id} = T \ {id}
    BY <1>1 DEF PairIds
  <2>2. Open(quotes[id], b, a) = (IF id \in S THEN 1 ELSE 0) /\ Open(new, b, a) = (IF id \in T THEN 1 ELSE 0)
    BY <1>1 DEF PairIds, Open, One
  <2>3. IsFiniteSet(S)
    BY AllFinite
  <2>. HIDE DEF S, T
  <2>4. Cardinality(T) = Cardinality(S) - (IF id \in S THEN 1 ELSE 0) + (IF id \in T THEN 1 ELSE 0)
    BY <2>1, <2>3, Toggled
  <2>. QED  BY <2>2, <2>4 DEF S, T
<1>4. ASSUME NEW b, NEW s
      PROVE  Cardinality(CrossIds(later, b, s))
               = Cardinality(CrossIds(quotes, b, s)) - Cross(quotes[id], b, s) + Cross(new, b, s)
  <2>. DEFINE S == CrossIds(quotes, b, s)
              T == CrossIds(later, b, s)
  <2>1. S \ {id} = T \ {id}
    BY <1>1 DEF CrossIds
  <2>2. Cross(quotes[id], b, s) = (IF id \in S THEN 1 ELSE 0) /\ Cross(new, b, s) = (IF id \in T THEN 1 ELSE 0)
    BY <1>1 DEF CrossIds, Cross, One
  <2>3. IsFiniteSet(S)
    BY AllFinite
  <2>. HIDE DEF S, T
  <2>4. Cardinality(T) = Cardinality(S) - (IF id \in S THEN 1 ELSE 0) + (IF id \in T THEN 1 ELSE 0)
    BY <2>1, <2>3, Toggled
  <2>. QED  BY <2>2, <2>4 DEF S, T
<1>. QED  BY <1>2, <1>3, <1>4 DEF CountsReplaced

LEMMA QuoteAppended ==
  ASSUME NEW quotes \in Seq(Quote), NEW new \in Quote, new.status = "PENDING"
  PROVE  LET later == Append(quotes, new) IN
         /\ later \in Seq(Quote)
         /\ \A a : Cardinality(FeeIds(later, a)) = Cardinality(FeeIds(quotes, a)) + Fee(new, a)
         /\ \A b, a : PairIds(later, b, a) = PairIds(quotes, b, a)
         /\ \A b : /\ CrossIds(later, b, "OPENED") = CrossIds(quotes, b, "OPENED")
                   /\ CrossIds(later, b, "LOCKED") = CrossIds(quotes, b, "LOCKED")
<1>. DEFINE later == Append(quotes, new)
            id == Len(quotes) + 1
<1>1. /\ later \in Seq(Quote) /\ DOMAIN later = DOMAIN quotes \cup {id} /\ id \notin DOMAIN quotes
      /\ later[id] = new /\ \A i \in DOMAIN quotes : later[i] = quotes[i]
  OBVIOUS
<1>. HIDE DEF later, id
<1>2. ASSUME NEW a
      PROVE  Cardinality(FeeIds(later, a)) = Cardinality(FeeIds(quotes, a)) + Fee(new, a)
  <2>. DEFINE S == FeeIds(quotes, a)
              T == FeeIds(later, a)
  <2>1. S \ {id} = T \ {id}
    BY <1>1 DEF FeeIds
  <2>2. Fee(new, a) = (IF id \in T THEN 1 ELSE 0) /\ id \notin S
    BY <1>1 DEF FeeIds, Fee, One
  <2>3. IsFiniteSet(S)
    BY AllFinite
  <2>. HIDE DEF S, T
  <2>4. /\ Cardinality(T) = Cardinality(S) - (IF id \in S THEN 1 ELSE 0) + (IF id \in T THEN 1 ELSE 0)
        /\ Cardinality(S) \in Nat
    BY <2>1, <2>3, Toggled
  <2>. QED  BY <2>2, <2>4 DEF S, T
<1>3. \A b, a : PairIds(later, b, a) = PairIds(quotes, b, a)
  BY <1>1 DEF PairIds
<1>4. ASSUME NEW b
      PROVE  /\ CrossIds(later, b, "OPENED") = CrossIds(quotes, b, "OPENED")
             /\ CrossIds(later, b, "LOCKED") = CrossIds(quotes, b, "LOCKED")
  BY <1>1 DEF CrossIds
<1>. QED  BY <1>1, <1>2, <1>3, <1>4 DEF later

-----------------------------------------------------------------------------
(* Trading                                                                  *)

\* The facts every action works with.
LEMMA ChainFacts ==
  ASSUME CountInv
  PROVE  /\ chain.quotes \in Seq(Quote) /\ TotalsOK(chain.totals)
         /\ \A id \in DOMAIN chain.quotes :
              /\ chain.quotes[id] \in Quote
              /\ chain.quotes[id].partyA \in PartyA
         /\ chain.upgraded /\ ~chain.paused =>
              chain.post = 2 /\ Within(chain.quotes, chain.totals)
<1>1. ChainOK(chain) /\ Phases(chain)
  BY DEF CountInv
<1>2. chain.quotes \in Seq(Quote) /\ TotalsOK(chain.totals)
  BY <1>1 DEF ChainOK
<1>3. \A id \in DOMAIN chain.quotes : chain.quotes[id] \in Quote
  BY <1>2
<1>4. \A q \in Quote : q.partyA \in PartyA
  BY DEF Quote
<1>5. chain.upgraded /\ ~chain.paused => chain.post = 2
  BY <1>1 DEF ChainOK, Phases
<1>6. chain.post = 2 => Within(chain.quotes, chain.totals)
  BY DEF CountInv
<1>. QED  BY <1>2, <1>3, <1>4, <1>5, <1>6

LEMMA NothingCounted ==
  ASSUME NEW quotes \in Seq(Quote), NEW c, c.quotes = quotes, c.totals = NoTotals
  PROVE  WithinMarked(c)
<1>1. /\ \A a \in PartyA : c.totals.reserved[a] = 0
      /\ \A p \in PartyB \X PartyA : c.totals.aggregated[p] = 0
      /\ \A b \in PartyB : c.totals.cross[b] = 0 /\ c.totals.crossPending[b] = 0
  BY DEF NoTotals
<1>2. ASSUME NEW S, S \subseteq DOMAIN quotes PROVE Cardinality(S) \in Nat /\ 0 <= Cardinality(S)
  <2>1. Cardinality(S) \in Nat
    BY <1>2, IdsFinite
  <2>. QED  BY <2>1
<1>3. ASSUME NEW a \in PartyA
      PROVE  c.totals.reserved[a] <= Cardinality(FeeIds(quotes, a) \cap c.quoteMigrated)
  <2>1. FeeIds(quotes, a) \cap c.quoteMigrated \subseteq DOMAIN quotes
    BY DEF FeeIds
  <2>. QED  BY <1>1, <1>2, <2>1
<1>4. ASSUME NEW p \in PartyB \X PartyA
      PROVE  c.totals.aggregated[p] <= Cardinality(PairIds(quotes, p[1], p[2]) \cap c.quoteMigrated)
  <2>1. PairIds(quotes, p[1], p[2]) \cap c.quoteMigrated \subseteq DOMAIN quotes
    BY DEF PairIds
  <2>. QED  BY <1>1, <1>2, <2>1
<1>5. ASSUME NEW b \in PartyB
      PROVE  /\ c.totals.cross[b] <= Cardinality(AddedIds(c, b, "OPENED"))
             /\ c.totals.crossPending[b] <= Cardinality(AddedIds(c, b, "LOCKED"))
  <2>1. /\ AddedIds(c, b, "OPENED") \subseteq DOMAIN quotes
        /\ AddedIds(c, b, "LOCKED") \subseteq DOMAIN quotes
    BY DEF AddedIds, CrossIds
  <2>. QED  BY <1>1, <1>2, <2>1
<1>. QED  BY <1>3, <1>4, <1>5 DEF WithinMarked

\* What a trade must show of its totals.
LEMMA TradeCounts ==
  ASSUME CountInv, NEW quotes \in Seq(Quote), NEW totals, Trade(quotes, totals),
         chain.upgraded => TotalsOK(totals) /\ Within(quotes, totals)
  PROVE  CountInv'
<1>1. /\ ~chain.paused
      /\ chain' = [chain EXCEPT !.quotes = quotes, !.totals = IF chain.upgraded THEN totals ELSE @]
  BY DEF Trade
<1>2. ChainOK(chain) /\ Phases(chain)
  BY DEF CountInv
<1>3. chain' = [chain EXCEPT !.quotes = quotes, !.totals = IF chain.upgraded THEN totals ELSE chain.totals]
  BY <1>1
<1>4. /\ chain'.quotes = quotes
      /\ chain'.totals = IF chain.upgraded THEN totals ELSE chain.totals
      /\ chain'.paused = chain.paused /\ chain'.upgraded = chain.upgraded
      /\ chain'.migrator = chain.migrator /\ chain'.post = chain.post
      /\ chain'.quoteMigrated = chain.quoteMigrated /\ chain'.pairsMigrated = chain.pairsMigrated
      /\ chain' = [quotes |-> chain'.quotes, totals |-> chain'.totals,
                   quoteMigrated |-> chain'.quoteMigrated, pairsMigrated |-> chain'.pairsMigrated,
                   paused |-> chain'.paused, upgraded |-> chain'.upgraded,
                   migrator |-> chain'.migrator, post |-> chain'.post]
  BY <1>2, <1>3 DEF ChainOK
<1>5. ChainOK(chain') /\ Phases(chain')
  BY <1>2, <1>4 DEF ChainOK, Phases
<1>6. CASE chain.upgraded
  <2>1. chain.post = 2
    BY <1>1, <1>6, ChainFacts
  <2>. QED  BY <1>4, <1>5, <1>6, <2>1 DEF CountInv
<1>7. CASE ~chain.upgraded
  <2>1. chain'.totals = NoTotals /\ chain'.post = 0
    BY <1>2, <1>4, <1>7 DEF Phases
  <2>2. WithinMarked(chain')
    BY <1>4, <2>1, NothingCounted
  <2>. QED  BY <1>5, <2>1, <2>2 DEF CountInv
<1>8. chain.upgraded \in BOOLEAN
  BY <1>2 DEF ChainOK
<1>. QED  BY <1>6, <1>7, <1>8

\* Setting one entry of a total, which may have no such entry.
LEMMA Put ==
  ASSUME NEW S, NEW f \in [S -> Nat], NEW k, NEW n, k \in S => n \in Nat,
         NEW g, g = [f EXCEPT ![k] = n]
  PROVE  /\ g \in [S -> Nat]
         /\ \A x \in S : g[x] = IF x = k THEN n ELSE f[x]
OBVIOUS

\* Totals u follow t when old is replaced by new: what old counted for and new does
\* not is taken off.
Follows(old, new, t, u) ==
  /\ \A x \in PartyA : u.reserved[x] = 0 \/ u.reserved[x] + Fee(old, x) <= t.reserved[x] + Fee(new, x)
  /\ \A p \in PartyB \X PartyA :
       u.aggregated[p] + Open(old, p[1], p[2]) <= t.aggregated[p] + Open(new, p[1], p[2])
  /\ \A y \in PartyB :
       /\ u.cross[y] + Cross(old, y, "OPENED") <= t.cross[y] + Cross(new, y, "OPENED")
       /\ u.crossPending[y] + Cross(old, y, "LOCKED") <= t.crossPending[y] + Cross(new, y, "LOCKED")

\* A quote that is replaced may take from the totals what it counted for, and must
\* when it counts no more.
LEMMA WithinKept ==
  ASSUME NEW quotes \in Seq(Quote), NEW id \in DOMAIN quotes, NEW later \in Seq(Quote),
         NEW new, later = [quotes EXCEPT ![id] = new], NEW old, old = quotes[id],
         NEW t, TotalsOK(t), Within(quotes, t), NEW u, TotalsOK(u),
         Follows(old, new, t, u)
  PROVE  Within(later, u)
<1>1. /\ \A a : Cardinality(FeeIds(later, a)) = Cardinality(FeeIds(quotes, a)) - Fee(old, a) + Fee(new, a)
      /\ \A b, a : Cardinality(PairIds(later, b, a))
                    = Cardinality(PairIds(quotes, b, a)) - Open(old, b, a) + Open(new, b, a)
      /\ \A b, s : Cardinality(CrossIds(later, b, s))
                    = Cardinality(CrossIds(quotes, b, s)) - Cross(old, b, s) + Cross(new, b, s)
  <2>1. CountsReplaced(quotes, later, old, new)
    BY QuoteReplaced
  <2>. QED  BY <2>1 DEF CountsReplaced
<1>2. /\ \A a : Cardinality(FeeIds(quotes, a)) \in Nat
      /\ \A b, a : Cardinality(PairIds(quotes, b, a)) \in Nat
      /\ \A b, s : Cardinality(CrossIds(quotes, b, s)) \in Nat
  BY AllFinite
<1>3. /\ \A a : Cardinality(FeeIds(later, a)) \in Nat
      /\ \A b, a : Cardinality(PairIds(later, b, a)) \in Nat
      /\ \A b, s : Cardinality(CrossIds(later, b, s)) \in Nat
  BY AllFinite
<1>4. \A q : /\ \A a : Fee(q, a) \in {0, 1}
             /\ \A b, a : Open(q, b, a) \in {0, 1}
             /\ \A b, s : Cross(q, b, s) \in {0, 1}
  BY DEF Fee, Open, Cross, One
<1>5. ASSUME NEW a \in PartyA PROVE u.reserved[a] <= Cardinality(FeeIds(later, a))
  <2>1. /\ u.reserved[a] \in Nat /\ t.reserved[a] \in Nat
        /\ t.reserved[a] <= Cardinality(FeeIds(quotes, a))
        /\ u.reserved[a] = 0 \/ u.reserved[a] + Fee(old, a) <= t.reserved[a] + Fee(new, a)
    BY DEF TotalsOK, Within, Follows
  <2>2. /\ Cardinality(FeeIds(later, a)) = Cardinality(FeeIds(quotes, a)) - Fee(old, a) + Fee(new, a)
        /\ Cardinality(FeeIds(quotes, a)) \in Nat /\ Cardinality(FeeIds(later, a)) \in Nat
        /\ Fee(old, a) \in {0, 1} /\ Fee(new, a) \in {0, 1}
    BY <1>1, <1>2, <1>3, <1>4
  <2>. QED  BY <2>1, <2>2
<1>6. ASSUME NEW p \in PartyB \X PartyA PROVE u.aggregated[p] <= Cardinality(PairIds(later, p[1], p[2]))
  <2>1. /\ u.aggregated[p] \in Nat /\ t.aggregated[p] \in Nat
        /\ t.aggregated[p] <= Cardinality(PairIds(quotes, p[1], p[2]))
        /\ u.aggregated[p] + Open(old, p[1], p[2]) <= t.aggregated[p] + Open(new, p[1], p[2])
    BY DEF TotalsOK, Within, Follows
  <2>2. /\ Cardinality(PairIds(later, p[1], p[2]))
             = Cardinality(PairIds(quotes, p[1], p[2])) - Open(old, p[1], p[2]) + Open(new, p[1], p[2])
        /\ Cardinality(PairIds(quotes, p[1], p[2])) \in Nat
        /\ Open(old, p[1], p[2]) \in {0, 1} /\ Open(new, p[1], p[2]) \in {0, 1}
    BY <1>1, <1>2, <1>4
  <2>. QED  BY <2>1, <2>2
<1>7. ASSUME NEW y \in PartyB
      PROVE  /\ u.cross[y] <= Cardinality(CrossIds(later, y, "OPENED"))
             /\ u.crossPending[y] <= Cardinality(CrossIds(later, y, "LOCKED"))
  <2>1. /\ u.cross[y] \in Nat /\ t.cross[y] \in Nat /\ u.crossPending[y] \in Nat /\ t.crossPending[y] \in Nat
        /\ t.cross[y] <= Cardinality(CrossIds(quotes, y, "OPENED"))
        /\ t.crossPending[y] <= Cardinality(CrossIds(quotes, y, "LOCKED"))
        /\ u.cross[y] + Cross(old, y, "OPENED") <= t.cross[y] + Cross(new, y, "OPENED")
        /\ u.crossPending[y] + Cross(old, y, "LOCKED") <= t.crossPending[y] + Cross(new, y, "LOCKED")
    BY DEF TotalsOK, Within, Follows
  <2>2. ASSUME NEW s
        PROVE  /\ Cardinality(CrossIds(later, y, s))
                    = Cardinality(CrossIds(quotes, y, s)) - Cross(old, y, s) + Cross(new, y, s)
               /\ Cardinality(CrossIds(quotes, y, s)) \in Nat
               /\ Cross(old, y, s) \in {0, 1} /\ Cross(new, y, s) \in {0, 1}
    BY <1>1, <1>2, <1>4
  <2>3. u.cross[y] <= Cardinality(CrossIds(later, y, "OPENED"))
    <3>1. /\ Cardinality(CrossIds(later, y, "OPENED"))
               = Cardinality(CrossIds(quotes, y, "OPENED")) - Cross(old, y, "OPENED") + Cross(new, y, "OPENED")
          /\ Cardinality(CrossIds(quotes, y, "OPENED")) \in Nat
          /\ Cross(old, y, "OPENED") \in {0, 1} /\ Cross(new, y, "OPENED") \in {0, 1}
      BY <2>2
    <3>. QED  BY <2>1, <3>1
  <2>4. u.crossPending[y] <= Cardinality(CrossIds(later, y, "LOCKED"))
    <3>1. /\ Cardinality(CrossIds(later, y, "LOCKED"))
               = Cardinality(CrossIds(quotes, y, "LOCKED")) - Cross(old, y, "LOCKED") + Cross(new, y, "LOCKED")
          /\ Cardinality(CrossIds(quotes, y, "LOCKED")) \in Nat
          /\ Cross(old, y, "LOCKED") \in {0, 1} /\ Cross(new, y, "LOCKED") \in {0, 1}
      BY <2>2
    <3>. QED  BY <2>1, <3>1
  <2>. QED  BY <2>3, <2>4
<1>. QED  BY <1>5, <1>6, <1>7 DEF Within

LEMMA SendCounts ==
  ASSUME CountInv, NEW a \in PartyA, SendQuote(a)
  PROVE  CountInv'
<1>. DEFINE new == [status |-> "PENDING", partyA |-> a, partyB |-> 0]
            later == Append(chain.quotes, new)
            totals == [chain.totals EXCEPT !.reserved[a] = @ + 1]
<1>1. new \in Quote /\ new.status = "PENDING" /\ new.partyA = a
  BY DEF Quote, Status
<1>2. Trade(later, totals)
  BY DEF SendQuote
<1>3. /\ chain.quotes \in Seq(Quote) /\ TotalsOK(chain.totals)
      /\ chain.upgraded /\ ~chain.paused => Within(chain.quotes, chain.totals)
  BY ChainFacts
<1>4. PICK u : u = totals
  OBVIOUS
<1>5. /\ u = [reserved |-> u.reserved, aggregated |-> u.aggregated, cross |-> u.cross,
              crossPending |-> u.crossPending, connected |-> u.connected]
      /\ u.reserved = [chain.totals.reserved EXCEPT ![a] = chain.totals.reserved[a] + 1]
      /\ u.aggregated = chain.totals.aggregated
      /\ u.cross = chain.totals.cross /\ u.crossPending = chain.totals.crossPending
  BY <1>3, <1>4 DEF TotalsOK
<1>6. /\ chain.totals.reserved \in [PartyA -> Nat] /\ chain.totals.aggregated \in [PartyB \X PartyA -> Nat]
      /\ chain.totals.cross \in [PartyB -> Nat] /\ chain.totals.crossPending \in [PartyB -> Nat]
  BY <1>3 DEF TotalsOK
<1>7. /\ u.reserved \in [PartyA -> Nat]
      /\ \A x \in PartyA : u.reserved[x] = IF x = a THEN chain.totals.reserved[a] + 1 ELSE chain.totals.reserved[x]
  BY <1>5, <1>6, Put
<1>8. TotalsOK(u)
  BY <1>5, <1>6, <1>7 DEF TotalsOK
<1>9. \A x : Fee(new, x) = IF x = a THEN 1 ELSE 0
  BY <1>1 DEF Fee, One
<1>10. Trade(later, u)
  BY <1>2, <1>4
<1>. HIDE DEF new, totals
<1>11. /\ later \in Seq(Quote)
       /\ \A x : Cardinality(FeeIds(later, x)) = Cardinality(FeeIds(chain.quotes, x)) + Fee(new, x)
       /\ \A y, x : PairIds(later, y, x) = PairIds(chain.quotes, y, x)
       /\ \A y : /\ CrossIds(later, y, "OPENED") = CrossIds(chain.quotes, y, "OPENED")
                 /\ CrossIds(later, y, "LOCKED") = CrossIds(chain.quotes, y, "LOCKED")
  BY <1>1, <1>3, QuoteAppended
<1>. HIDE DEF later
<1>12. ASSUME chain.upgraded PROVE Within(later, u)
  <2>1. Within(chain.quotes, chain.totals)
    BY <1>3, <1>10, <1>12 DEF Trade
  <2>2. ASSUME NEW x \in PartyA PROVE u.reserved[x] <= Cardinality(FeeIds(later, x))
    <3>1. chain.totals.reserved[x] <= Cardinality(FeeIds(chain.quotes, x)) /\ chain.totals.reserved[x] \in Nat
      BY <1>6, <2>1 DEF Within
    <3>2. Cardinality(FeeIds(chain.quotes, x)) \in Nat
      BY <1>3, AllFinite
    <3>. QED  BY <1>7, <1>9, <1>11, <3>1, <3>2
  <2>. QED  BY <1>5, <1>11, <2>1, <2>2 DEF Within
<1>. QED  BY <1>8, <1>10, <1>11, <1>12, TradeCounts

LEMMA LockCounts ==
  ASSUME CountInv, NEW id \in DOMAIN chain.quotes, NEW b \in PartyB, LockQuote(id, b)
  PROVE  CountInv'
<1>0. PICK t : t = chain.totals
  OBVIOUS
<1>1. PICK old : old = chain.quotes[id]
  OBVIOUS
<1>2. PICK new : new = [old EXCEPT !.status = "LOCKED", !.partyB = b]
  OBVIOUS
<1>3. PICK later : later = [chain.quotes EXCEPT ![id] = new]
  OBVIOUS
<1>4. PICK u : u = [t EXCEPT !.crossPending[b] = @ + 1]
  OBVIOUS
<1>5. /\ chain.quotes \in Seq(Quote) /\ TotalsOK(t) /\ old \in Quote /\ old.status = "PENDING"
      /\ chain.upgraded /\ ~chain.paused => Within(chain.quotes, t)
  BY <1>1, <1>0, ChainFacts DEF LockQuote
<1>6. new \in Quote /\ new.status = "LOCKED" /\ new.partyA = old.partyA /\ new.partyB = b
  BY <1>2, <1>5 DEF Quote, Status
<1>7. later \in Seq(Quote)
  BY <1>3, <1>5, <1>6
<1>8. Trade(later, u)
  <2>1. [chain.quotes EXCEPT ![id].status = "LOCKED", ![id].partyB = b] = later
    BY <1>1, <1>2, <1>3, <1>5
  <2>. QED  BY <1>0, <1>4, <2>1 DEF LockQuote
<1>9. /\ t.reserved \in [PartyA -> Nat] /\ t.aggregated \in [PartyB \X PartyA -> Nat]
      /\ t.cross \in [PartyB -> Nat] /\ t.crossPending \in [PartyB -> Nat]
  BY <1>5 DEF TotalsOK
<1>10. /\ u = [reserved |-> u.reserved, aggregated |-> u.aggregated, cross |-> u.cross,
               crossPending |-> u.crossPending, connected |-> u.connected]
       /\ u.reserved = t.reserved /\ u.aggregated = t.aggregated /\ u.cross = t.cross
       /\ u.crossPending = [t.crossPending EXCEPT ![b] = t.crossPending[b] + 1]
  BY <1>4, <1>5 DEF TotalsOK
<1>11. /\ u.crossPending \in [PartyB -> Nat]
       /\ \A y \in PartyB : u.crossPending[y] = IF y = b THEN t.crossPending[b] + 1 ELSE t.crossPending[y]
  BY <1>9, <1>10, Put
<1>12. TotalsOK(u)
  BY <1>9, <1>10, <1>11 DEF TotalsOK
<1>13. ASSUME chain.upgraded PROVE Within(later, u)
  <2>1. Within(chain.quotes, t)
    BY <1>5, <1>8, <1>13 DEF Trade
  <2>2. ASSUME NEW x \in PartyA PROVE u.reserved[x] = 0 \/ u.reserved[x] + Fee(old, x) <= t.reserved[x] + Fee(new, x)
    BY <1>5, <1>6, <1>9, <1>10 DEF Fee, One
  <2>3. ASSUME NEW p \in PartyB \X PartyA
        PROVE  u.aggregated[p] + Open(old, p[1], p[2]) <= t.aggregated[p] + Open(new, p[1], p[2])
    BY <1>5, <1>6, <1>9, <1>10 DEF Open, One
  <2>4. ASSUME NEW y \in PartyB
        PROVE  u.cross[y] + Cross(old, y, "OPENED") <= t.cross[y] + Cross(new, y, "OPENED")
    BY <1>5, <1>6, <1>9, <1>10 DEF Cross, One
  <2>5. ASSUME NEW y \in PartyB
        PROVE  u.crossPending[y] + Cross(old, y, "LOCKED") <= t.crossPending[y] + Cross(new, y, "LOCKED")
    BY <1>5, <1>6, <1>9, <1>11 DEF Cross, One
  <2>6. Follows(old, new, t, u)
    BY <2>2, <2>3, <2>4, <2>5 DEF Follows
  <2>. QED  BY <1>1, <1>3, <1>5, <1>7, <1>12, <2>1, <2>6, WithinKept
<1>. QED  BY <1>7, <1>8, <1>12, <1>13, TradeCounts

LEMMA OpenCounts ==
  ASSUME CountInv, NEW id \in DOMAIN chain.quotes, OpenPosition(id)
  PROVE  CountInv'
<1>0. PICK t : t = chain.totals
  OBVIOUS
<1>1. PICK old, a, b : old = chain.quotes[id] /\ a = old.partyA /\ b = old.partyB
  OBVIOUS
<1>2. PICK new : new = [old EXCEPT !.status = "OPENED"]
  OBVIOUS
<1>3. PICK later : later = [chain.quotes EXCEPT ![id] = new]
  OBVIOUS
<1>4. PICK moved : moved = [t EXCEPT !.crossPending[b] = @ - 1, !.cross[b] = @ + 1,
                               !.aggregated[<<b, a>>] = @ + 1, !.reserved[a] = Decrease(@)]
  OBVIOUS
<1>5. PICK u : u = AddConnection(moved, a, b)
  OBVIOUS
<1>6. /\ chain.quotes \in Seq(Quote) /\ TotalsOK(t) /\ old \in Quote /\ old.status = "LOCKED" /\ a \in PartyA
      /\ chain.upgraded /\ ~chain.paused => Within(chain.quotes, t)
  BY <1>1, <1>0, ChainFacts DEF OpenPosition
<1>7. new \in Quote /\ new.status = "OPENED" /\ new.partyA = a /\ new.partyB = b
  BY <1>1, <1>2, <1>6 DEF Quote, Status
<1>8. later \in Seq(Quote)
  BY <1>3, <1>6, <1>7
<1>9. Trade(later, u) /\ (chain.upgraded => t.crossPending[b] > 0)
  <2>1. [chain.quotes EXCEPT ![id].status = "OPENED"] = later
    BY <1>1, <1>2, <1>3, <1>6
  <2>. QED  BY <1>0, <1>1, <1>4, <1>5, <2>1 DEF OpenPosition
<1>10. /\ t.reserved \in [PartyA -> Nat] /\ t.aggregated \in [PartyB \X PartyA -> Nat]
       /\ t.cross \in [PartyB -> Nat] /\ t.crossPending \in [PartyB -> Nat]
  BY <1>6 DEF TotalsOK
<1>11. /\ moved = [reserved |-> moved.reserved, aggregated |-> moved.aggregated, cross |-> moved.cross,
                   crossPending |-> moved.crossPending, connected |-> moved.connected]
       /\ moved.reserved = [t.reserved EXCEPT ![a] = Decrease(t.reserved[a])]
       /\ moved.aggregated = [t.aggregated EXCEPT ![<<b, a>>] = t.aggregated[<<b, a>>] + 1]
       /\ moved.cross = [t.cross EXCEPT ![b] = t.cross[b] + 1]
       /\ moved.crossPending = [t.crossPending EXCEPT ![b] = t.crossPending[b] - 1]
  BY <1>4, <1>6 DEF TotalsOK
<1>12. /\ u = [reserved |-> u.reserved, aggregated |-> u.aggregated, cross |-> u.cross,
               crossPending |-> u.crossPending, connected |-> u.connected]
       /\ u.reserved = moved.reserved /\ u.aggregated = moved.aggregated
       /\ u.cross = moved.cross /\ u.crossPending = moved.crossPending
  BY <1>5, <1>11 DEF AddConnection
<1>13. /\ u.reserved \in [PartyA -> Nat]
       /\ \A x \in PartyA : u.reserved[x] = IF x = a THEN Decrease(t.reserved[a]) ELSE t.reserved[x]
  <2>1. Decrease(t.reserved[a]) \in Nat
    BY <1>6, <1>10 DEF Decrease
  <2>2. PICK n : n = Decrease(t.reserved[a])
    OBVIOUS
  <2>3. u.reserved = [t.reserved EXCEPT ![a] = n] /\ t.reserved \in [PartyA -> Nat]
    BY <1>10, <1>11, <1>12, <2>2
  <2>. QED  BY <2>1, <2>2, <2>3
<1>14. /\ u.aggregated \in [PartyB \X PartyA -> Nat]
       /\ \A p \in PartyB \X PartyA :
            u.aggregated[p] = IF p = <<b, a>> THEN t.aggregated[<<b, a>>] + 1 ELSE t.aggregated[p]
  <2>1. <<b, a>> \in PartyB \X PartyA => t.aggregated[<<b, a>>] + 1 \in Nat
    BY <1>10
  <2>2. PICK n : n = t.aggregated[<<b, a>>] + 1
    OBVIOUS
  <2>3. u.aggregated = [t.aggregated EXCEPT ![<<b, a>>] = n] /\ t.aggregated \in [PartyB \X PartyA -> Nat]
    BY <1>10, <1>11, <1>12, <2>2
  <2>. QED  BY <2>1, <2>2, <2>3
<1>15. /\ u.cross \in [PartyB -> Nat]
       /\ \A y \in PartyB : u.cross[y] = IF y = b THEN t.cross[b] + 1 ELSE t.cross[y]
  <2>1. b \in PartyB => t.cross[b] + 1 \in Nat
    BY <1>10
  <2>2. PICK n : n = t.cross[b] + 1
    OBVIOUS
  <2>3. u.cross = [t.cross EXCEPT ![b] = n] /\ t.cross \in [PartyB -> Nat]
    BY <1>10, <1>11, <1>12, <2>2
  <2>. QED  BY <2>1, <2>2, <2>3
<1>16. ASSUME chain.upgraded
       PROVE  /\ u.crossPending \in [PartyB -> Nat]
              /\ \A y \in PartyB : u.crossPending[y] = IF y = b THEN t.crossPending[b] - 1 ELSE t.crossPending[y]
  <2>1. b \in PartyB => t.crossPending[b] - 1 \in Nat
    BY <1>9, <1>10, <1>16
  <2>2. PICK n : n = t.crossPending[b] - 1
    OBVIOUS
  <2>3. u.crossPending = [t.crossPending EXCEPT ![b] = n] /\ t.crossPending \in [PartyB -> Nat]
    BY <1>10, <1>11, <1>12, <2>2
  <2>. QED  BY <2>1, <2>2, <2>3
<1>17. ASSUME chain.upgraded PROVE TotalsOK(u) /\ Within(later, u)
  <2>1. Within(chain.quotes, t)
    BY <1>6, <1>9, <1>17 DEF Trade
  <2>2. ASSUME NEW x \in PartyA PROVE u.reserved[x] = 0 \/ u.reserved[x] + Fee(old, x) <= t.reserved[x] + Fee(new, x)
    BY <1>1, <1>6, <1>7, <1>10, <1>13 DEF Fee, One, Decrease
  <2>3. ASSUME NEW p \in PartyB \X PartyA
        PROVE  u.aggregated[p] + Open(old, p[1], p[2]) <= t.aggregated[p] + Open(new, p[1], p[2])
    <3>1. Open(old, p[1], p[2]) = 0
      BY <1>6 DEF Open, One
    <3>2. p = <<b, a>> => Open(new, p[1], p[2]) = 1
      BY <1>7 DEF Open, One, Between
    <3>3. Open(new, p[1], p[2]) \in {0, 1}
      BY DEF Open, One
    <3>. QED  BY <1>10, <1>14, <3>1, <3>2, <3>3
  <2>4. ASSUME NEW y \in PartyB
        PROVE  u.cross[y] + Cross(old, y, "OPENED") <= t.cross[y] + Cross(new, y, "OPENED")
    BY <1>6, <1>7, <1>10, <1>15 DEF Cross, One
  <2>5. ASSUME NEW y \in PartyB
        PROVE  u.crossPending[y] + Cross(old, y, "LOCKED") <= t.crossPending[y] + Cross(new, y, "LOCKED")
    BY <1>1, <1>6, <1>7, <1>10, <1>16, <1>17 DEF Cross, One
  <2>6. TotalsOK(u)
    BY <1>12, <1>13, <1>14, <1>15, <1>16, <1>17 DEF TotalsOK
  <2>7. Follows(old, new, t, u)
    BY <2>2, <2>3, <2>4, <2>5 DEF Follows
  <2>8. Within(later, u)
    BY <1>1, <1>3, <1>6, <1>8, <2>1, <2>6, <2>7, WithinKept
  <2>. QED  BY <2>6, <2>8
<1>. QED  BY <1>8, <1>9, <1>17, TradeCounts

LEMMA ExpireCounts ==
  ASSUME CountInv, NEW id \in DOMAIN chain.quotes, ExpireQuote(id)
  PROVE  CountInv'
<1>0. PICK t : t = chain.totals
  OBVIOUS
<1>1. PICK old, a : old = chain.quotes[id] /\ a = old.partyA
  OBVIOUS
<1>2. PICK new : new = [old EXCEPT !.status = "CLOSED"]
  OBVIOUS
<1>3. PICK later : later = [chain.quotes EXCEPT ![id] = new]
  OBVIOUS
<1>4. PICK u : u = [t EXCEPT !.reserved[a] = Decrease(@)]
  OBVIOUS
<1>5. /\ chain.quotes \in Seq(Quote) /\ TotalsOK(t) /\ old \in Quote /\ old.status = "PENDING" /\ a \in PartyA
      /\ chain.upgraded /\ ~chain.paused => Within(chain.quotes, t)
  BY <1>1, <1>0, ChainFacts DEF ExpireQuote
<1>6. new \in Quote /\ new.status = "CLOSED" /\ new.partyA = a
  BY <1>1, <1>2, <1>5 DEF Quote, Status
<1>7. later \in Seq(Quote)
  BY <1>3, <1>5, <1>6
<1>8. Trade(later, u)
  <2>1. [chain.quotes EXCEPT ![id].status = "CLOSED"] = later
    BY <1>1, <1>2, <1>3, <1>5
  <2>. QED  BY <1>0, <1>1, <1>4, <2>1 DEF ExpireQuote
<1>9. /\ t.reserved \in [PartyA -> Nat] /\ t.aggregated \in [PartyB \X PartyA -> Nat]
      /\ t.cross \in [PartyB -> Nat] /\ t.crossPending \in [PartyB -> Nat]
  BY <1>5 DEF TotalsOK
<1>10. /\ u = [reserved |-> u.reserved, aggregated |-> u.aggregated, cross |-> u.cross,
               crossPending |-> u.crossPending, connected |-> u.connected]
       /\ u.reserved = [t.reserved EXCEPT ![a] = Decrease(t.reserved[a])]
       /\ u.aggregated = t.aggregated /\ u.cross = t.cross /\ u.crossPending = t.crossPending
  BY <1>4, <1>5 DEF TotalsOK
<1>11. /\ u.reserved \in [PartyA -> Nat]
       /\ \A x \in PartyA : u.reserved[x] = IF x = a THEN Decrease(t.reserved[a]) ELSE t.reserved[x]
  <2>1. Decrease(t.reserved[a]) \in Nat
    BY <1>5, <1>9 DEF Decrease
  <2>2. PICK n : n = Decrease(t.reserved[a])
    OBVIOUS
  <2>. QED  BY <1>9, <1>10, <2>1, <2>2
<1>12. TotalsOK(u)
  BY <1>9, <1>10, <1>11 DEF TotalsOK
<1>13. ASSUME chain.upgraded PROVE Within(later, u)
  <2>1. Within(chain.quotes, t)
    BY <1>5, <1>8, <1>13 DEF Trade
  <2>2. ASSUME NEW x \in PartyA PROVE u.reserved[x] = 0 \/ u.reserved[x] + Fee(old, x) <= t.reserved[x] + Fee(new, x)
    BY <1>1, <1>5, <1>6, <1>9, <1>11 DEF Fee, One, Decrease
  <2>3. ASSUME NEW p \in PartyB \X PartyA
        PROVE  u.aggregated[p] + Open(old, p[1], p[2]) <= t.aggregated[p] + Open(new, p[1], p[2])
    BY <1>5, <1>6, <1>9, <1>10 DEF Open, One
  <2>4. ASSUME NEW y \in PartyB
        PROVE  u.cross[y] + Cross(old, y, "OPENED") <= t.cross[y] + Cross(new, y, "OPENED")
    BY <1>5, <1>6, <1>9, <1>10 DEF Cross, One
  <2>5. ASSUME NEW y \in PartyB
        PROVE  u.crossPending[y] + Cross(old, y, "LOCKED") <= t.crossPending[y] + Cross(new, y, "LOCKED")
    BY <1>5, <1>6, <1>9, <1>10 DEF Cross, One
  <2>6. Follows(old, new, t, u)
    BY <2>2, <2>3, <2>4, <2>5 DEF Follows
  <2>. QED  BY <1>1, <1>3, <1>5, <1>7, <1>12, <2>1, <2>6, WithinKept
<1>. QED  BY <1>7, <1>8, <1>12, <1>13, TradeCounts

LEMMA CloseCounts ==
  ASSUME CountInv, NEW id \in DOMAIN chain.quotes, CloseQuote(id)
  PROVE  CountInv'
<1>0. PICK t : t = chain.totals
  OBVIOUS
<1>1. PICK old, a, b : old = chain.quotes[id] /\ a = old.partyA /\ b = old.partyB
  OBVIOUS
<1>2. PICK new : new = [old EXCEPT !.status = "CLOSED"]
  OBVIOUS
<1>3. PICK later : later = [chain.quotes EXCEPT ![id] = new]
  OBVIOUS
<1>4. PICK rest : rest = IF LockedOf(later, b, a) + PendingOf(later, b, a) = 0
                         THEN t.connected \ {<<a, b>>} ELSE t.connected
  OBVIOUS
<1>5. PICK u : u = [t EXCEPT !.aggregated[<<b, a>>] = @ - 1, !.cross[b] = @ - 1, !.connected = rest]
  OBVIOUS
<1>6. /\ chain.quotes \in Seq(Quote) /\ TotalsOK(t) /\ old \in Quote /\ old.status = "OPENED" /\ a \in PartyA
      /\ chain.upgraded /\ ~chain.paused => Within(chain.quotes, t)
  BY <1>1, <1>0, ChainFacts DEF CloseQuote
<1>7. new \in Quote /\ new.status = "CLOSED"
  BY <1>1, <1>2, <1>6 DEF Quote, Status
<1>8. later \in Seq(Quote)
  BY <1>3, <1>6, <1>7
<1>9. Trade(later, u) /\ (chain.upgraded => t.aggregated[<<b, a>>] > 0 /\ t.cross[b] > 0)
  <2>1. [chain.quotes EXCEPT ![id].status = "CLOSED"] = later
    BY <1>1, <1>2, <1>3, <1>6
  <2>2. u = [t EXCEPT !.aggregated[<<b, a>>] = @ - 1, !.cross[b] = @ - 1,
                      !.connected = IF LockedOf(later, b, a) + PendingOf(later, b, a) = 0
                                    THEN @ \ {<<a, b>>} ELSE @]
    BY <1>4, <1>5
  <2>. QED  BY <1>0, <1>1, <2>1, <2>2 DEF CloseQuote
<1>10. /\ t.reserved \in [PartyA -> Nat] /\ t.aggregated \in [PartyB \X PartyA -> Nat]
       /\ t.cross \in [PartyB -> Nat] /\ t.crossPending \in [PartyB -> Nat]
  BY <1>6 DEF TotalsOK
<1>11. /\ u = [reserved |-> u.reserved, aggregated |-> u.aggregated, cross |-> u.cross,
               crossPending |-> u.crossPending, connected |-> u.connected]
       /\ u.aggregated = [t.aggregated EXCEPT ![<<b, a>>] = t.aggregated[<<b, a>>] - 1]
       /\ u.cross = [t.cross EXCEPT ![b] = t.cross[b] - 1]
       /\ u.reserved = t.reserved /\ u.crossPending = t.crossPending
  BY <1>5, <1>6 DEF TotalsOK
<1>12. ASSUME chain.upgraded
       PROVE  /\ u.aggregated \in [PartyB \X PartyA -> Nat]
              /\ \A p \in PartyB \X PartyA :
                   u.aggregated[p] = IF p = <<b, a>> THEN t.aggregated[<<b, a>>] - 1 ELSE t.aggregated[p]
  <2>1. <<b, a>> \in PartyB \X PartyA => t.aggregated[<<b, a>>] - 1 \in Nat
    BY <1>9, <1>10, <1>12
  <2>2. PICK n : n = t.aggregated[<<b, a>>] - 1
    OBVIOUS
  <2>. QED  BY <1>10, <1>11, <2>1, <2>2
<1>13. ASSUME chain.upgraded
       PROVE  /\ u.cross \in [PartyB -> Nat]
              /\ \A y \in PartyB : u.cross[y] = IF y = b THEN t.cross[b] - 1 ELSE t.cross[y]
  <2>1. b \in PartyB => t.cross[b] - 1 \in Nat
    BY <1>9, <1>10, <1>13
  <2>2. PICK n : n = t.cross[b] - 1
    OBVIOUS
  <2>. QED  BY <1>10, <1>11, <2>1, <2>2
<1>14. ASSUME chain.upgraded PROVE TotalsOK(u) /\ Within(later, u)
  <2>1. Within(chain.quotes, t)
    BY <1>6, <1>9, <1>14 DEF Trade
  <2>2. ASSUME NEW x \in PartyA PROVE u.reserved[x] = 0 \/ u.reserved[x] + Fee(old, x) <= t.reserved[x] + Fee(new, x)
    BY <1>6, <1>7, <1>10, <1>11 DEF Fee, One
  <2>3. ASSUME NEW p \in PartyB \X PartyA
        PROVE  u.aggregated[p] + Open(old, p[1], p[2]) <= t.aggregated[p] + Open(new, p[1], p[2])
    <3>1. Open(new, p[1], p[2]) = 0
      BY <1>7 DEF Open, One
    <3>2. p # <<b, a>> => Open(old, p[1], p[2]) = 0
      BY <1>1 DEF Open, One, Between
    <3>3. Open(old, p[1], p[2]) \in {0, 1}
      BY DEF Open, One
    <3>. QED  BY <1>10, <1>12, <1>14, <3>1, <3>2, <3>3
  <2>4. ASSUME NEW y \in PartyB
        PROVE  u.cross[y] + Cross(old, y, "OPENED") <= t.cross[y] + Cross(new, y, "OPENED")
    BY <1>1, <1>6, <1>7, <1>10, <1>13, <1>14 DEF Cross, One
  <2>5. ASSUME NEW y \in PartyB
        PROVE  u.crossPending[y] + Cross(old, y, "LOCKED") <= t.crossPending[y] + Cross(new, y, "LOCKED")
    BY <1>6, <1>7, <1>10, <1>11 DEF Cross, One
  <2>6. TotalsOK(u)
    BY <1>10, <1>11, <1>12, <1>13, <1>14 DEF TotalsOK
  <2>7. Follows(old, new, t, u)
    BY <2>2, <2>3, <2>4, <2>5 DEF Follows
  <2>8. Within(later, u)
    BY <1>1, <1>3, <1>6, <1>8, <2>1, <2>6, <2>7, WithinKept
  <2>. QED  BY <2>6, <2>8
<1>. QED  BY <1>8, <1>9, <1>14, TradeCounts

-----------------------------------------------------------------------------
(* The migration transactions                                               *)

\* d is c after a migration transaction.
Counted(c, d) ==
  /\ ChainOK(d) /\ WithinMarked(d)
  /\ d.upgraded = c.upgraded /\ d.paused = c.paused /\ d.migrator = c.migrator /\ d.post = c.post

\* migrateQuotes counts each quote that is not marked, once, and marks it.
LEMMA QuotesCounted ==
  ASSUME NEW c, ChainOK(c), WithinMarked(c), NEW ids, NEW d, d = MigrateQuotes(c, ids)
  PROVE  Counted(c, d)
<1>. DEFINE t == c.totals
<1>1. PICK S : S = Uncounted(c, ids)
  OBVIOUS
<1>2. PICK u : u = [t EXCEPT
          !.reserved = [a \in PartyA |-> t.reserved[a]
                          + Cardinality({ id \in S : c.quotes[id].partyA = a /\ c.quotes[id].status # "OPENED" })],
          !.aggregated = [p \in PartyB \X PartyA |-> t.aggregated[p]
                            + Cardinality({ id \in S : Between(c.quotes[id], p[1], p[2]) /\ c.quotes[id].status = "OPENED" })],
          !.connected = t.connected \cup { <<c.quotes[id].partyA, c.quotes[id].partyB>> :
                                             id \in { i \in S : c.quotes[i].status = "OPENED" } }]
  OBVIOUS
<1>3. d = [c EXCEPT !.quoteMigrated = c.quoteMigrated \cup S, !.totals = u]
  BY <1>1, <1>2 DEF MigrateQuotes
<1>4. /\ c = [quotes |-> c.quotes, totals |-> c.totals, quoteMigrated |-> c.quoteMigrated,
              pairsMigrated |-> c.pairsMigrated, paused |-> c.paused, upgraded |-> c.upgraded,
              migrator |-> c.migrator, post |-> c.post]
      /\ c.quotes \in Seq(Quote) /\ TotalsOK(t)
      /\ t = [reserved |-> t.reserved, aggregated |-> t.aggregated, cross |-> t.cross,
              crossPending |-> t.crossPending, connected |-> t.connected]
      /\ t.reserved \in [PartyA -> Nat] /\ t.aggregated \in [PartyB \X PartyA -> Nat]
      /\ t.cross \in [PartyB -> Nat] /\ t.crossPending \in [PartyB -> Nat]
  BY DEF ChainOK, TotalsOK
<1>5. /\ d.quotes = c.quotes /\ d.totals = u /\ d.quoteMigrated = c.quoteMigrated \cup S
      /\ d.pairsMigrated = c.pairsMigrated /\ d.paused = c.paused /\ d.upgraded = c.upgraded
      /\ d.migrator = c.migrator /\ d.post = c.post
      /\ d = [quotes |-> d.quotes, totals |-> d.totals, quoteMigrated |-> d.quoteMigrated,
              pairsMigrated |-> d.pairsMigrated, paused |-> d.paused, upgraded |-> d.upgraded,
              migrator |-> d.migrator, post |-> d.post]
  BY <1>3, <1>4
<1>6. /\ u = [reserved |-> u.reserved, aggregated |-> u.aggregated, cross |-> u.cross,
              crossPending |-> u.crossPending, connected |-> u.connected]
      /\ u.cross = t.cross /\ u.crossPending = t.crossPending
      /\ u.reserved = [a \in PartyA |-> t.reserved[a]
                         + Cardinality({ id \in S : c.quotes[id].partyA = a /\ c.quotes[id].status # "OPENED" })]
      /\ u.aggregated = [p \in PartyB \X PartyA |-> t.aggregated[p]
                           + Cardinality({ id \in S : Between(c.quotes[id], p[1], p[2]) /\ c.quotes[id].status = "OPENED" })]
  BY <1>2, <1>4
<1>7. /\ S \subseteq DOMAIN c.quotes /\ S \cap c.quoteMigrated = {}
      /\ \A id \in S : c.quotes[id].status \in {"PENDING", "LOCKED", "OPENED"}
  <2>0. \A id \in DOMAIN c.quotes : c.quotes[id] \in Quote
    BY <1>4
  <2>1. \A id \in DOMAIN c.quotes : c.quotes[id].status \in Status
    BY <2>0 DEF Quote
  <2>. QED  BY <1>1, <2>1 DEF Uncounted, Status
<1>. HIDE DEF t
<1>8. ASSUME NEW a \in PartyA
      PROVE  u.reserved[a] \in Nat /\ u.reserved[a] <= Cardinality(FeeIds(c.quotes, a) \cap d.quoteMigrated)
  <2>. DEFINE M == FeeIds(c.quotes, a) \cap c.quoteMigrated
              N == { id \in S : c.quotes[id].partyA = a /\ c.quotes[id].status # "OPENED" }
  <2>1. FeeIds(c.quotes, a) \cap d.quoteMigrated = M \cup N /\ M \cap N = {}
    BY <1>5, <1>7 DEF FeeIds
  <2>2. M \subseteq DOMAIN c.quotes /\ N \subseteq DOMAIN c.quotes
    BY <1>7 DEF FeeIds
  <2>3. u.reserved[a] = t.reserved[a] + Cardinality(N) /\ t.reserved[a] \in Nat
    BY <1>4, <1>6
  <2>4. t.reserved[a] <= Cardinality(M)
    BY DEF WithinMarked, t
  <2>. HIDE DEF M, N
  <2>5. IsFiniteSet(M) /\ IsFiniteSet(N) /\ Cardinality(M) \in Nat /\ Cardinality(N) \in Nat
    BY <1>4, <2>2, IdsFinite
  <2>6. Cardinality(FeeIds(c.quotes, a) \cap d.quoteMigrated) = Cardinality(M) + Cardinality(N)
    BY <2>1, <2>5, Gains
  <2>. QED  BY <2>3, <2>4, <2>5, <2>6
<1>9. ASSUME NEW p \in PartyB \X PartyA
      PROVE  u.aggregated[p] \in Nat
             /\ u.aggregated[p] <= Cardinality(PairIds(c.quotes, p[1], p[2]) \cap d.quoteMigrated)
  <2>. DEFINE M == PairIds(c.quotes, p[1], p[2]) \cap c.quoteMigrated
              N == { id \in S : Between(c.quotes[id], p[1], p[2]) /\ c.quotes[id].status = "OPENED" }
  <2>1. PairIds(c.quotes, p[1], p[2]) \cap d.quoteMigrated = M \cup N /\ M \cap N = {}
    BY <1>5, <1>7 DEF PairIds
  <2>2. M \subseteq DOMAIN c.quotes /\ N \subseteq DOMAIN c.quotes
    BY <1>7 DEF PairIds
  <2>3. u.aggregated[p] = t.aggregated[p] + Cardinality(N) /\ t.aggregated[p] \in Nat
    BY <1>4, <1>6
  <2>4. t.aggregated[p] <= Cardinality(M)
    BY DEF WithinMarked, t
  <2>. HIDE DEF M, N
  <2>5. IsFiniteSet(M) /\ IsFiniteSet(N) /\ Cardinality(M) \in Nat /\ Cardinality(N) \in Nat
    BY <1>4, <2>2, IdsFinite
  <2>6. Cardinality(PairIds(c.quotes, p[1], p[2]) \cap d.quoteMigrated) = Cardinality(M) + Cardinality(N)
    BY <2>1, <2>5, Gains
  <2>. QED  BY <2>3, <2>4, <2>5, <2>6
<1>10. ASSUME NEW b \in PartyB
       PROVE  /\ u.cross[b] <= Cardinality(AddedIds(d, b, "OPENED"))
              /\ u.crossPending[b] <= Cardinality(AddedIds(d, b, "LOCKED"))
  <2>1. AddedIds(d, b, "OPENED") = AddedIds(c, b, "OPENED") /\ AddedIds(d, b, "LOCKED") = AddedIds(c, b, "LOCKED")
    BY <1>5 DEF AddedIds
  <2>. QED  BY <1>6, <2>1 DEF WithinMarked, t
<1>11. u.reserved \in [PartyA -> Nat] /\ u.aggregated \in [PartyB \X PartyA -> Nat]
  BY <1>6, <1>8, <1>9
<1>12. TotalsOK(u)
  BY <1>4, <1>6, <1>11 DEF TotalsOK
<1>13. ChainOK(d)
  BY <1>4, <1>5, <1>12 DEF ChainOK
<1>14. WithinMarked(d)
  BY <1>5, <1>8, <1>9, <1>10 DEF WithinMarked
<1>. QED  BY <1>5, <1>13, <1>14 DEF Counted

\* migrateCrossLockedValues adds up each pair that is not marked, once, and marks it.
LEMMA PoolsCounted ==
  ASSUME NEW c, ChainOK(c), WithinMarked(c), NEW b, NEW partyAs,
         NEW d, d = MigrateCrossLockedValues(c, b, partyAs)
  PROVE  Counted(c, d)
<1>. DEFINE t == c.totals
<1>1. PICK F : F = { a \in Range(partyAs) : <<b, a>> \notin c.pairsMigrated }
  OBVIOUS
<1>. DEFINE Fresh(s) == { id \in DOMAIN c.quotes :
                            c.quotes[id].partyB = b /\ c.quotes[id].partyA \in F /\ c.quotes[id].status = s }
<1>2. PICK opened, locked : opened = Cardinality(Fresh("OPENED")) /\ locked = Cardinality(Fresh("LOCKED"))
  OBVIOUS
<1>3. PICK u : u = [t EXCEPT !.cross[b] = t.cross[b] + opened, !.crossPending[b] = t.crossPending[b] + locked]
  OBVIOUS
<1>4. d = [c EXCEPT !.pairsMigrated = c.pairsMigrated \cup { <<b, a>> : a \in F }, !.totals = u]
  BY <1>1, <1>2, <1>3 DEF MigrateCrossLockedValues, CountQuotes
<1>5. /\ c = [quotes |-> c.quotes, totals |-> c.totals, quoteMigrated |-> c.quoteMigrated,
              pairsMigrated |-> c.pairsMigrated, paused |-> c.paused, upgraded |-> c.upgraded,
              migrator |-> c.migrator, post |-> c.post]
      /\ c.quotes \in Seq(Quote) /\ TotalsOK(t)
      /\ t = [reserved |-> t.reserved, aggregated |-> t.aggregated, cross |-> t.cross,
              crossPending |-> t.crossPending, connected |-> t.connected]
      /\ t.reserved \in [PartyA -> Nat] /\ t.aggregated \in [PartyB \X PartyA -> Nat]
      /\ t.cross \in [PartyB -> Nat] /\ t.crossPending \in [PartyB -> Nat]
  BY DEF ChainOK, TotalsOK
<1>6. /\ d.quotes = c.quotes /\ d.totals = u /\ d.quoteMigrated = c.quoteMigrated
      /\ d.pairsMigrated = c.pairsMigrated \cup { <<b, a>> : a \in F }
      /\ d.paused = c.paused /\ d.upgraded = c.upgraded
      /\ d.migrator = c.migrator /\ d.post = c.post
      /\ d = [quotes |-> d.quotes, totals |-> d.totals, quoteMigrated |-> d.quoteMigrated,
              pairsMigrated |-> d.pairsMigrated, paused |-> d.paused, upgraded |-> d.upgraded,
              migrator |-> d.migrator, post |-> d.post]
  BY <1>4, <1>5
<1>7. /\ u = [reserved |-> u.reserved, aggregated |-> u.aggregated, cross |-> u.cross,
              crossPending |-> u.crossPending, connected |-> u.connected]
      /\ u.reserved = t.reserved /\ u.aggregated = t.aggregated
      /\ u.cross = [t.cross EXCEPT ![b] = t.cross[b] + opened]
      /\ u.crossPending = [t.crossPending EXCEPT ![b] = t.crossPending[b] + locked]
  BY <1>3, <1>5
<1>. HIDE DEF t
<1>8. opened \in Nat /\ locked \in Nat
  <2>1. \A s : Fresh(s) \subseteq DOMAIN c.quotes
    OBVIOUS
  <2>. HIDE DEF Fresh
  <2>. QED  BY <1>2, <1>5, <2>1, IdsFinite
<1>9. /\ u.cross \in [PartyB -> Nat]
      /\ \A y \in PartyB : u.cross[y] = IF y = b THEN t.cross[b] + opened ELSE t.cross[y]
  <2>1. b \in PartyB => t.cross[b] + opened \in Nat
    BY <1>5, <1>8
  <2>2. PICK n : n = t.cross[b] + opened
    OBVIOUS
  <2>3. u.cross = [t.cross EXCEPT ![b] = n] /\ t.cross \in [PartyB -> Nat]
    BY <1>5, <1>7, <2>2
  <2>. QED  BY <2>1, <2>2, <2>3
<1>10. /\ u.crossPending \in [PartyB -> Nat]
       /\ \A y \in PartyB : u.crossPending[y] = IF y = b THEN t.crossPending[b] + locked ELSE t.crossPending[y]
  <2>1. b \in PartyB => t.crossPending[b] + locked \in Nat
    BY <1>5, <1>8
  <2>2. PICK n : n = t.crossPending[b] + locked
    OBVIOUS
  <2>3. u.crossPending = [t.crossPending EXCEPT ![b] = n] /\ t.crossPending \in [PartyB -> Nat]
    BY <1>5, <1>7, <2>2
  <2>. QED  BY <2>1, <2>2, <2>3
<1>11. ASSUME NEW s
       PROVE  /\ \A y : y # b => AddedIds(d, y, s) = AddedIds(c, y, s)
              /\ Cardinality(AddedIds(d, b, s)) = Cardinality(AddedIds(c, b, s)) + Cardinality(Fresh(s))
              /\ Cardinality(AddedIds(c, b, s)) \in Nat /\ Cardinality(Fresh(s)) \in Nat
  <2>1. \A y, a : <<y, a>> \in d.pairsMigrated <=> <<y, a>> \in c.pairsMigrated \/ (y = b /\ a \in F)
    BY <1>6
  <2>2. \A y : y # b => AddedIds(d, y, s) = AddedIds(c, y, s)
    BY <1>6, <2>1 DEF AddedIds
  <2>3. AddedIds(d, b, s) = AddedIds(c, b, s) \cup Fresh(s)
    BY <1>6, <2>1 DEF AddedIds, CrossIds
  <2>4. AddedIds(c, b, s) \cap Fresh(s) = {}
    BY <1>1 DEF AddedIds, CrossIds
  <2>5. AddedIds(c, b, s) \subseteq DOMAIN c.quotes /\ Fresh(s) \subseteq DOMAIN c.quotes
    BY DEF AddedIds, CrossIds
  <2>. HIDE DEF Fresh
  <2>6. IsFiniteSet(AddedIds(c, b, s)) /\ IsFiniteSet(Fresh(s))
    BY <1>5, <2>5, IdsFinite
  <2>7. /\ Cardinality(AddedIds(d, b, s)) = Cardinality(AddedIds(c, b, s)) + Cardinality(Fresh(s))
        /\ Cardinality(AddedIds(c, b, s)) \in Nat /\ Cardinality(Fresh(s)) \in Nat
    BY <2>3, <2>4, <2>6, Gains
  <2>. QED  BY <2>2, <2>7
<1>. HIDE DEF Fresh
<1>12. ASSUME NEW y \in PartyB
       PROVE  /\ u.cross[y] <= Cardinality(AddedIds(d, y, "OPENED"))
              /\ u.crossPending[y] <= Cardinality(AddedIds(d, y, "LOCKED"))
  <2>1. /\ t.cross[y] <= Cardinality(AddedIds(c, y, "OPENED")) /\ t.cross[y] \in Nat
        /\ t.crossPending[y] <= Cardinality(AddedIds(c, y, "LOCKED")) /\ t.crossPending[y] \in Nat
    BY <1>5 DEF WithinMarked, t
  <2>2. CASE y # b
    <3>1. /\ AddedIds(d, y, "OPENED") = AddedIds(c, y, "OPENED")
          /\ AddedIds(d, y, "LOCKED") = AddedIds(c, y, "LOCKED")
      BY <1>11, <2>2
    <3>. QED  BY <1>9, <1>10, <2>1, <2>2, <3>1
  <2>3. CASE y = b
    <3>1. /\ Cardinality(AddedIds(d, y, "OPENED")) = Cardinality(AddedIds(c, y, "OPENED")) + opened
          /\ Cardinality(AddedIds(d, y, "LOCKED")) = Cardinality(AddedIds(c, y, "LOCKED")) + locked
          /\ Cardinality(AddedIds(c, y, "OPENED")) \in Nat /\ Cardinality(AddedIds(c, y, "LOCKED")) \in Nat
      BY <1>2, <1>11, <2>3
    <3>. QED  BY <1>8, <1>9, <1>10, <2>1, <2>3, <3>1
  <2>. QED  BY <2>2, <2>3
<1>13. TotalsOK(u)
  BY <1>5, <1>7, <1>9, <1>10 DEF TotalsOK
<1>14. ChainOK(d)
  BY <1>5, <1>6, <1>13 DEF ChainOK
<1>15. WithinMarked(d)
  BY <1>6, <1>7, <1>12 DEF WithinMarked, t
<1>. QED  BY <1>6, <1>14, <1>15 DEF Counted

LEMMA MineCounts ==
  ASSUME CountInv, Mine
  PROVE  CountInv'
<1>1. PICK tx : tx = Head(mempool)
  OBVIOUS
<1>2. chain' = IF Reverts(chain, tx) THEN chain ELSE Effect(chain, tx)
  BY <1>1 DEF Mine
<1>3. CASE Reverts(chain, tx)
  BY <1>2, <1>3 DEF CountInv
<1>4. CASE ~Reverts(chain, tx)
  <2>1. chain.migrator
    BY <1>4 DEF Reverts
  <2>2. chain.post = 0 /\ chain.upgraded /\ ChainOK(chain) /\ WithinMarked(chain) /\ Phases(chain)
    BY <2>1 DEF CountInv, Phases, ChainOK
  <2>3. PICK c, d, b, items : c = chain /\ d = chain' /\ b = tx.partyB /\ items = tx.items
    OBVIOUS
  <2>4. ChainOK(c) /\ WithinMarked(c)
    BY <2>2, <2>3
  <2>5. ASSUME b = 0 PROVE Counted(c, d)
    <3>1. d = MigrateQuotes(c, items)
      BY <1>2, <1>4, <2>3, <2>5 DEF Effect
    <3>. QED  BY <2>4, <3>1, QuotesCounted
  <2>6. ASSUME b # 0 PROVE Counted(c, d)
    <3>1. d = MigrateCrossLockedValues(c, b, items)
      BY <1>2, <1>4, <2>3, <2>6 DEF Effect
    <3>. QED  BY <2>4, <3>1, PoolsCounted
  <2>7. Counted(c, d)
    BY <2>5, <2>6
  <2>8. Phases(chain')
    BY <2>1, <2>2, <2>3, <2>7 DEF Phases, Counted
  <2>. QED  BY <2>2, <2>3, <2>7, <2>8 DEF CountInv, Counted
<1>. QED  BY <1>3, <1>4

-----------------------------------------------------------------------------
(* The procedure                                                            *)

LEMMA MarkedIsWithin ==
  ASSUME NEW c, ChainOK(c), WithinMarked(c)
  PROVE  Within(c.quotes, c.totals)
<1>1. /\ c.quotes \in Seq(Quote)
      /\ c.totals.reserved \in [PartyA -> Nat] /\ c.totals.aggregated \in [PartyB \X PartyA -> Nat]
      /\ c.totals.cross \in [PartyB -> Nat] /\ c.totals.crossPending \in [PartyB -> Nat]
  BY DEF ChainOK, TotalsOK
<1>2. /\ \A a : IsFiniteSet(FeeIds(c.quotes, a))
      /\ \A b, a : IsFiniteSet(PairIds(c.quotes, b, a))
      /\ \A b, s : IsFiniteSet(CrossIds(c.quotes, b, s))
  BY <1>1, AllFinite
<1>3. ASSUME NEW a \in PartyA PROVE c.totals.reserved[a] <= Cardinality(FeeIds(c.quotes, a))
  <2>1. PICK S, T : S = FeeIds(c.quotes, a) /\ T = FeeIds(c.quotes, a) \cap c.quoteMigrated
    OBVIOUS
  <2>2. Cardinality(T) \in Nat /\ Cardinality(S) \in Nat /\ Cardinality(T) <= Cardinality(S)
    BY <1>2, <2>1, PartOf
  <2>3. c.totals.reserved[a] <= Cardinality(T) /\ c.totals.reserved[a] \in Nat
    BY <1>1, <2>1 DEF WithinMarked
  <2>. QED  BY <2>1, <2>2, <2>3
<1>4. ASSUME NEW p \in PartyB \X PartyA
      PROVE  c.totals.aggregated[p] <= Cardinality(PairIds(c.quotes, p[1], p[2]))
  <2>1. PICK S, T : S = PairIds(c.quotes, p[1], p[2]) /\ T = PairIds(c.quotes, p[1], p[2]) \cap c.quoteMigrated
    OBVIOUS
  <2>2. Cardinality(T) \in Nat /\ Cardinality(S) \in Nat /\ Cardinality(T) <= Cardinality(S)
    BY <1>2, <2>1, PartOf
  <2>3. c.totals.aggregated[p] <= Cardinality(T) /\ c.totals.aggregated[p] \in Nat
    BY <1>1, <2>1 DEF WithinMarked
  <2>. QED  BY <2>1, <2>2, <2>3
<1>5. ASSUME NEW b \in PartyB
      PROVE  /\ c.totals.cross[b] <= Cardinality(CrossIds(c.quotes, b, "OPENED"))
             /\ c.totals.crossPending[b] <= Cardinality(CrossIds(c.quotes, b, "LOCKED"))
  <2>1. ASSUME NEW s
        PROVE  /\ Cardinality(AddedIds(c, b, s)) \in Nat /\ Cardinality(CrossIds(c.quotes, b, s)) \in Nat
               /\ Cardinality(AddedIds(c, b, s)) <= Cardinality(CrossIds(c.quotes, b, s))
    <3>1. AddedIds(c, b, s) \subseteq CrossIds(c.quotes, b, s)
      BY DEF AddedIds
    <3>. QED  BY <1>2, <3>1, PartOf
  <2>2. /\ Cardinality(AddedIds(c, b, "OPENED")) \in Nat /\ Cardinality(CrossIds(c.quotes, b, "OPENED")) \in Nat
        /\ Cardinality(AddedIds(c, b, "OPENED")) <= Cardinality(CrossIds(c.quotes, b, "OPENED"))
    BY <2>1
  <2>3. /\ Cardinality(AddedIds(c, b, "LOCKED")) \in Nat /\ Cardinality(CrossIds(c.quotes, b, "LOCKED")) \in Nat
        /\ Cardinality(AddedIds(c, b, "LOCKED")) <= Cardinality(CrossIds(c.quotes, b, "LOCKED"))
    BY <2>1
  <2>. QED  BY <1>1, <2>2, <2>3 DEF WithinMarked
<1>. QED  BY <1>3, <1>4, <1>5 DEF Within

\* A step that changes nothing of the chain but the state of the procedure.
LEMMA Proceeds ==
  ASSUME NEW c, ChainOK(c), NEW d, ChainOK(d), d.quotes = c.quotes, d.totals = c.totals,
         d.quoteMigrated = c.quoteMigrated, d.pairsMigrated = c.pairsMigrated
  PROVE  /\ WithinMarked(c) => WithinMarked(d)
         /\ WithinMarked(c) => Within(d.quotes, d.totals)
<1>1. ASSUME WithinMarked(c) PROVE WithinMarked(d)
  <2>1. \A b, s : AddedIds(d, b, s) = AddedIds(c, b, s)
    BY DEF AddedIds
  <2>. QED  BY <1>1, <2>1 DEF WithinMarked
<1>2. WithinMarked(d) => Within(d.quotes, d.totals)
  BY MarkedIsWithin
<1>. QED  BY <1>1, <1>2

LEMMA PauseCounts ==
  ASSUME CountInv, Pause
  PROVE  CountInv'
<1>1. ChainOK(chain) /\ Phases(chain) /\ ~chain.upgraded /\ chain' = [chain EXCEPT !.paused = TRUE]
  BY DEF CountInv, Pause
<1>2. /\ chain'.quotes = chain.quotes /\ chain'.totals = chain.totals
      /\ chain'.quoteMigrated = chain.quoteMigrated /\ chain'.pairsMigrated = chain.pairsMigrated
      /\ chain'.paused = TRUE /\ chain'.upgraded = chain.upgraded
      /\ chain'.migrator = chain.migrator /\ chain'.post = chain.post
      /\ chain' = [quotes |-> chain'.quotes, totals |-> chain'.totals,
                   quoteMigrated |-> chain'.quoteMigrated, pairsMigrated |-> chain'.pairsMigrated,
                   paused |-> chain'.paused, upgraded |-> chain'.upgraded,
                   migrator |-> chain'.migrator, post |-> chain'.post]
  BY <1>1 DEF ChainOK
<1>3. ChainOK(chain') /\ Phases(chain')
  BY <1>1, <1>2 DEF ChainOK, Phases
<1>4. chain.post = 0 /\ WithinMarked(chain)
  BY <1>1 DEF CountInv, Phases
<1>5. WithinMarked(chain')
  BY <1>1, <1>2, <1>3, <1>4, Proceeds
<1>. QED  BY <1>2, <1>3, <1>4, <1>5 DEF CountInv

LEMMA UpgradeCounts ==
  ASSUME CountInv, Upgrade
  PROVE  CountInv'
<1>1. /\ ChainOK(chain) /\ Phases(chain) /\ ~chain.upgraded /\ chain.paused
      /\ chain' = [chain EXCEPT !.upgraded = TRUE, !.migrator = TRUE]
  BY DEF CountInv, Upgrade
<1>2. /\ chain'.quotes = chain.quotes /\ chain'.totals = chain.totals
      /\ chain'.quoteMigrated = chain.quoteMigrated /\ chain'.pairsMigrated = chain.pairsMigrated
      /\ chain'.paused = chain.paused /\ chain'.upgraded = TRUE
      /\ chain'.migrator = TRUE /\ chain'.post = chain.post
      /\ chain' = [quotes |-> chain'.quotes, totals |-> chain'.totals,
                   quoteMigrated |-> chain'.quoteMigrated, pairsMigrated |-> chain'.pairsMigrated,
                   paused |-> chain'.paused, upgraded |-> chain'.upgraded,
                   migrator |-> chain'.migrator, post |-> chain'.post]
  BY <1>1 DEF ChainOK
<1>3. chain.post = 0 /\ WithinMarked(chain)
  BY <1>1 DEF CountInv, Phases
<1>4. ChainOK(chain')
  BY <1>1, <1>2 DEF ChainOK
<1>5. Phases(chain')
  BY <1>1, <1>2, <1>3 DEF Phases
<1>6. WithinMarked(chain')
  BY <1>1, <1>2, <1>3, <1>4, Proceeds
<1>. QED  BY <1>2, <1>3, <1>4, <1>5, <1>6 DEF CountInv

LEMMA PostMigrationCounts ==
  ASSUME CountInv, PostMigration
  PROVE  CountInv'
<1>1. /\ Len(PostTransactions) = 2
      /\ PostTransactions[1] = "revokeRole" /\ PostTransactions[2] = "unpauseGlobal"
  BY DEF PostTransactions
<1>2. PICK next : next = chain.post + 1
  OBVIOUS
<1>3. /\ ChainOK(chain) /\ Phases(chain) /\ chain.upgraded /\ next <= 2 /\ chain.post \in 0..2
      /\ chain' = [chain EXCEPT !.post = next,
                     !.migrator = chain.migrator /\ PostTransactions[next] # "revokeRole",
                     !.paused = chain.paused /\ PostTransactions[next] # "unpauseGlobal"]
  BY <1>1, <1>2 DEF CountInv, PostMigration, ChainOK
<1>4. /\ chain'.quotes = chain.quotes /\ chain'.totals = chain.totals
      /\ chain'.quoteMigrated = chain.quoteMigrated /\ chain'.pairsMigrated = chain.pairsMigrated
      /\ chain'.upgraded = chain.upgraded /\ chain'.post = next
      /\ chain' = [quotes |-> chain'.quotes, totals |-> chain'.totals,
                   quoteMigrated |-> chain'.quoteMigrated, pairsMigrated |-> chain'.pairsMigrated,
                   paused |-> chain'.paused, upgraded |-> chain'.upgraded,
                   migrator |-> chain'.migrator, post |-> chain'.post]
  BY <1>3 DEF ChainOK
<1>5. /\ chain'.migrator = (chain.migrator /\ PostTransactions[next] # "revokeRole")
      /\ chain'.paused = (chain.paused /\ PostTransactions[next] # "unpauseGlobal")
  BY <1>3 DEF ChainOK
<1>6. chain'.migrator \in BOOLEAN /\ chain'.paused \in BOOLEAN
  BY <1>5
<1>7. /\ chain'.migrator => chain.migrator /\ next # 1
      /\ chain.paused /\ next # 2 => chain'.paused
  <2>1. next \in {1, 2}
    BY <1>2, <1>3
  <2>. QED  BY <1>1, <1>5, <2>1
<1>8. ChainOK(chain')
  <2>1. chain'.post \in 0..2
    BY <1>2, <1>3, <1>4
  <2>. QED  BY <1>3, <1>4, <1>6, <2>1 DEF ChainOK
<1>9. Phases(chain')
  BY <1>2, <1>3, <1>4, <1>7 DEF Phases
<1>10. Within(chain'.quotes, chain'.totals)
  <2>1. CASE chain.post = 0
    <3>1. WithinMarked(chain)
      BY <2>1 DEF CountInv
    <3>. QED  BY <1>3, <1>4, <1>8, <3>1, Proceeds
  <2>2. CASE chain.post # 0
    BY <1>4, <2>2 DEF CountInv
  <2>. QED  BY <2>1, <2>2
<1>. QED  BY <1>2, <1>3, <1>4, <1>8, <1>9, <1>10 DEF CountInv

-----------------------------------------------------------------------------
(* The invariant and what it gives                                          *)

LEMMA CountInit ==
  ASSUME Init
  PROVE  CountInv
<1>1. PICK history \in Histories :
        chain = [quotes |-> history, totals |-> NoTotals, quoteMigrated |-> {}, pairsMigrated |-> {},
                 paused |-> FALSE, upgraded |-> FALSE, migrator |-> FALSE, post |-> 0]
  BY DEF Init
<1>2. history \in Seq(Quote)
  BY HistoriesAssumption
<1>3. TotalsOK(NoTotals)
  BY DEF TotalsOK, NoTotals
<1>4. ChainOK(chain) /\ Phases(chain) /\ chain.post = 0 /\ chain.totals = NoTotals
  BY <1>1, <1>2, <1>3 DEF ChainOK, Phases
<1>5. WithinMarked(chain)
  BY <1>1, <1>2, NothingCounted
<1>. QED  BY <1>4, <1>5 DEF CountInv

\* Every other step leaves the chain alone.
LEMMA OffChain ==
  ASSUME [Next]_vars
  PROVE  TradeStep \/ Mine \/ Pause \/ Upgrade \/ PostMigration \/ chain' = chain
BY DEF Next, vars, Index, StartPrepare, PrepareStep, FetchOpenQuotes, BuildInput, Validate, Start, StartMigration,
       MigrationStep, PreCheckQuotes, FinishQuotes, PreCheckPartyB, FinishPartyB, SendChunk, Mined,
       FinishMigration, VerifyMigration, WaitFails, Kill, TornSave

LEMMA CountStep ==
  ASSUME CountInv, [Next]_vars
  PROVE  CountInv'
<1>1. CASE TradeStep
  <2>1. ASSUME NEW a \in PartyA, SendQuote(a) PROVE CountInv'
    BY <2>1, SendCounts
  <2>2. ASSUME NEW id \in DOMAIN chain.quotes, NEW b \in PartyB, LockQuote(id, b) PROVE CountInv'
    BY <2>2, LockCounts
  <2>3. ASSUME NEW id \in DOMAIN chain.quotes, OpenPosition(id) PROVE CountInv'
    BY <2>3, OpenCounts
  <2>4. ASSUME NEW id \in DOMAIN chain.quotes, ExpireQuote(id) PROVE CountInv'
    BY <2>4, ExpireCounts
  <2>5. ASSUME NEW id \in DOMAIN chain.quotes, CloseQuote(id) PROVE CountInv'
    BY <2>5, CloseCounts
  <2>. QED  BY <1>1, <2>1, <2>2, <2>3, <2>4, <2>5 DEF TradeStep
<1>2. CASE Mine
  BY <1>2, MineCounts
<1>3. CASE Pause
  BY <1>3, PauseCounts
<1>4. CASE Upgrade
  BY <1>4, UpgradeCounts
<1>5. CASE PostMigration
  BY <1>5, PostMigrationCounts
<1>6. CASE chain' = chain
  BY <1>6 DEF CountInv
<1>. QED  BY <1>1, <1>2, <1>3, <1>4, <1>5, <1>6, OffChain

\* While the migrator role exists no total exceeds what the marks account for, and
\* afterwards none exceeds what the quotes do; the role exists only during the pause.
THEOREM MigrationInvariant == Spec => []CountInv
<1>1. Init => CountInv
  BY CountInit
<1>2. CountInv /\ [Next]_vars => CountInv'
  BY CountStep
<1>. QED  BY <1>1, <1>2, PTL DEF Spec

\* However chunks are retried, resumed, sent twice or mined late, and whatever the
\* input file lists, no total of the new version exceeds its recount.
THEOREM NothingCountedTwice == Spec => []NeverOvercounted
<1>1. CountInv => NeverOvercounted
  <2>. SUFFICES ASSUME CountInv PROVE NeverOvercounted
    OBVIOUS
  <2>1. Within(chain.quotes, chain.totals)
    BY MarkedIsWithin DEF CountInv
  <2>2. PICK due : due = Recount(chain.quotes)
    OBVIOUS
  <2>3. ASSUME NEW a \in PartyA PROVE due.reserved[a] = Cardinality(FeeIds(chain.quotes, a))
    BY <2>2 DEF Recount, CountQuotes, FeeIds
  <2>4. ASSUME NEW p \in PartyB \X PartyA PROVE due.aggregated[p] = Cardinality(PairIds(chain.quotes, p[1], p[2]))
    BY <2>2 DEF Recount, LockedOf, CountQuotes, PairIds
  <2>5. ASSUME NEW b \in PartyB
        PROVE  /\ due.cross[b] = Cardinality(CrossIds(chain.quotes, b, "OPENED"))
               /\ due.crossPending[b] = Cardinality(CrossIds(chain.quotes, b, "LOCKED"))
    BY <2>2 DEF Recount, CountQuotes, CrossIds
  <2>. QED  BY <2>1, <2>2, <2>3, <2>4, <2>5 DEF NeverOvercounted, Within
<1>. QED  BY <1>1, MigrationInvariant, PTL

\* A migration transaction that is mined while the system trades, however late it
\* comes, reverts.
THEOREM LateTransactionsRevert == Spec => MigratesOnlyPaused
<1>1. CountInv /\ [Next]_vars =>
        [Len(mempool') < Len(mempool) => chain.paused \/ Reverts(chain, Head(mempool))]_vars
  <2>. SUFFICES ASSUME CountInv, ~chain.paused PROVE Reverts(chain, Head(mempool))
    BY DEF vars
  <2>1. ~chain.migrator
    BY DEF CountInv, Phases, ChainOK
  <2>. QED  BY <2>1 DEF Reverts
<1>. QED  BY <1>1, MigrationInvariant, PTL DEF Spec, MigratesOnlyPaused
=============================================================================
