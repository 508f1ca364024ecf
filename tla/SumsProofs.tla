----------------------------- MODULE SumsProofs -----------------------------
(***************************************************************************)
(* What the proofs about balances use of sums: a sum splits, and a changed *)
(* summand changes it by the difference.                                   *)
(***************************************************************************)
EXTENDS Sums, FiniteSetTheorems, TLAPS

LEMMA UnitsFinite ==
  ASSUME NEW S, IsFiniteSet(S), NEW f, \A i \in S : f[i] \in Nat
  PROVE  IsFiniteSet(Units(S, f)) /\ Total(S, f) \in Nat
<1>. DEFINE g == [i \in S |-> {i} \X (1..f[i])]
            T == {{i} \X (1..f[i]) : i \in S}
<1>1. g \in Surjection(S, T)
  BY DEF Surjection
<1>2. IsFiniteSet(T)
  BY <1>1, FS_Surjection
<1>3. ASSUME NEW i \in S PROVE IsFiniteSet({i} \X (1..f[i]))
  <2>1. IsFiniteSet({i})
    BY FS_Singleton
  <2>2. 1 \in Int /\ f[i] \in Int
    OBVIOUS
  <2>3. IsFiniteSet(1..f[i])
    BY <2>2, FS_Interval, Zenon
  <2>. QED
    BY <2>1, <2>3, FS_Product
<1>4. \A t \in T : IsFiniteSet(t)
  BY <1>3
<1>5. IsFiniteSet(UNION T)
  BY <1>2, <1>4, FS_UNION
<1>. QED
  BY <1>5, FS_CardinalityType DEF Units, Total

LEMMA TotalSame ==
  ASSUME NEW S, NEW f, NEW g, \A i \in S : f[i] = g[i]
  PROVE  Total(S, f) = Total(S, g)
<1>1. Units(S, f) = Units(S, g)
  BY DEF Units
<1>. QED
  BY <1>1 DEF Total

LEMMA TotalNone ==
  ASSUME NEW S, NEW f, \A i \in S : f[i] = 0
  PROVE  Total(S, f) = 0
<1>1. \A i \in S : 1..f[i] = {}
  OBVIOUS
<1>2. Units(S, f) = {}
  BY <1>1 DEF Units
<1>. QED
  BY <1>2, FS_EmptySet DEF Total

LEMMA TotalOne ==
  ASSUME NEW x, NEW f, f[x] \in Nat
  PROVE  Total({x}, f) = f[x]
<1>1. Units({x}, f) = {x} \X (1..f[x])
  BY DEF Units
<1>2. IsFiniteSet({x}) /\ Cardinality({x}) = 1
  BY FS_Singleton, Zenon
<1>3. IsFiniteSet(1..f[x]) /\ Cardinality(1..f[x]) = f[x]
  <2>1. 1 \in Int /\ f[x] \in Int
    OBVIOUS
  <2>2. IsFiniteSet(1..f[x])
    BY <2>1, FS_Interval, Zenon
  <2>3. Cardinality(1..f[x]) = IF 1 > f[x] THEN 0 ELSE f[x] - 1 + 1
    BY <2>1, FS_Interval, Zenon
  <2>. QED
    BY <2>2, <2>3
<1>4. Cardinality({x} \X (1..f[x])) = Cardinality({x}) * Cardinality(1..f[x])
  BY <1>2, <1>3, FS_Product, Zenon
<1>5. 1 * f[x] = f[x]
  OBVIOUS
<1>. QED
  BY <1>1, <1>2, <1>3, <1>4, <1>5, Zenon DEF Total

LEMMA TotalSplit ==
  ASSUME NEW S, IsFiniteSet(S), NEW f, \A i \in S : f[i] \in Nat, NEW R \in SUBSET S
  PROVE  Total(S, f) = Total(R, f) + Total(S \ R, f)
<1>1. Units(S, f) = Units(R, f) \cup Units(S \ R, f)
  BY DEF Units
<1>2. Units(R, f) \cap Units(S \ R, f) = {}
  BY DEF Units
<1>3. IsFiniteSet(R) /\ IsFiniteSet(S \ R)
  BY FS_Subset
<1>4. IsFiniteSet(Units(R, f)) /\ Total(R, f) \in Nat
  BY <1>3, UnitsFinite
<1>5. IsFiniteSet(Units(S \ R, f)) /\ Total(S \ R, f) \in Nat
  BY <1>3, UnitsFinite
<1>6. Cardinality(Units(R, f) \cup Units(S \ R, f))
        = Cardinality(Units(R, f)) + Cardinality(Units(S \ R, f))
            - Cardinality(Units(R, f) \cap Units(S \ R, f))
  BY <1>4, <1>5, FS_Union, Zenon
<1>7. Cardinality(Units(R, f) \cap Units(S \ R, f)) = 0
  BY <1>2, FS_EmptySet
<1>. QED
  BY <1>1, <1>4, <1>5, <1>6, <1>7 DEF Total

\* Changing one summand changes the sum by the difference.
LEMMA TotalUpdate ==
  ASSUME NEW S, IsFiniteSet(S), NEW f, NEW g, NEW x \in S,
         \A i \in S : f[i] \in Nat /\ g[i] \in Nat,
         \A i \in S \ {x} : f[i] = g[i]
  PROVE  Total(S, g) = Total(S, f) - f[x] + g[x]
<1>1. Total(S, f) = Total({x}, f) + Total(S \ {x}, f)
  BY TotalSplit
<1>2. Total(S, g) = Total({x}, g) + Total(S \ {x}, g)
  BY TotalSplit
<1>3. Total({x}, f) = f[x] /\ Total({x}, g) = g[x]
  BY TotalOne
<1>4. Total(S \ {x}, f) = Total(S \ {x}, g)
  BY TotalSame
<1>5. IsFiniteSet(S \ {x})
  BY FS_Subset
<1>6. Total(S \ {x}, f) \in Nat
  BY <1>5, UnitsFinite
<1>. QED
  BY <1>1, <1>2, <1>3, <1>4, <1>6

LEMMA TotalAtLeast ==
  ASSUME NEW S, IsFiniteSet(S), NEW f, \A i \in S : f[i] \in Nat, NEW x \in S
  PROVE  f[x] <= Total(S, f)
<1>1. Total(S, f) = Total({x}, f) + Total(S \ {x}, f)
  BY TotalSplit
<1>2. Total({x}, f) = f[x]
  BY TotalOne
<1>3. IsFiniteSet(S \ {x})
  BY FS_Subset
<1>4. Total(S \ {x}, f) \in Nat
  BY <1>3, UnitsFinite
<1>. QED
  BY <1>1, <1>2, <1>4

\* Summands outside R that are zero do not count.
LEMMA TotalWithin ==
  ASSUME NEW S, IsFiniteSet(S), NEW f, \A i \in S : f[i] \in Nat,
         NEW R \in SUBSET S, \A i \in S \ R : f[i] = 0,
         NEW g, \A i \in R : g[i] = f[i]
  PROVE  Total(S, f) = Total(R, g)
<1>1. Total(S, f) = Total(R, f) + Total(S \ R, f)
  BY TotalSplit
<1>2. Total(S \ R, f) = 0
  BY TotalNone
<1>3. Total(R, f) = Total(R, g)
  BY TotalSame
<1>4. IsFiniteSet(R)
  BY FS_Subset
<1>5. Total(R, f) \in Nat
  BY <1>4, UnitsFinite
<1>. QED
  BY <1>1, <1>2, <1>3, <1>5

\* A sum of equal summands is a product.
LEMMA TotalConst ==
  ASSUME NEW S, IsFiniteSet(S), NEW c \in Nat, NEW f, \A i \in S : f[i] = c
  PROVE  Total(S, f) = c * Cardinality(S)
<1>1. Units(S, f) = S \X (1..c)
  BY DEF Units
<1>2. IsFiniteSet(1..c) /\ Cardinality(1..c) = c
  <2>1. 1 \in Int /\ c \in Int
    OBVIOUS
  <2>2. IsFiniteSet(1..c)
    BY <2>1, FS_Interval, Zenon
  <2>3. Cardinality(1..c) = IF 1 > c THEN 0 ELSE c - 1 + 1
    BY <2>1, FS_Interval, Zenon
  <2>. QED
    BY <2>2, <2>3
<1>3. Cardinality(S \X (1..c)) = Cardinality(S) * Cardinality(1..c)
  BY <1>2, FS_Product, Zenon
<1>4. Cardinality(S) \in Nat
  BY FS_CardinalityType
<1>5. Cardinality(S) * c = c * Cardinality(S)
  BY <1>4
<1>6. Cardinality(S \X (1..c)) = Cardinality(S) * c
  BY <1>2, <1>3, Zenon
<1>. QED
  BY <1>1, <1>5, <1>6, Zenon DEF Total
=============================================================================
