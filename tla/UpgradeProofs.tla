---------------------------- MODULE UpgradeProofs ----------------------------
(***************************************************************************)
(* The upgrade never leaves a mixture of two versions unpaused, and what   *)
(* went through is complete: for every set of facets and selectors, every  *)
(* chunk size, any number of faults and repetitions, on all three paths.   *)
(***************************************************************************)
EXTENDS Upgrade, FiniteSetTheorems, WellFoundedInduction, TLAPS

-----------------------------------------------------------------------------
(* Sets and sequences                                                       *)

LEMMA ImageFinite ==
  ASSUME NEW S, IsFiniteSet(S), NEW T, NEW f \in [S -> T]
  PROVE  IsFiniteSet({f[x] : x \in S})
<1>1. f \in Surjection(S, {f[x] : x \in S})
  BY DEF Surjection
<1>. QED  BY <1>1, FS_Surjection

\* A sequence made of a finite set has exactly its elements.
LEMMA SequenceOfSet ==
  ASSUME NEW S, IsFiniteSet(S)
  PROVE  /\ SetToSeq(S) \in Seq(S)
         /\ \A x \in S : \E i \in DOMAIN SetToSeq(S) : SetToSeq(S)[i] = x
<1>. DEFINE n == Cardinality(S)
            f == SetToSeq(S)
<1>1. n \in Nat /\ ExistsBijection(1..n, S)
  BY FS_CardinalityType
<1>2. PICK g : g \in Bijection(1..n, S)
  BY <1>1 DEF ExistsBijection
<1>3. g \in [1..n -> S] /\ IsInjective(g)
  BY <1>2 DEF Bijection, Injection
<1>4. f \in [1..n -> S] /\ IsInjective(f)
  BY <1>3 DEF SetToSeq
<1>5. f \in Injection(1..n, S)
  BY <1>4 DEF Injection
<1>6. IsFiniteSet(1..n) /\ Cardinality(1..n) = n
  BY <1>1, FS_Interval
<1>7. f \in Surjection(1..n, S)
  BY <1>5, <1>6, FS_Injection
<1>8. f \in Seq(S) /\ DOMAIN f = 1..n
  BY <1>1, <1>4
<1>. QED  BY <1>7, <1>8 DEF Surjection

LEMMA LeastNatural ==
  ASSUME NEW T, T \subseteq Nat, T # {}
  PROVE  Min(T) \in T
<1>. DEFINE R == { p \in Nat \X Nat : p[1] < p[2] }
<1>1. IsWellFoundedOn(R, Nat)
  BY NatLessThanWellFounded DEF OpToRel
<1>2. PICK x \in T : \A y \in T : ~(<<y, x>> \in R)
  BY <1>1, WFMin
<1>3. \A y \in T : x <= y
  <2>. TAKE y \in T
  <2>1. x \in Nat /\ y \in Nat /\ <<y, x>> \in Nat \X Nat
    OBVIOUS
  <2>. QED  BY <1>2, <2>1
<1>. QED  BY <1>3 DEF Min

\* The quotient of a division by the size of a chunk.
LEMMA Quotient ==
  ASSUME NEW m \in Nat, NEW size \in Nat \ {0}
  PROVE  /\ m \div size \in Nat
         /\ (m \div size) * size <= m /\ m < (m \div size) * size + size
OBVIOUS

LEMMA ProductMonotonic ==
  ASSUME NEW m \in Nat, NEW n \in Nat, m <= n, NEW size \in Nat
  PROVE  m * size <= n * size
OBVIOUS

LEMMA IsSequence ==
  ASSUME NEW S, NEW n \in Nat, NEW f, f = [k \in 1..n |-> f[k]], \A k \in 1..n : f[k] \in S
  PROVE  f \in Seq(S) /\ DOMAIN f = 1..n
OBVIOUS

\* Splitting a cut into transactions neither adds nor drops a change.
LEMMA ChunksKeepAll ==
  ASSUME NEW C, NEW cut \in Seq(C), NEW size \in Nat \ {0}
  PROVE  LET chunks == InChunks(cut, size)
         IN  /\ chunks \in Seq(Seq(C))
             /\ \A k \in DOMAIN chunks : \A j \in DOMAIN chunks[k] :
                  \E i \in DOMAIN cut : chunks[k][j] = cut[i]
             /\ \A i \in DOMAIN cut :
                  \E k \in DOMAIN chunks : \E j \in DOMAIN chunks[k] : chunks[k][j] = cut[i]
<1>. DEFINE count == (Len(cut) + size - 1) \div size
            last(k) == IF k * size < Len(cut) THEN k * size ELSE Len(cut)
            first(k) == (k - 1) * size + 1
            chunks == InChunks(cut, size)
<1>1. Len(cut) \in Nat /\ DOMAIN cut = 1..Len(cut)
  OBVIOUS
<1>2. /\ count \in Nat /\ count * size <= Len(cut) + size - 1
      /\ Len(cut) + size - 1 < count * size + size
  <2>1. Len(cut) + size - 1 \in Nat
    BY <1>1
  <2>. QED  BY <2>1, Quotient
<1>3. chunks = [k \in 1..count |-> SubSeq(cut, first(k), last(k))]
  BY DEF InChunks
<1>4. ASSUME NEW k \in 1..count
      PROVE  /\ first(k) \in Nat \ {0} /\ last(k) \in 0..Len(cut)
             /\ chunks[k] \in Seq(C) /\ DOMAIN chunks[k] = 1..(last(k) - first(k) + 1)
             /\ \A j \in DOMAIN chunks[k] :
                  /\ first(k) + j - 1 \in DOMAIN cut
                  /\ chunks[k][j] = cut[first(k) + j - 1]
  <2>1. first(k) \in Nat \ {0} /\ last(k) \in 0..Len(cut) /\ k * size \in Nat
    BY <1>1, <1>2
  <2>2. \A i \in first(k)..last(k) : i \in DOMAIN cut
    BY <1>1, <2>1
  <2>3. \A i \in first(k)..last(k) : cut[i] \in C
    BY <2>2
  <2>4. chunks[k] = SubSeq(cut, first(k), last(k))
    BY <1>3
  <2>. HIDE DEF first, last, chunks, count
  <2>5. /\ SubSeq(cut, first(k), last(k)) = [i \in 1..(last(k) - first(k) + 1) |-> cut[first(k) + i - 1]]
    BY <2>1
  <2>6. last(k) - first(k) + 1 \in Int
    BY <2>1, <1>1
  <2>7. \A j \in 1..(last(k) - first(k) + 1) : first(k) + j - 1 \in first(k)..last(k)
    BY <2>1, <1>1
  <2>8. DOMAIN chunks[k] = 1..(last(k) - first(k) + 1)
    BY <2>4, <2>5
  <2>9. ASSUME NEW j \in DOMAIN chunks[k]
        PROVE  /\ first(k) + j - 1 \in DOMAIN cut
               /\ chunks[k][j] = cut[first(k) + j - 1] /\ chunks[k][j] \in C
    BY <2>2, <2>3, <2>4, <2>5, <2>7, <2>8
  <2>10. chunks[k] \in Seq(C)
    <3>1. \E n \in Nat : 1..(last(k) - first(k) + 1) = 1..n
      <4>1. CASE last(k) - first(k) + 1 \in Nat
        BY <4>1
      <4>2. CASE last(k) - first(k) + 1 \notin Nat
        <5>1. 1..(last(k) - first(k) + 1) = 1..0
          BY <2>6, <4>2
        <5>. QED  BY <5>1
      <4>. QED  BY <4>1, <4>2
    <3>2. PICK n \in Nat : 1..(last(k) - first(k) + 1) = 1..n
      BY <3>1
    <3>3. chunks[k] = [j \in 1..n |-> cut[first(k) + j - 1]]
      BY <2>4, <2>5, <3>2
    <3>4. \A j \in 1..n : cut[first(k) + j - 1] \in C
      BY <2>3, <2>7, <3>2
    <3>. QED  BY <3>3, <3>4
  <2>. QED  BY <2>1, <2>8, <2>9, <2>10
<1>5. chunks \in Seq(Seq(C)) /\ DOMAIN chunks = 1..count
  <2>1. \A k \in 1..count : chunks[k] \in Seq(C)
    BY <1>4
  <2>. HIDE DEF chunks, count, first, last
  <2>2. chunks = [k \in 1..count |-> chunks[k]]
    BY <1>3
  <2>. QED  BY <1>2, <2>1, <2>2, IsSequence
<1>6. ASSUME NEW i \in DOMAIN cut
      PROVE  \E k \in DOMAIN chunks : \E j \in DOMAIN chunks[k] : chunks[k][j] = cut[i]
  <2>. DEFINE q == (i - 1) \div size
  <2>1. i \in Nat /\ i >= 1 /\ i <= Len(cut) /\ i - 1 \in Nat
    BY <1>1
  <2>2. q \in Nat /\ q * size <= i - 1 /\ i - 1 < q * size + size
    BY <2>1, Quotient
  <2>. HIDE DEF q
  <2>3. q + 1 <= count
    <3>1. SUFFICES ASSUME count <= q
                   PROVE  FALSE
      BY <1>2, <2>2
    <3>2. count * size <= q * size
      BY <1>2, <2>2, <3>1, ProductMonotonic
    <3>. HIDE DEF count
    <3>3. count * size \in Nat /\ q * size \in Nat
      BY <1>2, <2>2
    <3>. QED  BY <1>1, <1>2, <2>1, <2>2, <3>2, <3>3
  <2>4. q + 1 \in 1..count
    BY <1>2, <2>2, <2>3
  <2>5. first(q + 1) = q * size + 1 /\ last(q + 1) = IF (q + 1) * size < Len(cut) THEN (q + 1) * size ELSE Len(cut)
    BY <2>2
  <2>6. (q + 1) * size = q * size + size /\ q * size \in Nat
    BY <2>2
  <2>. DEFINE j == i - q * size
  <2>7. j \in 1..(last(q + 1) - first(q + 1) + 1) /\ first(q + 1) + j - 1 = i
    <3>. HIDE DEF first, last
    <3>1. CASE (q + 1) * size < Len(cut)
      BY <3>1, <1>1, <2>1, <2>2, <2>5, <2>6
    <3>2. CASE ~((q + 1) * size < Len(cut))
      BY <3>2, <1>1, <2>1, <2>2, <2>5, <2>6
    <3>. QED  BY <3>1, <3>2
  <2>. HIDE DEF j, first, last, chunks, count
  <2>8. j \in DOMAIN chunks[q + 1] /\ chunks[q + 1][j] = cut[i]
    BY <1>4, <2>4, <2>7
  <2>. QED  BY <1>5, <2>4, <2>8
<1>. HIDE DEF chunks, first, last, count
<1>7. \A k \in DOMAIN chunks : \A j \in DOMAIN chunks[k] : \E i \in DOMAIN cut : chunks[k][j] = cut[i]
  BY <1>4, <1>5
<1>. QED  BY <1>5, <1>6, <1>7 DEF chunks

-----------------------------------------------------------------------------
(* The cut                                                                  *)

FacetContract ==
  [name : Facets \cup DOMAIN OldSelectors \cup {"none", "DiamondCutFacet"}, build : Nat, libraries : Nat]
Routes == [Selectors -> FacetContract]
DiamondCutFacet == Facet("DiamondCutFacet", 0, 0)
ChangeType == [action : {"Add", "Replace", "Remove"}, facet : FacetContract, selectors : SUBSET Selectors]

\* The facets a file names: new contracts, all linked to the same libraries.
DeployedOK(deployed, libraries) ==
  /\ DOMAIN deployed \subseteq Facets
  /\ \A f \in DOMAIN deployed :
       deployed[f] \in FacetContract /\ deployed[f].build > 0 /\ deployed[f].libraries = libraries

\* diamondCut itself is never cut away.
Cuttable(routes) == DiamondCutSelector \in AllNew \/ routes[DiamondCutSelector] = DiamondCutFacet

\* Where a cut to these facets leads each selector.
Outcome(deployed, s) ==
  IF Target(deployed, s) # NoFacet THEN Target(deployed, s)
  ELSE IF s = DiamondCutSelector THEN DiamondCutFacet ELSE NoFacet

\* Each selector is where the cut leads it, or in one of the changes ahead.
LeadsThere(cut, deployed) ==
  \A i \in DOMAIN cut : \A j \in DOMAIN cut[i] : \A s \in cut[i][j].selectors :
    cut[i][j].facet = Outcome(deployed, s)
Ahead(cut, n, s) ==
  \E i \in DOMAIN cut : i > n /\ \E j \in DOMAIN cut[i] : s \in cut[i][j].selectors
CutPending(routes, cut, n, deployed) ==
  /\ cut \in Seq(Seq(ChangeType)) /\ LeadsThere(cut, deployed)
  /\ \A s \in Selectors : routes[s] = Outcome(deployed, s) \/ Ahead(cut, n, s)

LEMMA FacetsFinite == IsFiniteSet(Facets) /\ Facets # {}
<1>1. /\ FacetNames \in [1..Len(FacetNames) -> STRING] /\ Len(FacetNames) \in Nat
      /\ Len(FacetNames) # 0
  BY UpgradeCutAssumption
<1>2. Facets = {FacetNames[i] : i \in 1..Len(FacetNames)}
  BY <1>1 DEF Facets, Range
<1>3. IsFiniteSet(1..Len(FacetNames))
  BY <1>1, FS_Interval
<1>4. IsFiniteSet(Facets)
  BY <1>1, <1>2, <1>3, ImageFinite
<1>5. FacetNames[1] \in Facets
  BY <1>1, <1>2
<1>. QED  BY <1>4, <1>5

LEMMA NoFacetFacts ==
  /\ NoFacet \in FacetContract /\ DiamondCutFacet \in FacetContract /\ NoFacet # DiamondCutFacet
  /\ NoFacet.build = 0
  /\ \A f \in FacetContract : f.build > 0 => f # NoFacet
<1>1. NoFacet \in FacetContract
  BY DEF NoFacet, FacetContract
<1>2. DiamondCutFacet \in FacetContract
  BY DEF DiamondCutFacet, Facet, FacetContract
<1>3. NoFacet.build = 0 /\ NoFacet.name = "none"
  BY DEF NoFacet
<1>4. DiamondCutFacet.name = "DiamondCutFacet"
  BY DEF DiamondCutFacet, Facet
<1>. QED  BY <1>1, <1>2, <1>3, <1>4

LEMMA TargetFacts ==
  ASSUME NEW deployed, NEW libraries, DeployedOK(deployed, libraries), NEW s
  PROVE  /\ \/ Target(deployed, s) = NoFacet
            \/ \E f \in DOMAIN deployed : s \in NewSelectors[f] /\ Target(deployed, s) = deployed[f]
         /\ \A f \in DOMAIN deployed : s \in NewSelectors[f] =>
              /\ Target(deployed, s) = deployed[f] /\ Target(deployed, s) # NoFacet
         /\ Target(deployed, s) \in FacetContract
         /\ Target(deployed, s) # NoFacet => s \in AllNew
<1>1. \A f \in DOMAIN deployed : f \in DOMAIN NewSelectors
  BY UpgradeCutAssumption DEF DeployedOK, Facets
<1>2. ASSUME NEW f \in DOMAIN deployed, s \in NewSelectors[f]
      PROVE  Target(deployed, s) = deployed[f]
  <2>1. (CHOOSE g \in DOMAIN deployed : s \in NewSelectors[g]) = f
    BY <1>1, <1>2, UpgradeCutAssumption
  <2>. QED  BY <1>2, <2>1 DEF Target
<1>3. ASSUME NEW f \in DOMAIN deployed, s \in NewSelectors[f]
      PROVE  s \in AllNew
  BY <1>1, <1>3 DEF AllNew, Range
<1>4. Target(deployed, s) = NoFacet \/ \E f \in DOMAIN deployed : s \in NewSelectors[f]
  BY DEF Target
<1>5. \A f \in DOMAIN deployed : deployed[f] \in FacetContract /\ deployed[f] # NoFacet
  BY NoFacetFacts DEF DeployedOK
<1>. QED  BY <1>2, <1>3, <1>4, <1>5, NoFacetFacts

LEMMA GroupedFacts ==
  ASSUME NEW deployed, NEW libraries, DeployedOK(deployed, libraries), NEW action \in {"Add", "Replace", "Remove"},
         NEW selectors \in SUBSET Selectors, \A s \in selectors : Target(deployed, s) # NoFacet
  PROVE  LET changes == Grouped(action, deployed, selectors)
         IN  /\ IsFiniteSet(changes) /\ changes \subseteq ChangeType
             /\ \A c \in changes : \A s \in c.selectors : s \in selectors /\ c.facet = Target(deployed, s)
             /\ \A s \in selectors : \E c \in changes : s \in c.selectors
<1>. DEFINE facets == { Target(deployed, s) : s \in selectors }
            change(f) == Change(action, f, { s \in selectors : Target(deployed, s) = f })
            g == [f \in facets |-> change(f)]
            changes == Grouped(action, deployed, selectors)
<1>1. changes = { g[f] : f \in facets }
  BY DEF Grouped
<1>2. IsFiniteSet(facets)
  <2>. DEFINE all == { deployed[f] : f \in DOMAIN deployed }
              h == [f \in DOMAIN deployed |-> deployed[f]]
  <2>1. IsFiniteSet(DOMAIN deployed)
    BY FacetsFinite, FS_Subset DEF DeployedOK
  <2>2. h \in [DOMAIN deployed -> all] /\ all = { h[f] : f \in DOMAIN deployed }
    OBVIOUS
  <2>3. \A T : h \in [DOMAIN deployed -> T] => IsFiniteSet({ h[f] : f \in DOMAIN deployed })
    <3>. HIDE DEF h
    <3>. QED  BY <2>1, ImageFinite
  <2>4. IsFiniteSet(all)
    <3>. HIDE DEF h, all
    <3>. QED  BY <2>2, <2>3
  <2>5. facets \subseteq all
    BY TargetFacts
  <2>. QED  BY <2>4, <2>5, FS_Subset
<1>3. g \in [facets -> changes]
  BY <1>1
<1>4. IsFiniteSet(changes)
  <2>. HIDE DEF facets, g
  <2>1. \A T : g \in [facets -> T] => IsFiniteSet({ g[f] : f \in facets })
    BY <1>2, ImageFinite
  <2>. HIDE DEF changes
  <2>. QED  BY <1>1, <1>3, <2>1
<1>5. \A f \in facets : f \in FacetContract
  BY TargetFacts
<1>6. \A f \in facets : change(f) \in ChangeType /\ change(f).facet = f
                        /\ change(f).selectors = { s \in selectors : Target(deployed, s) = f }
  BY <1>5 DEF Change, ChangeType
<1>. HIDE DEF facets, change, changes
<1>7. \A f \in facets : g[f] = change(f)
  OBVIOUS
<1>8. \A s \in selectors : Target(deployed, s) \in facets
  BY DEF facets
<1>9. \A s \in selectors : \E c \in changes : s \in c.selectors
  BY <1>1, <1>6, <1>7, <1>8
<1>10. \A c \in changes : c \in ChangeType /\ \A s \in c.selectors : s \in selectors /\ c.facet = Target(deployed, s)
  BY <1>1, <1>6, <1>7
<1>. QED  BY <1>4, <1>9, <1>10 DEF changes

\* What is left to do of a cut just built is all of it: each selector the
\* deployed facets would serve otherwise than the diamond does is in it.
LEMMA BuiltCut ==
  ASSUME NEW routes \in Routes, Cuttable(routes), NEW deployed, NEW libraries, DeployedOK(deployed, libraries),
         DOMAIN deployed = Facets
  PROVE  CutPending(routes, InChunks(BuildDiamondCut(routes, deployed), ChunkSize), 0, deployed)
<1>. DEFINE replaced == { s \in Live(routes) : Target(deployed, s) # NoFacet }
            added == { s \in AllNew \ Live(routes) : Target(deployed, s) # NoFacet }
            gone == { s \in Live(routes) \ IgnoreRemoveSelectors : Target(deployed, s) = NoFacet }
            A == Replacements(routes, deployed) \cup Removals(routes, deployed)
            B == Additions(routes, deployed)
            right(c) == c \in ChangeType /\ \A s \in c.selectors : c.facet = Outcome(deployed, s)
<1>1. replaced \in SUBSET Selectors /\ added \in SUBSET Selectors /\ gone \in SUBSET Selectors
  BY DEF Live, Selectors
<1>2. /\ IsFiniteSet(Replacements(routes, deployed)) /\ \A c \in Replacements(routes, deployed) : right(c)
      /\ \A s \in replaced : \E c \in Replacements(routes, deployed) : s \in c.selectors
  <2>. DEFINE changes == Grouped("Replace", deployed, replaced)
  <2>1. changes = Replacements(routes, deployed)
    BY DEF Replacements
  <2>2. \A s \in replaced : Target(deployed, s) # NoFacet
    OBVIOUS
  <2>. HIDE DEF replaced
  <2>3. /\ IsFiniteSet(changes) /\ changes \subseteq ChangeType
        /\ \A c \in changes : \A s \in c.selectors : s \in replaced /\ c.facet = Target(deployed, s)
        /\ \A s \in replaced : \E c \in changes : s \in c.selectors
    BY <1>1, <2>2, GroupedFacts
  <2>. QED  BY <2>1, <2>2, <2>3 DEF Outcome
<1>3. /\ IsFiniteSet(B) /\ \A c \in B : right(c)
      /\ \A s \in added : \E c \in B : s \in c.selectors
  <2>. DEFINE changes == Grouped("Add", deployed, added)
  <2>1. changes = B
    BY DEF Additions
  <2>2. \A s \in added : Target(deployed, s) # NoFacet
    OBVIOUS
  <2>. HIDE DEF added
  <2>3. /\ IsFiniteSet(changes) /\ changes \subseteq ChangeType
        /\ \A c \in changes : \A s \in c.selectors : s \in added /\ c.facet = Target(deployed, s)
        /\ \A s \in added : \E c \in changes : s \in c.selectors
    BY <1>1, <2>2, GroupedFacts
  <2>. QED  BY <2>1, <2>2, <2>3 DEF Outcome
<1>4. /\ IsFiniteSet(Removals(routes, deployed)) /\ \A c \in Removals(routes, deployed) : right(c)
      /\ \A s \in gone : \E c \in Removals(routes, deployed) : s \in c.selectors
  <2>1. CASE gone = {}
    BY <2>1, FS_EmptySet DEF Removals
  <2>2. CASE gone # {}
    <3>1. Removals(routes, deployed) = {Change("Remove", NoFacet, gone)}
      BY <2>2 DEF Removals
    <3>2. right(Change("Remove", NoFacet, gone)) /\ Change("Remove", NoFacet, gone).selectors = gone
      <4>1. \A s \in gone : Outcome(deployed, s) = NoFacet
        BY DEF Outcome, IgnoreRemoveSelectors
      <4>. QED  BY <1>1, <4>1, NoFacetFacts DEF Change, ChangeType
    <3>3. IsFiniteSet({Change("Remove", NoFacet, gone)})
      BY FS_Singleton
    <3>. HIDE DEF gone, right
    <3>. QED  BY <3>1, <3>2, <3>3
  <2>. QED  BY <2>1, <2>2
<1>5. IsFiniteSet(A) /\ \A c \in A : right(c)
  BY <1>2, <1>4, FS_Union
<1>6. \A s \in Selectors : routes[s] = Outcome(deployed, s) \/ \E c \in A \cup B : s \in c.selectors
  <2>. SUFFICES ASSUME NEW s \in Selectors
                PROVE  routes[s] = Outcome(deployed, s) \/ s \in replaced \cup added \cup gone
    BY <1>2, <1>3, <1>4
  <2>1. CASE Target(deployed, s) # NoFacet
    <3>1. s \in AllNew
      BY <2>1, TargetFacts
    <3>. QED  BY <2>1, <3>1
  <2>2. CASE Target(deployed, s) = NoFacet /\ s # DiamondCutSelector
    BY <2>2 DEF Live, Outcome, IgnoreRemoveSelectors
  <2>3. CASE Target(deployed, s) = NoFacet /\ s = DiamondCutSelector
    <3>1. s \notin AllNew
      <4>1. SUFFICES ASSUME s \in AllNew
                     PROVE  FALSE
        OBVIOUS
      <4>2. PICK f \in DOMAIN NewSelectors : s \in NewSelectors[f]
        BY <4>1 DEF AllNew, Range
      <4>3. f \in DOMAIN deployed
        BY UpgradeCutAssumption DEF Facets
      <4>. QED  BY <2>3, <4>2, <4>3, TargetFacts
    <3>. QED  BY <2>3, <3>1 DEF Outcome, Cuttable
  <2>. QED  BY <2>1, <2>2, <2>3
<1>. DEFINE cut == BuildDiamondCut(routes, deployed)
<1>. HIDE DEF replaced, added, gone, A, B
<1>7. /\ cut \in Seq(ChangeType) /\ \A i \in DOMAIN cut : right(cut[i])
      /\ \A c \in A \cup B : \E i \in DOMAIN cut : cut[i] = c
  <2>. DEFINE a == SetToSeq(A)
              b == SetToSeq(B)
  <2>1. a \in Seq(A) /\ \A c \in A : \E i \in DOMAIN a : a[i] = c
    BY <1>5, SequenceOfSet
  <2>2. b \in Seq(B) /\ \A c \in B : \E i \in DOMAIN b : b[i] = c
    BY <1>3, SequenceOfSet
  <2>3. cut = a \o b
    BY DEF BuildDiamondCut, A, B
  <2>. HIDE DEF a, b, cut, right
  <2>4. /\ DOMAIN a = 1..Len(a) /\ DOMAIN b = 1..Len(b) /\ Len(a) \in Nat /\ Len(b) \in Nat
        /\ DOMAIN cut = 1..(Len(a) + Len(b))
        /\ \A i \in 1..Len(a) : cut[i] = a[i] /\ a[i] \in A
        /\ \A i \in 1..Len(b) : cut[Len(a) + i] = b[i] /\ b[i] \in B
        /\ \A i \in 1..(Len(a) + Len(b)) : cut[i] \in A \cup B
        /\ Len(cut) = Len(a) + Len(b)
    BY <2>1, <2>2, <2>3
  <2>5. \A i \in DOMAIN cut : right(cut[i])
    BY <1>3, <1>5, <2>4
  <2>6. cut \in Seq(ChangeType)
    <3>1. a \in Seq(ChangeType) /\ b \in Seq(ChangeType)
      BY <1>3, <1>5, <2>1, <2>2 DEF right
    <3>. QED  BY <2>3, <3>1
  <2>7. \A c \in A : \E i \in DOMAIN cut : cut[i] = c
    BY <2>1, <2>4
  <2>8. \A c \in B : \E i \in DOMAIN cut : cut[i] = c
    <3>1. \A i \in 1..Len(b) : Len(a) + i \in DOMAIN cut
      BY <2>4
    <3>. QED  BY <2>2, <2>4, <3>1
  <2>. QED  BY <2>5, <2>6, <2>7, <2>8
<1>. DEFINE chunks == InChunks(cut, ChunkSize)
<1>. HIDE DEF cut
<1>8. /\ chunks \in Seq(Seq(ChangeType))
      /\ \A k \in DOMAIN chunks : \A j \in DOMAIN chunks[k] : \E i \in DOMAIN cut : chunks[k][j] = cut[i]
      /\ \A i \in DOMAIN cut : \E k \in DOMAIN chunks : \E j \in DOMAIN chunks[k] : chunks[k][j] = cut[i]
  <2>. HIDE DEF right
  <2>1. cut \in Seq(ChangeType) /\ ChunkSize \in Nat \ {0}
    BY <1>7, UpgradeCutAssumption
  <2>. QED  BY <2>1, ChunksKeepAll
<1>. HIDE DEF chunks
<1>9. LeadsThere(chunks, deployed)
  BY <1>7, <1>8 DEF LeadsThere
<1>10. ASSUME NEW s \in Selectors
       PROVE  routes[s] = Outcome(deployed, s) \/ Ahead(chunks, 0, s)
  <2>1. SUFFICES ASSUME NEW i \in DOMAIN cut, s \in cut[i].selectors
                 PROVE  Ahead(chunks, 0, s)
    BY <1>6, <1>7
  <2>2. PICK k \in DOMAIN chunks : \E j \in DOMAIN chunks[k] : chunks[k][j] = cut[i]
    BY <1>8
  <2>3. k > 0
    BY <1>8
  <2>. QED  BY <2>1, <2>2, <2>3 DEF Ahead
<1>. QED  BY <1>8, <1>9, <1>10 DEF CutPending, chunks, cut

\* A chunk that goes through leaves those after it to do.
LEMMA ChunkApplied ==
  ASSUME NEW routes \in Routes, Cuttable(routes), NEW deployed, NEW libraries, DeployedOK(deployed, libraries),
         NEW cut, NEW n \in Nat, n < Len(cut), CutPending(routes, cut, n, deployed)
  PROVE  LET after == CutRoutes(routes, cut[n + 1])
         IN  after \in Routes /\ Cuttable(after) /\ CutPending(after, cut, n + 1, deployed)
<1>. DEFINE chunk == cut[n + 1]
            after == CutRoutes(routes, chunk)
            named(s) == \E i \in DOMAIN chunk : s \in chunk[i].selectors
<1>1. cut \in Seq(Seq(ChangeType)) /\ n + 1 \in DOMAIN cut /\ chunk \in Seq(ChangeType)
  BY DEF CutPending
<1>2. \A i \in DOMAIN chunk : chunk[i] \in ChangeType
  BY <1>1
<1>3. \A i \in DOMAIN chunk : \A s \in chunk[i].selectors : chunk[i].facet = Outcome(deployed, s)
  BY <1>1 DEF CutPending, LeadsThere
<1>4. ASSUME NEW s \in Selectors
      PROVE  /\ after[s] \in FacetContract
             /\ named(s) => after[s] = Outcome(deployed, s)
             /\ ~named(s) => after[s] = routes[s]
  <2>. HIDE DEF chunk
  <2>1. after[s] = IF named(s) THEN chunk[CHOOSE i \in DOMAIN chunk : s \in chunk[i].selectors].facet ELSE routes[s]
    BY DEF CutRoutes
  <2>2. CASE named(s)
    <3>1. PICK i \in DOMAIN chunk : s \in chunk[i].selectors /\ after[s] = chunk[i].facet
      BY <2>1, <2>2
    <3>. QED  BY <1>2, <1>3, <2>2, <3>1 DEF ChangeType
  <2>3. CASE ~named(s)
    BY <2>1, <2>3 DEF Routes
  <2>. QED  BY <2>2, <2>3
<1>5. after \in Routes
  <2>1. DOMAIN after = Selectors /\ after = [s \in Selectors |-> after[s]]
    BY DEF CutRoutes
  <2>. HIDE DEF after
  <2>. QED  BY <1>4, <2>1 DEF Routes
<1>. HIDE DEF after
<1>6. Cuttable(after)
  <2>1. CASE DiamondCutSelector \notin AllNew
    <3>1. DiamondCutSelector \in Selectors
      BY DEF Selectors
    <3>2. Outcome(deployed, DiamondCutSelector) = DiamondCutFacet
      BY <2>1, TargetFacts DEF Outcome
    <3>. QED  BY <1>4, <2>1, <3>1, <3>2 DEF Cuttable
  <2>. QED  BY <2>1 DEF Cuttable
<1>7. ASSUME NEW s \in Selectors
      PROVE  after[s] = Outcome(deployed, s) \/ Ahead(cut, n + 1, s)
  <2>1. CASE named(s)
    BY <1>4, <2>1
  <2>2. CASE ~named(s) /\ Ahead(cut, n, s)
    <3>1. PICK i \in DOMAIN cut : i > n /\ \E j \in DOMAIN cut[i] : s \in cut[i][j].selectors
      BY <2>2 DEF Ahead
    <3>2. i # n + 1
      BY <2>2, <3>1
    <3>3. i > n + 1
      BY <1>1, <3>1, <3>2
    <3>. QED  BY <3>1, <3>3 DEF Ahead
  <2>3. CASE ~named(s) /\ ~Ahead(cut, n, s)
    BY <1>4, <2>3 DEF CutPending
  <2>. QED  BY <2>1, <2>2, <2>3
<1>. QED  BY <1>5, <1>6, <1>7 DEF CutPending, after

\* With no chunk left, the diamond is v0.8.5.
LEMMA CutDone ==
  ASSUME NEW routes \in Routes, NEW deployed, NEW libraries, DeployedOK(deployed, libraries), DOMAIN deployed = Facets,
         NEW cut, CutPending(routes, cut, Len(cut), deployed)
  PROVE  WholeNew(routes)
<1>1. \A s \in Selectors : ~Ahead(cut, Len(cut), s)
  BY DEF Ahead, CutPending
<1>2. \A s \in Selectors : routes[s] = Outcome(deployed, s)
  BY <1>1 DEF CutPending
<1>3. \A f \in Facets : f \in DOMAIN NewSelectors /\ NewSelectors[f] # {} /\ NewSelectors[f] \subseteq AllNew
  BY UpgradeCutAssumption DEF Facets, AllNew, Range
<1>4. AllNew \subseteq Selectors
  BY DEF Selectors
<1>5. \A s \in AllNew : \E f \in Facets : s \in NewSelectors[f]
  BY UpgradeCutAssumption DEF Facets, AllNew, Range
<1>6. ASSUME NEW f \in Facets, NEW s \in NewSelectors[f]
      PROVE  routes[s] = deployed[f]
  <2>1. Target(deployed, s) = deployed[f] /\ Target(deployed, s) # NoFacet
    BY <1>6, TargetFacts
  <2>. QED  BY <1>2, <1>3, <1>4, <1>6, <2>1 DEF Outcome
<1>7. \A f \in Facets : deployed[f].build > 0 /\ deployed[f].libraries = libraries /\ deployed[f] # NoFacet
  BY NoFacetFacts DEF DeployedOK
<1>8. VerifyAgainstArtifacts(routes)
  <2>1. ASSUME NEW s \in Selectors, s \notin AllNew, s # DiamondCutSelector
        PROVE  routes[s] = NoFacet
    BY <1>2, <2>1, TargetFacts DEF Outcome
  <2>2. routes[DiamondCutSelector] # NoFacet
    BY <1>2, NoFacetFacts DEF Outcome, Selectors
  <2>3. \A s \in AllNew : routes[s] # NoFacet
    BY <1>5, <1>6, <1>7
  <2>4. DiamondCutSelector \in Selectors
    BY DEF Selectors
  <2>. QED  BY <1>4, <2>1, <2>2, <2>3, <2>4 DEF VerifyAgainstArtifacts, Live
<1>9. ASSUME NEW f \in Facets
      PROVE  Cardinality({ routes[s] : s \in NewSelectors[f] }) = 1
  <2>1. { routes[s] : s \in NewSelectors[f] } = {deployed[f]}
    BY <1>3, <1>6
  <2>2. Cardinality({deployed[f]}) = 1
    BY FS_Singleton
  <2>. QED  BY <2>1, <2>2
<1>10. Cardinality({ routes[s].libraries : s \in AllNew }) = 1
  <2>1. \A s \in AllNew : routes[s].libraries = libraries
    BY <1>5, <1>6, <1>7
  <2>2. AllNew # {}
    BY <1>3, FacetsFinite
  <2>3. { routes[s].libraries : s \in AllNew } = {libraries}
    BY <2>1, <2>2
  <2>4. Cardinality({libraries}) = 1
    BY FS_Singleton
  <2>. QED  BY <2>3, <2>4
<1>11. \A s \in AllNew : routes[s].build > 0
  BY <1>5, <1>6, <1>7
<1>. QED  BY <1>8, <1>9, <1>10, <1>11 DEF WholeNew

-----------------------------------------------------------------------------
(* The lists of calls                                                       *)

CoreCalls ==
  { GrantRole(role) : role \in {"PROTOCOL_CONFIG_ROLE", "COOLDOWN_ADMIN_ROLE", "FEE_ADMIN_ROLE"} }
    \cup { Call("set", parameter) : parameter \in DOMAIN SetterRole }
    \cup {Call("setSignatureVerifierAddress", "verifier"), Call("addPublicKey", "verifier"),
          Call("addGatewaySigner", "verifier"), Call("setPublicKeyPermissions", "verifier"),
          Call("setGatewaySignerPermissions", "verifier")}
LayerCalls ==
  { GrantRole(role) : role \in {"INTEGRATION_ADMIN_ROLE", "SIGNER_ADMIN_ROLE", "AFFILIATE_MANAGER_ROLE",
                                "BALANCE_SETTLER_ROLE", "INSTANT_LAYER_ROLE", "SIGNER_SETTER_ROLE"} }
    \cup {Call("registerHook", "accountLayer"), Call("setWhitelistedSymmioCore", "accountLayer"),
          Call("setAccountLayer", "instantLayer"), Call("setTargetWhitelist", "diamond"),
          Call("setTargetWhitelist", "accountLayer"), Call("addTemplate", "instantLayer"), RegisterPartyBs}
ManagerCalls ==
  { GrantRole(role) : role \in {"SYMBOL_MANAGER_ROLE", "FORCE_CLOSE_GAP_RATIO_ADMIN_ROLE"} }
    \cup {Call("grantToRunner", "MIGRATION_ROLE"), Call("grantToRunner", "SYMBOL_MANAGER_ROLE")}
PausingCalls ==
  { GrantRole(role) : role \in {"PAUSER_ROLE", "UNPAUSER_ROLE"} }
    \cup {Call("pauseGlobal", "diamond"), Call("setAdmin", "signer")}
Recorded == CoreCalls \cup LayerCalls \cup ManagerCalls
EveryCall == Recorded \cup PausingCalls \cup {AcceptOwnership}

\* What a step of eoaUpgrade.ts calls when nothing was called before.
ListOf ==
  [pause |-> ScriptPauseCalls, parameters |-> ParameterCalls(TRUE), wiring |-> WiringCalls, templates |-> TemplateCalls,
   registerPartyBs |-> <<RegisterPartyBs>>, symbolManagerWiring |-> SymbolManagerCalls,
   migrationRole |-> <<RunnerCalls[1]>>]

FullPostBatch ==
  ParameterCalls(TRUE) \o RunnerCalls \o (WiringCalls \o <<RegisterPartyBs>> \o TemplateCalls \o <<AcceptOwnership>>)
    \o SymbolManagerCalls

LEMMA Concatenated ==
  ASSUME NEW S, NEW a \in Seq(S), NEW b \in Seq(S)
  PROVE  a \o b \in Seq(S) /\ Range(a \o b) = Range(a) \cup Range(b)
<1>1. /\ a \o b \in Seq(S) /\ DOMAIN a = 1..Len(a) /\ DOMAIN b = 1..Len(b) /\ Len(a) \in Nat /\ Len(b) \in Nat
      /\ DOMAIN (a \o b) = 1..(Len(a) + Len(b))
      /\ \A i \in 1..Len(a) : (a \o b)[i] = a[i]
      /\ \A i \in 1..Len(b) : (a \o b)[Len(a) + i] = b[i] /\ Len(a) + i \in DOMAIN (a \o b)
      /\ \A i \in 1..(Len(a) + Len(b)) : i \in 1..Len(a) \/ (i - Len(a) \in 1..Len(b) /\ i = Len(a) + (i - Len(a)))
  OBVIOUS
<1>. DEFINE c == a \o b
<1>. HIDE DEF c
<1>2. \A x \in Range(c) : x \in Range(a) \cup Range(b)
  BY <1>1 DEF Range, c
<1>3. \A x \in Range(a) : x \in Range(c)
  <2>1. \A i \in DOMAIN a : a[i] = c[i] /\ i \in DOMAIN c
    BY <1>1 DEF c
  <2>. QED  BY <2>1 DEF Range
<1>4. \A x \in Range(b) : x \in Range(c)
  <2>1. \A i \in DOMAIN b : b[i] = c[Len(a) + i] /\ Len(a) + i \in DOMAIN c
    BY <1>1 DEF c
  <2>. QED  BY <2>1 DEF Range
<1>. QED  BY <1>1, <1>2, <1>3, <1>4 DEF c

LEMMA WiderSequence ==
  ASSUME NEW S, NEW T, S \subseteq T, NEW a \in Seq(S)
  PROVE  a \in Seq(T)
OBVIOUS

LEMMA RangeTyped ==
  ASSUME NEW S, NEW a \in Seq(S)
  PROVE  Range(a) \subseteq S
BY DEF Range

LEMMA OneCall ==
  ASSUME NEW S, NEW x \in S
  PROVE  <<x>> \in Seq(S) /\ Range(<<x>>) = {x}
BY DEF Range

LEMMA GrantsTyped ==
  ASSUME NEW S, NEW roles \in Seq(S)
  PROVE  Grants(roles) \in Seq({ GrantRole(role) : role \in S })
<1>1. \A i \in DOMAIN roles : GrantRole(roles[i]) \in { GrantRole(role) : role \in S }
  OBVIOUS
<1>. DEFINE g == [i \in DOMAIN roles |-> GrantRole(roles[i])]
<1>2. g \in Seq({ GrantRole(role) : role \in S })
  BY <1>1
<1>. QED  BY <1>2 DEF Grants

LEMMA SetsTyped ==
  ASSUME NEW S, NEW parameters \in Seq(S)
  PROVE  Sets(parameters) \in Seq({ Call("set", parameter) : parameter \in S })
<1>1. \A i \in DOMAIN parameters : Call("set", parameters[i]) \in { Call("set", parameter) : parameter \in S }
  OBVIOUS
<1>. DEFINE g == [i \in DOMAIN parameters |-> Call("set", parameters[i])]
<1>2. g \in Seq({ Call("set", parameter) : parameter \in S })
  BY <1>1
<1>. QED  BY <1>2 DEF Sets

LEMMA ListsTyped ==
  /\ PauseCalls \in Seq(PausingCalls) /\ Call("pauseGlobal", "diamond") \in Range(PauseCalls)
  /\ ScriptPauseCalls \in Seq(PausingCalls) /\ Call("pauseGlobal", "diamond") \in Range(ScriptPauseCalls)
  /\ ParameterCalls(TRUE) \in Seq(CoreCalls)
  /\ WiringCalls \in Seq(LayerCalls) /\ TemplateCalls \in Seq(LayerCalls)
  /\ SymbolManagerCalls \in Seq(ManagerCalls) /\ RunnerCalls \in Seq(ManagerCalls)
  /\ RunnerCalls[1] \in Range(RunnerCalls) /\ RunnerCalls[1] \in ManagerCalls
<1>1. PauseCalls \in Seq(PausingCalls) /\ Call("pauseGlobal", "diamond") \in Range(PauseCalls)
  <2>. DEFINE a == Grants(<<"PAUSER_ROLE", "UNPAUSER_ROLE">>)
              b == <<Call("pauseGlobal", "diamond")>>
  <2>1. <<"PAUSER_ROLE", "UNPAUSER_ROLE">> \in Seq({"PAUSER_ROLE", "UNPAUSER_ROLE"})
    OBVIOUS
  <2>2. a \in Seq({ GrantRole(role) : role \in {"PAUSER_ROLE", "UNPAUSER_ROLE"} })
    BY <2>1, GrantsTyped
  <2>. HIDE DEF a
  <2>3. a \in Seq(PausingCalls) /\ b \in Seq(PausingCalls)
    BY <2>2 DEF PausingCalls
  <2>4. Call("pauseGlobal", "diamond") \in Range(b)
    BY DEF Range
  <2>. HIDE DEF b
  <2>5. PauseCalls = a \o b
    BY DEF PauseCalls, a, b
  <2>. QED  BY <2>3, <2>4, <2>5, Concatenated
<1>2. ParameterCalls(TRUE) \in Seq(CoreCalls)
  <2>. DEFINE a == Grants(ParameterRoles)
              b == Sets(<<"maxPartyAConnectionLimit">>)
              d == Sets(<<"liquidationInsuranceVaultParams", "softLiquidationPenaltyCollector", "minAffiliateFee",
                          "unbindCooldown", "minWithdrawCooldown", "maxWithdrawParts">>)
  <2>1. ParameterRoles \in Seq({"PROTOCOL_CONFIG_ROLE", "COOLDOWN_ADMIN_ROLE", "FEE_ADMIN_ROLE"})
    BY DEF ParameterRoles
  <2>2. a \in Seq({ GrantRole(role) : role \in {"PROTOCOL_CONFIG_ROLE", "COOLDOWN_ADMIN_ROLE", "FEE_ADMIN_ROLE"} })
    BY <2>1, GrantsTyped
  <2>3. /\ <<"maxPartyAConnectionLimit">> \in Seq(DOMAIN SetterRole)
        /\ <<"liquidationInsuranceVaultParams", "softLiquidationPenaltyCollector", "minAffiliateFee",
             "unbindCooldown", "minWithdrawCooldown", "maxWithdrawParts">> \in Seq(DOMAIN SetterRole)
    BY DEF SetterRole
  <2>4. b \in Seq({ Call("set", parameter) : parameter \in DOMAIN SetterRole })
    BY <2>3, SetsTyped
  <2>5. d \in Seq({ Call("set", parameter) : parameter \in DOMAIN SetterRole })
    BY <2>3, SetsTyped
  <2>. HIDE DEF a, b, d
  <2>6. a \in Seq(CoreCalls) /\ b \in Seq(CoreCalls) /\ d \in Seq(CoreCalls)
    BY <2>2, <2>4, <2>5 DEF CoreCalls
  <2>7. VerifierCalls \in Seq(CoreCalls)
    BY DEF VerifierCalls, CoreCalls
  <2>8. ParameterCalls(TRUE) = ((a \o b) \o VerifierCalls) \o d
    BY DEF ParameterCalls, a, b, d
  <2>9. a \o b \in Seq(CoreCalls)
    BY <2>6, Concatenated
  <2>10. (a \o b) \o VerifierCalls \in Seq(CoreCalls)
    BY <2>7, <2>9, Concatenated
  <2>. DEFINE e == (a \o b) \o VerifierCalls
  <2>11. e \in Seq(CoreCalls)
    BY <2>10
  <2>. HIDE DEF e
  <2>12. e \o d \in Seq(CoreCalls)
    BY <2>6, <2>11, Concatenated
  <2>. QED  BY <2>8, <2>12 DEF e
<1>3. WiringCalls \in Seq(LayerCalls)
  <2>. DEFINE roles == <<"INTEGRATION_ADMIN_ROLE", "SIGNER_ADMIN_ROLE", "AFFILIATE_MANAGER_ROLE",
                         "BALANCE_SETTLER_ROLE", "INSTANT_LAYER_ROLE">>
              names == {"INTEGRATION_ADMIN_ROLE", "SIGNER_ADMIN_ROLE", "AFFILIATE_MANAGER_ROLE",
                         "BALANCE_SETTLER_ROLE", "INSTANT_LAYER_ROLE", "SIGNER_SETTER_ROLE"}
              a == Grants(roles)
              b == <<Call("registerHook", "accountLayer"), Call("grantRole", "SIGNER_SETTER_ROLE"),
                     Call("setWhitelistedSymmioCore", "accountLayer"), Call("setAccountLayer", "instantLayer"),
                     Call("setTargetWhitelist", "diamond"), Call("setTargetWhitelist", "accountLayer")>>
  <2>1. roles \in Seq(names)
    OBVIOUS
  <2>. HIDE DEF roles, names
  <2>2. a \in Seq({ GrantRole(role) : role \in names })
    BY <2>1, GrantsTyped
  <2>. HIDE DEF a
  <2>3. a \in Seq(LayerCalls)
    BY <2>2 DEF LayerCalls, names
  <2>4. b \in Seq(LayerCalls)
    BY DEF LayerCalls, GrantRole
  <2>. HIDE DEF b
  <2>5. WiringCalls = a \o b
    BY DEF WiringCalls, a, b, roles
  <2>. QED  BY <2>3, <2>4, <2>5, Concatenated
<1>4. TemplateCalls \in Seq(LayerCalls)
  BY DEF TemplateCalls, LayerCalls
<1>5. SymbolManagerCalls \in Seq(ManagerCalls)
  <2>. DEFINE roles == <<"SYMBOL_MANAGER_ROLE", "FORCE_CLOSE_GAP_RATIO_ADMIN_ROLE">>
              names == {"SYMBOL_MANAGER_ROLE", "FORCE_CLOSE_GAP_RATIO_ADMIN_ROLE"}
  <2>1. roles \in Seq(names)
    OBVIOUS
  <2>2. SymbolManagerCalls = Grants(roles)
    BY DEF SymbolManagerCalls
  <2>. HIDE DEF roles, names
  <2>3. SymbolManagerCalls \in Seq({ GrantRole(role) : role \in names })
    BY <2>1, <2>2, GrantsTyped
  <2>. QED  BY <2>3 DEF ManagerCalls, names
<1>6. RunnerCalls \in Seq(ManagerCalls) /\ RunnerCalls[1] \in Range(RunnerCalls) /\ RunnerCalls[1] \in ManagerCalls
  BY DEF RunnerCalls, ManagerCalls, Range
<1>7. ScriptPauseCalls \in Seq(PausingCalls) /\ Call("pauseGlobal", "diamond") \in Range(ScriptPauseCalls)
  <2>. DEFINE admin == Call("setAdmin", "signer")
  <2>1. admin \in PausingCalls
    BY DEF PausingCalls
  <2>. HIDE DEF admin
  <2>2. <<admin>> \in Seq(PausingCalls)
    BY <2>1, OneCall
  <2>3. ScriptPauseCalls = <<admin>> \o PauseCalls
    BY DEF ScriptPauseCalls, admin
  <2>4. /\ <<admin>> \o PauseCalls \in Seq(PausingCalls)
        /\ Range(<<admin>> \o PauseCalls) = Range(<<admin>>) \cup Range(PauseCalls)
    BY <1>1, <2>2, Concatenated
  <2>. QED  BY <1>1, <2>3, <2>4
<1>. QED  BY <1>1, <1>2, <1>3, <1>4, <1>5, <1>6, <1>7

\* Which calls leave a fact, and that no parameter is lost with an AccountLayer.
LEMMA CallFacts ==
  /\ \A call \in Recorded : call[1] # "pauseGlobal" /\ call # AcceptOwnership
  /\ CoreCalls \cap LayerCalls = {}
  /\ RegisterPartyBs \in LayerCalls
<1>1. \A call \in Recorded : call[1] # "pauseGlobal" /\ call[1] # "acceptOwnership"
  BY DEF Recorded, CoreCalls, LayerCalls, ManagerCalls, GrantRole, Call, RegisterPartyBs
<1>2. AcceptOwnership[1] = "acceptOwnership"
  BY DEF AcceptOwnership, Call
<1>3. CoreCalls \cap LayerCalls = {}
  BY DEF CoreCalls, LayerCalls, GrantRole, Call, RegisterPartyBs
<1>4. RegisterPartyBs \in LayerCalls
  BY DEF LayerCalls
<1>. QED  BY <1>1, <1>2, <1>3, <1>4

LEMMA PostBatchCalls ==
  /\ FullPostBatch \in Seq(EveryCall)
  /\ Range(FullPostBatch) = Range(ParameterCalls(TRUE)) \cup Range(RunnerCalls) \cup Range(WiringCalls)
                              \cup Range(TemplateCalls) \cup Range(SymbolManagerCalls)
                              \cup {RegisterPartyBs, AcceptOwnership}
<1>. DEFINE r == <<RegisterPartyBs>>
            o == <<AcceptOwnership>>
            a == ParameterCalls(TRUE) \o RunnerCalls
            b == WiringCalls \o r
            c == b \o TemplateCalls
            d == c \o o
            e == a \o d
<1>. HIDE DEF r, o, a, b, c, d, e
<1>1. /\ ParameterCalls(TRUE) \in Seq(EveryCall) /\ RunnerCalls \in Seq(EveryCall) /\ WiringCalls \in Seq(EveryCall)
      /\ TemplateCalls \in Seq(EveryCall) /\ SymbolManagerCalls \in Seq(EveryCall)
  <2>1. CoreCalls \subseteq EveryCall /\ LayerCalls \subseteq EveryCall /\ ManagerCalls \subseteq EveryCall
    BY DEF EveryCall, Recorded
  <2>2. ParameterCalls(TRUE) \in Seq(EveryCall)
    BY <2>1, ListsTyped, WiderSequence
  <2>3. RunnerCalls \in Seq(EveryCall) /\ SymbolManagerCalls \in Seq(EveryCall)
    BY <2>1, ListsTyped, WiderSequence
  <2>4. WiringCalls \in Seq(EveryCall) /\ TemplateCalls \in Seq(EveryCall)
    BY <2>1, ListsTyped, WiderSequence
  <2>. QED  BY <2>2, <2>3, <2>4
<1>2. r \in Seq(EveryCall) /\ o \in Seq(EveryCall) /\ Range(r) = {RegisterPartyBs} /\ Range(o) = {AcceptOwnership}
  <2>1. RegisterPartyBs \in EveryCall /\ AcceptOwnership \in EveryCall
    BY CallFacts DEF EveryCall, Recorded
  <2>. QED  BY <2>1, OneCall DEF r, o
<1>3. FullPostBatch = e \o SymbolManagerCalls
  BY DEF FullPostBatch, a, b, c, d, e, r, o
<1>4. a \in Seq(EveryCall) /\ Range(a) = Range(ParameterCalls(TRUE)) \cup Range(RunnerCalls)
  BY <1>1, Concatenated DEF a
<1>5. b \in Seq(EveryCall) /\ Range(b) = Range(WiringCalls) \cup {RegisterPartyBs}
  BY <1>1, <1>2, Concatenated DEF b
<1>6. c \in Seq(EveryCall) /\ Range(c) = Range(b) \cup Range(TemplateCalls)
  BY <1>1, <1>5, Concatenated DEF c
<1>7. d \in Seq(EveryCall) /\ Range(d) = Range(c) \cup {AcceptOwnership}
  BY <1>2, <1>6, Concatenated DEF d
<1>8. a \o d \in Seq(EveryCall) /\ Range(a \o d) = Range(a) \cup Range(d)
  <2>1. a \in Seq(EveryCall) /\ d \in Seq(EveryCall)
    BY <1>4, <1>7
  <2>. QED  BY <2>1, Concatenated
<1>9. e \in Seq(EveryCall) /\ Range(e) = Range(a) \cup Range(d)
  BY <1>8 DEF e
<1>10. e \o SymbolManagerCalls \in Seq(EveryCall)
  BY <1>1, <1>9, Concatenated
<1>11. Range(e \o SymbolManagerCalls) = Range(e) \cup Range(SymbolManagerCalls)
  BY <1>1, <1>9, Concatenated
<1>. QED  BY <1>3, <1>4, <1>5, <1>6, <1>7, <1>9, <1>10, <1>11

LEMMA ListLengths ==
  /\ DOMAIN ListOf = CallSteps
  /\ \A step \in CallSteps : /\ ListOf[step] \in Seq(EveryCall)
                            /\ ListOf[step] \in Seq(EveryCall \ {AcceptOwnership})
                            /\ \A k \in DOMAIN ListOf[step] : k \in Nat \ {0}
<1>. DEFINE Others == EveryCall \ {AcceptOwnership}
<1>1. DOMAIN ListOf = CallSteps
  BY DEF ListOf, CallSteps
<1>2. /\ ListOf["pause"] = ScriptPauseCalls /\ ListOf["parameters"] = ParameterCalls(TRUE) /\ ListOf["wiring"] = WiringCalls
      /\ ListOf["templates"] = TemplateCalls /\ ListOf["registerPartyBs"] = <<RegisterPartyBs>>
      /\ ListOf["symbolManagerWiring"] = SymbolManagerCalls /\ ListOf["migrationRole"] = <<RunnerCalls[1]>>
  BY DEF ListOf
<1>3. CoreCalls \subseteq Others /\ LayerCalls \subseteq Others /\ ManagerCalls \subseteq Others
        /\ PausingCalls \subseteq Others
  <2>1. \A call \in Recorded \cup PausingCalls : call # AcceptOwnership
    <3>1. \A call \in PausingCalls : call[1] # "acceptOwnership"
      BY DEF PausingCalls, GrantRole, Call
    <3>2. AcceptOwnership[1] = "acceptOwnership"
      BY DEF AcceptOwnership, Call
    <3>. QED  BY <3>1, <3>2, CallFacts
  <2>. QED  BY <2>1 DEF EveryCall, Recorded
<1>. HIDE DEF Others
<1>4. RegisterPartyBs \in Others /\ RunnerCalls[1] \in Others
  BY <1>3, ListsTyped, CallFacts
<1>5. /\ <<RegisterPartyBs>> \in Seq(Others) /\ <<RunnerCalls[1]>> \in Seq(Others)
  BY <1>4, OneCall
<1>6. ScriptPauseCalls \in Seq(Others) /\ ParameterCalls(TRUE) \in Seq(Others)
  BY <1>3, ListsTyped, WiderSequence
<1>7. WiringCalls \in Seq(Others) /\ TemplateCalls \in Seq(Others) /\ SymbolManagerCalls \in Seq(Others)
  BY <1>3, ListsTyped, WiderSequence
<1>8. \A step \in CallSteps : ListOf[step] \in Seq(Others)
  BY <1>2, <1>5, <1>6, <1>7 DEF CallSteps
<1>9. \A step \in CallSteps : ListOf[step] \in Seq(EveryCall)
  BY <1>8, WiderSequence DEF Others
<1>. QED  BY <1>1, <1>8, <1>9 DEF Others

LEMMA LayerFacts == Range(ParameterCalls(TRUE)) \cap AccountLayerFacts = {}
<1>1. Range(ParameterCalls(TRUE)) \subseteq CoreCalls
  BY ListsTyped, RangeTyped
<1>2. Range(WiringCalls \o TemplateCalls) = Range(WiringCalls) \cup Range(TemplateCalls)
  BY ListsTyped, Concatenated
<1>3. Range(WiringCalls) \subseteq LayerCalls /\ Range(TemplateCalls) \subseteq LayerCalls
  BY ListsTyped, RangeTyped
<1>. QED  BY <1>1, <1>2, <1>3, CallFacts DEF AccountLayerFacts

LEMMA ScriptLengths ==
  /\ DOMAIN Steps = {"eoaUpgrade", "deployFacets", "deployPeripherals"}
  /\ DOMAIN Steps["eoaUpgrade"] = 1..16 /\ Len(Steps["eoaUpgrade"]) = 16
  /\ DOMAIN Steps["deployFacets"] = 1..2 /\ Len(Steps["deployFacets"]) = 2
  /\ DOMAIN Steps["deployPeripherals"] = 1..7 /\ Len(Steps["deployPeripherals"]) = 7
BY DEF Steps

\* Where a script is when it is at a step of that name.
LEMMA StepNames ==
  ASSUME NEW script \in DOMAIN Steps, NEW step \in DOMAIN Steps[script]
  PROVE  LET name == Steps[script][step]
             eoa == script = "eoaUpgrade"
             facets == script = "deployFacets"
             peripherals == script = "deployPeripherals"
         IN  /\ (name = "libraries") <=> ((eoa \/ facets) /\ step = 1)
             /\ (name = "facets") <=> ((eoa \/ facets) /\ step = 2)
             /\ (name = "buildCut") <=> (eoa /\ step = 3)
             /\ (name = "pause") <=> (eoa /\ step = 4)
             /\ (name = "cut") <=> (eoa /\ step = 5)
             /\ (name = "parameters") <=> (eoa /\ step = 6)
             /\ (name = "accountLayer") <=> ((eoa /\ step = 7) \/ (peripherals /\ step = 2))
             /\ (name = "accountLayerCut") <=> ((eoa /\ step = 8) \/ (peripherals /\ step = 3))
             /\ (name = "instantLayer") <=> ((eoa /\ step = 9) \/ (peripherals /\ step = 5))
             /\ (name = "wiring") <=> (eoa /\ step = 10)
             /\ (name = "templates") <=> (eoa /\ step = 11)
             /\ (name = "partyB") <=> ((eoa /\ step = 12) \/ (peripherals /\ step = 6))
             /\ (name = "registerPartyBs") <=> (eoa /\ step = 13)
             /\ (name = "symbolManager") <=> ((eoa /\ step = 14) \/ (peripherals /\ step = 7))
             /\ (name = "symbolManagerWiring") <=> (eoa /\ step = 15)
             /\ (name = "migrationRole") <=> (eoa /\ step = 16)
             /\ (name = "verifier") <=> (peripherals /\ step = 1)
             /\ (name = "transferOwnership") <=> (peripherals /\ step = 4)
<1>1. CASE script = "eoaUpgrade"
  <2>1. Steps[script] = <<"libraries", "facets", "buildCut", "pause", "cut", "parameters", "accountLayer",
                          "accountLayerCut", "instantLayer", "wiring", "templates", "partyB", "registerPartyBs",
                          "symbolManager", "symbolManagerWiring", "migrationRole">>
    BY <1>1 DEF Steps
  <2>2. step \in 1..16
    BY <1>1, ScriptLengths
  <2>. QED  BY <1>1, <2>1, <2>2
<1>2. CASE script = "deployFacets"
  <2>1. Steps[script] = <<"libraries", "facets">> /\ step \in 1..2
    BY <1>2, ScriptLengths DEF Steps
  <2>. QED  BY <1>2, <2>1
<1>3. CASE script = "deployPeripherals"
  <2>1. /\ Steps[script] = <<"verifier", "accountLayer", "accountLayerCut", "transferOwnership", "instantLayer",
                             "partyB", "symbolManager">>
        /\ step \in 1..7
    BY <1>3, ScriptLengths DEF Steps
  <2>. QED  BY <1>3, <2>1
<1>. QED  BY <1>1, <1>2, <1>3, ScriptLengths

-----------------------------------------------------------------------------
(* The inductive invariant                                                  *)

Cuts == Seq(Seq(ChangeType))
DeployedFacets == UNION { [names -> FacetContract] : names \in SUBSET Facets }
Peripherals == {"verifier", "accountLayer", "instantLayer", "partyB", "symbolManager"}

ChainType ==
  [routes : Routes, paused : BOOLEAN, facts : SUBSET EveryCall,
   accountLayer : [chunks : Nat, owner : {"deployer", "pending", "safe"}]]
FacetsFileType == [libraries : Nat, deployed : DeployedFacets, torn : BOOLEAN]
PeripheralsFileType == [saved : SUBSET Peripherals, cutComplete : BOOLEAN, torn : BOOLEAN]
FilesType == [facets : FacetsFileType, peripherals : PeripheralsFileType]
ScriptNames == DOMAIN Steps \cup {"none"}
ProcessType == [script : ScriptNames, step : Nat \ {0}, done : Nat, cut : Cuts]
BatchType == [exists : BOOLEAN, cut : Cuts, post : Seq(EveryCall), timelock : Cuts]

UpgradeTypeOK ==
  /\ path \in {"eoa", "safe", "timelock"}
  /\ chain \in ChainType /\ files \in FilesType
  /\ process \in ProcessType /\ batch \in BatchType
  /\ verdict \in [known : BOOLEAN, labels : SUBSET Labels]
  /\ applied \in Nat /\ finished \in BOOLEAN /\ deployments \in Nat

\* All facets in the file are new and linked to the libraries it names.
FacetsFileOK ==
  /\ DeployedOK(files.facets.deployed, files.facets.libraries)
  /\ files.facets.libraries = 0 => DOMAIN files.facets.deployed = {}
  /\ At("facets") => files.facets.libraries # 0

\* A cut of the AccountLayer that counts as complete has all its chunks.
AccountLayerOK ==
  /\ files.peripherals.cutComplete => "accountLayer" \in files.peripherals.saved /\ AccountLayerWhole(chain)
  /\ At("accountLayerCut") => /\ "accountLayer" \in files.peripherals.saved
                              /\ process.done > 0 => chain.accountLayer.chunks = process.done

\* Before the end the diamond is cut only while it is paused.
RoutesOK ==
  /\ Cuttable(chain.routes)
  /\ ~chain.paused /\ ~finished => chain.routes = OldRoutes

\* Scripts and batches take turns.
TurnsOK ==
  /\ Running => /\ process.script \in ScriptsOf(path) /\ process.step \in DOMAIN Steps[process.script]
                /\ ~finished /\ ~batch.exists
  /\ path = "eoa" => ~batch.exists

Made(call) == IF call[1] = "pauseGlobal" THEN chain.paused ELSE call \in chain.facts

\* What the steps that eoaUpgrade.ts has behind it did still stands, and of the
\* step it is at what was done so far.
ScriptOK ==
  process.script = "eoaUpgrade" =>
    /\ process.step > 2 => FacetsDeployed
    /\ process.step = 4 => /\ process.cut # <<>>
                           /\ CutPending(chain.routes, process.cut, 0, files.facets.deployed)
    /\ process.step > 4 => chain.paused
    /\ process.step = 5 => /\ process.done < Len(process.cut)
                           /\ CutPending(chain.routes, process.cut, process.done, files.facets.deployed)
    /\ process.step > 5 => WholeNew(chain.routes)
    /\ process.step > 6 => Range(ParameterCalls(TRUE)) \subseteq chain.facts
    /\ process.step > 8 => AccountLayerWhole(chain)
    /\ process.step > 10 => Range(WiringCalls) \subseteq chain.facts
    /\ process.step > 11 => Range(TemplateCalls) \subseteq chain.facts
    /\ process.step > 13 => RegisterPartyBs \in chain.facts
    /\ process.step > 15 => Range(SymbolManagerCalls) \subseteq chain.facts
    /\ \A step \in CallSteps : At(step) => \A k \in DOMAIN ListOf[step] : k <= process.done => Made(ListOf[step][k])

\* Batches there are were made of all that is deployed, and of the cut what was
\* not executed yet is what the diamond still needs.
BatchOK ==
  batch.exists =>
    /\ FacetsDeployed /\ PeripheralsDeployed /\ files.peripherals.cutComplete
    /\ batch.post = FullPostBatch
    /\ applied <= Len(batch.cut) /\ CutPending(chain.routes, batch.cut, applied, files.facets.deployed)
    /\ verdict.known /\ "timelock-safe-batch" \in verdict.labels => batch.timelock \in {<<>>, batch.cut}

FinishedOK == UpgradedIsReady /\ (finished => ~Running)

UpgradeInv ==
  /\ UpgradeTypeOK /\ FacetsFileOK /\ AccountLayerOK /\ RoutesOK /\ TurnsOK /\ ScriptOK /\ BatchOK /\ FinishedOK

-----------------------------------------------------------------------------
(* Where the process is                                                     *)

Positions ==
  LET eoa == process.script = "eoaUpgrade"
      facets == process.script = "deployFacets"
      peripherals == process.script = "deployPeripherals"
      step == process.step
  IN  /\ At("libraries") <=> ((eoa \/ facets) /\ step = 1)
      /\ At("facets") <=> ((eoa \/ facets) /\ step = 2)
      /\ At("buildCut") <=> (eoa /\ step = 3)
      /\ At("pause") <=> (eoa /\ step = 4)
      /\ At("cut") <=> (eoa /\ step = 5)
      /\ At("parameters") <=> (eoa /\ step = 6)
      /\ At("accountLayer") <=> ((eoa /\ step = 7) \/ (peripherals /\ step = 2))
      /\ At("accountLayerCut") <=> ((eoa /\ step = 8) \/ (peripherals /\ step = 3))
      /\ At("instantLayer") <=> ((eoa /\ step = 9) \/ (peripherals /\ step = 5))
      /\ At("wiring") <=> (eoa /\ step = 10)
      /\ At("templates") <=> (eoa /\ step = 11)
      /\ At("partyB") <=> ((eoa /\ step = 12) \/ (peripherals /\ step = 6))
      /\ At("registerPartyBs") <=> (eoa /\ step = 13)
      /\ At("symbolManager") <=> ((eoa /\ step = 14) \/ (peripherals /\ step = 7))
      /\ At("symbolManagerWiring") <=> (eoa /\ step = 15)
      /\ At("migrationRole") <=> (eoa /\ step = 16)
      /\ At("verifier") <=> (peripherals /\ step = 1)
      /\ At("transferOwnership") <=> (peripherals /\ step = 4)

LEMMA PositionsNow == TurnsOK /\ process.script \in ScriptNames => Positions
<1>. SUFFICES ASSUME TurnsOK, process.script \in ScriptNames
              PROVE  Positions
  OBVIOUS
<1>1. CASE Running
  <2>1. process.script \in DOMAIN Steps /\ process.step \in DOMAIN Steps[process.script]
    BY <1>1 DEF TurnsOK, Running, ScriptNames
  <2>. QED  BY <1>1, <2>1, StepNames DEF Positions, At
<1>2. CASE ~Running
  BY <1>2 DEF Positions, At, Running
<1>. QED  BY <1>1, <1>2

LEMMA PositionsNext == TurnsOK' /\ (process.script \in ScriptNames)' => Positions'
<1>. SUFFICES ASSUME TurnsOK', (process.script \in ScriptNames)'
              PROVE  Positions'
  OBVIOUS
<1>1. CASE Running'
  <2>1. process'.script \in DOMAIN Steps /\ process'.step \in DOMAIN Steps[process'.script]
    BY <1>1 DEF TurnsOK, Running, ScriptNames
  <2>. QED  BY <1>1, <2>1, StepNames DEF Positions, At
<1>2. CASE ~Running'
  BY <1>2 DEF Positions, At, Running
<1>. QED  BY <1>1, <1>2

\* What a running script may count on.
LEMMA Within ==
  ASSUME UpgradeInv, Running
  PROVE  /\ Positions /\ ~finished /\ ~batch.exists
         /\ process.script \in DOMAIN Steps /\ process.script \in ScriptsOf(path)
         /\ process.step \in DOMAIN Steps[process.script]
         /\ process.script = "eoaUpgrade" => process.step \in 1..16
         /\ process.script = "deployFacets" => process.step \in 1..2
         /\ process.script = "deployPeripherals" => process.step \in 1..7
<1>1. TurnsOK /\ process.script \in ScriptNames
  BY DEF UpgradeInv, UpgradeTypeOK, ProcessType
<1>2. process.script \in DOMAIN Steps
  BY <1>1 DEF Running, ScriptNames
<1>. QED  BY <1>1, <1>2, PositionsNow, ScriptLengths DEF TurnsOK

LEMMA IdleFacts == Idle \in ProcessType /\ Idle.script = "none" /\ Idle.step = 1 /\ Idle.done = 0
<1>1. <<>> \in Cuts
  BY DEF Cuts
<1>. QED  BY <1>1 DEF Idle, ProcessType, ScriptNames

\* Of a step that ends the process nothing more is asked.
LEMMA Stopped ==
  ASSUME process' = Idle
  PROVE  ~Running' /\ (\A name : ~At(name)') /\ ScriptOK' /\ (process \in ProcessType)'
BY IdleFacts DEF Running, At, ScriptOK

LEMMA Advanced ==
  ASSUME UpgradeInv, Running, Advance
  PROVE  /\ (process \in ProcessType)' /\ finished' \in BOOLEAN
         /\ Ends => /\ process' = Idle
                    /\ process.script = "eoaUpgrade" => finished' = TRUE
                    /\ process.script # "eoaUpgrade" => finished' = FALSE
         /\ ~Ends => /\ process'.script = process.script /\ process'.step = process.step + 1
                     /\ process'.done = 0 /\ process'.cut = process.cut
                     /\ process'.step \in DOMAIN Steps[process.script] /\ finished' = FALSE
         /\ Ends <=> \/ process.script = "eoaUpgrade" /\ process.step = 16
                     \/ process.script = "deployFacets" /\ process.step = 2
                     \/ process.script = "deployPeripherals" /\ process.step = 7
<1>1. process \in ProcessType /\ finished \in BOOLEAN
  BY DEF UpgradeInv, UpgradeTypeOK
<1>2. /\ Ends <=> \/ process.script = "eoaUpgrade" /\ process.step = 16
                  \/ process.script = "deployFacets" /\ process.step = 2
                  \/ process.script = "deployPeripherals" /\ process.step = 7
      /\ ~Ends => process.step + 1 \in DOMAIN Steps[process.script]
  <2>1. process.script \in {"eoaUpgrade", "deployFacets", "deployPeripherals"}
    BY Within, ScriptLengths
  <2>2. CASE process.script = "eoaUpgrade"
    BY <2>2, Within, ScriptLengths DEF Ends
  <2>3. CASE process.script = "deployFacets"
    BY <2>3, Within, ScriptLengths DEF Ends
  <2>4. CASE process.script = "deployPeripherals"
    BY <2>4, Within, ScriptLengths DEF Ends
  <2>. QED  BY <2>1, <2>2, <2>3, <2>4
<1>3. CASE Ends
  BY <1>1, <1>2, <1>3, Within, IdleFacts DEF Advance
<1>4. CASE ~Ends
  <2>1. process' = [process EXCEPT !.step = @ + 1, !.done = 0] /\ finished' = finished /\ ~finished
    BY <1>4, Within DEF Advance
  <2>2. /\ process' \in ProcessType /\ process'.script = process.script /\ process'.step = process.step + 1
        /\ process'.done = 0 /\ process'.cut = process.cut
    <3>1. process.step \in Nat \ {0}
      BY <1>1 DEF ProcessType
    <3>2. process.step + 1 \in Nat \ {0}
      BY <3>1
    <3>3. process' = [process EXCEPT !.step = process.step + 1, !.done = 0]
      BY <2>1
    <3>. QED  BY <1>1, <3>2, <3>3 DEF ProcessType
  <2>. QED  BY <1>1, <1>2, <1>4, <2>1, <2>2
<1>. QED  BY <1>2, <1>3, <1>4

\* A script step leaves the batches, of which there are none, alone.
LEMMA ScriptFrame ==
  ASSUME UpgradeInv, Running, UNCHANGED ScriptVars, (process \in ProcessType)', finished' \in BOOLEAN,
         \/ process' = Idle
         \/ /\ process'.script = process.script /\ process'.step \in DOMAIN Steps[process.script]
            /\ ~finished'
  PROVE  /\ TurnsOK' /\ BatchOK' /\ Positions'
         /\ (path \in {"eoa", "safe", "timelock"} /\ batch \in BatchType
               /\ verdict \in [known : BOOLEAN, labels : SUBSET Labels] /\ applied \in Nat)'
<1>1. batch'.exists = batch.exists /\ ~batch.exists /\ path' = path
  BY Within DEF ScriptVars
<1>2. BatchOK'
  BY <1>1 DEF BatchOK
<1>3. TurnsOK'
  <2>1. CASE process' = Idle
    BY <1>1, <2>1, IdleFacts DEF TurnsOK, Running
  <2>2. CASE process' # Idle
    BY <1>1, <2>2, Within DEF TurnsOK, ScriptsOf
  <2>. QED  BY <2>1, <2>2
<1>4. (process.script \in ScriptNames)'
  BY DEF ProcessType
<1>. QED  BY <1>2, <1>3, <1>4, PositionsNext DEF UpgradeInv, UpgradeTypeOK, ScriptVars

LEMMA OneFurther ==
  ASSUME UpgradeInv, Running, Advance,
         \/ process.script = "eoaUpgrade" /\ process.step # 16
         \/ process.script = "deployPeripherals" /\ process.step # 7
  PROVE  /\ (process \in ProcessType)' /\ finished' = FALSE
         /\ process'.script = process.script /\ process'.step = process.step + 1
         /\ process'.done = 0 /\ process'.cut = process.cut
         /\ process'.step \in DOMAIN Steps[process.script]
<1>1. ~Ends
  BY Advanced
<1>. QED  BY <1>1, Advanced

LEMMA Repeated ==
  ASSUME UpgradeInv, Running, NEW done \in Nat, Again(done)
  PROVE  /\ (process \in ProcessType)' /\ finished' = FALSE
         /\ process'.script = process.script /\ process'.step = process.step
         /\ process'.done = done /\ process'.cut = process.cut
         /\ process'.step \in DOMAIN Steps[process.script]
<1>1. process \in ProcessType /\ finished = FALSE
  BY Within DEF UpgradeInv, UpgradeTypeOK
<1>2. process' = [process EXCEPT !.done = done] /\ finished' = finished
  BY DEF Again
<1>3. /\ (process \in ProcessType)' /\ process'.script = process.script /\ process'.step = process.step
      /\ process'.done = done /\ process'.cut = process.cut
  BY <1>1, <1>2 DEF ProcessType
<1>. QED  BY <1>1, <1>2, <1>3, Within

-----------------------------------------------------------------------------
(* Each step keeps the invariant                                            *)

LEMMA UpgradeStarts == Init => UpgradeInv
<1>. SUFFICES ASSUME Init
              PROVE  UpgradeInv
  OBVIOUS
<1>1. OldRoutes \in Routes /\ Cuttable(OldRoutes)
  <2>1. \A f \in DOMAIN OldSelectors : Facet(f, 0, 0) \in FacetContract
    BY DEF Facet, FacetContract
  <2>2. \A s \in Selectors : OldRoutes[s] \in FacetContract
    BY <2>1, NoFacetFacts DEF OldRoutes, DiamondCutFacet
  <2>3. DiamondCutSelector \in Selectors
    BY DEF Selectors
  <2>. QED  BY <2>2, <2>3 DEF Routes, OldRoutes, Cuttable, DiamondCutFacet
<1>2. <<>> \in Cuts /\ <<>> \in Seq(EveryCall) /\ DOMAIN <<>> = {}
  BY DEF Cuts
<1>3. <<>> \in DeployedFacets
  <2>1. <<>> \in [{} -> FacetContract]
    OBVIOUS
  <2>. QED  BY <2>1 DEF DeployedFacets
<1>4. chain \in ChainType
  BY <1>1 DEF Init, ChainType
<1>5. files \in FilesType
  BY <1>3 DEF Init, FilesType, FacetsFileType, PeripheralsFileType, NoFacetsFile, NoPeripheralsFile
<1>6. batch \in BatchType /\ ~batch.exists
  BY <1>2 DEF Init, BatchType, NoBatch
<1>7. process \in ProcessType /\ ~Running /\ process.script # "eoaUpgrade"
  BY IdleFacts DEF Init, Running
<1>8. \A name : ~At(name)
  BY <1>7 DEF At
<1>9. UpgradeTypeOK
  BY <1>4, <1>5, <1>6, <1>7, UpgradeAssumption DEF Init, UpgradeTypeOK, Unverified
<1>10. FacetsFileOK
  BY <1>2, <1>8 DEF Init, FacetsFileOK, NoFacetsFile, DeployedOK
<1>11. AccountLayerOK
  BY <1>8 DEF Init, AccountLayerOK, NoPeripheralsFile
<1>12. RoutesOK
  BY <1>1 DEF Init, RoutesOK
<1>. QED  BY <1>6, <1>7, <1>9, <1>10, <1>11, <1>12 DEF Init, UpgradeInv, TurnsOK, ScriptOK, BatchOK, FinishedOK,
            UpgradedIsReady

LEMMA RunScriptKeeps ==
  ASSUME UpgradeInv, NEW script \in DOMAIN Steps, RunScript(script)
  PROVE  UpgradeInv'
<1>1. /\ process' = [script |-> script, step |-> 1, done |-> 0, cut |-> <<>>]
      /\ UNCHANGED <<path, chain, files, batch, verdict, applied, finished, deployments>> /\ ~finished
  BY DEF RunScript, ScriptVars, Idle
<1>2. (process \in ProcessType)'
  <2>1. <<>> \in Cuts
    BY DEF Cuts
  <2>. QED  BY <1>1, <2>1 DEF ProcessType, ScriptNames
<1>3. UpgradeTypeOK'
  BY <1>1, <1>2 DEF UpgradeInv, UpgradeTypeOK
<1>4. ~batch.exists
  BY DEF UpgradeInv, BatchOK, TurnsOK, RunScript, ScriptsOf
<1>5. TurnsOK'
  <2>1. 1 \in DOMAIN Steps[script]
    BY ScriptLengths
  <2>. QED  BY <1>1, <1>4, <2>1 DEF TurnsOK, Running, RunScript
<1>6. Positions'
  BY <1>2, <1>5, PositionsNext DEF ProcessType
<1>7. FacetsFileOK'
  BY <1>1, <1>6 DEF UpgradeInv, FacetsFileOK, Positions
<1>8. AccountLayerOK'
  BY <1>1, <1>6 DEF UpgradeInv, AccountLayerOK, Positions, AccountLayerWhole
<1>9. RoutesOK'
  BY <1>1 DEF UpgradeInv, RoutesOK
<1>10. ScriptOK'
  <2>1. \A step \in CallSteps : ~At(step)'
    BY <1>1, <1>6 DEF Positions, CallSteps
  <2>. QED  BY <1>1, <2>1 DEF ScriptOK
<1>11. BatchOK' /\ FinishedOK'
  BY <1>1, <1>4 DEF BatchOK, FinishedOK, UpgradedIsReady
<1>. QED  BY <1>3, <1>5, <1>7, <1>8, <1>9, <1>10, <1>11 DEF UpgradeInv

LEMMA DeployLibrariesKeeps ==
  ASSUME UpgradeInv, DeployLibraries
  PROVE  UpgradeInv'
<1>. DEFINE partial == IF files.facets.torn THEN NoFacetsFile ELSE files.facets
<1>1. Running /\ process.step = 1 /\ process.script \in {"eoaUpgrade", "deployFacets"}
  BY Within DEF DeployLibraries, At, Positions
<1>2. Advance /\ UNCHANGED ScriptVars /\ chain' = chain
  BY DEF DeployLibraries
<1>3. /\ process'.script = process.script /\ process'.step = 2 /\ finished' = FALSE /\ (process \in ProcessType)'
      /\ process'.step \in DOMAIN Steps[process.script] /\ process'.done = 0
  BY <1>1, <1>2, Advanced
<1>4. TurnsOK' /\ BatchOK' /\ Positions'
  BY <1>1, <1>2, <1>3, ScriptFrame
<1>5. files.facets \in FacetsFileType /\ files.peripherals \in PeripheralsFileType /\ deployments \in Nat
  BY DEF UpgradeInv, UpgradeTypeOK, FilesType
<1>6. /\ files' \in FilesType /\ deployments' \in Nat /\ files'.peripherals = files.peripherals
      /\ files'.facets.libraries # 0
      /\ DeployedOK(files'.facets.deployed, files'.facets.libraries)
  <2>1. CASE partial.libraries # 0
    <3>1. ~files.facets.torn
      BY <2>1 DEF NoFacetsFile
    <3>2. files' = files /\ deployments' = deployments
      BY <2>1 DEF DeployLibraries
    <3>. QED  BY <2>1, <3>1, <3>2 DEF UpgradeInv, UpgradeTypeOK, FacetsFileOK
  <2>2. CASE partial.libraries = 0
    <3>1. files' = [files EXCEPT !.facets = [partial EXCEPT !.libraries = deployments + 1]] /\ deployments' = deployments + 1
      BY <2>2 DEF DeployLibraries
    <3>2. partial \in FacetsFileType /\ DOMAIN partial.deployed = {}
      <4>1. CASE files.facets.torn
        <5>1. <<>> \in [{} -> FacetContract]
          OBVIOUS
        <5>2. <<>> \in DeployedFacets
          BY <5>1 DEF DeployedFacets
        <5>. QED  BY <4>1, <5>2 DEF NoFacetsFile, FacetsFileType
      <4>2. CASE ~files.facets.torn
        BY <1>5, <2>2, <4>2 DEF UpgradeInv, FacetsFileOK
      <4>. QED  BY <4>1, <4>2
    <3>. DEFINE after == [partial EXCEPT !.libraries = deployments + 1]
    <3>. HIDE DEF partial
    <3>3. /\ after \in FacetsFileType /\ after.deployed = partial.deployed
          /\ after.libraries = deployments + 1 /\ deployments + 1 \in Nat
      BY <1>5, <3>2 DEF FacetsFileType
    <3>. HIDE DEF after
    <3>4. files \in FilesType /\ files' = [files EXCEPT !.facets = after]
      BY <3>1 DEF UpgradeInv, UpgradeTypeOK, after
    <3>5. files' \in FilesType /\ files'.facets = after /\ files'.peripherals = files.peripherals
      BY <3>3, <3>4 DEF FilesType
    <3>. QED  BY <1>5, <3>1, <3>2, <3>3, <3>5 DEF DeployedOK
  <2>. QED  BY <2>1, <2>2
<1>7. UpgradeTypeOK'
  BY <1>1, <1>2, <1>3, <1>6, ScriptFrame DEF UpgradeInv, UpgradeTypeOK
<1>8. FacetsFileOK'
  BY <1>6 DEF FacetsFileOK
<1>9. AccountLayerOK'
  BY <1>2, <1>3, <1>4, <1>6 DEF UpgradeInv, AccountLayerOK, AccountLayerWhole, Positions
<1>10. RoutesOK'
  BY <1>1, <1>2, <1>3, Within DEF UpgradeInv, RoutesOK
<1>11. ScriptOK'
  <2>1. \A step \in CallSteps : ~At(step)'
    BY <1>3, <1>4 DEF Positions, CallSteps
  <2>. QED  BY <1>3, <2>1 DEF ScriptOK
<1>12. FinishedOK'
  BY <1>3 DEF FinishedOK, UpgradedIsReady
<1>. QED  BY <1>4, <1>7, <1>8, <1>9, <1>10, <1>11, <1>12 DEF UpgradeInv

LEMMA DeployFacetKeeps ==
  ASSUME UpgradeInv, DeployFacet
  PROVE  UpgradeInv'
<1>1. Running /\ process.step = 2 /\ process.script \in {"eoaUpgrade", "deployFacets"}
  BY Within DEF DeployFacet, At, Positions
<1>2. UNCHANGED ScriptVars /\ chain' = chain /\ files.facets.libraries # 0
  BY DEF DeployFacet, UpgradeInv, FacetsFileOK
<1>3. /\ files.facets \in FacetsFileType /\ files.peripherals \in PeripheralsFileType /\ deployments \in Nat
      /\ files.facets.deployed \in DeployedFacets
  BY DEF UpgradeInv, UpgradeTypeOK, FilesType, FacetsFileType
<1>4. /\ (process \in ProcessType)' /\ finished' \in BOOLEAN
      /\ \/ process' = Idle
         \/ /\ process'.script = process.script /\ process'.step \in DOMAIN Steps[process.script] /\ ~finished'
      /\ finished' = FALSE
      /\ process'.script = "eoaUpgrade" => process'.step \in {2, 3} /\ (process'.step = 3 => FacetsDeployed /\ files' = files)
      /\ process'.script = "deployPeripherals" => FALSE
      /\ files'.peripherals = files.peripherals /\ files' \in FilesType /\ deployments' \in Nat
      /\ files'.facets.libraries = files.facets.libraries
      /\ DeployedOK(files'.facets.deployed, files'.facets.libraries)
  <2>1. CASE FacetsDeployed
    <3>1. Advance /\ files' = files /\ deployments' = deployments
      BY <2>1 DEF DeployFacet
    <3>2. /\ (process \in ProcessType)' /\ finished' = FALSE
          /\ \/ process' = Idle
             \/ /\ process'.script = process.script /\ process'.step \in DOMAIN Steps[process.script]
                /\ process'.step = 3
      <4>1. CASE process.script = "eoaUpgrade"
        <5>1. ~Ends
          BY <1>1, <3>1, <4>1, Advanced
        <5>. QED  BY <1>1, <3>1, <5>1, Advanced
      <4>2. CASE process.script = "deployFacets"
        <5>1. Ends
          BY <1>1, <3>1, <4>2, Advanced
        <5>. QED  BY <1>1, <3>1, <4>2, <5>1, Advanced
      <4>. QED  BY <1>1, <4>1, <4>2
    <3>3. /\ files'.peripherals = files.peripherals /\ files' \in FilesType /\ deployments' \in Nat
          /\ files'.facets.libraries = files.facets.libraries
          /\ DeployedOK(files'.facets.deployed, files'.facets.libraries)
      BY <3>1 DEF UpgradeInv, UpgradeTypeOK, FacetsFileOK
    <3>. QED  BY <1>1, <2>1, <3>1, <3>2, <3>3, IdleFacts
  <2>2. CASE ~FacetsDeployed
    <3>. DEFINE missing == { k \in DOMAIN FacetNames : FacetNames[k] \notin DOMAIN files.facets.deployed }
                i == Min(missing)
                name == FacetNames[i]
                facet == Facet(name, deployments + 1, files.facets.libraries)
                after == Named(files.facets.deployed, name, facet)
    <3>1. /\ files' = [files EXCEPT !.facets.deployed = after]
          /\ deployments' = deployments + 1 /\ Again(0)
      BY <2>2 DEF DeployFacet
    <3>2. name \in Facets
      <4>1. missing \subseteq Nat
        BY UpgradeCutAssumption
      <4>2. missing # {}
        <5>1. PICK f \in Facets : f \notin DOMAIN files.facets.deployed
          BY <2>2 DEF FacetsDeployed, UpgradeInv, FacetsFileOK, DeployedOK
        <5>2. PICK k \in DOMAIN FacetNames : FacetNames[k] = f
          BY DEF Facets, Range
        <5>. QED  BY <5>1, <5>2
      <4>3. i \in missing
        BY <4>1, <4>2, LeastNatural
      <4>. QED  BY <4>3 DEF Facets, Range
    <3>. HIDE DEF missing, i, name
    <3>3. facet \in FacetContract /\ facet.build > 0 /\ facet.libraries = files.facets.libraries
      BY <1>3, <3>2 DEF Facet, FacetContract, FacetsFileType
    <3>. HIDE DEF facet
    <3>4. /\ DOMAIN after = DOMAIN files.facets.deployed \cup {name}
          /\ \A f \in DOMAIN after : after[f] = IF f = name THEN facet ELSE files.facets.deployed[f]
      BY DEF Named
    <3>5. DeployedOK(after, files.facets.libraries)
      BY <3>2, <3>3, <3>4 DEF UpgradeInv, FacetsFileOK, DeployedOK
    <3>6. after \in DeployedFacets
      <4>1. after = [f \in DOMAIN after |-> after[f]] /\ DOMAIN after \in SUBSET Facets
        BY <3>5 DEF DeployedOK, Named
      <4>. HIDE DEF after
      <4>2. after \in [DOMAIN after -> FacetContract]
        BY <3>5, <4>1 DEF DeployedOK
      <4>. QED  BY <4>1, <4>2 DEF DeployedFacets
    <3>. HIDE DEF after
    <3>7. /\ files' \in FilesType /\ files'.facets.deployed = after /\ files'.peripherals = files.peripherals
          /\ files'.facets.libraries = files.facets.libraries
      <4>1. files \in FilesType
        BY DEF UpgradeInv, UpgradeTypeOK
      <4>. QED  BY <3>1, <3>6, <4>1 DEF FilesType, FacetsFileType
    <3>8. /\ (process \in ProcessType)' /\ finished' = FALSE
          /\ process'.script = process.script /\ process'.step \in DOMAIN Steps[process.script]
          /\ process'.step = 2
      BY <1>1, <3>1, Repeated
    <3>9. deployments' \in Nat
      BY <1>3, <3>1
    <3>10. DeployedOK(files'.facets.deployed, files'.facets.libraries)
      BY <3>5, <3>7
    <3>11. process'.script # "deployPeripherals" /\ process'.step # 3
      BY <1>1, <3>8
    <3>. QED  BY <3>7, <3>8, <3>9, <3>10, <3>11
  <2>. QED  BY <2>1, <2>2
<1>5. TurnsOK' /\ BatchOK' /\ Positions'
  BY <1>1, <1>2, <1>4, ScriptFrame
<1>6. UpgradeTypeOK'
  BY <1>1, <1>2, <1>4, ScriptFrame DEF UpgradeInv, UpgradeTypeOK
<1>7. FacetsFileOK'
  BY <1>2, <1>4 DEF FacetsFileOK
<1>8. AccountLayerOK'
  BY <1>2, <1>4, <1>5 DEF UpgradeInv, AccountLayerOK, AccountLayerWhole, Positions
<1>9. RoutesOK'
  BY <1>1, <1>2, <1>4, Within DEF UpgradeInv, RoutesOK
<1>10. ScriptOK'
  <2>1. \A step \in CallSteps : ~At(step)'
    BY <1>4, <1>5 DEF Positions, CallSteps
  <2>2. CASE process'.script # "eoaUpgrade"
    BY <2>2 DEF ScriptOK
  <2>3. CASE process'.script = "eoaUpgrade" /\ process'.step = 2
    BY <2>1, <2>3 DEF ScriptOK
  <2>4. CASE process'.script = "eoaUpgrade" /\ process'.step = 3
    <3>1. FacetsDeployed'
      BY <1>4, <2>4 DEF FacetsDeployed
    <3>. QED  BY <2>1, <2>4, <3>1 DEF ScriptOK
  <2>. QED  BY <1>4, <2>2, <2>3, <2>4
<1>11. FinishedOK'
  BY <1>4 DEF FinishedOK, UpgradedIsReady
<1>. QED  BY <1>5, <1>6, <1>7, <1>8, <1>9, <1>10, <1>11 DEF UpgradeInv

LEMMA BuildCutKeeps ==
  ASSUME UpgradeInv, BuildCut
  PROVE  UpgradeInv'
<1>. DEFINE cut == InChunks(BuildDiamondCut(chain.routes, files.facets.deployed), ChunkSize)
<1>1. Running /\ process.step = 3 /\ process.script = "eoaUpgrade" /\ process \in ProcessType
  BY Within DEF BuildCut, At, Positions, UpgradeInv, UpgradeTypeOK
<1>2. /\ UNCHANGED ScriptVars /\ UNCHANGED <<chain, files, finished, deployments>> /\ finished = FALSE
      /\ process' = IF cut = <<>> THEN Idle ELSE [process EXCEPT !.step = @ + 1, !.done = 0, !.cut = cut]
  BY <1>1, Within DEF BuildCut
<1>3. CutPending(chain.routes, cut, 0, files.facets.deployed) /\ cut \in Cuts
  <2>1. chain.routes \in Routes /\ Cuttable(chain.routes) /\ DOMAIN files.facets.deployed = Facets
    BY <1>1 DEF UpgradeInv, UpgradeTypeOK, ChainType, RoutesOK, ScriptOK, FacetsDeployed
  <2>2. DeployedOK(files.facets.deployed, files.facets.libraries)
    BY DEF UpgradeInv, FacetsFileOK
  <2>. QED  BY <2>1, <2>2, BuiltCut DEF CutPending, Cuts
<1>. HIDE DEF cut
<1>4. /\ (process \in ProcessType)'
      /\ \/ process' = Idle
         \/ /\ process'.script = process.script /\ process'.step \in DOMAIN Steps[process.script] /\ ~finished'
            /\ process'.step = 4 /\ process'.done = 0 /\ process'.cut = cut /\ cut # <<>>
  <2>1. CASE cut = <<>>
    BY <1>2, <2>1, IdleFacts
  <2>2. CASE cut # <<>>
    <3>1. process' = [process EXCEPT !.step = 4, !.done = 0, !.cut = cut]
      BY <1>1, <1>2, <2>2
    <3>2. /\ process' \in ProcessType /\ process'.script = process.script
          /\ process'.step = 4 /\ process'.done = 0 /\ process'.cut = cut
      <4>1. 4 \in Nat \ {0} /\ 0 \in Nat /\ cut \in Cuts /\ process \in ProcessType
        BY <1>1, <1>3
      <4>. QED  BY <3>1, <4>1 DEF ProcessType
    <3>3. process'.step \in DOMAIN Steps[process.script]
      BY <1>1, <3>2, ScriptLengths
    <3>. QED  BY <1>2, <2>2, <3>2, <3>3
  <2>. QED  BY <2>1, <2>2
<1>5. TurnsOK' /\ BatchOK' /\ Positions'
  BY <1>1, <1>2, <1>4, ScriptFrame
<1>6. UpgradeTypeOK'
  BY <1>1, <1>2, <1>4, ScriptFrame DEF UpgradeInv, UpgradeTypeOK
<1>7. FacetsFileOK'
  BY <1>1, <1>2, <1>4, <1>5, IdleFacts DEF UpgradeInv, FacetsFileOK, Positions
<1>8. AccountLayerOK'
  BY <1>1, <1>2, <1>4, <1>5, IdleFacts DEF UpgradeInv, AccountLayerOK, AccountLayerWhole, Positions
<1>9. RoutesOK'
  BY <1>2 DEF UpgradeInv, RoutesOK
<1>10. ScriptOK'
  <2>1. CASE process' = Idle
    BY <2>1, Stopped
  <2>2. CASE process' # Idle
    <3>1. /\ process'.step = 4 /\ process'.done = 0 /\ process'.cut = cut /\ cut # <<>> /\ FacetsDeployed'
          /\ CutPending(chain.routes, process.cut, 0, files.facets.deployed)'
      BY <1>1, <1>2, <1>3, <1>4, <2>2 DEF UpgradeInv, ScriptOK, FacetsDeployed
    <3>2. \A step \in DOMAIN ListOf : \A k \in DOMAIN ListOf[step] : ~(k <= 0)
      BY ListLengths
    <3>3. \A step \in CallSteps : \A k \in DOMAIN ListOf[step] : ~(k <= process'.done)
      BY <3>1, <3>2 DEF CallSteps, ListOf
    <3>. QED  BY <3>1, <3>3 DEF ScriptOK
  <2>. QED  BY <2>1, <2>2
<1>11. FinishedOK'
  BY <1>2 DEF FinishedOK, UpgradedIsReady
<1>. QED  BY <1>5, <1>6, <1>7, <1>8, <1>9, <1>10, <1>11 DEF UpgradeInv

LEMMA ApplyChunkKeeps ==
  ASSUME UpgradeInv, ApplyChunk
  PROVE  UpgradeInv'
<1>. DEFINE chunk == process.cut[process.done + 1]
            deployed == files.facets.deployed
<1>1. /\ Running /\ process.step = 5 /\ process.script = "eoaUpgrade" /\ process \in ProcessType /\ chain \in ChainType
      /\ process.done \in Nat /\ finished = FALSE
  BY Within DEF ApplyChunk, At, Positions, UpgradeInv, UpgradeTypeOK, ProcessType
<1>2. UNCHANGED ScriptVars /\ files' = files /\ deployments' = deployments
  BY DEF ApplyChunk
<1>3. /\ FacetsDeployed /\ chain.paused /\ process.done < Len(process.cut)
      /\ CutPending(chain.routes, process.cut, process.done, deployed)
      /\ chain.routes \in Routes /\ Cuttable(chain.routes) /\ DeployedOK(deployed, files.facets.libraries)
  BY <1>1 DEF UpgradeInv, ScriptOK, ChainType, RoutesOK, FacetsFileOK
<1>4. /\ (process \in ProcessType)' /\ finished' = FALSE /\ chain' \in ChainType /\ chain'.paused = chain.paused
      /\ chain'.accountLayer = chain.accountLayer /\ Cuttable(chain'.routes)
      /\ \/ process' = Idle
         \/ /\ process'.script = process.script /\ process'.step \in DOMAIN Steps[process.script]
            /\ \/ process'.step = 6 /\ process'.done = 0 /\ WholeNew(chain'.routes)
               \/ /\ process'.step = 5 /\ process'.done < Len(process'.cut)
                  /\ CutPending(chain'.routes, process'.cut, process'.done, deployed)
  <2>1. CASE CutReverts(chain.routes, chunk)
    <3>1. process' = Idle /\ chain' = chain /\ finished' = finished
      BY <2>1 DEF ApplyChunk, Fails
    <3>. QED  BY <1>1, <1>3, <3>1, IdleFacts
  <2>2. CASE ~CutReverts(chain.routes, chunk)
    <3>. DEFINE after == CutRoutes(chain.routes, chunk)
    <3>1. /\ chain' = [chain EXCEPT !.routes = after]
          /\ IF process.done + 1 = Len(process.cut) THEN Advance ELSE Again(process.done + 1)
      BY <2>2 DEF ApplyChunk
    <3>2. after \in Routes /\ Cuttable(after) /\ CutPending(after, process.cut, process.done + 1, deployed)
      BY <1>1, <1>3, ChunkApplied
    <3>. HIDE DEF after
    <3>3. /\ chain' \in ChainType /\ chain'.paused = chain.paused /\ chain'.routes = after
          /\ chain'.accountLayer = chain.accountLayer
      BY <1>1, <3>1, <3>2 DEF ChainType
    <3>4. Len(process.cut) \in Nat
      BY <1>1 DEF ProcessType, Cuts
    <3>5. CASE process.done + 1 = Len(process.cut)
      <4>1. WholeNew(after)
        <5>1. CutPending(after, process.cut, Len(process.cut), deployed)
          BY <3>2, <3>5
        <5>. QED  BY <1>3, <3>2, <5>1, CutDone DEF FacetsDeployed
      <4>2. /\ (process \in ProcessType)' /\ finished' = FALSE
            /\ process'.script = process.script /\ process'.step = 6
            /\ process'.done = 0 /\ process'.step \in DOMAIN Steps[process.script]
        BY <1>1, <3>1, <3>5, OneFurther
      <4>. QED  BY <3>2, <3>3, <4>1, <4>2
    <3>6. CASE process.done + 1 # Len(process.cut)
      <4>1. process.done + 1 \in Nat /\ process.done + 1 < Len(process.cut) /\ Again(process.done + 1)
        BY <1>1, <1>3, <3>1, <3>4, <3>6
      <4>2. /\ (process \in ProcessType)' /\ finished' = FALSE
            /\ process'.script = process.script /\ process'.step = 5 /\ process'.cut = process.cut
            /\ process'.done = process.done + 1 /\ process'.step \in DOMAIN Steps[process.script]
        BY <1>1, <4>1, Repeated
      <4>. QED  BY <3>2, <3>3, <4>1, <4>2
    <3>. QED  BY <3>5, <3>6
  <2>. QED  BY <2>1, <2>2
<1>5. TurnsOK' /\ BatchOK' /\ Positions'
  BY <1>1, <1>2, <1>4, ScriptFrame
<1>6. UpgradeTypeOK'
  BY <1>1, <1>2, <1>4, ScriptFrame DEF UpgradeInv, UpgradeTypeOK
<1>7. FacetsFileOK'
  BY <1>1, <1>2, <1>4, <1>5, IdleFacts DEF UpgradeInv, FacetsFileOK, Positions
<1>8. AccountLayerOK'
  BY <1>1, <1>2, <1>4, <1>5, IdleFacts DEF UpgradeInv, AccountLayerOK, AccountLayerWhole, Positions
<1>9. RoutesOK'
  BY <1>3, <1>4 DEF RoutesOK
<1>10. ScriptOK'
  <2>1. CASE process' = Idle
    BY <2>1, Stopped
  <2>2. CASE process' # Idle
    <3>1. FacetsDeployed' /\ chain'.paused
      BY <1>2, <1>3, <1>4 DEF FacetsDeployed
    <3>2. CASE process'.step = 5
      <4>1. \A step \in CallSteps : ~At(step)'
        BY <1>5, <3>2 DEF Positions, CallSteps
      <4>. QED  BY <1>2, <1>4, <2>2, <3>1, <3>2, <4>1 DEF ScriptOK
    <3>3. CASE process'.step = 6
      <4>1. \A step \in CallSteps : \A k \in DOMAIN ListOf[step] : ~(k <= process'.done)
        BY <1>4, <2>2, <3>3, ListLengths
      <4>. QED  BY <1>4, <2>2, <3>1, <3>3, <4>1 DEF ScriptOK
    <3>. QED  BY <1>4, <2>2, <3>2, <3>3
  <2>. QED  BY <2>1, <2>2
<1>11. FinishedOK'
  BY <1>4 DEF FinishedOK, UpgradedIsReady
<1>. QED  BY <1>5, <1>6, <1>7, <1>8, <1>9, <1>10, <1>11 DEF UpgradeInv

\* A script that gives up, or is killed, leaves the chain as it was and the
\* peripherals' file as it was or without its AccountLayer.
LEMMA GivingUpKeeps ==
  ASSUME UpgradeInv, Running, process' = Idle, UNCHANGED ScriptVars, finished' = finished, chain' = chain,
         files' \in FilesType, deployments' = deployments,
         \/ files'.facets = files.facets
         \/ files'.facets.libraries = 0 /\ DOMAIN files'.facets.deployed = {},
         files'.peripherals = files.peripherals \/ ~files'.peripherals.cutComplete
  PROVE  UpgradeInv'
<1>1. ~Running' /\ (\A name : ~At(name)') /\ ScriptOK' /\ (process \in ProcessType)' /\ finished' = FALSE
  BY Stopped, Within
<1>2. TurnsOK' /\ BatchOK' /\ Positions'
  BY <1>1, ScriptFrame
<1>3. UpgradeTypeOK'
  BY <1>1, ScriptFrame DEF UpgradeInv, UpgradeTypeOK
<1>4. FacetsFileOK'
  <2>1. DeployedOK(files'.facets.deployed, files'.facets.libraries)
    BY DEF UpgradeInv, FacetsFileOK, DeployedOK
  <2>. QED  BY <1>1, <2>1 DEF UpgradeInv, FacetsFileOK
<1>5. AccountLayerOK'
  BY <1>1 DEF UpgradeInv, AccountLayerOK, AccountLayerWhole
<1>6. RoutesOK'
  BY DEF UpgradeInv, RoutesOK
<1>7. FinishedOK'
  BY <1>1 DEF FinishedOK, UpgradedIsReady
<1>. QED  BY <1>1, <1>2, <1>3, <1>4, <1>5, <1>6, <1>7 DEF UpgradeInv

LEMMA KillKeeps ==
  ASSUME UpgradeInv, Kill
  PROVE  UpgradeInv'
<1>1. files \in FilesType
  BY DEF UpgradeInv, UpgradeTypeOK
<1>. QED  BY <1>1, GivingUpKeeps DEF Kill

\* A file with nothing in it is what both a removed and a torn one count as.
LEMMA EmptyFiles ==
  ASSUME UpgradeInv
  PROVE  /\ NoFacetsFile \in FacetsFileType /\ NoFacetsFile.libraries = 0 /\ DOMAIN NoFacetsFile.deployed = {}
         /\ [NoFacetsFile EXCEPT !.torn = TRUE] \in FacetsFileType
         /\ [NoFacetsFile EXCEPT !.torn = TRUE].libraries = 0
         /\ DOMAIN [NoFacetsFile EXCEPT !.torn = TRUE].deployed = {}
         /\ PeripheralsLost \in PeripheralsFileType /\ ~PeripheralsLost.cutComplete
         /\ [PeripheralsLost EXCEPT !.torn = TRUE] \in PeripheralsFileType
         /\ ~[PeripheralsLost EXCEPT !.torn = TRUE].cutComplete
<1>1. <<>> \in DeployedFacets /\ DOMAIN <<>> = {}
  <2>1. <<>> \in [{} -> FacetContract]
    OBVIOUS
  <2>. QED  BY <2>1 DEF DeployedFacets
<1>2. /\ NoFacetsFile \in FacetsFileType /\ NoFacetsFile.libraries = 0 /\ DOMAIN NoFacetsFile.deployed = {}
      /\ [NoFacetsFile EXCEPT !.torn = TRUE] \in FacetsFileType
      /\ [NoFacetsFile EXCEPT !.torn = TRUE].libraries = 0
      /\ DOMAIN [NoFacetsFile EXCEPT !.torn = TRUE].deployed = {}
  BY <1>1 DEF NoFacetsFile, FacetsFileType
<1>. DEFINE kept == IF path = "eoa" THEN files.peripherals.saved \cap {"symbolManager"} ELSE {}
<1>3. kept \in SUBSET Peripherals
  BY DEF Peripherals
<1>4. PeripheralsLost = [saved |-> kept, cutComplete |-> FALSE, torn |-> FALSE]
  <2>1. PeripheralsLost = [NoPeripheralsFile EXCEPT !.saved = kept]
    BY DEF PeripheralsLost
  <2>. HIDE DEF kept
  <2>. QED  BY <2>1 DEF NoPeripheralsFile
<1>. HIDE DEF kept
<1>5. /\ PeripheralsLost \in PeripheralsFileType /\ ~PeripheralsLost.cutComplete
      /\ [PeripheralsLost EXCEPT !.torn = TRUE] \in PeripheralsFileType
      /\ ~[PeripheralsLost EXCEPT !.torn = TRUE].cutComplete
  BY <1>3, <1>4 DEF PeripheralsFileType
<1>. QED  BY <1>2, <1>5

LEMMA TornSaveKeeps ==
  ASSUME UpgradeInv, TornSave
  PROVE  UpgradeInv'
<1>1. /\ Running /\ process' = Idle /\ UNCHANGED <<ScriptVars, chain, finished, deployments>>
      /\ \/ files' = [files EXCEPT !.facets = [NoFacetsFile EXCEPT !.torn = TRUE]]
         \/ files' = [files EXCEPT !.peripherals = [PeripheralsLost EXCEPT !.torn = TRUE]]
  BY DEF TornSave
<1>2. files \in FilesType
  BY DEF UpgradeInv, UpgradeTypeOK
<1>3. /\ files' \in FilesType
      /\ \/ files'.facets = files.facets
         \/ files'.facets.libraries = 0 /\ DOMAIN files'.facets.deployed = {}
      /\ files'.peripherals = files.peripherals \/ ~files'.peripherals.cutComplete
  BY <1>1, <1>2, EmptyFiles DEF FilesType
<1>. QED  BY <1>1, <1>3, GivingUpKeeps

\* What eoaUpgrade.ts has done stays done when it goes on to the next step and
\* that one step made good what it was for.
LEMMA FurtherOK ==
  ASSUME UpgradeInv, process.script = "eoaUpgrade", process.step > 5,
         process'.script = "eoaUpgrade", process'.step = process.step + 1, process'.done = 0,
         files'.facets = files.facets, chain'.paused = chain.paused, chain'.routes = chain.routes,
         chain'.facts = chain.facts \/ (process.step = 7 /\ chain'.facts = chain.facts \ AccountLayerFacts),
         chain'.accountLayer = chain.accountLayer \/ process.step \in {7, 8},
         process.step = 6 => Range(ParameterCalls(TRUE)) \subseteq chain'.facts,
         process.step = 8 => AccountLayerWhole(chain'),
         process.step = 10 => Range(WiringCalls) \subseteq chain'.facts,
         process.step = 11 => Range(TemplateCalls) \subseteq chain'.facts,
         process.step = 13 => RegisterPartyBs \in chain'.facts,
         process.step = 15 => Range(SymbolManagerCalls) \subseteq chain'.facts
  PROVE  ScriptOK'
<1>1. process.step \in Nat
  BY DEF UpgradeInv, UpgradeTypeOK, ProcessType
<1>2. \A step \in CallSteps : \A k \in DOMAIN ListOf[step] : ~(k <= process'.done)
  BY ListLengths
<1>3. /\ FacetsDeployed' /\ chain'.paused /\ WholeNew(chain'.routes)
      /\ ~(process'.step = 4) /\ ~(process'.step = 5)
  BY <1>1 DEF UpgradeInv, ScriptOK, FacetsDeployed
<1>4. process'.step > 6 => Range(ParameterCalls(TRUE)) \subseteq chain'.facts
  <2>1. Range(ParameterCalls(TRUE)) \cap AccountLayerFacts = {}
    BY LayerFacts
  <2>2. process.step > 6 => Range(ParameterCalls(TRUE)) \subseteq chain.facts
    BY DEF UpgradeInv, ScriptOK
  <2>3. process.step > 6 => Range(ParameterCalls(TRUE)) \subseteq chain'.facts
    BY <2>1, <2>2
  <2>4. process'.step > 6 => process.step = 6 \/ process.step > 6
    BY <1>1
  <2>. QED  BY <2>3, <2>4
<1>5. process'.step > 8 => AccountLayerWhole(chain')
  BY <1>1 DEF UpgradeInv, ScriptOK, AccountLayerWhole
<1>6. process'.step > 10 => Range(WiringCalls) \subseteq chain'.facts
  BY <1>1 DEF UpgradeInv, ScriptOK
<1>7. process'.step > 11 => Range(TemplateCalls) \subseteq chain'.facts
  BY <1>1 DEF UpgradeInv, ScriptOK
<1>8. process'.step > 13 => RegisterPartyBs \in chain'.facts
  BY <1>1 DEF UpgradeInv, ScriptOK
<1>9. process'.step > 15 => Range(SymbolManagerCalls) \subseteq chain'.facts
  BY <1>1 DEF UpgradeInv, ScriptOK
<1>. QED  BY <1>2, <1>3, <1>4, <1>5, <1>6, <1>7, <1>8, <1>9 DEF ScriptOK

LEMMA DeployPeripheralKeeps ==
  ASSUME UpgradeInv, NEW name \in PeripheralSteps, DeployPeripheral(name)
  PROVE  UpgradeInv'
<1>1. /\ Running /\ finished = FALSE /\ files \in FilesType /\ files.peripherals \in PeripheralsFileType
      /\ deployments \in Nat
      /\ \/ process.script = "eoaUpgrade" /\ process.step \in {9, 12, 14}
         \/ process.script = "deployPeripherals" /\ process.step \in {1, 5, 6, 7}
  BY Within DEF DeployPeripheral, At, Positions, UpgradeInv, UpgradeTypeOK, PeripheralSteps, FilesType
<1>2. UNCHANGED ScriptVars /\ chain' = chain
  BY DEF DeployPeripheral
<1>3. CASE files.peripherals.torn
  BY <1>1, <1>2, <1>3, GivingUpKeeps DEF DeployPeripheral, Fails
<1>4. CASE ~files.peripherals.torn
  <2>1. Advance
    BY <1>4 DEF DeployPeripheral
  <2>2. /\ files' \in FilesType /\ files'.facets = files.facets /\ deployments' \in Nat
        /\ files'.peripherals.cutComplete = files.peripherals.cutComplete
        /\ files.peripherals.saved \subseteq files'.peripherals.saved
    <3>1. CASE name \in files.peripherals.saved
      BY <1>1, <1>4, <3>1 DEF DeployPeripheral
    <3>2. CASE name \notin files.peripherals.saved
      <4>. DEFINE saved == IF process.script = "eoaUpgrade" /\ name = "partyB" THEN files.peripherals.saved
                           ELSE files.peripherals.saved \cup {name}
      <4>1. files' = [files EXCEPT !.peripherals.saved = saved] /\ deployments' = deployments + 1
        BY <1>4, <3>2 DEF DeployPeripheral
      <4>2. saved \in SUBSET Peripherals /\ files.peripherals.saved \subseteq saved
        BY <1>1 DEF PeripheralsFileType, Peripherals, PeripheralSteps
      <4>. HIDE DEF saved
      <4>. QED  BY <1>1, <4>1, <4>2 DEF FilesType, PeripheralsFileType
    <3>. QED  BY <3>1, <3>2
  <2>3. /\ (process \in ProcessType)' /\ finished' = FALSE
        /\ \/ process' = Idle
           \/ /\ process'.script = process.script /\ process'.step \in DOMAIN Steps[process.script]
              /\ process'.step = process.step + 1 /\ process'.done = 0
    <3>1. CASE process.script = "deployPeripherals" /\ process.step = 7
      BY <1>1, <2>1, <3>1, Advanced
    <3>2. CASE ~(process.script = "deployPeripherals" /\ process.step = 7)
      <4>1. \/ process.script = "eoaUpgrade" /\ process.step # 16
            \/ process.script = "deployPeripherals" /\ process.step # 7
        BY <1>1, <3>2
      <4>. QED  BY <1>1, <2>1, <4>1, OneFurther
    <3>. QED  BY <3>1, <3>2
  <2>4. TurnsOK' /\ BatchOK' /\ Positions'
    BY <1>1, <1>2, <2>3, ScriptFrame
  <2>5. UpgradeTypeOK'
    BY <1>1, <1>2, <2>2, <2>3, ScriptFrame DEF UpgradeInv, UpgradeTypeOK
  <2>6. FacetsFileOK'
    BY <1>1, <2>2, <2>3, <2>4, IdleFacts DEF UpgradeInv, FacetsFileOK, Positions
  <2>7. AccountLayerOK'
    BY <1>1, <1>2, <2>2, <2>3, <2>4, IdleFacts DEF UpgradeInv, AccountLayerOK, AccountLayerWhole, Positions
  <2>8. RoutesOK'
    BY <1>1, <1>2, <2>3 DEF UpgradeInv, RoutesOK
  <2>9. ScriptOK'
    <3>1. CASE process' = Idle
      BY <3>1, Stopped
    <3>2. CASE process' # Idle /\ process.script = "eoaUpgrade"
      <4>1. process.step \in {9, 12, 14} /\ process.step > 5
        BY <1>1, <3>2
      <4>2. /\ process.step # 6 /\ process.step # 8 /\ process.step # 10 /\ process.step # 11
            /\ process.step # 13 /\ process.step # 15
        BY <4>1
      <4>3. /\ process'.script = "eoaUpgrade" /\ process'.step = process.step + 1 /\ process'.done = 0
        BY <2>3, <3>2
      <4>. QED  BY <1>2, <2>2, <3>2, <4>1, <4>2, <4>3, FurtherOK
    <3>3. CASE process' # Idle /\ process.script # "eoaUpgrade"
      BY <2>3, <3>3 DEF ScriptOK
    <3>. QED  BY <3>1, <3>2, <3>3
  <2>10. FinishedOK'
    BY <2>3 DEF FinishedOK, UpgradedIsReady
  <2>. QED  BY <2>4, <2>5, <2>6, <2>7, <2>8, <2>9, <2>10 DEF UpgradeInv
<1>. QED  BY <1>3, <1>4

LEMMA DeployAccountLayerKeeps ==
  ASSUME UpgradeInv, DeployAccountLayer
  PROVE  UpgradeInv'
<1>1. /\ Running /\ finished = FALSE /\ files \in FilesType /\ files.peripherals \in PeripheralsFileType
      /\ deployments \in Nat /\ chain \in ChainType
      /\ \/ process.script = "eoaUpgrade" /\ process.step = 7
         \/ process.script = "deployPeripherals" /\ process.step = 2
  BY Within DEF DeployAccountLayer, At, Positions, UpgradeInv, UpgradeTypeOK, FilesType
<1>2. UNCHANGED ScriptVars
  BY DEF DeployAccountLayer
<1>3. CASE files.peripherals.torn
  BY <1>1, <1>2, <1>3, GivingUpKeeps DEF DeployAccountLayer, Fails
<1>4. CASE ~files.peripherals.torn
  <2>1. Advance
    BY <1>4 DEF DeployAccountLayer
  <2>2. /\ files' \in FilesType /\ files'.facets = files.facets /\ deployments' \in Nat
        /\ files'.peripherals.cutComplete = files.peripherals.cutComplete
        /\ "accountLayer" \in files'.peripherals.saved
        /\ chain' \in ChainType /\ chain'.routes = chain.routes /\ chain'.paused = chain.paused
        /\ \/ chain' = chain
           \/ /\ "accountLayer" \notin files.peripherals.saved
              /\ chain'.facts = chain.facts \ AccountLayerFacts
    <3>1. CASE "accountLayer" \in files.peripherals.saved
      BY <1>1, <1>4, <3>1 DEF DeployAccountLayer
    <3>2. CASE "accountLayer" \notin files.peripherals.saved
      <4>. DEFINE facts == chain.facts \ AccountLayerFacts
                  saved == files.peripherals.saved \cup {"accountLayer"}
                  accountLayer == [chunks |-> 0, owner |-> "deployer"]
      <4>1. /\ files' = [files EXCEPT !.peripherals.saved = saved] /\ deployments' = deployments + 1
            /\ chain' = [chain EXCEPT !.accountLayer = accountLayer, !.facts = facts]
        BY <1>4, <3>2 DEF DeployAccountLayer
      <4>2. /\ facts \in SUBSET EveryCall /\ saved \in SUBSET Peripherals
            /\ accountLayer \in [chunks : Nat, owner : {"deployer", "pending", "safe"}]
            /\ "accountLayer" \in saved
        BY <1>1 DEF ChainType, PeripheralsFileType, Peripherals
      <4>3. facts = chain.facts \ AccountLayerFacts
        OBVIOUS
      <4>. HIDE DEF facts, saved, accountLayer
      <4>4. /\ files' \in FilesType /\ files'.facets = files.facets /\ files'.peripherals.saved = saved
            /\ files'.peripherals.cutComplete = files.peripherals.cutComplete
        BY <1>1, <4>1, <4>2 DEF FilesType, PeripheralsFileType
      <4>5. /\ chain' \in ChainType /\ chain'.routes = chain.routes /\ chain'.paused = chain.paused
            /\ chain'.facts = facts
        BY <1>1, <4>1, <4>2 DEF ChainType
      <4>. QED  BY <1>1, <3>2, <4>1, <4>2, <4>3, <4>4, <4>5
    <3>. QED  BY <3>1, <3>2
  <2>3. /\ (process \in ProcessType)' /\ finished' = FALSE
        /\ process'.script = process.script /\ process'.step \in DOMAIN Steps[process.script]
        /\ process'.step = process.step + 1 /\ process'.done = 0
    <3>1. \/ process.script = "eoaUpgrade" /\ process.step # 16
          \/ process.script = "deployPeripherals" /\ process.step # 7
      BY <1>1
    <3>. QED  BY <1>1, <2>1, <3>1, OneFurther
  <2>4. TurnsOK' /\ BatchOK' /\ Positions'
    BY <1>1, <1>2, <2>3, ScriptFrame
  <2>5. UpgradeTypeOK'
    BY <1>1, <1>2, <2>2, <2>3, ScriptFrame DEF UpgradeInv, UpgradeTypeOK
  <2>6. FacetsFileOK'
    BY <1>1, <2>2, <2>3, <2>4 DEF UpgradeInv, FacetsFileOK, Positions
  <2>7. AccountLayerOK'
    BY <1>1, <2>2, <2>3 DEF UpgradeInv, AccountLayerOK, AccountLayerWhole
  <2>8. RoutesOK'
    BY <1>1, <2>2, <2>3 DEF UpgradeInv, RoutesOK
  <2>9. ScriptOK'
    <3>1. CASE process.script = "eoaUpgrade"
      <4>1. process.step = 7 /\ process.step > 5
        BY <1>1, <3>1
      <4>. QED  BY <2>2, <2>3, <3>1, <4>1, FurtherOK
    <3>2. CASE process.script # "eoaUpgrade"
      BY <2>3, <3>2 DEF ScriptOK
    <3>. QED  BY <3>1, <3>2
  <2>10. FinishedOK'
    BY <2>3 DEF FinishedOK, UpgradedIsReady
  <2>. QED  BY <2>4, <2>5, <2>6, <2>7, <2>8, <2>9, <2>10 DEF UpgradeInv
<1>. QED  BY <1>3, <1>4

\* What holds at a step of eoaUpgrade.ts, the cut apart, still does when the
\* chain only gained.
LEMMA SameStepOK ==
  ASSUME UpgradeInv, process.script = "eoaUpgrade", process.step # 5,
         process'.script = "eoaUpgrade", process'.step = process.step, process'.cut = process.cut,
         files'.facets = files.facets, chain'.routes = chain.routes, chain.paused => chain'.paused,
         chain.facts \subseteq chain'.facts, AccountLayerWhole(chain) => AccountLayerWhole(chain'),
         \A step \in CallSteps : At(step)' =>
           \A k \in DOMAIN ListOf[step] : k <= process'.done => Made(ListOf[step][k])'
  PROVE  ScriptOK'
<1>1. /\ process'.step > 2 => FacetsDeployed'
      /\ process'.step = 4 => /\ process'.cut # <<>>
                              /\ CutPending(chain'.routes, process'.cut, 0, files'.facets.deployed)
      /\ process'.step > 4 => chain'.paused
      /\ process'.step > 5 => WholeNew(chain'.routes)
  BY DEF UpgradeInv, ScriptOK, FacetsDeployed
<1>2. /\ process'.step > 6 => Range(ParameterCalls(TRUE)) \subseteq chain'.facts
      /\ process'.step > 10 => Range(WiringCalls) \subseteq chain'.facts
      /\ process'.step > 11 => Range(TemplateCalls) \subseteq chain'.facts
      /\ process'.step > 13 => RegisterPartyBs \in chain'.facts
      /\ process'.step > 15 => Range(SymbolManagerCalls) \subseteq chain'.facts
  BY DEF UpgradeInv, ScriptOK
<1>3. process'.step > 8 => AccountLayerWhole(chain')
  BY DEF UpgradeInv, ScriptOK
<1>. QED  BY <1>1, <1>2, <1>3 DEF ScriptOK

LEMMA CutAccountLayerKeeps ==
  ASSUME UpgradeInv, CutAccountLayer
  PROVE  UpgradeInv'
<1>. DEFINE over == \/ files.peripherals.cutComplete
                    \/ process.done = AccountLayerChunks
<1>1. /\ Running /\ finished = FALSE /\ files \in FilesType /\ files.peripherals \in PeripheralsFileType
      /\ chain \in ChainType /\ chain.accountLayer \in [chunks : Nat, owner : {"deployer", "pending", "safe"}]
      /\ chain.accountLayer.chunks \in Nat /\ process.done \in Nat
      /\ "accountLayer" \in files.peripherals.saved
      /\ process.done > 0 => chain.accountLayer.chunks = process.done
      /\ \/ process.script = "eoaUpgrade" /\ process.step = 8
         \/ process.script = "deployPeripherals" /\ process.step = 3
  BY Within DEF CutAccountLayer, At, Positions, UpgradeInv, UpgradeTypeOK, FilesType, ChainType, ProcessType,
                AccountLayerOK
<1>2. UNCHANGED ScriptVars /\ deployments' = deployments
  BY DEF CutAccountLayer
<1>3. CASE ~over /\ chain.accountLayer.chunks # process.done
  <2>1. Fails("accountLayerCut") /\ UNCHANGED <<chain, finished, files>>
    BY <1>3 DEF CutAccountLayer
  <2>. QED  BY <1>1, <1>2, <2>1, GivingUpKeeps DEF Fails
<1>4. CASE over \/ chain.accountLayer.chunks = process.done
  <2>1. /\ files' \in FilesType /\ files'.facets = files.facets /\ files'.peripherals.saved = files.peripherals.saved
        /\ chain' \in ChainType /\ chain'.routes = chain.routes /\ chain'.paused = chain.paused
        /\ chain'.facts = chain.facts
        /\ AccountLayerWhole(chain) => AccountLayerWhole(chain')
        /\ files'.peripherals.cutComplete => AccountLayerWhole(chain')
        /\ (process \in ProcessType)' /\ finished' = FALSE
        /\ process'.script = process.script /\ process'.step \in DOMAIN Steps[process.script]
        /\ process'.cut = process.cut
        /\ \/ process'.step = process.step + 1 /\ process'.done = 0 /\ AccountLayerWhole(chain')
           \/ process'.step = process.step /\ chain'.accountLayer.chunks = process'.done
    <3>1. CASE over
      <4>1. files' = [files EXCEPT !.peripherals.cutComplete = TRUE] /\ Advance /\ chain' = chain
        BY <3>1 DEF CutAccountLayer
      <4>2. AccountLayerWhole(chain)
        <5>1. CASE files.peripherals.cutComplete
          BY <5>1 DEF UpgradeInv, AccountLayerOK
        <5>2. CASE process.done = AccountLayerChunks
          BY <1>1, <5>2, UpgradeAssumption DEF AccountLayerWhole
        <5>. QED  BY <3>1, <5>1, <5>2
      <4>3. /\ files' \in FilesType /\ files'.facets = files.facets
            /\ files'.peripherals.saved = files.peripherals.saved
        BY <1>1, <4>1 DEF FilesType, PeripheralsFileType
      <4>4. \/ process.script = "eoaUpgrade" /\ process.step # 16
            \/ process.script = "deployPeripherals" /\ process.step # 7
        BY <1>1
      <4>5. /\ (process \in ProcessType)' /\ finished' = FALSE
            /\ process'.script = process.script /\ process'.step = process.step + 1
            /\ process'.done = 0 /\ process'.cut = process.cut
            /\ process'.step \in DOMAIN Steps[process.script]
        BY <1>1, <4>1, <4>4, OneFurther
      <4>. QED  BY <1>1, <4>1, <4>2, <4>3, <4>5
    <3>2. CASE ~over
      <4>1. /\ chain' = [chain EXCEPT !.accountLayer.chunks = @ + 1] /\ Again(process.done + 1) /\ files' = files
            /\ chain.accountLayer.chunks = process.done
        BY <1>4, <3>2 DEF CutAccountLayer
      <4>2. /\ chain' \in ChainType /\ chain'.routes = chain.routes /\ chain'.paused = chain.paused
            /\ chain'.facts = chain.facts /\ chain'.accountLayer.chunks = chain.accountLayer.chunks + 1
        BY <1>1, <4>1 DEF ChainType
      <4>3. /\ (process \in ProcessType)' /\ finished' = FALSE
            /\ process'.script = process.script /\ process'.step = process.step
            /\ process'.done = process.done + 1 /\ process'.cut = process.cut
            /\ process'.step \in DOMAIN Steps[process.script]
        <5>1. process.done + 1 \in Nat /\ Again(process.done + 1)
          BY <1>1, <4>1
        <5>. QED  BY <1>1, <5>1, Repeated
      <4>4. ~AccountLayerWhole(chain)
        BY <3>2, <4>1 DEF AccountLayerWhole
      <4>. QED  BY <1>1, <3>2, <4>1, <4>2, <4>3, <4>4
    <3>. QED  BY <3>1, <3>2
  <2>2. TurnsOK' /\ BatchOK' /\ Positions'
    BY <1>1, <1>2, <2>1, ScriptFrame
  <2>3. UpgradeTypeOK'
    BY <1>1, <1>2, <2>1, ScriptFrame DEF UpgradeInv, UpgradeTypeOK
  <2>4. FacetsFileOK'
    BY <1>1, <2>1, <2>2 DEF UpgradeInv, FacetsFileOK, Positions
  <2>5. AccountLayerOK'
    BY <1>1, <2>1 DEF AccountLayerOK
  <2>6. RoutesOK'
    BY <1>1, <2>1 DEF UpgradeInv, RoutesOK
  <2>7. ScriptOK'
    <3>1. CASE process.script = "eoaUpgrade" /\ process'.step = process.step + 1
      <4>1. process.step = 8 /\ process.step > 5 /\ process'.done = 0 /\ AccountLayerWhole(chain')
        BY <1>1, <2>1, <3>1
      <4>. QED  BY <2>1, <3>1, <4>1, FurtherOK
    <3>2. CASE process.script = "eoaUpgrade" /\ process'.step = process.step
      <4>1. process.step = 8
        BY <1>1, <3>2
      <4>2. \A step \in CallSteps : ~At(step)'
        BY <2>1, <2>2, <3>2, <4>1 DEF Positions, CallSteps
      <4>. QED  BY <2>1, <3>2, <4>1, <4>2, SameStepOK
    <3>3. CASE process.script # "eoaUpgrade"
      BY <2>1, <3>3 DEF ScriptOK
    <3>. QED  BY <2>1, <3>1, <3>2, <3>3
  <2>8. FinishedOK'
    BY <2>1 DEF FinishedOK, UpgradedIsReady
  <2>. QED  BY <2>2, <2>3, <2>4, <2>5, <2>6, <2>7, <2>8 DEF UpgradeInv
<1>. QED  BY <1>3, <1>4

LEMMA TransferOwnershipKeeps ==
  ASSUME UpgradeInv, TransferOwnership
  PROVE  UpgradeInv'
<1>1. /\ Running /\ finished = FALSE /\ chain \in ChainType
      /\ chain.accountLayer \in [chunks : Nat, owner : {"deployer", "pending", "safe"}]
      /\ process.script = "deployPeripherals" /\ process.step = 4
  BY Within DEF TransferOwnership, At, Positions, UpgradeInv, UpgradeTypeOK, ChainType
<1>2. UNCHANGED <<ScriptVars, files, deployments>> /\ Advance
  BY DEF TransferOwnership
<1>3. /\ chain' \in ChainType /\ chain'.routes = chain.routes /\ chain'.paused = chain.paused
      /\ chain'.accountLayer.chunks = chain.accountLayer.chunks
  <2>. DEFINE owner == IF chain.accountLayer.owner = "deployer" THEN "pending" ELSE chain.accountLayer.owner
  <2>1. chain' = [chain EXCEPT !.accountLayer.owner = owner]
    BY DEF TransferOwnership
  <2>2. owner \in {"deployer", "pending", "safe"}
    BY <1>1
  <2>. HIDE DEF owner
  <2>. QED  BY <1>1, <2>1, <2>2 DEF ChainType
<1>4. /\ (process \in ProcessType)' /\ finished' = FALSE
      /\ process'.script = process.script /\ process'.step = 5
      /\ process'.done = 0 /\ process'.step \in DOMAIN Steps[process.script]
  BY <1>1, <1>2, OneFurther
<1>5. TurnsOK' /\ BatchOK' /\ Positions'
  BY <1>1, <1>2, <1>4, ScriptFrame
<1>6. UpgradeTypeOK'
  BY <1>1, <1>2, <1>3, <1>4, ScriptFrame DEF UpgradeInv, UpgradeTypeOK
<1>7. FacetsFileOK'
  BY <1>1, <1>2, <1>4, <1>5 DEF UpgradeInv, FacetsFileOK, Positions
<1>8. AccountLayerOK'
  BY <1>1, <1>2, <1>3, <1>4, <1>5 DEF UpgradeInv, AccountLayerOK, AccountLayerWhole, Positions
<1>9. RoutesOK'
  BY <1>1, <1>3, <1>4 DEF UpgradeInv, RoutesOK
<1>10. ScriptOK' /\ FinishedOK'
  BY <1>1, <1>4 DEF ScriptOK, FinishedOK, UpgradedIsReady
<1>. QED  BY <1>5, <1>6, <1>7, <1>8, <1>9, <1>10 DEF UpgradeInv

\* Calls that go through leave their facts, and undo none.
LEMMA EffectFacts ==
  ASSUME chain \in ChainType, NEW calls \in SUBSET EveryCall
  PROVE  LET after == Effect(chain, calls)
         IN  /\ after \in ChainType /\ after.routes = chain.routes
             /\ chain.facts \subseteq after.facts /\ calls \cap Recorded \subseteq after.facts
             /\ \A call \in calls : call[1] # "pauseGlobal" /\ call # AcceptOwnership => call \in after.facts
             /\ chain.paused => after.paused
             /\ \A call \in calls : call[1] = "pauseGlobal" => after.paused
             /\ (\A call \in calls : call[1] # "pauseGlobal") => after.paused = chain.paused
             /\ after.accountLayer.chunks = chain.accountLayer.chunks
             /\ AcceptOwnership \in calls => after.accountLayer.owner = "safe"
<1>. DEFINE facts == chain.facts \cup { call \in calls : call[1] # "pauseGlobal" /\ call # AcceptOwnership }
            paused == chain.paused \/ \E call \in calls : call[1] = "pauseGlobal"
            owner == IF AcceptOwnership \in calls THEN "safe" ELSE chain.accountLayer.owner
            after == Effect(chain, calls)
<1>1. after = [chain EXCEPT !.facts = facts, !.paused = paused, !.accountLayer.owner = owner]
  BY DEF Effect
<1>2. chain.accountLayer \in [chunks : Nat, owner : {"deployer", "pending", "safe"}] /\ chain.paused \in BOOLEAN
  BY DEF ChainType
<1>3. facts \in SUBSET EveryCall /\ owner \in {"deployer", "pending", "safe"}
  BY <1>2 DEF ChainType
<1>4. paused \in BOOLEAN
  OBVIOUS
<1>5. /\ chain.facts \subseteq facts /\ calls \cap Recorded \subseteq facts
      /\ \A call \in calls : call[1] # "pauseGlobal" /\ call # AcceptOwnership => call \in facts
  BY CallFacts
<1>6. /\ chain.paused => paused
      /\ \A call \in calls : call[1] = "pauseGlobal" => paused
      /\ (\A call \in calls : call[1] # "pauseGlobal") => paused = chain.paused
  BY <1>2
<1>7. AcceptOwnership \in calls => owner = "safe"
  OBVIOUS
<1>. HIDE DEF facts, paused, owner, after
<1>8. /\ after \in ChainType /\ after.routes = chain.routes /\ after.facts = facts /\ after.paused = paused
      /\ after.accountLayer.chunks = chain.accountLayer.chunks /\ after.accountLayer.owner = owner
  BY <1>1, <1>2, <1>3, <1>4 DEF ChainType
<1>. QED  BY <1>5, <1>6, <1>7, <1>8 DEF after

LEMMA CallsOrDone ==
  ASSUME NEW step \in CallSteps
  PROVE  \/ CallsOf(step) = ListOf[step]
         \/ step = "registerPartyBs" /\ RegisterPartyBs \in chain.facts /\ CallsOf(step) = <<>>
<1>1. CASE step = "pause"
  BY <1>1 DEF CallsOf, ListOf
<1>2. CASE step = "parameters"
  BY <1>2 DEF CallsOf, ListOf
<1>3. CASE step = "wiring"
  BY <1>3 DEF CallsOf, ListOf
<1>4. CASE step = "templates"
  BY <1>4 DEF CallsOf, ListOf
<1>5. CASE step = "registerPartyBs"
  BY <1>5 DEF CallsOf, ListOf
<1>6. CASE step = "symbolManagerWiring"
  BY <1>6 DEF CallsOf, ListOf
<1>7. CASE step = "migrationRole"
  BY <1>7 DEF CallsOf, ListOf
<1>. QED  BY <1>1, <1>2, <1>3, <1>4, <1>5, <1>6, <1>7 DEF CallSteps

\* A step with no call left to make has made them all.
LEMMA AllMade ==
  ASSUME UpgradeInv, NEW step \in CallSteps, At(step), process.done >= Len(CallsOf(step))
  PROVE  \A k \in DOMAIN ListOf[step] : Made(ListOf[step][k])
<1>1. process.done \in Nat
  BY DEF UpgradeInv, UpgradeTypeOK, ProcessType
<1>2. process.script = "eoaUpgrade"
  <2>1. Running
    BY DEF At
  <2>. QED  BY <2>1, Within DEF Positions, CallSteps
<1>3. CASE CallsOf(step) = ListOf[step]
  <2>1. ListOf[step] \in Seq(EveryCall)
    BY ListLengths
  <2>2. \A k \in DOMAIN ListOf[step] : k <= process.done
    BY <1>1, <1>3, <2>1
  <2>. QED  BY <1>2, <2>2 DEF UpgradeInv, ScriptOK
<1>4. CASE step = "registerPartyBs" /\ RegisterPartyBs \in chain.facts
  <2>1. ListOf[step] = <<RegisterPartyBs>>
    BY <1>4 DEF ListOf
  <2>2. RegisterPartyBs[1] # "pauseGlobal"
    BY DEF RegisterPartyBs, Call
  <2>. QED  BY <1>4, <2>1, <2>2 DEF Made
<1>. QED  BY <1>3, <1>4, CallsOrDone

\* What the calls of each step are worth when all are made.
LEMMA MadeSteps ==
  ASSUME NEW step \in CallSteps, \A k \in DOMAIN ListOf[step] : Made(ListOf[step][k])
  PROVE  /\ step = "pause" => chain.paused
         /\ step = "parameters" => Range(ParameterCalls(TRUE)) \subseteq chain.facts
         /\ step = "wiring" => Range(WiringCalls) \subseteq chain.facts
         /\ step = "templates" => Range(TemplateCalls) \subseteq chain.facts
         /\ step = "registerPartyBs" => RegisterPartyBs \in chain.facts
         /\ step = "symbolManagerWiring" => Range(SymbolManagerCalls) \subseteq chain.facts
         /\ step = "migrationRole" => RunnerCalls[1] \in chain.facts
<1>1. \A call \in Range(ListOf[step]) : Made(call)
  BY DEF Range
<1>2. \A call \in Recorded : Made(call) => call \in chain.facts
  BY CallFacts DEF Made
<1>3. /\ Range(ParameterCalls(TRUE)) \subseteq Recorded /\ Range(WiringCalls) \subseteq Recorded
      /\ Range(TemplateCalls) \subseteq Recorded /\ Range(SymbolManagerCalls) \subseteq Recorded
      /\ RegisterPartyBs \in Recorded /\ RunnerCalls[1] \in Recorded
  BY ListsTyped, CallFacts, RangeTyped DEF Recorded
<1>4. CASE step = "pause"
  <2>1. Call("pauseGlobal", "diamond") \in Range(ListOf[step])
    BY <1>4, ListsTyped DEF ListOf
  <2>. QED  BY <1>1, <1>4, <2>1 DEF Made, Call
<1>5. CASE step = "parameters"
  BY <1>1, <1>2, <1>3, <1>5 DEF ListOf
<1>6. CASE step = "wiring"
  BY <1>1, <1>2, <1>3, <1>6 DEF ListOf
<1>7. CASE step = "templates"
  BY <1>1, <1>2, <1>3, <1>7 DEF ListOf
<1>8. CASE step = "registerPartyBs"
  <2>1. ListOf[step] = <<RegisterPartyBs>> /\ Range(<<RegisterPartyBs>>) = {RegisterPartyBs}
    BY <1>8, OneCall DEF ListOf
  <2>. QED  BY <1>1, <1>2, <1>3, <1>8, <2>1
<1>9. CASE step = "symbolManagerWiring"
  BY <1>1, <1>2, <1>3, <1>9 DEF ListOf
<1>10. CASE step = "migrationRole"
  <2>1. ListOf[step] = <<RunnerCalls[1]>> /\ Range(<<RunnerCalls[1]>>) = {RunnerCalls[1]}
    BY <1>10, OneCall DEF ListOf
  <2>. QED  BY <1>1, <1>2, <1>3, <1>10, <2>1
<1>. QED  BY <1>4, <1>5, <1>6, <1>7, <1>8, <1>9, <1>10 DEF CallSteps

\* At the step a call belongs to, eoaUpgrade.ts is at the place of that name.
LEMMA CallPlaces ==
  ASSUME UpgradeInv, NEW step \in CallSteps, At(step)
  PROVE  /\ Running /\ process.script = "eoaUpgrade" /\ process.step \in {4, 6, 10, 11, 13, 15, 16}
         /\ step = "pause" <=> process.step = 4
         /\ step = "parameters" <=> process.step = 6
         /\ step = "wiring" <=> process.step = 10
         /\ step = "templates" <=> process.step = 11
         /\ step = "registerPartyBs" <=> process.step = 13
         /\ step = "symbolManagerWiring" <=> process.step = 15
         /\ step = "migrationRole" <=> process.step = 16
<1>1. Running
  BY DEF At
<1>. QED  BY <1>1, Within DEF Positions, CallSteps

\* What an upgrade that went through has set.
LEMMA ReadyCalls ==
  Range(ParameterCalls(TRUE) \o WiringCalls \o TemplateCalls \o SymbolManagerCalls) =
    Range(ParameterCalls(TRUE)) \cup Range(WiringCalls) \cup Range(TemplateCalls) \cup Range(SymbolManagerCalls)
<1>. DEFINE p == ParameterCalls(TRUE)
            a == p \o WiringCalls
            b == a \o TemplateCalls
<1>. HIDE DEF p, a, b
<1>1. CoreCalls \subseteq EveryCall /\ LayerCalls \subseteq EveryCall /\ ManagerCalls \subseteq EveryCall
  BY DEF EveryCall, Recorded
<1>2. p \in Seq(EveryCall) /\ SymbolManagerCalls \in Seq(EveryCall)
  BY <1>1, ListsTyped, WiderSequence DEF p
<1>3. WiringCalls \in Seq(EveryCall) /\ TemplateCalls \in Seq(EveryCall)
  BY <1>1, ListsTyped, WiderSequence
<1>4. a \in Seq(EveryCall) /\ Range(a) = Range(p) \cup Range(WiringCalls)
  BY <1>2, <1>3, Concatenated DEF a
<1>5. a \o TemplateCalls \in Seq(EveryCall) /\ Range(a \o TemplateCalls) = Range(a) \cup Range(TemplateCalls)
  <2>1. a \in Seq(EveryCall) /\ TemplateCalls \in Seq(EveryCall)
    BY <1>3, <1>4
  <2>. QED  BY <2>1, Concatenated
<1>6. b \in Seq(EveryCall) /\ Range(b) = Range(a) \cup Range(TemplateCalls)
  BY <1>5 DEF b
<1>7. Range(b \o SymbolManagerCalls) = Range(b) \cup Range(SymbolManagerCalls)
  <2>1. b \in Seq(EveryCall) /\ SymbolManagerCalls \in Seq(EveryCall)
    BY <1>2, <1>6
  <2>. QED  BY <2>1, Concatenated
<1>8. ParameterCalls(TRUE) \o WiringCalls \o TemplateCalls \o SymbolManagerCalls = b \o SymbolManagerCalls
  BY DEF a, b, p
<1>. QED  BY <1>4, <1>6, <1>7, <1>8 DEF p

\* The last step of eoaUpgrade.ts ends an upgrade that is complete.
LEMMA LastCallMade ==
  ASSUME UpgradeInv, process.script = "eoaUpgrade", process.step = 16, RunnerCalls[1] \in chain.facts,
         chain' = chain, path' = path, path = "eoa"
  PROVE  UpgradedIsReady'
<1>1. ScriptOK /\ 16 > 5 /\ 16 > 6 /\ 16 > 8 /\ 16 > 10 /\ 16 > 11 /\ 16 > 13 /\ 16 > 15
  BY DEF UpgradeInv
<1>2. WholeNew(chain.routes) /\ AccountLayerWhole(chain) /\ RegisterPartyBs \in chain.facts
  BY <1>1 DEF ScriptOK
<1>3. /\ Range(ParameterCalls(TRUE)) \subseteq chain.facts /\ Range(WiringCalls) \subseteq chain.facts
      /\ Range(TemplateCalls) \subseteq chain.facts /\ Range(SymbolManagerCalls) \subseteq chain.facts
  BY <1>1 DEF ScriptOK
<1>. QED  BY <1>2, <1>3, ReadyCalls DEF UpgradedIsReady

\* The step has no call left.
LEMMA CallsOver ==
  ASSUME UpgradeInv, NEW step \in CallSteps, At(step), process.done >= Len(CallsOf(step)), Advance,
         UNCHANGED <<ScriptVars, chain, files, deployments>>
  PROVE  UpgradeInv'
<1>1. /\ Running /\ process.script = "eoaUpgrade" /\ process.step \in {4, 6, 10, 11, 13, 15, 16} /\ finished = FALSE
      /\ path = "eoa" /\ ScriptOK
  BY CallPlaces, Within DEF ScriptsOf, UpgradeInv
<1>2. UNCHANGED ScriptVars /\ chain' = chain /\ files' = files /\ deployments' = deployments /\ path' = path
  BY DEF ScriptVars
<1>3. \A k \in DOMAIN ListOf[step] : Made(ListOf[step][k])
  BY AllMade
<1>4. /\ process.step = 4 => chain.paused
      /\ process.step = 6 => Range(ParameterCalls(TRUE)) \subseteq chain.facts
      /\ process.step = 10 => Range(WiringCalls) \subseteq chain.facts
      /\ process.step = 11 => Range(TemplateCalls) \subseteq chain.facts
      /\ process.step = 13 => RegisterPartyBs \in chain.facts
      /\ process.step = 15 => Range(SymbolManagerCalls) \subseteq chain.facts
      /\ process.step = 16 => RunnerCalls[1] \in chain.facts
  BY <1>3, CallPlaces, MadeSteps
<1>5. CASE process.step = 16
  <2>1. process' = Idle /\ finished' = TRUE /\ (process \in ProcessType)'
    BY <1>1, <1>5, Advanced
  <2>2. ~Running' /\ (\A name : ~At(name)') /\ ScriptOK'
    BY <2>1, Stopped
  <2>3. TurnsOK' /\ BatchOK' /\ UpgradeTypeOK'
    <3>1. finished' \in BOOLEAN
      BY <2>1
    <3>. QED  BY <1>1, <1>2, <2>1, <3>1, ScriptFrame DEF UpgradeInv, UpgradeTypeOK
  <2>4. FacetsFileOK' /\ AccountLayerOK' /\ RoutesOK'
    BY <1>1, <1>2, <2>1, <2>2 DEF UpgradeInv, FacetsFileOK, AccountLayerOK, RoutesOK, AccountLayerWhole
  <2>5. FinishedOK'
    BY <1>1, <1>2, <1>4, <1>5, <2>2, LastCallMade DEF FinishedOK
  <2>. QED  BY <2>2, <2>3, <2>4, <2>5 DEF UpgradeInv
<1>6. CASE process.step # 16
  <2>1. /\ (process \in ProcessType)' /\ finished' = FALSE
        /\ process'.script = "eoaUpgrade" /\ process'.step = process.step + 1
        /\ process'.done = 0 /\ process'.cut = process.cut
        /\ process'.step \in DOMAIN Steps[process.script]
    BY <1>1, <1>6, OneFurther
  <2>2. TurnsOK' /\ BatchOK' /\ Positions' /\ UpgradeTypeOK'
    BY <1>1, <1>2, <2>1, ScriptFrame DEF UpgradeInv, UpgradeTypeOK
  <2>3. FacetsFileOK' /\ AccountLayerOK' /\ RoutesOK'
    <3>1. process'.step \in {5, 7, 11, 12, 14, 16}
      BY <1>1, <1>6, <2>1
    <3>2. ~At("facets")' /\ ~At("accountLayerCut")'
      BY <2>1, <2>2, <3>1 DEF Positions
    <3>. QED  BY <1>1, <1>2, <2>1, <3>2 DEF UpgradeInv, FacetsFileOK, AccountLayerOK, RoutesOK, AccountLayerWhole
  <2>4. FinishedOK'
    BY <2>1 DEF FinishedOK, UpgradedIsReady
  <2>5. ScriptOK'
    <3>1. CASE process.step = 4
      <4>1. /\ process'.step = 5 /\ chain.paused /\ process.cut # <<>> /\ FacetsDeployed
            /\ CutPending(chain.routes, process.cut, 0, files.facets.deployed)
        BY <1>1, <1>4, <2>1, <3>1 DEF ScriptOK
      <4>2. process'.done < Len(process'.cut)
        <5>1. process.cut \in Seq(Seq(ChangeType)) /\ process.cut # <<>>
          BY <4>1 DEF UpgradeInv, UpgradeTypeOK, ProcessType, Cuts
        <5>2. 0 < Len(process.cut)
          BY <5>1
        <5>. QED  BY <2>1, <5>2
      <4>3. \A other \in CallSteps : ~At(other)'
        BY <2>2, <4>1 DEF Positions, CallSteps
      <4>4. FacetsDeployed'
        BY <1>2, <4>1 DEF FacetsDeployed
      <4>5. CutPending(chain'.routes, process'.cut, process'.done, files'.facets.deployed) /\ chain'.paused
        BY <1>2, <2>1, <4>1
      <4>6. /\ process'.step = 5 /\ 5 > 2 /\ 5 # 4 /\ 5 > 4
            /\ ~(5 > 5) /\ ~(5 > 6) /\ ~(5 > 8) /\ ~(5 > 10) /\ ~(5 > 11) /\ ~(5 > 13) /\ ~(5 > 15)
        BY <4>1
      <4>. QED  BY <4>2, <4>3, <4>4, <4>5, <4>6 DEF ScriptOK
    <3>2. CASE process.step # 4
      <4>1. process.step > 5 /\ process.step # 7 /\ process.step # 8
        BY <1>1, <3>2
      <4>. QED  BY <1>1, <1>2, <1>4, <2>1, <4>1, FurtherOK
    <3>. QED  BY <3>1, <3>2
  <2>. QED  BY <2>2, <2>3, <2>4, <2>5 DEF UpgradeInv
<1>. QED  BY <1>5, <1>6

\* One more call of the step went through.
LEMMA CallGoesThrough ==
  ASSUME UpgradeInv, NEW step \in CallSteps, At(step), process.done < Len(CallsOf(step)),
         chain' = Effect(chain, {CallsOf(step)[process.done + 1]}), Again(process.done + 1),
         UNCHANGED <<ScriptVars, files, deployments>>
  PROVE  UpgradeInv'
<1>1. /\ Running /\ process.script = "eoaUpgrade" /\ process.step \in {4, 6, 10, 11, 13, 15, 16} /\ finished = FALSE
      /\ process.done \in Nat /\ chain \in ChainType /\ ScriptOK
  BY CallPlaces, Within DEF UpgradeInv, UpgradeTypeOK, ProcessType
<1>2. UNCHANGED ScriptVars /\ files' = files /\ deployments' = deployments
  BY DEF ScriptVars
<1>3. CallsOf(step) = ListOf[step] /\ ListOf[step] \in Seq(EveryCall) /\ ListOf[step] \in Seq(EveryCall \ {AcceptOwnership})
  <2>1. CallsOf(step) # <<>>
    BY <1>1
  <2>. QED  BY <2>1, CallsOrDone, ListLengths
<1>4. PICK call \in EveryCall :
        call # AcceptOwnership /\ call = ListOf[step][process.done + 1] /\ chain' = Effect(chain, {call})
  <2>1. process.done + 1 \in DOMAIN ListOf[step]
    BY <1>1, <1>3
  <2>2. ListOf[step][process.done + 1] \in EveryCall \ {AcceptOwnership}
    BY <1>3, <2>1
  <2>. QED  BY <1>3, <2>2
<1>5. /\ chain' \in ChainType /\ chain'.routes = chain.routes /\ chain.facts \subseteq chain'.facts
      /\ (call[1] # "pauseGlobal" => call \in chain'.facts) /\ (chain.paused => chain'.paused)
      /\ call[1] = "pauseGlobal" => chain'.paused
      /\ chain'.accountLayer.chunks = chain.accountLayer.chunks
  <2>. DEFINE after == Effect(chain, {call})
  <2>1. {call} \in SUBSET EveryCall
    OBVIOUS
  <2>2. /\ after \in ChainType /\ after.routes = chain.routes /\ chain.facts \subseteq after.facts
        /\ (\A other \in {call} : other[1] # "pauseGlobal" /\ other # AcceptOwnership => other \in after.facts) /\ (chain.paused => after.paused)
        /\ \A other \in {call} : other[1] = "pauseGlobal" => after.paused
        /\ after.accountLayer.chunks = chain.accountLayer.chunks
    BY <1>1, <2>1, EffectFacts
  <2>. HIDE DEF after
  <2>3. chain' = after
    BY <1>4 DEF after
  <2>. QED  BY <1>4, <2>2, <2>3
<1>6. /\ (process \in ProcessType)' /\ finished' = FALSE
      /\ process'.script = "eoaUpgrade" /\ process'.step = process.step
      /\ process'.done = process.done + 1 /\ process'.cut = process.cut
      /\ process'.step \in DOMAIN Steps[process.script]
  <2>1. process.done + 1 \in Nat /\ Again(process.done + 1)
    BY <1>1
  <2>. QED  BY <1>1, <2>1, Repeated
<1>7. TurnsOK' /\ BatchOK' /\ Positions' /\ UpgradeTypeOK'
  BY <1>1, <1>2, <1>5, <1>6, ScriptFrame DEF UpgradeInv, UpgradeTypeOK
<1>8. FacetsFileOK' /\ AccountLayerOK' /\ RoutesOK'
  <2>1. ~At("facets")' /\ ~At("accountLayerCut")'
    <3>1. process'.step \in {4, 6, 10, 11, 13, 15, 16}
      BY <1>1, <1>6
    <3>. QED  BY <1>6, <1>7, <3>1 DEF Positions
  <2>. QED  BY <1>1, <1>2, <1>5, <1>6, <2>1 DEF UpgradeInv, FacetsFileOK, AccountLayerOK, RoutesOK, AccountLayerWhole
<1>9. FinishedOK'
  BY <1>6 DEF FinishedOK, UpgradedIsReady
<1>10. ASSUME NEW other \in CallSteps, At(other)'
       PROVE  \A k \in DOMAIN ListOf[other] : k <= process'.done => Made(ListOf[other][k])'
  <2>1. other = step
    <3>1. At(other)
      BY <1>1, <1>6, <1>7, <1>10, Within DEF Positions, CallSteps
    <3>. QED  BY <3>1 DEF At
  <2>2. \A k \in DOMAIN ListOf[step] : ListOf[step][k] \in EveryCall /\ k \in Nat
    BY <1>3
  <2>3. ASSUME NEW k \in DOMAIN ListOf[step], k <= process.done
        PROVE  Made(ListOf[step][k])'
    <3>1. Made(ListOf[step][k])
      BY <1>1, <2>3 DEF ScriptOK
    <3>. QED  BY <1>5, <3>1 DEF Made
  <2>4. Made(call)'
    <3>1. CASE call[1] = "pauseGlobal"
      BY <1>5, <3>1 DEF Made
    <3>2. CASE call[1] # "pauseGlobal"
      BY <1>5, <3>2 DEF Made
    <3>. QED  BY <3>1, <3>2
  <2>. QED  BY <1>1, <1>4, <1>6, <2>1, <2>2, <2>3, <2>4
<1>11. ScriptOK'
  <2>1. process.step # 5 /\ (AccountLayerWhole(chain) => AccountLayerWhole(chain'))
    BY <1>1, <1>5 DEF AccountLayerWhole
  <2>. QED  BY <1>1, <1>2, <1>5, <1>6, <1>10, <2>1, SameStepOK
<1>. QED  BY <1>7, <1>8, <1>9, <1>11 DEF UpgradeInv

LEMMA MakeCallKeeps ==
  ASSUME UpgradeInv, NEW step \in CallSteps, MakeCall(step)
  PROVE  UpgradeInv'
<1>. DEFINE call == CallsOf(step)[process.done + 1]
<1>1. At(step) /\ UNCHANGED <<ScriptVars, files, deployments>> /\ process.done \in Nat /\ Running
  BY DEF MakeCall, UpgradeInv, UpgradeTypeOK, ProcessType, At
<1>2. Len(CallsOf(step)) \in Nat
  <2>1. ListOf[step] \in Seq(EveryCall) /\ Len(<<>>) = 0
    BY ListLengths
  <2>. QED  BY <2>1, CallsOrDone
<1>3. CASE process.done >= Len(CallsOf(step))
  BY <1>1, <1>3, CallsOver DEF MakeCall
<1>4. CASE ~(process.done >= Len(CallsOf(step))) /\ CallReverts(chain, call)
  <2>1. Fails(step) /\ UNCHANGED <<chain, finished, files, deployments>> /\ UNCHANGED ScriptVars
    BY <1>1, <1>4 DEF MakeCall
  <2>2. files \in FilesType
    BY DEF UpgradeInv, UpgradeTypeOK
  <2>. QED  BY <1>1, <2>1, <2>2, GivingUpKeeps DEF Fails
<1>5. CASE ~(process.done >= Len(CallsOf(step))) /\ ~CallReverts(chain, call)
  <2>1. chain' = Effect(chain, {call}) /\ Again(process.done + 1)
    BY <1>1, <1>5 DEF MakeCall
  <2>2. process.done < Len(CallsOf(step))
    BY <1>1, <1>2, <1>5
  <2>. QED  BY <1>1, <2>1, <2>2, CallGoesThrough
<1>. QED  BY <1>3, <1>4, <1>5

\* While no script runs nothing is asked of the scripts.
LEMMA NoScript ==
  ASSUME UpgradeInv, ~Running, UNCHANGED <<path, process>>
  PROVE  ~Running' /\ (\A name : ~At(name)') /\ ScriptOK' /\ (process \in ProcessType)'
           /\ (path \in {"eoa", "safe", "timelock"})'
BY DEF Running, At, ScriptOK, UpgradeInv, UpgradeTypeOK

\* What the operator and the Safe do without the chain.
LEMMA QuietKeeps ==
  ASSUME UpgradeInv, ~Running, UNCHANGED <<path, chain, process, finished, deployments>>,
         files' \in FilesType,
         files'.facets = files.facets \/ (files'.facets.libraries = 0 /\ DOMAIN files'.facets.deployed = {}),
         files'.peripherals = files.peripherals \/ ~files'.peripherals.cutComplete,
         batch' \in BatchType, verdict' \in [known : BOOLEAN, labels : SUBSET Labels], applied' \in Nat,
         path = "eoa" => ~batch'.exists, BatchOK'
  PROVE  UpgradeInv'
<1>1. ~Running' /\ (\A name : ~At(name)') /\ ScriptOK' /\ (process \in ProcessType)' /\ (path \in {"eoa", "safe", "timelock"})'
  BY NoScript
<1>2. UpgradeTypeOK'
  BY <1>1 DEF UpgradeInv, UpgradeTypeOK
<1>3. FacetsFileOK'
  <2>1. DeployedOK(files'.facets.deployed, files'.facets.libraries)
    BY DEF UpgradeInv, FacetsFileOK, DeployedOK
  <2>. QED  BY <1>1, <2>1 DEF UpgradeInv, FacetsFileOK
<1>4. AccountLayerOK'
  BY <1>1 DEF UpgradeInv, AccountLayerOK, AccountLayerWhole
<1>5. RoutesOK' /\ TurnsOK'
  BY <1>1 DEF UpgradeInv, RoutesOK, TurnsOK
<1>6. FinishedOK'
  BY <1>1 DEF UpgradeInv, FinishedOK, UpgradedIsReady, AccountLayerWhole
<1>. QED  BY <1>1, <1>2, <1>3, <1>4, <1>5, <1>6 DEF UpgradeInv

\* What the Safe does to the chain.
LEMMA SafeKeeps ==
  ASSUME UpgradeInv, ~Running, UNCHANGED <<path, files, process, batch, verdict, deployments>>,
         chain' \in ChainType, applied' \in Nat, finished' \in BOOLEAN, AccountLayerWhole(chain) => AccountLayerWhole(chain'),
         RoutesOK', BatchOK', UpgradedIsReady'
  PROVE  UpgradeInv'
<1>1. ~Running' /\ (\A name : ~At(name)') /\ ScriptOK' /\ (process \in ProcessType)' /\ (path \in {"eoa", "safe", "timelock"})'
  BY NoScript
<1>2. UpgradeTypeOK'
  BY <1>1 DEF UpgradeInv, UpgradeTypeOK
<1>3. FacetsFileOK'
  BY <1>1 DEF UpgradeInv, FacetsFileOK
<1>4. AccountLayerOK'
  BY <1>1 DEF UpgradeInv, AccountLayerOK
<1>5. TurnsOK' /\ FinishedOK'
  BY <1>1 DEF UpgradeInv, TurnsOK, FinishedOK
<1>. QED  BY <1>1, <1>2, <1>3, <1>4, <1>5 DEF UpgradeInv

LEMMA WithdrawnFacts ==
  ASSUME UpgradeInv
  PROVE  Withdrawn \in BatchType /\ ~Withdrawn.exists /\ Unverified \in [known : BOOLEAN, labels : SUBSET Labels]
           /\ ~Unverified.known
<1>1. <<>> \in Cuts /\ <<>> \in Seq(EveryCall) /\ batch.timelock \in Cuts
  BY DEF Cuts, UpgradeInv, UpgradeTypeOK, BatchType
<1>2. NoBatch \in BatchType /\ ~NoBatch.exists
  BY <1>1 DEF BatchType, NoBatch
<1>3. Withdrawn \in BatchType /\ ~Withdrawn.exists
  BY <1>1, <1>2 DEF BatchType, Withdrawn
<1>. QED  BY <1>3 DEF Unverified

LEMMA StartOverKeeps ==
  ASSUME UpgradeInv, StartOver
  PROVE  UpgradeInv'
<1>1. /\ ~Running /\ UNCHANGED <<path, chain, process, finished, deployments>>
      /\ batch' = Withdrawn /\ verdict' = Unverified /\ applied' = 0
      /\ \/ files' = [files EXCEPT !.facets = NoFacetsFile]
         \/ files' = [files EXCEPT !.peripherals = PeripheralsLost]
  BY DEF StartOver, RemoveFacetsFile, RemovePeripheralsFile
<1>2. files \in FilesType
  BY DEF UpgradeInv, UpgradeTypeOK
<1>3. /\ files' \in FilesType
      /\ files'.facets = files.facets \/ (files'.facets.libraries = 0 /\ DOMAIN files'.facets.deployed = {})
      /\ files'.peripherals = files.peripherals \/ ~files'.peripherals.cutComplete
  BY <1>1, <1>2, EmptyFiles DEF FilesType
<1>4. BatchOK'
  BY <1>1, WithdrawnFacts DEF BatchOK
<1>. QED  BY <1>1, <1>3, <1>4, WithdrawnFacts, QuietKeeps

LEMMA SecondThoughtsKeeps ==
  ASSUME UpgradeInv, SecondThoughts
  PROVE  UpgradeInv'
<1>1. /\ ~Running /\ UNCHANGED <<path, chain, process, finished, deployments>>
      /\ batch' = Withdrawn /\ verdict' = Unverified /\ applied' = 0
      /\ files' = files \/ files' = [files EXCEPT !.facets = NoFacetsFile]
  BY DEF SecondThoughts
<1>2. files \in FilesType
  BY DEF UpgradeInv, UpgradeTypeOK
<1>3. /\ files' \in FilesType
      /\ files'.facets = files.facets \/ (files'.facets.libraries = 0 /\ DOMAIN files'.facets.deployed = {})
      /\ files'.peripherals = files.peripherals
  BY <1>1, <1>2, EmptyFiles DEF FilesType
<1>4. BatchOK'
  BY <1>1, WithdrawnFacts DEF BatchOK
<1>. QED  BY <1>1, <1>3, <1>4, WithdrawnFacts, QuietKeeps

\* The batch of a system that is deployed whole leaves no call out.
LEMMA PostBatchWhole == PeripheralsDeployed => PostBatch = FullPostBatch
<1>. SUFFICES ASSUME PeripheralsDeployed
              PROVE  PostBatch = FullPostBatch
  OBVIOUS
<1>1. Saved("verifier") = TRUE /\ Wired = TRUE /\ Saved("symbolManager") = TRUE
  BY DEF PeripheralsDeployed, Saved, Wired
<1>. QED  BY <1>1 DEF PostBatch, FullPostBatch

LEMMA GenerateKeeps ==
  ASSUME UpgradeInv, ~EarlyGenerate, Generate
  PROVE  UpgradeInv'
<1>. DEFINE cut == InChunks(BuildDiamondCut(chain.routes, files.facets.deployed), ChunkSize)
<1>1. /\ ~Running /\ UNCHANGED <<path, chain, files, process, finished, deployments>> /\ path # "eoa"
      /\ FacetsDeployed /\ PeripheralsDeployed /\ files.peripherals.cutComplete
      /\ batch' = [exists |-> TRUE, post |-> PostBatch, timelock |-> batch.timelock, cut |-> cut]
      /\ verdict' = Unverified /\ applied' = 0
  BY DEF Generate
<1>2. CutPending(chain.routes, cut, 0, files.facets.deployed) /\ cut \in Cuts
  <2>1. chain.routes \in Routes /\ Cuttable(chain.routes) /\ DOMAIN files.facets.deployed = Facets
    BY <1>1 DEF UpgradeInv, UpgradeTypeOK, ChainType, RoutesOK, FacetsDeployed
  <2>2. DeployedOK(files.facets.deployed, files.facets.libraries)
    BY DEF UpgradeInv, FacetsFileOK
  <2>. QED  BY <2>1, <2>2, BuiltCut DEF CutPending, Cuts
<1>. HIDE DEF cut
<1>3. Len(cut) \in Nat
  BY <1>2 DEF Cuts
<1>4. PostBatch = FullPostBatch /\ PostBatch \in Seq(EveryCall)
  BY <1>1, PostBatchWhole, PostBatchCalls
<1>5. batch.timelock \in Cuts /\ files \in FilesType
  BY DEF UpgradeInv, UpgradeTypeOK, BatchType
<1>6. batch' \in BatchType
  BY <1>1, <1>2, <1>4, <1>5 DEF BatchType
<1>7. BatchOK'
  <2>1. FacetsDeployed' /\ PeripheralsDeployed'
    BY <1>1 DEF FacetsDeployed, PeripheralsDeployed
  <2>2. /\ batch'.post = FullPostBatch /\ batch'.cut = cut /\ applied' = 0 /\ ~verdict'.known /\ files' = files
        /\ chain' = chain
    BY <1>1, <1>4, WithdrawnFacts
  <2>. QED  BY <1>1, <1>2, <1>3, <2>1, <2>2 DEF BatchOK
<1>. QED  BY <1>1, <1>5, <1>6, <1>7, WithdrawnFacts, QuietKeeps

LEMMA GenerateTimelockKeeps ==
  ASSUME UpgradeInv, GenerateTimelock
  PROVE  UpgradeInv'
<1>1. /\ ~Running /\ UNCHANGED <<path, chain, files, process, applied, finished, deployments>> /\ path # "eoa"
      /\ batch' = [batch EXCEPT !.timelock = batch.cut] /\ verdict' = Unverified
  BY DEF GenerateTimelock
<1>2. batch \in BatchType /\ batch.cut \in Cuts /\ files \in FilesType /\ applied \in Nat
  BY DEF UpgradeInv, UpgradeTypeOK, BatchType
<1>3. /\ batch' \in BatchType /\ batch'.cut = batch.cut /\ batch'.post = batch.post /\ batch'.exists = batch.exists
  BY <1>1, <1>2 DEF BatchType
<1>4. BatchOK'
  <2>1. (FacetsDeployed' <=> FacetsDeployed) /\ (PeripheralsDeployed' <=> PeripheralsDeployed) /\ ~verdict'.known
    BY <1>1, WithdrawnFacts DEF FacetsDeployed, PeripheralsDeployed
  <2>. QED  BY <1>1, <1>3, <2>1 DEF UpgradeInv, BatchOK
<1>. QED  BY <1>1, <1>2, <1>3, <1>4, WithdrawnFacts, QuietKeeps

LEMMA VerifyKeeps ==
  ASSUME UpgradeInv, Verify
  PROVE  UpgradeInv'
<1>1. ~Running /\ UNCHANGED <<path, chain, files, process, batch, applied, finished, deployments>> /\ batch.exists
  BY DEF Verify
<1>2. /\ verdict' \in [known : BOOLEAN, labels : SUBSET Labels]
      /\ "timelock-safe-batch" \in verdict'.labels => batch.timelock \in {<<>>, batch.cut}
  <2>. DEFINE labels ==
         {"pause-safe-batch"}
           \cup (IF batch.post = ExpectedSafeTxs THEN {"safe-batch"} ELSE {})
           \cup (IF CutVerifies THEN {"diamondcut-calldata"} ELSE {})
           \cup (IF batch.timelock \in {<<>>, batch.cut} THEN {"timelock-safe-batch"} ELSE {})
  <2>1. verdict' = [known |-> TRUE, labels |-> labels]
    BY DEF Verify
  <2>2. labels \in SUBSET Labels
    BY DEF Labels
  <2>3. "timelock-safe-batch" \in labels => batch.timelock \in {<<>>, batch.cut}
    OBVIOUS
  <2>. HIDE DEF labels
  <2>. QED  BY <2>1, <2>2, <2>3
<1>3. batch \in BatchType /\ files \in FilesType /\ applied \in Nat
  BY DEF UpgradeInv, UpgradeTypeOK
<1>4. BatchOK'
  <2>1. (FacetsDeployed' <=> FacetsDeployed) /\ (PeripheralsDeployed' <=> PeripheralsDeployed)
    BY <1>1 DEF FacetsDeployed, PeripheralsDeployed
  <2>. QED  BY <1>1, <1>2, <2>1 DEF UpgradeInv, BatchOK
<1>5. path = "eoa" => ~batch'.exists
  BY <1>1 DEF UpgradeInv, TurnsOK
<1>. QED  BY <1>1, <1>2, <1>3, <1>4, <1>5, QuietKeeps

\* What only concerns the timelock's operations, or is noted as a failure.
LEMMA UnchangedKeeps ==
  ASSUME UpgradeInv, ~Running,
         UNCHANGED <<path, chain, files, process, batch, verdict, applied, finished, deployments>>
  PROVE  UpgradeInv'
<1>1. batch \in BatchType /\ files \in FilesType /\ applied \in Nat /\ verdict \in [known : BOOLEAN, labels : SUBSET Labels]
  BY DEF UpgradeInv, UpgradeTypeOK
<1>2. BatchOK'
  <2>1. (FacetsDeployed' <=> FacetsDeployed) /\ (PeripheralsDeployed' <=> PeripheralsDeployed)
    BY DEF FacetsDeployed, PeripheralsDeployed
  <2>. QED  BY <2>1 DEF UpgradeInv, BatchOK
<1>3. path = "eoa" => ~batch'.exists
  BY DEF UpgradeInv, TurnsOK
<1>. QED  BY <1>1, <1>2, <1>3, QuietKeeps

\* Who signs has seen the batches verified.
LEMMA SignedFacts ==
  ASSUME UpgradeInv, "timelock-safe-batch" \notin Skip, SafeActs
  PROVE  /\ path # "eoa" /\ ~Running /\ ~finished /\ batch.exists
         /\ FacetsDeployed /\ PeripheralsDeployed /\ files.peripherals.cutComplete
         /\ batch.post = FullPostBatch /\ batch.timelock \in {<<>>, batch.cut}
         /\ applied \in Nat /\ applied <= Len(batch.cut)
         /\ CutPending(chain.routes, batch.cut, applied, files.facets.deployed)
         /\ batch.cut \in Cuts /\ chain \in ChainType /\ AccountLayerWhole(chain)
<1>1. path # "eoa" /\ ~Running /\ ~finished /\ batch.exists /\ verdict.known /\ Required \subseteq verdict.labels
  BY DEF SafeActs, Signed
<1>2. "timelock-safe-batch" \in verdict.labels
  BY <1>1 DEF Required, Labels
<1>3. BatchOK /\ AccountLayerOK /\ UpgradeTypeOK
  BY DEF UpgradeInv
<1>4. applied \in Nat /\ batch.cut \in Cuts /\ chain \in ChainType
  BY <1>3 DEF UpgradeTypeOK, BatchType
<1>. QED  BY <1>1, <1>2, <1>3, <1>4 DEF BatchOK, AccountLayerOK

\* The batches mind only the routes.
LEMMA BatchesStand ==
  ASSUME UpgradeInv, UNCHANGED <<files, batch, verdict, applied>>, chain'.routes = chain.routes
  PROVE  BatchOK'
<1>1. (FacetsDeployed' <=> FacetsDeployed) /\ (PeripheralsDeployed' <=> PeripheralsDeployed)
  BY DEF FacetsDeployed, PeripheralsDeployed
<1>. QED  BY <1>1 DEF UpgradeInv, BatchOK

LEMMA ExecutePauseKeeps ==
  ASSUME UpgradeInv, ExecutePause
  PROVE  UpgradeInv'
<1>1. /\ ~Running /\ ~finished /\ ~chain.paused /\ chain' \in AfterCalls(PauseCalls)
      /\ UNCHANGED <<path, files, process, batch, verdict, applied, finished, deployments>>
  BY DEF ExecutePause, SafeActs, ScriptVars
<1>2. chain' = Effect(chain, Range(PauseCalls))
  BY <1>1 DEF AfterCalls
<1>3. chain \in ChainType /\ applied \in Nat /\ finished \in BOOLEAN
  BY DEF UpgradeInv, UpgradeTypeOK
<1>4. Range(PauseCalls) \in SUBSET EveryCall
  BY ListsTyped, RangeTyped DEF EveryCall
<1>. DEFINE after == Effect(chain, Range(PauseCalls))
<1>5. /\ after \in ChainType /\ after.routes = chain.routes /\ after.paused
      /\ after.accountLayer.chunks = chain.accountLayer.chunks
  <2>1. Call("pauseGlobal", "diamond") \in Range(PauseCalls) /\ Call("pauseGlobal", "diamond")[1] = "pauseGlobal"
    BY ListsTyped DEF Call
  <2>. QED  BY <1>3, <1>4, <2>1, EffectFacts
<1>. HIDE DEF after
<1>6. /\ chain' \in ChainType /\ chain'.routes = chain.routes /\ chain'.paused
      /\ chain'.accountLayer.chunks = chain.accountLayer.chunks
  BY <1>2, <1>5 DEF after
<1>7. RoutesOK' /\ BatchOK' /\ UpgradedIsReady' /\ (AccountLayerWhole(chain) => AccountLayerWhole(chain'))
  BY <1>1, <1>6, BatchesStand DEF UpgradeInv, RoutesOK, UpgradedIsReady, AccountLayerWhole
<1>8. finished' \in BOOLEAN /\ applied' \in Nat
  BY <1>1, <1>3
<1>. QED  BY <1>1, <1>6, <1>7, <1>8, SafeKeeps

LEMMA UnpauseKeeps ==
  ASSUME UpgradeInv, Unpause
  PROVE  UpgradeInv'
<1>1. /\ ~Running /\ finished /\ chain' = [chain EXCEPT !.paused = FALSE]
      /\ UNCHANGED <<path, files, process, batch, verdict, applied, finished, deployments>>
  BY DEF Unpause, ScriptVars
<1>2. chain \in ChainType /\ applied \in Nat /\ finished \in BOOLEAN
  BY DEF UpgradeInv, UpgradeTypeOK
<1>3. /\ chain' \in ChainType /\ chain'.routes = chain.routes /\ chain'.facts = chain.facts
      /\ chain'.accountLayer = chain.accountLayer
  BY <1>1, <1>2 DEF ChainType
<1>4. RoutesOK' /\ BatchOK' /\ UpgradedIsReady' /\ (AccountLayerWhole(chain) => AccountLayerWhole(chain'))
  BY <1>1, <1>3, BatchesStand DEF UpgradeInv, RoutesOK, FinishedOK, UpgradedIsReady, AccountLayerWhole
<1>5. finished' \in BOOLEAN /\ applied' \in Nat
  BY <1>1, <1>2
<1>. QED  BY <1>1, <1>3, <1>4, <1>5, SafeKeeps

LEMMA ExecuteChunkKeeps ==
  ASSUME UpgradeInv, "timelock-safe-batch" \notin Skip, ExecuteChunk
  PROVE  UpgradeInv'
<1>. DEFINE chunk == (IF path = "timelock" THEN batch.timelock ELSE batch.cut)[applied + 1]
            deployed == files.facets.deployed
            after == CutRoutes(chain.routes, batch.cut[applied + 1])
<1>1. /\ SafeActs /\ ~Running /\ ~finished /\ chain.paused /\ applied < Len(batch.cut)
      /\ path = "timelock" => DOMAIN batch.timelock = DOMAIN batch.cut
      /\ UNCHANGED <<path, files, process, batch, verdict, finished, deployments>>
  BY DEF ExecuteChunk, CutReady, SafeActs
<1>2. /\ \/ UNCHANGED <<chain, applied>>
         \/ chain' = [chain EXCEPT !.routes = CutRoutes(chain.routes, chunk)] /\ applied' = applied + 1
  BY DEF ExecuteChunk
<1>3. batch.exists /\ applied \in Nat /\ chain \in ChainType /\ batch.cut \in Cuts /\ Len(batch.cut) \in Nat
  BY <1>1, SignedFacts DEF Cuts
<1>4. path = "timelock" => batch.timelock = batch.cut
  <2>1. batch.timelock \in {<<>>, batch.cut}
    BY <1>1, SignedFacts
  <2>2. applied + 1 \in DOMAIN batch.cut
    BY <1>1, <1>3 DEF Cuts
  <2>. QED  BY <1>1, <2>1, <2>2
<1>5. CASE UNCHANGED <<chain, applied>>
  BY <1>1, <1>5, UnchangedKeeps
<1>6. CASE chain' = [chain EXCEPT !.routes = CutRoutes(chain.routes, chunk)] /\ applied' = applied + 1
  <2>1. chain' = [chain EXCEPT !.routes = after]
    BY <1>4, <1>6
  <2>2. after \in Routes /\ Cuttable(after) /\ CutPending(after, batch.cut, applied + 1, deployed)
    <3>1. chain.routes \in Routes /\ Cuttable(chain.routes) /\ DeployedOK(deployed, files.facets.libraries)
      BY <1>3 DEF UpgradeInv, RoutesOK, FacetsFileOK, ChainType
    <3>2. CutPending(chain.routes, batch.cut, applied, deployed)
      BY <1>1, SignedFacts
    <3>. QED  BY <1>1, <1>3, <3>1, <3>2, ChunkApplied
  <2>. HIDE DEF after
  <2>3. /\ chain' \in ChainType /\ chain'.paused = chain.paused /\ chain'.routes = after
        /\ chain'.accountLayer = chain.accountLayer
    BY <1>3, <2>1, <2>2 DEF ChainType
  <2>4. RoutesOK' /\ UpgradedIsReady' /\ (AccountLayerWhole(chain) => AccountLayerWhole(chain'))
    BY <1>1, <2>2, <2>3 DEF RoutesOK, UpgradedIsReady, AccountLayerWhole
  <2>5. BatchOK'
    <3>1. FacetsDeployed' /\ PeripheralsDeployed' /\ files'.peripherals.cutComplete /\ batch'.post = FullPostBatch
      BY <1>1, SignedFacts DEF FacetsDeployed, PeripheralsDeployed
    <3>2. applied' <= Len(batch'.cut) /\ CutPending(chain'.routes, batch'.cut, applied', files'.facets.deployed)
      BY <1>1, <1>3, <1>6, <2>2, <2>3
    <3>3. batch'.timelock \in {<<>>, batch'.cut}
      BY <1>1, SignedFacts
    <3>. QED  BY <3>1, <3>2, <3>3 DEF BatchOK
  <2>6. applied' \in Nat /\ finished' \in BOOLEAN
    BY <1>1, <1>3, <1>6 DEF UpgradeInv, UpgradeTypeOK
  <2>. QED  BY <1>1, <2>3, <2>4, <2>5, <2>6, SafeKeeps
<1>. QED  BY <1>2, <1>5, <1>6

LEMMA ExecutePostKeeps ==
  ASSUME UpgradeInv, "timelock-safe-batch" \notin Skip, ExecutePost
  PROVE  UpgradeInv'
<1>1. /\ SafeActs /\ ~Running /\ ~finished /\ applied = Len(batch.cut)
      /\ UNCHANGED <<path, files, process, batch, verdict, applied, deployments>>
      /\ \/ UNCHANGED <<chain, finished>>
         \/ chain' \in AfterCalls(batch.post) /\ finished' = TRUE
  BY DEF ExecutePost, SafeActs, ScriptVars
<1>2. CASE UNCHANGED <<chain, finished>>
  BY <1>1, <1>2, UnchangedKeeps
<1>3. CASE chain' \in AfterCalls(batch.post) /\ finished' = TRUE
  <2>. DEFINE after == Effect(chain, Range(FullPostBatch))
  <2>1. chain' = after /\ chain \in ChainType /\ AccountLayerWhole(chain)
    BY <1>1, <1>3, SignedFacts DEF AfterCalls
  <2>2. Range(FullPostBatch) \in SUBSET EveryCall
    BY PostBatchCalls, RangeTyped
  <2>3. /\ after \in ChainType /\ after.routes = chain.routes
        /\ Range(FullPostBatch) \cap Recorded \subseteq after.facts
        /\ chain.paused => after.paused
        /\ after.accountLayer.chunks = chain.accountLayer.chunks
        /\ after.accountLayer.owner = "safe"
    <3>1. AcceptOwnership \in Range(FullPostBatch)
      BY PostBatchCalls
    <3>. QED  BY <2>1, <2>2, <3>1, EffectFacts
  <2>. HIDE DEF after
  <2>4. WholeNew(chain.routes)
    <3>1. chain.routes \in Routes /\ DeployedOK(files.facets.deployed, files.facets.libraries)
      BY <2>1 DEF UpgradeInv, FacetsFileOK, ChainType
    <3>2. /\ CutPending(chain.routes, batch.cut, Len(batch.cut), files.facets.deployed)
          /\ DOMAIN files.facets.deployed = Facets
      BY <1>1, SignedFacts DEF FacetsDeployed
    <3>. QED  BY <3>1, <3>2, CutDone
  <2>5. UpgradedIsReady'
    <3>1. /\ Range(ParameterCalls(TRUE)) \subseteq Recorded /\ Range(WiringCalls) \subseteq Recorded
          /\ Range(TemplateCalls) \subseteq Recorded /\ Range(SymbolManagerCalls) \subseteq Recorded
          /\ RegisterPartyBs \in Recorded /\ RunnerCalls[1] \in Recorded /\ RunnerCalls[1] \in Range(RunnerCalls)
      BY ListsTyped, CallFacts, RangeTyped DEF Recorded
    <3>2. /\ Range(ParameterCalls(TRUE)) \subseteq after.facts /\ Range(WiringCalls) \subseteq after.facts
          /\ Range(TemplateCalls) \subseteq after.facts /\ Range(SymbolManagerCalls) \subseteq after.facts
          /\ RegisterPartyBs \in after.facts /\ RunnerCalls[1] \in after.facts
      BY <2>3, <3>1, PostBatchCalls
    <3>3. AccountLayerWhole(after)
      BY <2>1, <2>3 DEF AccountLayerWhole
    <3>. QED  BY <2>1, <2>3, <2>4, <3>2, <3>3, ReadyCalls DEF UpgradedIsReady
  <2>6. RoutesOK' /\ BatchOK' /\ AccountLayerWhole(chain')
    BY <1>1, <1>3, <2>1, <2>3, BatchesStand DEF UpgradeInv, RoutesOK, AccountLayerWhole
  <2>7. applied' \in Nat
    BY <1>1, SignedFacts
  <2>. QED  BY <1>1, <1>3, <2>1, <2>3, <2>5, <2>6, <2>7, SafeKeeps
<1>. QED  BY <1>1, <1>2, <1>3

-----------------------------------------------------------------------------
(* The theorems                                                             *)

LEMMA ScriptStepKeeps ==
  ASSUME UpgradeInv, ScriptStep
  PROVE  UpgradeInv'
<1>1. CASE DeployLibraries
  BY <1>1, DeployLibrariesKeeps
<1>2. CASE DeployFacet
  BY <1>2, DeployFacetKeeps
<1>3. CASE BuildCut
  BY <1>3, BuildCutKeeps
<1>4. CASE ApplyChunk
  BY <1>4, ApplyChunkKeeps
<1>5. CASE DeployAccountLayer
  BY <1>5, DeployAccountLayerKeeps
<1>6. CASE CutAccountLayer
  BY <1>6, CutAccountLayerKeeps
<1>7. CASE TransferOwnership
  BY <1>7, TransferOwnershipKeeps
<1>8. ASSUME NEW step \in CallSteps, MakeCall(step) PROVE UpgradeInv'
  BY <1>8, MakeCallKeeps
<1>9. ASSUME NEW name \in PeripheralSteps, DeployPeripheral(name) PROVE UpgradeInv'
  BY <1>9, DeployPeripheralKeeps
<1>. QED  BY <1>1, <1>2, <1>3, <1>4, <1>5, <1>6, <1>7, <1>8, <1>9 DEF ScriptStep

LEMMA UpgradeStep ==
  ASSUME ~EarlyGenerate, "timelock-safe-batch" \notin Skip, UpgradeInv, [Next]_vars
  PROVE  UpgradeInv'
<1>1. CASE Progress
  <2>1. ASSUME NEW script \in DOMAIN Steps, RunScript(script) PROVE UpgradeInv'
    BY <2>1, RunScriptKeeps
  <2>2. CASE ScriptStep
    BY <2>2, ScriptStepKeeps
  <2>3. CASE StartOver
    BY <2>3, StartOverKeeps
  <2>4. CASE Generate
    BY <2>4, GenerateKeeps
  <2>5. CASE GenerateTimelock
    BY <2>5, GenerateTimelockKeeps
  <2>6. CASE Verify
    BY <2>6, VerifyKeeps
  <2>7. CASE ExecutePause
    BY <2>7, ExecutePauseKeeps
  <2>8. ASSUME NEW i \in DOMAIN batch.timelock, ScheduleChunk(i) PROVE UpgradeInv'
    BY <2>8, UnchangedKeeps DEF ScheduleChunk, SafeActs
  <2>9. CASE ExecuteChunk
    BY <2>9, ExecuteChunkKeeps
  <2>10. CASE ExecutePost
    BY <2>10, ExecutePostKeeps
  <2>. QED  BY <1>1, <2>1, <2>2, <2>3, <2>4, <2>5, <2>6, <2>7, <2>8, <2>9, <2>10 DEF Progress
<1>2. CASE Kill
  BY <1>2, KillKeeps
<1>3. CASE TornSave
  BY <1>3, TornSaveKeeps
<1>4. CASE SecondThoughts
  BY <1>4, SecondThoughtsKeeps
<1>5. CASE Unpause
  BY <1>5, UnpauseKeeps
<1>6. CASE UNCHANGED vars
  <2>1. /\ UNCHANGED <<path, chain, files, process, batch, verdict, applied, finished, deployments>>
    BY <1>6 DEF vars
  <2>2. CASE ~Running
    BY <2>1, <2>2, UnchangedKeeps
  <2>3. CASE Running
    <3>1. \A name : At(name)' <=> At(name)
      BY <2>1 DEF At, Running
    <3>2. UpgradeTypeOK' /\ FacetsFileOK' /\ AccountLayerOK' /\ RoutesOK'
      BY <2>1, <3>1 DEF UpgradeInv, UpgradeTypeOK, FacetsFileOK, AccountLayerOK, RoutesOK, AccountLayerWhole
    <3>3. TurnsOK' /\ BatchOK' /\ FinishedOK'
      BY <2>1 DEF UpgradeInv, TurnsOK, BatchOK, FinishedOK, UpgradedIsReady, AccountLayerWhole, Running, FacetsDeployed,
                  PeripheralsDeployed
    <3>4. ScriptOK'
      BY <2>1, <3>1 DEF UpgradeInv, ScriptOK, FacetsDeployed, AccountLayerWhole, Made
    <3>. QED  BY <3>2, <3>3, <3>4 DEF UpgradeInv
  <2>. QED  BY <2>2, <2>3
<1>. QED  BY <1>1, <1>2, <1>3, <1>4, <1>5, <1>6 DEF Next

\* When batches are generated only from a deployment that is complete, and the
\* timelock's are not left out of the verification: the files name only new facets
\* linked to one set of libraries, what is left of a cut is what the diamond still
\* needs, and every step a script has behind it still stands.
THEOREM UpgradeInvariant ==
  ASSUME ~EarlyGenerate, "timelock-safe-batch" \notin Skip
  PROVE  Spec => []UpgradeInv
<1>1. Init => UpgradeInv
  BY UpgradeStarts
<1>2. UpgradeInv /\ [Next]_vars => UpgradeInv'
  BY UpgradeStep
<1>. QED  BY <1>1, <1>2, PTL DEF Spec

\* However often the upgrade is killed, its files are torn, its batches generated
\* again or its facets deployed anew, with any facets, selectors and chunks, the
\* diamond trades with v0.8.4 as it was or with v0.8.5 whole, never a mixture.
THEOREM NeverAMixture ==
  ASSUME ~EarlyGenerate, "timelock-safe-batch" \notin Skip
  PROVE  Spec => []UnpausedIsWhole
<1>1. UpgradeInv => UnpausedIsWhole
  BY DEF UpgradeInv, RoutesOK, FinishedOK, UpgradedIsReady, UnpausedIsWhole
<1>. QED  BY <1>1, UpgradeInvariant, PTL

\* Whichever path was taken and whatever went wrong on it, an upgrade that went
\* through left all of v0.8.5, every parameter, all the wiring, and on the Safe's
\* paths an AccountLayer that belongs to the Safe.
THEOREM NothingLeftUndone ==
  ASSUME ~EarlyGenerate, "timelock-safe-batch" \notin Skip
  PROVE  Spec => []UpgradedIsReady
<1>1. UpgradeInv => UpgradedIsReady
  BY DEF UpgradeInv, FinishedOK
<1>. QED  BY <1>1, UpgradeInvariant, PTL
=============================================================================
