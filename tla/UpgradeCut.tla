----------------------------- MODULE UpgradeCut -----------------------------
(***************************************************************************)
(* The diamond cut of the v0.8.4 -> v0.8.5 upgrade: how it is built from   *)
(* the diamond's loupe and the file of deployed facets, how it is split    *)
(* into transactions, and what the diamond does with one.                  *)
(*                                                                         *)
(* A facet contract is a record of the facet's name, the build it came out *)
(* of (0 is v0.8.4) and the libraries it is linked to.                     *)
(***************************************************************************)
EXTENDS Integers, Sequences, FiniteSets, SequencesExt, FiniteSetsExt

CONSTANTS
  FacetNames,       \* the facets of v0.8.5, in the order they are deployed
  NewSelectors,     \* the selectors each of them declares
  OldSelectors,     \* the selectors each facet of v0.8.4 declares
  ChunkSize         \* cuts per diamondCut transaction (6 in the scripts)

ASSUME UpgradeCutAssumption ==
  /\ ChunkSize \in Nat \ {0}
  /\ FacetNames \in Seq(STRING) /\ FacetNames # <<>>
  /\ DOMAIN NewSelectors = Range(FacetNames)
  /\ \A f \in DOMAIN NewSelectors : NewSelectors[f] # {}
  /\ \A f, g \in DOMAIN NewSelectors : f # g => NewSelectors[f] \cap NewSelectors[g] = {}

Facets == Range(FacetNames)
DiamondCutSelector == "diamondCut"
IgnoreRemoveSelectors == {DiamondCutSelector}

AllNew == UNION Range(NewSelectors)
Selectors == AllNew \cup (UNION Range(OldSelectors)) \cup {DiamondCutSelector}

NoFacet == [name |-> "none", build |-> 0, libraries |-> 0]
Facet(f, build, libraries) == [name |-> f, build |-> build, libraries |-> libraries]

\* The diamond as v0.8.4 left it; its cut facet is not one of FacetNames.
OldRoutes ==
  [s \in Selectors |->
    IF s = DiamondCutSelector THEN Facet("DiamondCutFacet", 0, 0)
    ELSE IF \E f \in DOMAIN OldSelectors : s \in OldSelectors[f]
         THEN Facet(CHOOSE f \in DOMAIN OldSelectors : s \in OldSelectors[f], 0, 0)
         ELSE NoFacet]

Live(routes) == { s \in Selectors : routes[s] # NoFacet }

-----------------------------------------------------------------------------
(* Building the cut.  "deployed" maps the facets the file names.            *)

Target(deployed, s) ==
  IF \E f \in DOMAIN deployed : s \in NewSelectors[f]
  THEN deployed[CHOOSE f \in DOMAIN deployed : s \in NewSelectors[f]]
  ELSE NoFacet

Change(action, facet, selectors) == [action |-> action, facet |-> facet, selectors |-> selectors]

\* One change per facet and action.
Grouped(action, deployed, selectors) ==
  { Change(action, f, { s \in selectors : Target(deployed, s) = f }) : f \in { Target(deployed, s) : s \in selectors } }

\* A selector the diamond knows is replaced, whatever facet serves it now; one
\* that no deployed facet declares is removed.
Replacements(routes, deployed) ==
  Grouped("Replace", deployed, { s \in Live(routes) : Target(deployed, s) # NoFacet })
Removals(routes, deployed) ==
  LET gone == { s \in Live(routes) \ IgnoreRemoveSelectors : Target(deployed, s) = NoFacet }
  IN  IF gone = {} THEN {} ELSE {Change("Remove", NoFacet, gone)}
Additions(routes, deployed) ==
  Grouped("Add", deployed, { s \in AllNew \ Live(routes) : Target(deployed, s) # NoFacet })

\* A plausible slip: the removals are left out.
Mutant_BuildDiamondCut_NoRemovals(routes, deployed) ==
  SetToSeq(Replacements(routes, deployed)) \o SetToSeq(Additions(routes, deployed))

BuildDiamondCut(routes, deployed) ==
  SetToSeq(Replacements(routes, deployed) \cup Removals(routes, deployed))
    \o SetToSeq(Additions(routes, deployed))

InChunks(cut, size) ==
  LET count == (Len(cut) + size - 1) \div size
  IN  [i \in 1..count |-> SubSeq(cut, (i - 1) * size + 1, IF i * size < Len(cut) THEN i * size ELSE Len(cut))]

-----------------------------------------------------------------------------
(* LibDiamond                                                               *)

ChangeReverts(routes, change) ==
  \/ change.action = "Add" /\ \E s \in change.selectors : routes[s] # NoFacet
  \/ change.action = "Replace" /\ \E s \in change.selectors : routes[s] \in {NoFacet, change.facet}
  \/ change.action = "Remove" /\ \E s \in change.selectors : routes[s] = NoFacet

\* The changes of one transaction name different selectors, as those of a
\* built cut do, so that their order does not matter.
CutReverts(routes, chunk) == \E i \in DOMAIN chunk : ChangeReverts(routes, chunk[i])

CutRoutes(routes, chunk) ==
  [s \in Selectors |->
    IF \E i \in DOMAIN chunk : s \in chunk[i].selectors
    THEN chunk[CHOOSE i \in DOMAIN chunk : s \in chunk[i].selectors].facet
    ELSE routes[s]]

-----------------------------------------------------------------------------
(* The checks made after the cut                                            *)

\* verifyDiamond.ts: exactly the compiled selectors, at whatever address.
VerifyAgainstArtifacts(routes) == Live(routes) = AllNew \cup {DiamondCutSelector}

\* runPostCutVerification: exactly the selectors of the deployed facets, at
\* their addresses.
VerifyPostCut(routes, deployed) ==
  /\ \A s \in AllNew : routes[s] = Target(deployed, s)
  /\ Live(routes) \subseteq { s \in Selectors : Target(deployed, s) # NoFacet } \cup {DiamondCutSelector}

\* All of v0.8.5: one facet contract per name, all linked to the same libraries.
WholeNew(routes) ==
  /\ VerifyAgainstArtifacts(routes)
  /\ \A f \in Facets : Cardinality({ routes[s] : s \in NewSelectors[f] }) = 1
  /\ \A s \in AllNew : routes[s].build > 0
  /\ Cardinality({ routes[s].libraries : s \in AllNew }) = 1
=============================================================================
