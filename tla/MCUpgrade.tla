----------------------------- MODULE MCUpgrade -----------------------------
(***************************************************************************)
(* Two facets of v0.8.5 over two of v0.8.4: selectors that stay, one that  *)
(* goes and two that come, so that a cut has every action and two chunks.  *)
(***************************************************************************)
EXTENDS Upgrade

MCFacetNames == <<"Control", "PartyA">>
MCNewSelectors == [Control |-> {"grantRole", "setParameter"}, PartyA |-> {"sendQuote", "sendQuoteBatch"}]
MCOldSelectors == [Control |-> {"grantRole"}, PartyA |-> {"sendQuote", "legacy"}]
=============================================================================
