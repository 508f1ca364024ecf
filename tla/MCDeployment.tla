---------------------------- MODULE MCDeployment ----------------------------
(* A small system: fewer core facets, roles and parameters than the real     *)
(* lists.  As with the real ones, the loupe comes with the second of the     *)
(* core's chunks, the views with a later one, other facets with the last;    *)
(* the account layer has its seven facets, in chunks of three.               *)
EXTENDS DeploymentCheck

McCoreFacets == <<"AccountFacet", "MigrationFacet", "ControlFacet", "DiamondLoupeFacet",
                  "PartyAFacet", "ViewFacet", "WithdrawFacet">>
McAccountFacets == <<"ALCoreFacet", "ALMarginFacet", "ALSymmioHookFacet",
                     "ALControlFacet", "ALViewFacet", "ALAffiliateFacet", "ALDiamondLoupeFacet">>
McCoreLibraries == << [name |-> "LibQuoteFunding", links |-> ""],
                      [name |-> "LibQuoteClose", links |-> "LibQuoteFunding"] >>
McFacetLibraries ==
  [f \in ToSet(McCoreFacets) \cup ToSet(McAccountFacets) |->
     CASE f = "PartyAFacet" -> {"LibQuoteClose"} [] f = "ALCoreFacet" -> {"LibQuoteParams"} [] OTHER -> {}]
McDiamondRoles == <<"PARTY_B_MANAGER_ROLE", "MUON_SETTER_ROLE", "INTEGRATION_ADMIN_ROLE",
                    "PROTOCOL_CONFIG_ROLE", "COOLDOWN_ADMIN_ROLE">>
McParameters == << [name |-> "maxWithdrawParts", role |-> "PROTOCOL_CONFIG_ROLE"],
                   [name |-> "deallocateCooldown", role |-> "COOLDOWN_ADMIN_ROLE"] >>

Whole ==
  [admin |-> "deployer", existingCollateral |-> FALSE, verifier |-> "real", verifierAdmin |-> FALSE,
   deployPartyB |-> TRUE, adl |-> TRUE, partyBSigner |-> TRUE, deploySymbolManager |-> TRUE, operator |-> TRUE,
   templates |-> TRUE, affiliate |-> TRUE, hyperEVM |-> TRUE, create2 |-> FALSE, muonApp |-> TRUE,
   muonKey |-> "both", gatewaySigners |-> <<"gateway">>]
Bare ==
  [Whole EXCEPT !.existingCollateral = TRUE, !.verifier = "mock", !.deployPartyB = FALSE, !.deploySymbolManager = FALSE,
     !.templates = FALSE, !.affiliate = FALSE, !.hyperEVM = FALSE, !.create2 = TRUE, !.muonApp = FALSE,
     !.muonKey = "none", !.gatewaySigners = <<>>]
SeparateAdmin ==
  [Bare EXCEPT !.admin = "admin", !.verifier = "existing", !.muonKey = "partial"]
McConfigs == {Whole, Bare, SeparateAdmin}
=============================================================================
