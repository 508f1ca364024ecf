----------------------------- MODULE Deployment -----------------------------
(***************************************************************************)
(* The deploy:system task: one process walks a fixed plan of steps, sends  *)
(* transactions to the chain and records what it did in a checkpoint file, *)
(* from which a later run of the same command continues.                   *)
(*                                                                         *)
(* Deployments and diamond cuts are awaited until they are mined.  Calls   *)
(* that configure the contracts are not: the step is marked when the node  *)
(* has accepted the transaction.  The process may be killed at any point,  *)
(* also in the middle of a write of the checkpoint file.                   *)
(***************************************************************************)
EXTENDS Naturals, Sequences, FiniteSets, SequencesExt

CONSTANTS
  Configs,           \* the environments a deployment may run in
  CoreFacets,        \* facets of the core diamond, in cut order
  CoreChunk,         \* facets per diamondCut transaction (6 in the code)
  CoreLibraries,     \* external libraries, each with the one it links
  AccountFacets,     \* facets of the account layer diamond, in cut order
  AccountChunk,      \* (3 in the code)
  FacetLibraries,    \* which libraries a facet links
  DiamondRoles,      \* roles granted to the admin on the core diamond
  Parameters,        \* parameter setters with the role each requires
  MaxInterrupts,     \* kills, torn writes, fresh starts, API failures
  MaxPending         \* transactions sent and not yet mined

ASSUME DeploymentAssumption ==
  /\ CoreChunk \in Nat \ {0} /\ AccountChunk \in Nat \ {0}
  /\ MaxInterrupts \in Nat /\ MaxPending \in Nat \ {0}

VARIABLES
  config,       \* the environment of this deployment
  chain,        \* mined state: contract instances and facts about them
  mempool,      \* transactions of the deployer accepted and not yet mined
  checkpoint,   \* the checkpoint, in memory and on disk
  process,      \* the running command
  logs,         \* address files read by verify:all
  bigBlocks,    \* HyperEVM: the deployer's transactions go to big blocks
  interrupts    \* faults so far

vars == <<config, chain, mempool, checkpoint, process, logs, bigBlocks, interrupts>>

-----------------------------------------------------------------------------
(* Names, addresses, facts *)

Libraries == { CoreLibraries[i].name : i \in DOMAIN CoreLibraries }
FixedContracts ==
  {"collateral", "diamondCutFacet", "diamond", "init", "signatureVerifier",
   "alCutFacet", "accountLayer", "alInit", "LibQuoteParams", "instantLayer",
   "partyBImplementation", "symmioPartyB", "symbolManager", "accountManager"}
Contracts == FixedContracts \cup Libraries \cup ToSet(CoreFacets) \cup ToSet(AccountFacets)

\* What calls name beside contracts.
Accounts == {"", "deployer", "muonApp", "muonKey", "operator", "signer", "template", "validity", "value"}

\* Every contract has a name of its own; a library is deployed after the one it
\* links, a facet after the libraries it links.
ASSUME NamesAssumption ==
  /\ CoreFacets \in Seq(STRING) /\ IsInjective(CoreFacets)
  /\ AccountFacets \in Seq(STRING) /\ IsInjective(AccountFacets)
  /\ CoreLibraries \in Seq([name : STRING, links : STRING])
  /\ \A i, j \in DOMAIN CoreLibraries : CoreLibraries[i].name = CoreLibraries[j].name => i = j
  /\ ToSet(CoreFacets) \cap ToSet(AccountFacets) = {}
  /\ Libraries \cap (ToSet(CoreFacets) \cup ToSet(AccountFacets)) = {}
  /\ (FixedContracts \cup Accounts) \cap (Libraries \cup ToSet(CoreFacets) \cup ToSet(AccountFacets)) = {}
  /\ \A i \in DOMAIN CoreLibraries : \/ CoreLibraries[i].links = ""
                                    \/ \E j \in 1..(i - 1) : CoreLibraries[i].links = CoreLibraries[j].name
  /\ \A f \in ToSet(CoreFacets) : FacetLibraries[f] \subseteq Libraries
  /\ \A f \in ToSet(AccountFacets) : FacetLibraries[f] \subseteq Libraries \cup {"LibQuoteParams"}
  /\ DiamondRoles \in Seq(STRING) /\ Parameters \in Seq([name : STRING, role : STRING])

\* The environment: who administers, what exists, what is deployed and set up.
Configurations ==
  [admin : STRING \ Contracts, existingCollateral : BOOLEAN,
   verifier : {"existing", "mock", "real"}, verifierAdmin : BOOLEAN,
   deployPartyB : BOOLEAN, adl : BOOLEAN, partyBSigner : BOOLEAN,
   deploySymbolManager : BOOLEAN, operator : BOOLEAN, templates : BOOLEAN, affiliate : BOOLEAN,
   hyperEVM : BOOLEAN, create2 : BOOLEAN, muonApp : BOOLEAN, muonKey : {"none", "partial", "both"},
   gatewaySigners : Seq(STRING \ Contracts)]
ASSUME ConfigsAssumption == Configs \subseteq Configurations

LogFiles == {"stablecoin", "deployed", "accountlayer", "instantlayer", "partyb", "symbolmanager"}

\* An address is a name and an instance number: 0 for accounts and constants.
At(name, n) == <<name, n>>
Nobody == At("", 0)
Deployer == At("deployer", 0)

\* A fact <<contract, predicate, what, who>> is true of the mined state.
Fact(to, predicate, what, who) == <<to, predicate, what, who>>
HasRole(facts, to, role, who) == Fact(to, "role", role, who) \in facts
FacetsOf(facts, to) == { f[3] : f \in { g \in facts : g[1] = to /\ g[2] = "facet" } }
Count(facts, to, predicate) ==
  Cardinality({ f \in facts : f[1] = to /\ f[2] = predicate })

-----------------------------------------------------------------------------
(* What the contracts do with the deployer's transactions *)

\* The role a setter of the core diamond, of the instant layer, of the partyB
\* contract or of the verifier requires of its caller.
SetterRole(fn, what) ==
  CASE fn = "registerHook" -> "INTEGRATION_ADMIN_ROLE"
    [] fn \in {"setMuonIds", "setMuonConfig"} -> "MUON_SETTER_ROLE"
    [] fn \in {"setCollateral", "setSignatureVerifierAddress", "grantRole"} -> "DEFAULT_ADMIN_ROLE"
    [] fn \in {"registerPartyB", "setADLEnabled"} -> "PARTY_B_MANAGER_ROLE"
    [] fn = "setParameter" -> (CHOOSE p \in ToSet(Parameters) : p.name = what).role
    [] fn = "setMulticastWhitelist" -> "MANAGER_ROLE"
    [] fn = "approveAffiliate" -> "APPROVER_ROLE"
    [] OTHER -> "SETTER_ROLE"

\* A diamond answers a call only when the facet that holds the function was cut.
Served(facts, to, fn) ==
  CASE to[1] = "diamond" -> "ControlFacet" \in FacetsOf(facts, to)
    [] to[1] = "accountLayer" ->
         IF fn \in {"requestToRegisterAffiliate", "approveAffiliate"}
         THEN "ALAffiliateFacet" \in FacetsOf(facts, to)
         ELSE "ALControlFacet" \in FacetsOf(facts, to)
    [] OTHER -> TRUE

\* A call of the deployer does not revert.
AcceptsCall(facts, to, fn, what, who) ==
  /\ Served(facts, to, fn)
  /\ CASE fn \in {"setAdmin", "transferOwnership"} -> Fact(to, "owner", "", Deployer) \in facts
       [] fn = "acceptOwnership" -> Fact(to, "pendingOwner", "", Deployer) \in facts
       [] fn = "requestToRegisterAffiliate" -> Fact(to, "setWhitelistedSymmioCore", "", who) \in facts
       [] OTHER -> HasRole(facts, to, SetterRole(fn, what), Deployer)
  /\ fn = "registerPartyB" => Fact(to, "registerPartyB", "", who) \notin facts
  /\ fn = "registerPartyBs" => Fact(to, "registerPartyBs", "", who) \notin facts
  /\ fn = "approveAffiliate" => Fact(to, "affiliate", "PENDING", who) \in facts
  /\ fn = "setTemplateInstantOpenMode" => \E f \in facts : f[1] = to /\ f[2] = "template" /\ f[4] = who

\* What an accepted call leaves.  Setters are called with one value each for
\* one instance, so the last value is the only one.
CallEffect(facts, to, fn, what, who) ==
  CASE fn = "setAdmin" -> facts \cup {Fact(to, "role", "DEFAULT_ADMIN_ROLE", who)}
    [] fn = "grantRole" -> facts \cup {Fact(to, "role", what, who)}
    [] fn = "transferOwnership" ->
         { f \in facts : ~(f[1] = to /\ f[2] = "pendingOwner") } \cup {Fact(to, "pendingOwner", "", who)}
    [] fn = "acceptOwnership" ->
         { f \in facts : ~(f[1] = to /\ f[2] \in {"owner", "pendingOwner"}) }
           \cup {Fact(to, "owner", "", Deployer)}
    [] fn = "addTemplate" ->
         facts \cup {Fact(to, "template", what, At("template", Count(facts, to, "template")))}
    [] fn = "registerPartyBs" ->
         facts \cup {Fact(to, fn, "", who), Fact(to, "role", "OPERATOR_ROLE", who)}
    [] fn = "requestToRegisterAffiliate" ->
         facts \cup {Fact(to, "affiliate", "PENDING", At("accountManager", Count(facts, to, "affiliate") + 1))}
    [] fn = "approveAffiliate" ->
         (facts \ {Fact(to, "affiliate", "PENDING", who)}) \cup {Fact(to, "affiliate", "ACTIVE", who)}
    [] OTHER -> facts \cup {Fact(to, fn, what, who)}

\* A constructor grants its admin roles and keeps the addresses it is given.
ConstructorFacts(name, self, admin) ==
  CASE name \in {"diamond", "accountLayer"} -> {Fact(self, "owner", "", Deployer)}
    [] name = "signatureVerifier" ->
         { Fact(self, "role", r, Deployer) : r \in {"DEFAULT_ADMIN_ROLE", "SETTER_ROLE"} }
    [] name = "instantLayer" ->
         { Fact(self, "role", r, Deployer) : r \in {"DEFAULT_ADMIN_ROLE", "SETTER_ROLE", "OPERATOR_ROLE"} }
    [] name = "symmioPartyB" ->
         { Fact(self, "role", r, Deployer) : r \in {"DEFAULT_ADMIN_ROLE", "TRUSTED_ROLE", "MANAGER_ROLE"} }
    [] name = "symbolManager" -> {Fact(self, "role", "DEFAULT_ADMIN_ROLE", admin)}
    [] OTHER -> {}

\* Init of the account layer, run by the first cut.
InitFacts(to) ==
  IF to[1] = "accountLayer"
  THEN { Fact(to, "role", r, Deployer) : r \in
           {"DEFAULT_ADMIN_ROLE", "SETTER_ROLE", "PAUSER_ROLE", "UNPAUSER_ROLE", "APPROVER_ROLE"} }
  ELSE {}

\* Mined effect of a transaction; a revert changes nothing.
Accepts(state, tx) ==
  CASE tx.kind = "deploy" -> TRUE
    [] tx.kind = "cut" -> { f[1] : f \in tx.facets } \cap FacetsOf(state.facts, tx.to) = {}
    [] tx.kind = "call" -> AcceptsCall(state.facts, tx.to, tx.fn, tx.what, tx.who)

Apply(state, tx) ==
  IF ~Accepts(state, tx) THEN state
  ELSE CASE tx.kind = "deploy" ->
              LET self == At(tx.name, state.count[tx.name] + 1)
              IN [count |-> [state.count EXCEPT ![tx.name] = @ + 1],
                  facts |-> state.facts
                    \cup { Fact(self, "links", r[1], r) : r \in tx.links }
                    \cup ConstructorFacts(tx.name, self, tx.admin)]
         [] tx.kind = "cut" ->
              [state EXCEPT !.facts = @ \cup { Fact(tx.to, "facet", f[1], f) : f \in tx.facets }
                                        \cup (IF tx.init THEN InitFacts(tx.to) ELSE {})]
         [] tx.kind = "call" ->
              [state EXCEPT !.facts = CallEffect(@, tx.to, tx.fn, tx.what, tx.who)]

\* The state after some transactions, and once everything sent has been mined.
Replay(state, txs) ==
  LET after[i \in 0..Len(txs)] == IF i = 0 THEN state ELSE Apply(after[i - 1], txs[i])
  IN  after[Len(txs)]
Settled == Replay(chain, mempool)

-----------------------------------------------------------------------------
(* The plan: the steps of one environment, in order *)

\* A contract deployed, awaited and recorded under "guard", then written to a
\* log file.
Deploy(name, links, log) ==
  [kind |-> "deploy", name |-> name, guard |-> name, links |-> links, log |-> log]
RecordExisting(name) == [kind |-> "record", guard |-> name]
Cut(diamond, facets, chunk) == [kind |-> "cut", diamond |-> diamond, facets |-> facets, chunk |-> chunk]
WriteLog(file, names) == [kind |-> "write", file |-> file, names |-> names]
BigBlocksOff == [kind |-> "bigBlocksOff"]
Setup(key, calls, flag) ==
  [kind |-> "calls", key |-> <<key, "">>, calls |-> calls, ensure |-> FALSE, flag |-> flag]
Flag(flag) == [kind |-> "flag", flag |-> flag]
Call(to, fn, what, who) == [to |-> to, fn |-> fn, what |-> what, who |-> who]
Grant(to, role, who) == Call(to, "grantRole", role, who)
Each(seq, Op(_)) == [i \in DOMAIN seq |-> Op(seq[i])]
Only(condition, steps) == IF condition THEN steps ELSE <<>>

\* One item of a batch, marked on its own.
Item(batch, item, call, ensure) ==
  [kind |-> "calls", key |-> <<batch, item>>, calls |-> <<call>>, ensure |-> ensure, flag |-> "systemRoles"]
System(key, calls) == Setup(key, calls, "systemRoles")
System1(key, call) == System(key, <<call>>)

CollateralSection(c) ==
  IF c.existingCollateral THEN << RecordExisting("collateral") >>
  ELSE << Deploy("collateral", {}, "stablecoin") >>

LinkOf(lib) == IF lib.links = "" THEN {} ELSE {lib.links}

DiamondSection ==
  << Deploy("diamondCutFacet", {}, ""), Deploy("diamond", {"diamondCutFacet"}, ""), Deploy("init", {}, "") >>
  \o Each(CoreLibraries, LAMBDA l : Deploy(l.name, LinkOf(l), ""))
  \o Each(CoreFacets, LAMBDA f : Deploy(f, FacetLibraries[f], ""))
  \o << Cut("diamond", CoreFacets, CoreChunk),
        WriteLog("deployed", {"diamondCutFacet", "diamond", "init"} \cup Libraries \cup ToSet(CoreFacets)) >>

\* The mock verifier is written to no log.
VerifierSection(c) ==
  CASE c.verifier = "existing" -> << RecordExisting("signatureVerifier") >>
    [] c.verifier = "mock" -> << Deploy("signatureVerifier", {}, "") >>
    [] c.verifier = "real" -> << Deploy("signatureVerifier", {}, "deployed") >>

AccountLayerSection ==
  << Deploy("alCutFacet", {}, ""), Deploy("accountLayer", {"alCutFacet"}, ""),
     Deploy("alInit", {}, ""), Deploy("LibQuoteParams", {}, "") >>
  \o Each(AccountFacets, LAMBDA f : Deploy(f, FacetLibraries[f], ""))
  \o << Cut("accountLayer", AccountFacets, AccountChunk),
        WriteLog("accountlayer",
                 {"alCutFacet", "accountLayer", "alInit", "LibQuoteParams"} \cup ToSet(AccountFacets)) >>

InstantLayerSection == << Deploy("instantLayer", {"diamond"}, "instantlayer") >>

\* An implementation, then a proxy that points to it; only the proxy is
\* recorded, so a restart in between deploys another implementation.
PartyBSection ==
  << [Deploy("partyBImplementation", {}, "") EXCEPT !.guard = "symmioPartyB"],
     Deploy("symmioPartyB", {"partyBImplementation", "diamond"}, "partyb") >>

SymbolManagerSection == << Deploy("symbolManager", {"diamond"}, "symbolmanager") >>

CoreRoles(c) ==
  << System1("setDeployerAdmin", Call("diamond", "setAdmin", "", "deployer")),
     System1("setAdmin", Call("diamond", "setAdmin", "", c.admin)) >>
  \o Each(DiamondRoles, LAMBDA r : Item("diamondRoles", r, Grant("diamond", r, c.admin), FALSE))
  \o << System("alRolesOnDiamond",
               << Grant("diamond", "SIGNER_ADMIN_ROLE", "accountLayer"),
                  Grant("diamond", "AFFILIATE_MANAGER_ROLE", "accountLayer"),
                  Grant("diamond", "BALANCE_SETTLER_ROLE", "accountLayer") >>),
        System1("registerHook", Call("diamond", "registerHook", "", "accountLayer")),
        System1("ilRoleOnDiamond", Grant("diamond", "INSTANT_LAYER_ROLE", "instantLayer")) >>

AccountLayerRoles(c) ==
  << System1("alDefaultAdmin", Grant("accountLayer", "DEFAULT_ADMIN_ROLE", c.admin)),
     System("alAdminRoles",
            << Grant("accountLayer", "SETTER_ROLE", c.admin), Grant("accountLayer", "APPROVER_ROLE", c.admin),
               Grant("accountLayer", "PAUSER_ROLE", c.admin), Grant("accountLayer", "UNPAUSER_ROLE", c.admin) >>),
     System1("ilRoleOnAL", Grant("accountLayer", "SIGNER_SETTER_ROLE", "instantLayer")),
     System1("alWhitelistSymmio", Call("accountLayer", "setWhitelistedSymmioCore", "", "diamond")),
     System1("ilSetAccountLayer", Call("instantLayer", "setAccountLayer", "", "accountLayer")) >>

\* The deployer administers the verifier it deployed; an existing one, only if
\* it was given the roles there.
AdministersVerifier(c) == c.verifier = "real" \/ (c.verifier = "existing" /\ c.verifierAdmin)

Require(ok) == [kind |-> "require", ok |-> ok, flag |-> "systemRoles"]

VerifierSetup(c) ==
  LET set == << System1("setSignatureVerifier",
                        Call("diamond", "setSignatureVerifierAddress", "", "signatureVerifier")) >>
  IN IF c.verifier = "mock" THEN set
     ELSE Only(AdministersVerifier(c),
               << System1("msvDefaultAdmin", Grant("signatureVerifier", "DEFAULT_ADMIN_ROLE", c.admin)),
                  System1("msvSetterRole", Grant("signatureVerifier", "SETTER_ROLE", c.admin)) >>)
          \o set
          \o Only(c.muonKey # "none", << Require(AdministersVerifier(c)) >>)
          \o Only(c.muonKey = "both",
                  << Item("msvPublicKey", "", Call("signatureVerifier", "addPublicKey", "", "muonKey"), TRUE) >>)
          \o Only(c.gatewaySigners # <<>>, << Require(AdministersVerifier(c)) >>)
          \o Each(c.gatewaySigners, LAMBDA g :
                    Item("msvGatewaySigners", g, Call("signatureVerifier", "addGatewaySigner", g, g), TRUE))

\* A mutant: the views are checked before what they read is set.
Mutant_MuonRuntime_ViewsFirst(c) ==
  Only(c.admin # "deployer",
       << System1("muonSetterOnDeployer", Grant("diamond", "MUON_SETTER_ROLE", "deployer")) >>)
  \o Only(c.muonApp, << System1("setMuonIds", Call("diamond", "setMuonIds", "", "muonApp")) >>)
  \o << [kind |-> "views", key |-> <<"verifyMuonViews", "">>, flag |-> "systemRoles"],
        System1("setMuonConfig", Call("diamond", "setMuonConfig", "", "validity")) >>

MuonRuntime(c) ==
  Only(c.admin # "deployer",
       << System1("muonSetterOnDeployer", Grant("diamond", "MUON_SETTER_ROLE", "deployer")) >>)
  \o Only(c.muonApp, << System1("setMuonIds", Call("diamond", "setMuonIds", "", "muonApp")) >>)
  \o << System1("setMuonConfig", Call("diamond", "setMuonConfig", "", "validity")),
        [kind |-> "views", key |-> <<"verifyMuonViews", "">>, flag |-> "systemRoles"] >>

ParameterSteps ==
  << System1("setCollateral", Call("diamond", "setCollateral", "", "collateral")) >>
  \o Each(Parameters, LAMBDA p : Item("parameter", p.name, Call("diamond", "setParameter", p.name, "value"), FALSE))

\* A mutant: the account layer is not whitelisted.
Mutant_InstantLayerSetup_NoAccountLayer(c) ==
  << System1("ilDefaultAdmin", Grant("instantLayer", "DEFAULT_ADMIN_ROLE", c.admin)),
     System1("ilGrantSetterRole", Grant("instantLayer", "SETTER_ROLE", c.admin)),
     System1("ilWhitelistDiamond", Call("instantLayer", "setTargetWhitelist", "diamond", "diamond")) >>

InstantLayerSetup(c) ==
  << System1("ilDefaultAdmin", Grant("instantLayer", "DEFAULT_ADMIN_ROLE", c.admin)),
     System1("ilGrantSetterRole", Grant("instantLayer", "SETTER_ROLE", c.admin)),
     System1("ilWhitelistDiamond", Call("instantLayer", "setTargetWhitelist", "diamond", "diamond")),
     System1("ilWhitelistAL", Call("instantLayer", "setTargetWhitelist", "accountLayer", "accountLayer")) >>

PartyBSetup(c) ==
  << System1("registerPartyB", Call("diamond", "registerPartyB", "", "symmioPartyB")) >>
  \o Only(c.adl, << System1("setAdlEnabled", Call("diamond", "setADLEnabled", "", "symmioPartyB")) >>)
  \o << System1("pbDefaultAdmin", Grant("symmioPartyB", "DEFAULT_ADMIN_ROLE", c.admin)),
        System1("pbTrustedRole", Grant("symmioPartyB", "TRUSTED_ROLE", "instantLayer")),
        System1("pbManagerRole", Grant("symmioPartyB", "MANAGER_ROLE", c.admin)),
        System1("pbSetterRole", Grant("symmioPartyB", "SETTER_ROLE", c.admin)),
        System1("pbMulticastWhitelist", Call("symmioPartyB", "setMulticastWhitelist", "", "instantLayer")) >>
  \o Only(c.partyBSigner, << System1("pbSetSigner", Call("symmioPartyB", "setSigner", "", "signer")) >>)
  \o << System1("ilRegisterPartyB", Call("instantLayer", "registerPartyBs", "", "symmioPartyB")) >>

SymbolManagerSetup(c) ==
  << System1("smGrantSymbolManagerRole", Grant("diamond", "SYMBOL_MANAGER_ROLE", "symbolManager")),
     System1("smGrantForceCloseGapRatioRole",
             Grant("diamond", "FORCE_CLOSE_GAP_RATIO_ADMIN_ROLE", "symbolManager")) >>
  \o Only(c.operator,
          << System1("smGrantAdderRole", Grant("symbolManager", "SYMBOL_ADDER_ROLE", "operator")),
             System1("smGrantRemoverRole", Grant("symbolManager", "SYMBOL_REMOVER_ROLE", "operator")) >>)

\* A mutant: the mode is set on the first template added, another one.
Mutant_TemplateSection_CloseFirst ==
  LET template(key, call) == Setup(key, <<call>>, "instantLayerTemplates")
  IN << template("instantClose", Call("instantLayer", "addTemplate", "InstantClose", "")),
        template("instantOpen", Call("instantLayer", "addTemplate", "InstantOpen", "")),
        template("instantOpenMode", Call("instantLayer", "setTemplateInstantOpenMode", "", "template")),
        template("instantCloseWithAllocation",
                 Call("instantLayer", "addTemplate", "InstantCloseWithAllocation", "")),
        Flag("instantLayerTemplates") >>

TemplateSection ==
  LET template(key, call) == Setup(key, <<call>>, "instantLayerTemplates")
  IN << template("instantOpen", Call("instantLayer", "addTemplate", "InstantOpen", "")),
        template("instantOpenMode", Call("instantLayer", "setTemplateInstantOpenMode", "", "template")),
        template("instantClose", Call("instantLayer", "addTemplate", "InstantClose", "")),
        template("instantCloseWithAllocation",
                 Call("instantLayer", "addTemplate", "InstantCloseWithAllocation", "")),
        Flag("instantLayerTemplates") >>

AffiliateSection ==
  << [kind |-> "register", key |-> <<"register", "">>, flag |-> "dummyAffiliate"],
     Setup("approve", << Call("accountLayer", "approveAffiliate", "", "accountManager") >>, "dummyAffiliate"),
     Flag("dummyAffiliate") >>

OwnershipSection(c) ==
  << Setup("transferOwnership", << Call("diamond", "transferOwnership", "", c.admin) >>, "") >>
  \o Only(c.admin = "deployer",
          << Setup("acceptOwnership", << Call("diamond", "acceptOwnership", "", "deployer") >>, "") >>)

SystemSetup(c) ==
  CoreRoles(c) \o AccountLayerRoles(c) \o VerifierSetup(c) \o MuonRuntime(c) \o ParameterSteps
  \o InstantLayerSetup(c)
  \o Only(c.deployPartyB, PartyBSetup(c))
  \o Only(c.deploySymbolManager, SymbolManagerSetup(c))
  \o << Flag("systemRoles") >>

\* The whole plan of deploy:system.
Plan(c) ==
  CollateralSection(c) \o DiamondSection \o VerifierSection(c) \o AccountLayerSection \o InstantLayerSection
  \o Only(c.deployPartyB, PartyBSection)
  \o Only(c.deploySymbolManager, SymbolManagerSection)
  \o Only(c.hyperEVM, << BigBlocksOff >>)
  \o SystemSetup(c)
  \o Only(c.templates, TemplateSection)
  \o Only(c.affiliate, AffiliateSection)
  \o OwnershipSection(c)
  \o << [kind |-> "finish"] >>

Plans == [c \in Configs |-> Plan(c)]

-----------------------------------------------------------------------------
(* The checkpoint and the position in the plan *)

EmptyCheckpoint(state) ==
  [state |-> state, contracts |-> [n \in Contracts |-> 0], cuts |-> {}, done |-> {}, flags |-> {}]

Idle == [mode |-> "idle", pc |-> 0, sub |-> 0, wait |-> "none", held |-> 0]

steps == Plans[config]
step == steps[process.pc]

\* A mutant: recorded contracts are deployed again.
Mutant_Skips_NoContracts(cp, st) ==
  CASE st.kind \in {"deploy", "record"} -> FALSE
    [] st.kind = "cut" -> st.diamond \in cp.cuts
    [] st.kind \in {"calls", "register", "views"} -> st.key \in cp.done \/ st.flag \in cp.flags
    [] st.kind \in {"require", "flag"} -> st.flag \in cp.flags
    [] OTHER -> FALSE

\* A step is not run again when the checkpoint holds its result.
Skips(cp, st) ==
  CASE st.kind \in {"deploy", "record"} -> cp.contracts[st.guard] # 0
    [] st.kind = "cut" -> st.diamond \in cp.cuts
    [] st.kind \in {"calls", "register", "views"} -> st.key \in cp.done \/ st.flag \in cp.flags
    [] st.kind \in {"require", "flag"} -> st.flag \in cp.flags
    [] OTHER -> FALSE

FirstFrom(cp, i) == CHOOSE j \in i..Len(steps) :
                      /\ ~Skips(cp, steps[j])
                      /\ \A k \in i..(j - 1) : Skips(cp, steps[k])

Position(cp, i) == [Idle EXCEPT !.mode = "running", !.pc = FirstFrom(cp, i)]

Due(kind) == process.mode = "running" /\ step.kind = kind

\* The rest of a step: save the checkpoint and go on.
SaveAndAdvance(cp) == checkpoint' = cp /\ process' = Position(cp, process.pc + 1)
MarkDone == SaveAndAdvance([checkpoint EXCEPT !.done = @ \cup {step.key}])

\* An address the process holds: a contract it deployed or found in the
\* checkpoint, or an account of its configuration.
Address(name) ==
  IF name = "partyBImplementation" THEN At(name, chain.count[name])
  ELSE IF name \in Contracts THEN At(name, checkpoint.contracts[name])
  ELSE At(name, 0)

ResolvedCall(call) ==
  [kind |-> "call", to |-> Address(call.to), fn |-> call.fn, what |-> call.what, who |-> Address(call.who)]

\* Whether the node takes a call: it estimates on the mined state or on the
\* state after the pending transactions.
Estimates(tx) == Accepts(chain, tx) \/ Accepts(Settled, tx)

Send(tx) == Len(mempool) < MaxPending /\ mempool' = Append(mempool, tx)

-----------------------------------------------------------------------------
(* Starting, failing, being killed *)

\* A new run loads the checkpoint, or begins a new deployment: on request,
\* when there is no file, and also when the file cannot be parsed.  On HyperEVM
\* it first switches the deployer to big blocks.
Start(fresh) ==
  /\ process.mode = "idle"
  /\ fresh => interrupts < MaxInterrupts /\ checkpoint.state # "none"
  /\ interrupts' = interrupts + (IF fresh THEN 1 ELSE 0)
  /\ LET cp == IF fresh \/ checkpoint.state # "ok" THEN EmptyCheckpoint("ok") ELSE checkpoint
     IN checkpoint' = cp /\ process' = Position(cp, 1)
  /\ bigBlocks' = (bigBlocks \/ config.hyperEVM)
  /\ UNCHANGED <<config, chain, mempool, logs>>

\* The big-blocks API refuses or is answered after the process was killed:
\* the run ends before it has touched the checkpoint.
StartFails ==
  /\ process.mode = "idle"
  /\ config.hyperEVM /\ interrupts < MaxInterrupts
  /\ bigBlocks' \in {bigBlocks, TRUE}
  /\ interrupts' = interrupts + 1
  /\ UNCHANGED <<config, chain, mempool, checkpoint, process, logs>>

\* The process is killed.
Crash ==
  /\ process.mode = "running" /\ interrupts < MaxInterrupts
  /\ process' = Idle /\ interrupts' = interrupts + 1
  /\ UNCHANGED <<config, chain, mempool, checkpoint, logs, bigBlocks>>

\* The next thing the process does is write the checkpoint file.
Saving ==
  CASE step.kind = "deploy" -> process.sub = 1 /\ process.wait = "ok"
    [] step.kind = "cut" -> process.sub > 1 /\ process.wait = "ok"
    [] step.kind = "calls" -> process.sub = Len(step.calls)
    [] step.kind = "register" -> process.sub > 0
    [] step.kind \in {"record", "flag"} -> TRUE
    [] OTHER -> FALSE

\* It is killed in the middle of the write, which truncates the file first.
TornSave ==
  /\ process.mode = "running" /\ Saving /\ interrupts < MaxInterrupts
  /\ checkpoint' = EmptyCheckpoint("corrupt")
  /\ process' = Idle /\ interrupts' = interrupts + 1
  /\ UNCHANGED <<config, chain, mempool, logs, bigBlocks>>

-----------------------------------------------------------------------------
(* Deployments *)

Record(name, instance) == [checkpoint EXCEPT !.contracts[name] = instance]

\* The collateral or the verifier the configuration names.
RecordStep ==
  /\ Due("record")
  /\ SaveAndAdvance(Record(step.guard, 1))
  /\ UNCHANGED <<config, chain, mempool, logs, bigBlocks, interrupts>>

\* On HyperEVM only a big block has room for a deployment.
SendDeploy ==
  /\ Due("deploy") /\ process.sub = 0
  /\ config.hyperEVM => bigBlocks
  /\ Send([kind |-> "deploy", name |-> step.name, admin |-> At(config.admin, 0),
           links |-> { Address(n) : n \in step.links }])
  /\ process' = [process EXCEPT !.sub = 1, !.wait = "pending"]
  /\ UNCHANGED <<config, chain, checkpoint, logs, bigBlocks, interrupts>>

\* Through the CREATE2 factory every error, also one of a transaction that was
\* sent, counts as a salt already used: the diamond is deployed again with
\* another salt.
RetrySalt ==
  /\ Due("deploy") /\ step.name = "diamond" /\ config.create2
  /\ process.wait = "pending" /\ interrupts < MaxInterrupts
  /\ process' = [process EXCEPT !.sub = 0, !.wait = "none"]
  /\ interrupts' = interrupts + 1
  /\ UNCHANGED <<config, chain, mempool, checkpoint, logs, bigBlocks>>

\* The address is recorded once the deployment is mined.
SaveContract ==
  /\ Due("deploy") /\ process.sub = 1 /\ process.wait = "ok"
  /\ LET cp == IF step.guard = step.name THEN Record(step.name, chain.count[step.name]) ELSE checkpoint
     IN IF step.log = "" THEN SaveAndAdvance(cp)
        ELSE checkpoint' = cp /\ process' = [process EXCEPT !.sub = 2, !.wait = "none"]
  /\ UNCHANGED <<config, chain, mempool, logs, bigBlocks, interrupts>>

\* Then its log file is written: anew, except the two that are appended to.
LogContract ==
  /\ Due("deploy") /\ process.sub = 2
  /\ logs' = [logs EXCEPT ![step.log] =
                (IF @ # {} /\ step.log \in {"deployed", "symbolmanager"} THEN @ ELSE {})
                  \cup {Address(step.name)}]
  /\ process' = Position(checkpoint, process.pc + 1)
  /\ UNCHANGED <<config, chain, mempool, checkpoint, bigBlocks, interrupts>>

\* The log of a diamond holds what this run deployed or found recorded; it
\* replaces the file.
WriteDiamondLog ==
  /\ Due("write")
  /\ logs' = [logs EXCEPT ![step.file] = { Address(n) : n \in step.names }]
  /\ process' = Position(checkpoint, process.pc + 1)
  /\ UNCHANGED <<config, chain, mempool, checkpoint, bigBlocks, interrupts>>

-----------------------------------------------------------------------------
(* Diamond cuts *)

\* The view call that tells whether a diamond was cut: facets() of the core's
\* loupe.  The account layer is asked for admin(), which no facet of it has, so
\* that the call always throws and the cut is begun anew.
AnswersProbe(d) == d = "diamond" /\ "DiamondLoupeFacet" \in FacetsOf(chain.facts, Address(d))

MarkCut == SaveAndAdvance([checkpoint EXCEPT !.cuts = @ \cup {step.diamond}])

ProbeCut ==
  /\ Due("cut") /\ process.sub = 0
  /\ IF AnswersProbe(step.diamond) THEN MarkCut
     ELSE process' = [process EXCEPT !.sub = 1] /\ UNCHANGED checkpoint
  /\ UNCHANGED <<config, chain, mempool, logs, bigBlocks, interrupts>>

Chunks == (Len(step.facets) + step.chunk - 1) \div step.chunk
ChunkTx ==
  LET first == (process.sub - 1) * step.chunk
  IN [kind |-> "cut", to |-> Address(step.diamond), init |-> process.sub = 1,
      facets |-> { Address(step.facets[i]) : i \in { j \in DOMAIN step.facets : j > first /\ j <= first + step.chunk } }]

SendChunk ==
  /\ Due("cut") /\ process.sub \in 1..Chunks /\ process.wait = "none"
  /\ Estimates(ChunkTx) /\ Send(ChunkTx)
  /\ process' = [process EXCEPT !.wait = "pending"]
  /\ UNCHANGED <<config, chain, checkpoint, logs, bigBlocks, interrupts>>

\* The receipt: the next chunk, or the cut is marked complete.
ChunkMined ==
  /\ Due("cut") /\ process.wait = "ok"
  /\ IF process.sub < Chunks
     THEN process' = [process EXCEPT !.sub = @ + 1, !.wait = "none"] /\ UNCHANGED checkpoint
     ELSE MarkCut
  /\ UNCHANGED <<config, chain, mempool, logs, bigBlocks, interrupts>>

-----------------------------------------------------------------------------
(* Configuration *)

NextCall == ResolvedCall(step.calls[process.sub + 1])

\* What a public key or a gateway signer needs: it is there already.
Present(tx) == Fact(tx.to, tx.fn, tx.what, tx.who) \in chain.facts

SendCall ==
  /\ Due("calls") /\ process.sub < Len(step.calls)
  /\ IF step.ensure /\ Present(NextCall) THEN UNCHANGED mempool
     ELSE Estimates(NextCall) /\ Send(NextCall)
  /\ process' = [process EXCEPT !.sub = @ + 1]
  /\ UNCHANGED <<config, chain, checkpoint, logs, bigBlocks, interrupts>>

\* A mutant: marks the step before its last call.
Mutant_MarkCalls_Early ==
  /\ Due("calls") /\ process.sub + 1 >= Len(step.calls)
  /\ MarkDone
  /\ UNCHANGED <<config, chain, mempool, logs, bigBlocks, interrupts>>

MarkCalls ==
  /\ Due("calls") /\ process.sub = Len(step.calls)
  /\ MarkDone
  /\ UNCHANGED <<config, chain, mempool, logs, bigBlocks, interrupts>>

\* The address of the affiliate's account manager is predicted by a static
\* call on the mined state, then the request is sent, then the prediction is
\* saved, then the step is marked.
RegisterTx ==
  [kind |-> "call", to |-> Address("accountLayer"), fn |-> "requestToRegisterAffiliate",
   what |-> "", who |-> Address("diamond")]

SendRegister ==
  /\ Due("register") /\ process.sub = 0
  /\ Accepts(chain, RegisterTx) /\ Send(RegisterTx)
  /\ process' = [process EXCEPT !.sub = 1, !.held = Count(chain.facts, RegisterTx.to, "affiliate") + 1]
  /\ UNCHANGED <<config, chain, checkpoint, logs, bigBlocks, interrupts>>

SavePrediction ==
  /\ Due("register") /\ process.sub = 1
  /\ checkpoint' = Record("accountManager", process.held)
  /\ process' = [process EXCEPT !.sub = 2]
  /\ UNCHANGED <<config, chain, mempool, logs, bigBlocks, interrupts>>

MarkRegistered ==
  /\ Due("register") /\ process.sub = 2
  /\ MarkDone
  /\ UNCHANGED <<config, chain, mempool, logs, bigBlocks, interrupts>>

\* What the views must answer before the parameters are set.
Reads(to, fn, what, who) == Fact(Address(to), fn, what, Address(who)) \in chain.facts
ViewsAgree ==
  /\ "ViewFacet" \in FacetsOf(chain.facts, Address("diamond"))
  /\ Reads("diamond", "setSignatureVerifierAddress", "", "signatureVerifier")
  /\ config.muonApp => Reads("diamond", "setMuonIds", "", "muonApp")
  /\ Reads("diamond", "setMuonConfig", "", "validity")
  /\ config.muonKey = "both" => Reads("signatureVerifier", "addPublicKey", "", "muonKey")
  /\ \A i \in DOMAIN config.gatewaySigners :
       Reads("signatureVerifier", "addGatewaySigner", config.gatewaySigners[i], config.gatewaySigners[i])

CheckViews ==
  /\ Due("views") /\ ViewsAgree
  /\ MarkDone
  /\ UNCHANGED <<config, chain, mempool, logs, bigBlocks, interrupts>>

RequireSetter ==
  /\ Due("require") /\ step.ok
  /\ process' = Position(checkpoint, process.pc + 1)
  /\ UNCHANGED <<config, chain, mempool, checkpoint, logs, bigBlocks, interrupts>>

SetFlag ==
  /\ Due("flag")
  /\ SaveAndAdvance([checkpoint EXCEPT !.flags = @ \cup {step.flag}])
  /\ UNCHANGED <<config, chain, mempool, logs, bigBlocks, interrupts>>

\* A failure to leave big blocks is only reported.
LeaveBigBlocks ==
  /\ Due("bigBlocksOff")
  /\ \/ bigBlocks' = FALSE /\ UNCHANGED interrupts
     \/ interrupts < MaxInterrupts /\ interrupts' = interrupts + 1 /\ UNCHANGED bigBlocks
  /\ process' = Position(checkpoint, process.pc + 1)
  /\ UNCHANGED <<config, chain, mempool, checkpoint, logs>>

\* The step that is due throws: the run ends, the checkpoint stays.
Throws ==
  CASE step.kind = "deploy" -> process.sub = 0 /\ config.hyperEVM /\ ~bigBlocks
    [] step.kind = "cut" ->
         \/ process.wait = "reverted"
         \/ process.sub \in 1..Chunks /\ process.wait = "none" /\ ~Accepts(chain, ChunkTx)
    [] step.kind = "calls" ->
         /\ process.sub < Len(step.calls)
         /\ ~(step.ensure /\ Present(NextCall))
         /\ ~Accepts(chain, NextCall)
    [] step.kind = "register" -> process.sub = 0 /\ ~Accepts(chain, RegisterTx)
    [] step.kind = "views" -> ~ViewsAgree
    [] step.kind = "require" -> ~step.ok
    [] OTHER -> FALSE

Fail ==
  /\ process.mode = "running" /\ Throws
  /\ process' = Idle
  /\ UNCHANGED <<config, chain, mempool, checkpoint, logs, bigBlocks, interrupts>>

\* The report is written and the checkpoint archived.
Finish ==
  /\ Due("finish")
  /\ checkpoint' = [checkpoint EXCEPT !.state = "archived"]
  /\ process' = [Idle EXCEPT !.mode = "done"]
  /\ UNCHANGED <<config, chain, mempool, logs, bigBlocks, interrupts>>

\* The chain: the deployer's transactions are mined in the order of their nonces.
Mine ==
  /\ mempool # <<>>
  /\ chain' = Apply(chain, Head(mempool))
  /\ mempool' = Tail(mempool)
  /\ process' = IF process.wait = "pending" /\ Len(mempool) = 1
                THEN [process EXCEPT !.wait = IF Accepts(chain, Head(mempool)) THEN "ok" ELSE "reverted"]
                ELSE process
  /\ UNCHANGED <<config, checkpoint, logs, bigBlocks, interrupts>>

-----------------------------------------------------------------------------
(* Specification *)

\* Contracts that were there before: the configured collateral and verifier.
Existing(c) ==
  (IF c.existingCollateral THEN {"collateral"} ELSE {})
  \cup (IF c.verifier = "existing" THEN {"signatureVerifier"} ELSE {})

Init ==
  /\ config \in Configs
  /\ chain = [count |-> [n \in Contracts |-> IF n \in Existing(config) THEN 1 ELSE 0],
              facts |-> IF config.verifier = "existing" /\ config.verifierAdmin
                        THEN ConstructorFacts("signatureVerifier", At("signatureVerifier", 1), Nobody) ELSE {}]
  /\ mempool = <<>>
  /\ checkpoint = EmptyCheckpoint("none")
  /\ process = Idle
  /\ logs = [f \in LogFiles |-> {}]
  /\ bigBlocks = FALSE
  /\ interrupts = 0

Work ==
  \/ RecordStep \/ SendDeploy \/ SaveContract \/ LogContract \/ WriteDiamondLog
  \/ ProbeCut \/ SendChunk \/ ChunkMined
  \/ SendCall \/ MarkCalls \/ SendRegister \/ SavePrediction \/ MarkRegistered
  \/ CheckViews \/ RequireSetter \/ SetFlag \/ LeaveBigBlocks
  \/ Fail \/ Finish

Next ==
  \/ \E fresh \in BOOLEAN : Start(fresh)
  \/ StartFails \/ Crash \/ TornSave \/ RetrySalt
  \/ Work
  \/ Mine

Spec == Init /\ [][Next]_vars

-----------------------------------------------------------------------------
(* Properties *)

\* The lasting effect of a call that was accepted, whatever was sent after it.
Took(facts, tx) ==
  CASE tx.fn = "setAdmin" -> HasRole(facts, tx.to, "DEFAULT_ADMIN_ROLE", tx.who)
    [] tx.fn = "grantRole" -> HasRole(facts, tx.to, tx.what, tx.who)
    [] tx.fn = "transferOwnership" ->
         Fact(tx.to, "pendingOwner", "", tx.who) \in facts \/ Fact(tx.to, "owner", "", tx.who) \in facts
    [] tx.fn = "acceptOwnership" ->
         Fact(tx.to, "owner", "", Deployer) \in facts /\ Count(facts, tx.to, "pendingOwner") = 0
    [] tx.fn = "addTemplate" -> \E f \in facts : f[1] = tx.to /\ f[2] = "template" /\ f[3] = tx.what
    [] tx.fn = "approveAffiliate" -> Fact(tx.to, "affiliate", "ACTIVE", tx.who) \in facts
    [] OTHER -> Fact(tx.to, tx.fn, tx.what, tx.who) \in facts

\* A step that a resumed run leaves out did happen: the recorded contract is
\* deployed, and each configuring call, though never awaited, has its effect
\* once everything sent is mined (isCompleted, isInProgressArray, the section
\* flags, and the marks made before a receipt).
SkippedTook ==
  LET settled == Settled
      Happened(call) == Took(settled.facts, ResolvedCall(call))
  IN checkpoint.state \in {"ok", "archived"} =>
       /\ \A n \in Contracts \ {"accountManager"} : checkpoint.contracts[n] <= chain.count[n]
       /\ \A i \in DOMAIN steps :
            steps[i].kind = "calls" /\ Skips(checkpoint, steps[i]) =>
              \A j \in DOMAIN steps[i].calls : Happened(steps[i].calls[j])
       /\ config.affiliate /\ "dummyAffiliate" \in checkpoint.flags =>
            Happened(Call("accountLayer", "approveAffiliate", "", "accountManager"))

\* The contracts the checkpoint names are linked to one another, never to an
\* instance that an interrupted run deployed and forgot (getDeployedAddress of
\* the checkpoint against the addresses given to constructors and linkers).
WiringAgrees ==
  checkpoint.state \in {"ok", "archived"} =>
    \A f \in chain.facts :
      f[2] = "links" /\ f[4][1] # "partyBImplementation" /\ f[1][2] = checkpoint.contracts[f[1][1]]
        => f[4] = Address(f[4][1])

\* The template put in instant-open mode is the one that opens, though ids
\* are assigned by position and a step may be sent twice
\* (setupInstantLayerTemplates).
TemplateModes ==
  LET facts == Settled.facts
  IN \A f \in facts :
       f[2] = "setTemplateInstantOpenMode" => Fact(f[1], "template", "InstantOpen", f[4]) \in facts

\* A diamond cut marked in the checkpoint holds every facet of its list:
\* "Diamond cuts are verified on-chain" (docs/v0.8.5/setup-task.md:101), "the
\* system will detect this on-chain and update the checkpoint" (:350).
CutsComplete ==
  \A d \in checkpoint.cuts :
    { Address(n) : n \in ToSet(IF d = "diamond" THEN CoreFacets ELSE AccountFacets) }
      \subseteq { f[4] : f \in { g \in Settled.facts : g[1] = Address(d) /\ g[2] = "facet" } }

\* The command, run again after every stop, completes when the deployer is its
\* own admin, unless an interruption fell where the code cannot go on: after the
\* first chunk of a cut (of the core, until the last; of the account layer, until
\* it is marked), between a call that only works once and its mark, or unless the
\* configuration asks for keys that it does not let the deployer set.
HalfCut ==
  LET OnChain(d) == FacetsOf(Settled.facts, Address(d))
  IN  \/ OnChain("diamond") \notin {{}, ToSet(CoreFacets)}
      \/ OnChain("accountLayer") # {} /\ "accountLayer" \notin checkpoint.cuts
Repeated ==
  LET facts == Settled.facts
  IN \E i \in DOMAIN steps :
       /\ steps[i].kind = "calls" /\ ~Skips(checkpoint, steps[i])
       /\ \E j \in DOMAIN steps[i].calls :
            /\ \/ steps[i].calls[j].fn \in {"registerPartyB", "registerPartyBs", "approveAffiliate"}
               \/ steps[i].calls[j].fn = "acceptOwnership" /\ <<"transferOwnership", "">> \in checkpoint.done
            /\ Took(facts, ResolvedCall(steps[i].calls[j]))
Unseedable == ~AdministersVerifier(config) /\ (config.muonKey # "none" \/ config.gatewaySigners # <<>>)
Completes ==
  config.admin = "deployer" /\ ~Unseedable =>
    <>(process.mode = "done") \/ <>[](HalfCut \/ Repeated)
=============================================================================
