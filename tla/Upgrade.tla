------------------------------ MODULE Upgrade ------------------------------
(***************************************************************************)
(* The v0.8.4 -> v0.8.5 upgrade of a live diamond, along its two paths.    *)
(*                                                                         *)
(*   eoa: one script, eoaUpgrade.ts, deploys the facets, pauses, cuts,     *)
(*        sets parameters, deploys and wires the peripherals.              *)
(*   safe, timelock: deployFacets.ts and deployPeripherals.ts deploy;      *)
(*        generateSafeBatch.ts (and generateTimelockBatch.ts) write        *)
(*        files that verifyBatchCalldata.ts checks and the Safe executes:  *)
(*        the pause, then the cut chunk by chunk, then everything else.    *)
(*                                                                         *)
(* Scripts may be killed at any await or in the middle of writing a file,  *)
(* and are run again by an operator who follows docs/production-upgrade.md.*)
(* The Safe is the protocolAdmin.  Its transactions reach the chain in the *)
(* order in which they are sent, as those of a script do, so that an       *)
(* address saved before its contract is mined has code when it is used.    *)
(***************************************************************************)
EXTENDS UpgradeCut

CONSTANTS
  Paths,              \* which of "eoa", "safe", "timelock" may be taken
  AccountLayerChunks, \* transactions of the AccountLayer's cut (3)
  Skip,               \* labels verifyBatch.json skips
  EarlyGenerate,      \* may batches be generated before all is deployed?
  MaxFaults           \* kills, torn files, second thoughts of the operator

ASSUME UpgradeAssumption ==
  /\ Paths \subseteq {"eoa", "safe", "timelock"}
  /\ AccountLayerChunks \in Nat \ {0}
  /\ EarlyGenerate \in BOOLEAN /\ MaxFaults \in Nat

VARIABLES
  path,         \* the path taken
  chain,        \* the core diamond, the AccountLayer and what was set on them
  files,        \* deployed-facets, deployed-peripherals (and what eoaUpgrade saves)
  process,      \* the script that runs
  batch,        \* the generated files: pause, cut chunks, post batch, timelock
  verdict,      \* what the last run of verifyBatchCalldata.ts said of them
  applied,      \* cut transactions executed from the files there are
  timelock,     \* operations scheduled and executed
  failed,       \* the step at which the last attempt reverted or threw
  finished,     \* the upgrade went through
  deployments, faults

vars == <<path, chain, files, process, batch, verdict, applied, timelock, failed, finished, deployments, faults>>

-----------------------------------------------------------------------------
(* Transactions: a contract, a method, and what tells its uses apart        *)

Call(method, argument) == <<method, argument>>
GrantRole(role) == Call("grantRole", role)
Grants(roles) == [i \in DOMAIN roles |-> GrantRole(roles[i])]

\* A plausible slip: the roles are granted and nothing is paused.
Mutant_PauseCalls_NoPause == Grants(<<"PAUSER_ROLE", "UNPAUSER_ROLE">>)

PauseCalls == Grants(<<"PAUSER_ROLE", "UNPAUSER_ROLE">>) \o <<Call("pauseGlobal", "diamond")>>

\* The Safe is an admin already; eoaUpgrade.ts makes its signer one.
ScriptPauseCalls == <<Call("setAdmin", "signer")>> \o PauseCalls

ParameterRoles == <<"PROTOCOL_CONFIG_ROLE", "COOLDOWN_ADMIN_ROLE", "FEE_ADMIN_ROLE">>
SetterRole ==
  [maxPartyAConnectionLimit |-> "PROTOCOL_CONFIG_ROLE", liquidationInsuranceVaultParams |-> "FEE_ADMIN_ROLE",
   softLiquidationPenaltyCollector |-> "FEE_ADMIN_ROLE", minAffiliateFee |-> "FEE_ADMIN_ROLE",
   unbindCooldown |-> "COOLDOWN_ADMIN_ROLE", minWithdrawCooldown |-> "COOLDOWN_ADMIN_ROLE",
   maxWithdrawParts |-> "PROTOCOL_CONFIG_ROLE"]
Sets(parameters) == [i \in DOMAIN parameters |-> Call("set", parameters[i])]

VerifierCalls ==
  <<Call("setSignatureVerifierAddress", "verifier"), Call("addPublicKey", "verifier"), Call("addGatewaySigner", "verifier"),
    Call("setPublicKeyPermissions", "verifier"), Call("setGatewaySignerPermissions", "verifier")>>

\* A plausible slip: the setters are called before their roles are granted.
Mutant_ParameterCalls_GrantsLast(withVerifier) ==
  Sets(<<"maxPartyAConnectionLimit">>) \o (IF withVerifier THEN VerifierCalls ELSE <<>>)
    \o Sets(<<"liquidationInsuranceVaultParams", "softLiquidationPenaltyCollector", "minAffiliateFee",
              "unbindCooldown", "minWithdrawCooldown", "maxWithdrawParts">>)
    \o Grants(ParameterRoles)

\* The verifier's address reaches the configuration once it is deployed.
ParameterCalls(withVerifier) ==
  Grants(ParameterRoles) \o Sets(<<"maxPartyAConnectionLimit">>) \o (IF withVerifier THEN VerifierCalls ELSE <<>>)
    \o Sets(<<"liquidationInsuranceVaultParams", "softLiquidationPenaltyCollector", "minAffiliateFee",
              "unbindCooldown", "minWithdrawCooldown", "maxWithdrawParts">>)

WiringCalls ==
  Grants(<<"INTEGRATION_ADMIN_ROLE", "SIGNER_ADMIN_ROLE", "AFFILIATE_MANAGER_ROLE", "BALANCE_SETTLER_ROLE", "INSTANT_LAYER_ROLE">>)
    \o <<Call("registerHook", "accountLayer"), Call("grantRole", "SIGNER_SETTER_ROLE"),
         Call("setWhitelistedSymmioCore", "accountLayer"), Call("setAccountLayer", "instantLayer"),
         Call("setTargetWhitelist", "diamond"), Call("setTargetWhitelist", "accountLayer")>>
TemplateCalls == <<Call("addTemplate", "instantLayer")>>
RegisterPartyBs == Call("registerPartyBs", "instantLayer")
AcceptOwnership == Call("acceptOwnership", "accountLayer")
SymbolManagerCalls == Grants(<<"SYMBOL_MANAGER_ROLE", "FORCE_CLOSE_GAP_RATIO_ADMIN_ROLE">>)
RunnerCalls == <<Call("grantToRunner", "MIGRATION_ROLE"), Call("grantToRunner", "SYMBOL_MANAGER_ROLE")>>

AccountLayerFacts == Range(WiringCalls \o TemplateCalls) \cup {RegisterPartyBs}

\* The diamond serves the setters v0.8.5 adds with the selector "setParameter",
\* and setAdmin, grantRole and pauseGlobal, which both versions have, with
\* "grantRole".
CallReverts(c, call) ==
  CASE call[1] = "set" -> \/ c.routes["setParameter"] = NoFacet
                          \/ GrantRole(SetterRole[call[2]]) \notin c.facts
    [] call[1] = "setSignatureVerifierAddress" -> c.routes["setParameter"] = NoFacet
    [] call[1] = "registerHook" -> GrantRole("INTEGRATION_ADMIN_ROLE") \notin c.facts
    [] call[1] = "pauseGlobal" -> GrantRole("PAUSER_ROLE") \notin c.facts
    [] call[1] \in {"setAdmin", "grantRole", "grantToRunner"} -> c.routes["grantRole"] = NoFacet
    [] call = RegisterPartyBs -> call \in c.facts
    [] call = AcceptOwnership -> c.accountLayer.owner # "pending"
    [] OTHER -> FALSE

\* What calls that go through leave, one after the other: no one's effect
\* undoes another's.
Effect(c, calls) ==
  [c EXCEPT !.facts = @ \cup { call \in calls : call[1] # "pauseGlobal" /\ call # AcceptOwnership },
            !.paused = @ \/ \E call \in calls : call[1] = "pauseGlobal",
            !.accountLayer.owner = IF AcceptOwnership \in calls THEN "safe" ELSE @]

-----------------------------------------------------------------------------
(* Scripts                                                                  *)

Steps ==
  [eoaUpgrade |-> <<"libraries", "facets", "buildCut", "pause", "cut", "parameters", "accountLayer", "accountLayerCut",
                    "instantLayer", "wiring", "templates", "partyB", "registerPartyBs", "symbolManager",
                    "symbolManagerWiring", "migrationRole">>,
   deployFacets |-> <<"libraries", "facets">>,
   deployPeripherals |-> <<"verifier", "accountLayer", "accountLayerCut", "transferOwnership", "instantLayer", "partyB",
                           "symbolManager">>]
ScriptsOf(p) == IF p = "eoa" THEN {"eoaUpgrade"} ELSE {"deployFacets", "deployPeripherals"}

Idle == [script |-> "none", step |-> 1, done |-> 0, cut |-> <<>>]
Running == process.script # "none"
At(step) == Running /\ Steps[process.script][process.step] = step

Ends == process.step = Len(Steps[process.script])
Advance ==
  IF Ends THEN /\ process' = Idle
               /\ finished' = (finished \/ process.script = "eoaUpgrade")
          ELSE /\ process' = [process EXCEPT !.step = @ + 1, !.done = 0]
               /\ UNCHANGED finished
Again(done) == process' = [process EXCEPT !.done = done] /\ UNCHANGED finished
Fails(step) == process' = Idle /\ failed' = step

\* The calls a step of eoaUpgrade.ts makes one after the other, each awaited;
\* PartyBs that are registered already are left out.
CallsOf(step) ==
  CASE step = "pause" -> ScriptPauseCalls
    [] step = "parameters" -> ParameterCalls(TRUE)
    [] step = "wiring" -> WiringCalls
    [] step = "templates" -> TemplateCalls
    [] step = "registerPartyBs" -> IF RegisterPartyBs \in chain.facts THEN <<>> ELSE <<RegisterPartyBs>>
    [] step = "symbolManagerWiring" -> SymbolManagerCalls
    [] step = "migrationRole" -> <<RunnerCalls[1]>>
    [] OTHER -> <<>>
CallSteps ==
  {"pause", "parameters", "wiring", "templates", "registerPartyBs", "symbolManagerWiring", "migrationRole"}

NoFacetsFile == [libraries |-> 0, deployed |-> <<>>, torn |-> FALSE]
NoPeripheralsFile == [saved |-> {}, cutComplete |-> FALSE, torn |-> FALSE]
NoBatch == [exists |-> FALSE, cut |-> <<>>, post |-> <<>>, timelock |-> <<>>]
\* Batches to be generated again; the timelock's files stay where they are.
Withdrawn == [NoBatch EXCEPT !.timelock = batch.timelock]
Unverified == [known |-> FALSE, labels |-> {}]

Init ==
  /\ path \in Paths
  /\ chain = [routes |-> OldRoutes, paused |-> FALSE, facts |-> {}, accountLayer |-> [chunks |-> 0, owner |-> "deployer"]]
  /\ files = [facets |-> NoFacetsFile, peripherals |-> NoPeripheralsFile]
  /\ process = Idle /\ batch = NoBatch /\ verdict = Unverified /\ applied = 0
  /\ timelock = [scheduled |-> {}, executed |-> {}]
  /\ failed = "none" /\ finished = FALSE /\ deployments = 0 /\ faults = 0

FacetsDeployed == DOMAIN files.facets.deployed = Facets
PeripheralsDeployed ==
  files.peripherals.saved = {"verifier", "accountLayer", "instantLayer", "partyB", "symbolManager"}

ScriptVars == <<path, batch, verdict, applied, timelock>>

\* The operator runs a script until it has gone through, having removed what
\* made the last run fail.
RunScript(script) ==
  /\ ~Running /\ failed = "none" /\ ~finished
  /\ script \in ScriptsOf(path)
  /\ script = "deployFacets" => ~FacetsDeployed
  /\ script = "deployPeripherals" => ~(PeripheralsDeployed /\ files.peripherals.cutComplete)
  /\ process' = [Idle EXCEPT !.script = script]
  /\ UNCHANGED <<ScriptVars, chain, files, failed, finished, deployments, faults>>

\* The libraries the file names are reused; a file that does not parse counts
\* as none.
DeployLibraries ==
  /\ At("libraries")
  /\ LET partial == IF files.facets.torn THEN NoFacetsFile ELSE files.facets
     IN  IF partial.libraries # 0
         THEN UNCHANGED <<files, deployments>>
         ELSE /\ files' = [files EXCEPT !.facets = [partial EXCEPT !.libraries = deployments + 1]]
              /\ deployments' = deployments + 1
  /\ Advance
  /\ UNCHANGED <<ScriptVars, chain, failed, faults>>

\* The file's facets and one more.
Named(deployed, name, facet) == [f \in DOMAIN deployed \cup {name} |-> IF f = name THEN facet ELSE deployed[f]]

\* The first facet the file does not name is deployed and saved.
DeployFacet ==
  /\ At("facets")
  /\ IF FacetsDeployed
     THEN Advance /\ UNCHANGED <<files, deployments>>
     ELSE LET i == Min({ k \in DOMAIN FacetNames : FacetNames[k] \notin DOMAIN files.facets.deployed })
              facet == Facet(FacetNames[i], deployments + 1, files.facets.libraries)
          IN  /\ files' = [files EXCEPT !.facets.deployed = Named(@, FacetNames[i], facet)]
              /\ deployments' = deployments + 1
              /\ Again(0)
  /\ UNCHANGED <<ScriptVars, chain, failed, faults>>

\* With nothing to cut the script returns.
BuildCut ==
  /\ At("buildCut")
  /\ LET cut == InChunks(BuildDiamondCut(chain.routes, files.facets.deployed), ChunkSize)
     IN  process' = IF cut = <<>> THEN Idle ELSE [process EXCEPT !.step = @ + 1, !.done = 0, !.cut = cut]
  /\ UNCHANGED <<ScriptVars, chain, files, failed, finished, deployments, faults>>

\* One awaited transaction per chunk; a revert ends the script.
ApplyChunk ==
  /\ At("cut")
  /\ LET chunk == process.cut[process.done + 1]
     IN  IF CutReverts(chain.routes, chunk)
         THEN Fails("cut") /\ UNCHANGED <<chain, finished>>
         ELSE /\ chain' = [chain EXCEPT !.routes = CutRoutes(@, chunk)]
              /\ IF process.done + 1 = Len(process.cut) THEN Advance ELSE Again(process.done + 1)
              /\ UNCHANGED failed
  /\ UNCHANGED <<ScriptVars, files, deployments, faults>>

\* One awaited call of a step that makes a list of them.
MakeCall(step) ==
  /\ At(step)
  /\ LET calls == CallsOf(step)
     IN  IF process.done >= Len(calls)
         THEN Advance /\ UNCHANGED <<chain, failed>>
         ELSE LET call == calls[process.done + 1]
              IN  IF CallReverts(chain, call)
                  THEN Fails(step) /\ UNCHANGED <<chain, finished>>
                  ELSE /\ chain' = Effect(chain, {call})
                       /\ Again(process.done + 1)
                       /\ UNCHANGED failed
  /\ UNCHANGED <<ScriptVars, files, deployments, faults>>

PeripheralSteps == {"verifier", "instantLayer", "symbolManager", "partyB"}

\* Deployed unless the file names it; saved as soon as it is sent.  eoaUpgrade.ts
\* deploys another SymmioPartyB implementation each time and saves none.
DeployPeripheral(name) ==
  /\ At(name)
  /\ IF files.peripherals.torn
     THEN Fails("peripheralsFile") /\ UNCHANGED <<files, deployments, finished>>
     ELSE /\ IF name \in files.peripherals.saved
             THEN UNCHANGED <<files, deployments>>
             ELSE /\ files' = [files EXCEPT !.peripherals.saved =
                                 IF process.script = "eoaUpgrade" /\ name = "partyB" THEN @ ELSE @ \cup {name}]
                  /\ deployments' = deployments + 1
          /\ Advance /\ UNCHANGED failed
  /\ UNCHANGED <<ScriptVars, chain, faults>>

\* deployAccountLayerDiamond: its proxy, init contract, library and facets.
DeployAccountLayer ==
  /\ At("accountLayer")
  /\ IF files.peripherals.torn
     THEN Fails("peripheralsFile") /\ UNCHANGED <<chain, files, deployments, finished>>
     ELSE /\ IF "accountLayer" \in files.peripherals.saved
             THEN UNCHANGED <<chain, files, deployments>>
             ELSE /\ files' = [files EXCEPT !.peripherals.saved = @ \cup {"accountLayer"}]
                  /\ chain' = [chain EXCEPT !.accountLayer = [chunks |-> 0, owner |-> "deployer"],
                                            !.facts = @ \ AccountLayerFacts]
                  /\ deployments' = deployments + 1
          /\ Advance /\ UNCHANGED failed
  /\ UNCHANGED <<ScriptVars, faults>>

AccountLayerWhole(c) == c.accountLayer.chunks = AccountLayerChunks

\* The script asks the ControlFacet for admin() to see whether the cut is done;
\* it has no such function, so only the flag saved after the last chunk is heeded.
\* A cut that an earlier run began is begun again, and its first chunk reverts.
CutAccountLayer ==
  /\ At("accountLayerCut")
  /\ IF files.peripherals.cutComplete \/ process.done = AccountLayerChunks
     THEN /\ files' = [files EXCEPT !.peripherals.cutComplete = TRUE]
          /\ Advance /\ UNCHANGED <<chain, failed>>
     ELSE /\ IF chain.accountLayer.chunks # process.done
             THEN Fails("accountLayerCut") /\ UNCHANGED <<chain, finished>>
             ELSE /\ chain' = [chain EXCEPT !.accountLayer.chunks = @ + 1]
                  /\ Again(process.done + 1)
                  /\ UNCHANGED failed
          /\ UNCHANGED files
  /\ UNCHANGED <<ScriptVars, deployments, faults>>

\* A caller that is not the owner is told so and the script goes on.
TransferOwnership ==
  /\ At("transferOwnership")
  /\ chain' = [chain EXCEPT !.accountLayer.owner = IF @ = "deployer" THEN "pending" ELSE @]
  /\ Advance
  /\ UNCHANGED <<ScriptVars, files, failed, deployments, faults>>

ScriptStep ==
  \/ DeployLibraries \/ DeployFacet \/ BuildCut \/ ApplyChunk
  \/ DeployAccountLayer \/ CutAccountLayer \/ TransferOwnership
  \/ \E step \in CallSteps : MakeCall(step)
  \/ \E name \in PeripheralSteps : DeployPeripheral(name)

-----------------------------------------------------------------------------
(* What the operator does when a run has failed.  The scripts offer nothing:
   the file that makes them repeat themselves has to go.                    *)

\* eoaUpgrade.ts keeps the SymbolManager's address in a file of its own.
PeripheralsLost ==
  [NoPeripheralsFile EXCEPT !.saved = IF path = "eoa" THEN files.peripherals.saved \cap {"symbolManager"} ELSE {}]

RemoveFacetsFile ==
  /\ failed \in {"cut", "libraries"}
  /\ files' = [files EXCEPT !.facets = NoFacetsFile]

RemovePeripheralsFile ==
  /\ failed \in {"accountLayerCut", "peripheralsFile"}
  /\ files' = [files EXCEPT !.peripherals = PeripheralsLost]

StartOver ==
  /\ ~Running
  /\ RemoveFacetsFile \/ RemovePeripheralsFile
  /\ failed' = "none" /\ batch' = Withdrawn /\ verdict' = Unverified /\ applied' = 0
  /\ UNCHANGED <<path, chain, process, timelock, finished, deployments, faults>>

Fault == ~finished /\ faults < MaxFaults /\ faults' = faults + 1

Kill ==
  /\ Running /\ Fault
  /\ process' = Idle
  /\ UNCHANGED <<ScriptVars, chain, files, failed, finished, deployments>>

\* Killed while it writes a file.
TornSave ==
  /\ Running /\ Fault
  /\ \/ /\ At("libraries") \/ At("facets")
        /\ files' = [files EXCEPT !.facets = [NoFacetsFile EXCEPT !.torn = TRUE]]
     \/ /\ \/ At("accountLayer") \/ At("accountLayerCut") \/ At("instantLayer")
           \/ process.script = "deployPeripherals" /\ \E name \in PeripheralSteps : At(name)
        /\ files' = [files EXCEPT !.peripherals = [PeripheralsLost EXCEPT !.torn = TRUE]]
  /\ process' = Idle
  /\ UNCHANGED <<ScriptVars, chain, failed, finished, deployments>>

-----------------------------------------------------------------------------
(* The Safe's batches                                                       *)

Saved(name) == name \in files.peripherals.saved
Wired == Saved("accountLayer") /\ Saved("instantLayer")

\* safe-batch-<network>.json: everything after the cut.
PostBatch ==
  ParameterCalls(Saved("verifier")) \o RunnerCalls
    \o (IF Wired THEN WiringCalls \o <<RegisterPartyBs>> \o TemplateCalls \o <<AcceptOwnership>> ELSE <<>>)
    \o (IF Saved("symbolManager") THEN SymbolManagerCalls ELSE <<>>)

\* What the verifier reconstructs of it.
ExpectedSafeTxs ==
  ParameterCalls(Saved("verifier")) \o RunnerCalls
    \o (IF Wired THEN WiringCalls \o <<RegisterPartyBs>> \o TemplateCalls ELSE <<>>)

Labels == {"pause-safe-batch", "safe-batch", "diamondcut-calldata", "timelock-safe-batch"}
Required == Labels \ Skip
Readable == ~files.facets.torn /\ ~files.peripherals.torn /\ files.facets.libraries # 0

\* generateSafeBatch.ts: the cut is built from whatever facets the file names.
Generate ==
  /\ path # "eoa" /\ ~Running /\ ~finished /\ Readable
  /\ EarlyGenerate \/ (FacetsDeployed /\ PeripheralsDeployed /\ files.peripherals.cutComplete)
  /\ batch.exists => verdict.known /\ ~(Required \ {"timelock-safe-batch"} \subseteq verdict.labels)
  /\ batch' = [exists |-> TRUE, post |-> PostBatch, timelock |-> batch.timelock,
                cut |-> InChunks(BuildDiamondCut(chain.routes, files.facets.deployed), ChunkSize)]
  /\ verdict' = Unverified /\ applied' = 0
  /\ UNCHANGED <<path, chain, files, process, timelock, failed, finished, deployments, faults>>

\* generateTimelockBatch.ts wraps the chunks, each the successor of the last.
GenerateTimelock ==
  /\ path = "timelock" /\ ~Running /\ ~finished
  /\ batch.exists /\ batch.cut # <<>> /\ batch.timelock # batch.cut
  /\ batch' = [batch EXCEPT !.timelock = batch.cut]
  /\ verdict' = Unverified
  /\ UNCHANGED <<path, chain, files, process, applied, timelock, failed, finished, deployments, faults>>

\* verifyDiamondCutCalldata: each change is one of the deployed facets and its
\* selectors, and no selector changes twice.  Removals are only counted.
CutVerifies ==
  LET changes == FlattenSeq(batch.cut)
  IN  /\ \A i \in DOMAIN changes : changes[i].action # "Remove" =>
            /\ changes[i].facet \in Range(files.facets.deployed)
            /\ changes[i].selectors \subseteq NewSelectors[changes[i].facet.name]
      /\ \A i, j \in DOMAIN changes : i # j => changes[i].selectors \cap changes[j].selectors = {}
      /\ FacetsDeployed

\* verifyBatchCalldata.ts; files that do not exist are skipped.
Verify ==
  /\ ~Running /\ ~finished /\ batch.exists /\ Readable /\ applied = 0
  /\ verdict' = [known |-> TRUE,
                  labels |-> {"pause-safe-batch"}
                    \cup (IF batch.post = ExpectedSafeTxs THEN {"safe-batch"} ELSE {})
                    \cup (IF CutVerifies THEN {"diamondcut-calldata"} ELSE {})
                    \cup (IF batch.timelock \in {<<>>, batch.cut} THEN {"timelock-safe-batch"} ELSE {})]
  /\ UNCHANGED <<path, chain, files, process, batch, applied, timelock, failed, finished, deployments, faults>>

Signed == batch.exists /\ verdict.known /\ Required \subseteq verdict.labels
SafeActs == path # "eoa" /\ ~Running /\ ~finished /\ failed = "none" /\ Signed

\* A Safe transaction, all of its calls or none: the chains it may leave behind,
\* one or, when a call reverts after those before it, none.
AfterCalls(calls) ==
  IF \E i \in DOMAIN calls : CallReverts(Effect(chain, { calls[j] : j \in 1..(i - 1) }), calls[i])
  THEN {} ELSE {Effect(chain, Range(calls))}

ExecutePause ==
  /\ SafeActs /\ ~chain.paused
  /\ chain' \in AfterCalls(PauseCalls)
  /\ UNCHANGED <<ScriptVars, files, process, failed, finished, deployments, faults>>

\* An operation's id hashes its calldata and its predecessor's id: the chunks up
\* to it.
OperationId(i) == SubSeq(batch.timelock, 1, i)

\* The timelock refuses an operation it knows.
ScheduleChunk(i) ==
  /\ SafeActs /\ path = "timelock" /\ i \in DOMAIN batch.timelock
  /\ OperationId(i) \notin timelock.scheduled
  /\ i > 1 => OperationId(i - 1) \in timelock.scheduled
  /\ timelock' = [timelock EXCEPT !.scheduled = @ \cup {OperationId(i)}]
  /\ UNCHANGED <<path, chain, files, process, batch, verdict, applied, failed, finished, deployments, faults>>

\* The order of the documentation: pause, then cut.
CutReady ==
  /\ SafeActs /\ chain.paused /\ applied < Len(batch.cut)
  /\ path = "timelock" => DOMAIN batch.timelock = DOMAIN batch.cut /\ OperationId(applied + 1) \in timelock.scheduled

\* The next chunk, directly or by the timelock, which executes an operation
\* once, and after its predecessor.
ExecuteChunk ==
  /\ CutReady
  /\ LET chunk == (IF path = "timelock" THEN batch.timelock ELSE batch.cut)[applied + 1]
         refused == /\ path = "timelock"
                    /\ \/ OperationId(applied + 1) \in timelock.executed
                       \/ applied > 0 /\ OperationId(applied) \notin timelock.executed
     IN  IF refused \/ CutReverts(chain.routes, chunk)
         THEN failed' = "cut" /\ UNCHANGED <<chain, applied, timelock>>
         ELSE /\ chain' = [chain EXCEPT !.routes = CutRoutes(@, chunk)]
              /\ applied' = applied + 1
              /\ timelock' = IF path = "timelock" THEN [timelock EXCEPT !.executed = @ \cup {OperationId(applied + 1)}]
                                                  ELSE timelock
              /\ UNCHANGED failed
  /\ UNCHANGED <<path, files, process, batch, verdict, finished, deployments, faults>>

ExecutePost ==
  /\ SafeActs /\ chain.paused /\ applied = Len(batch.cut)
  /\ LET after == AfterCalls(batch.post)
     IN  IF after = {}
         THEN failed' = "post" /\ UNCHANGED <<chain, finished>>
         ELSE chain' \in after /\ finished' = TRUE /\ UNCHANGED failed
  /\ UNCHANGED <<ScriptVars, files, process, deployments, faults>>

\* The operator has the batches generated again, or even the facets redeployed,
\* at any time: cuts may be applied, operations scheduled.
SecondThoughts ==
  /\ path # "eoa" /\ ~Running /\ failed = "none" /\ batch.exists /\ Fault
  /\ batch' = Withdrawn /\ verdict' = Unverified /\ applied' = 0
  /\ files' \in {files, [files EXCEPT !.facets = NoFacetsFile]}
  /\ UNCHANGED <<path, chain, process, timelock, failed, finished, deployments>>

-----------------------------------------------------------------------------
(* The end: verifyDiamond.ts and verifyPeripherals.ts pass, the migration is
   run (Migration.tla) and the system is unpaused.                          *)

\* The AccountLayer's loupe is in the last chunk of its cut.
VerifyPeripherals ==
  /\ AccountLayerWhole(chain)
  /\ Range(WiringCalls \o SymbolManagerCalls) \subseteq chain.facts

Unpause ==
  /\ ~Running /\ finished /\ chain.paused
  /\ VerifyAgainstArtifacts(chain.routes) /\ VerifyPeripherals
  /\ chain' = [chain EXCEPT !.paused = FALSE]
  /\ UNCHANGED <<ScriptVars, files, process, failed, finished, deployments, faults>>

Progress ==
  \/ \E script \in DOMAIN Steps : RunScript(script)
  \/ ScriptStep \/ StartOver
  \/ Generate \/ GenerateTimelock \/ Verify
  \/ ExecutePause \/ (\E i \in DOMAIN batch.timelock : ScheduleChunk(i)) \/ ExecuteChunk \/ ExecutePost

Next == Progress \/ Kill \/ TornSave \/ SecondThoughts \/ Unpause

Spec == Init /\ [][Next]_vars

\* The operator keeps at it.
FairSpec == Spec /\ WF_vars(Progress)

-----------------------------------------------------------------------------

\* However often the upgrade was interrupted, cut again or begun anew, a system
\* that is not paused serves v0.8.4 as it was or v0.8.5 whole: every facet from
\* one contract, and all of them linked to the same libraries.
UnpausedIsWhole == ~chain.paused => chain.routes = OldRoutes \/ WholeNew(chain.routes)

\* An upgrade that went through left nothing undone: all of v0.8.5, its
\* parameters, the peripherals' wiring, an AccountLayer with every chunk of its
\* cut and, on the Safe's paths, in the Safe's hands.
UpgradedIsReady ==
  finished =>
    /\ WholeNew(chain.routes)
    /\ Range(ParameterCalls(TRUE) \o WiringCalls \o TemplateCalls \o SymbolManagerCalls) \subseteq chain.facts
    /\ {RegisterPartyBs, RunnerCalls[1]} \subseteq chain.facts
    /\ AccountLayerWhole(chain)
    /\ path # "eoa" => chain.accountLayer.owner = "safe"

\* An upgrade interrupted at whatever point can be brought to its end by
\* running the scripts again and removing the file that makes them fail.
UpgradeCompletes == <>finished

\* What docs/production-upgrade.md says verifyBatchCalldata.ts checks: the cut
\* that passes is the one the facets now deployed would give.
VerifiedCutIsCurrent ==
  verdict.known /\ "diamondcut-calldata" \in verdict.labels /\ chain.routes = OldRoutes =>
    batch.cut = InChunks(BuildDiamondCut(chain.routes, files.facets.deployed), ChunkSize)
=============================================================================
