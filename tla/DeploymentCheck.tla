--------------------------- MODULE DeploymentCheck ---------------------------
(***************************************************************************)
(* The two tasks an operator runs on a deployment: check:deployment reads  *)
(* the contracts through their views and reports what is missing, and      *)
(* verify:all publishes the source of every contract the log files name.   *)
(* Both only read the chain; verify:all also keeps a list of failures.     *)
(***************************************************************************)
EXTENDS Deployment

\* The facets through which the task reads are among those that are cut.
ASSUME ViewsAssumption ==
  /\ {"DiamondLoupeFacet", "ViewFacet"} \subseteq ToSet(CoreFacets)
  /\ {"ALDiamondLoupeFacet", "ALViewFacet"} \subseteq ToSet(AccountFacets)

VARIABLES
  verification    \* the verify:all command and its list of failures

checkVars == <<config, chain, mempool, checkpoint, process, logs, bigBlocks, interrupts, verification>>

-----------------------------------------------------------------------------
(* check:deployment *)

\* One check and its outcome.
Result(check, status) == <<check, status>>
Check(check, ok, otherwise) == { Result(check, IF ok THEN "pass" ELSE otherwise) }
Failures(results) == { r[1] : r \in { q \in results : q[2] = "fail" } }
Warnings(results) == { r[1] : r \in { q \in results : q[2] = "warn" } }

\* A view call of a diamond reverts while its view facet is not cut: every
\* check made through it fails.
Through(answers, results) == IF answers THEN results ELSE { Result(r[1], "fail") : r \in results }
AnswersView(diamond) ==
  (IF diamond[1] = "diamond" THEN "ViewFacet" ELSE "ALViewFacet") \in FacetsOf(chain.facts, diamond)
AnswersLoupe(diamond) ==
  (IF diamond[1] = "diamond" THEN "DiamondLoupeFacet" ELSE "ALDiamondLoupeFacet") \in FacetsOf(chain.facts, diamond)

Holds(fact) == fact \in chain.facts
\* checkBool and checkAddress: the value is there, and it is the expected one.
IsSet(to, predicate, what) == \E f \in chain.facts : f[1] = to /\ f[2] = predicate /\ f[3] = what

\* checkRole, in the diamonds' and in OpenZeppelin's order of arguments, and
\* checkOzDefaultAdminRole.
CheckRole(contract, holder, role) ==
  Check(<<contract[1], role, holder[1]>>, HasRole(chain.facts, contract, role, holder), "fail")
CheckRoles(contract, holder, roles) == UNION { CheckRole(contract, holder, r) : r \in roles }

\* Without an address a group of checks is left out, or warned of.
Given(address, results) == IF address = Nobody THEN {} ELSE results
GivenAdmin(contract, admin, results) ==
  IF admin = Nobody THEN { Result(<<contract[1], "admin roles", "">>, "warn") } ELSE results

\* The owner must be the admin, or anybody when none is given; a transfer in
\* progress is a warning.
CheckDiamondOwner(diamond, admin) ==
  Through(AnswersView(diamond),
    Check(<<diamond[1], "owner", "">>,
          IF admin = Nobody THEN IsSet(diamond, "owner", "") ELSE Holds(Fact(diamond, "owner", "", admin)), "fail"))
  \cup IF AnswersView(diamond) /\ IsSet(diamond, "pendingOwner", "")
       THEN { Result(<<diamond[1], "pending owner", "">>, "warn") } ELSE {}

\* A mutant: it is enough that the loupe answers.
Mutant_CheckFacets_AnyCount(diamond, expected) ==
  Through(AnswersLoupe(diamond),
    Check(<<diamond[1], "facet count", "">>, Count(chain.facts, diamond, "facet") > 0, "warn"))

\* A missing facet is only a warning; a diamond without a loupe fails.
CheckFacets(diamond, expected) ==
  Through(AnswersLoupe(diamond),
    Check(<<diamond[1], "facet count", "">>, Count(chain.facts, diamond, "facet") = expected, "warn"))

\* Values that must not be zero, and three address parameters of which the fee
\* collector may be.
CoreParameters(diamond) ==
  UNION { Check(<<"diamond", "parameter", p.name>>, IsSet(diamond, "setParameter", p.name),
                IF p.name = "defaultFeeCollector" THEN "warn" ELSE "fail") : p \in ToSet(Parameters) }

CoreAddresses(diamond) ==
  Check(<<"diamond", "signature verifier", "">>, IsSet(diamond, "setSignatureVerifierAddress", ""), "fail")
  \cup Check(<<"diamond", "penalty collector", "">>, FALSE, "warn")
  \cup Check(<<"diamond", "insurance vault", "">>, FALSE, "warn")

CoreMuon(diamond) ==
  Check(<<"diamond", "muon config", "">>, IsSet(diamond, "setMuonConfig", ""), "warn")
  \cup Check(<<"diamond", "muon app", "">>, IsSet(diamond, "setMuonIds", ""), "warn")

CheckedRoles == ToSet(DiamondRoles) \ {"DEALLOCATE_COOLDOWN_SETTER_ROLE", "INSTANT_LAYER_ROLE"}
VerifyCoreRoles(a) ==
  GivenAdmin(a.diamond, a.admin, CheckRoles(a.diamond, a.admin, CheckedRoles))
  \cup Given(a.accountLayer, CheckRoles(a.diamond, a.accountLayer,
               {"SIGNER_ADMIN_ROLE", "AFFILIATE_MANAGER_ROLE", "BALANCE_SETTLER_ROLE"}))
  \cup Given(a.instantLayer, CheckRole(a.diamond, a.instantLayer, "INSTANT_LAYER_ROLE"))

VerifyCore(a) ==
  CheckFacets(a.diamond, Len(CoreFacets))
  \cup CheckDiamondOwner(a.diamond, a.admin)
  \cup Through(AnswersView(a.diamond),
         Check(<<"diamond", "collateral", "">>,
               IF a.collateral = Nobody THEN IsSet(a.diamond, "setCollateral", "")
               ELSE Holds(Fact(a.diamond, "setCollateral", "", a.collateral)), "fail")
         \cup CoreParameters(a.diamond) \cup CoreAddresses(a.diamond) \cup CoreMuon(a.diamond)
         \cup VerifyCoreRoles(a))

\* Facets, owner, roles and the whitelist of the account layer, and its hook
\* on the core.
VerifyAccountLayer(a) ==
  CheckFacets(a.accountLayer, Len(AccountFacets))
  \cup CheckDiamondOwner(a.accountLayer, a.admin)
  \cup Through(AnswersView(a.accountLayer),
         GivenAdmin(a.accountLayer, a.admin,
           CheckRoles(a.accountLayer, a.admin,
             {"DEFAULT_ADMIN_ROLE", "SETTER_ROLE", "APPROVER_ROLE", "PAUSER_ROLE", "UNPAUSER_ROLE"}))
         \cup Given(a.instantLayer, CheckRole(a.accountLayer, a.instantLayer, "SIGNER_SETTER_ROLE"))
         \cup Check(<<"accountLayer", "core whitelisted", "">>,
                    Holds(Fact(a.accountLayer, "setWhitelistedSymmioCore", "", a.diamond)), "fail"))
  \cup Through(AnswersView(a.diamond),
         Check(<<"accountLayer", "system hook", "">>,
               Holds(Fact(a.diamond, "registerHook", "", a.accountLayer)), "fail"))

VerifyInstantLayer(a) ==
  Given(a.accountLayer,
    Check(<<"instantLayer", "account layer", "">>,
          Holds(Fact(a.instantLayer, "setAccountLayer", "", a.accountLayer)), "fail")
    \cup Check(<<"instantLayer", "account layer whitelisted", "">>,
               Holds(Fact(a.instantLayer, "setTargetWhitelist", "accountLayer", a.accountLayer)), "fail"))
  \cup Check(<<"instantLayer", "diamond whitelisted", "">>,
             Holds(Fact(a.instantLayer, "setTargetWhitelist", "diamond", a.diamond)), "fail")
  \cup GivenAdmin(a.instantLayer, a.admin,
         CheckRoles(a.instantLayer, a.admin, {"DEFAULT_ADMIN_ROLE", "SETTER_ROLE"}))
  \cup UNION { Check(<<"instantLayer", "template", t>>, IsSet(a.instantLayer, "template", t), "fail") :
               t \in {"InstantOpen", "InstantClose", "InstantCloseWithAllocation"} }

VerifyPartyB(a) ==
  Check(<<"symmioPartyB", "symmio", "">>, Holds(Fact(a.partyB, "links", "diamond", a.diamond)), "fail")
  \cup Through(AnswersView(a.diamond),
         Check(<<"symmioPartyB", "registered", "diamond">>,
               Holds(Fact(a.diamond, "registerPartyB", "", a.partyB)), "fail"))
  \cup GivenAdmin(a.partyB, a.admin,
         CheckRoles(a.partyB, a.admin, {"DEFAULT_ADMIN_ROLE", "MANAGER_ROLE", "SETTER_ROLE"}))
  \cup Given(a.instantLayer,
         Check(<<"symmioPartyB", "registered", "instantLayer">>,
               Holds(Fact(a.instantLayer, "registerPartyBs", "", a.partyB)), "fail")
         \cup CheckRole(a.partyB, a.instantLayer, "TRUSTED_ROLE")
         \cup Check(<<"symmioPartyB", "multicast", "">>,
                    Holds(Fact(a.partyB, "setMulticastWhitelist", "", a.instantLayer)), "fail"))
  \cup Check(<<"symmioPartyB", "signer", "">>, IsSet(a.partyB, "setSigner", ""), "warn")

\* The addresses come from the checkpoint, which has no admin, or from the
\* report of a finished deployment, which names it.
FromCheckpoint(name) ==
  IF checkpoint.contracts[name] = 0 THEN Nobody ELSE At(name, checkpoint.contracts[name])
LoadAddressesFromCheckpoint ==
  [diamond |-> FromCheckpoint("diamond"), accountLayer |-> FromCheckpoint("accountLayer"),
   instantLayer |-> FromCheckpoint("instantLayer"), partyB |-> FromCheckpoint("symmioPartyB"),
   collateral |-> FromCheckpoint("collateral"), admin |-> Nobody]
LoadAddressesFromReport == [LoadAddressesFromCheckpoint EXCEPT !.admin = At(config.admin, 0)]

CheckDeployment(a) ==
  IF a.diamond = Nobody THEN {}
  ELSE VerifyCore(a)
       \cup Given(a.accountLayer, VerifyAccountLayer(a))
       \cup Given(a.instantLayer, VerifyInstantLayer(a))
       \cup Given(a.partyB, VerifyPartyB(a))

-----------------------------------------------------------------------------
(* verify:all *)

\* A list of the entries.
InSomeOrder(entries) ==
  LET list[i \in 0..Cardinality(entries)] ==
        IF i = 0 THEN <<>>
        ELSE LET shorter == list[i - 1]
             IN  Append(shorter, CHOOSE e \in entries : e \notin ToSet(shorter))
  IN  list[Cardinality(entries)]

\* The entries of the log files, in the order of the files.
Logged ==
  InSomeOrder(logs["stablecoin"]) \o InSomeOrder(logs["deployed"]) \o InSomeOrder(logs["accountlayer"])
  \o InSomeOrder(logs["instantlayer"]) \o InSomeOrder(logs["partyb"]) \o InSomeOrder(logs["symbolmanager"])

\* A run takes the whole list, the list from where a killed run had come
\* (--skip), or the failures of an earlier run (--retry-failed).
StartVerification(mode) ==
  /\ verification.mode = "idle" /\ process.mode = "done"
  /\ mode = "all" => verification.published = {}
  /\ mode = "skip" => verification.at > 0
  /\ mode = "retry" => verification.failedFile # {}
  /\ verification' = [verification EXCEPT !.mode = mode, !.failed = {},
       !.at = IF mode = "skip" THEN @ ELSE 0,
       !.todo = CASE mode = "all" -> Logged
                  [] mode = "skip" -> SubSeq(Logged, verification.at + 1, Len(Logged))
                  [] mode = "retry" -> InSomeOrder(verification.failedFile)]
  /\ UNCHANGED vars

\* The explorer publishes the source, says that it has it, or answers a third
\* attempt with an error, which may come after it published.
VerifyContract ==
  /\ verification.todo # <<>>
  /\ LET entry == Head(verification.todo)
         next == [verification EXCEPT !.todo = Tail(@), !.at = @ + 1]
     IN \/ verification' = [next EXCEPT !.published = @ \cup {entry}] /\ UNCHANGED interrupts
        \/ /\ interrupts < MaxInterrupts /\ interrupts' = interrupts + 1
           /\ verification' \in { [next EXCEPT !.failed = @ \cup {entry}],
                                  [next EXCEPT !.failed = @ \cup {entry}, !.published = @ \cup {entry}] }
  /\ UNCHANGED <<config, chain, mempool, checkpoint, process, logs, bigBlocks>>

\* A mutant: only a retry writes the list.
Mutant_FinishVerification_RetryOnly ==
  /\ verification.mode # "idle" /\ verification.todo = <<>>
  /\ verification' = [verification EXCEPT !.mode = "idle", !.at = 0, !.failed = {},
       !.whole = IF verification.mode = "retry" THEN @ ELSE verification.mode = "all",
       !.failedFile = CASE verification.failed # {} /\ verification.mode = "retry" -> verification.failed
                        [] verification.failed = {} /\ verification.mode = "retry" -> {}
                        [] OTHER -> @]
  /\ UNCHANGED vars

\* The list of failures is written at the end, and removed by a retry that
\* has none.
FinishVerification ==
  /\ verification.mode # "idle" /\ verification.todo = <<>>
  /\ verification' = [verification EXCEPT !.mode = "idle", !.at = 0, !.failed = {},
       !.whole = IF verification.mode = "retry" THEN @ ELSE verification.mode = "all",
       !.failedFile = CASE verification.failed # {} -> verification.failed
                        [] verification.failed = {} /\ verification.mode = "retry" -> {}
                        [] OTHER -> @]
  /\ UNCHANGED vars

\* Killed, the run leaves no list.
KillVerification ==
  /\ verification.mode # "idle"
  /\ interrupts < MaxInterrupts /\ interrupts' = interrupts + 1
  /\ verification' = [verification EXCEPT !.mode = "idle", !.todo = <<>>, !.failed = {}]
  /\ UNCHANGED <<config, chain, mempool, checkpoint, process, logs, bigBlocks>>

-----------------------------------------------------------------------------
(* Specification *)

CheckInit ==
  /\ Init
  /\ verification = [mode |-> "idle", todo |-> <<>>, at |-> 0, whole |-> FALSE,
                     failed |-> {}, published |-> {}, failedFile |-> {}]

CheckNext ==
  \/ Next /\ UNCHANGED verification
  \/ \E mode \in {"all", "skip", "retry"} : StartVerification(mode)
  \/ VerifyContract \/ FinishVerification \/ KillVerification

CheckSpec == CheckInit /\ [][CheckNext]_checkVars

\* The operator runs the command again after every stop, the process and the
\* chain go on; nobody need verify.
FairCheckSpec ==
  /\ CheckSpec
  /\ WF_checkVars((Start(FALSE) \/ Work) /\ UNCHANGED verification)
  /\ WF_checkVars(Mine /\ UNCHANGED verification)

-----------------------------------------------------------------------------
(* Properties *)

\* Effects the later chunks of a half-done cut would have brought.
Uncut(diamond, facets) == \E n \in ToSet(facets) : n \notin FacetsOf(chain.facts, diamond)

\* A completed deployment passes the health check on the addresses and the
\* admin of its report, once its last transactions are mined, as far as the
\* configuration deployed what is checked: each setter the plan must have
\* called for a value the check reads (setupSystem against verify*Full).
CompletedPassesCheck ==
  process.mode = "done" /\ mempool = <<>> =>
    LET a == LoadAddressesFromReport
    IN \A r \in Failures(CheckDeployment(a)) :
         \/ Uncut(a.diamond, CoreFacets) \/ Uncut(a.accountLayer, AccountFacets)
         \/ r[2] = "template" /\ ~config.templates
         \/ r[2] = "owner" /\ r[1] = "accountLayer" /\ config.admin # "deployer"
         \/ r[2] = "owner" /\ r[1] = "diamond" /\ config.admin # "deployer"

UnsetByDesign == {<<"diamond", "penalty collector", "">>, <<"diamond", "insurance vault", "">>}

\* And a check with no failure, and no warning but the ones about values no
\* deployment sets, was made on a system whose diamonds hold every facet and
\* whose contracts point to one another.
CleanCheckMeansReady ==
  LET a == LoadAddressesFromReport
  IN Nobody \notin {a.diamond, a.accountLayer, a.instantLayer} =>
       \/ /\ ~Uncut(a.diamond, CoreFacets) /\ ~Uncut(a.accountLayer, AccountFacets)
          /\ HasRole(chain.facts, a.diamond, "INSTANT_LAYER_ROLE", a.instantLayer)
          /\ Fact(a.diamond, "registerHook", "", a.accountLayer) \in chain.facts
          /\ Fact(a.instantLayer, "links", "diamond", a.diamond) \in chain.facts
       \/ Failures(CheckDeployment(a)) # {}
       \/ ~(Warnings(CheckDeployment(a)) \subseteq UnsetByDesign)

\* After a complete run of verify:all, and any retries of its failures, each
\* logged contract is published or still in the list to retry.
VerifiedOrListed ==
  verification.whole => ToSet(Logged) \subseteq verification.published \cup verification.failedFile
=============================================================================
