-------------------------- MODULE DeploymentProofs --------------------------
(***************************************************************************)
(* Machine-checked facts about the deployment and its health check, for    *)
(* every value of the constants: in whatever way runs are interrupted,     *)
(* what the checkpoint says was done is true of the chain once everything  *)
(* that was sent is mined.  First transactions and how they build up, then *)
(* the plan of every configuration, the invariant, and a lemma per action; *)
(* at the end verify:all, and what a health check of the result can say.   *)
(***************************************************************************)
EXTENDS DeploymentCheck, FiniteSetTheorems, WellFoundedInduction, TLAPS

----------------------------------------------------------------------------
(* Least numbers, and what transactions leave when they are all mined      *)

LEMMA LeastNatural ==
  ASSUME NEW T, T \subseteq Nat, T # {}
  PROVE  \E x \in T : \A y \in T : x <= y
<1>. DEFINE R == { p \in Nat \X Nat : p[1] < p[2] }
<1>1. IsWellFoundedOn(R, Nat)
  BY NatLessThanWellFounded DEF OpToRel
<1>2. PICK x \in T : \A y \in T : ~(<<y, x>> \in R)
  BY <1>1, WFMin
<1>3. \A y \in T : x <= y
  <2>. TAKE y \in T
  <2>1. x \in Nat /\ y \in Nat /\ <<y, x>> \in Nat \X Nat
    OBVIOUS
  <2>. QED  BY <1>2, <2>1
<1>. QED  BY <1>3

\* r holds the state after each of the first n transactions.
RunOf(r, n, state, txs) ==
  r = [i \in 0..n |-> IF i = 0 THEN state ELSE Apply(r[i - 1], txs[i])]

LEMMA RunFacts ==
  ASSUME NEW r, NEW n \in Nat, NEW state, NEW txs, RunOf(r, n, state, txs)
  PROVE  /\ DOMAIN r = 0..n /\ r[0] = state
         /\ \A i \in 1..n : r[i] = Apply(r[i - 1], txs[i])
<1>1. DOMAIN r = 0..n /\ \A i \in 0..n : r[i] = IF i = 0 THEN state ELSE Apply(r[i - 1], txs[i])
  BY DEF RunOf
<1>. QED  BY <1>1

LEMMA RunMade ==
  ASSUME NEW r, NEW n \in Nat, NEW state, NEW txs, r = [i \in 0..n |-> r[i]], r[0] = state,
         \A i \in 1..n : r[i] = Apply(r[i - 1], txs[i])
  PROVE  RunOf(r, n, state, txs)
<1>1. \A i \in 0..n : r[i] = IF i = 0 THEN state ELSE Apply(r[i - 1], txs[i])
  <2>. TAKE i \in 0..n
  <2>1. i = 0 \/ i \in 1..n
    OBVIOUS
  <2>. QED  BY <2>1
<1>. QED  BY <1>1 DEF RunOf

\* One more transaction.
LEMMA RunLonger ==
  ASSUME NEW r, NEW n \in Nat, NEW state, NEW txs, NEW more, RunOf(r, n, state, txs),
         \A i \in 1..n : more[i] = txs[i]
  PROVE  LET s == [i \in 0..(n + 1) |-> IF i = n + 1 THEN Apply(r[n], more[n + 1]) ELSE r[i]]
         IN  RunOf(s, n + 1, state, more) /\ s[n] = r[n]
<1>. DEFINE s == [i \in 0..(n + 1) |-> IF i = n + 1 THEN Apply(r[n], more[n + 1]) ELSE r[i]]
<1>1. /\ DOMAIN r = 0..n /\ r[0] = state
      /\ \A i \in 1..n : r[i] = Apply(r[i - 1], txs[i])
  BY RunFacts
<1>2. s = [i \in 0..(n + 1) |-> s[i]] /\ s[0] = state /\ s[n] = r[n]
  BY <1>1
<1>3. \A i \in 1..(n + 1) : s[i] = Apply(s[i - 1], more[i])
  <2>. TAKE i \in 1..(n + 1)
  <2>1. CASE i = n + 1
    BY <2>1, <1>2
  <2>2. CASE i # n + 1
    <3>1. i \in 1..n /\ i - 1 \in 0..n /\ i \in 0..(n + 1) /\ i - 1 \in 0..(n + 1) /\ i - 1 # n + 1
      BY <2>2
    <3>2. s[i] = r[i] /\ s[i - 1] = r[i - 1] /\ more[i] = txs[i]
      BY <3>1, <2>2
    <3>. QED  BY <3>1, <3>2, <1>1
  <2>. QED  BY <2>1, <2>2
<1>. HIDE DEF s
<1>4. RunOf(s, n + 1, state, more)
  <2>1. n + 1 \in Nat
    OBVIOUS
  <2>. QED  BY <1>2, <1>3, <2>1, RunMade
<1>. QED  BY <1>2, <1>4 DEF s

LEMMA RunExists ==
  ASSUME NEW n \in Nat, NEW state, NEW txs
  PROVE  \E r : RunOf(r, n, state, txs)
<1>. DEFINE Bad == { k \in Nat : ~\E r : RunOf(r, k, state, txs) }
<1>1. SUFFICES Bad = {}
  OBVIOUS
<1>2. SUFFICES ASSUME Bad # {} PROVE FALSE
  OBVIOUS
<1>3. PICK m \in Bad : \A k \in Bad : m <= k
  BY <1>2, LeastNatural
<1>4. CASE m = 0
  <2>1. RunOf([i \in 0..0 |-> state], 0, state, txs)
    BY DEF RunOf
  <2>. QED  BY <2>1, <1>3, <1>4
<1>5. CASE m # 0
  <2>1. m - 1 \in Nat /\ m - 1 \notin Bad
    BY <1>3, <1>5
  <2>2. PICK r : RunOf(r, m - 1, state, txs)
    BY <2>1
  <2>3. \E s : RunOf(s, (m - 1) + 1, state, txs)
    BY <2>1, <2>2, RunLonger
  <2>4. (m - 1) + 1 = m
    BY <2>1, <1>3
  <2>. QED  BY <2>3, <2>4, <1>3
<1>. QED  BY <1>4, <1>5

LEMMA RunUnique ==
  ASSUME NEW n \in Nat, NEW state, NEW txs, NEW r, NEW s, RunOf(r, n, state, txs), RunOf(s, n, state, txs)
  PROVE  r[n] = s[n]
<1>. DEFINE Bad == { k \in 0..n : r[k] # s[k] }
<1>1. /\ r[0] = s[0]
      /\ \A i \in 1..n : r[i] = Apply(r[i - 1], txs[i]) /\ s[i] = Apply(s[i - 1], txs[i])
  BY RunFacts
<1>2. SUFFICES ASSUME Bad # {} PROVE FALSE
  OBVIOUS
<1>3. PICK m \in Bad : \A k \in Bad : m <= k
  <2>1. Bad \subseteq Nat
    OBVIOUS
  <2>. QED  BY <1>2, <2>1, LeastNatural
<1>4. m \in 1..n /\ m - 1 \in 0..n /\ m - 1 \notin Bad
  BY <1>1, <1>3
<1>. QED  BY <1>1, <1>3, <1>4

\* The state in which a run of all transactions ends.
LEMMA ReplayRuns ==
  ASSUME NEW state, NEW txs, Len(txs) \in Nat, NEW r, RunOf(r, Len(txs), state, txs)
  PROVE  Replay(state, txs) = r[Len(txs)]
<1>. DEFINE after == CHOOSE g : g = [i \in 0..Len(txs) |-> IF i = 0 THEN state ELSE Apply(g[i - 1], txs[i])]
<1>1. RunOf(after, Len(txs), state, txs)
  BY DEF RunOf
<1>2. Replay(state, txs) = after[Len(txs)]
  BY DEF Replay
<1>. HIDE DEF after
<1>. QED  BY <1>1, <1>2, RunUnique

LEMMA ReplayNothing ==
  ASSUME NEW state
  PROVE  Replay(state, <<>>) = state
<1>1. Len(<<>>) = 0
  OBVIOUS
<1>2. PICK r : RunOf(r, 0, state, <<>>)
  BY RunExists
<1>3. r[0] = state
  BY <1>2, RunFacts
<1>. QED  BY <1>1, <1>2, <1>3, ReplayRuns

\* Sending another transaction applies it to the outcome.
LEMMA ReplaySent ==
  ASSUME NEW state, NEW S, NEW txs \in Seq(S), NEW tx
  PROVE  Replay(state, Append(txs, tx)) = Apply(Replay(state, txs), tx)
<1>. DEFINE n == Len(txs)  more == Append(txs, tx)
<1>1. n \in Nat /\ Len(more) = n + 1 /\ more[n + 1] = tx /\ \A i \in 1..n : more[i] = txs[i]
  OBVIOUS
<1>2. PICK r : RunOf(r, n, state, txs)
  BY <1>1, RunExists
<1>. DEFINE s == [i \in 0..(n + 1) |-> IF i = n + 1 THEN Apply(r[n], more[n + 1]) ELSE r[i]]
<1>. HIDE DEF n, more
<1>3. RunOf(s, n + 1, state, more)
  BY <1>1, <1>2, RunLonger
<1>4. s[n + 1] = Apply(r[n], more[n + 1])
  BY <1>1
<1>. HIDE DEF s
<1>5. Replay(state, txs) = r[n]
  BY <1>1, <1>2, ReplayRuns DEF n
<1>6. Replay(state, more) = s[n + 1]
  BY <1>1, <1>3, ReplayRuns DEF n
<1>. QED  BY <1>1, <1>4, <1>5, <1>6 DEF more

\* Mining the first one does not change it.
LEMMA ReplayMined ==
  ASSUME NEW state, NEW S, NEW txs \in Seq(S), txs # <<>>
  PROVE  Replay(Apply(state, Head(txs)), Tail(txs)) = Replay(state, txs)
<1>. DEFINE n == Len(txs) - 1  rest == Tail(txs)  next == Apply(state, Head(txs))
<1>1. /\ n \in Nat /\ Len(txs) = n + 1 /\ Len(rest) = n /\ Head(txs) = txs[1]
      /\ \A i \in 1..n : rest[i] = txs[i + 1]
  OBVIOUS
<1>2. PICK r : RunOf(r, n + 1, state, txs)
  BY <1>1, RunExists
<1>3. r[0] = state /\ \A i \in 1..(n + 1) : r[i] = Apply(r[i - 1], txs[i])
  BY <1>1, <1>2, RunFacts
<1>. DEFINE s == [i \in 0..n |-> r[i + 1]]
<1>4. RunOf(s, n, next, rest)
  <2>1. s = [i \in 0..n |-> s[i]]
    OBVIOUS
  <2>2. s[0] = next
    BY <1>1, <1>3
  <2>3. \A i \in 1..n : s[i] = Apply(s[i - 1], rest[i])
    <3>. TAKE i \in 1..n
    <3>1. s[i] = r[i + 1] /\ s[i - 1] = r[i] /\ i + 1 \in 1..(n + 1) /\ (i + 1) - 1 = i
      BY <1>1
    <3>. HIDE DEF s, n, rest, next
    <3>2. r[i + 1] = Apply(r[(i + 1) - 1], txs[i + 1])
      BY <1>3, <3>1
    <3>. QED  BY <3>1, <3>2, <1>1
  <2>. HIDE DEF s, rest, next
  <2>. QED  BY <1>1, <2>1, <2>2, <2>3, RunMade
<1>5. s[n] = r[n + 1]
  BY <1>1
<1>. HIDE DEF s, n, rest, next
<1>6. Replay(next, rest) = s[n]
  BY <1>1, <1>4, ReplayRuns
<1>7. Replay(state, txs) = r[n + 1]
  BY <1>1, <1>2, ReplayRuns
<1>. QED  BY <1>5, <1>6, <1>7 DEF next, rest

----------------------------------------------------------------------------
(* What a plan is made of                                                  *)

\* The contracts of a system that its configuration speaks of.
Located(c) ==
  {"collateral", "diamond", "signatureVerifier", "accountLayer", "instantLayer"}
  \cup (IF c.deployPartyB THEN {"symmioPartyB"} ELSE {})
  \cup (IF c.deploySymbolManager THEN {"symbolManager"} ELSE {})

SystemFunctions ==
  {"setAdmin", "grantRole", "registerHook", "setWhitelistedSymmioCore", "setAccountLayer",
   "setSignatureVerifierAddress", "addPublicKey", "addGatewaySigner", "setMuonIds", "setMuonConfig",
   "setCollateral", "setParameter", "setTargetWhitelist", "registerPartyB", "setADLEnabled",
   "setMulticastWhitelist", "setSigner", "registerPartyBs"}
TemplateFunctions == {"addTemplate", "setTemplateInstantOpenMode"}
PlanFunctions ==
  SystemFunctions \cup TemplateFunctions \cup {"approveAffiliate", "transferOwnership", "acceptOwnership"}

SectionFlags == {"systemRoles", "instantLayerTemplates", "dummyAffiliate"}
Deployable == Contracts \ {"accountManager"}
\* The contracts a configuration may name instead of having them deployed.
Nameable == {"collateral", "signatureVerifier"}

\* The contracts that are given the address of the core diamond and keep it.
Attached == {"instantLayer", "symmioPartyB"}
CutSteps == { Cut("diamond", CoreFacets, CoreChunk), Cut("accountLayer", AccountFacets, AccountChunk) }
ViewsStep == [kind |-> "views", key |-> <<"verifyMuonViews", "">>, flag |-> "systemRoles"]
RegisterStep == [kind |-> "register", key |-> <<"register", "">>, flag |-> "dummyAffiliate"]
FinishStep == [kind |-> "finish"]

\* The calls a key stands for.
CallsOf(c, key) ==
  LET one(to, fn, what, who) == << Call(to, fn, what, who) >>
      grant(to, role, who) == << Grant(to, role, who) >>
      item == key[2]
  IN CASE key[1] = "setDeployerAdmin" -> one("diamond", "setAdmin", "", "deployer")
       [] key[1] = "setAdmin" -> one("diamond", "setAdmin", "", c.admin)
       [] key[1] = "diamondRoles" -> grant("diamond", item, c.admin)
       [] key[1] = "alRolesOnDiamond" ->
            << Grant("diamond", "SIGNER_ADMIN_ROLE", "accountLayer"),
               Grant("diamond", "AFFILIATE_MANAGER_ROLE", "accountLayer"),
               Grant("diamond", "BALANCE_SETTLER_ROLE", "accountLayer") >>
       [] key[1] = "registerHook" -> one("diamond", "registerHook", "", "accountLayer")
       [] key[1] = "ilRoleOnDiamond" -> grant("diamond", "INSTANT_LAYER_ROLE", "instantLayer")
       [] key[1] = "alDefaultAdmin" -> grant("accountLayer", "DEFAULT_ADMIN_ROLE", c.admin)
       [] key[1] = "alAdminRoles" ->
            << Grant("accountLayer", "SETTER_ROLE", c.admin), Grant("accountLayer", "APPROVER_ROLE", c.admin),
               Grant("accountLayer", "PAUSER_ROLE", c.admin), Grant("accountLayer", "UNPAUSER_ROLE", c.admin) >>
       [] key[1] = "ilRoleOnAL" -> grant("accountLayer", "SIGNER_SETTER_ROLE", "instantLayer")
       [] key[1] = "alWhitelistSymmio" -> one("accountLayer", "setWhitelistedSymmioCore", "", "diamond")
       [] key[1] = "ilSetAccountLayer" -> one("instantLayer", "setAccountLayer", "", "accountLayer")
       [] key[1] = "setSignatureVerifier" ->
            one("diamond", "setSignatureVerifierAddress", "", "signatureVerifier")
       [] key[1] = "msvDefaultAdmin" -> grant("signatureVerifier", "DEFAULT_ADMIN_ROLE", c.admin)
       [] key[1] = "msvSetterRole" -> grant("signatureVerifier", "SETTER_ROLE", c.admin)
       [] key[1] = "msvPublicKey" -> one("signatureVerifier", "addPublicKey", "", "muonKey")
       [] key[1] = "msvGatewaySigners" -> one("signatureVerifier", "addGatewaySigner", item, item)
       [] key[1] = "muonSetterOnDeployer" -> grant("diamond", "MUON_SETTER_ROLE", "deployer")
       [] key[1] = "setMuonIds" -> one("diamond", "setMuonIds", "", "muonApp")
       [] key[1] = "setMuonConfig" -> one("diamond", "setMuonConfig", "", "validity")
       [] key[1] = "setCollateral" -> one("diamond", "setCollateral", "", "collateral")
       [] key[1] = "parameter" -> one("diamond", "setParameter", item, "value")
       [] key[1] = "ilDefaultAdmin" -> grant("instantLayer", "DEFAULT_ADMIN_ROLE", c.admin)
       [] key[1] = "ilGrantSetterRole" -> grant("instantLayer", "SETTER_ROLE", c.admin)
       [] key[1] = "ilWhitelistDiamond" -> one("instantLayer", "setTargetWhitelist", "diamond", "diamond")
       [] key[1] = "ilWhitelistAL" ->
            one("instantLayer", "setTargetWhitelist", "accountLayer", "accountLayer")
       [] key[1] = "registerPartyB" -> one("diamond", "registerPartyB", "", "symmioPartyB")
       [] key[1] = "setAdlEnabled" -> one("diamond", "setADLEnabled", "", "symmioPartyB")
       [] key[1] = "pbDefaultAdmin" -> grant("symmioPartyB", "DEFAULT_ADMIN_ROLE", c.admin)
       [] key[1] = "pbTrustedRole" -> grant("symmioPartyB", "TRUSTED_ROLE", "instantLayer")
       [] key[1] = "pbManagerRole" -> grant("symmioPartyB", "MANAGER_ROLE", c.admin)
       [] key[1] = "pbSetterRole" -> grant("symmioPartyB", "SETTER_ROLE", c.admin)
       [] key[1] = "pbMulticastWhitelist" ->
            one("symmioPartyB", "setMulticastWhitelist", "", "instantLayer")
       [] key[1] = "pbSetSigner" -> one("symmioPartyB", "setSigner", "", "signer")
       [] key[1] = "ilRegisterPartyB" -> one("instantLayer", "registerPartyBs", "", "symmioPartyB")
       [] key[1] = "smGrantSymbolManagerRole" -> grant("diamond", "SYMBOL_MANAGER_ROLE", "symbolManager")
       [] key[1] = "smGrantForceCloseGapRatioRole" ->
            grant("diamond", "FORCE_CLOSE_GAP_RATIO_ADMIN_ROLE", "symbolManager")
       [] key[1] = "smGrantAdderRole" -> grant("symbolManager", "SYMBOL_ADDER_ROLE", "operator")
       [] key[1] = "smGrantRemoverRole" -> grant("symbolManager", "SYMBOL_REMOVER_ROLE", "operator")
       [] key[1] = "instantOpen" -> one("instantLayer", "addTemplate", "InstantOpen", "")
       [] key[1] = "instantOpenMode" -> one("instantLayer", "setTemplateInstantOpenMode", "", "template")
       [] key[1] = "instantClose" -> one("instantLayer", "addTemplate", "InstantClose", "")
       [] key[1] = "instantCloseWithAllocation" ->
            one("instantLayer", "addTemplate", "InstantCloseWithAllocation", "")
       [] key[1] = "approve" -> one("accountLayer", "approveAffiliate", "", "accountManager")
       [] key[1] = "transferOwnership" -> one("diamond", "transferOwnership", "", c.admin)
       [] key[1] = "acceptOwnership" -> one("diamond", "acceptOwnership", "", "deployer")
       [] OTHER -> <<>>

InstantOpenStep == Setup("instantOpen", << Call("instantLayer", "addTemplate", "InstantOpen", "") >>,
                         "instantLayerTemplates")
ApproveStep == Setup("approve", << Call("accountLayer", "approveAffiliate", "", "accountManager") >>,
                     "dummyAffiliate")
TransferStep(c) == Setup("transferOwnership", << Call("diamond", "transferOwnership", "", c.admin) >>, "")

\* What a call of the plan is, whatever its place.
CallFits(c, st, call, before) ==
  /\ st.ensure => call.fn \in {"addPublicKey", "addGatewaySigner"}
  /\ call.fn \in {"registerPartyB", "registerPartyBs"} => call.what = ""
  /\ call.fn \in PlanFunctions /\ call.to \in Located(c)
  /\ call.who \in Located(c) \/ call.who \notin Contracts \/ call.who = "accountManager"
  /\ call.who = "accountManager" => st.key = <<"approve", "">>
  /\ call.fn = "addTemplate" => /\ call.to = "instantLayer"
                                /\ call.what # "InstantOpen" => InstantOpenStep \in before
  /\ call.fn = "setTemplateInstantOpenMode" => call.who = "template"
  /\ call.fn = "transferOwnership" => call.who = c.admin /\ st.key = <<"transferOwnership", "">>
  /\ call.fn = "acceptOwnership" => c.admin = "deployer" /\ st.key = <<"acceptOwnership", "">>

\* The contracts that are recorded once these steps were taken.
Guarded(before) ==
  { st.guard : st \in { s \in before : s.kind = "record" \/ (s.kind = "deploy" /\ s.name = s.guard) } }

\* The keys of the steps that make the calls the health check asks about.
Plain(key) == <<key, "">>
CoreKeys ==
  { <<"diamondRoles", r>> : r \in ToSet(DiamondRoles) }
  \cup {Plain("alRolesOnDiamond"), Plain("registerHook"), Plain("ilRoleOnDiamond")}
AccountKeys ==
  {Plain("alDefaultAdmin"), Plain("alAdminRoles"), Plain("ilRoleOnAL"), Plain("alWhitelistSymmio"),
   Plain("ilSetAccountLayer")}
VerifierKeys == {Plain("setSignatureVerifier")}
ParameterKeys == {Plain("setCollateral")} \cup { <<"parameter", p.name>> : p \in ToSet(Parameters) }
InstantKeys ==
  {Plain("ilDefaultAdmin"), Plain("ilGrantSetterRole"), Plain("ilWhitelistDiamond"), Plain("ilWhitelistAL")}
PartyBKeys ==
  {Plain("registerPartyB"), Plain("pbDefaultAdmin"), Plain("pbTrustedRole"), Plain("pbManagerRole"),
   Plain("pbSetterRole"), Plain("pbMulticastWhitelist"), Plain("ilRegisterPartyB")}
TemplateKeys == {Plain("instantOpen"), Plain("instantClose"), Plain("instantCloseWithAllocation")}
WantedKeys(c) ==
  CoreKeys \cup AccountKeys \cup VerifierKeys \cup ParameterKeys \cup InstantKeys
  \cup (IF c.deployPartyB THEN PartyBKeys ELSE {}) \cup (IF c.templates THEN TemplateKeys ELSE {})

KeysIn(S) == { st.key : st \in { x \in S : x.kind = "calls" } }

\* What was done before the report: every contract is recorded, and the steps
\* that make these calls were taken.
Prepared(c, before) == Located(c) \subseteq Guarded(before) /\ WantedKeys(c) \subseteq KeysIn(before)

\* What a step of the plan is, and what it may rely on: the steps before it.
IsSequence(s) == \E S : s \in Seq(S)
StepFits(c, st, before) ==
  /\ st.kind = "deploy" =>
       /\ st.name \in Deployable /\ st.guard \in Deployable
       /\ st.name = st.guard \/ st.name = "partyBImplementation"
       /\ st.links \subseteq Guarded(before) \cup {"partyBImplementation"}
       /\ st.name \in Nameable => st.links = {}
       /\ st.name \in Attached => "diamond" \in st.links
       /\ st.guard = "symmioPartyB" => c.deployPartyB
  /\ st.kind = "write" => IsFiniteSet(st.names)
  /\ st.kind = "record" => st.guard \in Existing(c)
  /\ st.kind = "cut" => st \in CutSteps
  /\ st.kind = "views" => st = ViewsStep
  /\ st.kind = "register" => st = RegisterStep
  /\ st.kind = "flag" => \E f \in SectionFlags : st = Flag(f) /\ (f = "dummyAffiliate" => ApproveStep \in before)
  /\ st.kind = "finish" => st = FinishStep /\ Prepared(c, before)
  /\ st.kind \in {"calls", "views", "register", "flag"} => Located(c) \subseteq Guarded(before)
  /\ st.kind \in {"calls", "views", "register"} => Flag(st.flag) \notin before
  /\ st.kind = "calls" =>
       /\ IsSequence(st.calls) /\ st.calls = CallsOf(c, st.key)
       /\ st.key \notin {ViewsStep.key, RegisterStep.key}
       /\ st.key = <<"approve", "">> => RegisterStep \in before /\ st = ApproveStep
       /\ st.key = <<"transferOwnership", "">> => st = TransferStep(c)
       /\ st.key = <<"acceptOwnership", "">> => TransferStep(c) \in before /\ st.flag = ""
       /\ \A j \in DOMAIN st.calls : CallFits(c, st, st.calls[j], before)

Before(s, i) == { s[k] : k \in 1..(i - 1) }
FitsAfter(c, before, s) == IsSequence(s) /\ \A i \in DOMAIN s : StepFits(c, s[i], before \cup Before(s, i))

LEMMA SequencesInARow ==
  ASSUME NEW s, NEW t, IsSequence(s), IsSequence(t)
  PROVE  /\ IsSequence(s \o t)
         /\ Len(s) \in Nat /\ Len(t) \in Nat /\ DOMAIN s = 1..Len(s) /\ DOMAIN t = 1..Len(t)
         /\ DOMAIN (s \o t) = 1..(Len(s) + Len(t)) /\ \A i \in 1..Len(s) : (s \o t)[i] = s[i]
         /\ \A i \in 1..Len(t) : (s \o t)[Len(s) + i] = t[i]
<1>1. PICK S : s \in Seq(S)
  BY DEF IsSequence
<1>2. PICK T : t \in Seq(T)
  BY DEF IsSequence
<1>3. s \in Seq(S \cup T) /\ t \in Seq(S \cup T)
  BY <1>1, <1>2
<1>4. s \o t \in Seq(S \cup T)
  BY <1>3
<1>. QED  BY <1>3, <1>4 DEF IsSequence

LEMMA OneMore ==
  ASSUME NEW s, NEW t, IsSequence(s), IsSequence(t), Len(t) = 1
  PROVE  /\ Len(s) \in Nat /\ DOMAIN (s \o t) = 1..(Len(s) + 1)
         /\ (s \o t)[Len(s) + 1] = t[1]
<1>1. /\ Len(s) \in Nat /\ DOMAIN (s \o t) = 1..(Len(s) + Len(t))
      /\ \A i \in 1..Len(t) : (s \o t)[Len(s) + i] = t[i]
  BY SequencesInARow
<1>2. 1 \in 1..Len(t)
  OBVIOUS
<1>3. (s \o t)[Len(s) + 1] = t[1]
  BY <1>1, <1>2
<1>. QED  BY <1>1, <1>3

\* Two parts of a plan in a row.
LEMMA PartsInARow ==
  ASSUME NEW c, NEW before, NEW s, NEW t,
         FitsAfter(c, before, s), FitsAfter(c, before \cup ToSet(s), t)
  PROVE  /\ FitsAfter(c, before, s \o t)
         /\ ToSet(s \o t) = ToSet(s) \cup ToSet(t)
<1>. DEFINE m == Len(s)  n == Len(t)  u == s \o t
<1>1. /\ m \in Nat /\ n \in Nat /\ DOMAIN s = 1..m /\ DOMAIN t = 1..n /\ IsSequence(u)
      /\ DOMAIN u = 1..(m + n) /\ \A i \in 1..m : u[i] = s[i]
      /\ \A i \in 1..n : u[m + i] = t[i]
  BY SequencesInARow DEF FitsAfter
<1>2. \A i \in 1..(m + n) : i \in 1..m \/ (i - m \in 1..n /\ m + (i - m) = i)
  BY <1>1
<1>3. \A i \in 1..m : m + n >= i
  BY <1>1
<1>8. \A i \in 1..n : t[i] = u[m + i] /\ m + i \in 1..(m + n)
  BY <1>1
<1>9. m \in Nat /\ n \in Nat /\ DOMAIN s = 1..m /\ DOMAIN t = 1..n /\ DOMAIN u = 1..(m + n)
  BY <1>1
<1>. HIDE DEF m, n, u
<1>4. ToSet(u) = ToSet(s) \cup ToSet(t)
  <2>1. \A x \in ToSet(u) : x \in ToSet(s) \cup ToSet(t)
    <3>. SUFFICES ASSUME NEW i \in 1..(m + n) PROVE u[i] \in ToSet(s) \cup ToSet(t)
      BY <1>1 DEF ToSet
    <3>1. CASE i \in 1..m
      BY <3>1, <1>1 DEF ToSet
    <3>2. CASE i \notin 1..m
      <4>1. PICK j \in 1..n : m + j = i
        BY <3>2, <1>2
      <4>2. u[i] = t[j] /\ j \in DOMAIN t
        BY <4>1, <1>8, <1>9
      <4>. QED  BY <4>2 DEF ToSet
    <3>. QED  BY <3>1, <3>2
  <2>2. \A x \in ToSet(s) : x \in ToSet(u)
    BY <1>1 DEF ToSet
  <2>3. \A i \in 1..n : m + i \in 1..(m + n)
    BY <1>1
  <2>4. \A x \in ToSet(t) : x \in ToSet(u)
    <3>. SUFFICES ASSUME NEW i \in 1..n PROVE t[i] \in ToSet(u)
      BY <1>1 DEF ToSet
    <3>1. t[i] = u[m + i] /\ m + i \in DOMAIN u
      BY <1>8, <1>9
    <3>. QED  BY <3>1 DEF ToSet
  <2>. QED  BY <2>1, <2>2, <2>4
<1>5. ASSUME NEW i \in 1..m PROVE StepFits(c, u[i], before \cup Before(u, i))
  <2>1. \A k \in 1..(i - 1) : k \in 1..m
    BY <1>1
  <2>2. Before(u, i) = Before(s, i)
    BY <1>1, <2>1 DEF Before
  <2>. QED  BY <1>1, <2>2 DEF FitsAfter
<1>6. ASSUME NEW i \in 1..n PROVE StepFits(c, u[m + i], before \cup Before(u, m + i))
  <2>1. \A k \in 1..(m + i - 1) : k \in 1..m \/ (k - m \in 1..(i - 1) /\ m + (k - m) = k)
    BY <1>1
  <2>2. \A k \in 1..(i - 1) : m + k \in 1..(m + i - 1) /\ k \in 1..n
    BY <1>1
  <2>3. \A k \in 1..m : k \in 1..(m + i - 1)
    BY <1>1
  <2>4. Before(u, m + i) = ToSet(s) \cup Before(t, i)
    <3>1. \A k \in 1..(m + i - 1) : u[k] \in ToSet(s) \cup Before(t, i)
      <4>. TAKE k \in 1..(m + i - 1)
      <4>1. CASE k \in 1..m
        BY <4>1, <1>1 DEF ToSet
      <4>2. CASE k \notin 1..m
        <5>1. PICK j \in 1..(i - 1) : m + j = k
          BY <4>2, <2>1
        <5>2. u[k] = t[j]
          BY <5>1, <1>8, <2>2
        <5>. QED  BY <5>2 DEF Before
      <4>. QED  BY <4>1, <4>2, <2>1
    <3>2. \A k \in 1..m : s[k] \in Before(u, m + i)
      BY <1>1, <2>3 DEF Before
    <3>3. \A k \in 1..(i - 1) : t[k] \in Before(u, m + i)
      <4>. TAKE k \in 1..(i - 1)
      <4>1. t[k] = u[m + k] /\ m + k \in 1..(m + i - 1)
        BY <1>8, <2>2
      <4>. DEFINE j == m + k
      <4>2. t[k] = u[j] /\ j \in 1..((m + i) - 1)
        BY <4>1, <1>9
      <4>. HIDE DEF j
      <4>3. u[j] \in Before(u, m + i)
        BY <4>2 DEF Before
      <4>. QED  BY <4>2, <4>3
    <3>4. \A x \in Before(u, m + i) : x \in ToSet(s) \cup Before(t, i)
      BY <3>1, <1>1 DEF Before
    <3>5. \A x \in ToSet(s) : x \in Before(u, m + i)
      BY <3>2, <1>1 DEF ToSet
    <3>6. \A x \in Before(t, i) : x \in Before(u, m + i)
      BY <3>3 DEF Before
    <3>. QED  BY <3>4, <3>5, <3>6
  <2>5. u[m + i] = t[i] /\ StepFits(c, t[i], (before \cup ToSet(s)) \cup Before(t, i))
    BY <1>8, <1>9 DEF FitsAfter
  <2>6. before \cup Before(u, m + i) = (before \cup ToSet(s)) \cup Before(t, i)
    BY <2>4
  <2>. QED  BY <2>5, <2>6
<1>7. FitsAfter(c, before, u)
  <2>. SUFFICES ASSUME NEW i \in 1..(m + n) PROVE StepFits(c, u[i], before \cup Before(u, i))
    BY <1>1 DEF FitsAfter
  <2>1. CASE i \in 1..m
    BY <2>1, <1>5
  <2>2. CASE i - m \in 1..n /\ m + (i - m) = i
    BY <2>2, <1>6
  <2>. QED  BY <2>1, <2>2, <1>2
<1>. QED  BY <1>1, <1>4, <1>7 DEF u

Follows(c, before, s, t) == FitsAfter(c, before, s) /\ FitsAfter(c, before \cup ToSet(s), t)

LEMMA PartsFollow ==
  ASSUME NEW c, NEW before, NEW s, NEW t, Follows(c, before, s, t)
  PROVE  FitsAfter(c, before, s \o t) /\ ToSet(s \o t) = ToSet(s) \cup ToSet(t)
<1>1. FitsAfter(c, before, s) /\ FitsAfter(c, before \cup ToSet(s), t)
  BY DEF Follows
<1>. QED  BY <1>1, PartsInARow

----------------------------------------------------------------------------
(* The setup of the whole system                                           *)

LEMMA NamesApart ==
  FixedContracts \subseteq Contracts /\ Accounts \cap Contracts = {}
<1>1. \A x \in Accounts : x \notin FixedContracts
  BY DEF FixedContracts, Accounts
<1>2. Accounts \cap (Libraries \cup ToSet(CoreFacets) \cup ToSet(AccountFacets)) = {}
  BY NamesAssumption
<1>. QED  BY <1>1, <1>2 DEF Contracts

LEMMA ConfigFacts ==
  ASSUME NEW c \in Configs
  PROVE  /\ c.admin \notin Contracts
         /\ c.verifier \in {"existing", "mock", "real"} /\ c.muonKey \in {"none", "partial", "both"}
         /\ c.gatewaySigners \in Seq(STRING \ Contracts)
         /\ c.existingCollateral \in BOOLEAN /\ c.verifierAdmin \in BOOLEAN
         /\ c.deployPartyB \in BOOLEAN /\ c.adl \in BOOLEAN /\ c.partyBSigner \in BOOLEAN
         /\ c.deploySymbolManager \in BOOLEAN /\ c.operator \in BOOLEAN
BY ConfigsAssumption DEF Configurations

SpecialKeys == {"verifyMuonViews", "register", "approve", "transferOwnership", "acceptOwnership"}

LEMMA KeyIsSpecial ==
  ASSUME NEW key, key[1] \notin SpecialKeys, NEW k \in SpecialKeys
  PROVE  key # <<k, "">>
<1>1. <<k, "">>[1] = k
  OBVIOUS
<1>. QED  BY <1>1

SystemCall(c, call) ==
  /\ call.fn \in SystemFunctions /\ call.to \in Located(c)
  /\ call.who \in Located(c) \/ call.who \notin Contracts
  /\ call.fn \in {"registerPartyB", "registerPartyBs"} => call.what = ""

SystemStep(c, st) ==
  /\ st.kind \in {"calls", "views", "require"} /\ st.flag = "systemRoles"
  /\ st.kind = "views" => st = ViewsStep
  /\ st.kind = "calls" => /\ IsSequence(st.calls) /\ st.calls = CallsOf(c, st.key)
                          /\ st.key[1] \notin SpecialKeys
                          /\ \A j \in DOMAIN st.calls :
                               /\ SystemCall(c, st.calls[j])
                               /\ st.ensure => st.calls[j].fn \in {"addPublicKey", "addGatewaySigner"}

SystemPart(c, s) == IsSequence(s) /\ \A i \in DOMAIN s : SystemStep(c, s[i])

LEMMA SystemStepFits ==
  ASSUME NEW c, NEW before, NEW st, SystemStep(c, st),
         Located(c) \subseteq Guarded(before), Flag("systemRoles") \notin before
  PROVE  StepFits(c, st, before)
<1>1. CASE st.kind = "calls"
  <2>1. /\ st.key # <<"approve", "">> /\ st.key # <<"transferOwnership", "">>
        /\ st.key # <<"acceptOwnership", "">> /\ st.key # ViewsStep.key /\ st.key # RegisterStep.key
    BY <1>1, KeyIsSpecial DEF SystemStep, SpecialKeys, ViewsStep, RegisterStep
  <2>2. "accountManager" \in Contracts /\ "accountManager" \notin Located(c)
    BY NamesApart DEF FixedContracts, Located
  <2>3. ASSUME NEW j \in DOMAIN st.calls PROVE CallFits(c, st, st.calls[j], before)
    <3>1. /\ SystemCall(c, st.calls[j])
          /\ st.ensure => st.calls[j].fn \in {"addPublicKey", "addGatewaySigner"}
      BY <1>1, <2>3 DEF SystemStep
    <3>. QED  BY <3>1, <2>2 DEF SystemCall, CallFits, SystemFunctions, PlanFunctions
  <2>4. st.flag = "systemRoles" /\ IsSequence(st.calls) /\ st.calls = CallsOf(c, st.key)
    BY <1>1 DEF SystemStep
  <2>. QED  BY <1>1, <2>1, <2>3, <2>4 DEF StepFits
<1>2. CASE st.kind # "calls"
  BY <1>2 DEF StepFits, SystemStep
<1>. QED  BY <1>1, <1>2

LEMMA SystemPartFits ==
  ASSUME NEW c, NEW before, NEW s, SystemPart(c, s),
         Located(c) \subseteq Guarded(before), Flag("systemRoles") \notin before
  PROVE  FitsAfter(c, before, s) /\ \A st \in ToSet(s) : st.kind # "flag"
<1>1. \A i \in DOMAIN s : s[i].kind # "flag"
  BY DEF SystemPart, SystemStep
<1>2. PICK S : s \in Seq(S)
  BY DEF SystemPart, IsSequence
<1>3. ASSUME NEW i \in DOMAIN s PROVE StepFits(c, s[i], before \cup Before(s, i))
  <2>1. Located(c) \subseteq Guarded(before \cup Before(s, i))
    BY DEF Guarded
  <2>2. \A e \in Before(s, i) : e.kind # "flag"
    <3>. SUFFICES ASSUME NEW k \in 1..(i - 1) PROVE s[k].kind # "flag"
      BY DEF Before
    <3>1. k \in DOMAIN s
      BY <1>2
    <3>. QED  BY <3>1, <1>1
  <2>3. Flag("systemRoles") \notin before \cup Before(s, i)
    BY <2>2 DEF Flag
  <2>4. SystemStep(c, s[i])
    BY DEF SystemPart
  <2>. QED  BY <2>1, <2>3, <2>4, SystemStepFits
<1>4. \A st \in ToSet(s) : st.kind # "flag"
  BY <1>1 DEF ToSet
<1>. QED  BY <1>3, <1>4 DEF FitsAfter, SystemPart

LEMMA SystemPartsInARow ==
  ASSUME NEW c, NEW s, NEW t, SystemPart(c, s), SystemPart(c, t)
  PROVE  SystemPart(c, s \o t)
<1>. DEFINE m == Len(s)  n == Len(t)  u == s \o t
<1>1. /\ m \in Nat /\ n \in Nat /\ DOMAIN s = 1..m /\ DOMAIN t = 1..n /\ IsSequence(u)
      /\ DOMAIN u = 1..(m + n) /\ \A i \in 1..m : u[i] = s[i]
  BY SequencesInARow DEF SystemPart
<1>2. \A i \in 1..n : u[m + i] = t[i]
  BY SequencesInARow DEF SystemPart
<1>. HIDE DEF m, n, u
<1>3. ASSUME NEW i \in 1..(m + n) PROVE SystemStep(c, u[i])
  <2>1. CASE i \in 1..m
    BY <2>1, <1>1 DEF SystemPart
  <2>2. CASE i \notin 1..m
    <3>1. PICK k \in 1..n : m + k = i
      <4>1. i - m \in 1..n /\ m + (i - m) = i
        BY <2>2, <1>1
      <4>. QED  BY <4>1
    <3>2. u[i] = t[k]
      BY <3>1, <1>2
    <3>. QED  BY <3>2, <1>1 DEF SystemPart
  <2>. QED  BY <2>1, <2>2
<1>. QED  BY <1>1, <1>3 DEF SystemPart, u

\* A step of one call.
LEMMA OneCall ==
  ASSUME NEW c, NEW key, NEW item, NEW ensure, NEW call,
         key \notin SpecialKeys, CallsOf(c, <<key, item>>) = <<call>>, SystemCall(c, call),
         ensure => call.fn \in {"addPublicKey", "addGatewaySigner"}
  PROVE  SystemStep(c, Item(key, item, call, ensure))
<1>. DEFINE st == Item(key, item, call, ensure)
<1>1. /\ st.kind = "calls" /\ st.key = <<key, item>> /\ st.calls = <<call>> /\ st.flag = "systemRoles"
      /\ st.ensure = ensure
  BY DEF Item
<1>2. IsSequence(<<call>>)
  <2>1. <<call>> \in Seq({call})
    OBVIOUS
  <2>. QED  BY <2>1 DEF IsSequence
<1>3. \A j \in DOMAIN <<call>> : <<call>>[j] = call
  OBVIOUS
<1>4. st.key[1] \notin SpecialKeys /\ st.calls = CallsOf(c, st.key)
  BY <1>1
<1>. SUFFICES SystemStep(c, st)
  OBVIOUS
<1>. HIDE DEF st
<1>. QED  BY <1>1, <1>2, <1>3, <1>4 DEF SystemStep

LEMMA OneCallUnder ==
  ASSUME NEW c, NEW key, NEW call,
         key \notin SpecialKeys, CallsOf(c, <<key, "">>) = <<call>>, SystemCall(c, call)
  PROVE  SystemStep(c, System1(key, call))
<1>1. System1(key, call) = Item(key, "", call, FALSE)
  BY DEF System1, System, Setup, Item
<1>. QED  BY <1>1, OneCall

LEMMA SeveralCalls ==
  ASSUME NEW c, NEW key, NEW calls, IsSequence(calls),
         key \notin SpecialKeys, CallsOf(c, <<key, "">>) = calls, \A j \in DOMAIN calls : SystemCall(c, calls[j])
  PROVE  SystemStep(c, System(key, calls))
<1>. DEFINE st == System(key, calls)
<1>1. /\ st.kind = "calls" /\ st.key = <<key, "">> /\ st.calls = calls /\ st.flag = "systemRoles"
      /\ st.ensure = FALSE
  BY DEF System, Setup
<1>. SUFFICES SystemStep(c, st)
  OBVIOUS
<1>. HIDE DEF st
<1>2. <<key, "">>[1] = key
  OBVIOUS
<1>3. st.key[1] = key
  BY <1>1, <1>2
<1>4. st.calls = CallsOf(c, st.key)
  BY <1>1
<1>. QED  BY <1>1, <1>3, <1>4 DEF SystemStep

\* Parts of no, of one and of a few steps.
LEMMA SystemPart0 ==
  ASSUME NEW c
  PROVE  SystemPart(c, <<>>)
<1>1. <<>> \in Seq({})
  OBVIOUS
<1>2. DOMAIN <<>> = {}
  OBVIOUS
<1>. QED  BY <1>1, <1>2 DEF SystemPart, IsSequence

LEMMA SystemPart1 ==
  ASSUME NEW c, NEW a, SystemStep(c, a)
  PROVE  SystemPart(c, <<a>>)
<1>1. <<a>> \in Seq({a}) /\ DOMAIN <<a>> = 1..1 /\ <<a>>[1] = a
  OBVIOUS
<1>. DEFINE s == <<a>>
<1>2. IsSequence(s) /\ DOMAIN s = 1..1 /\ s[1] = a
  BY <1>1 DEF IsSequence
<1>. HIDE DEF s
<1>3. SystemPart(c, s)
  BY <1>2 DEF SystemPart
<1>. QED  BY <1>3 DEF s

LEMMA SystemPart2 ==
  ASSUME NEW c, NEW a, NEW b, SystemStep(c, a), SystemStep(c, b)
  PROVE  SystemPart(c, <<a, b>>)
<1>. DEFINE s == <<a, b>>
<1>1. s \in Seq({a, b}) /\ DOMAIN s = 1..2 /\ s[1] = a /\ s[2] = b
  OBVIOUS
<1>. HIDE DEF s
<1>2. \A i \in 1..2 : i = 1 \/ i = 2
  OBVIOUS
<1>3. SystemPart(c, s)
  BY <1>1, <1>2 DEF SystemPart, IsSequence
<1>. QED  BY <1>3 DEF s

LEMMA SystemPart3 ==
  ASSUME NEW c, NEW a, NEW b, NEW d, SystemStep(c, a), SystemStep(c, b), SystemStep(c, d)
  PROVE  SystemPart(c, <<a, b, d>>)
<1>. DEFINE s == <<a, b, d>>
<1>1. s \in Seq({a, b, d}) /\ DOMAIN s = 1..3 /\ s[1] = a /\ s[2] = b /\ s[3] = d
  OBVIOUS
<1>. HIDE DEF s
<1>2. \A i \in 1..3 : i = 1 \/ i = 2 \/ i = 3
  OBVIOUS
<1>3. SystemPart(c, s)
  BY <1>1, <1>2 DEF SystemPart, IsSequence
<1>. QED  BY <1>3 DEF s

LEMMA SystemPart4 ==
  ASSUME NEW c, NEW a, NEW b, NEW d, NEW e,
         SystemStep(c, a), SystemStep(c, b), SystemStep(c, d), SystemStep(c, e)
  PROVE  SystemPart(c, <<a, b, d, e>>)
<1>. DEFINE s == <<a, b, d, e>>
<1>1. s \in Seq({a, b, d, e}) /\ DOMAIN s = 1..4 /\ s[1] = a /\ s[2] = b /\ s[3] = d /\ s[4] = e
  OBVIOUS
<1>. HIDE DEF s
<1>2. \A i \in 1..4 : i = 1 \/ i = 2 \/ i = 3 \/ i = 4
  OBVIOUS
<1>3. SystemPart(c, s)
  BY <1>1, <1>2 DEF SystemPart, IsSequence
<1>. QED  BY <1>3 DEF s

LEMMA SystemPart5 ==
  ASSUME NEW c, NEW a, NEW b, NEW d, NEW e, NEW f,
         SystemStep(c, a), SystemStep(c, b), SystemStep(c, d), SystemStep(c, e), SystemStep(c, f)
  PROVE  SystemPart(c, <<a, b, d, e, f>>)
<1>. DEFINE s == <<a, b, d, e, f>>
<1>1. /\ s \in Seq({a, b, d, e, f}) /\ DOMAIN s = 1..5
      /\ s[1] = a /\ s[2] = b /\ s[3] = d /\ s[4] = e /\ s[5] = f
  OBVIOUS
<1>. HIDE DEF s
<1>2. \A i \in 1..5 : i = 1 \/ i = 2 \/ i = 3 \/ i = 4 \/ i = 5
  OBVIOUS
<1>3. SystemPart(c, s)
  BY <1>1, <1>2 DEF SystemPart, IsSequence
<1>. QED  BY <1>3 DEF s

LEMMA SystemPartOnly ==
  ASSUME NEW c, NEW condition, NEW s, condition => SystemPart(c, s)
  PROVE  SystemPart(c, Only(condition, s))
BY SystemPart0 DEF Only

\* One step for each element of a list.
LEMMA SystemPartEach ==
  ASSUME NEW c, NEW S, NEW list \in Seq(S), NEW s, s = [i \in DOMAIN list |-> s[i]],
         \A i \in DOMAIN list : SystemStep(c, s[i])
  PROVE  SystemPart(c, s)
<1>. DEFINE n == Len(list)  R == { s[i] : i \in 1..n }
<1>1. n \in Nat /\ DOMAIN list = 1..n
  OBVIOUS
<1>2. s \in [1..n -> R]
  BY <1>1
<1>. HIDE DEF n, R
<1>3. s \in Seq(R)
  BY <1>1, <1>2
<1>4. DOMAIN s = DOMAIN list
  OBVIOUS
<1>. QED  BY <1>3, <1>4 DEF SystemPart, IsSequence

\* The grants and calls of a system: their targets are located.
LEMMA SystemCalls ==
  ASSUME NEW c \in Configs
  PROVE  /\ c.admin \notin Contracts /\ \A a \in Accounts : a \notin Contracts
         /\ \A to \in Located(c) : \A role, who : who \in Located(c) \/ who \notin Contracts
              => SystemCall(c, Grant(to, role, who))
         /\ \A to \in Located(c), fn \in SystemFunctions : \A what, who :
              /\ who \in Located(c) \/ who \notin Contracts
              /\ fn \in {"registerPartyB", "registerPartyBs"} => what = ""
              => SystemCall(c, Call(to, fn, what, who))
         /\ {"collateral", "diamond", "signatureVerifier", "accountLayer", "instantLayer"} \subseteq Located(c)
<1>1. c.admin \notin Contracts /\ \A a \in Accounts : a \notin Contracts
  BY NamesApart, ConfigFacts
<1>2. ASSUME NEW to \in Located(c), NEW fn \in SystemFunctions, NEW what, NEW who,
             who \in Located(c) \/ who \notin Contracts,
             fn \in {"registerPartyB", "registerPartyBs"} => what = ""
      PROVE  SystemCall(c, Call(to, fn, what, who))
  <2>1. /\ Call(to, fn, what, who).to = to /\ Call(to, fn, what, who).fn = fn
        /\ Call(to, fn, what, who).what = what /\ Call(to, fn, what, who).who = who
    BY DEF Call
  <2>. QED  BY <1>2, <2>1 DEF SystemCall
<1>3. "grantRole" \in SystemFunctions
  BY DEF SystemFunctions
<1>4. \A to \in Located(c) : \A role, who : who \in Located(c) \/ who \notin Contracts
        => SystemCall(c, Grant(to, role, who))
  BY <1>2, <1>3 DEF Grant
<1>. QED  BY <1>1, <1>2, <1>4 DEF Located

LEMMA CoreRolesFit ==
  ASSUME NEW c \in Configs
  PROVE  SystemPart(c, CoreRoles(c))
<1>. USE DEF SpecialKeys
<1>0. {"deployer", "muonApp", "muonKey", "operator", "signer", "validity", "value"} \subseteq Accounts
  BY DEF Accounts
<1>1. SystemStep(c, System1("setDeployerAdmin", Call("diamond", "setAdmin", "", "deployer")))
  <2>1. CallsOf(c, <<"setDeployerAdmin", "">>) = << Call("diamond", "setAdmin", "", "deployer") >>
    BY DEF CallsOf
  <2>2. SystemCall(c, Call("diamond", "setAdmin", "", "deployer"))
    BY <1>0, SystemCalls DEF SystemFunctions
  <2>. QED  BY <2>1, <2>2, OneCallUnder
<1>2. SystemStep(c, System1("setAdmin", Call("diamond", "setAdmin", "", c.admin)))
  <2>1. CallsOf(c, <<"setAdmin", "">>) = << Call("diamond", "setAdmin", "", c.admin) >>
    BY DEF CallsOf
  <2>2. SystemCall(c, Call("diamond", "setAdmin", "", c.admin))
    BY SystemCalls DEF SystemFunctions
  <2>. QED  BY <2>1, <2>2, OneCallUnder
<1>3. ASSUME NEW r PROVE SystemStep(c, Item("diamondRoles", r, Grant("diamond", r, c.admin), FALSE))
  <2>1. CallsOf(c, <<"diamondRoles", r>>) = << Grant("diamond", r, c.admin) >>
    BY DEF CallsOf
  <2>2. SystemCall(c, Grant("diamond", r, c.admin))
    BY SystemCalls
  <2>. QED  BY <2>1, <2>2, OneCall
<1>4. SystemStep(c, System("alRolesOnDiamond",
               << Grant("diamond", "SIGNER_ADMIN_ROLE", "accountLayer"),
                  Grant("diamond", "AFFILIATE_MANAGER_ROLE", "accountLayer"),
                  Grant("diamond", "BALANCE_SETTLER_ROLE", "accountLayer") >>))
  <2>. DEFINE calls == << Grant("diamond", "SIGNER_ADMIN_ROLE", "accountLayer"),
                          Grant("diamond", "AFFILIATE_MANAGER_ROLE", "accountLayer"),
                          Grant("diamond", "BALANCE_SETTLER_ROLE", "accountLayer") >>
  <2>1. CallsOf(c, <<"alRolesOnDiamond", "">>) = calls
    BY DEF CallsOf
  <2>2. calls \in Seq({calls[1], calls[2], calls[3]})
    OBVIOUS
  <2>3. \A j \in 1..3 : j = 1 \/ j = 2 \/ j = 3
    OBVIOUS
  <2>4. SystemCall(c, calls[1]) /\ SystemCall(c, calls[2]) /\ SystemCall(c, calls[3]) /\ DOMAIN calls = 1..3
    <3>1. \A role : SystemCall(c, Grant("diamond", role, "accountLayer"))
      BY SystemCalls
    <3>. QED  BY <3>1
  <2>. HIDE DEF calls
  <2>5. IsSequence(calls) /\ \A j \in DOMAIN calls : SystemCall(c, calls[j])
    BY <2>2, <2>3, <2>4 DEF IsSequence
  <2>6. SystemStep(c, System("alRolesOnDiamond", calls))
    BY <2>1, <2>5, SeveralCalls
  <2>. QED  BY <2>6 DEF calls
<1>5. SystemStep(c, System1("registerHook", Call("diamond", "registerHook", "", "accountLayer")))
  <2>1. CallsOf(c, <<"registerHook", "">>) = << Call("diamond", "registerHook", "", "accountLayer") >>
    BY DEF CallsOf
  <2>2. SystemCall(c, Call("diamond", "registerHook", "", "accountLayer"))
    BY SystemCalls DEF SystemFunctions
  <2>. QED  BY <2>1, <2>2, OneCallUnder
<1>6. SystemStep(c, System1("ilRoleOnDiamond", Grant("diamond", "INSTANT_LAYER_ROLE", "instantLayer")))
  <2>1. CallsOf(c, <<"ilRoleOnDiamond", "">>) = << Grant("diamond", "INSTANT_LAYER_ROLE", "instantLayer") >>
    BY DEF CallsOf
  <2>2. SystemCall(c, Grant("diamond", "INSTANT_LAYER_ROLE", "instantLayer"))
    BY SystemCalls
  <2>. QED  BY <2>1, <2>2, OneCallUnder
<1>7. SystemPart(c, Each(DiamondRoles, LAMBDA r : Item("diamondRoles", r, Grant("diamond", r, c.admin), FALSE)))
  <2>. DEFINE s == [i \in DOMAIN DiamondRoles |->
                      Item("diamondRoles", DiamondRoles[i], Grant("diamond", DiamondRoles[i], c.admin), FALSE)]
  <2>1. s = [i \in DOMAIN DiamondRoles |-> s[i]]
    OBVIOUS
  <2>2. \A i \in DOMAIN DiamondRoles : SystemStep(c, s[i])
    BY <1>3
  <2>3. SystemPart(c, s)
    <3>. HIDE DEF s
    <3>. QED  BY <2>1, <2>2, NamesAssumption, SystemPartEach
  <2>. QED  BY <2>3 DEF Each
<1>8. SystemPart(c, << System1("setDeployerAdmin", Call("diamond", "setAdmin", "", "deployer")),
                        System1("setAdmin", Call("diamond", "setAdmin", "", c.admin)) >>)
  BY <1>1, <1>2, SystemPart2
<1>9. SystemPart(c, << System("alRolesOnDiamond",
               << Grant("diamond", "SIGNER_ADMIN_ROLE", "accountLayer"),
                  Grant("diamond", "AFFILIATE_MANAGER_ROLE", "accountLayer"),
                  Grant("diamond", "BALANCE_SETTLER_ROLE", "accountLayer") >>),
        System1("registerHook", Call("diamond", "registerHook", "", "accountLayer")),
        System1("ilRoleOnDiamond", Grant("diamond", "INSTANT_LAYER_ROLE", "instantLayer")) >>)
  BY <1>4, <1>5, <1>6, SystemPart3
<1>. QED  BY <1>7, <1>8, <1>9, SystemPartsInARow DEF CoreRoles

LEMMA AccountLayerRolesFit ==
  ASSUME NEW c \in Configs
  PROVE  SystemPart(c, AccountLayerRoles(c))
<1>. USE DEF SpecialKeys
<1>1. SystemStep(c, System1("alDefaultAdmin", Grant("accountLayer", "DEFAULT_ADMIN_ROLE", c.admin)))
  <2>1. CallsOf(c, <<"alDefaultAdmin", "">>) = << Grant("accountLayer", "DEFAULT_ADMIN_ROLE", c.admin) >>
    BY DEF CallsOf
  <2>2. SystemCall(c, Grant("accountLayer", "DEFAULT_ADMIN_ROLE", c.admin))
    BY SystemCalls
  <2>. QED  BY <2>1, <2>2, OneCallUnder
<1>2. SystemStep(c, System1("ilRoleOnAL", Grant("accountLayer", "SIGNER_SETTER_ROLE", "instantLayer")))
  <2>1. CallsOf(c, <<"ilRoleOnAL", "">>) = << Grant("accountLayer", "SIGNER_SETTER_ROLE", "instantLayer") >>
    BY DEF CallsOf
  <2>2. SystemCall(c, Grant("accountLayer", "SIGNER_SETTER_ROLE", "instantLayer"))
    BY SystemCalls
  <2>. QED  BY <2>1, <2>2, OneCallUnder
<1>3. SystemStep(c, System1("alWhitelistSymmio", Call("accountLayer", "setWhitelistedSymmioCore", "", "diamond")))
  <2>1. CallsOf(c, <<"alWhitelistSymmio", "">>) = << Call("accountLayer", "setWhitelistedSymmioCore", "", "diamond") >>
    BY DEF CallsOf
  <2>2. SystemCall(c, Call("accountLayer", "setWhitelistedSymmioCore", "", "diamond"))
    BY SystemCalls DEF SystemFunctions
  <2>. QED  BY <2>1, <2>2, OneCallUnder
<1>4. SystemStep(c, System1("ilSetAccountLayer", Call("instantLayer", "setAccountLayer", "", "accountLayer")))
  <2>1. CallsOf(c, <<"ilSetAccountLayer", "">>) = << Call("instantLayer", "setAccountLayer", "", "accountLayer") >>
    BY DEF CallsOf
  <2>2. SystemCall(c, Call("instantLayer", "setAccountLayer", "", "accountLayer"))
    BY SystemCalls DEF SystemFunctions
  <2>. QED  BY <2>1, <2>2, OneCallUnder
<1>5. SystemStep(c, System("alAdminRoles",
            << Grant("accountLayer", "SETTER_ROLE", c.admin), Grant("accountLayer", "APPROVER_ROLE", c.admin),
               Grant("accountLayer", "PAUSER_ROLE", c.admin), Grant("accountLayer", "UNPAUSER_ROLE", c.admin) >>))
  <2>. DEFINE calls ==
         << Grant("accountLayer", "SETTER_ROLE", c.admin), Grant("accountLayer", "APPROVER_ROLE", c.admin),
            Grant("accountLayer", "PAUSER_ROLE", c.admin), Grant("accountLayer", "UNPAUSER_ROLE", c.admin) >>
  <2>1. CallsOf(c, <<"alAdminRoles", "">>) = calls
    BY DEF CallsOf
  <2>2. calls \in Seq({calls[1], calls[2], calls[3], calls[4]})
    OBVIOUS
  <2>3. \A j \in 1..4 : j = 1 \/ j = 2 \/ j = 3 \/ j = 4
    OBVIOUS
  <2>4. /\ SystemCall(c, calls[1]) /\ SystemCall(c, calls[2])
        /\ SystemCall(c, calls[3]) /\ SystemCall(c, calls[4]) /\ DOMAIN calls = 1..4
    <3>1. \A role : SystemCall(c, Grant("accountLayer", role, c.admin))
      BY SystemCalls
    <3>. QED  BY <3>1
  <2>. HIDE DEF calls
  <2>5. IsSequence(calls) /\ \A j \in DOMAIN calls : SystemCall(c, calls[j])
    BY <2>2, <2>3, <2>4 DEF IsSequence
  <2>6. SystemStep(c, System("alAdminRoles", calls))
    BY <2>1, <2>5, SeveralCalls
  <2>. QED  BY <2>6 DEF calls
<1>. QED  BY <1>1, <1>2, <1>3, <1>4, <1>5, SystemPart5 DEF AccountLayerRoles

LEMMA SystemRequire ==
  ASSUME NEW c, NEW ok
  PROVE  SystemStep(c, Require(ok))
BY DEF SystemStep, Require

LEMMA VerifierSetupFits ==
  ASSUME NEW c \in Configs
  PROVE  SystemPart(c, VerifierSetup(c))
<1>. USE DEF SpecialKeys
<1>0. {"muonKey"} \subseteq Accounts
  BY DEF Accounts
<1>1. SystemStep(c, System1("setSignatureVerifier", Call("diamond", "setSignatureVerifierAddress", "", "signatureVerifier")))
  <2>1. CallsOf(c, <<"setSignatureVerifier", "">>) = << Call("diamond", "setSignatureVerifierAddress", "", "signatureVerifier") >>
    BY DEF CallsOf
  <2>2. SystemCall(c, Call("diamond", "setSignatureVerifierAddress", "", "signatureVerifier"))
    BY SystemCalls DEF SystemFunctions
  <2>. QED  BY <2>1, <2>2, OneCallUnder
<1>2. SystemStep(c, System1("msvDefaultAdmin", Grant("signatureVerifier", "DEFAULT_ADMIN_ROLE", c.admin)))
  <2>1. CallsOf(c, <<"msvDefaultAdmin", "">>) = << Grant("signatureVerifier", "DEFAULT_ADMIN_ROLE", c.admin) >>
    BY DEF CallsOf
  <2>2. SystemCall(c, Grant("signatureVerifier", "DEFAULT_ADMIN_ROLE", c.admin))
    BY SystemCalls
  <2>. QED  BY <2>1, <2>2, OneCallUnder
<1>3. SystemStep(c, System1("msvSetterRole", Grant("signatureVerifier", "SETTER_ROLE", c.admin)))
  <2>1. CallsOf(c, <<"msvSetterRole", "">>) = << Grant("signatureVerifier", "SETTER_ROLE", c.admin) >>
    BY DEF CallsOf
  <2>2. SystemCall(c, Grant("signatureVerifier", "SETTER_ROLE", c.admin))
    BY SystemCalls
  <2>. QED  BY <2>1, <2>2, OneCallUnder
<1>4. SystemStep(c, Item("msvPublicKey", "", Call("signatureVerifier", "addPublicKey", "", "muonKey"), TRUE))
  <2>1. CallsOf(c, <<"msvPublicKey", "">>) = << Call("signatureVerifier", "addPublicKey", "", "muonKey") >>
    BY DEF CallsOf
  <2>3. Call("signatureVerifier", "addPublicKey", "", "muonKey").fn = "addPublicKey"
    BY DEF Call
  <2>2. SystemCall(c, Call("signatureVerifier", "addPublicKey", "", "muonKey"))
    BY <1>0, SystemCalls DEF SystemFunctions
  <2>. QED  BY <2>1, <2>2, <2>3, OneCall
<1>5. ASSUME NEW g, g \notin Contracts
      PROVE  SystemStep(c, Item("msvGatewaySigners", g, Call("signatureVerifier", "addGatewaySigner", g, g), TRUE))
  <2>1. CallsOf(c, <<"msvGatewaySigners", g>>) = << Call("signatureVerifier", "addGatewaySigner", g, g) >>
    BY DEF CallsOf
  <2>3. Call("signatureVerifier", "addGatewaySigner", g, g).fn = "addGatewaySigner"
    BY DEF Call
  <2>2. SystemCall(c, Call("signatureVerifier", "addGatewaySigner", g, g))
    BY <1>5, SystemCalls DEF SystemFunctions
  <2>. QED  BY <2>1, <2>2, <2>3, OneCall
<1>6. SystemPart(c, Each(c.gatewaySigners, LAMBDA g :
                    Item("msvGatewaySigners", g, Call("signatureVerifier", "addGatewaySigner", g, g), TRUE)))
  <2>. DEFINE signers == c.gatewaySigners
              s == [i \in DOMAIN signers |->
                      Item("msvGatewaySigners", signers[i],
                           Call("signatureVerifier", "addGatewaySigner", signers[i], signers[i]), TRUE)]
  <2>1. signers \in Seq(STRING \ Contracts)
    BY ConfigFacts
  <2>2. s = [i \in DOMAIN signers |-> s[i]]
    OBVIOUS
  <2>3. \A i \in DOMAIN signers : signers[i] \notin Contracts
    BY <2>1
  <2>4. \A i \in DOMAIN signers : SystemStep(c, s[i])
    BY <2>3, <1>5
  <2>5. SystemPart(c, s)
    <3>. HIDE DEF s, signers
    <3>. QED  BY <2>1, <2>2, <2>4, SystemPartEach
  <2>. QED  BY <2>5 DEF Each
<1>. DEFINE set == << System1("setSignatureVerifier",
                              Call("diamond", "setSignatureVerifierAddress", "", "signatureVerifier")) >>
            roles == << System1("msvDefaultAdmin", Grant("signatureVerifier", "DEFAULT_ADMIN_ROLE", c.admin)),
                        System1("msvSetterRole", Grant("signatureVerifier", "SETTER_ROLE", c.admin)) >>
            publicKey == << Item("msvPublicKey", "", Call("signatureVerifier", "addPublicKey", "", "muonKey"), TRUE) >>
            required == << Require(AdministersVerifier(c)) >>
            signers == Each(c.gatewaySigners, LAMBDA g :
                         Item("msvGatewaySigners", g, Call("signatureVerifier", "addGatewaySigner", g, g), TRUE))
<1>7. /\ SystemPart(c, set) /\ SystemPart(c, roles) /\ SystemPart(c, publicKey) /\ SystemPart(c, required)
      /\ SystemPart(c, signers)
  BY <1>1, <1>2, <1>3, <1>4, <1>6, SystemRequire, SystemPart1, SystemPart2
<1>8. VerifierSetup(c) = IF c.verifier = "mock" THEN set
        ELSE Only(AdministersVerifier(c), roles) \o set \o Only(c.muonKey # "none", required)
             \o Only(c.muonKey = "both", publicKey) \o Only(c.gatewaySigners # <<>>, required) \o signers
  BY DEF VerifierSetup
<1>. HIDE DEF set, roles, publicKey, required, signers
<1>9. /\ SystemPart(c, Only(AdministersVerifier(c), roles)) /\ SystemPart(c, Only(c.muonKey # "none", required))
      /\ SystemPart(c, Only(c.muonKey = "both", publicKey)) /\ SystemPart(c, Only(c.gatewaySigners # <<>>, required))
  BY <1>7, SystemPartOnly
<1>10. SystemPart(c, Only(AdministersVerifier(c), roles) \o set)
  BY <1>7, <1>9, SystemPartsInARow
<1>11. SystemPart(c, Only(AdministersVerifier(c), roles) \o set \o Only(c.muonKey # "none", required))
  BY <1>10, <1>9, SystemPartsInARow
<1>12. SystemPart(c, Only(AdministersVerifier(c), roles) \o set \o Only(c.muonKey # "none", required)
                      \o Only(c.muonKey = "both", publicKey))
  BY <1>11, <1>9, SystemPartsInARow
<1>13. SystemPart(c, Only(AdministersVerifier(c), roles) \o set \o Only(c.muonKey # "none", required)
                      \o Only(c.muonKey = "both", publicKey) \o Only(c.gatewaySigners # <<>>, required))
  BY <1>12, <1>9, SystemPartsInARow
<1>. QED  BY <1>7, <1>8, <1>13, SystemPartsInARow

LEMMA MuonRuntimeFits ==
  ASSUME NEW c \in Configs
  PROVE  SystemPart(c, MuonRuntime(c))
<1>. USE DEF SpecialKeys
<1>0. {"deployer", "muonApp", "validity"} \subseteq Accounts
  BY DEF Accounts
<1>1. SystemStep(c, System1("muonSetterOnDeployer", Grant("diamond", "MUON_SETTER_ROLE", "deployer")))
  <2>1. CallsOf(c, <<"muonSetterOnDeployer", "">>) = << Grant("diamond", "MUON_SETTER_ROLE", "deployer") >>
    BY DEF CallsOf
  <2>2. SystemCall(c, Grant("diamond", "MUON_SETTER_ROLE", "deployer"))
    BY <1>0, SystemCalls
  <2>. QED  BY <2>1, <2>2, OneCallUnder
<1>2. SystemStep(c, System1("setMuonIds", Call("diamond", "setMuonIds", "", "muonApp")))
  <2>1. CallsOf(c, <<"setMuonIds", "">>) = << Call("diamond", "setMuonIds", "", "muonApp") >>
    BY DEF CallsOf
  <2>2. SystemCall(c, Call("diamond", "setMuonIds", "", "muonApp"))
    BY <1>0, SystemCalls DEF SystemFunctions
  <2>. QED  BY <2>1, <2>2, OneCallUnder
<1>3. SystemStep(c, System1("setMuonConfig", Call("diamond", "setMuonConfig", "", "validity")))
  <2>1. CallsOf(c, <<"setMuonConfig", "">>) = << Call("diamond", "setMuonConfig", "", "validity") >>
    BY DEF CallsOf
  <2>2. SystemCall(c, Call("diamond", "setMuonConfig", "", "validity"))
    BY <1>0, SystemCalls DEF SystemFunctions
  <2>. QED  BY <2>1, <2>2, OneCallUnder
<1>4. SystemStep(c, [kind |-> "views", key |-> <<"verifyMuonViews", "">>, flag |-> "systemRoles"])
  BY DEF SystemStep, ViewsStep
<1>. DEFINE setter == << System1("muonSetterOnDeployer", Grant("diamond", "MUON_SETTER_ROLE", "deployer")) >>
            ids == << System1("setMuonIds", Call("diamond", "setMuonIds", "", "muonApp")) >>
            views == << System1("setMuonConfig", Call("diamond", "setMuonConfig", "", "validity")),
                        [kind |-> "views", key |-> <<"verifyMuonViews", "">>, flag |-> "systemRoles"] >>
<1>5. SystemPart(c, setter) /\ SystemPart(c, ids) /\ SystemPart(c, views)
  BY <1>1, <1>2, <1>3, <1>4, SystemPart1, SystemPart2
<1>6. MuonRuntime(c) = Only(c.admin # "deployer", setter) \o Only(c.muonApp, ids) \o views
  BY DEF MuonRuntime
<1>. HIDE DEF setter, ids, views
<1>7. SystemPart(c, Only(c.admin # "deployer", setter)) /\ SystemPart(c, Only(c.muonApp, ids))
  BY <1>5, SystemPartOnly
<1>8. SystemPart(c, Only(c.admin # "deployer", setter) \o Only(c.muonApp, ids))
  BY <1>7, SystemPartsInARow
<1>. QED  BY <1>5, <1>6, <1>8, SystemPartsInARow

LEMMA ParameterStepsFit ==
  ASSUME NEW c \in Configs
  PROVE  SystemPart(c, ParameterSteps)
<1>. USE DEF SpecialKeys
<1>0. {"value"} \subseteq Accounts
  BY DEF Accounts
<1>1. SystemStep(c, System1("setCollateral", Call("diamond", "setCollateral", "", "collateral")))
  <2>1. CallsOf(c, <<"setCollateral", "">>) = << Call("diamond", "setCollateral", "", "collateral") >>
    BY DEF CallsOf
  <2>2. SystemCall(c, Call("diamond", "setCollateral", "", "collateral"))
    BY SystemCalls DEF SystemFunctions
  <2>. QED  BY <2>1, <2>2, OneCallUnder
<1>2. ASSUME NEW p PROVE SystemStep(c, Item("parameter", p, Call("diamond", "setParameter", p, "value"), FALSE))
  <2>1. CallsOf(c, <<"parameter", p>>) = << Call("diamond", "setParameter", p, "value") >>
    BY DEF CallsOf
  <2>2. SystemCall(c, Call("diamond", "setParameter", p, "value"))
    BY <1>0, SystemCalls DEF SystemFunctions
  <2>. QED  BY <2>1, <2>2, OneCall
<1>. DEFINE s == [i \in DOMAIN Parameters |->
                    Item("parameter", Parameters[i].name,
                         Call("diamond", "setParameter", Parameters[i].name, "value"), FALSE)]
<1>3. s = [i \in DOMAIN Parameters |-> s[i]] /\ \A i \in DOMAIN Parameters : SystemStep(c, s[i])
  BY <1>2
<1>4. ParameterSteps = << System1("setCollateral", Call("diamond", "setCollateral", "", "collateral")) >> \o s
  BY DEF ParameterSteps, Each
<1>. HIDE DEF s
<1>5. SystemPart(c, s)
  BY <1>3, NamesAssumption, SystemPartEach
<1>6. SystemPart(c, << System1("setCollateral", Call("diamond", "setCollateral", "", "collateral")) >>)
  BY <1>1, SystemPart1
<1>. QED  BY <1>4, <1>5, <1>6, SystemPartsInARow

LEMMA InstantLayerSetupFits ==
  ASSUME NEW c \in Configs
  PROVE  SystemPart(c, InstantLayerSetup(c))
<1>. USE DEF SpecialKeys
<1>1. SystemStep(c, System1("ilDefaultAdmin", Grant("instantLayer", "DEFAULT_ADMIN_ROLE", c.admin)))
  <2>1. CallsOf(c, <<"ilDefaultAdmin", "">>) = << Grant("instantLayer", "DEFAULT_ADMIN_ROLE", c.admin) >>
    BY DEF CallsOf
  <2>2. SystemCall(c, Grant("instantLayer", "DEFAULT_ADMIN_ROLE", c.admin))
    BY SystemCalls
  <2>. QED  BY <2>1, <2>2, OneCallUnder
<1>2. SystemStep(c, System1("ilGrantSetterRole", Grant("instantLayer", "SETTER_ROLE", c.admin)))
  <2>1. CallsOf(c, <<"ilGrantSetterRole", "">>) = << Grant("instantLayer", "SETTER_ROLE", c.admin) >>
    BY DEF CallsOf
  <2>2. SystemCall(c, Grant("instantLayer", "SETTER_ROLE", c.admin))
    BY SystemCalls
  <2>. QED  BY <2>1, <2>2, OneCallUnder
<1>3. SystemStep(c, System1("ilWhitelistDiamond", Call("instantLayer", "setTargetWhitelist", "diamond", "diamond")))
  <2>1. CallsOf(c, <<"ilWhitelistDiamond", "">>) = << Call("instantLayer", "setTargetWhitelist", "diamond", "diamond") >>
    BY DEF CallsOf
  <2>2. SystemCall(c, Call("instantLayer", "setTargetWhitelist", "diamond", "diamond"))
    BY SystemCalls DEF SystemFunctions
  <2>. QED  BY <2>1, <2>2, OneCallUnder
<1>4. SystemStep(c, System1("ilWhitelistAL", Call("instantLayer", "setTargetWhitelist", "accountLayer", "accountLayer")))
  <2>1. CallsOf(c, <<"ilWhitelistAL", "">>) = << Call("instantLayer", "setTargetWhitelist", "accountLayer", "accountLayer") >>
    BY DEF CallsOf
  <2>2. SystemCall(c, Call("instantLayer", "setTargetWhitelist", "accountLayer", "accountLayer"))
    BY SystemCalls DEF SystemFunctions
  <2>. QED  BY <2>1, <2>2, OneCallUnder
<1>. QED  BY <1>1, <1>2, <1>3, <1>4, SystemPart4 DEF InstantLayerSetup

LEMMA PartyBSetupFits ==
  ASSUME NEW c \in Configs, c.deployPartyB
  PROVE  SystemPart(c, PartyBSetup(c))
<1>. USE DEF SpecialKeys
<1>0. {"signer"} \subseteq Accounts
  BY DEF Accounts
<1>20. "symmioPartyB" \in Located(c)
  BY DEF Located
<1>1. SystemStep(c, System1("registerPartyB", Call("diamond", "registerPartyB", "", "symmioPartyB")))
  <2>1. CallsOf(c, <<"registerPartyB", "">>) = << Call("diamond", "registerPartyB", "", "symmioPartyB") >>
    BY DEF CallsOf
  <2>2. SystemCall(c, Call("diamond", "registerPartyB", "", "symmioPartyB"))
    BY <1>20, SystemCalls DEF SystemFunctions
  <2>. QED  BY <2>1, <2>2, OneCallUnder
<1>2. SystemStep(c, System1("setAdlEnabled", Call("diamond", "setADLEnabled", "", "symmioPartyB")))
  <2>1. CallsOf(c, <<"setAdlEnabled", "">>) = << Call("diamond", "setADLEnabled", "", "symmioPartyB") >>
    BY DEF CallsOf
  <2>2. SystemCall(c, Call("diamond", "setADLEnabled", "", "symmioPartyB"))
    BY <1>20, SystemCalls DEF SystemFunctions
  <2>. QED  BY <2>1, <2>2, OneCallUnder
<1>3. SystemStep(c, System1("pbDefaultAdmin", Grant("symmioPartyB", "DEFAULT_ADMIN_ROLE", c.admin)))
  <2>1. CallsOf(c, <<"pbDefaultAdmin", "">>) = << Grant("symmioPartyB", "DEFAULT_ADMIN_ROLE", c.admin) >>
    BY DEF CallsOf
  <2>2. SystemCall(c, Grant("symmioPartyB", "DEFAULT_ADMIN_ROLE", c.admin))
    BY <1>20, SystemCalls
  <2>. QED  BY <2>1, <2>2, OneCallUnder
<1>4. SystemStep(c, System1("pbTrustedRole", Grant("symmioPartyB", "TRUSTED_ROLE", "instantLayer")))
  <2>1. CallsOf(c, <<"pbTrustedRole", "">>) = << Grant("symmioPartyB", "TRUSTED_ROLE", "instantLayer") >>
    BY DEF CallsOf
  <2>2. SystemCall(c, Grant("symmioPartyB", "TRUSTED_ROLE", "instantLayer"))
    BY <1>20, SystemCalls
  <2>. QED  BY <2>1, <2>2, OneCallUnder
<1>5. SystemStep(c, System1("pbManagerRole", Grant("symmioPartyB", "MANAGER_ROLE", c.admin)))
  <2>1. CallsOf(c, <<"pbManagerRole", "">>) = << Grant("symmioPartyB", "MANAGER_ROLE", c.admin) >>
    BY DEF CallsOf
  <2>2. SystemCall(c, Grant("symmioPartyB", "MANAGER_ROLE", c.admin))
    BY <1>20, SystemCalls
  <2>. QED  BY <2>1, <2>2, OneCallUnder
<1>6. SystemStep(c, System1("pbSetterRole", Grant("symmioPartyB", "SETTER_ROLE", c.admin)))
  <2>1. CallsOf(c, <<"pbSetterRole", "">>) = << Grant("symmioPartyB", "SETTER_ROLE", c.admin) >>
    BY DEF CallsOf
  <2>2. SystemCall(c, Grant("symmioPartyB", "SETTER_ROLE", c.admin))
    BY <1>20, SystemCalls
  <2>. QED  BY <2>1, <2>2, OneCallUnder
<1>7. SystemStep(c, System1("pbMulticastWhitelist", Call("symmioPartyB", "setMulticastWhitelist", "", "instantLayer")))
  <2>1. CallsOf(c, <<"pbMulticastWhitelist", "">>) = << Call("symmioPartyB", "setMulticastWhitelist", "", "instantLayer") >>
    BY DEF CallsOf
  <2>2. SystemCall(c, Call("symmioPartyB", "setMulticastWhitelist", "", "instantLayer"))
    BY <1>20, SystemCalls DEF SystemFunctions
  <2>. QED  BY <2>1, <2>2, OneCallUnder
<1>8. SystemStep(c, System1("pbSetSigner", Call("symmioPartyB", "setSigner", "", "signer")))
  <2>1. CallsOf(c, <<"pbSetSigner", "">>) = << Call("symmioPartyB", "setSigner", "", "signer") >>
    BY DEF CallsOf
  <2>2. SystemCall(c, Call("symmioPartyB", "setSigner", "", "signer"))
    BY <1>0, <1>20, SystemCalls DEF SystemFunctions
  <2>. QED  BY <2>1, <2>2, OneCallUnder
<1>9. SystemStep(c, System1("ilRegisterPartyB", Call("instantLayer", "registerPartyBs", "", "symmioPartyB")))
  <2>1. CallsOf(c, <<"ilRegisterPartyB", "">>) = << Call("instantLayer", "registerPartyBs", "", "symmioPartyB") >>
    BY DEF CallsOf
  <2>2. SystemCall(c, Call("instantLayer", "registerPartyBs", "", "symmioPartyB"))
    BY <1>20, SystemCalls DEF SystemFunctions
  <2>. QED  BY <2>1, <2>2, OneCallUnder
<1>. DEFINE register == << System1("registerPartyB", Call("diamond", "registerPartyB", "", "symmioPartyB")) >>
            adl == << System1("setAdlEnabled", Call("diamond", "setADLEnabled", "", "symmioPartyB")) >>
            roles == << System1("pbDefaultAdmin", Grant("symmioPartyB", "DEFAULT_ADMIN_ROLE", c.admin)),
                        System1("pbTrustedRole", Grant("symmioPartyB", "TRUSTED_ROLE", "instantLayer")),
                        System1("pbManagerRole", Grant("symmioPartyB", "MANAGER_ROLE", c.admin)),
                        System1("pbSetterRole", Grant("symmioPartyB", "SETTER_ROLE", c.admin)),
                        System1("pbMulticastWhitelist",
                                Call("symmioPartyB", "setMulticastWhitelist", "", "instantLayer")) >>
            signer == << System1("pbSetSigner", Call("symmioPartyB", "setSigner", "", "signer")) >>
            last == << System1("ilRegisterPartyB", Call("instantLayer", "registerPartyBs", "", "symmioPartyB")) >>
<1>10. SystemPart(c, register) /\ SystemPart(c, adl) /\ SystemPart(c, signer) /\ SystemPart(c, last)
  BY <1>1, <1>2, <1>8, <1>9, SystemPart1
<1>11. SystemPart(c, roles)
  BY <1>3, <1>4, <1>5, <1>6, <1>7, SystemPart5
<1>12. PartyBSetup(c) = register \o Only(c.adl, adl) \o roles \o Only(c.partyBSigner, signer) \o last
  BY DEF PartyBSetup
<1>. HIDE DEF register, adl, roles, signer, last
<1>13. SystemPart(c, Only(c.adl, adl)) /\ SystemPart(c, Only(c.partyBSigner, signer))
  BY <1>10, SystemPartOnly
<1>14. SystemPart(c, register \o Only(c.adl, adl))
  BY <1>10, <1>13, SystemPartsInARow
<1>15. SystemPart(c, register \o Only(c.adl, adl) \o roles)
  BY <1>14, <1>11, SystemPartsInARow
<1>16. SystemPart(c, register \o Only(c.adl, adl) \o roles \o Only(c.partyBSigner, signer))
  BY <1>15, <1>13, SystemPartsInARow
<1>. QED  BY <1>12, <1>10, <1>16, SystemPartsInARow

LEMMA SymbolManagerSetupFits ==
  ASSUME NEW c \in Configs, c.deploySymbolManager
  PROVE  SystemPart(c, SymbolManagerSetup(c))
<1>. USE DEF SpecialKeys
<1>0. {"operator"} \subseteq Accounts
  BY DEF Accounts
<1>20. "symbolManager" \in Located(c)
  BY DEF Located
<1>1. SystemStep(c, System1("smGrantSymbolManagerRole", Grant("diamond", "SYMBOL_MANAGER_ROLE", "symbolManager")))
  <2>1. CallsOf(c, <<"smGrantSymbolManagerRole", "">>) = << Grant("diamond", "SYMBOL_MANAGER_ROLE", "symbolManager") >>
    BY DEF CallsOf
  <2>2. SystemCall(c, Grant("diamond", "SYMBOL_MANAGER_ROLE", "symbolManager"))
    BY <1>20, SystemCalls
  <2>. QED  BY <2>1, <2>2, OneCallUnder
<1>2. SystemStep(c, System1("smGrantForceCloseGapRatioRole", Grant("diamond", "FORCE_CLOSE_GAP_RATIO_ADMIN_ROLE", "symbolManager")))
  <2>1. CallsOf(c, <<"smGrantForceCloseGapRatioRole", "">>) = << Grant("diamond", "FORCE_CLOSE_GAP_RATIO_ADMIN_ROLE", "symbolManager") >>
    BY DEF CallsOf
  <2>2. SystemCall(c, Grant("diamond", "FORCE_CLOSE_GAP_RATIO_ADMIN_ROLE", "symbolManager"))
    BY <1>20, SystemCalls
  <2>. QED  BY <2>1, <2>2, OneCallUnder
<1>3. SystemStep(c, System1("smGrantAdderRole", Grant("symbolManager", "SYMBOL_ADDER_ROLE", "operator")))
  <2>1. CallsOf(c, <<"smGrantAdderRole", "">>) = << Grant("symbolManager", "SYMBOL_ADDER_ROLE", "operator") >>
    BY DEF CallsOf
  <2>2. SystemCall(c, Grant("symbolManager", "SYMBOL_ADDER_ROLE", "operator"))
    BY <1>0, <1>20, SystemCalls
  <2>. QED  BY <2>1, <2>2, OneCallUnder
<1>4. SystemStep(c, System1("smGrantRemoverRole", Grant("symbolManager", "SYMBOL_REMOVER_ROLE", "operator")))
  <2>1. CallsOf(c, <<"smGrantRemoverRole", "">>) = << Grant("symbolManager", "SYMBOL_REMOVER_ROLE", "operator") >>
    BY DEF CallsOf
  <2>2. SystemCall(c, Grant("symbolManager", "SYMBOL_REMOVER_ROLE", "operator"))
    BY <1>0, <1>20, SystemCalls
  <2>. QED  BY <2>1, <2>2, OneCallUnder
<1>. DEFINE manager == << System1("smGrantSymbolManagerRole", Grant("diamond", "SYMBOL_MANAGER_ROLE", "symbolManager")),
                          System1("smGrantForceCloseGapRatioRole",
                                  Grant("diamond", "FORCE_CLOSE_GAP_RATIO_ADMIN_ROLE", "symbolManager")) >>
            operator == << System1("smGrantAdderRole", Grant("symbolManager", "SYMBOL_ADDER_ROLE", "operator")),
                           System1("smGrantRemoverRole", Grant("symbolManager", "SYMBOL_REMOVER_ROLE", "operator")) >>
<1>5. SystemPart(c, manager) /\ SystemPart(c, operator)
  BY <1>1, <1>2, <1>3, <1>4, SystemPart2
<1>6. SymbolManagerSetup(c) = manager \o Only(c.operator, operator)
  BY DEF SymbolManagerSetup
<1>. HIDE DEF manager, operator
<1>7. SystemPart(c, Only(c.operator, operator))
  BY <1>5, SystemPartOnly
<1>. QED  BY <1>5, <1>6, <1>7, SystemPartsInARow

LEMMA SystemSetupFits ==
  ASSUME NEW c \in Configs
  PROVE  \E s : SystemPart(c, s) /\ SystemSetup(c) = s \o << Flag("systemRoles") >>
<1>. DEFINE partyB == Only(c.deployPartyB, PartyBSetup(c))
            manager == Only(c.deploySymbolManager, SymbolManagerSetup(c))
            s == CoreRoles(c) \o AccountLayerRoles(c) \o VerifierSetup(c) \o MuonRuntime(c) \o ParameterSteps
                 \o InstantLayerSetup(c) \o partyB \o manager
<1>1. SystemSetup(c) = s \o << Flag("systemRoles") >>
  BY DEF SystemSetup
<1>2. SystemPart(c, partyB) /\ SystemPart(c, manager)
  BY PartyBSetupFits, SymbolManagerSetupFits, SystemPartOnly
<1>. HIDE DEF partyB, manager
<1>3. SystemPart(c, CoreRoles(c) \o AccountLayerRoles(c))
  BY CoreRolesFit, AccountLayerRolesFit, SystemPartsInARow
<1>4. SystemPart(c, CoreRoles(c) \o AccountLayerRoles(c) \o VerifierSetup(c))
  BY <1>3, VerifierSetupFits, SystemPartsInARow
<1>5. SystemPart(c, CoreRoles(c) \o AccountLayerRoles(c) \o VerifierSetup(c) \o MuonRuntime(c))
  BY <1>4, MuonRuntimeFits, SystemPartsInARow
<1>6. SystemPart(c, CoreRoles(c) \o AccountLayerRoles(c) \o VerifierSetup(c) \o MuonRuntime(c) \o ParameterSteps)
  BY <1>5, ParameterStepsFit, SystemPartsInARow
<1>7. SystemPart(c, CoreRoles(c) \o AccountLayerRoles(c) \o VerifierSetup(c) \o MuonRuntime(c) \o ParameterSteps
                    \o InstantLayerSetup(c))
  BY <1>6, InstantLayerSetupFits, SystemPartsInARow
<1>8. SystemPart(c, CoreRoles(c) \o AccountLayerRoles(c) \o VerifierSetup(c) \o MuonRuntime(c) \o ParameterSteps
                    \o InstantLayerSetup(c) \o partyB)
  BY <1>7, <1>2, SystemPartsInARow
<1>9. SystemPart(c, s)
  BY <1>8, <1>2, SystemPartsInARow
<1>. QED  BY <1>1, <1>9

----------------------------------------------------------------------------
(* The calls that a plan makes for what the health check asks              *)

LEMMA Joined ==
  ASSUME NEW s, NEW t, IsSequence(s), IsSequence(t)
  PROVE  IsSequence(s \o t) /\ ToSet(s \o t) = ToSet(s) \cup ToSet(t)
<1>1. /\ Len(s) \in Nat /\ Len(t) \in Nat /\ DOMAIN s = 1..Len(s) /\ DOMAIN t = 1..Len(t) /\ IsSequence(s \o t)
      /\ DOMAIN (s \o t) = 1..(Len(s) + Len(t)) /\ \A i \in 1..Len(s) : (s \o t)[i] = s[i]
  BY SequencesInARow
<1>2. \A i \in 1..Len(t) : (s \o t)[Len(s) + i] = t[i]
  BY SequencesInARow
<1>. DEFINE m == Len(s)  n == Len(t)  u == s \o t
<1>3. /\ m \in Nat /\ n \in Nat /\ DOMAIN s = 1..m /\ DOMAIN t = 1..n /\ DOMAIN u = 1..(m + n)
      /\ \A i \in 1..m : u[i] = s[i]
      /\ \A i \in 1..n : u[m + i] = t[i]
  BY <1>1, <1>2
<1>. HIDE DEF m, n, u
<1>4. ToSet(s) \cup ToSet(t) \subseteq ToSet(u)
  <2>1. \A i \in 1..n : m + i \in 1..(m + n)
    BY <1>3
  <2>2. \A i \in 1..m : i \in 1..(m + n)
    BY <1>3
  <2>. QED  BY <1>3, <2>1, <2>2 DEF ToSet
<1>5. ToSet(u) \subseteq ToSet(s) \cup ToSet(t)
  <2>. SUFFICES ASSUME NEW i \in 1..(m + n) PROVE u[i] \in ToSet(s) \cup ToSet(t)
    BY <1>3 DEF ToSet
  <2>1. CASE i \in 1..m
    BY <2>1, <1>3 DEF ToSet
  <2>2. CASE i \notin 1..m
    <3>1. i - m \in 1..n /\ m + (i - m) = i
      BY <2>2, <1>3
    <3>2. u[i] = t[i - m]
      BY <3>1, <1>3
    <3>. QED  BY <3>1, <3>2, <1>3 DEF ToSet
  <2>. QED  BY <2>1, <2>2
<1>. QED  BY <1>1, <1>4, <1>5 DEF u

\* A list with the steps of these keys.
Brings(s, keys) == IsSequence(s) /\ keys \subseteq KeysIn(ToSet(s))

LEMMA BringsRow ==
  ASSUME NEW s, NEW t, NEW K, NEW L, Brings(s, K), Brings(t, L)
  PROVE  Brings(s \o t, K \cup L)
<1>1. IsSequence(s \o t) /\ ToSet(s \o t) = ToSet(s) \cup ToSet(t)
  BY Joined DEF Brings
<1>. QED  BY <1>1 DEF Brings, KeysIn

LEMMA BringsOnly ==
  ASSUME NEW condition, NEW s, NEW K, condition => Brings(s, K)
  PROVE  Brings(Only(condition, s), IF condition THEN K ELSE {})
<1>1. IsSequence(<<>>)
  <2>1. <<>> \in Seq({})
    OBVIOUS
  <2>. QED  BY <2>1 DEF IsSequence
<1>2. CASE condition
  BY <1>2 DEF Only
<1>3. CASE ~condition
  BY <1>1, <1>3 DEF Only, Brings
<1>. QED  BY <1>2, <1>3

LEMMA BringsNothing ==
  ASSUME NEW c, NEW s, SystemPart(c, s)
  PROVE  Brings(s, {})
BY DEF SystemPart, Brings

LEMMA Brings1 ==
  ASSUME NEW a, a.kind = "calls"
  PROVE  Brings(<<a>>, {a.key})
<1>. DEFINE s == <<a>>
<1>1. s \in Seq({a}) /\ DOMAIN s = 1..1 /\ s[1] = a /\ 1 \in 1..1
  OBVIOUS
<1>. HIDE DEF s
<1>2. Brings(s, {a.key})
  BY <1>1 DEF Brings, KeysIn, IsSequence, ToSet
<1>. QED  BY <1>2 DEF s

LEMMA Brings2 ==
  ASSUME NEW a, NEW b, a.kind = "calls", b.kind = "calls"
  PROVE  Brings(<<a, b>>, {a.key, b.key})
<1>. DEFINE s == <<a, b>>
<1>1. s \in Seq({a, b}) /\ DOMAIN s = 1..2 /\ s[1] = a /\ s[2] = b /\ 1 \in 1..2 /\ 2 \in 1..2
  OBVIOUS
<1>. HIDE DEF s
<1>2. Brings(s, {a.key, b.key})
  BY <1>1 DEF Brings, KeysIn, IsSequence, ToSet
<1>. QED  BY <1>2 DEF s

LEMMA Brings3 ==
  ASSUME NEW a, NEW b, NEW d, a.kind = "calls", b.kind = "calls", d.kind = "calls"
  PROVE  Brings(<<a, b, d>>, {a.key, b.key, d.key})
<1>. DEFINE s == <<a, b, d>>
<1>1. /\ s \in Seq({a, b, d}) /\ DOMAIN s = 1..3 /\ s[1] = a /\ s[2] = b /\ s[3] = d
      /\ 1 \in 1..3 /\ 2 \in 1..3 /\ 3 \in 1..3
  OBVIOUS
<1>. HIDE DEF s
<1>2. Brings(s, {a.key, b.key, d.key})
  BY <1>1 DEF Brings, KeysIn, IsSequence, ToSet
<1>. QED  BY <1>2 DEF s

LEMMA Brings4 ==
  ASSUME NEW a, NEW b, NEW d, NEW e, a.kind = "calls", b.kind = "calls", d.kind = "calls", e.kind = "calls"
  PROVE  Brings(<<a, b, d, e>>, {a.key, b.key, d.key, e.key})
<1>. DEFINE s == <<a, b, d, e>>
<1>1. /\ s \in Seq({a, b, d, e}) /\ DOMAIN s = 1..4 /\ s[1] = a /\ s[2] = b /\ s[3] = d /\ s[4] = e
      /\ 1 \in 1..4 /\ 2 \in 1..4 /\ 3 \in 1..4 /\ 4 \in 1..4
  OBVIOUS
<1>. HIDE DEF s
<1>2. Brings(s, {a.key, b.key, d.key, e.key})
  BY <1>1 DEF Brings, KeysIn, IsSequence, ToSet
<1>. QED  BY <1>2 DEF s

LEMMA Brings5 ==
  ASSUME NEW a, NEW b, NEW d, NEW e, NEW f,
         a.kind = "calls", b.kind = "calls", d.kind = "calls", e.kind = "calls", f.kind = "calls"
  PROVE  Brings(<<a, b, d, e, f>>, {a.key, b.key, d.key, e.key, f.key})
<1>. DEFINE s == <<a, b, d, e, f>>
<1>1. /\ s \in Seq({a, b, d, e, f}) /\ DOMAIN s = 1..5
      /\ s[1] = a /\ s[2] = b /\ s[3] = d /\ s[4] = e /\ s[5] = f
      /\ 1 \in 1..5 /\ 2 \in 1..5 /\ 3 \in 1..5 /\ 4 \in 1..5 /\ 5 \in 1..5
  OBVIOUS
<1>. HIDE DEF s
<1>2. Brings(s, {a.key, b.key, d.key, e.key, f.key})
  BY <1>1 DEF Brings, KeysIn, IsSequence, ToSet
<1>. QED  BY <1>2 DEF s

\* One step for each element of a list.
LEMMA BringsEach ==
  ASSUME NEW S, NEW list \in Seq(S), NEW s, s = [i \in DOMAIN list |-> s[i]], \A i \in DOMAIN list : s[i].kind = "calls"
  PROVE  Brings(s, { s[i].key : i \in DOMAIN list })
<1>. DEFINE n == Len(list)  R == { s[i] : i \in 1..n }
<1>1. n \in Nat /\ DOMAIN list = 1..n
  OBVIOUS
<1>2. s \in [1..n -> R]
  BY <1>1
<1>. HIDE DEF n, R
<1>3. s \in Seq(R)
  BY <1>1, <1>2
<1>4. DOMAIN s = DOMAIN list
  OBVIOUS
<1>5. \A i \in DOMAIN list : s[i] \in ToSet(s)
  BY <1>4 DEF ToSet
<1>6. \A i \in DOMAIN list : s[i].key \in KeysIn(ToSet(s))
  BY <1>5 DEF KeysIn
<1>. QED  BY <1>3, <1>6 DEF Brings, IsSequence

LEMMA KeyOfSystem ==
  ASSUME NEW key, NEW calls
  PROVE  System(key, calls).kind = "calls" /\ System(key, calls).key = Plain(key)
BY DEF System, Setup, Plain

LEMMA KeyOfSystem1 ==
  ASSUME NEW key, NEW call
  PROVE  System1(key, call).kind = "calls" /\ System1(key, call).key = Plain(key)
BY DEF System1, System, Setup, Plain

LEMMA KeyOfSetup ==
  ASSUME NEW key, NEW calls, NEW flag
  PROVE  Setup(key, calls, flag).kind = "calls" /\ Setup(key, calls, flag).key = Plain(key)
BY DEF Setup, Plain

LEMMA KeyOfItem ==
  ASSUME NEW key, NEW item, NEW call, NEW ensure
  PROVE  Item(key, item, call, ensure).kind = "calls" /\ Item(key, item, call, ensure).key = <<key, item>>
BY DEF Item

LEMMA CoreRolesBring ==
  ASSUME NEW c
  PROVE  Brings(CoreRoles(c), CoreKeys)
<1>. DEFINE a1 == System1("setDeployerAdmin", Call("diamond", "setAdmin", "", "deployer"))
            a2 == System1("setAdmin", Call("diamond", "setAdmin", "", c.admin))
            list == [i \in DOMAIN DiamondRoles |->
                      Item("diamondRoles", DiamondRoles[i], Grant("diamond", DiamondRoles[i], c.admin), FALSE)]
            b1 == System("alRolesOnDiamond",
                    << Grant("diamond", "SIGNER_ADMIN_ROLE", "accountLayer"),
                       Grant("diamond", "AFFILIATE_MANAGER_ROLE", "accountLayer"),
                       Grant("diamond", "BALANCE_SETTLER_ROLE", "accountLayer") >>)
            b2 == System1("registerHook", Call("diamond", "registerHook", "", "accountLayer"))
            b3 == System1("ilRoleOnDiamond", Grant("diamond", "INSTANT_LAYER_ROLE", "instantLayer"))
            roles == { list[i].key : i \in DOMAIN DiamondRoles }
            first == << a1, a2 >>
            last == << b1, b2, b3 >>
<1>1. CoreRoles(c) = first \o list \o last
  BY DEF CoreRoles, Each
<1>2. a1.kind = "calls" /\ a2.kind = "calls"
  BY KeyOfSystem1
<1>3. b1.kind = "calls" /\ b1.key = Plain("alRolesOnDiamond")
  BY KeyOfSystem
<1>4. b2.kind = "calls" /\ b2.key = Plain("registerHook")
  BY KeyOfSystem1
<1>5. b3.kind = "calls" /\ b3.key = Plain("ilRoleOnDiamond")
  BY KeyOfSystem1
<1>6. list = [i \in DOMAIN DiamondRoles |-> list[i]]
  OBVIOUS
<1>7. ASSUME NEW i \in DOMAIN DiamondRoles PROVE list[i].kind = "calls" /\ list[i].key = <<"diamondRoles", DiamondRoles[i]>>
  <2>. DEFINE st == Item("diamondRoles", DiamondRoles[i], Grant("diamond", DiamondRoles[i], c.admin), FALSE)
  <2>1. list[i] = st
    OBVIOUS
  <2>2. st.kind = "calls" /\ st.key = <<"diamondRoles", DiamondRoles[i]>>
    BY DEF Item
  <2>. HIDE DEF list, st
  <2>. QED  BY <2>1, <2>2
<1>. HIDE DEF a1, a2, b1, b2, b3, list
<1>8. Brings(first, {a1.key, a2.key})
  BY <1>2, Brings2
<1>9. Brings(last, {b1.key, b2.key, b3.key})
  BY <1>3, <1>4, <1>5, Brings3
<1>10. Brings(list, roles)
  <2>1. DiamondRoles \in Seq(STRING)
    BY NamesAssumption
  <2>. QED  BY <2>1, <1>6, <1>7, BringsEach
<1>11. CoreKeys \subseteq ({a1.key, a2.key} \cup roles) \cup {b1.key, b2.key, b3.key}
  <2>1. ASSUME NEW r \in ToSet(DiamondRoles) PROVE <<"diamondRoles", r>> \in roles
    <3>1. PICK i \in DOMAIN DiamondRoles : r = DiamondRoles[i]
      BY DEF ToSet
    <3>2. list[i].key = <<"diamondRoles", r>>
      BY <1>7, <3>1
    <3>. QED  BY <3>2
  <2>. HIDE DEF roles
  <2>. QED  BY <1>3, <1>4, <1>5, <2>1 DEF CoreKeys
<1>. HIDE DEF first, last, roles
<1>12. Brings(first \o list, {a1.key, a2.key} \cup roles)
  BY <1>8, <1>10, BringsRow
<1>13. Brings(first \o list \o last, ({a1.key, a2.key} \cup roles) \cup {b1.key, b2.key, b3.key})
  BY <1>9, <1>12, BringsRow
<1>. QED  BY <1>1, <1>11, <1>13 DEF Brings

LEMMA AccountLayerRolesBring ==
  ASSUME NEW c
  PROVE  Brings(AccountLayerRoles(c), AccountKeys)
<1>. DEFINE a == System1("alDefaultAdmin", Grant("accountLayer", "DEFAULT_ADMIN_ROLE", c.admin))
            b == System("alAdminRoles",
                   << Grant("accountLayer", "SETTER_ROLE", c.admin), Grant("accountLayer", "APPROVER_ROLE", c.admin),
                      Grant("accountLayer", "PAUSER_ROLE", c.admin), Grant("accountLayer", "UNPAUSER_ROLE", c.admin) >>)
            d == System1("ilRoleOnAL", Grant("accountLayer", "SIGNER_SETTER_ROLE", "instantLayer"))
            e == System1("alWhitelistSymmio", Call("accountLayer", "setWhitelistedSymmioCore", "", "diamond"))
            f == System1("ilSetAccountLayer", Call("instantLayer", "setAccountLayer", "", "accountLayer"))
<1>1. AccountLayerRoles(c) = << a, b, d, e, f >>
  BY DEF AccountLayerRoles
<1>2. a.kind = "calls" /\ a.key = Plain("alDefaultAdmin")
  BY KeyOfSystem1
<1>3. b.kind = "calls" /\ b.key = Plain("alAdminRoles")
  BY KeyOfSystem
<1>4. d.kind = "calls" /\ d.key = Plain("ilRoleOnAL")
  BY KeyOfSystem1
<1>5. e.kind = "calls" /\ e.key = Plain("alWhitelistSymmio")
  BY KeyOfSystem1
<1>6. f.kind = "calls" /\ f.key = Plain("ilSetAccountLayer")
  BY KeyOfSystem1
<1>. HIDE DEF a, b, d, e, f
<1>7. Brings(<< a, b, d, e, f >>, AccountKeys)
  BY <1>2, <1>3, <1>4, <1>5, <1>6, Brings5 DEF AccountKeys
<1>. QED  BY <1>1, <1>7

LEMMA InstantLayerSetupBrings ==
  ASSUME NEW c
  PROVE  Brings(InstantLayerSetup(c), InstantKeys)
<1>. DEFINE a == System1("ilDefaultAdmin", Grant("instantLayer", "DEFAULT_ADMIN_ROLE", c.admin))
            b == System1("ilGrantSetterRole", Grant("instantLayer", "SETTER_ROLE", c.admin))
            d == System1("ilWhitelistDiamond", Call("instantLayer", "setTargetWhitelist", "diamond", "diamond"))
            e == System1("ilWhitelistAL", Call("instantLayer", "setTargetWhitelist", "accountLayer", "accountLayer"))
<1>1. InstantLayerSetup(c) = << a, b, d, e >>
  BY DEF InstantLayerSetup
<1>2. a.kind = "calls" /\ a.key = Plain("ilDefaultAdmin")
  BY KeyOfSystem1
<1>3. b.kind = "calls" /\ b.key = Plain("ilGrantSetterRole")
  BY KeyOfSystem1
<1>4. d.kind = "calls" /\ d.key = Plain("ilWhitelistDiamond")
  BY KeyOfSystem1
<1>5. e.kind = "calls" /\ e.key = Plain("ilWhitelistAL")
  BY KeyOfSystem1
<1>. HIDE DEF a, b, d, e
<1>6. Brings(<< a, b, d, e >>, InstantKeys)
  BY <1>2, <1>3, <1>4, <1>5, Brings4 DEF InstantKeys
<1>. QED  BY <1>1, <1>6

LEMMA ParameterStepsBring ==
  Brings(ParameterSteps, ParameterKeys)
<1>. DEFINE a == System1("setCollateral", Call("diamond", "setCollateral", "", "collateral"))
            list == [i \in DOMAIN Parameters |->
                      Item("parameter", Parameters[i].name,
                           Call("diamond", "setParameter", Parameters[i].name, "value"), FALSE)]
            keys == { list[i].key : i \in DOMAIN Parameters }
            first == << a >>
<1>1. ParameterSteps = first \o list
  BY DEF ParameterSteps, Each
<1>2. a.kind = "calls" /\ a.key = Plain("setCollateral")
  BY KeyOfSystem1
<1>3. list = [i \in DOMAIN Parameters |-> list[i]]
  OBVIOUS
<1>4. ASSUME NEW i \in DOMAIN Parameters
      PROVE  list[i].kind = "calls" /\ list[i].key = <<"parameter", Parameters[i].name>>
  <2>. DEFINE st == Item("parameter", Parameters[i].name,
                         Call("diamond", "setParameter", Parameters[i].name, "value"), FALSE)
  <2>1. list[i] = st
    OBVIOUS
  <2>2. st.kind = "calls" /\ st.key = <<"parameter", Parameters[i].name>>
    BY DEF Item
  <2>. HIDE DEF list, st
  <2>. QED  BY <2>1, <2>2
<1>. HIDE DEF a, list
<1>5. Brings(first, {a.key})
  BY <1>2, Brings1
<1>6. Brings(list, keys)
  <2>1. Parameters \in Seq([name : STRING, role : STRING])
    BY NamesAssumption
  <2>. QED  BY <2>1, <1>3, <1>4, BringsEach
<1>7. ParameterKeys \subseteq {a.key} \cup keys
  <2>1. ASSUME NEW p \in ToSet(Parameters) PROVE <<"parameter", p.name>> \in keys
    <3>1. PICK i \in DOMAIN Parameters : p = Parameters[i]
      BY DEF ToSet
    <3>2. list[i].key = <<"parameter", p.name>>
      BY <1>4, <3>1
    <3>. QED  BY <3>2
  <2>. HIDE DEF keys
  <2>. QED  BY <1>2, <2>1 DEF ParameterKeys
<1>. HIDE DEF first, keys
<1>8. Brings(first \o list, {a.key} \cup keys)
  BY <1>5, <1>6, BringsRow
<1>. QED  BY <1>1, <1>7, <1>8 DEF Brings

\* Parts that bring nothing that is asked about.
LEMMA OneInARow ==
  ASSUME NEW a
  PROVE  Brings(<<a>>, {})
<1>1. <<a>> \in Seq({a})
  OBVIOUS
<1>. QED  BY <1>1 DEF Brings, IsSequence

LEMMA TwoInARow ==
  ASSUME NEW a, NEW b
  PROVE  Brings(<<a, b>>, {})
<1>1. <<a, b>> \in Seq({a, b})
  OBVIOUS
<1>. QED  BY <1>1 DEF Brings, IsSequence

LEMMA MaybeNothing ==
  ASSUME NEW condition, NEW s, Brings(s, {})
  PROVE  Brings(Only(condition, s), {})
<1>1. <<>> \in Seq({})
  OBVIOUS
<1>. QED  BY <1>1 DEF Only, Brings, IsSequence

LEMMA VerifierSetupBrings ==
  ASSUME NEW c \in Configs
  PROVE  Brings(VerifierSetup(c), VerifierKeys)
<1>. DEFINE a == System1("setSignatureVerifier",
                         Call("diamond", "setSignatureVerifierAddress", "", "signatureVerifier"))
            set == << a >>
            r1 == System1("msvDefaultAdmin", Grant("signatureVerifier", "DEFAULT_ADMIN_ROLE", c.admin))
            r2 == System1("msvSetterRole", Grant("signatureVerifier", "SETTER_ROLE", c.admin))
            require == Require(AdministersVerifier(c))
            public == Item("msvPublicKey", "", Call("signatureVerifier", "addPublicKey", "", "muonKey"), TRUE)
            s1 == Only(AdministersVerifier(c), << r1, r2 >>)
            s2 == Only(c.muonKey # "none", << require >>)
            s3 == Only(c.muonKey = "both", << public >>)
            s4 == Only(c.gatewaySigners # <<>>, << require >>)
            s5 == [i \in DOMAIN c.gatewaySigners |->
                     Item("msvGatewaySigners", c.gatewaySigners[i],
                          Call("signatureVerifier", "addGatewaySigner", c.gatewaySigners[i], c.gatewaySigners[i]), TRUE)]
            real == s1 \o set \o s2 \o s3 \o s4 \o s5
<1>1. VerifierSetup(c) = IF c.verifier = "mock" THEN set ELSE real
  BY DEF VerifierSetup, Each
<1>2. a.kind = "calls" /\ a.key = Plain("setSignatureVerifier")
  BY KeyOfSystem1
<1>3. s5 = [i \in DOMAIN c.gatewaySigners |-> s5[i]]
  OBVIOUS
<1>4. ASSUME NEW i \in DOMAIN c.gatewaySigners PROVE s5[i].kind = "calls"
  BY DEF Item
<1>5. Brings(s1, {}) /\ Brings(s2, {}) /\ Brings(s3, {}) /\ Brings(s4, {})
  <2>. HIDE DEF r1, r2, require, public
  <2>1. Brings(<< r1, r2 >>, {}) /\ Brings(<< require >>, {}) /\ Brings(<< public >>, {})
    BY OneInARow, TwoInARow
  <2>. QED  BY <2>1, MaybeNothing
<1>. HIDE DEF a, s1, s2, s3, s4, s5
<1>6. Brings(set, {a.key})
  BY <1>2, Brings1
<1>7. Brings(s5, {})
  <2>1. PICK K : Brings(s5, K)
    <3>1. c.gatewaySigners \in Seq(STRING \ Contracts)
      BY ConfigFacts
    <3>. QED  BY <3>1, <1>3, <1>4, BringsEach
  <2>. QED  BY <2>1 DEF Brings
<1>8. VerifierKeys = {a.key}
  BY <1>2 DEF VerifierKeys
<1>. HIDE DEF set
<1>9. Brings(s1 \o set, {} \cup {a.key})
  BY <1>5, <1>6, BringsRow
<1>10. Brings(s1 \o set \o s2, {} \cup {a.key} \cup {})
  BY <1>5, <1>9, BringsRow
<1>11. Brings(s1 \o set \o s2 \o s3, {} \cup {a.key} \cup {} \cup {})
  BY <1>5, <1>10, BringsRow
<1>12. Brings(s1 \o set \o s2 \o s3 \o s4, {} \cup {a.key} \cup {} \cup {} \cup {})
  BY <1>5, <1>11, BringsRow
<1>13. Brings(real, {} \cup {a.key} \cup {} \cup {} \cup {} \cup {})
  BY <1>7, <1>12, BringsRow
<1>14. {} \cup {a.key} \cup {} \cup {} \cup {} \cup {} = VerifierKeys
  BY <1>8
<1>. HIDE DEF real
<1>. QED  BY <1>1, <1>6, <1>8, <1>13, <1>14

LEMMA PartyBSetupBrings ==
  ASSUME NEW c
  PROVE  Brings(PartyBSetup(c), PartyBKeys)
<1>. DEFINE a == System1("registerPartyB", Call("diamond", "registerPartyB", "", "symmioPartyB"))
            adl == System1("setAdlEnabled", Call("diamond", "setADLEnabled", "", "symmioPartyB"))
            b1 == System1("pbDefaultAdmin", Grant("symmioPartyB", "DEFAULT_ADMIN_ROLE", c.admin))
            b2 == System1("pbTrustedRole", Grant("symmioPartyB", "TRUSTED_ROLE", "instantLayer"))
            b3 == System1("pbManagerRole", Grant("symmioPartyB", "MANAGER_ROLE", c.admin))
            b4 == System1("pbSetterRole", Grant("symmioPartyB", "SETTER_ROLE", c.admin))
            b5 == System1("pbMulticastWhitelist", Call("symmioPartyB", "setMulticastWhitelist", "", "instantLayer"))
            signer == System1("pbSetSigner", Call("symmioPartyB", "setSigner", "", "signer"))
            d == System1("ilRegisterPartyB", Call("instantLayer", "registerPartyBs", "", "symmioPartyB"))
            p1 == << a >>
            p2 == Only(c.adl, << adl >>)
            p3 == << b1, b2, b3, b4, b5 >>
            p4 == Only(c.partyBSigner, << signer >>)
            p5 == << d >>
<1>1. PartyBSetup(c) = p1 \o p2 \o p3 \o p4 \o p5
  BY DEF PartyBSetup
<1>2. a.kind = "calls" /\ a.key = Plain("registerPartyB")
  BY KeyOfSystem1
<1>3. b1.kind = "calls" /\ b1.key = Plain("pbDefaultAdmin")
  BY KeyOfSystem1
<1>4. b2.kind = "calls" /\ b2.key = Plain("pbTrustedRole")
  BY KeyOfSystem1
<1>5. b3.kind = "calls" /\ b3.key = Plain("pbManagerRole")
  BY KeyOfSystem1
<1>6. b4.kind = "calls" /\ b4.key = Plain("pbSetterRole")
  BY KeyOfSystem1
<1>7. b5.kind = "calls" /\ b5.key = Plain("pbMulticastWhitelist")
  BY KeyOfSystem1
<1>8. d.kind = "calls" /\ d.key = Plain("ilRegisterPartyB")
  BY KeyOfSystem1
<1>9. Brings(p2, {}) /\ Brings(p4, {})
  <2>. HIDE DEF adl, signer
  <2>1. Brings(<< adl >>, {}) /\ Brings(<< signer >>, {})
    BY OneInARow
  <2>. QED  BY <2>1, MaybeNothing
<1>. DEFINE middle == {b1.key, b2.key, b3.key, b4.key, b5.key}
<1>. HIDE DEF a, b1, b2, b3, b4, b5, d, p2, p4
<1>10. Brings(p1, {a.key}) /\ Brings(p5, {d.key})
  BY <1>2, <1>8, Brings1
<1>11. Brings(p3, middle)
  BY <1>3, <1>4, <1>5, <1>6, <1>7, Brings5
<1>12. PartyBKeys \subseteq {a.key} \cup {} \cup middle \cup {} \cup {d.key}
  BY <1>2, <1>3, <1>4, <1>5, <1>6, <1>7, <1>8 DEF PartyBKeys
<1>. HIDE DEF p1, p3, p5, middle
<1>13. Brings(p1 \o p2, {a.key} \cup {})
  BY <1>9, <1>10, BringsRow
<1>14. Brings(p1 \o p2 \o p3, {a.key} \cup {} \cup middle)
  BY <1>11, <1>13, BringsRow
<1>15. Brings(p1 \o p2 \o p3 \o p4, {a.key} \cup {} \cup middle \cup {})
  BY <1>9, <1>14, BringsRow
<1>16. Brings(p1 \o p2 \o p3 \o p4 \o p5, {a.key} \cup {} \cup middle \cup {} \cup {d.key})
  BY <1>10, <1>15, BringsRow
<1>. QED  BY <1>1, <1>12, <1>16 DEF Brings

LEMMA TemplateSectionBrings ==
  Brings(TemplateSection, TemplateKeys)
<1>. DEFINE a == Setup("instantOpen", << Call("instantLayer", "addTemplate", "InstantOpen", "") >>,
                       "instantLayerTemplates")
            b == Setup("instantOpenMode",
                       << Call("instantLayer", "setTemplateInstantOpenMode", "", "template") >>,
                       "instantLayerTemplates")
            d == Setup("instantClose", << Call("instantLayer", "addTemplate", "InstantClose", "") >>,
                       "instantLayerTemplates")
            e == Setup("instantCloseWithAllocation",
                       << Call("instantLayer", "addTemplate", "InstantCloseWithAllocation", "") >>,
                       "instantLayerTemplates")
            f == Flag("instantLayerTemplates")
            s == << a, b, d, e, f >>
<1>1. TemplateSection = s
  BY DEF TemplateSection
<1>2. a.kind = "calls" /\ a.key = Plain("instantOpen")
  BY KeyOfSetup
<1>3. d.kind = "calls" /\ d.key = Plain("instantClose")
  BY KeyOfSetup
<1>4. e.kind = "calls" /\ e.key = Plain("instantCloseWithAllocation")
  BY KeyOfSetup
<1>. HIDE DEF a, b, d, e, f
<1>5. /\ s \in Seq({a, b, d, e, f}) /\ DOMAIN s = 1..5 /\ s[1] = a /\ s[3] = d /\ s[4] = e
      /\ 1 \in 1..5 /\ 3 \in 1..5 /\ 4 \in 1..5
  OBVIOUS
<1>. HIDE DEF s
<1>6. a \in ToSet(s) /\ d \in ToSet(s) /\ e \in ToSet(s)
  BY <1>5 DEF ToSet
<1>7. Brings(s, TemplateKeys)
  BY <1>2, <1>3, <1>4, <1>5, <1>6 DEF Brings, IsSequence, KeysIn, TemplateKeys
<1>. QED  BY <1>1, <1>7

LEMMA SystemSetupBrings ==
  ASSUME NEW c \in Configs
  PROVE  Brings(SystemSetup(c), CoreKeys \cup AccountKeys \cup VerifierKeys \cup ParameterKeys \cup InstantKeys
                                \cup (IF c.deployPartyB THEN PartyBKeys ELSE {}))
<1>. DEFINE p1 == CoreRoles(c)
            p2 == p1 \o AccountLayerRoles(c)
            p3 == p2 \o VerifierSetup(c)
            p4 == p3 \o MuonRuntime(c)
            p5 == p4 \o ParameterSteps
            p6 == p5 \o InstantLayerSetup(c)
            partyB == Only(c.deployPartyB, PartyBSetup(c))
            p7 == p6 \o partyB
            manager == Only(c.deploySymbolManager, SymbolManagerSetup(c))
            p8 == p7 \o manager
            last == << Flag("systemRoles") >>
            keysB == IF c.deployPartyB THEN PartyBKeys ELSE {}
<1>1. SystemSetup(c) = p8 \o last
  BY DEF SystemSetup
<1>2. Brings(partyB, keysB)
  BY PartyBSetupBrings, BringsOnly
<1>3. Brings(manager, {})
  BY SymbolManagerSetupFits, SystemPartOnly, BringsNothing
<1>4. Brings(last, {})
  BY OneInARow
<1>. HIDE DEF partyB, manager, last, keysB
<1>5. Brings(p2, CoreKeys \cup AccountKeys)
  BY CoreRolesBring, AccountLayerRolesBring, BringsRow
<1>. HIDE DEF p2
<1>6. Brings(p3, CoreKeys \cup AccountKeys \cup VerifierKeys)
  BY <1>5, VerifierSetupBrings, BringsRow
<1>. HIDE DEF p3
<1>7. Brings(p4, CoreKeys \cup AccountKeys \cup VerifierKeys \cup {})
  BY <1>6, MuonRuntimeFits, BringsNothing, BringsRow
<1>. HIDE DEF p4
<1>8. Brings(p5, CoreKeys \cup AccountKeys \cup VerifierKeys \cup {} \cup ParameterKeys)
  BY <1>7, ParameterStepsBring, BringsRow
<1>. HIDE DEF p5
<1>9. Brings(p6, CoreKeys \cup AccountKeys \cup VerifierKeys \cup {} \cup ParameterKeys \cup InstantKeys)
  BY <1>8, InstantLayerSetupBrings, BringsRow
<1>. HIDE DEF p6
<1>10. Brings(p7, CoreKeys \cup AccountKeys \cup VerifierKeys \cup {} \cup ParameterKeys \cup InstantKeys \cup keysB)
  BY <1>2, <1>9, BringsRow
<1>. HIDE DEF p7
<1>11. Brings(p8, CoreKeys \cup AccountKeys \cup VerifierKeys \cup {} \cup ParameterKeys \cup InstantKeys \cup keysB
                  \cup {})
  BY <1>3, <1>10, BringsRow
<1>. HIDE DEF p8
<1>12. Brings(p8 \o last, CoreKeys \cup AccountKeys \cup VerifierKeys \cup {} \cup ParameterKeys \cup InstantKeys
                          \cup keysB \cup {} \cup {})
  BY <1>4, <1>11, BringsRow
<1>13. Brings(p8 \o last, CoreKeys \cup AccountKeys \cup VerifierKeys \cup ParameterKeys \cup InstantKeys \cup keysB)
  BY <1>12 DEF Brings
<1>. QED  BY <1>1, <1>13 DEF keysB

----------------------------------------------------------------------------
(* The whole plan                                                          *)

LEMMA GuardedTogether ==
  ASSUME NEW A, NEW B
  PROVE  Guarded(A \cup B) = Guarded(A) \cup Guarded(B)
BY DEF Guarded

LEMMA NoPart ==
  ASSUME NEW c, NEW before
  PROVE  FitsAfter(c, before, <<>>) /\ ToSet(<<>>) = {}
<1>1. <<>> \in Seq({}) /\ DOMAIN <<>> = {}
  OBVIOUS
<1>. QED  BY <1>1 DEF FitsAfter, IsSequence, ToSet

LEMMA OnePart ==
  ASSUME NEW c, NEW before, NEW a, StepFits(c, a, before)
  PROVE  FitsAfter(c, before, <<a>>) /\ ToSet(<<a>>) = {a}
<1>. DEFINE s == <<a>>
<1>1. s \in Seq({a}) /\ DOMAIN s = 1..1 /\ s[1] = a
  OBVIOUS
<1>2. ToSet(s) = {a}
  BY DEF ToSet
<1>. HIDE DEF s
<1>3. before \cup Before(s, 1) = before
  BY DEF Before
<1>4. \A i \in 1..1 : StepFits(c, s[i], before \cup Before(s, i))
  <2>1. \A i \in 1..1 : i = 1
    OBVIOUS
  <2>. QED  BY <2>1, <1>1, <1>3
<1>5. FitsAfter(c, before, s)
  BY <1>1, <1>4 DEF FitsAfter, IsSequence
<1>. QED  BY <1>2, <1>5 DEF s

LEMMA TwoParts ==
  ASSUME NEW c, NEW before, NEW a, NEW b, StepFits(c, a, before), StepFits(c, b, before \cup {a})
  PROVE  FitsAfter(c, before, <<a, b>>) /\ ToSet(<<a, b>>) = {a, b}
<1>. DEFINE s == <<a, b>>
<1>1. s \in Seq({a, b}) /\ DOMAIN s = 1..2 /\ s[1] = a /\ s[2] = b
  OBVIOUS
<1>2. ToSet(s) = {a, b}
  BY DEF ToSet
<1>. HIDE DEF s
<1>3. Before(s, 1) = {}
  BY DEF Before
<1>4. Before(s, 2) = {a}
  <2>1. 1..(2 - 1) = {1}
    OBVIOUS
  <2>. QED  BY <1>1, <2>1 DEF Before
<1>5. before \cup Before(s, 1) = before /\ before \cup Before(s, 2) = before \cup {a}
  BY <1>3, <1>4
<1>6. \A i \in 1..2 : StepFits(c, s[i], before \cup Before(s, i))
  <2>1. \A i \in 1..2 : i = 1 \/ i = 2
    OBVIOUS
  <2>. QED  BY <2>1, <1>1, <1>5
<1>7. FitsAfter(c, before, s)
  BY <1>1, <1>6 DEF FitsAfter, IsSequence
<1>. QED  BY <1>2, <1>7 DEF s

LEMMA ThreeParts ==
  ASSUME NEW c, NEW before, NEW a, NEW b, NEW d,
         StepFits(c, a, before), StepFits(c, b, before \cup {a}), StepFits(c, d, before \cup {a, b})
  PROVE  FitsAfter(c, before, <<a, b, d>>) /\ ToSet(<<a, b, d>>) = {a, b, d}
<1>. DEFINE s == <<a, b, d>>
<1>1. s \in Seq({a, b, d}) /\ DOMAIN s = 1..3 /\ s[1] = a /\ s[2] = b /\ s[3] = d
  OBVIOUS
<1>2. ToSet(s) = {a, b, d}
  BY DEF ToSet
<1>. HIDE DEF s
<1>3. Before(s, 1) = {}
  BY DEF Before
<1>4. Before(s, 2) = {a}
  <2>1. 1..(2 - 1) = {1}
    OBVIOUS
  <2>. QED  BY <1>1, <2>1 DEF Before
<1>5. Before(s, 3) = {a, b}
  <2>1. 1..(3 - 1) = {1, 2}
    OBVIOUS
  <2>. QED  BY <1>1, <2>1 DEF Before
<1>6. before \cup Before(s, 1) = before
  BY <1>3
<1>7. \A i \in 1..3 : StepFits(c, s[i], before \cup Before(s, i))
  <2>1. \A i \in 1..3 : i = 1 \/ i = 2 \/ i = 3
    OBVIOUS
  <2>2. StepFits(c, s[1], before \cup Before(s, 1))
    BY <1>1, <1>6
  <2>3. StepFits(c, s[2], before \cup Before(s, 2))
    BY <1>1, <1>4
  <2>4. StepFits(c, s[3], before \cup Before(s, 3))
    BY <1>1, <1>5
  <2>. QED  BY <2>1, <2>2, <2>3, <2>4
<1>8. FitsAfter(c, before, s)
  BY <1>1, <1>7 DEF FitsAfter, IsSequence
<1>. QED  BY <1>2, <1>8 DEF s

LEMMA FourParts ==
  ASSUME NEW c, NEW before, NEW a, NEW b, NEW d, NEW e,
         StepFits(c, a, before), StepFits(c, b, before \cup {a}), StepFits(c, d, before \cup {a, b}),
         StepFits(c, e, before \cup {a, b, d})
  PROVE  FitsAfter(c, before, <<a, b, d, e>>) /\ ToSet(<<a, b, d, e>>) = {a, b, d, e}
<1>. DEFINE s == <<a, b, d, e>>
<1>1. s \in Seq({a, b, d, e}) /\ DOMAIN s = 1..4 /\ s[1] = a /\ s[2] = b /\ s[3] = d /\ s[4] = e
  OBVIOUS
<1>2. ToSet(s) = {a, b, d, e}
  BY DEF ToSet
<1>. HIDE DEF s
<1>3. Before(s, 1) = {}
  BY DEF Before
<1>4. Before(s, 2) = {a}
  <2>1. 1..(2 - 1) = {1}
    OBVIOUS
  <2>. QED  BY <1>1, <2>1 DEF Before
<1>5. Before(s, 3) = {a, b}
  <2>1. 1..(3 - 1) = {1, 2}
    OBVIOUS
  <2>. QED  BY <1>1, <2>1 DEF Before
<1>6. Before(s, 4) = {a, b, d}
  <2>1. 1..(4 - 1) = {1, 2, 3}
    OBVIOUS
  <2>. QED  BY <1>1, <2>1 DEF Before
<1>7. before \cup Before(s, 1) = before
  BY <1>3
<1>8. \A i \in 1..4 : StepFits(c, s[i], before \cup Before(s, i))
  <2>1. \A i \in 1..4 : i = 1 \/ i = 2 \/ i = 3 \/ i = 4
    OBVIOUS
  <2>2. StepFits(c, s[1], before \cup Before(s, 1))
    BY <1>1, <1>7
  <2>3. StepFits(c, s[2], before \cup Before(s, 2))
    BY <1>1, <1>4
  <2>4. StepFits(c, s[3], before \cup Before(s, 3))
    BY <1>1, <1>5
  <2>5. StepFits(c, s[4], before \cup Before(s, 4))
    BY <1>1, <1>6
  <2>. QED  BY <2>1, <2>2, <2>3, <2>4, <2>5
<1>9. FitsAfter(c, before, s)
  BY <1>1, <1>8 DEF FitsAfter, IsSequence
<1>. QED  BY <1>2, <1>9 DEF s

LEMMA FiveParts ==
  ASSUME NEW c, NEW before, NEW a, NEW b, NEW d, NEW e, NEW f,
         StepFits(c, a, before), StepFits(c, b, before \cup {a}), StepFits(c, d, before \cup {a, b}),
         StepFits(c, e, before \cup {a, b, d}), StepFits(c, f, before \cup {a, b, d, e})
  PROVE  FitsAfter(c, before, <<a, b, d, e, f>>) /\ ToSet(<<a, b, d, e, f>>) = {a, b, d, e, f}
<1>. DEFINE s == <<a, b, d, e, f>>
<1>1. s \in Seq({a, b, d, e, f}) /\ DOMAIN s = 1..5 /\ s[1] = a /\ s[2] = b /\ s[3] = d /\ s[4] = e /\ s[5] = f
  OBVIOUS
<1>2. ToSet(s) = {a, b, d, e, f}
  BY DEF ToSet
<1>. HIDE DEF s
<1>3. Before(s, 1) = {}
  BY DEF Before
<1>4. Before(s, 2) = {a}
  <2>1. 1..(2 - 1) = {1}
    OBVIOUS
  <2>. QED  BY <1>1, <2>1 DEF Before
<1>5. Before(s, 3) = {a, b}
  <2>1. 1..(3 - 1) = {1, 2}
    OBVIOUS
  <2>. QED  BY <1>1, <2>1 DEF Before
<1>6. Before(s, 4) = {a, b, d}
  <2>1. 1..(4 - 1) = {1, 2, 3}
    OBVIOUS
  <2>. QED  BY <1>1, <2>1 DEF Before
<1>7. Before(s, 5) = {a, b, d, e}
  <2>1. 1..(5 - 1) = {1, 2, 3, 4}
    OBVIOUS
  <2>. QED  BY <1>1, <2>1 DEF Before
<1>8. before \cup Before(s, 1) = before
  BY <1>3
<1>9. \A i \in 1..5 : StepFits(c, s[i], before \cup Before(s, i))
  <2>1. \A i \in 1..5 : i = 1 \/ i = 2 \/ i = 3 \/ i = 4 \/ i = 5
    OBVIOUS
  <2>2. StepFits(c, s[1], before \cup Before(s, 1))
    BY <1>1, <1>8
  <2>3. StepFits(c, s[2], before \cup Before(s, 2))
    BY <1>1, <1>4
  <2>4. StepFits(c, s[3], before \cup Before(s, 3))
    BY <1>1, <1>5
  <2>5. StepFits(c, s[4], before \cup Before(s, 4))
    BY <1>1, <1>6
  <2>6. StepFits(c, s[5], before \cup Before(s, 5))
    BY <1>1, <1>7
  <2>. QED  BY <2>1, <2>2, <2>3, <2>4, <2>5, <2>6
<1>10. FitsAfter(c, before, s)
  BY <1>1, <1>9 DEF FitsAfter, IsSequence
<1>. QED  BY <1>2, <1>10 DEF s

LEMMA OnlyFits ==
  ASSUME NEW c, NEW before, NEW condition, NEW s, condition => FitsAfter(c, before, s)
  PROVE  FitsAfter(c, before, Only(condition, s)) /\ ToSet(Only(condition, s)) \subseteq ToSet(s)
BY NoPart DEF Only

\* A part that sets no flag.
Unflagged(s) == \A st \in ToSet(s) : st.kind # "flag"

\* The deployment of one contract after those it links.
LEMMA DeployFits ==
  ASSUME NEW c, NEW before, NEW name, NEW links, NEW log, name \in Deployable,
         name \in Nameable => links = {}, name \in Attached => "diamond" \in links,
         name = "symmioPartyB" => c.deployPartyB,
         \A n \in links : n \in Guarded(before) \/ n = "partyBImplementation"
  PROVE  StepFits(c, Deploy(name, links, log), before) /\ Deploy(name, links, log).kind = "deploy"
<1>. DEFINE st == Deploy(name, links, log)
<1>1. st.kind = "deploy" /\ st.name = name /\ st.guard = name /\ st.links = links
  BY DEF Deploy
<1>. HIDE DEF st
<1>2. links \subseteq Guarded(before) \cup {"partyBImplementation"}
  OBVIOUS
<1>3. StepFits(c, st, before)
  BY <1>1, <1>2 DEF StepFits
<1>. QED  BY <1>1, <1>3 DEF st

LEMMA DeployGuarded ==
  ASSUME NEW name, NEW links, NEW log, NEW B, Deploy(name, links, log) \in B
  PROVE  name \in Guarded(B)
<1>. DEFINE st == Deploy(name, links, log)
<1>1. st.kind = "deploy" /\ st.name = name /\ st.guard = name /\ st \in B
  BY DEF Deploy
<1>. HIDE DEF st
<1>. QED  BY <1>1 DEF Guarded

LEMMA WriteFits ==
  ASSUME NEW c, NEW before, NEW file, NEW names, IsFiniteSet(names)
  PROVE  StepFits(c, WriteLog(file, names), before) /\ WriteLog(file, names).kind # "flag"
<1>. DEFINE st == WriteLog(file, names)
<1>1. st.kind = "write" /\ st.names = names
  BY DEF WriteLog
<1>. HIDE DEF st
<1>2. StepFits(c, st, before) /\ st.kind # "flag"
  BY <1>1 DEF StepFits
<1>. QED  BY <1>2 DEF st

LEMMA CutFits ==
  ASSUME NEW c, NEW before, NEW st \in CutSteps
  PROVE  StepFits(c, st, before) /\ st.kind # "flag"
<1>1. st.kind = "cut"
  BY DEF CutSteps, Cut
<1>. QED  BY <1>1 DEF StepFits

LEMMA DeployableNames ==
  /\ FixedContracts \ {"accountManager"} \subseteq Deployable
  /\ (Libraries \cup ToSet(CoreFacets) \cup ToSet(AccountFacets)) \cap (Nameable \cup Attached) = {}
  /\ Libraries \subseteq Deployable /\ ToSet(CoreFacets) \subseteq Deployable /\ ToSet(AccountFacets) \subseteq Deployable
<1>1. "accountManager" \in FixedContracts
  BY DEF FixedContracts
<1>2. (FixedContracts \cup Accounts) \cap (Libraries \cup ToSet(CoreFacets) \cup ToSet(AccountFacets)) = {}
  BY NamesAssumption
<1>3. Nameable \cup Attached \subseteq FixedContracts
  BY DEF FixedContracts, Nameable, Attached
<1>. QED  BY <1>1, <1>2, <1>3 DEF Deployable, Contracts

LEMMA FiniteImage ==
  ASSUME NEW S, IsFiniteSet(S), NEW f, DOMAIN f = S, f = [x \in S |-> f[x]]
  PROVE  IsFiniteSet({ f[x] : x \in S })
<1>1. f \in Surjection(S, { f[x] : x \in S })
  BY DEF Surjection
<1>. QED  BY <1>1, FS_Surjection

LEMMA FiniteElements ==
  ASSUME NEW S, NEW list \in Seq(S)
  PROVE  IsFiniteSet(DOMAIN list) /\ IsFiniteSet(ToSet(list))
<1>1. Len(list) \in Nat /\ DOMAIN list = 1..Len(list) /\ list = [i \in DOMAIN list |-> list[i]]
  OBVIOUS
<1>2. IsFiniteSet(DOMAIN list)
  <2>1. \A n \in Nat : IsFiniteSet(1..n)
    <3>. TAKE n \in Nat
    <3>1. 1 \in Int /\ n \in Int
      OBVIOUS
    <3>. QED  BY <3>1, FS_Interval
  <2>. DEFINE n == Len(list)
  <2>2. n \in Nat /\ DOMAIN list = 1..n
    BY <1>1
  <2>. HIDE DEF n
  <2>. QED  BY <2>1, <2>2
<1>3. IsFiniteSet({ list[i] : i \in DOMAIN list })
  <2>. DEFINE D == DOMAIN list
  <2>1. IsFiniteSet(D) /\ DOMAIN list = D /\ list = [i \in D |-> list[i]]
    BY <1>1, <1>2
  <2>. HIDE DEF D
  <2>2. IsFiniteSet({ list[i] : i \in D })
    BY <2>1, FiniteImage
  <2>. QED  BY <2>2 DEF D
<1>. QED  BY <1>2, <1>3 DEF ToSet

\* The contracts a log file names.
LEMMA FiniteNames ==
  /\ IsFiniteSet({"diamondCutFacet", "diamond", "init"} \cup Libraries \cup ToSet(CoreFacets))
  /\ IsFiniteSet({"alCutFacet", "accountLayer", "alInit", "LibQuoteParams"} \cup ToSet(AccountFacets))
<1>1. IsFiniteSet(ToSet(CoreFacets)) /\ IsFiniteSet(ToSet(AccountFacets)) /\ IsFiniteSet(DOMAIN CoreLibraries)
  BY FiniteElements, NamesAssumption
<1>2. IsFiniteSet(Libraries)
  <2>. DEFINE f == [i \in DOMAIN CoreLibraries |-> CoreLibraries[i].name]
  <2>1. IsFiniteSet({ f[i] : i \in DOMAIN CoreLibraries })
    <3>1. f = [i \in DOMAIN CoreLibraries |-> f[i]] /\ DOMAIN f = DOMAIN CoreLibraries
      OBVIOUS
    <3>. HIDE DEF f
    <3>. QED  BY <1>1, <3>1, FiniteImage
  <2>2. { f[i] : i \in DOMAIN CoreLibraries } = Libraries
    BY DEF Libraries
  <2>. QED  BY <2>1, <2>2
<1>3. \A S, x : IsFiniteSet(S) => IsFiniteSet(S \cup {x})
  BY FS_AddElement
<1>4. IsFiniteSet({"diamondCutFacet", "diamond", "init"})
  <2>1. IsFiniteSet((({} \cup {"diamondCutFacet"}) \cup {"diamond"}) \cup {"init"})
    BY <1>3, FS_EmptySet
  <2>2. (({} \cup {"diamondCutFacet"}) \cup {"diamond"}) \cup {"init"} = {"diamondCutFacet", "diamond", "init"}
    OBVIOUS
  <2>. QED  BY <2>1, <2>2
<1>5. IsFiniteSet({"alCutFacet", "accountLayer", "alInit", "LibQuoteParams"})
  <2>1. IsFiniteSet(((({} \cup {"alCutFacet"}) \cup {"accountLayer"}) \cup {"alInit"}) \cup {"LibQuoteParams"})
    BY <1>3, FS_EmptySet
  <2>2. ((({} \cup {"alCutFacet"}) \cup {"accountLayer"}) \cup {"alInit"}) \cup {"LibQuoteParams"}
          = {"alCutFacet", "accountLayer", "alInit", "LibQuoteParams"}
    OBVIOUS
  <2>. QED  BY <2>1, <2>2
<1>. QED  BY <1>1, <1>2, <1>4, <1>5, FS_Union

\* One step for each element of a list.
LEMMA EachFits ==
  ASSUME NEW c, NEW before, NEW S, NEW list \in Seq(S), NEW s, s = [i \in DOMAIN list |-> s[i]],
         \A i \in DOMAIN list : StepFits(c, s[i], before \cup Before(s, i))
  PROVE  FitsAfter(c, before, s) /\ \A i \in DOMAIN list : s[i] \in ToSet(s)
<1>. DEFINE n == Len(list)  R == { s[i] : i \in 1..n }
<1>1. n \in Nat /\ DOMAIN list = 1..n
  OBVIOUS
<1>2. s \in [1..n -> R]
  BY <1>1
<1>. HIDE DEF n, R
<1>3. s \in Seq(R)
  BY <1>1, <1>2
<1>4. DOMAIN s = DOMAIN list
  OBVIOUS
<1>5. \A i \in DOMAIN list : s[i] \in ToSet(s)
  BY <1>4 DEF ToSet
<1>. QED  BY <1>3, <1>4, <1>5 DEF FitsAfter, IsSequence

LEMMA UnflaggedTogether ==
  ASSUME NEW s, NEW t, NEW u, ToSet(u) = ToSet(s) \cup ToSet(t), Unflagged(s), Unflagged(t)
  PROVE  Unflagged(u)
BY DEF Unflagged

LEMMA CoreLibrariesFit ==
  ASSUME NEW c, NEW before
  PROVE  LET s == Each(CoreLibraries, LAMBDA l : Deploy(l.name, LinkOf(l), ""))
         IN  FitsAfter(c, before, s) /\ Libraries \subseteq Guarded(ToSet(s)) /\ Unflagged(s)
<1>. DEFINE s == [i \in DOMAIN CoreLibraries |-> Deploy(CoreLibraries[i].name, LinkOf(CoreLibraries[i]), "")]
<1>1. s = [i \in DOMAIN CoreLibraries |-> s[i]] /\ DOMAIN s = DOMAIN CoreLibraries
  OBVIOUS
<1>2. CoreLibraries \in Seq([name : STRING, links : STRING])
  BY NamesAssumption
<1>3. \A i \in DOMAIN CoreLibraries : CoreLibraries[i].name \in Deployable \ (Nameable \cup Attached)
  BY DeployableNames DEF Libraries
<1>4. \A i \in DOMAIN CoreLibraries : s[i] = Deploy(CoreLibraries[i].name, LinkOf(CoreLibraries[i]), "")
  OBVIOUS
<1>. HIDE DEF s
<1>5. \A i \in DOMAIN CoreLibraries : \A B : s[i] \in B => CoreLibraries[i].name \in Guarded(B)
  BY <1>4, DeployGuarded
<1>6. ASSUME NEW i \in DOMAIN CoreLibraries
      PROVE  StepFits(c, s[i], before \cup Before(s, i)) /\ s[i].kind = "deploy"
  <2>1. LinkOf(CoreLibraries[i]) \subseteq Guarded(before \cup Before(s, i)) \cup {"partyBImplementation"}
    <3>1. CASE CoreLibraries[i].links = ""
      BY <3>1 DEF LinkOf
    <3>2. CASE \E j \in 1..(i - 1) : CoreLibraries[i].links = CoreLibraries[j].name
      <4>1. PICK j \in 1..(i - 1) : CoreLibraries[i].links = CoreLibraries[j].name
        BY <3>2
      <4>2. j \in DOMAIN CoreLibraries
        BY <1>2
      <4>3. s[j] \in before \cup Before(s, i)
        BY DEF Before
      <4>4. CoreLibraries[j].name \in Guarded(before \cup Before(s, i))
        BY <4>2, <4>3, <1>5
      <4>. QED  BY <4>1, <4>4 DEF LinkOf
    <3>. QED  BY <3>1, <3>2, NamesAssumption
  <2>. DEFINE name == CoreLibraries[i].name  links == LinkOf(CoreLibraries[i])  known == before \cup Before(s, i)
  <2>2. (\A n \in links : n \in Guarded(known) \/ n = "partyBImplementation") /\ name \in Deployable \ (Nameable \cup Attached)
    BY <2>1, <1>3
  <2>3. StepFits(c, Deploy(name, links, ""), known) /\ Deploy(name, links, "").kind = "deploy"
    <3>. HIDE DEF known, name, links
    <3>. QED  BY <2>2, DeployFits DEF Attached
  <2>. QED  BY <2>3, <1>4
<1>7. FitsAfter(c, before, s) /\ \A i \in DOMAIN CoreLibraries : s[i] \in ToSet(s)
  BY <1>1, <1>2, <1>6, EachFits
<1>8. Libraries \subseteq Guarded(ToSet(s))
  BY <1>5, <1>7 DEF Libraries
<1>9. Unflagged(s)
  BY <1>1, <1>6 DEF Unflagged, ToSet
<1>10. Each(CoreLibraries, LAMBDA l : Deploy(l.name, LinkOf(l), "")) = s
  BY DEF Each, s
<1>. QED  BY <1>7, <1>8, <1>9, <1>10

\* Facets are deployed after the libraries they link.
LEMMA FacetsFit ==
  ASSUME NEW c, NEW before, NEW S, NEW list \in Seq(S), ToSet(list) \subseteq Deployable \ (Nameable \cup Attached),
         \A f \in ToSet(list) : FacetLibraries[f] \subseteq Guarded(before)
  PROVE  LET s == Each(list, LAMBDA f : Deploy(f, FacetLibraries[f], ""))
         IN  FitsAfter(c, before, s) /\ Unflagged(s)
<1>. DEFINE s == [i \in DOMAIN list |-> Deploy(list[i], FacetLibraries[list[i]], "")]
<1>1. s = [i \in DOMAIN list |-> s[i]] /\ DOMAIN s = DOMAIN list
  OBVIOUS
<1>2. \A i \in DOMAIN list : s[i] = Deploy(list[i], FacetLibraries[list[i]], "")
  OBVIOUS
<1>. HIDE DEF s
<1>3. ASSUME NEW i \in DOMAIN list
      PROVE  StepFits(c, s[i], before \cup Before(s, i)) /\ s[i].kind = "deploy"
  <2>1. list[i] \in ToSet(list)
    BY DEF ToSet
  <2>2. FacetLibraries[list[i]] \subseteq Guarded(before \cup Before(s, i)) \cup {"partyBImplementation"}
    BY <2>1, GuardedTogether
  <2>. DEFINE name == list[i]  links == FacetLibraries[list[i]]  known == before \cup Before(s, i)
  <2>3. (\A n \in links : n \in Guarded(known) \/ n = "partyBImplementation") /\ name \in Deployable \ (Nameable \cup Attached)
    BY <2>1, <2>2
  <2>4. StepFits(c, Deploy(name, links, ""), known) /\ Deploy(name, links, "").kind = "deploy"
    <3>. HIDE DEF known, name, links
    <3>. QED  BY <2>3, DeployFits DEF Attached
  <2>. QED  BY <2>4, <1>2
<1>4. FitsAfter(c, before, s)
  BY <1>1, <1>3, EachFits
<1>5. Unflagged(s)
  BY <1>1, <1>3 DEF Unflagged, ToSet
<1>6. Each(list, LAMBDA f : Deploy(f, FacetLibraries[f], "")) = s
  BY DEF Each, s
<1>. QED  BY <1>4, <1>5, <1>6

LEMMA CollateralSectionFits ==
  ASSUME NEW c, NEW before
  PROVE  /\ FitsAfter(c, before, CollateralSection(c)) /\ Unflagged(CollateralSection(c))
         /\ "collateral" \in Guarded(ToSet(CollateralSection(c)))
<1>1. CASE c.existingCollateral
  <2>. DEFINE st == RecordExisting("collateral")
  <2>1. st.kind = "record" /\ st.guard = "collateral" /\ "collateral" \in Existing(c)
    BY <1>1 DEF RecordExisting, Existing
  <2>2. CollateralSection(c) = <<st>>
    BY <1>1 DEF CollateralSection
  <2>. HIDE DEF st
  <2>3. StepFits(c, st, before)
    BY <2>1 DEF StepFits
  <2>4. FitsAfter(c, before, <<st>>) /\ ToSet(<<st>>) = {st}
    BY <2>3, OnePart
  <2>. QED  BY <2>1, <2>2, <2>4 DEF Unflagged, Guarded
<1>2. CASE ~c.existingCollateral
  <2>. DEFINE st == Deploy("collateral", {}, "stablecoin")
  <2>1. "collateral" \in Deployable
    BY DeployableNames DEF FixedContracts
  <2>2. StepFits(c, st, before) /\ st.kind = "deploy" /\ \A B : st \in B => "collateral" \in Guarded(B)
    BY <2>1, DeployFits, DeployGuarded DEF Attached
  <2>3. CollateralSection(c) = <<st>>
    BY <1>2 DEF CollateralSection
  <2>. HIDE DEF st
  <2>4. FitsAfter(c, before, <<st>>) /\ ToSet(<<st>>) = {st}
    BY <2>2, OnePart
  <2>. QED  BY <2>2, <2>3, <2>4 DEF Unflagged
<1>. QED  BY <1>1, <1>2

LEMMA DiamondSectionFits ==
  ASSUME NEW c, NEW before
  PROVE  /\ FitsAfter(c, before, DiamondSection) /\ Unflagged(DiamondSection)
         /\ "diamond" \in Guarded(ToSet(DiamondSection)) /\ Libraries \subseteq Guarded(ToSet(DiamondSection))
<1>. DEFINE one == Deploy("diamondCutFacet", {}, "")  two == Deploy("diamond", {"diamondCutFacet"}, "")
            three == Deploy("init", {}, "")
            first == <<one, two, three>>
            libs == Each(CoreLibraries, LAMBDA l : Deploy(l.name, LinkOf(l), ""))
            facets == Each(CoreFacets, LAMBDA f : Deploy(f, FacetLibraries[f], ""))
            cut == Cut("diamond", CoreFacets, CoreChunk)
            write == WriteLog("deployed", {"diamondCutFacet", "diamond", "init"} \cup Libraries \cup ToSet(CoreFacets))
            last == <<cut, write>>
<1>0. IsFiniteSet({"diamondCutFacet", "diamond", "init"} \cup Libraries \cup ToSet(CoreFacets))
  BY FiniteNames
<1>1. DiamondSection = first \o libs \o facets \o last
  BY DEF DiamondSection
<1>2. {"diamondCutFacet", "diamond", "init"} \subseteq Deployable
  BY DeployableNames DEF FixedContracts
<1>3. StepFits(c, one, before) /\ one.kind = "deploy" /\ \A B : one \in B => "diamondCutFacet" \in Guarded(B)
  BY <1>2, DeployFits, DeployGuarded DEF Attached
<1>4. StepFits(c, two, before \cup {one}) /\ two.kind = "deploy" /\ \A B : two \in B => "diamond" \in Guarded(B)
  <2>1. "diamondCutFacet" \in Guarded(before \cup {one})
    BY <1>3
  <2>. DEFINE known == before \cup {one}  links == {"diamondCutFacet"}
  <2>2. \A n \in links : n \in Guarded(known) \/ n = "partyBImplementation"
    BY <2>1
  <2>3. StepFits(c, Deploy("diamond", links, ""), known) /\ Deploy("diamond", links, "").kind = "deploy"
    <3>. HIDE DEF known, links
    <3>. QED  BY <1>2, <2>2, DeployFits DEF Nameable, Attached
  <2>4. \A B : two \in B => "diamond" \in Guarded(B)
    BY DeployGuarded
  <2>. QED  BY <2>3, <2>4
<1>5. StepFits(c, three, before \cup {one, two}) /\ three.kind = "deploy"
  BY <1>2, DeployFits DEF Attached
<1>6. \A B : StepFits(c, cut, B) /\ cut.kind # "flag"
  BY CutFits DEF CutSteps
<1>7. \A B : StepFits(c, write, B) /\ write.kind # "flag"
  BY <1>0, WriteFits
<1>8. FitsAfter(c, before, first) /\ ToSet(first) = {one, two, three}
  <2>. HIDE DEF one, two, three
  <2>. QED  BY <1>3, <1>4, <1>5, ThreeParts
<1>9. Unflagged(first)
  BY <1>3, <1>4, <1>5, <1>8 DEF Unflagged
<1>10. FitsAfter(c, before \cup ToSet(first), libs) /\ Libraries \subseteq Guarded(ToSet(libs)) /\ Unflagged(libs)
  BY CoreLibrariesFit
<1>. HIDE DEF one, two, three, first, libs, cut, write, last
<1>11. FitsAfter(c, before, first \o libs) /\ ToSet(first \o libs) = ToSet(first) \cup ToSet(libs)
  BY <1>8, <1>10, PartsInARow
<1>12. FitsAfter(c, before \cup ToSet(first \o libs), facets) /\ Unflagged(facets)
  <2>. DEFINE known == before \cup ToSet(first \o libs)
  <2>1. Libraries \subseteq Guarded(known)
    BY <1>10, <1>11, GuardedTogether
  <2>2. \A f \in ToSet(CoreFacets) : FacetLibraries[f] \subseteq Guarded(known)
    BY <2>1, NamesAssumption
  <2>3. CoreFacets \in Seq(STRING)
    BY NamesAssumption
  <2>. HIDE DEF known
  <2>. QED  BY <2>2, <2>3, DeployableNames, FacetsFit DEF known
<1>. HIDE DEF facets
<1>13. /\ FitsAfter(c, before, first \o libs \o facets)
       /\ ToSet(first \o libs \o facets) = ToSet(first \o libs) \cup ToSet(facets)
  BY <1>11, <1>12, PartsInARow
<1>14. FitsAfter(c, before \cup ToSet(first \o libs \o facets), last) /\ ToSet(last) = {cut, write}
  BY <1>6, <1>7, TwoParts DEF last
<1>15. Unflagged(last)
  BY <1>6, <1>7, <1>14 DEF Unflagged
<1>16. /\ FitsAfter(c, before, first \o libs \o facets \o last)
       /\ ToSet(first \o libs \o facets \o last) = ToSet(first \o libs \o facets) \cup ToSet(last)
  BY <1>13, <1>14, PartsInARow
<1>17. ToSet(DiamondSection) = ToSet(first) \cup ToSet(libs) \cup ToSet(facets) \cup ToSet(last)
  BY <1>1, <1>11, <1>13, <1>16
<1>18. Unflagged(DiamondSection)
  BY <1>9, <1>10, <1>12, <1>15, <1>17 DEF Unflagged
<1>19. two \in ToSet(DiamondSection)
  BY <1>8, <1>17
<1>20. "diamond" \in Guarded(ToSet(DiamondSection))
  BY <1>19, <1>4
<1>21. Libraries \subseteq Guarded(ToSet(DiamondSection))
  BY <1>10, <1>17, GuardedTogether
<1>. QED  BY <1>1, <1>16, <1>18, <1>20, <1>21

LEMMA AccountLayerSectionFits ==
  ASSUME NEW c, NEW before, Libraries \subseteq Guarded(before)
  PROVE  /\ FitsAfter(c, before, AccountLayerSection) /\ Unflagged(AccountLayerSection)
         /\ "accountLayer" \in Guarded(ToSet(AccountLayerSection))
<1>. DEFINE one == Deploy("alCutFacet", {}, "")  two == Deploy("accountLayer", {"alCutFacet"}, "")
            three == Deploy("alInit", {}, "")  four == Deploy("LibQuoteParams", {}, "")
            first == <<one, two, three, four>>
            facets == Each(AccountFacets, LAMBDA f : Deploy(f, FacetLibraries[f], ""))
            cut == Cut("accountLayer", AccountFacets, AccountChunk)
            write == WriteLog("accountlayer",
                       {"alCutFacet", "accountLayer", "alInit", "LibQuoteParams"} \cup ToSet(AccountFacets))
            last == <<cut, write>>
<1>0. IsFiniteSet({"alCutFacet", "accountLayer", "alInit", "LibQuoteParams"} \cup ToSet(AccountFacets))
  BY FiniteNames
<1>1. AccountLayerSection = first \o facets \o last
  BY DEF AccountLayerSection
<1>2. {"alCutFacet", "accountLayer", "alInit", "LibQuoteParams"} \subseteq Deployable
  BY DeployableNames DEF FixedContracts
<1>3. StepFits(c, one, before) /\ one.kind = "deploy" /\ \A B : one \in B => "alCutFacet" \in Guarded(B)
  BY <1>2, DeployFits, DeployGuarded DEF Attached
<1>4. /\ StepFits(c, two, before \cup {one}) /\ two.kind = "deploy"
      /\ \A B : two \in B => "accountLayer" \in Guarded(B)
  <2>1. "alCutFacet" \in Guarded(before \cup {one})
    BY <1>3
  <2>. DEFINE known == before \cup {one}  links == {"alCutFacet"}
  <2>2. \A n \in links : n \in Guarded(known) \/ n = "partyBImplementation"
    BY <2>1
  <2>3. StepFits(c, Deploy("accountLayer", links, ""), known) /\ Deploy("accountLayer", links, "").kind = "deploy"
    <3>. HIDE DEF known, links
    <3>. QED  BY <1>2, <2>2, DeployFits DEF Nameable, Attached
  <2>4. \A B : two \in B => "accountLayer" \in Guarded(B)
    BY DeployGuarded
  <2>. QED  BY <2>3, <2>4
<1>5. StepFits(c, three, before \cup {one, two}) /\ three.kind = "deploy"
  BY <1>2, DeployFits DEF Attached
<1>6. /\ StepFits(c, four, before \cup {one, two, three}) /\ four.kind = "deploy"
      /\ \A B : four \in B => "LibQuoteParams" \in Guarded(B)
  BY <1>2, DeployFits, DeployGuarded DEF Attached
<1>7. \A B : StepFits(c, cut, B) /\ cut.kind # "flag"
  BY CutFits DEF CutSteps
<1>8. \A B : StepFits(c, write, B) /\ write.kind # "flag"
  BY <1>0, WriteFits
<1>9. FitsAfter(c, before, first) /\ ToSet(first) = {one, two, three, four}
  <2>. HIDE DEF one, two, three, four
  <2>. QED  BY <1>3, <1>4, <1>5, <1>6, FourParts
<1>10. Unflagged(first)
  BY <1>3, <1>4, <1>5, <1>6, <1>9 DEF Unflagged
<1>. HIDE DEF one, two, three, four, first, cut, write, last
<1>11. FitsAfter(c, before \cup ToSet(first), facets) /\ Unflagged(facets)
  <2>. DEFINE known == before \cup ToSet(first)
  <2>1. Libraries \cup {"LibQuoteParams"} \subseteq Guarded(known)
    <3>1. "LibQuoteParams" \in Guarded(ToSet(first))
      BY <1>6, <1>9
    <3>. QED  BY <3>1, GuardedTogether
  <2>2. \A f \in ToSet(AccountFacets) : FacetLibraries[f] \subseteq Guarded(known)
    BY <2>1, NamesAssumption
  <2>3. AccountFacets \in Seq(STRING)
    BY NamesAssumption
  <2>. HIDE DEF known
  <2>. QED  BY <2>2, <2>3, DeployableNames, FacetsFit DEF known
<1>. HIDE DEF facets
<1>12. FitsAfter(c, before, first \o facets) /\ ToSet(first \o facets) = ToSet(first) \cup ToSet(facets)
  <2>1. FitsAfter(c, before, first) /\ FitsAfter(c, before \cup ToSet(first), facets)
    BY <1>9, <1>11
  <2>. QED  BY <2>1, PartsInARow
<1>13. FitsAfter(c, before \cup ToSet(first \o facets), last) /\ ToSet(last) = {cut, write}
  BY <1>7, <1>8, TwoParts DEF last
<1>14. Unflagged(last)
  BY <1>7, <1>8, <1>13 DEF Unflagged
<1>15. /\ FitsAfter(c, before, first \o facets \o last)
       /\ ToSet(first \o facets \o last) = ToSet(first \o facets) \cup ToSet(last)
  BY <1>12, <1>13, PartsInARow
<1>16. ToSet(AccountLayerSection) = ToSet(first) \cup ToSet(facets) \cup ToSet(last)
  BY <1>1, <1>12, <1>15
<1>17. Unflagged(AccountLayerSection)
  BY <1>10, <1>11, <1>14, <1>16 DEF Unflagged
<1>18. two \in ToSet(AccountLayerSection)
  BY <1>9, <1>16
<1>. QED  BY <1>1, <1>15, <1>17, <1>18, <1>4

LEMMA VerifierSectionFits ==
  ASSUME NEW c \in Configs, NEW before
  PROVE  /\ FitsAfter(c, before, VerifierSection(c)) /\ Unflagged(VerifierSection(c))
         /\ "signatureVerifier" \in Guarded(ToSet(VerifierSection(c)))
<1>1. ASSUME NEW st, StepFits(c, st, before), st.kind # "flag", "signatureVerifier" \in Guarded({st}),
             VerifierSection(c) = <<st>>
      PROVE  /\ FitsAfter(c, before, VerifierSection(c)) /\ Unflagged(VerifierSection(c))
             /\ "signatureVerifier" \in Guarded(ToSet(VerifierSection(c)))
  <2>1. FitsAfter(c, before, <<st>>) /\ ToSet(<<st>>) = {st}
    BY <1>1, OnePart
  <2>. QED  BY <1>1, <2>1 DEF Unflagged
<1>2. CASE c.verifier = "existing"
  <2>. DEFINE st == RecordExisting("signatureVerifier")
  <2>1. st.kind = "record" /\ st.guard = "signatureVerifier" /\ "signatureVerifier" \in Existing(c)
    BY <1>2 DEF RecordExisting, Existing
  <2>2. VerifierSection(c) = <<st>>
    BY <1>2 DEF VerifierSection
  <2>. HIDE DEF st
  <2>3. StepFits(c, st, before)
    BY <2>1 DEF StepFits
  <2>4. "signatureVerifier" \in Guarded({st})
    BY <2>1 DEF Guarded
  <2>. QED  BY <1>1, <2>1, <2>2, <2>3, <2>4
<1>3. "signatureVerifier" \in Deployable
  BY DeployableNames DEF FixedContracts
<1>4. ASSUME NEW log, VerifierSection(c) = << Deploy("signatureVerifier", {}, log) >>
      PROVE  /\ FitsAfter(c, before, VerifierSection(c)) /\ Unflagged(VerifierSection(c))
             /\ "signatureVerifier" \in Guarded(ToSet(VerifierSection(c)))
  <2>. DEFINE st == Deploy("signatureVerifier", {}, log)
  <2>1. StepFits(c, st, before) /\ st.kind = "deploy"
    BY <1>3, DeployFits DEF Attached
  <2>2. "signatureVerifier" \in Guarded({st})
    BY DeployGuarded
  <2>. HIDE DEF st
  <2>. QED  BY <1>1, <1>4, <2>1, <2>2 DEF st
<1>5. CASE c.verifier = "mock"
  <2>1. VerifierSection(c) = << Deploy("signatureVerifier", {}, "") >>
    BY <1>5 DEF VerifierSection
  <2>. QED  BY <1>4, <2>1
<1>6. CASE c.verifier = "real"
  <2>1. VerifierSection(c) = << Deploy("signatureVerifier", {}, "deployed") >>
    BY <1>6 DEF VerifierSection
  <2>. QED  BY <1>4, <2>1
<1>. QED  BY <1>2, <1>5, <1>6, ConfigFacts

\* The contracts that link the core diamond.
LEMMA LinkedFits ==
  ASSUME NEW c, NEW before, NEW name \in Deployable \ (Nameable \cup {"symmioPartyB"}), NEW log,
         "diamond" \in Guarded(before)
  PROVE  /\ FitsAfter(c, before, << Deploy(name, {"diamond"}, log) >>)
         /\ Unflagged(<< Deploy(name, {"diamond"}, log) >>)
         /\ name \in Guarded(ToSet(<< Deploy(name, {"diamond"}, log) >>))
<1>. DEFINE links == {"diamond"}  st == Deploy(name, links, log)
<1>1. \A n \in links : n \in Guarded(before) \/ n = "partyBImplementation"
  OBVIOUS
<1>0. "diamond" \in links
  OBVIOUS
<1>2. StepFits(c, st, before) /\ st.kind = "deploy"
  <2>. HIDE DEF links
  <2>. QED  BY <1>0, <1>1, DeployFits
<1>3. name \in Guarded({st})
  BY DeployGuarded
<1>. HIDE DEF st, links
<1>4. FitsAfter(c, before, <<st>>) /\ ToSet(<<st>>) = {st}
  BY <1>2, OnePart
<1>. QED  BY <1>2, <1>3, <1>4 DEF Unflagged, st, links

LEMMA PartyBSectionFits ==
  ASSUME NEW c, NEW before, "diamond" \in Guarded(before), c.deployPartyB
  PROVE  /\ FitsAfter(c, before, PartyBSection) /\ Unflagged(PartyBSection)
         /\ "symmioPartyB" \in Guarded(ToSet(PartyBSection))
<1>. DEFINE one == [Deploy("partyBImplementation", {}, "") EXCEPT !.guard = "symmioPartyB"]
            links == {"partyBImplementation", "diamond"}
            two == Deploy("symmioPartyB", links, "partyb")
<1>1. PartyBSection = <<one, two>>
  BY DEF PartyBSection
<1>2. {"partyBImplementation", "symmioPartyB"} \subseteq Deployable
  BY DeployableNames DEF FixedContracts
<1>3. /\ one.kind = "deploy" /\ one.name = "partyBImplementation" /\ one.guard = "symmioPartyB"
      /\ one.links = {}
  BY DEF Deploy
<1>4. "diamond" \in Guarded(before \cup {one})
  <2>. HIDE DEF one
  <2>. QED  BY GuardedTogether
<1>5. StepFits(c, two, before \cup {one}) /\ two.kind = "deploy"
  <2>. DEFINE known == before \cup {one}
  <2>1. \A n \in links : n \in Guarded(known) \/ n = "partyBImplementation"
    BY <1>4
  <2>2. StepFits(c, two, known) /\ two.kind = "deploy"
    <3>0. "diamond" \in links
      OBVIOUS
    <3>. HIDE DEF known, links
    <3>. QED  BY <1>2, <2>1, <3>0, DeployFits DEF Nameable
  <2>. QED  BY <2>2
<1>6. \A B : two \in B => "symmioPartyB" \in Guarded(B)
  BY DeployGuarded
<1>. HIDE DEF one, two
<1>7. StepFits(c, one, before)
  BY <1>2, <1>3 DEF StepFits, Attached
<1>8. FitsAfter(c, before, <<one, two>>) /\ ToSet(<<one, two>>) = {one, two}
  BY <1>5, <1>7, TwoParts
<1>. QED  BY <1>1, <1>3, <1>5, <1>6, <1>8 DEF Unflagged

LEMMA TemplateSectionFits ==
  ASSUME NEW c, NEW before, Located(c) \subseteq Guarded(before), Flag("instantLayerTemplates") \notin before
  PROVE  /\ FitsAfter(c, before, TemplateSection)
         /\ \A st \in ToSet(TemplateSection) : st.kind = "flag" => st = Flag("instantLayerTemplates")
<1>. DEFINE template(key, call) == Setup(key, <<call>>, "instantLayerTemplates")
            open == Call("instantLayer", "addTemplate", "InstantOpen", "")
            mode == Call("instantLayer", "setTemplateInstantOpenMode", "", "template")
            close == Call("instantLayer", "addTemplate", "InstantClose", "")
            allocation == Call("instantLayer", "addTemplate", "InstantCloseWithAllocation", "")
            one == template("instantOpen", open)
            two == template("instantOpenMode", mode)
            three == template("instantClose", close)
            four == template("instantCloseWithAllocation", allocation)
            five == Flag("instantLayerTemplates")
<1>1. TemplateSection = <<one, two, three, four, five>>
  BY DEF TemplateSection
<1>2. one = InstantOpenStep
  BY DEF InstantOpenStep
<1>3. "instantLayer" \in Located(c) /\ "" \notin Contracts /\ "template" \notin Contracts
  BY NamesApart DEF Located, Accounts
<1>4. ASSUME NEW key, NEW call, NEW B, before \subseteq B, five \notin B,
             key \in {"instantOpen", "instantOpenMode", "instantClose", "instantCloseWithAllocation"},
             CallsOf(c, <<key, "">>) = <<call>>,
             call.fn \in TemplateFunctions, call.to = "instantLayer", call.who \in {"", "template"},
             call.fn = "addTemplate" /\ call.what # "InstantOpen" => InstantOpenStep \in B,
             call.fn = "setTemplateInstantOpenMode" => call.who = "template"
      PROVE  StepFits(c, template(key, call), B)
  <2>. DEFINE st == template(key, call)  calls == <<call>>
  <2>1. st.kind = "calls" /\ st.key = <<key, "">> /\ st.calls = calls /\ st.flag = "instantLayerTemplates"
        /\ st.ensure = FALSE
    BY DEF Setup
  <2>2. calls \in Seq({call}) /\ DOMAIN calls = 1..1 /\ calls[1] = call
    OBVIOUS
  <2>3. Located(c) \subseteq Guarded(B)
    BY <1>4 DEF Guarded
  <2>4. <<key, "">>[1] = key
    OBVIOUS
  <2>5. key \notin SpecialKeys
    BY <1>4 DEF SpecialKeys
  <2>. HIDE DEF st, calls
  <2>6. /\ st.key # <<"approve", "">> /\ st.key # <<"transferOwnership", "">>
        /\ st.key # <<"acceptOwnership", "">> /\ st.key # ViewsStep.key /\ st.key # RegisterStep.key
    <3>1. st.key[1] \notin SpecialKeys
      BY <2>1, <2>4, <2>5
    <3>. QED  BY <3>1, KeyIsSpecial DEF SpecialKeys, ViewsStep, RegisterStep
  <2>7. "accountManager" \notin {"", "template"}
    OBVIOUS
  <2>8. CallFits(c, st, call, B)
    BY <1>3, <1>4, <2>1, <2>7 DEF CallFits, TemplateFunctions, PlanFunctions
  <2>9. \A j \in DOMAIN st.calls : CallFits(c, st, st.calls[j], B)
    <3>1. \A j \in 1..1 : j = 1
      OBVIOUS
    <3>2. DOMAIN st.calls = 1..1 /\ st.calls[1] = call
      BY <2>1, <2>2
    <3>. QED  BY <3>1, <3>2, <2>8
  <2>10. st.calls = CallsOf(c, st.key)
    BY <2>1, <1>4 DEF calls
  <2>11. IsSequence(st.calls)
    BY <2>1, <2>2 DEF IsSequence
  <2>12. Flag(st.flag) \notin B
    BY <2>1, <1>4
  <2>13. StepFits(c, st, B)
    BY <2>1, <2>3, <2>6, <2>9, <2>10, <2>11, <2>12 DEF StepFits
  <2>. QED  BY <2>13 DEF st
<1>5. /\ CallsOf(c, <<"instantOpen", "">>) = <<open>> /\ CallsOf(c, <<"instantOpenMode", "">>) = <<mode>>
      /\ CallsOf(c, <<"instantClose", "">>) = <<close>>
      /\ CallsOf(c, <<"instantCloseWithAllocation", "">>) = <<allocation>>
  BY DEF CallsOf
<1>6. /\ open.fn = "addTemplate" /\ open.to = "instantLayer" /\ open.what = "InstantOpen" /\ open.who = ""
      /\ mode.fn = "setTemplateInstantOpenMode" /\ mode.to = "instantLayer" /\ mode.who = "template"
      /\ close.fn = "addTemplate" /\ close.to = "instantLayer" /\ close.who = ""
      /\ allocation.fn = "addTemplate" /\ allocation.to = "instantLayer" /\ allocation.who = ""
  BY DEF Call
<1>7. /\ one.kind = "calls" /\ two.kind = "calls" /\ three.kind = "calls" /\ four.kind = "calls"
      /\ five.kind = "flag"
  BY DEF Setup, Flag
<1>. HIDE DEF open, mode, close, allocation, template, five
<1>8. StepFits(c, template("instantOpen", open), before)
  BY <1>4, <1>5, <1>6 DEF TemplateFunctions, five
<1>9. StepFits(c, template("instantOpenMode", mode), before \cup {one})
  <2>1. five \notin before \cup {one}
    BY <1>7 DEF five
  <2>. HIDE DEF one
  <2>. QED  BY <2>1, <1>4, <1>5, <1>6 DEF TemplateFunctions
<1>10. StepFits(c, template("instantClose", close), before \cup {one, two})
  <2>1. five \notin before \cup {one, two} /\ InstantOpenStep \in before \cup {one, two}
    BY <1>2, <1>7 DEF five
  <2>. HIDE DEF one, two
  <2>. QED  BY <2>1, <1>4, <1>5, <1>6 DEF TemplateFunctions
<1>11. StepFits(c, template("instantCloseWithAllocation", allocation), before \cup {one, two, three})
  <2>1. five \notin before \cup {one, two, three} /\ InstantOpenStep \in before \cup {one, two, three}
    BY <1>2, <1>7 DEF five
  <2>. HIDE DEF one, two, three
  <2>. QED  BY <2>1, <1>4, <1>5, <1>6 DEF TemplateFunctions
<1>12. StepFits(c, five, before \cup {one, two, three, four})
  <2>1. Located(c) \subseteq Guarded(before \cup {one, two, three, four})
    BY GuardedTogether
  <2>2. five = Flag("instantLayerTemplates") /\ "instantLayerTemplates" \in SectionFlags
    BY DEF five, SectionFlags
  <2>. HIDE DEF one, two, three, four
  <2>. QED  BY <2>1, <2>2, <1>7 DEF StepFits
<1>. HIDE DEF one, two, three, four
<1>13. FitsAfter(c, before, TemplateSection) /\ ToSet(TemplateSection) = {one, two, three, four, five}
  <2>1. StepFits(c, one, before) /\ StepFits(c, two, before \cup {one})
    BY <1>8, <1>9 DEF one, two
  <2>2. StepFits(c, three, before \cup {one, two})
    BY <1>10 DEF three
  <2>3. StepFits(c, four, before \cup {one, two, three})
    BY <1>11 DEF four
  <2>. QED  BY <2>1, <2>2, <2>3, <1>12, <1>1, FiveParts
<1>. QED  BY <1>13, <1>7 DEF five

LEMMA Single ==
  ASSUME NEW x
  PROVE  /\ <<x>> \in Seq({x}) /\ DOMAIN <<x>> = 1..1 /\ <<x>>[1] = x
         /\ \A j \in 1..1 : j = 1
OBVIOUS

\* A step of one call outside the setup of the system.
LEMMA OneCallFits ==
  ASSUME NEW c, NEW before, NEW key, NEW call, NEW flag,
         LET st == Setup(key, <<call>>, flag)
         IN  /\ Located(c) \subseteq Guarded(before) /\ Flag(flag) \notin before
             /\ CallsOf(c, <<key, "">>) = <<call>> /\ key \notin {"verifyMuonViews", "register"}
             /\ key = "approve" => RegisterStep \in before /\ st = ApproveStep
             /\ key = "transferOwnership" => st = TransferStep(c)
             /\ key = "acceptOwnership" => TransferStep(c) \in before /\ flag = ""
             /\ CallFits(c, st, call, before)
  PROVE  StepFits(c, Setup(key, <<call>>, flag), before)
<1>. DEFINE calls == <<call>>  st == Setup(key, calls, flag)
<1>1. st.kind = "calls" /\ st.key = <<key, "">> /\ st.calls = calls /\ st.flag = flag
  BY DEF Setup
<1>2. calls \in Seq({call}) /\ DOMAIN calls = 1..1 /\ calls[1] = call
  BY Single
<1>3. <<key, "">>[1] = key /\ \A k \in SpecialKeys : <<k, "">>[1] = k
  OBVIOUS
<1>4. \A j \in 1..1 : j = 1
  BY Single
<1>. HIDE DEF st, calls
<1>5. /\ st.key # ViewsStep.key /\ st.key # RegisterStep.key
      /\ st.key = <<"approve", "">> => key = "approve"
      /\ st.key = <<"transferOwnership", "">> => key = "transferOwnership"
      /\ st.key = <<"acceptOwnership", "">> => key = "acceptOwnership"
  BY <1>1, <1>3 DEF SpecialKeys, ViewsStep, RegisterStep
<1>6. \A j \in DOMAIN st.calls : CallFits(c, st, st.calls[j], before)
  BY <1>1, <1>2, <1>4 DEF st, calls
<1>7. st.calls = CallsOf(c, st.key) /\ IsSequence(st.calls)
  BY <1>1, <1>2 DEF IsSequence, calls
<1>8. /\ key = "approve" => RegisterStep \in before /\ st = ApproveStep
      /\ key = "transferOwnership" => st = TransferStep(c)
      /\ key = "acceptOwnership" => TransferStep(c) \in before /\ st.flag = ""
      /\ Flag(st.flag) \notin before
  BY <1>1 DEF st, calls
<1>9. StepFits(c, st, before)
  BY <1>1, <1>5, <1>6, <1>7, <1>8 DEF StepFits
<1>. QED  BY <1>9 DEF st, calls

LEMMA AffiliateSectionFits ==
  ASSUME NEW c, NEW before, Located(c) \subseteq Guarded(before), Flag("dummyAffiliate") \notin before
  PROVE  /\ FitsAfter(c, before, AffiliateSection)
         /\ \A st \in ToSet(AffiliateSection) : st.kind = "flag" => st = Flag("dummyAffiliate")
<1>. DEFINE call == Call("accountLayer", "approveAffiliate", "", "accountManager")
            three == Flag("dummyAffiliate")
<1>1. AffiliateSection = <<RegisterStep, ApproveStep, three>>
  BY DEF AffiliateSection, RegisterStep, ApproveStep
<1>2. /\ RegisterStep.kind = "register" /\ RegisterStep.flag = "dummyAffiliate"
      /\ ApproveStep.kind = "calls" /\ ApproveStep.flag = "dummyAffiliate" /\ three.kind = "flag"
      /\ ApproveStep.key = <<"approve", "">> /\ ApproveStep.ensure = FALSE
  BY DEF RegisterStep, ApproveStep, Setup, Flag
<1>3. StepFits(c, RegisterStep, before)
  BY <1>2 DEF StepFits
<1>4. "accountLayer" \in Located(c)
  BY DEF Located
<1>5. StepFits(c, ApproveStep, before \cup {RegisterStep})
  <2>. DEFINE B == before \cup {RegisterStep}
  <2>1. CallsOf(c, <<"approve", "">>) = <<call>>
    BY DEF CallsOf
  <2>2. CallFits(c, ApproveStep, call, B)
    <3>1. call.to = "accountLayer" /\ call.fn = "approveAffiliate" /\ call.who = "accountManager"
      BY DEF Call
    <3>. HIDE DEF call
    <3>. QED  BY <3>1, <1>2, <1>4 DEF CallFits, PlanFunctions
  <2>3. Located(c) \subseteq Guarded(B) /\ Flag("dummyAffiliate") \notin B /\ RegisterStep \in B
    BY <1>2, GuardedTogether DEF Flag
  <2>4. ApproveStep = Setup("approve", <<call>>, "dummyAffiliate")
    BY DEF ApproveStep
  <2>. HIDE DEF call, B
  <2>5. StepFits(c, Setup("approve", <<call>>, "dummyAffiliate"), B)
    BY <2>1, <2>2, <2>3, <2>4, OneCallFits
  <2>. QED  BY <2>4, <2>5 DEF B
<1>6. StepFits(c, three, before \cup {RegisterStep, ApproveStep})
  <2>. DEFINE B == before \cup {RegisterStep, ApproveStep}
  <2>1. Located(c) \subseteq Guarded(B) /\ ApproveStep \in B
    BY GuardedTogether
  <2>2. three = Flag("dummyAffiliate") /\ "dummyAffiliate" \in SectionFlags /\ three.kind = "flag"
    BY <1>2 DEF SectionFlags
  <2>3. \E f \in SectionFlags : three = Flag(f) /\ (f = "dummyAffiliate" => ApproveStep \in B)
    BY <2>1, <2>2
  <2>. HIDE DEF B, three
  <2>4. StepFits(c, three, B)
    BY <2>1, <2>2, <2>3 DEF StepFits
  <2>. QED  BY <2>4 DEF B
<1>. HIDE DEF three
<1>7. FitsAfter(c, before, AffiliateSection) /\ ToSet(AffiliateSection) = {RegisterStep, ApproveStep, three}
  BY <1>1, <1>3, <1>5, <1>6, ThreeParts
<1>. QED  BY <1>2, <1>7 DEF three

LEMMA OwnershipSectionFits ==
  ASSUME NEW c \in Configs, NEW before, Located(c) \subseteq Guarded(before), Flag("") \notin before
  PROVE  FitsAfter(c, before, OwnershipSection(c))
<1>. DEFINE give == Call("diamond", "transferOwnership", "", c.admin)
            take == Call("diamond", "acceptOwnership", "", "deployer")
            one == Setup("transferOwnership", <<give>>, "")
            two == Setup("acceptOwnership", <<take>>, "")
<1>1. OwnershipSection(c) = <<one>> \o Only(c.admin = "deployer", <<two>>)
  BY DEF OwnershipSection
<1>2. /\ CallsOf(c, <<"transferOwnership", "">>) = <<give>>
      /\ CallsOf(c, <<"acceptOwnership", "">>) = <<take>>
  BY DEF CallsOf
<1>3. /\ give.to = "diamond" /\ give.fn = "transferOwnership" /\ give.who = c.admin
      /\ take.to = "diamond" /\ take.fn = "acceptOwnership" /\ take.who = "deployer"
  BY DEF Call
<1>4. /\ one = TransferStep(c) /\ one.key = <<"transferOwnership", "">> /\ one.kind = "calls"
      /\ two.key = <<"acceptOwnership", "">> /\ one.ensure = FALSE /\ two.ensure = FALSE
  BY DEF TransferStep, Setup
<1>5. c.admin \notin Contracts /\ "deployer" \notin Contracts /\ "accountManager" \in Contracts
      /\ "diamond" \in Located(c)
  BY ConfigFacts, NamesApart DEF Accounts, FixedContracts, Located
<1>6. c.admin # "accountManager" /\ "deployer" # "accountManager"
  BY <1>5
<1>. HIDE DEF give, take
<1>7. StepFits(c, one, before)
  <2>1. CallFits(c, one, give, before)
    <3>. HIDE DEF one
    <3>. QED  BY <1>3, <1>4, <1>5, <1>6 DEF CallFits, PlanFunctions
  <2>. QED  BY <2>1, <1>2, <1>4, OneCallFits
<1>8. c.admin = "deployer" => StepFits(c, two, before \cup {one})
  <2>. HAVE c.admin = "deployer"
  <2>. DEFINE B == before \cup {one}
  <2>1. CallFits(c, two, take, B)
    <3>. HIDE DEF two
    <3>. QED  BY <1>3, <1>4, <1>5, <1>6 DEF CallFits, PlanFunctions
  <2>2. Located(c) \subseteq Guarded(B) /\ Flag("") \notin B /\ TransferStep(c) \in B
    <3>1. Flag("").kind = "flag"
      BY DEF Flag
    <3>. HIDE DEF one
    <3>2. Flag("") # one
      BY <3>1, <1>4
    <3>3. Guarded(before \cup {one}) = Guarded(before) \cup Guarded({one})
      BY GuardedTogether
    <3>4. Located(c) \subseteq Guarded(B)
      BY <3>3
    <3>. QED  BY <3>2, <3>4, <1>4
  <2>3. StepFits(c, two, B)
    <3>. HIDE DEF B
    <3>. QED  BY <2>1, <2>2, <1>2, OneCallFits
  <2>. QED  BY <2>3
<1>. HIDE DEF one, two
<1>9. FitsAfter(c, before, <<one>>) /\ ToSet(<<one>>) = {one}
  BY <1>7, OnePart
<1>10. c.admin = "deployer" => FitsAfter(c, before \cup {one}, <<two>>)
  BY <1>8, OnePart
<1>11. FitsAfter(c, before \cup {one}, Only(c.admin = "deployer", <<two>>))
  BY <1>10, OnlyFits
<1>. DEFINE s == <<one>>  t == Only(c.admin = "deployer", <<two>>)
<1>12. FitsAfter(c, before, s) /\ FitsAfter(c, before \cup ToSet(s), t)
  BY <1>9, <1>11
<1>. HIDE DEF s, t
<1>13. FitsAfter(c, before, s \o t)
  BY <1>12, PartsInARow
<1>. QED  BY <1>1, <1>13 DEF s, t

\* A plan so far, the contracts it records, and no flag set.
Built(c, s, names) == FitsAfter(c, {}, s) /\ names \subseteq Guarded(ToSet(s)) /\ Unflagged(s)

LEMMA BuiltFurther ==
  ASSUME NEW c, NEW s, NEW names, NEW t, NEW more, Built(c, s, names),
         FitsAfter(c, ToSet(s), t), Unflagged(t), more \subseteq Guarded(ToSet(t))
  PROVE  Built(c, s \o t, names \cup more)
<1>. DEFINE before == {}
<1>1. FitsAfter(c, before, s) /\ before \cup ToSet(s) = ToSet(s)
  BY DEF Built
<1>2. FitsAfter(c, before \cup ToSet(s), t)
  BY <1>1
<1>3. FitsAfter(c, before, s \o t) /\ ToSet(s \o t) = ToSet(s) \cup ToSet(t)
  <2>. HIDE DEF before
  <2>. QED  BY <1>1, <1>2, PartsInARow
<1>4. Guarded(ToSet(s \o t)) = Guarded(ToSet(s)) \cup Guarded(ToSet(t))
  BY <1>3, GuardedTogether
<1>5. Unflagged(s \o t)
  BY <1>3, UnflaggedTogether DEF Built
<1>. QED  BY <1>3, <1>4, <1>5 DEF Built

LEMMA OnlyUnflagged ==
  ASSUME NEW condition, NEW s, condition => Unflagged(s)
  PROVE  Unflagged(Only(condition, s))
<1>1. ToSet(<<>>) = {}
  BY NoPart
<1>. QED  BY <1>1 DEF Only, Unflagged

\* The contracts are deployed and recorded, and no flag is set.
LEMMA ContractsFit ==
  ASSUME NEW c \in Configs
  PROVE  Built(c, CollateralSection(c) \o DiamondSection \o VerifierSection(c) \o AccountLayerSection
                  \o InstantLayerSection \o Only(c.deployPartyB, PartyBSection)
                  \o Only(c.deploySymbolManager, SymbolManagerSection) \o Only(c.hyperEVM, << BigBlocksOff >>),
               Located(c))
<1>. DEFINE p1 == CollateralSection(c)
            p2 == p1 \o DiamondSection
            p3 == p2 \o VerifierSection(c)
            p4 == p3 \o AccountLayerSection
            p5 == p4 \o InstantLayerSection
            t6 == Only(c.deployPartyB, PartyBSection)
            p6 == p5 \o t6
            t7 == Only(c.deploySymbolManager, SymbolManagerSection)
            p7 == p6 \o t7
            t8 == Only(c.hyperEVM, << BigBlocksOff >>)
            p8 == p7 \o t8
            partyB == IF c.deployPartyB THEN {"symmioPartyB"} ELSE {}
            manager == IF c.deploySymbolManager THEN {"symbolManager"} ELSE {}
            n2 == {"collateral"} \cup (Libraries \cup {"diamond"})
            n3 == n2 \cup {"signatureVerifier"}
            n4 == n3 \cup {"accountLayer"}
            n5 == n4 \cup {"instantLayer"}
            n6 == n5 \cup partyB
            n7 == n6 \cup manager
<1>1. Built(c, p1, {"collateral"})
  BY CollateralSectionFits DEF Built
<1>2. Built(c, p2, n2)
  <2>1. /\ FitsAfter(c, ToSet(p1), DiamondSection) /\ Unflagged(DiamondSection)
        /\ Libraries \cup {"diamond"} \subseteq Guarded(ToSet(DiamondSection))
    BY DiamondSectionFits
  <2>. HIDE DEF p1
  <2>. QED  BY <1>1, <2>1, BuiltFurther
<1>. HIDE DEF p1, p2
<1>3. Built(c, p3, n3)
  <2>1. /\ FitsAfter(c, ToSet(p2), VerifierSection(c)) /\ Unflagged(VerifierSection(c))
        /\ {"signatureVerifier"} \subseteq Guarded(ToSet(VerifierSection(c)))
    BY VerifierSectionFits
  <2>. HIDE DEF n2
  <2>. QED  BY <1>2, <2>1, BuiltFurther
<1>. HIDE DEF p3
<1>4. Built(c, p4, n4)
  <2>1. Libraries \subseteq Guarded(ToSet(p3))
    BY <1>3 DEF Built
  <2>2. /\ FitsAfter(c, ToSet(p3), AccountLayerSection) /\ Unflagged(AccountLayerSection)
        /\ {"accountLayer"} \subseteq Guarded(ToSet(AccountLayerSection))
    BY <2>1, AccountLayerSectionFits
  <2>. HIDE DEF n3
  <2>. QED  BY <1>3, <2>2, BuiltFurther
<1>. HIDE DEF p4
<1>5. Built(c, p5, n5)
  <2>1. "diamond" \in Guarded(ToSet(p4))
    BY <1>4 DEF Built
  <2>2. "instantLayer" \in Deployable \ (Nameable \cup {"symmioPartyB"})
    BY DeployableNames DEF FixedContracts, Nameable
  <2>3. /\ FitsAfter(c, ToSet(p4), InstantLayerSection) /\ Unflagged(InstantLayerSection)
        /\ {"instantLayer"} \subseteq Guarded(ToSet(InstantLayerSection))
    BY <2>1, <2>2, LinkedFits DEF InstantLayerSection
  <2>. HIDE DEF n4
  <2>. QED  BY <1>4, <2>3, BuiltFurther
<1>. HIDE DEF p5
<1>6. Built(c, p6, n6)
  <2>1. "diamond" \in Guarded(ToSet(p5))
    BY <1>5 DEF Built
  <2>2. c.deployPartyB => /\ FitsAfter(c, ToSet(p5), PartyBSection) /\ Unflagged(PartyBSection)
                          /\ "symmioPartyB" \in Guarded(ToSet(PartyBSection))
    BY <2>1, PartyBSectionFits
  <2>3. FitsAfter(c, ToSet(p5), t6) /\ Unflagged(t6)
    BY <2>2, OnlyFits, OnlyUnflagged
  <2>4. partyB \subseteq Guarded(ToSet(t6))
    BY <2>2 DEF Only
  <2>. HIDE DEF n5, t6, partyB
  <2>. QED  BY <1>5, <2>3, <2>4, BuiltFurther
<1>. HIDE DEF p6, t6
<1>7. Built(c, p7, n7)
  <2>1. "diamond" \in Guarded(ToSet(p6))
    BY <1>6 DEF Built
  <2>2. "symbolManager" \in Deployable \ (Nameable \cup {"symmioPartyB"})
    BY DeployableNames DEF FixedContracts, Nameable
  <2>3. /\ FitsAfter(c, ToSet(p6), SymbolManagerSection) /\ Unflagged(SymbolManagerSection)
        /\ "symbolManager" \in Guarded(ToSet(SymbolManagerSection))
    BY <2>1, <2>2, LinkedFits DEF SymbolManagerSection
  <2>4. FitsAfter(c, ToSet(p6), t7) /\ Unflagged(t7)
    BY <2>3, OnlyFits, OnlyUnflagged
  <2>5. manager \subseteq Guarded(ToSet(t7))
    BY <2>3 DEF Only
  <2>. HIDE DEF n6, t7, manager
  <2>. QED  BY <1>6, <2>4, <2>5, BuiltFurther
<1>. HIDE DEF p7, t7
<1>8. Built(c, p8, n7 \cup {})
  <2>1. BigBlocksOff.kind = "bigBlocksOff"
    BY DEF BigBlocksOff
  <2>2. StepFits(c, BigBlocksOff, ToSet(p7))
    BY <2>1 DEF StepFits
  <2>3. FitsAfter(c, ToSet(p7), << BigBlocksOff >>) /\ ToSet(<< BigBlocksOff >>) = {BigBlocksOff}
    BY <2>2, OnePart
  <2>4. Unflagged(<< BigBlocksOff >>)
    BY <2>1, <2>3 DEF Unflagged
  <2>5. FitsAfter(c, ToSet(p7), t8) /\ Unflagged(t8)
    BY <2>3, <2>4, OnlyFits, OnlyUnflagged
  <2>6. {} \subseteq Guarded(ToSet(t8))
    OBVIOUS
  <2>. HIDE DEF n7, t8
  <2>. QED  BY <1>7, <2>5, <2>6, BuiltFurther
<1>9. Located(c) \subseteq n7 \cup {}
  BY DEF Located
<1>10. Built(c, p8, Located(c))
  <2>. HIDE DEF n7, p8
  <2>. QED  BY <1>8, <1>9 DEF Built
<1>. QED  BY <1>10 DEF p1, p2, p3, p4, p5, p6, p7, p8, t6, t7, t8

LEMMA SystemSectionFits ==
  ASSUME NEW c \in Configs, NEW before, Located(c) \subseteq Guarded(before), Flag("systemRoles") \notin before
  PROVE  /\ FitsAfter(c, before, SystemSetup(c))
         /\ \A st \in ToSet(SystemSetup(c)) : st.kind = "flag" => st = Flag("systemRoles")
<1>1. PICK s : SystemPart(c, s) /\ SystemSetup(c) = s \o << Flag("systemRoles") >>
  BY SystemSetupFits
<1>2. FitsAfter(c, before, s) /\ \A st \in ToSet(s) : st.kind # "flag"
  BY <1>1, SystemPartFits
<1>. DEFINE flag == Flag("systemRoles")
<1>3. StepFits(c, flag, before \cup ToSet(s))
  <2>. DEFINE B == before \cup ToSet(s)
  <2>1. Located(c) \subseteq Guarded(B)
    BY GuardedTogether
  <2>2. flag.kind = "flag" /\ "systemRoles" \in SectionFlags /\ flag = Flag("systemRoles")
    BY DEF Flag, SectionFlags
  <2>3. \E f \in SectionFlags : flag = Flag(f) /\ (f = "dummyAffiliate" => ApproveStep \in B)
    BY <2>2
  <2>. HIDE DEF B, flag
  <2>4. StepFits(c, flag, B)
    BY <2>1, <2>2, <2>3 DEF StepFits
  <2>. QED  BY <2>4 DEF B
<1>. HIDE DEF flag
<1>4. FitsAfter(c, before \cup ToSet(s), <<flag>>) /\ ToSet(<<flag>>) = {flag}
  BY <1>3, OnePart
<1>. DEFINE t == <<flag>>
<1>5. FitsAfter(c, before \cup ToSet(s), t) /\ ToSet(t) = {flag}
  BY <1>4
<1>. HIDE DEF t
<1>6. FitsAfter(c, before, s \o t) /\ ToSet(s \o t) = ToSet(s) \cup ToSet(t)
  <2>1. Follows(c, before, s, t)
    BY <1>2, <1>5 DEF Follows
  <2>. QED  BY <2>1, PartsFollow
<1>7. SystemSetup(c) = s \o t
  BY <1>1 DEF t, flag
<1>. QED  BY <1>2, <1>5, <1>6, <1>7 DEF flag

\* A plan so far, whose only flags are among these.
Flagged(c, s, flags) ==
  FitsAfter(c, {}, s) /\ Located(c) \subseteq Guarded(ToSet(s))
  /\ \A st \in ToSet(s) : st.kind = "flag" => \E f \in flags : st = Flag(f)

LEMMA FlaggedFurther ==
  ASSUME NEW c, NEW s, NEW flags, NEW t, NEW f, Flagged(c, s, flags), FitsAfter(c, ToSet(s), t),
         \A st \in ToSet(t) : st.kind = "flag" => st = Flag(f)
  PROVE  Flagged(c, s \o t, flags \cup {f})
<1>. DEFINE before == {}
<1>1. FitsAfter(c, before, s) /\ before \cup ToSet(s) = ToSet(s)
  BY DEF Flagged
<1>2. FitsAfter(c, before \cup ToSet(s), t)
  BY <1>1
<1>3. FitsAfter(c, before, s \o t) /\ ToSet(s \o t) = ToSet(s) \cup ToSet(t)
  <2>. HIDE DEF before
  <2>1. Follows(c, before, s, t)
    BY <1>1, <1>2 DEF Follows
  <2>. QED  BY <2>1, PartsFollow
<1>4. Guarded(ToSet(s \o t)) = Guarded(ToSet(s)) \cup Guarded(ToSet(t))
  BY <1>3, GuardedTogether
<1>5. \A st \in ToSet(s \o t) : st.kind = "flag" => \E g \in flags \cup {f} : st = Flag(g)
  <2>. TAKE st \in ToSet(s \o t)
  <2>1. CASE st \in ToSet(s)
    BY <2>1 DEF Flagged
  <2>2. CASE st \in ToSet(t)
    BY <2>2
  <2>. QED  BY <2>1, <2>2, <1>3
<1>. QED  BY <1>3, <1>4, <1>5 DEF Flagged

\* The flag f is not set yet.
LEMMA NotFlagged ==
  ASSUME NEW c, NEW s, NEW flags, NEW f, Flagged(c, s, flags), f \notin flags
  PROVE  Flag(f) \notin ToSet(s)
<1>1. \A g : Flag(g).kind = "flag" /\ Flag(g).flag = g
  BY DEF Flag
<1>. QED  BY <1>1 DEF Flagged

LEMMA PlanFits ==
  ASSUME NEW c \in Configs
  PROVE  /\ FitsAfter(c, {}, Plan(c))
         /\ Len(Plan(c)) \in Nat \ {0} /\ DOMAIN Plan(c) = 1..Len(Plan(c))
         /\ Plan(c)[Len(Plan(c))] = FinishStep
<1>. DEFINE p8 == CollateralSection(c) \o DiamondSection \o VerifierSection(c) \o AccountLayerSection
                  \o InstantLayerSection \o Only(c.deployPartyB, PartyBSection)
                  \o Only(c.deploySymbolManager, SymbolManagerSection) \o Only(c.hyperEVM, << BigBlocksOff >>)
            p9 == p8 \o SystemSetup(c)
            t10 == Only(c.templates, TemplateSection)
            p10 == p9 \o t10
            t11 == Only(c.affiliate, AffiliateSection)
            p11 == p10 \o t11
            t12 == OwnershipSection(c)
            p12 == p11 \o t12
            last == << FinishStep >>
<1>1. Plan(c) = p12 \o last
  BY DEF Plan, FinishStep
<1>2. Flagged(c, p8, {})
  <2>1. Built(c, p8, Located(c))
    BY ContractsFit
  <2>. HIDE DEF p8
  <2>. QED  BY <2>1 DEF Built, Flagged, Unflagged
<1>. HIDE DEF p8
<1>3. Flagged(c, p9, {"systemRoles"})
  <2>1. Located(c) \subseteq Guarded(ToSet(p8)) /\ Flag("systemRoles") \notin ToSet(p8)
    <3>1. "systemRoles" \notin {}
      OBVIOUS
    <3>2. Flag("systemRoles") \notin ToSet(p8)
      BY <1>2, <3>1, NotFlagged
    <3>. QED  BY <1>2, <3>2 DEF Flagged
  <2>2. /\ FitsAfter(c, ToSet(p8), SystemSetup(c))
        /\ \A st \in ToSet(SystemSetup(c)) : st.kind = "flag" => st = Flag("systemRoles")
    BY <2>1, SystemSectionFits
  <2>3. Flagged(c, p9, {} \cup {"systemRoles"})
    BY <1>2, <2>2, FlaggedFurther
  <2>. QED  BY <2>3
<1>. DEFINE systemKeys == CoreKeys \cup AccountKeys \cup VerifierKeys \cup ParameterKeys \cup InstantKeys
                          \cup (IF c.deployPartyB THEN PartyBKeys ELSE {})
            templateKeys == IF c.templates THEN TemplateKeys ELSE {}
<1>4. Brings(p9, systemKeys)
  <2>1. Brings(p8, {})
    BY <1>2 DEF Flagged, FitsAfter, Brings
  <2>2. Brings(SystemSetup(c), systemKeys)
    BY SystemSetupBrings
  <2>. HIDE DEF systemKeys
  <2>3. Brings(p9, {} \cup systemKeys)
    BY <2>1, <2>2, BringsRow
  <2>. QED  BY <2>3
<1>5. WantedKeys(c) = systemKeys \cup templateKeys
  BY DEF WantedKeys
<1>. HIDE DEF p9, systemKeys
<1>6. Flagged(c, p10, {"systemRoles", "instantLayerTemplates"})
  <2>1. Located(c) \subseteq Guarded(ToSet(p9)) /\ Flag("instantLayerTemplates") \notin ToSet(p9)
    BY <1>3, NotFlagged DEF Flagged
  <2>2. /\ FitsAfter(c, ToSet(p9), TemplateSection)
        /\ \A st \in ToSet(TemplateSection) : st.kind = "flag" => st = Flag("instantLayerTemplates")
    BY <2>1, TemplateSectionFits
  <2>3. /\ FitsAfter(c, ToSet(p9), t10)
        /\ \A st \in ToSet(t10) : st.kind = "flag" => st = Flag("instantLayerTemplates")
    BY <2>2, OnlyFits
  <2>. HIDE DEF t10
  <2>. DEFINE flags == {"systemRoles"}
  <2>4. Flagged(c, p10, flags \cup {"instantLayerTemplates"})
    <3>. HIDE DEF flags
    <3>. QED  BY <1>3, <2>3, FlaggedFurther DEF flags
  <2>. QED  BY <2>4
<1>7. Brings(p10, WantedKeys(c))
  <2>1. Brings(t10, templateKeys)
    BY TemplateSectionBrings, BringsOnly
  <2>. HIDE DEF t10, templateKeys
  <2>. QED  BY <1>4, <1>5, <2>1, BringsRow
<1>. HIDE DEF p10, t10, templateKeys
<1>8. Flagged(c, p11, {"systemRoles", "instantLayerTemplates", "dummyAffiliate"})
  <2>1. Located(c) \subseteq Guarded(ToSet(p10)) /\ Flag("dummyAffiliate") \notin ToSet(p10)
    BY <1>6, NotFlagged DEF Flagged
  <2>2. /\ FitsAfter(c, ToSet(p10), AffiliateSection)
        /\ \A st \in ToSet(AffiliateSection) : st.kind = "flag" => st = Flag("dummyAffiliate")
    BY <2>1, AffiliateSectionFits
  <2>3. /\ FitsAfter(c, ToSet(p10), t11)
        /\ \A st \in ToSet(t11) : st.kind = "flag" => st = Flag("dummyAffiliate")
    BY <2>2, OnlyFits
  <2>. HIDE DEF t11
  <2>. DEFINE flags == {"systemRoles", "instantLayerTemplates"}
  <2>4. Flagged(c, p11, flags \cup {"dummyAffiliate"})
    <3>. HIDE DEF flags
    <3>. QED  BY <1>6, <2>3, FlaggedFurther DEF flags
  <2>. QED  BY <2>4
<1>9. Brings(p11, WantedKeys(c))
  <2>1. Located(c) \subseteq Guarded(ToSet(p10)) /\ Flag("dummyAffiliate") \notin ToSet(p10)
    BY <1>6, NotFlagged DEF Flagged
  <2>2. FitsAfter(c, ToSet(p10), t11)
    BY <2>1, AffiliateSectionFits, OnlyFits
  <2>3. Brings(t11, {})
    BY <2>2 DEF FitsAfter, Brings
  <2>. HIDE DEF t11
  <2>4. Brings(p11, WantedKeys(c) \cup {})
    BY <1>7, <2>3, BringsRow
  <2>. QED  BY <2>4
<1>. HIDE DEF p11, t11
<1>10. FitsAfter(c, ToSet(p11), t12)
  <2>1. Located(c) \subseteq Guarded(ToSet(p11)) /\ Flag("") \notin ToSet(p11)
    BY <1>8, NotFlagged DEF Flagged
  <2>. QED  BY <2>1, OwnershipSectionFits
<1>. HIDE DEF t12
<1>. DEFINE before == {}
<1>11. FitsAfter(c, before, p11) /\ before \cup ToSet(p11) = ToSet(p11)
  BY <1>8 DEF Flagged
<1>12. FitsAfter(c, before \cup ToSet(p11), t12)
  BY <1>10, <1>11
<1>. HIDE DEF before
<1>13. FitsAfter(c, before, p12)
  BY <1>11, <1>12, PartsInARow
<1>14. ToSet(p12) = ToSet(p11) \cup ToSet(t12)
  BY <1>11, <1>12, PartsInARow
<1>15. Brings(p12, WantedKeys(c))
  <2>1. Brings(t12, {})
    BY <1>10 DEF FitsAfter, Brings
  <2>2. Brings(p12, WantedKeys(c) \cup {})
    BY <1>9, <2>1, BringsRow
  <2>. QED  BY <2>2
<1>. HIDE DEF p12
<1>16. FitsAfter(c, before \cup ToSet(p12), last)
  <2>1. FinishStep.kind = "finish"
    BY DEF FinishStep
  <2>2. Prepared(c, before \cup ToSet(p12))
    <3>1. Located(c) \subseteq Guarded(before \cup ToSet(p12))
      <4>1. before \cup ToSet(p12) = ToSet(p11) \cup (before \cup ToSet(p12))
        BY <1>14
      <4>. QED  BY <1>8, <4>1, GuardedTogether DEF Flagged
    <3>2. WantedKeys(c) \subseteq KeysIn(before \cup ToSet(p12))
      BY <1>15 DEF Brings, KeysIn
    <3>. QED  BY <3>1, <3>2 DEF Prepared
  <2>3. StepFits(c, FinishStep, before \cup ToSet(p12))
    BY <2>1, <2>2 DEF StepFits
  <2>. QED  BY <2>3, OnePart
<1>17. IsSequence(last) /\ Len(last) = 1 /\ last[1] = FinishStep
  BY Single DEF IsSequence
<1>. HIDE DEF last
<1>18. FitsAfter(c, before, p12 \o last)
  BY <1>13, <1>16, PartsInARow
<1>19. /\ Len(p12) \in Nat /\ DOMAIN (p12 \o last) = 1..(Len(p12) + 1)
       /\ (p12 \o last)[Len(p12) + 1] = last[1]
  BY <1>13, <1>17, OneMore DEF FitsAfter
<1>20. IsSequence(p12 \o last)
  BY <1>18 DEF FitsAfter
<1>21. Len(p12 \o last) = Len(p12) + 1
  <2>1. PICK S : p12 \o last \in Seq(S)
    BY <1>20 DEF IsSequence
  <2>2. Len(p12 \o last) \in Nat /\ DOMAIN (p12 \o last) = 1..Len(p12 \o last)
    BY <2>1
  <2>. DEFINE k == Len(p12 \o last)  m == Len(p12) + 1
  <2>3. k \in Nat /\ m \in Nat /\ 1..k = 1..m
    BY <2>2, <1>19
  <2>. HIDE DEF k, m
  <2>4. k = m
    BY <2>3
  <2>. QED  BY <2>4 DEF k, m
<1>. QED  BY <1>1, <1>17, <1>18, <1>19, <1>21 DEF before

----------------------------------------------------------------------------
(* The inductive invariant                                                 *)

\* Everything below speaks of the settled state: the mined state with all that
\* was sent applied to it.
IsState(S) == S = [count |-> S.count, facts |-> S.facts] /\ S.count \in [Contracts -> Nat]

\* Links name an instance that exists; ownership is offered to the admin alone;
\* where there is a template, the first one opens; modes are set on the first.
ChainFits(c, S) ==
  /\ IsState(S)
  /\ \A f \in S.facts :
       /\ f[2] = "links" => /\ f[1] = At(f[1][1], f[1][2]) /\ f[1][1] \in Deployable \ Nameable
                            /\ f[1][2] \in 1..S.count[f[1][1]]
       /\ f[2] = "pendingOwner" => f = Fact(f[1], "pendingOwner", "", At(c.admin, 0))
       /\ f[2] = "template" => Fact(f[1], "template", "InstantOpen", At("template", 0)) \in S.facts
       /\ f[2] = "setTemplateInstantOpenMode" =>
            /\ f[4] = At("template", 0)
            /\ \E g \in S.facts : g[1] = f[1] /\ g[2] = "template"

\* What may be sent in a state.
TxFits(c, S, tx) ==
  /\ tx.kind \in {"deploy", "cut", "call"}
  /\ tx.kind = "deploy" => tx.name \in Deployable /\ (tx.name \in Nameable => tx.links = {})
  /\ tx.kind = "call" =>
       /\ tx.fn \in PlanFunctions \cup {"requestToRegisterAffiliate"}
       /\ tx.fn = "transferOwnership" => tx.who = At(c.admin, 0)
       /\ tx.fn = "acceptOwnership" => c.admin = "deployer"
       /\ tx.fn = "addTemplate" /\ tx.what # "InstantOpen" =>
            \E g \in S.facts : g[1] = tx.to /\ g[2] = "template"
       /\ tx.fn = "setTemplateInstantOpenMode" => tx.who = At("template", 0)
       /\ tx.fn \in {"registerPartyB", "registerPartyBs"} => tx.what = ""

\* A call had its effect, and ownership, once accepted, was not offered again.
TookFor(facts, tx) ==
  /\ Took(facts, tx)
  /\ tx.fn = "acceptOwnership" => ~\E f \in facts : f[1] = tx.to /\ f[2] = "pendingOwner"

\* The addresses of a checkpoint, and the calls of a step resolved with it.
RecordedAt(cp, name) == At(name, IF name \in Contracts THEN cp.contracts[name] ELSE 0)
ResolvedBy(cp, call) ==
  [kind |-> "call", to |-> RecordedAt(cp, call.to), fn |-> call.fn, what |-> call.what,
   who |-> RecordedAt(cp, call.who)]

Recorded(cp, name) == name \in Deployable /\ cp.contracts[name] # 0
IsCheckpoint(cp) ==
  /\ cp = [state |-> cp.state, contracts |-> cp.contracts, cuts |-> cp.cuts, done |-> cp.done, flags |-> cp.flags]
  /\ DOMAIN cp.contracts = Contracts /\ \A n \in Deployable : cp.contracts[n] \in Nat

\* A link that agrees with the checkpoint.
Wired(cp, f) ==
  f[4][1] # "partyBImplementation" => Recorded(cp, f[4][1]) /\ f[4] = RecordedAt(cp, f[4][1])

\* The checkpoint tells the truth about the settled state.
LinksFit(S, cp) ==
  \A f \in S.facts : f[2] = "links" /\ f[1][2] = cp.contracts[f[1][1]] => Wired(cp, f)
StepsFit(c, S, cp) ==
  \A i \in DOMAIN Plan(c) :
    Plan(c)[i].kind = "calls" /\ Skips(cp, Plan(c)[i]) =>
      \A j \in DOMAIN Plan(c)[i].calls : TookFor(S.facts, ResolvedBy(cp, Plan(c)[i].calls[j]))
MarksFit(c, cp) ==
  /\ cp.flags \subseteq SectionFlags
  /\ cp.done # {} \/ cp.flags # {} => \A n \in Located(c) : Recorded(cp, n)
  /\ <<"approve", "">> \in cp.done => Skips(cp, RegisterStep)
  /\ <<"acceptOwnership", "">> \in cp.done => <<"transferOwnership", "">> \in cp.done
  /\ "dummyAffiliate" \in cp.flags => \E i \in DOMAIN Plan(c) : Plan(c)[i] = ApproveStep
RecordFits(c, S, cp) == IsCheckpoint(cp) /\ LinksFit(S, cp) /\ StepsFit(c, S, cp) /\ MarksFit(c, cp)

CountsFit(c, state, cp) ==
  /\ \A n \in Deployable : cp.contracts[n] <= state.count[n]
  /\ \A n \in Existing(c) : 1 <= state.count[n]

\* A step that the process has behind it.
Passed(cp, st) ==
  \/ Skips(cp, st)
  \/ st.kind \in {"write", "bigBlocksOff", "require"}
  \/ st.kind = "deploy" /\ st.name # st.guard

IsProcess(pr) ==
  /\ pr = [mode |-> pr.mode, pc |-> pr.pc, sub |-> pr.sub, wait |-> pr.wait, held |-> pr.held]
  /\ pr.sub \in Nat /\ pr.mode \in {"idle", "running", "done"} /\ pr.wait \in {"none", "pending", "ok", "reverted"}

\* A running process is at a step of its plan that is not behind it; of a
\* deployment under way the last instance is linked as the checkpoint says; the
\* calls sent so far take.
StepUnderWay(c, S, cp, st, pr) ==
  /\ Skips(cp, st) => st.kind = "deploy" /\ pr.sub = 2
  /\ st.kind = "deploy" /\ pr.sub = 2 => Passed(cp, st)
  /\ pr.wait # "none" => \/ st.kind = "deploy" /\ pr.sub = 1
                         \/ st.kind = "cut" /\ pr.sub # 0
  /\ st.kind = "deploy" /\ pr.sub = 1 =>
       /\ S.count[st.name] # 0
       /\ \A f \in S.facts : f[2] = "links" /\ f[1] = At(st.name, S.count[st.name]) => Wired(cp, f)
  /\ st.kind = "calls" => /\ pr.sub <= Len(st.calls)
                          /\ \A j \in 1..pr.sub : TookFor(S.facts, ResolvedBy(cp, st.calls[j]))
ProcessFits(c, S, cp, pr) ==
  pr.mode = "running" =>
    /\ pr.pc \in 1..Len(Plan(c))
    /\ \A k \in 1..(pr.pc - 1) : Passed(cp, Plan(c)[k])
    /\ StepUnderWay(c, S, cp, Plan(c)[pr.pc], pr)

Sendable(tx) == tx.kind \in {"deploy", "cut", "call"} /\ (tx.kind = "deploy" => tx.name \in Contracts)

IInv ==
  /\ config \in Configs /\ IsState(chain)
  /\ mempool \in Seq(ToSet(mempool)) /\ \A i \in DOMAIN mempool : Sendable(mempool[i])
  /\ ChainFits(config, Settled)
  /\ CountsFit(config, chain, checkpoint)
  /\ RecordFits(config, Settled, checkpoint)
  /\ IsProcess(process)
  /\ process.mode # "running" => process.wait = "none"
  /\ process.wait = "ok" => mempool = <<>>
  /\ ProcessFits(config, Settled, checkpoint, process)

----------------------------------------------------------------------------
(* What no transaction takes away                                          *)

\* Facts that stay: all but an offer of ownership, another owner than the
\* deployer, and a pending affiliate.
Lasting(f) ==
  /\ f[2] # "pendingOwner"
  /\ f[2] = "owner" => f = Fact(f[1], "owner", "", Deployer)
  /\ f[2] = "affiliate" => f[3] # "PENDING"
Offered(facts, to) == \E f \in facts : f[1] = to /\ f[2] = "pendingOwner"

\* From facts to later facts.
KeptFacts(facts, after) ==
  /\ \A f \in facts : Lasting(f) => f \in after
  /\ \A to : Offered(facts, to) => Offered(after, to) \/ Fact(to, "owner", "", Deployer) \in after
  /\ \A to, who : Fact(to, "affiliate", "PENDING", who) \in facts =>
                    \/ Fact(to, "affiliate", "PENDING", who) \in after
                    \/ Fact(to, "affiliate", "ACTIVE", who) \in after
Kept(S, T) ==
  /\ \A n \in Contracts : S.count[n] <= T.count[n]
  /\ KeptFacts(S.facts, T.facts)

LEMMA MoreFacts ==
  ASSUME NEW facts, NEW after, \A f \in facts : f \in after
  PROVE  KeptFacts(facts, after)
BY DEF KeptFacts, Offered

LEMMA CallKeeps ==
  ASSUME NEW facts, NEW to, NEW fn, NEW what, NEW who
  PROVE  KeptFacts(facts, CallEffect(facts, to, fn, what, who))
<1>. DEFINE after == CallEffect(facts, to, fn, what, who)
<1>1. CASE fn = "transferOwnership"
  <2>1. after = { f \in facts : ~(f[1] = to /\ f[2] = "pendingOwner") } \cup {Fact(to, "pendingOwner", "", who)}
    BY <1>1 DEF CallEffect
  <2>2. Offered(after, to)
    <3>1. Fact(to, "pendingOwner", "", who)[1] = to /\ Fact(to, "pendingOwner", "", who)[2] = "pendingOwner"
      BY DEF Fact
    <3>. QED  BY <2>1, <3>1 DEF Offered
  <2>3. \A f \in facts : ~(f[1] = to /\ f[2] = "pendingOwner") => f \in after
    BY <2>1
  <2>4. \A d, x : Fact(d, "affiliate", "PENDING", x)[2] = "affiliate"
    BY DEF Fact
  <2>. HIDE DEF after
  <2>9. KeptFacts(facts, after)
    BY <2>2, <2>3, <2>4 DEF KeptFacts, Lasting, Offered
  <2>. QED  BY <2>9 DEF after
<1>2. CASE fn = "acceptOwnership"
  <2>1. after = { f \in facts : ~(f[1] = to /\ f[2] \in {"owner", "pendingOwner"}) }
                  \cup {Fact(to, "owner", "", Deployer)}
    BY <1>2 DEF CallEffect
  <2>2. Fact(to, "owner", "", Deployer) \in after
    BY <2>1
  <2>3. \A f \in facts : ~(f[1] = to /\ f[2] \in {"owner", "pendingOwner"}) => f \in after
    BY <2>1
  <2>4. \A d, x : Fact(d, "affiliate", "PENDING", x)[2] = "affiliate"
    BY DEF Fact
  <2>. HIDE DEF after
  <2>5. \A d : Offered(facts, d) => Offered(after, d) \/ Fact(d, "owner", "", Deployer) \in after
    <3>. TAKE d
    <3>1. CASE d = to
      BY <3>1, <2>2
    <3>2. CASE d # to
      BY <3>2, <2>3 DEF Offered
    <3>. QED  BY <3>1, <3>2
  <2>6. \A f \in facts : Lasting(f) => f \in after
    BY <2>2, <2>3 DEF Lasting
  <2>9. KeptFacts(facts, after)
    BY <2>3, <2>4, <2>5, <2>6 DEF KeptFacts
  <2>. QED  BY <2>9 DEF after
<1>3. CASE fn = "approveAffiliate"
  <2>1. after = (facts \ {Fact(to, "affiliate", "PENDING", who)}) \cup {Fact(to, "affiliate", "ACTIVE", who)}
    BY <1>3 DEF CallEffect
  <2>. DEFINE pending == Fact(to, "affiliate", "PENDING", who)
  <2>2. pending[2] = "affiliate" /\ pending[3] = "PENDING"
    BY DEF Fact
  <2>3. \A d, x : Fact(d, "affiliate", "PENDING", x) = pending => d = to /\ x = who
    BY DEF Fact
  <2>4. (\A f \in facts : f # pending => f \in after) /\ Fact(to, "affiliate", "ACTIVE", who) \in after
    BY <2>1
  <2>. HIDE DEF after, pending
  <2>9. KeptFacts(facts, after)
    BY <2>2, <2>3, <2>4 DEF KeptFacts, Lasting, Offered
  <2>. QED  BY <2>9 DEF after
<1>4. CASE fn \notin {"transferOwnership", "acceptOwnership", "approveAffiliate"}
  <2>1. \A f \in facts : f \in after
    BY <1>4 DEF CallEffect
  <2>. HIDE DEF after
  <2>2. KeptFacts(facts, after)
    BY <2>1, MoreFacts
  <2>. QED  BY <2>2 DEF after
<1>. QED  BY <1>1, <1>2, <1>3, <1>4

\* The three kinds of transactions.
LEMMA ApplyDeploy ==
  ASSUME NEW S, IsState(S), NEW tx, tx.kind = "deploy", tx.name \in Contracts
  PROVE  LET self == At(tx.name, S.count[tx.name] + 1)
         IN  /\ IsState(Apply(S, tx))
             /\ Apply(S, tx).count[tx.name] = S.count[tx.name] + 1
             /\ \A n \in Contracts : n # tx.name => Apply(S, tx).count[n] = S.count[n]
             /\ Apply(S, tx).facts = S.facts \cup { Fact(self, "links", r[1], r) : r \in tx.links }
                                        \cup ConstructorFacts(tx.name, self, tx.admin)
<1>. DEFINE self == At(tx.name, S.count[tx.name] + 1)
            facts == S.facts \cup { Fact(self, "links", r[1], r) : r \in tx.links }
                       \cup ConstructorFacts(tx.name, self, tx.admin)
            count == [S.count EXCEPT ![tx.name] = @ + 1]
<1>1. Accepts(S, tx)
  BY DEF Accepts
<1>2. Apply(S, tx) = [count |-> count, facts |-> facts]
  BY <1>1 DEF Apply
<1>3. count \in [Contracts -> Nat] /\ count[tx.name] = S.count[tx.name] + 1
  BY DEF IsState
<1>4. \A n \in Contracts : n # tx.name => count[n] = S.count[n]
  BY DEF IsState
<1>. HIDE DEF self, facts, count
<1>. QED  BY <1>2, <1>3, <1>4 DEF IsState, self, facts

LEMMA ApplyCut ==
  ASSUME NEW S, IsState(S), NEW tx, tx.kind = "cut"
  PROVE  /\ IsState(Apply(S, tx)) /\ Apply(S, tx).count = S.count
         /\ \A f \in S.facts : f \in Apply(S, tx).facts
         /\ \A f \in Apply(S, tx).facts : f \in S.facts \/ f[2] \in {"facet", "role"}
<1>1. CASE ~Accepts(S, tx)
  BY <1>1 DEF Apply
<1>2. CASE Accepts(S, tx)
  <2>. DEFINE facets == { Fact(tx.to, "facet", f[1], f) : f \in tx.facets }
              init == IF tx.init THEN InitFacts(tx.to) ELSE {}
  <2>1. Apply(S, tx) = [S EXCEPT !.facts = S.facts \cup facets \cup init]
    BY <1>2 DEF Apply
  <2>2. \A f \in facets : f[2] = "facet"
    BY DEF Fact
  <2>3. \A f \in init : f[2] = "role"
    BY DEF Fact, InitFacts
  <2>. HIDE DEF facets, init
  <2>4. Apply(S, tx) = [count |-> S.count, facts |-> S.facts \cup facets \cup init]
    BY <2>1 DEF IsState
  <2>5. Apply(S, tx).count = S.count /\ Apply(S, tx).facts = S.facts \cup facets \cup init
    BY <2>4
  <2>. QED  BY <2>2, <2>3, <2>4, <2>5 DEF IsState
<1>. QED  BY <1>1, <1>2

LEMMA ApplyCall ==
  ASSUME NEW S, IsState(S), NEW tx, tx.kind = "call"
  PROVE  /\ IsState(Apply(S, tx)) /\ Apply(S, tx).count = S.count
         /\ ~Accepts(S, tx) => Apply(S, tx) = S
         /\ Accepts(S, tx) => Apply(S, tx).facts = CallEffect(S.facts, tx.to, tx.fn, tx.what, tx.who)
<1>1. CASE ~Accepts(S, tx)
  BY <1>1 DEF Apply
<1>2. CASE Accepts(S, tx)
  <2>. DEFINE facts == CallEffect(S.facts, tx.to, tx.fn, tx.what, tx.who)
  <2>1. Apply(S, tx) = [S EXCEPT !.facts = facts]
    BY <1>2 DEF Apply
  <2>. HIDE DEF facts
  <2>2. Apply(S, tx) = [count |-> S.count, facts |-> facts]
    BY <2>1 DEF IsState
  <2>. QED  BY <1>2, <2>2 DEF IsState, facts
<1>. QED  BY <1>1, <1>2

LEMMA KeptBy ==
  ASSUME NEW S, IsState(S), NEW tx, Sendable(tx)
  PROVE  IsState(Apply(S, tx)) /\ Kept(S, Apply(S, tx))
<1>1. CASE tx.kind = "deploy"
  <2>1. tx.name \in Contracts
    BY <1>1 DEF Sendable
  <2>2. \A f \in S.facts : f \in Apply(S, tx).facts
    BY <1>1, <2>1, ApplyDeploy
  <2>3. \A n \in Contracts : S.count[n] <= Apply(S, tx).count[n]
    <3>. TAKE n \in Contracts
    <3>1. S.count[n] \in Nat
      BY DEF IsState
    <3>. QED  BY <1>1, <2>1, <3>1, ApplyDeploy
  <2>. QED  BY <1>1, <2>1, <2>2, <2>3, ApplyDeploy, MoreFacts DEF Kept
<1>2. CASE tx.kind = "cut"
  <2>1. \A f \in S.facts : f \in Apply(S, tx).facts
    BY <1>2, ApplyCut
  <2>2. \A n \in Contracts : S.count[n] <= S.count[n]
    BY DEF IsState
  <2>. QED  BY <1>2, <2>1, <2>2, ApplyCut, MoreFacts DEF Kept
<1>3. CASE tx.kind = "call"
  <2>1. \A n \in Contracts : S.count[n] <= S.count[n]
    BY DEF IsState
  <2>2. CASE ~Accepts(S, tx)
    BY <1>3, <2>1, <2>2, ApplyCall, MoreFacts DEF Kept
  <2>3. CASE Accepts(S, tx)
    BY <1>3, <2>1, <2>3, ApplyCall, CallKeeps DEF Kept
  <2>. QED  BY <2>2, <2>3
<1>. QED  BY <1>1, <1>2, <1>3 DEF Sendable

LEMMA KeptFactsFurther ==
  ASSUME NEW facts, NEW after, NEW last, KeptFacts(facts, after), KeptFacts(after, last)
  PROVE  KeptFacts(facts, last)
<1>1. \A to : Lasting(Fact(to, "owner", "", Deployer))
  BY DEF Lasting, Fact
<1>2. \A to, who : Lasting(Fact(to, "affiliate", "ACTIVE", who))
  BY DEF Lasting, Fact
<1>. QED  BY <1>1, <1>2 DEF KeptFacts

LEMMA KeptFurther ==
  ASSUME NEW S, NEW T, NEW U, IsState(S), IsState(T), IsState(U), Kept(S, T), Kept(T, U)
  PROVE  Kept(S, U)
<1>1. \A n \in Contracts : S.count[n] <= U.count[n]
  <2>. TAKE n \in Contracts
  <2>1. S.count[n] \in Nat /\ T.count[n] \in Nat /\ U.count[n] \in Nat
    BY DEF IsState
  <2>. QED  BY <2>1 DEF Kept
<1>. QED  BY <1>1, KeptFactsFurther DEF Kept

\* The transactions still to be mined take nothing of this away.
LEMMA ReplayKeeps ==
  ASSUME NEW state, IsState(state), NEW X, NEW txs \in Seq(X), \A i \in DOMAIN txs : Sendable(txs[i])
  PROVE  IsState(Replay(state, txs)) /\ Kept(state, Replay(state, txs))
<1>. DEFINE n == Len(txs)
<1>1. n \in Nat /\ DOMAIN txs = 1..n
  OBVIOUS
<1>2. PICK r : RunOf(r, n, state, txs)
  BY <1>1, RunExists
<1>3. Replay(state, txs) = r[n]
  BY <1>1, <1>2, ReplayRuns
<1>. HIDE DEF n
<1>4. r[0] = state /\ \A i \in 1..n : r[i] = Apply(r[i - 1], txs[i])
  BY <1>1, <1>2, RunFacts
<1>. DEFINE Good(i) == IsState(r[i]) /\ Kept(state, r[i])
            Bad == { i \in 0..n : ~Good(i) }
<1>5. Kept(state, state)
  <2>1. \A m \in Contracts : state.count[m] <= state.count[m]
    BY DEF IsState
  <2>. QED  BY <2>1, MoreFacts DEF Kept
<1>6. Bad = {}
  <2>. SUFFICES ASSUME Bad # {} PROVE FALSE
    OBVIOUS
  <2>1. PICK m \in Bad : \A i \in Bad : m <= i
    <3>1. Bad \subseteq Nat
      OBVIOUS
    <3>. HIDE DEF Bad
    <3>. QED  BY <3>1, LeastNatural
  <2>2. m \in 1..n /\ m - 1 \in 0..n /\ m - 1 \notin Bad
    BY <1>1, <1>4, <1>5, <2>1
  <2>3. IsState(r[m - 1]) /\ Kept(state, r[m - 1])
    BY <2>2
  <2>4. Sendable(txs[m]) /\ r[m] = Apply(r[m - 1], txs[m])
    BY <1>1, <1>4, <2>2
  <2>5. IsState(r[m]) /\ Kept(r[m - 1], r[m])
    BY <2>3, <2>4, KeptBy
  <2>6. Kept(state, r[m])
    BY <2>3, <2>5, KeptFurther
  <2>. QED  BY <2>1, <2>5, <2>6
<1>7. n \in 0..n
  BY <1>1
<1>. QED  BY <1>3, <1>6, <1>7

----------------------------------------------------------------------------
(* The calls of the plan take                                              *)

LEMMA PlanFunctionNames ==
  \A fn \in PlanFunctions :
    fn \notin {"owner", "pendingOwner", "affiliate", "template", "links", "facet", "role", "requestToRegisterAffiliate"}
BY DEF PlanFunctions, SystemFunctions, TemplateFunctions

\* Whoever holds a role, or is the owner, stays so.
LEMMA ServedLater ==
  ASSUME NEW facts, NEW after, KeptFacts(facts, after), NEW to, NEW fn, Served(facts, to, fn)
  PROVE  Served(after, to, fn)
<1>1. \A f \in facts : f[2] = "facet" => f \in after
  BY DEF KeptFacts, Lasting
<1>2. FacetsOf(facts, to) \subseteq FacetsOf(after, to)
  BY <1>1 DEF FacetsOf
<1>. QED  BY <1>2 DEF Served

\* A call accepted in an earlier state is accepted in a later one, or what
\* cannot be repeated has happened.
LEMMA AcceptedLater ==
  ASSUME NEW facts, NEW after, KeptFacts(facts, after), NEW to, NEW fn, NEW what, NEW who,
         AcceptsCall(facts, to, fn, what, who), ~AcceptsCall(after, to, fn, what, who)
  PROVE  \/ fn \in {"registerPartyB", "registerPartyBs"} /\ Fact(to, fn, "", who) \in after
         \/ fn = "acceptOwnership" /\ Offered(facts, to) /\ Fact(to, "pendingOwner", "", Deployer) \notin after
         \/ fn = "approveAffiliate" /\ Fact(to, "affiliate", "ACTIVE", who) \in after
<1>1. Served(after, to, fn) /\ Served(facts, to, fn)
  BY ServedLater DEF AcceptsCall
<1>2. \A role, x : HasRole(facts, to, role, x) => HasRole(after, to, role, x)
  BY DEF HasRole, KeptFacts, Lasting, Fact
<1>3. Fact(to, "owner", "", Deployer) \in facts => Fact(to, "owner", "", Deployer) \in after
  BY DEF KeptFacts, Lasting, Fact
<1>4. CASE fn \in {"setAdmin", "transferOwnership"}
  BY <1>1, <1>3, <1>4 DEF AcceptsCall
<1>5. CASE fn = "acceptOwnership"
  <2>1. Fact(to, "pendingOwner", "", Deployer) \in facts /\ Fact(to, "pendingOwner", "", Deployer) \notin after
    BY <1>1, <1>5 DEF AcceptsCall
  <2>2. Fact(to, "pendingOwner", "", Deployer)[1] = to /\ Fact(to, "pendingOwner", "", Deployer)[2] = "pendingOwner"
    BY DEF Fact
  <2>. QED  BY <1>5, <2>1, <2>2 DEF Offered
<1>6. CASE fn = "requestToRegisterAffiliate"
  <2>1. Fact(to, "setWhitelistedSymmioCore", "", who) \in facts
    BY <1>6 DEF AcceptsCall
  <2>2. Lasting(Fact(to, "setWhitelistedSymmioCore", "", who))
    BY DEF Lasting, Fact
  <2>3. Fact(to, "setWhitelistedSymmioCore", "", who) \in after
    BY <2>1, <2>2 DEF KeptFacts
  <2>. QED  BY <1>1, <1>6, <2>3 DEF AcceptsCall
<1>7. CASE fn \notin {"setAdmin", "transferOwnership", "acceptOwnership", "requestToRegisterAffiliate"}
  <2>1. HasRole(facts, to, SetterRole(fn, what), Deployer)
    BY <1>7 DEF AcceptsCall
  <2>2. HasRole(after, to, SetterRole(fn, what), Deployer)
    BY <1>2, <2>1
  <2>3. CASE fn = "registerPartyB"
    BY <1>1, <1>7, <2>2, <2>3 DEF AcceptsCall
  <2>4. CASE fn = "registerPartyBs"
    BY <1>1, <1>7, <2>2, <2>4 DEF AcceptsCall
  <2>5. CASE fn = "approveAffiliate"
    <3>1. Fact(to, "affiliate", "PENDING", who) \in facts
      BY <2>5 DEF AcceptsCall
    <3>2. Fact(to, "affiliate", "PENDING", who) \notin after
      BY <1>1, <1>7, <2>2, <2>5 DEF AcceptsCall
    <3>. QED  BY <2>5, <3>1, <3>2 DEF KeptFacts
  <2>6. CASE fn = "setTemplateInstantOpenMode"
    <3>1. \E f \in facts : f[1] = to /\ f[2] = "template" /\ f[4] = who
      BY <2>6 DEF AcceptsCall
    <3>2. \E f \in after : f[1] = to /\ f[2] = "template" /\ f[4] = who
      BY <3>1 DEF KeptFacts, Lasting
    <3>. QED  BY <1>1, <1>7, <2>2, <2>6, <3>2 DEF AcceptsCall
  <2>7. CASE fn \notin {"registerPartyB", "registerPartyBs", "approveAffiliate", "setTemplateInstantOpenMode"}
    BY <1>1, <1>7, <2>2, <2>7 DEF AcceptsCall
  <2>. QED  BY <2>3, <2>4, <2>5, <2>6, <2>7
<1>. QED  BY <1>4, <1>5, <1>6, <1>7

\* What an accepted call leaves at once.
LEMMA EffectTook ==
  ASSUME NEW facts, NEW tx, tx.fn \in PlanFunctions, tx.fn \in {"registerPartyB", "registerPartyBs"} => tx.what = ""
  PROVE  TookFor(CallEffect(facts, tx.to, tx.fn, tx.what, tx.who), tx)
<1>. DEFINE after == CallEffect(facts, tx.to, tx.fn, tx.what, tx.who)
<1>0. tx.fn # "requestToRegisterAffiliate"
  BY PlanFunctionNames
<1>1. CASE tx.fn = "acceptOwnership"
  <2>1. after = { f \in facts : ~(f[1] = tx.to /\ f[2] \in {"owner", "pendingOwner"}) }
                  \cup {Fact(tx.to, "owner", "", Deployer)}
    BY <1>1 DEF CallEffect
  <2>2. Fact(tx.to, "owner", "", Deployer)[2] = "owner"
    BY DEF Fact
  <2>3. { f \in after : f[1] = tx.to /\ f[2] = "pendingOwner" } = {}
    BY <2>1, <2>2
  <2>4. Fact(tx.to, "owner", "", Deployer) \in after
    BY <2>1
  <2>. HIDE DEF after
  <2>5. Count(after, tx.to, "pendingOwner") = 0
    BY <2>3, FS_EmptySet DEF Count
  <2>6. TookFor(after, tx)
    BY <1>1, <2>3, <2>4, <2>5 DEF TookFor, Took
  <2>. QED  BY <2>6 DEF after
<1>2. CASE tx.fn = "addTemplate"
  <2>. DEFINE new == Fact(tx.to, "template", tx.what, At("template", Count(facts, tx.to, "template")))
  <2>1. after = facts \cup {new}
    BY <1>2 DEF CallEffect
  <2>2. new[1] = tx.to /\ new[2] = "template" /\ new[3] = tx.what /\ new \in after
    BY <2>1 DEF Fact
  <2>. HIDE DEF after, new
  <2>3. TookFor(after, tx)
    BY <1>2, <2>2 DEF TookFor, Took
  <2>. QED  BY <2>3 DEF after
<1>3. CASE tx.fn = "setAdmin"
  BY <1>3 DEF CallEffect, TookFor, Took, HasRole
<1>4. CASE tx.fn = "grantRole"
  BY <1>4 DEF CallEffect, TookFor, Took, HasRole
<1>5. CASE tx.fn = "transferOwnership"
  BY <1>5 DEF CallEffect, TookFor, Took
<1>6. CASE tx.fn = "registerPartyBs"
  BY <1>6 DEF CallEffect, TookFor, Took
<1>7. CASE tx.fn = "approveAffiliate"
  BY <1>7 DEF CallEffect, TookFor, Took
<1>8. CASE tx.fn \notin {"acceptOwnership", "addTemplate", "setAdmin", "grantRole", "transferOwnership",
                         "registerPartyBs", "approveAffiliate"}
  BY <1>0, <1>8 DEF CallEffect, TookFor, Took
<1>. QED  BY <1>1, <1>2, <1>3, <1>4, <1>5, <1>6, <1>7, <1>8

\* A call that the node takes, on the mined state or after what is pending, has
\* its effect once it is mined too.
LEMMA SentTook ==
  ASSUME NEW c, NEW state, NEW S, IsState(state), IsState(S), Kept(state, S), ChainFits(c, S),
         NEW tx, tx.kind = "call", tx.fn \in PlanFunctions, TxFits(c, S, tx),
         Accepts(state, tx) \/ Accepts(S, tx)
  PROVE  TookFor(Apply(S, tx).facts, tx)
<1>1. tx.fn \in {"registerPartyB", "registerPartyBs"} => tx.what = ""
  BY DEF TxFits
<1>2. CASE Accepts(S, tx)
  BY <1>1, <1>2, ApplyCall, EffectTook
<1>3. CASE ~Accepts(S, tx)
  <2>1. Apply(S, tx) = S
    BY <1>3, ApplyCall
  <2>2. AcceptsCall(state.facts, tx.to, tx.fn, tx.what, tx.who) /\ ~AcceptsCall(S.facts, tx.to, tx.fn, tx.what, tx.who)
    BY <1>3 DEF Accepts
  <2>3. KeptFacts(state.facts, S.facts)
    BY DEF Kept
  <2>4. \/ tx.fn \in {"registerPartyB", "registerPartyBs"} /\ Fact(tx.to, tx.fn, "", tx.who) \in S.facts
        \/ /\ tx.fn = "acceptOwnership" /\ Offered(state.facts, tx.to)
           /\ Fact(tx.to, "pendingOwner", "", Deployer) \notin S.facts
        \/ tx.fn = "approveAffiliate" /\ Fact(tx.to, "affiliate", "ACTIVE", tx.who) \in S.facts
    BY <2>2, <2>3, AcceptedLater
  <2>5. CASE tx.fn \in {"registerPartyB", "registerPartyBs"}
    BY <1>1, <2>1, <2>4, <2>5 DEF TookFor, Took
  <2>6. CASE tx.fn = "approveAffiliate"
    BY <2>1, <2>4, <2>6 DEF TookFor, Took
  <2>7. CASE tx.fn = "acceptOwnership"
    <3>1. c.admin = "deployer"
      BY <2>7 DEF TxFits
    <3>2. ~Offered(S.facts, tx.to)
      <4>1. ASSUME NEW f \in S.facts, f[1] = tx.to, f[2] = "pendingOwner" PROVE FALSE
        <5>1. f = Fact(f[1], "pendingOwner", "", At(c.admin, 0))
          BY <4>1 DEF ChainFits
        <5>2. f = Fact(tx.to, "pendingOwner", "", Deployer)
          BY <3>1, <4>1, <5>1 DEF Deployer
        <5>. QED  BY <2>4, <2>7, <5>2
      <4>. QED  BY <4>1 DEF Offered
    <3>3. Fact(tx.to, "owner", "", Deployer) \in S.facts
      BY <2>3, <2>4, <2>7, <3>2 DEF KeptFacts
    <3>4. { f \in S.facts : f[1] = tx.to /\ f[2] = "pendingOwner" } = {}
      BY <3>2 DEF Offered
    <3>5. Count(S.facts, tx.to, "pendingOwner") = 0
      BY <3>4, FS_EmptySet DEF Count
    <3>. QED  BY <2>1, <2>7, <3>3, <3>4, <3>5 DEF TookFor, Took
  <2>. QED  BY <2>4, <2>5, <2>6, <2>7
<1>. QED  BY <1>2, <1>3

LEMMA ConstructorMakes ==
  ASSUME NEW name, NEW self, NEW admin, NEW f \in ConstructorFacts(name, self, admin)
  PROVE  f[2] \in {"owner", "role"}
<1>1. \A to, role, x : Fact(to, "role", role, x)[2] = "role" /\ Fact(to, "owner", role, x)[2] = "owner"
  BY DEF Fact
<1>2. CASE name \in {"diamond", "accountLayer"}
  BY <1>1, <1>2 DEF ConstructorFacts
<1>3. CASE name = "signatureVerifier"
  BY <1>1, <1>3 DEF ConstructorFacts
<1>4. CASE name = "instantLayer"
  BY <1>1, <1>4 DEF ConstructorFacts
<1>5. CASE name = "symmioPartyB"
  BY <1>1, <1>5 DEF ConstructorFacts
<1>6. CASE name = "symbolManager"
  BY <1>1, <1>6 DEF ConstructorFacts
<1>7. CASE name \notin {"diamond", "accountLayer", "signatureVerifier", "instantLayer", "symmioPartyB", "symbolManager"}
  BY <1>7 DEF ConstructorFacts
<1>. QED  BY <1>2, <1>3, <1>4, <1>5, <1>6, <1>7

LEMMA CallAdds ==
  ASSUME NEW facts, NEW to, NEW fn, fn \notin {"transferOwnership", "addTemplate"}, NEW what, NEW who,
         NEW f, f \in CallEffect(facts, to, fn, what, who), ~(f \in facts)
  PROVE  f[2] \in {"role", "owner", "affiliate", fn}
<1>1. \A p, x, y : Fact(to, p, x, y)[2] = p
  BY DEF Fact
<1>. DEFINE after == CallEffect(facts, to, fn, what, who)
<1>2. f \in after
  OBVIOUS
<1>3. CASE fn = "setAdmin"
  <2>1. after = facts \cup {Fact(to, "role", "DEFAULT_ADMIN_ROLE", who)}
    BY <1>3 DEF CallEffect
  <2>. HIDE DEF after
  <2>. QED  BY <1>1, <1>2, <2>1
<1>4. CASE fn = "grantRole"
  <2>1. after = facts \cup {Fact(to, "role", what, who)}
    BY <1>4 DEF CallEffect
  <2>. HIDE DEF after
  <2>. QED  BY <1>1, <1>2, <2>1
<1>5. CASE fn = "acceptOwnership"
  <2>1. after = { g \in facts : ~(g[1] = to /\ g[2] \in {"owner", "pendingOwner"}) }
                  \cup {Fact(to, "owner", "", Deployer)}
    BY <1>5 DEF CallEffect
  <2>. HIDE DEF after
  <2>2. f = Fact(to, "owner", "", Deployer)
    BY <1>2, <2>1
  <2>. QED  BY <1>1, <2>2
<1>6. CASE fn = "registerPartyBs"
  <2>. DEFINE one == Fact(to, fn, "", who)  two == Fact(to, "role", "OPERATOR_ROLE", who)
  <2>1. after = facts \cup {one, two}
    BY <1>6 DEF CallEffect
  <2>2. one[2] = fn /\ two[2] = "role"
    BY DEF Fact
  <2>. HIDE DEF after, one, two
  <2>3. f \in {one, two}
    BY <1>2, <2>1
  <2>. QED  BY <2>2, <2>3
<1>7. CASE fn = "requestToRegisterAffiliate"
  <2>. DEFINE new == Fact(to, "affiliate", "PENDING", At("accountManager", Count(facts, to, "affiliate") + 1))
  <2>1. after = facts \cup {new}
    BY <1>7 DEF CallEffect
  <2>2. new[2] = "affiliate"
    BY DEF Fact
  <2>. HIDE DEF after, new
  <2>3. f = new
    BY <1>2, <2>1
  <2>. QED  BY <2>2, <2>3
<1>8. CASE fn = "approveAffiliate"
  <2>1. after = (facts \ {Fact(to, "affiliate", "PENDING", who)}) \cup {Fact(to, "affiliate", "ACTIVE", who)}
    BY <1>8 DEF CallEffect
  <2>. HIDE DEF after
  <2>. QED  BY <1>1, <1>2, <2>1
<1>9. CASE fn \notin {"setAdmin", "grantRole", "acceptOwnership", "registerPartyBs", "requestToRegisterAffiliate",
                      "approveAffiliate"}
  <2>1. after = facts \cup {Fact(to, fn, what, who)}
    BY <1>9 DEF CallEffect
  <2>. HIDE DEF after
  <2>. QED  BY <1>1, <1>2, <2>1
<1>. QED  BY <1>3, <1>4, <1>5, <1>6, <1>7, <1>8, <1>9

\* The effect of a call stays, whatever is sent later, except that ownership
\* may be offered again.
LEMMA TookStays ==
  ASSUME NEW c, NEW S, IsState(S), NEW tx, TxFits(c, S, tx), tx.kind = "deploy" => tx.name \in Contracts,
         NEW old, TookFor(S.facts, old), old.fn \in PlanFunctions,
         old.fn = "transferOwnership" => old.who = At(c.admin, 0),
         ~(old.fn = "acceptOwnership" /\ tx.kind = "call" /\ tx.fn = "transferOwnership")
  PROVE  TookFor(Apply(S, tx).facts, old)
<1>. DEFINE T == Apply(S, tx)
<1>1. Sendable(tx)
  BY DEF Sendable, TxFits
<1>2. KeptFacts(S.facts, T.facts)
  BY <1>1, KeptBy DEF Kept
<1>3. \A f \in S.facts : Lasting(f) => f \in T.facts
  BY <1>2 DEF KeptFacts
<1>4. CASE old.fn = "transferOwnership"
  <2>. DEFINE offer == Fact(old.to, "pendingOwner", "", old.who)
              owned == Fact(old.to, "owner", "", old.who)
  <2>1. offer \in S.facts \/ owned \in S.facts
    BY <1>4 DEF TookFor, Took
  <2>2. SUFFICES offer \in T.facts \/ owned \in T.facts
    BY <1>4 DEF TookFor, Took
  <2>3. offer[1] = old.to /\ offer[2] = "pendingOwner" /\ owned[1] = old.to /\ owned[2] = "owner"
    BY DEF Fact
  <2>4. CASE tx.kind = "deploy"
    <3>1. S.facts \subseteq T.facts
      BY <2>4, ApplyDeploy
    <3>. HIDE DEF T, offer, owned
    <3>. QED  BY <2>1, <3>1
  <2>5. CASE tx.kind = "cut"
    <3>1. S.facts \subseteq T.facts
      BY <2>5, ApplyCut
    <3>. HIDE DEF T, offer, owned
    <3>. QED  BY <2>1, <3>1
  <2>6. CASE tx.kind = "call"
    <3>1. CASE ~Accepts(S, tx)
      <4>1. T = S
        BY <2>6, <3>1, ApplyCall
      <4>. HIDE DEF T, offer, owned
      <4>. QED  BY <2>1, <4>1
    <3>2. CASE Accepts(S, tx)
      <4>1. T.facts = CallEffect(S.facts, tx.to, tx.fn, tx.what, tx.who)
        BY <2>6, <3>2, ApplyCall
      <4>2. CASE tx.fn = "transferOwnership"
        <5>1. tx.who = old.who
          BY <1>4, <2>6, <4>2 DEF TxFits
        <5>2. T.facts = { f \in S.facts : ~(f[1] = tx.to /\ f[2] = "pendingOwner") }
                          \cup {Fact(tx.to, "pendingOwner", "", old.who)}
          BY <4>1, <4>2, <5>1 DEF CallEffect
        <5>. HIDE DEF T, owned
        <5>. QED  BY <2>1, <2>3, <5>2
      <4>3. CASE tx.fn = "acceptOwnership"
        <5>1. old.who = Deployer
          BY <1>4, <2>6, <4>3 DEF TxFits, Deployer
        <5>2. T.facts = { f \in S.facts : ~(f[1] = tx.to /\ f[2] \in {"owner", "pendingOwner"}) }
                          \cup {Fact(tx.to, "owner", "", old.who)}
          BY <4>1, <4>3, <5>1 DEF CallEffect
        <5>3. CASE old.to = tx.to
          BY <5>2, <5>3
        <5>4. CASE old.to # tx.to
          <6>. HIDE DEF T, owned, offer
          <6>. QED  BY <2>1, <2>3, <5>2, <5>4
        <5>. QED  BY <5>3, <5>4
      <4>4. CASE tx.fn \notin {"transferOwnership", "acceptOwnership"}
        <5>1. \A f \in S.facts : f[2] # "affiliate" => f \in T.facts
          <6>1. Fact(tx.to, "affiliate", "PENDING", tx.who)[2] = "affiliate"
            BY DEF Fact
          <6>. QED  BY <4>1, <4>4, <6>1 DEF CallEffect
        <5>. HIDE DEF T, owned, offer
        <5>. QED  BY <2>1, <2>3, <5>1
      <4>. QED  BY <4>2, <4>3, <4>4
    <3>. QED  BY <3>1, <3>2
  <2>. QED  BY <2>4, <2>5, <2>6 DEF TxFits
<1>5. CASE old.fn = "acceptOwnership"
  <2>1. Fact(old.to, "owner", "", Deployer) \in S.facts /\ ~Offered(S.facts, old.to)
    BY <1>5 DEF TookFor, Took, Offered
  <2>2. Fact(old.to, "owner", "", Deployer) \in T.facts
    BY <1>3, <2>1 DEF Lasting, Fact
  <2>3. \A f \in T.facts : f[2] = "pendingOwner" => f \in S.facts
    <3>1. CASE tx.kind = "deploy"
      <4>. DEFINE self == At(tx.name, S.count[tx.name] + 1)
                  links == { Fact(self, "links", r[1], r) : r \in tx.links }
                  made == ConstructorFacts(tx.name, self, tx.admin)
      <4>1. T.facts = S.facts \cup links \cup made
        BY <3>1, ApplyDeploy
      <4>2. \A f \in links : f[2] = "links"
        BY DEF Fact
      <4>3. \A f \in made : f[2] \in {"owner", "role"}
        BY ConstructorMakes
      <4>. HIDE DEF T, links, made
      <4>. QED  BY <4>1, <4>2, <4>3
    <3>2. CASE tx.kind = "cut"
      BY <3>2, ApplyCut
    <3>3. CASE tx.kind = "call"
      <4>1. CASE ~Accepts(S, tx)
        BY <3>3, <4>1, ApplyCall
      <4>2. CASE Accepts(S, tx)
        <5>1. T.facts = CallEffect(S.facts, tx.to, tx.fn, tx.what, tx.who)
          BY <3>3, <4>2, ApplyCall
        <5>2. tx.fn # "transferOwnership" /\ tx.fn # "pendingOwner"
          BY <1>5, <3>3, PlanFunctionNames DEF TxFits
        <5>3. CASE tx.fn = "addTemplate"
          BY <5>1, <5>3 DEF CallEffect, Fact
        <5>. HIDE DEF T
        <5>4. CASE tx.fn # "addTemplate"
          BY <5>1, <5>2, <5>4, CallAdds
        <5>. QED  BY <5>3, <5>4
      <4>. QED  BY <4>1, <4>2
    <3>. QED  BY <3>1, <3>2, <3>3 DEF TxFits
  <2>4. ~Offered(T.facts, old.to)
    BY <2>1, <2>3 DEF Offered
  <2>5. { f \in T.facts : f[1] = old.to /\ f[2] = "pendingOwner" } = {}
    BY <2>4 DEF Offered
  <2>6. Count(T.facts, old.to, "pendingOwner") = 0
    BY <2>5, FS_EmptySet DEF Count
  <2>. QED  BY <1>5, <2>2, <2>5, <2>6 DEF TookFor, Took
<1>6. CASE old.fn = "addTemplate"
  <2>1. \E f \in S.facts : f[1] = old.to /\ f[2] = "template" /\ f[3] = old.what
    BY <1>6 DEF TookFor, Took
  <2>2. \E f \in T.facts : f[1] = old.to /\ f[2] = "template" /\ f[3] = old.what
    BY <1>3, <2>1 DEF Lasting
  <2>. QED  BY <1>6, <2>2 DEF TookFor, Took
<1>7. CASE old.fn \in {"setAdmin", "grantRole"}
  <2>1. \A role : HasRole(S.facts, old.to, role, old.who) => HasRole(T.facts, old.to, role, old.who)
    BY <1>3 DEF HasRole, Lasting, Fact
  <2>. QED  BY <1>7, <2>1 DEF TookFor, Took
<1>8. CASE old.fn = "approveAffiliate"
  <2>1. Fact(old.to, "affiliate", "ACTIVE", old.who) \in S.facts
    BY <1>8 DEF TookFor, Took
  <2>2. Fact(old.to, "affiliate", "ACTIVE", old.who) \in T.facts
    BY <1>3, <2>1 DEF Lasting, Fact
  <2>. QED  BY <1>8, <2>2 DEF TookFor, Took
<1>9. CASE old.fn \notin {"transferOwnership", "acceptOwnership", "addTemplate", "setAdmin", "grantRole",
                          "approveAffiliate"}
  <2>1. Fact(old.to, old.fn, old.what, old.who) \in S.facts
    BY <1>9 DEF TookFor, Took
  <2>2. old.fn \notin {"owner", "pendingOwner", "affiliate"}
    BY PlanFunctionNames
  <2>3. Fact(old.to, old.fn, old.what, old.who) \in T.facts
    BY <1>3, <2>1, <2>2 DEF Lasting, Fact
  <2>. QED  BY <1>9, <2>3 DEF TookFor, Took
<1>. QED  BY <1>4, <1>5, <1>6, <1>7, <1>8, <1>9

\* A transaction of the plan leaves a state as it should be.
FactFits(c, S, f) ==
  /\ f[2] = "links" => /\ f[1] = At(f[1][1], f[1][2]) /\ f[1][1] \in Deployable \ Nameable
                       /\ f[1][2] \in 1..S.count[f[1][1]]
  /\ f[2] = "pendingOwner" => f = Fact(f[1], "pendingOwner", "", At(c.admin, 0))
  /\ f[2] = "template" => Fact(f[1], "template", "InstantOpen", At("template", 0)) \in S.facts
  /\ f[2] = "setTemplateInstantOpenMode" =>
       /\ f[4] = At("template", 0)
       /\ \E g \in S.facts : g[1] = f[1] /\ g[2] = "template"

LEMMA FactFitsLater ==
  ASSUME NEW c, NEW S, NEW T, IsState(S), IsState(T), Kept(S, T), NEW f, FactFits(c, S, f)
  PROVE  FactFits(c, T, f)
<1>1. \A g \in S.facts : g[2] = "template" => g \in T.facts
  BY DEF Kept, KeptFacts, Lasting
<1>2. Fact(f[1], "template", "InstantOpen", At("template", 0))[2] = "template"
  BY DEF Fact
<1>3. CASE f[2] = "links"
  <2>1. f[1][1] \in Contracts /\ S.count[f[1][1]] \in Nat /\ T.count[f[1][1]] \in Nat
    BY <1>3 DEF FactFits, IsState, Deployable
  <2>2. S.count[f[1][1]] <= T.count[f[1][1]]
    BY <2>1 DEF Kept
  <2>3. f[1][2] \in 1..T.count[f[1][1]]
    BY <1>3, <2>1, <2>2 DEF FactFits
  <2>. QED  BY <1>3, <2>3 DEF FactFits
<1>4. CASE f[2] # "links"
  BY <1>1, <1>2, <1>4 DEF FactFits
<1>. QED  BY <1>3, <1>4

LEMMA ApplyFits ==
  ASSUME NEW c, NEW S, IsState(S), ChainFits(c, S), NEW tx, TxFits(c, S, tx)
  PROVE  ChainFits(c, Apply(S, tx))
<1>. DEFINE T == Apply(S, tx)
<1>1. Sendable(tx)
  BY DEF Sendable, TxFits, Deployable
<1>2. IsState(T) /\ Kept(S, T)
  BY <1>1, KeptBy
<1>3. \A f \in S.facts : FactFits(c, T, f)
  <2>1. \A f \in S.facts : FactFits(c, S, f)
    BY DEF ChainFits, FactFits
  <2>. QED  BY <1>2, <2>1, FactFitsLater
<1>4. SUFFICES ASSUME NEW f \in T.facts, f \notin S.facts PROVE FactFits(c, T, f)
  BY <1>2, <1>3 DEF ChainFits, FactFits
<1>5. CASE tx.kind = "deploy"
  <2>. DEFINE n == S.count[tx.name] + 1
              self == At(tx.name, n)
              links == { Fact(self, "links", r[1], r) : r \in tx.links }
              made == ConstructorFacts(tx.name, self, tx.admin)
  <2>1. tx.name \in Deployable /\ tx.name \in Contracts /\ (tx.name \in Nameable => tx.links = {})
    BY <1>5 DEF TxFits, Deployable
  <2>2. T.facts = S.facts \cup links \cup made /\ T.count[tx.name] = n /\ S.count[tx.name] \in Nat
    BY <1>5, <2>1, ApplyDeploy DEF IsState
  <2>3. CASE f \in links
    <3>1. f[1] = self /\ f[2] = "links" /\ tx.links # {}
      BY <2>3 DEF Fact
    <3>2. self[1] = tx.name /\ self[2] = n /\ n \in 1..n
      BY <2>2 DEF At
    <3>. QED  BY <2>1, <2>2, <3>1, <3>2 DEF FactFits
  <2>4. CASE f \in made
    <3>1. f[2] \in {"owner", "role"}
      BY <2>4, ConstructorMakes
    <3>. QED  BY <3>1 DEF FactFits
  <2>5. f \in links \/ f \in made
    <3>. HIDE DEF links, made, T
    <3>. QED  BY <2>2, <1>4
  <2>. QED  BY <2>3, <2>4, <2>5
<1>6. CASE tx.kind = "cut"
  <2>1. f[2] \in {"facet", "role"}
    BY <1>4, <1>6, ApplyCut
  <2>. QED  BY <2>1 DEF FactFits
<1>7. CASE tx.kind = "call"
  <2>1. Accepts(S, tx)
    BY <1>4, <1>7, ApplyCall
  <2>2. T.facts = CallEffect(S.facts, tx.to, tx.fn, tx.what, tx.who)
    BY <1>7, <2>1, ApplyCall
  <2>3. AcceptsCall(S.facts, tx.to, tx.fn, tx.what, tx.who)
    BY <1>7, <2>1 DEF Accepts
  <2>4. tx.fn \notin {"owner", "pendingOwner", "affiliate", "template", "links", "facet", "role"}
    BY <1>7, PlanFunctionNames DEF TxFits
  <2>5. CASE tx.fn = "transferOwnership"
    <3>1. f = Fact(tx.to, "pendingOwner", "", At(c.admin, 0))
      BY <1>4, <1>7, <2>2, <2>5 DEF CallEffect, TxFits
    <3>2. f[1] = tx.to /\ f[2] = "pendingOwner"
      BY <3>1 DEF Fact
    <3>. QED  BY <3>1, <3>2 DEF FactFits
  <2>6. CASE tx.fn = "addTemplate"
    <3>. DEFINE open == Fact(tx.to, "template", "InstantOpen", At("template", 0))
    <3>1. f = Fact(tx.to, "template", tx.what, At("template", Count(S.facts, tx.to, "template")))
      BY <1>4, <2>2, <2>6 DEF CallEffect
    <3>2. f[1] = tx.to /\ f[2] = "template"
      BY <3>1 DEF Fact
    <3>3. CASE \E g \in S.facts : g[1] = tx.to /\ g[2] = "template"
      <4>1. open \in S.facts
        BY <3>3 DEF ChainFits
      <4>2. open \in T.facts
        <5>1. Lasting(open)
          BY DEF Lasting, Fact
        <5>. QED  BY <1>2, <4>1, <5>1 DEF Kept, KeptFacts
      <4>. QED  BY <3>2, <4>2 DEF FactFits
    <3>4. CASE ~\E g \in S.facts : g[1] = tx.to /\ g[2] = "template"
      <4>1. tx.what = "InstantOpen"
        BY <1>7, <2>6, <3>4 DEF TxFits
      <4>2. { g \in S.facts : g[1] = tx.to /\ g[2] = "template" } = {}
        BY <3>4
      <4>3. Count(S.facts, tx.to, "template") = 0
        BY <4>2, FS_EmptySet DEF Count
      <4>4. f = open
        BY <3>1, <4>1, <4>3
      <4>. QED  BY <1>4, <3>2, <4>4 DEF FactFits
    <3>. QED  BY <3>3, <3>4
  <2>7. CASE tx.fn = "setTemplateInstantOpenMode"
    <3>1. f = Fact(tx.to, "setTemplateInstantOpenMode", tx.what, At("template", 0))
      BY <1>4, <1>7, <2>2, <2>7 DEF CallEffect, TxFits
    <3>2. f[1] = tx.to /\ f[2] = "setTemplateInstantOpenMode" /\ f[4] = At("template", 0)
      BY <3>1 DEF Fact
    <3>3. \E g \in S.facts : g[1] = tx.to /\ g[2] = "template"
      BY <2>3, <2>7 DEF AcceptsCall
    <3>4. \E g \in T.facts : g[1] = tx.to /\ g[2] = "template"
      BY <1>2, <3>3 DEF Kept, KeptFacts, Lasting
    <3>. QED  BY <3>2, <3>4 DEF FactFits
  <2>8. CASE tx.fn \notin {"transferOwnership", "addTemplate", "setTemplateInstantOpenMode"}
    <3>1. f[2] \notin {"links", "pendingOwner", "template", "setTemplateInstantOpenMode"}
      <4>. HIDE DEF T
      <4>1. f[2] \in {"role", "owner", "affiliate", tx.fn}
        BY <1>4, <2>2, <2>8, CallAdds
      <4>. QED  BY <2>4, <2>8, <4>1
    <3>. QED  BY <3>1 DEF FactFits
  <2>. QED  BY <2>5, <2>6, <2>7, <2>8
<1>. QED  BY <1>5, <1>6, <1>7 DEF TxFits

----------------------------------------------------------------------------
(* The position in the plan                                                *)

LEMMA StepsArePlanned ==
  ASSUME config \in Configs
  PROVE  /\ steps = Plan(config) /\ Len(steps) \in Nat \ {0} /\ DOMAIN steps = 1..Len(steps)
         /\ steps[Len(steps)] = FinishStep
         /\ \A i \in 1..Len(steps) : StepFits(config, steps[i], Before(steps, i))
<1>1. steps = Plan(config)
  BY DEF steps, Plans
<1>2. FitsAfter(config, {}, Plan(config))
  BY PlanFits
<1>3. \A i \in DOMAIN Plan(config) : StepFits(config, Plan(config)[i], Before(Plan(config), i))
  BY <1>2 DEF FitsAfter
<1>. QED  BY <1>1, <1>3, PlanFits

\* A step that was passed before is one that the plan may rely on.
LEMMA PassedBefore ==
  ASSUME NEW s, NEW i \in Nat, NEW cp, \A k \in 1..(i - 1) : Passed(cp, s[k]), NEW st \in Before(s, i)
  PROVE  Passed(cp, st)
BY DEF Before

LEMMA GuardsRecorded ==
  ASSUME NEW c, NEW s, NEW i \in 1..Len(s), Len(s) \in Nat, \A k \in 1..Len(s) : StepFits(c, s[k], Before(s, k)),
         NEW cp, \A k \in 1..(i - 1) : Passed(cp, s[k]), NEW n \in Guarded(Before(s, i))
  PROVE  Recorded(cp, n)
<1>1. PICK st \in Before(s, i) : n = st.guard /\ (st.kind = "record" \/ (st.kind = "deploy" /\ st.name = st.guard))
  BY DEF Guarded
<1>2. Passed(cp, st)
  BY PassedBefore
<1>3. PICK k \in 1..(i - 1) : st = s[k]
  BY DEF Before
<1>4. StepFits(c, st, Before(s, k))
  BY <1>3
<1>5. cp.contracts[n] # 0
  BY <1>1, <1>2 DEF Passed, Skips
<1>6. CASE st.kind = "deploy"
  BY <1>1, <1>4, <1>5, <1>6 DEF StepFits, Recorded
<1>7. CASE st.kind = "record"
  <2>1. n \in Existing(c)
    BY <1>1, <1>4, <1>7 DEF StepFits
  <2>2. n \in {"collateral", "signatureVerifier"}
    BY <2>1 DEF Existing
  <2>3. n \in Deployable
    BY <2>2, DeployableNames DEF FixedContracts
  <2>. QED  BY <1>5, <2>3 DEF Recorded
<1>. QED  BY <1>1, <1>6, <1>7

\* The steps from a position on: those skipped, then the one that is due.
LEMMA Advance ==
  ASSUME config \in Configs, NEW S, NEW cp, NEW i \in 1..Len(steps), \A k \in 1..(i - 1) : Passed(cp, steps[k])
  PROVE  LET pr == Position(cp, i)
         IN  IsProcess(pr) /\ pr.mode = "running" /\ pr.wait = "none" /\ ProcessFits(config, S, cp, pr)
<1>. DEFINE n == Len(steps)
            Due1(j) == ~Skips(cp, steps[j]) /\ \A k \in i..(j - 1) : Skips(cp, steps[k])
            T == { j \in i..n : ~Skips(cp, steps[j]) }
            first == FirstFrom(cp, i)
            pr == Position(cp, i)
<1>1. n \in Nat \ {0} /\ steps = Plan(config) /\ i \in Nat
  BY StepsArePlanned
<1>2. n \in T
  <2>1. ~Skips(cp, FinishStep)
    BY DEF Skips, FinishStep
  <2>. QED  BY <1>1, <2>1, StepsArePlanned
<1>3. PICK m \in T : \A j \in T : m <= j
  <2>1. T \subseteq Nat
    BY <1>1
  <2>. HIDE DEF T
  <2>. QED  BY <1>2, <2>1, LeastNatural
<1>4. m \in i..n /\ Due1(m)
  <2>1. ASSUME NEW k \in i..(m - 1) PROVE Skips(cp, steps[k])
    <3>1. k \in i..n /\ ~(m <= k)
      BY <1>1, <1>3
    <3>2. k \notin T
      BY <1>3, <3>1
    <3>. QED  BY <3>1, <3>2
  <2>. QED  BY <1>3, <2>1
<1>5. first \in i..n /\ Due1(first)
  <2>1. first = CHOOSE j \in i..n : Due1(j)
    BY DEF FirstFrom
  <2>. HIDE DEF first, Due1, n
  <2>. QED  BY <1>4, <2>1
<1>6. pr = [mode |-> "running", pc |-> first, sub |-> 0, wait |-> "none", held |-> 0]
  <2>1. pr = [Idle EXCEPT !.mode = "running", !.pc = first]
    BY DEF Position
  <2>. HIDE DEF pr, first
  <2>. QED  BY <2>1 DEF Idle
<1>. HIDE DEF first
<1>7. pr.mode = "running" /\ pr.pc = first /\ pr.sub = 0 /\ pr.wait = "none" /\ IsProcess(pr)
  BY <1>6 DEF IsProcess
<1>8. \A k \in 1..(first - 1) : Passed(cp, steps[k])
  <2>. TAKE k \in 1..(first - 1)
  <2>1. k \in 1..(i - 1) \/ k \in i..(first - 1)
    BY <1>1, <1>5
  <2>. QED  BY <1>5, <2>1 DEF Passed
<1>9. first \in 1..n
  BY <1>1, <1>5
<1>10. StepUnderWay(config, S, cp, steps[first], pr)
  <2>1. steps[first].kind = "calls" => Len(steps[first].calls) \in Nat
    <3>1. StepFits(config, steps[first], Before(steps, first))
      BY <1>9, StepsArePlanned
    <3>2. \A s : IsSequence(s) => Len(s) \in Nat
      BY DEF IsSequence
    <3>. QED  BY <3>1, <3>2 DEF StepFits
  <2>. HIDE DEF pr
  <2>. QED  BY <1>5, <1>7, <2>1 DEF StepUnderWay
<1>. HIDE DEF pr
<1>11. ProcessFits(config, S, cp, pr)
  BY <1>1, <1>7, <1>8, <1>9, <1>10 DEF ProcessFits
<1>. QED  BY <1>7, <1>11 DEF pr

----------------------------------------------------------------------------
(* The checkpoint grows                                                    *)

Grown(cp, next) ==
  /\ \A n \in Deployable : cp.contracts[n] # 0 => next.contracts[n] # 0
  /\ cp.cuts \subseteq next.cuts /\ cp.done \subseteq next.done /\ cp.flags \subseteq next.flags

LEMMA PassedLater ==
  ASSUME NEW c, NEW st, NEW before, StepFits(c, st, before), NEW cp, NEW next, Grown(cp, next)
  PROVE  (Skips(cp, st) => Skips(next, st)) /\ (Passed(cp, st) => Passed(next, st))
<1>1. Existing(c) \subseteq Deployable
  <2>1. Existing(c) \subseteq {"collateral", "signatureVerifier"}
    BY DEF Existing
  <2>2. {"collateral", "signatureVerifier"} \subseteq Deployable
    BY DeployableNames DEF FixedContracts
  <2>. QED  BY <2>1, <2>2
<1>2. CASE st.kind \in {"deploy", "record"}
  <2>1. st.guard \in Deployable
    BY <1>1, <1>2 DEF StepFits
  <2>2. Skips(cp, st) => Skips(next, st)
    BY <1>2, <2>1 DEF Skips, Grown
  <2>. QED  BY <2>2 DEF Passed
<1>3. CASE st.kind = "cut"
  <2>1. Skips(cp, st) => Skips(next, st)
    BY <1>3 DEF Skips, Grown
  <2>. QED  BY <2>1 DEF Passed
<1>4. CASE st.kind \in {"calls", "register", "views"}
  <2>1. Skips(cp, st) => Skips(next, st)
    BY <1>4 DEF Skips, Grown
  <2>. QED  BY <2>1 DEF Passed
<1>5. CASE st.kind \in {"require", "flag"}
  <2>1. Skips(cp, st) => Skips(next, st)
    BY <1>5 DEF Skips, Grown
  <2>. QED  BY <2>1 DEF Passed
<1>6. CASE st.kind \notin {"deploy", "record", "cut", "calls", "register", "views", "require", "flag"}
  BY <1>6 DEF Skips, Passed
<1>. QED  BY <1>2, <1>3, <1>4, <1>5, <1>6

LEMMA MarkedFields ==
  ASSUME NEW cp, IsCheckpoint(cp), NEW d
  PROVE  LET done == [cp EXCEPT !.done = d]
             flags == [cp EXCEPT !.flags = d]
             cuts == [cp EXCEPT !.cuts = d]
             state == [cp EXCEPT !.state = d]
         IN  /\ IsCheckpoint(done) /\ done.contracts = cp.contracts /\ done.cuts = cp.cuts
             /\ done.flags = cp.flags /\ done.done = d
             /\ IsCheckpoint(flags) /\ flags.contracts = cp.contracts /\ flags.cuts = cp.cuts
             /\ flags.flags = d /\ flags.done = cp.done
             /\ IsCheckpoint(cuts) /\ cuts.contracts = cp.contracts /\ cuts.cuts = d
             /\ cuts.flags = cp.flags /\ cuts.done = cp.done
             /\ IsCheckpoint(state) /\ state.contracts = cp.contracts /\ state.cuts = cp.cuts
             /\ state.flags = cp.flags /\ state.done = cp.done
<1>. DEFINE C == cp.contracts
<1>0. DOMAIN C = Contracts /\ \A n \in Deployable : C[n] \in Nat
  BY DEF IsCheckpoint
<1>1. cp = [state |-> cp.state, contracts |-> C, cuts |-> cp.cuts, done |-> cp.done, flags |-> cp.flags]
  BY DEF IsCheckpoint
<1>2. [cp EXCEPT !.done = d] = [state |-> cp.state, contracts |-> C, cuts |-> cp.cuts, done |-> d, flags |-> cp.flags]
  BY <1>1
<1>3. [cp EXCEPT !.flags = d] = [state |-> cp.state, contracts |-> C, cuts |-> cp.cuts, done |-> cp.done, flags |-> d]
  BY <1>1
<1>4. [cp EXCEPT !.cuts = d] = [state |-> cp.state, contracts |-> C, cuts |-> d, done |-> cp.done, flags |-> cp.flags]
  BY <1>1
<1>5. [cp EXCEPT !.state = d] = [state |-> d, contracts |-> C, cuts |-> cp.cuts, done |-> cp.done, flags |-> cp.flags]
  BY <1>1
<1>. QED  BY <1>0, <1>2, <1>3, <1>4, <1>5 DEF IsCheckpoint

LEMMA RecordedFields ==
  ASSUME NEW cp, IsCheckpoint(cp), NEW name \in Contracts, NEW k \in Nat
  PROVE  LET next == [cp EXCEPT !.contracts[name] = k]
         IN  /\ IsCheckpoint(next) /\ next.cuts = cp.cuts /\ next.done = cp.done /\ next.flags = cp.flags
             /\ next.contracts[name] = k /\ \A n \in Contracts : n # name => next.contracts[n] = cp.contracts[n]
<1>. DEFINE next == [cp EXCEPT !.contracts[name] = k]  C == [cp.contracts EXCEPT ![name] = k]
<1>1. cp = [state |-> cp.state, contracts |-> cp.contracts, cuts |-> cp.cuts, done |-> cp.done, flags |-> cp.flags]
  BY DEF IsCheckpoint
<1>2. next = [state |-> cp.state, contracts |-> C, cuts |-> cp.cuts, done |-> cp.done, flags |-> cp.flags]
  BY <1>1
<1>3. DOMAIN C = Contracts /\ C[name] = k /\ \A n \in Contracts : n # name => C[n] = cp.contracts[n]
  BY DEF IsCheckpoint
<1>4. \A n \in Deployable : C[n] \in Nat
  BY <1>3 DEF IsCheckpoint, Deployable
<1>. HIDE DEF C, next
<1>. QED  BY <1>2, <1>3, <1>4 DEF IsCheckpoint, next

\* The names of a call, and the address the process holds for them.
LEMMA LocatedNames ==
  ASSUME NEW c
  PROVE  /\ Located(c) \subseteq Deployable \ {"partyBImplementation"} /\ Located(c) \subseteq Contracts
         /\ "accountManager" \in Contracts /\ "partyBImplementation" \in Contracts
<1>1. Located(c) \subseteq FixedContracts \ {"accountManager", "partyBImplementation"}
  BY DEF Located, FixedContracts
<1>2. {"accountManager", "partyBImplementation"} \subseteq FixedContracts
  BY DEF FixedContracts
<1>. QED  BY <1>1, <1>2, DeployableNames DEF Contracts

LEMMA ResolvedAlike ==
  ASSUME NEW c, NEW st, NEW call, NEW before, CallFits(c, st, call, before), NEW cp, NEW next,
         \A n \in Located(c) : next.contracts[n] = cp.contracts[n],
         call.who = "accountManager" => next.contracts["accountManager"] = cp.contracts["accountManager"]
  PROVE  ResolvedBy(next, call) = ResolvedBy(cp, call)
<1>1. call.to \in Located(c)
  BY DEF CallFits
<1>2. RecordedAt(next, call.to) = RecordedAt(cp, call.to)
  BY <1>1 DEF RecordedAt
<1>3. RecordedAt(next, call.who) = RecordedAt(cp, call.who)
  BY DEF RecordedAt, CallFits
<1>. QED  BY <1>2, <1>3 DEF ResolvedBy

LEMMA CallAddress ==
  ASSUME NEW c, NEW st, NEW call, NEW before, CallFits(c, st, call, before)
  PROVE  ResolvedCall(call) = ResolvedBy(checkpoint, call)
<1>1. call.to # "partyBImplementation"
  BY LocatedNames DEF CallFits
<1>2. call.who # "partyBImplementation"
  BY LocatedNames DEF CallFits
<1>3. Address(call.to) = RecordedAt(checkpoint, call.to)
  BY <1>1 DEF Address, RecordedAt
<1>4. Address(call.who) = RecordedAt(checkpoint, call.who)
  BY <1>2 DEF Address, RecordedAt
<1>. QED  BY <1>3, <1>4 DEF ResolvedCall, ResolvedBy

----------------------------------------------------------------------------
(* A running process                                                       *)

LEMMA Running ==
  ASSUME IInv, process.mode = "running"
  PROVE  /\ config \in Configs /\ steps = Plan(config) /\ Len(steps) \in Nat /\ DOMAIN steps = 1..Len(steps)
         /\ process.pc \in 1..Len(steps) /\ step = steps[process.pc]
         /\ step.kind # "finish" => process.pc + 1 \in 1..Len(steps)
         /\ \A k \in 1..Len(steps) : StepFits(config, steps[k], Before(steps, k))
         /\ \A k \in 1..(process.pc - 1) : Passed(checkpoint, steps[k])
         /\ StepUnderWay(config, Settled, checkpoint, step, process)
         /\ \A n \in Guarded(Before(steps, process.pc)) : Recorded(checkpoint, n)
         /\ step.kind \in {"calls", "views", "register", "flag"} => \A n \in Located(config) : Recorded(checkpoint, n)
<1>1. config \in Configs
  BY DEF IInv
<1>2. /\ steps = Plan(config) /\ Len(steps) \in Nat \ {0} /\ DOMAIN steps = 1..Len(steps)
      /\ steps[Len(steps)] = FinishStep
      /\ \A i \in 1..Len(steps) : StepFits(config, steps[i], Before(steps, i))
  BY <1>1, StepsArePlanned
<1>. DEFINE n == Len(steps)  pc == process.pc
<1>3. ProcessFits(config, Settled, checkpoint, process)
  BY DEF IInv
<1>4. /\ pc \in 1..n /\ \A k \in 1..(pc - 1) : Passed(checkpoint, steps[k])
      /\ StepUnderWay(config, Settled, checkpoint, step, process)
  BY <1>2, <1>3 DEF ProcessFits, step
<1>5. step = steps[pc]
  BY DEF step
<1>6. step.kind # "finish" => pc + 1 \in 1..n
  <2>1. FinishStep.kind = "finish"
    BY DEF FinishStep
  <2>2. step.kind # "finish" => pc # n
    BY <1>2, <1>5, <2>1
  <2>3. n \in Nat
    BY <1>2
  <2>. HIDE DEF n, pc
  <2>. QED  BY <1>4, <2>2, <2>3
<1>7. \A m \in Guarded(Before(steps, pc)) : Recorded(checkpoint, m)
  BY <1>2, <1>4, GuardsRecorded
<1>8. step.kind \in {"calls", "views", "register", "flag"} => Located(config) \subseteq Guarded(Before(steps, pc))
  <2>1. StepFits(config, step, Before(steps, pc))
    BY <1>2, <1>4, <1>5
  <2>. QED  BY <2>1 DEF StepFits
<1>9. step.kind \in {"calls", "views", "register", "flag"} => \A m \in Located(config) : Recorded(checkpoint, m)
  BY <1>7, <1>8
<1>. QED  BY <1>1, <1>2, <1>4, <1>5, <1>6, <1>7, <1>9

\* Nothing is sent or mined.
LEMMA QuietStep ==
  ASSUME IInv, config' = config, chain' = chain, mempool' = mempool,
         CountsFit(config, chain, checkpoint'), RecordFits(config, Settled, checkpoint'), IsProcess(process'),
         process'.mode # "running" => process'.wait = "none", process'.wait = "ok" => mempool = <<>>,
         ProcessFits(config, Settled, checkpoint', process')
  PROVE  IInv'
<1>1. Settled' = Settled
  BY DEF Settled
<1>. QED  BY <1>1 DEF IInv

\* The checkpoint is saved, and the process goes on to the next step.
LEMMA AdvanceStep ==
  ASSUME IInv, process.mode = "running", step.kind # "finish", config' = config, chain' = chain, mempool' = mempool,
         NEW cp, checkpoint' = cp, process' = Position(cp, process.pc + 1),
         CountsFit(config, chain, cp), RecordFits(config, Settled, cp), Grown(checkpoint, cp), Passed(cp, step)
  PROVE  IInv'
<1>. DEFINE pc == process.pc  n == Len(steps)
<1>1. /\ config \in Configs /\ n \in Nat /\ pc \in 1..n /\ step = steps[pc] /\ pc + 1 \in 1..n
      /\ \A k \in 1..n : StepFits(config, steps[k], Before(steps, k))
      /\ \A k \in 1..(pc - 1) : Passed(checkpoint, steps[k])
  BY Running
<1>2. \A k \in 1..((pc + 1) - 1) : Passed(cp, steps[k])
  <2>. TAKE k \in 1..((pc + 1) - 1)
  <2>1. k \in 1..n /\ (k = pc \/ k \in 1..(pc - 1))
    BY <1>1
  <2>2. CASE k = pc
    BY <1>1, <2>2
  <2>3. CASE k \in 1..(pc - 1)
    BY <1>1, <2>1, <2>3, PassedLater
  <2>. QED  BY <2>1, <2>2, <2>3
<1>. DEFINE i == pc + 1  pr == Position(cp, i)
<1>3. IsProcess(pr) /\ pr.mode = "running" /\ pr.wait = "none" /\ ProcessFits(config, Settled, cp, pr)
  <2>1. i \in 1..Len(steps) /\ \A k \in 1..(i - 1) : Passed(cp, steps[k])
    BY <1>1, <1>2
  <2>. HIDE DEF i
  <2>. QED  BY <1>1, <2>1, Advance
<1>4. process' = pr
  OBVIOUS
<1>. HIDE DEF pr
<1>. QED  BY <1>3, <1>4, QuietStep

LEMMA RecordNow ==
  ASSUME IInv
  PROVE  /\ CountsFit(config, chain, checkpoint) /\ RecordFits(config, Settled, checkpoint)
         /\ Grown(checkpoint, checkpoint) /\ IsProcess(process) /\ IsCheckpoint(checkpoint)
         /\ LinksFit(Settled, checkpoint) /\ StepsFit(config, Settled, checkpoint) /\ MarksFit(config, checkpoint)
BY DEF IInv, RecordFits, Grown

\* The step needs no mark.
LEMMA AdvanceUnmarked ==
  ASSUME IInv, process.mode = "running", step.kind # "finish", config' = config, chain' = chain, mempool' = mempool,
         checkpoint' = checkpoint, process' = Position(checkpoint, process.pc + 1), Passed(checkpoint, step)
  PROVE  IInv'
BY RecordNow, AdvanceStep

\* The process alone changes.
LEMMA ProcessStep ==
  ASSUME IInv, config' = config, chain' = chain, mempool' = mempool, checkpoint' = checkpoint,
         IsProcess(process'), process'.mode # "running" => process'.wait = "none",
         process'.wait = "ok" => mempool = <<>>, ProcessFits(config, Settled, checkpoint, process')
  PROVE  IInv'
BY RecordNow, QuietStep

LEMMA IdleFits ==
  /\ IsProcess(Idle) /\ IsProcess([Idle EXCEPT !.mode = "done"])
  /\ Idle.wait = "none" /\ Idle.mode = "idle"
  /\ [Idle EXCEPT !.mode = "done"].wait = "none" /\ [Idle EXCEPT !.mode = "done"].mode = "done"
BY DEF Idle, IsProcess

\* A step that the process is at, further on.
LEMMA SameStep ==
  ASSUME IInv, process.mode = "running", NEW cp, NEW pr, pr.mode = "running", pr.pc = process.pc,
         Grown(checkpoint, cp), NEW S, StepUnderWay(config, S, cp, step, pr)
  PROVE  ProcessFits(config, S, cp, pr)
<1>. DEFINE n == Len(steps)  pc == process.pc
<1>1. /\ n \in Nat /\ pc \in 1..n /\ step = steps[pc] /\ steps = Plan(config)
      /\ \A k \in 1..n : StepFits(config, steps[k], Before(steps, k))
      /\ \A k \in 1..(pc - 1) : Passed(checkpoint, steps[k])
  BY Running
<1>2. \A k \in 1..(pc - 1) : Passed(cp, steps[k])
  <2>. TAKE k \in 1..(pc - 1)
  <2>1. k \in 1..n
    BY <1>1
  <2>. QED  BY <1>1, <2>1, PassedLater
<1>. QED  BY <1>1, <1>2 DEF ProcessFits

----------------------------------------------------------------------------
(* Steps that send nothing and record nothing                              *)

LEMMA StoppedFits ==
  ASSUME IInv, config' = config, chain' = chain, mempool' = mempool, checkpoint' = checkpoint, process' = Idle
  PROVE  IInv'
<1>1. ProcessFits(config, Settled, checkpoint, Idle)
  BY IdleFits DEF ProcessFits
<1>. QED  BY <1>1, IdleFits, ProcessStep

LEMMA StartFailsFits ==
  ASSUME IInv, StartFails
  PROVE  IInv'
BY ProcessStep DEF StartFails, IInv

\* The parts of a process that its steps change.
Moved(p, sub) == [p EXCEPT !.sub = sub]
Waiting(p, wait) == [p EXCEPT !.wait = wait]
MovedWaiting(p, sub, wait) == [p EXCEPT !.sub = sub, !.wait = wait]
MovedHolding(p, sub, held) == [p EXCEPT !.sub = sub, !.held = held]

LEMMA ProcessMoved ==
  ASSUME NEW p, IsProcess(p), NEW sub \in Nat
  PROVE  LET q == Moved(p, sub)
         IN  IsProcess(q) /\ q.mode = p.mode /\ q.pc = p.pc /\ q.sub = sub /\ q.wait = p.wait
<1>1. PICK m, i, j, w, h : p = [mode |-> m, pc |-> i, sub |-> j, wait |-> w, held |-> h]
  BY DEF IsProcess
<1>2. Moved(p, sub) = [mode |-> m, pc |-> i, sub |-> sub, wait |-> w, held |-> h]
  BY <1>1 DEF Moved
<1>. QED  BY <1>1, <1>2 DEF IsProcess

LEMMA ProcessHeld ==
  ASSUME NEW p, IsProcess(p), NEW held
  PROVE  LET q == [p EXCEPT !.held = held]
         IN  IsProcess(q) /\ q.mode = p.mode /\ q.pc = p.pc /\ q.sub = p.sub /\ q.wait = p.wait
<1>1. PICK m, i, j, w, h : p = [mode |-> m, pc |-> i, sub |-> j, wait |-> w, held |-> h]
  BY DEF IsProcess
<1>2. [p EXCEPT !.held = held] = [mode |-> m, pc |-> i, sub |-> j, wait |-> w, held |-> held]
  BY <1>1
<1>. QED  BY <1>1, <1>2 DEF IsProcess

LEMMA ProcessWaits ==
  ASSUME NEW p, IsProcess(p), NEW wait \in {"none", "pending", "ok", "reverted"}
  PROVE  LET q == Waiting(p, wait)
         IN  IsProcess(q) /\ q.mode = p.mode /\ q.pc = p.pc /\ q.sub = p.sub /\ q.wait = wait
<1>1. PICK m, i, j, w, h : p = [mode |-> m, pc |-> i, sub |-> j, wait |-> w, held |-> h]
  BY DEF IsProcess
<1>2. Waiting(p, wait) = [mode |-> m, pc |-> i, sub |-> j, wait |-> wait, held |-> h]
  BY <1>1 DEF Waiting
<1>. QED  BY <1>1, <1>2 DEF IsProcess

LEMMA ProcessMovedWaits ==
  ASSUME NEW p, IsProcess(p), NEW sub \in Nat, NEW wait \in {"none", "pending", "ok", "reverted"}
  PROVE  LET q == MovedWaiting(p, sub, wait)
         IN  IsProcess(q) /\ q.mode = p.mode /\ q.pc = p.pc /\ q.sub = sub /\ q.wait = wait
<1>. DEFINE r == Moved(p, sub)  q == Waiting(r, wait)
<1>1. MovedWaiting(p, sub, wait) = q
  BY DEF MovedWaiting, Moved, Waiting
<1>2. IsProcess(r) /\ r.mode = p.mode /\ r.pc = p.pc /\ r.sub = sub /\ r.wait = p.wait
  BY ProcessMoved
<1>. HIDE DEF r
<1>3. IsProcess(q) /\ q.mode = r.mode /\ q.pc = r.pc /\ q.sub = r.sub /\ q.wait = wait
  BY <1>2, ProcessWaits
<1>. QED  BY <1>1, <1>2, <1>3

LEMMA ProcessMovedHeld ==
  ASSUME NEW p, IsProcess(p), NEW sub \in Nat, NEW held
  PROVE  LET q == MovedHolding(p, sub, held)
         IN  IsProcess(q) /\ q.mode = p.mode /\ q.pc = p.pc /\ q.sub = sub /\ q.wait = p.wait
<1>. DEFINE r == Moved(p, sub)
<1>1. MovedHolding(p, sub, held) = [r EXCEPT !.held = held]
  BY DEF MovedHolding, Moved
<1>2. IsProcess(r) /\ r.mode = p.mode /\ r.pc = p.pc /\ r.sub = sub /\ r.wait = p.wait
  BY ProcessMoved
<1>. HIDE DEF r
<1>. DEFINE q == [r EXCEPT !.held = held]
<1>3. IsProcess(q) /\ q.mode = r.mode /\ q.pc = r.pc /\ q.sub = r.sub /\ q.wait = r.wait
  BY <1>2, ProcessHeld
<1>. QED  BY <1>1, <1>2, <1>3

LEMMA RetrySaltFits ==
  ASSUME IInv, RetrySalt
  PROVE  IInv'
<1>. DEFINE pr == MovedWaiting(process, 0, "none")
<1>1. /\ process.mode = "running" /\ step.kind = "deploy" /\ process' = pr /\ process.wait = "pending"
      /\ config' = config /\ chain' = chain /\ mempool' = mempool /\ checkpoint' = checkpoint
  BY DEF RetrySalt, Due, MovedWaiting
<1>2. /\ IsProcess(pr) /\ pr.mode = process.mode /\ pr.pc = process.pc /\ pr.sub = 0 /\ pr.wait = "none"
  BY RecordNow, ProcessMovedWaits
<1>. HIDE DEF pr
<1>4. ~Skips(checkpoint, step)
  BY <1>1, Running DEF StepUnderWay
<1>5. StepUnderWay(config, Settled, checkpoint, step, pr)
  BY <1>1, <1>2, <1>4 DEF StepUnderWay
<1>6. ProcessFits(config, Settled, checkpoint, pr)
  BY <1>1, <1>2, <1>5, RecordNow, SameStep
<1>. QED  BY <1>1, <1>2, <1>6, ProcessStep

LEMMA LogContractFits ==
  ASSUME IInv, LogContract
  PROVE  IInv'
<1>1. /\ process.mode = "running" /\ step.kind = "deploy" /\ process.sub = 2
      /\ process' = Position(checkpoint, process.pc + 1)
      /\ config' = config /\ chain' = chain /\ mempool' = mempool /\ checkpoint' = checkpoint
  BY DEF LogContract, Due
<1>2. Passed(checkpoint, step)
  BY <1>1, Running DEF StepUnderWay
<1>. QED  BY <1>1, <1>2, AdvanceUnmarked

LEMMA WriteDiamondLogFits ==
  ASSUME IInv, WriteDiamondLog
  PROVE  IInv'
<1>1. /\ process.mode = "running" /\ step.kind = "write" /\ process' = Position(checkpoint, process.pc + 1)
      /\ config' = config /\ chain' = chain /\ mempool' = mempool /\ checkpoint' = checkpoint
  BY DEF WriteDiamondLog, Due
<1>. QED  BY <1>1, AdvanceUnmarked DEF Passed

LEMMA RequireSetterFits ==
  ASSUME IInv, RequireSetter
  PROVE  IInv'
<1>1. /\ process.mode = "running" /\ step.kind = "require" /\ process' = Position(checkpoint, process.pc + 1)
      /\ config' = config /\ chain' = chain /\ mempool' = mempool /\ checkpoint' = checkpoint
  BY DEF RequireSetter, Due
<1>. QED  BY <1>1, AdvanceUnmarked DEF Passed

LEMMA LeaveBigBlocksFits ==
  ASSUME IInv, LeaveBigBlocks
  PROVE  IInv'
<1>1. /\ process.mode = "running" /\ step.kind = "bigBlocksOff" /\ process' = Position(checkpoint, process.pc + 1)
      /\ config' = config /\ chain' = chain /\ mempool' = mempool /\ checkpoint' = checkpoint
  BY DEF LeaveBigBlocks, Due
<1>. QED  BY <1>1, AdvanceUnmarked DEF Passed

\* Finishing archives the checkpoint, which keeps its content.
LEMMA FinishFits ==
  ASSUME IInv, Finish
  PROVE  IInv'
<1>. DEFINE cp == [checkpoint EXCEPT !.state = "archived"]  pr == [Idle EXCEPT !.mode = "done"]
<1>1. /\ config' = config /\ chain' = chain /\ mempool' = mempool /\ checkpoint' = cp /\ process' = pr
  BY DEF Finish
<1>2. /\ IsCheckpoint(cp) /\ cp.contracts = checkpoint.contracts /\ cp.cuts = checkpoint.cuts
      /\ cp.flags = checkpoint.flags /\ cp.done = checkpoint.done
  BY RecordNow, MarkedFields
<1>. HIDE DEF cp
<1>3. CountsFit(config, chain, cp)
  BY <1>2, RecordNow DEF CountsFit
<1>4. \A st : Skips(cp, st) = Skips(checkpoint, st)
  BY <1>2 DEF Skips
<1>5. \A call : ResolvedBy(cp, call) = ResolvedBy(checkpoint, call)
  BY <1>2 DEF ResolvedBy, RecordedAt
<1>6. LinksFit(Settled, cp)
  BY <1>2, RecordNow DEF LinksFit, Wired, Recorded, RecordedAt
<1>7. StepsFit(config, Settled, cp)
  BY <1>4, <1>5, RecordNow DEF StepsFit
<1>8. MarksFit(config, cp)
  BY <1>2, <1>4, RecordNow DEF MarksFit, Recorded
<1>9. RecordFits(config, Settled, cp)
  BY <1>2, <1>6, <1>7, <1>8 DEF RecordFits
<1>10. ProcessFits(config, Settled, cp, pr)
  BY IdleFits DEF ProcessFits
<1>. HIDE DEF pr
<1>. QED  BY <1>1, <1>3, <1>9, <1>10, IdleFits, QuietStep DEF pr

\* A checkpoint that holds nothing.
LEMMA NothingRecorded ==
  ASSUME NEW c, NEW mined, IsState(mined), \A n \in Existing(c) : 1 <= mined.count[n],
         NEW S, ChainFits(c, S), NEW state
  PROVE  CountsFit(c, mined, EmptyCheckpoint(state)) /\ RecordFits(c, S, EmptyCheckpoint(state))
<1>. DEFINE cp == EmptyCheckpoint(state)
<1>1. /\ cp = [state |-> cp.state, contracts |-> cp.contracts, cuts |-> cp.cuts, done |-> cp.done, flags |-> cp.flags]
      /\ DOMAIN cp.contracts = Contracts /\ \A n \in Contracts : cp.contracts[n] = 0
      /\ cp.done = {} /\ cp.flags = {}
  BY DEF EmptyCheckpoint
<1>. HIDE DEF cp
<1>2. IsCheckpoint(cp)
  BY <1>1 DEF IsCheckpoint, Deployable
<1>3. CountsFit(c, mined, cp)
  <2>1. \A n \in Deployable : cp.contracts[n] = 0 /\ mined.count[n] \in Nat
    BY <1>1 DEF IsState, Deployable
  <2>. QED  BY <2>1 DEF CountsFit
<1>4. LinksFit(S, cp)
  <2>1. ASSUME NEW f \in S.facts, f[2] = "links", f[1][2] = cp.contracts[f[1][1]] PROVE FALSE
    <3>1. f[1][1] \in Contracts /\ f[1][2] \in 1..S.count[f[1][1]]
      BY <2>1 DEF ChainFits, Deployable
    <3>2. f[1][2] = 0
      BY <1>1, <2>1, <3>1
    <3>. QED  BY <3>1, <3>2
  <2>. QED  BY <2>1 DEF LinksFit
<1>5. StepsFit(c, S, cp)
  <2>1. \A st : st.kind = "calls" => ~Skips(cp, st)
    BY <1>1 DEF Skips
  <2>. QED  BY <2>1 DEF StepsFit
<1>6. MarksFit(c, cp)
  BY <1>1 DEF MarksFit
<1>. QED  BY <1>2, <1>3, <1>4, <1>5, <1>6 DEF RecordFits, cp

LEMMA EmptyFits ==
  ASSUME IInv, NEW state
  PROVE  CountsFit(config, chain, EmptyCheckpoint(state)) /\ RecordFits(config, Settled, EmptyCheckpoint(state))
<1>1. IsState(chain) /\ ChainFits(config, Settled) /\ \A n \in Existing(config) : 1 <= chain.count[n]
  BY DEF IInv, CountsFit
<1>. QED  BY <1>1, NothingRecorded

LEMMA TornSaveFits ==
  ASSUME IInv, TornSave
  PROVE  IInv'
<1>. DEFINE cp == EmptyCheckpoint("corrupt")
<1>1. config' = config /\ chain' = chain /\ mempool' = mempool /\ checkpoint' = cp /\ process' = Idle
  BY DEF TornSave
<1>2. CountsFit(config, chain, cp) /\ RecordFits(config, Settled, cp)
  BY EmptyFits
<1>. HIDE DEF cp
<1>3. ProcessFits(config, Settled, cp, Idle)
  BY IdleFits DEF ProcessFits
<1>. QED  BY <1>1, <1>2, <1>3, IdleFits, QuietStep

LEMMA StartFits ==
  ASSUME IInv, NEW fresh, Start(fresh)
  PROVE  IInv'
<1>. DEFINE cp == IF fresh \/ checkpoint.state # "ok" THEN EmptyCheckpoint("ok") ELSE checkpoint  i == 1
            pr == Position(cp, i)
<1>1. config' = config /\ chain' = chain /\ mempool' = mempool /\ checkpoint' = cp /\ process' = pr
  BY DEF Start
<1>2. CountsFit(config, chain, cp) /\ RecordFits(config, Settled, cp)
  BY EmptyFits, RecordNow
<1>. HIDE DEF cp
<1>3. IsProcess(pr) /\ pr.mode = "running" /\ pr.wait = "none" /\ ProcessFits(config, Settled, cp, pr)
  <2>1. config \in Configs
    BY DEF IInv
  <2>2. i \in 1..Len(steps) /\ \A k \in 1..(i - 1) : Passed(cp, steps[k])
    BY <2>1, StepsArePlanned
  <2>. HIDE DEF i
  <2>. QED  BY <2>1, <2>2, Advance
<1>. HIDE DEF pr
<1>. QED  BY <1>1, <1>2, <1>3, QuietStep

----------------------------------------------------------------------------
(* Steps that change the checkpoint                                        *)

\* A checkpoint with more cuts, more marks, more flags, another contract.
Cutting(cp, d) == [cp EXCEPT !.cuts = d]
Marking(cp, d) == [cp EXCEPT !.done = d]
Flagging(cp, d) == [cp EXCEPT !.flags = d]
Recording(cp, name, k) == [cp EXCEPT !.contracts[name] = k]

LEMMA CuttingFields ==
  ASSUME NEW cp, IsCheckpoint(cp), NEW d
  PROVE  LET next == Cutting(cp, d)
         IN  /\ IsCheckpoint(next) /\ next.contracts = cp.contracts /\ next.cuts = d
             /\ next.flags = cp.flags /\ next.done = cp.done
BY MarkedFields DEF Cutting

LEMMA MarkingFields ==
  ASSUME NEW cp, IsCheckpoint(cp), NEW d
  PROVE  LET next == Marking(cp, d)
         IN  /\ IsCheckpoint(next) /\ next.contracts = cp.contracts /\ next.cuts = cp.cuts
             /\ next.flags = cp.flags /\ next.done = d
BY MarkedFields DEF Marking

LEMMA FlaggingFields ==
  ASSUME NEW cp, IsCheckpoint(cp), NEW d
  PROVE  LET next == Flagging(cp, d)
         IN  /\ IsCheckpoint(next) /\ next.contracts = cp.contracts /\ next.cuts = cp.cuts
             /\ next.flags = d /\ next.done = cp.done
BY MarkedFields DEF Flagging

LEMMA MarkCutFits ==
  ASSUME IInv, process.mode = "running", step.kind = "cut", MarkCut,
         config' = config, chain' = chain, mempool' = mempool
  PROVE  IInv'
<1>. DEFINE d == checkpoint.cuts \cup {step.diamond}  cp == Cutting(checkpoint, d)
<1>1. checkpoint' = cp /\ process' = Position(cp, process.pc + 1)
  BY DEF MarkCut, SaveAndAdvance, Cutting
<1>2. step.diamond \in d /\ checkpoint.cuts \subseteq d
  OBVIOUS
<1>. HIDE DEF d
<1>3. /\ IsCheckpoint(cp) /\ cp.contracts = checkpoint.contracts /\ cp.cuts = d
      /\ cp.flags = checkpoint.flags /\ cp.done = checkpoint.done
  BY RecordNow, CuttingFields
<1>. HIDE DEF cp
<1>4. CountsFit(config, chain, cp)
  BY <1>3, RecordNow DEF CountsFit
<1>5. \A st : st.kind \in {"calls", "register"} => Skips(cp, st) = Skips(checkpoint, st)
  BY <1>3 DEF Skips
<1>6. \A call : ResolvedBy(cp, call) = ResolvedBy(checkpoint, call)
  BY <1>3 DEF ResolvedBy, RecordedAt
<1>7. LinksFit(Settled, cp)
  BY <1>3, RecordNow DEF LinksFit, Wired, Recorded, RecordedAt
<1>8. StepsFit(config, Settled, cp)
  BY <1>5, <1>6, RecordNow DEF StepsFit
<1>9. RegisterStep.kind = "register"
  BY DEF RegisterStep
<1>10. MarksFit(config, cp)
  <2>1. \A n \in Located(config) : Recorded(checkpoint, n) => Recorded(cp, n)
    BY <1>3 DEF Recorded
  <2>2. Skips(cp, RegisterStep) = Skips(checkpoint, RegisterStep)
    BY <1>5, <1>9
  <2>3. MarksFit(config, checkpoint)
    BY RecordNow
  <2>. QED  BY <1>3, <2>1, <2>2, <2>3 DEF MarksFit
<1>11. RecordFits(config, Settled, cp)
  BY <1>3, <1>7, <1>8, <1>10 DEF RecordFits
<1>12. Grown(checkpoint, cp)
  BY <1>2, <1>3 DEF Grown
<1>13. Passed(cp, step)
  BY <1>2, <1>3 DEF Passed, Skips
<1>. QED  BY <1>1, <1>4, <1>11, <1>12, <1>13, AdvanceStep

LEMMA ProbeCutFits ==
  ASSUME IInv, ProbeCut
  PROVE  IInv'
<1>1. /\ process.mode = "running" /\ step.kind = "cut" /\ process.sub = 0
      /\ config' = config /\ chain' = chain /\ mempool' = mempool
  BY DEF ProbeCut, Due
<1>2. CASE AnswersProbe(step.diamond)
  <2>1. MarkCut
    BY <1>2 DEF ProbeCut
  <2>. QED  BY <1>1, <2>1, MarkCutFits
<1>3. CASE ~AnswersProbe(step.diamond)
  <2>. DEFINE pr == Moved(process, 1)
  <2>1. process' = pr /\ checkpoint' = checkpoint
    BY <1>3 DEF ProbeCut, Moved
  <2>2. IsProcess(pr) /\ pr.mode = process.mode /\ pr.pc = process.pc /\ pr.sub = 1 /\ pr.wait = process.wait
    BY RecordNow, ProcessMoved
  <2>. HIDE DEF pr
  <2>3. StepUnderWay(config, Settled, checkpoint, step, process)
    BY <1>1, Running
  <2>4. StepUnderWay(config, Settled, checkpoint, step, pr)
    BY <1>1, <2>2, <2>3 DEF StepUnderWay
  <2>5. ProcessFits(config, Settled, checkpoint, pr)
    BY <1>1, <2>2, <2>4, RecordNow, SameStep
  <2>6. pr.wait = "ok" => mempool = <<>>
    BY <2>2 DEF IInv
  <2>. QED  BY <1>1, <2>1, <2>2, <2>5, <2>6, ProcessStep
<1>. QED  BY <1>2, <1>3

LEMMA ChunkMinedFits ==
  ASSUME IInv, ChunkMined
  PROVE  IInv'
<1>1. /\ process.mode = "running" /\ step.kind = "cut" /\ process.wait = "ok"
      /\ config' = config /\ chain' = chain /\ mempool' = mempool
  BY DEF ChunkMined, Due
<1>2. CASE ~(process.sub < Chunks)
  <2>1. MarkCut
    BY <1>2 DEF ChunkMined
  <2>. QED  BY <1>1, <2>1, MarkCutFits
<1>3. CASE process.sub < Chunks
  <2>. DEFINE sub == process.sub + 1  pr == MovedWaiting(process, sub, "none")
  <2>1. process' = pr /\ checkpoint' = checkpoint
    BY <1>3 DEF ChunkMined, MovedWaiting
  <2>2. sub \in Nat
    BY RecordNow DEF IsProcess
  <2>. HIDE DEF sub
  <2>3. IsProcess(pr) /\ pr.mode = process.mode /\ pr.pc = process.pc /\ pr.sub = sub /\ pr.wait = "none"
    BY <2>2, RecordNow, ProcessMovedWaits
  <2>. HIDE DEF pr
  <2>4. StepUnderWay(config, Settled, checkpoint, step, process)
    BY <1>1, Running
  <2>5. StepUnderWay(config, Settled, checkpoint, step, pr)
    BY <1>1, <2>3, <2>4 DEF StepUnderWay
  <2>6. ProcessFits(config, Settled, checkpoint, pr)
    BY <1>1, <2>3, <2>5, RecordNow, SameStep
  <2>. QED  BY <1>1, <2>1, <2>3, <2>6, ProcessStep
<1>. QED  BY <1>2, <1>3

\* Keys that only a step of calls has.
LEMMA KeyOfCalls ==
  ASSUME NEW c, NEW st, NEW before, StepFits(c, st, before), st.kind \in {"calls", "register", "views"}
  PROVE  \A key \in {<<"approve", "">>, <<"acceptOwnership", "">>} : st.key = key => st.kind = "calls"
<1>1. CASE st.kind = "views"
  <2>1. st = ViewsStep
    BY <1>1 DEF StepFits
  <2>2. st.key = <<"verifyMuonViews", "">>
    BY <2>1 DEF ViewsStep
  <2>3. <<"verifyMuonViews", "">> \notin {<<"approve", "">>, <<"acceptOwnership", "">>}
    OBVIOUS
  <2>. QED  BY <2>2, <2>3
<1>2. CASE st.kind = "register"
  <2>1. st = RegisterStep
    BY <1>2 DEF StepFits
  <2>2. st.key = <<"register", "">>
    BY <2>1 DEF RegisterStep
  <2>3. <<"register", "">> \notin {<<"approve", "">>, <<"acceptOwnership", "">>}
    OBVIOUS
  <2>. QED  BY <2>2, <2>3
<1>. QED  BY <1>1, <1>2

\* A step marked done: its calls, if it has any, were all sent.
LEMMA MarkDoneFits ==
  ASSUME IInv, process.mode = "running", step.kind \in {"calls", "register", "views"}, MarkDone,
         config' = config, chain' = chain, mempool' = mempool,
         step.kind = "calls" => \A j \in DOMAIN step.calls : TookFor(Settled.facts, ResolvedBy(checkpoint, step.calls[j]))
  PROVE  IInv'
<1>. DEFINE d == checkpoint.done \cup {step.key}  cp == Marking(checkpoint, d)
<1>1. checkpoint' = cp /\ process' = Position(cp, process.pc + 1)
  BY DEF MarkDone, SaveAndAdvance, Marking
<1>2. \A key : key \in d <=> key = step.key \/ key \in checkpoint.done
  OBVIOUS
<1>. HIDE DEF d
<1>3. /\ IsCheckpoint(cp) /\ cp.contracts = checkpoint.contracts /\ cp.cuts = checkpoint.cuts
      /\ cp.flags = checkpoint.flags /\ cp.done = d
  BY RecordNow, MarkingFields
<1>. HIDE DEF cp
<1>4. CountsFit(config, chain, cp)
  BY <1>3, RecordNow DEF CountsFit
<1>5. Grown(checkpoint, cp)
  BY <1>3, <1>2 DEF Grown
<1>6. \A call : ResolvedBy(cp, call) = ResolvedBy(checkpoint, call)
  BY <1>3 DEF ResolvedBy, RecordedAt
<1>7. LinksFit(Settled, cp)
  BY <1>3, RecordNow DEF LinksFit, Wired, Recorded, RecordedAt
<1>8. Passed(cp, step)
  BY <1>3, <1>2 DEF Passed, Skips
<1>9. /\ steps = Plan(config) /\ DOMAIN steps = 1..Len(steps) /\ process.pc \in 1..Len(steps) /\ step = steps[process.pc]
      /\ \A k \in 1..Len(steps) : StepFits(config, steps[k], Before(steps, k))
      /\ \A k \in 1..(process.pc - 1) : Passed(checkpoint, steps[k])
      /\ \A n \in Located(config) : Recorded(checkpoint, n)
  BY Running
<1>10. StepFits(config, step, Before(steps, process.pc))
  BY <1>9
<1>11. ASSUME NEW st \in Before(steps, process.pc) PROVE Passed(checkpoint, st)
  <2>1. process.pc \in Nat
    BY <1>9
  <2>. QED  BY <1>9, <2>1, PassedBefore
<1>12. StepsFit(config, Settled, cp)
  <2>1. SUFFICES ASSUME NEW i \in 1..Len(steps), steps[i].kind = "calls", Skips(cp, steps[i]),
                        NEW j \in DOMAIN steps[i].calls
                 PROVE  TookFor(Settled.facts, ResolvedBy(checkpoint, steps[i].calls[j]))
    BY <1>6, <1>9 DEF StepsFit
  <2>2. CASE Skips(checkpoint, steps[i])
    BY <1>9, <2>1, <2>2, RecordNow DEF StepsFit
  <2>3. CASE ~Skips(checkpoint, steps[i])
    <3>1. steps[i].key = step.key
      BY <1>3, <1>2, <2>1, <2>3 DEF Skips
    <3>2. StepFits(config, steps[i], Before(steps, i))
      BY <1>9
    <3>3. steps[i].calls = CallsOf(config, step.key) /\ step.key \notin {ViewsStep.key, RegisterStep.key}
      BY <2>1, <3>1, <3>2 DEF StepFits
    <3>4. step.kind = "calls"
      BY <1>10, <3>3 DEF StepFits
    <3>5. step.calls = CallsOf(config, step.key)
      BY <1>10, <3>4 DEF StepFits
    <3>. QED  BY <3>3, <3>4, <3>5
  <2>. QED  BY <2>2, <2>3
<1>13. MarksFit(config, cp)
  <2>0. \A key \in {<<"approve", "">>, <<"acceptOwnership", "">>} : step.key = key => step.kind = "calls"
    BY <1>10, KeyOfCalls
  <2>1. \A n \in Located(config) : Recorded(cp, n)
    BY <1>3, <1>9 DEF Recorded
  <2>2. cp.flags \subseteq SectionFlags /\ ("dummyAffiliate" \in cp.flags => \E i \in DOMAIN Plan(config) : Plan(config)[i] = ApproveStep)
    BY <1>3, RecordNow DEF MarksFit
  <2>3. RegisterStep.kind = "register" /\ RegisterStep.key = <<"register", "">> /\ RegisterStep.flag = "dummyAffiliate"
    BY DEF RegisterStep
  <2>4. Skips(checkpoint, RegisterStep) => Skips(cp, RegisterStep)
    BY <1>3, <1>2, <2>3 DEF Skips
  <2>5. <<"approve", "">> \in cp.done => Skips(cp, RegisterStep)
    <3>1. CASE <<"approve", "">> \in checkpoint.done
      BY <2>4, <3>1, RecordNow DEF MarksFit
    <3>2. CASE step.key = <<"approve", "">>
      <4>1. step.kind = "calls"
        BY <2>0, <3>2
      <4>2. RegisterStep \in Before(steps, process.pc)
        BY <1>10, <3>2, <4>1 DEF StepFits
      <4>3. Skips(checkpoint, RegisterStep)
        BY <1>11, <2>3, <4>2 DEF Passed
      <4>. QED  BY <2>4, <4>3
    <3>. QED  BY <1>3, <1>2, <3>1, <3>2
  <2>6. <<"acceptOwnership", "">> \in cp.done => <<"transferOwnership", "">> \in cp.done
    <3>1. CASE <<"acceptOwnership", "">> \in checkpoint.done
      BY <1>3, <1>2, <3>1, RecordNow DEF MarksFit
    <3>2. CASE step.key = <<"acceptOwnership", "">>
      <4>1. step.kind = "calls"
        BY <2>0, <3>2
      <4>2. TransferStep(config) \in Before(steps, process.pc)
        BY <1>10, <3>2, <4>1 DEF StepFits
      <4>3. /\ TransferStep(config).kind = "calls" /\ TransferStep(config).flag = ""
            /\ TransferStep(config).key = <<"transferOwnership", "">>
        BY DEF TransferStep, Setup
      <4>4. Skips(checkpoint, TransferStep(config))
        BY <1>11, <4>2, <4>3 DEF Passed
      <4>5. "" \notin checkpoint.flags
        BY RecordNow DEF MarksFit, SectionFlags
      <4>6. <<"transferOwnership", "">> \in checkpoint.done
        <5>. DEFINE st == TransferStep(config)
        <5>1. Skips(checkpoint, st) => st.key \in checkpoint.done \/ st.flag \in checkpoint.flags
          BY <4>3 DEF Skips
        <5>. HIDE DEF st
        <5>. QED  BY <4>3, <4>4, <4>5, <5>1 DEF st
      <4>. QED  BY <1>3, <1>2, <4>6
    <3>. QED  BY <1>3, <1>2, <3>1, <3>2
  <2>. QED  BY <2>1, <2>2, <2>5, <2>6 DEF MarksFit
<1>14. RecordFits(config, Settled, cp)
  BY <1>3, <1>7, <1>12, <1>13 DEF RecordFits
<1>. QED  BY <1>1, <1>4, <1>5, <1>8, <1>14, AdvanceStep

LEMMA SequenceDomain ==
  ASSUME NEW s, IsSequence(s)
  PROVE  Len(s) \in Nat /\ DOMAIN s = 1..Len(s)
BY DEF IsSequence

LEMMA MarkCallsFits ==
  ASSUME IInv, MarkCalls
  PROVE  IInv'
<1>1. /\ process.mode = "running" /\ step.kind = "calls" /\ process.sub = Len(step.calls) /\ MarkDone
      /\ config' = config /\ chain' = chain /\ mempool' = mempool
  BY DEF MarkCalls, Due
<1>2. /\ StepUnderWay(config, Settled, checkpoint, step, process)
      /\ StepFits(config, step, Before(steps, process.pc))
  BY <1>1, Running
<1>3. DOMAIN step.calls = 1..process.sub
  <2>1. IsSequence(step.calls)
    BY <1>1, <1>2 DEF StepFits
  <2>. QED  BY <1>1, <2>1, SequenceDomain
<1>4. \A j \in DOMAIN step.calls : TookFor(Settled.facts, ResolvedBy(checkpoint, step.calls[j]))
  BY <1>1, <1>2, <1>3 DEF StepUnderWay
<1>. QED  BY <1>1, <1>4, MarkDoneFits

LEMMA MarkRegisteredFits ==
  ASSUME IInv, MarkRegistered
  PROVE  IInv'
<1>1. /\ process.mode = "running" /\ step.kind = "register" /\ MarkDone
      /\ config' = config /\ chain' = chain /\ mempool' = mempool
  BY DEF MarkRegistered, Due
<1>. QED  BY <1>1, MarkDoneFits

LEMMA CheckViewsFits ==
  ASSUME IInv, CheckViews
  PROVE  IInv'
<1>1. /\ process.mode = "running" /\ step.kind = "views" /\ MarkDone
      /\ config' = config /\ chain' = chain /\ mempool' = mempool
  BY DEF CheckViews, Due
<1>. QED  BY <1>1, MarkDoneFits

\* A section is flagged: every step of it was taken.
LEMMA SetFlagFits ==
  ASSUME IInv, SetFlag
  PROVE  IInv'
<1>. DEFINE d == checkpoint.flags \cup {step.flag}  cp == Flagging(checkpoint, d)  pc == process.pc
<1>1. /\ process.mode = "running" /\ step.kind = "flag" /\ checkpoint' = cp /\ process' = Position(cp, process.pc + 1)
      /\ config' = config /\ chain' = chain /\ mempool' = mempool
  BY DEF SetFlag, Due, SaveAndAdvance, Flagging
<1>2. \A flag : flag \in d <=> flag = step.flag \/ flag \in checkpoint.flags
  OBVIOUS
<1>. HIDE DEF d
<1>3. /\ IsCheckpoint(cp) /\ cp.contracts = checkpoint.contracts /\ cp.cuts = checkpoint.cuts
      /\ cp.flags = d /\ cp.done = checkpoint.done
  BY RecordNow, FlaggingFields
<1>. HIDE DEF cp
<1>4. /\ steps = Plan(config) /\ Len(steps) \in Nat /\ DOMAIN steps = 1..Len(steps) /\ pc \in 1..Len(steps)
      /\ step = steps[pc]
      /\ \A k \in 1..Len(steps) : StepFits(config, steps[k], Before(steps, k))
      /\ \A k \in 1..(pc - 1) : Passed(checkpoint, steps[k])
      /\ \A n \in Located(config) : Recorded(checkpoint, n)
  BY <1>1, Running
<1>5. PICK f \in SectionFlags : step = Flag(f) /\ (f = "dummyAffiliate" => ApproveStep \in Before(steps, pc))
  <2>1. StepFits(config, step, Before(steps, pc))
    BY <1>4
  <2>. QED  BY <1>1, <2>1 DEF StepFits
<1>6. step.flag = f
  BY <1>5 DEF Flag
<1>7. CountsFit(config, chain, cp)
  BY <1>3, RecordNow DEF CountsFit
<1>8. Grown(checkpoint, cp)
  BY <1>2, <1>3 DEF Grown
<1>9. \A call : ResolvedBy(cp, call) = ResolvedBy(checkpoint, call)
  BY <1>3 DEF ResolvedBy, RecordedAt
<1>10. LinksFit(Settled, cp)
  BY <1>3, RecordNow DEF LinksFit, Wired, Recorded, RecordedAt
<1>11. Passed(cp, step)
  BY <1>1, <1>2, <1>3 DEF Passed, Skips
<1>12. StepsFit(config, Settled, cp)
  <2>1. SUFFICES ASSUME NEW i \in 1..Len(steps), steps[i].kind = "calls", Skips(cp, steps[i])
                 PROVE  Skips(checkpoint, steps[i])
    BY <1>4, <1>9, RecordNow DEF StepsFit
  <2>2. SUFFICES ASSUME ~Skips(checkpoint, steps[i]) PROVE FALSE
    OBVIOUS
  <2>3. steps[i].flag = f
    BY <1>2, <1>3, <1>6, <2>1, <2>2 DEF Skips
  <2>4. step \notin Before(steps, i)
    <3>1. StepFits(config, steps[i], Before(steps, i))
      BY <1>4
    <3>. QED  BY <1>5, <2>1, <2>3, <3>1 DEF StepFits
  <2>5. ~(pc \in 1..(i - 1))
    BY <1>4, <2>4 DEF Before
  <2>6. i # pc
    BY <1>1, <1>4, <2>1
  <2>7. i \in 1..(pc - 1)
    <3>. HIDE DEF pc
    <3>. QED  BY <1>4, <2>5, <2>6
  <2>8. Passed(checkpoint, steps[i])
    BY <1>4, <2>7
  <2>. QED  BY <2>1, <2>2, <2>8 DEF Passed
<1>13. MarksFit(config, cp)
  <2>1. \A n \in Located(config) : Recorded(cp, n)
    BY <1>3, <1>4 DEF Recorded
  <2>2. MarksFit(config, checkpoint)
    BY RecordNow
  <2>3. cp.flags \subseteq SectionFlags
    BY <1>2, <1>3, <1>6, <2>2 DEF MarksFit
  <2>4. Skips(checkpoint, RegisterStep) => Skips(cp, RegisterStep)
    <3>1. RegisterStep.kind = "register"
      BY DEF RegisterStep
    <3>. QED  BY <1>2, <1>3, <3>1 DEF Skips
  <2>5. "dummyAffiliate" \in cp.flags => \E i \in DOMAIN Plan(config) : Plan(config)[i] = ApproveStep
    <3>1. CASE "dummyAffiliate" \in checkpoint.flags
      BY <2>2, <3>1 DEF MarksFit
    <3>2. CASE f = "dummyAffiliate"
      <4>1. PICK k \in 1..(pc - 1) : ApproveStep = steps[k]
        BY <1>5, <3>2 DEF Before
      <4>2. k \in DOMAIN steps
        BY <1>4
      <4>. QED  BY <1>4, <4>1, <4>2
    <3>. QED  BY <1>2, <1>3, <1>6, <3>1, <3>2
  <2>. QED  BY <1>3, <2>1, <2>2, <2>3, <2>4, <2>5 DEF MarksFit
<1>14. RecordFits(config, Settled, cp)
  BY <1>3, <1>10, <1>12, <1>13 DEF RecordFits
<1>15. step.kind # "finish"
  BY <1>1
<1>. QED  BY <1>1, <1>7, <1>8, <1>11, <1>14, <1>15, AdvanceStep

LEMMA RecordingFields ==
  ASSUME NEW cp, IsCheckpoint(cp), NEW name \in Contracts, NEW k \in Nat
  PROVE  LET next == Recording(cp, name, k)
         IN  /\ IsCheckpoint(next) /\ next.cuts = cp.cuts /\ next.done = cp.done /\ next.flags = cp.flags
             /\ next.contracts[name] = k /\ \A n \in Contracts : n # name => next.contracts[n] = cp.contracts[n]
BY RecordedFields DEF Recording

\* A contract is recorded that was not, with an instance that exists and whose
\* links the checkpoint agrees with.
LEMMA RecordingFits ==
  ASSUME IInv, NEW name \in Deployable, checkpoint.contracts[name] = 0, NEW k \in Nat, k # 0, k <= chain.count[name],
         \A f \in Settled.facts : f[2] = "links" /\ f[1] = At(name, k) => Wired(checkpoint, f)
  PROVE  LET cp == Recording(checkpoint, name, k)
         IN  /\ CountsFit(config, chain, cp) /\ RecordFits(config, Settled, cp) /\ Grown(checkpoint, cp)
             /\ cp.contracts[name] = k
<1>. DEFINE cp == Recording(checkpoint, name, k)
<1>1. name \in Contracts /\ name # "accountManager"
  BY DEF Deployable
<1>2. /\ IsCheckpoint(cp) /\ cp.cuts = checkpoint.cuts /\ cp.done = checkpoint.done /\ cp.flags = checkpoint.flags
      /\ cp.contracts[name] = k /\ \A n \in Contracts : n # name => cp.contracts[n] = checkpoint.contracts[n]
  BY <1>1, RecordNow, RecordingFields
<1>. HIDE DEF cp
<1>3. CountsFit(config, chain, cp)
  <2>1. CountsFit(config, chain, checkpoint)
    BY RecordNow
  <2>2. \A n \in Deployable : cp.contracts[n] <= chain.count[n]
    <3>. TAKE n \in Deployable
    <3>1. CASE n = name
      BY <1>2, <3>1
    <3>2. CASE n # name
      BY <1>2, <2>1, <3>2 DEF CountsFit, Deployable
    <3>. QED  BY <3>1, <3>2
  <2>. QED  BY <2>1, <2>2 DEF CountsFit
<1>4. \A n : Recorded(checkpoint, n) => n # name /\ Recorded(cp, n) /\ cp.contracts[n] = checkpoint.contracts[n]
  BY <1>2 DEF Recorded, Deployable
<1>5. Grown(checkpoint, cp)
  BY <1>2, <1>4 DEF Grown, Recorded
<1>6. LinksFit(Settled, cp)
  <2>1. \A f : Wired(checkpoint, f) => Wired(cp, f)
    BY <1>4 DEF Wired, RecordedAt
  <2>2. SUFFICES ASSUME NEW f \in Settled.facts, f[2] = "links", f[1][2] = cp.contracts[f[1][1]]
                 PROVE  Wired(checkpoint, f)
    BY <2>1 DEF LinksFit
  <2>3. f[1] = At(f[1][1], f[1][2]) /\ f[1][1] \in Contracts
    BY <2>2 DEF IInv, ChainFits, Deployable
  <2>4. CASE f[1][1] = name
    <3>1. f[1] = At(name, k)
      BY <1>2, <2>2, <2>3, <2>4
    <3>. QED  BY <2>2, <3>1
  <2>5. CASE f[1][1] # name
    <3>1. f[1][2] = checkpoint.contracts[f[1][1]]
      BY <1>2, <2>2, <2>3, <2>5
    <3>. QED  BY <2>2, <3>1, RecordNow DEF LinksFit
  <2>. QED  BY <2>4, <2>5
<1>7. \A st : st.kind \in {"calls", "register"} => Skips(cp, st) = Skips(checkpoint, st)
  BY <1>2 DEF Skips
<1>8. MarksFit(config, checkpoint)
  BY RecordNow
<1>9. StepsFit(config, Settled, cp)
  <2>1. config \in Configs
    BY DEF IInv
  <2>2. /\ steps = Plan(config) /\ DOMAIN steps = 1..Len(steps)
        /\ \A i \in 1..Len(steps) : StepFits(config, steps[i], Before(steps, i))
    BY <2>1, StepsArePlanned
  <2>3. SUFFICES ASSUME NEW i \in 1..Len(steps), steps[i].kind = "calls", Skips(cp, steps[i]),
                        NEW j \in DOMAIN steps[i].calls
                 PROVE  TookFor(Settled.facts, ResolvedBy(cp, steps[i].calls[j]))
    BY <2>2 DEF StepsFit
  <2>4. Skips(checkpoint, steps[i])
    BY <1>7, <2>3
  <2>5. \A n \in Located(config) : Recorded(checkpoint, n)
    <3>1. checkpoint.done # {} \/ checkpoint.flags # {}
      BY <2>3, <2>4 DEF Skips
    <3>. QED  BY <1>8, <3>1 DEF MarksFit
  <2>6. \A n \in Located(config) : cp.contracts[n] = checkpoint.contracts[n]
    BY <1>4, <2>5
  <2>7. cp.contracts["accountManager"] = checkpoint.contracts["accountManager"]
    BY <1>1, <1>2, LocatedNames
  <2>. DEFINE call == steps[i].calls[j]  st == steps[i]  before == Before(steps, i)
  <2>8. CallFits(config, st, call, before)
    <3>1. StepFits(config, steps[i], Before(steps, i))
      BY <2>2
    <3>. QED  BY <2>3, <3>1 DEF StepFits
  <2>9. TookFor(Settled.facts, ResolvedBy(checkpoint, call))
    BY <2>2, <2>3, <2>4, RecordNow DEF StepsFit
  <2>. HIDE DEF call, st, before
  <2>10. ResolvedBy(cp, call) = ResolvedBy(checkpoint, call)
    BY <2>6, <2>7, <2>8, ResolvedAlike
  <2>. QED  BY <2>9, <2>10 DEF call
<1>10. MarksFit(config, cp)
  <2>1. Skips(cp, RegisterStep) = Skips(checkpoint, RegisterStep)
    <3>1. RegisterStep.kind = "register"
      BY DEF RegisterStep
    <3>. QED  BY <1>7, <3>1
  <2>2. (\A n \in Located(config) : Recorded(checkpoint, n)) => (\A n \in Located(config) : Recorded(cp, n))
    BY <1>4
  <2>. QED  BY <1>2, <1>8, <2>1, <2>2 DEF MarksFit
<1>11. RecordFits(config, Settled, cp)
  BY <1>2, <1>6, <1>9, <1>10 DEF RecordFits
<1>. QED  BY <1>2, <1>3, <1>5, <1>11 DEF cp

LEMMA RecordStepFits ==
  ASSUME IInv, RecordStep
  PROVE  IInv'
<1>. DEFINE name == step.guard  k == 1  cp == Recording(checkpoint, name, k)
<1>1. /\ process.mode = "running" /\ step.kind = "record" /\ checkpoint' = cp /\ process' = Position(cp, process.pc + 1)
      /\ config' = config /\ chain' = chain /\ mempool' = mempool
  BY DEF RecordStep, Due, SaveAndAdvance, Record, Recording
<1>2. StepUnderWay(config, Settled, checkpoint, step, process) /\ StepFits(config, step, Before(steps, process.pc))
  BY <1>1, Running
<1>3. checkpoint.contracts[name] = 0
  BY <1>1, <1>2 DEF StepUnderWay, Skips
<1>4. name \in Existing(config)
  BY <1>1, <1>2 DEF StepFits
<1>5. name \in Nameable
  BY <1>4 DEF Existing, Nameable
<1>6. name \in Deployable
  <2>1. Nameable \subseteq FixedContracts \ {"accountManager"}
    BY DEF Nameable, FixedContracts
  <2>. QED  BY <1>5, <2>1, DeployableNames
<1>7. k \in Nat /\ k # 0
  OBVIOUS
<1>8. k <= chain.count[name]
  BY <1>4, RecordNow DEF CountsFit
<1>9. \A f \in Settled.facts : f[2] = "links" /\ f[1] = At(name, k) => Wired(checkpoint, f)
  <2>1. \A f \in Settled.facts : f[2] = "links" => f[1][1] \notin Nameable
    BY DEF IInv, ChainFits
  <2>2. At(name, k)[1] = name
    BY DEF At
  <2>. QED  BY <1>5, <2>1, <2>2
<1>. HIDE DEF name, k
<1>10. /\ CountsFit(config, chain, cp) /\ RecordFits(config, Settled, cp) /\ Grown(checkpoint, cp)
       /\ cp.contracts[name] = k
  BY <1>3, <1>6, <1>7, <1>8, <1>9, RecordingFits
<1>. HIDE DEF cp
<1>11. Passed(cp, step)
  BY <1>1, <1>7, <1>10 DEF Passed, Skips, name
<1>. QED  BY <1>1, <1>10, <1>11, AdvanceStep

LEMMA StillDue ==
  ASSUME NEW c, NEW S, NEW cp, NEW st, NEW pr, StepUnderWay(c, S, cp, st, pr), st.kind # "deploy" \/ pr.sub # 2
  PROVE  ~Skips(cp, st)
BY DEF StepUnderWay

LEMMA DeployedUnderWay ==
  ASSUME NEW c, NEW S, NEW cp, NEW st, st.kind = "deploy", Passed(cp, st), NEW pr, pr.sub = 2, pr.wait = "none"
  PROVE  StepUnderWay(c, S, cp, st, pr)
BY DEF StepUnderWay

LEMMA SaveContractFits ==
  ASSUME IInv, SaveContract
  PROVE  IInv'
<1>0. process.sub # 2
  <2>1. process.sub = 1
    BY DEF SaveContract
  <2>2. 1 # 2
    OBVIOUS
  <2>. QED  BY <2>1, <2>2
<1>. DEFINE name == step.name  k == chain.count[step.name]
            cp == IF step.guard = name THEN Recording(checkpoint, name, k) ELSE checkpoint
            i == process.pc + 1  pr == MovedWaiting(process, 2, "none")
<1>1. /\ process.mode = "running" /\ step.kind = "deploy" /\ process.sub = 1 /\ process.wait = "ok"
      /\ config' = config /\ chain' = chain /\ mempool' = mempool /\ checkpoint' = cp
      /\ process' = IF step.log = "" THEN Position(cp, i) ELSE pr
  BY DEF SaveContract, Due, SaveAndAdvance, Record, Recording, MovedWaiting
<1>2. StepUnderWay(config, Settled, checkpoint, step, process) /\ StepFits(config, step, Before(steps, process.pc))
  BY <1>1, Running
<1>3. Settled = chain
  <2>1. mempool = <<>>
    BY <1>1 DEF IInv
  <2>. QED  BY <2>1, ReplayNothing DEF Settled
<1>4. name \in Deployable /\ (step.guard = name \/ step.name # step.guard)
  BY <1>1, <1>2 DEF StepFits
<1>5. k \in Nat /\ k # 0
  <2>1. chain.count[name] \in Nat
    BY <1>4 DEF IInv, IsState, Deployable
  <2>. QED  BY <1>1, <1>2, <1>3, <2>1 DEF StepUnderWay
<1>6. k <= chain.count[name]
  BY <1>5
<1>7. \A f \in Settled.facts : f[2] = "links" /\ f[1] = At(name, k) => Wired(checkpoint, f)
  BY <1>1, <1>2, <1>3 DEF StepUnderWay
<1>8. step.guard = name => checkpoint.contracts[name] = 0
  <2>1. ~Skips(checkpoint, step) /\ step.kind = "deploy"
    BY <1>0, <1>1, <1>2, StillDue
  <2>. QED  BY <2>1 DEF Skips
<1>9. /\ CountsFit(config, chain, cp) /\ RecordFits(config, Settled, cp) /\ Grown(checkpoint, cp)
      /\ Passed(cp, step)
  <2>. HIDE DEF k
  <2>1. CASE step.guard = name
    <3>. DEFINE next == Recording(checkpoint, name, k)
    <3>1. cp = next
      BY <2>1
    <3>. HIDE DEF cp, name
    <3>2. /\ CountsFit(config, chain, next) /\ RecordFits(config, Settled, next) /\ Grown(checkpoint, next)
          /\ next.contracts[name] = k
      BY <1>4, <1>5, <1>6, <1>7, <1>8, <2>1, RecordingFits
    <3>. HIDE DEF next
    <3>3. Passed(next, step)
      BY <1>1, <1>5, <2>1, <3>2 DEF Passed, Skips
    <3>. QED  BY <3>1, <3>2, <3>3
  <2>2. CASE step.guard # name
    <3>1. cp = checkpoint
      BY <2>2
    <3>2. Passed(checkpoint, step)
      BY <1>1, <2>2 DEF Passed
    <3>. QED  BY <3>1, <3>2, RecordNow
  <2>. QED  BY <2>1, <2>2
<1>. HIDE DEF cp, name, k
<1>10. CASE step.log = ""
  <2>1. process' = Position(cp, process.pc + 1)
    BY <1>1, <1>10
  <2>. QED  BY <1>1, <1>9, <2>1, AdvanceStep
<1>11. CASE step.log # ""
  <2>1. process' = pr
    BY <1>1, <1>11
  <2>2. IsProcess(pr) /\ pr.mode = process.mode /\ pr.pc = process.pc /\ pr.sub = 2 /\ pr.wait = "none"
    BY RecordNow, ProcessMovedWaits
  <2>. HIDE DEF pr
  <2>3. StepUnderWay(config, Settled, cp, step, pr)
    BY <1>1, <1>9, <2>2, DeployedUnderWay
  <2>4. ProcessFits(config, Settled, cp, pr)
    BY <1>1, <1>9, <2>2, <2>3, SameStep
  <2>. QED  BY <1>1, <1>9, <2>1, <2>2, <2>4, QuietStep
<1>. QED  BY <1>10, <1>11

LEMMA PredictingFields ==
  ASSUME NEW cp, IsCheckpoint(cp), NEW k
  PROVE  LET next == Recording(cp, "accountManager", k)
         IN  /\ IsCheckpoint(next) /\ next.cuts = cp.cuts /\ next.done = cp.done /\ next.flags = cp.flags
             /\ \A n \in Deployable : next.contracts[n] = cp.contracts[n]
<1>. DEFINE next == Recording(cp, "accountManager", k)  C == [cp.contracts EXCEPT !["accountManager"] = k]
<1>1. cp = [state |-> cp.state, contracts |-> cp.contracts, cuts |-> cp.cuts, done |-> cp.done, flags |-> cp.flags]
  BY DEF IsCheckpoint
<1>2. next = [state |-> cp.state, contracts |-> C, cuts |-> cp.cuts, done |-> cp.done, flags |-> cp.flags]
  BY <1>1 DEF Recording
<1>3. DOMAIN C = Contracts /\ \A n \in Deployable : C[n] = cp.contracts[n]
  BY DEF IsCheckpoint, Deployable
<1>4. \A n \in Deployable : C[n] \in Nat
  BY <1>3 DEF IsCheckpoint
<1>. HIDE DEF C, next
<1>. QED  BY <1>2, <1>3, <1>4 DEF IsCheckpoint, next

LEMMA ApproveFlag ==
  ApproveStep.flag = "dummyAffiliate" /\ ApproveStep.kind = "calls" /\ ApproveStep.key = <<"approve", "">>
BY DEF ApproveStep, Setup

\* The address an affiliate will have, saved before its registration is marked:
\* no step done so far speaks of it.
LEMMA SavePredictionFits ==
  ASSUME IInv, SavePrediction
  PROVE  IInv'
<1>. DEFINE k == process.held  cp == Recording(checkpoint, "accountManager", k)  pr == Moved(process, 2)
<1>1. /\ process.mode = "running" /\ step.kind = "register" /\ checkpoint' = cp /\ process' = pr
      /\ config' = config /\ chain' = chain /\ mempool' = mempool
  BY DEF SavePrediction, Due, Record, Recording, Moved
<1>. HIDE DEF k
<1>2. /\ IsCheckpoint(cp) /\ cp.cuts = checkpoint.cuts /\ cp.done = checkpoint.done /\ cp.flags = checkpoint.flags
      /\ \A n \in Deployable : cp.contracts[n] = checkpoint.contracts[n]
  BY RecordNow, PredictingFields
<1>3. IsProcess(pr) /\ pr.mode = process.mode /\ pr.pc = process.pc /\ pr.sub = 2 /\ pr.wait = process.wait
  BY RecordNow, ProcessMoved
<1>. HIDE DEF cp, pr
<1>4. StepUnderWay(config, Settled, checkpoint, step, process) /\ StepFits(config, step, Before(steps, process.pc))
  BY <1>1, Running
<1>5. ~Skips(checkpoint, step) /\ step = RegisterStep
  BY <1>1, <1>4, StillDue DEF StepFits
<1>6. \A st : st.kind \in {"calls", "register"} => Skips(cp, st) = Skips(checkpoint, st)
  BY <1>2 DEF Skips
<1>7. CountsFit(config, chain, cp)
  BY <1>2, RecordNow DEF CountsFit
<1>8. \A n : Recorded(checkpoint, n) => Recorded(cp, n)
  BY <1>2 DEF Recorded
<1>9. Grown(checkpoint, cp)
  BY <1>2 DEF Grown
<1>10. LinksFit(Settled, cp)
  <2>1. \A f : Wired(checkpoint, f) => Wired(cp, f)
    BY <1>2, <1>8 DEF Wired, RecordedAt, Recorded
  <2>2. SUFFICES ASSUME NEW f \in Settled.facts, f[2] = "links", f[1][2] = cp.contracts[f[1][1]]
                 PROVE  Wired(checkpoint, f)
    BY <2>1 DEF LinksFit
  <2>3. f[1][1] \in Deployable
    BY <2>2 DEF IInv, ChainFits
  <2>. QED  BY <1>2, <2>2, <2>3, RecordNow DEF LinksFit
<1>11. MarksFit(config, checkpoint)
  BY RecordNow
<1>12. RegisterStep.kind = "register" /\ RegisterStep.flag = "dummyAffiliate"
  BY DEF RegisterStep
<1>13. MarksFit(config, cp)
  <2>1. Skips(cp, RegisterStep) = Skips(checkpoint, RegisterStep)
    BY <1>6, <1>12
  <2>2. (\A n \in Located(config) : Recorded(checkpoint, n)) => (\A n \in Located(config) : Recorded(cp, n))
    BY <1>8
  <2>. QED  BY <1>2, <1>11, <2>1, <2>2 DEF MarksFit
<1>14. StepsFit(config, Settled, cp)
  <2>1. config \in Configs
    BY DEF IInv
  <2>2. /\ steps = Plan(config) /\ DOMAIN steps = 1..Len(steps)
        /\ \A i \in 1..Len(steps) : StepFits(config, steps[i], Before(steps, i))
    BY <2>1, StepsArePlanned
  <2>3. SUFFICES ASSUME NEW i \in 1..Len(steps), steps[i].kind = "calls", Skips(cp, steps[i]),
                        NEW j \in DOMAIN steps[i].calls
                 PROVE  TookFor(Settled.facts, ResolvedBy(cp, steps[i].calls[j]))
    BY <2>2 DEF StepsFit
  <2>4. Skips(checkpoint, steps[i])
    BY <1>6, <2>3
  <2>5. StepFits(config, steps[i], Before(steps, i))
    BY <2>2
  <2>. DEFINE call == steps[i].calls[j]  st == steps[i]  before == Before(steps, i)
  <2>6. CallFits(config, st, call, before)
    BY <2>3, <2>5 DEF StepFits
  <2>7. TookFor(Settled.facts, ResolvedBy(checkpoint, call))
    BY <2>2, <2>3, <2>4, RecordNow DEF StepsFit
  <2>8. call.who # "accountManager"
    <3>1. SUFFICES ASSUME call.who = "accountManager" PROVE FALSE
      OBVIOUS
    <3>2. st.key = <<"approve", "">>
      BY <2>6, <3>1 DEF CallFits
    <3>3. st = ApproveStep
      BY <2>3, <2>5, <3>2 DEF StepFits
    <3>4. st.flag = "dummyAffiliate"
      BY <3>3, ApproveFlag
    <3>5. <<"approve", "">> \in checkpoint.done \/ "dummyAffiliate" \in checkpoint.flags
      BY <2>3, <2>4, <3>2, <3>4 DEF Skips
    <3>6. Skips(checkpoint, RegisterStep)
      BY <1>11, <1>12, <3>5 DEF MarksFit, Skips
    <3>. QED  BY <1>5, <3>6
  <2>9. \A n \in Located(config) : cp.contracts[n] = checkpoint.contracts[n]
    BY <1>2, LocatedNames
  <2>. HIDE DEF call, st, before
  <2>10. ResolvedBy(cp, call) = ResolvedBy(checkpoint, call)
    BY <2>6, <2>8, <2>9, ResolvedAlike
  <2>. QED  BY <2>7, <2>10 DEF call
<1>15. RecordFits(config, Settled, cp)
  BY <1>2, <1>10, <1>13, <1>14 DEF RecordFits
<1>16. StepUnderWay(config, Settled, cp, step, pr)
  <2>1. process.wait = "none"
    BY <1>1, <1>4 DEF StepUnderWay
  <2>2. ~Skips(cp, step)
    BY <1>1, <1>5, <1>6
  <2>. QED  BY <1>1, <1>3, <2>1, <2>2 DEF StepUnderWay
<1>17. ProcessFits(config, Settled, cp, pr)
  BY <1>1, <1>3, <1>9, <1>16, SameStep
<1>18. pr.wait = "ok" => mempool = <<>>
  BY <1>3 DEF IInv
<1>. QED  BY <1>1, <1>3, <1>7, <1>15, <1>17, <1>18, QuietStep

----------------------------------------------------------------------------
(* Steps that send a transaction                                           *)

LEMMA SequenceLonger ==
  ASSUME NEW s, s \in Seq(ToSet(s)), NEW x
  PROVE  LET t == Append(s, x)
         IN  /\ t \in Seq(ToSet(t)) /\ Len(t) = Len(s) + 1 /\ Len(s) \in Nat /\ DOMAIN t = 1..(Len(s) + 1)
             /\ t[Len(s) + 1] = x /\ \A i \in 1..Len(s) : i \in DOMAIN s /\ t[i] = s[i]
<1>. DEFINE X == ToSet(s) \cup {x}  t == Append(s, x)
<1>1. s \in Seq(X) /\ x \in X
  <2>1. ToSet(s) \subseteq X
    OBVIOUS
  <2>. HIDE DEF X
  <2>2. s \in Seq(X)
    BY <2>1
  <2>. QED  BY <2>2 DEF X
<1>. HIDE DEF X
<1>2. t \in Seq(X) /\ Len(t) = Len(s) + 1 /\ Len(s) \in Nat /\ DOMAIN t = 1..(Len(s) + 1) /\ DOMAIN s = 1..Len(s)
      /\ t[Len(s) + 1] = x /\ \A i \in 1..Len(s) : t[i] = s[i]
  BY <1>1
<1>. HIDE DEF t
<1>3. \A i \in DOMAIN t : t[i] \in ToSet(t)
  BY DEF ToSet
<1>4. t \in Seq(ToSet(t))
  BY <1>2, <1>3
<1>. QED  BY <1>2, <1>4 DEF t

LEMMA SendableLonger ==
  ASSUME NEW s, s \in Seq(ToSet(s)), \A i \in DOMAIN s : Sendable(s[i]), NEW x, Sendable(x)
  PROVE  LET t == Append(s, x)
         IN  t \in Seq(ToSet(t)) /\ \A i \in DOMAIN t : Sendable(t[i])
<1>. DEFINE t == Append(s, x)
<1>1. /\ t \in Seq(ToSet(t)) /\ Len(t) = Len(s) + 1 /\ Len(s) \in Nat /\ DOMAIN t = 1..(Len(s) + 1)
      /\ t[Len(s) + 1] = x /\ \A i \in 1..Len(s) : i \in DOMAIN s /\ t[i] = s[i]
  BY SequenceLonger
<1>. HIDE DEF t
<1>2. ASSUME NEW i \in DOMAIN t PROVE Sendable(t[i])
  <2>1. i = Len(s) + 1 \/ i \in 1..Len(s)
    BY <1>1
  <2>. QED  BY <1>1, <2>1
<1>. QED  BY <1>1, <1>2 DEF t

\* Only a deployment makes links.
LEMMA NewLinks ==
  ASSUME NEW c, NEW S, IsState(S), NEW tx, TxFits(c, S, tx),
         NEW f \in Apply(S, tx).facts, ~(f \in S.facts), f[2] = "links"
  PROVE  /\ tx.kind = "deploy" /\ f[1] = At(tx.name, S.count[tx.name] + 1)
         /\ \E r \in tx.links : f[4] = r
<1>1. CASE tx.kind = "deploy"
  <2>. DEFINE self == At(tx.name, S.count[tx.name] + 1)
              links == { Fact(self, "links", r[1], r) : r \in tx.links }
              made == ConstructorFacts(tx.name, self, tx.admin)
  <2>1. tx.name \in Contracts
    BY <1>1 DEF TxFits, Deployable
  <2>2. Apply(S, tx).facts = S.facts \cup links \cup made
    BY <1>1, <2>1, ApplyDeploy
  <2>3. f \notin made
    BY ConstructorMakes
  <2>4. f \in links
    <3>. HIDE DEF links, made
    <3>. QED  BY <2>2, <2>3
  <2>5. PICK r \in tx.links : f = Fact(self, "links", r[1], r)
    BY <2>4
  <2>. HIDE DEF self
  <2>6. f[1] = self /\ f[4] = r
    BY <2>5 DEF Fact
  <2>. QED  BY <1>1, <2>5, <2>6 DEF self
<1>2. CASE tx.kind = "cut"
  <2>1. f[2] \in {"facet", "role"}
    BY <1>2, ApplyCut
  <2>. QED  BY <2>1
<1>3. CASE tx.kind = "call"
  <2>1. Accepts(S, tx)
    BY <1>3, ApplyCall
  <2>2. f \in CallEffect(S.facts, tx.to, tx.fn, tx.what, tx.who)
    BY <1>3, <2>1, ApplyCall
  <2>3. tx.fn # "links"
    BY <1>3, PlanFunctionNames DEF TxFits
  <2>4. CASE tx.fn = "transferOwnership"
    <3>. DEFINE offer == Fact(tx.to, "pendingOwner", "", tx.who)
    <3>1. CallEffect(S.facts, tx.to, tx.fn, tx.what, tx.who)
            = { g \in S.facts : ~(g[1] = tx.to /\ g[2] = "pendingOwner") } \cup {offer}
      BY <2>4 DEF CallEffect
    <3>2. offer[2] = "pendingOwner"
      BY DEF Fact
    <3>. HIDE DEF offer
    <3>3. f = offer
      BY <2>2, <3>1
    <3>. QED  BY <3>2, <3>3
  <2>5. CASE tx.fn = "addTemplate"
    BY <2>2, <2>5 DEF CallEffect, Fact
  <2>6. CASE tx.fn \notin {"transferOwnership", "addTemplate"}
    <3>1. f[2] \in {"role", "owner", "affiliate", tx.fn}
      BY <2>2, <2>6, CallAdds
    <3>. QED  BY <2>3, <3>1
  <2>. QED  BY <2>4, <2>5, <2>6
<1>. QED  BY <1>1, <1>2, <1>3 DEF TxFits

\* A call of the plan that took stays so, but for a new offer of ownership.
LEMMA PlannedTookStays ==
  ASSUME NEW c \in Configs, NEW S, IsState(S), NEW tx, TxFits(c, S, tx), NEW st, NEW call, NEW before,
         CallFits(c, st, call, before), NEW cp, TookFor(S.facts, ResolvedBy(cp, call)),
         ~(call.fn = "acceptOwnership" /\ tx.kind = "call" /\ tx.fn = "transferOwnership")
  PROVE  TookFor(Apply(S, tx).facts, ResolvedBy(cp, call))
<1>. DEFINE old == ResolvedBy(cp, call)
<1>1. old.fn = call.fn /\ old.who = RecordedAt(cp, call.who)
  BY DEF ResolvedBy
<1>2. old.fn \in PlanFunctions
  BY <1>1 DEF CallFits
<1>3. old.fn = "transferOwnership" => old.who = At(c.admin, 0)
  <2>1. c.admin \notin Contracts
    BY ConfigFacts
  <2>. QED  BY <1>1, <2>1 DEF CallFits, RecordedAt
<1>4. tx.kind = "deploy" => tx.name \in Contracts
  BY DEF TxFits, Deployable
<1>5. TookFor(S.facts, old) /\ ~(old.fn = "acceptOwnership" /\ tx.kind = "call" /\ tx.fn = "transferOwnership")
  BY <1>1
<1>. HIDE DEF old
<1>6. TookFor(Apply(S, tx).facts, old)
  BY <1>2, <1>3, <1>4, <1>5, TookStays
<1>. QED  BY <1>6 DEF old

LEMMA AtMostInTurn == \A x, y, z \in Nat : x <= y /\ y <= z => x <= z
OBVIOUS

LEMMA LinksStay ==
  ASSUME NEW c, NEW S, IsState(S), NEW tx, TxFits(c, S, tx), NEW cp, LinksFit(S, cp),
         \A n \in Deployable : cp.contracts[n] \in Nat /\ cp.contracts[n] <= S.count[n]
  PROVE  LinksFit(Apply(S, tx), cp)
<1>1. SUFFICES ASSUME NEW f \in Apply(S, tx).facts, f[2] = "links", f[1][2] = cp.contracts[f[1][1]], ~(f \in S.facts)
               PROVE  FALSE
  BY DEF LinksFit
<1>2. tx.kind = "deploy" /\ f[1] = At(tx.name, S.count[tx.name] + 1)
  BY <1>1, NewLinks
<1>3. f[1][1] = tx.name /\ f[1][2] = S.count[tx.name] + 1
  BY <1>2 DEF At
<1>4. tx.name \in Deployable
  BY <1>2 DEF TxFits
<1>5. S.count[tx.name] \in Nat /\ cp.contracts[tx.name] \in Nat /\ cp.contracts[tx.name] <= S.count[tx.name]
  BY <1>4 DEF IsState, Deployable
<1>6. cp.contracts[tx.name] = S.count[tx.name] + 1
  BY <1>1, <1>3
<1>. QED  BY <1>5, <1>6

\* The settled state is a later one than the mined state.
LEMMA SettledLater ==
  ASSUME IInv
  PROVE  IsState(Settled) /\ Kept(chain, Settled)
BY ReplayKeeps DEF IInv, Settled

\* What the checkpoint tells stays true.
LEMMA RecordStays ==
  ASSUME IInv, NEW tx, TxFits(config, Settled, tx),
         ~(tx.kind = "call" /\ tx.fn = "transferOwnership" /\ <<"acceptOwnership", "">> \in checkpoint.done)
  PROVE  RecordFits(config, Apply(Settled, tx), checkpoint)
<1>. DEFINE S == Settled  T == Apply(S, tx)
<1>1. config \in Configs /\ ChainFits(config, S)
  BY DEF IInv
<1>2. IsState(S)
  BY <1>1 DEF ChainFits
<1>3. LinksFit(T, checkpoint)
  <2>1. ASSUME NEW n \in Deployable
        PROVE  checkpoint.contracts[n] \in Nat /\ checkpoint.contracts[n] <= S.count[n]
    <3>1. checkpoint.contracts[n] \in Nat /\ chain.count[n] \in Nat /\ S.count[n] \in Nat
      BY <1>2, RecordNow DEF IInv, IsCheckpoint, IsState, Deployable
    <3>2. checkpoint.contracts[n] <= chain.count[n]
      BY RecordNow DEF CountsFit
    <3>3. chain.count[n] <= S.count[n]
      BY SettledLater DEF Kept, Deployable
    <3>. QED  BY <3>1, <3>2, <3>3, AtMostInTurn
  <2>2. LinksFit(S, checkpoint)
    BY RecordNow
  <2>. HIDE DEF S
  <2>. QED  BY <1>2, <2>1, <2>2, LinksStay DEF S
<1>4. StepsFit(config, T, checkpoint)
  <2>1. /\ steps = Plan(config) /\ DOMAIN steps = 1..Len(steps)
        /\ \A i \in 1..Len(steps) : StepFits(config, steps[i], Before(steps, i))
    BY <1>1, StepsArePlanned
  <2>2. SUFFICES ASSUME NEW i \in 1..Len(steps), steps[i].kind = "calls", Skips(checkpoint, steps[i]),
                        NEW j \in DOMAIN steps[i].calls
                 PROVE  TookFor(T.facts, ResolvedBy(checkpoint, steps[i].calls[j]))
    BY <2>1 DEF StepsFit
  <2>. DEFINE call == steps[i].calls[j]  st == steps[i]  before == Before(steps, i)
  <2>3. StepFits(config, st, before)
    BY <2>1
  <2>4. CallFits(config, st, call, before)
    BY <2>2, <2>3 DEF StepFits
  <2>5. TookFor(S.facts, ResolvedBy(checkpoint, call))
    BY <2>1, <2>2, RecordNow DEF StepsFit
  <2>6. ~(call.fn = "acceptOwnership" /\ tx.kind = "call" /\ tx.fn = "transferOwnership")
    <3>1. SUFFICES ASSUME call.fn = "acceptOwnership" PROVE <<"acceptOwnership", "">> \in checkpoint.done
      OBVIOUS
    <3>2. st.key = <<"acceptOwnership", "">>
      BY <2>4, <3>1 DEF CallFits
    <3>3. st.flag = ""
      BY <2>2, <2>3, <3>2 DEF StepFits
    <3>4. "" \notin checkpoint.flags
      BY RecordNow DEF MarksFit, SectionFlags
    <3>. QED  BY <2>2, <3>2, <3>3, <3>4 DEF Skips
  <2>. HIDE DEF call, st, before, S
  <2>7. TookFor(T.facts, ResolvedBy(checkpoint, call))
    BY <1>1, <1>2, <2>4, <2>5, <2>6, PlannedTookStays DEF S
  <2>. QED  BY <2>7 DEF call
<1>. QED  BY <1>3, <1>4, RecordNow DEF RecordFits

LEMMA SendFits ==
  ASSUME IInv, NEW tx, TxFits(config, Settled, tx),
         ~(tx.kind = "call" /\ tx.fn = "transferOwnership" /\ <<"acceptOwnership", "">> \in checkpoint.done),
         mempool' = Append(mempool, tx), config' = config, chain' = chain, checkpoint' = checkpoint,
         IsProcess(process'), process'.mode = "running", process'.wait # "ok",
         ProcessFits(config, Apply(Settled, tx), checkpoint, process')
  PROVE  IInv'
<1>1. config \in Configs /\ IsState(chain) /\ mempool \in Seq(ToSet(mempool)) /\ ChainFits(config, Settled)
  BY DEF IInv
<1>2. Settled' = Apply(Settled, tx)
  BY <1>1, ReplaySent DEF Settled
<1>3. mempool' \in Seq(ToSet(mempool')) /\ \A i \in DOMAIN mempool' : Sendable(mempool'[i])
  <2>1. Sendable(tx)
    BY DEF Sendable, TxFits, Deployable
  <2>2. \A i \in DOMAIN mempool : Sendable(mempool[i])
    BY DEF IInv
  <2>. DEFINE txs == mempool  t == Append(mempool, tx)
  <2>3. t \in Seq(ToSet(t)) /\ \A i \in DOMAIN t : Sendable(t[i])
    BY <1>1, <2>1, <2>2, SendableLonger
  <2>4. mempool' = t
    OBVIOUS
  <2>. HIDE DEF t
  <2>. QED  BY <2>3, <2>4
<1>4. ChainFits(config, Apply(Settled, tx))
  <2>. DEFINE S == Settled
  <2>1. IsState(S) /\ ChainFits(config, S) /\ TxFits(config, S, tx)
    BY <1>1 DEF ChainFits
  <2>. HIDE DEF S
  <2>2. ChainFits(config, Apply(S, tx))
    BY <2>1, ApplyFits
  <2>. QED  BY <2>2 DEF S
<1>5. RecordFits(config, Apply(Settled, tx), checkpoint)
  BY RecordStays
<1>6. CountsFit(config, chain, checkpoint)
  BY RecordNow
<1>. QED  BY <1>1, <1>2, <1>3, <1>4, <1>5, <1>6 DEF IInv

\* A deployment under way: the new instance is linked to recorded contracts.
LEMMA SendDeployFits ==
  ASSUME IInv, SendDeploy
  PROVE  IInv'
<1>. DEFINE name == step.name  links == { Address(n) : n \in step.links }
            tx == [kind |-> "deploy", name |-> name, admin |-> At(config.admin, 0), links |-> links]
            pr == MovedWaiting(process, 1, "pending")  S == Settled  T == Apply(S, tx)
<1>1. /\ process.mode = "running" /\ step.kind = "deploy" /\ mempool' = Append(mempool, tx) /\ process' = pr
      /\ config' = config /\ chain' = chain /\ checkpoint' = checkpoint
  BY DEF SendDeploy, Due, Send, MovedWaiting
<1>0. process.sub # 2
  <2>1. process.sub = 0
    BY DEF SendDeploy
  <2>2. 0 # 2
    OBVIOUS
  <2>. QED  BY <2>1, <2>2
<1>2. StepUnderWay(config, S, checkpoint, step, process) /\ StepFits(config, step, Before(steps, process.pc))
  BY <1>1, Running
<1>3. ~Skips(checkpoint, step)
  BY <1>0, <1>2, StillDue
<1>4. IsProcess(pr) /\ pr.mode = process.mode /\ pr.pc = process.pc /\ pr.sub = 1 /\ pr.wait = "pending"
  BY RecordNow, ProcessMovedWaits
<1>5. /\ name \in Deployable /\ (name \in Nameable => step.links = {})
      /\ step.links \subseteq Guarded(Before(steps, process.pc)) \cup {"partyBImplementation"}
  BY <1>1, <1>2 DEF StepFits
<1>6. IsState(S)
  BY SettledLater
<1>7. tx.kind = "deploy" /\ tx.name = name /\ tx.links = links
  OBVIOUS
<1>. HIDE DEF name, links, tx, pr, S
<1>8. TxFits(config, S, tx)
  <2>1. step.links = {} => links = {}
    BY DEF links
  <2>. QED  BY <1>5, <1>7, <2>1 DEF TxFits
<1>9. S.count[name] \in Nat /\ T.count[name] = S.count[name] + 1
  <2>1. name \in Contracts
    BY <1>5 DEF Deployable
  <2>. QED  BY <1>6, <1>7, <2>1, ApplyDeploy DEF IsState
<1>10. ASSUME NEW r \in links PROVE r[1] # "partyBImplementation" => Recorded(checkpoint, r[1]) /\ r = RecordedAt(checkpoint, r[1])
  <2>1. PICK n \in step.links : r = Address(n)
    BY DEF links
  <2>2. r[1] = n
    BY <2>1 DEF Address, At
  <2>3. SUFFICES ASSUME n # "partyBImplementation" PROVE Recorded(checkpoint, n) /\ r = RecordedAt(checkpoint, n)
    BY <2>2
  <2>4. n \in Guarded(Before(steps, process.pc))
    BY <1>5, <2>1, <2>3
  <2>5. Recorded(checkpoint, n)
    BY <1>1, <2>4, Running
  <2>6. Address(n) = RecordedAt(checkpoint, n)
    BY <2>3 DEF Address, RecordedAt
  <2>. QED  BY <2>1, <2>5, <2>6
<1>11. ASSUME NEW f \in T.facts, f[2] = "links", f[1] = At(name, T.count[name]) PROVE Wired(checkpoint, f)
  <2>1. f[1][1] = name /\ f[1][2] = S.count[name] + 1
    BY <1>9, <1>11 DEF At
  <2>2. CASE f \in S.facts
    <3>1. f[1][2] \in 1..S.count[name]
      BY <1>11, <2>1, <2>2 DEF IInv, ChainFits, S
    <3>. QED  BY <1>9, <2>1, <3>1
  <2>3. CASE ~(f \in S.facts)
    <3>1. PICK r \in links : f[4] = r
      BY <1>6, <1>7, <1>8, <1>11, <2>3, NewLinks
    <3>. QED  BY <1>10, <3>1 DEF Wired
  <2>. QED  BY <2>2, <2>3
<1>. HIDE DEF T
<1>12. StepUnderWay(config, T, checkpoint, step, pr)
  BY <1>1, <1>3, <1>4, <1>9, <1>11 DEF StepUnderWay, name
<1>13. ProcessFits(config, T, checkpoint, pr)
  BY <1>1, <1>4, <1>12, RecordNow, SameStep
<1>14. IsProcess(process') /\ process'.mode = "running" /\ process'.wait # "ok" /\ ProcessFits(config, T, checkpoint, process')
  BY <1>1, <1>4, <1>13
<1>. QED  BY <1>1, <1>7, <1>8, <1>14, SendFits DEF S, T

\* A chunk of a cut.
LEMMA SendChunkFits ==
  ASSUME IInv, SendChunk
  PROVE  IInv'
<1>. DEFINE tx == ChunkTx  pr == Waiting(process, "pending")  S == Settled  T == Apply(S, tx)
<1>1. /\ process.mode = "running" /\ step.kind = "cut" /\ mempool' = Append(mempool, tx) /\ process' = pr
      /\ config' = config /\ chain' = chain /\ checkpoint' = checkpoint /\ process.sub \in 1..Chunks
  BY DEF SendChunk, Due, Send, Waiting
<1>2. StepUnderWay(config, S, checkpoint, step, process)
  BY <1>1, Running
<1>3. ~Skips(checkpoint, step)
  BY <1>1, <1>2, StillDue
<1>4. IsProcess(pr) /\ pr.mode = process.mode /\ pr.pc = process.pc /\ pr.sub = process.sub /\ pr.wait = "pending"
  BY RecordNow, ProcessWaits
<1>5. tx.kind = "cut"
  BY DEF ChunkTx
<1>6. process.sub # 0
  BY <1>1
<1>. HIDE DEF tx, pr, S
<1>7. TxFits(config, S, tx)
  BY <1>5 DEF TxFits
<1>. HIDE DEF T
<1>8. StepUnderWay(config, T, checkpoint, step, pr)
  BY <1>1, <1>3, <1>4, <1>6 DEF StepUnderWay
<1>9. ProcessFits(config, T, checkpoint, pr)
  BY <1>1, <1>4, <1>8, RecordNow, SameStep
<1>10. IsProcess(process') /\ process'.mode = "running" /\ process'.wait # "ok" /\ ProcessFits(config, T, checkpoint, process')
  BY <1>1, <1>4, <1>9
<1>. QED  BY <1>1, <1>5, <1>7, <1>10, SendFits DEF S, T

\* The request of an affiliate.
LEMMA SendRegisterFits ==
  ASSUME IInv, SendRegister
  PROVE  IInv'
<1>. DEFINE tx == RegisterTx  held == Count(chain.facts, RegisterTx.to, "affiliate") + 1
            pr == MovedHolding(process, 1, held)  S == Settled  T == Apply(S, tx)
<1>1. /\ process.mode = "running" /\ step.kind = "register" /\ mempool' = Append(mempool, tx) /\ process' = pr
      /\ config' = config /\ chain' = chain /\ checkpoint' = checkpoint
  BY DEF SendRegister, Due, Send, MovedHolding
<1>2. StepUnderWay(config, S, checkpoint, step, process)
  BY <1>1, Running
<1>3. ~Skips(checkpoint, step)
  BY <1>1, <1>2, StillDue
<1>. HIDE DEF held
<1>4. IsProcess(pr) /\ pr.mode = process.mode /\ pr.pc = process.pc /\ pr.sub = 1 /\ pr.wait = process.wait
  BY RecordNow, ProcessMovedHeld
<1>5. tx.kind = "call" /\ tx.fn = "requestToRegisterAffiliate"
  BY DEF RegisterTx
<1>. HIDE DEF tx, pr, S
<1>6. process.wait = "none"
  BY <1>1, <1>2 DEF StepUnderWay
<1>7. TxFits(config, S, tx)
  BY <1>5 DEF TxFits
<1>. HIDE DEF T
<1>8. StepUnderWay(config, T, checkpoint, step, pr)
  BY <1>1, <1>3, <1>4, <1>6 DEF StepUnderWay
<1>9. ProcessFits(config, T, checkpoint, pr)
  BY <1>1, <1>4, <1>8, RecordNow, SameStep
<1>10. IsProcess(process') /\ process'.mode = "running" /\ process'.wait # "ok" /\ ProcessFits(config, T, checkpoint, process')
  BY <1>1, <1>4, <1>6, <1>9
<1>. QED  BY <1>1, <1>5, <1>7, <1>10, SendFits DEF S, T

\* The first template is there before another one is added.
LEMMA OpenIsThere ==
  ASSUME IInv, NEW k \in DOMAIN Plan(config), Plan(config)[k] = InstantOpenStep, Passed(checkpoint, InstantOpenStep)
  PROVE  \E g \in Settled.facts : g[1] = RecordedAt(checkpoint, "instantLayer") /\ g[2] = "template"
<1>. DEFINE open == Call("instantLayer", "addTemplate", "InstantOpen", "")  tx == ResolvedBy(checkpoint, open)
<1>1. InstantOpenStep.kind = "calls" /\ InstantOpenStep.calls = << open >>
  BY DEF InstantOpenStep, Setup
<1>2. tx.fn = "addTemplate" /\ tx.to = RecordedAt(checkpoint, "instantLayer")
  BY DEF ResolvedBy, Call
<1>. HIDE DEF open, tx
<1>3. 1 \in DOMAIN << open >> /\ << open >>[1] = open
  OBVIOUS
<1>4. Skips(checkpoint, InstantOpenStep)
  BY <1>1 DEF Passed
<1>5. TookFor(Settled.facts, ResolvedBy(checkpoint, InstantOpenStep.calls[1]))
  BY <1>1, <1>3, <1>4, RecordNow DEF StepsFit
<1>6. Took(Settled.facts, tx)
  BY <1>1, <1>3, <1>5 DEF TookFor, tx
<1>. QED  BY <1>2, <1>6 DEF Took

LEMMA NextCallFits ==
  ASSUME IInv, process.mode = "running", step.kind = "calls", process.sub < Len(step.calls)
  PROVE  LET call == step.calls[process.sub + 1]
         IN  /\ process.sub \in Nat /\ process.sub + 1 \in DOMAIN step.calls
             /\ CallFits(config, step, call, Before(steps, process.pc)) /\ StepFits(config, step, Before(steps, process.pc))
             /\ NextCall = ResolvedBy(checkpoint, call) /\ NextCall.kind = "call" /\ NextCall.fn = call.fn
             /\ TxFits(config, Settled, NextCall)
<1>. DEFINE call == step.calls[process.sub + 1]  before == Before(steps, process.pc)
<1>1. StepFits(config, step, before)
  BY Running
<1>2. Len(step.calls) \in Nat /\ DOMAIN step.calls = 1..Len(step.calls)
  <2>1. IsSequence(step.calls)
    BY <1>1 DEF StepFits
  <2>. QED  BY <2>1, SequenceDomain
<1>3. process.sub \in Nat
  BY RecordNow DEF IsProcess
<1>4. process.sub + 1 \in DOMAIN step.calls
  <2>1. \A n, m \in Nat : n < m => n + 1 \in 1..m
    OBVIOUS
  <2>. QED  BY <1>2, <1>3, <2>1
<1>5. CallFits(config, step, call, before)
  BY <1>1, <1>4 DEF StepFits
<1>6. NextCall = ResolvedCall(call)
  BY DEF NextCall
<1>7. \A k \in 1..(process.pc - 1) : k \in DOMAIN Plan(config) /\ steps[k] = Plan(config)[k] /\ Passed(checkpoint, steps[k])
  BY Running
<1>. HIDE DEF call
<1>8. NextCall = ResolvedBy(checkpoint, call)
  BY <1>5, <1>6, CallAddress
<1>. DEFINE tx == ResolvedBy(checkpoint, call)
<1>9. /\ tx.kind = "call" /\ tx.fn = call.fn /\ tx.what = call.what
      /\ tx.to = RecordedAt(checkpoint, call.to) /\ tx.who = RecordedAt(checkpoint, call.who)
  BY DEF ResolvedBy
<1>. HIDE DEF tx
<1>10. TxFits(config, Settled, tx)
  <2>1. tx.fn \in PlanFunctions
    BY <1>5, <1>9 DEF CallFits
  <2>2. tx.fn = "transferOwnership" => tx.who = At(config.admin, 0)
    <3>1. config.admin \notin Contracts
      BY ConfigFacts DEF IInv
    <3>. QED  BY <1>5, <1>9, <3>1 DEF CallFits, RecordedAt
  <2>3. tx.fn = "acceptOwnership" => config.admin = "deployer"
    BY <1>5, <1>9 DEF CallFits
  <2>4. tx.fn = "setTemplateInstantOpenMode" => tx.who = At("template", 0)
    <3>1. "template" \notin Contracts
      BY NamesApart DEF Accounts
    <3>. QED  BY <1>5, <1>9, <3>1 DEF CallFits, RecordedAt
  <2>5. tx.fn \in {"registerPartyB", "registerPartyBs"} => tx.what = ""
    BY <1>5, <1>9 DEF CallFits
  <2>6. tx.fn = "addTemplate" /\ tx.what # "InstantOpen" => \E g \in Settled.facts : g[1] = tx.to /\ g[2] = "template"
    <3>1. SUFFICES ASSUME call.fn = "addTemplate", call.what # "InstantOpen"
                   PROVE  \E g \in Settled.facts : g[1] = tx.to /\ g[2] = "template"
      BY <1>9
    <3>2. InstantOpenStep \in before /\ call.to = "instantLayer"
      BY <1>5, <3>1 DEF CallFits
    <3>3. PICK k \in 1..(process.pc - 1) : InstantOpenStep = steps[k]
      BY <3>2 DEF Before
    <3>4. k \in DOMAIN Plan(config) /\ Plan(config)[k] = InstantOpenStep /\ Passed(checkpoint, InstantOpenStep)
      BY <1>7, <3>3
    <3>5. \E g \in Settled.facts : g[1] = RecordedAt(checkpoint, "instantLayer") /\ g[2] = "template"
      BY <3>4, OpenIsThere
    <3>. QED  BY <1>9, <3>2, <3>5
  <2>. QED  BY <1>9, <2>1, <2>2, <2>3, <2>4, <2>5, <2>6 DEF TxFits
<1>. QED  BY <1>1, <1>3, <1>4, <1>5, <1>8, <1>9, <1>10 DEF tx, call

\* A key or a signer found on the mined state is there once all is mined.
LEMMA PresentTook ==
  ASSUME IInv, NEW tx, tx.fn \in {"addPublicKey", "addGatewaySigner"}, Present(tx)
  PROVE  TookFor(Settled.facts, tx)
<1>. DEFINE f == Fact(tx.to, tx.fn, tx.what, tx.who)
<1>1. f \in chain.facts
  BY DEF Present
<1>2. Lasting(f)
  BY DEF Lasting, Fact
<1>3. f \in Settled.facts
  <2>1. KeptFacts(chain.facts, Settled.facts)
    BY SettledLater DEF Kept
  <2>. HIDE DEF f
  <2>. QED  BY <1>1, <1>2, <2>1 DEF KeptFacts
<1>. QED  BY <1>3 DEF TookFor, Took

\* One more call of a step has taken.
LEMMA CallUnderWay ==
  ASSUME NEW c, NEW S, NEW cp, NEW st, NEW pr, StepUnderWay(c, S, cp, st, pr), st.kind = "calls", pr.sub \in Nat,
         Len(st.calls) \in Nat, pr.sub < Len(st.calls),
         NEW T, \A j \in 1..pr.sub : TookFor(T.facts, ResolvedBy(cp, st.calls[j])),
         TookFor(T.facts, ResolvedBy(cp, st.calls[pr.sub + 1])),
         NEW next, next.sub = pr.sub + 1, next.wait = pr.wait
  PROVE  StepUnderWay(c, T, cp, st, next)
<1>1. ~Skips(cp, st) /\ pr.wait = "none"
  BY DEF StepUnderWay
<1>2. next.sub <= Len(st.calls)
  OBVIOUS
<1>3. ASSUME NEW j \in 1..next.sub PROVE TookFor(T.facts, ResolvedBy(cp, st.calls[j]))
  <2>1. j = pr.sub + 1 \/ j \in 1..pr.sub
    OBVIOUS
  <2>. QED  BY <2>1
<1>. QED  BY <1>1, <1>2, <1>3 DEF StepUnderWay

LEMMA OwnershipKeys == <<"acceptOwnership", "">> # <<"transferOwnership", "">>
OBVIOUS

\* A call of a step: sent, or not needed.
LEMMA SendCallFits ==
  ASSUME IInv, SendCall
  PROVE  IInv'
<1>. DEFINE tx == NextCall  sub == process.sub + 1  pr == Moved(process, sub)  S == Settled  T == Apply(S, tx)
            before == Before(steps, process.pc)
<1>1. /\ process.mode = "running" /\ step.kind = "calls" /\ process.sub < Len(step.calls) /\ process' = pr
      /\ config' = config /\ chain' = chain /\ checkpoint' = checkpoint
  BY DEF SendCall, Due, Moved
<1>2. \/ step.ensure /\ Present(tx) /\ mempool' = mempool
      \/ (Accepts(chain, tx) \/ Accepts(S, tx)) /\ mempool' = Append(mempool, tx)
  BY DEF SendCall, Estimates, Send
<1>3. /\ process.sub \in Nat /\ sub \in DOMAIN step.calls /\ CallFits(config, step, step.calls[sub], before)
      /\ StepFits(config, step, before) /\ tx = ResolvedBy(checkpoint, step.calls[sub]) /\ tx.kind = "call"
      /\ tx.fn = step.calls[sub].fn /\ TxFits(config, S, tx)
  BY <1>1, NextCallFits
<1>4. StepUnderWay(config, S, checkpoint, step, process)
  BY <1>1, Running
<1>5. ~Skips(checkpoint, step) /\ process.wait = "none"
  BY <1>1, <1>4 DEF StepUnderWay
<1>6. \A j \in 1..process.sub : TookFor(S.facts, ResolvedBy(checkpoint, step.calls[j]))
  BY <1>1, <1>4 DEF StepUnderWay
<1>7. Len(step.calls) \in Nat /\ DOMAIN step.calls = 1..Len(step.calls)
  <2>1. IsSequence(step.calls)
    BY <1>1, <1>3 DEF StepFits
  <2>. QED  BY <2>1, SequenceDomain
<1>8. sub \in Nat
  BY <1>3
<1>9. IsProcess(pr) /\ pr.mode = process.mode /\ pr.pc = process.pc /\ pr.sub = sub /\ pr.wait = process.wait
  <2>. HIDE DEF sub
  <2>. QED  BY <1>8, RecordNow, ProcessMoved
<1>. HIDE DEF pr, before
<1>10. CASE mempool' = mempool /\ step.ensure /\ Present(tx)
  <2>1. TookFor(S.facts, tx)
    <3>1. tx.fn \in {"addPublicKey", "addGatewaySigner"}
      BY <1>3, <1>10 DEF CallFits
    <3>. HIDE DEF tx
    <3>. QED  BY <1>10, <3>1, PresentTook
  <2>2. TookFor(S.facts, ResolvedBy(checkpoint, step.calls[process.sub + 1]))
    BY <1>3, <2>1
  <2>3. StepUnderWay(config, S, checkpoint, step, pr)
    <3>. HIDE DEF S
    <3>. QED  BY <1>1, <1>3, <1>4, <1>6, <1>7, <1>9, <2>2, CallUnderWay
  <2>4. ProcessFits(config, S, checkpoint, pr)
    BY <1>1, <1>9, <2>3, RecordNow, SameStep
  <2>5. pr.wait = "none" /\ pr.mode = "running"
    BY <1>1, <1>5, <1>9
  <2>. QED  BY <1>1, <1>9, <1>10, <2>4, <2>5, ProcessStep
<1>11. CASE (Accepts(chain, tx) \/ Accepts(S, tx)) /\ mempool' = Append(mempool, tx)
  <2>1. config \in Configs /\ IsState(chain) /\ IsState(S) /\ Kept(chain, S) /\ ChainFits(config, S)
    BY SettledLater DEF IInv
  <2>2. tx.fn \in PlanFunctions
    BY <1>3 DEF CallFits
  <2>. HIDE DEF tx, S
  <2>3. TookFor(T.facts, tx)
    BY <1>3, <1>11, <2>1, <2>2, SentTook
  <2>4. tx.fn = "transferOwnership" => step.key = <<"transferOwnership", "">>
    BY <1>3 DEF CallFits
  <2>5. ASSUME NEW j \in 1..process.sub PROVE TookFor(T.facts, ResolvedBy(checkpoint, step.calls[j]))
    <3>. DEFINE call == step.calls[j]
    <3>1. j \in DOMAIN step.calls
      BY <1>1, <1>3, <1>7
    <3>2. CallFits(config, step, call, before)
      BY <1>1, <1>3, <3>1 DEF StepFits
    <3>3. ~(call.fn = "acceptOwnership" /\ tx.kind = "call" /\ tx.fn = "transferOwnership")
      BY <2>4, <3>2, OwnershipKeys DEF CallFits
    <3>4. TookFor(S.facts, ResolvedBy(checkpoint, call))
      BY <1>6
    <3>. HIDE DEF call
    <3>5. TookFor(T.facts, ResolvedBy(checkpoint, call))
      BY <1>3, <2>1, <3>2, <3>3, <3>4, PlannedTookStays
    <3>. QED  BY <3>5 DEF call
  <2>6. TookFor(T.facts, ResolvedBy(checkpoint, step.calls[process.sub + 1]))
    BY <1>3, <2>3
  <2>. HIDE DEF T
  <2>7. StepUnderWay(config, T, checkpoint, step, pr)
    BY <1>1, <1>3, <1>4, <1>7, <1>9, <2>5, <2>6, CallUnderWay
  <2>8. ProcessFits(config, T, checkpoint, pr)
    BY <1>1, <1>9, <2>7, RecordNow, SameStep
  <2>9. IsProcess(process') /\ process'.mode = "running" /\ process'.wait # "ok" /\ ProcessFits(config, T, checkpoint, process')
    BY <1>1, <1>5, <1>9, <2>8
  <2>10. ~(tx.kind = "call" /\ tx.fn = "transferOwnership" /\ <<"acceptOwnership", "">> \in checkpoint.done)
    <3>1. MarksFit(config, checkpoint)
      BY RecordNow
    <3>2. <<"transferOwnership", "">> \in checkpoint.done => step.key # <<"transferOwnership", "">>
      BY <1>1, <1>5 DEF Skips
    <3>. QED  BY <2>4, <3>1, <3>2 DEF MarksFit
  <2>. QED  BY <1>1, <1>3, <1>11, <2>9, <2>10, SendFits DEF S, T
<1>. QED  BY <1>2, <1>10, <1>11

----------------------------------------------------------------------------
(* The chain, the beginning, every step                                    *)

LEMMA MineFits ==
  ASSUME IInv, Mine
  PROVE  IInv'
<1>. DEFINE tx == Head(mempool)  S == Settled
            pr == IF process.wait = "pending" /\ Len(mempool) = 1
                  THEN Waiting(process, IF Accepts(chain, tx) THEN "ok" ELSE "reverted") ELSE process
<1>1. /\ mempool # <<>> /\ chain' = Apply(chain, tx) /\ mempool' = Tail(mempool) /\ process' = pr
      /\ config' = config /\ checkpoint' = checkpoint
  BY DEF Mine, Waiting
<1>2. config \in Configs /\ IsState(chain) /\ mempool \in Seq(ToSet(mempool)) /\ \A i \in DOMAIN mempool : Sendable(mempool[i])
  BY DEF IInv
<1>3. S' = S
  BY <1>1, <1>2, ReplayMined DEF Settled
<1>. DEFINE rest == Tail(mempool)
<1>4. /\ Len(mempool) \in Nat \ {0} /\ Len(rest) = Len(mempool) - 1 /\ rest \in Seq(ToSet(mempool))
      /\ 1 \in DOMAIN mempool /\ tx = mempool[1]
      /\ \A i \in DOMAIN rest : i + 1 \in DOMAIN mempool /\ rest[i] = mempool[i + 1]
  BY <1>1, <1>2
<1>5. Sendable(tx)
  BY <1>2, <1>4
<1>. HIDE DEF tx, rest
<1>6. rest \in Seq(ToSet(rest)) /\ \A i \in DOMAIN rest : Sendable(rest[i])
  <2>1. \A i \in DOMAIN rest : rest[i] \in ToSet(rest)
    BY DEF ToSet
  <2>2. rest \in Seq(ToSet(rest))
    BY <1>4, <2>1
  <2>. QED  BY <1>2, <1>4, <2>2
<1>7. IsState(chain') /\ Kept(chain, chain')
  BY <1>1, <1>2, <1>5, KeptBy
<1>8. CountsFit(config, chain', checkpoint)
  <2>1. CountsFit(config, chain, checkpoint)
    BY RecordNow
  <2>2. ASSUME NEW n \in Deployable PROVE chain.count[n] \in Nat /\ chain'.count[n] \in Nat /\ chain.count[n] <= chain'.count[n]
    BY <1>2, <1>7 DEF IsState, Kept, Deployable
  <2>3. \A n \in Deployable : checkpoint.contracts[n] \in Nat
    BY RecordNow DEF IsCheckpoint
  <2>4. Existing(config) \subseteq Deployable
    <3>1. Existing(config) \subseteq {"collateral", "signatureVerifier"}
      BY DEF Existing
    <3>2. {"collateral", "signatureVerifier"} \subseteq Deployable
      BY DeployableNames DEF FixedContracts
    <3>. QED  BY <3>1, <3>2
  <2>5. \A n \in Deployable : checkpoint.contracts[n] <= chain'.count[n]
    BY <2>1, <2>2, <2>3, AtMostInTurn DEF CountsFit
  <2>6. \A n \in Existing(config) : 1 <= chain'.count[n]
    BY <2>1, <2>2, <2>4, AtMostInTurn DEF CountsFit
  <2>. QED  BY <2>5, <2>6 DEF CountsFit
<1>9. /\ IsProcess(pr) /\ pr.mode = process.mode /\ pr.pc = process.pc /\ pr.sub = process.sub
      /\ pr.wait = process.wait \/ process.wait = "pending"
      /\ pr.wait # "ok" \/ rest = <<>>
  <2>. DEFINE w == IF Accepts(chain, tx) THEN "ok" ELSE "reverted"  q == Waiting(process, w)
  <2>1. CASE process.wait = "pending" /\ Len(mempool) = 1
    <3>1. pr = q
      BY <2>1
    <3>2. w \in {"none", "pending", "ok", "reverted"}
      OBVIOUS
    <3>. HIDE DEF w
    <3>3. IsProcess(q) /\ q.mode = process.mode /\ q.pc = process.pc /\ q.sub = process.sub
      BY <3>2, RecordNow, ProcessWaits
    <3>4. rest = <<>>
      BY <1>4, <2>1
    <3>. HIDE DEF q, pr
    <3>. QED  BY <2>1, <3>1, <3>3, <3>4
  <2>2. CASE ~(process.wait = "pending" /\ Len(mempool) = 1)
    <3>1. pr = process
      BY <2>2
    <3>2. process.wait # "ok"
      BY <1>1 DEF IInv
    <3>. QED  BY <3>1, <3>2, RecordNow
  <2>. QED  BY <2>1, <2>2
<1>. HIDE DEF pr
<1>10. ProcessFits(config, S, checkpoint, pr)
  <2>1. CASE pr.mode = "running"
    <3>1. process.mode = "running" /\ StepUnderWay(config, S, checkpoint, step, process)
      BY <1>9, <2>1, Running
    <3>. HIDE DEF S
    <3>2. StepUnderWay(config, S, checkpoint, step, pr)
      <4>1. pr.wait # "none" => process.wait # "none"
        BY <1>9
      <4>. QED  BY <1>9, <3>1, <4>1 DEF StepUnderWay
    <3>. QED  BY <1>9, <2>1, <3>1, <3>2, RecordNow, SameStep
  <2>2. CASE pr.mode # "running"
    BY <2>2 DEF ProcessFits
  <2>. QED  BY <2>1, <2>2
<1>11. pr.mode # "running" => pr.wait = "none"
  BY <1>9 DEF IInv
<1>12. ChainFits(config, S) /\ RecordFits(config, S, checkpoint)
  BY DEF IInv
<1>13. mempool' = rest
  BY <1>1 DEF rest
<1>. HIDE DEF S
<1>14. pr.wait = "ok" => mempool' = <<>>
  BY <1>9, <1>13
<1>15. config' \in Configs /\ IsState(chain')
  BY <1>1, <1>2, <1>7
<1>16. mempool' \in Seq(ToSet(mempool')) /\ \A i \in DOMAIN mempool' : Sendable(mempool'[i])
  BY <1>6, <1>13
<1>. QED  BY <1>1, <1>3, <1>8, <1>9, <1>10, <1>11, <1>12, <1>14, <1>15, <1>16 DEF IInv, S

LEMMA InitFits ==
  ASSUME Init
  PROVE  IInv
<1>1. /\ config \in Configs /\ mempool = <<>> /\ checkpoint = EmptyCheckpoint("none") /\ process = Idle
      /\ chain = [count |-> chain.count, facts |-> chain.facts]
      /\ chain.count = [n \in Contracts |-> IF n \in Existing(config) THEN 1 ELSE 0]
      /\ chain.facts = IF config.verifier = "existing" /\ config.verifierAdmin
                       THEN ConstructorFacts("signatureVerifier", At("signatureVerifier", 1), Nobody) ELSE {}
  BY DEF Init
<1>2. chain.count \in [Contracts -> Nat]
  BY <1>1
<1>3. IsState(chain)
  BY <1>1, <1>2 DEF IsState
<1>4. \A n \in Existing(config) : 1 <= chain.count[n]
  <2>1. Existing(config) \subseteq Contracts
    <3>1. Existing(config) \subseteq {"collateral", "signatureVerifier"}
      BY DEF Existing
    <3>2. {"collateral", "signatureVerifier"} \subseteq FixedContracts
      BY DEF FixedContracts
    <3>. QED  BY <3>1, <3>2, NamesApart
  <2>2. \A n \in Existing(config) : chain.count[n] = 1
    BY <1>1, <2>1
  <2>. QED  BY <2>2
<1>5. Settled = chain
  BY <1>1, ReplayNothing DEF Settled
<1>6. \A f \in chain.facts : f[2] \in {"owner", "role"}
  BY <1>1, ConstructorMakes
<1>7. ChainFits(config, Settled)
  BY <1>3, <1>5, <1>6 DEF ChainFits
<1>8. CountsFit(config, chain, checkpoint) /\ RecordFits(config, Settled, checkpoint)
  BY <1>1, <1>3, <1>4, <1>7, NothingRecorded
<1>9. mempool \in Seq(ToSet(mempool)) /\ \A i \in DOMAIN mempool : Sendable(mempool[i])
  BY <1>1
<1>10. ProcessFits(config, Settled, checkpoint, process)
  BY <1>1, IdleFits DEF ProcessFits
<1>. QED  BY <1>1, <1>3, <1>7, <1>8, <1>9, <1>10, IdleFits DEF IInv

LEMMA SameFits ==
  ASSUME IInv, UNCHANGED <<config, chain, mempool, checkpoint, process>>
  PROVE  IInv'
<1>1. Settled' = Settled
  BY DEF Settled
<1>. QED  BY <1>1 DEF IInv

LEMMA NextFits ==
  ASSUME IInv, [Next]_vars
  PROVE  IInv'
<1>1. CASE UNCHANGED vars
  BY <1>1, SameFits DEF vars
<1>2. CASE \E fresh \in BOOLEAN : Start(fresh)
  BY <1>2, StartFits
<1>3. CASE StartFails
  BY <1>3, StartFailsFits
<1>4. CASE Crash
  BY <1>4, StoppedFits DEF Crash
<1>5. CASE TornSave
  BY <1>5, TornSaveFits
<1>6. CASE RetrySalt
  BY <1>6, RetrySaltFits
<1>7. CASE RecordStep
  BY <1>7, RecordStepFits
<1>8. CASE SendDeploy
  BY <1>8, SendDeployFits
<1>9. CASE SaveContract
  BY <1>9, SaveContractFits
<1>10. CASE LogContract
  BY <1>10, LogContractFits
<1>11. CASE WriteDiamondLog
  BY <1>11, WriteDiamondLogFits
<1>12. CASE ProbeCut
  BY <1>12, ProbeCutFits
<1>13. CASE SendChunk
  BY <1>13, SendChunkFits
<1>14. CASE ChunkMined
  BY <1>14, ChunkMinedFits
<1>15. CASE SendCall
  BY <1>15, SendCallFits
<1>16. CASE MarkCalls
  BY <1>16, MarkCallsFits
<1>17. CASE SendRegister
  BY <1>17, SendRegisterFits
<1>18. CASE SavePrediction
  BY <1>18, SavePredictionFits
<1>19. CASE MarkRegistered
  BY <1>19, MarkRegisteredFits
<1>20. CASE CheckViews
  BY <1>20, CheckViewsFits
<1>21. CASE RequireSetter
  BY <1>21, RequireSetterFits
<1>22. CASE SetFlag
  BY <1>22, SetFlagFits
<1>23. CASE LeaveBigBlocks
  BY <1>23, LeaveBigBlocksFits
<1>24. CASE Fail
  BY <1>24, StoppedFits DEF Fail
<1>25. CASE Finish
  BY <1>25, FinishFits
<1>26. CASE Mine
  BY <1>26, MineFits
<1>. QED  BY <1>1, <1>2, <1>3, <1>4, <1>5, <1>6, <1>7, <1>8, <1>9, <1>10, <1>11, <1>12, <1>13, <1>14, <1>15,
              <1>16, <1>17, <1>18, <1>19, <1>20, <1>21, <1>22, <1>23, <1>24, <1>25, <1>26 DEF Next, Work

----------------------------------------------------------------------------
(* What follows                                                            *)

LEMMA LinksAgree ==
  ASSUME IInv
  PROVE  WiringAgrees
<1>1. SUFFICES ASSUME NEW f \in chain.facts, f[2] = "links", f[4][1] # "partyBImplementation",
                      f[1][2] = checkpoint.contracts[f[1][1]]
               PROVE  f[4] = Address(f[4][1])
  BY DEF WiringAgrees
<1>2. f \in Settled.facts
  <2>1. KeptFacts(chain.facts, Settled.facts)
    BY SettledLater DEF Kept
  <2>. QED  BY <1>1, <2>1 DEF KeptFacts, Lasting
<1>3. Wired(checkpoint, f)
  BY <1>1, <1>2, RecordNow DEF LinksFit
<1>. QED  BY <1>1, <1>3 DEF Wired, RecordedAt, Address

LEMMA ModesFit ==
  ASSUME IInv
  PROVE  TemplateModes
<1>1. ChainFits(config, Settled)
  BY DEF IInv
<1>2. SUFFICES ASSUME NEW f \in Settled.facts, f[2] = "setTemplateInstantOpenMode"
               PROVE  Fact(f[1], "template", "InstantOpen", f[4]) \in Settled.facts
  BY DEF TemplateModes
<1>3. PICK g \in Settled.facts : g[1] = f[1] /\ g[2] = "template"
  BY <1>1, <1>2 DEF ChainFits
<1>4. f[4] = At("template", 0) /\ Fact(g[1], "template", "InstantOpen", At("template", 0)) \in Settled.facts
  BY <1>1, <1>2, <1>3 DEF ChainFits
<1>. QED  BY <1>3, <1>4

LEMMA SkippedHappened ==
  ASSUME IInv
  PROVE  SkippedTook
<1>1. config \in Configs
  BY DEF IInv
<1>2. /\ steps = Plan(config) /\ DOMAIN steps = 1..Len(steps)
      /\ \A i \in 1..Len(steps) : StepFits(config, steps[i], Before(steps, i))
  BY <1>1, StepsArePlanned
<1>3. \A n \in Contracts \ {"accountManager"} : checkpoint.contracts[n] <= chain.count[n]
  BY RecordNow DEF CountsFit, Deployable
<1>4. ASSUME NEW i \in DOMAIN steps, steps[i].kind = "calls", Skips(checkpoint, steps[i]), NEW j \in DOMAIN steps[i].calls
      PROVE  Took(Settled.facts, ResolvedCall(steps[i].calls[j]))
  <2>. DEFINE call == steps[i].calls[j]  st == steps[i]  before == Before(steps, i)
  <2>1. StepFits(config, st, before)
    BY <1>2
  <2>2. CallFits(config, st, call, before)
    BY <1>4, <2>1 DEF StepFits
  <2>3. TookFor(Settled.facts, ResolvedBy(checkpoint, call))
    BY <1>2, <1>4, RecordNow DEF StepsFit
  <2>. HIDE DEF call, st, before
  <2>4. ResolvedCall(call) = ResolvedBy(checkpoint, call)
    BY <2>2, CallAddress
  <2>5. Took(Settled.facts, ResolvedCall(call))
    BY <2>3, <2>4 DEF TookFor
  <2>. QED  BY <2>5 DEF call
<1>5. ASSUME "dummyAffiliate" \in checkpoint.flags
      PROVE  Took(Settled.facts, ResolvedCall(Call("accountLayer", "approveAffiliate", "", "accountManager")))
  <2>. DEFINE approve == Call("accountLayer", "approveAffiliate", "", "accountManager")
  <2>1. PICK i \in DOMAIN steps : steps[i] = ApproveStep
    BY <1>2, <1>5, RecordNow DEF MarksFit
  <2>2. ApproveStep.calls = << approve >>
    BY DEF ApproveStep, Setup
  <2>. HIDE DEF approve
  <2>3. 1 \in DOMAIN << approve >> /\ << approve >>[1] = approve
    OBVIOUS
  <2>4. Skips(checkpoint, ApproveStep)
    BY <1>5, ApproveFlag DEF Skips
  <2>5. Took(Settled.facts, ResolvedCall(steps[i].calls[1]))
    BY <1>4, <2>1, <2>2, <2>3, <2>4, ApproveFlag
  <2>6. Took(Settled.facts, ResolvedCall(approve))
    BY <2>1, <2>2, <2>3, <2>5
  <2>. QED  BY <2>6 DEF approve
<1>. QED  BY <1>3, <1>4, <1>5 DEF SkippedTook

\* The health check and the source verification only read.
LEMMA CheckFits ==
  ASSUME IInv, [CheckNext]_checkVars
  PROVE  IInv'
<1>1. CASE Next
  BY <1>1, NextFits
<1>2. CASE UNCHANGED checkVars
  BY <1>2, SameFits DEF checkVars
<1>3. CASE \E mode \in {"all", "skip", "retry"} : StartVerification(mode)
  BY <1>3, SameFits DEF StartVerification, vars
<1>4. CASE VerifyContract
  BY <1>4, SameFits DEF VerifyContract
<1>5. CASE FinishVerification
  BY <1>5, SameFits DEF FinishVerification, vars
<1>6. CASE KillVerification
  BY <1>6, SameFits DEF KillVerification
<1>. QED  BY <1>1, <1>2, <1>3, <1>4, <1>5, <1>6 DEF CheckNext

\* What the checkpoint says was done is true of the chain once everything sent
\* has been mined, and the process relies on it: the invariant of the
\* deployment (runSetup and the sections of deploySystem), wherever it stops.
THEOREM DeploymentInvariant == Spec => []IInv
<1>1. Init => IInv
  BY InitFits
<1>2. IInv /\ [Next]_vars => IInv'
  BY NextFits
<1>. QED  BY <1>1, <1>2, PTL DEF Spec

\* The same with the tasks that check a deployment and publish its sources.
THEOREM CheckedInvariant == CheckSpec => []IInv
<1>1. CheckInit => IInv
  BY InitFits DEF CheckInit
<1>2. IInv /\ [CheckNext]_checkVars => IInv'
  BY CheckFits
<1>. QED  BY <1>1, <1>2, PTL DEF CheckSpec

\* The contracts that the checkpoint names are linked to the instances that the
\* checkpoint names, never to one that an interrupted run deployed and forgot
\* (getDeployedAddress against the addresses given to constructors and linkers).
THEOREM WiringCorrect == (Spec => []WiringAgrees) /\ (CheckSpec => []WiringAgrees)
<1>1. IInv => WiringAgrees
  BY LinksAgree
<1>. QED  BY <1>1, DeploymentInvariant, CheckedInvariant, PTL

\* The template put in instant-open mode is the one that opens, though ids are
\* assigned by position and a step may be sent twice
\* (setupInstantLayerTemplates).
THEOREM TemplatesCorrect == (Spec => []TemplateModes) /\ (CheckSpec => []TemplateModes)
<1>1. IInv => TemplateModes
  BY ModesFit
<1>. QED  BY <1>1, DeploymentInvariant, CheckedInvariant, PTL

\* A step that a resumed run leaves out happened, or does once what was sent is
\* mined: the contracts recorded are deployed, every call marked or flagged has
\* its effect (isCompleted, isInProgressArray and the section flags).
THEOREM SkippedCorrect == (Spec => []SkippedTook) /\ (CheckSpec => []SkippedTook)
<1>1. IInv => SkippedTook
  BY SkippedHappened
<1>. QED  BY <1>1, DeploymentInvariant, CheckedInvariant, PTL

----------------------------------------------------------------------------
(* The publication of the sources                                          *)

\* The element that a list of some of S takes next.
NextOf(S, list) == CHOOSE e \in S : e \notin ToSet(list)

\* r holds the lists of the first elements of S, as they are chosen.
ListsOf(r, n, S) == r = [i \in 0..n |-> IF i = 0 THEN <<>> ELSE Append(r[i - 1], NextOf(S, r[i - 1]))]

LEMMA ListsExist ==
  ASSUME NEW n \in Nat, NEW S
  PROVE  \E r : ListsOf(r, n, S)
<1>. DEFINE Bad == { k \in Nat : ~\E r : ListsOf(r, k, S) }
<1>1. SUFFICES ASSUME Bad # {} PROVE FALSE
  OBVIOUS
<1>2. PICK m \in Bad : \A k \in Bad : m <= k
  BY <1>1, LeastNatural
<1>3. CASE m = 0
  <2>1. ListsOf([i \in 0..0 |-> <<>>], 0, S)
    BY DEF ListsOf
  <2>. QED  BY <2>1, <1>2, <1>3
<1>4. CASE m # 0
  <2>1. m \in Nat /\ m - 1 \in Nat /\ m - 1 \notin Bad
    BY <1>2, <1>4
  <2>2. PICK r : ListsOf(r, m - 1, S)
    BY <2>1
  <2>. DEFINE s == [i \in 0..m |-> IF i = m THEN Append(r[m - 1], NextOf(S, r[m - 1])) ELSE r[i]]
  <2>3. \A i \in 0..(m - 1) : r[i] = IF i = 0 THEN <<>> ELSE Append(r[i - 1], NextOf(S, r[i - 1]))
    BY <2>2 DEF ListsOf
  <2>4. \A i \in 0..m : s[i] = IF i = 0 THEN <<>> ELSE Append(s[i - 1], NextOf(S, s[i - 1]))
    <3>. TAKE i \in 0..m
    <3>1. CASE i = m
      <4>1. m - 1 \in 0..m /\ m - 1 # m
        BY <2>1
      <4>2. s[m - 1] = r[m - 1] /\ s[i] = Append(r[m - 1], NextOf(S, r[m - 1]))
        BY <3>1, <4>1
      <4>. QED  BY <3>1, <4>2, <1>4
    <3>2. CASE i # m
      <4>1. i \in 0..(m - 1) /\ s[i] = r[i]
        BY <3>2, <2>1
      <4>2. CASE i = 0
        BY <4>1, <4>2, <2>3
      <4>3. CASE i # 0
        <5>1. i - 1 \in 0..m /\ i - 1 # m
          BY <4>1, <4>3, <2>1
        <5>2. s[i - 1] = r[i - 1]
          BY <5>1
        <5>. HIDE DEF s
        <5>. QED  BY <4>1, <4>3, <5>2, <2>3
      <4>. QED  BY <4>2, <4>3
    <3>. QED  BY <3>1, <3>2
  <2>5. s = [i \in 0..m |-> s[i]]
    OBVIOUS
  <2>. HIDE DEF s
  <2>6. ListsOf(s, m, S)
    BY <2>4, <2>5 DEF ListsOf
  <2>. QED  BY <2>6, <1>2
<1>. QED  BY <1>3, <1>4

\* One more element in a list of some of S.
LEMMA ListLonger ==
  ASSUME NEW S, IsFiniteSet(S), NEW list \in Seq(S), IsFiniteSet(ToSet(list)),
         NEW k \in Nat, Cardinality(ToSet(list)) = k, k < Cardinality(S)
  PROVE  LET more == Append(list, NextOf(S, list))
         IN  /\ more \in Seq(S) /\ IsFiniteSet(ToSet(more))
             /\ Cardinality(ToSet(more)) = k + 1
<1>. DEFINE e == NextOf(S, list)  more == Append(list, e)
<1>1. ToSet(list) \subseteq S
  BY DEF ToSet
<1>2. ToSet(list) # S
  BY FS_CardinalityType
<1>3. e \in S /\ e \notin ToSet(list)
  BY <1>1, <1>2 DEF NextOf
<1>. HIDE DEF e
<1>4. more \in Seq(S)
  BY <1>3
<1>5. ToSet(more) = ToSet(list) \cup {e}
  <2>1. /\ Len(list) \in Nat /\ DOMAIN list = 1..Len(list) /\ DOMAIN more = 1..(Len(list) + 1)
        /\ more[Len(list) + 1] = e /\ \A i \in 1..Len(list) : more[i] = list[i]
    BY <1>3
  <2>. HIDE DEF more
  <2>. QED  BY <2>1 DEF ToSet
<1>. HIDE DEF more
<1>6. IsFiniteSet(ToSet(list) \cup {e}) /\ Cardinality(ToSet(list) \cup {e}) = k + 1
  BY <1>3, FS_AddElement
<1>. QED  BY <1>4, <1>5, <1>6 DEF more, e

\* The list of a finite set holds its elements.
LEMMA InSomeOrderHolds ==
  ASSUME NEW S, IsFiniteSet(S)
  PROVE  InSomeOrder(S) \in Seq(S) /\ ToSet(InSomeOrder(S)) = S
<1>. DEFINE n == Cardinality(S)
            g == CHOOSE r : r = [i \in 0..n |->
                   IF i = 0 THEN <<>> ELSE Append(r[i - 1], CHOOSE e \in S : e \notin ToSet(r[i - 1]))]
<1>1. n \in Nat
  BY FS_CardinalityType
<1>2. InSomeOrder(S) = g[n]
  BY DEF InSomeOrder
<1>3. ListsOf(g, n, S)
  <2>1. \E r : ListsOf(r, n, S)
    <3>. HIDE DEF n, g
    <3>. QED  BY <1>1, ListsExist
  <2>. HIDE DEF n
  <2>2. \E r : r = [i \in 0..n |->
                   IF i = 0 THEN <<>> ELSE Append(r[i - 1], CHOOSE e \in S : e \notin ToSet(r[i - 1]))]
    BY <2>1 DEF ListsOf, NextOf
  <2>3. g = [i \in 0..n |->
                   IF i = 0 THEN <<>> ELSE Append(g[i - 1], CHOOSE e \in S : e \notin ToSet(g[i - 1]))]
    BY <2>2
  <2>. HIDE DEF g
  <2>. QED  BY <2>3 DEF ListsOf, NextOf
<1>. HIDE DEF g
<1>4. \A i \in 0..n : g[i] = IF i = 0 THEN <<>> ELSE Append(g[i - 1], NextOf(S, g[i - 1]))
  BY <1>3 DEF ListsOf
<1>. DEFINE Good(i) == g[i] \in Seq(S) /\ IsFiniteSet(ToSet(g[i])) /\ Cardinality(ToSet(g[i])) = i
            Bad == { i \in 0..n : ~Good(i) }
<1>5. Bad = {}
  <2>1. SUFFICES ASSUME Bad # {} PROVE FALSE
    OBVIOUS
  <2>2. PICK m \in Bad : \A k \in Bad : m <= k
    <3>1. Bad \subseteq Nat
      BY <1>1
    <3>. QED  BY <2>1, <3>1, LeastNatural
  <2>3. CASE m = 0
    <3>1. g[0] = <<>>
      BY <1>1, <1>4
    <3>2. <<>> \in Seq(S) /\ ToSet(<<>>) = {}
      BY DEF ToSet
    <3>3. Good(0)
      BY <3>1, <3>2, FS_EmptySet
    <3>. QED  BY <3>3, <2>2, <2>3
  <2>4. CASE m # 0
    <3>1. m \in 0..n /\ m - 1 \in 0..n /\ m - 1 \in Nat /\ m - 1 < n /\ (m - 1) + 1 = m /\ m - 1 \notin Bad
      BY <1>1, <2>2, <2>4
    <3>2. Good(m - 1)
      BY <3>1
    <3>3. g[m] = Append(g[m - 1], NextOf(S, g[m - 1]))
      BY <1>4, <2>4, <3>1
    <3>. DEFINE list == g[m - 1]  more == Append(list, NextOf(S, list))
    <3>4. more \in Seq(S) /\ IsFiniteSet(ToSet(more)) /\ Cardinality(ToSet(more)) = (m - 1) + 1
      <4>1. /\ list \in Seq(S) /\ IsFiniteSet(ToSet(list)) /\ Cardinality(ToSet(list)) = m - 1
            /\ m - 1 < Cardinality(S)
        BY <3>1, <3>2
      <4>. HIDE DEF list
      <4>. QED  BY <4>1, <3>1, ListLonger
    <3>5. Good(m)
      BY <3>1, <3>3, <3>4
    <3>. QED  BY <3>5, <2>2
  <2>. QED  BY <2>3, <2>4
<1>6. Good(n)
  <2>1. n \in 0..n
    BY <1>1
  <2>. QED  BY <2>1, <1>5
<1>7. ToSet(g[n]) \subseteq S
  BY <1>6 DEF ToSet
<1>8. ToSet(g[n]) = S
  BY <1>6, <1>7, FS_Subset
<1>. QED  BY <1>2, <1>6, <1>8

\* The log files are finite.
LogsFit == DOMAIN logs = LogFiles /\ \A f \in LogFiles : IsFiniteSet(logs[f])

LEMMA LoggedHolds ==
  ASSUME LogsFit
  PROVE  IsSequence(Logged)
<1>1. \A f \in LogFiles : IsSequence(InSomeOrder(logs[f]))
  BY InSomeOrderHolds DEF LogsFit, IsSequence
<1>. QED  BY <1>1, Joined DEF Logged, LogFiles

\* A deployment that is done stays done; until then its process alone writes
\* the log files.
LEMMA LogsWritten ==
  ASSUME IInv, Next
  PROVE  /\ process.mode = "done" => process'.mode = "done" /\ logs' = logs
         /\ LogsFit => LogsFit'
<1>1. IsProcess(process)
  BY DEF IInv
<1>2. CASE logs' = logs
  <2>1. process.mode = "done" => process'.mode = "done"
    <3>. SUFFICES ASSUME process.mode = "done" PROVE process'.mode = "done"
      OBVIOUS
    <3>1. CASE Work
      BY <3>1 DEF Work, RecordStep, SendDeploy, SaveContract, LogContract, WriteDiamondLog, ProbeCut, SendChunk,
                  ChunkMined, SendCall, MarkCalls, SendRegister, SavePrediction, MarkRegistered, CheckViews,
                  RequireSetter, SetFlag, LeaveBigBlocks, Fail, Finish, Due
    <3>2. CASE Mine
      <4>1. process' \in { process, [process EXCEPT !.wait = "ok"], [process EXCEPT !.wait = "reverted"] }
        BY <3>2 DEF Mine
      <4>. QED  BY <4>1, <1>1 DEF IsProcess
    <3>3. CASE ~Work /\ ~Mine
      BY <3>3 DEF Next, Start, StartFails, Crash, TornSave, RetrySalt, Due
    <3>. QED  BY <3>1, <3>2, <3>3
  <2>2. LogsFit => LogsFit'
    BY <1>2 DEF LogsFit
  <2>. QED  BY <1>2, <2>1, <2>2
<1>3. CASE LogContract
  <2>1. process.mode = "running"
    BY <1>3 DEF LogContract, Due
  <2>2. ASSUME LogsFit PROVE LogsFit'
    <3>. DEFINE file == step.log
                kept == IF logs[file] # {} /\ file \in {"deployed", "symbolmanager"} THEN logs[file] ELSE {}
    <3>1. logs' = [logs EXCEPT ![file] = kept \cup {Address(step.name)}]
      BY <1>3 DEF LogContract
    <3>. HIDE DEF file
    <3>2. file \in LogFiles => IsFiniteSet(kept)
      BY <2>2, FS_EmptySet DEF LogsFit
    <3>3. file \in LogFiles => IsFiniteSet(kept \cup {Address(step.name)})
      BY <3>2, FS_AddElement
    <3>. HIDE DEF kept
    <3>4. DOMAIN logs' = LogFiles
      BY <2>2, <3>1 DEF LogsFit
    <3>5. \A f \in LogFiles : logs'[f] = IF f = file THEN kept \cup {Address(step.name)} ELSE logs[f]
      BY <2>2, <3>1 DEF LogsFit
    <3>. QED  BY <2>2, <3>3, <3>4, <3>5 DEF LogsFit
  <2>. QED  BY <2>1, <2>2
<1>4. CASE WriteDiamondLog
  <2>1. process.mode = "running" /\ step.kind = "write"
    BY <1>4 DEF WriteDiamondLog, Due
  <2>2. IsFiniteSet(step.names)
    <3>1. StepFits(config, step, Before(steps, process.pc))
      BY <2>1, Running
    <3>. QED  BY <2>1, <3>1 DEF StepFits
  <2>3. ASSUME LogsFit PROVE LogsFit'
    <3>. DEFINE file == step.file  g == [n \in step.names |-> Address(n)]  named == { g[n] : n \in step.names }
    <3>1. IsFiniteSet(named)
      <4>. DEFINE S == step.names
      <4>1. IsFiniteSet(S) /\ DOMAIN g = S /\ g = [n \in S |-> g[n]]
        BY <2>2
      <4>. HIDE DEF S, g
      <4>2. IsFiniteSet({ g[n] : n \in S })
        BY <4>1, FiniteImage
      <4>. QED  BY <4>2 DEF S
    <3>2. named = { Address(n) : n \in step.names }
      OBVIOUS
    <3>. HIDE DEF named, g
    <3>3. logs' = [logs EXCEPT ![file] = named]
      BY <1>4, <3>2 DEF WriteDiamondLog
    <3>. HIDE DEF file
    <3>4. DOMAIN logs' = LogFiles /\ \A f \in LogFiles : logs'[f] = IF f = file THEN named ELSE logs[f]
      BY <2>3, <3>3 DEF LogsFit
    <3>. QED  BY <2>3, <3>1, <3>4 DEF LogsFit
  <2>. QED  BY <2>1, <2>3
<1>5. LogContract \/ WriteDiamondLog \/ logs' = logs
  BY DEF Next, Work, Start, StartFails, Crash, TornSave, RetrySalt, RecordStep, SendDeploy, SaveContract, ProbeCut,
         SendChunk, ChunkMined, SendCall, MarkCalls, SendRegister, SavePrediction, MarkRegistered, CheckViews,
         RequireSetter, SetFlag, LeaveBigBlocks, Fail, Finish, Mine
<1>. QED  BY <1>2, <1>3, <1>4, <1>5

\* A run of verify:all and its list.
IsVerification(v) ==
  /\ v = [mode |-> v.mode, todo |-> v.todo, at |-> v.at, whole |-> v.whole,
          failed |-> v.failed, published |-> v.published, failedFile |-> v.failedFile]
  /\ v.mode \in {"idle", "all", "skip", "retry"} /\ v.at \in Nat /\ IsSequence(v.todo)
  /\ IsFiniteSet(v.failed) /\ IsFiniteSet(v.failedFile)

\* What was logged is published or, at the end of a complete run or of a retry
\* after one, listed; during the run it may still be to do.
Covers(v, logged) ==
  /\ v.whole => logged \subseteq v.published \cup v.failedFile
  /\ v.mode = "all" \/ (v.mode = "retry" /\ v.whole) =>
       logged \subseteq v.published \cup v.failed \cup ToSet(v.todo)

VerificationFits ==
  /\ LogsFit /\ IsVerification(verification)
  /\ verification.whole \/ verification.mode # "idle" => process.mode = "done"
  /\ Covers(verification, ToSet(Logged))

\* A part of a list.
LEMMA PartOfList ==
  ASSUME NEW s, IsSequence(s), NEW k \in Nat
  PROVE  IsSequence(SubSeq(s, k + 1, Len(s)))
<1>1. PICK S : s \in Seq(S)
  BY DEF IsSequence
<1>2. SubSeq(s, k + 1, Len(s)) \in Seq(S)
  BY <1>1
<1>. QED  BY <1>2 DEF IsSequence

\* The first of a list and the others.
LEMMA FirstOfList ==
  ASSUME NEW s, IsSequence(s), s # <<>>
  PROVE  IsSequence(Tail(s)) /\ ToSet(s) \subseteq {Head(s)} \cup ToSet(Tail(s))
<1>1. PICK S : s \in Seq(S)
  BY DEF IsSequence
<1>. DEFINE n == Len(s) - 1  t == Tail(s)
<1>2. /\ n \in Nat /\ DOMAIN s = 1..(n + 1) /\ t \in Seq(S) /\ DOMAIN t = 1..n /\ Head(s) = s[1]
      /\ \A i \in 1..n : t[i] = s[i + 1]
  BY <1>1
<1>. HIDE DEF n, t
<1>3. ASSUME NEW i \in 1..(n + 1) PROVE s[i] \in {Head(s)} \cup ToSet(t)
  <2>1. CASE i = 1
    BY <2>1, <1>2
  <2>2. CASE i # 1
    <3>1. i - 1 \in 1..n /\ (i - 1) + 1 = i
      BY <2>2, <1>2
    <3>2. t[i - 1] = s[i]
      BY <1>2, <3>1
    <3>. QED  BY <1>2, <3>1, <3>2 DEF ToSet
  <2>. QED  BY <2>1, <2>2
<1>. QED  BY <1>2, <1>3 DEF IsSequence, ToSet, t

LEMMA StartVerificationCovers ==
  ASSUME VerificationFits, NEW mode \in {"all", "skip", "retry"}, StartVerification(mode)
  PROVE  VerificationFits'
<1>. DEFINE v == verification  logged == ToSet(Logged)
            todo == CASE mode = "all" -> Logged
                      [] mode = "skip" -> SubSeq(Logged, v.at + 1, Len(Logged))
                      [] mode = "retry" -> InSomeOrder(v.failedFile)
            at == IF mode = "skip" THEN v.at ELSE 0
<1>1. /\ process.mode = "done" /\ process' = process /\ logs' = logs /\ v.mode = "idle"
      /\ verification' = [v EXCEPT !.mode = mode, !.failed = {}, !.at = at, !.todo = todo]
  BY DEF StartVerification, vars
<1>2. IsVerification(v) /\ Covers(v, logged) /\ LogsFit
  BY DEF VerificationFits
<1>3. IsSequence(Logged)
  BY <1>2, LoggedHolds
<1>4. /\ IsSequence(InSomeOrder(v.failedFile)) /\ ToSet(InSomeOrder(v.failedFile)) = v.failedFile
  BY <1>2, InSomeOrderHolds DEF IsVerification, IsSequence
<1>5. IsSequence(todo) /\ at \in Nat
  BY <1>2, <1>3, <1>4, PartOfList DEF IsVerification
<1>6. /\ mode = "all" => ToSet(todo) = logged
      /\ mode = "retry" => ToSet(todo) = v.failedFile
  BY <1>4
<1>7. Logged' = Logged /\ LogsFit'
  BY <1>1, <1>2 DEF Logged, LogsFit
<1>. HIDE DEF todo, at
<1>8. /\ verification'.mode = mode /\ verification'.todo = todo /\ verification'.at = at /\ verification'.whole = v.whole
      /\ verification'.failed = {} /\ verification'.published = v.published /\ verification'.failedFile = v.failedFile
      /\ verification' = [mode |-> mode, todo |-> todo, at |-> at, whole |-> v.whole,
                          failed |-> {}, published |-> v.published, failedFile |-> v.failedFile]
  BY <1>1, <1>2 DEF IsVerification
<1>. HIDE DEF v, logged
<1>9. IsVerification(verification')
  BY <1>2, <1>5, <1>8, FS_EmptySet DEF IsVerification
<1>10. Covers(verification', logged)
  BY <1>2, <1>6, <1>8 DEF Covers
<1>. QED  BY <1>1, <1>7, <1>9, <1>10 DEF VerificationFits, logged

LEMMA VerifyContractCovers ==
  ASSUME VerificationFits, VerifyContract
  PROVE  VerificationFits'
<1>. DEFINE v == verification  logged == ToSet(Logged)  entry == Head(v.todo)
            next(failed, published) ==
              [mode |-> v.mode, todo |-> Tail(v.todo), at |-> v.at + 1, whole |-> v.whole,
               failed |-> failed, published |-> published, failedFile |-> v.failedFile]
<1>1. /\ v.todo # <<>> /\ process' = process /\ logs' = logs
      /\ \E failed \in {v.failed, v.failed \cup {entry}}, published \in {v.published, v.published \cup {entry}} :
           /\ verification' = next(failed, published)
           /\ entry \in failed \cup published
  <2>1. IsVerification(v)
    BY DEF VerificationFits
  <2>2. v.todo # <<>> /\ process' = process /\ logs' = logs
    BY DEF VerifyContract
  <2>4. \/ verification' = next(v.failed, v.published \cup {entry})
        \/ verification' = next(v.failed \cup {entry}, v.published)
        \/ verification' = next(v.failed \cup {entry}, v.published \cup {entry})
    BY <2>1 DEF VerifyContract, IsVerification
  <2>. HIDE DEF next, v
  <2>. QED  BY <2>2, <2>4
<1>2. IsVerification(v) /\ Covers(v, logged) /\ LogsFit
  BY DEF VerificationFits
<1>3. IsSequence(Tail(v.todo)) /\ ToSet(v.todo) \subseteq {entry} \cup ToSet(Tail(v.todo))
  BY <1>1, <1>2, FirstOfList DEF IsVerification
<1>4. PICK failed \in {v.failed, v.failed \cup {entry}}, published \in {v.published, v.published \cup {entry}} :
        /\ verification' = next(failed, published)
        /\ entry \in failed \cup published
  BY <1>1
<1>5. /\ verification'.mode = v.mode /\ verification'.todo = Tail(v.todo) /\ verification'.at = v.at + 1
      /\ verification'.whole = v.whole /\ verification'.failed = failed
      /\ verification'.published = published /\ verification'.failedFile = v.failedFile
      /\ verification' = [mode |-> v.mode, todo |-> Tail(v.todo), at |-> v.at + 1, whole |-> v.whole,
                          failed |-> failed, published |-> published, failedFile |-> v.failedFile]
  BY <1>2, <1>4 DEF IsVerification
<1>6. IsFiniteSet(failed) /\ v.at + 1 \in Nat /\ v.mode \in {"idle", "all", "skip", "retry"} /\ IsFiniteSet(v.failedFile)
  BY <1>2, FS_AddElement DEF IsVerification
<1>7. Logged' = Logged /\ LogsFit'
  BY <1>1, <1>2 DEF Logged, LogsFit
<1>8. verification.whole \/ verification.mode # "idle" => process.mode = "done"
  BY DEF VerificationFits
<1>. HIDE DEF v, logged, entry
<1>9. IsVerification(verification')
  BY <1>3, <1>5, <1>6 DEF IsVerification
<1>10. Covers(verification', logged)
  BY <1>2, <1>3, <1>4, <1>5 DEF Covers
<1>. QED  BY <1>1, <1>5, <1>7, <1>8, <1>9, <1>10 DEF VerificationFits, logged, v

LEMMA FinishVerificationCovers ==
  ASSUME VerificationFits, FinishVerification
  PROVE  VerificationFits'
<1>. DEFINE v == verification  logged == ToSet(Logged)
            whole == IF v.mode = "retry" THEN v.whole ELSE v.mode = "all"
            file == CASE v.failed # {} -> v.failed
                      [] v.failed = {} /\ v.mode = "retry" -> {}
                      [] OTHER -> v.failedFile
<1>1. /\ v.mode # "idle" /\ v.todo = <<>> /\ process' = process /\ logs' = logs
      /\ verification' = [v EXCEPT !.mode = "idle", !.at = 0, !.failed = {}, !.whole = whole, !.failedFile = file]
  BY DEF FinishVerification, vars
<1>2. IsVerification(v) /\ Covers(v, logged) /\ LogsFit
  BY DEF VerificationFits
<1>3. /\ v.failed # {} => file = v.failed
      /\ v.failed = {} /\ v.mode = "retry" => file = {}
      /\ v.failed = {} /\ v.mode # "retry" => file = v.failedFile
  OBVIOUS
<1>4. IsFiniteSet(file)
  BY <1>2, <1>3, FS_EmptySet DEF IsVerification
<1>5. whole => v.mode = "all" \/ (v.mode = "retry" /\ v.whole)
  OBVIOUS
<1>. HIDE DEF file, whole
<1>6. /\ verification'.mode = "idle" /\ verification'.todo = <<>> /\ verification'.at = 0
      /\ verification'.whole = whole /\ verification'.failed = {}
      /\ verification'.published = v.published /\ verification'.failedFile = file
      /\ verification' = [mode |-> "idle", todo |-> <<>>, at |-> 0, whole |-> whole,
                          failed |-> {}, published |-> v.published, failedFile |-> file]
  BY <1>1, <1>2 DEF IsVerification
<1>7. ToSet(v.todo) = {} /\ IsSequence(<<>>)
  BY <1>1, <1>2 DEF ToSet, IsVerification
<1>8. Logged' = Logged /\ LogsFit'
  BY <1>1, <1>2 DEF Logged, LogsFit
<1>9. process.mode = "done"
  BY <1>1 DEF VerificationFits
<1>. HIDE DEF v, logged
<1>10. IsVerification(verification')
  BY <1>4, <1>6, <1>7, FS_EmptySet DEF IsVerification
<1>11. whole => logged \subseteq v.published \cup file
  <2>. SUFFICES ASSUME whole PROVE logged \subseteq v.published \cup file
    OBVIOUS
  <2>1. logged \subseteq v.published \cup v.failed
    BY <1>2, <1>5, <1>7 DEF Covers
  <2>. QED  BY <2>1, <1>3
<1>12. Covers(verification', logged)
  BY <1>6, <1>11 DEF Covers
<1>. QED  BY <1>1, <1>8, <1>9, <1>10, <1>12 DEF VerificationFits, logged

LEMMA KillVerificationCovers ==
  ASSUME VerificationFits, KillVerification
  PROVE  VerificationFits'
<1>. DEFINE v == verification  logged == ToSet(Logged)
<1>1. /\ v.mode # "idle" /\ process' = process /\ logs' = logs
      /\ verification' = [v EXCEPT !.mode = "idle", !.todo = <<>>, !.failed = {}]
  BY DEF KillVerification
<1>2. IsVerification(v) /\ Covers(v, logged) /\ LogsFit
  BY DEF VerificationFits
<1>3. /\ verification'.mode = "idle" /\ verification'.todo = <<>> /\ verification'.at = v.at
      /\ verification'.whole = v.whole /\ verification'.failed = {}
      /\ verification'.published = v.published /\ verification'.failedFile = v.failedFile
      /\ verification' = [mode |-> "idle", todo |-> <<>>, at |-> v.at, whole |-> v.whole,
                          failed |-> {}, published |-> v.published, failedFile |-> v.failedFile]
  BY <1>1, <1>2 DEF IsVerification
<1>4. Logged' = Logged /\ LogsFit'
  BY <1>1, <1>2 DEF Logged, LogsFit
<1>5. process.mode = "done"
  BY <1>1 DEF VerificationFits
<1>6. IsSequence(<<>>)
  BY DEF IsSequence
<1>. HIDE DEF v, logged
<1>7. IsVerification(verification')
  BY <1>2, <1>3, <1>6, FS_EmptySet DEF IsVerification
<1>8. Covers(verification', logged)
  BY <1>2, <1>3 DEF Covers
<1>. QED  BY <1>1, <1>4, <1>5, <1>7, <1>8 DEF VerificationFits, logged

LEMMA VerificationKept ==
  ASSUME IInv, VerificationFits, [CheckNext]_checkVars
  PROVE  VerificationFits'
<1>1. CASE UNCHANGED <<process, logs, verification>>
  <2>1. Logged' = Logged
    BY <1>1 DEF Logged
  <2>. QED  BY <1>1, <2>1 DEF VerificationFits, LogsFit
<1>2. CASE Next /\ UNCHANGED verification
  <2>1. LogsFit'
    BY <1>2, LogsWritten DEF VerificationFits
  <2>2. CASE process.mode = "done"
    <3>1. process'.mode = "done" /\ logs' = logs
      BY <1>2, <2>2, LogsWritten
    <3>2. Logged' = Logged
      BY <3>1 DEF Logged
    <3>. QED  BY <1>2, <2>1, <3>1, <3>2 DEF VerificationFits
  <2>3. CASE process.mode # "done"
    <3>1. ~verification.whole /\ verification.mode = "idle" /\ IsVerification(verification)
      BY <2>3 DEF VerificationFits
    <3>2. Covers(verification, ToSet(Logged'))
      BY <3>1 DEF Covers
    <3>. QED  BY <1>2, <2>1, <3>1, <3>2 DEF VerificationFits
  <2>. QED  BY <2>2, <2>3
<1>3. CASE \E mode \in {"all", "skip", "retry"} : StartVerification(mode)
  BY <1>3, StartVerificationCovers
<1>. QED  BY <1>1, <1>2, <1>3, VerifyContractCovers, FinishVerificationCovers, KillVerificationCovers
          DEF CheckNext, checkVars

LEMMA VerificationStarts ==
  ASSUME CheckInit
  PROVE  VerificationFits
<1>1. /\ logs = [f \in LogFiles |-> {}]
      /\ verification = [mode |-> "idle", todo |-> <<>>, at |-> 0, whole |-> FALSE,
                         failed |-> {}, published |-> {}, failedFile |-> {}]
  BY DEF CheckInit, Init
<1>2. LogsFit
  BY <1>1, FS_EmptySet DEF LogsFit
<1>3. IsSequence(<<>>)
  BY DEF IsSequence
<1>4. IsVerification(verification)
  BY <1>1, <1>3, FS_EmptySet DEF IsVerification
<1>5. Covers(verification, ToSet(Logged))
  BY <1>1 DEF Covers
<1>. QED  BY <1>1, <1>2, <1>4, <1>5 DEF VerificationFits

\* After a complete run of verify:all, and any retries and kills that follow,
\* each contract in the log files is published or in the list of those
\* to retry (verifyAll, saveFailures and its removal).
THEOREM VerificationCorrect == CheckSpec => []VerifiedOrListed
<1>1. CheckInit => VerificationFits
  BY VerificationStarts
<1>2. IInv /\ VerificationFits /\ [CheckNext]_checkVars => VerificationFits'
  BY VerificationKept
<1>3. VerificationFits => VerifiedOrListed
  BY DEF VerificationFits, Covers, VerifiedOrListed
<1>. QED  BY <1>1, <1>2, <1>3, CheckedInvariant, PTL DEF CheckSpec

----------------------------------------------------------------------------
(* The mined state, as the health check reads it                           *)

FacetList(d) == IF d = "diamond" THEN CoreFacets ELSE AccountFacets
Diamonds == {"diamond", "accountLayer"}

\* A diamond holds facets of its list, each once; the contracts that are given
\* a core diamond keep one; the deployer owns the diamonds it made.
FacetFits(f) == f[2] = "facet" /\ f[1][1] \in Diamonds => f[3] \in ToSet(FacetList(f[1][1]))
AttachedTo(facts, to) == \E d : d[1] = "diamond" /\ Fact(to, "links", "diamond", d) \in facts
OwnedByDeployer(facts, to) == Fact(to, "owner", "", Deployer) \in facts
MinedFits(S) ==
  /\ \A f \in S.facts : FacetFits(f) /\ (f[2] = "facet" => f = Fact(f[1], "facet", f[3], f[4]))
  /\ \A f, g \in S.facts : f[2] = "facet" /\ g[2] = "facet" /\ f[1] = g[1] /\ f[3] = g[3] => f = g
  /\ \A n \in Attached : \A k \in 1..S.count[n] : AttachedTo(S.facts, At(n, k))
  /\ \A n \in Diamonds : \A k \in 1..S.count[n] : OwnedByDeployer(S.facts, At(n, k))

\* The transactions that keep it so.
SentFits(tx) ==
  /\ Sendable(tx)
  /\ tx.kind = "deploy" /\ tx.name \in Attached => \E r \in tx.links : r[1] = "diamond"
  /\ tx.kind = "cut" =>
       /\ tx.to[1] \in Diamonds => \A x \in tx.facets : x[1] \in ToSet(FacetList(tx.to[1]))
       /\ \A x, y \in tx.facets : x[1] = y[1] => x = y
  /\ tx.kind = "call" => tx.fn \in PlanFunctions \cup {"requestToRegisterAffiliate"}

LEMMA AttachedNames == Attached \subseteq Contracts /\ Diamonds \subseteq Contracts /\ Attached \cap Diamonds = {}
                       /\ Attached \cap Nameable = {} /\ Diamonds \cap Nameable = {}
<1>1. Attached \subseteq FixedContracts /\ Diamonds \subseteq FixedContracts
  BY DEF Attached, Diamonds, FixedContracts
<1>. QED  BY <1>1, NamesApart DEF Attached, Diamonds, Nameable

\* What stays of it.
LEMMA MinedStays ==
  ASSUME NEW S, NEW T, KeptFacts(S.facts, T.facts), NEW to
  PROVE  /\ AttachedTo(S.facts, to) => AttachedTo(T.facts, to)
         /\ OwnedByDeployer(S.facts, to) => OwnedByDeployer(T.facts, to)
<1>1. \A d : Lasting(Fact(to, "links", "diamond", d))
  BY DEF Lasting, Fact
<1>2. Lasting(Fact(to, "owner", "", Deployer))
  BY DEF Lasting, Fact
<1>. QED  BY <1>1, <1>2 DEF KeptFacts, AttachedTo, OwnedByDeployer

\* Facets come from cuts only.
LEMMA NewFacets ==
  ASSUME NEW S, IsState(S), NEW tx, SentFits(tx), NEW f \in Apply(S, tx).facts, f \notin S.facts, f[2] = "facet"
  PROVE  tx.kind = "cut" /\ Accepts(S, tx) /\ \E x \in tx.facets : f = Fact(tx.to, "facet", x[1], x)
<1>1. CASE tx.kind = "deploy"
  <2>. DEFINE self == At(tx.name, S.count[tx.name] + 1)
              links == { Fact(self, "links", r[1], r) : r \in tx.links }
              made == ConstructorFacts(tx.name, self, tx.admin)
  <2>1. tx.name \in Contracts
    BY <1>1 DEF SentFits, Sendable
  <2>2. Apply(S, tx).facts = S.facts \cup links \cup made
    BY <1>1, <2>1, ApplyDeploy
  <2>3. \A g \in links : g[2] = "links"
    BY DEF Fact
  <2>4. \A g \in made : g[2] \in {"owner", "role"}
    BY ConstructorMakes
  <2>. HIDE DEF links, made
  <2>. QED  BY <2>2, <2>3, <2>4
<1>2. CASE tx.kind = "cut"
  <2>. DEFINE facets == { Fact(tx.to, "facet", x[1], x) : x \in tx.facets }
              init == IF tx.init THEN InitFacts(tx.to) ELSE {}
  <2>1. Accepts(S, tx)
    BY DEF Apply
  <2>2. Apply(S, tx) = [S EXCEPT !.facts = S.facts \cup facets \cup init]
    BY <1>2, <2>1 DEF Apply
  <2>3. \A g \in init : g[2] = "role"
    BY DEF Fact, InitFacts
  <2>. HIDE DEF facets, init
  <2>4. Apply(S, tx) = [count |-> S.count, facts |-> S.facts \cup facets \cup init]
    BY <2>2 DEF IsState
  <2>5. f \in facets
    BY <2>3, <2>4
  <2>. QED  BY <1>2, <2>1, <2>5 DEF facets
<1>3. CASE tx.kind = "call"
  <2>1. Accepts(S, tx)
    BY <1>3, ApplyCall
  <2>2. f \in CallEffect(S.facts, tx.to, tx.fn, tx.what, tx.who)
    BY <1>3, <2>1, ApplyCall
  <2>3. tx.fn # "facet"
    BY <1>3, PlanFunctionNames DEF SentFits
  <2>4. CASE tx.fn = "transferOwnership"
    <3>1. f = Fact(tx.to, "pendingOwner", "", tx.who)
      BY <2>2, <2>4 DEF CallEffect
    <3>. QED  BY <3>1 DEF Fact
  <2>5. CASE tx.fn = "addTemplate"
    <3>1. f = Fact(tx.to, "template", tx.what, At("template", Count(S.facts, tx.to, "template")))
      BY <2>2, <2>5 DEF CallEffect
    <3>. QED  BY <3>1 DEF Fact
  <2>6. CASE tx.fn \notin {"transferOwnership", "addTemplate"}
    <3>1. f[2] \in {"role", "owner", "affiliate", tx.fn}
      BY <2>2, <2>6, CallAdds
    <3>. QED  BY <2>3, <3>1
  <2>. QED  BY <2>4, <2>5, <2>6
<1>. QED  BY <1>1, <1>2, <1>3 DEF SentFits, Sendable

LEMMA MinedBy ==
  ASSUME NEW S, IsState(S), MinedFits(S), NEW tx, SentFits(tx)
  PROVE  MinedFits(Apply(S, tx))
<1>. DEFINE T == Apply(S, tx)
<1>1. Sendable(tx)
  BY DEF SentFits
<1>2. IsState(T) /\ Kept(S, T)
  BY <1>1, KeptBy
<1>3. ASSUME NEW f \in T.facts, f[2] = "facet"
      PROVE  FacetFits(f) /\ f = Fact(f[1], "facet", f[3], f[4])
  <2>1. CASE f \in S.facts
    BY <1>3, <2>1 DEF MinedFits
  <2>2. CASE f \notin S.facts
    <3>1. tx.kind = "cut"
      BY <1>3, <2>2, NewFacets
    <3>2. PICK x \in tx.facets : f = Fact(tx.to, "facet", x[1], x)
      BY <1>3, <2>2, NewFacets
    <3>3. f[1] = tx.to /\ f[3] = x[1] /\ f[4] = x
      BY <3>2 DEF Fact
    <3>. QED  BY <3>1, <3>2, <3>3 DEF FacetFits, SentFits
  <2>. QED  BY <2>1, <2>2
<1>4. ASSUME NEW f \in T.facts, NEW g \in T.facts, f[2] = "facet", g[2] = "facet", f[1] = g[1], f[3] = g[3]
      PROVE  f = g
  <2>1. CASE f \in S.facts /\ g \in S.facts
    BY <1>4, <2>1 DEF MinedFits
  <2>2. CASE f \notin S.facts /\ g \notin S.facts
    <3>1. PICK x \in tx.facets : f = Fact(tx.to, "facet", x[1], x)
      BY <1>4, <2>2, NewFacets
    <3>2. PICK y \in tx.facets : g = Fact(tx.to, "facet", y[1], y)
      BY <1>4, <2>2, NewFacets
    <3>3. tx.kind = "cut" /\ f[3] = x[1] /\ g[3] = y[1]
      BY <1>4, <2>2, <3>1, <3>2, NewFacets DEF Fact
    <3>. QED  BY <1>4, <3>1, <3>2, <3>3 DEF SentFits
  <2>3. ASSUME NEW h \in S.facts, NEW new \in T.facts, new \notin S.facts, h[2] = "facet", new[2] = "facet",
               h[1] = new[1], h[3] = new[3]
        PROVE  FALSE
    <3>1. tx.kind = "cut" /\ Accepts(S, tx)
      BY <2>3, NewFacets
    <3>2. PICK x \in tx.facets : new = Fact(tx.to, "facet", x[1], x)
      BY <2>3, NewFacets
    <3>3. new[1] = tx.to /\ new[3] = x[1]
      BY <3>2 DEF Fact
    <3>4. x[1] \in FacetsOf(S.facts, tx.to)
      BY <2>3, <3>3 DEF FacetsOf
    <3>5. x[1] \in { z[1] : z \in tx.facets }
      OBVIOUS
    <3>. QED  BY <3>1, <3>4, <3>5 DEF Accepts
  <2>. QED  BY <1>4, <2>1, <2>2, <2>3
<1>5. ASSUME NEW n \in Attached \cup Diamonds, NEW k \in 1..T.count[n], ~(k \in 1..S.count[n])
      PROVE  tx.kind = "deploy" /\ tx.name = n /\ k = S.count[n] + 1
  <2>1. n \in Contracts /\ S.count[n] \in Nat /\ T.count[n] \in Nat
    BY <1>2, AttachedNames DEF IsState
  <2>2. T.count[n] # S.count[n]
    BY <1>5
  <2>3. tx.kind = "deploy"
    BY <1>1, <2>2, ApplyCut, ApplyCall DEF Sendable
  <2>4. tx.name \in Contracts
    BY <1>1, <2>3 DEF Sendable
  <2>5. tx.name = n
    BY <2>1, <2>2, <2>3, <2>4, ApplyDeploy
  <2>6. T.count[n] = S.count[n] + 1
    BY <2>3, <2>4, <2>5, ApplyDeploy
  <2>7. \A i, m \in Nat : i \in 1..(m + 1) /\ ~(i \in 1..m) => i = m + 1
    OBVIOUS
  <2>8. k \in Nat /\ k \in 1..(S.count[n] + 1)
    BY <1>5, <2>6
  <2>. QED  BY <1>5, <2>1, <2>3, <2>5, <2>7, <2>8
<1>6. ASSUME NEW n \in Attached, NEW k \in 1..T.count[n] PROVE AttachedTo(T.facts, At(n, k))
  <2>1. CASE k \in 1..S.count[n]
    BY <1>2, <2>1, MinedStays DEF MinedFits, Kept
  <2>2. CASE ~(k \in 1..S.count[n])
    <3>1. tx.kind = "deploy" /\ tx.name = n /\ k = S.count[n] + 1
      BY <1>5, <2>2
    <3>2. PICK r \in tx.links : r[1] = "diamond"
      BY <3>1 DEF SentFits
    <3>3. n \in Contracts
      BY AttachedNames
    <3>4. Fact(At(n, k), "links", r[1], r) \in T.facts
      BY <3>1, <3>3, ApplyDeploy
    <3>. QED  BY <3>2, <3>4 DEF AttachedTo
  <2>. QED  BY <2>1, <2>2
<1>7. ASSUME NEW n \in Diamonds, NEW k \in 1..T.count[n] PROVE OwnedByDeployer(T.facts, At(n, k))
  <2>1. CASE k \in 1..S.count[n]
    BY <1>2, <2>1, MinedStays DEF MinedFits, Kept
  <2>2. CASE ~(k \in 1..S.count[n])
    <3>1. tx.kind = "deploy" /\ tx.name = n /\ k = S.count[n] + 1
      BY <1>5, <2>2
    <3>2. n \in Contracts
      BY AttachedNames
    <3>. DEFINE self == At(tx.name, S.count[tx.name] + 1)  made == ConstructorFacts(tx.name, self, tx.admin)
    <3>3. Fact(self, "owner", "", Deployer) \in made
      BY <3>1 DEF ConstructorFacts, Diamonds
    <3>4. made \subseteq T.facts
      BY <3>1, <3>2, ApplyDeploy
    <3>5. At(n, k) = self
      BY <3>1
    <3>. HIDE DEF T, made, self
    <3>6. Fact(At(n, k), "owner", "", Deployer) \in T.facts
      BY <3>3, <3>4, <3>5
    <3>. QED  BY <3>6 DEF OwnedByDeployer
  <2>. QED  BY <2>1, <2>2
<1>. HIDE DEF T
<1>8. \A f \in T.facts : FacetFits(f) /\ (f[2] = "facet" => f = Fact(f[1], "facet", f[3], f[4]))
  BY <1>3 DEF FacetFits
<1>9. MinedFits(T)
  BY <1>4, <1>6, <1>7, <1>8 DEF MinedFits
<1>. QED  BY <1>9 DEF T

\* The deployer's process sends nothing else, and only mining changes the
\* mined state.
SystemFits == MinedFits(chain) /\ \A i \in DOMAIN mempool : SentFits(mempool[i])

LEMMA CallIsSent ==
  ASSUME NEW tx, tx.kind = "call", tx.fn \in PlanFunctions \cup {"requestToRegisterAffiliate"}
  PROVE  SentFits(tx)
BY DEF SentFits, Sendable

LEMMA DeployIsSent ==
  ASSUME IInv, SendDeploy
  PROVE  \E tx : SentFits(tx) /\ mempool' = Append(mempool, tx)
<1>. DEFINE tx == [kind |-> "deploy", name |-> step.name, admin |-> At(config.admin, 0),
                   links |-> { Address(n) : n \in step.links }]
<1>1. process.mode = "running" /\ step.kind = "deploy" /\ mempool' = Append(mempool, tx)
  BY DEF SendDeploy, Due, Send
<1>2. StepFits(config, step, Before(steps, process.pc))
  BY <1>1, Running
<1>3. step.name \in Contracts /\ (step.name \in Attached => "diamond" \in step.links)
  BY <1>1, <1>2 DEF StepFits, Deployable
<1>4. tx.kind = "deploy" /\ tx.name = step.name /\ tx.links = { Address(n) : n \in step.links }
  OBVIOUS
<1>. HIDE DEF tx
<1>5. ASSUME tx.name \in Attached PROVE \E r \in tx.links : r[1] = "diamond"
  <2>1. Address("diamond") \in tx.links
    BY <1>3, <1>4, <1>5
  <2>2. Address("diamond")[1] = "diamond"
    BY DEF Address, At
  <2>. QED  BY <2>1, <2>2
<1>6. SentFits(tx)
  BY <1>3, <1>4, <1>5 DEF SentFits, Sendable
<1>. QED  BY <1>1, <1>6

LEMMA ChunkIsSent ==
  ASSUME IInv, SendChunk
  PROVE  \E tx : SentFits(tx) /\ mempool' = Append(mempool, tx)
<1>. DEFINE tx == ChunkTx
<1>1. process.mode = "running" /\ step.kind = "cut" /\ mempool' = Append(mempool, tx)
  BY DEF SendChunk, Due, Send
<1>2. StepFits(config, step, Before(steps, process.pc))
  BY <1>1, Running
<1>3. step \in CutSteps
  BY <1>1, <1>2 DEF StepFits
<1>4. step.diamond \in Diamonds /\ step.facets = FacetList(step.diamond)
  BY <1>3 DEF CutSteps, Cut, Diamonds, FacetList
<1>5. tx.kind = "cut" /\ tx.to = Address(step.diamond)
  BY DEF ChunkTx
<1>6. ASSUME NEW x \in tx.facets PROVE \E i \in DOMAIN step.facets : x = Address(step.facets[i])
  BY DEF ChunkTx
<1>7. \A n : Address(n)[1] = n
  BY DEF Address, At
<1>8. ASSUME NEW x \in tx.facets PROVE x[1] \in ToSet(FacetList(tx.to[1]))
  <2>1. PICK i \in DOMAIN step.facets : x = Address(step.facets[i])
    BY <1>6
  <2>2. x[1] = step.facets[i] /\ tx.to[1] = step.diamond
    BY <1>5, <1>7, <2>1
  <2>. QED  BY <1>4, <2>2 DEF ToSet
<1>9. ASSUME NEW x \in tx.facets, NEW y \in tx.facets, x[1] = y[1] PROVE x = y
  <2>1. PICK i \in DOMAIN step.facets : x = Address(step.facets[i])
    BY <1>6
  <2>2. PICK j \in DOMAIN step.facets : y = Address(step.facets[j])
    BY <1>6
  <2>. QED  BY <1>7, <1>9, <2>1, <2>2
<1>. HIDE DEF tx
<1>10. SentFits(tx)
  BY <1>5, <1>8, <1>9 DEF SentFits, Sendable
<1>. QED  BY <1>1, <1>10

LEMMA CallsAreSent ==
  ASSUME IInv, SendCall
  PROVE  mempool' = mempool \/ \E tx : SentFits(tx) /\ mempool' = Append(mempool, tx)
<1>1. process.mode = "running" /\ step.kind = "calls" /\ process.sub < Len(step.calls)
  BY DEF SendCall, Due
<1>2. mempool' = mempool \/ mempool' = Append(mempool, NextCall)
  BY DEF SendCall, Send
<1>3. NextCall.kind = "call" /\ TxFits(config, Settled, NextCall)
  BY <1>1, NextCallFits
<1>4. SentFits(NextCall)
  BY <1>3, CallIsSent DEF TxFits
<1>. QED  BY <1>2, <1>4

LEMMA RegisterIsSent ==
  ASSUME SendRegister
  PROVE  \E tx : SentFits(tx) /\ mempool' = Append(mempool, tx)
<1>1. RegisterTx.kind = "call" /\ RegisterTx.fn = "requestToRegisterAffiliate"
  BY DEF RegisterTx
<1>2. SentFits(RegisterTx)
  BY <1>1, CallIsSent
<1>. QED  BY <1>2 DEF SendRegister, Send

LEMMA WhatIsSent ==
  ASSUME IInv, Next, ~Mine
  PROVE  chain' = chain /\ (mempool' = mempool \/ \E tx : SentFits(tx) /\ mempool' = Append(mempool, tx))
<1>1. CASE (\E fresh \in BOOLEAN : Start(fresh)) \/ StartFails \/ Crash \/ TornSave \/ RetrySalt
  BY <1>1 DEF Start, StartFails, Crash, TornSave, RetrySalt
<1>2. CASE RecordStep \/ SaveContract \/ LogContract \/ WriteDiamondLog \/ ProbeCut \/ ChunkMined
  BY <1>2 DEF RecordStep, SaveContract, LogContract, WriteDiamondLog, ProbeCut, ChunkMined
<1>3. CASE MarkCalls \/ SavePrediction \/ MarkRegistered \/ CheckViews \/ RequireSetter \/ SetFlag
  BY <1>3 DEF MarkCalls, SavePrediction, MarkRegistered, CheckViews, RequireSetter, SetFlag
<1>4. CASE LeaveBigBlocks \/ Fail \/ Finish
  BY <1>4 DEF LeaveBigBlocks, Fail, Finish
<1>5. CASE SendDeploy
  BY <1>5, DeployIsSent DEF SendDeploy
<1>6. CASE SendChunk
  BY <1>6, ChunkIsSent DEF SendChunk
<1>7. CASE SendCall
  BY <1>7, CallsAreSent DEF SendCall
<1>8. CASE SendRegister
  BY <1>8, RegisterIsSent DEF SendRegister
<1>. QED  BY <1>1, <1>2, <1>3, <1>4, <1>5, <1>6, <1>7, <1>8 DEF Next, Work

LEMMA SystemKept ==
  ASSUME IInv, SystemFits, [CheckNext]_checkVars
  PROVE  SystemFits'
<1>1. mempool \in Seq(ToSet(mempool)) /\ IsState(chain)
  BY DEF IInv
<1>2. CASE UNCHANGED <<chain, mempool>>
  BY <1>2 DEF SystemFits
<1>3. CASE Next /\ ~Mine
  <2>1. chain' = chain
    BY <1>3, WhatIsSent
  <2>2. CASE mempool' = mempool
    BY <1>2, <2>1, <2>2
  <2>3. CASE \E tx : SentFits(tx) /\ mempool' = Append(mempool, tx)
    <3>1. PICK tx : SentFits(tx) /\ mempool' = Append(mempool, tx)
      BY <2>3
    <3>. DEFINE txs == mempool
    <3>2. txs \in Seq(ToSet(txs)) /\ \A i \in DOMAIN txs : SentFits(txs[i])
      BY <1>1 DEF SystemFits
    <3>. HIDE DEF txs
    <3>3. ASSUME NEW i \in DOMAIN Append(txs, tx) PROVE SentFits(Append(txs, tx)[i])
      <4>1. (i \in DOMAIN txs /\ Append(txs, tx)[i] = txs[i]) \/ Append(txs, tx)[i] = tx
        BY <3>2
      <4>. QED  BY <3>1, <3>2, <4>1
    <3>4. \A i \in DOMAIN mempool' : SentFits(mempool'[i])
      BY <3>1, <3>3 DEF txs
    <3>. QED  BY <2>1, <3>4 DEF SystemFits
  <2>. QED  BY <1>3, <2>2, <2>3, WhatIsSent
<1>4. CASE Mine
  <2>1. mempool # <<>> /\ chain' = Apply(chain, Head(mempool)) /\ mempool' = Tail(mempool)
    BY <1>4 DEF Mine
  <2>2. /\ 1 \in DOMAIN mempool /\ Head(mempool) = mempool[1]
        /\ \A i \in DOMAIN Tail(mempool) : i + 1 \in DOMAIN mempool /\ Tail(mempool)[i] = mempool[i + 1]
    BY <1>1, <2>1
  <2>3. SentFits(Head(mempool)) /\ MinedFits(chain)
    BY <2>2 DEF SystemFits
  <2>4. MinedFits(chain')
    BY <1>1, <2>1, <2>3, MinedBy
  <2>5. \A i \in DOMAIN mempool' : SentFits(mempool'[i])
    BY <2>1, <2>2 DEF SystemFits
  <2>. QED  BY <2>4, <2>5 DEF SystemFits
<1>5. CASE ~Next
  BY <1>2, <1>5 DEF CheckNext, checkVars, vars, StartVerification, VerifyContract, FinishVerification, KillVerification
<1>. QED  BY <1>3, <1>4, <1>5

LEMMA SystemStarts ==
  ASSUME CheckInit
  PROVE  SystemFits
<1>1. /\ mempool = <<>>
      /\ chain.count = [n \in Contracts |-> IF n \in Existing(config) THEN 1 ELSE 0]
      /\ chain.facts = IF config.verifier = "existing" /\ config.verifierAdmin
                       THEN ConstructorFacts("signatureVerifier", At("signatureVerifier", 1), Nobody) ELSE {}
  BY DEF CheckInit, Init
<1>2. \A f \in chain.facts : f[2] \in {"owner", "role"}
  BY <1>1, ConstructorMakes
<1>3. Existing(config) \subseteq Nameable
  BY DEF Existing, Nameable
<1>4. \A n \in Attached \cup Diamonds : chain.count[n] = 0
  BY <1>1, <1>3, AttachedNames
<1>5. \A n \in Attached \cup Diamonds : \A k \in 1..chain.count[n] : FALSE
  BY <1>4
<1>. QED  BY <1>1, <1>2, <1>5 DEF SystemFits, MinedFits, FacetFits

----------------------------------------------------------------------------
(* A clean health check                                                    *)

\* A check that did not fail, in a group or alone, held; nor did it warn.
LEMMA PassedCheck ==
  ASSUME NEW all, Failures(all) = {}, NEW check, NEW ok, Check(check, ok, "fail") \subseteq all
  PROVE  ok
<1>. SUFFICES ASSUME ~ok PROVE FALSE
  OBVIOUS
<1>1. Result(check, "fail") \in all
  BY DEF Check
<1>2. Result(check, "fail")[2] = "fail"
  BY DEF Result
<1>. QED  BY <1>1, <1>2 DEF Failures

LEMMA QuietCheck ==
  ASSUME NEW all, NEW known, Warnings(all) \subseteq known, NEW check, check \notin known, NEW ok,
         Check(check, ok, "warn") \subseteq all
  PROVE  ok
<1>. SUFFICES ASSUME ~ok PROVE FALSE
  OBVIOUS
<1>1. Result(check, "warn") \in all
  BY DEF Check
<1>2. Result(check, "warn")[2] = "warn" /\ Result(check, "warn")[1] = check
  BY DEF Result
<1>3. Result(check, "warn")[1] \in Warnings(all)
  BY <1>1, <1>2 DEF Warnings
<1>. QED  BY <1>2, <1>3

\* The view answered, if anything was asked of it.
LEMMA AnsweredThrough ==
  ASSUME NEW all, Failures(all) = {}, NEW answers \in BOOLEAN, NEW results, Through(answers, results) \subseteq all,
         results # {}
  PROVE  answers /\ results \subseteq all
<1>1. CASE answers
  BY <1>1 DEF Through
<1>2. CASE ~answers
  <2>1. PICK r \in results : TRUE
    OBVIOUS
  <2>2. Result(r[1], "fail") \in all
    BY <1>2, <2>1 DEF Through
  <2>3. Result(r[1], "fail")[2] = "fail"
    BY DEF Result
  <2>. QED  BY <2>2, <2>3 DEF Failures
<1>. QED  BY <1>1, <1>2

\* As many facets as the list has, each of them of the list: all of the list.
LEMMA AllFacets ==
  ASSUME NEW S, MinedFits(S), NEW to, to[1] \in Diamonds, Count(S.facts, to, "facet") = Len(FacetList(to[1]))
  PROVE  ToSet(FacetList(to[1])) \subseteq FacetsOf(S.facts, to)
<1>. DEFINE list == FacetList(to[1])  names == ToSet(list)
            held == { f \in S.facts : f[1] = to /\ f[2] = "facet" }  name == [f \in held |-> f[3]]
<1>1. IsSequence(list) /\ list \in Seq(STRING) /\ IsInjective(list)
  BY NamesAssumption DEF FacetList, Diamonds, IsSequence
<1>2. Len(list) \in Nat /\ DOMAIN list = 1..Len(list)
  BY <1>1
<1>3. IsFiniteSet(names) /\ Cardinality(names) = Len(list)
  <2>1. IsFiniteSet(1..Len(list)) /\ Cardinality(1..Len(list)) = Len(list)
    <3>. DEFINE n == Len(list)
    <3>1. n \in Nat /\ n \in Int /\ 1 \in Int
      BY <1>2
    <3>. HIDE DEF n
    <3>2. IsFiniteSet(1..n) /\ Cardinality(1..n) = (IF 1 > n THEN 0 ELSE n - 1 + 1)
      BY <3>1, FS_Interval
    <3>3. Cardinality(1..n) = n
      BY <3>1, <3>2
    <3>. QED  BY <3>2, <3>3 DEF n
  <2>2. list \in [1..Len(list) -> names]
    BY <1>1, <1>2 DEF ToSet
  <2>3. list \in Bijection(1..Len(list), names)
    <3>. HIDE DEF list
    <3>1. list \in Injection(1..Len(list), names)
      <4>. HIDE DEF names
      <4>. QED  BY <1>1, <1>2, <2>2 DEF Injection, IsInjective
    <3>2. list \in Surjection(1..Len(list), names)
      BY <1>2, <2>2 DEF Surjection, ToSet
    <3>. QED  BY <3>1, <3>2 DEF Bijection
  <2>. HIDE DEF list, names
  <2>4. ExistsBijection(1..Len(list), names)
    BY <2>3 DEF ExistsBijection
  <2>. QED  BY <2>1, <2>4, FS_Bijection
<1>4. Cardinality(held) = Len(list)
  BY DEF Count
<1>5. \A f \in held : f[3] \in names
  BY DEF MinedFits, FacetFits
<1>6. \A f, g \in held : f[3] = g[3] => f = g
  BY DEF MinedFits
<1>7. FacetsOf(S.facts, to) = { f[3] : f \in held }
  BY DEF FacetsOf
<1>. HIDE DEF list, names, held
<1>8. name \in Injection(held, names)
  BY <1>5, <1>6 DEF Injection, IsInjective
<1>. HIDE DEF name
<1>9. IsFiniteSet(held) /\ Cardinality(held) = Cardinality(names)
  BY <1>3, <1>4, <1>8, FS_Injection
<1>10. name \in Surjection(held, names)
  BY <1>3, <1>8, <1>9, FS_Injection
<1>11. ASSUME NEW n \in names PROVE n \in FacetsOf(S.facts, to)
  <2>1. PICK f \in held : name[f] = n
    BY <1>10 DEF Surjection
  <2>. QED  BY <1>7, <2>1 DEF name
<1>. QED  BY <1>11 DEF names, list

\* The addresses that the report of a deployment names.
LEMMA ReportAddresses ==
  ASSUME IInv
  PROVE  LET a == LoadAddressesFromReport
         IN  /\ a.diamond = FromCheckpoint("diamond") /\ a.accountLayer = FromCheckpoint("accountLayer")
             /\ a.instantLayer = FromCheckpoint("instantLayer") /\ a.partyB = FromCheckpoint("symmioPartyB")
             /\ a.collateral = FromCheckpoint("collateral") /\ a.admin = At(config.admin, 0)
BY DEF LoadAddressesFromReport, LoadAddressesFromCheckpoint

LEMMA ReportedAddress ==
  ASSUME IInv, NEW n \in Deployable, FromCheckpoint(n) # Nobody
  PROVE  /\ FromCheckpoint(n) = RecordedAt(checkpoint, n) /\ FromCheckpoint(n)[1] = n
         /\ FromCheckpoint(n) = At(n, checkpoint.contracts[n])
         /\ checkpoint.contracts[n] \in 1..chain.count[n]
<1>1. checkpoint.contracts[n] # 0
  BY DEF FromCheckpoint
<1>2. n \in Contracts
  BY DEF Deployable
<1>3. checkpoint.contracts[n] \in Nat /\ chain.count[n] \in Nat /\ checkpoint.contracts[n] <= chain.count[n]
  BY <1>2, RecordNow DEF IsCheckpoint, CountsFit, IInv, IsState
<1>. QED  BY <1>1, <1>2, <1>3 DEF FromCheckpoint, RecordedAt, At

\* A contract that the checkpoint names keeps the core diamond it names.
LEMMA AttachedWell ==
  ASSUME IInv, SystemFits, NEW n \in Attached, FromCheckpoint(n) # Nobody
  PROVE  Fact(FromCheckpoint(n), "links", "diamond", RecordedAt(checkpoint, "diamond")) \in chain.facts
<1>1. n \in Deployable
  BY DeployableNames DEF FixedContracts, Attached
<1>2. /\ FromCheckpoint(n) = At(n, checkpoint.contracts[n]) /\ FromCheckpoint(n)[1] = n
      /\ checkpoint.contracts[n] \in 1..chain.count[n]
  BY <1>1, ReportedAddress
<1>3. AttachedTo(chain.facts, FromCheckpoint(n))
  BY <1>2 DEF SystemFits, MinedFits
<1>4. PICK d : d[1] = "diamond" /\ Fact(FromCheckpoint(n), "links", "diamond", d) \in chain.facts
  BY <1>3 DEF AttachedTo
<1>. DEFINE f == Fact(FromCheckpoint(n), "links", "diamond", d)
<1>5. f[1] = FromCheckpoint(n) /\ f[2] = "links" /\ f[4] = d
  BY DEF Fact
<1>6. f[1][1] = n /\ f[1][2] = checkpoint.contracts[n]
  BY <1>2, <1>5 DEF At
<1>7. f \in Settled.facts
  <2>1. KeptFacts(chain.facts, Settled.facts)
    BY SettledLater DEF Kept
  <2>2. Lasting(f)
    BY DEF Lasting, Fact
  <2>. HIDE DEF f
  <2>. QED  BY <1>4, <2>1, <2>2 DEF KeptFacts, f
<1>. HIDE DEF f
<1>8. Wired(checkpoint, f)
  BY <1>5, <1>6, <1>7, RecordNow DEF LinksFit
<1>9. d = RecordedAt(checkpoint, "diamond")
  BY <1>4, <1>5, <1>8 DEF Wired
<1>. QED  BY <1>4, <1>9

\* What is checked of a diamond, of roles and of a hook.
LEMMA CleanFacets ==
  ASSUME NEW all, Failures(all) = {}, Warnings(all) \subseteq UnsetByDesign, MinedFits(chain),
         NEW to, to[1] \in Diamonds, CheckFacets(to, Len(FacetList(to[1]))) \subseteq all
  PROVE  ~Uncut(to, FacetList(to[1]))
<1>. DEFINE n == Len(FacetList(to[1]))
            check == <<to[1], "facet count", "">>  ok == Count(chain.facts, to, "facet") = n
            results == Check(check, ok, "warn")
<1>1. AnswersLoupe(to) \in BOOLEAN /\ results # {}
  BY DEF AnswersLoupe, Check
<1>2. CheckFacets(to, n) = Through(AnswersLoupe(to), results)
  BY DEF CheckFacets
<1>3. check \notin UnsetByDesign
  BY DEF UnsetByDesign, Diamonds
<1>. HIDE DEF results
<1>4. results \subseteq all
  BY <1>1, <1>2, AnsweredThrough
<1>. HIDE DEF check, ok
<1>5. ok
  BY <1>3, <1>4, QuietCheck DEF results
<1>6. ToSet(FacetList(to[1])) \subseteq FacetsOf(chain.facts, to)
  BY <1>5, AllFacets DEF ok
<1>. QED  BY <1>6 DEF Uncut

LEMMA CleanIsReady ==
  ASSUME IInv, SystemFits
  PROVE  CleanCheckMeansReady
<1>. DEFINE a == LoadAddressesFromReport  all == CheckDeployment(a)
<1>1. SUFFICES ASSUME Nobody \notin {a.diamond, a.accountLayer, a.instantLayer}, Failures(all) = {},
                      Warnings(all) \subseteq UnsetByDesign
               PROVE  /\ ~Uncut(a.diamond, CoreFacets) /\ ~Uncut(a.accountLayer, AccountFacets)
                      /\ HasRole(chain.facts, a.diamond, "INSTANT_LAYER_ROLE", a.instantLayer)
                      /\ Fact(a.diamond, "registerHook", "", a.accountLayer) \in chain.facts
                      /\ Fact(a.instantLayer, "links", "diamond", a.diamond) \in chain.facts
  BY DEF CleanCheckMeansReady
<1>2. {"diamond", "accountLayer", "instantLayer"} \subseteq Deployable
  BY DeployableNames DEF FixedContracts
<1>3. /\ a.diamond = FromCheckpoint("diamond") /\ a.accountLayer = FromCheckpoint("accountLayer")
      /\ a.instantLayer = FromCheckpoint("instantLayer")
  BY ReportAddresses
<1>4. a.diamond[1] = "diamond" /\ a.accountLayer[1] = "accountLayer" /\ a.diamond = RecordedAt(checkpoint, "diamond")
  BY <1>1, <1>2, <1>3, ReportedAddress
<1>5. VerifyCore(a) \subseteq all /\ VerifyAccountLayer(a) \subseteq all
  BY <1>1 DEF CheckDeployment, Given
<1>6. CheckFacets(a.diamond, Len(CoreFacets)) \subseteq all /\ CheckFacets(a.accountLayer, Len(AccountFacets)) \subseteq all
  BY <1>5 DEF VerifyCore, VerifyAccountLayer
<1>. DEFINE roles == VerifyCoreRoles(a)
            rest == Check(<<"diamond", "collateral", "">>,
                      IF a.collateral = Nobody THEN IsSet(a.diamond, "setCollateral", "")
                      ELSE Holds(Fact(a.diamond, "setCollateral", "", a.collateral)), "fail")
                    \cup CoreParameters(a.diamond) \cup CoreAddresses(a.diamond) \cup CoreMuon(a.diamond)
            hook == Check(<<"accountLayer", "system hook", "">>,
                      Holds(Fact(a.diamond, "registerHook", "", a.accountLayer)), "fail")
            role == CheckRole(a.diamond, a.instantLayer, "INSTANT_LAYER_ROLE")
            roleCheck == <<a.diamond[1], "INSTANT_LAYER_ROLE", a.instantLayer[1]>>
            hookCheck == <<"accountLayer", "system hook", "">>
            granted == HasRole(chain.facts, a.diamond, "INSTANT_LAYER_ROLE", a.instantLayer)
            hooked == Holds(Fact(a.diamond, "registerHook", "", a.accountLayer))
<1>7. Through(AnswersView(a.diamond), rest \cup roles) \subseteq all
  BY <1>5 DEF VerifyCore
<1>8. Through(AnswersView(a.diamond), hook) \subseteq all
  BY <1>5 DEF VerifyAccountLayer
<1>9. AnswersView(a.diamond) \in BOOLEAN /\ role # {} /\ hook # {}
  BY DEF AnswersView, CheckRole, Check
<1>10. role \subseteq rest \cup roles
  BY <1>1 DEF VerifyCoreRoles, Given
<1>11. role = Check(roleCheck, granted, "fail") /\ hook = Check(hookCheck, hooked, "fail")
  BY DEF CheckRole
<1>12. Fact(a.instantLayer, "links", "diamond", a.diamond) \in chain.facts
  BY <1>1, <1>3, <1>4, AttachedWell DEF Attached
<1>. HIDE DEF a, all, rest, roles, role, hook, roleCheck, hookCheck, granted, hooked
<1>13. role \subseteq all /\ hook \subseteq all
  BY <1>1, <1>7, <1>8, <1>9, <1>10, AnsweredThrough
<1>14. granted
  BY <1>1, <1>11, <1>13, PassedCheck
<1>15. hooked
  BY <1>1, <1>11, <1>13, PassedCheck
<1>16. ~Uncut(a.diamond, CoreFacets)
  BY <1>1, <1>4, <1>6, CleanFacets DEF FacetList, Diamonds, SystemFits
<1>17. ~Uncut(a.accountLayer, AccountFacets)
  BY <1>1, <1>4, <1>6, CleanFacets DEF FacetList, Diamonds, SystemFits
<1>. QED  BY <1>12, <1>14, <1>15, <1>16, <1>17 DEF Holds, granted, hooked

\* A health check without a failure, and without a warning but those about
\* values no deployment sets, was made on a system whose diamonds hold every
\* facet and whose contracts point to one another (verify*Full).
THEOREM CleanCheckCorrect == CheckSpec => []CleanCheckMeansReady
<1>1. CheckInit => SystemFits
  BY SystemStarts
<1>2. IInv /\ SystemFits /\ [CheckNext]_checkVars => SystemFits'
  BY SystemKept
<1>3. IInv /\ SystemFits => CleanCheckMeansReady
  BY CleanIsReady
<1>. QED  BY <1>1, <1>2, <1>3, CheckedInvariant, PTL DEF CheckSpec

----------------------------------------------------------------------------
(* The end of a run                                                        *)

\* Every contract is recorded, and every step that makes a wanted call is
\* behind; a partyB contract is recorded only where one is planned.
Taken(c, cp, key) ==
  \E i \in DOMAIN Plan(c) : Plan(c)[i].kind = "calls" /\ Plan(c)[i].key = key /\ Skips(cp, Plan(c)[i])
Complete(c, cp) ==
  /\ \A n \in Located(c) : Recorded(cp, n)
  /\ \A key \in WantedKeys(c) : Taken(c, cp, key)
PartyBPlanned(cp) == cp.contracts["symmioPartyB"] # 0 => config.deployPartyB
EndFits == PartyBPlanned(checkpoint) /\ (process.mode = "done" => Complete(config, checkpoint))

\* The last step finds all others behind it.
LEMMA AtTheEnd ==
  ASSUME IInv, process.mode = "running", step.kind = "finish"
  PROVE  Complete(config, checkpoint)
<1>. DEFINE pc == process.pc
<1>1. /\ steps = Plan(config) /\ DOMAIN steps = 1..Len(steps) /\ Len(steps) \in Nat /\ pc \in 1..Len(steps)
      /\ step = steps[pc] /\ StepFits(config, steps[pc], Before(steps, pc))
      /\ \A k \in 1..(pc - 1) : Passed(checkpoint, steps[k])
      /\ \A n \in Guarded(Before(steps, pc)) : Recorded(checkpoint, n)
  BY Running
<1>. HIDE DEF pc
<1>2. Prepared(config, Before(steps, pc))
  BY <1>1 DEF StepFits
<1>3. ASSUME NEW key \in WantedKeys(config) PROVE Taken(config, checkpoint, key)
  <2>1. PICK st \in Before(steps, pc) : st.kind = "calls" /\ key = st.key
    BY <1>2 DEF Prepared, KeysIn
  <2>2. PICK k \in 1..(pc - 1) : st = steps[k]
    BY <2>1 DEF Before
  <2>3. k \in DOMAIN steps
    BY <1>1
  <2>4. Passed(checkpoint, st)
    BY <1>1, <2>2
  <2>5. Skips(checkpoint, st)
    BY <2>1, <2>4 DEF Passed
  <2>. QED  BY <1>1, <2>1, <2>2, <2>3, <2>5 DEF Taken
<1>. QED  BY <1>1, <1>2, <1>3 DEF Prepared, Complete

\* What the steps of a run record.
LEMMA WhatIsRecorded ==
  ASSUME IInv, PartyBPlanned(checkpoint), Next
  PROVE  PartyBPlanned(checkpoint')
<1>. DEFINE fits == PartyBPlanned(checkpoint')
<1>0. IsCheckpoint(checkpoint) /\ "symmioPartyB" \in Deployable /\ "symmioPartyB" \in Contracts
  BY RecordNow, DeployableNames, NamesApart DEF FixedContracts
<1>1. CASE checkpoint' = checkpoint
  BY <1>1
<1>2. CASE \E state : checkpoint' = EmptyCheckpoint(state)
  BY <1>0, <1>2 DEF PartyBPlanned, EmptyCheckpoint
<1>3. CASE \E d : checkpoint' \in {Cutting(checkpoint, d), Marking(checkpoint, d), Flagging(checkpoint, d)}
  BY <1>0, <1>3, CuttingFields, MarkingFields, FlaggingFields DEF PartyBPlanned
<1>4. CASE \E name \in Contracts, k \in Nat :
             checkpoint' = Recording(checkpoint, name, k) /\ (name = "symmioPartyB" => config.deployPartyB)
  BY <1>0, <1>4, RecordingFields DEF PartyBPlanned
<1>5. CASE (\E fresh \in BOOLEAN : Start(fresh)) \/ StartFails \/ Crash \/ TornSave \/ RetrySalt
  BY <1>1, <1>2, <1>5 DEF Start, StartFails, Crash, TornSave, RetrySalt
<1>6. CASE SendDeploy \/ LogContract \/ WriteDiamondLog \/ SendChunk \/ SendCall \/ SendRegister \/ RequireSetter
  BY <1>1, <1>6 DEF SendDeploy, LogContract, WriteDiamondLog, SendChunk, SendCall, SendRegister, RequireSetter
<1>7. CASE LeaveBigBlocks \/ Fail \/ Mine
  BY <1>1, <1>7 DEF LeaveBigBlocks, Fail, Mine
<1>8. CASE MarkCalls \/ MarkRegistered \/ CheckViews
  BY <1>3, <1>8 DEF MarkCalls, MarkRegistered, CheckViews, MarkDone, SaveAndAdvance, Marking
<1>9. CASE ProbeCut \/ ChunkMined
  BY <1>1, <1>3, <1>9 DEF ProbeCut, ChunkMined, MarkCut, SaveAndAdvance, Cutting
<1>10. CASE SetFlag
  BY <1>3, <1>10 DEF SetFlag, SaveAndAdvance, Flagging
<1>11. CASE Finish
  <2>1. checkpoint' = [checkpoint EXCEPT !.state = "archived"]
    BY <1>11 DEF Finish
  <2>2. checkpoint'.contracts = checkpoint.contracts
    BY <1>0, <2>1, MarkedFields
  <2>. QED  BY <2>2 DEF PartyBPlanned
<1>12. CASE RecordStep
  <2>1. process.mode = "running" /\ step.kind = "record" /\ checkpoint' = Recording(checkpoint, step.guard, 1)
    BY <1>12 DEF RecordStep, Due, SaveAndAdvance, Record, Recording
  <2>2. step.guard \in Existing(config)
    BY <2>1, Running DEF StepFits
  <2>3. step.guard \in Contracts /\ step.guard # "symmioPartyB" /\ 1 \in Nat
    BY <2>2, NamesApart DEF Existing, FixedContracts
  <2>. QED  BY <1>4, <2>1, <2>3
<1>13. CASE SaveContract
  <2>1. /\ process.mode = "running" /\ step.kind = "deploy"
        /\ checkpoint' \in {checkpoint} \cup IF step.guard = step.name
                                             THEN {Recording(checkpoint, step.name, chain.count[step.name])} ELSE {}
    BY <1>13 DEF SaveContract, Due, SaveAndAdvance, Record, Recording
  <2>2. step.name \in Deployable /\ (step.guard = "symmioPartyB" => config.deployPartyB)
    BY <2>1, Running DEF StepFits
  <2>3. step.name \in Contracts /\ chain.count[step.name] \in Nat
    BY <2>2 DEF Deployable, IInv, IsState
  <2>. QED  BY <1>1, <1>4, <2>1, <2>2, <2>3
<1>14. CASE SavePrediction
  <2>1. checkpoint' = Recording(checkpoint, "accountManager", process.held)
    BY <1>14 DEF SavePrediction, Record, Recording
  <2>2. checkpoint'.contracts["symmioPartyB"] = checkpoint.contracts["symmioPartyB"]
    BY <1>0, <2>1, PredictingFields
  <2>. QED  BY <2>2 DEF PartyBPlanned
<1>. QED  BY <1>5, <1>6, <1>7, <1>8, <1>9, <1>10, <1>11, <1>12, <1>13, <1>14 DEF Next, Work

\* Only the last step ends a run.
LEMMA WhatEnds ==
  ASSUME IInv, Next, ~Finish
  PROVE  process'.mode = "done" => process.mode = "done" /\ checkpoint' = checkpoint
<1>1. \A cp, i : Position(cp, i).mode = "running"
  BY DEF Position, Idle
<1>2. Idle.mode = "idle"
  BY DEF Idle
<1>3. IsProcess(process)
  BY DEF IInv
<1>4. CASE process' = Idle \/ \E cp, i : process' = Position(cp, i)
  BY <1>1, <1>2, <1>4
<1>5. CASE process'.mode = process.mode /\ process.mode = "running"
  BY <1>5
<1>6. CASE (\E fresh \in BOOLEAN : Start(fresh)) \/ Crash \/ TornSave \/ Fail
  BY <1>4, <1>6 DEF Start, Crash, TornSave, Fail
<1>7. CASE RecordStep \/ LogContract \/ WriteDiamondLog \/ MarkCalls \/ MarkRegistered \/ CheckViews \/ RequireSetter
           \/ SetFlag \/ LeaveBigBlocks
  BY <1>4, <1>7 DEF RecordStep, LogContract, WriteDiamondLog, MarkCalls, MarkRegistered, CheckViews, RequireSetter,
                    SetFlag, LeaveBigBlocks, MarkDone, SaveAndAdvance
<1>8. CASE StartFails
  BY <1>8 DEF StartFails
<1>9. \A sub, wait, held :
        /\ Moved(process, sub).mode = process.mode /\ Waiting(process, wait).mode = process.mode
        /\ MovedWaiting(process, sub, wait).mode = process.mode
        /\ MovedHolding(process, sub, held).mode = process.mode
  BY <1>3 DEF IsProcess, Moved, Waiting, MovedWaiting, MovedHolding
<1>10. CASE SendDeploy \/ RetrySalt \/ SendChunk \/ SendCall \/ SendRegister \/ SavePrediction
  <2>1. process.mode = "running"
    BY <1>10 DEF SendDeploy, RetrySalt, SendChunk, SendCall, SendRegister, SavePrediction, Due
  <2>2. CASE SendDeploy \/ RetrySalt
    <3>1. \E sub, wait : process' = MovedWaiting(process, sub, wait)
      BY <2>2 DEF SendDeploy, RetrySalt, MovedWaiting
    <3>. QED  BY <3>1, <1>9, <2>1, <1>5
  <2>3. CASE SendChunk
    BY <1>9, <2>1, <2>3, <1>5 DEF SendChunk, Waiting
  <2>4. CASE SendCall \/ SavePrediction
    BY <1>9, <2>1, <2>4, <1>5 DEF SendCall, SavePrediction, Moved
  <2>5. CASE SendRegister
    BY <1>9, <2>1, <2>5, <1>5 DEF SendRegister, MovedHolding
  <2>. QED  BY <1>10, <2>2, <2>3, <2>4, <2>5
<1>11. CASE SaveContract \/ ProbeCut \/ ChunkMined
  <2>1. process.mode = "running"
    BY <1>11 DEF SaveContract, ProbeCut, ChunkMined, Due
  <2>2. CASE SaveContract
    <3>1. process' = MovedWaiting(process, 2, "none") \/ \E cp, i : process' = Position(cp, i)
      BY <2>2 DEF SaveContract, SaveAndAdvance, MovedWaiting
    <3>. QED  BY <3>1, <1>4, <1>9, <2>1, <1>5
  <2>3. CASE ProbeCut
    <3>1. CASE MarkCut
      BY <3>1, <1>4 DEF MarkCut, SaveAndAdvance
    <3>2. CASE ~MarkCut
      <4>1. process' = Moved(process, 1)
        BY <2>3, <3>2 DEF ProbeCut, Moved
      <4>. QED  BY <4>1, <1>5, <1>9, <2>1
    <3>. QED  BY <3>1, <3>2
  <2>4. CASE ChunkMined
    <3>1. process' = MovedWaiting(process, process.sub + 1, "none") \/ \E cp, i : process' = Position(cp, i)
      BY <2>4 DEF ChunkMined, MarkCut, SaveAndAdvance, MovedWaiting
    <3>. QED  BY <3>1, <1>4, <1>9, <2>1, <1>5
  <2>. QED  BY <1>11, <2>2, <2>3, <2>4
<1>12. CASE Mine
  <2>1. checkpoint' = checkpoint /\ process'.mode = process.mode
    BY <1>9, <1>12 DEF Mine, Waiting
  <2>. QED  BY <2>1
<1>. QED  BY <1>6, <1>7, <1>8, <1>10, <1>11, <1>12 DEF Next, Work

LEMMA NextKeepsConfig ==
  ASSUME Next
  PROVE  config' = config
<1>1. CASE (\E fresh \in BOOLEAN : Start(fresh)) \/ StartFails \/ Crash \/ TornSave \/ RetrySalt \/ Mine
  BY <1>1 DEF Start, StartFails, Crash, TornSave, RetrySalt, Mine
<1>2. CASE RecordStep \/ SendDeploy \/ SaveContract \/ LogContract \/ WriteDiamondLog \/ ProbeCut \/ SendChunk \/ ChunkMined
  BY <1>2 DEF RecordStep, SendDeploy, SaveContract, LogContract, WriteDiamondLog, ProbeCut, SendChunk, ChunkMined
<1>3. CASE SendCall \/ MarkCalls \/ SendRegister \/ SavePrediction \/ MarkRegistered
  BY <1>3 DEF SendCall, MarkCalls, SendRegister, SavePrediction, MarkRegistered
<1>4. CASE CheckViews \/ RequireSetter \/ SetFlag \/ LeaveBigBlocks \/ Fail \/ Finish
  BY <1>4 DEF CheckViews, RequireSetter, SetFlag, LeaveBigBlocks, Fail, Finish
<1>. QED  BY <1>1, <1>2, <1>3, <1>4 DEF Next, Work

LEMMA EndKept ==
  ASSUME IInv, EndFits, [CheckNext]_checkVars
  PROVE  EndFits'
<1>1. CASE UNCHANGED <<config, checkpoint, process>>
  BY <1>1 DEF EndFits, PartyBPlanned
<1>2. CASE Next
  <2>1. config' = config
    BY <1>2, NextKeepsConfig
  <2>2. PartyBPlanned(checkpoint')
    BY <1>2, WhatIsRecorded DEF EndFits
  <2>3. CASE Finish
    <3>1. process.mode = "running" /\ step.kind = "finish" /\ checkpoint' = [checkpoint EXCEPT !.state = "archived"]
      BY <2>3 DEF Finish, Due
    <3>2. Complete(config, checkpoint)
      BY <3>1, AtTheEnd
    <3>3. \A st : Skips(checkpoint', st) = Skips(checkpoint, st)
      <4>1. /\ checkpoint'.contracts = checkpoint.contracts /\ checkpoint'.cuts = checkpoint.cuts
            /\ checkpoint'.flags = checkpoint.flags /\ checkpoint'.done = checkpoint.done
        BY <3>1, RecordNow, MarkedFields
      <4>. QED  BY <4>1 DEF Skips
    <3>4. \A n : Recorded(checkpoint', n) = Recorded(checkpoint, n)
      <4>1. checkpoint'.contracts = checkpoint.contracts
        BY <3>1, RecordNow, MarkedFields
      <4>. QED  BY <4>1 DEF Recorded
    <3>5. Complete(config, checkpoint')
      BY <3>2, <3>3, <3>4 DEF Complete, Taken
    <3>. QED  BY <2>1, <2>2, <3>5 DEF EndFits, PartyBPlanned
  <2>4. CASE ~Finish
    <3>1. process'.mode = "done" => process.mode = "done" /\ checkpoint' = checkpoint
      BY <1>2, <2>4, WhatEnds
    <3>. QED  BY <2>1, <2>2, <3>1 DEF EndFits, PartyBPlanned
  <2>. QED  BY <2>3, <2>4
<1>3. CASE ~Next
  <2>1. UNCHANGED <<config, checkpoint, process>>
    BY <1>3 DEF CheckNext, checkVars, vars, StartVerification, VerifyContract, FinishVerification, KillVerification
  <2>. QED  BY <1>1, <2>1
<1>. QED  BY <1>2, <1>3

LEMMA EndStarts ==
  ASSUME CheckInit
  PROVE  EndFits
<1>1. checkpoint = EmptyCheckpoint("none") /\ process = Idle /\ "symmioPartyB" \in Contracts
  BY NamesApart DEF CheckInit, Init, FixedContracts
<1>. QED  BY <1>1 DEF EndFits, PartyBPlanned, EmptyCheckpoint, Idle

----------------------------------------------------------------------------
(* The calls of a completed deployment                                     *)

\* A deployment that completed and whose transactions are mined.
Completed == IInv /\ SystemFits /\ PartyBPlanned(checkpoint) /\ Complete(config, checkpoint) /\ mempool = <<>>
Named(n) == RecordedAt(checkpoint, n)

LEMMA CallsTook ==
  ASSUME Completed, NEW key \in WantedKeys(config), NEW j \in DOMAIN CallsOf(config, key)
  PROVE  Took(chain.facts, ResolvedBy(checkpoint, CallsOf(config, key)[j]))
<1>1. PICK i \in DOMAIN Plan(config) :
        Plan(config)[i].kind = "calls" /\ Plan(config)[i].key = key /\ Skips(checkpoint, Plan(config)[i])
  BY DEF Completed, Complete, Taken
<1>2. Settled = chain
  BY ReplayNothing DEF Completed, Settled
<1>3. config \in Configs /\ IInv
  BY DEF Completed, IInv
<1>4. FitsAfter(config, {}, Plan(config))
  BY <1>3, PlanFits
<1>5. Plan(config)[i].calls = CallsOf(config, key)
  BY <1>1, <1>4 DEF FitsAfter, StepFits
<1>6. TookFor(Settled.facts, ResolvedBy(checkpoint, CallsOf(config, key)[j]))
  BY <1>1, <1>3, <1>5, RecordNow DEF StepsFit
<1>. QED  BY <1>2, <1>6 DEF TookFor

LEMMA CallFields ==
  ASSUME NEW to, NEW fn, NEW what, NEW who
  PROVE  LET tx == ResolvedBy(checkpoint, Call(to, fn, what, who))
         IN  tx.to = Named(to) /\ tx.fn = fn /\ tx.what = what /\ tx.who = Named(who)
BY DEF ResolvedBy, Call, Named

\* The one call of a step.
LEMMA CallTook ==
  ASSUME Completed, NEW key \in WantedKeys(config), NEW call, CallsOf(config, key) = << call >>
  PROVE  Took(chain.facts, ResolvedBy(checkpoint, call))
<1>1. 1 \in DOMAIN << call >> /\ << call >>[1] = call
  OBVIOUS
<1>. QED  BY <1>1, CallsTook

Setters ==
  {"registerHook", "setWhitelistedSymmioCore", "setAccountLayer", "setSignatureVerifierAddress", "setCollateral",
   "setParameter", "setTargetWhitelist", "registerPartyB", "setMulticastWhitelist", "registerPartyBs"}

LEMMA TookSetter ==
  ASSUME NEW facts, NEW tx, tx.fn \in Setters, Took(facts, tx)
  PROVE  Fact(tx.to, tx.fn, tx.what, tx.who) \in facts
<1>1. /\ tx.fn # "setAdmin" /\ tx.fn # "grantRole" /\ tx.fn # "transferOwnership" /\ tx.fn # "acceptOwnership"
      /\ tx.fn # "addTemplate" /\ tx.fn # "approveAffiliate"
  BY DEF Setters
<1>. QED  BY <1>1 DEF Took

LEMMA TookGrant ==
  ASSUME NEW facts, NEW tx, tx.fn = "grantRole", Took(facts, tx)
  PROVE  HasRole(facts, tx.to, tx.what, tx.who)
BY DEF Took

LEMMA TookTemplate ==
  ASSUME NEW facts, NEW tx, tx.fn = "addTemplate", Took(facts, tx)
  PROVE  \E f \in facts : f[1] = tx.to /\ f[2] = "template" /\ f[3] = tx.what
BY DEF Took

LEMMA SetterTook ==
  ASSUME Completed, NEW key \in WantedKeys(config), NEW to, NEW fn \in Setters, NEW what, NEW who,
         CallsOf(config, key) = << Call(to, fn, what, who) >>
  PROVE  Fact(Named(to), fn, what, Named(who)) \in chain.facts
<1>. DEFINE tx == ResolvedBy(checkpoint, Call(to, fn, what, who))
<1>1. Took(chain.facts, tx)
  BY CallTook
<1>2. tx.to = Named(to) /\ tx.fn = fn /\ tx.what = what /\ tx.who = Named(who)
  BY CallFields
<1>. HIDE DEF tx
<1>. QED  BY <1>1, <1>2, TookSetter

LEMMA ThisGrantTook ==
  ASSUME NEW to, NEW role, NEW who, Took(chain.facts, ResolvedBy(checkpoint, Grant(to, role, who)))
  PROVE  HasRole(chain.facts, Named(to), role, Named(who))
<1>. DEFINE tx == ResolvedBy(checkpoint, Grant(to, role, who))
<1>1. tx.to = Named(to) /\ tx.fn = "grantRole" /\ tx.what = role /\ tx.who = Named(who)
  BY CallFields DEF Grant
<1>. HIDE DEF tx
<1>. QED  BY <1>1, TookGrant DEF tx

LEMMA GrantTook ==
  ASSUME Completed, NEW key \in WantedKeys(config), NEW to, NEW role, NEW who,
         CallsOf(config, key) = << Grant(to, role, who) >>
  PROVE  HasRole(chain.facts, Named(to), role, Named(who))
BY CallTook, ThisGrantTook

LEMMA TemplateTook ==
  ASSUME Completed, NEW key \in WantedKeys(config), NEW to, NEW what, NEW who,
         CallsOf(config, key) = << Call(to, "addTemplate", what, who) >>
  PROVE  IsSet(Named(to), "template", what)
<1>. DEFINE tx == ResolvedBy(checkpoint, Call(to, "addTemplate", what, who))
<1>1. Took(chain.facts, tx)
  BY CallTook
<1>2. tx.to = Named(to) /\ tx.fn = "addTemplate" /\ tx.what = what
  BY CallFields
<1>. HIDE DEF tx
<1>. QED  BY <1>1, <1>2, TookTemplate DEF IsSet

LEMMA FactIsSet ==
  ASSUME NEW to, NEW predicate, NEW what, NEW who, Fact(to, predicate, what, who) \in chain.facts
  PROVE  IsSet(to, predicate, what)
BY DEF IsSet, Fact

----------------------------------------------------------------------------
(* What those calls left                                                   *)

LEMMA KeysWanted ==
  /\ CoreKeys \subseteq WantedKeys(config) /\ AccountKeys \subseteq WantedKeys(config)
  /\ VerifierKeys \subseteq WantedKeys(config) /\ ParameterKeys \subseteq WantedKeys(config)
  /\ InstantKeys \subseteq WantedKeys(config)
  /\ config.deployPartyB => PartyBKeys \subseteq WantedKeys(config)
  /\ config.templates => TemplateKeys \subseteq WantedKeys(config)
BY DEF WantedKeys

LEMMA CoreCallsTook ==
  ASSUME Completed
  PROVE  /\ \A r \in ToSet(DiamondRoles) : HasRole(chain.facts, Named("diamond"), r, Named(config.admin))
         /\ \A r \in {"SIGNER_ADMIN_ROLE", "AFFILIATE_MANAGER_ROLE", "BALANCE_SETTLER_ROLE"} :
              HasRole(chain.facts, Named("diamond"), r, Named("accountLayer"))
         /\ HasRole(chain.facts, Named("diamond"), "INSTANT_LAYER_ROLE", Named("instantLayer"))
         /\ Fact(Named("diamond"), "registerHook", "", Named("accountLayer")) \in chain.facts
<1>1. ASSUME NEW r \in ToSet(DiamondRoles) PROVE HasRole(chain.facts, Named("diamond"), r, Named(config.admin))
  <2>. DEFINE key == <<"diamondRoles", r>>
  <2>1. key \in WantedKeys(config)
    BY KeysWanted DEF CoreKeys
  <2>2. CallsOf(config, key) = << Grant("diamond", r, config.admin) >>
    BY DEF CallsOf
  <2>. HIDE DEF key
  <2>. QED  BY <2>1, <2>2, GrantTook
<1>2. ASSUME NEW r \in {"SIGNER_ADMIN_ROLE", "AFFILIATE_MANAGER_ROLE", "BALANCE_SETTLER_ROLE"}
      PROVE  HasRole(chain.facts, Named("diamond"), r, Named("accountLayer"))
  <2>. DEFINE key == Plain("alRolesOnDiamond")
              a == Grant("diamond", "SIGNER_ADMIN_ROLE", "accountLayer")
              b == Grant("diamond", "AFFILIATE_MANAGER_ROLE", "accountLayer")
              d == Grant("diamond", "BALANCE_SETTLER_ROLE", "accountLayer")
              list == << a, b, d >>
  <2>1. key \in WantedKeys(config)
    BY KeysWanted DEF CoreKeys
  <2>2. CallsOf(config, key) = list
    BY DEF CallsOf, Plain
  <2>. HIDE DEF key, a, b, d
  <2>3. {1, 2, 3} \subseteq DOMAIN list /\ list[1] = a /\ list[2] = b /\ list[3] = d
    OBVIOUS
  <2>. HIDE DEF list
  <2>4. /\ Took(chain.facts, ResolvedBy(checkpoint, a)) /\ Took(chain.facts, ResolvedBy(checkpoint, b))
        /\ Took(chain.facts, ResolvedBy(checkpoint, d))
    BY <2>1, <2>2, <2>3, CallsTook
  <2>5. /\ HasRole(chain.facts, Named("diamond"), "SIGNER_ADMIN_ROLE", Named("accountLayer"))
        /\ HasRole(chain.facts, Named("diamond"), "AFFILIATE_MANAGER_ROLE", Named("accountLayer"))
        /\ HasRole(chain.facts, Named("diamond"), "BALANCE_SETTLER_ROLE", Named("accountLayer"))
    BY <2>4, ThisGrantTook DEF a, b, d
  <2>. QED  BY <2>5
<1>3. HasRole(chain.facts, Named("diamond"), "INSTANT_LAYER_ROLE", Named("instantLayer"))
  <2>. DEFINE key == Plain("ilRoleOnDiamond")
  <2>1. key \in WantedKeys(config)
    BY KeysWanted DEF CoreKeys
  <2>2. CallsOf(config, key) = << Grant("diamond", "INSTANT_LAYER_ROLE", "instantLayer") >>
    BY DEF CallsOf, Plain
  <2>. HIDE DEF key
  <2>. QED  BY <2>1, <2>2, GrantTook
<1>4. Fact(Named("diamond"), "registerHook", "", Named("accountLayer")) \in chain.facts
  <2>. DEFINE key == Plain("registerHook")
  <2>1. key \in WantedKeys(config) /\ "registerHook" \in Setters
    BY KeysWanted DEF CoreKeys, Setters
  <2>2. CallsOf(config, key) = << Call("diamond", "registerHook", "", "accountLayer") >>
    BY DEF CallsOf, Plain
  <2>. HIDE DEF key
  <2>. QED  BY <2>1, <2>2, SetterTook
<1>. QED  BY <1>1, <1>2, <1>3, <1>4

LEMMA ParameterCallsTook ==
  ASSUME Completed
  PROVE  /\ Fact(Named("diamond"), "setCollateral", "", Named("collateral")) \in chain.facts
         /\ \A p \in ToSet(Parameters) : IsSet(Named("diamond"), "setParameter", p.name)
         /\ IsSet(Named("diamond"), "setSignatureVerifierAddress", "")
<1>1. Fact(Named("diamond"), "setCollateral", "", Named("collateral")) \in chain.facts
  <2>. DEFINE key == Plain("setCollateral")
  <2>1. key \in WantedKeys(config) /\ "setCollateral" \in Setters
    BY KeysWanted DEF ParameterKeys, Setters
  <2>2. CallsOf(config, key) = << Call("diamond", "setCollateral", "", "collateral") >>
    BY DEF CallsOf, Plain
  <2>. HIDE DEF key
  <2>. QED  BY <2>1, <2>2, SetterTook
<1>2. ASSUME NEW p \in ToSet(Parameters) PROVE IsSet(Named("diamond"), "setParameter", p.name)
  <2>. DEFINE key == <<"parameter", p.name>>
  <2>1. key \in WantedKeys(config) /\ "setParameter" \in Setters
    BY KeysWanted DEF ParameterKeys, Setters
  <2>2. CallsOf(config, key) = << Call("diamond", "setParameter", p.name, "value") >>
    BY DEF CallsOf
  <2>. HIDE DEF key
  <2>3. Fact(Named("diamond"), "setParameter", p.name, Named("value")) \in chain.facts
    BY <2>1, <2>2, SetterTook
  <2>. QED  BY <2>3, FactIsSet
<1>3. IsSet(Named("diamond"), "setSignatureVerifierAddress", "")
  <2>. DEFINE key == Plain("setSignatureVerifier")
  <2>1. key \in WantedKeys(config) /\ "setSignatureVerifierAddress" \in Setters
    BY KeysWanted DEF VerifierKeys, Setters
  <2>2. CallsOf(config, key) = << Call("diamond", "setSignatureVerifierAddress", "", "signatureVerifier") >>
    BY DEF CallsOf, Plain
  <2>. HIDE DEF key
  <2>3. Fact(Named("diamond"), "setSignatureVerifierAddress", "", Named("signatureVerifier")) \in chain.facts
    BY <2>1, <2>2, SetterTook
  <2>. QED  BY <2>3, FactIsSet
<1>. QED  BY <1>1, <1>2, <1>3

LEMMA AccountCallsTook ==
  ASSUME Completed
  PROVE  /\ \A r \in {"DEFAULT_ADMIN_ROLE", "SETTER_ROLE", "APPROVER_ROLE", "PAUSER_ROLE", "UNPAUSER_ROLE"} :
              HasRole(chain.facts, Named("accountLayer"), r, Named(config.admin))
         /\ HasRole(chain.facts, Named("accountLayer"), "SIGNER_SETTER_ROLE", Named("instantLayer"))
         /\ Fact(Named("accountLayer"), "setWhitelistedSymmioCore", "", Named("diamond")) \in chain.facts
         /\ Fact(Named("instantLayer"), "setAccountLayer", "", Named("accountLayer")) \in chain.facts
<1>1. HasRole(chain.facts, Named("accountLayer"), "DEFAULT_ADMIN_ROLE", Named(config.admin))
  <2>. DEFINE key == Plain("alDefaultAdmin")
  <2>1. key \in WantedKeys(config)
    BY KeysWanted DEF AccountKeys
  <2>2. CallsOf(config, key) = << Grant("accountLayer", "DEFAULT_ADMIN_ROLE", config.admin) >>
    BY DEF CallsOf, Plain
  <2>. HIDE DEF key
  <2>. QED  BY <2>1, <2>2, GrantTook
<1>2. /\ HasRole(chain.facts, Named("accountLayer"), "SETTER_ROLE", Named(config.admin))
      /\ HasRole(chain.facts, Named("accountLayer"), "APPROVER_ROLE", Named(config.admin))
      /\ HasRole(chain.facts, Named("accountLayer"), "PAUSER_ROLE", Named(config.admin))
      /\ HasRole(chain.facts, Named("accountLayer"), "UNPAUSER_ROLE", Named(config.admin))
  <2>. DEFINE key == Plain("alAdminRoles")
              a == Grant("accountLayer", "SETTER_ROLE", config.admin)
              b == Grant("accountLayer", "APPROVER_ROLE", config.admin)
              d == Grant("accountLayer", "PAUSER_ROLE", config.admin)
              e == Grant("accountLayer", "UNPAUSER_ROLE", config.admin)
              list == << a, b, d, e >>
  <2>1. key \in WantedKeys(config)
    BY KeysWanted DEF AccountKeys
  <2>2. CallsOf(config, key) = list
    BY DEF CallsOf, Plain
  <2>. HIDE DEF key, a, b, d, e
  <2>3. {1, 2, 3, 4} \subseteq DOMAIN list /\ list[1] = a /\ list[2] = b /\ list[3] = d /\ list[4] = e
    OBVIOUS
  <2>. HIDE DEF list
  <2>4. /\ Took(chain.facts, ResolvedBy(checkpoint, a)) /\ Took(chain.facts, ResolvedBy(checkpoint, b))
        /\ Took(chain.facts, ResolvedBy(checkpoint, d)) /\ Took(chain.facts, ResolvedBy(checkpoint, e))
    BY <2>1, <2>2, <2>3, CallsTook
  <2>. QED  BY <2>4, ThisGrantTook DEF a, b, d, e
<1>3. HasRole(chain.facts, Named("accountLayer"), "SIGNER_SETTER_ROLE", Named("instantLayer"))
  <2>. DEFINE key == Plain("ilRoleOnAL")
  <2>1. key \in WantedKeys(config)
    BY KeysWanted DEF AccountKeys
  <2>2. CallsOf(config, key) = << Grant("accountLayer", "SIGNER_SETTER_ROLE", "instantLayer") >>
    BY DEF CallsOf, Plain
  <2>. HIDE DEF key
  <2>. QED  BY <2>1, <2>2, GrantTook
<1>4. Fact(Named("accountLayer"), "setWhitelistedSymmioCore", "", Named("diamond")) \in chain.facts
  <2>. DEFINE key == Plain("alWhitelistSymmio")
  <2>1. key \in WantedKeys(config) /\ "setWhitelistedSymmioCore" \in Setters
    BY KeysWanted DEF AccountKeys, Setters
  <2>2. CallsOf(config, key) = << Call("accountLayer", "setWhitelistedSymmioCore", "", "diamond") >>
    BY DEF CallsOf, Plain
  <2>. HIDE DEF key
  <2>. QED  BY <2>1, <2>2, SetterTook
<1>5. Fact(Named("instantLayer"), "setAccountLayer", "", Named("accountLayer")) \in chain.facts
  <2>. DEFINE key == Plain("ilSetAccountLayer")
  <2>1. key \in WantedKeys(config) /\ "setAccountLayer" \in Setters
    BY KeysWanted DEF AccountKeys, Setters
  <2>2. CallsOf(config, key) = << Call("instantLayer", "setAccountLayer", "", "accountLayer") >>
    BY DEF CallsOf, Plain
  <2>. HIDE DEF key
  <2>. QED  BY <2>1, <2>2, SetterTook
<1>. QED  BY <1>1, <1>2, <1>3, <1>4, <1>5

LEMMA InstantCallsTook ==
  ASSUME Completed
  PROVE  /\ \A r \in {"DEFAULT_ADMIN_ROLE", "SETTER_ROLE"} :
              HasRole(chain.facts, Named("instantLayer"), r, Named(config.admin))
         /\ Fact(Named("instantLayer"), "setTargetWhitelist", "diamond", Named("diamond")) \in chain.facts
         /\ Fact(Named("instantLayer"), "setTargetWhitelist", "accountLayer", Named("accountLayer")) \in chain.facts
         /\ config.templates => \A t \in {"InstantOpen", "InstantClose", "InstantCloseWithAllocation"} :
                                  IsSet(Named("instantLayer"), "template", t)
<1>1. HasRole(chain.facts, Named("instantLayer"), "DEFAULT_ADMIN_ROLE", Named(config.admin))
  <2>. DEFINE key == Plain("ilDefaultAdmin")
  <2>1. key \in WantedKeys(config)
    BY KeysWanted DEF InstantKeys
  <2>2. CallsOf(config, key) = << Grant("instantLayer", "DEFAULT_ADMIN_ROLE", config.admin) >>
    BY DEF CallsOf, Plain
  <2>. HIDE DEF key
  <2>. QED  BY <2>1, <2>2, GrantTook
<1>2. HasRole(chain.facts, Named("instantLayer"), "SETTER_ROLE", Named(config.admin))
  <2>. DEFINE key == Plain("ilGrantSetterRole")
  <2>1. key \in WantedKeys(config)
    BY KeysWanted DEF InstantKeys
  <2>2. CallsOf(config, key) = << Grant("instantLayer", "SETTER_ROLE", config.admin) >>
    BY DEF CallsOf, Plain
  <2>. HIDE DEF key
  <2>. QED  BY <2>1, <2>2, GrantTook
<1>3. Fact(Named("instantLayer"), "setTargetWhitelist", "diamond", Named("diamond")) \in chain.facts
  <2>. DEFINE key == Plain("ilWhitelistDiamond")
  <2>1. key \in WantedKeys(config) /\ "setTargetWhitelist" \in Setters
    BY KeysWanted DEF InstantKeys, Setters
  <2>2. CallsOf(config, key) = << Call("instantLayer", "setTargetWhitelist", "diamond", "diamond") >>
    BY DEF CallsOf, Plain
  <2>. HIDE DEF key
  <2>. QED  BY <2>1, <2>2, SetterTook
<1>4. Fact(Named("instantLayer"), "setTargetWhitelist", "accountLayer", Named("accountLayer")) \in chain.facts
  <2>. DEFINE key == Plain("ilWhitelistAL")
  <2>1. key \in WantedKeys(config) /\ "setTargetWhitelist" \in Setters
    BY KeysWanted DEF InstantKeys, Setters
  <2>2. CallsOf(config, key) = << Call("instantLayer", "setTargetWhitelist", "accountLayer", "accountLayer") >>
    BY DEF CallsOf, Plain
  <2>. HIDE DEF key
  <2>. QED  BY <2>1, <2>2, SetterTook
<1>5. ASSUME config.templates PROVE IsSet(Named("instantLayer"), "template", "InstantOpen")
  <2>. DEFINE key == Plain("instantOpen")
  <2>1. key \in WantedKeys(config)
    BY <1>5, KeysWanted DEF TemplateKeys
  <2>2. CallsOf(config, key) = << Call("instantLayer", "addTemplate", "InstantOpen", "") >>
    BY DEF CallsOf, Plain
  <2>. HIDE DEF key
  <2>. QED  BY <2>1, <2>2, TemplateTook
<1>6. ASSUME config.templates PROVE IsSet(Named("instantLayer"), "template", "InstantClose")
  <2>. DEFINE key == Plain("instantClose")
  <2>1. key \in WantedKeys(config)
    BY <1>6, KeysWanted DEF TemplateKeys
  <2>2. CallsOf(config, key) = << Call("instantLayer", "addTemplate", "InstantClose", "") >>
    BY DEF CallsOf, Plain
  <2>. HIDE DEF key
  <2>. QED  BY <2>1, <2>2, TemplateTook
<1>7. ASSUME config.templates PROVE IsSet(Named("instantLayer"), "template", "InstantCloseWithAllocation")
  <2>. DEFINE key == Plain("instantCloseWithAllocation")
  <2>1. key \in WantedKeys(config)
    BY <1>7, KeysWanted DEF TemplateKeys
  <2>2. CallsOf(config, key) = << Call("instantLayer", "addTemplate", "InstantCloseWithAllocation", "") >>
    BY DEF CallsOf, Plain
  <2>. HIDE DEF key
  <2>. QED  BY <2>1, <2>2, TemplateTook
<1>. QED  BY <1>1, <1>2, <1>3, <1>4, <1>5, <1>6, <1>7

LEMMA PartyBCallsTook ==
  ASSUME Completed, config.deployPartyB
  PROVE  /\ \A r \in {"DEFAULT_ADMIN_ROLE", "MANAGER_ROLE", "SETTER_ROLE"} :
              HasRole(chain.facts, Named("symmioPartyB"), r, Named(config.admin))
         /\ HasRole(chain.facts, Named("symmioPartyB"), "TRUSTED_ROLE", Named("instantLayer"))
         /\ Fact(Named("diamond"), "registerPartyB", "", Named("symmioPartyB")) \in chain.facts
         /\ Fact(Named("instantLayer"), "registerPartyBs", "", Named("symmioPartyB")) \in chain.facts
         /\ Fact(Named("symmioPartyB"), "setMulticastWhitelist", "", Named("instantLayer")) \in chain.facts
<1>1. HasRole(chain.facts, Named("symmioPartyB"), "DEFAULT_ADMIN_ROLE", Named(config.admin))
  <2>. DEFINE key == Plain("pbDefaultAdmin")
  <2>1. key \in WantedKeys(config)
    BY KeysWanted DEF PartyBKeys
  <2>2. CallsOf(config, key) = << Grant("symmioPartyB", "DEFAULT_ADMIN_ROLE", config.admin) >>
    BY DEF CallsOf, Plain
  <2>. HIDE DEF key
  <2>. QED  BY <2>1, <2>2, GrantTook
<1>2. HasRole(chain.facts, Named("symmioPartyB"), "MANAGER_ROLE", Named(config.admin))
  <2>. DEFINE key == Plain("pbManagerRole")
  <2>1. key \in WantedKeys(config)
    BY KeysWanted DEF PartyBKeys
  <2>2. CallsOf(config, key) = << Grant("symmioPartyB", "MANAGER_ROLE", config.admin) >>
    BY DEF CallsOf, Plain
  <2>. HIDE DEF key
  <2>. QED  BY <2>1, <2>2, GrantTook
<1>3. HasRole(chain.facts, Named("symmioPartyB"), "SETTER_ROLE", Named(config.admin))
  <2>. DEFINE key == Plain("pbSetterRole")
  <2>1. key \in WantedKeys(config)
    BY KeysWanted DEF PartyBKeys
  <2>2. CallsOf(config, key) = << Grant("symmioPartyB", "SETTER_ROLE", config.admin) >>
    BY DEF CallsOf, Plain
  <2>. HIDE DEF key
  <2>. QED  BY <2>1, <2>2, GrantTook
<1>4. HasRole(chain.facts, Named("symmioPartyB"), "TRUSTED_ROLE", Named("instantLayer"))
  <2>. DEFINE key == Plain("pbTrustedRole")
  <2>1. key \in WantedKeys(config)
    BY KeysWanted DEF PartyBKeys
  <2>2. CallsOf(config, key) = << Grant("symmioPartyB", "TRUSTED_ROLE", "instantLayer") >>
    BY DEF CallsOf, Plain
  <2>. HIDE DEF key
  <2>. QED  BY <2>1, <2>2, GrantTook
<1>5. Fact(Named("diamond"), "registerPartyB", "", Named("symmioPartyB")) \in chain.facts
  <2>. DEFINE key == Plain("registerPartyB")
  <2>1. key \in WantedKeys(config) /\ "registerPartyB" \in Setters
    BY KeysWanted DEF PartyBKeys, Setters
  <2>2. CallsOf(config, key) = << Call("diamond", "registerPartyB", "", "symmioPartyB") >>
    BY DEF CallsOf, Plain
  <2>. HIDE DEF key
  <2>. QED  BY <2>1, <2>2, SetterTook
<1>6. Fact(Named("instantLayer"), "registerPartyBs", "", Named("symmioPartyB")) \in chain.facts
  <2>. DEFINE key == Plain("ilRegisterPartyB")
  <2>1. key \in WantedKeys(config) /\ "registerPartyBs" \in Setters
    BY KeysWanted DEF PartyBKeys, Setters
  <2>2. CallsOf(config, key) = << Call("instantLayer", "registerPartyBs", "", "symmioPartyB") >>
    BY DEF CallsOf, Plain
  <2>. HIDE DEF key
  <2>. QED  BY <2>1, <2>2, SetterTook
<1>7. Fact(Named("symmioPartyB"), "setMulticastWhitelist", "", Named("instantLayer")) \in chain.facts
  <2>. DEFINE key == Plain("pbMulticastWhitelist")
  <2>1. key \in WantedKeys(config) /\ "setMulticastWhitelist" \in Setters
    BY KeysWanted DEF PartyBKeys, Setters
  <2>2. CallsOf(config, key) = << Call("symmioPartyB", "setMulticastWhitelist", "", "instantLayer") >>
    BY DEF CallsOf, Plain
  <2>. HIDE DEF key
  <2>. QED  BY <2>1, <2>2, SetterTook
<1>. QED  BY <1>1, <1>2, <1>3, <1>4, <1>5, <1>6, <1>7

----------------------------------------------------------------------------
(* The health check of a completed deployment                              *)

\* The failures that a completed deployment may show, and results without
\* another.
Excused(r) ==
  \/ r[2] = "template" /\ ~config.templates
  \/ r[2] = "owner" /\ r[1] \in Diamonds /\ config.admin # "deployer"
Good(results) == \A q \in results : q[2] = "fail" => Excused(q[1])

LEMMA GoodUnion ==
  ASSUME NEW A, NEW B, Good(A), Good(B)
  PROVE  Good(A \cup B)
BY DEF Good

LEMMA GoodNone == Good({})
BY DEF Good

LEMMA GoodCheck ==
  ASSUME NEW check, NEW ok, NEW otherwise, ok \/ otherwise = "warn" \/ Excused(check)
  PROVE  Good(Check(check, ok, otherwise))
<1>. SUFFICES ASSUME NEW q \in Check(check, ok, otherwise), q[2] = "fail" PROVE Excused(q[1])
  BY DEF Good
<1>1. CASE ok
  BY <1>1 DEF Check, Result
<1>2. CASE ~ok
  <2>1. q[1] = check /\ q[2] = otherwise
    BY <1>2 DEF Check, Result
  <2>. QED  BY <1>2, <2>1
<1>. QED  BY <1>1, <1>2

LEMMA GoodWarning ==
  ASSUME NEW check
  PROVE  Good({ Result(check, "warn") })
BY DEF Good, Result

LEMMA GoodThrough ==
  ASSUME NEW answers, NEW results, answers, Good(results)
  PROVE  Good(Through(answers, results))
BY DEF Through

LEMMA GoodGiven ==
  ASSUME NEW address, NEW results, address # Nobody => Good(results)
  PROVE  Good(Given(address, results))
BY GoodNone DEF Given

LEMMA GoodGivenAdmin ==
  ASSUME NEW contract, NEW admin, NEW results, Good(results)
  PROVE  Good(GivenAdmin(contract, admin, results))
BY GoodWarning DEF GivenAdmin

LEMMA GoodRole ==
  ASSUME NEW contract, NEW holder, NEW role, HasRole(chain.facts, contract, role, holder)
  PROVE  Good(CheckRole(contract, holder, role))
BY GoodCheck DEF CheckRole

LEMMA GoodRoles ==
  ASSUME NEW contract, NEW holder, NEW roles, \A r \in roles : HasRole(chain.facts, contract, r, holder)
  PROVE  Good(CheckRoles(contract, holder, roles))
<1>1. \A r \in roles : Good(CheckRole(contract, holder, r))
  BY GoodRole
<1>. QED  BY <1>1 DEF CheckRoles, Good

\* The addresses of its report.
LEMMA EndAddresses ==
  ASSUME Completed
  PROVE  LET a == LoadAddressesFromReport
         IN  /\ a.diamond = Named("diamond") /\ a.accountLayer = Named("accountLayer")
             /\ a.instantLayer = Named("instantLayer") /\ a.collateral = Named("collateral")
             /\ a.admin = Named(config.admin) /\ a.admin = At(config.admin, 0)
             /\ a.partyB # Nobody => config.deployPartyB /\ a.partyB = Named("symmioPartyB")
             /\ a.diamond[1] = "diamond" /\ a.accountLayer[1] = "accountLayer"
             /\ OwnedByDeployer(chain.facts, a.diamond) /\ OwnedByDeployer(chain.facts, a.accountLayer)
             /\ a.partyB # Nobody => Fact(a.partyB, "links", "diamond", a.diamond) \in chain.facts
<1>. DEFINE a == LoadAddressesFromReport
<1>1. IInv /\ SystemFits /\ MinedFits(chain) /\ config \in Configs
  BY DEF Completed, IInv, SystemFits
<1>2. /\ a.diamond = FromCheckpoint("diamond") /\ a.accountLayer = FromCheckpoint("accountLayer")
      /\ a.instantLayer = FromCheckpoint("instantLayer") /\ a.partyB = FromCheckpoint("symmioPartyB")
      /\ a.collateral = FromCheckpoint("collateral") /\ a.admin = At(config.admin, 0)
  BY <1>1, ReportAddresses
<1>. HIDE DEF a
<1>3. /\ {"diamond", "accountLayer", "instantLayer", "collateral", "symmioPartyB"} \subseteq Deployable
      /\ {"diamond", "accountLayer", "instantLayer", "collateral"} \subseteq Located(config)
  BY DeployableNames DEF FixedContracts, Located
<1>4. ASSUME NEW n \in Deployable, checkpoint.contracts[n] # 0
      PROVE  FromCheckpoint(n) = Named(n) /\ FromCheckpoint(n) = At(n, checkpoint.contracts[n])
  BY <1>4 DEF FromCheckpoint, Named, RecordedAt, At, Deployable
<1>5. \A n \in Located(config) : checkpoint.contracts[n] # 0
  BY DEF Completed, Complete, Recorded
<1>6. /\ a.diamond = Named("diamond") /\ a.accountLayer = Named("accountLayer")
      /\ a.instantLayer = Named("instantLayer") /\ a.collateral = Named("collateral")
  BY <1>2, <1>3, <1>4, <1>5
<1>7. a.admin = Named(config.admin)
  <2>1. config.admin \notin Contracts
    BY <1>1, ConfigFacts
  <2>. QED  BY <1>2, <2>1 DEF Named, RecordedAt
<1>8. a.partyB # Nobody => checkpoint.contracts["symmioPartyB"] # 0
  BY <1>2 DEF FromCheckpoint
<1>9. a.partyB # Nobody => config.deployPartyB /\ a.partyB = Named("symmioPartyB")
  BY <1>2, <1>3, <1>4, <1>8 DEF Completed, PartyBPlanned
<1>10. ASSUME NEW n \in Diamonds
       PROVE  FromCheckpoint(n)[1] = n /\ OwnedByDeployer(chain.facts, FromCheckpoint(n))
  <2>1. n \in Deployable /\ checkpoint.contracts[n] # 0
    BY <1>3, <1>5 DEF Diamonds
  <2>2. FromCheckpoint(n) = At(n, checkpoint.contracts[n])
    BY <1>4, <2>1
  <2>3. checkpoint.contracts[n] \in 1..chain.count[n]
    <3>1. n \in Contracts /\ checkpoint.contracts[n] \in Nat /\ chain.count[n] \in Nat
      BY <1>1, <2>1, RecordNow DEF IsCheckpoint, IInv, IsState, Deployable
    <3>2. checkpoint.contracts[n] <= chain.count[n]
      BY <1>1, <2>1, <3>1, RecordNow DEF CountsFit, IInv
    <3>. QED  BY <2>1, <3>1, <3>2
  <2>. QED  BY <1>1, <2>2, <2>3 DEF MinedFits, At
<1>11. /\ a.diamond[1] = "diamond" /\ a.accountLayer[1] = "accountLayer"
       /\ OwnedByDeployer(chain.facts, a.diamond) /\ OwnedByDeployer(chain.facts, a.accountLayer)
  BY <1>2, <1>10 DEF Diamonds
<1>12. a.partyB # Nobody => Fact(a.partyB, "links", "diamond", a.diamond) \in chain.facts
  BY <1>1, <1>2, <1>6, AttachedWell DEF Attached, Named
<1>. QED  BY <1>2, <1>6, <1>7, <1>9, <1>11, <1>12 DEF a

\* The owner and the facets of a diamond.
LEMMA OwnerIsGood ==
  ASSUME NEW diamond, diamond[1] \in Diamonds, AnswersView(diamond), OwnedByDeployer(chain.facts, diamond)
  PROVE  Good(CheckDiamondOwner(diamond, At(config.admin, 0)))
<1>. DEFINE admin == At(config.admin, 0)  check == <<diamond[1], "owner", "">>
            ok == IF admin = Nobody THEN IsSet(diamond, "owner", "") ELSE Holds(Fact(diamond, "owner", "", admin))
            pending == IF AnswersView(diamond) /\ IsSet(diamond, "pendingOwner", "")
                       THEN { Result(<<diamond[1], "pending owner", "">>, "warn") } ELSE {}
<1>1. CheckDiamondOwner(diamond, admin) = Through(AnswersView(diamond), Check(check, ok, "fail")) \cup pending
  BY DEF CheckDiamondOwner
<1>2. Good(pending)
  BY GoodWarning, GoodNone
<1>3. ASSUME config.admin = "deployer" PROVE ok
  <2>1. admin = Deployer
    BY <1>3 DEF Deployer
  <2>2. Fact(diamond, "owner", "", Deployer) \in chain.facts
    BY DEF OwnedByDeployer
  <2>3. IsSet(diamond, "owner", "")
    BY <2>2, FactIsSet
  <2>. QED  BY <2>1, <2>2, <2>3 DEF Holds
<1>4. check[1] = diamond[1] /\ check[2] = "owner"
  OBVIOUS
<1>. HIDE DEF check, ok, pending
<1>5. Good(Check(check, ok, "fail"))
  BY <1>3, <1>4, GoodCheck DEF Excused
<1>. QED  BY <1>1, <1>2, <1>5, GoodThrough, GoodUnion

LEMMA FacetsAreGood ==
  ASSUME NEW diamond, NEW expected, AnswersLoupe(diamond)
  PROVE  Good(CheckFacets(diamond, expected))
BY GoodCheck, GoodThrough DEF CheckFacets

\* The groups of checks.
LEMMA CoreIsGood ==
  ASSUME Completed, AnswersView(LoadAddressesFromReport.diamond), AnswersLoupe(LoadAddressesFromReport.diamond)
  PROVE  Good(VerifyCore(LoadAddressesFromReport))
<1>. DEFINE a == LoadAddressesFromReport
            collateral == Check(<<"diamond", "collateral", "">>,
                            IF a.collateral = Nobody THEN IsSet(a.diamond, "setCollateral", "")
                            ELSE Holds(Fact(a.diamond, "setCollateral", "", a.collateral)), "fail")
            admin == GivenAdmin(a.diamond, a.admin, CheckRoles(a.diamond, a.admin, CheckedRoles))
            accounts == Given(a.accountLayer, CheckRoles(a.diamond, a.accountLayer,
                               {"SIGNER_ADMIN_ROLE", "AFFILIATE_MANAGER_ROLE", "BALANCE_SETTLER_ROLE"}))
            instants == Given(a.instantLayer, CheckRole(a.diamond, a.instantLayer, "INSTANT_LAYER_ROLE"))
<1>1. /\ a.diamond = Named("diamond") /\ a.accountLayer = Named("accountLayer")
      /\ a.instantLayer = Named("instantLayer") /\ a.collateral = Named("collateral")
      /\ a.admin = Named(config.admin) /\ a.admin = At(config.admin, 0)
      /\ a.diamond[1] \in Diamonds /\ OwnedByDeployer(chain.facts, a.diamond)
  BY EndAddresses DEF Diamonds
<1>2. AnswersView(a.diamond) /\ AnswersLoupe(a.diamond)
  OBVIOUS
<1>3. VerifyCore(a) = CheckFacets(a.diamond, Len(CoreFacets)) \cup CheckDiamondOwner(a.diamond, a.admin)
        \cup Through(AnswersView(a.diamond),
               collateral \cup CoreParameters(a.diamond) \cup CoreAddresses(a.diamond) \cup CoreMuon(a.diamond)
               \cup VerifyCoreRoles(a))
  BY DEF VerifyCore
<1>4. VerifyCoreRoles(a) = admin \cup accounts \cup instants
  BY DEF VerifyCoreRoles
<1>5. Good(collateral)
  <2>1. Fact(a.diamond, "setCollateral", "", a.collateral) \in chain.facts
    BY <1>1, ParameterCallsTook
  <2>2. IsSet(a.diamond, "setCollateral", "")
    BY <2>1, FactIsSet
  <2>. HIDE DEF a
  <2>. QED  BY <2>1, <2>2, GoodCheck DEF Holds
<1>. HIDE DEF a, collateral
<1>6. Good(CoreParameters(a.diamond))
  <2>1. ASSUME NEW p \in ToSet(Parameters), NEW otherwise
        PROVE  Good(Check(<<"diamond", "parameter", p.name>>, IsSet(a.diamond, "setParameter", p.name), otherwise))
    BY <1>1, ParameterCallsTook, GoodCheck
  <2>. QED  BY <2>1 DEF CoreParameters, Good
<1>7. Good(CoreAddresses(a.diamond))
  <2>1. IsSet(a.diamond, "setSignatureVerifierAddress", "")
    BY <1>1, ParameterCallsTook
  <2>2. Good(Check(<<"diamond", "signature verifier", "">>, IsSet(a.diamond, "setSignatureVerifierAddress", ""), "fail"))
    BY <2>1, GoodCheck
  <2>3. /\ Good(Check(<<"diamond", "penalty collector", "">>, FALSE, "warn"))
        /\ Good(Check(<<"diamond", "insurance vault", "">>, FALSE, "warn"))
    BY GoodCheck
  <2>. QED  BY <2>2, <2>3, GoodUnion DEF CoreAddresses
<1>8. Good(CoreMuon(a.diamond))
  BY GoodCheck, GoodUnion DEF CoreMuon
<1>9. Good(admin)
  BY <1>1, CoreCallsTook, GoodRoles, GoodGivenAdmin DEF CheckedRoles
<1>10. Good(accounts)
  BY <1>1, CoreCallsTook, GoodRoles, GoodGiven
<1>11. Good(instants)
  BY <1>1, CoreCallsTook, GoodRole, GoodGiven
<1>12. Good(CheckFacets(a.diamond, Len(CoreFacets))) /\ Good(CheckDiamondOwner(a.diamond, a.admin))
  BY <1>1, <1>2, FacetsAreGood, OwnerIsGood
<1>. HIDE DEF admin, accounts, instants
<1>13. Good(VerifyCoreRoles(a))
  BY <1>4, <1>9, <1>10, <1>11, GoodUnion
<1>14. Good(collateral \cup CoreParameters(a.diamond) \cup CoreAddresses(a.diamond) \cup CoreMuon(a.diamond)
            \cup VerifyCoreRoles(a))
  BY <1>5, <1>6, <1>7, <1>8, <1>13, GoodUnion
<1>. QED  BY <1>2, <1>3, <1>12, <1>14, GoodThrough, GoodUnion DEF a

LEMMA AccountLayerIsGood ==
  ASSUME Completed, AnswersView(LoadAddressesFromReport.diamond),
         AnswersView(LoadAddressesFromReport.accountLayer), AnswersLoupe(LoadAddressesFromReport.accountLayer)
  PROVE  Good(VerifyAccountLayer(LoadAddressesFromReport))
<1>. DEFINE a == LoadAddressesFromReport
            admin == GivenAdmin(a.accountLayer, a.admin,
                       CheckRoles(a.accountLayer, a.admin,
                         {"DEFAULT_ADMIN_ROLE", "SETTER_ROLE", "APPROVER_ROLE", "PAUSER_ROLE", "UNPAUSER_ROLE"}))
            instants == Given(a.instantLayer, CheckRole(a.accountLayer, a.instantLayer, "SIGNER_SETTER_ROLE"))
            core == Check(<<"accountLayer", "core whitelisted", "">>,
                      Holds(Fact(a.accountLayer, "setWhitelistedSymmioCore", "", a.diamond)), "fail")
            hook == Check(<<"accountLayer", "system hook", "">>,
                      Holds(Fact(a.diamond, "registerHook", "", a.accountLayer)), "fail")
<1>1. /\ a.diamond = Named("diamond") /\ a.accountLayer = Named("accountLayer")
      /\ a.instantLayer = Named("instantLayer") /\ a.admin = Named(config.admin) /\ a.admin = At(config.admin, 0)
      /\ a.accountLayer[1] \in Diamonds /\ OwnedByDeployer(chain.facts, a.accountLayer)
  BY EndAddresses DEF Diamonds
<1>2. AnswersView(a.diamond) /\ AnswersView(a.accountLayer) /\ AnswersLoupe(a.accountLayer)
  OBVIOUS
<1>3. VerifyAccountLayer(a) =
        CheckFacets(a.accountLayer, Len(AccountFacets)) \cup CheckDiamondOwner(a.accountLayer, a.admin)
        \cup Through(AnswersView(a.accountLayer), admin \cup instants \cup core)
        \cup Through(AnswersView(a.diamond), hook)
  BY DEF VerifyAccountLayer
<1>. HIDE DEF a
<1>4. Good(admin)
  BY <1>1, AccountCallsTook, GoodRoles, GoodGivenAdmin
<1>5. Good(instants)
  BY <1>1, AccountCallsTook, GoodRole, GoodGiven
<1>6. Good(core)
  BY <1>1, AccountCallsTook, GoodCheck DEF Holds
<1>7. Good(hook)
  BY <1>1, CoreCallsTook, GoodCheck DEF Holds
<1>8. Good(CheckFacets(a.accountLayer, Len(AccountFacets))) /\ Good(CheckDiamondOwner(a.accountLayer, a.admin))
  BY <1>1, <1>2, FacetsAreGood, OwnerIsGood
<1>. HIDE DEF admin, instants, core, hook
<1>9. Good(Through(AnswersView(a.accountLayer), admin \cup instants \cup core))
  BY <1>2, <1>4, <1>5, <1>6, GoodUnion, GoodThrough
<1>10. Good(Through(AnswersView(a.diamond), hook))
  BY <1>2, <1>7, GoodThrough
<1>11. Good(CheckFacets(a.accountLayer, Len(AccountFacets)) \cup CheckDiamondOwner(a.accountLayer, a.admin))
  BY <1>8, GoodUnion
<1>12. Good(CheckFacets(a.accountLayer, Len(AccountFacets)) \cup CheckDiamondOwner(a.accountLayer, a.admin)
            \cup Through(AnswersView(a.accountLayer), admin \cup instants \cup core))
  BY <1>9, <1>11, GoodUnion
<1>13. Good(VerifyAccountLayer(a))
  BY <1>3, <1>10, <1>12, GoodUnion
<1>. QED  BY <1>13 DEF a

LEMMA InstantLayerIsGood ==
  ASSUME Completed
  PROVE  Good(VerifyInstantLayer(LoadAddressesFromReport))
<1>. DEFINE a == LoadAddressesFromReport
            layer == Check(<<"instantLayer", "account layer", "">>,
                       Holds(Fact(a.instantLayer, "setAccountLayer", "", a.accountLayer)), "fail")
            listed == Check(<<"instantLayer", "account layer whitelisted", "">>,
                        Holds(Fact(a.instantLayer, "setTargetWhitelist", "accountLayer", a.accountLayer)), "fail")
            core == Check(<<"instantLayer", "diamond whitelisted", "">>,
                      Holds(Fact(a.instantLayer, "setTargetWhitelist", "diamond", a.diamond)), "fail")
            admin == GivenAdmin(a.instantLayer, a.admin,
                       CheckRoles(a.instantLayer, a.admin, {"DEFAULT_ADMIN_ROLE", "SETTER_ROLE"}))
            names == {"InstantOpen", "InstantClose", "InstantCloseWithAllocation"}
            templates == UNION { Check(<<"instantLayer", "template", t>>, IsSet(a.instantLayer, "template", t), "fail") :
                                 t \in names }
<1>1. /\ a.diamond = Named("diamond") /\ a.accountLayer = Named("accountLayer")
      /\ a.instantLayer = Named("instantLayer") /\ a.admin = Named(config.admin)
  BY EndAddresses
<1>2. VerifyInstantLayer(a) = Given(a.accountLayer, layer \cup listed) \cup core \cup admin \cup templates
  BY DEF VerifyInstantLayer
<1>. HIDE DEF a
<1>3. Good(layer)
  BY <1>1, AccountCallsTook, GoodCheck DEF Holds
<1>4. Good(listed) /\ Good(core)
  BY <1>1, InstantCallsTook, GoodCheck DEF Holds
<1>5. Good(admin)
  BY <1>1, InstantCallsTook, GoodRoles, GoodGivenAdmin
<1>6. Good(templates)
  <2>1. ASSUME NEW t \in names
        PROVE  Good(Check(<<"instantLayer", "template", t>>, IsSet(a.instantLayer, "template", t), "fail"))
    <3>. DEFINE check == <<"instantLayer", "template", t>>  ok == IsSet(a.instantLayer, "template", t)
    <3>1. config.templates => ok
      BY <1>1, InstantCallsTook
    <3>2. check[2] = "template"
      OBVIOUS
    <3>. HIDE DEF check, ok
    <3>. QED  BY <3>1, <3>2, GoodCheck DEF Excused, check, ok
  <2>. HIDE DEF names
  <2>. QED  BY <2>1 DEF Good
<1>. HIDE DEF layer, listed, core, admin, templates
<1>7. Good(Given(a.accountLayer, layer \cup listed))
  BY <1>3, <1>4, GoodUnion, GoodGiven
<1>8. Good(Given(a.accountLayer, layer \cup listed) \cup core)
  BY <1>4, <1>7, GoodUnion
<1>9. Good(Given(a.accountLayer, layer \cup listed) \cup core \cup admin)
  BY <1>5, <1>8, GoodUnion
<1>10. Good(VerifyInstantLayer(a))
  BY <1>2, <1>6, <1>9, GoodUnion
<1>. QED  BY <1>10 DEF a

LEMMA PartyBIsGood ==
  ASSUME Completed, LoadAddressesFromReport.partyB # Nobody, AnswersView(LoadAddressesFromReport.diamond)
  PROVE  Good(VerifyPartyB(LoadAddressesFromReport))
<1>. DEFINE a == LoadAddressesFromReport
            link == Check(<<"symmioPartyB", "symmio", "">>,
                      Holds(Fact(a.partyB, "links", "diamond", a.diamond)), "fail")
            onCore == Check(<<"symmioPartyB", "registered", "diamond">>,
                        Holds(Fact(a.diamond, "registerPartyB", "", a.partyB)), "fail")
            admin == GivenAdmin(a.partyB, a.admin,
                       CheckRoles(a.partyB, a.admin, {"DEFAULT_ADMIN_ROLE", "MANAGER_ROLE", "SETTER_ROLE"}))
            onLayer == Check(<<"symmioPartyB", "registered", "instantLayer">>,
                         Holds(Fact(a.instantLayer, "registerPartyBs", "", a.partyB)), "fail")
            trusted == CheckRole(a.partyB, a.instantLayer, "TRUSTED_ROLE")
            multicast == Check(<<"symmioPartyB", "multicast", "">>,
                           Holds(Fact(a.partyB, "setMulticastWhitelist", "", a.instantLayer)), "fail")
            signer == Check(<<"symmioPartyB", "signer", "">>, IsSet(a.partyB, "setSigner", ""), "warn")
<1>1. /\ a.diamond = Named("diamond") /\ a.instantLayer = Named("instantLayer") /\ a.admin = Named(config.admin)
      /\ config.deployPartyB /\ a.partyB = Named("symmioPartyB")
      /\ Fact(a.partyB, "links", "diamond", a.diamond) \in chain.facts
  BY EndAddresses
<1>2. VerifyPartyB(a) = link \cup Through(AnswersView(a.diamond), onCore) \cup admin
        \cup Given(a.instantLayer, onLayer \cup trusted \cup multicast) \cup signer
  BY DEF VerifyPartyB
<1>3. AnswersView(a.diamond)
  OBVIOUS
<1>. HIDE DEF a
<1>4. Good(link)
  BY <1>1, GoodCheck DEF Holds
<1>5. Good(onCore) /\ Good(onLayer) /\ Good(multicast)
  BY <1>1, PartyBCallsTook, GoodCheck DEF Holds
<1>6. Good(admin)
  BY <1>1, PartyBCallsTook, GoodRoles, GoodGivenAdmin
<1>7. Good(trusted)
  BY <1>1, PartyBCallsTook, GoodRole
<1>8. Good(signer)
  BY GoodCheck
<1>. HIDE DEF link, onCore, admin, onLayer, trusted, multicast, signer
<1>9. Good(Through(AnswersView(a.diamond), onCore))
  BY <1>3, <1>5, GoodThrough
<1>10. Good(Given(a.instantLayer, onLayer \cup trusted \cup multicast))
  BY <1>5, <1>7, GoodUnion, GoodGiven
<1>11. Good(link \cup Through(AnswersView(a.diamond), onCore) \cup admin)
  BY <1>4, <1>6, <1>9, GoodUnion
<1>12. Good(VerifyPartyB(a))
  BY <1>2, <1>8, <1>10, <1>11, GoodUnion
<1>. QED  BY <1>12 DEF a

LEMMA EndIsGood ==
  ASSUME Completed, ~Uncut(LoadAddressesFromReport.diamond, CoreFacets),
         ~Uncut(LoadAddressesFromReport.accountLayer, AccountFacets)
  PROVE  Good(CheckDeployment(LoadAddressesFromReport))
<1>. DEFINE a == LoadAddressesFromReport
<1>1. a.diamond[1] = "diamond" /\ a.accountLayer[1] = "accountLayer"
  BY EndAddresses
<1>2. /\ AnswersView(a.diamond) /\ AnswersLoupe(a.diamond)
      /\ AnswersView(a.accountLayer) /\ AnswersLoupe(a.accountLayer)
  <2>1. \A n \in ToSet(CoreFacets) : n \in FacetsOf(chain.facts, a.diamond)
    BY DEF Uncut
  <2>2. \A n \in ToSet(AccountFacets) : n \in FacetsOf(chain.facts, a.accountLayer)
    BY DEF Uncut
  <2>. HIDE DEF a
  <2>. QED  BY <1>1, <2>1, <2>2, ViewsAssumption DEF AnswersView, AnswersLoupe
<1>3. /\ Good(VerifyCore(a)) /\ Good(VerifyAccountLayer(a)) /\ Good(VerifyInstantLayer(a))
      /\ a.partyB # Nobody => Good(VerifyPartyB(a))
  BY <1>2, CoreIsGood, AccountLayerIsGood, InstantLayerIsGood, PartyBIsGood
<1>4. CheckDeployment(a) =
        IF a.diamond = Nobody THEN {}
        ELSE VerifyCore(a) \cup Given(a.accountLayer, VerifyAccountLayer(a))
             \cup Given(a.instantLayer, VerifyInstantLayer(a)) \cup Given(a.partyB, VerifyPartyB(a))
  BY DEF CheckDeployment
<1>. HIDE DEF a
<1>5. /\ Good(Given(a.accountLayer, VerifyAccountLayer(a))) /\ Good(Given(a.instantLayer, VerifyInstantLayer(a)))
      /\ Good(Given(a.partyB, VerifyPartyB(a)))
  BY <1>3, GoodGiven
<1>6. Good(VerifyCore(a) \cup Given(a.accountLayer, VerifyAccountLayer(a)))
  BY <1>3, <1>5, GoodUnion
<1>7. Good(VerifyCore(a) \cup Given(a.accountLayer, VerifyAccountLayer(a))
           \cup Given(a.instantLayer, VerifyInstantLayer(a)))
  BY <1>5, <1>6, GoodUnion
<1>8. Good(VerifyCore(a) \cup Given(a.accountLayer, VerifyAccountLayer(a))
           \cup Given(a.instantLayer, VerifyInstantLayer(a)) \cup Given(a.partyB, VerifyPartyB(a)))
  BY <1>5, <1>7, GoodUnion
<1>9. Good(CheckDeployment(a))
  BY <1>4, <1>8, GoodNone
<1>. QED  BY <1>9 DEF a

LEMMA EndPassesCheck ==
  ASSUME IInv, SystemFits, EndFits
  PROVE  CompletedPassesCheck
<1>. DEFINE a == LoadAddressesFromReport
<1>1. SUFFICES ASSUME process.mode = "done", mempool = <<>>, ~Uncut(a.diamond, CoreFacets),
                      ~Uncut(a.accountLayer, AccountFacets), NEW r \in Failures(CheckDeployment(a))
               PROVE  \/ r[2] = "template" /\ ~config.templates
                      \/ r[2] = "owner" /\ r[1] = "accountLayer" /\ config.admin # "deployer"
                      \/ r[2] = "owner" /\ r[1] = "diamond" /\ config.admin # "deployer"
  BY DEF CompletedPassesCheck
<1>2. Completed
  BY <1>1 DEF Completed, EndFits
<1>3. Good(CheckDeployment(a))
  BY <1>1, <1>2, EndIsGood
<1>. HIDE DEF a
<1>4. PICK q \in CheckDeployment(a) : q[2] = "fail" /\ q[1] = r
  BY <1>1 DEF Failures
<1>5. Excused(r)
  BY <1>3, <1>4 DEF Good
<1>. QED  BY <1>5 DEF Excused, Diamonds

\* A deployment that completed, once its last transactions are mined, passes
\* the health check on the addresses and the admin of its report, unless a cut
\* lost facets: it fails on nothing but templates that it was told not to make
\* and diamonds that another admin is to own (setupSystem, verify*Full).
THEOREM CompletedCheckCorrect == CheckSpec => []CompletedPassesCheck
<1>1. CheckInit => SystemFits /\ EndFits
  BY SystemStarts, EndStarts
<1>2. IInv /\ SystemFits /\ [CheckNext]_checkVars => SystemFits'
  BY SystemKept
<1>3. IInv /\ EndFits /\ [CheckNext]_checkVars => EndFits'
  BY EndKept
<1>4. IInv /\ SystemFits /\ EndFits => CompletedPassesCheck
  BY EndPassesCheck
<1>. QED  BY <1>1, <1>2, <1>3, <1>4, CheckedInvariant, PTL DEF CheckSpec
=============================================================================
