# SYMM perps-core: TLA+ verification project

The system is a perpetual-futures exchange written in Solidity (`src/contracts`). A
*diamond* proxy holds all state; its facets are the handlers. A trade is a *quote*
between a **partyA** (a user) and a **partyB** (a solver). PartyA sends the quote,
a partyB locks and opens it, both carry a margin while it is open, and it ends by a
close, a cancellation, an expiry or a liquidation. Prices and unrealized PnL come from
the Muon oracle in signed messages that the caller of a handler brings along.

There are no threads. Concurrency is that of a blockchain: every transaction is atomic
and may revert, anyone may call at any time, in any order, and blocks move the clock. A
handler that needs several transactions (a partial fill, a liquidation, a force close, a
withdrawal) can be interleaved with every other handler of every other account. In the
models of the contracts an action is therefore one transaction, a revert is an action
that is not enabled, and the interesting behaviour is the order of transactions.

Around the contracts are the programs that put them there and keep them current, written
in TypeScript (`src/tasks`, `src/scripts/upgrade`): a deployment, its health check, an
upgrade from v0.8.4 to v0.8.5 and the migration of the data that goes with it. Each is a
long sequential process that sends transactions and keeps its progress in files. Here the
hard part is a crash: between a transaction and the record of it, in the middle of a write,
or before a transaction that was sent is mined. In these models an action is the code
between two `await`s, and a failure may come between any two of them.

## Inventory

| Component | State | Operations | Interacts with | What makes it correct |
|---|---|---|---|---|
| **Quote lifecycle** (`facets/PartyA*`, `PartyBQuoteActions`, `PartyBPositionActions`, `LibQuote`, `LibQuoteClose`, `LibPartyB*`, `LibConnections`) | quotes, pending and open lists of both sides, connections, four margin pools, reserved fees, allocated balances | send, lock, unlock, cancel, expire, open (whole, part), request close, fill, cancel close | every other component | lists, pools, connections and reserve agree with the quotes; ended quotes stay ended; collateral is neither created nor lost; requests can be got out of |
| **Emergency actions** (`PartyBEmergencyActions`) | the same | `emergencyClosePosition`, `adlClose` | close requests | a deleverage behind a close request leaves a sensible request |
| **Force actions** (`ForceActions`, `ForceCloseSteps`) | `forceCloseDetails`, reserve vaults | force cancel (quote, close request); force close in one or several transactions | settlement, partyB liquidation | partyA can get out against an idle partyB, at the price of *this* request |
| **PartyB liquidation** (`PartyBLiquidation`, `LibLiquidation`) | status and liquidators' share of each pair | seize a pair; wind its positions up in any number of calls | lists and pools of the core; hooks | the pair is frozen, others are not; everything ends; the margin is paid out once |
| **PartyA liquidation** (`PartyALiquidation`, `DeferredLiquidation`) | `liquidationDetails`, settlement states, symbol prices, liquidators | start, set prices, pending, positions, settle, dispute | every counterparty | phases in order, every counterparty settled once |
| **Clearing house** (`ClearingHouse`) | cross liquidation details, escrow | start, take over, close, distribute, finish | partyBs in cross mode | escrow conserved, all positions end |
| **Settlement** (`Settlement`, `LibSettlement`) | opened prices, allocated balances | settle uPnL of many pairs at once | force close | zero sum, both sides solvent |
| **Withdrawals, bridges, external transfers, pledge** | requests, bridge transactions, `withdrawLockedBalance`, contract's token balance | initiate, accept, reject, cancel, force cancel, suspend, speed up, finalize; bridge and restore | free balances | each request is paid or refunded, once; reserved tokens are there |
| **Accounts** (`Account`, `PartyBAccount`) | balances, allocated balances, reserve vaults | deposit, allocate, deallocate, internal transfer | withdrawals, trading | conservation, cooldown |
| **Binding** | bind state, instant mode | bind, unbind, propose, activate | trading handlers | a bound partyA trades with its partyB only |
| **Funding** | accumulated rates per symbol and partyB, aggregates | charge, set rates, epochs | open and close | aggregates stand for the quotes |
| **Open-position arrays** (`LibQuote`) | arrays and back-indices | push, swap-and-pop | lifecycle | indices stay inverse |
| **Migration** (`facets/Migration`, `prepareMigrationInput.ts`, `runMigration.ts`, `migrate.ts`, `verifyMigration.ts`, `generatePostMigrationBatch.ts`) | migrated flags; input, progress and report files | prepare the input from a subgraph, send chunks, retry, resume, verify, unpause | lifecycle; upgrade | nothing counted twice, nothing forgotten, before trading goes on |
| **Deployment** (`tasks/deploy/deployAll.ts`, `diamond.ts`, `checkpoint.ts`, `setupSystem.ts` and the tasks they run) | checkpoint file, address logs, report | deploy, cut, grant, set, register; resume | every contract it deploys | what is skipped did happen; every contract points to the others of the same system |
| **Health check, source verification** (`checkDeployment.ts`, `verifyAll.ts`, `verify.ts`) | a file of failures to retry | check, publish, retry | deployment's report and logs | a clean check means a usable system |
| **Upgrade** (`scripts/upgrade/*`) | facets and peripherals files, batches, the timelock's operations | deploy, generate, verify, schedule, cut, wire | diamond; migration | an unpaused system is v0.8.4 or v0.8.5, never a mixture |
| **Instant layer** (`instantLayer`) | delegations, salts, registered partyBs, templates | execute template, batch; grant, revoke | lifecycle through signed calls | a template is all or nothing; a revoked delegate stops |
| **Account layer** (`accountLayer`) | sub-accounts, virtual accounts, margins | create, delete, hooks | lifecycle by hooks | virtual accounts follow their quotes |
| **Symbol manager, fee distributor** (`helpers`) | limits per day, dry runs, claims | update symbols, claim | administration | limits, conservation |
| **Administration** (`Control`, `PauseControl`, `SymbolControl`) | roles, pauses, parameters | set | all guards | parameters of the models |
| **Diamond proxy** (`diamond/`) | selector routes, facets | cut, route | deployment, upgrade | modelled as those two use it |
| **Views, hooks, oracle, relayers, other scripts** | read-only, external | | | not modelled, see the end |

Hard behaviours, with their lines, are the `hazards` of `PROJECT.json`: interleaved
partial fills and cancellations, roundings kept in several places, pools kept twice,
requests restored after a deleverage, liquidations in several transactions, cooldowns
and deadlines against late answers, limits that only some paths check; kills between a
transaction and its record, torn files, resumptions that number their work anew, retries
of transactions that are still pending, batches executed after what they were generated
from has changed.

## Modules

### Quotes: the trading core

`Quotes.tla` has one action per handler that moves a quote; state variables carry the
names of the storage fields. Lists are sets (their arrays with back-indices are a
component of their own), a mapping is a function, `Zero` is `address(0)`: the absent
partyB, and the bucket in which a partyB's pools are kept a second time. `world` is
what handlers read but do not own: the clock and two administrator switches.

A library call is an operator that constrains the primed variables it writes:
`PartyBLetsGo`, `RemoveConnectionIfNoPositions` (reads the lists *as this step leaves
them*, because the code calls it after removing), `AddPosition`, `CloseQuote`. A
Solidity checked subtraction is the guard `pool >= amount`, so that an underflow
disables the action, as it reverts the transaction. `OpenPart` is the subtle handler: it
splits a quote in two ids, with floors for the filled margin and the rest taken by
subtraction, and realizes the difference of two floored fees.

What is abstracted: the four components of `lockedValues` are treated alike by the code,
so one number stands for each; units are such that quantity times price needs no scaling
by 1e18 (the fee division keeps its floor); an oracle verdict is a choice of the
environment (`Upnls`); binding, funding and roles only restrict calls.

`QuoteLifecycle.tla` is the abstract specification: an id is offered, held by one partyB,
becomes live with the partyB that held it, and ends for good. `LifecycleKept` is the
refinement `Life!LSpec` under the mapping of statuses to phases; it is checked with the
partyB liquidations beside trading, which end several quotes at once. That an ended quote
stays ended and an opened one keeps its partyB are consequences of it.

| Run | Question | Bounds |
|---|---|---|
| `quotes_partial_fills` | Do lists, pools, connections, limits, reserve and collateral survive every order of handlers? | one partyA, an isolated and a cross partyB, 2 ids, clock 0..1, emergency mode and delisting at will; a LIMIT long of 2 units, margin 5 (does not halve), fee rate 2/4 (rounds), beside a whitelisted MARKET short; two prices, so that profits and losses are realized |

Two ids are enough for a partial fill and for two quotes side by side; the second id of
a partial fill competes with every other way to use it. The hazards are all about one
quote and its remainder, or two quotes sharing a list, pool or bucket.

### PartyBLiquidation: winding a pair up beside live trading

`PartyBLiquidation.tla` extends `Quotes` with the two transactions of a partyB's
liquidation and composes them with *all* trading actions: `Trade` is the core's step
under the modifiers `notLiquidated`/`notLiquidatedPartyB` that the facets carry.
`SeizePair` is `LibLiquidation.liquidatePartyB`; `LiquidatePositionsPartyB` takes any
set of the pair's positions, the empty call included. The switches that delist a symbol and
start emergency mode are turned at any moment.

| Run | Question | Bounds |
|---|---|---|
| `partyb_liquidation` | Is the pair frozen and everything else not? Do pools, the shared bucket and the liquidators' shares stay right between the two transactions? Does a liquidation end clean? Does every request end, by its deadline, partyA's force cancel or the seizure? Is the life of a quote the abstract one? | two partyAs, one isolated partyB, 2 ids, clock 0..1, three oracle values: insolvent with margin left, barely, and with none; emergency mode and delisting at will; see fairness |

### PartyALiquidation and ClearingHouse: a liquidation that several hands carry on

`PartyALiquidation.tla` has the phases of a partyA's liquidation (`liquidatePartyA` or the
deferred form, `setSymbolsPrice`, the pending quotes, the positions, a dispute and its
resolution, the settlement with one partyB after the other) for every partyA at once, and what
others do meanwhile: partyBs allocate and deallocate, and a liquidator realizes a cross partyB's
PnL with other partyAs. `ClearingHouse.tla` extends it with every operation of the clearing
house: the liquidation of a cross partyB, the takeover of a partyA's liquidation, on request or
because one of its quotes is touched, the pool it collects and distributes, the escrow, and the
settlements of both. They start from a book of quotes, which `Quotes` would have made.

The oracle signs what the positions are worth at one price out of a set, at any time. The
handlers have the guards of the code and no more; two roles are trusted with one thing each,
which the code does not check and `Next` adds: the dispute resolver names only partyBs that have
a settlement (`TrustedResolution`), at any time, with any amounts, whether there is a dispute or
not, and the clearing house's operator hands `settlePartyATakeover` every partyB that has one
(`TrustedList`). That a takeover leaves no settlement behind rests on the second. The operator
otherwise takes and gives as it likes, also from and to accounts that have nothing to do with
the liquidation, but distributes the whole pool or escrow at once. In the run of a book each
partyA is liquidated at most once: nobody deposits or trades again.

`paidAhead` is a history variable: a settlement pays one partyB after the other and takes partyA's
collateral with the last; what a liquidation has paid by then is owed twice, and a takeover in
between leaves it so, to be made good by the operator. Two history fields of the details,
`had` and `asComputed`, are what `SettlementsCovered` compares: what partyA had when its
insolvency was graded, and whether the amounts are still the ones the code worked out. What a
liquidation *sets out* to pay is covered; what it *collects* need not be, which is the finding of
`liquidation_shortfall`: an isolated partyB whose positions have both signs owes more after the
haircut of an OVERDUE liquidation than what was compared with its bucket.

| Run | Question | Bounds |
|---|---|---|
| `liquidations` | Is a cross partyB's settlement reserve what it owes, and each liquidation's count what it waits for, in every order? Is what a liquidation sets out to pay what partyA had? Does every liquidation end? | two partyAs, an isolated partyB who can hardly pay and a cross one who is insolvent in between, four positions of both signs and one pending quote; three prices, at which the first partyA's liquidation is NORMAL (deferred), LATE and OVERDUE, the second's possible once collateral was pulled from it; one amount a resolver may name for each partyB; one transfer of 6 by choice, the fee of the pending quote being 6 so that it can be pulled and escrowed; see fairness |
| `liquidation_shortfall` | A statement of the documentation about OVERDUE liquidations; see findings | a book of its own: one partyA, an isolated partyB with a gain and a loss, one that partyA owes |

### Collateral and Withdraw: what is promised out of one token balance

The free collateral of all users is one token balance of the contract, and everything
that is promised to be paid later is one counter, `withdrawLockedBalance`. Withdrawals,
bridges, external transfers, pledges and the legacy withdrawal are written in different
facets and each has its own check against the two numbers. `Collateral.tla` has these
operations and those that move a balance beside trading (deposit, virtual deposit,
allocate, deallocate, internal transfer, suspension); `Withdraw.tla` extends it with
withdrawal requests and composes both. Tokens and internal balances have different units
(`Scale` to one).

A request is made of parts: classic, express, virtual, or both of the last two. All sums
of the handlers are over one of these kinds, so a request carries four totals; which
provider must answer (`ProviderOf`), what the contract reserves (`Own`) and what is paid
elsewhere (`ByOthers`) follow from them. The user, the provider, the administrator and
anybody (finalize) race to settle a request. A provider's callback may revert; then the
call does, and the step does not happen. One express and one virtual provider stand for
all; the registries and roles that only restrict callers are left out, the registry of
bridges, which decides a payment, is kept. `providersDebt` is the providers' side of the
books: what they credited without tokens, less what they paid elsewhere.

Sums are counted unit by unit (`Total` is the cardinality of `Units`): that gives sums
over sets a non-recursive definition the prover can work with.

| Run | Question | Bounds |
|---|---|---|
| `withdraw_requests` | Is the reserve exact and backed, is a settled request final, is a request neither paid and refunded nor lost, against every order of answers? Is a classic request paid once its cooldown is over? | one user, every kind of request, 2 requests, clock 0..2 with room for a cooldown and a blackout, a speed-up; see fairness |
| `collateral_accounts` | Does every unit of balance stay backed by a token or by a provider, through transfers, suspension, pledges, bridges, allocation and virtual funds? | a user and the pool for invalid bridged amounts, `Scale` 2 so that units of tokens and of balances cannot be confused, a bridge transaction, a virtual external transfer, pledges in the collateral token |
| `withdraw_pending_cancel` | A statement of the documentation that the code does not keep; see findings | one user, virtual requests, clock 0..1 |

### Deployment and DeploymentCheck: a plan, a checkpoint and a chain

`Deployment.tla` models `deploy:system`. `Plan(config)` is the sequence of steps of one
environment (`deployAll.ts` and the tasks it runs, in their order): a deployment, a record of
an existing contract, a cut in chunks, a group of calls under one checkpoint key, a log
file. `Work` takes the next step of the process: skips it when the checkpoint says so,
sends its transaction, waits for it or (for configuration calls) does not, and saves. The
chain is a set of facts `<<contract, predicate, what, who>>` and instance counts, so that
two deployments of one contract are told apart: `WiringAgrees` is about exactly that. A
call is a transaction in the deployer's mempool, mined in order, with the reverts of the
contract it reaches (`AcceptsCall`: the facet is cut, the role is held, the item is not yet
registered). Faults are a kill anywhere, a torn checkpoint (it is then ignored and the
run starts fresh), a run with `--fresh`, and a failure of the API that supplies defaults.

`DeploymentCheck.tla` adds the two commands that read the result: `check:deployment`, as the
set of its checks with *pass*, *warn* or *fail*, and `verify:all`, which publishes every logged
contract and keeps the failures for a retry.

| Run | Question | Bounds |
|---|---|---|
| `deployment` | Did every step that a resumed run skips take effect? Are contracts wired to the instances of one system, templates to their modes? Does a completed deployment pass its own health check, and does a clean check mean a usable system? Is every logged contract published or listed? Does the command complete? | three environments (everything new by the admin; existing collateral and nothing optional; a separate admin), 7 core and 7 account facets so that both cuts have several chunks, 2 transactions pending, one fault anywhere |
| `deployment_half_cut` | A statement of the documentation about cuts, for the core diamond; see findings | the same |

The two diamonds fail in opposite ways. A cut of the core diamond counts as done when the loupe
answers with more than one facet. The AccountLayer's counts as done when `admin()` answers,
which no facet of it has (`AnswersProbe`): a cut that was begun, or is whole but not yet
recorded, is sent again and its first chunk reverts. `Completes` therefore excepts runs that end
in either (`HalfCut`, `Repeated`): only a new checkpoint helps.

`CompletedPassesCheck` and `CleanCheckMeansReady` relate two independent lists: the setters
the deployment calls and the values the health check reads. The exceptions they name are
real: a cut that stopped half-way is not noticed (the finding), templates are checked
even where none were asked for, and with a separate admin the ownership stays with the
deployer. With a separate admin the deployment does not complete (some of its calls are the
admin's to make), so that `CompletedPassesCheck` says nothing of that environment.

### Migration: two views of one market

`Migration.tla` has the chain (quotes, the totals v0.8.5 derives from them, flags), the subgraph
that lags behind it, the preparation of the input (pages by id, a gap scan at both
ends, counts per pair), its validation, the process that sends chunks of quotes and then
of partyAs with attempts and a progress file, and the verification. Trading goes on
before the pause and after the unpause, with the new handlers' subtractions, which
revert when a total is short. The loops of the facet, which skip what is marked and mark what they
count, are the sets of what a call counts (`Uncounted`). Amounts are counts of quotes: `Recount` is what the totals
would be had v0.8.5 been there from the start.

| Run | Question | Bounds |
|---|---|---|
| `migration` | Is anything counted twice, however chunks are repeated or mined late? Is everything counted when trading goes on after a checked migration? Is an old migration transaction harmless then? Does the migration end? | two quotes of two or one partyA and two or one partyB in three histories, 2 trades, chunks of one, pages of two, 2 attempts, a fault anywhere; the checks read one quote at each end (`GapScanRange`, `SampleSize`; 50 and 10 in the code), so that a trade makes a middle they do not read |

`ResumesWhole` says when the totals are right: the system is unpaused after a migration whose input
passed the edge-case checks during the pause, *and* the quotes those checks do not read were all
listed with their pairs (`UnreadRight`); and right totals stay right under the trades that follow.
Without the second condition TLC finds a quote in the middle of the ids that the subgraph missed.

### UpgradeCut and Upgrade: the same cut along three paths

`UpgradeCut.tla` is the arithmetic of a cut: what `buildDiamondCut` makes of the loupe and the
facets file, chunks, what `LibDiamond` accepts. `Upgrade.tla` has the paths: `eoaUpgrade.ts` (one
process does all), and `deployFacets.ts`, `deployPeripherals.ts`, `generateSafeBatch.ts`,
`verifyBatchCalldata.ts` and a Safe that executes, directly or through a timelock
(`generateTimelockBatch.ts`). A script is a program counter over its steps; files are what a
killed script leaves; a Safe transaction is all of its calls or none.

What the code does that a reader would not guess, and the model shows:

* `buildDiamondCut` emits *Replace* also for selectors already routed to the facet that the
  file names, which `LibDiamond` refuses. A run after a chunk was cut therefore reverts, and
  the documented remedy is not in the scripts: the facets file has to be deleted (`StartOver`),
  and all facets are deployed again. Liveness holds only with that remedy.
* The AccountLayer is cut in three chunks. Whether the cut is done is asked of `admin()`, which
  it does not have, so that the call always throws: a kill after the first chunk, or after the last
  and before the file says so, makes every later run revert. The peripherals file has to be
  deleted (`StartOver`), and another AccountLayer is deployed, cut and wired.
* `buildExpectedSafeTxs` leaves out `acceptOwnership` and the SymbolManager's wiring, so that
  the label `safe-batch` never verifies and has to be skipped (`Skip`).
* Running `eoaUpgrade.ts` again adds the templates again.
* Timelock batches stay when the Safe's are generated anew; an operation's id depends on all
  chunks before it, so a schedule of old chunks does not carry over.

| Run | Question | Bounds |
|---|---|---|
| `upgrade` | Is an unpaused system never a mixture? Did an upgrade that went through do everything? Does it go through? | the three paths; 2 facets, 5 selectors that stay, go and come, chunks of 2, 3 chunks of the AccountLayer, 3 faults: kills, torn files, batches generated or facets deployed again at any time |
| `upgrade_stale_cut` | A statement of the documentation about verified batches; see findings | the Safe's path, batches generated early, one fault |

Three faults are enough to interrupt a script, the repetition of it and the remedy; two
facets and two chunks for a cut that is half done and a file that is half written.

## Fairness

Six runs assume any.

* `partyb_liquidation`: the clock goes on (`WF(Tick)`), partyA keeps calling `forceCancelQuote` for a
  cancellation partyB does not answer, and somebody calls `expireQuote`, which is open to
  everyone, for what is overdue.
* `liquidations`: the clearing house takes some action of `Finish` as long as one is possible, in an
  order of its own. Normal liquidators and the dispute resolver owe nothing.
* `withdraw_requests`: the clock goes on and somebody calls `finalizeWithdrawRequest`, which is
  open to everyone. Nothing is assumed of providers and administrators, which is why
  `ClassicIsPaid` speaks of requests without a provider: a provider that does not answer, or
  whose callback reverts, can hold its requests up.
* `deployment`: the operator runs the command again after every stop, a running process goes on,
  transactions are mined. Nobody needs to check or publish.
* `migration`: processes run, transactions are mined, the subgraph catches up, and the operator
  prepares and starts again when a run has failed. The last two are strong fairness: a start
  is open only between runs, and may close again while a run is in progress.
* `upgrade`: some action of `Progress` is taken as long as one is possible - scripts are run and
  run on, the Safe executes what it signed, the operator deletes the file that makes a
  script repeat a failure.

On the contracts these are calls whose caller has the interest and the right to make them;
of the scripts' operator it is that they follow the documented procedure to its end.
Faults are bounded by a constant and never fair. With the bounded clock the liveness
properties of the contracts speak of deadlines and cooldowns that end before `MaxTime`.

## Proofs

Every theorem holds for all values of the constants under the assumptions the module
declares (`PartiesAssumption`, `NumbersAssumption`; `LiquidationAssumption`; `HistoriesAssumption`;
`AccountsAssumption`, `RequestsAssumption`; `UpgradeCutAssumption`, `UpgradeAssumption`;
`DeploymentAssumption`, `NamesAssumption`, `ConfigsAssumption`, `ViewsAssumption`), which the runs evaluate. That the sets of
partyAs and partyBs are finite is one of them: the contracts' address space is.

Sums are counted, not folded: `Sums!Total(S, f)` is the cardinality of a disjoint union, so
that what the proofs need of sums (`SumsProofs.tla`: a changed summand, a split, equal
summands, zeros) follows from facts about cardinalities and needs no induction.

### The trading core

`QuotesProofs.tla`:

* `TypeInvariant`, `TypeCorrect`: `Spec => []TypeOK`. The content is arithmetic: no
  handler drives a balance, pool, reserve or fill below zero. `TypeOK` is not inductive:
  that a fill is not negative needs `closedAmount <= quantity`, that a proportional
  close keeps a margin non-negative needs that no more is closed than is open, and that
  needs the request to be within what is open. `TypeInv` adds `GoodQuote` for each quote:
  parties where the status needs them, nothing closed while pending, request within open.
* `RequestsWithinOpen`: `Spec => []RequestWithinOpen`, from the same invariant.

The argument: a lemma per helper that makes a quote (`QuoteOfGood`, `OpenedGood`,
`RestGood`, `ClosedGood`, `ReopenedGood`), a lemma per action, and `NextType` collects
them. Multiplications and floors are isolated in `RatioNat` and `PortionWithin`.

Its second half reduces the twenty-odd handlers to what they do to the quotes: one is sent,
entered from a template, locked, `Unlocked`, `Dropped`, opened by `OpenWhole` or `OpenPart`,
`Retouched` (a request made or withdrawn) or `ClosedBy` some units. The other modules prove
their invariants once per effect instead of once per handler.

* `LifecycleImplemented`: `Spec => LifecycleKept`, the refinement of `QuoteLifecycle` step by
  step. It needs `IdsFresh` (no record beyond `lastId` is in use), without which the remainder of
  a partial fill could replace a quote that lives.

The second part of `QuotesProofs.tla` is about the books, first from `ListsInv` = `TypeInv` /\ `IdsFresh` /\ lists and counters match:

* `ListsCorrect`, `ConnectionsCorrect`, `ListsStayBounded`: the lists are what the statuses say;
  two parties are connected if they have a position and only if they have one or a held
  quote; limits checked by two handlers bound lists that the others only shrink or keep
  (`Bounded` speaks of the lists and connections; a partial fill's remainder takes the place its quote left).

then from `ExactInv` = `TypeInv` /\ `IdsFresh` /\ `PoolsExact` /\ `FeesExact`:

* `PoolsCorrect`, `FeesCorrect`: `Moving` is the shape of every step: one quote becomes another, a
  fresh id may appear, and each pool moves by the difference of what the old and the new
  quotes put into it. The reserve must be exact for its own sake: the code decrements it
  with a floor at zero (`Decrease`), which hides an underflow that the pools would revert on.
* `ClaimsCorrect`: `Spec => []ClaimsBacked`. Steps move collateral between accounts and keep the sum,
  but for a partial fill: the fee of the whole was reserved, the fees of the two parts are
  charged and re-reserved, each floored, so that at most one unit is lost (`FeeSplit`) per
  remainder ever made (`Rests`). That the remainder's fee is at most the fee reserved
  (`RestFeeWithin`) is what keeps the floor of the decrement out of reach, and with it the sum.

### Liquidations of a partyB

`PartyBLiquidationProofs.tla` carries these over to a system in which pairs are seized and wound up
while everybody else trades. Trading steps are steps of the core, so the core's lemmas apply;
`Untouched` and `Settled` say what trading leaves alone: the quotes of a frozen pair, and those
that were liquidated. Both transactions of liquidators only end quotes (`Ends(S)`: those of S become
final, nothing else changes), which a lemma per invariant then uses.

* `LiquidationInvariant`: `LiquidationInv` = the invariants of lists and connections, the types of the
  liquidation's own state, and `Frozen`: a pair being wound up holds no quote that could be
  filled. Without `Frozen` a fill could add a position to a pair already counted out.
* `ListsThroughLiquidation`, `ConnectionsThroughLiquidation`, `LifecycleThroughLiquidation`: the core's
  theorems for `LiquidationSpec`; the last one lets a step end several quotes at once.
* `FrozenBetween` and `LiquidationEndsClean`: `PairFrozen` and `EndsClean`. That the pair is disconnected
  at the end comes from `Connected`: no position and no held quote is left.
* `LiveInvariant`, `PoolsThroughLiquidation`, `FeesThroughLiquidation`: `PoolsMatchLivePairs` is not
  inductive as a statement about the pairs that live; `LivePoolsExact` says instead that each
  pool *plus* what frozen pairs still have in positions (`FrozenSum`) is the sum over all
  positions, so that the seizure moves the pair's margin from one term to the other and the
  winding up takes the same amount off both sides.
* `SharesThroughLiquidation`: `SharesBacked`. A seizure splits what it takes into the first
  liquidator's share and equal floored shares for the positions, losing less than a unit per
  position (`SeizedShares`); each call that takes positions pays what was owed for them
  (`EndedShares`); trading touches neither, since a frozen pair's list does not change
  (`TradeShares`). With the core's rounding of fees this bounds the loss by
  `Cardinality(Rests) + Cardinality(Taken)`.

### The free collateral

`WithdrawProofs.tla`:

* `TypeCorrect`: `Spec => []TypeOK`, here inductive by itself.
* `ReserveExact`: `Spec => []ReserveMatchesRequests`. The invariant is `ReserveInv`, which
  adds `IdsFresh`: beyond the last id of a user no record is in use, without which a new
  request could overwrite an open one and strand its reservation. `RequestStepKinds`
  reduces every handler of a request to a new request, a payment, a refund or an update
  of an *open* record that keeps its parts, and then one lemma per kind shows that the
  counter and the sum move together. A batch of bridge payments splits the sum.
* `SettledForGood`: `Spec => SettledIsFinal`, from the same invariant, for requests that are
  completed, cancelled or rejected. A suspended one is as final in the code, against what
  the documentation says of it; see findings.
* `BackedWithoutPledges`: `Spec => []ReserveBacked` when `PledgeAmounts = {}`. The
  assumption is needed: accepting or slashing a pledge in the collateral token pays
  without looking at the counter, while other payments leave only the counter, not the
  pledges, in the contract.
* `ClaimsCorrect`: `Spec => []ClaimsBacked`. Every handler either moves n tokens into or
  out of what the contract holds free of promises and To18Decimals(n) units of balance with
  them, or moves a promise from one holder to another (`Moves(n)`, one lemma per handler);
  `Balanced` follows step by step, to the unit. A new request needs `IdsFresh` of `ReserveInv`.

The theorems about `Withdraw` hold for every number of bridges, bridge transactions,
transfers and requests; the run `withdraw_requests` has no bridge and `collateral_accounts` no
requests, to keep each exhaustive.

### Liquidations of a partyA and the clearing house

`ClearingHouseProofs.tla`, for every book of quotes, every price the oracle may sign, every amount and
any number of transfers; of the clearing house's operator and the dispute resolver nothing is
assumed but `TrustedList` and `TrustedResolution`.

* `AccountsExact`: `Spec => []Accounts`, the inductive part of `Inv` beside its types. `Reserved`: a
  cross partyB's reserve is the sum, over all partyAs, of what it owes. `Counted` adds that a
  settlement that is not pending owes nothing, which a takeover relies on: it releases what the
  pending ones reserved and clears all of them. `Live`: no settlement and no takeover without
  a liquidation. `LockedWhileSolvent`: outside a liquidation a partyA has locked exactly what
  its open positions lock; within one the normal liquidation leaves the pool alone and only its
  last settlement empties it, so that nothing can be said of it. `Shared`: the losses signed at the start
  are at least the loss of each position still open, at the price it will be liquidated at;
  without it the haircut of an overdue liquidation could divide by zero (`AddsInt`).
* `SettlementsCorrect`: `Spec => []SettlementsMatch`, from `Inv`: with no position open, `LockedWhileSolvent`
  says that nothing is locked.

The argument: `ReserveFollows` reduces the sum to the summand of the one partyA whose settlements
move; `AccountsKept` covers every step that moves no settlement, given what it does to
margins and notes, `NoteKept`, `PendingEnded` and `PositionClosed` specialise it, and
`AccountsAfterSettlement` covers the steps that end one. Each action has its lemma; those of
the clearing house share `TakesOver`, since most of them may take a liquidation over on the way.

### The migration

`MigrationProofs.tla`, for every history of the market, input file, chunk size, number of faults and
number of runs. Nothing is assumed of the process that sends the transactions, nor of the
input: its files do not occur in the invariant.

* `MigrationInvariant`: `Spec => []CountInv`. That no total exceeds its recount is not inductive: a second
  count of a quote could fit below the recount when another was never counted. As long as the
  migrator role exists, `WithinMarked` therefore says more: no total exceeds the number of the
  quotes (of the pairs, for the pools) that it stands for *and that are marked*. A call counts
  what is not marked and marks it, so both sides grow by the same disjoint sets
  (`QuotesCounted`, `PoolsCounted`). Trades ignore the marks and would break `WithinMarked`; `Phases`
  says that they cannot happen while it is needed: between the cut and the last
  transaction the system is paused, and the role is revoked by the first. When the role goes
  `WithinMarked` yields `Within` (`MarkedIsWithin`), and from then on each trade changes the recount
  by one quote and the totals by no more (`WithinKept`, one lemma per handler), which is where the
  floor of the fee reserve and the reverting subtractions count.
* `NothingCountedTwice`: `Spec => []NeverOvercounted`, and `LateTransactionsRevert`: `Spec => MigratesOnlyPaused`.

### The upgrade

`UpgradeProofs.tla`, for any facets, selectors and chunk size, whatever of the three paths may be
taken, and any number of faults. Two hypotheses are stated with the theorems: batches are
generated after the deployment is complete (`~EarlyGenerate`), the order the operator's guide
gives, without which the finding `upgrade_stale_cut` refutes the first of them; and the
verification does not leave out the timelock's calldata (`timelock-safe-batch`), which is what
ties an operation scheduled earlier to the files there are now. The proof uses the second; whether
the theorems hold without it is open, TLC having found no violation.

* `UpgradeInvariant`: `Spec => []UpgradeInv`, eight named parts. `FacetsFileOK` and `AccountLayerOK` say
  what the files promise, torn or not. `RoutesOK` is the heart: a cut in progress is
  `CutPending`, every selector of the diamond either is where the whole cut leads it or is in a
  chunk still ahead. `ScriptOK`: everything behind the program counter of `eoaUpgrade.ts`
  still stands. `BatchOK`: the files were made of a whole deployment, and what is left of
  their cut is what the diamond still needs. `TurnsOK` and `FinishedOK` carry what was
  verified to the end.
* `NeverAMixture`: `Spec => []UnpausedIsWhole`; `NothingLeftUndone`: `Spec => []UpgradedIsReady`.

The argument starts from the arithmetic of cuts: a cut built from a loupe and a whole file leads
every selector where the file wants it (`BuiltCut`), a chunk moves exactly the selectors it names
(`ChunkApplied`), and when none is ahead nothing is left to move (`CutDone`). The call lists of
scripts and batches are compared as sets of calls. There is a lemma per action; those that
only give up, start, or leave the diamond alone share `GivingUpKeeps`, `QuietKeeps`, `SafeKeeps` and
`UnchangedKeeps`. The first step that fails and the first facet missing are least elements of
sets of numbers; that these exist is well-foundedness of `<` (`LeastNatural`), not an induction
over a property.

### The deployment

`DeploymentProofs.tla`, for any facets, libraries, roles, parameters and chunk sizes, every environment of
`Configurations` and any number of kills, torn writes and fresh starts. `NamesAssumption` says what the
lists in the code satisfy: names are distinct, and what a contract links stands before it;
`ViewsAssumption`, that the view and loupe facets through which the health check reads are in them.

Steps are marked before their transactions are mined, so that nothing the checkpoint claims holds of
the chain. The invariant therefore speaks of the chain as it will be once all that was sent is
mined, `Settled`. `Replay` is a function of the list of transactions; that sending appends one `Apply` to it
(`ReplaySent`) and mining takes one off its front (`ReplayMined`) follows from runs that are unique, by
a least number at which two would differ.

* `DeploymentInvariant`: `Spec => []IInv`, and `CheckedInvariant`: `CheckSpec => []IInv`; check:deployment and
  verify:all only read. `ChainFits`: every fact is of a kind the calls can leave, no template id is beyond
  the count of templates, and a template is in instant-open mode only under the id of the one
  that opens. `CountsFit`: the checkpoint records no instance that is not there, though the process awaits
  only the last of what it sent. `LinksFit`: the recorded instance of a contract links recorded instances.
  `StepsFit`: each step the checkpoint lets a run pass over has had its effect. `MarksFit`: a
  section flag is there only if all of its steps were passed. `ProcessFits`: at the due step the
  process has passed all before it, and of a step under way what it has already sent took.
* `WiringCorrect`, `TemplatesCorrect`, `SkippedCorrect`: `WiringAgrees`, `TemplateModes` and `SkippedTook` are
  invariants of both specifications.
* `VerificationCorrect`: `CheckSpec => []VerifiedOrListed`, from `VerificationFits`: a run under way has each
  entry published, failed or still to do, and the log files no longer change once verification can start.
* `CleanCheckCorrect`: `CheckSpec => []CleanCheckMeansReady`. The check compares only the *number* of facets;
  `SystemFits` is why that is enough: a diamond holds facets of its own list, each once (`AllFacets`), every
  contract that is given a core diamond keeps one, and nothing that is sent can change either.
* `CompletedCheckCorrect`: `CheckSpec => []CompletedPassesCheck`. `EndFits` says that a process is done only when
  every step of `WantedKeys`, those that make the calls the check asks about, is marked or flagged; by
  `StepsFit` their calls took, on the instances the report names. `SystemSetupBrings` and its companions show that
  every plan has those steps, `CoreIsGood`, `AccountLayerIsGood`, `InstantLayerIsGood` and `PartyBIsGood` go
  through the values that are read.

The argument has two halves. The first is about the plan and knows no state: `PlanFits` says of every
configuration that each step of its plan stands after those it relies on - what is linked,
addressed or resolved was recorded under an unconditional guard, flags come after what they stand for,
keys are distinct, `addTemplate` for the opening template precedes the others. It is put together
from sections (`FitsAfter`, `PartsInARow`), a lemma for each. The second half is about steps: what lasts in
the facts lasts through every transaction (`Kept`, `TookStays`, `ReplayKeeps`), a call that is accepted on the
mined state is accepted when its turn comes (`AcceptedLater`, `SentTook`), then a lemma per action.

### Only model-checked

`ExpiryAlwaysPossible`, which speaks of `ENABLED`, and all liveness are outside the prover.
`ResumesWhole` is
checked only: it depends on the input, of which the proof assumes nothing. Of the liquidations of
partyAs, `SettlementsCovered` and `LiquidationEnds` are checked only. The first is about shares that
are divided among positions and rounded, where the remainders would have to be followed through
every step; the run does, for its amounts. `MCClearingHouse!ClaimsBacked`
(the accounts are owed no more than was deposited) does not hold; see findings.
The pending-quote half of `ListsBounded` is proved, while its run has too few ids to reach that limit.
Of the deployment, only `Completes`, its liveness, is not proved; `CutsComplete` is a finding.

## Findings

Four statements of the repository are refuted by a run each; `PROJECT.json` has the lines.

* `withdraw_pending_cancel`: a pure virtual request that is still pending is said to cancel
  immediately; the blackout before its cooldown end applies to it as well.
* `deployment_half_cut`: diamond cuts are said to be verified on-chain when their checkpoint was not
  saved; what is verified is that the diamond has more than one facet, true after the first chunk.
* `upgrade_stale_cut`: verified batches are said to match what the current repository would produce; a
  cut generated from a half-written facets file still verifies after the file is complete.
* `liquidation_shortfall`: in an OVERDUE liquidation partyBs are said to absorb the losses. An isolated
  partyB that has gained on some positions and lost on others may owe more than it has after
  the haircut; nobody absorbs that part, the others are paid in full, and the accounts are owed
  more than was deposited.

Four more were met while modelling. The models behave as the code does, the properties are stated
so as not to claim what the documents do, and no run is spent on refuting them:

* A suspended request is said to be not terminal (`docs/v0.8.5/withdraw-system.md:256`) and to wait for
  a manual resolution (`WithdrawFacet.sol:127`). `suspendWithdrawRequest` refunds it at once
  (`WithdrawFacetImpl.sol:334`), and no function accepts a suspended request; the view of pending
  requests lists it for ever (`ViewFacet.sol:742`). In `Withdraw` its funds are released, and
  `SettledIsFinal` speaks of the statuses the documentation calls terminal.
* A cut that was made but not recorded is said to be detected (`docs/v0.8.5/setup-task.md:350`). For
  the AccountLayer the probe calls a function that does not exist
  (`tasks/deploy/accountLayerDiamond.ts:242`, `peripheralHelpers.ts:229`), so that a finished cut is
  never recognised and repeating it reverts. `Completes` excepts it.
* A migration is said to resume from the last successful operation (`production-upgrade.md:656`); it
  filters out what was migrated, splits the rest into chunks again and starts at the old chunk
  number (`migrate.ts:182`), skipping as many chunks as were done. The verification at the end
  notices and a further run migrates the rest, which is what `Resumes` shows.
* The checks before a migration are said to find every active quote that the input lacks, and every
  pair (`validateMigrationEdgeCases.ts:15` and `:271`); they read both ends only. `ResumesWhole`
  has the missing condition.

## Plan

Done: `Quotes`, `QuoteLifecycle`, `PartyBLiquidation` with `QuotesProofs`,
`PartyBLiquidationProofs`; `Sums`, `SumsProofs`; `PartyALiquidation`,
`ClearingHouse` with `ClearingHouseProofs`; `Collateral`, `Withdraw` with `WithdrawProofs`; `Deployment`,
`DeploymentCheck` with `DeploymentProofs`; `Migration` with `MigrationProofs`; `UpgradeCut`, `Upgrade` with `UpgradeProofs`. Left, in this order:

1. `ForceClose`, on `PartyBLiquidation`: a request that changes between the steps; settlement of
   uPnL between solvent parties.
2. `Binding`, `InstantLayer` (delegations, templates), `VirtualAccounts`.
3. `OpenPositions` (arrays against sets), `Funding` (aggregates), `SymbolManager`, `FeeDistributor`.
4. Proofs: see the end of the section on proofs.

## Not modelled

Of the liquidations: isolated pairs wound up while their partyA is liquidated, a partyB that
changes to cross mode in the middle of a settlement, different prices per symbol, maintenance
margins and funding. Cryptography and signatures of the oracle, views, events and tests. Hooks are calls whose
failure is swallowed; what they do in the account layer is planned. Of the scripts: gas,
prompts, formatting, the values of parameters, samples and rehearsals on forks, and the
comparison of bytecode with an explorer's; `verifyPeripherals.ts` reads `networkName` before
its declaration in one of its modes, which a model of its checks does not show. Components of the plan are listed in `PROJECT.json` with their
status.
