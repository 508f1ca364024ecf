----------------------------- MODULE Migration -----------------------------
(***************************************************************************)
(* The v0.8.4 -> v0.8.5 data migration: an input file prepared from a      *)
(* subgraph that lags behind the chain, a process that sends the migration *)
(* transactions in chunks and records its progress in a file, and the      *)
(* contract, where quotes and balances of the old version get the totals   *)
(* the new version keeps.                                                  *)
(*                                                                         *)
(* A quote has open amount, margin and open fee 1.  Quotes that wait for a *)
(* cancellation or a close count as LOCKED and OPENED here: migration and  *)
(* recount treat them alike.                                               *)
(***************************************************************************)
EXTENDS Integers, Sequences, FiniteSets, SequencesExt, FiniteSetsExt

CONSTANTS
  PartyA, PartyB,    \* addresses, ordered as the scripts sort them; 0 is none
  Histories,         \* quotes on the chain when the upgrade begins
  MaxTrades,         \* trades before the pause and after the unpause
  ChunkSize,         \* items per migration transaction (50 in the scripts)
  PageSize,          \* quotes per page of the subgraph (1000)
  GapScanRange,      \* quotes checked at each end of the ids (50)
  SampleSize,        \* quotes checked at each end of the input (10)
  ConnectionLimit,   \* maxPartyAConnectionLimit as the upgrade sets it
  MaxRetries,        \* attempts per operation (3)
  MaxFaults,         \* kills, torn saves, lost answers, dry runs
  SkipPreCheck,      \* values of skipPreCheck a run may be started with
  DryRun             \* values of dryRun a run may be started with

ASSUME MigrationAssumption ==
  /\ PartyA \subseteq Nat \ {0} /\ PartyB \subseteq Nat \ {0}
  /\ \A n \in {ChunkSize, PageSize, MaxRetries} : n \in Nat \ {0}
  /\ \A n \in {MaxTrades, GapScanRange, SampleSize, ConnectionLimit, MaxFaults} : n \in Nat
  /\ SkipPreCheck \subseteq BOOLEAN /\ DryRun \subseteq BOOLEAN

VARIABLES
  chain,      \* quotes, derived totals and roles of the core diamond
  mempool,    \* migration transactions accepted and not mined, in nonce order
  indexed,    \* the subgraph's copy of the quotes
  process,    \* the script that runs: none, a preparation or a migration
  input,      \* migration-input.json
  progress,   \* migration-progress.json
  report,     \* status in migration-report.json
  trades, faults

vars == <<chain, mempool, indexed, process, input, progress, report, trades, faults>>

-----------------------------------------------------------------------------
(* Quotes and the totals derived from them *)

Status == {"PENDING", "LOCKED", "OPENED", "CLOSED"}
Migratable == {"PENDING", "LOCKED", "OPENED"}
Quote == [status : Status, partyA : PartyA, partyB : PartyB \cup {0}]

ASSUME HistoriesAssumption == \A history \in Histories : history \in Seq(Quote)

CountQuotes(quotes, Test(_)) == Cardinality({ id \in DOMAIN quotes : Test(quotes[id]) })
Between(q, b, a) == q.partyA = a /\ q.partyB = b
LockedOf(quotes, b, a) == CountQuotes(quotes, LAMBDA q : Between(q, b, a) /\ q.status = "OPENED")
PendingOf(quotes, b, a) == CountQuotes(quotes, LAMBDA q : Between(q, b, a) /\ q.status = "LOCKED")

NoTotals ==
  [reserved |-> [a \in PartyA |-> 0],                 \* partyAReservedOpenFees
   aggregated |-> [p \in PartyB \X PartyA |-> 0],     \* aggregated positions, partyBPositionsCount
   cross |-> [b \in PartyB |-> 0],                    \* partyBLockedBalances[b][0]
   crossPending |-> [b \in PartyB |-> 0],             \* partyBPendingLockedBalances[b][0]
   connected |-> {}]                                  \* connectedPartyBs

\* What the totals would be had the new version been there from the start.
Recount(quotes) ==
  [reserved |-> [a \in PartyA |-> CountQuotes(quotes, LAMBDA q : q.partyA = a /\ q.status \in {"PENDING", "LOCKED"})],
   aggregated |-> [p \in PartyB \X PartyA |-> LockedOf(quotes, p[1], p[2])],
   cross |-> [b \in PartyB |-> CountQuotes(quotes, LAMBDA q : q.partyB = b /\ q.status = "OPENED")],
   crossPending |-> [b \in PartyB |-> CountQuotes(quotes, LAMBDA q : q.partyB = b /\ q.status = "LOCKED")],
   connected |-> { <<q.partyA, q.partyB>> : q \in { r \in Range(quotes) : r.status = "OPENED" } }]

AddConnection(totals, a, b) == [totals EXCEPT !.connected = @ \cup {<<a, b>>}]
ConnectionFits(totals, a, b) ==
  <<a, b>> \in totals.connected \/ Cardinality({ c \in totals.connected : c[1] = a }) < ConnectionLimit

Decrease(n) == IF n <= 1 THEN 0 ELSE n - 1

-----------------------------------------------------------------------------
(* Trading.  The old version keeps none of the totals. *)

\* Replaces quote id, and the totals if the new version is there.
Trade(quotes, totals) ==
  /\ ~chain.paused /\ trades < MaxTrades /\ trades' = trades + 1
  /\ chain' = [chain EXCEPT !.quotes = quotes, !.totals = IF chain.upgraded THEN totals ELSE @]
  /\ UNCHANGED <<mempool, indexed, process, input, progress, report, faults>>

SendQuote(a) ==
  Trade(Append(chain.quotes, [status |-> "PENDING", partyA |-> a, partyB |-> 0]),
        [chain.totals EXCEPT !.reserved[a] = @ + 1])

LockQuote(id, b) ==
  /\ chain.quotes[id].status = "PENDING"
  /\ Trade([chain.quotes EXCEPT ![id].status = "LOCKED", ![id].partyB = b],
           [chain.totals EXCEPT !.crossPending[b] = @ + 1])

OpenPosition(id) ==
  LET q == chain.quotes[id] IN
  /\ q.status = "LOCKED"
  /\ chain.upgraded => chain.totals.crossPending[q.partyB] > 0 /\ ConnectionFits(chain.totals, q.partyA, q.partyB)
  /\ Trade([chain.quotes EXCEPT ![id].status = "OPENED"],
           AddConnection([chain.totals EXCEPT !.crossPending[q.partyB] = @ - 1, !.cross[q.partyB] = @ + 1,
                            !.aggregated[<<q.partyB, q.partyA>>] = @ + 1, !.reserved[q.partyA] = Decrease(@)],
                         q.partyA, q.partyB))

ExpireQuote(id) ==
  LET q == chain.quotes[id] IN
  /\ q.status = "PENDING"
  /\ Trade([chain.quotes EXCEPT ![id].status = "CLOSED"], [chain.totals EXCEPT !.reserved[q.partyA] = Decrease(@)])

\* Subtractions revert when the totals do not hold the quote.
CloseQuote(id) ==
  LET q == chain.quotes[id]
      quotes == [chain.quotes EXCEPT ![id].status = "CLOSED"]
  IN
  /\ q.status = "OPENED"
  /\ chain.upgraded => chain.totals.aggregated[<<q.partyB, q.partyA>>] > 0 /\ chain.totals.cross[q.partyB] > 0
  /\ Trade(quotes,
           [chain.totals EXCEPT !.aggregated[<<q.partyB, q.partyA>>] = @ - 1, !.cross[q.partyB] = @ - 1,
              !.connected = IF LockedOf(quotes, q.partyB, q.partyA) + PendingOf(quotes, q.partyB, q.partyA) = 0
                            THEN @ \ {<<q.partyA, q.partyB>>} ELSE @])

-----------------------------------------------------------------------------
(* The migration facet *)

\* No check that the quote was counted.
Mutant_Uncounted_Again(c, ids) ==
  { id \in Range(ids) : id \in DOMAIN c.quotes /\ c.quotes[id].status # "CLOSED" }

\* What a call counts: the loop leaves out what does not exist, what is closed and
\* what was counted, by this call or an earlier one.
Uncounted(c, ids) ==
  { id \in Range(ids) :
      id \in DOMAIN c.quotes /\ id \notin c.quoteMigrated /\ c.quotes[id].status # "CLOSED" }

MigrateQuotes(c, ids) ==
  LET counted == Uncounted(c, ids)
      t == c.totals
      fees(a) == Cardinality({ id \in counted : c.quotes[id].partyA = a /\ c.quotes[id].status # "OPENED" })
      opened(p) == Cardinality({ id \in counted : Between(c.quotes[id], p[1], p[2]) /\ c.quotes[id].status = "OPENED" })
  IN [c EXCEPT
        !.quoteMigrated = @ \cup counted,
        !.totals = [t EXCEPT
          !.reserved = [a \in PartyA |-> t.reserved[a] + fees(a)],
          !.aggregated = [p \in PartyB \X PartyA |-> t.aggregated[p] + opened(p)],
          !.connected = t.connected \cup { <<c.quotes[id].partyA, c.quotes[id].partyB>> :
                                             id \in { i \in counted : c.quotes[i].status = "OPENED" } }]]

\* Adds up the pools of the pairs that were not added before.
MigrateCrossLockedValues(c, b, partyAs) ==
  LET fresh == { a \in Range(partyAs) : <<b, a>> \notin c.pairsMigrated }
      t == c.totals
      margin(status) == CountQuotes(c.quotes, LAMBDA q : q.partyB = b /\ q.partyA \in fresh /\ q.status = status)
  IN [c EXCEPT
        !.pairsMigrated = @ \cup { <<b, a>> : a \in fresh },
        !.totals = [t EXCEPT !.cross[b] = t.cross[b] + margin("OPENED"),
                             !.crossPending[b] = t.crossPending[b] + margin("LOCKED")]]

\* partyB 0: migrateQuotes, otherwise migrateCrossLockedValues of that partyB.
Effect(c, tx) == IF tx.partyB = 0 THEN MigrateQuotes(c, tx.items) ELSE MigrateCrossLockedValues(c, tx.partyB, tx.items)
Reverts(c, tx) ==
  \/ ~c.migrator
  \/ \E a \in PartyA : Cardinality({ p \in Effect(c, tx).totals.connected : p[1] = a }) > ConnectionLimit

\* The oldest transaction is mined.
Mine ==
  /\ mempool # <<>>
  /\ chain' = IF Reverts(chain, Head(mempool)) THEN chain ELSE Effect(chain, Head(mempool))
  /\ mempool' = Tail(mempool)
  /\ process' = IF process.at = "wait" /\ Len(mempool) = 1
                THEN [process EXCEPT !.reverted = Reverts(chain, Head(mempool))] ELSE process
  /\ UNCHANGED <<indexed, input, progress, report, trades, faults>>

-----------------------------------------------------------------------------
(* The procedure around the scripts: pause, cut and role grants, unpause *)

Pause ==
  /\ ~chain.upgraded /\ ~chain.paused
  /\ chain' = [chain EXCEPT !.paused = TRUE]
  /\ UNCHANGED <<mempool, indexed, process, input, progress, report, trades, faults>>

\* The facets of the new version, its parameters and MIGRATION_ROLE of the runner.
Upgrade ==
  /\ chain.paused /\ ~chain.upgraded
  /\ chain' = [chain EXCEPT !.upgraded = TRUE, !.migrator = TRUE]
  /\ UNCHANGED <<mempool, indexed, process, input, progress, report, trades, faults>>

\* The system trades before the role is gone.
Mutant_PostTransactions_UnpauseFirst == <<"unpauseGlobal", "revokeRole">>

PostTransactions == <<"revokeRole", "unpauseGlobal">>

\* The next transaction of the post-migration batch, once the report shows success.
PostMigration ==
  LET next == chain.post + 1 IN
  /\ chain.upgraded /\ process.at = "idle" /\ report = "success" /\ next <= Len(PostTransactions)
  /\ chain' = [chain EXCEPT !.post = next,
                 !.migrator = @ /\ PostTransactions[next] # "revokeRole",
                 !.paused = @ /\ PostTransactions[next] # "unpauseGlobal"]
  /\ UNCHANGED <<mempool, indexed, process, input, progress, report, trades, faults>>

\* The subgraph catches up with the chain.
Index ==
  /\ indexed # chain.quotes /\ indexed' = chain.quotes
  /\ UNCHANGED <<chain, mempool, process, input, progress, report, trades, faults>>

-----------------------------------------------------------------------------
(* prepareMigrationInput *)

Idle == [at |-> "idle"]
NoInput == [quotes |-> <<>>, tasks |-> <<>>, aggregates |-> {}, checked |-> FALSE, written |-> FALSE]
Ascending(S) == SetToSortSeq(S, <)

StartPrepare ==
  /\ process.at = "idle" /\ chain.post = 0 /\ report # "success"
  /\ process' = [at |-> "fetch", fetched |-> <<>>]
  /\ UNCHANGED <<chain, mempool, indexed, input, progress, report, trades, faults>>

\* The next page: migratable quotes with ids after the last one fetched.
FetchOpenQuotes ==
  LET cursor == IF process.fetched = <<>> THEN 0 ELSE Last(process.fetched).id
      ids == Ascending({ id \in DOMAIN indexed : id > cursor /\ indexed[id].status \in Migratable })
      page == [i \in 1 .. (IF Len(ids) < PageSize THEN Len(ids) ELSE PageSize) |-> [id |-> ids[i], quote |-> indexed[ids[i]]]]
  IN
  /\ process.at = "fetch"
  /\ process' = [at |-> IF Len(page) < PageSize THEN "build" ELSE "fetch", fetched |-> process.fetched \o page]
  /\ UNCHANGED <<chain, mempool, indexed, input, progress, report, trades, faults>>

BuildInput ==
  LET known == { f \in Range(process.fetched) : f.id <= Len(chain.quotes) }
      matched == { f.quote : f \in { g \in known : g.quote.partyB # 0 } }
      partyBs == Ascending({ q.partyB : q \in matched })
      opened(p) == Cardinality({ f \in known : Between(f.quote, p[1], p[2]) /\ f.quote.status = "OPENED" })
  IN
  /\ process.at = "build"
  /\ input' = [quotes |-> Ascending({ f.id : f \in known }),
               tasks |-> [i \in DOMAIN partyBs |->
                            [partyB |-> partyBs[i], partyAs |-> Ascending({ q.partyA : q \in { r \in matched : r.partyB = partyBs[i] } })]],
               aggregates |-> { <<p, opened(p)>> : p \in { s \in PartyB \X PartyA : opened(s) > 0 } },
               checked |-> FALSE, written |-> TRUE]
  /\ process' = Idle
  /\ UNCHANGED <<chain, mempool, indexed, progress, report, trades, faults>>

\* validateMigrationEdgeCases: the checks that count as failures.  Whether quotes
\* are missing is read at both ends of the ids, whether their pairs are in the
\* tasks at both ends of the input.
LastId == Len(chain.quotes)
Listed(id) == chain.quotes[id].status \in Migratable => id \in Range(input.quotes)
PairListed(id) ==
  LET q == chain.quotes[id] IN
  q.partyB # 0 => \E i \in DOMAIN input.tasks : input.tasks[i].partyB = q.partyB /\ q.partyA \in Range(input.tasks[i].partyAs)
Scanned == { id \in 1 .. LastId : id <= GapScanRange \/ id > LastId - GapScanRange }
Sampled == { input.quotes[i] : i \in { j \in DOMAIN input.quotes : j <= SampleSize \/ j > Len(input.quotes) - SampleSize } }

BoundaryListed == LastId > 0 /\ Listed(LastId)     \* quote 0 reads as PENDING and is in no input
NoForkDrift == \A id \in Range(input.quotes) : id <= LastId
NoGaps == \A id \in Scanned : Listed(id)
TasksComplete == \A i, j \in DOMAIN input.tasks :
  input.tasks[i].partyAs # <<>> /\ (i # j => input.tasks[i].partyB # input.tasks[j].partyB)
\* No check that the pairs of the quotes are in the tasks.
Mutant_PairsListed_Unchecked == TRUE

PairsListed == \A id \in Sampled : PairListed(id)

Validate ==
  /\ process.at = "idle" /\ input.written /\ chain.paused /\ ~input.checked
  /\ BoundaryListed /\ NoForkDrift /\ NoGaps /\ TasksComplete /\ PairsListed
  /\ input' = [input EXCEPT !.checked = TRUE]
  /\ UNCHANGED <<chain, mempool, indexed, process, progress, report, trades, faults>>

-----------------------------------------------------------------------------
(* runMigration: migrate, then verifyMigration *)

NoProgress == [phase |-> "none"]
FreshProgress == [phase |-> "quotes", quoteChunk |-> 0, partyB |-> 0, partyAChunk |-> 0]
\* The number of chunks or partyBs done is the index of the next one.
ChunkArray(s) == [i \in 1 .. ((Len(s) + ChunkSize - 1) \div ChunkSize) |->
                    SubSeq(s, (i - 1) * ChunkSize + 1, IF i * ChunkSize < Len(s) THEN i * ChunkSize ELSE Len(s))]

StartMigration(skip, dry) ==
  LET loaded == IF progress = NoProgress THEN FreshProgress ELSE progress
      task == input.quotes # <<>> \/ input.tasks # <<>>
  IN
  /\ process.at = "idle" /\ input.written /\ chain.upgraded /\ chain.post = 0 /\ report # "success"
  /\ dry => faults < MaxFaults
  /\ faults' = faults + (IF dry THEN 1 ELSE 0)
  /\ process' = IF ~task THEN Idle
                ELSE [at |-> CASE loaded.phase = "quotes" -> "loadQuotes" [] loaded.phase = "balances" -> "loadPartyB"
                               [] OTHER -> "finish",
                      done |-> loaded, chunks |-> <<>>, partyB |-> 0, attempt |-> 1, reverted |-> FALSE,
                      skipPreCheck |-> skip, dryRun |-> dry]
  /\ report' = IF task THEN "running" ELSE "success"
  /\ UNCHANGED <<chain, mempool, indexed, input, progress, trades>>

\* Goes to the next point with new progress, in memory and in the file.
Save(at, done, chunks, b) ==
  /\ progress' = done
  /\ process' = [process EXCEPT !.at = at, !.done = done, !.chunks = chunks, !.partyB = b, !.attempt = 1, !.reverted = FALSE]

PreCheckQuotes ==
  LET pending == SelectSeq(input.quotes, LAMBDA id : id \notin chain.quoteMigrated /\ chain.quotes[id].status \in Migratable)
  IN
  /\ process.at = "loadQuotes"
  /\ process' = [process EXCEPT !.at = "quotes",
                   !.chunks = ChunkArray(IF process.skipPreCheck THEN input.quotes ELSE pending)]
  /\ UNCHANGED <<chain, mempool, indexed, input, progress, report, trades, faults>>

NextChunk == IF process.partyB = 0 THEN process.done.quoteChunk + 1 ELSE process.done.partyAChunk + 1
ChunkDone == IF process.partyB = 0 THEN [process.done EXCEPT !.quoteChunk = NextChunk]
                                   ELSE [process.done EXCEPT !.partyAChunk = NextChunk]
Loop == IF process.partyB = 0 THEN "quotes" ELSE "partyAs"

FinishQuotes ==
  /\ process.at = "quotes" /\ NextChunk > Len(process.chunks)
  /\ Save("loadPartyB", [process.done EXCEPT !.phase = "balances"], <<>>, 0)
  /\ UNCHANGED <<chain, mempool, indexed, input, report, trades, faults>>

PartyBDone == [process.done EXCEPT !.partyB = @ + 1, !.partyAChunk = 0]

PreCheckPartyB ==
  LET i == process.done.partyB + 1
      task == input.tasks[i]
      pending == SelectSeq(task.partyAs, LAMBDA a : <<task.partyB, a>> \notin chain.pairsMigrated)
  IN
  /\ process.at = "loadPartyB"
  /\ IF i > Len(input.tasks) THEN Save("finish", [process.done EXCEPT !.phase = "complete"], <<>>, 0)
     ELSE IF ~process.skipPreCheck /\ pending = <<>> THEN Save("loadPartyB", PartyBDone, <<>>, 0)
     ELSE /\ process' = [process EXCEPT !.at = "partyAs", !.partyB = task.partyB,
                           !.chunks = ChunkArray(IF process.skipPreCheck THEN task.partyAs ELSE pending)]
          /\ UNCHANGED progress
  /\ UNCHANGED <<chain, mempool, indexed, input, report, trades, faults>>

FinishPartyB ==
  /\ process.at = "partyAs" /\ NextChunk > Len(process.chunks)
  /\ Save("loadPartyB", PartyBDone, <<>>, 0)
  /\ UNCHANGED <<chain, mempool, indexed, input, report, trades, faults>>

\* The end of a run that throws: the progress file stays.
GiveUp == process' = Idle /\ report' = "failed"
FailedAttempt ==
  IF process.attempt < MaxRetries
  THEN process' = [process EXCEPT !.at = Loop, !.attempt = @ + 1, !.reverted = FALSE] /\ UNCHANGED report
  ELSE GiveUp

\* executeOperation, up to the answer of the node.
SendChunk ==
  LET tx == [partyB |-> process.partyB, items |-> process.chunks[NextChunk]] IN
  /\ process.at \in {"quotes", "partyAs"} /\ NextChunk <= Len(process.chunks)
  /\ IF process.dryRun
     THEN Save(Loop, ChunkDone, process.chunks, process.partyB) /\ UNCHANGED <<mempool, report>>
     ELSE IF Reverts(chain, tx)
     THEN FailedAttempt /\ UNCHANGED <<mempool, progress>>
     ELSE /\ mempool' = Append(mempool, tx) /\ process' = [process EXCEPT !.at = "wait"]
          /\ UNCHANGED <<progress, report>>
  /\ UNCHANGED <<chain, indexed, input, trades, faults>>

\* The awaited transaction, the last of the sender, is mined.
Mined ==
  /\ process.at = "wait" /\ mempool = <<>>
  /\ IF process.reverted THEN FailedAttempt /\ UNCHANGED progress
     ELSE Save(Loop, ChunkDone, process.chunks, process.partyB) /\ UNCHANGED report
  /\ UNCHANGED <<chain, mempool, indexed, input, trades, faults>>

\* The node does not answer; the transaction may be pending or mined.
WaitFails ==
  /\ process.at = "wait" /\ faults < MaxFaults /\ faults' = faults + 1
  /\ FailedAttempt
  /\ UNCHANGED <<chain, mempool, indexed, input, progress, trades>>

\* The progress file stays behind.
Mutant_FinishMigration_KeepsFile ==
  /\ process.at = "finish"
  /\ process' = [process EXCEPT !.at = "verify"]
  /\ UNCHANGED <<chain, mempool, indexed, input, progress, report, trades, faults>>

FinishMigration ==
  /\ process.at = "finish"
  /\ progress' = NoProgress
  /\ process' = [process EXCEPT !.at = "verify"]
  /\ UNCHANGED <<chain, mempool, indexed, input, report, trades, faults>>

\* verifyMigration
QuotesVerify == \A id \in Range(input.quotes) :
  id \in chain.quoteMigrated \/ chain.quotes[id].status \notin Migratable
SumOver(f(_), S) == FoldSet(LAMBDA a, n : n + f(a), 0, S)
PartyBsVerify == \A i \in DOMAIN input.tasks :
  LET task == input.tasks[i] IN
  /\ <<task.partyB, task.partyAs[1]>> \in chain.pairsMigrated
  /\ chain.totals.cross[task.partyB] = SumOver(LAMBDA a : LockedOf(chain.quotes, task.partyB, a), Range(task.partyAs))
  /\ chain.totals.crossPending[task.partyB] = SumOver(LAMBDA a : PendingOf(chain.quotes, task.partyB, a), Range(task.partyAs))
AggregatesVerify == \A e \in input.aggregates : chain.totals.aggregated[e[1]] = e[2]

VerifyMigration ==
  /\ process.at = "verify"
  /\ report' = IF QuotesVerify /\ PartyBsVerify /\ AggregatesVerify THEN "success" ELSE "failed"
  /\ process' = Idle
  /\ UNCHANGED <<chain, mempool, indexed, input, progress, trades, faults>>

\* The process dies; a report that runs is never finished.  (A preparation that
\* dies leaves nothing.)
Kill ==
  /\ process.at \notin {"idle", "fetch", "build"} /\ faults < MaxFaults /\ faults' = faults + 1
  /\ process' = Idle
  /\ UNCHANGED <<chain, mempool, indexed, input, progress, report, trades>>

\* It dies while it writes the progress file, which a later run cannot parse.
TornSave ==
  /\ \/ process.at \in {"quotes", "partyAs"} /\ (process.dryRun \/ NextChunk > Len(process.chunks))
     \/ process.at = "loadPartyB"
     \/ process.at = "wait" /\ mempool = <<>>
  /\ progress # NoProgress /\ faults < MaxFaults /\ faults' = faults + 1
  /\ progress' = NoProgress /\ process' = Idle
  /\ UNCHANGED <<chain, mempool, indexed, input, report, trades>>

-----------------------------------------------------------------------------

Init ==
  /\ \E history \in Histories :
       /\ chain = [quotes |-> history, totals |-> NoTotals, quoteMigrated |-> {}, pairsMigrated |-> {},
                   paused |-> FALSE, upgraded |-> FALSE, migrator |-> FALSE, post |-> 0]
       /\ indexed = history
  /\ mempool = <<>> /\ process = Idle /\ input = NoInput /\ progress = NoProgress
  /\ report = "none" /\ trades = 0 /\ faults = 0

TradeStep ==
  \/ \E a \in PartyA : SendQuote(a)
  \/ \E id \in DOMAIN chain.quotes :
       \/ \E b \in PartyB : LockQuote(id, b)
       \/ OpenPosition(id) \/ ExpireQuote(id) \/ CloseQuote(id)

PrepareStep == FetchOpenQuotes \/ BuildInput
MigrationStep ==
  \/ PreCheckQuotes \/ FinishQuotes \/ PreCheckPartyB \/ FinishPartyB
  \/ SendChunk \/ Mined \/ FinishMigration \/ VerifyMigration
Start == \E skip \in SkipPreCheck, dry \in DryRun : StartMigration(skip, dry)

Next ==
  \/ TradeStep \/ Mine \/ Pause \/ Upgrade \/ PostMigration \/ Index
  \/ StartPrepare \/ PrepareStep \/ Validate \/ Start \/ MigrationStep
  \/ WaitFails \/ Kill \/ TornSave

Spec == Init /\ [][Next]_vars

\* Processes run, transactions are mined, the subgraph catches up; the
\* operator goes through the procedure, and when runs keep failing prepares
\* a new input and runs again, not dry.
Fairness ==
  /\ WF_vars(PrepareStep) /\ WF_vars(MigrationStep) /\ WF_vars(Mine) /\ WF_vars(Index)
  /\ WF_vars(Pause) /\ WF_vars(Upgrade) /\ WF_vars(PostMigration)
  /\ SF_vars(StartPrepare) /\ SF_vars(\E skip \in SkipPreCheck : StartMigration(skip, FALSE))
FairSpec == Spec /\ Fairness

-----------------------------------------------------------------------------
(* Properties *)

\* However chunks are retried, resumed, sent twice or mined late, no quote and
\* no pair is counted twice: no total exceeds its recount.
NeverOvercounted ==
  LET due == Recount(chain.quotes) IN
  /\ \A a \in PartyA : chain.totals.reserved[a] <= due.reserved[a]
  /\ \A p \in PartyB \X PartyA : chain.totals.aggregated[p] <= due.aggregated[p]
  /\ \A b \in PartyB : chain.totals.cross[b] <= due.cross[b] /\ chain.totals.crossPending[b] <= due.crossPending[b]

\* When the system trades again after a migration whose input passed the edge
\* case checks during the pause, and was right about the quotes these do not
\* read, every total is what a recount gives, and stays so under the trades that
\* follow: every position can be closed.
TotalsRight ==
  LET due == Recount(chain.quotes) IN
  /\ \A field \in {"reserved", "aggregated", "cross", "crossPending"} : chain.totals[field] = due[field]
  /\ due.connected \subseteq chain.totals.connected
UnreadRight ==
  \A id \in (1 .. LastId) \ (Scanned \cap Sampled) :
    chain.quotes[id].status \in Migratable => Listed(id) /\ PairListed(id)
ResumesWhole ==
  [][chain.upgraded /\ ~chain'.paused /\ (IF chain.paused THEN input.checked /\ UnreadRight ELSE TotalsRight)
       => TotalsRight']_vars

\* A migration transaction that was sent twice or forgotten by a killed process
\* has no effect once the system trades again.
MigratesOnlyPaused ==
  [][Len(mempool') < Len(mempool) => chain.paused \/ Reverts(chain, Head(mempool))]_vars

\* Whatever is interrupted, the migration succeeds in the end and the system is
\* unpaused.
Resumes == <>(chain.upgraded /\ ~chain.paused)
=============================================================================
