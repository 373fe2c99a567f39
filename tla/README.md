# Verification of TeQoin L2

TLA+ models of the bridge, settlement and dispute contracts, of the sequencer
services around them and of the programs that index and publish what happens,
checked with TLC on small instances; theorems
about them for every value of the constants, checked with TLAPS. The
definitions are translated from the source in `src/`; `PROJECT.json` names the
lines each one stands for.

Run a check with `tlc -workers 2 -config <run>.cfg <module>` and the proofs with
`tlapm <module>.tla`; runs and theorems are listed below.

## 1. The system

TeQoin L2 is a rollup with a rotating set of sequencers. Its parts, and how they
interact:

```
 users --depositETH/ERC20--> L1 diamond ------Deposited------> L1 listener --> table deposits
                              | SequencerFacet  (batches)                           |
                              | BridgeFacet     (custody, withdrawals)        L2 processor
                              |     ^   ^                                           | processDeposit
              invalidateBatch |     |   | finalizeWithdrawal                        v
                        DisputeGame |   +---- finalizer <-- table withdrawals   L2BridgeV3 <-- users
                          |   |     |                            ^                  |
                   BondManager |    +-- submitBatch ------ batch submitter          | WithdrawalInitiated
                       FaultProofVM                              ^                  v
                        ChallengePeriod                          +------ L2 withdrawal listener
 block builder --engine API--> L2 node --+--> indexer (blocks, bridge rows) --> HTTP API, cache
                                         +--> event gateway --> websocket clients
```

Everything on a chain is a transaction: it runs alone or leaves no trace, except
where a function hands control to a recipient. The services are one node.js
process (`sequencer`), a second one beside it (`event-gateway`) and another
(`l2-indexer`): every `await` is a point where other handlers, the chains or a
crash come in between. What the services of one process share is PostgreSQL.

### Inventory

| Component | State | Operations | What is hard | What makes it correct |
|---|---|---|---|---|
| **AppStorage** (`LibAppStorage.sol`) | one struct that all facets of the diamond write | - | facets of different versions on one struct, fields that an older deployment never set | invariants across facets |
| **SequencerFacet** | rotation list, batches, roots, commitments, DA policy | four batch paths (legacy, V3 state, calldata, blob), anchoring, adding and removing sequencers, DA policy | legacy numbering by block against V3 numbering by batch; several entry points for one policy | head and roots consistent, roots final, commitments chained, policy not bypassed, no duplicate in the rotation |
| **BridgeFacet** | queue, processed ids, invalidated batches, period and oracle, custody | deposits, queueing one or many with proofs, finalization, challenge, invalidation, settings | the recipient runs code during finalization; an oracle that may revert; owner changes periods and games; entries from before V3 | paid once, on the terms queued, not early, not out of an invalid batch; custody covers credits |
| **DisputeGame** | disputes, active counts, verdicts | start, answer, resolve, timeout, limits | two parties alternate, deadlines move, refund hands over control in mid-resolution | verdict and bridge agree, counters exact, rounds halve, a dispute ends unless both parties keep it open |
| **BondManager** | bonds, stake, rewards, balance | lock, slash, refund, reward, stake, claim | several disputes and two parties on one ledger; rounding | every credit is covered, no bond left behind |
| **FaultProofVM** | - | verifies one step | - | (protocol only; its transition verifiers are assumed sound or not by a Boolean) |
| **ChallengePeriod** | counters of batches and disputes, factors, watchtowers | confirmations, reports of batches and disputes, settings, the period | underflow, rounding, reports that are caught, watchtowers that come and go | answers in range, moved by evidence in the documented direction only |
| **SequencerFacetV3** | the shared storage, a registry of its own | submission, anchoring, registry | it and SequencerFacet take turns on one storage, and neither reads all the other writes | both append to one log |
| **Diamond proxy** (`LibDiamond`, cut, loupe, ownership) | selector table, owner | cuts of groups that add, replace, remove; transfer of ownership | swap-and-pop on two lists, cuts that fail midway | routes and lists agree; a cut acts as on a map, or not at all |
| **L2BridgeV3** | processed deposits, withdrawals, token pairs, quotas, ETH | credit a deposit, initiate, cancel, mark, pairs, limits | user and sequencer race for one withdrawal; pairs change under withdrawals; lazy windows | settled once, accounts exact, registry consistent, rate bounded |
| **ETHStaking** | stakes, rate, TEQ | stake, unstake, claim, rate, TEQ in and out | rounding, rates that change under stakes, a contract short of TEQ | no block is paid for twice |
| **l2bridge.sol, l2token, MockStablecoin** | balances | - | - | not modelled: section 5 |
| **L1 listener** | websocket, the backfill of its start | live events, backfill | events lost on a websocket that closes and is not opened again, a subscription nobody waits for, inserts that fail or are cut off | every deposit gets its row, as far as it holds |
| **L2 processor** | passes under way | send, wait, mark | passes overlap, answers and receipts are lost, crash before the mark | credited once, marked only if credited, one bad row does not stop others |
| **L2 withdrawal listener** | cursor in memory, table withdrawals | polls | polls overlap, restarts skip blocks | no poll passes over a withdrawal |
| **Batch submitter** | table batches | root of a range, submission, queueing | late rows, receipts that are lost, a queueing call of another facet | a range gets one root; a row is marked queued only if it is |
| **Withdrawal finalizer** | a lock | passes over a limited list | others pay as well; outcomes are told apart by error texts | what is queued is paid and marked, no row stops the others |
| **Block builder** | last block known | three engine API calls and a wait per pass | passes overlap, payloads are refused, answers lost | what was called final stays in the chain |
| **Sequencer manager, process** | states of services, the database pool | start, stop, health | signals during start and stop, a pool that is ended twice | health is honest, the process stops and cuts nothing off |
| **Indexer: blocks** | one cursor, tables of blocks, transactions, logs | sync of the past, block events, polls | three loops and no lock, failed reads that look empty | the cursor leaves no hole |
| **Indexer: bridge rows** | a cursor per chain, one row per deposit and withdrawal | upserts from two chains, two scripts | order of the two chains, backoff, scripts beside the service | rows say what happened, and catch up |
| **Indexer API, cache** | cached lists | reads | a list that is empty and cached | every block is served in the end |
| **Event gateway** | a cursor per chain, transfers it remembers | polls, broadcasts | polls overlap and repeat | nothing passed over, no transfer twice |
| **Monitor, other routes, migrations** | - | read, print | - | not modelled: they change nothing |

`PROJECT.json` has the same list as `components`, with what is and is not
modelled, and as `hazards` the places in the code where something can go wrong
that a test would hardly reach, with the properties that would show it.

## 2. Modules

| Module | Models | Composes |
|---|---|---|
| `AppStorage` | the shared struct as variables, types | |
| `SequencerFacet` | every writing function of the facet | extends `AppStorage` |
| `BridgeFacet` | every writing function of the facet | extends `AppStorage` |
| `WithdrawalEscrow` | abstract: what the bridge promises about withdrawals | |
| `Diamond` | both facets on one storage, deployments old and new; the properties | both facets; refines `WithdrawalEscrow` |
| `BondManager` | the ledger of bonds | |
| `DisputeGame` | disputes, and the step protocol of `FaultProofVM` | extends `BridgeFacet`, `BondManager` |
| `SelectorTable` | the proxy: cuts, ownership | compared with `Routing` |
| `Routing` | abstract: cuts on a plain map | |
| `SequencerFacetV3` | every writing function of that facet | extends `AppStorage` |
| `SequencerUpgrade` | the two facets, taking turns on one storage | `SequencerFacet`, `SequencerFacetV3`; refines `BatchLog` |
| `BatchLog` | abstract: what both promise about batches | |
| `ChallengePeriod` | the oracle, and the callers' side of its calls | |
| `L1` | all contracts on L1 | `Diamond`, `DisputeGame`; refines `Diamond!Spec` |
| `L2BridgeV3` | every writing function of the contract | |
| `L2Bridge` | it under users, sequencer and owner; the properties | `L2BridgeV3` |
| `ETHStaking` | the staking contract | |
| `DepositPipeline` | L1 listener, table deposits, L2 processor | extends `L2BridgeV3` |
| `Deposits` | the pipeline's specification, fairness, properties | `DepositPipeline` |
| `WithdrawalPipeline` | withdrawal listener, batch submitter, finalizer, a backfill script, their tables | L1 reduced to what `WithdrawalEscrow` promises |
| `Withdrawals` | the pipeline's specification, fairness, properties | `WithdrawalPipeline` |
| `BlockBuilder` | the builder and the execution client it drives | |
| `SequencerProcess` | start, health, shutdown and exit of the process; the properties | extends `BlockBuilder` |
| `BlockIndex` | the indexer's blocks, and the cached lists of its API | |
| `BridgeIndex` | the indexer's bridge rows and two backfill scripts | |
| `EventGateway` | the gateway's polls and what it sent | |
| `Observers` | the indexer's process and the gateway | `BlockIndex`, `BridgeIndex`, `EventGateway` |
| `MCDiamond`, `MCL1`, `MCHonestPlay`, `MCL2Bridge`, `MCDeposits`, `MCWithdrawals`, `MCSequencer`, `MCObservers` | instances for TLC | `MCL2Bridge` has `ETHStaking` beside `L2Bridge` |
| `Upkeep` | what changes around the bridge: upgrades, cuts and the oracle, of which a behaviour explores one | `SelectorTable`, `SequencerUpgrade`, `ChallengePeriod` |
| `MCUpkeep` | the instance for TLC | `Upkeep` |
| `DiamondProofs`, `L1Proofs`, `UpkeepProofs`, `SequencerProofs`, `L2BridgeProofs`, `DepositProofs`, `WithdrawalProofs`, `ObserversProofs` | theorems | |

### How state and actions correspond to the code

One action per external function, with the function's name; internal functions
are operators with theirs. A function that reverts leaves no trace, so what
reverts is a guard. Reads of several mappings that are always keyed alike are
one function. Some operators exist twice, the second with a comment that starts
with "Without ..." or says what is missing: those are the code's own guard or
assignment left out, used to see that the property that rests on it fails.

- *Batches.* `batches[n]` is `s.batches[100 n]`, reduced to its state root; other
  keys are never written. A deployment that predates V3 has state roots but no
  commitment and no explicit withdrawal root, and may have queue entries
  without expiry: `Init` of `Diamond` ranges over such storages. `daMode` is
  kept, the DA payload hashes are not.
- *Roots and proofs.* A root is a model value and a constant says which claims it
  commits to, in the single-hashed form before V3 and the double-hashed form
  since; a Merkle proof verifies exactly for those. Collisions and second
  preimages are left out.
- *Control handed over.* `finalizeWithdrawal` is two steps, with the lock
  (`entered`) between them; so is a resolution of the game (`Settle`,
  `FinishSettlement`, with `resolving`), and in between the functions that are
  not under the lock may run. `L1` states how the two nest. Tokens are taken
  not to call back during `transferFrom`.
- *Oracle.* To `Diamond` and `L1` the oracle reverts or answers anything.
  `ChallengePeriod` is the contract itself: factors in percent, periods in
  seconds, the age of the chain in days, batches one by one or in thousands. Of
  its callers it has the reports (a caught one of a batch, one of a dispute that
  reverts `startDispute`) and what the bridge takes for a period.
- *Selector table.* A function of the library takes a table to a table or to
  `Reverted`, so a cut that fails anywhere leaves no trace. Positions count from
  1. `_init` succeeds (or is none) or reverts the cut; what it writes is left out.
- *Upgrade.* A cut may name some of a facet's functions only, so
  `SequencerUpgrade` lets the functions of both versions come in any order. The
  bridge's part of the storage rests.
- *Staking.* `accrued` and `disturbed` are history: what a stake earned block by
  block, and whose unclaimed blocks met a new rate or a larger stake.
- *Time* is in days on L1 and in hours on L2, with a bound each.
- *Disputes.* Claims are roots; callers of `resolveDispute` show the VM a
  transition that is sound or not; `MCHonestPlay` fixes the true chain.
- *Services.* One action per stretch between two awaits. Rows are what the
  queries read of them. What goes wrong outside - a statement that fails, a call
  whose answer is lost, a websocket that closes, a crash - is an action with a
  budget (`MaxFaults`). `retryWithDefaults` is its outcomes: sent once, not
  sent, or sent by an attempt whose answer was lost as well. A live event is
  stored with block 0, since the event object ethers passes last carries the
  block in a field `log`, and the listener reads `event.blockNumber`. The
  subscription takes effect at some time after the start, which nobody waits for
  (l1-listener.service.ts:143), while the backfill runs. When the websocket
  closes nothing is subscribed again: the handlers are attached to
  `provider._websocket` (line 105), which ethers 6 does not have.
- *Withdrawals.* Polls are records, as many as may overlap; submitter and
  finalizer lock themselves and have one pass each. A root is the set of
  withdrawals it was built from. L1 is an escrow whose withdrawals are queued,
  fall due, are barred or paid, by the relayer or another; the facet behind it is
  the one the services were written for (texts in its reverts, a queueing call
  without proof) or the repository's (custom errors, that call refused), and
  `Upgrade` replaces one by the other.
- *Block builder.* A block is a number, `chain` says which blocks it stands on.
  The client follows the engine API specification: it refuses a finalized block
  outside the chain of the head.
- *Process.* The other services are reduced to the statements they have at the
  database when it is closed. `serviceStatus` and what really runs are kept apart.
- *Indexer.* A pass of one of the three loops is a record with its phase: block,
  transactions, logs, cursor. Which blocks have transactions and logs is a
  constant. What fails on the way is a read that comes back empty or throws, or
  a statement. Only empty lists can be cached, since rows hold `BigInt`, which
  JSON refuses: a cached list is its request.
- *Bridge rows.* An event per block and chain; a row is its status and which
  upserts it had. A backfill script is a process of its own.
- *Gateway.* `sent` is what a client that stays connected has been told; the
  cursor is read again after each answer, as the code does.

## 3. Runs

| Run | Question | Bounds | Scope |
|---|---|---|---|
| `settlement` | are head, roots, commitments, DA policy and rotation consistent on every path? | 3 batches of 2 blocks, one of them possibly from before V3, 2 roots, 3 addresses | `SettlementScope` |
| `bridge` | does the bridge implement the escrow, and does its custody cover what L2 was told? | 2 batches, 2 withdrawals, of which one is claimed differently by two roots, 3 days, periods 1 to 2, one oracle, one game, 2 deposits of 1 or 2 of a token that may deliver less, 1 donation | `BridgeScope` |
| `l1` | do bonds, counts and verdicts agree, does a verdict stop payments whenever it lands, is the diamond undisturbed? | 2 disputes about one batch, a round, bonds 1 or 2, share one half, 1 withdrawal, 2 games the owner may set | `L1Scope` |
| `bisection` | do rounds halve the range, and does a dispute end? | 1 dispute about 5 steps, rounds counted up to 3 and answers without end, claims of 2 roots or none, of which one can be shown a step from, deadline 1 day | `BisectionScope` |
| `l2bridge` | are withdrawals settled once, accounts exact, the rate bounded; is no block paid for twice? | 2 users, 2 callers, 2 deposits, 3 withdrawals, 2 L1 tokens and 2 wrapped tokens of which one pair changes, 3 rate limits, 3 hours; 2 stakers, stakes of up to 3, 3 rates (one refused), 3 TEQ, 4 blocks, a year of 100 units instead of 6307200 blocks, so that rewards round | `OwnerScope` |
| `deposits` | is a deposit credited once, is it credited, does the backfill leave a gap? | 2 deposits (ETH, token), 3 blocks of which one may be empty, a lookback of 1 block, chunks of 1 block, 2 passes at once, a list of 2 | `DepositScope` |
| `withdrawals` | does a row say what L1 says, does a poll leave a gap, has a range one root, is what is queued paid and marked? | 2 withdrawals, 2 blocks, batches of 1 block, 2 polls at once, a list of 2 | `WithdrawalScope` |
| `sequencer` | is health honest, does the process stop, does finality hold? | 6 services, 2 signals, 1 crash, 3 new blocks, 2 passes of the builder, 1 lost call | `SequencerScope` |
| `observers` | does the cursor leave a hole, do rows follow both chains, is every block served, does the gateway pass over anything? | 3 blocks of which two have transactions, batches of 2, 2 passes at once; 1 deposit, 1 withdrawal, 2 cursors; 2 polls at once, 2 transfers remembered; each fault once | `ObserversScope` |
| `upkeep` | does the selector table act as a map, do two versions of the facet keep one log, does evidence move periods as documented? | 4 selectors, 3 facets, the diamond itself and an account without code, lists of up to 3 with repetitions, cuts of up to 2 groups; 3 batches of 2 blocks, or of any length, 2 roots, 1 sequencer; 1 batch looked at, 3 watchtowers, 4 amounts, 3 pairs of tiers, 4 settings of factors (one above 1, one unordered), 4 ages, up to 2001 batches and 2 disputes | `UpkeepScope` |
| `deposit_lost` | is every event read stored, with one crash? | as `deposits`, 2 blocks, a lookback of 2, 1 pass | `DepositScope`; fails: section 6 |
| `false_challenge` | does a truthful defender of a true batch prevail? | a batch of 2 steps | `PlayScope`; fails: section 6 |

A *scope* is a `CONSTRAINT`: every state reached is checked, and the run goes on
from those in scope. Scopes split the work between instances (DA policy is the
settlement instance's) and within one (the bridge instance explores disputes of
withdrawals or odd tokens, the observers instance one of its three parts at a
time, the withdrawals instance two faults at most), and drop orders of the
owner's preparatory steps; each has a comment that says what it leaves to whom.
Deadlock is not checked: every counter is bounded, so every instance may come to
rest. The three parts of `upkeep` share no state, and neither do the two of
`l2bridge`: a variable chosen at the start says which one a behaviour explores.

Why these bounds are enough to be of interest: two roots that disagree about one
id are what it takes for one claim to replace another; three batches are what it
takes for an anchor or a legacy batch to stand between two commitments; the
second finalization, queueing or dispute of the same thing needs only one of
them; two disputes about one batch are what it takes to confuse their bonds, to
count wrongly and to have two verdicts; five steps are odd and need three
rounds; three withdrawals within two windows exceed a quota of one; two deposits
in one block are what it takes for a cut-off insert to be passed over, and two
passes for both to send the same row. Two polls are what it takes for a cursor to
go back; two withdrawals for one to be in a batch and the other in none, or for
a stuck row beside one that is not; two passes of the builder for an answer to
come late; a batch of two among three blocks for a failure in the middle of a
batch; a list of two transfers among three for one to be forgotten. Two facets
beside the one that cuts are what it takes for a facet to move in the list when
another goes, and two or three selectors for one to move in a facet's. Each
property was seen to fail when the
guard or assignment it rests on is taken away (the `mutants`).

`settlement` uses symmetry of the two roots, `upkeep` of the watchtowers, `l2bridge`
of the stakers; no run with liveness uses any.

### Fairness

`DisputeSpec` (run `bisection`): days pass; a transaction that has begun ends;
`timeout` is called when it can be, and so is `resolveDispute`, with a step that
the VM accepts, when it can be all the time: it reverts unless someone has
snapshots that hash to the root the parties agreed on (FaultProofVM.sol:143), so
the instance has a root that nobody can show a step from. Both are open to
anyone ("Anyone can call this to enforce the timeout", DisputeGame.sol:390) and
the winner has an interest in the call. No fairness is assumed of the parties'
answers: either may stop, or answer for ever. The owner is quiet once a dispute
has started (`OwnerIsQuiet`): one who moves deadlines or replaces the game in the
bridge for ever can keep disputes open. Parties accept ETH and the bond amount is not 0: with a winner whose
address refuses ETH `refundBond` reverts on every attempt and `DisputesEnd` does
not hold, and neither with a bond amount of 0, which `slashBond` refuses
(section 6).

`FairDepositSpec` (runs `deposits`, `deposit_lost`): the listener's awaits return
and its subscription takes effect, a process that went down is started again,
and each pass of the processor starts on a tick of its timer and goes on. A
websocket that closed stays closed until then. Nothing is assumed of the users,
the owner, the faults, or a transaction nobody waits for. `DepositScope` cuts no
step off for good that this fairness asks for.

`FairWithdrawalSpec` (run `withdrawals`): a process that went down is started
again (the deployment's supervisor), a pass of the finalizer begins on a tick of
its timer and each of its awaits returns, a row ripens by the local clock and
what is queued on L1 falls due. Nothing is assumed of listener, submitter,
script, users, challengers or other relayers.

`FairSequencerSpec` (run `sequencer`): what `main` and `shutdown` await comes, and
statements at the database end. Nothing is assumed of signals, crashes and the
block builder.

`FairObserversSpec` (run `observers`): timers fire, answers of the RPC and the
database arrive, cached entries expire (each is set with a TTL), a backoff runs
out, and a process that ended is started again. Nothing is assumed of events of
a websocket and of the gateway.

Under a `CONSTRAINT` liveness is about behaviours that stay in scope.

### What the properties say

*Settlement*: `CommitmentsAreChained`, `BatchRootsAreFinal` (action property),
`DaPolicyIsNotBypassed` (action property); `HeadIsLatest` and
`RotationHasNoDuplicates` are proved and in no run. *Bridge*: `QueuedIsCommitted`,
`CustodyCoversCredits`, `PaidOnce` (proved; the escrow says as much),
`DelayIsWithinPolicy`, `ImplementsEscrow` (refinement). *Disputes*:
`BondsAreCovered`, `BondsFollowDisputes`, `ActiveCountIsExact`,
`FraudIsInvalidated`, `BisectionHalves`, `DisputesEnd` (liveness). *L1*:
`NoPaymentAfterFraud` (action property), `DiamondIsUndisturbed` (refinement).
*L2 bridge*: `SettledOnce`, `AccountsAreExact`, `RateIsLimited`, `PairsMatch`
(proved, in no run).
*Deposits*: `CreditedOnce`, `MarkedIsCredited`, `BackfillLeavesNoGap`,
`ListenerCatchesUp` and `StoredIsCredited` (liveness). *Withdrawals*:
`MarksFollowL1`, `PollsLeaveNoGap`, `BatchesFollowL1`, `QueuedIsFinalized`
(liveness). *Process*: `FinalityHolds`, `HealthIsHonest`, `StopsInTheEnd`
(liveness), `CleanExit` (action property). *Observers*: `CursorLeavesNoHole`,
`RowsFollowBridge`, `GatewayDelivers`, `BlocksAreServed` and `BridgeCatchesUp`
(liveness). *Proxy*: `TableActsAsMap`. *Upgrade*: `ImplementsBatchLog`
(refinement). *Oracle*: `EvidenceMovesPeriods` (action property). *Staking*:
`RewardsFollowAccrual`. Each definition has a
comment that states it in words. Some points worth knowing:

- `RateIsLimited`: windows begin with a withdrawal, so any stretch as long as
  the window may hold up to 2 max - 1 withdrawals, not max.
- `DisputesEnd` says that a dispute does not wait for the same party for ever, so
  that it ends when either stops answering; and that it does not go on with a
  last step that anyone can prove. A range of one step may be answered without
  end (DisputeGame.sol:309), each answer moves the deadline, and so two parties
  that agree again and again on a root nobody can show a step from keep the
  dispute open: `EveryDisputeEnds` in `L1` says that none is, and fails
  (section 6).
- `AccountsAreExact` takes tokens together that pairs ever joined, directly or by
  way of others: after `removeTokenPair` and `addTokenPair` with another partner,
  holders withdraw the new L1 token for deposits of the old one, or get a refund
  in the new wrapped token. Where no partner changed it is said of the single
  token. It says nothing of the amounts on L1 behind a wrapped token.
- `BackfillLeavesNoGap` holds through crashes, failed calls and inserts and any
  lookback, but for the deposits in `missed`, which counts three ways and no
  other: the insert of a backfill failed, the process went down between the
  inserts of one block (section 6), or the table had no row with a block when the
  head was more than 50000 blocks past the deposit (l1-listener.service.ts:212).
  Rows of live events have block 0, so the last may happen at any start.
- `ListenerCatchesUp` is about the backfill of a start and about what a
  subscription delivered. A listener that went deaf misses all that comes until
  the process starts again, and so does one whose deposit comes between the
  backfill's look at L1 and the subscription (section 6).
- `StoredIsCredited` holds as long as fewer rows than the limit are stuck. Rows
  are stuck for good after a crash or a lost receipt between the credit and the
  mark: every later attempt reverts, and nothing else marks the row.
- `NoPaymentAfterFraud` says nothing of withdrawals paid before the verdict: the
  code ties the challenge period to no running dispute.
- `PollsLeaveNoGap` speaks of the blocks since the listener started: what is
  mined while the process is down is never looked for
  (l2-withdrawal-listener.service.ts:38). It excludes failed inserts, which are
  logged and passed over.
- `QueuedIsFinalized` excludes rows that are stuck: barred on L1, or paid while
  the revert is the custom error of the repository's facet, which the finalizer
  does not recognise (withdrawal-finalizer.service.ts:177). As many of them as
  its list is long stop it. It is about rows that are queued; with the
  repository's facet the submitter's legacy call queues none.
- `FinalityHolds` holds but for passes of the builder that begin while another's
  forkchoice is under way (`crossed`): the late answer sets `lastBlockHash` back
  (block-builder.service.ts:166) and the next block is built beside the chain. It
  rests on a client that refuses an inconsistent forkchoice as a whole, as the
  engine API asks; section 6 says what another client does to it.
- `HealthIsHonest` is about the services' own flags: that of the L1 listener stays
  set when its websocket closes, so a healthy process may be deaf to L1.
- `CursorLeavesNoHole` and `BlocksAreServed` leave out the blocks of which a failed
  read came back empty (rpc.service.ts:46, 88, 112), which nothing repairs.
- `RowsFollowBridge` says nothing of blocks before the first one a cursor had, and
  leaves out withdrawals a lifecycle script set back (`relapsed`).

- `EvidenceMovesPeriods` needs factors that decrease with confirmations, which
  `setWatchtowerFactors` does not ask for, and an oracle that does not revert. It
  is about the period the bridge takes, so an answer it would discard as out of
  range shows as well.
- `TableActsAsMap` compares, in every table that can be reached, every cut of the
  instance: a repetition in a list, a facet without code, an earlier group of
  the same cut that changed the route.
- `RewardsFollowAccrual` leaves out stakes that are `disturbed`, for which it does
  not hold (section 6).

## 4. Proofs

Checked by TLAPS for every value of the constants that satisfies the named
assumptions of the modules (`AppStorageAssumption`, `BridgeFacetAssumption`,
`DiamondAssumption`, `BondManagerAssumption`, `DisputeGameAssumption`,
`L2BridgeAssumption`, `NoWithdrawalAssumption`, `InitialPairsAssumption`,
`DepositPipelineAssumption`, `WithdrawalPipelineAssumption`, `NoRowAssumption`,
`BlockBuilderAssumption`, `SequencerProcessAssumption`, `BlockIndexAssumption`,
`BridgeIndexAssumption`, `GatewayAssumption`, `UpgradeAssumption`,
`StakingAssumption`, `OracleAssumption`, `SelectorTableAssumption`). They
say what the code's types and constants say: sets of numbers are naturals,
special values differ from ordinary ones, the rotation length exceeds 1, the
minimal period, chunks and lists are positive, a cut is a list of groups of
selectors. TLC evaluates each of them in the runs.

| Theorem | States | Argument |
|---|---|---|
| `TypeCorrect` | `[]TypeOK` of the diamond | inductive, one case per function |
| `HeadIsAlwaysLatest` | `[]HeadIsLatest` | inductive with `TypeOK`; the effect of each batch path is a lemma |
| `RootsAreFinal` | `BatchRootsAreFinal` | from `HeadIsLatest`: a path that writes a number's root finds it beyond the head |
| `CommitmentsAlwaysChained` | `[]CommitmentsAreChained` | not inductive: `ChainInv` adds `HeadIsLatest` and that the commitment of the latest batch, if it has one, ends at the latest block, submitted or anchored |
| `DaPolicyHolds` | `DaPolicyIsNotBypassed` | by cases, from the type and the head |
| `RotationNeverRepeats` | `[]RotationHasNoDuplicates` | swap-and-pop and list append keep a sequence injective |
| `QueuedAlwaysCommitted` | `[]QueuedIsCommitted` | entries are never overwritten, roots are final |
| `PaidAtMostOnce` | `[]PaidOnce` | inductive with `TypeOK`, across the two halves of a finalization |
| `CustodyAlwaysCovers` | `[]CustodyCoversCredits` | inductive |
| `DelayAlwaysWithinPolicy` | `[]DelayIsWithinPolicy` | not inductive: `PeriodWithinPolicy` says that the stored period stays in range |
| `DiamondImplementsEscrow` | `ImplementsEscrow` | initial states map to initial states, each step to an escrow step or a stutter, from the invariants above |
| `L1ImplementsDiamond` | `DiamondIsUndisturbed` | `L1Inv`: types, commitments that span a block, well-formed disputes; a step of the game is `invalidateBatch` or nothing to the diamond |
| `FraudNeverPays` | `NoPaymentAfterFraud` | `FraudIsBarred`: the batches proven fraudulent are invalidated; an invalidated batch lets no withdrawal out or in, and stays so |
| `FraudAlwaysInvalidated` | `[]FraudIsInvalidated` | not inductive: `VerdictInv` adds that ids are not given out twice, that a resolution under way holds the lock and its dispute is finished, and that verdicts are exactly the disputes won; with `FraudIsBarred` |
| `ActiveCountAlwaysExact` | `[]ActiveCountIsExact` | `CountInv`: the counter is the cardinality of the running disputes, each step adds one of them, takes one away or leaves them |
| `BondsAlwaysFollowDisputes` | `[]BondsFollowDisputes` | `BondsHeld` adds that the parties of a dispute differ: each of its ends takes both bonds before or with the end of the dispute |
| `BondsAlwaysCovered` | `[]BondsAreCovered` | not inductive: `BondInv` says that the surplus of the contract covers the reward of the resolution under way; sums over parties and disputes change by the amounts moved |
| `BisectionAlwaysHalves` | `[]BisectionHalves` | `RangesHalve` says of each dispute that `(width - 1) * 2^rounds` stays below its steps; both halves of a range are at most half of it, rounded up |
| `L2TypeCorrect` | `[]L2TypeOK` | inductive |
| `PairsAlwaysMatch` | `[]PairsMatch` | inductive with the type |
| `SettledAtMostOnce` | `[]SettledOnce` | not inductive: `NoncesAhead` says that a nonce not given out has no withdrawal |
| `RewardsAlwaysFollowAccrual` | `[]RewardsFollowAccrual` | not inductive: `RewardInv` says of each stake that is not disturbed that its rewards, with the blocks it has not claimed for, keep within what accrued; rewards round down |
| `AccountsAlwaysExact` | `[]AccountsAreExact` | not inductive: `AccountInv` says it of any assets that are apart from the others (`GroupsAreExact`), and adds that every registered pair is among those ever paired and that the sets counted are finite; with `PairsMatch`, `L2TypeOK` and `SettledInv`. A step moves a unit on both sides of every such group or of none (`UnitsMove`), and a further pair leaves fewer groups |
| `RateAlwaysLimited` | `[]RateIsLimited` | not inductive: `RateInv` keeps, for the window a user is in, how many withdrawals it and any stretch before it hold; the counting is a theory of sets of times of its own (`Counted`) |
| `FacetsImplementBatchLog` | `ImplementsBatchLog` | each function of either facet is an append, an anchor or a stutter of the log; `HeadInv` says that what lies beyond the head is empty, whichever facet wrote last |
| `EvidenceAlwaysMovesPeriods` | `EvidenceMovesPeriods` | each factor moves one way with what it is computed from (`WatchFalls`, `ShareMoves`, `TrustMoves`), a product rounded down after each factor moves with them (`TimesGrows`), and a step of the evidence moves one of the factors' arguments; `PeriodInv` keeps the factors within 1 |
| `TableAlwaysActsAsMap` | `[]TableActsAsMap` | each list of the table is `Indexed` by the positions kept with it: an append and a swap-and-pop keep that, which shows that `AddFunction` and `RemoveFunction` do to a table what they say (`FunctionAdded`, `FunctionRemoved`). `Well(t, kept)` says it of a whole table in the middle of a cut, when a facet may be listed before its first selector; it carries the loop over a group's selectors beside the map's test of the whole group (`LoopMoves`, `GroupActs`), and that the loop over the groups (`CutActs`). Between two calls it is the inductive `TableInv` |
| `FinalityAlwaysHolds` | `[]FinalityHolds` | not inductive: `BuilderInv` says of every pass and every answer on its way that the finalized blocks stay below what it may make the head |
| `HealthIsAlwaysHonest` | `[]HealthIsHonest` | not inductive: `ProcessInv` says which services run at each step of `startAll` while the pool is open |
| `ExitsAreClean` | `CleanExit` | from `ProcessInv`: the pool ends only for a signal, and the exit after it waits for its statements |
| `CreditedAtMostOnce` | `[]CreditedOnce` | not inductive: `DepositInv` says that `credits` is 1 exactly for processed ids, and that whatever an id stands in (the wire, a backfill, a row, a pass, a transaction on L2) its deposit was made |
| `MarkedAlwaysCredited` | `[]MarkedIsCredited` | from the same `DepositInv`: what a pass holds as done was credited, and a credit stays |
| `BackfillsNeverLeaveGap` | `[]BackfillLeavesNoGap` | not inductive: `GapInv` says it of every block that has a row and of what the backfill has scanned, not only of the highest block, and bounds both by the height of L1; `ListedInv` says that what a pass has stands in the table; that a table has a highest block is by well-founded induction |
| `MarksAlwaysFollowL1` | `[]MarksFollowL1` | not inductive: `PipelineInv` adds that what the submitter has is not queued, what the finalizer has is queued and, where it says so, paid, what the script has is finalized, and that L1 takes nothing back |
| `PollsNeverLeaveGap` | `[]PollsLeaveNoGap` | from the same `PipelineInv`, which says it not only of the cursor but of the height every running poll will set it to |
| `BatchesAlwaysFollowL1` | `[]BatchesFollowL1` | from the same `PipelineInv`: what waits for its root is of the range after the last root; that the greatest submitted batch exists is by well-founded induction |
| `CursorNeverLeavesHole` | `[]CursorLeavesNoHole` | not inductive: `BlockInv` says of every pass that all is stored below the block it is at and below its batch, and what it has stored of that block |
| `RowsAlwaysFollowBridge` | `[]RowsFollowBridge` | not inductive: `RowInv` says it up to the block a pass is at (`Reach`), not only up to the cursor, and that a withdrawal is queued once and before it is paid, which is why an upsert never takes a row back |
| `GatewayAlwaysDelivers` | `[]GatewayDelivers` | not inductive: `GatewayInv` says of every running poll what was told up to the block it is at, whatever the cursor does meanwhile, and that what is remembered is what was told or is on its way, each once; that none is forgotten early is by the pigeonhole principle |

By `L1ImplementsDiamond` what is proved of `Diamond!Spec` holds on L1 with the
dispute game, its bonds and any owner around it.

Two assumptions are there for the sums: the parties of the bonds are finitely
many, as addresses are, and `BondManager` is constructed with a share of at most
10000 basis points, as its constructor demands (BondManager.sol:111).

Sums over finite sets and powers of two are functions defined by recursion. That
they exist and satisfy their equations is proved for each of them, by a minimal
counterexample (`PowersDefined` in `L1Proofs` and the lemmas before it); the
general theorems of the library take an operator as a parameter, which the
provers cannot instantiate. The loops of a cut are folds of the community
modules: `FoldExists` proves in the same way that the function behind each of
them exists, and `FoldRuns` turns it into the results after each element, so
that what a loop does follows from its steps by a first step that does otherwise.

Every safety invariant and action property of the runs that pass is proved. Only
model-checked, since out of the prover's reach: liveness under fairness (`DisputesEnd`, `ListenerCatchesUp`,
`StoredIsCredited`, `QueuedIsFinalized`, `StopsInTheEnd`, `BlocksAreServed`,
`BridgeCatchesUp`), ENABLED, and recursive operators; no module here declares
one.

## 5. What is not modelled

Amounts of a withdrawal beyond their equality; gas; the treasury refusing ETH;
L1 and L2 reorganizations seen by the services; two dispute games sharing one
BondManager; tokens that call back during `transferFrom`. Ownership and cuts are
in `SelectorTable` only: in the other modules all facets' functions are
installed and the owners are fixed.

- *Reorganization handler* of the indexer (`reorg-handler.ts`): no file imports it.
- *Statistics counters* of the indexer (`queries/state.ts:37-46`): read, add, write
  without a lock, so overlapping passes lose counts; only totals shown to users
  depend on it.
- *Routes that only read*, the monitor, `redis.ts` (imported by nothing), logging,
  configuration and migrations: no state of their own.
- *Merkle trees* (`utils/merkle.ts`): a root is what it commits to.
- *l2bridge.sol* (the predecessor of L2BridgeV3: the same deposits and
  withdrawals, no rate limit), *l2token.sol* (a balance with a mint) and
  *MockStablecoin.sol* (for tests): nothing of their own beside what `L2BridgeV3`
  has of them.

`PROJECT.json` gives the reason for every component.

## 6. Findings

- `false_challenge`: when the parties agree at a midpoint, `respondBisection`
  moves the agreed state but leaves the defender's claim at the midpoint
  (DisputeGame.sol:328), so a truthful sequencer loses a dispute of more than
  one step.
- `deposit_lost`: the backfill starts after the highest block in the table
  (l1-listener.service.ts:212); a crash, or a failed insert, between two
  deposits of one block loses the second for good, although the backfill had
  read it.

Seen while modelling, without a run of their own:

- The root of a batch is built from the rows there are when `submitBatch` reads
  them (batch-submitter.service.ts:126): a withdrawal whose poll comes later is in
  no root, and nothing takes its range again. `Withdrawals!SettledIsCommitted`
  states the contrary and fails with no fault at all.
- An answer is accepted when the range is already one step (DisputeGame.sol:309)
  and replaces the claim under judgement: the sequencer of a false batch states
  the true root of the last step and wins (`HonestChallengerSpec` with
  `HonestChallengerPrevails` in place of the defender's in `false_challenge.cfg`).
- A range of one step may be answered again and again (DisputeGame.sol:309), and
  each answer moves the deadline; while the parties agree on a root that nobody
  has snapshots of, `resolveDispute` reverts (FaultProofVM.sol:143). The dispute
  stays open, and keeps its place among the few a batch may have
  (`EveryDisputeEnds` in place of `DisputesEnd` in `bisection.cfg`).
- "Capture websocket-level errors so they don't bubble as uncaught exceptions"
  (l1-listener.service.ts:102): no handler is attached, for the listener looks for
  `provider._websocket` (line 105), which ethers 6 calls `websocket`.
  `scheduleReconnect` is never called, and a listener whose websocket closed
  hears nothing until the process starts again, its flag `isRunning` set.
- The listener asks for its subscription (line 143) without waiting for it, and
  its backfill asks for the head over HTTP: a deposit after that head and before
  the subscription takes effect is in neither, with no fault at all
  (`EveryDepositIsStored` in place of `EveryEventIsStored` in `deposit_lost.cfg`).
  The next start finds it, unless the lookback has passed it.
- Rows of live events carry block 0 (`handleDeposit` reads `event.blockNumber` of an
  object that has it in a field `log`). It is what keeps a live event from moving
  the start of the next backfill past a deposit the subscription missed: with the
  block in these rows `BackfillLeavesNoGap` fails. It also lets the lookback apply
  at every start until a backfill has stored a row.
- A client may make a block its head and then find that the finalized block of the
  same call is not in its chain, as the one named in the builder does
  (block-builder.service.ts:103): the call is refused and the head has moved. With
  such a client `FinalityHolds` fails without any pass being `crossed`: a pass that
  waits for its payload is overtaken by a whole pass and the start of a third,
  and its own forkchoice, refused, puts the head beside what was finalized.
- A refund comes in the present partner of the token asked for
  (L2BridgeV3.sol:227), which need not be the wrapped token that was burned.
- A resolution sends the winner's bond back and reverts when the winner refuses
  it (BondManager.sol:205): its disputes never end, and keep their places among
  the few a batch may have (`bisection.cfg` with a party in `Refusing`).
- Disputes are counted as they start, several for one batch (DisputeGame.sol:273);
  once they outnumber the recorded batches the oracle reverts
  (ChallengePeriod.sol:251) and the bridge takes its own period, which may be
  shorter: with such a period of one day, and without its two conditions
  `~Reverts`, `EvidenceMovesPeriods` fails.
- `unstake` reverts with its claim while the contract is short of TEQ
  (ETHStaking.sol:155), although the header calls it "Instant unstaking" (line 16).
- A claim multiplies the stake and the rate of the moment by all blocks since the
  last one (ETHStaking.sol:185), so a new rate is paid for blocks before it; and a
  claim that rounds to 0 leaves its blocks to a larger stake (line 149). With
  `disturbed` empty throughout `RewardsFollowAccrual` fails.
- `queueWithdrawal` in the repository's facet always reverts (BridgeFacet.sol:221-229)
  and its errors are custom ones: the submitter's queueing and the finalizer's
  recognition of what was paid work with an older facet only.
- When the receipt of `submitBatch` is lost, the batch is on L1 and its
  withdrawals are never queued.
- The builder asks for a payload on top of a block that is not the client's head
  after a late answer, and gets no `payloadId` (block-builder.service.ts:124).
- A second signal ends the pool twice, and the process exits with 1 although the
  first shutdown would have been clean (index.ts:151).
- The lifecycle script sets a finalized withdrawal back to queued when it read the
  chain before the payment (bridge.ts:182); the first insert of a row from L1
  leaves the queue and finalization hash columns empty (bridge.ts:147-150).
- `diamondCut` can be removed or replaced as any other function, although "This
  facet is always included in the Diamond" (DiamondCutFacet.sol:10); and removing
  a selector that leads nowhere reverts (LibDiamond.sol:153), although "if
  function does not exist then do nothing and return" (line 131).
- `unstakeAll` always reverts: it calls `this.unstake` (ETHStaking.sol:126), whose
  caller is the contract. The initial rate of 50 is half a percent of 10000, not
  "50% APY (5000 basis points)" (line 25).
- Before `setAuthorizedContracts` a watchtower may confirm a batch that does not
  exist (ChallengePeriod.sol:210).
- With no start block configured, a first sync that fails starts again at the new
  head and leaves out the events in between (bridge-listener.ts:113).

## 7. Plan

In this order, the first what matters most to users' funds:

1. `ChallengePeriod` put in the place of the oracle in `Diamond`, so that a pre-V3
   withdrawal's expiry moves with its evidence.
2. The L2 bridge V2 as a predecessor of `L2BridgeV3`, in the way of
   `SequencerUpgrade`; two dispute games on one BondManager.

Modules to be proved about declare no RECURSIVE operator; constants get named
assumptions in the module that declares them; abstract specifications are
modules of their own, as `WithdrawalEscrow` is. A run is one question about one
subject: a new component joins the run of its subject.
