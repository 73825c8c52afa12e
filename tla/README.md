# MEX: TLA+ models, model checks and proofs

MEX is an exchange in which replicated API nodes match orders, traders lock
funds in on-chain escrows, and nodes settle the matched trades in batches. This
directory models the parts on which users' funds, orders and nodes' standing
depend, checks them with TLC on small instances, and proves the main properties
of the contracts, the API node's recovery and settlement, the archived log, the
flooding and the misconduct quorum with TLAPS for every instance.

## 1. The system

| Part | State | Operations | Modelled in |
|---|---|---|---|
| `NodeRegistry.sol` | nodes, stakes, missed deadlines, pooled ether | register, slash, record a missed deadline, deactivate, activate, withdraw | `NodeRegistry` |
| `TraderEscrow.sol` | free and locked balances, settlement records | deposit, withdraw, refund, lock, netted payment, record | `TraderEscrow` |
| `SettlementFactory.sol` | escrows, calls across the other two contracts | create an escrow, swap, commit, settle a batch, claim a slash | `SettlementFactory` |
| `crates/engine` | bids, asks, node list, round-robin cursor | `add_order_at`, `cancel_order`, `set_active_nodes`, cursor restore | `OrderBook` |
| `api/persistence.rs`, `snapshot_loop.rs` | write-ahead log (WAL), snapshot, archive | append, capture, save, truncate, replay, archive | `PersistenceLog`, `AuditTrail` |
| `api/server.rs` (state), fees | `AppState`: book, logs, pending data, queue, ledger, nonces | apply an order, confirm, flush, build a batch, restore, recover | `ApiState` |
| `api` handlers and loops, Ethereum and FRG adapters | the above, a chunk in flight, the mempool | section 3 | `ApiNode` |
| `api/main.rs` | environment, tasks, what the node is built from | read settings, start the mesh, load state, spawn loops, serve | `ApiBoot` |
| `crates/chain-ethereum` sync | watermark, persisted events, ledger | poll, record, apply, replay | `ChainSync` |
| `crates/batcher`, `crates/prover` | queue, shared ledger, a chunk under way | group, read balances, prove, debit, roll back, credit, report | `Batcher` |
| `crates/orderlog` | hash chain: hot window and archive | append, archive, resume, query, verify | `HashChainLog`, `ArchivedLog`, `AppendOnlyLog` |
| log endpoints, `watchtower_node`, `audit_order_log` | a mirror, a response, an audit | serve, mirror, audit | `AuditTrail` |
| `protocol/sequencer.rs`, `ordering.rs`, `batch_quorum.rs`, `api/order_sequencing.rs` | evidence, queues, votes, confirmations | flush, sort, propose, vote, confirm, time out, requeue | `Sequencing` |
| `protocol/flood.rs`, echo probes | caches, nonces, packets | inject, receive, forward, probe | `MeshFlood` |
| `protocol/node.rs`, `latency.rs` | channels, pings, half observations | receive, deliver, handle, ping, judge a hop | `MeshNode` |
| misconduct quorum, `mesh_chain_status.rs` | votes, flags, a view of the registry | report, receive, poll the chain | `Misconduct` |
| `crates/reputation` | metrics, stakes, bonds, penalties, the pool | join, leave, update, penalise, slash, lock, forfeit | `Reputation` |
| `crates/agent-sim`, `trader-client/client.rs` | agents, one book per node, messages | place, cancel, step, commit, undo | `AgentSim` |

How the parts interact. A client's order reaches a handler of some node, and
gossip takes it to the others. With sequencing on, it waits in
`pending_order_data` until the sequencing loop resolves a batch; otherwise it is
applied at once. Every change is appended to the WAL before it is applied.
Matches wait in `pending_commits` until both traders have committed on chain;
`confirm_committed` then moves a trade to the batcher's queue and credits the
ledger. The settlement loop takes chunks from the queue, submits them to a
contract and writes a `BatchSubmitted` checkpoint. The snapshot loop saves the
state, truncates the WAL and archives old log entries. At boot, a node loads the
snapshot, replays the tail, and asks the chain about the trades that replay
queued. Watchtowers mirror the logs and report nodes; reports are voted on, and
flags enter the reputation engine.

What makes it hard: tasks share one lock which they release around I/O; a crash
can fall between any two steps; submissions fail, arrive late or revert;
packets are lost, late, reordered or doubled; bounded channels fill up; contract
functions are called in any order by several parties.

## 2. How the modules fit together

- `SettlementFactory` composes the three contracts; `EscrowPromise` is the
  abstract specification that the composition implements.
- `ApiNode` composes `PersistenceLog` and `ApiState` with the node's loops, and
  `MCApiNode` starts it by `ApiBoot`.
- `SeqFolds` has the operators on sequences that `ApiState`, `AuditTrail`,
  `MeshFlood` and `Sequencing` need. The community module that offers them brings
  the theorem libraries along, which the prover would carry through every step of
  the long proofs.
- `Batcher` EXTENDS `ChainSync`: both tasks work on one ledger.
- `AuditTrail` EXTENDS `ArchivedLog`, which EXTENDS `HashChainLog`;
  `AppendOnlyLog` is the abstract specification of archive and hot window.
- `MCMesh` puts `MeshFlood` and `Misconduct` on the same four nodes.
- `AgentSim` uses the matching of `OrderBook` at every simulated node.
- A detail is modelled once. Where a module meets a part that another one
  details, it has that part's outcome as a free choice: `ApiNode` does not know
  why a batch was confirmed, and `MeshNode` takes floods off a channel whose
  effect `MeshFlood` models.

Operators commented `Slip:` are wrong variants of the definition that follows
them. No action uses them; they confirm that a property fails when the code
makes that mistake.

## 3. Modules and code

**`NodeRegistry`, `TraderEscrow`, `SettlementFactory`.** One action per external
function; a `require` is a conjunct of the guard, and a reverted call is no step.
The functions' loops over a batch are written as what they do to all records at
once, with the repetitions a batch may contain excluded or handled where the code
does so. `now` is `block.timestamp`. `TradeEntries` is the calldata that callers
may use. Proofs and signatures are taken to be valid. Amounts are natural
numbers without width: Solidity 0.8 reverts on overflow.

**`PersistenceLog`.** `wal` is the part of the log not yet truncated and `base`
the number of entries truncated; a snapshot `covers` a prefix. Saving and
truncating are separate steps, because a crash may come between them.

**`ApiState`.** `AppState` as one record, and each state change shared by handlers
and replay as an operator on it. `Recover(log, slot)` is
`load_persistence`: it applies the snapshot and folds the replay of each entry
over the tail. It can be evaluated in any state, which is how the properties
speak of "what a restart would rebuild". Matching is reduced to `Crossing`, the
pairs of orders that trade; `OrderBook` models it in full. `FeeOf` is the
`FeeCalculator`'s fee as a function of the configured gas price.

**`ApiNode`.** An action is what one task does under one hold of the lock, or one
step of I/O outside it.

| Action | Code |
|---|---|
| `QueueOrder`, `SubmitImmediate` | `submit_order`, the gossip replication loop |
| `Flush`, `ApplyResolvedBatch`, `RequeueBatch` | the sequencing loop; the quorum's outcome is a free choice |
| `ConfirmCommitted` | `confirm_committed` |
| `Reconcile` | `reconcile_replayed_confirmations` |
| `ProcessBatches`, `SkipChunk`, `BuildSettlementTrades`, `BuildFails`, `SubmitSettlementBatch`, `SubmitToFrg`, `SubmissionFails`, `Checkpoint` | the settlement loop and the adapters; `SkipChunk` is its pre-flight check of assignment, fees and deadlines |
| `SnapshotLoop` | the snapshot loop |
| `Mine`, `Expire` | the chain (external); on FRG, `sett` |
| `Restart` | a crash at any point, then `load_persistence` |

A crash between an append and its effect is a member of `LogsAtCrash`. The
transactions of the node's account are mined in the order they were sent
(`mempool`), and a crash calls none of them back. A behaviour has a `setup` that never changes: which chain, which gas price, whether
orders are sequenced and snapshots taken, and which `Faults` may happen. A
property that depends on the absence of a fault names it.

The history variables `reverted` (the trades whose transaction was mined and
refused) and `outlived` (the transactions that waited to be mined at a crash) are
read by the properties only. A match made without a shared
estimate has no timestamp of its own in the model, since no property tells one
local time from another.

**`ApiBoot`.** `main` from the environment to a serving node, one action per group
of settings it reads; each may end the process. `main` passes URLs and contract
addresses on unchecked, so a settlement or chain-status loop that cannot make its
adapter returns after it was spawned (`TaskReturns`), and the node serves on. An
environment is every choice an operator has, and each of them with one thing wrong.
A node that serves in the
environment of its setup goes on as `ApiNode` (`StartSpec` of `MCApiNode`).

**`OrderBook`.** `AddOrderAt` is the whole of `add_order_at`: the walk over price
levels, self-trade skipping, partial fills, removal, the resting remainder and
the round-robin assignment. Deadlines are left out, as are empty price levels
left by `cancel_order`, which no operation tells from absent ones.

**`ChainSync`.** A tick of `SyncService` is five steps: the head, the factory's
logs, the escrows' logs, recording, applying. The chain grows and is reorganised
between them, requests and writes fail, and the process restarts. `LedgerMax` is
u64's largest value, and the ledger's unchecked additions wrap there.

**`Batcher`.** `build_batch` takes the ledger's lock anew for every two balances
it reads, every debit, and the credits or the rollback; each is a step, and a
step of `ChainSync` may come between any two. A proof is the inputs and witness
it was made for. The sharing is what `SettlementBatcher::with_ledger` offers; no
binary of the repository calls it yet, and the API node's own use of the batcher
is in `ApiState`.

**`HashChainLog`, `ArchivedLog`, `AuditTrail`.** A hash is the chain it commits
to, so that it has no collisions. `ArchivedLog` adds the archive; `AuditTrail` has
the order log and the match log (two instances), the snapshot cycle, restarts, the
endpoints with their two reads, the auditor and the mirroring watchtower.

**`Sequencing`.** Three nodes of which one, the origin, has already timed out. A
batch key is a set of orders and a proposal hash their sequence. A flush reads
the pending orders, queries the evidence, sorts, proposes, and waits for the
quorum or the timeout; floods, submissions, proposals and expiries interleave.

**`MeshFlood`, `MeshNode`, `Misconduct`.** Three views of `MeshNode::run`. In
`MeshFlood`, packets are a set that never shrinks, so that they are lost,
repeated and reordered. `MeshNode` is one node inside: the receive task holds a
message until the bounded channel takes it, the main loop handles one message at
a time. In `Misconduct`, an observer is a node with its own view of the registry.

**`Reputation`.** One node and any sequence of the engine's calls. Scores are in
thousandths. Thresholds, caps and special cases are those of the code.

**`AgentSim`.** `PlaceOrder`, `CancelOrder` and `Step`, one for each request under
the server's lock, and `Bootstrap`, which registers nodes and opens and funds the
agents' escrows or gives up on the first call that fails. An agent's order is
cancelled in any agent's name, as the server does; noise orders are not cancelled.
`Step` floods, matches at every node, commits on chain, and undoes what the chain
rejected.

## 4. Runs

A property that has several conjuncts is one idea, and each conjunct has a
definition and comment of its own.

| Run | Checks | States |
|---|---|---|
| `factory` | a paid trade is neither refunded nor slashed; locks equal open trades; escrows and the registry are solvent, nodes staked; the contracts implement `EscrowPromise` | 51,200 |
| `order_book` | amounts conserved, no foreign orders crossed, terms right; nodes assigned in turn; price-time priority | 1,607,728 |
| `api` | what a restart rebuilds; no order applied twice; checkpoints true; trades tracked; confirmed trades eventually settled; a start either ends or supplies every task | 625,713 |
| `ledger` | store and ledger follow the chain; reported chunks verify; no trade lost; both tasks catch up | 247,809 |
| `audit_trail` | logs, archive and mirror agree; readers served; history permanent; window trimmed | 190,051 |
| `sequencing` | sequences decided by evidence; confirmed batches agree; no order lost; every order applied | 193,655 |
| `mesh` | floods neither circle nor stop short; flags need a quorum of one window; reports that agree are not missed | 475,339 |
| `mesh_node` | latency conclusions right; with readers on its channels, the node drains them | 409,123 |
| `reputation` | standing earned; the pool true; a departure forfeits the broken bonds | 1,729,388 |
| `agent_sim` | replicas sound under rejected commits; cancelled orders trade no more | 735,399 |

Deadlock is not checked: every model has bounds on its inputs after which
nothing more need happen.

**Setups of `api`.** `TakingIn`: orders over HTTP and gossip, sequenced, with
failing appends and snapshots. `Settling`: settlement with failing appends, account
lookups, sends and expiry, and two crashes. `Snapshotting`: snapshots during
settlement, expiry. `Crashing` and `CrashingOnFrg`: crashes only, on either chain.
`Reverting`: batches that are mined late or expire under way. `Priced`: a gas price
away from the baseline. In all but the last a transaction may outlive a crash.

**Bounds.** Two crossing pairs are enough for a chunk with a companion trade, two
chunks, and one trade in flight while another is queued. One crash suffices for
the recovery properties, since `Recover` is evaluated in every state; two are
allowed where a crash during the recovery of a crash matters. The contract batch
has two entries, of three of which two name the same hash; deadlines 2 and 3 and
`MaxTime` 4 give seconds before, at and after each. The book sees four orders: a
level with two makers, a second level, and a taker across both. In `ledger`, u64
has two bits, so that sums and products overflow; four blocks hold an escrow, two
movements and a reorganisation. In `audit_trail`, a hot window of one entry makes
every second order archive. In `sequencing`, two orders within and beyond the
ambiguity window, and two of three nodes for a quorum. In `mesh`, a ring has two
ways between any two nodes, with hop limits that do and do not cut one; three
reports and three steps of time with a window of two give a vote that has expired,
one that has not, and one that replaces another. Channels in
`mesh_node` hold one message, so that they fill. In `reputation`, four calls and
three steps of time reach every threshold that is reachable. In `agent_sim`, two
regions give the longest way an order takes.

**Fairness.** Always weak, and never of a fault, a client or the chain's growth.

- `api`: the settlement loop, a `tokio` loop on an interval that never returns;
  flushing with the batch timers run out; reconciliation and checkpoints without
  failures; mining. It is assumed only in setups where nothing but crashes, which
  are bounded, goes wrong.
- `ledger`: the service's tick, which survives failures, and the batcher's steps.
- `audit_trail`: snapshot cycles whose archive writes succeed; failures are bounded.
- `sequencing`: each node's flush loop, which has a timeout on its wait.
- `mesh_node`: the receive task's delivery, the main loop's handling of each
  channel (`select!` is unbiased), and reads of the receivers the owner took.

### Where code and documentation disagree

Two runs show a violation.

| Run | What happens |
|---|---|
| `reports_stuck` | in the API process nobody reads the misconduct channel; when it is full the receive task waits for ever, and reports no longer reach the node's own reputation engine, which `node.rs:681` says is updated regardless |
| `fees_refused` | with a configured gas price, trades get fees that the node's own pre-flight check refuses as "a bug upstream of settlement" (`settlement.rs:292`), and are not settled |

Others appear as conditions of properties (a setup without that fault, or a
property restricted to the case in which the statement holds):

- A snapshot taken while a chunk is being submitted holds it nowhere; after
  truncation a crash loses it (`server.rs:843`, against `persistence.rs:27`).
- Trades in a snapshot's queue are queued again although a later checkpoint says
  they are settled (`server.rs:836`, against `persistence.rs:63`), without their
  ledger credit.
- Snapshots leave out the orders waiting for sequencing (`server.rs:844`, against
  `persistence.rs:85`).
- A transaction that waits at a crash and is mined after reconciliation looked
  settles trades that are queued again. Their next submission fails, and the ledger
  is short of what it consumed; or it is sent first and reverts, and the other
  trades of its chunk are checkpointed unsettled (`settlement.rs:417`, against the
  comment above it: "never a fund-safety or data-loss issue"). Hence `NoneOutlived`
  in `TradesTracked` and `EventuallySettled`; what the log says of such trades is
  still right (`ConfirmationsRecoverable`).
- A failed chunk is requeued without the ledger credit it had consumed, so the
  retry drops it as insolvent (`settlement.rs:534`, against `settlement.rs:383`).
- The receipt of a reverted transaction counts as success and is checkpointed
  (`adapter.rs:266`, against `persistence.rs:60`).
- An order applied without a shared timestamp is replayed with the time of the
  restart (`server.rs:614`, against `persistence.rs:13`).
- A response that spans an archive ahead of the hot window repeats entries
  (`server.rs:942`, against the comment above it), and does not verify.
- A report that comes late expires no vote cast after it, so that it may complete a
  quorum with votes much newer than a window; and it replaces its reporter's newer
  one, which might have completed a quorum (`node.rs:326`, against `node.rs:319`).
  Hence `reordered` in `VotesTogether` and `overtaken` in `AgreementFlags`.
- After a rejected match, what noise had offered is not put back, and what is put
  back goes behind the orders at its price and may cross the book
  (`mesh_state.rs:395`, against `mesh_state.rs:88`).

And some were met while reading and are modelled as the code has them:

- `sync.rs:74` says that a debit floors at 0; `BalanceLedger::debit` leaves the
  balance as it is. `settlement.rs:304` says that `sett` traps on an expired
  trade; the FRG contract checks no deadline.
- Two votes confirm a batch however many nodes there are (`node.rs:645`).
- A node whose Ethereum URL or contract addresses are malformed, or whose FRG
  endpoint does not answer at the start, serves and never settles
  (`settlement.rs:95`).
- In the simulation, what an agent buys from noise counts without a commit
  (`mesh_state.rs:356`), and an order is cancelled whoever asks (`server.rs:144`).

## 5. Proofs

For any sets, amounts, windows, lengths and times. The assumptions are those that
the component modules declare and every run evaluates: `MinStake` is a positive
natural number, amounts and deadlines in calldata are natural numbers,
`NoOperator` is no operator, `Configured` for a mesh (peers are nodes, which are
finitely many, limits and nonces are natural numbers), and the like for the log, the orders and the quorum.

| Module | Theorem | States |
|---|---|---|
| `SettlementFactoryProofs` | `RegistrySafe` | types, `ActiveNodeStaked`, `MissedDeadlinesActedOn` and `RegistrySolvent`, for the registry alone |
| | `TypeCorrect` | the type invariant of the composition |
| | `SettledIsExclusive` | a paid trade is never refunded nor slashed |
| | `NoEarlyEnd` | refunds and slashes come after the deadline |
| | `EscrowsSolvent` | an escrow holds at least its books |
| | `LockedMatchesOpenTrades` | a locked balance is the sum of what the open trades locked |
| | `RegistryStaysSound` | active nodes are staked and the registry covers all stakes, whatever the factory asks of it |
| | `RecordsStayFinal` | records' terms and flags are never taken back |
| | `ContractsKeepPromise` | refinement of `EscrowPromise` |
| `ApiNodeProofs` | `BooksKept` | the inductive invariant of log, snapshot and books |
| | `StateStaysRecoverable` | a restart rebuilds the book, the logs, the matches and the unconfirmed trades |
| | `OrdersSequencedOnce` | with sequencing no order is applied twice, and a resolved order has its data |
| | `SettlementKept` | the inductive invariant of the settlement loop |
| | `CheckpointsStayTrue` | a checkpointed trade is settled, or its revert is explained |
| | `ConfirmationsStayRecoverable` | without snapshots a restart queues the unsettled confirmed trades and no checkpointed one |
| `AuditTrailProofs` | `LogsStayTrue` | both logs verify up to their roots, and the watchtower's mirror is a prefix of the order log |
| | `TrailOnlyGrows` | refinement of `AppendOnlyLog`, by the node with its snapshots, crashes and replays |
| | `SharedMatchesStay` | matches are permanent up to the first with a local timestamp |
| | `LogStaysIntact` | archive and hot window of one log form one verified chain |
| | `ImplementsAppendOnly` | refinement of `AppendOnlyLog`, by the log alone |
| `SequencingProofs` | `SequencedByEvidence` | an order is in one place of a node; the same evidence gives the same sequence, and evidence a window apart decides |
| | `NothingLost` | no step takes an order away from a node that has it |
| `MeshFloodProofs` | `FloodsStaySound` | no order is sent to a peer twice or back along its way; the hops counted are the way it came |
| | `NewestPassedOn` | a node takes an order only if its nonce is above the trader's others, and passes a trader's newest on to every peer that takes it |
| `MisconductProofs` | `QuorumBehindEveryFlag` | a flag has a quorum of distinct, staked reporters |
| | `VotesCountTogether` | votes counted together lie within one window |
| | `AgreementIsNotMissed` | two reports that agree flag the subject, in whatever order they came |

**Sums and folds.** The library's induction theorems take an operator, which the
provers cannot instantiate. `SumTheorems` goes round it with a set in the
operator's place: a minimal counterexample in the strict subset ordering of a
finite set, and from it that a sum does not depend on the order in which it is
taken, and what a change of some terms does to it. `FoldTheorems` does the same
for loops over a sequence. Its parameters are the loop's body and a relation
between two loops that have come equally far; a module that reasons about a loop
instantiates it with both. Its lemmas have induction over the natural numbers as a
hypothesis (`Induction`), which the instantiating module proves once, so that an
instance brings no library along.

**Contracts.** `_settleGroup` never reads `refunded`, so "settled excludes
refunded" is not inductive. It becomes so with `EarlyEndExcluded` and time never
going back. `IInv` has four parts: the registry's invariant, the records' part
just described, the books' part for solvency, and the sums of the open trades.
`RecordSteps` states what one transaction may do to one record; the record
invariants, `RecordsAreFinal` and the refinement are derived from it and do not
look at the actions again. A batch changes several records at once, and the sum of
open trades falls by the sum over the batch.

**API node.** `StateRecoverable` speaks of what replaying the whole tail would
give, and is not inductive: an append changes the tail, a truncation shortens it,
and a save replaces the state it is replayed over. `BookInv` says that the tail
after the saved snapshot and the tail after the one being captured both replay to
the books in memory, that the captured one covers no less, and that the queued and
the flushed orders have their data. The replay of an appended entry is the
replay so far and one more step (`FoldTheorems`); the replay over a saved
snapshot is the replay over the captured one. `SettledKeys` of the whole tail
enters each step of a replay, so a `BatchSubmitted` entry changes the steps before
it too: two replays that differ in it have the same books, which is the relation
the fold lemma is instantiated with. `SettleInv` adds that every checkpoint is
backed by the chain, the mempool or a revert (`TruthInv`), that without late,
outliving or expiring transactions only the chunk just sent waits to be mined
(`CleanInv`), and that without snapshots the log keeps every answered confirmation (`AckedInv`).

**Archived log.** `HistoryIntact` speaks of archive and window joined, and is not
inductive: a step needs to know each part alone. `Whole` says that every entry is
there, archived or hot, and continues from the one before it, and that the window
starts from the archive's last hash. A failed archive write may leave any prefix of
the entries behind; since they are inserted at their own positions with their own
content, the next attempt writes the same. `LogSpec` has appends and archiving
only; its theorems rest on the window size being a natural number.

**Audit trail.** A replay rebuilds entries that were lost, and nothing in the model
keeps them to compare with. `AuditTrailProofs` speaks of a log by the entry at each
seq, archived or hot, and shows that the payloads determine the entries
(`ChainDetermines`): each commits to the one before. So it is enough that after n
orders the order log has orders 1 to n (`OrdersTo`) and the match log the takers
among them (`MatchesTo`). `TrailInv` says this of the logs in memory, with n the
end of the write-ahead log, and of the saved snapshot and the one being saved, each
up to its own end and over the same archives. A snapshot's logs begin no later than
those in memory, so archiving never touches what lies below them. The archive may
be ahead of a recovered log; what it holds there is read as part of the log only
once archiving has written it again.
Broadcasts and mirror are compared with the order log, which every step extends.

**Flooding.** `SentOnce` needs to know where packets come from: a packet's way ends
at its sender (`WaysEndAtSender`), and a node that has sent or seen an order knows
its nonce (`NoncesSeen`), so that the order is refused the next time.
`NewestOnItsWay` asks more of the ways: no node is on one twice (`WaysSimple`), so
they are no longer than the mesh has nodes and a limit as large cuts none; and a
nonce that was seen belongs to an order that was taken, unless one came too late
(`SeenIsTaken`), so that a peer that lacks the newest order still takes it.

**Sequencing.** `SequencingInv` adds to `SequenceByEvidence` the shapes of all
variables, that the loop holds a batch exactly while it waits, that the evidence it
holds is a measured flood's, and that a batch is ranked by that evidence. The
position of an order in the queue enters the comparison only for orders without
evidence, so with evidence for all of them whether the comparison is transitive
does not depend on the queue. Two ranked sequences of the same orders are then
equal: where they first differ, each has an order that the other has later, and the
comparison would have to prefer both. This needs a comparison that tells any two
orders apart, hence the assumption that the tie-break hashes of two orders do not
collide. The others are that the orders are finitely many, the window is not zero
and estimates are integers. Nothing is assumed about the quorum's size, the votes
or the nodes.

**Misconduct.** `FlaggedByQuorum` rests on where votes come from: a vote that is
kept was reported (`VotesAreReports`), where stake is asked for its reporter has
been active (`VotesStaked`), because the polled views never show as active who has
not been (`SnapshotsTrue`). `VotesTogether` rests on `latest` being an upper bound
of the votes (`VotesBefore`). `AgreementFlags` rests on what a node can have heard of
a subject it has not flagged (`OneVoice`): where two are a quorum, reports of
different reporters lie a window apart (`Apart`), and the only vote kept is the
newest report heard (`NewestKept`).

Only model-checked:

- All liveness properties.
- `TradesTracked` and `BootSound` of the API node: the first counts ledger
  entries through chunking and rollback; the second is a finite case analysis
  over the environments, which TLC does completely.
- `OrderBook`, `Batcher`, `ChainSync` and `AgentSim`: nested loops over price
  levels, chunks and movements whose state all their properties depend on.
- `ReadersServed` of `AuditTrail`: an audit compares filtered sequences.
- `ConfirmedAgree` of `Sequencing`: it depends on the quorum's size and on how often
  a node votes on the same orders, and is not true for every value of the constants.
- `MeshNode`, and `Reputation`, whose scores are powers and quotients.

`EarlyEndExcluded`, `RecordsAreFinal`, `VotesAreReports` and the type invariants of
the contracts and of `Misconduct` are proved and not in a run's configuration.

## 6. Not modelled

- Cryptography: the Groth16 verifier and prover arithmetic, signatures.
- `updateReputation`, `transferAdmin`, `setSlashingAuthority`, `updateVerifier`,
  `updateRegistry` and the escrow's `unlock`: administrative or uncalled.
- The adapters' encodings, HTTP, authentication, rate limits, metrics and web
  sockets. A trader's feed has no backlog, so a client that reconnects has to ask
  again; nothing in the node depends on it.
- Heartbeats: nodes send them, but only the latency simulator and tests call
  `on_heartbeat`. A node's tracker stays empty and `check_health` finds nobody dead.
- The fee calculator's utilisation and volatility terms.
- The watchtower library's report on proofs, which acts on a mock chain only.
- Trade log storage, topology, TSS, sandbox and RDMA, which only the integration
  demo, tests and benchmarks use; the Solana and CosmWasm crates, which are stubs.
- The encryption of the mesh node's packets, a pure function of a packet.
- The latency simulator: its orders have an empty signature and an expiry that
  has passed, so `validate_order` refuses every one. Benchmarks, stress tests and
  live-verification binaries drive the system and keep no state between runs.

## 7. Running

    tlc -config ApiNode.cfg MCApiNode
    tlc -config Mesh.cfg MCMesh
    tlapm MisconductProofs.tla

`PROJECT.json` lists every run with its configuration, the source lines of every
definition, the hazards, the findings and the theorems.
