------------------------------- MODULE ApiNode ------------------------------
(***************************************************************************)
(* One API node: the HTTP handlers, the order-sequencing loop, the         *)
(* settlement loop and the snapshot loop, running concurrently over        *)
(* AppState and the write-ahead log, with crashes and restarts, and the    *)
(* chain the settlement loop submits to.                                   *)
(*                                                                         *)
(* An action is what one of them does under one hold of the AppState lock, *)
(* or one step of I/O outside it.  What a loop carries from one step to    *)
(* the next is in flush and settling.  A restart is one action: nothing is *)
(* served between the crash and the end of load_persistence.               *)
(* Elsewhere: archival (AuditTrail), what sequencing agrees on with other  *)
(* nodes (Sequencing), the broadcasts (MeshFlood), reputation (Reputation).*)
(* The watchtower's pre-flight checks are on the deadlines and the fees; a *)
(* proof that does not verify is Batcher's.  On Ethereum the loop waits    *)
(* for a receipt, and a batch with a trade that has ended reverts; on FRG  *)
(* the wallet's answer is enough, and `sett` executes any proven batch.    *)
(***************************************************************************)
EXTENDS ApiState

CONSTANT
    Setups          \* the nodes considered: configuration, load, faults, bounds

AllFaults == {
    "wal",          \* an append to the log fails
    "save",         \* saving a snapshot fails
    "resolve",      \* a trader's account is not known yet or the chain does not answer
    "expire",       \* settlement deadlines pass
    "send",         \* a submission fails although the contract would accept it
    "late",         \* a transaction is mined after its sender gave up on its receipt
    "revert" }      \* a deadline also passes while a transaction waits to be mined

ASSUME SetupsAssumption ==
    \A s \in Setups :
        /\ s.chain \in {"ethereum", "frg"} /\ s.gas \in Nat /\ s.faults \subseteq AllFaults
        /\ {s.snapshots, s.sequencing} \subseteq BOOLEAN
        /\ s.accepted \in Seq(Orders) /\ s.incoming \subseteq Orders
        /\ s.sequencing => IsInjective(s.accepted)

Incoming == setup.incoming      \* the orders clients and peers send during the run
Witnessed == setup.witnessed    \* those whose network-time evidence may be in by the flush
Accepted == setup.accepted      \* orders accepted before the run starts, in order
Snapshots == setup.snapshots    \* MEX_SNAPSHOT_INTERVAL_SECS is short enough to matter
Faults == setup.faults          \* the failures considered, of AllFaults
OnFrg == setup.chain = "frg"    \* MEX_SETTLEMENT_CHAIN

VARIABLES
    app,            \* AppState
    flush,          \* the sequencing loop's resolved batch: [order, at] records
    settling,       \* the settlement loop: its stage, candidates and chunks
    mempool,        \* transactions sent and not mined, as sets of keys, in nonce order
    onChain,        \* trades the contract has settled
    expired,        \* trades whose settlement_deadline has passed
    reverted,       \* history: the trades of the transactions that reverted
    outlived,       \* history: the transactions that waited when the node crashed
    acked,          \* trades whose confirmation was answered with success
    restarts

chainVars == <<mempool, onChain, expired, reverted, outlived>>
vars == <<setup, logVars, app, flush, settling, chainVars, acked, restarts>>

Stages == {"boot", "idle", "chunks", "sending", "sent"}

TypeOK ==
    /\ app.pendingData \subseteq Orders /\ app.sequencer \subseteq app.pendingData
    /\ app.orderLog \in Seq(Orders) /\ app.resting \in Seq(Orders)
    /\ app.pendingCommits \union app.confirmed \subseteq Crossing
    /\ app.queue \in Seq(Crossing)
    /\ app.ledger \in [Traders -> Nat] /\ app.nonces \in [Traders -> Nat]
    /\ settling.stage \in Stages
    /\ settling.chunks \in Seq(Seq(Crossing))
    /\ settling.stage \in {"chunks", "sending", "sent"} <=> settling.chunks # <<>>
    /\ mempool \in Seq(SUBSET Crossing)
    /\ onChain \subseteq Crossing /\ acked \subseteq Crossing
    /\ base <= LatestSeq /\ snapshot.covers \in base..LatestSeq

Boot(candidates) ==
    [stage |-> IF candidates = <<>> THEN "idle" ELSE "boot",
     candidates |-> candidates, chunks |-> <<>>]

Init ==
    /\ setup \in Setups
    /\ wal = [i \in DOMAIN Accepted |-> OrderAccepted(Accepted[i], NoEvidence)]
    /\ LogInit
    /\ app = Recover(wal, snapshot)
    /\ flush = <<>>
    /\ settling = Boot(<<>>)
    /\ mempool = <<>> /\ onChain = {} /\ expired = {} /\ reverted = {} /\ outlived = {}
    /\ acked = {} /\ restarts = 0

-----------------------------------------------------------------------------
\* validate_order's nonce test, and the nonce it leaves.
Valid(o) == NonceOf[o] > app.nonces[TraderOf[o]]
Validated(o) == [app EXCEPT !.nonces[TraderOf[o]] = NonceOf[o]]

Known(o) == o \in app.pendingData \/ o \in app.applied

OnlyApp == UNCHANGED <<flush, settling, chainVars, acked, restarts>>

\* submit_order, and run_gossip_replication_loop for an order of a peer.
\* HTTP validates before it looks for a duplicate, gossip after.
QueueOrder(o, gossip) ==
    /\ Sequencing
    /\ Valid(o)
    /\ IF Known(o)
       THEN ~gossip /\ app' = Validated(o) /\ UNCHANGED wal
       ELSE \/ Logged(<<OrderQueued(o)>>) /\ app' = Queue(Validated(o), {o})
            \/ "wal" \in Faults /\ app' = Validated(o) /\ UNCHANGED wal
    /\ UNCHANGED <<base, snapshot, captured>> /\ OnlyApp

SubmitImmediate(o) ==
    /\ ~Sequencing
    /\ Valid(o)
    /\ \/ Logged(<<OrderAccepted(o, NoEvidence)>>)
          /\ app' = ApplyOrder(Validated(o), o, NoEvidence)
       \/ "wal" \in Faults /\ app' = Validated(o) /\ UNCHANGED wal
    /\ UNCHANGED <<base, snapshot, captured>> /\ OnlyApp

Drained(state) == [state EXCEPT !.sequencer = {}]

\* The sequencing loop drains the sequencer: the orders with evidence in an
\* order it decides, then the others (by arrival, which is not kept here).
Flush(batch, evident) ==
    /\ flush = <<>>
    /\ app.sequencer # {}
    /\ \A i \in DOMAIN batch : \A j \in 1..i : batch[i] \in evident => batch[j] \in evident
    /\ flush' = [i \in DOMAIN batch |->
                    [order |-> batch[i],
                     at |-> IF batch[i] \in evident THEN Evidence[batch[i]] ELSE NoEvidence]]
    /\ app' = Drained(app)
    /\ UNCHANGED <<logVars, settling, chainVars, acked, restarts>>

\* One order of apply_resolved_batch's loop, whose state is acc.  An order
\* without pending data is passed over; the data is gone before the order is
\* logged, and a lost one cannot be.
ApplyResolved(lost, acc, r) ==
    LET taken == [acc.app EXCEPT !.pendingData = @ \ {r.order}]
    IN CASE r.order \notin acc.app.pendingData -> acc
         [] r.order \in acc.app.pendingData \intersect lost -> [acc EXCEPT !.app = taken]
         [] OTHER -> [app |-> ApplyOrder(taken, r.order, r.at),
                      log |-> Append(acc.log, OrderAccepted(r.order, r.at))]

Applied(lost, batch) ==
    FoldLeft(LAMBDA acc, r : ApplyResolved(lost, acc, r), [app |-> app, log |-> wal], batch)

\* The quorum agreed or did not answer in time.
ApplyResolvedBatch(lost) ==
    LET result == Applied(lost, flush)
    IN
    /\ flush # <<>>
    /\ lost # {} => "wal" \in Faults
    /\ Fits(result.log)
    /\ wal' = result.log
    /\ app' = result.app
    /\ flush' = <<>>
    /\ UNCHANGED <<base, snapshot, captured, settling, chainVars, acked, restarts>>

\* The quorum agreed on another order: the batch waits for the next flush.
RequeueBatch ==
    /\ flush # <<>>
    /\ app' = [app EXCEPT !.sequencer = @ \union {flush[i].order : i \in DOMAIN flush}]
    /\ flush' = <<>>
    /\ UNCHANGED <<logVars, settling, chainVars, acked, restarts>>

\* A failed append puts the trade back and changes nothing.
ConfirmCommitted(k) ==
    /\ k \in app.pendingCommits
    /\ Logged(<<CommitConfirmed(k)>>)
    /\ app' = ConfirmLocally(TakePending(app, k), k)
    /\ acked' = acked \union {k}
    /\ UNCHANGED <<base, snapshot, captured, flush, settling, chainVars, restarts>>

-----------------------------------------------------------------------------
\* The settlement loop.
OnlyLoop == UNCHANGED <<base, snapshot, captured, flush, acked, restarts>>

IsTradeSettled(k) == k \in onChain

\* reconcile_replayed_confirmations for the next candidate; `known` says
\* whether its account resolved and the chain answered.
Reconcile(known, checkpointed) ==
    LET k == Head(settling.candidates)
        gone == known /\ IsTradeSettled(k)
    IN
    /\ settling.stage = "boot"
    /\ ~known => "resolve" \in Faults
    /\ settling' = Boot(Tail(settling.candidates))
    /\ app' = IF gone THEN [app EXCEPT !.confirmed = @ \ {k},
                                       !.queue = SelectSeq(@, LAMBDA q : q # k)]
              ELSE app
    /\ IF gone /\ checkpointed THEN Logged(<<BatchSubmitted({k})>>) ELSE UNCHANGED wal
    /\ OnlyLoop /\ UNCHANGED chainVars

NextChunk ==
    settling' = [settling EXCEPT !.chunks = Tail(@),
                                 !.stage = IF Len(settling.chunks) = 1 THEN "idle" ELSE "chunks"]

ProcessBatches(due) ==
    LET result == ProveBatches(app, due)
        taken == ToSet(FlattenSeq(Flushed(app.queue, due)))
    IN
    /\ settling.stage = "idle"
    /\ taken # {}
    /\ app' = [app EXCEPT !.ledger = result.ledger,
                          !.queue = SelectSeq(@, LAMBDA k : k \notin taken)]
    /\ settling' = [settling EXCEPT !.chunks = result.proven,
                                    !.stage = IF result.proven = <<>> THEN "idle" ELSE "chunks"]
    /\ OnlyLoop /\ UNCHANGED <<wal, chainVars>>

FeeViolations(K) == {k \in K : FeeOf(Tier[k]) # BaseFee[Tier[k]]}

DeadlineViolations(K) == K \intersect expired

PassesPreFlight(K) == K \subseteq Own /\ FeeViolations(K) = {} /\ DeadlineViolations(K) = {}

\* The chunk is another node's, a trade of it has not the fee of its tier, or
\* one is past its deadline.
SkipChunk ==
    /\ settling.stage = "chunks"
    /\ ~PassesPreFlight(ToSet(settling.chunks[1]))
    /\ NextChunk
    /\ OnlyLoop /\ UNCHANGED <<wal, app, chainVars>>

Submittable == settling.stage = "chunks" /\ PassesPreFlight(ToSet(settling.chunks[1]))

BuildSettlementTrades ==
    /\ Submittable
    /\ ToSet(settling.chunks[1]) \subseteq app.confirmed
    /\ app' = [app EXCEPT !.confirmed = @ \ ToSet(settling.chunks[1])]
    /\ settling' = [settling EXCEPT !.stage = "sending"]
    /\ OnlyLoop /\ UNCHANGED <<wal, chainVars>>

\* Trade i has no hash, or has one and an account that does not resolve.
BuildFails(i) ==
    LET chunk == settling.chunks[1] IN
    /\ Submittable
    /\ i \in DOMAIN chunk
    /\ \A j \in 1..(i - 1) : chunk[j] \in app.confirmed
    /\ chunk[i] \in app.confirmed => "resolve" \in Faults
    /\ app' = [app EXCEPT !.confirmed = @ \ {chunk[j] : j \in 1..i}]
    /\ NextChunk
    /\ OnlyLoop /\ UNCHANGED <<wal, chainVars>>

\* What settleBatchWithFees takes: a chunk none of whose trades has ended.
Acceptable(K) == K \intersect (onChain \union expired) = {}

\* The trades of the transactions that wait to be mined.
Pending == UNION ToSet(mempool)

\* The gas estimate of the transaction runs the contract.
SubmitSettlementBatch ==
    /\ ~OnFrg
    /\ settling.stage = "sending"
    /\ Acceptable(ToSet(settling.chunks[1]))
    /\ mempool' = Append(mempool, ToSet(settling.chunks[1]))
    /\ settling' = [settling EXCEPT !.stage = "sent"]
    /\ OnlyLoop /\ UNCHANGED <<wal, app, onChain, expired, reverted, outlived>>

\* The wallet signs and queues the call.
SubmitToFrg ==
    /\ OnFrg
    /\ settling.stage = "sending"
    /\ mempool' = Append(mempool, ToSet(settling.chunks[1]))
    /\ settling' = [settling EXCEPT !.stage = "sent"]
    /\ OnlyLoop /\ UNCHANGED <<wal, app, onChain, expired, reverted, outlived>>

\* submit_settlement_batch returned an error: before the transaction was
\* sent, or while its receipt was awaited.  The node asked for the gas estimate may
\* count what waits to be mined.
SubmissionFails ==
    /\ \/ /\ settling.stage = "sending"
          /\ OnFrg \/ (/\ Acceptable(ToSet(settling.chunks[1]))
                      /\ ToSet(settling.chunks[1]) \intersect Pending = {}) => "send" \in Faults
       \/ settling.stage = "sent" /\ "late" \in Faults
    /\ app' = RestoreFailedChunk(app, settling.chunks[1])
    /\ NextChunk
    /\ OnlyLoop /\ UNCHANGED <<wal, chainVars>>

\* Slip: the checkpoint does not wait for the transaction to be mined.
SentIsMined == TRUE

\* The loop sends one transaction at a time, so the last in nonce order is its own.
Mined == mempool = <<>>

\* The receipt arrived, whatever its status, or the FRG wallet's transaction
\* id: append_batch_submitted, whose failure is logged and no more.
Checkpoint(checkpointed) ==
    /\ settling.stage = "sent"
    /\ OnFrg \/ Mined
    /\ IF checkpointed THEN Logged(<<BatchSubmitted(ToSet(settling.chunks[1]))>>)
       ELSE UNCHANGED wal
    /\ NextChunk
    /\ OnlyLoop /\ UNCHANGED <<app, chainVars>>

-----------------------------------------------------------------------------
SettleBatchWithFees(K) == IF Acceptable(K) THEN onChain \union K ELSE onChain

\* `sett` looks at the proof only, and marks every trade of the batch.
Sett(K) == onChain \union K

\* The chain mines the account's next transaction: it settles its trades or reverts.
Mine ==
    LET K == Head(mempool)
    IN
    /\ mempool # <<>>
    /\ mempool' = Tail(mempool)
    /\ onChain' = IF OnFrg THEN Sett(K) ELSE SettleBatchWithFees(K)
    /\ reverted' = IF OnFrg \/ Acceptable(K) THEN reverted ELSE reverted \union K
    /\ UNCHANGED <<logVars, app, flush, settling, expired, outlived, acked, restarts>>

Expire(k) ==
    /\ "expire" \in Faults
    /\ k \in acked \ (onChain \union expired)
    /\ k \in Pending => "revert" \in Faults
    /\ expired' = expired \union {k}
    /\ UNCHANGED <<logVars, app, flush, settling, mempool, onChain, reverted, outlived, acked, restarts>>

\* What the log may hold at a crash: it can come between an append and its
\* effect, and inside the loop of apply_resolved_batch.
LogsAtCrash ==
    LET alone == {OrderQueued(o) : o \in {p \in Incoming : Sequencing /\ Valid(p) /\ ~Known(p)}}
                 \union {OrderAccepted(o, NoEvidence) : o \in {p \in Incoming : ~Sequencing /\ Valid(p)}}
                 \union {CommitConfirmed(k) : k \in app.pendingCommits}
    IN {Applied({}, SubSeq(flush, 1, i)).log : i \in 0..Len(flush)}
       \union {Append(wal, e) : e \in alone}

\* What was sent is not called back: it waits on.
Restart(log) ==
    /\ restarts < setup.maxRestarts
    /\ Fits(log)
    /\ restarts' = restarts + 1
    /\ wal' = log
    /\ captured' = NoSnapshot
    /\ app' = Recover(log, snapshot)
    /\ flush' = <<>>
    /\ settling' = Boot(Candidates(log, snapshot))
    /\ outlived' = outlived \union ToSet(mempool)
    /\ UNCHANGED <<base, snapshot, mempool, onChain, expired, reverted, acked>>

SnapshotLoop ==
    /\ \/ Snapshots /\ Capture(BuildSnapshot(app))
       \/ SaveSnapshot
       \/ "save" \in Faults /\ SaveFails
       \/ TruncateUpTo
    /\ UNCHANGED <<app, flush, settling, chainVars, acked, restarts>>

-----------------------------------------------------------------------------
MayFailToLog == IF "wal" \in Faults THEN BOOLEAN ELSE {TRUE}

Intake ==
    \/ \E o \in Incoming, gossip \in BOOLEAN : QueueOrder(o, gossip)
    \/ \E o \in Incoming : SubmitImmediate(o)
    \/ \E k \in Crossing : ConfirmCommitted(k)

SequencingLoop ==
    \/ \E batch \in SetToSeqs(app.sequencer), evident \in SUBSET (app.sequencer \intersect Witnessed) :
          Flush(batch, evident)
    \/ \E lost \in SUBSET {flush[i].order : i \in DOMAIN flush} : ApplyResolvedBatch(lost)
    \/ RequeueBatch

SettlementLoop ==
    \/ \E known \in BOOLEAN, c \in MayFailToLog : Reconcile(known, c)
    \/ \E due \in SUBSET {"Express", "Standard"} : ProcessBatches(due)
    \/ SkipChunk
    \/ BuildSettlementTrades
    \/ \E i \in 1..MaxChunk : BuildFails(i)
    \/ SubmitSettlementBatch
    \/ SubmitToFrg
    \/ SubmissionFails
    \/ \E c \in MayFailToLog : Checkpoint(c)

Next ==
    /\ \/ Intake
       \/ SequencingLoop
       \/ SettlementLoop
       \/ SnapshotLoop
       \/ Mine
       \/ \E k \in Crossing : Expire(k)
       \/ \E log \in LogsAtCrash : Restart(log)
    /\ UNCHANGED setup

Spec == Init /\ [][Next]_vars

\* Nothing fails but the node itself, which may crash, no snapshot is due and
\* fees are at their default.
OnlyCrashes == Faults = {} /\ ~Snapshots /\ setup.gas = BASELINE_GAS_GWEI

Submission ==
    SkipChunk \/ BuildSettlementTrades \/ SubmitSettlementBatch \/ SubmitToFrg \/ SubmissionFails

\* The settlement loop keeps running after its last restart, its batch timers
\* run out, and the chain mines what it was sent.
Fairness ==
    /\ WF_vars(OnlyCrashes /\ ProcessBatches({"Express", "Standard"}) /\ UNCHANGED setup)
    /\ WF_vars(OnlyCrashes /\ Submission /\ UNCHANGED setup)
    /\ WF_vars(OnlyCrashes /\ Reconcile(TRUE, TRUE) /\ UNCHANGED setup)
    /\ WF_vars(OnlyCrashes /\ Checkpoint(TRUE) /\ UNCHANGED setup)
    /\ WF_vars(OnlyCrashes /\ Mine /\ UNCHANGED setup)

LiveSpec == Spec /\ Fairness

-----------------------------------------------------------------------------
Recovered == Recover(wal, snapshot)

\* Settled on chain or, on FRG, in the hands of its mempool: the settlement
\* loop asks for no more.
HandedOver == IF OnFrg THEN onChain \union Pending ELSE onChain

\* No Ethereum transaction was waiting to be mined at a crash.  One that was, and is
\* mined later, settles trades the restarted node has found unsettled and queued: it
\* submits them again, which fails or reverts, and restore_failed_chunk does not give
\* the ledger back what build_batch took for them.
NoneOutlived == OnFrg \/ outlived = {}

\* At every moment the disk holds the order book, the order log, the matches
\* and the unconfirmed trades as they are in memory: a restart rebuilds them
\* exactly, whatever snapshot, truncation or failed append came before, with
\* the timestamps of the matches that come from the network's shared estimate.
BookRecoverable ==
    LET rebuilt == Recovered
    IN /\ rebuilt.orderLog = app.orderLog
       /\ rebuilt.resting = app.resting
       /\ rebuilt.applied = app.applied
       /\ rebuilt.matchLog = app.matchLog
       /\ rebuilt.pendingCommits = app.pendingCommits

\* With sequencing, no order enters the book twice, however often it is sent,
\* gossiped, flushed, requeued or replayed.
AppliedOnce == Sequencing => IsInjective(app.orderLog)

\* An order that was queued and not yet applied is queued again by a restart.
QueuedRecoverable == app.pendingData \subseteq Recovered.pendingData

\* As long as no snapshot was saved, that holds: an order that was queued for
\* sequencing and not applied is queued again by a restart at any point,
\* whatever was flushed, requeued or applied in between.
QueuedUntilSnapshot == snapshot = NoSnapshot => QueuedRecoverable

\* Every order the sequencing loop resolves still has its pending data, as
\* apply_resolved_batch takes for granted.
ResolvedHasData == \A i \in DOMAIN flush : flush[i].order \in app.pendingData

\* A trade waits for settlement in one place only: never twice in the queue,
\* nor in the queue and in a chunk being submitted.
InFlight == FlattenSeq(settling.chunks)
TradesInOnePlace == IsInjective(app.queue \o InFlight)

\* A queued trade has its trade hash, so build_settlement_trades never gives
\* up on a chunk for a missing one.
QueuedHasHash == ToSet(app.queue) \subseteq app.confirmed

\* Without snapshots, a trade whose confirmation was answered with success is
\* settled (handed over, on FRG), its transaction reverted, or a restart would
\* queue it again.  (A snapshot taken while a chunk is being submitted holds it
\* in neither place, and truncates the entry that would bring it back.)
ConfirmationRecoverable ==
    ~Snapshots => acked \subseteq HandedOver \union reverted \union ToSet(Recovered.queue)

Checkpoints == SettledKeys(wal)

\* Without snapshots, a trade with a durable BatchSubmitted entry is not queued
\* by a restart.  (replay_persistence_log does not look for the trades of a
\* snapshot's own queue among the entries after it.)
SettledNotRequeued == ~Snapshots => Checkpoints \intersect ToSet(Recovered.queue) = {}

\* No transaction reverts unless a deadline passes while it waits to be mined, or
\* one is mined after its sender gave up on it or crashed.
RevertsExplained == Faults \intersect {"late", "revert"} = {} /\ NoneOutlived => reverted = {}

\* A BatchSubmitted entry tells the truth: its trades are settled on chain (on
\* FRG, which the loop does not wait for, settled or sure to be executed),
\* unless their transaction reverted (submit_settlement_batch takes any receipt
\* for success), which takes a late transaction, one that outlives a crash, or a
\* deadline that passes.
CheckpointsTrue == Checkpoints \subseteq HandedOver \union reverted /\ RevertsExplained

\* If only crashes happen, and none while a transaction waits, the queued trades that
\* can still settle are covered by the ledger, so build_batch never drops one as
\* insolvent.
QueuedSolvent ==
    OnlyCrashes /\ NoneOutlived => \A t \in Traders :
        ValueSum({k \in ToSet(app.queue) : Taker(k) = t /\ (OnFrg \/ Acceptable({k}))}) <= app.ledger[t]

\* If only crashes happen, and none while a transaction waits, a confirmed trade
\* that is neither settled nor expired is queued or being submitted: the running
\* node never forgets it.  (After a failed submission the restored chunk finds its
\* ledger entries spent, and build_batch drops it or another of the same trader.)
ConfirmedTracked ==
    OnlyCrashes /\ NoneOutlived =>
        acked \subseteq HandedOver \union expired \union ToSet(app.queue) \union ToSet(InFlight)

\* Whatever fees the operator configures, no chunk this node matched and batched
\* is refused for them: process_ready_batches reports one that is as "a bug
\* upstream of settlement".
FeesComply == \A i \in DOMAIN settling.chunks : FeeViolations(ToSet(settling.chunks[i])) = {}

\* If only crashes happen, and none while an Ethereum transaction waits to be mined,
\* every confirmed trade is settled on chain or passes its deadline, on either chain.
EventuallySettled ==
    \A k \in Crossing : OnlyCrashes /\ k \in acked ~> k \in onChain \union expired \/ ~NoneOutlived

\* A restart at any moment rebuilds the books and logs as they are and, until a
\* snapshot was saved, the orders that wait for sequencing (load_persistence).
StateRecoverable == BookRecoverable /\ QueuedUntilSnapshot

\* A restart at any moment queues a confirmed trade again if and only if it has to
\* be: none that is not settled is forgotten, none with a checkpoint comes back
\* (replay_persistence_log).
ConfirmationsRecoverable == ConfirmationRecoverable /\ SettledNotRequeued

\* Sequencing hands every order on once, with the data it was queued with
\* (apply_resolved_batch).
SequencedOnce == AppliedOnce /\ ResolvedHasData

\* The running node keeps a confirmed trade in one place, with its hash and, unless
\* something fails or a transaction outlives a crash, the ledger entry that pays for
\* it, until it is settled (process_ready_batches, restore_failed_chunk).
TradesTracked == TypeOK /\ TradesInOnePlace /\ QueuedHasHash /\ QueuedSolvent /\ ConfirmedTracked
=============================================================================
