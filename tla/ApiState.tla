------------------------------ MODULE ApiState ------------------------------
(***************************************************************************)
(* crates/api/src/server.rs and crates/batcher: the state AppState guards  *)
(* with one lock, as a record, and what applying, queueing, confirming,    *)
(* batching and replaying do to it.  These are the parts the live handlers *)
(* and the boot-time replay share; ApiNode has the handlers.               *)
(*                                                                         *)
(* A trade is named by its (maker order, taker order) key.  The book keeps *)
(* the orders that rest, in the order they were applied; an order trades   *)
(* with every resting order it crosses, OrderBook has the real matching.   *)
(* Every trade is in one symbol, and the prover succeeds on a chunk whose  *)
(* debits do.                                                              *)
(***************************************************************************)
EXTENDS PersistenceLog, SeqFolds

CONSTANTS
    Orders,
    Traders,
    TraderOf,       \* order -> trader
    NonceOf,        \* order -> nonce
    Crossing,       \* the keys <<resting order, incoming order>> that trade
    Value,          \* key -> price * amount
    Own,            \* the keys whose assigned_node is this node
    MaxChunk,       \* MAX_BATCH_TRADES
    Evidence        \* order -> the match timestamp its network-time evidence gives

ASSUME OrdersAssumption == IsFiniteSet(Orders)
ASSUME ValueAssumption == Value \in [Crossing -> Nat \ {0}]
ASSUME MaxChunkAssumption == MaxChunk \in Nat \ {0}

\* match_timestamp_us: None.  A match of such an order is stamped by the local
\* clock, whose readings are not told apart.
NoEvidence == -1

Maker(k) == TraderOf[k[1]]
Taker(k) == TraderOf[k[2]]

Fresh ==
    [nonces |-> [t \in Traders |-> 0], pendingData |-> {}, sequencer |-> {},
     applied |-> {}, orderLog |-> <<>>, resting |-> <<>>, matchLog |-> <<>>,
     pendingCommits |-> {}, confirmed |-> {}, queue |-> <<>>,
     ledger |-> [t \in Traders |-> 0]]

-----------------------------------------------------------------------------
Sequencing == setup.sequencing      \* MEX_ORDER_SEQUENCING_WINDOW_MS is set
Tier == setup.tier                  \* key -> settlement tier

BASELINE_GAS_GWEI == 50
BaseFee == [Instant |-> 50, Express |-> 15, Standard |-> 5]

\* FeeCalculator::calculate_fee_basis_points, with the gas price configured
\* (MEX_FEE_BASE_GAS_PRICE) and the other two terms neutral.
FeeOf(tier) == Max({1, Min({500, (BaseFee[tier] * setup.gas) \div BASELINE_GAS_GWEI})})

\* The resting orders an order crosses, and the others.
Hits(resting, o) == SelectSeq(resting, LAMBDA p : <<p, o>> \in Crossing)
Missed(resting, o) == SelectSeq(resting, LAMBDA p : <<p, o>> \notin Crossing)

\* apply_accepted_order_locally: `at` is the network's estimate of the order's time.
ApplyOrder(app, o, at) ==
    LET hits == Hits(app.resting, o)
    IN [app EXCEPT !.applied = @ \union {o},
                   !.orderLog = Append(@, o),
                   !.resting = IF hits = <<>> THEN Append(@, o) ELSE Missed(@, o),
                   !.matchLog = @ \o [i \in DOMAIN hits |->
                                        [trade |-> <<hits[i], o>>, at |-> at]],
                   !.pendingCommits = @ \union {<<p, o>> : p \in ToSet(hits)}]

Queue(app, O) ==
    [app EXCEPT !.sequencer = @ \union O, !.pendingData = @ \union O]

TakePending(app, k) == [app EXCEPT !.pendingCommits = @ \ {k}]

\* confirm_committed_locally.
ConfirmLocally(app, k) ==
    [app EXCEPT !.confirmed = @ \union {k},
                !.ledger[Taker(k)] = @ + Value[k],
                !.queue = Append(@, k)]

\* Slip: the trade hashes are not put back.
RestoreQueueOnly(app, chunk) == [app EXCEPT !.queue = @ \o chunk]

RestoreFailedChunk(app, chunk) ==
    [app EXCEPT !.confirmed = @ \union ToSet(chunk), !.queue = @ \o chunk]

-----------------------------------------------------------------------------
\* Slip: an instant trade waits for a second one.
FlushedInPairs(queue, due) ==
    LET instant == SelectSeq(queue, LAMBDA k : Tier[k] = "Instant")
    IN <<IF Len(instant) < 2 THEN <<>> ELSE <<instant[1]>> >>

\* The trades process_batches takes off the queue, tier by tier: one instant
\* trade, and the whole queue of every other tier that is due.
Flushed(queue, due) ==
    LET ofTier(x) == SelectSeq(queue, LAMBDA k : Tier[k] = x)
        whole(x) == IF x \in due THEN ofTier(x) ELSE <<>>
        instant == ofTier("Instant")
    IN << IF instant = <<>> THEN <<>> ELSE <<instant[1]>>, whole("Express"), whole("Standard") >>

\* build_batch: groups by assigned node, then chunks of MAX_BATCH_TRADES.
Chunks(trades) ==
    LET pieces(s) == [i \in 1..((Len(s) + MaxChunk - 1) \div MaxChunk) |->
                        SubSeq(s, (i - 1) * MaxChunk + 1, Min({i * MaxChunk, Len(s)}))]
    IN pieces(SelectSeq(trades, LAMBDA k : k \in Own)) \o
       pieces(SelectSeq(trades, LAMBDA k : k \notin Own))

ValueSum(K) == MapThenSumSet(LAMBDA k : Value[k], K)

Debit(trades, t) == ValueSum({k \in ToSet(trades) : Taker(k) = t})
Credit(trades, t) == ValueSum({k \in ToSet(trades) : Maker(k) = t})

DebitFails(ledger, trades) == \E t \in Traders : Debit(trades, t) > ledger[t]

Solvent(ledger, k) == Value[k] <= ledger[Taker(k)]

\* One chunk: trades the ledger does not cover are dropped, each judged by
\* the balance before any debit; if a debit then fails, the chunk is dropped.
ProveChunk(acc, chunk) ==
    LET solvent == SelectSeq(chunk, LAMBDA k : Solvent(acc.ledger, k))
    IN IF solvent = <<>> \/ DebitFails(acc.ledger, solvent)
       THEN acc
       ELSE [ledger |-> [t \in Traders |->
                            acc.ledger[t] - Debit(solvent, t) + Credit(solvent, t)],
             proven |-> Append(acc.proven, solvent)]

\* process_batches: the ledger it leaves and the chunks it proves.
ProveBatches(app, due) ==
    LET taken == Flushed(app.queue, due)
    IN FoldLeft(ProveChunk, [ledger |-> app.ledger, proven |-> <<>>],
                FlattenSeq([i \in DOMAIN taken |-> Chunks(taken[i])]))

-----------------------------------------------------------------------------
\* What build_snapshot copies of the state and apply_snapshot puts back.
BuildSnapshot(app) ==
    [Fresh EXCEPT !.resting = app.resting, !.orderLog = app.orderLog,
                  !.matchLog = app.matchLog, !.pendingCommits = app.pendingCommits,
                  !.confirmed = app.confirmed, !.applied = app.applied,
                  !.queue = app.queue]

SettledKeys(entries) ==
    UNION {entries[i].trades : i \in {j \in DOMAIN entries : entries[j].kind = "BatchSubmitted"}}

\* Slip: a checkpoint is taken for one of every trade.
UnsettledIfNoneIs(entries, k) == SettledKeys(entries) = {}

StillUnsettled(entries, k) == k \notin SettledKeys(entries)

\* replay_persistence_log's second pass over entries, one entry of it.
ReplayEntry(entries, app, e) ==
    CASE e.kind = "OrderAccepted" -> ApplyOrder(app, e.order, e.at)
      [] e.kind = "CommitConfirmed" ->
            LET taken == TakePending(app, e.trade)
            IN IF StillUnsettled(entries, e.trade) THEN ConfirmLocally(taken, e.trade)
               ELSE taken
      [] OTHER -> app

\* Slip: the orders already applied are queued again.
QueuedEver(app, entries) ==
    {entries[i].order : i \in {j \in DOMAIN entries : entries[j].kind = "OrderQueued"}}

\* The orders queued for sequencing that no entry says were applied.
StillQueued(app, entries) ==
    {entries[i].order : i \in {j \in DOMAIN entries : entries[j].kind = "OrderQueued"}}
        \ app.applied

Replay(start, entries) ==
    FoldLeft(LAMBDA app, e : ReplayEntry(entries, app, e), start, entries)

\* load_persistence on a log and a snapshot slot.
Recover(log, slot) ==
    LET entries == EntriesAfter(log, slot.covers)
        replayed == Replay(IF slot = NoSnapshot THEN Fresh ELSE slot.state, entries)
    IN IF Sequencing THEN Queue(replayed, StillQueued(replayed, entries)) ELSE replayed

\* ReplaySummary.reconciliation_candidates.
Candidates(log, slot) ==
    LET entries == EntriesAfter(log, slot.covers)
        open == SelectSeq(entries, LAMBDA e : e.kind = "CommitConfirmed"
                                              /\ StillUnsettled(entries, e.trade))
    IN [i \in DOMAIN open |-> open[i].trade]
=============================================================================
