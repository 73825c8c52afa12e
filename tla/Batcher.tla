------------------------------ MODULE Batcher -------------------------------
(***************************************************************************)
(* crates/batcher and crates/prover: how SettlementBatcher turns queued    *)
(* trades into proven chunks over a BalanceLedger it shares with the       *)
(* chain-sync service (with_ledger).                                       *)
(*                                                                         *)
(* build_batch takes the ledger's lock anew for every pair of balances it  *)
(* reads, every debit, and the credits or the rollback at the end, and the *)
(* service applies deposits and withdrawals in between: an action is one   *)
(* hold of that lock.  The queue is that of one tier; ApiState has the     *)
(* tiers, ApiNode what becomes of a proven chunk.                          *)
(*                                                                         *)
(* A proof is the public inputs and witness it was made for: Groth16 is    *)
(* taken to accept exactly the proofs of a satisfied circuit, for their    *)
(* inputs.                                                                 *)
(***************************************************************************)
EXTENDS ChainSync

CONSTANTS
    TradeSets,      \* the sets of trades a run hands to the batcher
    Synced,         \* the chain where trades are batched, ...
    SyncedTo,       \* ... and how far the service has followed it
    Nodes,          \* the settlement nodes, 1..n in the order of their keys
    MaxChunk,       \* MAX_BATCH_TRADES
    FieldSize       \* the modulus of the proof system's scalar field

ASSUME BatcherAssumption ==
    /\ MaxChunk \in Nat \ {0} /\ SyncedTo \in 0..(Len(Synced) - Confirmations)
    /\ FieldSize > MaxChunk * LedgerMax * LedgerMax

VARIABLES
    matched,        \* the trades that are handed over: fixed by the start
    enqueued,       \* those handed over since the process started
    waiting,        \* the queue
    build,          \* build_batch: stage, chunks left, next trade, trades kept
    reported,       \* the chunks reported: [trades, taker, preRoot, postRoot, proof]
    dropped,        \* the trades dropped with a warning
    moved           \* account -> what chain events changed since the process started

batcherVars == <<enqueued, waiting, build, reported, dropped>>
allVars == <<vars, matched, batcherVars, moved>>

NoBuild == [stage |-> "idle", chunks |-> <<>>, next |-> 1, kept |-> <<>>]

Maker(t) == <<t.maker, t.symbol>>
Taker(t) == <<t.taker, t.symbol>>

\* price * amount, in a u64 and in the prover's u128 and field.
Value(t) == (t.price * t.amount) % (LedgerMax + 1)
Worth(t) == t.price * t.amount

SumOver(op(_), s) == FoldLeft(LAMBDA sum, x : sum + op(x), 0, s)

-----------------------------------------------------------------------------
\* padded_witness: the slots of the circuit, padded with trades of nothing, and
\* the root after each.
PaddedWitness(kept, preRoot) ==
    LET slot(i) == IF i \in DOMAIN kept THEN kept[i]
                   ELSE [trade |-> [price |-> 0, amount |-> 0], maker |-> 0, taker |-> 0]
        val(i) == Worth(slot(i).trade) % FieldSize
        root[i \in 0..MaxChunk] == IF i = 0 THEN preRoot ELSE (root[i - 1] + val(i)) % FieldSize
    IN [makerPre |-> [i \in 1..MaxChunk |-> slot(i).maker],
        takerPre |-> [i \in 1..MaxChunk |-> slot(i).taker],
        amount |-> [i \in 1..MaxChunk |-> slot(i).trade.amount],
        price |-> [i \in 1..MaxChunk |-> slot(i).trade.price],
        makerPost |-> [i \in 1..MaxChunk |-> (slot(i).maker + val(i)) % FieldSize],
        takerPost |-> [i \in 1..MaxChunk |-> (slot(i).taker - val(i)) % FieldSize],
        roots |-> root]

\* generate_constraints.
Satisfied(w, inputs) ==
    /\ w.roots[0] = inputs[1] /\ w.roots[MaxChunk] = inputs[2]
    /\ \A i \in 1..MaxChunk :
        LET val == (w.amount[i] * w.price[i]) % FieldSize
        IN /\ w.makerPost[i] = (w.makerPre[i] + val) % FieldSize
           /\ w.takerPost[i] = (w.takerPre[i] - val) % FieldSize
           /\ w.roots[i] = (w.roots[i - 1] + val) % FieldSize

\* prove_batch refuses a trade its taker cannot pay; it takes the post root from
\* the witness, not from the batch.
Provable(kept) ==
    /\ Len(kept) \in 1..MaxChunk
    /\ \A i \in DOMAIN kept : Worth(kept[i].trade) <= kept[i].taker

ProveBatch(kept, preRoot) ==
    LET w == PaddedWitness(kept, preRoot)
    IN [witness |-> w, inputs |-> <<preRoot, w.roots[MaxChunk]>>]

\* verify_proof recomputes the roots from the batch.
VerifyProof(b) ==
    LET total == SumOver(LAMBDA k : Worth(k.trade), b.kept) % FieldSize
    IN /\ Provable(b.kept)
       /\ b.postRoot = (b.preRoot + total) % FieldSize
       /\ b.proof.inputs = <<b.preRoot, (b.preRoot + total) % FieldSize>>
       /\ Satisfied(b.proof.witness, b.proof.inputs)

\* Slip: a placeholder.
NoPostRoot(kept) == 0

\* The batch's post_state_root, a u64 sum.
PostRoot(kept) == SumOver(LAMBDA k : Value(k.trade), kept) % (LedgerMax + 1)

-----------------------------------------------------------------------------
\* Slip: a chunk starts with the last trade of the one before.
OverlappingPieces(s) ==
    [i \in 1..((Len(s) + MaxChunk - 1) \div MaxChunk) |->
        SubSeq(s, IF i = 1 THEN 1 ELSE (i - 1) * MaxChunk,
                  IF i * MaxChunk < Len(s) THEN i * MaxChunk ELSE Len(s))]

Pieces(s) ==
    [i \in 1..((Len(s) + MaxChunk - 1) \div MaxChunk) |->
        SubSeq(s, (i - 1) * MaxChunk + 1, IF i * MaxChunk < Len(s) THEN i * MaxChunk ELSE Len(s))]

\* The groups of build_batch, by assigned node, in chunks.
Chunks(trades) ==
    FlattenSeq([n \in Nodes |-> Pieces(SelectSeq(trades, LAMBDA t : t.node = n))])

Enqueue(t) ==
    /\ t \in matched \ enqueued
    /\ enqueued' = enqueued \union {t}
    /\ waiting' = Append(waiting, t)
    /\ UNCHANGED <<build, reported, dropped, ledger>>

\* Slip: the timer is not looked at.
FlushWhenFull == Len(waiting) >= MaxChunk

\* The queue is long enough or its timer has run out.
ShouldFlush == waiting # <<>>

\* process_batches drains the queue and build_batch groups it.
ProcessBatches ==
    /\ build.stage = "idle" /\ ShouldFlush
    /\ build' = [NoBuild EXCEPT !.stage = "reading", !.chunks = Chunks(waiting)]
    /\ waiting' = <<>>
    /\ UNCHANGED <<enqueued, reported, dropped, ledger>>

Chunk == Head(build.chunks)

NextChunk ==
    build' = IF Len(build.chunks) = 1 THEN NoBuild
             ELSE [NoBuild EXCEPT !.stage = "reading", !.chunks = Tail(build.chunks)]

Insolvent(t, balance) == Value(t) > balance

\* Both balances of the next trade of the chunk, under one lock.
ReadBalances ==
    /\ build.stage = "reading" /\ build.next <= Len(Chunk)
    /\ LET t == Chunk[build.next]
           read == [trade |-> t, maker |-> ledger[Maker(t)], taker |-> ledger[Taker(t)]]
       IN \/ /\ Insolvent(t, read.taker)
             /\ dropped' = dropped \union {t}
             /\ build' = [build EXCEPT !.next = @ + 1]
          \/ /\ ~Insolvent(t, read.taker)
             /\ build' = [build EXCEPT !.next = @ + 1, !.kept = Append(@, read)]
             /\ UNCHANGED dropped
    /\ UNCHANGED <<enqueued, waiting, reported, ledger>>

KeptTrades == {build.kept[i].trade : i \in DOMAIN build.kept}

\* The chunk is read: it is proven, or given up if nothing is left of it or
\* prove_batch refuses.
Prove ==
    /\ build.stage = "reading" /\ build.next > Len(Chunk)
    /\ \/ /\ Provable(build.kept)
          /\ build' = [build EXCEPT !.stage = "debiting", !.next = 1]
          /\ UNCHANGED dropped
       \/ /\ ~Provable(build.kept)
          /\ dropped' = dropped \union KeptTrades
          /\ NextChunk
    /\ UNCHANGED <<enqueued, waiting, reported, ledger>>

\* The first phase, trade by trade; a debit that fails ends it.
DebitTaker ==
    /\ build.stage = "debiting" /\ build.next <= Len(build.kept)
    /\ LET t == build.kept[build.next].trade
       IN \/ /\ ledger[Taker(t)] >= Value(t)
             /\ ledger' = Debit(ledger, Taker(t), Value(t))
             /\ build' = [build EXCEPT !.next = @ + 1]
          \/ /\ ledger[Taker(t)] < Value(t)
             /\ build' = [build EXCEPT !.stage = "rollback"]
             /\ UNCHANGED ledger
    /\ UNCHANGED <<enqueued, waiting, reported, dropped>>

\* The trades of the chunk that are debited and neither credited nor rolled back.
Debited ==
    IF build.stage \in {"debiting", "rollback"} THEN SubSeq(build.kept, 1, build.next - 1) ELSE <<>>

\* Slip: the makers are credited.
RolledForward ==
    FoldLeft(LAMBDA b, k : Credit(b, Maker(k.trade), Value(k.trade)), ledger, Debited)

RolledBack == FoldLeft(LAMBDA b, k : Credit(b, Taker(k.trade), Value(k.trade)), ledger, Debited)

RollBack ==
    /\ build.stage = "rollback"
    /\ ledger' = RolledBack
    /\ dropped' = dropped \union KeptTrades
    /\ NextChunk
    /\ UNCHANGED <<enqueued, waiting, reported>>

\* The second phase: all credits under one lock.
CreditMakers ==
    /\ build.stage = "debiting" /\ build.next > Len(build.kept)
    /\ ledger' = FoldLeft(LAMBDA b, k : Credit(b, Maker(k.trade), Value(k.trade)),
                          ledger, build.kept)
    /\ reported' = Append(reported,
         [kept |-> build.kept, preRoot |-> 0, postRoot |-> PostRoot(build.kept),
          proof |-> ProveBatch(build.kept, 0)])
    /\ NextChunk
    /\ UNCHANGED <<enqueued, waiting, dropped>>

-----------------------------------------------------------------------------
\* Where trades are batched the service has caught up but for the last blocks,
\* and only one more restart is looked at.
BatcherInit ==
    /\ matched \in TradeSets
    /\ IF matched = {} THEN Init
       ELSE /\ chain = Synced
            /\ sync = [last |-> SyncedTo, known |-> CreatedFor(Blocks(1, SyncedTo))]
            /\ store = [events |-> SelectSeq(Blocks(1, SyncedTo), LAMBDA b : b.event # NoEvent),
                        watermark |-> SyncedTo]
            /\ tick = Idle
            /\ ledger = FoldLeft(ApplyEvent, NoBalances, store.events)
            /\ spent = [reorgs |-> MaxReorgs, requests |-> MaxFailures, writes |-> 0,
                        restarts |-> IF MaxRestarts = 0 THEN 0 ELSE MaxRestarts - 1]
    /\ enqueued = {} /\ waiting = <<>> /\ build = NoBuild
    /\ reported = <<>> /\ dropped = {}
    /\ moved = ledger

\* The effect of a step of the service on the ledger is noted.
Noted ==
    /\ moved' = [a \in Accounts |-> moved[a] + ledger'[a] - ledger[a]]
    /\ UNCHANGED <<matched, batcherVars>>

\* A restart loses the batcher's state too.
RestartBoth ==
    /\ Restart
    /\ enqueued' = {} /\ waiting' = <<>> /\ build' = NoBuild
    /\ reported' = <<>> /\ dropped' = {}
    /\ moved' = ledger'
    /\ UNCHANGED matched

SyncStep == (Running /\ Noted) \/ RestartBoth

BuildBatch == ReadBalances \/ Prove \/ DebitTaker \/ RollBack \/ CreditMakers

BatcherStep ==
    /\ (\E t \in matched : Enqueue(t)) \/ ProcessBatches \/ BuildBatch
    /\ UNCHANGED <<chain, sync, tick, store, spent, matched, moved>>

\* The settlement loop calls process_batches again and again, which returns.
BatcherSpec ==
    /\ BatcherInit /\ [][SyncStep \/ BatcherStep]_allVars
    /\ WF_allVars(Tick /\ Noted)
    /\ WF_allVars((ProcessBatches \/ BuildBatch) /\ BatcherStep)

-----------------------------------------------------------------------------
\* The types of both modules.
BatcherTypeOK ==
    /\ TypeOK
    /\ enqueued \subseteq matched /\ dropped \subseteq matched
    /\ waiting \in Seq(matched)
    /\ build.stage \in {"idle", "reading", "debiting", "rollback"}
    /\ build.chunks \in Seq(Seq(matched))
    /\ build.stage = "idle" <=> build.chunks = <<>>

\* The ledger that no batcher shares is what the chain says (see
\* LedgerFollowsChain).
AloneFollowsChain == matched = {} => LedgerFollowsChain

\* ... and exact while it fits (see ExactWhileItFits).
AloneExact == matched = {} => ExactWhileItFits

NetReported(a) ==
    LET net(k) == (IF Maker(k.trade) = a THEN Value(k.trade) ELSE 0)
                  - (IF Taker(k.trade) = a THEN Value(k.trade) ELSE 0)
    IN SumOver(net, FlattenSeq([i \in DOMAIN reported |-> reported[i].kept]))

Held(a) == SumOver(LAMBDA k : IF Taker(k.trade) = a THEN Value(k.trade) ELSE 0, Debited)

\* The shared ledger is what chain events and the reported chunks make of it, and
\* the debits under way: a chunk that is given up halfway leaves no trace, whatever
\* deposits and withdrawals come between its steps.  (Up to 2^64, which a balance
\* may pass.)
LedgerAccounted ==
    \A a \in Accounts : (moved[a] + NetReported(a) - Held(a) - ledger[a]) % (LedgerMax + 1) = 0

\* A reported chunk passes verify_proof with the batch it is reported with, as the
\* settlement loop and the watchtowers require, if its trades' value fits a u64,
\* however the balances changed since they were read.
ReportedVerify ==
    \A i \in DOMAIN reported :
        SumOver(LAMBDA k : Worth(k.trade), reported[i].kept) <= LedgerMax
            => VerifyProof(reported[i])

ReportedTrades ==
    FlattenSeq([i \in DOMAIN reported |->
                  [j \in DOMAIN reported[i].kept |-> reported[i].kept[j].trade]])

Everywhere ==
    waiting \o SelectSeq(FlattenSeq(build.chunks), LAMBDA t : t \notin dropped)
    \o ReportedTrades \o SetToSeq(dropped)

\* Grouping and chunking neither lose nor repeat a trade: one that was enqueued
\* waits, is being batched, was reported or was dropped with a warning, and only
\* one of these.
TradesAccounted == IsInjective(Everywhere) /\ ToSet(Everywhere) = enqueued

Pays(a) == SumOver(LAMBDA t : IF Taker(t) = a THEN Worth(t) ELSE 0, SetToSeq(matched))
Earns(a) == SumOver(LAMBDA t : IF Maker(t) = a THEN Worth(t) ELSE 0, SetToSeq(matched))

\* No trade is dropped for want of funds that are there: if what an account has on
\* chain, at every height from where the batcher started, pays for all its trades
\* (and fits the ledger with what they earn it), none is, whatever the service
\* applies meanwhile.
DroppedForCause ==
    dropped # {} => \E a \in Accounts, h \in SyncedTo..Len(chain) :
        OnChain(SubSeq(chain, 1, h), a) \notin Pays(a)..(LedgerMax - Earns(a))

\* Every trade handed over is reported or dropped in the end: again and again the
\* batcher has dealt with all it was given.
EventuallyBatched == []<>(enqueued = dropped \union ToSet(ReportedTrades))

\* The store is the chain up to its watermark, except for what a failed write cost
\* it (record_batch).
StoreTrue == StoreSound /\ StoreCompleteUntilWriteFails

\* Store and ledger are what the chain and the reported chunks say, whoever shares
\* the ledger (poll_once, record_batch, build_batch).
LedgerTrue == BatcherTypeOK /\ StoreTrue /\ AloneFollowsChain /\ AloneExact /\ LedgerAccounted

\* Every trade is accounted for, and none is dropped without a cause (build_batch).
TradesTraced == TradesAccounted /\ DroppedForCause

\* Both tasks keep up: the service with the chain, the batcher with its queue.
EventuallyCaughtUp == EventuallyApplied /\ EventuallyBatched
=============================================================================
