------------------------------ MODULE ChainSync -----------------------------
(***************************************************************************)
(* crates/chain-ethereum: the service that follows the escrow contracts.   *)
(* ChainSync polls the chain for events, SyncStore keeps them with a       *)
(* watermark, and SyncService applies them to a BalanceLedger; a restart   *)
(* rebuilds the ledger and the escrow registry from the store.             *)
(*                                                                         *)
(* A poll makes three requests, and the chain grows and is reorganised     *)
(* between them.  A block holds at most one event, so a block number also  *)
(* stands for an event's place in the chain.  An escrow is named by its    *)
(* trader: the contract creates one for each.                              *)
(***************************************************************************)
EXTENDS Integers, SequencesExt, FiniteSets

CONSTANTS
    Traders,
    Movements,      \* the deposits and withdrawals: [kind, trader, token, amount]
    Listed,         \* tokens with a symbol in TokenRegistry
    LedgerMax,      \* u64::MAX
    Confirmations,
    MaxHeight,      \* bound: blocks
    MaxReorgs,      \* bound: blocks taken back
    MaxFailures,    \* bound: requests or writes that fail
    MaxRestarts     \* bound: crashes

ASSUME LedgerMaxAssumption == LedgerMax \in Nat /\ Confirmations \in Nat

VARIABLES
    chain,          \* the blocks, each an event or NoEvent
    sync,           \* ChainSync: last_synced_block and the escrows it knows
    tick,           \* the poll in progress: its stage, range end and events
    store,          \* SyncStore: the events recorded and the watermark
    ledger,         \* BalanceLedger
    spent           \* how many reorganisations, failures and crashes there were

vars == <<chain, sync, tick, store, ledger, spent>>

NoEvent == [kind |-> "None"]
EscrowCreated(t) == [kind |-> "EscrowCreated", trader |-> t]

\* The blocks from..to of the chain as [block, event] records.
Blocks(from, to) ==
    [i \in 1..(to - from + 1) |-> [block |-> from + i - 1, event |-> chain[from + i - 1]]]

Moves(blocks) == SelectSeq(blocks, LAMBDA b : b.event.kind \in {"Deposited", "Withdrawn"})
Created(blocks) == SelectSeq(blocks, LAMBDA b : b.event.kind = "EscrowCreated")
CreatedFor(blocks) == {b.event.trader : b \in ToSet(Created(blocks))}

Idle == [stage |-> "idle", to |-> 0, events |-> <<>>]
Accounts == Traders \X Listed

AnyMovement ==
    [kind : {"Deposited", "Withdrawn"}, trader : Traders, token : {m.token : m \in Movements},
     amount : Nat]

TypeOK ==
    /\ chain \in Seq({NoEvent} \union {EscrowCreated(t) : t \in Traders} \union AnyMovement)
    /\ sync.last \in 0..Len(chain) /\ sync.known \subseteq Traders
    /\ tick.stage \in {"idle", "factory", "escrows", "record", "apply"}
    /\ tick.to \in 0..Len(chain)
    /\ store.watermark \in 0..Len(chain)
    /\ ledger \in [Accounts -> 0..LedgerMax]

-----------------------------------------------------------------------------
\* What the contracts hold for an account after these blocks.
OnChain(blocks, a) ==
    LET of(kind, b) == IF b.kind = kind /\ <<b.trader, b.token>> = a THEN b.amount ELSE 0
    IN FoldLeft(LAMBDA sum, b : sum + of("Deposited", b) - of("Withdrawn", b), 0, blocks)

\* The blocks that may follow: an escrow is created once and before it is
\* used, and pays out no more than it holds.
NextBlocks(blocks) ==
    {NoEvent}
    \union {e \in {EscrowCreated(t) : t \in Traders} : ~Contains(blocks, e)}
    \union {m \in Movements :
                /\ Contains(blocks, EscrowCreated(m.trader))
                /\ m.kind = "Withdrawn" => m.amount <= OnChain(blocks, <<m.trader, m.token>>)}

MineBlock(b) ==
    /\ Len(chain) < MaxHeight
    /\ chain' = Append(chain, b)
    /\ UNCHANGED <<sync, tick, store, ledger, spent>>

\* The last block turns out not to be part of the chain, another one is.
Reorg(b) ==
    /\ spent.reorgs < MaxReorgs
    /\ Confirmations > 0
    /\ b # Last(chain)
    /\ chain' = Append(Front(chain), b)
    /\ spent' = [spent EXCEPT !.reorgs = @ + 1]
    /\ UNCHANGED <<sync, tick, store, ledger>>

-----------------------------------------------------------------------------
\* TokenRegistry: only a token of the static configuration has a symbol.
HasSymbol(token) == token \in Listed

\* resolve_amount: the symbol is known and the amount fits.
Resolved(e) == HasSymbol(e.token) /\ e.amount <= LedgerMax

\* debit: nothing happens when the balance is too small.
Debit(balances, a, amount) ==
    [balances EXCEPT ![a] = IF @ < amount THEN @ ELSE @ - amount]

\* credit: `+=` on a u64.
Credit(balances, a, amount) == [balances EXCEPT ![a] = (@ + amount) % (LedgerMax + 1)]

ApplyEvent(balances, b) ==
    LET e == b.event IN
    IF e.kind \notin {"Deposited", "Withdrawn"} \/ ~Resolved(e) THEN balances
    ELSE IF e.kind = "Deposited" THEN Credit(balances, <<e.trader, e.token>>, e.amount)
    ELSE Debit(balances, <<e.trader, e.token>>, e.amount)

NoBalances == [a \in Accounts |-> 0]

\* latest.checked_sub(confirmations).
SafeHead(height) == height - Confirmations

Behind == SafeHead(Len(chain)) > sync.last

\* poll_once, up to its first request; nothing new to scan is a stutter.
ReadHeight ==
    /\ tick = Idle
    /\ Behind
    /\ tick' = [Idle EXCEPT !.stage = "factory", !.to = SafeHead(Len(chain))]
    /\ UNCHANGED <<chain, sync, store, ledger, spent>>

Scanned == Blocks(sync.last + 1, tick.to)

\* EscrowRegistry: an escrow once recorded is never forgotten.
RecordEscrowsCreated(known, blocks) == known \union CreatedFor(blocks)

\* Pass 1: escrows the factory created.
ReadFactoryLogs ==
    /\ tick.stage = "factory"
    /\ tick' = [tick EXCEPT !.stage = "escrows", !.events = Created(Scanned)]
    /\ sync' = [sync EXCEPT !.known = RecordEscrowsCreated(@, Scanned)]
    /\ UNCHANGED <<chain, store, ledger, spent>>

\* Pass 2: movements of the known escrows, and the watermark; tick goes on
\* only when there were events.
ReadEscrowLogs ==
    LET moves == SelectSeq(Moves(Scanned), LAMBDA b : b.event.trader \in sync.known)
        events == tick.events \o moves
    IN
    /\ tick.stage = "escrows"
    /\ sync' = [sync EXCEPT !.last = tick.to]
    /\ tick' = IF events = <<>> THEN Idle ELSE [tick EXCEPT !.stage = "record", !.events = events]
    /\ UNCHANGED <<chain, store, ledger, spent>>

\* One sled batch.
Recorded(s, events, last) == [events |-> s.events \o events, watermark |-> last]

RecordBatch ==
    /\ tick.stage = "record"
    /\ store' = Recorded(store, tick.events, sync.last)
    /\ tick' = [tick EXCEPT !.stage = "apply"]
    /\ UNCHANGED <<chain, sync, ledger, spent>>

ApplyEvents ==
    /\ tick.stage = "apply"
    /\ ledger' = FoldLeft(ApplyEvent, ledger, tick.events)
    /\ tick' = Idle
    /\ UNCHANGED <<chain, sync, store, spent>>

\* The tick ends with an error, which the next one starts over from.
Fails(what) ==
    /\ spent.requests + spent.writes < MaxFailures
    /\ spent' = [spent EXCEPT ![what] = @ + 1]
    /\ tick' = Idle

NotPassed == sync

\* get_logs returned an error.
RequestFails ==
    /\ tick.stage \in {"factory", "escrows"}
    /\ Fails("requests")
    /\ sync' = NotPassed
    /\ UNCHANGED <<chain, store, ledger>>

\* Slip: the range is scanned again after a failed write.
ScanAgain == [sync EXCEPT !.last = store.watermark]

ScannedOnce == sync

\* record_batch returned an error: from apply_batch, or from the flush after
\* it; ChainSync has moved past the range already.
RecordFails ==
    /\ tick.stage = "record"
    /\ Fails("writes")
    /\ store' \in {store, Recorded(store, tick.events, sync.last)}
    /\ sync' = ScannedOnce
    /\ UNCHANGED <<chain, ledger>>

Rebuilt(events) == FoldLeft(ApplyEvent, NoBalances, events)

\* A new process: ChainSync starts at the store's watermark and
\* replay_persisted feeds it and the ledger what the store holds.
Restart ==
    /\ spent.restarts < MaxRestarts
    /\ spent' = [spent EXCEPT !.restarts = @ + 1]
    /\ sync' = [last |-> store.watermark,
                known |-> CreatedFor(store.events)]
    /\ ledger' = Rebuilt(store.events)
    /\ tick' = Idle
    /\ UNCHANGED <<chain, store>>

-----------------------------------------------------------------------------
Init ==
    /\ chain = <<>>
    /\ sync = [last |-> 0, known |-> {}]
    /\ tick = Idle
    /\ store = [events |-> <<>>, watermark |-> 0]
    /\ ledger = NoBalances
    /\ spent = [reorgs |-> 0, requests |-> 0, writes |-> 0, restarts |-> 0]

Tick == ReadHeight \/ ReadFactoryLogs \/ ReadEscrowLogs \/ RecordBatch \/ ApplyEvents

\* Everything but a restart.
Running ==
    \/ \E b \in NextBlocks(chain) : MineBlock(b)
    \/ chain # <<>> /\ \E b \in NextBlocks(Front(chain)) : Reorg(b)
    \/ Tick
    \/ RequestFails
    \/ RecordFails

Next == Running \/ Restart

\* run ticks on an interval and survives failed ticks; the chain is not
\* asked to do anything.
Spec == Init /\ [][Next]_vars /\ WF_vars(Tick)

-----------------------------------------------------------------------------
Final(height) == Blocks(1, height)
Between == tick.stage \notin {"record", "apply"}

\* The store records nothing but the chain: every movement it holds is on
\* the chain below its watermark, in chain order and once, and none is of a
\* block that was reorganised, wherever a poll failed or the process crashed.
StoreSound ==
    LET moves == Moves(store.events) IN
    /\ ToSet(moves) \subseteq ToSet(Final(store.watermark))
    /\ \A i, j \in DOMAIN moves : i < j => moves[i].block < moves[j].block

\* The store never disagrees with the chain: it holds every movement and
\* every escrow up to its watermark.
StoreComplete ==
    /\ Moves(store.events) = Moves(Final(store.watermark))
    /\ Created(store.events) = Created(Final(store.watermark))

\* That holds until a write of the store fails: failed requests, crashes
\* between recording and applying, and replays lose nothing.
StoreCompleteUntilWriteFails == spent.writes = 0 => StoreComplete

\* Between ticks, until a write fails, the ledger is what applying the chain
\* up to the last synced block gives: no event counts twice and none is
\* skipped by a failed poll, a crash or a replay.
LedgerFollowsChain ==
    spent.writes = 0 /\ Between
        => ledger = FoldLeft(ApplyEvent, NoBalances, Final(sync.last))

\* As long as an account's funds fit the ledger's u64 at every height (and no
\* write failed), its ledger balance is the balance on chain.
ExactWhileItFits ==
    \A a \in Accounts :
        spent.writes = 0 /\ Between
        /\ (\A h \in 0..sync.last : OnChain(SubSeq(chain, 1, h), a) <= LedgerMax)
            => ledger[a] = OnChain(SubSeq(chain, 1, sync.last), a)

\* The service catches up: again and again it has scanned and applied all that
\* has its confirmations, whatever failed before.
EventuallyApplied == []<>(tick = Idle /\ sync.last >= SafeHead(Len(chain)))
=============================================================================
