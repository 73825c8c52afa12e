------------------------- MODULE SettlementFactory --------------------------
(***************************************************************************)
(* contracts/ethereum/SettlementFactory.sol with the escrows and the node  *)
(* registry it drives.  The factory is the registry's slashing authority.  *)
(*                                                                         *)
(* A batch function loops over its calldata inside one transaction and     *)
(* reverts as a whole.  Its action states what the loop needs of the whole *)
(* batch: the per-trade requires for every position, what an earlier       *)
(* position leaves for a later one (a trade recorded or settled at one     *)
(* position is refused at another), and the sums the balance checks see.   *)
(* Groth16 verification is BatchVerifier's: settle actions are the calls   *)
(* with a proof it accepts, and commit actions those the traders signed.   *)
(***************************************************************************)
EXTENDS NodeRegistry, TraderEscrow

CONSTANTS
    TradeEntries,   \* the TradeEntry calldata considered
    SwapAmounts,    \* amounts of the settleBatch calls considered
    MaxBatch        \* bound: trades or hashes in one call (the code: 150 and 8)

ASSUME TradeEntriesAssumption ==
    TradeEntries \subseteq
        [trader : Traders, counterparty : Traders, token : Tokens, amount : Nat,
         fee : Nat, deadline : Nat, tradeHash : TradeHashes, assignedNode : AssignedNodes]
ASSUME SwapAmountsAssumption == SwapAmounts \subseteq Nat
ASSUME AssignedNodesAssumption == AssignedNodes \subseteq Nodes

vars == <<registryVars, now, escrowVars>>

Batches(S) == UNION {[1..n -> S] : n \in 1..MaxBatch}

TypeOK == RegistryTypeOK /\ EscrowTypeOK

Init == RegistryInit /\ EscrowInit

-----------------------------------------------------------------------------
\* The settlement record that a trade entry names.
RecordOf(e) == settlements[e.trader][e.tradeHash]

\* Slip: a trade may appear twice in one call.
RepeatsAllowed(batch) == TRUE

\* A trade recorded or marked at one position of a batch is refused at every
\* later one: recordSettlement and markSettlementSettled run inside the loops.
NoRepeats(batch) ==
    \A i, j \in DOMAIN batch :
        batch[i].trader = batch[j].trader /\ batch[i].tradeHash = batch[j].tradeHash
        => i = j

\* The positions of a batch that draw on one trader's balance of one token:
\* the group of _settleGroup.
Group(batch, t, k) == {i \in DOMAIN batch : batch[i].trader = t /\ batch[i].token = k}

AmountSum(batch, t, k) ==
    SumFunctionOnSet([i \in DOMAIN batch |-> batch[i].amount], Group(batch, t, k))
FeeSum(batch, t, k) ==
    SumFunctionOnSet([i \in DOMAIN batch |-> batch[i].fee], Group(batch, t, k))

\* The settlement records after F is applied to the ones the batch names.
UpdateRecords(batch, F(_, _)) ==
    [t \in Traders |-> [h \in TradeHashes |->
        IF \E i \in DOMAIN batch : batch[i].trader = t /\ batch[i].tradeHash = h
        THEN F(settlements[t][h],
               batch[CHOOSE i \in DOMAIN batch :
                        batch[i].trader = t /\ batch[i].tradeHash = h])
        ELSE settlements[t][h]]]

-----------------------------------------------------------------------------
CreateEscrow(t) ==
    /\ t \notin escrows
    /\ escrows' = escrows \union {t}
    /\ UNCHANGED <<registryVars, now, balances, lockedBalances, holdings, settlements>>

\* The tokens settleBatch takes from one escrow; a swap of a trader with
\* themselves in one token takes both legs from it.
SwapLeg(swap, t, k) ==
    (IF t = swap.traderA /\ k = swap.tokenA THEN swap.amountA ELSE 0) +
    (IF t = swap.traderB /\ k = swap.tokenB THEN swap.amountB ELSE 0)

\* Locks and pays both legs of a swap in one call: lockedBalances ends as it was.
SettleBatch(swap) ==
    /\ swap.traderA \in escrows /\ swap.traderB \in escrows
    /\ \A t \in Traders, k \in Tokens :
          /\ balances[t][k] >= SwapLeg(swap, t, k)
          /\ holdings[t][k] >= SwapLeg(swap, t, k)
    /\ balances' = [t \in Traders |-> [k \in Tokens |-> balances[t][k] - SwapLeg(swap, t, k)]]
    /\ holdings' = [t \in Traders |-> [k \in Tokens |-> holdings[t][k] - SwapLeg(swap, t, k)]]
    /\ UNCHANGED <<registryVars, now, escrows, lockedBalances, settlements>>

\* The requires of _commitTrade and recordSettlement for one trade.
CanCommit(e) ==
    /\ now <= e.deadline
    /\ nodes[e.assignedNode].active
    /\ {e.trader, e.counterparty} \subseteq escrows
    /\ RecordOf(e).deadline = 0

NewSettlement(old, e) ==
    [deadline |-> e.deadline, refunded |-> FALSE, settled |-> FALSE, slashed |-> FALSE,
     token |-> e.token, assignedNode |-> e.assignedNode,
     lockedAmount |-> e.amount + e.fee, counterparty |-> e.counterparty]

LockedSum(batch, t, k) == AmountSum(batch, t, k) + FeeSum(batch, t, k)

\* commitTrade is the batch of one, sent by the trader.
CommitTradeBatch(batch) ==
    /\ \A i \in DOMAIN batch : CanCommit(batch[i])
    /\ NoRepeats(batch)
    /\ \A t \in Traders, k \in Tokens : LockedSum(batch, t, k) <= balances[t][k]
    /\ balances' = [t \in Traders |-> [k \in Tokens |->
                        balances[t][k] - LockedSum(batch, t, k)]]
    /\ lockedBalances' = [t \in Traders |-> [k \in Tokens |->
                              lockedBalances[t][k] + LockedSum(batch, t, k)]]
    /\ settlements' = UpdateRecords(batch, NewSettlement)
    /\ UNCHANGED <<registryVars, now, escrows, holdings>>

\* Slip: the deadline is not tested.
CanSettleLate(e, caller) ==
    LET s == RecordOf(e) IN
    /\ e.trader \in escrows
    /\ nodes[e.assignedNode].operator = caller
    /\ Recorded(s) /\ ~s.settled /\ ~s.slashed
    /\ e.token = s.token /\ e.counterparty = s.counterparty
    /\ e.amount + e.fee = s.lockedAmount

\* The requires of _settleGroup for one trade.
CanSettle(e, caller) ==
    LET s == RecordOf(e) IN
    /\ e.trader \in escrows
    /\ nodes[e.assignedNode].operator = caller
    /\ Recorded(s)
    /\ ~s.settled
    /\ ~s.slashed
    /\ ~DeadlinePassed(s)
    /\ e.token = s.token
    /\ e.counterparty = s.counterparty
    /\ e.amount + e.fee = s.lockedAmount

SettledRecord(old, e) == MarkSettled(old)

\* Without a fee recipient settleNetted leaves the fee in the escrow's holdings.
SettleBatchWithFees(batch, caller, hasFeeRecipient) ==
    LET paid(t, k) == AmountSum(batch, t, k)
        fee(t, k) == FeeSum(batch, t, k)
        out(t, k) == paid(t, k) + (IF hasFeeRecipient THEN fee(t, k) ELSE 0)
    IN
    /\ \A i \in DOMAIN batch : CanSettle(batch[i], caller)
    /\ NoRepeats(batch)
    /\ \A t \in Traders, k \in Tokens :
          /\ paid(t, k) + fee(t, k) <= lockedBalances[t][k]
          /\ out(t, k) <= holdings[t][k]
    /\ lockedBalances' = [t \in Traders |-> [k \in Tokens |->
                              lockedBalances[t][k] - (paid(t, k) + fee(t, k))]]
    /\ holdings' = [t \in Traders |-> [k \in Tokens |-> holdings[t][k] - out(t, k)]]
    /\ settlements' = UpdateRecords(batch, SettledRecord)
    /\ UNCHANGED <<registryVars, now, escrows, balances>>

-----------------------------------------------------------------------------
\* Slip: a settled trade may be claimed.
CanClaimSettled(s) == Recorded(s) /\ DeadlinePassed(s) /\ ~s.slashed

CanClaim(s) ==
    /\ Recorded(s)
    /\ DeadlinePassed(s)
    /\ ~s.settled
    /\ ~s.slashed

SlashAmount(n) == nodes[n].stake \div 2

\* claimSlash slashes a node at the first of its hashes.  At a later one the
\* node is either gone, its stake 0 and the slash skipped, or inactive with
\* stake left, and slashNode reverts the call.
ClaimSlash(hashes, caller) ==
    LET claimed == {hashes[i] : i \in DOMAIN hashes}
        byNode(n) == {h \in claimed : settlements[caller][h].assignedNode = n}
        hit == {n \in Nodes : byNode(n) # {} /\ nodes[n].stake > 0}
        total == SumFunctionOnSet([n \in Nodes |-> SlashAmount(n)], hit)
    IN
    /\ caller \in escrows
    /\ Cardinality(claimed) = Len(hashes)
    /\ \A h \in claimed : CanClaim(settlements[caller][h])
    /\ \A n \in hit :
          /\ CanSlash(nodes[n], SlashAmount(n))
          /\ Slashed(nodes[n], SlashAmount(n)).stake > 0 => Cardinality(byNode(n)) = 1
    /\ total <= registryBalance
    /\ settlements' = [settlements EXCEPT ![caller] =
                          [h \in TradeHashes |-> IF h \in claimed THEN MarkSlashed(@[h]) ELSE @[h]]]
    /\ nodes' = [n \in Nodes |-> IF n \in hit THEN Slashed(nodes[n], SlashAmount(n)) ELSE nodes[n]]
    /\ registryBalance' = registryBalance - total
    /\ UNCHANGED <<nodeList, now, escrows, balances, lockedBalances, holdings>>

-----------------------------------------------------------------------------
Swaps == [traderA : Traders, traderB : Traders, tokenA : Tokens, tokenB : Tokens,
          amountA : SwapAmounts, amountB : SwapAmounts]

FactoryCall ==
    \/ \E t \in Traders : CreateEscrow(t)
    \/ \E swap \in Swaps : SettleBatch(swap)
    \/ \E batch \in Batches(TradeEntries) : CommitTradeBatch(batch)
    \/ \E batch \in Batches(TradeEntries), o \in Operators, r \in BOOLEAN :
          SettleBatchWithFees(batch, o, r)
    \/ \E hashes \in Batches(TradeHashes), t \in Traders : ClaimSlash(hashes, t)

Next ==
    \/ FactoryCall
    \/ EscrowCall /\ UNCHANGED registryVars
    \/ RegistryCall /\ UNCHANGED <<now, escrowVars>>
    \/ Tick /\ UNCHANGED registryVars

Spec == Init /\ [][Next]_vars

-----------------------------------------------------------------------------
\* A committed trade ends one way only: a trade that settleBatchWithFees paid
\* is never refunded to its trader nor slashed, in either order.  _settleGroup
\* does not look at `refunded`, so this rests on the deadline tests of three
\* functions in two contracts.
SettledExclusive ==
    \A t \in Traders, h \in TradeHashes :
        LET s == settlements[t][h] IN s.settled => ~s.refunded /\ ~s.slashed

\* A trade is refunded or slashed only once its deadline has passed: until
\* then the assigned node can still settle it.
EarlyEndExcluded ==
    \A t \in Traders, h \in TradeHashes :
        LET s == settlements[t][h] IN s.refunded \/ s.slashed => now > s.deadline

OpenTrades(t, k) ==
    {h \in TradeHashes : Open(settlements[t][h]) /\ settlements[t][h].token = k}

\* lockedBalances is exactly what the open trades of an escrow locked, so
\* neither settleNetted nor refundAfterDeadline of an open trade ever fails
\* with "Insufficient locked balance", and no locked token is orphaned.
LockedIsOpenTrades ==
    \A t \in Traders, k \in Tokens :
        lockedBalances[t][k] =
            SumFunctionOnSet([h \in TradeHashes |-> settlements[t][h].lockedAmount],
                             OpenTrades(t, k))

\* An escrow owns at least what its books promise, whatever mix of deposits,
\* swaps, netted settlements, refunds and withdrawals has happened.
EscrowSolvent ==
    \A t \in Traders, k \in Tokens :
        holdings[t][k] >= balances[t][k] + lockedBalances[t][k]

\* What commitTrade recorded is final: no later call changes the terms of a
\* trade, and its flags only go up, so no trade can be committed afresh.
RecordFinal ==
    \A t \in Traders, h \in TradeHashes :
        LET s == settlements[t][h]
            u == settlements'[t][h]
        IN Recorded(s) =>
             /\ <<u.deadline, u.token, u.assignedNode, u.lockedAmount, u.counterparty>> =
                <<s.deadline, s.token, s.assignedNode, s.lockedAmount, s.counterparty>>
             /\ s.settled => u.settled
             /\ s.refunded => u.refunded
             /\ s.slashed => u.slashed
RecordsAreFinal == [][RecordFinal]_vars

-----------------------------------------------------------------------------
\* Where a trade's funds are, read off its record.
Place(s) ==
    CASE s.settled /\ s.refunded -> "both"
      [] s.settled /\ ~s.refunded -> "paid"
      [] ~s.settled /\ s.refunded -> "returned"
      [] ~s.settled /\ ~s.refunded /\ Recorded(s) -> "locked"
      [] OTHER -> "none"

Promise == INSTANCE EscrowPromise WITH
    Trades <- Traders \X TradeHashes,
    time <- now,
    funds <- [d \in Traders \X TradeHashes |-> Place(settlements[d[1]][d[2]])],
    due <- [d \in Traders \X TradeHashes |-> settlements[d[1]][d[2]].deadline]

\* The contracts keep the promise of EscrowPromise: every call commits, pays
\* or returns trades as it allows, or leaves their funds where they are.
KeepsPromise == Promise!PromiseSpec

\* The registry is safe under whatever the factory asks of it: a node that may be
\* assigned trades has its stake, its third missed deadline was acted on, and the
\* pooled ether covers every stake (activateNode, withdrawStake, slashNode,
\* recordMissedDeadline).
RegistrySound == ActiveNodeStaked /\ MissedDeadlinesActedOn /\ RegistrySolvent
=============================================================================
