---------------------------- MODULE TraderEscrow ----------------------------
(***************************************************************************)
(* contracts/ethereum/TraderEscrow.sol: one escrow contract per trader,    *)
(* indexed here by its owner.  balances and lockedBalances are the         *)
(* contract's books, holdings what the token contracts say it owns, and    *)
(* settlements the record commitTrade writes for each trade hash.          *)
(*                                                                         *)
(* The functions only the factory may call appear as operators on a        *)
(* settlement record; SettlementFactory puts them together.  unlock is     *)
(* such a function, and no code calls it.                                  *)
(***************************************************************************)
EXTENDS Integers, FiniteSets

CONSTANTS
    Traders,        \* owners of escrows
    Tokens,         \* token contracts; address(0), ETH, behaves alike
    TradeHashes,
    AssignedNodes,  \* node public keys a trade may be assigned to
    Deposits,       \* amounts of the deposit and withdraw calls considered
    MaxHoldings,    \* bound: tokens an escrow is ever given
    MaxTime         \* bound: last block timestamp

ASSUME DepositsAssumption == Deposits \subseteq Nat
ASSUME TradeHashesAssumption == IsFiniteSet(TradeHashes)

VARIABLES
    now,            \* block.timestamp
    escrows,        \* the traders whose escrow has been created
    balances,
    lockedBalances,
    holdings,
    settlements

escrowVars == <<escrows, balances, lockedBalances, holdings, settlements>>

\* The zero value of `token`, `assignedNode` and `counterparty`.
Zero == "zero"

Settlement ==
    [deadline : Nat, refunded : BOOLEAN, settled : BOOLEAN, slashed : BOOLEAN,
     token : Tokens \union {Zero}, assignedNode : AssignedNodes \union {Zero},
     lockedAmount : Nat, counterparty : Traders \union {Zero}]

NoSettlement ==
    [deadline |-> 0, refunded |-> FALSE, settled |-> FALSE, slashed |-> FALSE,
     token |-> Zero, assignedNode |-> Zero, lockedAmount |-> 0, counterparty |-> Zero]

Recorded(s) == s.deadline > 0

\* The trade's funds are still in lockedBalances.
Open(s) == Recorded(s) /\ ~s.settled /\ ~s.refunded

EscrowTypeOK ==
    /\ now \in Nat \ {0}
    /\ escrows \subseteq Traders
    /\ balances \in [Traders -> [Tokens -> Nat]]
    /\ lockedBalances \in [Traders -> [Tokens -> Nat]]
    /\ holdings \in [Traders -> [Tokens -> Nat]]
    /\ settlements \in [Traders -> [TradeHashes -> Settlement]]

EscrowInit ==
    /\ now = 1
    /\ escrows = {}
    /\ balances = [t \in Traders |-> [k \in Tokens |-> 0]]
    /\ lockedBalances = [t \in Traders |-> [k \in Tokens |-> 0]]
    /\ holdings = [t \in Traders |-> [k \in Tokens |-> 0]]
    /\ settlements = [t \in Traders |-> [h \in TradeHashes |-> NoSettlement]]

-----------------------------------------------------------------------------
\* Anyone may deposit into an escrow; the token transfer is part of the call.
Deposit(t, token, amount) ==
    /\ t \in escrows
    /\ holdings[t][token] + amount <= MaxHoldings
    /\ holdings' = [holdings EXCEPT ![t][token] = @ + amount]
    /\ balances' = [balances EXCEPT ![t][token] = @ + amount]
    /\ UNCHANGED <<now, escrows, lockedBalances, settlements>>

\* Slip: the tokens leave but the books keep them.
WithdrawUnbooked(t, token, amount) ==
    /\ t \in escrows
    /\ balances[t][token] >= amount
    /\ holdings[t][token] >= amount
    /\ holdings' = [holdings EXCEPT ![t][token] = @ - amount]
    /\ UNCHANGED <<now, escrows, balances, lockedBalances, settlements>>

Withdraw(t, token, amount) ==
    /\ t \in escrows
    /\ balances[t][token] >= amount
    /\ holdings[t][token] >= amount
    /\ balances' = [balances EXCEPT ![t][token] = @ - amount]
    /\ holdings' = [holdings EXCEPT ![t][token] = @ - amount]
    /\ UNCHANGED <<now, escrows, lockedBalances, settlements>>

DeadlinePassed(s) == now > s.deadline

MarkSettled(s) == [s EXCEPT !.settled = TRUE]
MarkSlashed(s) == [s EXCEPT !.slashed = TRUE]
MarkRefunded(s) == [s EXCEPT !.refunded = TRUE]

RefundAfterDeadline(t, h) ==
    LET s == settlements[t][h] IN
    /\ t \in escrows
    /\ Recorded(s)
    /\ DeadlinePassed(s)
    /\ ~s.refunded
    /\ ~s.settled
    /\ s.lockedAmount > 0
    /\ lockedBalances[t][s.token] >= s.lockedAmount
    /\ lockedBalances' = [lockedBalances EXCEPT ![t][s.token] = @ - s.lockedAmount]
    /\ balances' = [balances EXCEPT ![t][s.token] = @ + s.lockedAmount]
    /\ settlements' = [settlements EXCEPT ![t][h] = MarkRefunded(@)]
    /\ UNCHANGED <<now, escrows, holdings>>

\* The next block: its timestamp is later than the last one's.
Tick ==
    /\ now < MaxTime
    /\ now' = now + 1
    /\ UNCHANGED escrowVars

\* The calls made on an escrow directly.
EscrowCall ==
    \E t \in Traders :
        \/ \E k \in Tokens, a \in Deposits : Deposit(t, k, a)
        \/ \E k \in Tokens, a \in Deposits : Withdraw(t, k, a)
        \/ \E h \in TradeHashes : RefundAfterDeadline(t, h)
=============================================================================
