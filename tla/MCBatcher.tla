------------------------------ MODULE MCBatcher -----------------------------
(* Movements and trades of the ledger run; u64 is two bits wide. *)
EXTENDS Batcher

CONSTANTS alice, bob, eth, other

Move(kind, t, token, amount) == [kind |-> kind, trader |-> t, token |-> token, amount |-> amount]

\* Amounts that fit LedgerMax, and one that does not, and a token without a
\* symbol.
MCMovements ==
    {Move("Deposited", alice, eth, 3), Move("Withdrawn", alice, eth, 3),
     Move("Deposited", alice, eth, 4), Move("Deposited", bob, other, 1)}

\* Alice has 2 and is about to withdraw 1, Bob has 2.
MCSynced ==
    <<EscrowCreated(alice), EscrowCreated(bob), Move("Deposited", alice, eth, 2),
      Move("Deposited", bob, eth, 2), Move("Withdrawn", alice, eth, 1), NoEvent>>

Trade(maker, taker, price, amount, node) ==
    [maker |-> maker, taker |-> taker, symbol |-> eth, price |-> price, amount |-> amount,
     node |-> node]

\* Two that can be paid whatever happens; three of one node that race with the
\* withdrawal; two whose sum, and one whose value, does not fit.
Small == {Trade(bob, alice, 1, 1, 1), Trade(alice, bob, 1, 1, 2)}
Racing == {Trade(bob, alice, 1, 1, 1), Trade(bob, alice, 1, 2, 1), Trade(alice, bob, 2, 1, 1)}
Wide == {Trade(alice, bob, 1, 2, 1), Trade(bob, alice, 2, 1, 1), Trade(bob, alice, 2, 2, 2)}

MCTradeSets == {{}, Small, Racing, Wide}
=============================================================================
