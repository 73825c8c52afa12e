------------------------ MODULE MCSettlementFactory -------------------------
(* The calldata of the SettlementFactory runs. *)
EXTENDS SettlementFactory, TLC

CONSTANTS alice, bob, tok, h1, h2, n1

Entry(trader, counterparty, amount, fee, deadline, hash) ==
    [trader |-> trader, counterparty |-> counterparty, token |-> tok, amount |-> amount,
     fee |-> fee, deadline |-> deadline, tradeHash |-> hash, assignedNode |-> n1]

\* Alice owes Bob on h1 and h2 with different deadlines; the third entry
\* names h1 again, with another fee and another deadline.
MCTradeEntries ==
    { Entry(alice, bob, 1, 1, 2, h1), Entry(alice, bob, 1, 0, 3, h2),
      Entry(alice, bob, 1, 0, 3, h1) }
=============================================================================
