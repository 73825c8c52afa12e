----------------------------- MODULE MCOrderBook ----------------------------
(* Orders and node lists of the OrderBook run. *)
EXTENDS OrderBook

CONSTANTS alice, bob, carol, n1, n2, n3

\* Bob asks for express settlement and lets the buyer decide when selling.
Offer(trader, side, price, amount) ==
    [id |-> 0, trader |-> trader, side |-> side, price |-> price, amount |-> amount,
     tier |-> IF trader = bob THEN "Express" ELSE "Standard",
     requester |-> IF trader = bob THEN "Buyer" ELSE "Seller"]

\* Two makers and a taker on both sides, and an order over the notional limit.
MCOffers ==
    {Offer(alice, "Sell", p, 2) : p \in {1, 2}}
    \union {Offer(bob, "Sell", p, 1) : p \in {1, 2}}
    \union {Offer(alice, "Buy", 2, 1), Offer(bob, "Buy", 1, 1), Offer(bob, "Buy", 2, 3),
            Offer(carol, "Buy", 2, 4), Offer(carol, "Sell", 1, 3), Offer(carol, "Buy", 2, 5)}

MCNodeLists == {<<n1, n2, n3>>, <<n2, n1>>, <<>>}
=============================================================================
