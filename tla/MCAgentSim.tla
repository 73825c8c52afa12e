---------------------------- MODULE MCAgentSim ------------------------------
(***************************************************************************)
(* Agents that trade with each other on the nodes of two regions, and on   *)
(* one region with more orders, while the noise stays below their prices;  *)
(* agents that trade with noise, with and without wallets on chain; and    *)
(* agents without noise on links slower than a step.  An agent only has    *)
(* something to sell if there was noise to buy from.                       *)
(***************************************************************************)
EXTENDS AgentSim

Interchangeable == Permutations(Agents)

Offer(side, price, amount) == [side |-> side, price |-> price, amount |-> amount]

Setup(regions, delay, noise, onchain, start, steps, orders) ==
    [regions |-> regions, delay |-> delay, noise |-> noise, onchain |-> onchain,
     start |-> start, steps |-> steps, orders |-> orders]

Fresh == [balance |-> 6, position |-> 0, average |-> 0]
Stocked == [balance |-> 6, position |-> 2, average |-> 1]

Below == {Offer("Buy", 1, 1)}
Crossing == {Offer("Buy", 3, 1), Offer("Sell", 2, 1)}

SmallSetups ==
    {Setup(<<"UsEast1", "UsEast1", "EuWest1">>, 2, Below, TRUE, Stocked, 4, 2),
     Setup(<<"UsEast1", "UsEast1">>, 2, Below, TRUE, Stocked, 2, 3),
     Setup(<<"UsEast1", "UsEast1">>, 3, {}, FALSE, Fresh, 3, 2)}
    \union {Setup(<<"UsEast1", "EuWest1">>, 2, Crossing, chain, Stocked, 2, 2) : chain \in BOOLEAN}

ThreePrices == 1..3

AgentOffers == {Offer("Buy", 3, 2), Offer("Sell", 2, 1), Offer("Sell", 3, 2)}
=============================================================================
