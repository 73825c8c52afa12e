----------------------------- MODULE AgentSim -------------------------------
(***************************************************************************)
(* crates/agent-sim: trading agents on a simulated mesh.  Every node keeps *)
(* its own copy of the book (OrderBook); an order enters at one node and   *)
(* is flooded to the others, one hop a step; the matches of a step are     *)
(* applied to the agents at once, or, when the seller has a wallet on      *)
(* chain, only if crates/trader-client commits them there: a match whose   *)
(* commit fails is taken back out of the books.                            *)
(*                                                                         *)
(* Before it serves, main gives every agent a wallet and an escrow.  Then  *)
(* a simulation is driven by two requests, post_action and post_step, each *)
(* under the one lock of the server, so each is one action.  Noise orders  *)
(* come from traders drawn afresh; their price and amount are drawn from a *)
(* small set.  What only reports (snapshots, price history) is left out.   *)
(***************************************************************************)
EXTENDS Integers, SequencesExt, FiniteSetsExt

CONSTANTS
    Setups,         \* the simulations considered
    Agents,
    Prices,
    Offers,         \* the orders agents place: side, price, amount
    StepDuration,   \* step_duration_ms
    MaxHops,        \* FloodSchedule::max_hops
    MaxCancels      \* bound: cancellations in one behaviour

VARIABLES
    started,        \* main: at its "node" or "wallets", "serving", or "exited"
    simNode,        \* the settlement node in the registry: "unknown", "active", "inactive"
    wallet,         \* agent -> "none", "funded", "escrow", "ready" (in onchain_agents)
    setup,          \* fixed by the start: the regions of the nodes, the latency
                    \* of a link, what inject_noise draws from (nothing, if its
                    \* amplitude is 0), whether there are wallets, what an agent
                    \* has after earlier steps, and the bounds on steps and orders
    step,           \* step_number; virtual_time is StepDuration times it
    pending,        \* per node: pending_messages
    cache,          \* per node: received_cache
    bids, asks,     \* per node: its orderbook
    agents,         \* AgentTracker
    registry,       \* order_registry, by order
    placed,         \* every order made, as it was made; its place is its id
    origin,         \* the step in which each was made
    trades,         \* the matches applied, with their node
    rejected,       \* the matches taken back, with their node
    cancelled,      \* the orders cancel_order took out, asked by any agent
    recalled        \* those of them that had reached every node by then

bootVars == <<started, simNode, wallet>>
simVars == <<step, pending, cache, registry, placed, origin>>
vars == <<bootVars, setup, simVars, bids, asks, agents, trades, rejected, cancelled, recalled>>

Nodes == DOMAIN setup.regions

\* The books match as crates/engine does, with the one settlement node that
\* bootstrap_onchain registers.
Engine(n) == INSTANCE OrderBook WITH
    MaxPrice <- 1000000, MaxNotional <- 1000000, NodeLists <- {}, Unassigned <- 0,
    MaxOrders <- 0, MaxChanges <- 0, bids <- bids[n], asks <- asks[n],
    activeNodes <- <<1>>, nextNode <- 0, placed <- <<>>, cancelled <- {}, matches <- <<>>, since <- 0, changes <- 0

-----------------------------------------------------------------------------
\* The node a region talks to the others through.
Bridge(regions, n) ==
    IF regions[n] = "UsEast1" THEN n = 1
    ELSE /\ regions[n] \in {"EuWest1", "ApSoutheast1"}
         /\ \A k \in 1..(n - 1) : regions[k] # regions[n]

\* downstream_peers: the whole region, and the other bridges for a bridge.
Downstream(regions, n) ==
    {p \in DOMAIN regions \ {n} :
        \/ regions[p] = regions[n]
        \/ Bridge(regions, n) /\ Bridge(regions, p)}

NewAgent == [balance |-> setup.start.balance, position |-> setup.start.position,
             average |-> setup.start.average, open |-> {}, pnl |-> 0, trades |-> 0]

EmptySide == [p \in Prices |-> <<>>]

\* The agents are registered.  Only main puts them on chain: a simulation the
\* library runs by itself has no wallets.
Init ==
    /\ setup \in Setups
    /\ started = IF setup.onchain THEN "node" ELSE "serving"
    /\ simNode \in IF setup.onchain THEN {"unknown", "active", "inactive"} ELSE {"unknown"}
    /\ wallet = [a \in Agents |-> "none"]
    /\ step = 0
    /\ pending = [n \in Nodes |-> <<>>]
    /\ cache = [n \in Nodes |-> {}]
    /\ bids = [n \in Nodes |-> EmptySide]
    /\ asks = [n \in Nodes |-> EmptySide]
    /\ agents = [a \in Agents |-> NewAgent]
    /\ registry = {} /\ placed = <<>> /\ origin = <<>>
    /\ trades = <<>> /\ rejected = <<>> /\ cancelled = {} /\ recalled = {}

-----------------------------------------------------------------------------
Goes(a, from, to) ==
    /\ started = "wallets" /\ wallet[a] = from
    /\ wallet' = [wallet EXCEPT ![a] = to]
    /\ UNCHANGED <<started, simNode>>

\* register_settlement_node, unless it is active from an earlier run.  A node
\* that has become inactive cannot be registered again.
RegisterSettlementNode ==
    /\ started = "node"
    /\ \/ simNode # "inactive" /\ simNode' = "active" /\ started' = "wallets"
       \/ simNode = "inactive" /\ started' = "exited" /\ UNCHANGED simNode
    /\ UNCHANGED wallet

\* One agent after the other gets a new key, ether for it, ...
FundAddress(a) ==
    /\ \A b \in Agents : wallet[b] \in {"none", "ready"}
    /\ Goes(a, "none", "funded")

\* ... an escrow bound to the pubkey the agent trades under, ...
EnsureEscrow(a) == Goes(a, "funded", "escrow")

\* ... and a deposit in it.
DepositNative(a) == Goes(a, "escrow", "ready")

\* A request to the chain fails, and main refuses to start.
BootstrapFails ==
    /\ started \in {"node", "wallets"}
    /\ started' = "exited" /\ UNCHANGED <<simNode, wallet>>

AllWallets == \A a \in Agents : wallet[a] = "ready"

StartServer ==
    /\ started = "wallets" /\ AllWallets
    /\ started' = "serving" /\ UNCHANGED <<simNode, wallet>>

Bootstrap ==
    /\ \/ RegisterSettlementNode
       \/ \E a \in Agents : FundAddress(a) \/ EnsureEscrow(a) \/ DepositNative(a)
       \/ BootstrapFails
       \/ StartServer
    /\ UNCHANGED <<setup, simVars, bids, asks, agents, trades, rejected, cancelled, recalled>>

-----------------------------------------------------------------------------
Time == step * StepDuration

Order(id, trader, offer) ==
    [id |-> id, trader |-> trader, side |-> offer.side, price |-> offer.price,
     amount |-> offer.amount, tier |-> "Standard", requester |-> "Seller"]

Message(at, order, hops, path) == [at |-> at, order |-> order, hops |-> hops, path |-> path]

\* The balance or the position is checked, and not set aside.
Affords(a, offer) ==
    IF offer.side = "Buy" THEN offer.amount * offer.price <= agents[a].balance
    ELSE offer.amount <= agents[a].position

\* place_order: a node that does not exist is answered "success" too, and the
\* order is the agent's without ever being queued.
PlaceOrder(a, offer, n) ==
    LET o == Order(Len(placed) + 1, a, offer) IN
    /\ started = "serving"
    /\ Cardinality({id \in DOMAIN placed : placed[id].trader \in Agents}) < setup.orders
    /\ Affords(a, offer)
    /\ placed' = Append(placed, o)
    /\ origin' = Append(origin, step)
    /\ agents' = [agents EXCEPT ![a].open = @ \union {o.id}]
    /\ IF n \in Nodes
       THEN /\ registry' = registry \union {o.id}
            /\ pending' = [pending EXCEPT ![n] = Append(@, Message(Time, o, 0, {n}))]
       ELSE UNCHANGED <<registry, pending>>
    /\ UNCHANGED <<bootVars, setup, step, cache, bids, asks, trades, rejected, cancelled, recalled>>

Without(side, id) == [p \in Prices |-> SelectSeq(side[p], LAMBDA o : o.id # id)]

\* Slip: the node stops at the first book that holds the order.
OutOfOne(sides, id) ==
    LET holding == {n \in Nodes : sides[n] # Without(sides[n], id)}
    IN [n \in Nodes |-> IF n \in holding /\ n = Min(holding) THEN Without(sides[n], id)
                        ELSE sides[n]]

OutOfAll(sides, id) == [n \in Nodes |-> Without(sides[n], id)]

\* cancel_order, in the name of any agent, its own order or not: the order
\* leaves every book and the list of the agent named, if it is in it, and not
\* the messages still on their way.  Bound: noise orders are not cancelled.
CancelOrder(a, id) ==
    /\ started = "serving"
    /\ placed[id].trader \in Agents
    /\ id \notin cancelled /\ Cardinality(cancelled) < MaxCancels
    /\ bids' = OutOfAll(bids, id)
    /\ asks' = OutOfAll(asks, id)
    /\ agents' = [agents EXCEPT ![a].open = @ \ {id}]
    /\ cancelled' = cancelled \union {id}
    /\ recalled' = recalled \union {i \in {id} : \A n \in Nodes : i \in cache[n]}
    /\ UNCHANGED <<bootVars, setup, simVars, trades, rejected>>

-----------------------------------------------------------------------------
\* inject_noise: nothing, or one order or more at every node (bound: one).
NoiseRounds == IF setup.noise = {} THEN {<<>>} ELSE [Nodes -> setup.noise]

\* Every draw of a trader is another one.
NoiseTrader(id) == <<"noise", id>>

NoiseAt(noise, n, now) ==
    IF noise = <<>> THEN <<>>
    ELSE LET id == Len(placed) + n
         IN <<Message(now, Order(id, NoiseTrader(id), noise[n]), 0, {n})>>

\* What is on its way when a step begins is taken out of the queue whole,
\* and what has not arrived by then is not put back.
Arrived(queue, now) == SelectSeq(queue, LAMBDA m : m.at <= now)

SendOn(n, m, now) ==
    SetToSeq({<<p, Message(now + setup.delay, m.order, m.hops + 1, m.path \union {n})>> :
                 p \in Downstream(setup.regions, n) \ m.path})

\* One message at node n: on_receive, and add_order if it is to be sent on.
\* An order whose hops are spent is remembered and never reaches the book.
Handle(n, now, s, m) ==
    LET o == m.order
        known == [s EXCEPT !.cache = @ \union {o.id}]
        buys == o.side = "Buy"
        result == Engine(n)!Matched(o, IF buys THEN s.asks ELSE s.bids)
    IN IF o.id \in s.cache THEN s
       ELSE IF m.hops >= MaxHops THEN known
       ELSE [known EXCEPT
               !.bids = IF buys THEN Engine(n)!Rest(@, result.taker) ELSE result.side,
               !.asks = IF buys THEN result.side ELSE Engine(n)!Rest(@, result.taker),
               !.out = @ \o SendOn(n, m, now),
               !.matches = @ \o [i \in DOMAIN result.matches |->
                                   [node |-> n, of |-> result.matches[i]]]]

\* One node's part of propagate_and_match.
NodeStep(n, noise, now) ==
    FoldLeft(LAMBDA s, m : Handle(n, now, s, m),
             [cache |-> cache[n], bids |-> bids[n], asks |-> asks[n], out |-> <<>>, matches |-> <<>>],
             Arrived(pending[n] \o NoiseAt(noise, n, now), now))

-----------------------------------------------------------------------------
\* record_trade_buy: a balance that does not cover the cost goes to zero.
Bought(r, m, id) ==
    [r EXCEPT !.balance = Max({@ - m.amount * m.price, 0}),
              !.average = (r.position * r.average + m.amount * m.price) \div (r.position + m.amount),
              !.position = @ + m.amount, !.trades = @ + 1, !.open = @ \ {id}]

\* record_trade_sell
Sold(r, m, id) ==
    [r EXCEPT !.balance = @ + m.amount * m.price, !.position = Max({@ - m.amount, 0}),
              !.pnl = @ + m.amount * m.price - (IF r.position > 0 THEN m.amount * r.average ELSE 0),
              !.trades = @ + 1, !.open = @ \ {id}]

\* process_agent_match: the agent on either side of the match.
Credited(tracker, m, orders) ==
    [a \in Agents |->
        LET mine == {id \in {m.maker, m.taker} : orders[id].trader = a}
            id == CHOOSE i \in mine : TRUE
        IN IF mine = {} THEN tracker[a]
           ELSE IF m.terms.seller = a THEN Sold(tracker[a], m, id) ELSE Bought(tracker[a], m, id)]

\* Slip: what is put back of an order replaces what still rests of it.
ToppedTo(level, o, amount) ==
    SelectSeq(level, LAMBDA r : r.id # o.id) \o <<[o EXCEPT !.amount = amount]>>

\* restore_order_amount on the level of the order's own price: added to what
\* still rests of it, or put back behind the others.
ToppedUp(level, o, amount) ==
    IF \E i \in DOMAIN level : level[i].id = o.id
    THEN [i \in DOMAIN level |->
            IF level[i].id = o.id THEN [level[i] EXCEPT !.amount = @ + amount] ELSE level[i]]
    ELSE Append(level, [o EXCEPT !.amount = amount])

\* Only orders agents placed are in the registry: noise is not put back.
Restored(t, n, id, amount) ==
    LET o == placed'[id]
    IN IF id \notin registry THEN t
       ELSE IF o.side = "Buy"
       THEN [t EXCEPT !.bids[n][o.price] = ToppedUp(@, o, amount)]
       ELSE [t EXCEPT !.asks[n][o.price] = ToppedUp(@, o, amount)]

\* The seller pays the fee (every order here asks for it), so it is the
\* seller's wallet that has to commit.
NeedsCommit(m) == m.terms.feePayer \in Agents /\ wallet[m.terms.feePayer] = "ready"

\* build_trade_entry finds no escrow for a trader that is not an agent, and
\* the transaction may fail for one that is.
CommitMaySucceed(m, orders) == \A id \in {m.maker, m.taker} : orders[id].trader \in Agents

\* One match, at the end of the step; ok says whether the chain takes it.
Settle(t, entry, ok) ==
    LET m == entry.of IN
    IF ~NeedsCommit(m) \/ (ok /\ CommitMaySucceed(m, placed'))
    THEN [t EXCEPT !.agents = Credited(@, m, placed'), !.trades = Append(@, entry)]
    ELSE LET once == Restored(t, entry.node, m.maker, m.amount)
             twice == Restored(once, entry.node, m.taker, m.amount)
         IN [twice EXCEPT !.rejected = Append(@, entry)]

\* post_step: time moves on, noise is injected, every node handles what has
\* arrived, and then the matches of all nodes are settled in turn, the chain
\* taking some of those that have to be committed.
Step(noise) ==
    LET now == Time + StepDuration IN
    /\ started = "serving"
    /\ step < setup.steps
    /\ step' = step + 1
    /\ placed' = placed \o [n \in DOMAIN noise |-> NoiseAt(noise, n, now)[1].order]
    /\ origin' = origin \o [n \in DOMAIN noise |-> step]
    /\ \E nodes \in {[n \in Nodes |-> NodeStep(n, noise, now)]} :
         LET all == FlattenSeq([n \in Nodes |-> nodes[n].matches])
             out == FlattenSeq([n \in Nodes |-> nodes[n].out])
         IN
         /\ cache' = [n \in Nodes |-> nodes[n].cache]
         /\ pending' = [n \in Nodes |->
                          LET mine == SelectSeq(out, LAMBDA f : f[1] = n)
                          IN [i \in DOMAIN mine |-> mine[i][2]]]
         /\ \E taken \in SUBSET {i \in DOMAIN all : NeedsCommit(all[i].of)} :
            \E settled \in {FoldLeft(LAMBDA t, i : Settle(t, all[i], i \in taken),
                                      [bids |-> [n \in Nodes |-> nodes[n].bids],
                                       asks |-> [n \in Nodes |-> nodes[n].asks],
                                       agents |-> agents, trades |-> trades, rejected |-> rejected],
                                      [i \in DOMAIN all |-> i])} :
                /\ bids' = settled.bids
                /\ asks' = settled.asks
                /\ agents' = settled.agents
                /\ trades' = settled.trades
                /\ rejected' = settled.rejected
    /\ UNCHANGED <<bootVars, setup, registry, cancelled, recalled>>

Next ==
    \/ Bootstrap
    \/ \E a \in Agents, offer \in Offers, n \in Nodes \union {0} : PlaceOrder(a, offer, n)
    \/ \E a \in Agents, id \in DOMAIN placed : CancelOrder(a, id)
    \/ \E noise \in NoiseRounds : Step(noise)

Spec == Init /\ [][Next]_vars

-----------------------------------------------------------------------------
Book(n) == Engine(n)!Resting(bids[n]) \union Engine(n)!Resting(asks[n])

\* What of order id rests at node n.
RestingOf(n, id) == MapThenSumSet(LAMBDA o : o.amount, {o \in Book(n) : o.id = id})

\* What of order id has traded at node n, of the matches in list.
TradedAt(list, n, id) ==
    MapThenSumSet(LAMBDA i : list[i].of.amount,
                  {i \in DOMAIN list : list[i].node = n /\ id \in {list[i].of.maker, list[i].of.taker}})

\* The agents' accounts are what u64 and i64 hold and say how many trades
\* they had; a book holds orders it has seen, each once, with something left.
TypeOK ==
    /\ \A a \in Agents :
        /\ agents[a].balance \in Nat /\ agents[a].position \in Nat /\ agents[a].pnl \in Int
        /\ agents[a].trades =
             MapThenSumSet(LAMBDA i : Cardinality({id \in {trades[i].of.maker, trades[i].of.taker} :
                                                      placed[id].trader = a}),
                           DOMAIN trades)
    /\ \A n \in Nodes :
        /\ \A o \in Book(n) : o.id \in cache[n] /\ o.amount > 0
        /\ \A o, r \in Book(n) : o.id = r.id => o = r

\* An agent's order that reached a book is never lost or doubled there by a
\* rejected commit: what it asked for is what rests and what has traded, at
\* every node, whatever mix of its matches the chain took.  An order that is
\* not in the registry loses what the rejected matches took, and no more.
AmountsConserved ==
    \A n \in Nodes : \A id \in cache[n] \ cancelled :
        placed[id].amount = RestingOf(n, id) + TradedAt(trades, n, id)
                            + (IF id \in registry THEN 0 ELSE TradedAt(rejected, n, id))

\* An order an agent placed, that has not traded anywhere and was not
\* cancelled, is in the agent's own list, whatever matches of it were undone.
UntradedIsOpen ==
    \A id \in registry \ cancelled :
        (\A n \in Nodes : TradedAt(trades, n, id) = 0) => id \in agents[placed[id].trader].open

\* A book is crossed only by orders a rejected commit put back.
CrossedByRejection ==
    \A n \in Nodes :
        \A b \in Engine(n)!Resting(bids[n]), s \in Engine(n)!Resting(asks[n]) :
            b.price >= s.price /\ b.trader # s.trader =>
                TradedAt(rejected, n, b.id) + TradedAt(rejected, n, s.id) > 0

\* While a step is longer than the latency of a link, an order queued at a
\* node is at every node within as many steps as there are hops: three, from
\* a node to its bridge, to the other bridge, and on.
ReachesAllNodes ==
    setup.delay <= StepDuration =>
        \A id \in DOMAIN placed : \A n \in Nodes :
            (id \in registry \/ placed[id].trader \notin Agents) /\ step >= origin[id] + 4 =>
                id \in cache[n]

\* A cancelled order that had reached every node trades no more, not even when
\* a later step undoes matches of others.
CancelledTradesNoMore ==
    [][\A id \in recalled, n \in Nodes : TradedAt(trades', n, id) = TradedAt(trades, n, id)]_vars

\* On chain, no order is taken before every agent can commit, and no agent is
\* credited for a sale that was not committed: a sale that could not be, because
\* the buyer has no escrow and no deposit from bootstrap, counts for neither side.
\* (What an agent buys from noise is not asked of the chain, and counts.)
TradesCommitted ==
    setup.onchain =>
        /\ placed # <<>> => simNode = "active" /\ AllWallets
        /\ \A i \in DOMAIN trades :
             trades[i].of.terms.seller \in Agents =>
                 \A id \in {trades[i].of.maker, trades[i].of.taker} :
                     placed[id].trader \in Agents /\ wallet[placed[id].trader] = "ready"

\* The replicas' books are sound whatever commits were rejected: amounts are kept,
\* an untraded order is open, orders reach all nodes, and what crosses is what was
\* put back; and what an agent has sold was committed (propagate_and_match,
\* restore_match_liquidity, bootstrap).
BooksSound ==
    /\ TypeOK /\ AmountsConserved /\ UntradedIsOpen /\ CrossedByRejection /\ ReachesAllNodes
    /\ TradesCommitted
=============================================================================
