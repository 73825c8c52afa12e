----------------------------- MODULE OrderBook ------------------------------
(***************************************************************************)
(* crates/engine: the limit order book of one symbol, matched by price,    *)
(* then arrival, never against the same trader, with the settlement node   *)
(* of each match taken round-robin from the configured nodes.              *)
(*                                                                         *)
(* bids and asks map every price to its orders, oldest first; a price the  *)
(* BTreeMap does not hold, or holds with no order, maps to <<>>.  Orders   *)
(* are numbered as they come, which gives them distinct ids.  A match's    *)
(* fee and deadline follow from its tier and timestamp and are left out,   *)
(* as is node_rewards, a total that decides nothing.                       *)
(***************************************************************************)
EXTENDS Integers, SequencesExt, FiniteSetsExt

CONSTANTS
    Prices,         \* the prices of the orders considered
    MaxPrice,       \* 1_000_000_000_000
    MaxNotional,    \* u64::MAX
    Offers,         \* the orders considered, without their id
    NodeLists,      \* the active-node lists considered
    Unassigned,     \* the zero pubkey
    MaxOrders,      \* bound: orders in one behaviour
    MaxChanges      \* bound: new node lists and restarts in one behaviour

ASSUME PricesAssumption == Prices \subseteq Nat
ASSUME MaxOrdersAssumption == MaxOrders \in Nat

VARIABLES
    bids,
    asks,
    activeNodes,    \* active_nodes
    nextNode,       \* next_node_index
    placed,         \* every order sent, as it was sent
    matches,        \* every match produced
    cancelled,      \* the orders cancel_order removed, as they were then
    since,          \* matches made before the node list last changed
    changes

bookVars == <<bids, asks>>
nodeVars == <<activeNodes, nextNode>>
vars == <<bookVars, nodeVars, placed, matches, cancelled, since, changes>>

Init ==
    /\ bids = [p \in Prices |-> <<>>]
    /\ asks = [p \in Prices |-> <<>>]
    /\ activeNodes \in NodeLists
    /\ nextNode = 0
    /\ placed = <<>> /\ matches = <<>> /\ cancelled = {}
    /\ since = 0 /\ changes = 0

-----------------------------------------------------------------------------
\* The early returns of add_order_at.
Admissible(o) ==
    /\ o.amount > 0
    /\ o.price > 0
    /\ o.price <= MaxPrice
    /\ o.amount * o.price <= MaxNotional

\* Slip: sells walk the bids from the lowest price up.
LadderUpwards(o) ==
    SetToSortSeq({p \in Prices : IF o.side = "Buy" THEN p <= o.price ELSE p >= o.price}, <)

\* The prices an order may trade at, best first.
Ladder(o) ==
    IF o.side = "Buy"
    THEN SetToSortSeq({p \in Prices : p <= o.price}, <)
    ELSE SetToSortSeq({p \in Prices : p >= o.price}, >)

AssignNode(cursor) ==
    IF activeNodes = <<>> THEN Unassigned
    ELSE activeNodes[(cursor % Len(activeNodes)) + 1]

\* Slip: the cursor does not move.
CursorStays(cursor) == cursor

NextCursor(cursor) ==
    IF activeNodes = <<>> THEN cursor ELSE (cursor + 1) % Len(activeNodes)

\* resolve_settlement_params: the sell order says who asks for the tier.
ResolveSettlementParams(taker, maker) ==
    LET sell == IF taker.side = "Sell" THEN taker ELSE maker
        buy == IF taker.side = "Buy" THEN taker ELSE maker
        payer == IF sell.requester = "Buyer" THEN buy ELSE sell
    IN [tier |-> payer.tier, seller |-> sell.trader, feePayer |-> payer.trader]

MayFill(acc, maker) == acc.taker.amount > 0 /\ maker.trader # acc.taker.trader

\* Slip: the maker keeps what it sold.
MakerUnreduced(maker, amount) == maker

MakerReduced(maker, amount) == [maker EXCEPT !.amount = @ - amount]

\* One maker order: passed over, or traded with and kept if some is left.
Visit(acc, maker) ==
    LET amount == Min({acc.taker.amount, maker.amount})
        rest == MakerReduced(maker, amount)
    IN IF ~MayFill(acc, maker) THEN [acc EXCEPT !.level = Append(@, maker)]
       ELSE [taker |-> [acc.taker EXCEPT !.amount = @ - amount],
             cursor |-> NextCursor(acc.cursor),
             level |-> IF rest.amount = 0 THEN acc.level ELSE Append(acc.level, rest),
             side |-> acc.side,
             matches |-> Append(acc.matches,
                [maker |-> maker.id, taker |-> acc.taker.id, price |-> maker.price,
                 amount |-> amount, node |-> AssignNode(acc.cursor),
                 terms |-> ResolveSettlementParams(acc.taker, maker)])]

\* One price level of the opposite side.
WalkLevel(acc, p) ==
    LET walked == FoldLeft(Visit, [acc EXCEPT !.level = <<>>], acc.side[p])
    IN [walked EXCEPT !.side[p] = walked.level]

\* What add_order_at does with an order against the opposite side of the book.
Matched(o, side) ==
    FoldLeft(WalkLevel,
             [taker |-> o, cursor |-> nextNode, level |-> <<>>, side |-> side,
              matches |-> <<>>],
             Ladder(o))

\* The order that is left rests behind those of its price.
Rest(side, o) == IF o.amount > 0 THEN [side EXCEPT ![o.price] = Append(@, o)] ELSE side

AddOrderAt(offer) ==
    LET o == [offer EXCEPT !.id = Len(placed) + 1]
        result == Matched(o, IF o.side = "Buy" THEN asks ELSE bids)
    IN
    /\ Len(placed) < MaxOrders
    /\ placed' = Append(placed, o)
    /\ IF Admissible(o)
       THEN /\ bids' = IF o.side = "Buy" THEN Rest(bids, result.taker) ELSE result.side
            /\ asks' = IF o.side = "Buy" THEN result.side ELSE Rest(asks, result.taker)
            /\ nextNode' = result.cursor
            /\ matches' = matches \o result.matches
       ELSE UNCHANGED <<bookVars, nextNode, matches>>
    /\ UNCHANGED <<activeNodes, cancelled, since, changes>>

-----------------------------------------------------------------------------
Resting(side) == UNION {ToSet(side[p]) : p \in Prices}

Without(side, o) == [p \in Prices |-> SelectSeq(side[p], LAMBDA r : r # o)]

CancelOrder(o) ==
    /\ o \in Resting(bids) \union Resting(asks)
    /\ bids' = Without(bids, o)
    /\ asks' = Without(asks, o)
    /\ cancelled' = cancelled \union {o}
    /\ UNCHANGED <<nodeVars, placed, matches, since, changes>>

SetActiveNodes(nodes) ==
    /\ changes < MaxChanges
    /\ changes' = changes + 1
    /\ activeNodes' = nodes
    /\ nextNode' = 0
    /\ since' = Len(matches)
    /\ UNCHANGED <<bookVars, placed, matches, cancelled>>

\* A restart with a snapshot of the book: the list is configured afresh, and
\* restore_active_nodes_cursor then puts the cursor back where it was.
Restore(nodes) ==
    /\ changes < MaxChanges
    /\ changes' = changes + 1
    /\ activeNodes' = nodes
    /\ since' = IF nodes = activeNodes THEN since ELSE Len(matches)
    /\ UNCHANGED <<bookVars, nextNode, placed, matches, cancelled>>

Next ==
    \/ \E offer \in Offers : AddOrderAt(offer)
    \/ \E o \in Resting(bids) \union Resting(asks) : CancelOrder(o)
    \/ \E nodes \in NodeLists : SetActiveNodes(nodes) \/ Restore(nodes)

Spec == Init /\ [][Next]_vars

-----------------------------------------------------------------------------
\* The book holds orders that still want something, each at its own price,
\* oldest first, and on its own side.
TypeOK ==
    \A p \in Prices :
        /\ \A i \in DOMAIN bids[p] : bids[p][i].side = "Buy"
        /\ \A i \in DOMAIN asks[p] : asks[p][i].side = "Sell"
        /\ \A level \in {bids[p], asks[p]} : \A i \in DOMAIN level :
              /\ level[i].price = p
              /\ level[i].amount > 0
              /\ \A j \in 1..(i - 1) : level[j].id < level[i].id

\* A bid and an ask that could trade rest together only if they are the same
\* trader's: add_order_at passes over one's own orders and stops at nothing else.
NotCrossed ==
    \A b \in Resting(bids), a \in Resting(asks) : b.price >= a.price => b.trader = a.trader

AmountOf(S) == MapThenSumSet(LAMBDA o : o.amount, S)

Traded(id) ==
    MapThenSumSet(LAMBDA i : matches[i].amount,
                  {i \in DOMAIN matches : id \in {matches[i].maker, matches[i].taker}})

\* Nothing is traded out of thin air or lost: what an order asked for is what
\* it traded, what still rests and what was cancelled, over all its fills.
Conserved ==
    \A id \in DOMAIN placed :
        LET left == {o \in Resting(bids) \union Resting(asks) \union cancelled : o.id = id}
        IN Admissible(placed[id]) => placed[id].amount = Traded(id) + AmountOf(left)

\* r was to be served before m, an order of the same side.
Outranks(r, m) ==
    \/ IF m.side = "Sell" THEN r.price < m.price ELSE r.price > m.price
    \/ r.price = m.price /\ r.id < m.id

\* Price-time priority: when a taker trades with an order, no order of another
\* trader that was to be served first is left with anything unfilled.
Prioritised ==
    \A i \in (Len(matches) + 1)..Len(matches') :
        LET taker == placed'[matches'[i].taker]
            maker == placed'[matches'[i].maker]
            rivals == Resting(IF maker.side = "Buy" THEN bids' ELSE asks')
        IN \A r \in rivals : r.trader # taker.trader => ~Outranks(r, maker)
PriceTimePriority == [][Prioritised]_vars

\* A match is within both limits and at the maker's price; the one who pays
\* the fee is the one whose tier the match is given, and the sell order says
\* which of the two that is.
TermsAgreed ==
    \A i \in DOMAIN matches :
        LET m == matches[i]
            pair == {placed[m.maker], placed[m.taker]}
            sell == CHOOSE o \in pair : o.side = "Sell"
            buy == CHOOSE o \in pair : o.side = "Buy"
        IN /\ sell.price <= m.price /\ m.price <= buy.price
           /\ m.price = placed[m.maker].price
           /\ m.terms.seller = sell.trader /\ sell.trader # buy.trader
           /\ LET payer == IF sell.requester = "Seller" THEN sell ELSE buy
              IN m.terms.feePayer = payer.trader /\ m.terms.tier = payer.tier

\* Every configured node gets its turn: since the list last changed, no two
\* nodes differ by more than one match, across orders that produce several
\* and restarts that restore the cursor.
FairAssignment ==
    LET turns(n) == Cardinality({i \in (since + 1)..Len(matches) : matches[i].node = n})
    IN \A m, n \in ToSet(activeNodes) : turns(m) <= turns(n) + 1

\* After every operation the book is sound: no two orders of different traders
\* cross, every order's amount is what rests and what has traded, and every match
\* has the tier and fee payer that the two orders settled on (add_order_at,
\* cancel_order).
BookSound == TypeOK /\ NotCrossed /\ Conserved /\ TermsAgreed
=============================================================================
