---------------------------- MODULE MCSequencing ----------------------------
(* Three nodes, and the floods of the Sequencing run. *)
EXTENDS Sequencing, TLC

CONSTANTS a, b, c, x, y

Flood(node, order, hop, at) == [node |-> node, order |-> order, hop |-> hop, at |-> at]

\* a has applied both orders.  b has heard of x from a, and of y within the window;
\* c has heard of x, hears of y from a, which may have withheld it, and from b, a
\* window after x, and is sent y by a client.
MCArrived == {Flood(b, x, a, 1), Flood(b, y, a, 2), Flood(c, x, a, 1)}
MCWithheld == {Flood(c, y, a, 2)}
MCArrivals == MCArrived \union MCWithheld \union {Flood(c, y, b, 3)}

MCTieBreakKey == (<<x, a>> :> 2) @@ (<<y, a>> :> 1) @@ (<<y, b>> :> 0)
MCSubmissions == {<<c, y>>}
=============================================================================
