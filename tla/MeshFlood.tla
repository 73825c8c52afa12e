----------------------------- MODULE MeshFlood ------------------------------
(***************************************************************************)
(* How an order spreads over the mesh, and the echo probes that look for   *)
(* nodes that keep orders back: DeterministicFlood of crates/protocol and  *)
(* the flood and echo branches of MeshNode::run, on all nodes.  All nodes  *)
(* follow the code.                                                        *)
(*                                                                         *)
(* A flood arrives never, once or more often, in any order, so floods is   *)
(* the set of all floods ever sent.  An echo message is handled once.      *)
(* What a relay's standing gains and loses by it is Reputation's.          *)
(***************************************************************************)
EXTENDS SeqFolds

CONSTANTS
    MeshNodes,
    PeersOf,        \* node -> the peers it is configured with
    Orders,         \* [trader, nonce, source]; the source floods the order
    HopLimits,      \* the values of max_hops looked at
    FlagThreshold,  \* CENSORSHIP_FLAG_THRESHOLD
    MaxLate,        \* bound: floods that are early or late for the receiver's clock
    MaxProbes       \* bound: echo probes

\* What is asked of a configuration.  Peers need not know each other.
Configured ==
    /\ IsFiniteSet(MeshNodes) /\ PeersOf \in [MeshNodes -> SUBSET MeshNodes]
    /\ \A o \in Orders : o.source \in MeshNodes /\ o.nonce \in Nat
    /\ HopLimits \subseteq Nat
    /\ FlagThreshold \in Nat \ {0}
    /\ MaxLate \in Nat /\ MaxProbes \in Nat

VARIABLES
    maxHops,
    cache,          \* node -> received_cache
    lastNonce,      \* node -> trader -> the nonce its validator saw last
    floods,         \* floods sent: [to, from, order, hops, path]
    tracked,        \* node -> orders it forwarded, recent_orders
    echoes,         \* echo messages in the network: [kind, to, from, orders]
    echoFlags,          \* <<node, peer>> -> echoFlags within the window
    reports,        \* <<reporter, subject>> of the misconduct reports
    late,           \* early and late floods so far
    probes          \* echo probes so far

floodVars == <<cache, lastNonce, floods, tracked, late>>
echoVars == <<echoes, echoFlags, reports, probes>>
meshFloodVars == <<maxHops, floodVars, echoVars>>

Traders == {o.trader : o \in Orders}

\* Earlier orders have left echoFlags behind, one short of a report.
FloodInit ==
    /\ maxHops \in HopLimits
    /\ cache = [n \in MeshNodes |-> {}]
    /\ lastNonce = [n \in MeshNodes |-> [t \in Traders |-> 0]]
    /\ floods = {} /\ late = 0
    /\ tracked = [n \in MeshNodes |-> {}]
    /\ echoes = {} /\ reports = {} /\ probes = 0
    /\ echoFlags = [p \in MeshNodes \X MeshNodes |-> FlagThreshold - 1]

-----------------------------------------------------------------------------
\* validate_order, as far as it depends on what came before: the signature, the
\* amounts and the expiry of an order are in order.
Valid(n, o) == lastNonce[n][o.trader] < o.nonce

\* Slip: an order may go back to where it came from.
ForwardsToAll(n, msg) ==
    {[to |-> p, from |-> n, order |-> msg.order, hops |-> msg.hops + 1, path |-> Append(msg.path, n)] :
        p \in PeersOf[n]}

\* Slip: a node forwards its own orders only.
ForwardsOwn(n, msg) ==
    {[to |-> p, from |-> n, order |-> msg.order, hops |-> msg.hops + 1, path |-> Append(msg.path, n)] :
        p \in IF msg.from = n THEN PeersOf[n] ELSE {}}

\* The copies for the peers that the order has not been to.
Forwards(n, msg) ==
    {[to |-> p, from |-> n, order |-> msg.order, hops |-> msg.hops + 1, path |-> Append(msg.path, n)] :
        p \in PeersOf[n] \ (ToSet(msg.path) \union {n})}

Spent(msg) == msg.hops >= maxHops

\* on_receive and the branch of run() around it.  The validator has taken the
\* order's nonce when the timestamp is looked at.
OnReceive(n, msg, onTime) ==
    LET o == msg.order
    IN \/ /\ o \in cache[n] \/ ~Valid(n, o)
          /\ UNCHANGED <<cache, lastNonce, floods, tracked>>
       \/ /\ o \notin cache[n] /\ Valid(n, o)
          /\ lastNonce' = [lastNonce EXCEPT ![n][o.trader] = o.nonce]
          /\ \/ ~onTime /\ UNCHANGED <<cache, floods, tracked>>
             \/ /\ onTime
                /\ cache' = [cache EXCEPT ![n] = @ \union {o}]
                /\ \/ Spent(msg) /\ UNCHANGED <<floods, tracked>>
                   \/ /\ ~Spent(msg)
                      /\ floods' = floods \union Forwards(n, msg)
                      /\ tracked' = [tracked EXCEPT ![n] =
                           IF Forwards(n, msg) = {} THEN @ ELSE @ \union {o}]

\* The API node injects an order it has applied, as if it had come from itself.
Inject(o) ==
    /\ o \notin cache[o.source]
    /\ OnReceive(o.source, [from |-> o.source, order |-> o, hops |-> 0, path |-> <<o.source>>], TRUE)
    /\ UNCHANGED <<maxHops, late, echoVars>>

\* A flood arrives in time, ...
Receive(msg) == OnReceive(msg.to, msg, TRUE) /\ UNCHANGED <<maxHops, late, echoVars>>

\* ... or not.
ReceiveLate(msg) ==
    /\ late < MaxLate /\ late' = late + 1
    /\ OnReceive(msg.to, msg, FALSE)
    /\ UNCHANGED <<maxHops, echoVars>>

-----------------------------------------------------------------------------
Echo(kind, to, from, orders) == [kind |-> kind, to |-> to, from |-> from, orders |-> orders]

\* The echo tick: a node asks its peers about an order it forwarded.
EchoTick(n) ==
    /\ probes < MaxProbes /\ probes' = probes + 1
    /\ \E o \in tracked[n] :
         echoes' = echoes \union {Echo("request", p, n, {o}) : p \in PeersOf[n]}
    /\ UNCHANGED <<maxHops, floodVars, echoFlags, reports>>

\* An answer to the echo of the given orders: what is present of them; and a flag
\* against the sender for what is missing, and a report at the threshold.  The
\* older echoFlags are in the window or outside it.
AnswerEcho(m, orders) ==
    LET n == m.to
        pair == <<m.to, m.from>>
        present == orders \intersect cache[n]
    IN /\ echoes' = (echoes \ {m}) \union {Echo("response", m.from, n, present)}
       /\ \/ orders \subseteq cache[n] /\ UNCHANGED <<echoFlags, reports>>
          \/ /\ ~(orders \subseteq cache[n])
             /\ \E kept \in {0, echoFlags[pair]} :
                  /\ echoFlags' = [echoFlags EXCEPT ![pair] = Min({kept + 1, FlagThreshold})]
                  /\ reports' = IF kept + 1 >= FlagThreshold THEN reports \union {pair} ELSE reports
       /\ UNCHANGED <<maxHops, floodVars, probes>>

\* A request is answered.  A response with nothing present is passed on to the same
\* branch as an echo of no orders, and is answered too.
ReceiveEcho(m) ==
    \/ m.kind = "request" /\ AnswerEcho(m, m.orders)
    \/ m.kind = "response" /\ m.orders = {} /\ AnswerEcho(m, {})
    \/ /\ m.kind = "response" /\ m.orders # {}
       /\ echoes' = echoes \ {m}
       /\ UNCHANGED <<maxHops, floodVars, echoFlags, reports, probes>>

-----------------------------------------------------------------------------
FloodNext ==
    \/ \E o \in Orders : Inject(o)
    \/ \E msg \in floods : Receive(msg) \/ ReceiveLate(msg)
    \/ \E n \in MeshNodes : EchoTick(n)
    \/ \E m \in echoes : ReceiveEcho(m)

FloodSpec == FloodInit /\ [][FloodNext]_meshFloodVars

-----------------------------------------------------------------------------
FloodTypeOK ==
    /\ maxHops \in HopLimits
    /\ cache \in [MeshNodes -> SUBSET Orders] /\ tracked \in [MeshNodes -> SUBSET Orders]
    /\ lastNonce \in [MeshNodes -> [Traders -> {0} \union {o.nonce : o \in Orders}]]
    /\ \A m \in floods :
         /\ m.from \in MeshNodes /\ m.to \in PeersOf[m.from]
         /\ m.order \in Orders /\ m.hops \in 0..maxHops
    /\ \A m \in echoes : m.kind \in {"request", "response"} /\ {m.to, m.from} \subseteq MeshNodes
    /\ echoFlags \in [MeshNodes \X MeshNodes -> 0..FlagThreshold] /\ reports \subseteq MeshNodes \X MeshNodes
    /\ late \in 0..MaxLate /\ probes \in 0..MaxProbes

\* A node sends an order at most once to a peer, and only to one that was not on
\* the order's way: floods do not circle, however often packets arrive.
SentOnce ==
    /\ \A m \in floods : m.to \notin ToSet(m.path)
    /\ \A m1, m2 \in floods :
         m1.from = m2.from /\ m1.to = m2.to /\ m1.order = m2.order => m1 = m2

\* The hops that are checked against the limit are the way the order came, from its
\* source and along nodes that all took it.
WithinHops ==
    \A m \in floods :
        /\ Len(m.path) = m.hops + 1
        /\ m.path[1] = m.order.source
        /\ \A i \in DOMAIN m.path : m.order \in cache[m.path[i]]

\* Floods stay on their ways: no copy is sent twice, or back, or beyond the limit
\* (on_receive).
FloodsSound == FloodTypeOK /\ SentOnce /\ WithinHops

\* A node that knows a trader's order never takes an older one, on whatever path
\* and however late it comes: a trader's nonces only go up.
TakesOnlyNewer ==
    \A n \in MeshNodes : \A o \in cache[n]' \ cache[n] : \A p \in cache[n] :
        p.trader = o.trader => p.nonce < o.nonce

Newest(o) == \A q \in Orders \ {o} : q.trader = o.trader => q.nonce < o.nonce

\* A trader's newest order gets past no node that knows it: each of the node's
\* peers knows it too, or was sent a copy that it takes whenever the copy comes,
\* or has had a copy that was out of time and will take no other.  No race of
\* other orders or other copies, and no hop limit as large as the mesh, keeps it
\* back.  (An order overtaken by a newer one may be refused, and a packet that is
\* lost is not sent again.)
NewestOnItsWay ==
    \A o \in Orders : Newest(o) /\ maxHops >= Cardinality(MeshNodes) =>
        \A n \in MeshNodes : o \in cache[n] =>
            \A p \in PeersOf[n] :
                \/ o \in cache[p]
                \/ Valid(p, o) /\ \E m \in floods : m.from = n /\ m.to = p /\ m.order = o
                \/ ~Valid(p, o) /\ late > 0

\* Nodes only go forward to a trader's newer orders, and pass the newest on
\* (on_receive, validate_order).
FloodsDeliver == [][TakesOnlyNewer /\ NewestOnItsWay']_meshFloodVars
=============================================================================
