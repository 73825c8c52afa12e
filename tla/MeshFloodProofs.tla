-------------------------- MODULE MeshFloodProofs ---------------------------
(***************************************************************************)
(* What flooding keeps, for every topology, every set of orders and every  *)
(* hop limit: no copy of an order is sent twice or back along its way, the *)
(* hops counted are that way, a trader's nonces only go up at a node, and  *)
(* the trader's newest order gets past no node.                            *)
(*                                                                         *)
(* FloodsSound is not inductive.  That a node sends an order once rests on *)
(* its having cached the order before it sent the first copy, which        *)
(* FloodInv has from the last node of the way being the sender; that       *)
(* nonces go up rests on the validator's nonce being at least that of      *)
(* every order the node has taken.  That the newest order is passed on     *)
(* rests on ways without a node twice being no longer than the mesh        *)
(* (WaysSimple), and on a newest nonce being seen only with its order or   *)
(* out of time (SeenIsTaken).                                              *)
(***************************************************************************)
EXTENDS MeshFlood, FiniteSetTheorems, TLAPS

\* The sender of a copy is the last node on its way.
WaysEndAtSender ==
    \A m \in floods : m.path \in Seq(MeshNodes) /\ m.path[Len(m.path)] = m.from

\* The validator has seen every order that its node took.
NoncesSeen ==
    \A n \in MeshNodes : \A o \in cache[n] : o.nonce <= lastNonce[n][o.trader]

FloodInv == FloodsSound /\ WaysEndAtSender /\ NoncesSeen

\* A copy that is not beyond what the nodes on its way know, n on it or not.
OnItsWay(n, msg) ==
    /\ msg.order \in Orders /\ msg.hops \in Nat
    /\ msg.path \in Seq(MeshNodes) /\ Len(msg.path) = msg.hops + 1
    /\ msg.path[1] = msg.order.source
    /\ \A i \in DOMAIN msg.path : msg.path[i] = n \/ msg.order \in cache[msg.path[i]]

\* FloodInv with the ways it rests on as one fact about each copy.
LEMMA CopiesOnTheirWay ==
    ASSUME Configured, FloodInv, NEW m \in floods
    PROVE  /\ m.from \in MeshNodes /\ m.to \in MeshNodes /\ m.order \in cache[m.from]
           /\ OnItsWay(m.to, m)
<1>1. /\ m.from \in MeshNodes /\ m.to \in PeersOf[m.from] /\ m.order \in Orders
      /\ m.hops \in 0..maxHops /\ maxHops \in Nat
    BY DEF FloodInv, FloodsSound, FloodTypeOK, Configured
<1>2. m.to \in MeshNodes
    BY <1>1 DEF Configured
<1>3. m.hops \in Nat
    BY <1>1
<1>4. /\ m.path \in Seq(MeshNodes) /\ m.path[Len(m.path)] = m.from
      /\ Len(m.path) = m.hops + 1 /\ m.path[1] = m.order.source
      /\ \A i \in DOMAIN m.path : m.order \in cache[m.path[i]]
    BY DEF FloodInv, FloodsSound, WaysEndAtSender, WithinHops
<1>5. Len(m.path) \in DOMAIN m.path
    BY <1>3, <1>4
<1> QED
    BY <1>1, <1>2, <1>3, <1>4, <1>5 DEF OnItsWay

\* The initial state.
LEMMA InitFlood == Configured /\ FloodInit => FloodInv
<1> SUFFICES ASSUME Configured, FloodInit PROVE FloodInv
    OBVIOUS
<1>1. maxHops \in HopLimits /\ floods = {} /\ echoes = {} /\ reports = {}
    BY DEF FloodInit
<1>2. /\ cache \in [MeshNodes -> SUBSET Orders] /\ tracked \in [MeshNodes -> SUBSET Orders]
      /\ \A n \in MeshNodes : cache[n] = {}
    BY DEF FloodInit
<1>3. lastNonce \in [MeshNodes -> [Traders -> {0} \union {o.nonce : o \in Orders}]]
    BY DEF FloodInit
<1>4. echoFlags \in [MeshNodes \X MeshNodes -> 0..FlagThreshold] /\ late \in 0..MaxLate /\ probes \in 0..MaxProbes
    BY DEF FloodInit, Configured
<1> QED
    BY <1>1, <1>2, <1>3, <1>4
    DEF FloodInv, FloodsSound, FloodTypeOK, SentOnce, WithinHops, WaysEndAtSender, NoncesSeen

\* What taking an order does to the node's books, whether it is cached or not: the
\* types stay, and the nonce seen is that of the newest order.
LEMMA TakenBooks ==
    ASSUME Configured, FloodInv, NEW n \in MeshNodes, NEW o \in Orders, Valid(n, o),
           lastNonce' = [lastNonce EXCEPT ![n][o.trader] = o.nonce],
           \/ cache' = cache
           \/ cache' = [cache EXCEPT ![n] = @ \union {o}]
    PROVE  /\ cache' \in [MeshNodes -> SUBSET Orders]
           /\ lastNonce' \in [MeshNodes -> [Traders -> {0} \union {p.nonce : p \in Orders}]]
           /\ NoncesSeen'
           /\ \A x \in MeshNodes : cache[x] \subseteq cache'[x]
<1>1. /\ cache \in [MeshNodes -> SUBSET Orders]
      /\ lastNonce \in [MeshNodes -> [Traders -> {0} \union {p.nonce : p \in Orders}]]
    BY DEF FloodInv, FloodsSound, FloodTypeOK
<1>2. o.trader \in Traders /\ o.nonce \in Nat
    BY DEF Traders, Configured
<1>3. cache' \in [MeshNodes -> SUBSET Orders] /\ \A x \in MeshNodes : cache[x] \subseteq cache'[x]
    BY <1>1, Zenon
<1>4. lastNonce' \in [MeshNodes -> [Traders -> {0} \union {p.nonce : p \in Orders}]]
    BY <1>1, <1>2
<1>5. ASSUME NEW x \in MeshNodes, NEW t \in Traders
      PROVE  lastNonce[x][t] \in Nat /\ lastNonce'[x][t] \in Nat /\ lastNonce[x][t] <= lastNonce'[x][t]
    <2>1. \A y \in {0} \union {p.nonce : p \in Orders} : y \in Nat
        BY DEF Configured
    <2>2. lastNonce[x][t] \in Nat /\ lastNonce'[x][t] \in Nat
        BY <1>1, <1>4, <2>1
    <2>3. lastNonce'[x][t] = IF x = n /\ t = o.trader THEN o.nonce ELSE lastNonce[x][t]
        BY <1>1, <1>2
    <2>4. lastNonce[n][o.trader] < o.nonce
        BY DEF Valid
    <2> QED
        BY <1>2, <2>2, <2>3, <2>4
<1>6. ASSUME NEW x \in MeshNodes, NEW p \in cache'[x]
      PROVE  p.nonce <= lastNonce'[x][p.trader]
    <2>1. p \in Orders /\ p.trader \in Traders /\ p.nonce \in Nat
        BY <1>3 DEF Traders, Configured
    <2>2. CASE p \in cache[x]
        BY <1>5, <2>1, <2>2 DEF FloodInv, NoncesSeen
    <2>3. CASE p \notin cache[x]
        <3>1. x = n /\ p = o
            BY <1>1, <2>3
        <3>2. lastNonce'[n][o.trader] = o.nonce
            BY <1>1, <1>2
        <3> QED
            BY <1>2, <3>1, <3>2
    <2> QED
        BY <2>2, <2>3
<1> QED
    BY <1>3, <1>4, <1>6 DEF NoncesSeen

\* The copies a node makes of an order on its way are on theirs.
LEMMA ForwardsOnTheirWay ==
    ASSUME Configured, NEW n \in MeshNodes, NEW msg, OnItsWay(n, msg), NEW m \in Forwards(n, msg)
    PROVE  /\ m.from = n /\ m.to \in PeersOf[n] /\ m.order = msg.order /\ m.hops = msg.hops + 1
           /\ m.path = Append(msg.path, n) /\ m.path \in Seq(MeshNodes)
           /\ Len(m.path) = m.hops + 1 /\ m.path[Len(m.path)] = n
           /\ m.path[1] = msg.order.source
           /\ m.to \notin ToSet(m.path)
           /\ \A i \in DOMAIN m.path : m.path[i] = n \/ msg.order \in cache[m.path[i]]
<1>1. PICK p \in PeersOf[n] \ (ToSet(msg.path) \union {n}) :
        m = [to |-> p, from |-> n, order |-> msg.order, hops |-> msg.hops + 1,
             path |-> Append(msg.path, n)]
    BY DEF Forwards
<1>2. /\ m.from = n /\ m.to = p /\ m.order = msg.order /\ m.hops = msg.hops + 1
      /\ m.path = Append(msg.path, n)
    BY <1>1
<1>3. /\ msg.path \in Seq(MeshNodes) /\ Len(msg.path) = msg.hops + 1 /\ msg.hops \in Nat
      /\ msg.path[1] = msg.order.source
      /\ \A i \in DOMAIN msg.path : msg.path[i] = n \/ msg.order \in cache[msg.path[i]]
    BY DEF OnItsWay
<1>4. /\ m.path \in Seq(MeshNodes) /\ Len(m.path) = Len(msg.path) + 1 /\ m.path[Len(m.path)] = n
      /\ \A i \in 1..Len(msg.path) : m.path[i] = msg.path[i]
      /\ DOMAIN m.path = 1..(Len(msg.path) + 1) /\ DOMAIN msg.path = 1..Len(msg.path)
    BY <1>2, <1>3
<1>5. \A i \in DOMAIN m.path : m.path[i] = n \/ (i \in DOMAIN msg.path /\ m.path[i] = msg.path[i])
    BY ONLY <1>3, <1>4, SMTT(30)
<1>6. m.to \notin ToSet(m.path)
    BY <1>1, <1>2, <1>5 DEF ToSet
<1>7. m.path[1] = msg.order.source
    BY <1>3, <1>4
<1> QED
    BY <1>1, <1>2, <1>3, <1>4, <1>5, <1>6, <1>7


\* Floods and what is known of them after a step that only adds to the caches.
LEMMA KeptFloods ==
    ASSUME Configured, FloodInv, maxHops' = maxHops, floods' = floods,
           \A x \in MeshNodes : cache[x] \subseteq cache'[x]
    PROVE  /\ SentOnce' /\ WithinHops' /\ WaysEndAtSender'
           /\ \A m \in floods' :
                /\ m.from \in MeshNodes /\ m.to \in PeersOf[m.from]
                /\ m.order \in Orders /\ m.hops \in 0..maxHops'
<1>1. SentOnce' /\ WaysEndAtSender'
    BY DEF FloodInv, FloodsSound, SentOnce, WaysEndAtSender
<1>2. ASSUME NEW m \in floods, NEW i \in DOMAIN m.path
      PROVE  m.order \in cache'[m.path[i]]
    <2>1. m.path[i] \in MeshNodes /\ m.order \in cache[m.path[i]]
        BY DEF FloodInv, FloodsSound, WaysEndAtSender, WithinHops
    <2> QED
        BY <2>1
<1>3. WithinHops'
    BY <1>2 DEF FloodInv, FloodsSound, WithinHops
<1> QED
    BY <1>1, <1>3 DEF FloodInv, FloodsSound, FloodTypeOK

\* ... and after the step that forwards an order: the node had not cached it, so
\* it had sent no copy before, and now has.
LEMMA ForwardedFloods ==
    ASSUME Configured, FloodInv, NEW n \in MeshNodes, NEW msg, OnItsWay(n, msg),
           msg.order \notin cache[n], ~Spent(msg), maxHops' = maxHops,
           cache' = [cache EXCEPT ![n] = @ \union {msg.order}],
           floods' = floods \union Forwards(n, msg)
    PROVE  /\ SentOnce' /\ WithinHops' /\ WaysEndAtSender'
           /\ \A m \in floods' :
                /\ m.from \in MeshNodes /\ m.to \in PeersOf[m.from]
                /\ m.order \in Orders /\ m.hops \in 0..maxHops'
<1> DEFINE o == msg.order
<1>1. cache \in [MeshNodes -> SUBSET Orders] /\ maxHops \in Nat /\ o \in Orders /\ msg.hops \in Nat
    BY DEF FloodInv, FloodsSound, FloodTypeOK, OnItsWay, Configured
<1>2. (\A x \in MeshNodes : cache[x] \subseteq cache'[x]) /\ o \in cache'[n]
    BY <1>1
<1>3. ASSUME NEW m \in floods
      PROVE  ~(m.from = n /\ m.order = o)
    BY CopiesOnTheirWay
<1>4. ASSUME NEW m \in Forwards(n, msg)
      PROVE  /\ m.from = n /\ m.to \in PeersOf[n] /\ m.order = o /\ m.hops \in 0..maxHops
             /\ m.path \in Seq(MeshNodes) /\ Len(m.path) = m.hops + 1 /\ m.path[Len(m.path)] = n
             /\ m.path[1] = o.source /\ m.to \notin ToSet(m.path)
             /\ \A i \in DOMAIN m.path : o \in cache'[m.path[i]]
    <2>1. /\ m.from = n /\ m.to \in PeersOf[n] /\ m.order = o /\ m.hops = msg.hops + 1
          /\ m.path \in Seq(MeshNodes)
          /\ Len(m.path) = m.hops + 1 /\ m.path[Len(m.path)] = n
          /\ m.path[1] = o.source /\ m.to \notin ToSet(m.path)
          /\ \A i \in DOMAIN m.path : m.path[i] = n \/ o \in cache[m.path[i]]
        BY ForwardsOnTheirWay
    <2>2. m.hops \in 0..maxHops
        BY <1>1, <2>1 DEF Spent
    <2>3. \A i \in DOMAIN m.path : m.path[i] \in MeshNodes
        BY <2>1
    <2>4. \A i \in DOMAIN m.path : o \in cache'[m.path[i]]
        BY <1>2, <2>1, <2>3
    <2> QED
        BY <2>1, <2>2, <2>4
<1>5. ASSUME NEW m1 \in Forwards(n, msg), NEW m2 \in Forwards(n, msg), m1.to = m2.to
      PROVE  m1 = m2
    BY ONLY <1>5, SMTT(30) DEF Forwards
<1>6. SentOnce'
    <2>1. \A m \in floods' : m.to \notin ToSet(m.path)
        BY <1>4 DEF FloodInv, FloodsSound, SentOnce
    <2>2. ASSUME NEW m1 \in floods', NEW m2 \in floods',
                 m1.from = m2.from, m1.to = m2.to, m1.order = m2.order
          PROVE  m1 = m2
        <3>1. CASE m1 \in floods /\ m2 \in floods
            BY <2>2, <3>1 DEF FloodInv, FloodsSound, SentOnce
        <3>2. CASE m1 \in Forwards(n, msg) /\ m2 \in Forwards(n, msg)
            BY <1>5, <2>2, <3>2
        <3>3. CASE m1 \in floods /\ m2 \in Forwards(n, msg)
            BY <1>3, <1>4, <2>2, <3>3
        <3>4. CASE m1 \in Forwards(n, msg) /\ m2 \in floods
            BY <1>3, <1>4, <2>2, <3>4
        <3> QED
            BY <3>1, <3>2, <3>3, <3>4
    <2> QED
        BY <2>1, <2>2 DEF SentOnce
<1>7. ASSUME NEW m \in floods
      PROVE  /\ m.from \in MeshNodes /\ m.to \in PeersOf[m.from] /\ m.order \in Orders
             /\ m.hops \in 0..maxHops
             /\ m.path \in Seq(MeshNodes) /\ m.path[Len(m.path)] = m.from
             /\ Len(m.path) = m.hops + 1 /\ m.path[1] = m.order.source
             /\ \A i \in DOMAIN m.path : m.order \in cache'[m.path[i]]
    <2>1. /\ m.path \in Seq(MeshNodes) /\ m.path[Len(m.path)] = m.from
          /\ Len(m.path) = m.hops + 1 /\ m.path[1] = m.order.source
          /\ \A i \in DOMAIN m.path : m.order \in cache[m.path[i]]
        BY DEF FloodInv, FloodsSound, WaysEndAtSender, WithinHops
    <2>2. \A i \in DOMAIN m.path : m.path[i] \in MeshNodes
        BY <2>1
    <2>3. \A i \in DOMAIN m.path : m.order \in cache'[m.path[i]]
        BY <1>2, <2>1, <2>2
    <2> QED
        BY <2>1, <2>3 DEF FloodInv, FloodsSound, FloodTypeOK
<1>8. WaysEndAtSender'
    BY <1>4, <1>7 DEF WaysEndAtSender
<1>9. WithinHops'
    BY <1>4, <1>7 DEF WithinHops
<1> QED
    BY <1>1, <1>4, <1>6, <1>7, <1>8, <1>9

\* on_receive keeps the invariant, in time or not.
LEMMA OnReceiveKeeps ==
    ASSUME Configured, FloodInv, NEW n \in MeshNodes, NEW msg, OnItsWay(n, msg),
           NEW onTime \in BOOLEAN, OnReceive(n, msg, onTime),
           UNCHANGED <<maxHops, echoVars>>, late' \in 0..MaxLate
    PROVE  FloodInv'
<1> DEFINE o == msg.order
<1>1. /\ maxHops' = maxHops /\ echoes' = echoes /\ echoFlags' = echoFlags /\ reports' = reports
      /\ probes' = probes
    BY DEF echoVars
<1>2. /\ maxHops \in HopLimits /\ cache \in [MeshNodes -> SUBSET Orders]
      /\ tracked \in [MeshNodes -> SUBSET Orders] /\ o \in Orders
      /\ \A m \in echoes : m.kind \in {"request", "response"} /\ {m.to, m.from} \subseteq MeshNodes
      /\ echoFlags \in [MeshNodes \X MeshNodes -> 0..FlagThreshold] /\ reports \subseteq MeshNodes \X MeshNodes
      /\ probes \in 0..MaxProbes
    BY DEF FloodInv, FloodsSound, FloodTypeOK, OnItsWay
<1> DEFINE Travelling ==
        /\ SentOnce' /\ WithinHops' /\ WaysEndAtSender'
        /\ \A m \in floods' :
             /\ m.from \in MeshNodes /\ m.to \in PeersOf[m.from]
             /\ m.order \in Orders /\ m.hops \in 0..maxHops'
<1> DEFINE Known ==
        /\ cache' \in [MeshNodes -> SUBSET Orders]
        /\ lastNonce' \in [MeshNodes -> [Traders -> {0} \union {p.nonce : p \in Orders}]]
        /\ NoncesSeen'
<1>3. SUFFICES Travelling /\ Known /\ tracked' \in [MeshNodes -> SUBSET Orders]
    <2>1. ASSUME Travelling, Known, tracked' \in [MeshNodes -> SUBSET Orders]
          PROVE  FloodTypeOK'
        BY <1>1, <1>2, <2>1 DEF FloodTypeOK
    <2> QED
        BY <2>1 DEF FloodInv, FloodsSound
<1>4. CASE UNCHANGED <<cache, lastNonce, floods, tracked>>
    <2>1. Travelling
        BY <1>1, <1>4, KeptFloods, Zenon
    <2>2. Known
        BY <1>4 DEF FloodInv, FloodsSound, FloodTypeOK, NoncesSeen
    <2> QED
        BY <1>2, <1>4, <2>1, <2>2
<1>5. CASE /\ o \notin cache[n] /\ Valid(n, o)
           /\ lastNonce' = [lastNonce EXCEPT ![n][o.trader] = o.nonce]
           /\ ~onTime /\ UNCHANGED <<cache, floods, tracked>>
    <2>1. Known
        BY <1>2, <1>5, TakenBooks, Zenon
    <2>2. Travelling
        BY <1>1, <1>5, KeptFloods
    <2> QED
        BY <1>2, <1>5, <2>1, <2>2
<1>6. CASE /\ o \notin cache[n] /\ Valid(n, o)
           /\ lastNonce' = [lastNonce EXCEPT ![n][o.trader] = o.nonce]
           /\ onTime /\ cache' = [cache EXCEPT ![n] = @ \union {o}]
           /\ \/ Spent(msg) /\ UNCHANGED <<floods, tracked>>
              \/ /\ ~Spent(msg)
                 /\ floods' = floods \union Forwards(n, msg)
                 /\ tracked' = [tracked EXCEPT ![n] =
                      IF Forwards(n, msg) = {} THEN @ ELSE @ \union {o}]
    <2>1. Known /\ \A x \in MeshNodes : cache[x] \subseteq cache'[x]
        BY <1>2, <1>6, TakenBooks, Zenon
    <2>2. CASE Spent(msg) /\ UNCHANGED <<floods, tracked>>
        <3>1. Travelling
            BY <1>1, <2>1, <2>2, KeptFloods
        <3> QED
            BY <1>2, <2>1, <2>2, <3>1, Zenon
    <2>3. CASE /\ ~Spent(msg)
               /\ floods' = floods \union Forwards(n, msg)
               /\ tracked' = [tracked EXCEPT ![n] =
                    IF Forwards(n, msg) = {} THEN @ ELSE @ \union {o}]
        <3>1. Travelling
            BY <1>1, <1>6, <2>3, ForwardedFloods, Zenon
        <3>2. tracked' \in [MeshNodes -> SUBSET Orders]
            BY <1>2, <2>3
        <3> QED
            BY <2>1, <3>1, <3>2
    <2> QED
        BY <1>6, <2>2, <2>3
<1> QED
    BY <1>4, <1>5, <1>6 DEF OnReceive


-----------------------------------------------------------------------------
\* A step of the echo probes leaves floods and caches alone.
LEMMA EchoKeeps ==
    ASSUME FloodInv, UNCHANGED <<maxHops, floodVars>>,
           \A m \in echoes' : m.kind \in {"request", "response"} /\ {m.to, m.from} \subseteq MeshNodes,
           echoFlags' \in [MeshNodes \X MeshNodes -> 0..FlagThreshold], reports' \subseteq MeshNodes \X MeshNodes,
           probes' \in 0..MaxProbes
    PROVE  FloodInv'
<1>1. /\ maxHops' = maxHops /\ cache' = cache /\ lastNonce' = lastNonce /\ floods' = floods
      /\ tracked' = tracked /\ late' = late
    BY DEF floodVars
<1>2. FloodTypeOK'
    BY <1>1 DEF FloodInv, FloodsSound, FloodTypeOK
<1> QED
    BY <1>1, <1>2
    DEF FloodInv, FloodsSound, SentOnce, WithinHops, WaysEndAtSender, NoncesSeen

\* Flags are counted up to the threshold.
LEMMA CappedFlags ==
    ASSUME NEW f \in Nat, NEW kept \in 0..f, f > 0
    PROVE  Min({kept + 1, f}) \in 0..f
<1> DEFINE S == {kept + 1, f}
<1>1. \E x \in S : \A y \in S : x <= y
    <2>1. CASE kept + 1 <= f
        BY <2>1
    <2>2. CASE f <= kept + 1
        BY <2>2
    <2> QED
        BY <2>1, <2>2
<1>2. Min(S) \in S /\ \A y \in S : Min(S) <= y
    BY <1>1 DEF Min
<1> QED
    BY <1>2

\* Answering an echo keeps the invariant.
LEMMA AnswerEchoKeeps ==
    ASSUME Configured, FloodInv, NEW m \in echoes, NEW orders, AnswerEcho(m, orders)
    PROVE  FloodInv'
<1> DEFINE pair == <<m.to, m.from>>
<1>1. /\ m.to \in MeshNodes /\ m.from \in MeshNodes /\ FlagThreshold \in Nat \ {0}
      /\ echoFlags \in [MeshNodes \X MeshNodes -> 0..FlagThreshold] /\ reports \subseteq MeshNodes \X MeshNodes
      /\ probes \in 0..MaxProbes
    BY DEF FloodInv, FloodsSound, FloodTypeOK, Configured
<1>2. pair \in MeshNodes \X MeshNodes
    BY <1>1
<1>3. \A e \in echoes' : e.kind \in {"request", "response"} /\ {e.to, e.from} \subseteq MeshNodes
    BY <1>1 DEF AnswerEcho, Echo, FloodInv, FloodsSound, FloodTypeOK
<1>4. UNCHANGED <<maxHops, floodVars>> /\ probes' \in 0..MaxProbes
    BY <1>1 DEF AnswerEcho
<1>5. \/ UNCHANGED <<echoFlags, reports>>
      \/ \E kept \in {0, echoFlags[pair]} :
           /\ echoFlags' = [echoFlags EXCEPT ![pair] = Min({kept + 1, FlagThreshold})]
           /\ reports' = IF kept + 1 >= FlagThreshold THEN reports \union {pair} ELSE reports
    BY DEF AnswerEcho
<1>6. CASE UNCHANGED <<echoFlags, reports>>
    BY <1>1, <1>3, <1>4, <1>6, EchoKeeps
<1>7. CASE \E kept \in {0, echoFlags[pair]} :
             /\ echoFlags' = [echoFlags EXCEPT ![pair] = Min({kept + 1, FlagThreshold})]
             /\ reports' = IF kept + 1 >= FlagThreshold THEN reports \union {pair} ELSE reports
    <2>1. PICK kept \in {0, echoFlags[pair]} :
             /\ echoFlags' = [echoFlags EXCEPT ![pair] = Min({kept + 1, FlagThreshold})]
             /\ reports' = IF kept + 1 >= FlagThreshold THEN reports \union {pair} ELSE reports
        BY <1>7, Zenon
    <2>2. kept \in 0..FlagThreshold
        BY <1>1, <1>2
    <2>3. Min({kept + 1, FlagThreshold}) \in 0..FlagThreshold
        BY <1>1, <2>2, CappedFlags
    <2>4. echoFlags' \in [MeshNodes \X MeshNodes -> 0..FlagThreshold]
        BY <1>1, <2>1, <2>3
    <2>5. reports' \subseteq MeshNodes \X MeshNodes
        BY <1>1, <1>2, <2>1
    <2> QED
        BY <1>3, <1>4, <2>4, <2>5, EchoKeeps
<1> QED
    BY <1>5, <1>6, <1>7

\* Every step keeps the invariant, one case per action of FloodNext.
LEMMA NextFlood == Configured /\ FloodInv /\ [FloodNext]_meshFloodVars => FloodInv'
<1> SUFFICES ASSUME Configured, FloodInv, [FloodNext]_meshFloodVars PROVE FloodInv'
    OBVIOUS
<1>1. late \in 0..MaxLate /\ probes \in 0..MaxProbes /\ MaxLate \in Nat /\ MaxProbes \in Nat
    BY DEF FloodInv, FloodsSound, FloodTypeOK, Configured
<1>2. ASSUME NEW o \in Orders, Inject(o) PROVE FloodInv'
    <2> DEFINE msg == [from |-> o.source, order |-> o, hops |-> 0, path |-> <<o.source>>]
    <2>1. o.source \in MeshNodes
        BY DEF Configured
    <2>2. OnItsWay(o.source, msg)
        BY <2>1 DEF OnItsWay
    <2>3. OnReceive(o.source, msg, TRUE) /\ UNCHANGED <<maxHops, echoVars>> /\ late' \in 0..MaxLate
        BY <1>1, <1>2, Zenon DEF Inject
    <2> HIDE DEF msg
    <2> QED
        BY <2>1, <2>2, <2>3, OnReceiveKeeps, Zenon
<1>3. ASSUME NEW msg \in floods, Receive(msg) \/ ReceiveLate(msg) PROVE FloodInv'
    <2>1. msg.to \in MeshNodes /\ OnItsWay(msg.to, msg)
        BY CopiesOnTheirWay
    <2>2. CASE Receive(msg)
        <3>1. OnReceive(msg.to, msg, TRUE) /\ UNCHANGED <<maxHops, echoVars>> /\ late' \in 0..MaxLate
            BY <1>1, <2>2, Zenon DEF Receive
        <3> QED
            BY <2>1, <3>1, OnReceiveKeeps, Zenon
    <2>3. CASE ReceiveLate(msg)
        <3>1. OnReceive(msg.to, msg, FALSE) /\ UNCHANGED <<maxHops, echoVars>>
            BY <2>3, Zenon DEF ReceiveLate
        <3>2. late' \in 0..MaxLate
            BY <1>1, <2>3 DEF ReceiveLate
        <3> QED
            BY <2>1, <3>1, <3>2, OnReceiveKeeps, Zenon
    <2> QED
        BY <1>3, <2>2, <2>3
<1>4. ASSUME NEW n \in MeshNodes, EchoTick(n) PROVE FloodInv'
    <2>1. probes' \in 0..MaxProbes
        BY <1>1, <1>4 DEF EchoTick
    <2>2. \A e \in echoes' : e.kind \in {"request", "response"} /\ {e.to, e.from} \subseteq MeshNodes
        BY <1>4 DEF EchoTick, Echo, FloodInv, FloodsSound, FloodTypeOK, Configured
    <2>3. UNCHANGED <<maxHops, floodVars, echoFlags, reports>>
        BY <1>4 DEF EchoTick
    <2> QED
        BY <2>1, <2>2, <2>3, EchoKeeps DEF FloodInv, FloodsSound, FloodTypeOK
<1>5. ASSUME NEW m \in echoes, ReceiveEcho(m) PROVE FloodInv'
    <2>1. CASE AnswerEcho(m, m.orders) \/ AnswerEcho(m, {})
        BY <2>1, AnswerEchoKeeps, Zenon
    <2>2. CASE /\ echoes' = echoes \ {m}
               /\ UNCHANGED <<maxHops, floodVars, echoFlags, reports, probes>>
        BY <2>2, EchoKeeps, Zenon DEF FloodInv, FloodsSound, FloodTypeOK
    <2> QED
        BY <1>5, <2>1, <2>2 DEF ReceiveEcho
<1>6. CASE UNCHANGED meshFloodVars
    BY <1>6, EchoKeeps DEF meshFloodVars, echoVars, FloodInv, FloodsSound, FloodTypeOK
<1> QED
    BY <1>2, <1>3, <1>4, <1>5, <1>6 DEF FloodNext

\* Whatever order packets arrive in, however often and however late: no node sends
\* an order to a peer twice or back along its way, no copy goes beyond max_hops, and
\* the hops it counts are a way of nodes that all took the order (on_receive).
THEOREM FloodsStaySound ==
    ASSUME Configured
    PROVE  FloodSpec => []FloodsSound
<1>1. FloodInit => FloodInv
    BY InitFlood
<1>2. FloodInv /\ [FloodNext]_meshFloodVars => FloodInv'
    BY NextFlood
<1>3. FloodInv => FloodsSound
    BY DEF FloodInv
<1> QED
    BY <1>1, <1>2, <1>3, PTL DEF FloodSpec

\* An order is taken into a cache by on_receive only, and validate_order has then
\* found its nonce above all the trader's nonces that the node knows.
LEMMA TakesNewer ==
    ASSUME Configured, FloodInv, NEW n \in MeshNodes, NEW msg, msg.order \in Orders,
           NEW onTime \in BOOLEAN, OnReceive(n, msg, onTime)
    PROVE  \A x \in MeshNodes : \A o \in cache'[x] \ cache[x] : \A p \in cache[x] :
             p.trader = o.trader => p.nonce < o.nonce
<1> SUFFICES ASSUME NEW x \in MeshNodes, NEW o \in cache'[x] \ cache[x], NEW p \in cache[x],
                    p.trader = o.trader
             PROVE  p.nonce < o.nonce
    BY Zenon
<1>1. /\ cache \in [MeshNodes -> SUBSET Orders]
      /\ lastNonce \in [MeshNodes -> [Traders -> {0} \union {q.nonce : q \in Orders}]]
    BY DEF FloodInv, FloodsSound, FloodTypeOK
<1>2. cache' = [cache EXCEPT ![n] = @ \union {msg.order}] /\ Valid(n, msg.order)
    BY DEF OnReceive
<1>3. x = n /\ o = msg.order
    BY <1>1, <1>2
<1>4. p \in Orders /\ p.nonce \in Nat /\ o.nonce \in Nat /\ p.trader \in Traders
    BY <1>1, <1>3 DEF Configured, Traders
<1>5. lastNonce[n][p.trader] \in {0} \union {q.nonce : q \in Orders}
    BY <1>1, <1>4
<1>6. lastNonce[n][p.trader] \in Nat
    BY <1>5 DEF Configured
<1>7. p.nonce <= lastNonce[n][p.trader]
    BY <1>3 DEF FloodInv, NoncesSeen
<1>8. lastNonce[n][p.trader] < o.nonce
    BY <1>2, <1>3 DEF Valid
<1> QED
    BY <1>4, <1>6, <1>7, <1>8

\* A node that knows a trader's order never takes an older one (validate_order).
LEMMA StepsTakeOnlyNewer ==
    ASSUME Configured, FloodInv, FloodNext
    PROVE  TakesOnlyNewer
<1>1. ASSUME NEW o \in Orders, Inject(o) PROVE TakesOnlyNewer
    <2>1. OnReceive(o.source, [from |-> o.source, order |-> o, hops |-> 0, path |-> <<o.source>>],
                    TRUE)
        BY <1>1, Zenon DEF Inject
    <2>2. o.source \in MeshNodes
        BY DEF Configured
    <2> QED
        BY <2>1, <2>2, TakesNewer, Zenon DEF TakesOnlyNewer
<1>2. ASSUME NEW msg \in floods, Receive(msg) \/ ReceiveLate(msg) PROVE TakesOnlyNewer
    <2>1. msg.to \in MeshNodes /\ msg.order \in Orders
        BY CopiesOnTheirWay DEF OnItsWay
    <2>2. OnReceive(msg.to, msg, TRUE) \/ OnReceive(msg.to, msg, FALSE)
        BY <1>2, ZenonT(60) DEF Receive, ReceiveLate
    <2> QED
        BY <2>1, <2>2, TakesNewer, Zenon DEF TakesOnlyNewer
<1>3. CASE cache' = cache
    BY <1>3 DEF TakesOnlyNewer
<1>4. ASSUME NEW n \in MeshNodes, EchoTick(n) PROVE TakesOnlyNewer
    BY <1>3, <1>4, Zenon DEF EchoTick, floodVars
<1>5. ASSUME NEW m \in echoes, ReceiveEcho(m) PROVE TakesOnlyNewer
    BY <1>3, <1>5 DEF ReceiveEcho, AnswerEcho, floodVars
<1> QED
    BY <1>1, <1>2, <1>4, <1>5 DEF FloodNext

-----------------------------------------------------------------------------
\* The hops of a copy are the nodes it has been to.
WaysSimple == \A m \in floods : m.hops = Cardinality(ToSet(m.path))

\* A validator that has seen the newest nonce has seen it with its order, or the
\* order was out of time.  (An order with nonce 0 is never taken.)
SeenIsTaken ==
    /\ \A n \in MeshNodes : \A o \in cache[n] : o.nonce > 0
    /\ \A n \in MeshNodes, o \in Orders :
         Newest(o) /\ o.nonce > 0 /\ ~Valid(n, o) => o \in cache[n] \/ late > 0

WayInv == FloodInv /\ WaysSimple /\ SeenIsTaken /\ NewestOnItsWay

\* A copy has been to fewer nodes than there are before it comes to n.
FarFromSpent(n, msg) == msg.hops = Cardinality(ToSet(msg.path) \ {n})

\* No way through the mesh uses up as many hops as it has nodes.
LEMMA HopsBelowNodes ==
    ASSUME Configured, NEW n \in MeshNodes, NEW msg, OnItsWay(n, msg), FarFromSpent(n, msg)
    PROVE  /\ IsFiniteSet(ToSet(msg.path) \ {n})
           /\ msg.hops < Cardinality(MeshNodes)
<1> DEFINE Been == ToSet(msg.path) \ {n}
<1>1. Been \subseteq MeshNodes \ {n}
    BY DEF OnItsWay, ToSet
<1>2. IsFiniteSet(MeshNodes)
    BY DEF Configured
<1>3. /\ IsFiniteSet(MeshNodes \ {n}) /\ Cardinality(MeshNodes \ {n}) = Cardinality(MeshNodes) - 1
      /\ Cardinality(MeshNodes) \in Nat
    BY <1>2, FS_RemoveElement, FS_CardinalityType
<1>4. IsFiniteSet(Been) /\ Cardinality(Been) <= Cardinality(MeshNodes \ {n})
    BY <1>1, <1>3, FS_Subset
<1>5. Cardinality(Been) \in Nat
    BY <1>4, FS_CardinalityType
<1> QED
    BY <1>3, <1>4, <1>5 DEF FarFromSpent

\* The copies a node makes have been to one node more.
LEMMA ForwardsSimple ==
    ASSUME Configured, NEW n \in MeshNodes, NEW msg, OnItsWay(n, msg), FarFromSpent(n, msg),
           NEW m \in Forwards(n, msg)
    PROVE  m.hops = Cardinality(ToSet(m.path))
<1> DEFINE Been == ToSet(msg.path) \ {n}
<1>1. m.hops = msg.hops + 1 /\ m.path = Append(msg.path, n) /\ msg.path \in Seq(MeshNodes)
    BY ForwardsOnTheirWay DEF OnItsWay
<1>2. ToSet(m.path) = Been \union {n}
    <2>1. DOMAIN m.path = 1..(Len(msg.path) + 1) /\ DOMAIN msg.path = 1..Len(msg.path) /\ Len(msg.path) \in Nat
        BY <1>1
    <2>2. /\ \A i \in DOMAIN msg.path : i \in DOMAIN m.path /\ m.path[i] = msg.path[i]
          /\ Len(msg.path) + 1 \in DOMAIN m.path /\ m.path[Len(msg.path) + 1] = n
          /\ \A i \in DOMAIN m.path : i \in DOMAIN msg.path \/ i = Len(msg.path) + 1
        BY <1>1, <2>1
    <2> QED
        BY <2>2 DEF ToSet
<1>3. IsFiniteSet(Been) /\ n \notin Been
    BY HopsBelowNodes
<1>4. Cardinality(Been \union {n}) = Cardinality(Been) + 1
    BY <1>3, FS_AddElement
<1> QED
    BY <1>1, <1>2, <1>4 DEF FarFromSpent

\* How the nonces seen change when n takes order q: a newest order is as valid as
\* before everywhere but at n, if it is q.
LEMMA NoncesSeenThen ==
    ASSUME Configured, FloodInv, NEW n \in MeshNodes, NEW q \in Orders, Valid(n, q),
           lastNonce' = [lastNonce EXCEPT ![n][q.trader] = q.nonce],
           NEW o \in Orders, Newest(o), NEW x \in MeshNodes
    PROVE  /\ x = n /\ o = q => ~Valid(x, o)' /\ o.nonce > 0
           /\ ~(x = n /\ o = q) => (Valid(x, o)' <=> Valid(x, o))
<1>1. lastNonce \in [MeshNodes -> [Traders -> {0} \union {p.nonce : p \in Orders}]]
    BY DEF FloodInv, FloodsSound, FloodTypeOK
<1>2. o.trader \in Traders /\ o.nonce \in Nat /\ q.trader \in Traders /\ q.nonce \in Nat
    BY DEF Traders, Configured
<1>3. lastNonce'[x][o.trader] = IF x = n /\ o.trader = q.trader THEN q.nonce ELSE lastNonce[x][o.trader]
    BY <1>1, <1>2
<1>4. \A y \in {0} \union {p.nonce : p \in Orders} : y \in Nat
    BY DEF Configured
<1>5. lastNonce[n][q.trader] \in Nat /\ lastNonce[n][q.trader] < q.nonce
    BY <1>1, <1>2, <1>4, Zenon DEF Valid
<1>6. CASE x = n /\ o = q
    BY <1>2, <1>3, <1>5, <1>6 DEF Valid
<1>7. CASE x = n /\ o # q /\ o.trader = q.trader
    <2>1. q.nonce < o.nonce
        BY <1>7 DEF Newest
    <2> QED
        BY <1>2, <1>3, <1>5, <1>7, <2>1 DEF Valid
<1>8. CASE ~(x = n /\ o.trader = q.trader)
    BY <1>3, <1>8 DEF Valid
<1> QED
    BY <1>6, <1>7, <1>8

\* on_receive keeps the newest order on its way.
LEMMA OnReceivePassesOn ==
    ASSUME Configured, WayInv, NEW n \in MeshNodes, NEW msg, OnItsWay(n, msg), FarFromSpent(n, msg),
           NEW onTime \in BOOLEAN, OnReceive(n, msg, onTime), maxHops' = maxHops,
           late' \in Nat, late' >= late, ~onTime => late' > 0
    PROVE  WaysSimple' /\ SeenIsTaken' /\ NewestOnItsWay'
<1> DEFINE q == msg.order
<1>1. /\ q \in Orders /\ cache \in [MeshNodes -> SUBSET Orders] /\ maxHops \in Nat /\ late \in Nat
      /\ PeersOf \in [MeshNodes -> SUBSET MeshNodes] /\ FloodInv
    BY DEF OnItsWay, WayInv, FloodInv, FloodsSound, FloodTypeOK, Configured
<1>2. CASE UNCHANGED <<cache, lastNonce, floods, tracked>>
    <2>1. late > 0 => late' > 0
        BY <1>1
    <2> QED
        BY <1>2, <2>1, Zenon DEF WayInv, WaysSimple, SeenIsTaken, NewestOnItsWay, Valid
<1>3. CASE /\ q \notin cache[n] /\ Valid(n, q)
           /\ lastNonce' = [lastNonce EXCEPT ![n][q.trader] = q.nonce]
           /\ ~onTime /\ UNCHANGED <<cache, floods, tracked>>
    <2>1. late' > 0
        BY <1>3
    <2>2. SeenIsTaken'
        BY <1>3, <2>1, Zenon DEF WayInv, SeenIsTaken
    <2>3. NewestOnItsWay'
        <3> SUFFICES ASSUME NEW o \in Orders, Newest(o), maxHops >= Cardinality(MeshNodes),
                            NEW x \in MeshNodes, o \in cache'[x], NEW p \in PeersOf[x],
                            o \notin cache'[p]
                     PROVE  \/ Valid(p, o)' /\ \E m \in floods' : m.from = x /\ m.to = p /\ m.order = o
                            \/ ~Valid(p, o)' /\ late' > 0
            BY Zenon DEF NewestOnItsWay, Newest
        <3>1. p \in MeshNodes /\ o \in cache[x] /\ o \notin cache[p] /\ floods' = floods
            BY <1>1, <1>3, Zenon
        <3>2. Valid(p, o)' => Valid(p, o)
            <4>1. /\ p = n /\ o = q => ~Valid(p, o)'
                  /\ ~(p = n /\ o = q) => (Valid(p, o)' <=> Valid(p, o))
                BY <1>1, <1>3, <3>1, NoncesSeenThen, Zenon
            <4> QED
                BY <4>1, Zenon
        <3> QED
            BY <2>1, <3>1, <3>2, Zenon DEF WayInv, NewestOnItsWay
    <2> QED
        BY <1>3, <2>2, <2>3 DEF WayInv, WaysSimple
<1>4. CASE /\ q \notin cache[n] /\ Valid(n, q)
           /\ lastNonce' = [lastNonce EXCEPT ![n][q.trader] = q.nonce]
           /\ cache' = [cache EXCEPT ![n] = @ \union {q}]
           /\ \/ Spent(msg) /\ floods' = floods
              \/ ~Spent(msg) /\ floods' = floods \union Forwards(n, msg)
    <2>1. \A x \in MeshNodes : cache'[x] = IF x = n THEN cache[x] \union {q} ELSE cache[x]
        BY <1>1, <1>4
    <2>2. late > 0 => late' > 0
        BY <1>1
    <2>3. WaysSimple'
        <3>1. \A m \in Forwards(n, msg) : m.hops = Cardinality(ToSet(m.path))
            BY ForwardsSimple
        <3> QED
            BY <1>4, <3>1 DEF WayInv, WaysSimple
    <2>4. SeenIsTaken'
        <3>1. q.nonce > 0
            <4>1. q.nonce \in Nat /\ q.trader \in Traders
                BY <1>1 DEF Configured, Traders
            <4>2. lastNonce \in [MeshNodes -> [Traders -> {0} \union {p.nonce : p \in Orders}]]
                BY <1>1 DEF FloodInv, FloodsSound, FloodTypeOK
            <4>3. lastNonce[n][q.trader] \in {0} \union {p.nonce : p \in Orders}
                BY <4>1, <4>2, Zenon
            <4>4. lastNonce[n][q.trader] \in Nat
                BY <4>3 DEF Configured
            <4> QED
                BY <1>4, <4>1, <4>4 DEF Valid
        <3>2. \A x \in MeshNodes : \A o \in cache'[x] : o.nonce > 0
            BY <2>1, <3>1, Zenon DEF WayInv, SeenIsTaken
        <3>3. ASSUME NEW x \in MeshNodes, NEW o \in Orders, Newest(o), o.nonce > 0, ~Valid(x, o)'
              PROVE  o \in cache'[x] \/ late' > 0
            <4>1. CASE x = n /\ o = q
                BY <2>1, <4>1, Zenon
            <4>2. CASE ~(x = n /\ o = q)
                <5>1. ~Valid(x, o)
                    BY <1>1, <1>4, <3>3, <4>2, NoncesSeenThen, Zenon
                <5>2. o \in cache[x] \/ late > 0
                    BY <3>3, <5>1, Zenon DEF WayInv, SeenIsTaken
                <5> QED
                    BY <2>1, <2>2, <5>2, Zenon
            <4> QED
                BY <4>1, <4>2
        <3> QED
            BY <3>2, <3>3 DEF SeenIsTaken, Newest
    <2>5. NewestOnItsWay'
        <3> SUFFICES ASSUME NEW o \in Orders, Newest(o), maxHops >= Cardinality(MeshNodes),
                            NEW x \in MeshNodes, o \in cache'[x], NEW p \in PeersOf[x],
                            o \notin cache'[p]
                     PROVE  \/ Valid(p, o)' /\ \E m \in floods' : m.from = x /\ m.to = p /\ m.order = o
                            \/ ~Valid(p, o)' /\ late' > 0
            BY Zenon DEF NewestOnItsWay, Newest
        <3>1. p \in MeshNodes /\ o \notin cache[p] /\ ~(p = n /\ o = q)
            BY <1>1, <2>1, Zenon
        <3>2. Valid(p, o)' <=> Valid(p, o)
            BY <1>1, <1>4, <3>1, NoncesSeenThen, Zenon
        <3>3. floods \subseteq floods'
            BY <1>4
        \* Known before: nothing has changed for its peers.
        <3>4. CASE o \in cache[x]
            <4>1. \/ Valid(p, o) /\ \E m \in floods : m.from = x /\ m.to = p /\ m.order = o
                  \/ ~Valid(p, o) /\ late > 0
                BY <3>1, <3>4, Zenon DEF WayInv, NewestOnItsWay
            <4> QED
                BY <2>2, <3>2, <3>3, <4>1, Zenon
        \* New: it has been at the peer, or goes there now.
        <3>5. CASE o \notin cache[x]
            <4>1. x = n /\ o = q
                BY <2>1, <3>5, Zenon
            <4>2. msg.hops < Cardinality(MeshNodes) /\ msg.hops \in Nat /\ Cardinality(MeshNodes) \in Nat
                BY HopsBelowNodes, FS_CardinalityType, Zenon DEF Configured, OnItsWay
            <4>3. floods' = floods \union Forwards(n, msg)
                BY <1>1, <1>4, <4>2 DEF Spent
            <4>4. p \notin ToSet(msg.path)
                BY <3>1, <4>1 DEF OnItsWay, ToSet
            <4>5. \E m \in Forwards(n, msg) : m.from = x /\ m.to = p /\ m.order = o
                <5> DEFINE copy == [to |-> p, from |-> n, order |-> msg.order, hops |-> msg.hops + 1,
                                    path |-> Append(msg.path, n)]
                <5>1. copy \in Forwards(n, msg)
                    BY <3>1, <4>1, <4>4, Zenon DEF Forwards
                <5> QED
                    BY <4>1, <5>1
            <4>6. ~Valid(p, o) => late > 0
                <5>1. o.nonce > 0
                    BY <2>1, <2>4, <4>1, Zenon DEF SeenIsTaken
                <5> QED
                    BY <3>1, <5>1, Zenon DEF WayInv, SeenIsTaken
            <4> QED
                BY <2>2, <3>2, <4>3, <4>5, <4>6
        <3> QED
            BY <3>4, <3>5
    <2> QED
        BY <2>3, <2>4, <2>5
<1> QED
    BY <1>2, <1>3, <1>4, Zenon DEF OnReceive

\* Nobody has taken an order yet.
LEMMA InitWay == Configured /\ FloodInit => WayInv
<1> SUFFICES ASSUME Configured, FloodInit PROVE WayInv
    OBVIOUS
<1>1. FloodInv
    BY InitFlood
<1>2. floods = {} /\ \A n \in MeshNodes : cache[n] = {}
    BY DEF FloodInit
<1>3. ASSUME NEW n \in MeshNodes, NEW o \in Orders, o.nonce > 0 PROVE Valid(n, o)
    <2>1. o.trader \in Traders
        BY DEF Traders
    <2>2. lastNonce[n][o.trader] = 0
        BY <2>1 DEF FloodInit
    <2> QED
        BY <1>3, <2>2 DEF Valid, Configured
<1>4. WaysSimple /\ NewestOnItsWay
    BY <1>2, Zenon DEF WaysSimple, NewestOnItsWay
<1>5. SeenIsTaken
    BY <1>2, <1>3, Zenon DEF SeenIsTaken
<1> QED
    BY <1>1, <1>4, <1>5 DEF WayInv

\* Every step keeps the newest orders on their ways.
LEMMA NextWay == Configured /\ WayInv /\ [FloodNext]_meshFloodVars => WayInv'
<1> SUFFICES ASSUME Configured, WayInv, [FloodNext]_meshFloodVars PROVE WayInv'
    OBVIOUS
<1>1. FloodInv /\ late \in Nat
    BY DEF WayInv, FloodInv, FloodsSound, FloodTypeOK, Configured
<1>2. FloodInv'
    BY <1>1, NextFlood
<1>3. SUFFICES WaysSimple' /\ SeenIsTaken' /\ NewestOnItsWay'
    BY <1>2 DEF WayInv
<1>4. ASSUME NEW o \in Orders, Inject(o) PROVE WaysSimple' /\ SeenIsTaken' /\ NewestOnItsWay'
    <2> DEFINE msg == [from |-> o.source, order |-> o, hops |-> 0, path |-> <<o.source>>]
    <2>1. o.source \in MeshNodes
        BY DEF Configured
    <2>2. OnItsWay(o.source, msg)
        BY <2>1 DEF OnItsWay
    <2>3. FarFromSpent(o.source, msg)
        <3>1. ToSet(msg.path) \ {o.source} = {}
            BY DEF ToSet
        <3> QED
            BY <3>1, FS_EmptySet DEF FarFromSpent
    <2>4. OnReceive(o.source, msg, TRUE) /\ maxHops' = maxHops /\ late' = late
        BY <1>4, Zenon DEF Inject
    <2>5. late' \in Nat /\ late' >= late
        BY <1>1, <2>4
    <2> HIDE DEF msg
    <2> QED
        BY <2>1, <2>2, <2>3, <2>4, <2>5, OnReceivePassesOn, Zenon
<1>5. ASSUME NEW msg \in floods, Receive(msg) \/ ReceiveLate(msg)
      PROVE  WaysSimple' /\ SeenIsTaken' /\ NewestOnItsWay'
    <2>1. msg.to \in MeshNodes /\ OnItsWay(msg.to, msg)
        BY <1>1, CopiesOnTheirWay
    <2>2. FarFromSpent(msg.to, msg)
        <3>1. msg.to \notin ToSet(msg.path) /\ msg.hops = Cardinality(ToSet(msg.path))
            BY <1>1, Zenon DEF WayInv, FloodInv, FloodsSound, SentOnce, WaysSimple
        <3>2. ToSet(msg.path) \ {msg.to} = ToSet(msg.path)
            BY <3>1
        <3> QED
            BY <3>1, <3>2 DEF FarFromSpent
    <2>3. CASE Receive(msg)
        <3>1. OnReceive(msg.to, msg, TRUE) /\ maxHops' = maxHops /\ late' = late
            BY <2>3, Zenon DEF Receive
        <3>2. late' \in Nat /\ late' >= late
            BY <1>1, <3>1
        <3> QED
            BY <2>1, <2>2, <3>1, <3>2, OnReceivePassesOn, Zenon
    <2>4. CASE ReceiveLate(msg)
        <3>1. OnReceive(msg.to, msg, FALSE) /\ maxHops' = maxHops /\ late' = late + 1
            BY <2>4, Zenon DEF ReceiveLate
        <3>2. late' \in Nat /\ late' >= late /\ late' > 0
            BY <1>1, <3>1
        <3> QED
            BY <2>1, <2>2, <3>1, <3>2, OnReceivePassesOn, Zenon
    <2> QED
        BY <1>5, <2>3, <2>4
<1>6. CASE UNCHANGED <<maxHops, floodVars>>
    BY <1>6, Zenon DEF WayInv, floodVars, WaysSimple, SeenIsTaken, NewestOnItsWay, Valid
<1>7. ASSUME NEW n \in MeshNodes, EchoTick(n) PROVE WaysSimple' /\ SeenIsTaken' /\ NewestOnItsWay'
    BY <1>6, <1>7, Zenon DEF EchoTick
<1>8. ASSUME NEW m \in echoes, ReceiveEcho(m) PROVE WaysSimple' /\ SeenIsTaken' /\ NewestOnItsWay'
    <2>1. UNCHANGED <<maxHops, floodVars>>
        BY <1>8, ZenonT(60) DEF ReceiveEcho, AnswerEcho
    <2> QED
        BY <1>6, <2>1, Zenon
<1>9. CASE UNCHANGED meshFloodVars
    BY <1>6, <1>9 DEF meshFloodVars
<1> QED
    BY <1>4, <1>5, <1>7, <1>8, <1>9, Zenon DEF FloodNext

\* Nodes only go forward to newer orders of a trader, and none that knows the newest
\* fails to pass it on, in any mesh and however packets are delayed, repeated or
\* lost (on_receive, validate_order).
THEOREM NewestPassedOn ==
    ASSUME Configured
    PROVE  FloodSpec => FloodsDeliver
<1>1. FloodInit => WayInv
    BY InitWay
<1>2. WayInv /\ [FloodNext]_meshFloodVars => WayInv'
    BY NextWay
<1>3. WayInv /\ WayInv' /\ [FloodNext]_meshFloodVars => [TakesOnlyNewer /\ NewestOnItsWay']_meshFloodVars
    BY StepsTakeOnlyNewer, Zenon DEF WayInv
<1> QED
    BY <1>1, <1>2, <1>3, PTL DEF FloodSpec, FloodsDeliver
=============================================================================
