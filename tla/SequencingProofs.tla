-------------------------- MODULE SequencingProofs --------------------------
(***************************************************************************)
(* What sequencing keeps, for every set of nodes, orders and floods, every *)
(* capacity and every quorum: an order is in one place of a node and is    *)
(* applied at most once, and a resolution is decided by evidence and not   *)
(* by the order of arrival (SequencedByEvidence); no flush, divergence or  *)
(* timeout loses an order (NothingLost).                                   *)
(*                                                                         *)
(* SequenceByEvidence is not inductive.  SequencingInv adds the shapes of  *)
(* the variables, that a flush finds something pending and that the loop   *)
(* holds a batch only while it waits, that evidence is a flood's, and that *)
(* a batch is sorted by the evidence the loop still holds.                 *)
(***************************************************************************)
EXTENDS Sequencing, FiniteSetTheorems, WellFoundedInduction, TLAPS

Witness == [hop : {a.hop : a \in Arrivals}, at : Int]
Evidence == UNION {[D -> Witness] : D \in SUBSET Orders}
Entry == [order : Orders, by : {"quorum", "timeout"}]
Voter == Nodes \union {Origin}

Loop == [stage : {"sleep", "query", "wait"}, todo : Seq(Orders),
         evidence : Evidence, resolved : Seq(Orders)]

\* What the nodes hold.
NodeShapes ==
    /\ pending \in [Nodes -> Seq(Orders)]
    /\ loop \in [Nodes -> Loop]
    /\ heard \in [Nodes -> SUBSET [flood : Arrivals, anomalous : BOOLEAN]]
    /\ applied \in [Nodes -> Seq(Entry)]
    /\ \A n \in Nodes : \A f \in heard[n] : f.flood.node = n

\* What is under way to a quorum.
QuorumShapes ==
    /\ outbox \in [Nodes -> Seq(Batches)]
    /\ proposals \subseteq [to : Nodes, batch : Batches, reporter : Voter]
    /\ votes \in [Nodes -> SUBSET [batch : Batches, reporter : Voter]]
    /\ confirmed \in [Nodes -> Seq(Batches)]
    /\ \A n \in Nodes : Len(confirmed[n]) <= Capacity
    /\ faults \in 0..MaxFaults

OrdersOf(entries) == [i \in DOMAIN entries |-> entries[i].order]

\* Three sequences that hold every order at most once between them.
Apart(p, r, a) ==
    /\ IsInjective(p) /\ IsInjective(r) /\ IsInjective(a)
    /\ ToSet(p) \intersect ToSet(r) = {}
    /\ ToSet(p) \intersect ToSet(a) = {}
    /\ ToSet(r) \intersect ToSet(a) = {}

\* Evidence is what a measured flood of the order says.
Witnessed(e) ==
    \A o \in DOMAIN e : \E a \in Arrivals :
        a.order = o /\ a.at \in Int /\ e[o] = [hop |-> a.hop, at |-> a.at]

\* A sequence in which evidence decides wherever there is some.
Ranked(r, e) ==
    \A i, j \in DOMAIN r :
        i < j /\ r[j] \in DOMAIN e =>
            r[i] \in DOMAIN e /\ ~EarlierByEvidence(r[j], e[r[j]], r[i], e[r[i]])

\* A flush loop l at a node with the queue p.
LoopSound(p, l) ==
    /\ l.stage = "query" => p # <<>>
    /\ l.stage = "wait" <=> l.resolved # <<>>
    /\ Witnessed(l.evidence)
    /\ l.resolved \in SetToSeqs(ToSet(l.resolved))
    /\ Transitive(l.resolved, l.evidence) => Ranked(l.resolved, l.evidence)

NodesSound ==
    \A n \in Nodes :
        /\ Apart(pending[n], loop[n].resolved, OrdersOf(applied[n]))
        /\ LoopSound(pending[n], loop[n])

SequencingInv == NodeShapes /\ QuorumShapes /\ NodesSound

-----------------------------------------------------------------------------
\* Adding one element to a sequence.
LEMMA AppendFacts ==
    ASSUME NEW S, NEW s \in Seq(S), NEW x \in S
    PROVE  /\ Append(s, x) \in Seq(S) /\ Append(s, x) # <<>>
           /\ ToSet(Append(s, x)) = ToSet(s) \union {x}
           /\ IsInjective(s) /\ x \notin ToSet(s) => IsInjective(Append(s, x))
<1> DEFINE t == Append(s, x)
<1>1. /\ t \in Seq(S) /\ Len(s) \in Nat /\ Len(t) = Len(s) + 1
      /\ DOMAIN s = 1..Len(s) /\ DOMAIN t = 1..(Len(s) + 1)
      /\ t[Len(s) + 1] = x /\ \A i \in 1..Len(s) : t[i] = s[i]
    OBVIOUS
<1> HIDE DEF t
<1>2. t # <<>>
    BY <1>1
<1>3. ToSet(t) = ToSet(s) \union {x}
    BY <1>1 DEF ToSet
<1>4. ASSUME IsInjective(s), x \notin ToSet(s)
      PROVE  IsInjective(t)
    <2>1. \A i \in 1..Len(s) : s[i] # x
        BY <1>1, <1>4 DEF ToSet
    <2> QED
        BY <1>1, <1>4, <2>1 DEF IsInjective
<1> QED
    BY <1>1, <1>2, <1>3, <1>4 DEF t

\* One sequence after another.
LEMMA ConcatFacts ==
    ASSUME NEW S, NEW s \in Seq(S), NEW u \in Seq(S)
    PROVE  /\ s \o u \in Seq(S) /\ (s # <<>> \/ u # <<>> => s \o u # <<>>)
           /\ ToSet(s \o u) = ToSet(s) \union ToSet(u)
           /\ IsInjective(s) /\ IsInjective(u) /\ ToSet(s) \intersect ToSet(u) = {}
                => IsInjective(s \o u)
<1> DEFINE t == s \o u
<1>1. /\ t \in Seq(S) /\ Len(s) \in Nat /\ Len(u) \in Nat /\ Len(t) = Len(s) + Len(u)
      /\ DOMAIN s = 1..Len(s) /\ DOMAIN u = 1..Len(u) /\ DOMAIN t = 1..(Len(s) + Len(u))
      /\ \A i \in 1..Len(s) : t[i] = s[i]
      /\ \A i \in 1..Len(u) : t[Len(s) + i] = u[i]
    OBVIOUS
<1>2. s # <<>> \/ u # <<>> => t # <<>>
    OBVIOUS
<1> HIDE DEF t
<1>3. \A i \in DOMAIN t : i \in 1..Len(s) \/ (i - Len(s) \in 1..Len(u) /\ t[i] = u[i - Len(s)])
    <2>1. TAKE i \in DOMAIN t
    <2>2. CASE i <= Len(s)
        BY <1>1, <2>1, <2>2
    <2>3. CASE i > Len(s)
        <3>1. i - Len(s) \in 1..Len(u) /\ i = Len(s) + (i - Len(s))
            BY <1>1, <2>1, <2>3
        <3> QED
            BY <1>1, <3>1
    <2> QED
        BY <1>1, <2>1, <2>2, <2>3
<1>4. ToSet(t) = ToSet(s) \union ToSet(u)
    <2>1. ToSet(t) \subseteq ToSet(s) \union ToSet(u)
        BY <1>1, <1>3 DEF ToSet
    <2>2. ToSet(s) \subseteq ToSet(t)
        BY <1>1 DEF ToSet
    <2>3. ASSUME NEW i \in 1..Len(u)
          PROVE  Len(s) + i \in DOMAIN t
        BY <1>1
    <2>4. ToSet(u) \subseteq ToSet(t)
        BY <1>1, <2>3, ZenonT(60) DEF ToSet
    <2> QED
        BY <2>1, <2>2, <2>4
<1>5. ASSUME IsInjective(s), IsInjective(u), ToSet(s) \intersect ToSet(u) = {},
             NEW i \in DOMAIN t, NEW j \in DOMAIN t, t[i] = t[j]
      PROVE  i = j
    <2>1. \A k \in 1..Len(s), l \in 1..Len(u) : s[k] # u[l]
        BY <1>1, <1>5, Zenon DEF ToSet
    <2>2. CASE i \in 1..Len(s) /\ j \in 1..Len(s)
        BY <1>1, <1>5, <2>2 DEF IsInjective
    <2>3. CASE i \in 1..Len(s) /\ j \notin 1..Len(s)
        BY <1>1, <1>3, <1>5, <2>1, <2>3
    <2>4. CASE i \notin 1..Len(s) /\ j \in 1..Len(s)
        BY <1>1, <1>3, <1>5, <2>1, <2>4
    <2>5. CASE i \notin 1..Len(s) /\ j \notin 1..Len(s)
        <3>1. i - Len(s) = j - Len(s)
            BY <1>1, <1>3, <1>5, <2>5 DEF IsInjective
        <3> QED
            BY <1>1, <3>1
    <2> QED
        BY <2>2, <2>3, <2>4, <2>5
<1>6. IsInjective(s) /\ IsInjective(u) /\ ToSet(s) \intersect ToSet(u) = {} => IsInjective(t)
    BY <1>5 DEF IsInjective
<1> QED
    BY <1>1, <1>2, <1>4, <1>6 DEF t

\* The sequences that hold the elements of a set of orders once each.
LEMMA SetToSeqsFacts ==
    ASSUME NEW S \in SUBSET Orders, NEW r \in SetToSeqs(S)
    PROVE  /\ r \in Seq(S) /\ r \in Seq(Orders) /\ IsInjective(r) /\ ToSet(r) = S
           /\ Cardinality(S) \in Nat /\ DOMAIN r = 1..Cardinality(S)
           /\ S # {} => r # <<>>
<1>1. IsFiniteSet(S)
    BY OrdersAssumption, FS_Subset
<1>2. Cardinality(S) \in Nat
    BY <1>1, FS_CardinalityType
<1>3. /\ r \in [1..Cardinality(S) -> S] /\ IsInjective(r)
      /\ \A t \in S : \E i \in 1..Cardinality(S) : r[i] = t
    BY DEF SetToSeqs, Bijection, Injection, Surjection
<1>4. r \in Seq(S) /\ DOMAIN r = 1..Cardinality(S)
    BY <1>2, <1>3
<1>5. r \in Seq(Orders)
    BY <1>4
<1>6. ToSet(r) = S
    BY <1>3 DEF ToSet
<1>7. ToSet(<<>>) = {}
    BY DEF ToSet
<1>8. S # {} => r # <<>>
    BY <1>6, <1>7
<1> QED
    BY <1>2, <1>3, <1>4, <1>5, <1>6, <1>8

\* No order in it.
LEMMA EmptyFacts ==
    /\ <<>> \in SetToSeqs(ToSet(<<>>)) /\ ToSet(<<>>) = {} /\ IsInjective(<<>>)
    /\ \A e : Ranked(<<>>, e)
<1>1. ToSet(<<>>) = {} /\ IsInjective(<<>>)
    BY DEF ToSet, IsInjective
<1>2. Cardinality({}) = 0
    BY FS_EmptySet
<1>3. <<>> \in [1..0 -> {}]
    OBVIOUS
<1>4. <<>> \in SetToSeqs(ToSet(<<>>))
    BY <1>1, <1>2, <1>3, Zenon DEF SetToSeqs, Bijection, Injection, Surjection
<1>5. \A e : Ranked(<<>>, e)
    BY DEF Ranked
<1> QED
    BY <1>1, <1>4, <1>5

\* A set of natural numbers has a least one.
LEMMA LeastMember ==
    ASSUME NEW T \in SUBSET Nat, T # {}
    PROVE  \E n \in T : \A m \in T : n <= m
<1>1. PICK n \in T : \A m \in T : ~(<<m, n>> \in OpToRel(<, Nat))
    BY NatLessThanWellFounded, WFMin, Zenon
<1>2. \A m \in T : ~(m < n)
    BY <1>1, Zenon DEF OpToRel
<1> QED
    BY <1>2

-----------------------------------------------------------------------------
\* An order is at its position.
LEMMA PositionFacts ==
    ASSUME NEW q \in Seq(Orders), NEW o \in ToSet(q)
    PROVE  Position(q, o) \in Nat /\ q[Position(q, o)] = o
<1>1. \E i \in DOMAIN q : q[i] = o
    BY DEF ToSet
<1>2. Position(q, o) \in DOMAIN q /\ q[Position(q, o)] = o
    BY <1>1 DEF Position
<1> QED
    BY <1>2

\* Whether a comparison is transitive depends on the evidence alone: it is cyclic
\* only on orders that all have some.
LEMMA TransitiveByEvidence ==
    ASSUME NEW q \in Seq(Orders), NEW r \in Seq(Orders), ToSet(q) = ToSet(r), NEW e,
           Transitive(r, e)
    PROVE  Transitive(q, e)
<1> SUFFICES ASSUME NEW a \in ToSet(q), NEW b \in ToSet(q), NEW c \in ToSet(q),
                    Cardinality({a, b, c}) = 3, Before(q, e, a, b), Before(q, e, b, c)
             PROVE  Before(q, e, a, c)
    BY DEF Transitive
<1>1. /\ Position(q, a) \in Nat /\ Position(q, b) \in Nat /\ Position(q, c) \in Nat
    BY PositionFacts
<1>2. CASE {a, b, c} \subseteq DOMAIN e
    <2>1. Before(r, e, a, b) /\ Before(r, e, b, c)
        BY <1>2 DEF Before
    <2>2. Before(r, e, a, c)
        BY <2>1 DEF Transitive
    <2> QED
        BY <1>2, <2>2 DEF Before
<1>3. CASE a \notin DOMAIN e
    BY <1>1, <1>3 DEF Before
<1>4. CASE a \in DOMAIN e /\ c \notin DOMAIN e
    BY <1>4 DEF Before
<1>5. CASE b \notin DOMAIN e /\ c \in DOMAIN e
    BY <1>5 DEF Before
<1> QED
    BY <1>2, <1>3, <1>4, <1>5

\* The flush: what sort_by makes of a queue holds the orders of the queue, and is
\* ranked by the evidence.
LEMMA ResolutionFacts ==
    ASSUME NEW q \in Seq(Orders), NEW e, NEW r \in Resolutions(q, e)
    PROVE  /\ r \in Seq(Orders) /\ IsInjective(r) /\ ToSet(r) = ToSet(q)
           /\ r \in SetToSeqs(ToSet(r))
           /\ q # <<>> => r # <<>>
           /\ Transitive(r, e) => Ranked(r, e)
<1>1. ToSet(q) \subseteq Orders
    BY DEF ToSet
<1>2. r \in SetToSeqs(ToSet(q))
    BY DEF Resolutions
<1>3. r \in Seq(Orders) /\ IsInjective(r) /\ ToSet(r) = ToSet(q)
    BY <1>1, <1>2, SetToSeqsFacts
<1>4. ASSUME q # <<>> PROVE ToSet(q) # {}
    <2>1. 1 \in DOMAIN q
        BY <1>4
    <2> QED
        BY <2>1 DEF ToSet
<1>5. q # <<>> => r # <<>>
    BY <1>1, <1>2, <1>4, SetToSeqsFacts
<1>6. ASSUME Transitive(r, e) PROVE Ranked(r, e)
    <2>1. Transitive(q, e)
        BY <1>3, <1>6, TransitiveByEvidence
    <2>2. \A i, j \in DOMAIN r : i < j => ~Before(q, e, r[j], r[i])
        BY <2>1 DEF Resolutions
    <2> SUFFICES ASSUME NEW i \in DOMAIN r, NEW j \in DOMAIN r, i < j, r[j] \in DOMAIN e
                 PROVE  r[i] \in DOMAIN e /\ ~EarlierByEvidence(r[j], e[r[j]], r[i], e[r[i]])
        BY DEF Ranked
    <2>3. ~Before(q, e, r[j], r[i])
        BY <2>2
    <2> QED
        BY <2>3 DEF Before
<1> QED
    BY <1>2, <1>3, <1>5, <1>6

\* Two measured orders: one comes before the other, and one that is a window later
\* does not come first.
LEMMA EvidenceCompares ==
    ASSUME NEW e, Witnessed(e), NEW a \in DOMAIN e, NEW b \in DOMAIN e
    PROVE  /\ e[a].at \in Int /\ e[b].at \in Int
           /\ a # b => \/ EarlierByEvidence(a, e[a], b, e[b])
                       \/ EarlierByEvidence(b, e[b], a, e[a])
           /\ ~EarlierByEvidence(a, e[a], b, e[b]) => e[b].at < e[a].at + AmbiguityWindow
<1>1. PICK f \in Arrivals : f.order = a /\ f.at \in Int /\ e[a] = [hop |-> f.hop, at |-> f.at]
    BY DEF Witnessed
<1>2. PICK g \in Arrivals : g.order = b /\ g.at \in Int /\ e[b] = [hop |-> g.hop, at |-> g.at]
    BY DEF Witnessed
<1> DEFINE ka == TieBreakKey[<<a, e[a].hop>>]
<1> DEFINE kb == TieBreakKey[<<b, e[b].hop>>]
<1> DEFINE s == e[a].at
<1> DEFINE t == e[b].at
<1>3. s \in Int /\ t \in Int
    BY <1>1, <1>2
<1>4. e[a].hop = f.hop /\ e[b].hop = g.hop
    BY <1>1, <1>2
<1>5. ka \in Int /\ kb \in Int /\ (ka = kb => a = b)
    BY <1>1, <1>2, <1>4, TieBreakAssumption
<1>6. /\ EarlierByEvidence(a, e[a], b, e[b])
           <=> IF Distance(s, t) >= AmbiguityWindow THEN s < t ELSE ka < kb
      /\ EarlierByEvidence(b, e[b], a, e[a])
           <=> IF Distance(t, s) >= AmbiguityWindow THEN t < s ELSE kb < ka
    BY DEF EarlierByEvidence
<1> HIDE DEF ka, kb, s, t
<1>7. /\ a # b => \/ EarlierByEvidence(a, e[a], b, e[b])
                  \/ EarlierByEvidence(b, e[b], a, e[a])
      /\ ~EarlierByEvidence(a, e[a], b, e[b]) => t < s + AmbiguityWindow
    BY <1>3, <1>5, <1>6, LimitsAssumption DEF Distance
<1> QED
    BY <1>3, <1>7 DEF s, t

\* Two rankings of the same orders by evidence for all of them are the same: at the
\* first place where they differed each would have the other's order later, and of
\* two orders one comes before the other.
LEMMA RankingsAgree ==
    ASSUME NEW S \in SUBSET Orders, NEW r \in SetToSeqs(S), NEW s \in SetToSeqs(S),
           NEW e, Witnessed(e), DOMAIN e = S, Ranked(r, e), Ranked(s, e)
    PROVE  r = s
<1> DEFINE c == Cardinality(S)
<1>1. /\ c \in Nat /\ DOMAIN r = 1..c /\ DOMAIN s = 1..c /\ ToSet(r) = S /\ ToSet(s) = S
      /\ r \in Seq(S) /\ s \in Seq(S) /\ IsInjective(r) /\ IsInjective(s)
    BY SetToSeqsFacts
<1> HIDE DEF c
<1> DEFINE Differ == {i \in 1..c : r[i] # s[i]}
<1>2. ASSUME Differ # {} PROVE FALSE
    <2>1. PICK i \in Differ : \A m \in Differ : i <= m
        <3>1. Differ \in SUBSET Nat
            BY <1>1
        <3> HIDE DEF Differ
        <3> QED
            BY <1>2, <3>1, LeastMember
    <2>2. i \in 1..c /\ r[i] # s[i] /\ r[i] \in S /\ s[i] \in S
        BY <1>1, <2>1
    <2>3. \A m \in 1..c : m < i => r[m] = s[m]
        BY <1>1, <2>1, <2>2
    <2>4. PICK k \in 1..c : r[k] = s[i]
        BY <1>1, <2>2 DEF ToSet
    <2>5. PICK l \in 1..c : s[l] = r[i]
        BY <1>1, <2>2 DEF ToSet
    <2>6. k > i
        <3>1. k < i => s[k] = s[i]
            BY <2>3, <2>4
        <3> QED
            BY <1>1, <2>2, <2>4, <3>1 DEF IsInjective
    <2>7. l > i
        <3>1. l < i => r[l] = r[i]
            BY <2>3, <2>5
        <3> QED
            BY <1>1, <2>2, <2>5, <3>1 DEF IsInjective
    <2>8. ~EarlierByEvidence(s[i], e[s[i]], r[i], e[r[i]])
        BY <1>1, <2>2, <2>4, <2>6 DEF Ranked
    <2>9. ~EarlierByEvidence(r[i], e[r[i]], s[i], e[s[i]])
        BY <1>1, <2>2, <2>5, <2>7 DEF Ranked
    <2> QED
        BY <2>2, <2>8, <2>9, EvidenceCompares
<1> QED
    BY <1>1, <1>2

-----------------------------------------------------------------------------
\* The orders of the entries applied.
LEMMA OrdersOfFacts ==
    ASSUME NEW s \in Seq(Entry)
    PROVE  /\ OrdersOf(s) \in Seq(Orders) /\ DOMAIN OrdersOf(s) = DOMAIN s
           /\ ToSet(OrdersOf(s)) = {a.order : a \in ToSet(s)}
<1>1. \A i \in DOMAIN s : s[i].order \in Orders
    <2>1. \A i \in DOMAIN s : s[i] \in Entry
        OBVIOUS
    <2> QED
        BY <2>1 DEF Entry
<1>2. OrdersOf(s) \in Seq(Orders) /\ DOMAIN OrdersOf(s) = DOMAIN s
    BY <1>1 DEF OrdersOf
<1>3. ToSet(OrdersOf(s)) = {a.order : a \in ToSet(s)}
    BY DEF OrdersOf, ToSet
<1> QED
    BY <1>2, <1>3

\* A node's state, the loop taken apart.
LEMMA NodeFacts ==
    ASSUME NodeShapes, NEW n \in Nodes
    PROVE  /\ pending[n] \in Seq(Orders) /\ loop[n] \in Loop /\ applied[n] \in Seq(Entry)
           /\ loop[n].stage \in {"sleep", "query", "wait"}
           /\ loop[n].todo \in Seq(Orders) /\ loop[n].resolved \in Seq(Orders)
           /\ loop[n].evidence \in Evidence
           /\ DOMAIN loop[n].evidence \subseteq Orders
           /\ Applied(n) = ToSet(OrdersOf(applied[n]))
<1>1. pending[n] \in Seq(Orders) /\ loop[n] \in Loop /\ applied[n] \in Seq(Entry)
    BY DEF NodeShapes
<1>2. /\ loop[n].stage \in {"sleep", "query", "wait"}
      /\ loop[n].todo \in Seq(Orders) /\ loop[n].resolved \in Seq(Orders)
      /\ loop[n].evidence \in Evidence
    BY <1>1 DEF Loop
<1>3. DOMAIN loop[n].evidence \subseteq Orders
    BY <1>2 DEF Evidence
<1>4. Applied(n) = ToSet(OrdersOf(applied[n]))
    BY <1>1, OrdersOfFacts DEF Applied
<1> QED
    BY <1>1, <1>2, <1>3, <1>4

\* SequencingInv is stronger than the invariant of the runs.
LEMMA InvImplies == SequencingInv => SequenceByEvidence
<1> SUFFICES ASSUME SequencingInv PROVE SequenceByEvidence
    OBVIOUS
<1>1. NodeShapes /\ QuorumShapes
    BY DEF SequencingInv
<1>2. ASSUME NEW n \in Nodes
      PROVE  /\ Apart(pending[n], loop[n].resolved, OrdersOf(applied[n]))
             /\ LoopSound(pending[n], loop[n])
    BY DEF SequencingInv, NodesSound
<1>3. TypeOK
    <2>1. ASSUME NEW n \in Nodes
          PROVE  /\ pending[n] \in Batches \union {<<>>}
                 /\ loop[n].stage \in {"sleep", "query", "wait"}
                 /\ loop[n].resolved \in Batches \union {<<>>}
                 /\ DOMAIN loop[n].evidence \subseteq Orders
        BY <1>1, <1>2, NodeFacts DEF Batches, Apart
    <2>2. ASSUME NEW n \in Nodes, NEW f \in heard[n]
          PROVE  f.flood \in Arrivals /\ f.flood.node = n
        BY <1>1 DEF NodeShapes
    <2>3. ASSUME NEW n \in Nodes
          PROVE  ToSet(outbox[n]) \subseteq Batches
        <3>1. outbox[n] \in Seq(Batches)
            BY <1>1 DEF QuorumShapes
        <3> QED
            BY <3>1 DEF ToSet
    <2>4. ASSUME NEW n \in Nodes, NEW v \in votes[n]
          PROVE  v.batch \in Batches /\ v.reporter \in Nodes \union {Origin}
        BY <1>1 DEF QuorumShapes, Voter
    <2>5. ASSUME NEW n \in Nodes
          PROVE  ToSet(confirmed[n]) \subseteq Batches /\ Len(confirmed[n]) <= Capacity
        <3>1. confirmed[n] \in Seq(Batches) /\ Len(confirmed[n]) <= Capacity
            BY <1>1 DEF QuorumShapes
        <3> QED
            BY <3>1 DEF ToSet
    <2>6. ASSUME NEW p \in proposals
          PROVE  p.to \in Nodes /\ p.batch \in Batches
        BY <1>1 DEF QuorumShapes
    <2>7. faults \in 0..MaxFaults
        BY <1>1 DEF QuorumShapes
    <2> QED
        BY <2>1, <2>2, <2>3, <2>4, <2>5, <2>6, <2>7, Zenon DEF TypeOK
<1>4. OneCopy
    <2> SUFFICES ASSUME NEW n \in Nodes
                 PROVE  IsInjective(pending[n] \o loop[n].resolved
                            \o [i \in DOMAIN applied[n] |-> applied[n][i].order])
        BY DEF OneCopy
    <2> DEFINE p == pending[n]
    <2> DEFINE r == loop[n].resolved
    <2> DEFINE a == OrdersOf(applied[n])
    <2>1. p \in Seq(Orders) /\ r \in Seq(Orders) /\ a \in Seq(Orders)
        BY <1>1, NodeFacts, OrdersOfFacts
    <2>2. Apart(p, r, a)
        BY <1>2
    <2> HIDE DEF p, r, a
    <2>3. p \o r \in Seq(Orders) /\ ToSet(p \o r) = ToSet(p) \union ToSet(r) /\ IsInjective(p \o r)
        BY <2>1, <2>2, ConcatFacts DEF Apart
    <2>4. ToSet(p \o r) \intersect ToSet(a) = {}
        BY <2>2, <2>3 DEF Apart
    <2>5. IsInjective(a)
        BY <2>2 DEF Apart
    <2> DEFINE q == p \o r
    <2> HIDE DEF q
    <2>6. q \in Seq(Orders) /\ IsInjective(q) /\ ToSet(q) \intersect ToSet(a) = {}
        BY <2>3, <2>4 DEF q
    <2>7. IsInjective(q \o a)
        BY <2>1, <2>5, <2>6, ConcatFacts
    <2> QED
        BY <2>7, Zenon DEF p, q, r, a, OrdersOf
<1>5. SameEvidenceSameSequence
    <2> SUFFICES ASSUME NEW m \in Nodes, NEW n \in Nodes,
                        SameKey(loop[m].resolved, loop[n].resolved),
                        DOMAIN loop[m].evidence = ToSet(loop[m].resolved),
                        loop[n].evidence = loop[m].evidence,
                        Transitive(loop[m].resolved, loop[m].evidence)
                 PROVE  loop[m].resolved = loop[n].resolved
        BY Zenon DEF SameEvidenceSameSequence
    <2> DEFINE r == loop[m].resolved
    <2> DEFINE s == loop[n].resolved
    <2> DEFINE e == loop[m].evidence
    <2>1. r \in Seq(Orders) /\ s \in Seq(Orders) /\ DOMAIN e \subseteq Orders
        BY <1>1, NodeFacts
    <2>2. ToSet(r) = ToSet(s) /\ loop[n].evidence = e /\ DOMAIN e = ToSet(r)
        BY Zenon DEF SameKey
    <2>3. /\ Witnessed(e) /\ r \in SetToSeqs(ToSet(r)) /\ s \in SetToSeqs(ToSet(s))
          /\ Transitive(r, e) => Ranked(r, e)
          /\ Transitive(s, e) => Ranked(s, e)
        BY <1>2, <2>2 DEF LoopSound
    <2>4. Transitive(r, e)
        OBVIOUS
    <2> HIDE DEF r, s, e
    <2>5. Transitive(s, e)
        BY <2>1, <2>2, <2>4, TransitiveByEvidence
    <2>6. r = s
        BY <2>1, <2>2, <2>3, <2>4, <2>5, RankingsAgree, ZenonT(60)
    <2> QED
        BY <2>6 DEF r, s
<1>6. EvidenceDecides
    <2> SUFFICES ASSUME NEW n \in Nodes, Transitive(loop[n].resolved, loop[n].evidence),
                        NEW i \in DOMAIN loop[n].resolved, NEW j \in 1..i,
                        loop[n].resolved[i] \in DOMAIN loop[n].evidence
                 PROVE  /\ loop[n].resolved[j] \in DOMAIN loop[n].evidence
                        /\ loop[n].evidence[loop[n].resolved[j]].at
                             < loop[n].evidence[loop[n].resolved[i]].at + AmbiguityWindow
        BY Zenon DEF EvidenceDecides
    <2> DEFINE r == loop[n].resolved
    <2> DEFINE e == loop[n].evidence
    <2>1. r \in Seq(Orders) /\ Witnessed(e) /\ Ranked(r, e)
        BY <1>1, <1>2, NodeFacts DEF LoopSound
    <2>2. i \in DOMAIN r /\ r[i] \in DOMAIN e
        BY Zenon
    <2> HIDE DEF r, e
    <2>3. CASE j = i
        <3>1. e[r[i]].at \in Int
            BY <2>1, <2>2, EvidenceCompares, Zenon
        <3> QED
            BY <2>2, <2>3, <3>1, LimitsAssumption DEF r, e
    <2>4. CASE j # i
        <3>1. j \in DOMAIN r /\ j < i
            BY <2>1, <2>2, <2>4
        <3>2. r[j] \in DOMAIN e /\ ~EarlierByEvidence(r[i], e[r[i]], r[j], e[r[j]])
            BY <2>1, <2>2, <3>1, Zenon DEF Ranked
        <3>3. e[r[j]].at < e[r[i]].at + AmbiguityWindow
            BY <2>1, <2>2, <3>2, EvidenceCompares
        <3> QED
            BY <3>2, <3>3 DEF r, e
    <2> QED
        BY <2>3, <2>4
<1> QED
    BY <1>3, <1>4, <1>5, <1>6 DEF SequenceByEvidence

-----------------------------------------------------------------------------
\* The start: every node is asleep and has queued what has reached it.
LEMMA InitInv == Init => SequencingInv
<1> SUFFICES ASSUME Init PROVE SequencingInv
    OBVIOUS
<1>1. /\ heard = [n \in Nodes |->
           {[flood |-> a, anomalous |-> FALSE] : a \in {f \in Arrived : f.node = n}}]
      /\ pending \in [Nodes -> UNION {SetToSeqs(S) : S \in SUBSET Orders}]
      /\ loop = [n \in Nodes |-> Asleep] /\ applied = [n \in Nodes |-> <<>>]
    BY DEF Init
<1>2. /\ outbox = [n \in Nodes |-> <<>>] /\ votes = [n \in Nodes |-> {}]
      /\ confirmed = [n \in Nodes |-> <<>>] /\ faults = 0
    BY DEF Init
<1>3. PICK batch \in SetToSeqs(Earlier) :
         proposals = {[to |-> n, batch |-> batch, reporter |-> Origin] : n \in Nodes}
    BY DEF Init
<1>4. ASSUME NEW n \in Nodes PROVE pending[n] \in Seq(Orders) /\ IsInjective(pending[n])
    BY <1>1, SetToSeqsFacts
<1>5. batch \in Batches
    BY Earlier \in SUBSET Orders, OrdersAssumption, SetToSeqsFacts DEF Batches, Orders
<1>6. Asleep \in Loop
    <2>1. <<>> \in [{} -> Witness] /\ {} \in SUBSET Orders
        OBVIOUS
    <2> QED
        BY <2>1 DEF Asleep, Loop, Evidence
<1>7. NodeShapes
    <2>1. pending \in [Nodes -> Seq(Orders)]
        BY <1>1, <1>4
    <2>2. loop \in [Nodes -> Loop] /\ applied \in [Nodes -> Seq(Entry)]
        BY <1>1, <1>6
    <2>3. ASSUME NEW n \in Nodes, NEW f \in heard[n]
          PROVE  f \in [flood : Arrivals, anomalous : BOOLEAN] /\ f.flood.node = n
        <3>1. PICK a \in Arrived : a.node = n /\ f = [flood |-> a, anomalous |-> FALSE]
            BY <1>1
        <3> QED
            BY <3>1, ArrivalsAssumption
    <2>4. heard \in [Nodes -> SUBSET [flood : Arrivals, anomalous : BOOLEAN]]
        BY <1>1, <2>3
    <2> QED
        BY <2>1, <2>2, <2>3, <2>4 DEF NodeShapes
<1>8. QuorumShapes
    <2>1. proposals \subseteq [to : Nodes, batch : Batches, reporter : Voter]
        BY <1>3, <1>5 DEF Voter
    <2>2. /\ outbox \in [Nodes -> Seq(Batches)] /\ confirmed \in [Nodes -> Seq(Batches)]
          /\ votes \in [Nodes -> SUBSET [batch : Batches, reporter : Voter]]
          /\ faults \in 0..MaxFaults /\ \A n \in Nodes : Len(confirmed[n]) <= Capacity
        BY <1>2, LimitsAssumption
    <2> QED
        BY <2>1, <2>2 DEF QuorumShapes
<1>9. ASSUME NEW n \in Nodes
      PROVE  /\ Apart(pending[n], loop[n].resolved, OrdersOf(applied[n]))
             /\ LoopSound(pending[n], loop[n])
    <2>1. /\ loop[n].stage = "sleep" /\ loop[n].resolved = <<>> /\ loop[n].evidence = <<>>
          /\ applied[n] = <<>>
        BY <1>1 DEF Asleep
    <2>2. OrdersOf(applied[n]) = <<>>
        BY <2>1 DEF OrdersOf
    <2>3. Apart(pending[n], loop[n].resolved, OrdersOf(applied[n]))
        BY <1>4, <2>1, <2>2, EmptyFacts DEF Apart
    <2>4. Witnessed(<<>>)
        BY DEF Witnessed
    <2>5. LoopSound(pending[n], loop[n])
        BY <2>1, <2>4, EmptyFacts, Zenon DEF LoopSound
    <2> QED
        BY <2>3, <2>5
<1> QED
    BY <1>7, <1>8, <1>9 DEF SequencingInv, NodesSound

\* A step at one node leaves the others as they are.
LEMMA OneNodeMoves ==
    ASSUME NodesSound, NEW n \in Nodes,
           \A m \in Nodes \ {n} :
               pending'[m] = pending[m] /\ loop'[m] = loop[m] /\ applied'[m] = applied[m],
           Apart(pending'[n], loop'[n].resolved, OrdersOf(applied'[n])),
           LoopSound(pending'[n], loop'[n])
    PROVE  NodesSound'
<1> SUFFICES ASSUME NEW m \in Nodes
             PROVE  /\ Apart(pending'[m], loop'[m].resolved, OrdersOf(applied'[m]))
                    /\ LoopSound(pending'[m], loop'[m])
    BY DEF NodesSound
<1>1. CASE m = n
    BY <1>1
<1>2. CASE m # n
    <2>1. /\ Apart(pending[m], loop[m].resolved, OrdersOf(applied[m]))
          /\ LoopSound(pending[m], loop[m])
        BY Zenon DEF NodesSound
    <2> QED
        BY <1>2, <2>1
<1> QED
    BY <1>1, <1>2

\* The queue of a node takes an order that the node does not know.
LEMMA QueueKeeps ==
    ASSUME SequencingInv, NEW n \in Nodes, NEW o \in Orders, o \notin Known(n), Queue(n, o),
           UNCHANGED <<loop, applied>>
    PROVE  pending' \in [Nodes -> Seq(Orders)] /\ NodesSound'
<1>1. NodeShapes /\ NodesSound
    BY DEF SequencingInv
<1>2. /\ pending[n] \in Seq(Orders) /\ pending \in [Nodes -> Seq(Orders)]
      /\ Applied(n) = ToSet(OrdersOf(applied[n]))
    BY <1>1, NodeFacts DEF NodeShapes
<1>3. /\ pending'[n] = Append(pending[n], o) /\ \A m \in Nodes \ {n} : pending'[m] = pending[m]
      /\ pending' = [pending EXCEPT ![n] = Append(pending[n], o)]
    BY <1>2 DEF Queue
<1>4. /\ pending'[n] \in Seq(Orders) /\ pending'[n] # <<>>
      /\ ToSet(pending'[n]) = ToSet(pending[n]) \union {o}
      /\ IsInjective(pending[n]) /\ o \notin ToSet(pending[n]) => IsInjective(pending'[n])
    BY <1>2, <1>3, AppendFacts
<1>5. /\ o \notin ToSet(pending[n]) /\ o \notin ToSet(loop[n].resolved)
      /\ o \notin ToSet(OrdersOf(applied[n]))
    BY <1>2 DEF Known, PendingData
<1>6. /\ Apart(pending[n], loop[n].resolved, OrdersOf(applied[n]))
      /\ LoopSound(pending[n], loop[n])
    BY <1>1, Zenon DEF NodesSound
<1>7. Apart(pending'[n], loop[n].resolved, OrdersOf(applied[n]))
    BY <1>4, <1>5, <1>6, Zenon DEF Apart
<1>8. LoopSound(pending'[n], loop[n])
    BY <1>4, <1>6 DEF LoopSound
<1>9. pending' \in [Nodes -> Seq(Orders)]
    BY <1>2, <1>3, <1>4
<1> QED
    BY <1>1, <1>3, <1>7, <1>8, <1>9, OneNodeMoves, Zenon

\* OrderBatchQuorum::record keeps the votes and the channel what they are.
LEMMA RecordKeeps ==
    ASSUME QuorumShapes, NEW n \in Nodes, NEW batch \in Batches, NEW reporter \in Voter,
           NEW expired, RecordBatchProposal(n, batch, reporter, expired)
    PROVE  /\ votes' \in [Nodes -> SUBSET [batch : Batches, reporter : Voter]]
           /\ confirmed' \in [Nodes -> Seq(Batches)]
           /\ \A m \in Nodes : Len(confirmed'[m]) <= Capacity
<1> DEFINE kept == (votes[n] \ expired) \union {[batch |-> batch, reporter |-> reporter]}
<1> DEFINE c == confirmed[n]
<1>1. votes' = [votes EXCEPT ![n] = kept]
    BY DEF RecordBatchProposal
<1>2. \/ confirmed' = [confirmed EXCEPT ![n] = Offer(c, batch)]
      \/ confirmed' = [confirmed EXCEPT ![n] = c]
    BY Zenon DEF RecordBatchProposal
<1>3. /\ votes \in [Nodes -> SUBSET [batch : Batches, reporter : Voter]]
      /\ confirmed \in [Nodes -> Seq(Batches)] /\ \A m \in Nodes : Len(confirmed[m]) <= Capacity
    BY DEF QuorumShapes
<1>4. Offer(c, batch) \in Seq(Batches) /\ Len(Offer(c, batch)) <= Capacity
    BY <1>3, LimitsAssumption DEF Offer
<1>5. votes' \in [Nodes -> SUBSET [batch : Batches, reporter : Voter]]
    BY <1>1, <1>3
<1> HIDE DEF kept
<1>6. PICK d \in Seq(Batches) : Len(d) <= Capacity /\ confirmed' = [confirmed EXCEPT ![n] = d]
    BY <1>2, <1>3, <1>4
<1> QED
    BY <1>3, <1>5, <1>6

-----------------------------------------------------------------------------
\* A client submits an order.
LEMMA SubmitKeeps ==
    ASSUME SequencingInv, NEW n \in Nodes, NEW o, Submit(n, o)
    PROVE  SequencingInv'
<1>1. /\ o \notin Known(n) /\ Queue(n, o) /\ <<n, o>> \in Submissions
      /\ UNCHANGED <<loop, heard, outbox, proposals, votes, confirmed, applied, faults>>
    BY DEF Submit
<1>2. o \in Orders
    BY <1>1 DEF Orders
<1>3. pending' \in [Nodes -> Seq(Orders)] /\ NodesSound'
    BY <1>1, <1>2, QueueKeeps
<1>4. NodeShapes'
    BY <1>1, <1>3 DEF SequencingInv, NodeShapes
<1>5. QuorumShapes'
    BY <1>1 DEF SequencingInv, QuorumShapes
<1> QED
    BY <1>3, <1>4, <1>5 DEF SequencingInv

\* A flood arrives.
LEMMA ArriveKeeps ==
    ASSUME SequencingInv, NEW a \in Arrivals, Arrive(a)
    PROVE  SequencingInv'
<1>1. /\ heard' = [heard EXCEPT ![a.node] = @ \union {[flood |-> a, anomalous |-> FALSE]}]
      /\ IF a.order \in Known(a.node) THEN UNCHANGED pending ELSE Queue(a.node, a.order)
      /\ UNCHANGED <<loop, outbox, proposals, votes, confirmed, applied, faults>>
    BY DEF Arrive
<1>2. a.node \in Nodes /\ a.order \in Orders
    BY ArrivalsAssumption
<1>3. NodeShapes /\ QuorumShapes /\ NodesSound
    BY DEF SequencingInv
<1>4. pending' \in [Nodes -> Seq(Orders)] /\ NodesSound'
    <2>1. CASE a.order \in Known(a.node)
        BY <1>1, <1>3, <2>1 DEF NodeShapes, NodesSound
    <2>2. CASE a.order \notin Known(a.node)
        BY <1>1, <1>2, <2>2, QueueKeeps
    <2> QED
        BY <2>1, <2>2
<1>5. /\ heard' \in [Nodes -> SUBSET [flood : Arrivals, anomalous : BOOLEAN]]
      /\ \A n \in Nodes : \A f \in heard'[n] : f.flood.node = n
    <2> DEFINE g == [flood |-> a, anomalous |-> FALSE]
    <2>1. g \in [flood : Arrivals, anomalous : BOOLEAN] /\ g.flood.node = a.node
        OBVIOUS
    <2>2. heard' = [heard EXCEPT ![a.node] = heard[a.node] \union {g}]
        BY <1>1
    <2> HIDE DEF g
    <2> QED
        BY <1>2, <1>3, <2>1, <2>2 DEF NodeShapes
<1>6. NodeShapes'
    BY <1>1, <1>3, <1>4, <1>5 DEF NodeShapes
<1>7. QuorumShapes'
    BY <1>1, <1>3 DEF QuorumShapes
<1> QED
    BY <1>4, <1>6, <1>7 DEF SequencingInv

\* A flood's transit turns out anomalous.
LEMMA MarkAnomalousKeeps ==
    ASSUME SequencingInv, NEW n \in Nodes, NEW f \in heard[n], MarkAnomalous(n, f)
    PROVE  SequencingInv'
<1>1. /\ heard' = [heard EXCEPT ![n] = (@ \ {f}) \union {[f EXCEPT !.anomalous = TRUE]}]
      /\ UNCHANGED <<pending, loop, outbox, proposals, votes, confirmed, applied, faults>>
    BY DEF MarkAnomalous
<1>2. NodeShapes /\ QuorumShapes /\ NodesSound
    BY DEF SequencingInv
<1>3. f \in [flood : Arrivals, anomalous : BOOLEAN] /\ f.flood.node = n
    BY <1>2 DEF NodeShapes
<1> DEFINE g == [f EXCEPT !.anomalous = TRUE]
<1>4. g \in [flood : Arrivals, anomalous : BOOLEAN] /\ g.flood.node = n
    BY <1>3, ZenonT(60)
<1> HIDE DEF g
<1>5. heard' = [heard EXCEPT ![n] = (heard[n] \ {f}) \union {g}]
    BY <1>1 DEF g
<1>6. /\ heard' \in [Nodes -> SUBSET [flood : Arrivals, anomalous : BOOLEAN]]
      /\ \A m \in Nodes : \A h \in heard'[m] : h.flood.node = m
    BY <1>2, <1>4, <1>5 DEF NodeShapes
<1>7. NodeShapes'
    BY <1>1, <1>2, <1>6 DEF NodeShapes
<1>8. QuorumShapes' /\ NodesSound'
    BY <1>1, <1>2 DEF QuorumShapes, NodesSound
<1> QED
    BY <1>7, <1>8 DEF SequencingInv

\* The loop of one node goes on to m with the batch it has, and nothing else changes.
LEMMA LoopKeeps ==
    ASSUME SequencingInv, NEW n \in Nodes, NEW m \in Loop,
           loop' = [loop EXCEPT ![n] = m], m.resolved = loop[n].resolved,
           LoopSound(pending[n], m),
           UNCHANGED <<pending, heard, outbox, proposals, votes, confirmed, applied, faults>>
    PROVE  SequencingInv'
<1>1. NodeShapes /\ QuorumShapes /\ NodesSound
    BY DEF SequencingInv
<1>2. loop \in [Nodes -> Loop]
    BY <1>1 DEF NodeShapes
<1>3. loop'[n] = m /\ \A k \in Nodes \ {n} : loop'[k] = loop[k]
    BY <1>2
<1>4. loop' \in [Nodes -> Loop]
    BY <1>2
<1>5. Apart(pending[n], m.resolved, OrdersOf(applied[n]))
    BY <1>1, Zenon DEF NodesSound
<1>6. NodesSound'
    BY <1>1, <1>3, <1>5, OneNodeMoves, Zenon
<1>7. NodeShapes'
    BY <1>1, <1>4, Zenon DEF NodeShapes
<1>8. QuorumShapes'
    BY <1>1, Zenon DEF QuorumShapes
<1> QED
    BY <1>6, <1>7, <1>8 DEF SequencingInv

\* Loops in the stages after the sleep.
LEMMA StageFacts ==
    ASSUME NEW e \in Evidence, NEW s \in Seq(Orders)
    PROVE  /\ Querying(s, e) \in Loop /\ Querying(s, e).stage = "query"
           /\ Querying(s, e).resolved = <<>> /\ Querying(s, e).evidence = e
           /\ Waiting(e, s) \in Loop /\ Waiting(e, s).stage = "wait"
           /\ Waiting(e, s).resolved = s /\ Waiting(e, s).evidence = e
           /\ Asleep \in Loop /\ Asleep.stage = "sleep"
           /\ Asleep.resolved = <<>> /\ Asleep.evidence = <<>>
<1>1. <<>> \in Evidence
    <2>1. <<>> \in [{} -> Witness] /\ {} \in SUBSET Orders
        OBVIOUS
    <2> QED
        BY <2>1, Zenon DEF Evidence
<1>2. <<>> \in Seq(Orders)
    OBVIOUS
<1> QED
    BY <1>1, <1>2 DEF Loop, Querying, Waiting, Asleep

\* A loop that asks with evidence from floods is sound if something is pending.
LEMMA QueryingSound ==
    ASSUME NEW p \in Seq(Orders), p # <<>>, NEW e \in Evidence, Witnessed(e), NEW s \in Seq(Orders)
    PROVE  LoopSound(p, Querying(s, e))
    BY StageFacts, EmptyFacts DEF LoopSound

\* The loop reads which orders are pending.
LEMMA BeginFlushKeeps ==
    ASSUME SequencingInv, NEW n \in Nodes, BeginFlush(n)
    PROVE  SequencingInv'
<1> DEFINE m == Querying(pending[n], <<>>)
<1>1. /\ loop[n].stage = "sleep" /\ pending[n] # <<>>
      /\ loop' = [loop EXCEPT ![n] = m]
      /\ UNCHANGED <<pending, heard, outbox, proposals, votes, confirmed, applied, faults>>
    BY DEF BeginFlush
<1>2. NodeShapes /\ LoopSound(pending[n], loop[n])
    BY DEF SequencingInv, NodesSound
<1>3. pending[n] \in Seq(Orders)
    BY <1>2, NodeFacts
<1>4. <<>> \in Evidence /\ Witnessed(<<>>)
    <2>1. <<>> \in [{} -> Witness] /\ {} \in SUBSET Orders
        OBVIOUS
    <2> QED
        BY <2>1, Zenon DEF Evidence, Witnessed
<1>5. m \in Loop /\ m.resolved = <<>> /\ LoopSound(pending[n], m)
    BY <1>1, <1>3, <1>4, StageFacts, QueryingSound, Zenon
<1>6. loop[n].resolved = <<>>
    BY <1>1, <1>2, Zenon DEF LoopSound
<1> HIDE DEF m
<1> QED
    BY <1>1, <1>5, <1>6, LoopKeeps, Zenon

\* The evidence that a node has of an order is a measured flood's.
LEMMA WitnessFacts ==
    ASSUME NodeShapes, NEW n \in Nodes, NEW o, NEW w \in EarliestWitnesses(n, o)
    PROVE  /\ w \in Witness
           /\ \E a \in Arrivals :
                a.order = o /\ a.at \in Int /\ w = [hop |-> a.hop, at |-> a.at]
<1>1. Preferred(Estimates(n, o)) \subseteq Estimates(n, o)
    BY DEF Preferred
<1>2. PICK f \in Estimates(n, o) : w = [hop |-> f.flood.hop, at |-> f.flood.at]
    BY <1>1, Zenon DEF EarliestWitnesses
<1>3. f \in heard[n] /\ f.flood.order = o /\ f.flood.at # Unmeasured
    BY <1>2 DEF Estimates
<1>4. f.flood \in Arrivals
    BY <1>3 DEF NodeShapes
<1>5. f.flood.at \in Int
    BY <1>3, <1>4, ArrivalsAssumption, Zenon
<1> QED
    BY <1>2, <1>3, <1>4, <1>5, Zenon DEF Witness

\* Evidence with one order's added.
LEMMA WithEvidenceFacts ==
    ASSUME NEW e \in Evidence, Witnessed(e), NEW o \in Orders, NEW w \in Witness,
           \E a \in Arrivals : a.order = o /\ a.at \in Int /\ w = [hop |-> a.hop, at |-> a.at]
    PROVE  WithEvidence(e, o, w) \in Evidence /\ Witnessed(WithEvidence(e, o, w))
<1> DEFINE g == WithEvidence(e, o, w)
<1>1. PICK D \in SUBSET Orders : e \in [D -> Witness]
    BY DEF Evidence
<1>2. g \in [D \union {o} -> Witness] /\ D \union {o} \in SUBSET Orders
    BY <1>1, Zenon DEF WithEvidence
<1>3. ASSUME NEW q \in DOMAIN g PROVE (q = o /\ g[q] = w) \/ (q \in DOMAIN e /\ g[q] = e[q])
    <2>1. q \in DOMAIN e \union {o} /\ g[q] = IF q = o THEN w ELSE e[q]
        BY Zenon DEF WithEvidence
    <2> HIDE DEF g
    <2> QED
        BY <2>1, Zenon
<1> HIDE DEF g
<1>4. g \in Evidence
    BY <1>2, Zenon DEF Evidence
<1>5. Witnessed(g)
    BY <1>3 DEF Witnessed
<1> QED
    BY <1>4, <1>5, Zenon DEF g

\* The loop asks for one order's evidence.
LEMMA QueryWitnessKeeps ==
    ASSUME SequencingInv, NEW n \in Nodes, QueryWitness(n)
    PROVE  SequencingInv'
<1> DEFINE l == loop[n]
<1> DEFINE o == Head(l.todo)
<1>1. /\ l.stage = "query" /\ l.todo # <<>>
      /\ UNCHANGED <<pending, heard, outbox, proposals, votes, confirmed, applied, faults>>
      /\ \/ loop' = [loop EXCEPT ![n] = Querying(Tail(l.todo), l.evidence)]
         \/ \E w \in EarliestWitnesses(n, o) :
              loop' = [loop EXCEPT ![n] = Querying(Tail(l.todo), WithEvidence(l.evidence, o, w))]
    BY Zenon DEF QueryWitness
<1>2. NodeShapes /\ LoopSound(pending[n], l)
    BY Zenon DEF SequencingInv, NodesSound
<1>3. /\ pending[n] \in Seq(Orders) /\ l.todo \in Seq(Orders) /\ l.evidence \in Evidence
    BY <1>2, NodeFacts, Zenon
<1>4. pending[n] # <<>> /\ l.resolved = <<>> /\ Witnessed(l.evidence)
    BY <1>1, <1>2, Zenon DEF LoopSound
<1>5. Tail(l.todo) \in Seq(Orders) /\ o \in Orders
    BY <1>1, <1>3
<1> HIDE DEF o
<1>6. PICK e \in Evidence : Witnessed(e) /\ loop' = [loop EXCEPT ![n] = Querying(Tail(l.todo), e)]
    <2>1. CASE loop' = [loop EXCEPT ![n] = Querying(Tail(l.todo), l.evidence)]
        BY <1>3, <1>4, <2>1, Zenon
    <2>2. ASSUME NEW w \in EarliestWitnesses(n, o),
                 loop' = [loop EXCEPT ![n] = Querying(Tail(l.todo), WithEvidence(l.evidence, o, w))]
          PROVE  \E e \in Evidence :
                   Witnessed(e) /\ loop' = [loop EXCEPT ![n] = Querying(Tail(l.todo), e)]
        <3>1. /\ w \in Witness
              /\ \E a \in Arrivals :
                   a.order = o /\ a.at \in Int /\ w = [hop |-> a.hop, at |-> a.at]
            BY <1>2, <2>2, WitnessFacts
        <3>2. /\ WithEvidence(l.evidence, o, w) \in Evidence
              /\ Witnessed(WithEvidence(l.evidence, o, w))
            BY <1>3, <1>4, <1>5, <3>1, WithEvidenceFacts, Zenon
        <3> QED
            BY <2>2, <3>2, Zenon
    <2> QED
        BY <1>1, <2>1, <2>2, Zenon
<1> DEFINE m == Querying(Tail(l.todo), e)
<1>7. m \in Loop /\ m.resolved = <<>> /\ LoopSound(pending[n], m)
    BY <1>3, <1>4, <1>5, <1>6, StageFacts, QueryingSound, ZenonT(60)
<1> HIDE DEF m
<1>8. loop' = [loop EXCEPT ![n] = m]
    BY <1>6 DEF m
<1> QED
    BY <1>1, <1>4, <1>7, <1>8, LoopKeeps, ZenonT(60)

\* The flush empties the queue into the batch that the loop then waits with.
LEMMA FlushKeeps ==
    ASSUME SequencingInv, NEW n \in Nodes, Flush(n)
    PROVE  SequencingInv'
<1> DEFINE p == pending[n]
<1> DEFINE e == loop[n].evidence
<1>1. PICK r \in Resolutions(p, e) :
        /\ loop' = [loop EXCEPT ![n] = Waiting(e, r)]
        /\ outbox' = [outbox EXCEPT ![n] = Append(outbox[n], r)]
    BY Zenon DEF Flush
<1>2. /\ loop[n].stage = "query" /\ pending' = [pending EXCEPT ![n] = <<>>]
      /\ UNCHANGED <<heard, proposals, votes, confirmed, applied, faults>>
    BY Zenon DEF Flush
<1>3. NodeShapes /\ QuorumShapes /\ NodesSound
    BY Zenon DEF SequencingInv
<1>4. /\ Apart(p, loop[n].resolved, OrdersOf(applied[n])) /\ LoopSound(p, loop[n])
    BY <1>3, Zenon DEF NodesSound
<1>5. p \in Seq(Orders) /\ e \in Evidence
    BY <1>3, NodeFacts, Zenon
<1>6. p # <<>> /\ Witnessed(e)
    BY <1>2, <1>4, Zenon DEF LoopSound
<1> HIDE DEF p, e
<1>7. /\ r \in Seq(Orders) /\ IsInjective(r) /\ ToSet(r) = ToSet(p)
      /\ r \in SetToSeqs(ToSet(r)) /\ r # <<>>
      /\ Transitive(r, e) => Ranked(r, e)
    BY <1>5, <1>6, ResolutionFacts, Zenon
<1> DEFINE m == Waiting(e, r)
<1>8. m \in Loop /\ m.stage = "wait" /\ m.resolved = r /\ m.evidence = e
    BY <1>5, <1>7, StageFacts, ZenonT(60)
<1> HIDE DEF m
<1>9. LoopSound(<<>>, m)
    BY <1>6, <1>7, <1>8, Zenon DEF LoopSound
<1>10. Apart(<<>>, m.resolved, OrdersOf(applied[n]))
    BY <1>4, <1>7, <1>8, EmptyFacts, Zenon DEF Apart
<1>11. /\ loop' \in [Nodes -> Loop] /\ loop'[n] = m
       /\ pending' \in [Nodes -> Seq(Orders)] /\ pending'[n] = <<>>
       /\ \A k \in Nodes \ {n} : pending'[k] = pending[k] /\ loop'[k] = loop[k]
    <2>1. loop' = [loop EXCEPT ![n] = m] /\ <<>> \in Seq(Orders)
        BY <1>1 DEF m
    <2> QED
        BY <1>2, <1>3, <1>8, <2>1, Zenon DEF NodeShapes
<1>12. NodesSound'
    BY <1>2, <1>3, <1>9, <1>10, <1>11, OneNodeMoves, ZenonT(60)
<1>13. NodeShapes'
    BY <1>2, <1>3, <1>11, Zenon DEF NodeShapes
<1>14. QuorumShapes'
    <2>1. r \in Batches
        BY <1>7 DEF Batches
    <2>2. outbox' \in [Nodes -> Seq(Batches)]
        BY <1>1, <1>3, <2>1 DEF QuorumShapes
    <2> QED
        BY <1>2, <1>3, <2>2 DEF QuorumShapes
<1> QED
    BY <1>12, <1>13, <1>14 DEF SequencingInv

\* The mesh task sends a batch on as proposals and votes for it.
LEMMA ProposeBatchKeeps ==
    ASSUME SequencingInv, NEW n \in Nodes, ProposeBatch(n)
    PROVE  SequencingInv'
<1> DEFINE batch == Head(outbox[n])
<1>1. /\ outbox[n] # <<>> /\ outbox' = [outbox EXCEPT ![n] = Tail(outbox[n])]
      /\ proposals' = proposals \union
           {[to |-> m, batch |-> batch, reporter |-> n] : m \in Nodes \ {n}}
      /\ RecordBatchProposal(n, batch, n, {})
      /\ UNCHANGED <<pending, loop, heard, applied, faults>>
    BY DEF ProposeBatch
<1>2. NodeShapes /\ QuorumShapes /\ NodesSound
    BY DEF SequencingInv
<1>3. outbox[n] \in Seq(Batches) /\ n \in Voter
    BY <1>2, Zenon DEF QuorumShapes, Voter
<1>4. batch \in Batches /\ Tail(outbox[n]) \in Seq(Batches)
    BY <1>1, <1>3
<1> HIDE DEF batch
<1>5. outbox' \in [Nodes -> Seq(Batches)]
    BY <1>1, <1>2, <1>4, Zenon DEF QuorumShapes
<1>6. proposals' \subseteq [to : Nodes, batch : Batches, reporter : Voter]
    BY <1>1, <1>2, <1>3, <1>4 DEF QuorumShapes
<1>7. /\ votes' \in [Nodes -> SUBSET [batch : Batches, reporter : Voter]]
      /\ confirmed' \in [Nodes -> Seq(Batches)]
      /\ \A m \in Nodes : Len(confirmed'[m]) <= Capacity
    BY <1>1, <1>2, <1>3, <1>4, RecordKeeps, Zenon
<1>8. QuorumShapes'
    BY <1>1, <1>2, <1>5, <1>6, <1>7, Zenon DEF QuorumShapes
<1>9. NodeShapes' /\ NodesSound'
    BY <1>1, <1>2 DEF NodeShapes, NodesSound
<1> QED
    BY <1>8, <1>9, Zenon DEF SequencingInv

\* A proposal arrives.
LEMMA ReceiveProposalKeeps ==
    ASSUME SequencingInv, NEW p \in proposals, ReceiveProposal(p)
    PROVE  SequencingInv'
<1>1. PICK expired : RecordBatchProposal(p.to, p.batch, p.reporter, expired)
    BY Zenon DEF ReceiveProposal
<1>2. /\ proposals' \subseteq proposals
      /\ UNCHANGED faults \/ (faults < MaxFaults /\ faults' = faults + 1)
      /\ UNCHANGED <<pending, loop, heard, outbox, applied>>
    BY DEF ReceiveProposal
<1>3. NodeShapes /\ QuorumShapes /\ NodesSound
    BY DEF SequencingInv
<1>4. p.to \in Nodes /\ p.batch \in Batches /\ p.reporter \in Voter
    BY <1>3 DEF QuorumShapes
<1>5. /\ votes' \in [Nodes -> SUBSET [batch : Batches, reporter : Voter]]
      /\ confirmed' \in [Nodes -> Seq(Batches)]
      /\ \A m \in Nodes : Len(confirmed'[m]) <= Capacity
    BY <1>1, <1>3, <1>4, RecordKeeps, Zenon
<1>6. faults' \in 0..MaxFaults
    BY <1>2, <1>3, LimitsAssumption DEF QuorumShapes
<1>7. QuorumShapes'
    BY <1>2, <1>3, <1>5, <1>6, Zenon DEF QuorumShapes
<1>8. NodeShapes' /\ NodesSound'
    BY <1>2, <1>3, Zenon DEF NodeShapes, NodesSound
<1> QED
    BY <1>7, <1>8 DEF SequencingInv

-----------------------------------------------------------------------------
\* The entries of a batch, after those of earlier ones.
LEMMA EntriesFacts ==
    ASSUME NEW s \in Seq(Entry), NEW r \in Seq(Orders), NEW by \in {"quorum", "timeout"}
    PROVE  LET t == s \o [i \in DOMAIN r |-> [order |-> r[i], by |-> by]]
           IN t \in Seq(Entry) /\ OrdersOf(t) = OrdersOf(s) \o r
<1> DEFINE u == [i \in DOMAIN r |-> [order |-> r[i], by |-> by]]
<1> DEFINE t == s \o u
<1>1. /\ u \in Seq(Entry) /\ Len(u) = Len(r) /\ \A i \in 1..Len(r) : u[i].order = r[i]
    <2>1. \A i \in DOMAIN r : [order |-> r[i], by |-> by] \in Entry
        BY DEF Entry
    <2> QED
        BY <2>1
<1> HIDE DEF u
<1>2. /\ t \in Seq(Entry) /\ Len(t) = Len(s) + Len(r) /\ Len(s) \in Nat /\ Len(r) \in Nat
      /\ \A i \in 1..Len(s) : t[i] = s[i]
      /\ \A i \in (Len(s) + 1)..(Len(s) + Len(r)) : t[i] = u[i - Len(s)]
    BY <1>1
<1> HIDE DEF t
<1>3. OrdersOf(s) \in Seq(Orders) /\ Len(OrdersOf(s)) = Len(s)
    BY OrdersOfFacts
<1> DEFINE v == OrdersOf(s) \o r
<1>4. /\ v \in Seq(Orders) /\ Len(v) = Len(s) + Len(r)
      /\ \A i \in 1..Len(s) : v[i] = OrdersOf(s)[i]
      /\ \A i \in (Len(s) + 1)..(Len(s) + Len(r)) : v[i] = r[i - Len(s)]
    BY <1>3
<1> HIDE DEF v
<1>5. OrdersOf(t) \in Seq(Orders) /\ Len(OrdersOf(t)) = Len(t)
    BY <1>2, OrdersOfFacts
<1>6. ASSUME NEW i \in 1..Len(t) PROVE OrdersOf(t)[i] = v[i]
    <2>1. OrdersOf(t)[i] = t[i].order
        BY <1>2 DEF OrdersOf
    <2>2. CASE i \in 1..Len(s)
        <3>1. OrdersOf(s)[i] = s[i].order
            BY <2>2 DEF OrdersOf
        <3> QED
            BY <1>2, <1>4, <2>1, <2>2, <3>1, Zenon
    <2>3. CASE i \in (Len(s) + 1)..(Len(s) + Len(r))
        <3>1. i - Len(s) \in 1..Len(r)
            BY <1>2, <2>3
        <3> QED
            BY <1>1, <1>2, <1>4, <2>1, <2>3, <3>1, Zenon
    <2> QED
        BY <1>2, <2>2, <2>3
<1>7. OrdersOf(t) = v
    BY <1>2, <1>4, <1>5, <1>6
<1> QED
    BY <1>2, <1>7 DEF t, u, v

\* The loop applies the batch it waits with and goes back to sleep.
LEMMA ApplyKeeps ==
    ASSUME NodeShapes, NodesSound, NEW n \in Nodes, NEW by \in {"quorum", "timeout"},
           ApplyResolvedBatch(n, by), loop' = [loop EXCEPT ![n] = Asleep],
           UNCHANGED <<pending, heard>>
    PROVE  /\ NodeShapes' /\ NodesSound'
           /\ ToSet(OrdersOf(applied'[n])) = ToSet(OrdersOf(applied[n])) \union ToSet(loop[n].resolved)
<1> DEFINE r == loop[n].resolved
<1> DEFINE a == OrdersOf(applied[n])
<1> DEFINE t == applied[n] \o [i \in DOMAIN r |-> [order |-> r[i], by |-> by]]
<1>1. applied' = [applied EXCEPT ![n] = t]
    BY Zenon DEF ApplyResolvedBatch
<1>2. /\ r \in Seq(Orders) /\ applied[n] \in Seq(Entry) /\ a \in Seq(Orders)
      /\ loop[n].evidence \in Evidence
    BY NodeFacts, OrdersOfFacts
<1>3. t \in Seq(Entry) /\ OrdersOf(t) = a \o r
    BY <1>2, EntriesFacts, ZenonT(60)
<1>4. Apart(pending[n], r, a)
    BY Zenon DEF NodesSound
<1> HIDE DEF r, a, t
<1>5. /\ ToSet(a \o r) = ToSet(a) \union ToSet(r)
      /\ IsInjective(a \o r)
    BY <1>2, <1>4, ConcatFacts DEF Apart
<1>6. Apart(pending[n], <<>>, OrdersOf(t))
    BY <1>3, <1>4, <1>5, EmptyFacts, Zenon DEF Apart
<1>7. /\ Asleep \in Loop /\ Asleep.stage = "sleep" /\ Asleep.resolved = <<>>
      /\ Asleep.evidence = <<>>
    BY <1>2, StageFacts, Zenon
<1>8. LoopSound(pending[n], Asleep)
    <2>1. Witnessed(<<>>)
        BY DEF Witnessed
    <2> QED
        BY <1>7, <2>1, EmptyFacts, Zenon DEF LoopSound
<1>9. /\ loop' \in [Nodes -> Loop] /\ loop'[n] = Asleep
      /\ applied' \in [Nodes -> Seq(Entry)] /\ applied'[n] = t
      /\ \A k \in Nodes \ {n} : loop'[k] = loop[k] /\ applied'[k] = applied[k]
    BY <1>1, <1>3, <1>7, Zenon DEF NodeShapes
<1>10. NodeShapes'
    BY <1>9, Zenon DEF NodeShapes
<1>11. NodesSound'
    BY <1>6, <1>7, <1>8, <1>9, OneNodeMoves, ZenonT(60)
<1> QED
    BY <1>3, <1>5, <1>9, <1>10, <1>11, ZenonT(60) DEF a, r

\* The loop puts the batch back into the queue and goes back to sleep.
LEMMA RequeueKeeps ==
    ASSUME NodeShapes, NodesSound, NEW n \in Nodes,
           pending' = Requeued(n), loop' = [loop EXCEPT ![n] = Asleep],
           UNCHANGED <<applied, heard>>
    PROVE  /\ NodeShapes' /\ NodesSound'
           /\ ToSet(pending'[n]) = ToSet(pending[n]) \union ToSet(loop[n].resolved)
<1> DEFINE r == loop[n].resolved
<1> DEFINE p == pending[n]
<1>1. pending' = [pending EXCEPT ![n] = p \o r]
    BY Zenon DEF Requeued
<1>2. r \in Seq(Orders) /\ p \in Seq(Orders) /\ loop[n].evidence \in Evidence
    BY NodeFacts, Zenon
<1>3. Apart(p, r, OrdersOf(applied[n]))
    BY Zenon DEF NodesSound
<1> HIDE DEF r, p
<1>4. /\ p \o r \in Seq(Orders) /\ ToSet(p \o r) = ToSet(p) \union ToSet(r)
      /\ IsInjective(p \o r)
    BY <1>2, <1>3, ConcatFacts DEF Apart
<1>5. Apart(p \o r, <<>>, OrdersOf(applied[n]))
    BY <1>3, <1>4, EmptyFacts, Zenon DEF Apart
<1>6. /\ Asleep \in Loop /\ Asleep.stage = "sleep" /\ Asleep.resolved = <<>>
      /\ Asleep.evidence = <<>>
    BY <1>2, StageFacts, Zenon
<1>7. LoopSound(p \o r, Asleep)
    <2>1. Witnessed(<<>>)
        BY DEF Witnessed
    <2> QED
        BY <1>6, <2>1, EmptyFacts, Zenon DEF LoopSound
<1>8. /\ loop' \in [Nodes -> Loop] /\ loop'[n] = Asleep
      /\ pending' \in [Nodes -> Seq(Orders)] /\ pending'[n] = p \o r
      /\ \A k \in Nodes \ {n} : loop'[k] = loop[k] /\ pending'[k] = pending[k]
    BY <1>1, <1>4, <1>6, Zenon DEF NodeShapes
<1>9. NodeShapes'
    BY <1>8 DEF NodeShapes
<1>10. NodesSound'
    BY <1>5, <1>6, <1>7, <1>8, OneNodeMoves, Zenon
<1> QED
    BY <1>4, <1>8, <1>9, <1>10, ZenonT(60) DEF p, r

\* A confirmation: another batch's, agreement with this node's, or another sequence.
LEMMA TakeConfirmationKeeps ==
    ASSUME SequencingInv, NEW n \in Nodes, TakeConfirmation(n)
    PROVE  SequencingInv'
<1>1. /\ confirmed[n] # <<>> /\ confirmed' = [confirmed EXCEPT ![n] = Tail(confirmed[n])]
      /\ UNCHANGED <<heard, outbox, proposals, votes, faults>>
      /\ \/ UNCHANGED <<loop, applied, pending>>
         \/ /\ loop' = [loop EXCEPT ![n] = Asleep]
            /\ ApplyResolvedBatch(n, "quorum") /\ UNCHANGED pending
         \/ /\ loop' = [loop EXCEPT ![n] = Asleep]
            /\ pending' = Requeued(n) /\ UNCHANGED applied
    BY Zenon DEF TakeConfirmation
<1>2. NodeShapes /\ QuorumShapes /\ NodesSound
    BY DEF SequencingInv
<1>3. NodeShapes' /\ NodesSound'
    <2>1. CASE UNCHANGED <<loop, applied, pending>>
        BY <1>1, <1>2, <2>1 DEF NodeShapes, NodesSound
    <2>2. CASE /\ loop' = [loop EXCEPT ![n] = Asleep]
               /\ ApplyResolvedBatch(n, "quorum") /\ UNCHANGED pending
        BY <1>1, <1>2, <2>2, ApplyKeeps, Zenon
    <2>3. CASE /\ loop' = [loop EXCEPT ![n] = Asleep]
               /\ pending' = Requeued(n) /\ UNCHANGED applied
        BY <1>1, <1>2, <2>3, RequeueKeeps, ZenonT(60)
    <2> QED
        BY <1>1, <2>1, <2>2, <2>3, Zenon
<1>4. /\ confirmed' \in [Nodes -> Seq(Batches)]
      /\ \A m \in Nodes : Len(confirmed'[m]) <= Capacity
    <2>1. /\ confirmed \in [Nodes -> Seq(Batches)]
          /\ \A m \in Nodes : Len(confirmed[m]) <= Capacity
        BY <1>2 DEF QuorumShapes
    <2> DEFINE d == Tail(confirmed[n])
    <2>2. d \in Seq(Batches) /\ Len(d) <= Capacity
        BY <1>1, <2>1, LimitsAssumption
    <2> HIDE DEF d
    <2>3. confirmed' = [confirmed EXCEPT ![n] = d]
        BY <1>1 DEF d
    <2> QED
        BY <2>1, <2>2, <2>3
<1>5. QuorumShapes'
    BY <1>1, <1>2, <1>4, Zenon DEF QuorumShapes
<1> QED
    BY <1>3, <1>5 DEF SequencingInv

\* No confirmation in time.
LEMMA TimeOutKeeps ==
    ASSUME SequencingInv, NEW n \in Nodes, TimeOut(n)
    PROVE  SequencingInv'
<1>1. /\ loop' = [loop EXCEPT ![n] = Asleep] /\ ApplyResolvedBatch(n, "timeout")
      /\ UNCHANGED <<pending, heard, outbox, proposals, votes, confirmed, faults>>
    BY DEF TimeOut
<1>2. NodeShapes /\ QuorumShapes /\ NodesSound
    BY DEF SequencingInv
<1>3. NodeShapes' /\ NodesSound'
    BY <1>1, <1>2, ApplyKeeps, Zenon
<1>4. QuorumShapes'
    BY <1>1, <1>2, Zenon DEF QuorumShapes
<1> QED
    BY <1>3, <1>4 DEF SequencingInv

\* Every step keeps the invariant.
LEMMA StepInv == SequencingInv /\ [Next]_vars => SequencingInv'
<1> SUFFICES ASSUME SequencingInv, [Next]_vars PROVE SequencingInv'
    OBVIOUS
<1>1. ASSUME NEW n \in Nodes, LoopStep(n) PROVE SequencingInv'
    BY <1>1, BeginFlushKeeps, QueryWitnessKeeps, FlushKeeps, TakeConfirmationKeeps, TimeOutKeeps
       DEF LoopStep
<1>2. ASSUME NEW n \in Nodes, ProposeBatch(n) PROVE SequencingInv'
    BY <1>2, ProposeBatchKeeps
<1>3. ASSUME NEW s \in Submissions, Submit(s[1], s[2]) PROVE SequencingInv'
    BY <1>3, OrdersAssumption, SubmitKeeps, Zenon
<1>4. ASSUME NEW a \in Arrivals, Arrive(a) PROVE SequencingInv'
    BY <1>4, ArriveKeeps
<1>5. ASSUME NEW n \in Nodes, NEW f \in heard[n], MarkAnomalous(n, f) PROVE SequencingInv'
    BY <1>5, MarkAnomalousKeeps
<1>6. ASSUME NEW p \in proposals, ReceiveProposal(p) PROVE SequencingInv'
    BY <1>6, ReceiveProposalKeeps, Zenon
<1>7. CASE UNCHANGED vars
    <2>1. UNCHANGED <<pending, loop, heard, outbox, proposals, votes, confirmed, applied, faults>>
        BY <1>7 DEF vars
    <2> QED
        BY <2>1 DEF SequencingInv, NodeShapes, QuorumShapes, NodesSound
<1> QED
    BY <1>1, <1>2, <1>3, <1>4, <1>5, <1>6, <1>7, ZenonT(60) DEF Next

\* For every deployment: an order is in one place of a node, nodes that resolve the
\* same orders with the same evidence resolve them to the same sequence, and evidence
\* decides every sequence with a transitive comparison (OrderSequencer::flush,
\* compare_by_evidence, run_order_sequencing_loop).
THEOREM SequencedByEvidence == Spec => []SequenceByEvidence
<1>1. Init => SequencingInv
    BY InitInv
<1>2. SequencingInv /\ [Next]_vars => SequencingInv'
    BY StepInv
<1>3. SequencingInv => SequenceByEvidence
    BY InvImplies
<1> QED
    BY <1>1, <1>2, <1>3, PTL DEF Spec

-----------------------------------------------------------------------------
\* What a node knows is in its three sequences.
KnownIn(p, r, a) == ToSet(p) \union ToSet(r) \union ToSet(OrdersOf(a))

\* Known before and after a step.
LEMMA KnownFacts ==
    ASSUME NodeShapes, NodeShapes', NEW n \in Nodes
    PROVE  /\ Known(n) = KnownIn(pending[n], loop[n].resolved, applied[n])
           /\ Known(n)' = KnownIn(pending'[n], loop'[n].resolved, applied'[n])
<1>1. applied[n] \in Seq(Entry) /\ applied'[n] \in Seq(Entry)
    BY Zenon DEF NodeShapes
<1>2. /\ {a.order : a \in ToSet(applied[n])} = ToSet(OrdersOf(applied[n]))
      /\ {a.order : a \in ToSet(applied'[n])} = ToSet(OrdersOf(applied'[n]))
    BY <1>1, OrdersOfFacts
<1> QED
    BY <1>2, Zenon DEF Known, PendingData, Applied, KnownIn

\* A step of the loop loses no order.
LEMMA LoopStepLosesNone ==
    ASSUME SequencingInv, NodeShapes', NEW n \in Nodes, LoopStep(n), NEW m \in Nodes
    PROVE  Known(m) \subseteq Known(m)'
<1> DEFINE Kept == KnownIn(pending[n], loop[n].resolved, applied[n])
                     \subseteq KnownIn(pending'[n], loop'[n].resolved, applied'[n])
<1>1. NodeShapes /\ NodesSound /\ LoopSound(pending[n], loop[n])
    BY DEF SequencingInv, NodesSound
<1>2. /\ Known(m) = KnownIn(pending[m], loop[m].resolved, applied[m])
      /\ Known(m)' = KnownIn(pending'[m], loop'[m].resolved, applied'[m])
    BY <1>1, KnownFacts, Zenon
<1>3. CASE m # n
    <2>1. pending'[m] = pending[m] /\ loop'[m] = loop[m] /\ applied'[m] = applied[m]
        BY <1>1, <1>3, ZenonT(60) DEF NodeShapes, LoopStep, BeginFlush, QueryWitness, Flush,
                                      TakeConfirmation, TimeOut, Requeued, ApplyResolvedBatch
    <2> QED
        BY <1>2, <2>1, Zenon
<1>4. loop[n].stage # "wait" => loop[n].resolved = <<>>
    BY <1>1 DEF LoopSound
<1>5. ASSUME BeginFlush(n) \/ QueryWitness(n) PROVE Kept
    <2>1. loop[n].stage \in {"sleep", "query"} /\ UNCHANGED <<pending, applied>>
        BY <1>5, Zenon DEF BeginFlush, QueryWitness
    <2>2. ToSet(loop[n].resolved) = {}
        BY <1>4, <2>1, EmptyFacts
    <2> QED
        BY <2>1, <2>2, Zenon DEF KnownIn
<1>6. ASSUME Flush(n) PROVE Kept
    <2>1. PICK s \in Resolutions(pending[n], loop[n].evidence) :
            loop' = [loop EXCEPT ![n] = Waiting(loop[n].evidence, s)]
        BY <1>6, Zenon DEF Flush
    <2>2. pending[n] \in Seq(Orders) /\ loop[n].evidence \in Evidence
        BY <1>1, NodeFacts, Zenon
    <2>3. s \in Seq(Orders) /\ ToSet(s) = ToSet(pending[n])
        BY <2>1, <2>2, ResolutionFacts, Zenon
    <2>4. loop'[n] = Waiting(loop[n].evidence, s)
        <3>1. loop \in [Nodes -> Loop]
            BY <1>1, Zenon DEF NodeShapes
        <3> QED
            BY <2>1, <3>1
    <2>5. loop'[n].resolved = s
        BY <2>4 DEF Waiting
    <2>6. loop[n].stage = "query" /\ applied' = applied
        BY <1>6, Zenon DEF Flush
    <2>7. ToSet(loop[n].resolved) = {}
        BY <1>4, <2>6, EmptyFacts
    <2> QED
        BY <2>3, <2>5, <2>6, <2>7, Zenon DEF KnownIn
<1>7. ASSUME NEW by \in {"quorum", "timeout"}, ApplyResolvedBatch(n, by),
             loop' = [loop EXCEPT ![n] = Asleep], UNCHANGED <<pending, heard>>
      PROVE  Kept
    <2>1. ToSet(OrdersOf(applied'[n])) = ToSet(OrdersOf(applied[n])) \union ToSet(loop[n].resolved)
        BY <1>1, <1>7, ApplyKeeps, Zenon
    <2> QED
        BY <1>7, <2>1, Zenon DEF KnownIn
<1>8. ASSUME TakeConfirmation(n) PROVE Kept
    <2>1. /\ UNCHANGED heard
          /\ \/ UNCHANGED <<loop, applied, pending>>
             \/ /\ loop' = [loop EXCEPT ![n] = Asleep]
                /\ ApplyResolvedBatch(n, "quorum") /\ UNCHANGED pending
             \/ /\ loop' = [loop EXCEPT ![n] = Asleep]
                /\ pending' = Requeued(n) /\ UNCHANGED applied
        BY <1>8, Zenon DEF TakeConfirmation
    <2>2. CASE UNCHANGED <<loop, applied, pending>>
        BY <2>2, Zenon
    <2>3. CASE /\ loop' = [loop EXCEPT ![n] = Asleep]
               /\ ApplyResolvedBatch(n, "quorum") /\ UNCHANGED pending
        BY <1>7, <2>1, <2>3, Zenon
    <2>4. CASE /\ loop' = [loop EXCEPT ![n] = Asleep]
               /\ pending' = Requeued(n) /\ UNCHANGED applied
        <3>1. ToSet(pending'[n]) = ToSet(pending[n]) \union ToSet(loop[n].resolved)
            BY <1>1, <2>1, <2>4, RequeueKeeps, Zenon
        <3> QED
            BY <2>4, <3>1, Zenon DEF KnownIn
    <2> QED
        BY <2>1, <2>2, <2>3, <2>4, Zenon
<1>9. ASSUME TimeOut(n) PROVE Kept
    BY <1>7, <1>9, Zenon DEF TimeOut
<1>10. Kept
    BY <1>5, <1>6, <1>8, <1>9, Zenon DEF LoopStep
<1> QED
    BY <1>2, <1>3, <1>10, Zenon

\* The queue loses no order.
LEMMA QueueLosesNone ==
    ASSUME NodeShapes, NodeShapes', NEW n \in Nodes, NEW o \in Orders, Queue(n, o),
           UNCHANGED <<loop, applied>>, NEW m \in Nodes
    PROVE  Known(m) \subseteq Known(m)'
<1>1. pending[n] \in Seq(Orders) /\ pending \in [Nodes -> Seq(Orders)]
    BY DEF NodeShapes
<1>2. pending'[n] = Append(pending[n], o) /\ \A k \in Nodes \ {n} : pending'[k] = pending[k]
    BY <1>1 DEF Queue
<1>3. ToSet(pending[m]) \subseteq ToSet(pending'[m])
    <2>1. ToSet(Append(pending[n], o)) = ToSet(pending[n]) \union {o}
        BY <1>1, AppendFacts
    <2> QED
        BY <1>2, <2>1, ZenonT(60)
<1> QED
    BY <1>3, KnownFacts, Zenon DEF KnownIn

\* For every deployment: an order leaves a node's queue for the loop's batch and the
\* batch for the orders applied or the queue, and never otherwise, whatever is
\* queued, confirmed, confirmed differently or timed out meanwhile.
THEOREM NothingLost == Spec => NoOrderLost
<1>1. SequencingInv /\ SequencingInv' /\ [Next]_vars =>
        [\A n \in Nodes :
           PendingData(n) \union Applied(n) \subseteq (PendingData(n) \union Applied(n))']_vars
    <2> SUFFICES ASSUME SequencingInv, SequencingInv', Next, NEW m \in Nodes
                 PROVE  Known(m) \subseteq Known(m)'
        BY DEF Known
    <2>1. NodeShapes /\ NodeShapes'
        BY DEF SequencingInv
    <2>2. ASSUME NEW n \in Nodes, LoopStep(n) PROVE Known(m) \subseteq Known(m)'
        BY <2>1, <2>2, LoopStepLosesNone, Zenon
    <2>3. ASSUME UNCHANGED <<pending, loop, applied>> PROVE Known(m) \subseteq Known(m)'
        BY <2>3, Zenon DEF Known, PendingData, Applied
    <2>4. ASSUME NEW n \in Nodes, ProposeBatch(n) PROVE Known(m) \subseteq Known(m)'
        BY <2>3, <2>4, Zenon DEF ProposeBatch
    <2>5. ASSUME NEW s \in Submissions, Submit(s[1], s[2]) PROVE Known(m) \subseteq Known(m)'
        <3>1. s[1] \in Nodes /\ s[2] \in Orders
            BY OrdersAssumption, Zenon DEF Orders
        <3> QED
            BY <2>1, <2>5, <3>1, QueueLosesNone, ZenonT(60) DEF Submit
    <2>6. ASSUME NEW a \in Arrivals, Arrive(a) PROVE Known(m) \subseteq Known(m)'
        <3>1. a.node \in Nodes /\ a.order \in Orders
            BY ArrivalsAssumption, Zenon
        <3>2. /\ UNCHANGED <<loop, applied>>
              /\ UNCHANGED pending \/ Queue(a.node, a.order)
            BY <2>6 DEF Arrive
        <3> QED
            BY <2>1, <2>3, <3>1, <3>2, QueueLosesNone, Zenon
    <2>7. ASSUME NEW n \in Nodes, NEW f \in heard[n], MarkAnomalous(n, f)
          PROVE  Known(m) \subseteq Known(m)'
        BY <2>3, <2>7, Zenon DEF MarkAnomalous
    <2>8. ASSUME NEW p \in proposals, ReceiveProposal(p) PROVE Known(m) \subseteq Known(m)'
        BY <2>3, <2>8 DEF ReceiveProposal
    <2> QED
        BY <2>2, <2>4, <2>5, <2>6, <2>7, <2>8, ZenonT(60) DEF Next
<1>2. Init => SequencingInv
    BY InitInv
<1>3. SequencingInv /\ [Next]_vars => SequencingInv'
    BY StepInv
<1> QED
    BY <1>1, <1>2, <1>3, PTL DEF Spec, NoOrderLost
=============================================================================
