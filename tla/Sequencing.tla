----------------------------- MODULE Sequencing -----------------------------
(***************************************************************************)
(* Network-time sequencing of orders on several API nodes: the flush loop  *)
(* of crates/api/src/order_sequencing.rs, the order sequencer, the origin  *)
(* time estimator and the batch quorum of crates/protocol.                 *)
(*                                                                         *)
(* A node queues an order that a client submits to it or a peer floods to  *)
(* it, and floods an order when it applies it.  The flush loop and the     *)
(* mesh task are two tasks per node, joined by channels.  A batch key, the *)
(* hash of the sorted ids, is the set of the orders, and a proposal hash   *)
(* is their sequence.  Times are in units of some milliseconds.            *)
(***************************************************************************)
EXTENDS SeqFolds

CONSTANTS
    Nodes,
    Origin,         \* a further node, which has applied and flooded a batch
    Earlier,        \* the orders of that batch
    Submissions,    \* <<node, order>>: the orders that clients submit, and where
    Arrivals,       \* the floods that may arrive: [node, order, hop, at], where at
                    \* is the origin time estimated from it, or Unmeasured
    Arrived,        \* those that have arrived at the start
    Withheld,       \* those of them whose transit the receiver may find anomalous
    Unmeasured,     \* no round trip to that hop has been measured
    TieBreakKey,    \* <<order, hop>> -> the hash of the two, a number
    AmbiguityWindow,
    MinReporters,   \* min_reporters of the batch quorum
    Capacity,       \* bound of the channel of confirmed batches
    MaxFaults       \* bound: proposals delivered twice, and expiries of votes

Orders == Earlier \union {s[2] : s \in Submissions}

ASSUME OrdersAssumption ==
    IsFiniteSet(Orders) /\ Earlier # {} /\ \A s \in Submissions : s[1] \in Nodes
ASSUME ArrivalsAssumption ==
    /\ Arrived \subseteq Arrivals
    /\ \A a \in Arrivals :
         a.node \in Nodes /\ a.order \in Orders /\ (a.at = Unmeasured \/ a.at \in Int)
\* The hashes of two orders do not collide.
ASSUME TieBreakAssumption ==
    \A f, g \in Arrivals :
        /\ TieBreakKey[<<f.order, f.hop>>] \in Int
        /\ TieBreakKey[<<f.order, f.hop>>] = TieBreakKey[<<g.order, g.hop>>]
             => f.order = g.order
ASSUME LimitsAssumption ==
    AmbiguityWindow \in Nat \ {0} /\ Capacity \in Nat /\ MaxFaults \in Nat

VARIABLES
    pending,        \* node -> the sequencer's orders, in the order of arrival
    loop,           \* node -> the flush loop
    heard,          \* node -> the floods that arrived, [flood, anomalous]
    outbox,         \* node -> batches on their way from the loop to the mesh task
    proposals,      \* proposals in the network
    votes,          \* node -> what the batch quorum holds: [batch, reporter]
    confirmed,      \* node -> the channel of confirmed batches
    applied,        \* node -> orders applied, [order, by]
    faults          \* proposals delivered twice and expiries so far

vars == <<pending, loop, heard, outbox, proposals, votes, confirmed, applied, faults>>

\* The loop sleeps for a window, asks for the evidence of the orders in todo, or
\* waits for the confirmation of a batch it resolved.
Asleep == [stage |-> "sleep", todo |-> <<>>, evidence |-> <<>>, resolved |-> <<>>]
Querying(todo, evidence) ==
    [stage |-> "query", todo |-> todo, evidence |-> evidence, resolved |-> <<>>]
Waiting(evidence, resolved) ==
    [stage |-> "wait", todo |-> <<>>, evidence |-> evidence, resolved |-> resolved]

\* The origin has timed out on its batch, which no flood had reached before, and
\* its proposals and some of its floods are on their way.  What reaches the origin
\* from now on changes nothing for the other nodes.
Init ==
    /\ heard = [n \in Nodes |->
         {[flood |-> a, anomalous |-> FALSE] : a \in {f \in Arrived : f.node = n}}]
    /\ pending \in [Nodes -> UNION {SetToSeqs(S) : S \in SUBSET Orders}]
    /\ \A n \in Nodes : ToSet(pending[n]) = {f.flood.order : f \in heard[n]}
    /\ loop = [n \in Nodes |-> Asleep]
    /\ outbox = [n \in Nodes |-> <<>>]
    /\ \E batch \in SetToSeqs(Earlier) :
         proposals = {[to |-> n, batch |-> batch, reporter |-> Origin] : n \in Nodes}
    /\ votes = [n \in Nodes |-> {}]
    /\ confirmed = [n \in Nodes |-> <<>>]
    /\ applied = [n \in Nodes |-> <<>>]
    /\ faults = 0

-----------------------------------------------------------------------------
Applied(n) == {a.order : a \in ToSet(applied[n])}

\* The keys of pending_order_data: orders pending in the sequencer or in the
\* batch that the loop holds.
PendingData(n) == ToSet(pending[n]) \union ToSet(loop[n].resolved)

Known(n) == PendingData(n) \union Applied(n)

\* The queue of the sequencing path: queue_for_sequencing.
Queue(n, o) == pending' = [pending EXCEPT ![n] = Append(@, o)]

Submit(n, o) ==
    /\ <<n, o>> \in Submissions
    /\ o \notin Known(n)
    /\ Queue(n, o)
    /\ UNCHANGED <<loop, heard, outbox, proposals, votes, confirmed, applied, faults>>

\* A hop sends on an order that it applied itself or that reached it as a flood.
Floods(h) == IF h = Origin THEN Earlier
             ELSE Applied(h) \union {f.flood.order : f \in heard[h]}

\* A flood arrives: an estimate of the order's origin time, for every arrival, and
\* the gossip replication loop, which queues an order it does not know.
Arrive(a) ==
    /\ a.order \in Floods(a.hop)
    /\ a \notin {f.flood : f \in heard[a.node]}
    /\ heard' = [heard EXCEPT ![a.node] = @ \union {[flood |-> a, anomalous |-> FALSE]}]
    /\ IF a.order \in Known(a.node) THEN UNCHANGED pending ELSE Queue(a.node, a.order)
    /\ UNCHANGED <<loop, outbox, proposals, votes, confirmed, applied, faults>>

\* The transit of a hop's flood turns out anomalous (HopLatency).
MarkAnomalous(n, f) ==
    /\ f \in heard[n] /\ ~f.anomalous /\ f.flood \in Withheld
    /\ heard' = [heard EXCEPT ![n] = (@ \ {f}) \union {[f EXCEPT !.anomalous = TRUE]}]
    /\ UNCHANGED <<pending, loop, outbox, proposals, votes, confirmed, applied, faults>>

-----------------------------------------------------------------------------
Estimates(n, o) == {f \in heard[n] : f.flood.order = o /\ f.flood.at # Unmeasured}

\* The estimates that count: the honest ones if there is one.
Preferred(estimates) ==
    LET honest == {f \in estimates : ~f.anomalous}
    IN IF honest = {} THEN estimates ELSE honest

\* The earliest of them, the first recorded among equals.
EarliestWitnesses(n, o) ==
    LET pool == {f.flood : f \in Preferred(Estimates(n, o))}
    IN {[hop |-> f.hop, at |-> f.at] : f \in {g \in pool : \A x \in pool : g.at <= x.at}}

Distance(s, t) == IF s <= t THEN t - s ELSE s - t

\* compare_by_evidence: order a comes before order b.
EarlierByEvidence(a, ea, b, eb) ==
    IF Distance(ea.at, eb.at) >= AmbiguityWindow
    THEN ea.at < eb.at
    ELSE TieBreakKey[<<a, ea.hop>>] < TieBreakKey[<<b, eb.hop>>]

Position(seq, o) == CHOOSE i \in DOMAIN seq : seq[i] = o

\* Slip: within the window the order of arrival decides.
BeforeOrArrivedFirst(queue, evidence, a, b) ==
    IF /\ {a, b} \subseteq DOMAIN evidence
       /\ Distance(evidence[a].at, evidence[b].at) >= AmbiguityWindow
    THEN evidence[a].at < evidence[b].at
    ELSE \/ a \in DOMAIN evidence /\ b \notin DOMAIN evidence
         \/ /\ a \in DOMAIN evidence <=> b \in DOMAIN evidence
            /\ Position(queue, a) < Position(queue, b)

\* The sequencer's compare.
Before(queue, evidence, a, b) ==
    IF {a, b} \subseteq DOMAIN evidence
    THEN EarlierByEvidence(a, evidence[a], b, evidence[b])
    ELSE \/ a \in DOMAIN evidence
         \/ b \notin DOMAIN evidence /\ Position(queue, a) < Position(queue, b)

\* The tie-break within the window makes the comparison cyclic for some evidence.
Transitive(queue, evidence) ==
    \A a, b, c \in ToSet(queue) :
        /\ Cardinality({a, b, c}) = 3
        /\ Before(queue, evidence, a, b) /\ Before(queue, evidence, b, c)
        => Before(queue, evidence, a, c)

\* What sort_by makes of the queue: the sorted queue, and with a cyclic comparison
\* some order that depends on the sort.
Resolutions(queue, evidence) ==
    LET Sorted(r) == \A i, j \in DOMAIN r : i < j => ~Before(queue, evidence, r[j], r[i])
    IN {r \in SetToSeqs(ToSet(queue)) : Transitive(queue, evidence) => Sorted(r)}

-----------------------------------------------------------------------------
\* The window is over: the loop reads which orders are pending.
BeginFlush(n) ==
    /\ loop[n].stage = "sleep" /\ pending[n] # <<>>
    /\ loop' = [loop EXCEPT ![n] = Querying(pending[n], <<>>)]
    /\ UNCHANGED <<pending, heard, outbox, proposals, votes, confirmed, applied, faults>>

\* evidence.insert(order, witness).
WithEvidence(evidence, o, w) ==
    [q \in DOMAIN evidence \union {o} |-> IF q = o THEN w ELSE evidence[q]]

\* It asks the mesh task for the evidence of one of them after the other.
QueryWitness(n) ==
    /\ loop[n].stage = "query" /\ loop[n].todo # <<>>
    /\ LET o == Head(loop[n].todo)
       IN \/ /\ EarliestWitnesses(n, o) = {}
             /\ loop' = [loop EXCEPT ![n] = Querying(Tail(@.todo), @.evidence)]
          \/ \E w \in EarliestWitnesses(n, o) :
               loop' = [loop EXCEPT ![n] =
                   Querying(Tail(@.todo), WithEvidence(@.evidence, o, w))]
    /\ UNCHANGED <<pending, heard, outbox, proposals, votes, confirmed, applied, faults>>

\* The flush takes everything pending, orders queued since the first query too, and
\* sends it on as a proposal.
Flush(n) ==
    /\ loop[n].stage = "query" /\ loop[n].todo = <<>>
    /\ pending' = [pending EXCEPT ![n] = <<>>]
    /\ \E resolved \in Resolutions(pending[n], loop[n].evidence) :
         /\ loop' = [loop EXCEPT ![n] = Waiting(@.evidence, resolved)]
         /\ outbox' = [outbox EXCEPT ![n] = Append(@, resolved)]
    /\ UNCHANGED <<heard, proposals, votes, confirmed, applied, faults>>

-----------------------------------------------------------------------------
\* Slip: the proposal commits to the orders, not to their sequence.
SameProposalKey(b, c) == ToSet(b) = ToSet(c)

SameProposal(b, c) == b = c

SameKey(b, c) == ToSet(b) = ToSet(c)

\* try_send on the channel of confirmed batches, which may be full.
Offer(channel, batch) == IF Len(channel) < Capacity THEN Append(channel, batch) ELSE channel

\* OrderBatchQuorum::record and record_batch_proposal on node n; the votes of the
\* key that are in expired are older than the window.
RecordBatchProposal(n, batch, reporter, expired) ==
    LET kept == (votes[n] \ expired) \union {[batch |-> batch, reporter |-> reporter]}
        agreeing == {v.reporter : v \in {u \in kept : SameProposal(u.batch, batch)}}
    IN /\ votes' = [votes EXCEPT ![n] = kept]
       /\ confirmed' = [confirmed EXCEPT ![n] =
            IF Cardinality(agreeing) >= MinReporters THEN Offer(@, batch) ELSE @]

\* The mesh task takes a batch from the loop: a proposal to every peer, and its
\* own vote.
ProposeBatch(n) ==
    /\ outbox[n] # <<>>
    /\ outbox' = [outbox EXCEPT ![n] = Tail(@)]
    /\ proposals' = proposals \union
         {[to |-> m, batch |-> Head(outbox[n]), reporter |-> n] : m \in Nodes \ {n}}
    /\ RecordBatchProposal(n, Head(outbox[n]), n, {})
    /\ UNCHANGED <<pending, loop, heard, applied, faults>>

\* A proposal arrives, in any order, perhaps twice or when older votes of its key
\* have expired; one that is lost stays in the network for ever.
ReceiveProposal(p) ==
    /\ \/ /\ proposals' = proposals \ {p} /\ UNCHANGED faults
          /\ RecordBatchProposal(p.to, p.batch, p.reporter, {})
       \/ /\ faults < MaxFaults /\ faults' = faults + 1
          /\ \E expired \in SUBSET {v \in votes[p.to] : SameKey(v.batch, p.batch)} :
               /\ proposals' = IF expired = {} THEN proposals ELSE proposals \ {p}
               /\ RecordBatchProposal(p.to, p.batch, p.reporter, expired)
    /\ UNCHANGED <<pending, loop, heard, outbox, applied>>

-----------------------------------------------------------------------------
\* apply_resolved_batch; the timestamps of its matches are AuditTrail's, and the
\* orders it drops when the write-ahead log fails are ApiNode's.
ApplyResolvedBatch(n, by) ==
    applied' = [applied EXCEPT ![n] = @ \o
        [i \in DOMAIN loop[n].resolved |->
            [order |-> loop[n].resolved[i], by |-> by]]]

\* Slip: the loop goes back to sleep with nothing queued.
RequeuedNothing(n) == pending

Requeued(n) == [pending EXCEPT ![n] = @ \o loop[n].resolved]

\* wait_for_batch_confirmation goes on waiting past another batch's confirmation.
Skipped(n, agreed) == ~SameKey(agreed, loop[n].resolved)

\* It returns: the quorum agreed with this node, or with another sequence.
TakeConfirmation(n) ==
    /\ loop[n].stage = "wait" /\ confirmed[n] # <<>>
    /\ confirmed' = [confirmed EXCEPT ![n] = Tail(@)]
    /\ LET agreed == Head(confirmed[n]) IN
       \/ /\ Skipped(n, agreed)
          /\ UNCHANGED <<loop, applied, pending>>
       \/ /\ ~Skipped(n, agreed)
          /\ loop' = [loop EXCEPT ![n] = Asleep]
          /\ \/ /\ SameProposal(agreed, loop[n].resolved)
                /\ ApplyResolvedBatch(n, "quorum") /\ UNCHANGED pending
             \/ /\ ~SameProposal(agreed, loop[n].resolved)
                /\ pending' = Requeued(n) /\ UNCHANGED applied
    /\ UNCHANGED <<heard, outbox, proposals, votes, faults>>

\* Slip: without a quorum the loop waits for ever.
WaitOn(n) == FALSE /\ UNCHANGED vars

\* It times out: the node applies its own resolution unconfirmed.
TimeOut(n) ==
    /\ loop[n].stage = "wait"
    /\ loop' = [loop EXCEPT ![n] = Asleep]
    /\ ApplyResolvedBatch(n, "timeout")
    /\ UNCHANGED <<pending, heard, outbox, proposals, votes, confirmed, faults>>

-----------------------------------------------------------------------------
LoopStep(n) ==
    BeginFlush(n) \/ QueryWitness(n) \/ Flush(n) \/ TakeConfirmation(n) \/ TimeOut(n)

Next ==
    \/ \E n \in Nodes : LoopStep(n) \/ ProposeBatch(n)
    \/ \E s \in Submissions : Submit(s[1], s[2])
    \/ \E a \in Arrivals : Arrive(a)
    \/ \E n \in Nodes : \E f \in heard[n] : MarkAnomalous(n, f)
    \/ \E p \in proposals : ReceiveProposal(p)

\* The loop is a task of its own with a timer in every wait; clients and the
\* network may do nothing.
Spec == Init /\ [][Next]_vars /\ \A n \in Nodes : WF_vars(LoopStep(n))

-----------------------------------------------------------------------------
Batches == {s \in Seq(Orders) : s # <<>> /\ IsInjective(s)}

TypeOK ==
    /\ \A n \in Nodes :
         /\ pending[n] \in Batches \union {<<>>}
         /\ loop[n].stage \in {"sleep", "query", "wait"}
         /\ loop[n].resolved \in Batches \union {<<>>}
         /\ DOMAIN loop[n].evidence \subseteq Orders
         /\ \A f \in heard[n] : f.flood \in Arrivals /\ f.flood.node = n
         /\ ToSet(outbox[n]) \subseteq Batches
         /\ \A v \in votes[n] : v.batch \in Batches /\ v.reporter \in Nodes \union {Origin}
         /\ ToSet(confirmed[n]) \subseteq Batches /\ Len(confirmed[n]) <= Capacity
    /\ \A p \in proposals : p.to \in Nodes /\ p.batch \in Batches
    /\ faults \in 0..MaxFaults

\* An order is applied at most once by a node, and is in one place of it: pending,
\* in the loop's batch or applied.  Queries, divergence, late confirmations and
\* repeated floods neither lose it nor queue it again.
OneCopy ==
    \A n \in Nodes :
        IsInjective(pending[n] \o loop[n].resolved
                    \o [i \in DOMAIN applied[n] |-> applied[n][i].order])

\* No order leaves a node's queue and batch but by being applied.
NoOrderLost ==
    [][\A n \in Nodes :
         PendingData(n) \union Applied(n) \subseteq (PendingData(n) \union Applied(n))']_vars

\* Nodes that resolve the same orders with the same evidence resolve them to the
\* same sequence, whatever order they reached each node in, if the comparison is
\* transitive on them.  (Times less than a window apart can make it cyclic.)
SameEvidenceSameSequence ==
    \A m, n \in Nodes :
        LET e == loop[m].evidence
            r == loop[m].resolved
        IN /\ loop[m].stage = "wait" /\ loop[n].stage = "wait"
           /\ SameKey(r, loop[n].resolved)
           /\ DOMAIN e = ToSet(r) /\ loop[n].evidence = e
           /\ Transitive(r, e)
           => r = loop[n].resolved

\* In every resolution with a transitive comparison an order whose origin time is
\* known comes before one whose is not, and two orders whose times are a window
\* apart come in the order of their times.
EvidenceDecides ==
    \A n \in Nodes :
        LET r == loop[n].resolved
            e == loop[n].evidence
        IN Transitive(r, e) =>
             \A i \in DOMAIN r : \A j \in 1..i :
                 r[i] \in DOMAIN e =>
                     r[j] \in DOMAIN e /\ e[r[j]].at < e[r[i]].at + AmbiguityWindow

\* Two nodes that apply two orders in batches of the same orders, both confirmed by
\* the quorum, apply them in the same order.
Places(n, o) == {i \in DOMAIN applied[n] : applied[n][i].order = o /\ applied[n][i].by = "quorum"}

ConfirmedAgree ==
    \A m, n \in Nodes : \A a, b \in Orders :
        \A i \in Places(m, a), j \in Places(m, b), k \in Places(n, a), l \in Places(n, b) :
            i < j => k < l

\* Every order a node takes is eventually applied there, with or without peers and
\* also when the quorum decides otherwise.
EventuallyApplied ==
    \A n \in Nodes : \A o \in Orders : o \in Known(n) ~> o \in Applied(n)

\* Every order is in one place of a node, and the sequences it is resolved to are
\* decided by evidence and not by its way there (flush, compare_by_evidence).
SequenceByEvidence == TypeOK /\ OneCopy /\ SameEvidenceSameSequence /\ EvidenceDecides
=============================================================================
