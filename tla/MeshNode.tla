------------------------------ MODULE MeshNode ------------------------------
(***************************************************************************)
(* One mesh node from the inside (MeshNode::run of crates/protocol): the   *)
(* task that reads the socket, the bounded channels it fills, the main     *)
(* loop that empties them, the pings, and HopLatencyMonitor, which looks   *)
(* for relays that hold orders back.                                       *)
(*                                                                         *)
(* A handler of the main loop waits only for its own sends, so it is one   *)
(* step.  Its floods are MeshFlood's, its arrival times and proposals      *)
(* Sequencing's and its accusations Misconduct's; here they are taken off  *)
(* their channels.  The peers follow the code; packets are delayed, lost,  *)
(* reordered and, at most MaxDups times, duplicated.                       *)
(***************************************************************************)
EXTENDS Integers, SequencesExt, FiniteSetsExt

CONSTANTS
    Self,
    Hops,           \* the peers
    Orders,
    Capacity,       \* channel -> its size
    ReaderSets,     \* which receivers the owner of the node may have taken
    Loads,          \* which kinds of traffic there may be
    Measured,       \* the round trips that earlier pings may have left, by peer
    Window,         \* WINDOW_SIZE
    MinTolerance,   \* MIN_TOLERANCE_MS
    PingTimeout,    \* age at which a pending ping is given up
    MaxTime,        \* bound: the clock
    MaxPings,       \* bound: ping ticks
    MaxOther,       \* bound: packets of the kinds without an order or a ping
    MaxDups         \* bound: duplicated packets

VARIABLES
    readers, load,
    clock,
    wire,           \* packets on their way to this node
    others, dups,   \* packets counted against MaxOther and MaxDups
    task,           \* the sends that the receive task has left for its packet
    chan,           \* channel -> queue
    pinged,         \* nonce -> the peer that was pinged with it
    pendingPings,   \* nonce -> when it was sent, for the nonces without an answer
    samples,        \* peer -> round trips
    forwarded,      \* <<order, hop>> -> when the hop forwarded the order to this node
    pendingFloods, pendingWitnesses, \* <<order, hop>> -> time
    verdicts,       \* <<order, hop, anomalous>>
    distrusted,     \* <<order, hop>>: mark_anomalous
    witnessed,      \* orders this node sent its witness of
    reports,        \* [order, hop, corroborated]: the misconduct it reported
    slow            \* <<order, hop>> whose copy was handled later than the tolerance

pingVars == <<pinged, pendingPings, samples>>
hopVars == <<pendingFloods, pendingWitnesses, verdicts, distrusted, witnessed, reports, slow>>
netVars == <<wire, others, dups, forwarded>>
vars == <<readers, load, clock, netVars, task, chan, pingVars, hopVars>>

External == {"settlement", "log", "misconduct", "observer"}

\* Slip: a select without the branch for proposals.
MainChannelsButOne == {"flood", "echo", "internal", "pong", "witness"}

\* The channels that the main loop selects from.
MainChannels == {"flood", "echo", "internal", "pong", "witness", "proposal"}

Channels == {"flood", "echo", "internal", "pong", "witness", "proposal"} \union External

None == [p \in {} |-> 0]
Without(f, k) == [x \in DOMAIN f \ {k} |-> f[x]]
With(f, k, v) == [x \in DOMAIN f \union {k} |-> IF x = k THEN v ELSE f[x]]

Init ==
    /\ readers \in ReaderSets /\ load \in Loads
    /\ clock = 0
    /\ wire = {} /\ others = 0 /\ dups = 0 /\ forwarded = None
    /\ task = <<>> /\ chan = [c \in Channels |-> <<>>]
    /\ pinged = <<>> /\ pendingPings = None
    /\ samples \in IF "order" \in load THEN Measured ELSE {[h \in Hops |-> <<>>]}
    /\ pendingFloods = None /\ pendingWitnesses = None
    /\ verdicts = {} /\ distrusted = {} /\ witnessed = {} /\ reports = {} /\ slow = {}

-----------------------------------------------------------------------------
(* The network. *)

\* Time passes.
Tick ==
    /\ load \intersect {"order", "pong"} # {} /\ clock < MaxTime
    /\ clock' = clock + 1
    /\ UNCHANGED <<readers, load, netVars, task, chan, pingVars, hopVars>>

\* A relay sends its witness of an order and the order (run(), on its side).
Forward(o, h) ==
    /\ "order" \in load /\ <<o, h>> \notin DOMAIN forwarded
    /\ forwarded' = With(forwarded, <<o, h>>, clock)
    /\ wire' = wire \union {[kind |-> "flood", order |-> o, from |-> h],
                            [kind |-> "witness", order |-> o, from |-> h, at |-> clock]}
    /\ UNCHANGED <<readers, load, clock, others, dups, task, chan, pingVars, hopVars>>

\* A packet of another kind is sent to this node.
SendOther(kind) ==
    /\ kind \in load \ {"order", "pong"} /\ others < MaxOther
    /\ others' = others + 1
    /\ wire' = wire \union {[kind |-> kind, id |-> others]}
    /\ UNCHANGED <<readers, load, clock, dups, forwarded, task, chan, pingVars, hopVars>>

-----------------------------------------------------------------------------
(* The receive task. *)

\* Where a packet goes.  A ping is answered and a heartbeat dropped at once; a pong
\* is given its time of arrival.
Route(pkt) ==
    CASE pkt.kind = "flood" -> <<[to |-> "flood", item |-> pkt]>>
      [] pkt.kind = "echo" -> <<[to |-> "echo", item |-> pkt]>>
      [] pkt.kind = "proof" -> <<[to |-> "settlement", item |-> pkt]>>
      [] pkt.kind = "log" -> <<[to |-> "log", item |-> pkt]>>
      [] pkt.kind = "report" -> <<[to |-> "misconduct", item |-> pkt], [to |-> "internal", item |-> pkt]>>
      [] pkt.kind = "pong" ->
           <<[to |-> "pong", item |-> [nonce |-> pkt.nonce, from |-> pkt.from, at |-> clock]]>>
      [] pkt.kind = "witness" -> <<[to |-> "witness", item |-> pkt]>>
      [] pkt.kind = "proposal" -> <<[to |-> "proposal", item |-> pkt]>>
      [] OTHER -> <<>>

\* recv returns a packet.
Receive(pkt) ==
    /\ task = <<>>
    /\ task' = Route(pkt)
    /\ \/ wire' = wire \ {pkt} /\ UNCHANGED dups
       \/ dups < MaxDups /\ dups' = dups + 1 /\ UNCHANGED wire
    /\ UNCHANGED <<readers, load, clock, others, forwarded, chan, pingVars, hopVars>>

Full(c) == Len(chan[c]) >= Capacity[c]

\* send().await: the task waits for room.
Push ==
    /\ task # <<>> /\ ~Full(Head(task).to)
    /\ chan' = [chan EXCEPT ![Head(task).to] = Append(@, Head(task).item)]
    /\ task' = Tail(task)
    /\ UNCHANGED <<readers, load, clock, netVars, pingVars, hopVars>>

\* A taken receiver is read by its owner.
Read(c) ==
    /\ c \in readers /\ chan[c] # <<>>
    /\ chan' = [chan EXCEPT ![c] = Tail(@)]
    /\ UNCHANGED <<readers, load, clock, netVars, task, pingVars, hopVars>>

-----------------------------------------------------------------------------
(* Latency: the mean and the deviation of the round trips, without fractions. *)

RecordRtt(window, rtt) ==
    IF Len(window) >= Window THEN Append(Tail(window), rtt) ELSE Append(window, rtt)

Total(w) == FoldSeq(+, 0, w)

\* n * variance * n, for n samples.
Spread(w) == Len(w) * Total([i \in DOMAIN w |-> w[i] * w[i]]) - Total(w) * Total(w)

\* d is 2 n times a distance from the one-way mean: is it more than the tolerance and
\* more than four deviations?
Beyond(w, d) == d > 2 * Len(w) * MinTolerance /\ d * d > 64 * Spread(w)

\* The node has no round trips of itself.
SamplesOf(h) == IF h \in Hops THEN samples[h] ELSE <<>>

IsAnomalous(h, observed) ==
    LET w == SamplesOf(h) IN w # <<>> /\ Beyond(w, 2 * Len(w) * observed - Total(w))

IsImplausiblyFast(h, observed) ==
    LET w == SamplesOf(h) IN w # <<>> /\ Beyond(w, Total(w) - 2 * Len(w) * observed)

-----------------------------------------------------------------------------
(* The main loop. *)

\* ping_tick.
PingTick ==
    /\ "pong" \in load /\ Len(pinged) + Cardinality(Hops) <= MaxPings * Cardinality(Hops)
    /\ \E peers \in SetToSeqs(Hops) :
         /\ pinged' = pinged \o peers
         /\ wire' = wire \union {[kind |-> "pong", nonce |-> Len(pinged) + i, from |-> peers[i]] :
                                    i \in DOMAIN peers}
    /\ LET sent == [n \in DOMAIN pendingPings \union (Len(pinged) + 1 .. Len(pinged) + Cardinality(Hops)) |->
                      IF n \in DOMAIN pendingPings THEN pendingPings[n] ELSE clock]
       IN pendingPings' = [n \in {k \in DOMAIN sent : clock - sent[k] < PingTimeout} |-> sent[n]]
    /\ UNCHANGED <<readers, load, clock, others, dups, forwarded, task, chan, samples, hopVars>>

Answered(nonce) == Without(pendingPings, nonce)

HandlePong(item) ==
    /\ \/ item.nonce \notin DOMAIN pendingPings /\ UNCHANGED <<pendingPings, samples>>
       \/ /\ item.nonce \in DOMAIN pendingPings
          /\ pendingPings' = Answered(item.nonce)
          /\ samples' = [samples EXCEPT ![item.from] =
                           RecordRtt(@, item.at - pendingPings[item.nonce])]
    /\ UNCHANGED <<pinged, hopVars>>

\* handle_hop_latency_result: the verdict, and a report of a hop that is too slow.
Judge(o, h, observed) ==
    LET anomalous == IsAnomalous(h, observed)
        normal == {v \in verdicts : v[1] = o /\ v[2] # h /\ ~v[3]}
    IN /\ verdicts' = verdicts \union {<<o, h, anomalous>>}
       /\ distrusted' = IF anomalous \/ IsImplausiblyFast(h, observed)
                          THEN distrusted \union {<<o, h>>} ELSE distrusted
       /\ reports' = IF anomalous
                       THEN reports \union {[order |-> o, hop |-> h, corroborated |-> normal # {}]}
                       ELSE reports

\* Slip: an arrival is matched with any hop's witness of the order.
KeyOfOrder(o, h) == <<o>>

\* What the two halves are filed under.
Key(o, h) == <<o, h>>

\* try_match finds both halves.
Matched(floods, witnesses, k, kind) == k \in DOMAIN floods /\ k \in DOMAIN witnesses

\* on_flood_received and on_witness_received, and what follows a match.
Correlate(o, h, floods, witnesses, kind) ==
    LET k == Key(o, h)
    IN \/ /\ Matched(floods, witnesses, k, kind)
          /\ pendingFloods' = Without(floods, k)
          /\ pendingWitnesses' = Without(witnesses, k)
          /\ Judge(o, h, floods[k] - witnesses[k])
       \/ /\ ~Matched(floods, witnesses, k, kind)
          /\ pendingFloods' = floods /\ pendingWitnesses' = witnesses
          /\ UNCHANGED <<verdicts, distrusted, reports>>

\* A flood: it is observed (unless it is the node's own), witnessed once, and
\* correlated.  The observer's channel is not waited for.
HandleFlood(item) ==
    /\ witnessed' = witnessed \union {item.order}
    /\ slow' = IF item.from # Self /\ clock - forwarded[<<item.order, item.from>>] > MinTolerance
                 THEN slow \union {<<item.order, item.from>>} ELSE slow
    /\ Correlate(item.order, item.from,
                 With(pendingFloods, Key(item.order, item.from), clock), pendingWitnesses, "flood")
    /\ UNCHANGED pingVars

HandleWitness(item) ==
    /\ Correlate(item.order, item.from,
                 pendingFloods, With(pendingWitnesses, Key(item.order, item.from), item.at), "witness")
    /\ UNCHANGED <<witnessed, slow, pingVars>>

\* One turn of the select with a message from channel c.
LoopStep(c) ==
    /\ chan[c] # <<>>
    /\ LET item == Head(chan[c])
           seen == c = "flood" /\ item.from # Self /\ ~Full("observer")
       IN /\ chan' = [d \in Channels |->
                        IF d = c THEN Tail(chan[c])
                        ELSE IF d = "observer" /\ seen THEN Append(chan[d], item)
                        ELSE chan[d]]
          /\ \/ c = "flood" /\ HandleFlood(item)
             \/ c = "pong" /\ HandlePong(item)
             \/ c = "witness" /\ HandleWitness(item)
             \/ c \in {"echo", "internal", "proposal"} /\ UNCHANGED <<pingVars, hopVars>>
    /\ UNCHANGED <<readers, load, clock, netVars, task>>

\* The API node injects an order of its own, if there is room.
Inject(o) ==
    /\ "order" \in load /\ o \notin witnessed
    /\ ~Full("flood")
    /\ chan' = [chan EXCEPT !["flood"] = Append(@, [kind |-> "flood", order |-> o, from |-> Self])]
    /\ UNCHANGED <<readers, load, clock, netVars, task, pingVars, hopVars>>

-----------------------------------------------------------------------------
Next ==
    \/ Tick
    \/ \E o \in Orders, h \in Hops : Forward(o, h)
    \/ \E kind \in UNION Loads : SendOther(kind)
    \/ \E pkt \in wire : Receive(pkt)
    \/ Push
    \/ \E c \in External : Read(c)
    \/ PingTick
    \/ \E c \in MainChannels : LoopStep(c)
    \/ \E o \in Orders : Inject(o)

\* The two tasks run, select! starves no branch, and a taken receiver is read.
Spec ==
    /\ Init /\ [][Next]_vars
    /\ WF_vars(Push)
    /\ \A c \in MainChannels : WF_vars(LoopStep(c))
    /\ \A c \in External : WF_vars(Read(c))

-----------------------------------------------------------------------------
TypeOK ==
    /\ readers \in ReaderSets /\ load \in Loads /\ clock \in 0..MaxTime
    /\ \A c \in Channels : Len(chan[c]) \in 0..Capacity[c]
    /\ Len(task) \in 0..2 /\ \A i \in DOMAIN task : task[i].to \in Channels
    /\ DOMAIN pendingPings \subseteq DOMAIN pinged /\ ToSet(pinged) \subseteq Hops
    /\ \A h \in Hops : Len(samples[h]) \in 0..Window /\ ToSet(samples[h]) \subseteq Nat
    /\ verdicts \subseteq Orders \X (Hops \union {Self}) \X BOOLEAN
    /\ witnessed \subseteq Orders /\ others \in 0..MaxOther /\ dups \in 0..MaxDups

\* A relay is reported only for an order whose copy from this very relay was handled
\* more than the tolerance after the relay had seen it, whatever came over the
\* other paths and in whatever order the two halves arrived.
ReportedWasSlow == \A r \in reports : <<r.order, r.hop>> \in slow

\* The two halves of an observation never wait side by side: whichever comes second
\* finds the first.
HalvesMeet == DOMAIN pendingFloods \intersect DOMAIN pendingWitnesses = {}

\* A ping gives at most one sample, and to the peer that was pinged, however often
\* and however late its pong arrives.
OneSamplePerPing ==
    \A h \in Hops :
        "pong" \in load =>
            Len(samples[h]) <= Cardinality({n \in DOMAIN pinged : pinged[n] = h} \ DOMAIN pendingPings)

\* What the receive task took off the socket is delivered and, in the main loop,
\* handled: no full channel holds the node up for good.
EventuallyDrained == <>[](task = <<>> /\ \A c \in Channels \ External : chan[c] = <<>>)

\* Every report of misconduct that the receive task takes off the socket gets to the
\* main loop and so into the node's own reputation engine, whichever receivers the
\* owner took: misconduct_receiver is "for external visibility beyond that".
ReportsReachEngine == (\E i \in DOMAIN task : task[i].to = "internal") ~> task = <<>>

\* What the node concludes about its peers' latencies is right: whom it reports was
\* slow, observations are put together from both halves, and a ping counts once
\* (on_flood_received, on_witness_received, record_rtt).
ObservationsSound == TypeOK /\ ReportedWasSlow /\ HalvesMeet /\ OneSamplePerPing
=============================================================================
