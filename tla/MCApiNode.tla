------------------------------ MODULE MCApiNode -----------------------------
(***************************************************************************)
(* An API node from its start on: main (ApiBoot), and once it serves, its  *)
(* handlers and loops (ApiNode).  Below are the orders, traders, trades    *)
(* and setups of the runs, and the environments main is started in.        *)
(***************************************************************************)
EXTENDS ApiNode, ApiBoot

CONSTANTS a1, b1, a2, b2, alice, bob

\* Bob's orders cross Alice's, first with first and second with second.
MCTraderOf == [o \in Orders |-> IF o \in {a1, a2} THEN alice ELSE bob]
MCNonceOf == [o \in Orders |-> IF o \in {a1, b1} THEN 1 ELSE 2]
MCCrossing == {k \in {<<a1, b1>>, <<a2, b2>>} : {k[1], k[2]} \subseteq Orders}
MCValue == [k \in MCCrossing |-> 1]
MCEvidence == [o \in Orders |-> 100]

StandardTier == [k \in MCCrossing |-> "Standard"]
InstantTier == [k \in MCCrossing |-> "Instant"]
MixedTier == [k \in MCCrossing |-> IF k = <<a1, b1>> THEN "Instant" ELSE "Standard"]

BothCrossed == <<a1, a2, b1, b2>>

\* Orders arrive over HTTP and from peers and are sequenced; appends and
\* snapshots may fail.
TakingIn ==
    [chain |-> "ethereum", gas |-> 50, sequencing |-> TRUE, tier |-> StandardTier,
     incoming |-> {a1, b1, b2}, witnessed |-> {b1}, accepted |-> <<>>,
     snapshots |-> TRUE, faults |-> {"wal", "save"},
     maxRestarts |-> 1, maxEntries |-> 5]

\* Trades are confirmed and settled, and most of it may fail.
Settling ==
    [chain |-> "ethereum", gas |-> 50, sequencing |-> FALSE, tier |-> StandardTier, incoming |-> {b2}, witnessed |-> {},
     accepted |-> <<a1, a2, b1>>, snapshots |-> FALSE,
     faults |-> {"wal", "resolve", "expire", "send"}, maxRestarts |-> 2, maxEntries |-> 8]

\* Trades of two tiers are settled while snapshots are taken.
Snapshotting ==
    [chain |-> "ethereum", gas |-> 50, sequencing |-> FALSE, tier |-> MixedTier, incoming |-> {}, witnessed |-> {},
     accepted |-> BothCrossed, snapshots |-> TRUE, faults |-> {"expire"},
     maxRestarts |-> 1, maxEntries |-> 7]

\* Trades are settled one by one, and the node may crash.
Crashing ==
    [chain |-> "ethereum", gas |-> 50, sequencing |-> FALSE, tier |-> InstantTier, incoming |-> {}, witnessed |-> {},
     accepted |-> BothCrossed, snapshots |-> FALSE, faults |-> {}, maxRestarts |-> 2, maxEntries |-> 10]

\* The same on FRG.
CrashingOnFrg == [Crashing EXCEPT !.chain = "frg"]

\* Deadlines may pass while a batch is being sent, and a batch may be mined late:
\* either way one can revert.
Reverting ==
    [Crashing EXCEPT !.tier = StandardTier, !.faults = {"expire", "late", "revert"}, !.maxRestarts = 1]

\* The operator has configured four times the baseline gas price.
Priced == [Crashing EXCEPT !.gas = 200, !.maxRestarts = 0]
OnlyPriced == {Priced}

AllSetups == {TakingIn, Settling, Snapshotting, Crashing, CrashingOnFrg, Reverting, Priced}

-----------------------------------------------------------------------------
\* The environment in which a node of the given setup starts.
EnvironmentOf(s) ==
    [chain |-> s.chain, ethereum |-> IF s.chain = "frg" THEN "unset" ELSE "ok",
     frg |-> IF s.chain = "frg" THEN "ok" ELSE "unset", nodeKey |-> "ok", receiptKey |-> "ok",
     activeNodes |-> "unset", mesh |-> IF s.sequencing THEN "ok" ELSE "unset",
     requireStake |-> FALSE, threshold |-> "unset",
     window |-> IF s.sequencing THEN "ok" ELSE "unset", persistence |-> "ok", port |-> "free"]

\* Every choice an operator has, with everything needed or nothing more ...
Configurations ==
    {[chain |-> c, ethereum |-> e, frg |-> IF c = "frg" THEN "ok" ELSE "unset", nodeKey |-> "ok",
      receiptKey |-> "unset", activeNodes |-> a, mesh |-> m, requireStake |-> r,
      threshold |-> t, window |-> w, persistence |-> p, port |-> "free"] :
        c \in {"unset", "ethereum", "frg"}, e \in {"unset", "ok"}, a \in {"unset", "ok"},
        m \in {"unset", "ok"}, r \in BOOLEAN, t \in {"unset", "ok"}, w \in {"unset", "ok"},
        p \in {"unset", "ok"}}

\* ... and one thing wrong with them.
Mistakes(e) ==
    {[e EXCEPT !.chain = "bad"], [e EXCEPT !.ethereum = "badKey"], [e EXCEPT !.ethereum = "badAddress"],
     [e EXCEPT !.frg = "bad"], [e EXCEPT !.frg = "unreachable"],
     [e EXCEPT !.nodeKey = "bad"], [e EXCEPT !.receiptKey = "bad"], [e EXCEPT !.activeNodes = "bad"],
     [e EXCEPT !.activeNodes = "others"], [e EXCEPT !.mesh = "bad"], [e EXCEPT !.threshold = "bad"],
     [e EXCEPT !.window = "bad"], [e EXCEPT !.persistence = "bad"],
     [e EXCEPT !.persistence = "corrupt"], [e EXCEPT !.port = "taken"]}

AllEnvironments ==
    {EnvironmentOf(s) : s \in Setups} \union Configurations \union UNION {Mistakes(e) : e \in Configurations}

\* Only one setup is started in other environments than its own, ...
StartInit == Init /\ BootInit /\ (env = EnvironmentOf(setup) \/ setup = Crashing)

\* ... and their nodes are not followed any further.
Started == stage = "serving" /\ env = EnvironmentOf(setup)

StartNext == (Started /\ Next /\ UNCHANGED bootVars) \/ (BootNext /\ UNCHANGED vars)

StartSpec == StartInit /\ [][StartNext]_<<vars, bootVars>> /\ Fairness
=============================================================================
