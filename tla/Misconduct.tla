---------------------------- MODULE Misconduct ------------------------------
(***************************************************************************)
(* crates/protocol: when do reports of misconduct cost a peer its standing *)
(* (MisconductQuorum in node.rs, crates/api/src/mesh_chain_status.rs).     *)
(*                                                                         *)
(* A node that detects something broadcasts a report and counts its own    *)
(* vote; every node that receives a report counts the reporter's.  Votes   *)
(* are kept for a window of the reports' own timestamps.  With enough      *)
(* distinct voters, and enough stake behind them where the node asks for   *)
(* it, the subject is flagged.  Stakes are read from a snapshot of the     *)
(* registry that a separate loop replaces now and then.                    *)
(*                                                                         *)
(* Messages arrive late, out of order or not at all.  What is detected is  *)
(* MeshFlood's, MeshNode's and AuditTrail's; what a flag costs, and the    *)
(* notification of a confirmation, which decides nothing, are left out.    *)
(***************************************************************************)
EXTENDS Integers, FiniteSets, FiniteSetsExt

CONSTANTS
    Nodes,
    Subjects,       \* the nodes that are reported
    Observers,      \* the nodes whose votes are followed
    Watchtowers,    \* the nodes whose watchtower reports without voting
    Keys,           \* per observer: the nodes whose pubkey it can tell, its own included
    MinReporters,   \* min_reporters
    Threshold,      \* misconduct_stake_threshold
    Window,         \* window_secs
    Stakes,         \* what a node may have staked
    Registries,     \* the registry at the start
    MaxTime,        \* bound: the clock
    MaxReports,     \* bound: reports in one behaviour
    MaxChanges      \* bound: changes of the registry in one behaviour

ASSUME NodesAssumption ==
    /\ IsFiniteSet(Nodes) /\ Subjects \subseteq Nodes /\ Observers \subseteq Nodes
    /\ Watchtowers \subseteq Nodes
ASSUME KeysAssumption == Keys \in [Observers -> SUBSET Nodes]
ASSUME NumbersAssumption ==
    /\ MinReporters \in Nat \ {0} /\ Threshold \in Nat /\ Window \in Nat \ {0}
    /\ Stakes \subseteq Nat
    /\ Registries \subseteq [Nodes -> [active : BOOLEAN, stake : Stakes \union {0}]]

VARIABLES
    staked,         \* require_staked_reporters: fixed by the start
    clock,
    registry,       \* the chain's own record of the nodes
    changes,
    chainStatus,    \* per observer: chain_status, the last snapshot
    sent,           \* every report broadcast
    handled,        \* per observer: the reports it has received
    accusations,    \* per observer and subject: the votes kept, by reporter
    flags,          \* per observer and subject: censorship_flags
    everActive,     \* the nodes the registry has had as active
    latest,         \* per observer and subject: the latest timestamp voted at
    reordered,      \* the pairs where an older report was counted after a newer
    overtaken       \* the pairs where a reporter's newer vote gave way to its older

chainVars == <<registry, changes, chainStatus, everActive>>
voteVars == <<accusations, flags, latest, reordered, overtaken>>
vars == <<staked, clock, chainVars, sent, handled, voteVars>>

Status == [active : BOOLEAN, stake : Stakes \union {0}]
NoVotes == [r \in {} |-> 0]      \* and an empty snapshot

Init ==
    /\ staked \in BOOLEAN
    /\ clock = 0
    /\ registry \in Registries
    /\ changes = 0
    /\ chainStatus = [n \in Observers |-> NoVotes]
    /\ sent = {}
    /\ handled = [n \in Observers |-> {}]
    /\ accusations = [n \in Observers |-> [s \in Subjects |-> NoVotes]]
    /\ flags = [n \in Observers |-> [s \in Subjects |-> 0]]
    /\ everActive = {n \in Nodes : registry[n].active}
    /\ latest = [n \in Observers |-> [s \in Subjects |-> 0]]
    /\ reordered = {} /\ overtaken = {}

-----------------------------------------------------------------------------
\* Slip: a node that has left still has its stake counted.
WeightOfAnyStake(n, r) ==
    IF ~staked THEN 1
    ELSE IF r \in Keys[n] /\ r \in DOMAIN chainStatus[n] THEN chainStatus[n][r].stake
    ELSE 0

\* reporter_weight
ReporterWeight(n, r) ==
    IF ~staked THEN 1
    ELSE IF r \in Keys[n] /\ r \in DOMAIN chainStatus[n] /\ chainStatus[n][r].active
    THEN chainStatus[n][r].stake
    ELSE 0

\* Slip: votes never expire.
AllKept(votes, now) == DOMAIN votes

Kept(votes, now) == {r \in DOMAIN votes : now - votes[r].at < Window}

\* record: what is too old goes, and a reporter's last vote replaces its
\* earlier one.
Recorded(votes, r, weight, now) ==
    [q \in Kept(votes, now) \union {r} |->
        IF q = r THEN [weight |-> weight, at |-> now] ELSE votes[q]]

TotalWeight(votes) == MapThenSumSet(LAMBDA r : votes[r].weight, DOMAIN votes)

\* Slip: it takes one more than asked for.
QuorumBeyond(votes) == Cardinality(DOMAIN votes) > MinReporters

\* Where no stake is asked for the least weight is 0, which any votes have.
QuorumMet(votes) ==
    /\ Cardinality(DOMAIN votes) >= MinReporters
    /\ staked => TotalWeight(votes) >= Threshold

Counts(weight) == weight > 0

\* apply_or_record_accusation, at node n.
Accuse(n, s, r, now) ==
    LET votes == Recorded(accusations[n][s], r, ReporterWeight(n, r), now) IN
    IF ~Counts(ReporterWeight(n, r)) THEN UNCHANGED voteVars
    ELSE
    /\ accusations' = [accusations EXCEPT ![n][s] = votes]
    /\ flags' = IF QuorumMet(votes) THEN [flags EXCEPT ![n][s] = @ + 1] ELSE flags
    /\ latest' = IF now > latest[n][s] THEN [latest EXCEPT ![n][s] = now] ELSE latest
    /\ reordered' = reordered \union (IF now < latest[n][s] THEN {<<n, s>>} ELSE {})
    /\ overtaken' = overtaken \union
         (IF r \in DOMAIN accusations[n][s] /\ now < accusations[n][s][r].at
          THEN {<<n, s>>} ELSE {})

Report(n, s) == [reporter |-> n, subject |-> s, at |-> clock]

\* Bound: a node reports another at most once at a time.
MayReport(n, s) == n # s /\ Report(n, s) \notin sent /\ Cardinality(sent) < MaxReports

\* report_misconduct of a mesh node: to every peer, and its own vote.
ReportMisconduct(n, s) ==
    /\ MayReport(n, s)
    /\ sent' = sent \union {Report(n, s)}
    /\ IF n \in Observers THEN Accuse(n, s, n, clock) ELSE UNCHANGED voteVars
    /\ UNCHANGED <<staked, clock, chainVars, handled>>

\* report_misconduct of a watchtower: to every peer, and no vote of its own.
WatchtowerReport(n, s) ==
    /\ MayReport(n, s)
    /\ sent' = sent \union {Report(n, s)}
    /\ UNCHANGED <<staked, clock, chainVars, handled, voteVars>>

\* The time its reporter gave it.
Stamp(report) == report.at

\* A report comes in.
ReceiveReport(n, report) ==
    /\ report \in sent \ handled[n] /\ report.reporter # n
    /\ handled' = [handled EXCEPT ![n] = @ \union {report}]
    /\ Accuse(n, report.subject, report.reporter, Stamp(report))
    /\ UNCHANGED <<staked, clock, chainVars, sent>>

Peers(n) == Keys[n] \ {n}

\* One round of the chain-status loop over the configured peers: one whose
\* status cannot be read is left out, one whose stake cannot be read has none.
Snapshot(n, answers) ==
    [r \in {p \in Peers(n) : answers[p] # "unread"} |->
        [active |-> registry[r].active,
         stake |-> IF answers[r] = "stakeless" THEN 0 ELSE registry[r].stake]]

PollChain(n, answers) ==
    /\ staked
    /\ chainStatus' = [chainStatus EXCEPT ![n] = Snapshot(n, answers)]
    /\ UNCHANGED <<staked, clock, registry, changes, everActive, sent, handled, voteVars>>

\* The registry, which only matters where stake is asked for: a node
\* registers, adds to its stake, is slashed or leaves.
RegistryChange(r, status) ==
    /\ staked /\ changes < MaxChanges /\ status # registry[r]
    /\ registry' = [registry EXCEPT ![r] = status]
    /\ changes' = changes + 1
    /\ everActive' = IF status.active THEN everActive \union {r} ELSE everActive
    /\ UNCHANGED <<staked, clock, chainStatus, sent, handled, voteVars>>

Tick ==
    /\ clock < MaxTime
    /\ clock' = clock + 1
    /\ UNCHANGED <<staked, chainVars, sent, handled, voteVars>>

Next ==
    \/ \E n \in Nodes, s \in Subjects : ReportMisconduct(n, s)
    \/ \E n \in Watchtowers, s \in Subjects : WatchtowerReport(n, s)
    \/ \E n \in Observers, report \in sent : ReceiveReport(n, report)
    \/ \E n \in Observers : \E answers \in [Peers(n) -> {"read", "unread", "stakeless"}] :
            PollChain(n, answers)
    \/ \E r \in Nodes, status \in Status : RegistryChange(r, status)
    \/ Tick

Spec == Init /\ [][Next]_vars

-----------------------------------------------------------------------------
\* The nodes that have reported s and, where stake is asked for, have been
\* active on chain.
Voices(s) ==
    {r \in Nodes : /\ \E report \in sent : report.reporter = r /\ report.subject = s
                   /\ staked => r \in everActive}

\* f maps some of the nodes into S.
IsPartial(f, S) == \E D \in SUBSET Nodes : f \in [D -> S]

Vote == [weight : Nat, at : Nat]

\* Votes and snapshots have the shape the maps of node.rs have, and no vote
\* is worth nothing.
TypeOK ==
    /\ staked \in BOOLEAN /\ clock \in Nat
    /\ registry \in [Nodes -> Status] /\ everActive \subseteq Nodes
    /\ sent \subseteq [reporter : Nodes, subject : Subjects, at : Nat]
    /\ flags \in [Observers -> [Subjects -> Nat]]
    /\ latest \in [Observers -> [Subjects -> Nat]]
    /\ \A n \in Observers : IsPartial(chainStatus[n], Status)
    /\ \A n \in Observers, s \in Subjects :
        /\ IsPartial(accusations[n][s], Vote)
        /\ \A r \in DOMAIN accusations[n][s] : accusations[n][s][r].weight > 0

\* No node loses its standing with another on one voice: whoever is flagged
\* anywhere was reported by as many distinct nodes as the quorum asks for,
\* and where stake is asked for each of them has been active on chain.
FlaggedByQuorum ==
    \A n \in Observers, s \in Subjects : flags[n][s] > 0 => Cardinality(Voices(s)) >= MinReporters

\* A vote that is kept was cast by a report of that reporter and at the time
\* it carries, not earlier or later.
VotesAreReports ==
    \A n \in Observers, s \in Subjects : \A r \in DOMAIN accusations[n][s] :
        [reporter |-> r, subject |-> s, at |-> accusations[n][s][r].at] \in sent

\* Votes counted together were cast within one window of each other, unless a
\* report came after a newer one: it expires nothing that was cast after it.
VotesTogether ==
    \A n \in Observers, s \in Subjects : <<n, s>> \notin reordered =>
        \A q, r \in DOMAIN accusations[n][s] :
            accusations[n][s][q].at - accusations[n][s][r].at < Window

\* The reports about s that n has counted, its own ones included.
Heard(n, s) ==
    {report \in handled[n] \union {own \in sent : own.reporter = n} : report.subject = s}

\* Two nodes have reported s within one window, and n has heard both.
Agreement(n, s) ==
    \E a, b \in Heard(n, s) : /\ a.reporter # b.reporter
                              /\ a.at - b.at < Window /\ b.at - a.at < Window

\* Where no stake is asked for, and two voices are a quorum, a node that has
\* heard two that agree has flagged the subject, in whatever order the reports
\* came and whatever came between them, unless a reporter's older report
\* replaced its newer one.  (At a watchtower its own reports count for nothing.)
AgreementFlags ==
    MinReporters = 2 /\ ~staked =>
        \A n \in Observers \ Watchtowers, s \in Subjects :
            Agreement(n, s) => flags[n][s] > 0 \/ <<n, s>> \in overtaken
=============================================================================
