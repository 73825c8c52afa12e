-------------------------- MODULE MisconductProofs --------------------------
(***************************************************************************)
(* For any number of nodes, any quorum, window and stakes: a node that is  *)
(* flagged anywhere was reported by a quorum of distinct nodes, votes that *)
(* count together were cast within a window of each other, and two voices  *)
(* that agree are not missed.                                              *)
(*                                                                         *)
(* FlaggedByQuorum is not inductive by itself.  It rests on where votes    *)
(* come from: a vote that is kept was reported (VotesAreReports) and, with *)
(* stake, its reporter has been active (VotesStaked), because snapshots    *)
(* only ever show as active who has been (SnapshotsTrue).  VotesTogether   *)
(* rests on latest being an upper bound of the votes (VotesBefore).        *)
(* AgreementFlags rests on what is known of a subject that has not been    *)
(* flagged: one vote at most is kept, it is the newest report heard, and   *)
(* reports of different nodes are a window or more apart (OneVoice).       *)
(***************************************************************************)
EXTENDS Misconduct, FiniteSetTheorems, TLAPS

\* The maps of maps that actions update in place.
Shapes ==
    /\ chainStatus = [n \in Observers |-> chainStatus[n]]
    /\ accusations = [n \in Observers |-> [s \in Subjects |-> accusations[n][s]]]

VotesStaked ==
    \A n \in Observers, s \in Subjects : \A r \in DOMAIN accusations[n][s] :
        staked => r \in everActive

VotesBefore ==
    \A n \in Observers, s \in Subjects : \A r \in DOMAIN accusations[n][s] :
        accusations[n][s][r].at <= latest[n][s]

SnapshotsTrue ==
    /\ \A r \in Nodes : registry[r].active => r \in everActive
    /\ \A n \in Observers : \A r \in DOMAIN chainStatus[n] :
          chainStatus[n][r].active => r \in everActive

IInv ==
    /\ TypeOK /\ Shapes /\ SnapshotsTrue
    /\ VotesAreReports /\ VotesStaked /\ VotesBefore /\ VotesTogether
    /\ FlaggedByQuorum

\* What a reporter's word is worth is a number, and only one who has been
\* active on chain has any where stake is asked for.
LEMMA WeightFacts ==
    ASSUME IInv, NEW n \in Observers, NEW r \in Nodes
    PROVE  /\ ReporterWeight(n, r) \in Nat
           /\ staked /\ ReporterWeight(n, r) > 0 => r \in everActive
<1>1. PICK D \in SUBSET Nodes : chainStatus[n] \in [D -> Status]
  BY Zenon DEF IInv, TypeOK, IsPartial
<1>2. \A q \in DOMAIN chainStatus[n] : chainStatus[n][q] \in Status
  BY <1>1
<1>3. Stakes \union {0} \subseteq Nat
  BY NumbersAssumption
<1>5. \A status \in Status : status.stake \in Nat
  BY <1>3 DEF Status
<1>4. \A q \in DOMAIN chainStatus[n] : chainStatus[n][q].active => q \in everActive
  BY DEF IInv, SnapshotsTrue
<1> QED
  BY <1>2, <1>5, <1>4 DEF ReporterWeight

\* More reports and more active nodes mean no fewer voices, of which there
\* are finitely many.
LEMMA VoicesGrow ==
    ASSUME NEW s \in Subjects, sent \subseteq sent', everActive \subseteq everActive', staked' = staked
    PROVE  /\ IsFiniteSet(Voices(s)) /\ IsFiniteSet(Voices(s)')
           /\ Cardinality(Voices(s)) \in Nat /\ Cardinality(Voices(s)') \in Nat
           /\ Cardinality(Voices(s)) <= Cardinality(Voices(s)')
<1>1. Voices(s) \subseteq Voices(s)' /\ Voices(s) \subseteq Nodes /\ Voices(s)' \subseteq Nodes
  BY DEF Voices
<1>2. IsFiniteSet(Voices(s)) /\ IsFiniteSet(Voices(s)')
  BY <1>1, NodesAssumption, FS_Subset
<1> QED
  BY <1>1, <1>2, FS_Subset, FS_CardinalityType

\* A vote cast for a report that was sent keeps all that is said of votes
\* and flags.
LEMMA AccuseKeeps ==
    ASSUME IInv, NEW n \in Observers, NEW s \in Subjects, NEW r \in Nodes, NEW now \in Nat,
           Accuse(n, s, r, now),
           sent \subseteq sent', sent' \subseteq [reporter : Nodes, subject : Subjects, at : Nat],
           [reporter |-> r, subject |-> s, at |-> now] \in sent',
           UNCHANGED <<staked, clock, chainVars>>
    PROVE  IInv'
<1> DEFINE w == ReporterWeight(n, r)
           votes == accusations[n][s]
           new == Recorded(votes, r, w, now)
<1>0. UNCHANGED <<staked, clock, registry, changes, chainStatus, everActive>>
  BY DEF chainVars
<1>1. w \in Nat /\ (staked /\ w > 0 => r \in everActive)
  BY WeightFacts
<1>2. PICK D \in SUBSET Nodes : votes \in [D -> Vote]
  BY Zenon DEF IInv, TypeOK, IsPartial
\* The voters are those kept and the new one, with the votes they had and the
\* new one.
<1>3. /\ DOMAIN new \subseteq Nodes
      /\ new \in [DOMAIN new -> Vote]
      /\ r \in DOMAIN new /\ new[r] = [weight |-> w, at |-> now]
      /\ \A q \in DOMAIN new : q # r =>
            q \in DOMAIN votes /\ new[q] = votes[q] /\ now - votes[q].at < Window
  <2> HIDE DEF w, votes
  <2>1. DOMAIN votes = D
    BY <1>2
  <2> QED
    BY <1>1, <1>2, <2>1 DEF Recorded, Kept, Vote
<1>4. \A t \in Subjects : /\ Cardinality(Voices(t)) \in Nat /\ Cardinality(Voices(t)') \in Nat
                          /\ IsFiniteSet(Voices(t)')
                          /\ Cardinality(Voices(t)) <= Cardinality(Voices(t)')
  <2> TAKE t \in Subjects
  <2>1. everActive \subseteq everActive' /\ staked' = staked
    BY <1>0, Zenon
  <2> QED
    BY <2>1, VoicesGrow
<1>5. CASE ~Counts(w)
  <2>1. UNCHANGED <<accusations, flags, latest, reordered, overtaken>>
    BY <1>5 DEF Accuse, voteVars
  <2>2. FlaggedByQuorum'
    BY <2>1, <1>4, NumbersAssumption, SMTT(30) DEF IInv, FlaggedByQuorum, TypeOK
  <2> QED
    BY <1>0, <2>1, <2>2, SMTT(30)
    DEF IInv, TypeOK, Shapes, SnapshotsTrue, VotesAreReports, VotesStaked, VotesBefore, VotesTogether
<1>6. CASE Counts(w)
  <2> HIDE DEF w, votes, new
  <2>1. /\ accusations' = [accusations EXCEPT ![n][s] = new]
        /\ flags' = IF QuorumMet(new) THEN [flags EXCEPT ![n][s] = @ + 1] ELSE flags
        /\ latest' = IF now > latest[n][s] THEN [latest EXCEPT ![n][s] = now] ELSE latest
        /\ reordered' = reordered \union (IF now < latest[n][s] THEN {<<n, s>>} ELSE {})
    BY <1>6 DEF Accuse, w, votes, new
  <2>2. /\ accusations'[n][s] = new
        /\ \A m \in Observers, t \in Subjects :
              <<m, t>> # <<n, s>> => accusations'[m][t] = accusations[m][t]
        /\ accusations' = [m \in Observers |-> [t \in Subjects |-> accusations'[m][t]]]
    BY <2>1, Zenon DEF IInv, Shapes
  <2>3. w > 0
    BY <1>6 DEF Counts
  <2>4. votes = accusations[n][s]
    BY DEF votes
  <2>5. TypeOK'
    <3>1. \A m \in Observers, t \in Subjects :
            /\ IsPartial(accusations'[m][t], Vote)
            /\ \A q \in DOMAIN accusations'[m][t] : accusations'[m][t][q].weight > 0
      <4> TAKE m \in Observers, t \in Subjects
      <4>1. CASE <<m, t>> # <<n, s>>
        BY <4>1, <2>2, ZenonT(60) DEF IInv, TypeOK
      <4>2. CASE <<m, t>> = <<n, s>>
        <5>1. IsPartial(new, Vote)
          BY <1>3 DEF IsPartial
        <5>2. \A q \in DOMAIN new : new[q].weight > 0
          <6>1. \A q \in DOMAIN votes : votes[q].weight > 0
            BY <2>4 DEF IInv, TypeOK
          <6> QED
            BY <6>1, <1>3, <2>3
        <5> QED
          BY <4>2, <5>1, <5>2, <2>2
      <4> QED
        BY <4>1, <4>2
    <3>2. flags' \in [Observers -> [Subjects -> Nat]] /\ latest' \in [Observers -> [Subjects -> Nat]]
      BY <2>1 DEF IInv, TypeOK
    <3> QED
      BY <1>0, <3>1, <3>2 DEF IInv, TypeOK
  <2>6. Shapes' /\ SnapshotsTrue'
    BY <1>0, <2>2 DEF IInv, Shapes, SnapshotsTrue
  <2>7. VotesAreReports'
    <3> SUFFICES ASSUME NEW m \in Observers, NEW t \in Subjects, NEW q \in DOMAIN accusations'[m][t]
                 PROVE  [reporter |-> q, subject |-> t, at |-> accusations'[m][t][q].at] \in sent'
      BY Zenon DEF VotesAreReports
    <3>1. CASE <<m, t>> # <<n, s>>
      BY <3>1, <2>2 DEF IInv, VotesAreReports
    <3>2. CASE <<m, t>> = <<n, s>> /\ q # r
      BY <3>2, <2>2, <1>3, <2>4 DEF IInv, VotesAreReports
    <3>3. CASE <<m, t>> = <<n, s>> /\ q = r
      BY <3>3, <2>2, <1>3
    <3> QED
      BY <3>1, <3>2, <3>3
  <2>8. VotesStaked'
    BY <1>0, <1>1, <1>3, <2>2, <2>3, <2>4 DEF IInv, VotesStaked
  <2>9. VotesBefore'
    <3> SUFFICES ASSUME NEW m \in Observers, NEW t \in Subjects, NEW q \in DOMAIN accusations'[m][t]
                 PROVE  accusations'[m][t][q].at <= latest'[m][t]
      BY DEF VotesBefore
    <3>1. latest[m][t] \in Nat /\ latest[n][s] \in Nat
      BY DEF IInv, TypeOK
    <3>2. /\ <<m, t>> # <<n, s>> => latest'[m][t] = latest[m][t]
          /\ latest'[n][s] >= now /\ latest'[n][s] >= latest[n][s] /\ latest'[n][s] \in Nat
      BY <2>1, <3>1 DEF IInv, TypeOK
    <3>3. CASE <<m, t>> # <<n, s>>
      BY <3>2, <3>3, <2>2, Zenon DEF IInv, VotesBefore
    <3>4. CASE <<m, t>> = <<n, s>> /\ q # r
      <4>1. q \in DOMAIN votes /\ accusations'[m][t][q] = votes[q]
        BY <3>4, <2>2, <1>3, Zenon
      <4>2. votes[q].at <= latest[n][s] /\ votes[q].at \in Nat
        BY <4>1, <2>4, <1>2 DEF IInv, VotesBefore, Vote
      <4> QED
        BY <3>1, <3>2, <3>4, <4>1, <4>2
    <3>5. CASE <<m, t>> = <<n, s>> /\ q = r
      BY <3>2, <3>5, <2>2, <1>3
    <3> QED
      BY <3>3, <3>4, <3>5, Zenon
  <2>10. VotesTogether'
    <3> SUFFICES ASSUME NEW m \in Observers, NEW t \in Subjects, <<m, t>> \notin reordered',
                        NEW p \in DOMAIN accusations'[m][t], NEW q \in DOMAIN accusations'[m][t]
                 PROVE  accusations'[m][t][p].at - accusations'[m][t][q].at < Window
      BY DEF VotesTogether
    <3>1. <<m, t>> \notin reordered
      BY <2>1
    <3>2. CASE <<m, t>> # <<n, s>>
      BY <3>1, <3>2, <2>2 DEF IInv, VotesTogether
    <3>3. CASE <<m, t>> = <<n, s>>
      <4>1. latest[n][s] \in Nat /\ ~(now < latest[n][s])
        BY <3>3, <2>1 DEF IInv, TypeOK
      <4>2. p \in DOMAIN new /\ q \in DOMAIN new /\ accusations'[m][t] = new
        BY <3>3, <2>2
      <4>3. \A v \in DOMAIN new : new[v].at \in Nat /\ new[v].at <= now /\ now - new[v].at < Window
        <5> TAKE v \in DOMAIN new
        <5>1. new[v].at \in Nat
          BY <1>3 DEF Vote
        <5>2. CASE v = r
          BY <5>2, <1>3, NumbersAssumption
        <5>3. CASE v # r
          <6>1. v \in DOMAIN votes /\ new[v] = votes[v] /\ now - votes[v].at < Window
            BY <5>3, <1>3, Zenon
          <6>2. votes[v].at <= latest[n][s]
            BY <6>1, <2>4, Zenon DEF IInv, VotesBefore
          <6> QED
            BY <6>1, <6>2, <5>1, <4>1
        <5> QED
          BY <5>2, <5>3
      <4> QED
        BY <4>2, <4>3, NumbersAssumption
    <3> QED
      BY <3>2, <3>3, Zenon
  <2>11. FlaggedByQuorum'
    <3> SUFFICES ASSUME NEW m \in Observers, NEW t \in Subjects, flags'[m][t] > 0
                 PROVE  Cardinality(Voices(t)') >= MinReporters
      BY DEF FlaggedByQuorum
    <3>1. CASE flags[m][t] > 0
      BY <3>1, <1>4, NumbersAssumption DEF IInv, FlaggedByQuorum
    <3>2. CASE ~(flags[m][t] > 0)
      <4>1. m = n /\ t = s /\ QuorumMet(new)
        BY <3>2, <2>1 DEF IInv, TypeOK
      <4>2. DOMAIN new \subseteq Voices(s)'
        <5> SUFFICES ASSUME NEW q \in DOMAIN new
                     PROVE  q \in Voices(s)'
          OBVIOUS
        <5>1. [reporter |-> q, subject |-> s, at |-> new[q].at] \in sent'
          BY <2>7, <2>2 DEF VotesAreReports
        <5>2. staked' => q \in everActive'
          BY <2>8, <2>2 DEF VotesStaked
        <5> QED
          BY <5>1, <5>2, <1>3 DEF Voices
      <4>3. Cardinality(DOMAIN new) <= Cardinality(Voices(s)')
        BY <4>2, <1>4, FS_Subset, Zenon
      <4>4. Cardinality(DOMAIN new) \in Nat
        BY <4>2, <1>4, FS_Subset, FS_CardinalityType, Zenon
      <4> QED
        BY <4>1, <4>3, <4>4, <1>4, NumbersAssumption DEF QuorumMet
    <3> QED
      BY <3>1, <3>2
  <2> QED
    BY <2>5, <2>6, <2>7, <2>8, <2>9, <2>10, <2>11, Zenon DEF IInv
<1> QED
  BY <1>5, <1>6

\* A step that casts no vote keeps all that is said of votes and flags: there
\* are only more reports and more nodes that have been active.
LEMMA NoVoteKeeps ==
    ASSUME IInv, UNCHANGED voteVars, TypeOK', Shapes', SnapshotsTrue', staked' = staked,
           sent \subseteq sent', everActive \subseteq everActive'
    PROVE  IInv'
<1>1. UNCHANGED <<accusations, flags, latest, reordered, overtaken>>
  BY DEF voteVars
<1>2. FlaggedByQuorum'
  <2> SUFFICES ASSUME NEW n \in Observers, NEW s \in Subjects, flags[n][s] > 0
               PROVE  Cardinality(Voices(s)') >= MinReporters
    BY <1>1 DEF FlaggedByQuorum
  <2>1. /\ Cardinality(Voices(s)) \in Nat /\ Cardinality(Voices(s)') \in Nat
        /\ Cardinality(Voices(s)) <= Cardinality(Voices(s)')
    BY VoicesGrow
  <2> QED
    BY <2>1, NumbersAssumption DEF IInv, FlaggedByQuorum
<1> QED
  BY <1>1, <1>2 DEF IInv, VotesAreReports, VotesStaked, VotesBefore, VotesTogether

\* No votes and no flags yet.
LEMMA InitIInv == Init => IInv
<1> SUFFICES ASSUME Init PROVE IInv
  OBVIOUS
<1>1. registry \in [Nodes -> Status]
  BY NumbersAssumption DEF Init, Status
<1>2. \A n \in Observers, s \in Subjects :
        DOMAIN accusations[n][s] = {} /\ DOMAIN chainStatus[n] = {} /\ flags[n][s] = 0
  BY DEF Init, NoVotes
<1>3. NoVotes \in [{} -> Vote] /\ NoVotes \in [{} -> Status]
  BY DEF NoVotes
<1>4. IsPartial(NoVotes, Vote) /\ IsPartial(NoVotes, Status)
  BY <1>3 DEF IsPartial
<1>5. TypeOK
  BY <1>1, <1>2, <1>4 DEF Init, TypeOK
<1>6. Shapes
  BY DEF Init, Shapes
<1>7. SnapshotsTrue
  <2>1. \A n \in Observers : DOMAIN chainStatus[n] = {}
    BY DEF Init, NoVotes
  <2> QED
    BY <2>1 DEF Init, SnapshotsTrue
<1> QED
  BY <1>2, <1>5, <1>6, <1>7
  DEF IInv, VotesAreReports, VotesStaked, VotesBefore, VotesTogether, FlaggedByQuorum

\* Every step keeps the inductive invariant, one case per action of Next.
LEMMA StepIInv == IInv /\ [Next]_vars => IInv'
<1> SUFFICES ASSUME IInv, [Next]_vars PROVE IInv'
  OBVIOUS
<1>1. ASSUME NEW n \in Nodes, NEW s \in Subjects, ReportMisconduct(n, s) PROVE IInv'
  <2>1. /\ sent' = sent \union {Report(n, s)} /\ UNCHANGED <<staked, clock, chainVars>>
    BY <1>1 DEF ReportMisconduct
  <2>2. clock \in Nat
    BY DEF IInv, TypeOK
  <2>3. /\ Report(n, s) = [reporter |-> n, subject |-> s, at |-> clock]
        /\ sent' \subseteq [reporter : Nodes, subject : Subjects, at : Nat]
    BY <2>1, <2>2 DEF Report, IInv, TypeOK
  <2>4. CASE n \in Observers
    <3>1. Accuse(n, s, n, clock)
      BY <1>1, <2>4 DEF ReportMisconduct
    <3> QED
      BY <2>1, <2>2, <2>3, <2>4, <3>1, AccuseKeeps
  <2>5. CASE n \notin Observers
    <3>1. UNCHANGED voteVars
      BY <1>1, <2>5, Zenon DEF ReportMisconduct
    <3>2. TypeOK' /\ Shapes' /\ SnapshotsTrue'
      BY <2>1, <2>3, <3>1 DEF IInv, TypeOK, Shapes, SnapshotsTrue, chainVars, voteVars
    <3> QED
      BY <2>1, <3>1, <3>2, NoVoteKeeps DEF chainVars
  <2> QED
    BY <2>4, <2>5
<1>2. ASSUME NEW n \in Watchtowers, NEW s \in Subjects, WatchtowerReport(n, s) PROVE IInv'
  <2>1. /\ sent' = sent \union {Report(n, s)} /\ UNCHANGED <<staked, clock, chainVars, voteVars>>
    BY <1>2, Zenon DEF WatchtowerReport
  <2>2. sent' \subseteq [reporter : Nodes, subject : Subjects, at : Nat]
    BY <2>1, NodesAssumption DEF Report, IInv, TypeOK
  <2>3. TypeOK' /\ Shapes' /\ SnapshotsTrue'
    BY <2>1, <2>2 DEF IInv, TypeOK, Shapes, SnapshotsTrue, chainVars, voteVars
  <2> QED
    BY <2>1, <2>3, NoVoteKeeps DEF chainVars
<1>3. ASSUME NEW n \in Observers, NEW report \in sent, ReceiveReport(n, report) PROVE IInv'
  <2>1. report \in [reporter : Nodes, subject : Subjects, at : Nat]
    BY DEF IInv, TypeOK
  <2>2. /\ report.reporter \in Nodes /\ report.subject \in Subjects /\ report.at \in Nat
        /\ report = [reporter |-> report.reporter, subject |-> report.subject, at |-> report.at]
    BY <2>1
  <2>3. /\ Accuse(n, report.subject, report.reporter, report.at)
        /\ sent' = sent /\ UNCHANGED <<staked, clock, chainVars>>
    BY <1>3, Zenon DEF ReceiveReport, Stamp
  <2>4. sent' \subseteq [reporter : Nodes, subject : Subjects, at : Nat]
    BY <2>3 DEF IInv, TypeOK
  <2> QED
    BY <2>2, <2>3, <2>4, AccuseKeeps
<1>4. ASSUME NEW n \in Observers, NEW answers \in [Peers(n) -> {"read", "unread", "stakeless"}],
             PollChain(n, answers)
      PROVE  IInv'
  <2> DEFINE snapshot == Snapshot(n, answers)
  <2>1. /\ chainStatus' = [chainStatus EXCEPT ![n] = snapshot]
        /\ UNCHANGED <<staked, clock, registry, everActive, sent, voteVars>>
    BY <1>4, Zenon DEF PollChain
  <2>2. /\ DOMAIN snapshot \subseteq Nodes /\ snapshot \in [DOMAIN snapshot -> Status]
        /\ \A r \in DOMAIN snapshot : snapshot[r].active => r \in everActive
    BY KeysAssumption DEF Snapshot, Peers, IInv, TypeOK, SnapshotsTrue, Status
  <2> HIDE DEF snapshot
  <2>3. \A m \in Observers : chainStatus'[m] = IF m = n THEN snapshot ELSE chainStatus[m]
    BY <2>1 DEF IInv, Shapes
  <2>4. IsPartial(snapshot, Status)
    BY <2>2, Zenon DEF IsPartial
  <2>5. TypeOK'
    BY <2>1, <2>3, <2>4 DEF IInv, TypeOK, voteVars
  <2>6. Shapes'
    BY <2>1, Zenon DEF IInv, Shapes, voteVars
  <2>7. SnapshotsTrue'
    BY <2>1, <2>2, <2>3 DEF IInv, SnapshotsTrue
  <2> QED
    BY <2>1, <2>5, <2>6, <2>7, NoVoteKeeps
<1>5. ASSUME NEW r \in Nodes, NEW status \in Status, RegistryChange(r, status) PROVE IInv'
  <2>1. /\ registry' = [registry EXCEPT ![r] = status]
        /\ everActive' = IF status.active THEN everActive \union {r} ELSE everActive
        /\ UNCHANGED <<staked, clock, chainStatus, sent, voteVars>>
    BY <1>5 DEF RegistryChange
  <2>2. everActive \subseteq everActive'
    BY <2>1
  <2>3. TypeOK' /\ Shapes'
    BY <2>1, Zenon DEF IInv, TypeOK, Shapes, voteVars
  <2>4. SnapshotsTrue'
    BY <2>1, <2>2 DEF IInv, TypeOK, SnapshotsTrue
  <2> QED
    BY <2>1, <2>2, <2>3, <2>4, NoVoteKeeps
<1>6. CASE Tick
  <2>1. clock' = clock + 1 /\ UNCHANGED <<staked, chainVars, sent, voteVars>>
    BY <1>6 DEF Tick
  <2>2. TypeOK' /\ Shapes' /\ SnapshotsTrue'
    BY <2>1 DEF IInv, TypeOK, Shapes, SnapshotsTrue, chainVars, voteVars
  <2> QED
    BY <2>1, <2>2, NoVoteKeeps DEF chainVars
<1>7. CASE UNCHANGED vars
  <2>1. TypeOK' /\ Shapes' /\ SnapshotsTrue' /\ UNCHANGED <<staked, sent, everActive, voteVars>>
    BY <1>7 DEF vars, IInv, TypeOK, Shapes, SnapshotsTrue, chainVars, voteVars
  <2> QED
    BY <2>1, NoVoteKeeps, Zenon
<1> QED
  BY <1>1, <1>2, <1>3, <1>4, <1>5, <1>6, <1>7 DEF Next

\* apply_or_record_accusation never flags a node that fewer distinct nodes
\* than the quorum have reported, whatever is lost, late or out of order and
\* whatever the chain-status loop could not read.
THEOREM QuorumBehindEveryFlag == Spec => []FlaggedByQuorum
<1>1. IInv => FlaggedByQuorum
  BY DEF IInv
<1> QED
  BY <1>1, InitIInv, StepIInv, PTL DEF Spec

\* MisconductQuorum counts votes together only if they were cast within one
\* window, as long as no report is counted after a newer one.
THEOREM VotesCountTogether == Spec => []VotesTogether
<1>1. IInv => VotesTogether
  BY DEF IInv
<1> QED
  BY <1>1, InitIInv, StepIInv, PTL DEF Spec

-----------------------------------------------------------------------------
\* Reports of different nodes that n has heard about s are a window apart.
Apart(n, s) ==
    \A a, b \in Heard(n, s) : a.reporter # b.reporter /\ a.at >= b.at => a.at - b.at >= Window

\* The one vote kept, if any, is a report heard, and no report heard is newer.
NewestKept(n, s) ==
    LET votes == accusations[n][s] IN
    /\ \A q, r \in DOMAIN votes : q = r
    /\ \A r \in DOMAIN votes :
         /\ [reporter |-> r, subject |-> s, at |-> votes[r].at] \in Heard(n, s)
         /\ \A a \in Heard(n, s) : a.at <= votes[r].at
    /\ Heard(n, s) # {} => DOMAIN votes # {}

Unflagged(n, s) == flags[n][s] = 0 /\ <<n, s>> \notin overtaken

OneVoice ==
    MinReporters = 2 /\ ~staked =>
        \A n \in Observers \ Watchtowers, s \in Subjects :
            Unflagged(n, s) => Apart(n, s) /\ NewestKept(n, s)

HandledSent == handled \in [Observers -> SUBSET sent]

AInv == IInv /\ HandledSent /\ OneVoice

\* Two voters are a quorum of two.
LEMMA TwoVoters ==
    ASSUME NEW D, D \subseteq Nodes, NEW q \in D, NEW r \in D, q # r
    PROVE  Cardinality(D) \in Nat /\ Cardinality(D) >= 2
<1>1. IsFiniteSet(D) /\ {q, r} \subseteq D
  BY NodesAssumption, FS_Subset, Zenon
<1>2. IsFiniteSet({q}) /\ Cardinality({q}) = 1
  BY FS_Singleton, Zenon
<1>3. Cardinality({q} \union {r}) = 2
  BY <1>2, FS_AddElement
<1>4. {q} \union {r} = {q, r}
  OBVIOUS
<1> QED
  BY <1>1, <1>3, <1>4, FS_Subset, FS_CardinalityType

\* A vote that leaves the subject unflagged: the one kept before was the same
\* reporter's and not newer, or is a window older than the new one.
LEMMA VoteKeepsOneVoice ==
    ASSUME AInv, MinReporters = 2, ~staked, NEW n \in Observers \ Watchtowers, NEW s \in Subjects,
           NEW r \in Nodes, NEW now \in Nat, Accuse(n, s, r, now),
           Heard(n, s)' = Heard(n, s) \union {[reporter |-> r, subject |-> s, at |-> now]},
           Unflagged(n, s)'
    PROVE  Apart(n, s)' /\ NewestKept(n, s)'
<1> DEFINE votes == accusations[n][s]
           new == Recorded(votes, r, 1, now)
           report == [reporter |-> r, subject |-> s, at |-> now]
<1>1. ReporterWeight(n, r) = 1 /\ Counts(ReporterWeight(n, r))
  BY DEF ReporterWeight, Counts
<1>2. /\ accusations' = [accusations EXCEPT ![n][s] = new]
      /\ flags' = IF QuorumMet(new) THEN [flags EXCEPT ![n][s] = @ + 1] ELSE flags
      /\ overtaken' = overtaken \union
           (IF r \in DOMAIN votes /\ now < votes[r].at THEN {<<n, s>>} ELSE {})
  BY <1>1 DEF Accuse
<1>3. PICK D \in SUBSET Nodes : votes \in [D -> Vote]
  BY Zenon DEF AInv, IInv, TypeOK, IsPartial
<1>4. /\ DOMAIN votes = D
      /\ \A q \in D : votes[q].at \in Nat
      /\ DOMAIN new = Kept(votes, now) \union {r} /\ Kept(votes, now) \subseteq D
      /\ new[r] = [weight |-> 1, at |-> now]
      /\ \A q \in DOMAIN new : q # r => new[q] = votes[q]
  BY <1>3 DEF Recorded, Kept, Vote
<1>5. \A a \in Heard(n, s) : a.at \in Nat
  BY DEF AInv, IInv, TypeOK, HandledSent, Heard
<1> HIDE DEF votes, new
<1>6. accusations'[n][s] = new
  BY <1>2 DEF AInv, IInv, Shapes
<1>7. Unflagged(n, s) /\ ~QuorumMet(new) /\ (r \in D => ~(now < votes[r].at))
  BY <1>2, <1>4 DEF AInv, IInv, TypeOK, Unflagged
<1>8. Apart(n, s) /\ NewestKept(n, s)
  BY <1>7 DEF AInv, OneVoice
\* The new vote stands alone.
<1>9. \A q \in DOMAIN new : q = r
  <2> SUFFICES ASSUME NEW q \in DOMAIN new, q # r
               PROVE  FALSE
    OBVIOUS
  <2>1. Cardinality(DOMAIN new) \in Nat /\ Cardinality(DOMAIN new) >= 2
    BY <1>4, TwoVoters
  <2> QED
    BY <1>7, <2>1 DEF QuorumMet
\* Every report heard before is older, and another node's by a window.
<1>10. \A a \in Heard(n, s) : a.at <= now /\ (a.reporter # r => now - a.at >= Window)
  <2> SUFFICES ASSUME NEW a \in Heard(n, s)
               PROVE  a.at <= now /\ (a.reporter # r => now - a.at >= Window)
    OBVIOUS
  <2>1. PICK q \in D : /\ [reporter |-> q, subject |-> s, at |-> votes[q].at] \in Heard(n, s)
                       /\ a.at <= votes[q].at
    BY <1>4, <1>8 DEF NewestKept, votes
  <2>2. votes[q].at \in Nat /\ a.at \in Nat
    BY <1>4, <1>5
  <2>3. CASE q = r
    <3>1. votes[q].at <= now
      BY <1>7, <2>2, <2>3
    <3>2. a.reporter # r => votes[q].at - a.at >= Window
      BY <1>8, <2>1, <2>3 DEF Apart
    <3> QED
      BY <2>1, <2>2, <3>1, <3>2, NumbersAssumption
  <2>4. CASE q # r
    <3>1. q \notin Kept(votes, now)
      BY <1>4, <1>9, <2>4
    <3>2. ~(now - votes[q].at < Window)
      BY <1>4, <3>1 DEF Kept
    <3> QED
      BY <2>1, <2>2, <3>2, NumbersAssumption
  <2> QED
    BY <2>3, <2>4
<1>11. Apart(n, s)'
  <2> SUFFICES ASSUME NEW a \in Heard(n, s)', NEW b \in Heard(n, s)', a.reporter # b.reporter,
                      a.at >= b.at
               PROVE  a.at - b.at >= Window
    BY DEF Apart
  <2>1. CASE a \in Heard(n, s) /\ b \in Heard(n, s)
    BY <1>8, <2>1 DEF Apart
  <2>2. CASE a = report /\ b \in Heard(n, s)
    BY <1>10, <2>2
  <2>3. CASE a \in Heard(n, s) /\ b = report
    <3>1. a.at <= now /\ now - a.at >= Window /\ a.at \in Nat /\ a.at >= now
      BY <1>5, <1>10, <2>3
    <3> QED
      BY <3>1, NumbersAssumption
  <2> QED
    BY <2>1, <2>2, <2>3
<1>12. NewestKept(n, s)'
  <2>1. DOMAIN new = {r} /\ new[r].at = now
    BY <1>4, <1>9
  <2>2. \A a \in Heard(n, s)' : a.at <= now
    BY <1>10
  <2>3. [reporter |-> r, subject |-> s, at |-> new[r].at] \in Heard(n, s)'
    BY <2>1
  <2> QED
    BY <1>6, <2>1, <2>2, <2>3 DEF NewestKept
<1> QED
  BY <1>11, <1>12

\* Where nothing is heard and no vote is cast, nothing changes.
LEMMA OthersKeepOneVoice ==
    ASSUME AInv, MinReporters = 2, ~staked, NEW n \in Observers \ Watchtowers, NEW s \in Subjects,
           Heard(n, s)' = Heard(n, s), accusations'[n][s] = accusations[n][s],
           flags'[n][s] = flags[n][s], overtaken \subseteq overtaken', Unflagged(n, s)'
    PROVE  Apart(n, s)' /\ NewestKept(n, s)'
<1>1. Apart(n, s) /\ NewestKept(n, s)
  BY Zenon DEF AInv, OneVoice, Unflagged
<1> QED
  BY <1>1, Zenon DEF Apart, NewestKept

\* A vote cast at n for a report about s, which is all that n hears.
LEMMA AccuseKeepsOneVoice ==
    ASSUME AInv, NEW n \in Observers, NEW s \in Subjects, NEW r \in Nodes, NEW now \in Nat,
           Accuse(n, s, r, now), staked' = staked,
           \A m \in Observers \ Watchtowers, t \in Subjects :
               Heard(m, t)' = IF m = n /\ t = s
                              THEN Heard(m, t) \union {[reporter |-> r, subject |-> s, at |-> now]}
                              ELSE Heard(m, t)
    PROVE  OneVoice'
<1> SUFFICES ASSUME MinReporters = 2, ~staked, NEW m \in Observers \ Watchtowers, NEW t \in Subjects,
                    Unflagged(m, t)'
             PROVE  Apart(m, t)' /\ NewestKept(m, t)'
  BY DEF OneVoice
<1>1. CASE m = n /\ t = s
  BY <1>1, VoteKeepsOneVoice
<1>2. CASE ~(m = n /\ t = s)
  <2> DEFINE new == Recorded(accusations[n][s], r, ReporterWeight(n, r), now)
  <2>1. ReporterWeight(n, r) = 1 /\ Counts(ReporterWeight(n, r))
    BY DEF ReporterWeight, Counts
  <2>2. /\ accusations' = [accusations EXCEPT ![n][s] = new]
        /\ flags' = IF QuorumMet(new) THEN [flags EXCEPT ![n][s] = @ + 1] ELSE flags
        /\ overtaken \subseteq overtaken'
    BY <2>1 DEF Accuse
  <2> HIDE DEF new
  <2>3. accusations'[m][t] = accusations[m][t]
    BY <1>2, <2>2, Zenon DEF AInv, IInv, Shapes
  <2>4. flags'[m][t] = flags[m][t]
    BY <1>2, <2>2 DEF AInv, IInv, TypeOK
  <2>5. Heard(m, t)' = Heard(m, t)
    BY <1>2, Zenon
  <2> QED
    BY <2>2, <2>3, <2>4, <2>5, OthersKeepOneVoice, Zenon
<1> QED
  BY <1>1, <1>2

\* Nothing is heard yet.
LEMMA InitAInv == Init => AInv
<1> SUFFICES ASSUME Init PROVE AInv
  OBVIOUS
<1>1. HandledSent
  BY DEF Init, HandledSent
<1>2. \A n \in Observers, s \in Subjects : Heard(n, s) = {} /\ DOMAIN accusations[n][s] = {}
  BY DEF Init, Heard, NoVotes
<1>3. OneVoice
  BY <1>2, Zenon DEF OneVoice, Apart, NewestKept
<1> QED
  BY <1>1, <1>3, InitIInv DEF AInv

\* Every step keeps OneVoice: only a report that is sent by the node itself or
\* comes in is heard, and each is one vote.
LEMMA StepAInv == AInv /\ [Next]_vars => AInv'
<1> SUFFICES ASSUME AInv, [Next]_vars PROVE AInv'
  OBVIOUS
<1>0. IInv'
  BY StepIInv DEF AInv
<1>t. sent \subseteq [reporter : Nodes, subject : Subjects, at : Nat] /\ clock \in Nat
  BY DEF AInv, IInv, TypeOK
<1>h. HandledSent
  BY DEF AInv
<1>q. ASSUME UNCHANGED <<staked, handled, voteVars>>, sent \subseteq sent',
             \A own \in sent' \ sent : own.reporter \notin Observers \ Watchtowers
      PROVE  AInv'
  <2>1. HandledSent'
    BY <1>q, <1>h DEF HandledSent
  <2>2. UNCHANGED <<accusations, flags, overtaken>>
    BY <1>q DEF voteVars
  <2>3. \A n \in Observers \ Watchtowers, s \in Subjects : Heard(n, s)' = Heard(n, s)
    BY <1>q, <1>h DEF Heard
  <2>4. OneVoice'
    <3> SUFFICES ASSUME MinReporters = 2, ~staked, NEW n \in Observers \ Watchtowers,
                        NEW s \in Subjects, Unflagged(n, s)'
                 PROVE  Apart(n, s)' /\ NewestKept(n, s)'
      BY <1>q DEF OneVoice
    <3> QED
      BY <2>2, <2>3, OthersKeepOneVoice
  <2> QED
    BY <1>0, <2>1, <2>4 DEF AInv
<1>1. ASSUME NEW n \in Nodes, NEW s \in Subjects, ReportMisconduct(n, s) PROVE AInv'
  <2>1. /\ sent' = sent \union {Report(n, s)} /\ UNCHANGED <<staked, handled>>
        /\ Report(n, s).reporter = n /\ Report(n, s).subject = s
    BY <1>1 DEF ReportMisconduct, Report
  <2>2. CASE n \in Observers
    <3>1. Accuse(n, s, n, clock)
      BY <1>1, <2>2 DEF ReportMisconduct
    <3>2. \A m \in Observers \ Watchtowers, t \in Subjects :
            Heard(m, t)' = IF m = n /\ t = s THEN Heard(m, t) \union {Report(n, s)} ELSE Heard(m, t)
      BY <2>1 DEF Heard
    <3>3. OneVoice'
      BY <1>t, <2>1, <2>2, <3>1, <3>2, AccuseKeepsOneVoice DEF Report
    <3>4. HandledSent'
      BY <2>1, <1>h DEF HandledSent
    <3> QED
      BY <1>0, <3>3, <3>4 DEF AInv
  <2>3. CASE n \notin Observers
    <3>1. UNCHANGED voteVars
      BY <1>1, <2>3, Zenon DEF ReportMisconduct
    <3> QED
      BY <1>q, <2>1, <2>3, <3>1
  <2> QED
    BY <2>2, <2>3
<1>2. ASSUME NEW n \in Watchtowers, NEW s \in Subjects, WatchtowerReport(n, s) PROVE AInv'
  <2>1. sent' = sent \union {Report(n, s)} /\ UNCHANGED <<staked, handled, voteVars>>
    BY <1>2, Zenon DEF WatchtowerReport
  <2>2. Report(n, s).reporter = n
    BY DEF Report
  <2> QED
    BY <1>q, <2>1, <2>2
<1>3. ASSUME NEW n \in Observers, NEW report \in sent, ReceiveReport(n, report) PROVE AInv'
  <2>1. /\ report.reporter \in Nodes /\ report.subject \in Subjects /\ report.at \in Nat
        /\ report = [reporter |-> report.reporter, subject |-> report.subject, at |-> report.at]
    BY <1>t
  <2>2. /\ Accuse(n, report.subject, report.reporter, report.at)
        /\ handled' = [handled EXCEPT ![n] = @ \union {report}] /\ UNCHANGED <<sent, staked>>
    BY <1>3, Zenon DEF ReceiveReport, Stamp
  <2>3. \A m \in Observers : handled'[m] = IF m = n THEN handled[m] \union {report} ELSE handled[m]
    BY <2>2, <1>h DEF HandledSent
  <2>4. HandledSent'
    BY <2>2, <1>h DEF HandledSent
  <2>5. \A m \in Observers \ Watchtowers, t \in Subjects :
          Heard(m, t)' = IF m = n /\ t = report.subject THEN Heard(m, t) \union {report} ELSE Heard(m, t)
    BY <2>2, <2>3 DEF Heard
  <2>6. OneVoice'
    <3> DEFINE s == report.subject
               r == report.reporter
               now == report.at
    <3>1. \A m \in Observers \ Watchtowers, t \in Subjects :
            Heard(m, t)' = IF m = n /\ t = s
                           THEN Heard(m, t) \union {[reporter |-> r, subject |-> s, at |-> now]}
                           ELSE Heard(m, t)
      BY <2>1, <2>5, Zenon
    <3>2. r \in Nodes /\ s \in Subjects /\ now \in Nat /\ Accuse(n, s, r, now) /\ staked' = staked
      BY <2>1, <2>2
    <3> HIDE DEF s, r, now
    <3> QED
      BY <3>1, <3>2, AccuseKeepsOneVoice
  <2> QED
    BY <1>0, <2>4, <2>6 DEF AInv
<1>4. CASE UNCHANGED <<staked, handled, voteVars, sent>>
  BY <1>q, <1>4
<1>5. ASSUME NEW n \in Observers, NEW answers \in [Peers(n) -> {"read", "unread", "stakeless"}],
             PollChain(n, answers)
      PROVE  AInv'
  BY <1>4, <1>5, Zenon DEF PollChain
<1>6. ASSUME NEW r \in Nodes, NEW status \in Status, RegistryChange(r, status) PROVE AInv'
  BY <1>4, <1>6, Zenon DEF RegistryChange
<1>7. CASE Tick
  BY <1>4, <1>7, Zenon DEF Tick
<1>8. CASE UNCHANGED vars
  BY <1>4, <1>8 DEF vars
<1> QED
  BY <1>1, <1>2, <1>3, <1>5, <1>6, <1>7, <1>8, Zenon DEF Next

\* Where two voices are a quorum and no stake is asked for, a node that has
\* heard two that agree has flagged the subject: no order of arrival, expiry or
\* other report makes MisconductQuorum miss it, unless a reporter's own older
\* report came after its newer one.
THEOREM AgreementIsNotMissed == Spec => []AgreementFlags
<1>1. AInv => AgreementFlags
  <2> SUFFICES ASSUME AInv, MinReporters = 2, ~staked, NEW n \in Observers \ Watchtowers,
                      NEW s \in Subjects, Agreement(n, s), ~(flags[n][s] > 0),
                      <<n, s>> \notin overtaken
               PROVE  FALSE
    BY DEF AgreementFlags
  <2>1. flags[n][s] = 0
    BY DEF AInv, IInv, TypeOK
  <2>2. Apart(n, s)
    BY <2>1 DEF AInv, OneVoice, Unflagged
  <2>3. \A a \in Heard(n, s) : a.at \in Nat
    BY DEF AInv, IInv, TypeOK, HandledSent, Heard
  <2> QED
    BY <2>2, <2>3, NumbersAssumption DEF Agreement, Apart
<1> QED
  BY <1>1, InitAInv, StepAInv, PTL DEF Spec
=============================================================================
