----------------------------- MODULE Reputation -----------------------------
(***************************************************************************)
(* crates/reputation: what a node's standing is made of and what takes it  *)
(* away (ReputationEngine, StakeManager, the two score engines and the     *)
(* handlers of integration.rs), for one node and any sequence of calls.    *)
(*                                                                         *)
(* Scores are f64 between 0 and 1, here thousandths; a reputation is up to *)
(* 100, here up to 100000.  Time is in steps of ten days, after which the  *)
(* caps on loyalty, id change and recovery (days and hours) are reached.   *)
(* Nothing ever puts a bond or an amount into ReputationState itself, so   *)
(* the trust levels that ask for them are not there, and neither are the   *)
(* traders' own scores, which nothing reads, and the metrics.              *)
(***************************************************************************)
EXTENDS Integers, SequencesExt, FiniteSetsExt

CONSTANTS
    Starts,         \* what the node starts from: its stake and its bonds
    Stakes, Amounts,\* the stakes and the penalties considered
    Bonds,          \* the bonds considered: type, amount, conditions
    StakeUnit,      \* 1000: the stake that counts as one
    Window,         \* WINDOW_SIZE
    MaxReports,     \* MAX_REPORTS_PER_NODE
    Vesting,        \* the vesting period: three steps
    MaxTime,        \* bound: the clock
    MaxOps          \* bound: calls in one behaviour

VARIABLES
    clock,
    state,          \* the ReputationState, or Unknown
    metrics,        \* P2PMetrics
    history,        \* score_history
    outcomes,       \* the scores of the trade outcomes kept
    stake,          \* stakes: the amount, or -1 if there is no entry
    vestedFrom,     \* the start of the vesting schedule, or -1
    bonds,          \* the bonds of StakeManager
    pool,           \* slashing_pool
    taken,          \* what slash and forfeit_bond have taken out of the stake
    slashedShare,   \* what slash has put into the pool
    short,          \* a bond was forfeited that the stake no longer covered
    lowered,        \* the level was last set by a downgrade
    ops

scoreVars == <<state, metrics, history, outcomes, lowered>>
stakeVars == <<stake, vestedFrom, bonds, pool, taken, slashedShare, short>>
vars == <<clock, scoreVars, stakeVars, ops>>

Unknown == [registered |-> FALSE]
NoMetrics == [rtt |-> 0, missed |-> 0, flags |-> 0, relayed |-> 0, dropped |-> 0]

\* ReputationState::new
NewState ==
    [registered |-> TRUE, firstSeen |-> clock, score |-> 0, trust |-> "Newcomer",
     idChanges |-> 0, idChangedAt |-> clock, up |-> 0, down |-> 0, uptime |-> 0,
     disputesLost |-> FALSE, penalties |-> {}, recoveryStart |-> -1]

Init ==
    /\ clock = 0
    /\ state = Unknown /\ metrics = NoMetrics
    /\ history = <<>> /\ outcomes = <<>>
    /\ \E start \in Starts :
        /\ stake = start.stake
        /\ vestedFrom = IF start.stake > 0 THEN 0 ELSE -1
        /\ bonds = start.bonds
    /\ pool = 0 /\ taken = 0 /\ slashedShare = 0 /\ short = FALSE
    /\ lowered = FALSE /\ ops = 0

-----------------------------------------------------------------------------
AtMost(x, top) == IF x > top THEN top ELSE x
AtLeast(x, low) == IF x < low THEN low ELSE x

RelayPart(m) ==
    IF m.relayed + m.dropped > 0 THEN (200 * m.relayed) \div (m.relayed + m.dropped) ELSE 100

\* compute_p2p_score
RawScore(m) ==
    30 * (10 - AtMost(m.missed, 10))
    + 60 * (5 - AtMost(m.flags, 5))
    + (IF m.rtt > 0 THEN (200 * (500 - AtMost(m.rtt, 500))) \div 500 ELSE 100)
    + RelayPart(m)

\* A list of at most size, its oldest entry gone if need be.
Pushed(list, x, size) == IF Len(list) < size THEN Append(list, x) ELSE Append(Tail(list), x)

\* The weighted mean of a list where each entry counts num/10 of the next.
Smoothed(list, num) ==
    LET weight(i) == num^(Len(list) - i + 1) * 10^(i - 1)
        sum == FoldLeft(+, 0, [i \in DOMAIN list |-> list[i] * weight(i)])
        total == FoldLeft(+, 0, [i \in DOMAIN list |-> weight(i)])
    IN sum \div total

\* recompute_score
ClientScore(list) == IF list = <<>> THEN 500 ELSE Smoothed(list, 7)

\* calculate_outcome_score of a settlement that took twice/2 of its time.
SpeedScore(twice) == IF twice > 3 THEN 0 ELSE 1000 - (1000 * AtLeast(twice - 2, 0)) \div 6

\* Slip: a stake without a schedule counts in full.
ProgressWithoutSchedule(from) == IF from = -1 THEN Vesting ELSE AtMost(clock - from, Vesting)

\* calculate_vesting_progress, in parts of Vesting.
VestingProgress(from) == IF from = -1 THEN 0 ELSE AtMost(clock - from, Vesting)

\* The effective stake in thousandths of StakeUnit: get_effective_stake times
\* the progress, which it already holds.
EffectiveStake(amount, from) ==
    LET vested == (AtLeast(amount, 0) * VestingProgress(from)) \div Vesting
    IN (1000 * vested * VestingProgress(from)) \div (Vesting * StakeUnit)

\* calculate_loyalty_multiplier, in thousandths.
Loyalty(s) == 1000 + (IF clock > s.firstSeen THEN s.uptime ELSE 0)

\* calculate_id_penalty, in thousandths: a day halves it.
IdPenalty(s) ==
    LET penalty == AtMost(500 + 100 * s.idChanges, 900)
    IN IF s.idChanges = 0 THEN 1000
       ELSE 1000 - (IF clock > s.idChangedAt THEN penalty \div 2 ELSE penalty)

\* calculate_recovery_multiplier, in thousandths.
Recovery(s) ==
    IF s.penalties # {} /\ s.score < 10000 /\ s.recoveryStart # -1 /\ clock > s.recoveryStart
    THEN 1500 ELSE 1000

BannedBy(s) ==
    \E p \in s.penalties :
        p.kind = "PermanentBan" \/ (p.kind = "TemporaryBan" /\ clock < p.until)

\* determine_trust_level, without the levels that bonds of the state give.
TrustLevel(s) ==
    IF BannedBy(s) \/ s.score < 100 THEN "Banned"
    ELSE IF s.score < 10000 THEN "Newcomer"
    ELSE IF s.score < 50000 THEN "Contributor"
    ELSE "Trusted"

\* What update_reputation makes of a state, given the two scores and the
\* effective stake.
Updated(s, p2p, client, effective) ==
    LET composite == (6 * p2p + 4 * client) \div 10
        base == (composite * AtLeast(AtMost(effective, 10000), 500)) \div 1000
        plain == AtMost((((base * Loyalty(s)) \div 1000) * IdPenalty(s)) \div 1000, 100000)
        scored == [s EXCEPT !.score = (plain * Recovery(s)) \div 1000]
    IN [scored EXCEPT !.trust = TrustLevel(scored), !.up = @ + 1,
                      !.uptime = (1000 * (s.up + 1)) \div (s.up + 1 + s.down)]

\* update_reputation with the stake as it then is: a node nobody registered is
\* registered on the way, which resets its metrics.
Update(s, m, outcomeList) ==
    LET known == IF s.registered THEN s ELSE NewState
        counted == IF s.registered THEN m ELSE NoMetrics
        scores == Pushed(history, RawScore(counted), Window)
    IN /\ history' = scores
       /\ outcomes' = outcomeList
       /\ metrics' = counted
       /\ state' = Updated(known, Smoothed(scores, 9), ClientScore(outcomeList),
                           EffectiveStake(stake', vestedFrom'))
       /\ lowered' = FALSE

-----------------------------------------------------------------------------
Call == ops < MaxOps /\ ops' = ops + 1 /\ UNCHANGED clock

\* on_node_join: the state starts afresh, and so does the stake if one comes
\* with it.
NodeJoin(amount) ==
    /\ Call
    /\ IF amount > 0 THEN stake' = amount /\ vestedFrom' = clock
       ELSE UNCHANGED <<stake, vestedFrom>>
    /\ Update(NewState, NoMetrics, outcomes)
    /\ UNCHANGED <<bonds, pool, taken, slashedShare, short>>

\* Slip: lost disputes are left out.
ViolatedByUptime(s, bond) == "Uptime90Percent" \in bond.conditions /\ s.uptime < 900

\* check_bond_conditions
Violated(s, bond) ==
    \/ "Uptime90Percent" \in bond.conditions /\ s.uptime < 900
    \/ "NoDisputesLost" \in bond.conditions /\ s.disputesLost

\* The bonds forfeit_bond looks through.
StillLocked(list, type) == {i \in DOMAIN list : list[i].type = type /\ ~list[i].forfeited}

\* forfeit_bond: the first bond of the type that is not forfeited; half of it
\* leaves the stake, as far as that goes, and all of the half enters the pool.
\* (Where there is a bond there is an entry in stakes: lock_bond saw it.)
Forfeited(acc, type) ==
    LET open == StillLocked(acc.bonds, type)
        i == Min(open)
        half == acc.bonds[i].amount \div 2
    IN IF open = {} THEN acc
       ELSE [bonds |-> [acc.bonds EXCEPT ![i].forfeited = TRUE],
             stake |-> AtLeast(acc.stake - half, 0),
             pool |-> acc.pool + half,
             short |-> acc.short \/ half > acc.stake]

Forfeit(types) ==
    LET result == FoldLeft(Forfeited, [bonds |-> bonds, stake |-> stake, pool |-> pool, short |-> short],
                           types)
    IN /\ bonds' = result.bonds /\ stake' = result.stake
       /\ pool' = result.pool /\ short' = result.short
       /\ taken' = taken + (stake - result.stake)
       /\ UNCHANGED <<vestedFrom, slashedShare>>

\* record_downtime
Downtime(s, duration) ==
    LET down == s.down + duration
    IN [s EXCEPT !.down = down,
                 !.uptime = IF s.up + down > 0 THEN (1000 * s.up) \div (s.up + down) ELSE @]

\* on_node_leave: downtime is recorded, and bonds whose conditions that or a
\* lost dispute violates are forfeited, by type.
NodeLeave(downtime) ==
    LET left == Downtime(state, downtime)
        violated == SelectSeq(bonds, LAMBDA b : ~b.forfeited /\ Violated(left, b))
    IN /\ Call
       /\ IF state.registered
          THEN /\ state' = left
               /\ Forfeit([i \in DOMAIN violated |-> violated[i].type])
          ELSE UNCHANGED <<state, stakeVars>>
       /\ UNCHANGED <<metrics, history, outcomes, lowered>>

\* on_heartbeat_received
HeartbeatReceived ==
    /\ Call
    /\ metrics' = [metrics EXCEPT !.missed = 0]
    /\ UNCHANGED <<state, history, outcomes, lowered, stakeVars>>

\* update_p2p_metrics
Counted(m, kind) ==
    CASE kind = "missed" -> [m EXCEPT !.missed = @ + 1]
      [] kind = "flag" -> [m EXCEPT !.flags = @ + 1]
      [] kind = "relayed" -> [m EXCEPT !.relayed = @ + 1]
      [] kind = "dropped" -> [m EXCEPT !.dropped = @ + 1]
      [] kind = "echo" -> [m EXCEPT !.rtt = 250]

\* on_censorship_flag, on_misconduct_reported, on_flood_relayed,
\* on_flood_dropped, on_echo_response: the standing follows at the next update.
P2PUpdate(kind) ==
    /\ Call
    /\ metrics' = Counted(metrics, kind)
    /\ UNCHANGED <<state, history, outcomes, lowered, stakeVars>>

\* on_order_matched, on_settlement_complete, on_trade_disputed: an outcome,
\* and an update.
TradeOutcome(score) ==
    /\ Call
    /\ UNCHANGED stakeVars
    /\ Update(state, metrics, Pushed(outcomes, score, MaxReports))

\* periodic_reputation_update
PeriodicUpdate ==
    /\ Call
    /\ UNCHANGED stakeVars
    /\ Update(state, metrics, outcomes)

Penalty(kind) == [kind |-> kind, until |-> IF kind = "TemporaryBan" THEN clock + 1 ELSE 0]

\* The part of apply_penalty that is the state's.
Penalised(s, kind) ==
    LET noted == [s EXCEPT !.penalties = @ \union {Penalty(kind)}, !.recoveryStart = clock]
    IN CASE kind = "ReputationPenalty" -> [noted EXCEPT !.score = AtLeast(@ - 500, 0)]
         [] kind = "Downgrade" -> [noted EXCEPT !.trust = "Newcomer"]
         [] kind \in {"TemporaryBan", "PermanentBan"} -> [noted EXCEPT !.trust = "Banned"]
         [] OTHER -> noted

\* apply_penalty: nothing, for a node that is not registered.
ApplyPenalty(kind) ==
    /\ Call
    /\ IF state.registered THEN state' = Penalised(state, kind) ELSE UNCHANGED state
    /\ lowered' = IF state.registered /\ kind # "ReputationPenalty" THEN kind = "Downgrade" ELSE lowered
    /\ UNCHANGED <<metrics, history, outcomes, stakeVars>>

\* apply_penalty with the forfeiture of a bond.
ApplyForfeiture(type) ==
    /\ Call
    /\ IF state.registered
       THEN state' = Penalised(state, "BondForfeiture") /\ Forfeit(<<type>>)
       ELSE UNCHANGED <<state, stakeVars>>
    /\ UNCHANGED <<metrics, history, outcomes, lowered>>

\* slash takes what there is, ...
Slashed(amount) == AtMost(amount, stake)

\* Slip: the share of what was asked for.
ShareOfAsked(amount) == (2 * amount) \div 3

\* ... and two thirds of it enter the pool.
PoolShare(amount) == (2 * Slashed(amount)) \div 3

Slash(amount) ==
    IF stake = -1 THEN UNCHANGED stakeVars
    ELSE /\ stake' = stake - Slashed(amount)
         /\ pool' = pool + PoolShare(amount)
         /\ taken' = taken + Slashed(amount)
         /\ slashedShare' = slashedShare + PoolShare(amount)
         /\ UNCHANGED <<vestedFrom, bonds, short>>

\* resolve_dispute, of a dispute that is lost: the penalty is noted and does not
\* change the score.
DisputeLost(s) ==
    [s EXCEPT !.disputesLost = TRUE, !.recoveryStart = clock,
              !.penalties = @ \union {Penalty("ReputationPenalty")}]

\* on_dispute_resolved: a lost dispute is noted, and slashed with a penalty that
\* changes no score either, and the standing updated.
DisputeResolved(amount, lost) ==
    LET noted == [DisputeLost(state) EXCEPT !.penalties = @ \union {Penalty("StakePenalty")}]
    IN /\ Call
       /\ IF lost THEN Slash(amount) ELSE UNCHANGED stakeVars
       /\ Update(IF lost /\ state.registered THEN noted ELSE state, metrics, outcomes)

\* record_id_change
IdChange ==
    /\ Call /\ state.registered
    /\ state' = [state EXCEPT !.idChanges = @ + 1, !.idChangedAt = clock]
    /\ UNCHANGED <<metrics, history, outcomes, lowered, stakeVars>>

\* lock_bond: the stake has to cover this bond, whatever else is locked.
LockBond(bond) ==
    /\ Call
    /\ AtLeast(stake, 0) >= bond.amount
    /\ bonds' = Append(bonds, bond)
    /\ UNCHANGED <<scoreVars, stake, vestedFrom, pool, taken, slashedShare, short>>

\* add_stake: without a vesting schedule, if there was none.
AddStake(amount) ==
    /\ Call
    /\ stake' = AtLeast(stake, 0) + amount
    /\ UNCHANGED <<scoreVars, vestedFrom, bonds, pool, taken, slashedShare, short>>

Tick ==
    /\ clock < MaxTime
    /\ clock' = clock + 1
    /\ UNCHANGED <<scoreVars, stakeVars, ops>>

P2PKinds == {"missed", "flag", "relayed", "dropped", "echo"}
PenaltyKinds == {"ReputationPenalty", "Downgrade", "TemporaryBan", "PermanentBan"}

Next ==
    \/ \E amount \in Stakes \union {0} : NodeJoin(amount)
    \/ \E downtime \in {1, 20} : NodeLeave(downtime)
    \/ HeartbeatReceived \/ PeriodicUpdate \/ IdChange \/ Tick
    \/ \E kind \in P2PKinds : P2PUpdate(kind)
    \/ \E twice \in {1, 3, 4} : TradeOutcome(SpeedScore(twice))
    \/ \E kind \in PenaltyKinds : ApplyPenalty(kind)
    \/ \E bond \in Bonds : ApplyForfeiture(bond.type) \/ LockBond(bond)
    \/ \E amount \in Amounts, lost \in BOOLEAN : DisputeResolved(amount, lost)
    \/ \E amount \in Stakes : AddStake(amount)

Spec == Init /\ [][Next]_vars

-----------------------------------------------------------------------------
TrustLevels == {"Newcomer", "Contributor", "Trusted", "Elite", "Banned"}

TypeOK ==
    /\ clock \in 0..MaxTime /\ ops \in 0..MaxOps
    /\ state # Unknown =>
        /\ state.registered
        /\ state.score \in 0..150000 /\ state.trust \in TrustLevels
        /\ state.uptime \in 0..1000 /\ {state.up, state.down, state.idChanges} \subseteq Nat
        /\ {state.firstSeen, state.idChangedAt} \subseteq 0..clock
        /\ state.recoveryStart \in -1..clock
    /\ metrics \in [DOMAIN NoMetrics -> Nat]
    /\ Len(history) <= Window /\ ToSet(history) \subseteq 0..1000
    /\ Len(outcomes) <= MaxReports /\ ToSet(outcomes) \subseteq 0..1000
    /\ stake >= -1 /\ vestedFrom \in -1..clock
    /\ {pool, taken, slashedShare} \subseteq Nat
    /\ {short, lowered} \subseteq BOOLEAN

\* A ban holds: whatever is reported, updated or settled afterwards, a node
\* with a permanent ban, or with a temporary one that has not run out, is
\* Banned, until it registers anew.  Only a Downgrade raises it to Newcomer,
\* and only until the next update (determine_trust_level, apply_penalty).
BanHolds ==
    \A p \in IF state.registered THEN state.penalties ELSE {} :
        p.kind = "PermanentBan" \/ (p.kind = "TemporaryBan" /\ clock < p.until)
            => state.trust = "Banned" \/ lowered

\* The slashing pool never holds more than slash and forfeit_bond took out of
\* stakes, as long as the stake still covered every bond when it was
\* forfeited.  (lock_bond reserves nothing, so two bonds on one stake, or a
\* slash after the bond, may leave less than forfeit_bond adds to the pool.)
PoolBacked == ~short => pool <= taken

\* The pool is the slashed shares and half of each forfeited bond, once,
\* however often leaving the network and penalties ask for a forfeiture.
PoolAccounted ==
    LET forfeited == SelectSeq(bonds, LAMBDA b : b.forfeited)
    IN pool = slashedShare + FoldLeft(LAMBDA sum, b : sum + b.amount \div 2, 0, forfeited)

\* A missed heartbeat, a flag or a dropped flood never raises a node's raw
\* score, and a relayed flood never lowers it, whatever was counted before
\* (compute_p2p_score and its special cases for zero).
BlameNeverHelps ==
    /\ \A kind \in {"missed", "flag", "dropped"} : RawScore(Counted(metrics, kind)) <= RawScore(metrics)
    /\ RawScore(Counted(metrics, "relayed")) >= RawScore(metrics)

\* Standing above Newcomer takes a stake of several units on a vesting
\* schedule that has started to run, counting what was since taken away; and
\* no sequence of calls gives Trusted or Elite, which update_reputation's
\* factors do not reach (at most 10 for stake, 2 for loyalty, 1.5 for
\* recovery, against a threshold of 50).
StandingNeedsVestedStake ==
    state.registered =>
        /\ state.trust \notin {"Trusted", "Elite"}
        /\ state.trust = "Contributor" =>
            vestedFrom # -1 /\ vestedFrom < clock /\ stake + taken > 3 * StakeUnit

\* What a bond demands, and its owner broke.
Broken(s, bond) ==
    \/ "Uptime90Percent" \in bond.conditions /\ 10 * s.up < 9 * (s.up + s.down)
    \/ "NoDisputesLost" \in bond.conditions /\ s.disputesLost

\* When a node leaves, the bonds it forfeits are those whose conditions it
\* broke, given that no two open bonds have the same type: forfeit_bond is told the
\* type only, and takes the first.
LeaveForfeitsBroken ==
    [][LET open == {i \in DOMAIN bonds : ~bonds[i].forfeited}
       IN /\ state.registered /\ state'.registered /\ state'.down > state.down
          /\ \A i, j \in open : bonds[i].type = bonds[j].type => i = j
          => \A i \in open : bonds'[i].forfeited <=> Broken(state', bonds[i])]_vars

\* A node's standing is what its record gives: bans hold, blame does not help, and
\* standing takes stake that vests (update_reputation, determine_trust_level).
StandingEarned == TypeOK /\ BanHolds /\ BlameNeverHelps /\ StandingNeedsVestedStake

\* The pool has what was taken for it, no less and no more (slash, forfeit_bond).
PoolTrue == PoolBacked /\ PoolAccounted
=============================================================================
