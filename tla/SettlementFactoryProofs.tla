---------------------- MODULE SettlementFactoryProofs -----------------------
(***************************************************************************)
(* Proofs about the settlement contracts, for any traders, tokens, nodes,  *)
(* trade entries and batch sizes.                                          *)
(*                                                                         *)
(* Everything about a trade's record follows from RecordSteps, which says  *)
(* what one transaction may do to one record: nothing, write it fresh, or  *)
(* set one flag under the tests its function makes.  SettledExclusive is   *)
(* not inductive by itself: _settleGroup does not read `refunded`, so the  *)
(* invariant adds that a refund or a slash means the deadline has passed   *)
(* (EarlyEndExcluded), and that block time never goes back.                *)
(*                                                                         *)
(* The books are sums.  GroupSum is the link between a call's loop and the *)
(* records: what the positions of one group add up to is what the trades   *)
(* they name have locked, since no trade is named twice in a batch.        *)
(***************************************************************************)
EXTENDS SettlementFactory, SumTheorems

-----------------------------------------------------------------------------
(***************************************************************************)
(* The registry on its own.  Its invariant is inductive as the conjunction *)
(* of its parts: ActiveNodeStaked is not inductive alone, since            *)
(* activateNode tests the caller and the stake but not registration;       *)
(* OnlyRegisteredOperated says that a node with an operator is registered. *)
(* RegistrySolvent is about the sum of the stakes: a call that changes one *)
(* entry must not raise that stake by more than it pays into the contract. *)
(***************************************************************************)
OnlyRegisteredOperated ==
    \A n \in Nodes : nodes[n].operator # NoOperator => nodes[n].registered

RegistryInv ==
    /\ RegistryTypeOK
    /\ ActiveNodeStaked
    /\ MissedDeadlinesActedOn
    /\ OnlyRegisteredOperated
    /\ RegistrySolvent

\* What each step may do to one node's entry keeps it well typed and staked.
NodeOK(info) ==
    /\ info \in NodeInfo
    /\ info.active => info.registered /\ info.stake >= MinStake
    /\ info.missedDeadlines < MAX_MISSED_DEADLINES
    /\ info.operator # NoOperator => info.registered

\* RegistryInv, read node by node.
LEMMA RegistryInvByNode ==
    RegistryInv <=> /\ nodes \in [Nodes -> NodeInfo]
                    /\ \A n \in Nodes : NodeOK(nodes[n])
                    /\ nodeList \in Seq(Nodes)
                    /\ registryBalance \in Nat
                    /\ RegistrySolvent
  BY DEF RegistryInv, RegistryTypeOK, ActiveNodeStaked, MissedDeadlinesActedOn,
         OnlyRegisteredOperated, NodeOK

\* A call that writes one entry keeps the registry solvent when the contract's
\* balance changes by at least what the entry's stake does.
LEMMA SolventAfterOne ==
    ASSUME nodes \in [Nodes -> NodeInfo], registryBalance \in Nat, RegistrySolvent,
           NEW n \in Nodes, NEW info \in NodeInfo,
           nodes' = [nodes EXCEPT ![n] = info],
           registryBalance' \in Int,
           registryBalance' - registryBalance >= info.stake - nodes[n].stake
    PROVE  RegistrySolvent'
  <1> DEFINE f == [m \in Nodes |-> nodes[m].stake]
             g == [m \in Nodes |-> nodes'[m].stake]
  <1>1. /\ \A m \in Nodes : f[m] \in Int /\ g[m] \in Int
        /\ \A m \in Nodes \ {n} : g[m] = f[m]
        /\ f[n] = nodes[n].stake /\ g[n] = info.stake
    BY DEF NodeInfo
  <1> HIDE DEF f, g
  <1>2. SumFunctionOnSet(g, Nodes) = SumFunctionOnSet(f, Nodes) - f[n] + g[n]
    BY ONLY <1>1, NodesAssumption, n \in Nodes, SumUpdate
  <1>3. SumFunctionOnSet(f, Nodes) \in Int
    BY <1>1, NodesAssumption, SumInt
  <1>4. registryBalance >= SumFunctionOnSet(f, Nodes)
    BY DEF RegistrySolvent, f
  <1>5. registryBalance' >= SumFunctionOnSet(g, Nodes)
    BY <1>1, <1>2, <1>3, <1>4
  <1>6. QED
    BY <1>5 DEF RegistrySolvent, g

\* A deleted mapping entry is a well-formed entry of an inactive node.
LEMMA UnregisteredOK == NodeOK(Unregistered)
  BY DEF Unregistered, NodeOK, NodeInfo, MAX_MISSED_DEADLINES

\* slashNode leaves a well-formed, inactive node, or none.
LEMMA SlashedOK ==
    ASSUME NEW info, NodeOK(info), NEW amount \in Nat, CanSlash(info, amount)
    PROVE  /\ NodeOK(Slashed(info, amount))
           /\ Slashed(info, amount).stake <= info.stake - amount
  <1> DEFINE after == [info EXCEPT !.stake = @ - amount, !.slashCount = @ + 1, !.active = FALSE]
  <1>0. info \in NodeInfo /\ info.stake >= amount
    BY DEF NodeOK, CanSlash
  <1>1. info.stake - amount \in Nat
    BY <1>0 DEF NodeInfo
  <1>2. after \in NodeInfo
    <2>1. info.slashCount + 1 \in Nat
      BY <1>0 DEF NodeInfo
    <2>2. QED
      BY <1>0, <1>1, <2>1, Zenon DEF NodeInfo
  <1>3. /\ after.active = FALSE
        /\ after.missedDeadlines = info.missedDeadlines
        /\ after.operator = info.operator
        /\ after.registered = info.registered
        /\ after.stake = info.stake - amount
    BY DEF NodeOK, NodeInfo
  <1>4. NodeOK(after)
    BY <1>2, <1>3 DEF NodeOK
  <1>5. Slashed(info, amount) = after \/ Slashed(info, amount) = Unregistered
    BY DEF Slashed, DeleteIfUnderstaked
  <1>6. Unregistered.stake = 0
    BY DEF Unregistered
  <1> HIDE DEF after
  <1>7. QED
    BY <1>1, <1>3, <1>4, <1>5, <1>6, UnregisteredOK

\* _autoPenalize leaves a well-formed, inactive node, or none.
LEMMA PenalizedOK ==
    ASSUME NEW info \in NodeInfo, info.operator # NoOperator => info.registered
    PROVE  NodeOK(Penalized(info)) /\ Penalized(info).stake <= info.stake
  <1> DEFINE after == [info EXCEPT !.stake = @ - (@ \div 2), !.missedDeadlines = 0,
                                   !.active = FALSE]
  <1>1. info.stake - (info.stake \div 2) \in Nat
    BY DEF NodeInfo
  <1>2. after \in NodeInfo
    BY <1>1, Zenon DEF NodeInfo
  <1>3. /\ after.active = FALSE
        /\ after.missedDeadlines = 0
        /\ after.operator = info.operator
        /\ after.registered = info.registered
        /\ after.stake <= info.stake
    BY DEF NodeInfo
  <1>4. NodeOK(after)
    BY <1>2, <1>3 DEF NodeOK, MAX_MISSED_DEADLINES
  <1>5. Penalized(info) = after \/ Penalized(info) = Unregistered
    BY DEF Penalized, DeleteIfUnderstaked
  <1>6. Unregistered.stake <= info.stake
    BY DEF Unregistered, NodeInfo
  <1> HIDE DEF after
  <1>7. QED
    BY <1>3, <1>4, <1>5, <1>6, UnregisteredOK, Zenon

\* One well-formed entry is written, and the contract's balance changes by at
\* least what its stake does.
EntryWritten(n, info) ==
    /\ nodes' = [nodes EXCEPT ![n] = info]
    /\ NodeOK(info)
    /\ nodeList' \in Seq(Nodes)
    /\ registryBalance' \in Nat
    /\ registryBalance' - registryBalance >= info.stake - nodes[n].stake

\* Writing one entry so keeps RegistryInv.
LEMMA EntryKeepsInv ==
    ASSUME RegistryInv, NEW n \in Nodes, NEW info, EntryWritten(n, info)
    PROVE  RegistryInv'
  <1>1. /\ nodes \in [Nodes -> NodeInfo]
        /\ \A m \in Nodes : NodeOK(nodes[m])
        /\ registryBalance \in Nat
        /\ RegistrySolvent
    BY RegistryInvByNode
  <1>2. info \in NodeInfo /\ registryBalance' \in Int
    BY DEF EntryWritten, NodeOK
  <1>3. RegistrySolvent'
    BY ONLY <1>1, <1>2, n \in Nodes, EntryWritten(n, info), SolventAfterOne, ZenonT(60) DEF EntryWritten
  <1>4. nodes' \in [Nodes -> NodeInfo] /\ \A m \in Nodes : NodeOK(nodes'[m])
    BY <1>1, <1>2 DEF EntryWritten
  <1>5. QED
    BY <1>3, <1>4 DEF EntryWritten, RegistryInv, RegistryTypeOK, ActiveNodeStaked,
       MissedDeadlinesActedOn, OnlyRegisteredOperated, NodeOK

\* Every registry call keeps RegistryInv.
LEMMA RegistryCallKeepsInv ==
    RegistryInv /\ RegistryCall => RegistryInv'
  <1> SUFFICES ASSUME RegistryInv, NEW n \in Nodes,
                      \/ \E o \in Operators, v \in Stakes : RegisterNode(n, o, v)
                      \/ RecordMissedDeadline(n)
                      \/ \E o \in Operators : DeactivateNode(n, o)
                      \/ \E o \in Operators : ActivateNode(n, o)
                      \/ \E o \in Operators : WithdrawStake(n, o)
               PROVE  RegistryInv'
    BY DEF RegistryCall
  <1>0. /\ nodes \in [Nodes -> NodeInfo]
        /\ \A m \in Nodes : NodeOK(nodes[m])
        /\ nodeList \in Seq(Nodes)
        /\ registryBalance \in Nat
        /\ RegistrySolvent
        /\ nodes[n] \in NodeInfo /\ nodes[n].stake \in Nat
    BY RegistryInvByNode DEF NodeOK, NodeInfo
  <1>1. CASE \E o \in Operators, v \in Stakes : RegisterNode(n, o, v)
    <2>1. PICK o \in Operators, v \in Stakes : RegisterNode(n, o, v)
      BY <1>1
    <2>2. v \in Nat
      BY StakesAssumption, Zenon
    <2> DEFINE info == [operator |-> o, stake |-> v, registered |-> TRUE,
                        active |-> TRUE, slashCount |-> 0, missedDeadlines |-> 0]
    <2>3. NodeOK(info) /\ info.stake = v
      BY <2>1, <2>2 DEF RegisterNode, NodeOK, NodeInfo, MAX_MISSED_DEADLINES
    <2>4. nodes' = [nodes EXCEPT ![n] = info]
      BY <2>1 DEF RegisterNode
    <2> HIDE DEF info
    <2>5. nodeList' \in Seq(Nodes) /\ registryBalance' = registryBalance + v
      BY <1>0, <2>1 DEF RegisterNode
    <2>6. EntryWritten(n, info)
      BY <1>0, <2>2, <2>3, <2>4, <2>5, SMTT(30) DEF EntryWritten
    <2>7. QED
      BY ONLY RegistryInv, n \in Nodes, <2>6, EntryKeepsInv
  <1>2. CASE RecordMissedDeadline(n)
    <2> DEFINE counted == [nodes[n] EXCEPT !.missedDeadlines = @ + 1]
               info == IF PenaltyDue(counted.missedDeadlines) THEN Penalized(counted) ELSE counted
    <2>0. nodes[n] \in NodeInfo
      BY <1>0
    <2>1. /\ counted \in NodeInfo
          /\ counted.operator = nodes[n].operator
          /\ counted.registered = nodes[n].registered
          /\ counted.stake = nodes[n].stake
          /\ counted.active = nodes[n].active
      BY ONLY <2>0 DEF NodeInfo
    <2>2. ~PenaltyDue(counted.missedDeadlines) => NodeOK(counted)
      <3> HIDE DEF counted
      <3>1. NodeOK(nodes[n])
        BY <1>0, Zenon
      <3>2. ~PenaltyDue(counted.missedDeadlines)
                => counted.missedDeadlines < MAX_MISSED_DEADLINES
        BY ONLY <2>1 DEF PenaltyDue, NodeInfo, MAX_MISSED_DEADLINES
      <3>3. QED
        BY ONLY <2>1, <3>1, <3>2, Zenon DEF NodeOK
    <2>3. NodeOK(Penalized(counted)) /\ Penalized(counted).stake <= counted.stake
      BY <1>0, <2>1, PenalizedOK, Zenon DEF NodeOK
    <2>4. nodes' = [nodes EXCEPT ![n] = info] /\ UNCHANGED <<nodeList, registryBalance>>
      BY <1>2 DEF RecordMissedDeadline, MissedCounted
    <2> HIDE DEF counted
    <2>5. NodeOK(info) /\ info.stake <= nodes[n].stake
      BY <1>0, <2>1, <2>2, <2>3
    <2>6. info.stake \in Nat
      BY <2>5 DEF NodeOK, NodeInfo
    <2> HIDE DEF info
    <2>7. EntryWritten(n, info)
      BY <1>0, <2>4, <2>5, <2>6 DEF EntryWritten
    <2>8. QED
      BY ONLY RegistryInv, n \in Nodes, <2>7, EntryKeepsInv, ZenonT(60)
  <1>3. CASE \E o \in Operators : DeactivateNode(n, o)
    <2> DEFINE info == [nodes[n] EXCEPT !.active = FALSE]
    <2>1. NodeOK(info) /\ info.stake = nodes[n].stake
      BY <1>0, Zenon DEF NodeOK, NodeInfo
    <2>2. nodes' = [nodes EXCEPT ![n] = info] /\ UNCHANGED <<nodeList, registryBalance>>
      BY <1>3 DEF DeactivateNode
    <2> HIDE DEF info
    <2>3. EntryWritten(n, info)
      BY <1>0, <2>1, <2>2 DEF EntryWritten
    <2>4. QED
      BY ONLY RegistryInv, n \in Nodes, <2>3, EntryKeepsInv
  <1>4. CASE \E o \in Operators : ActivateNode(n, o)
    <2> DEFINE info == [nodes[n] EXCEPT !.active = TRUE]
    <2>1. nodes[n].registered
      BY <1>0, <1>4, NoOperatorAssumption, MinStakeAssumption, Zenon DEF ActivateNode, NodeOK, NodeInfo
    <2>2. NodeOK(info) /\ info.stake = nodes[n].stake
      BY <1>0, <1>4, <2>1, ZenonT(60) DEF ActivateNode, NodeOK, NodeInfo
    <2>3. nodes' = [nodes EXCEPT ![n] = info] /\ UNCHANGED <<nodeList, registryBalance>>
      BY <1>4, Zenon DEF ActivateNode
    <2> HIDE DEF info
    <2>4. EntryWritten(n, info)
      BY <1>0, <2>2, <2>3 DEF EntryWritten
    <2>5. QED
      BY ONLY RegistryInv, n \in Nodes, <2>4, EntryKeepsInv
  <1>5. CASE \E o \in Operators : WithdrawStake(n, o)
    <2> DEFINE info == [nodes[n] EXCEPT !.stake = 0]
    <2>1. NodeOK(info) /\ info.stake = 0
      BY <1>0, <1>5, ZenonT(60) DEF WithdrawStake, StakeFree, NodeOK, NodeInfo
    <2>2. nodes' = [nodes EXCEPT ![n] = info] /\ UNCHANGED nodeList
      BY <1>5 DEF WithdrawStake
    <2>3. registryBalance' = registryBalance - nodes[n].stake /\ registryBalance' \in Nat
      BY <1>0, <1>5 DEF WithdrawStake
    <2> HIDE DEF info
    <2>4. EntryWritten(n, info)
      BY <1>0, <2>1, <2>2, <2>3, SMTT(30) DEF EntryWritten
    <2>5. QED
      BY ONLY RegistryInv, n \in Nodes, <2>4, EntryKeepsInv
  <1>6. QED
    BY <1>1, <1>2, <1>3, <1>4, <1>5, ZenonT(60)

\* Every call to the registry on its own keeps RegistryInv.
LEMMA RegistryStepKeepsInv ==
    RegistryInv /\ [RegistryNext]_registryVars => RegistryInv'
  <1> SUFFICES ASSUME RegistryInv, [RegistryNext]_registryVars
               PROVE  RegistryInv'
    OBVIOUS
  <1>1. CASE RegistryCall
    BY <1>1, RegistryCallKeepsInv
  <1>2. ASSUME NEW n \in Nodes, NEW amount \in SlashAmounts, SlashNode(n, amount)
        PROVE  RegistryInv'
    <2>1. amount \in Nat
      BY SlashAmountsAssumption
    <2>2. /\ NodeOK(Slashed(nodes[n], amount))
          /\ Slashed(nodes[n], amount).stake <= nodes[n].stake - amount
      BY <1>2, <2>1, RegistryInvByNode, SlashedOK DEF SlashNode
    <2>3. registryBalance' = registryBalance - amount /\ registryBalance' \in Nat
      BY <1>2, <2>1, RegistryInvByNode DEF SlashNode
    <2>4. nodes' = [nodes EXCEPT ![n] = Slashed(nodes[n], amount)] /\ nodeList' = nodeList
      BY <1>2 DEF SlashNode
    <2>5. EntryWritten(n, Slashed(nodes[n], amount))
      <3>1. /\ Slashed(nodes[n], amount).stake \in Nat /\ nodes[n].stake \in Nat
            /\ registryBalance \in Nat /\ nodeList \in Seq(Nodes)
        BY <2>2, RegistryInvByNode DEF NodeOK, NodeInfo
      <3> HIDE DEF Slashed
      <3>2. QED
        BY <2>1, <2>2, <2>3, <2>4, <3>1, SMTT(30) DEF EntryWritten
    <2>6. QED
      BY ONLY RegistryInv, n \in Nodes, <2>5, EntryKeepsInv
  <1>3. CASE UNCHANGED registryVars
    BY <1>3 DEF registryVars, RegistryInv, RegistryTypeOK, ActiveNodeStaked,
                MissedDeadlinesActedOn, OnlyRegisteredOperated, RegistrySolvent
  <1>4. QED
    BY <1>1, <1>2, <1>3 DEF RegistryNext

\* The empty registry satisfies RegistryInv.
LEMMA RegistryInitInv == RegistryInit => RegistryInv
  <1> SUFFICES ASSUME RegistryInit
               PROVE  RegistryInv
    OBVIOUS
  <1>1. Unregistered.stake = 0
    BY DEF Unregistered
  <1>2. RegistrySolvent
    <2> DEFINE f == [n \in Nodes |-> nodes[n].stake]
    <2>1. \A n \in Nodes : f[n] = 0
      BY <1>1 DEF RegistryInit
    <2> HIDE DEF f
    <2>2. SumFunctionOnSet(f, Nodes) = 0
      BY <2>1, NodesAssumption, SumZero
    <2>3. QED
      BY <2>2 DEF RegistryInit, RegistrySolvent, f
  <1>3. \A n \in Nodes : NodeOK(nodes[n])
    BY UnregisteredOK DEF RegistryInit
  <1>4. nodes \in [Nodes -> NodeInfo] /\ nodeList \in Seq(Nodes) /\ registryBalance \in Nat
    <2>1. Unregistered \in NodeInfo
      BY UnregisteredOK, Zenon DEF NodeOK
    <2>2. QED
      BY <2>1 DEF RegistryInit
  <1>5. QED
    BY ONLY <1>2, <1>3, <1>4, Zenon
    DEF RegistryInv, RegistryTypeOK, ActiveNodeStaked, MissedDeadlinesActedOn,
        OnlyRegisteredOperated, NodeOK

\* Whatever a slashing authority slashes and operators do, nodes and balances
\* of the registry stay well typed, every active node has at least MIN_STAKE
\* at risk, three missed deadlines are always acted on, and the pooled ether
\* covers the stakes of all nodes, however many there are.
THEOREM RegistrySafe ==
    RegistrySpec => [](RegistryTypeOK /\ ActiveNodeStaked /\ MissedDeadlinesActedOn
                       /\ RegistrySolvent)
  <1>1. RegistryInv => RegistryTypeOK /\ ActiveNodeStaked /\ MissedDeadlinesActedOn
                       /\ RegistrySolvent
    BY DEF RegistryInv
  <1>2. QED
    BY <1>1, RegistryInitInv, RegistryStepKeepsInv, PTL DEF RegistrySpec

-----------------------------------------------------------------------------
(***************************************************************************)
(* The records.                                                            *)
(***************************************************************************)

\* Entries of a batch are trade entries.
LEMMA BatchEntries ==
    ASSUME NEW S, NEW batch \in Batches(S), NEW i \in DOMAIN batch
    PROVE  batch[i] \in S
  BY Zenon DEF Batches

\* The steps that one transaction, or the passing of time, may take on one
\* settlement record s, leaving u.
RecordStep(s, u) ==
    \/ u = s
    \/ /\ s.deadline = 0
       /\ \E e \in TradeEntries : now <= e.deadline /\ u = NewSettlement(s, e)
    \/ Recorded(s) /\ ~s.settled /\ ~s.slashed /\ ~DeadlinePassed(s) /\ u = MarkSettled(s)
    \/ Recorded(s) /\ ~s.settled /\ ~s.refunded /\ DeadlinePassed(s) /\ u = MarkRefunded(s)
    \/ Recorded(s) /\ ~s.settled /\ ~s.slashed /\ DeadlinePassed(s) /\ u = MarkSlashed(s)

EveryRecordSteps ==
    \A t \in Traders, h \in TradeHashes : RecordStep(settlements[t][h], settlements'[t][h])

\* What each action does to the records.
LEMMA RecordSteps ==
    EscrowTypeOK /\ [Next]_vars => EveryRecordSteps /\ now' \in {now, now + 1}
  <1> SUFFICES ASSUME EscrowTypeOK, [Next]_vars
               PROVE  EveryRecordSteps /\ now' \in {now, now + 1}
    OBVIOUS
  <1>1. CASE UNCHANGED settlements
    <2>1. EveryRecordSteps
      BY <1>1, SMTT(30) DEF EveryRecordSteps, RecordStep
    <2>2. now' \in {now, now + 1}
      BY ZenonT(60) DEF Next, vars, FactoryCall, EscrowCall, RegistryCall, Tick, CreateEscrow, SettleBatch,
             CommitTradeBatch, SettleBatchWithFees, ClaimSlash, Deposit, Withdraw,
             RefundAfterDeadline
    <2>3. QED
      BY <2>1, <2>2, Zenon
  <1>2. ASSUME NEW batch \in Batches(TradeEntries), CommitTradeBatch(batch)
        PROVE  EveryRecordSteps /\ now' \in {now, now + 1}
    <2>1. SUFFICES ASSUME NEW t \in Traders, NEW h \in TradeHashes
                   PROVE  RecordStep(settlements[t][h], settlements'[t][h])
      BY <1>2, Zenon DEF CommitTradeBatch, EveryRecordSteps
    <2> DEFINE named == \E i \in DOMAIN batch : batch[i].trader = t /\ batch[i].tradeHash = h
               pos == CHOOSE i \in DOMAIN batch : batch[i].trader = t /\ batch[i].tradeHash = h
    <2>2. settlements'[t][h] = IF named THEN NewSettlement(settlements[t][h], batch[pos])
                                        ELSE settlements[t][h]
      BY <1>2, Zenon DEF CommitTradeBatch, UpdateRecords
    <2>3. ASSUME named
          PROVE  /\ batch[pos] \in TradeEntries
                 /\ now <= batch[pos].deadline
                 /\ settlements[t][h].deadline = 0
      <3>1. pos \in DOMAIN batch /\ batch[pos].trader = t /\ batch[pos].tradeHash = h
        BY <2>3, Zenon
      <3>2. QED
        BY <1>2, <3>1, BatchEntries, Zenon DEF CommitTradeBatch, CanCommit, RecordOf
    <2>4. QED
      BY <2>2, <2>3, ZenonT(60) DEF RecordStep
  <1>3. ASSUME NEW batch \in Batches(TradeEntries), NEW o \in Operators, NEW r \in BOOLEAN,
               SettleBatchWithFees(batch, o, r)
        PROVE  EveryRecordSteps /\ now' \in {now, now + 1}
    <2>1. SUFFICES ASSUME NEW t \in Traders, NEW h \in TradeHashes
                   PROVE  RecordStep(settlements[t][h], settlements'[t][h])
      BY <1>3, Zenon DEF SettleBatchWithFees, EveryRecordSteps
    <2> DEFINE s == settlements[t][h]
               named == \E i \in DOMAIN batch : batch[i].trader = t /\ batch[i].tradeHash = h
    <2>2. settlements'[t][h] = IF named THEN MarkSettled(s) ELSE s
      BY <1>3, Zenon DEF SettleBatchWithFees, UpdateRecords, SettledRecord
    <2>3. ASSUME named
          PROVE  Recorded(s) /\ ~s.settled /\ ~s.slashed /\ ~DeadlinePassed(s)
      BY <1>3, <2>3, Zenon DEF SettleBatchWithFees, CanSettle, RecordOf
    <2>4. QED
      BY <2>2, <2>3, Zenon DEF RecordStep
  <1>4. ASSUME NEW hashes \in Batches(TradeHashes), NEW c \in Traders, ClaimSlash(hashes, c)
        PROVE  EveryRecordSteps /\ now' \in {now, now + 1}
    <2>1. SUFFICES ASSUME NEW t \in Traders, NEW h \in TradeHashes
                   PROVE  RecordStep(settlements[t][h], settlements'[t][h])
      BY <1>4, SMTT(30) DEF ClaimSlash, EveryRecordSteps
    <2> DEFINE s == settlements[t][h]
               hit == t = c /\ h \in {hashes[i] : i \in DOMAIN hashes}
    <2>2. settlements'[t][h] = IF hit THEN MarkSlashed(s) ELSE s
      BY <1>4, ZenonT(60) DEF ClaimSlash, EscrowTypeOK
    <2>3. hit => Recorded(s) /\ ~s.settled /\ ~s.slashed /\ DeadlinePassed(s)
      BY <1>4, Zenon DEF ClaimSlash, CanClaim
    <2>4. QED
      BY <2>2, <2>3, Zenon DEF RecordStep
  <1>5. ASSUME NEW c \in Traders, NEW g \in TradeHashes, RefundAfterDeadline(c, g)
        PROVE  EveryRecordSteps /\ now' \in {now, now + 1}
    <2>1. SUFFICES ASSUME NEW t \in Traders, NEW h \in TradeHashes
                   PROVE  RecordStep(settlements[t][h], settlements'[t][h])
      BY <1>5, Zenon DEF RefundAfterDeadline, EveryRecordSteps
    <2> DEFINE s == settlements[t][h]
               hit == t = c /\ h = g
    <2>2. settlements'[t][h] = IF hit THEN MarkRefunded(s) ELSE s
      BY <1>5, Zenon DEF RefundAfterDeadline, EscrowTypeOK
    <2>3. hit => Recorded(s) /\ ~s.settled /\ ~s.refunded /\ DeadlinePassed(s)
      BY <1>5, Zenon DEF RefundAfterDeadline
    <2>4. QED
      BY <2>2, <2>3, Zenon DEF RecordStep
  <1>6. QED
    BY <1>1, <1>2, <1>3, <1>4, <1>5, ZenonT(60)
    DEF Next, vars, escrowVars, FactoryCall, EscrowCall, Tick, CreateEscrow, SettleBatch, Deposit, Withdraw

\* The mapping of records stays a function on traders and trade hashes.
Total(f) == f = [t \in Traders |-> [h \in TradeHashes |-> f[t][h]]]

\* Every call leaves a record for each trader and trade hash.
LEMMA RecordShape == EscrowTypeOK /\ [Next]_vars => Total(settlements')
  <1> SUFFICES ASSUME EscrowTypeOK, [Next]_vars
               PROVE  Total(settlements')
    OBVIOUS
  <1>1. CASE UNCHANGED settlements
    BY <1>1, Zenon DEF EscrowTypeOK, Total
  <1>2. ASSUME NEW batch \in Batches(TradeEntries), CommitTradeBatch(batch)
        PROVE  Total(settlements')
    BY <1>2, Zenon DEF CommitTradeBatch, UpdateRecords, Total
  <1>3. ASSUME NEW batch \in Batches(TradeEntries), NEW o \in Operators, NEW r \in BOOLEAN,
               SettleBatchWithFees(batch, o, r)
        PROVE  Total(settlements')
    BY <1>3 DEF SettleBatchWithFees, UpdateRecords, Total
  <1>4. ASSUME NEW hashes \in Batches(TradeHashes), NEW c \in Traders, ClaimSlash(hashes, c)
        PROVE  Total(settlements')
    BY <1>4, Zenon DEF ClaimSlash, EscrowTypeOK, Total
  <1>5. ASSUME NEW c \in Traders, NEW g \in TradeHashes, RefundAfterDeadline(c, g)
        PROVE  Total(settlements')
    BY <1>5, ZenonT(60) DEF RefundAfterDeadline, EscrowTypeOK, Total
  <1>6. QED
    BY <1>1, <1>2, <1>3, <1>4, <1>5, ZenonT(60)
    DEF Next, vars, escrowVars, FactoryCall, EscrowCall, Tick, CreateEscrow, SettleBatch, Deposit, Withdraw

-----------------------------------------------------------------------------
\* A flag is set, and a token, node and counterparty named, only in a record
\* that commitTrade wrote.
RecordOK(s) ==
    /\ s \in Settlement
    /\ Recorded(s) => s.token \in Tokens
    /\ s.settled \/ s.refunded \/ s.slashed => Recorded(s)
    /\ s.settled => ~s.refunded /\ ~s.slashed
    /\ s.refunded \/ s.slashed => now > s.deadline

RecordsOK ==
    /\ now \in Nat \ {0}
    /\ settlements \in [Traders -> [TradeHashes -> Settlement]]
    /\ \A t \in Traders, h \in TradeHashes : RecordOK(settlements[t][h])

\* One step on one record keeps it well formed.
LEMMA RecordStepKeepsOK ==
    ASSUME now \in Nat \ {0}, now' \in {now, now + 1},
           NEW s, RecordOK(s), NEW u, RecordStep(s, u)
    PROVE  /\ u \in Settlement
           /\ Recorded(u) => u.token \in Tokens
           /\ u.settled \/ u.refunded \/ u.slashed => Recorded(u)
           /\ u.settled => ~u.refunded /\ ~u.slashed
           /\ u.refunded \/ u.slashed => now' > u.deadline
  <1>0. s \in Settlement
    BY DEF RecordOK
  <1>1. CASE u = s
    BY <1>0, <1>1 DEF RecordOK, Settlement
  <1>2. CASE \E e \in TradeEntries : now <= e.deadline /\ u = NewSettlement(s, e)
    <2>1. PICK e \in TradeEntries : now <= e.deadline /\ u = NewSettlement(s, e)
      BY <1>2
    <2>2. /\ e.deadline \in Nat /\ e.amount + e.fee \in Nat /\ e.token \in Tokens
          /\ e.assignedNode \in AssignedNodes /\ e.counterparty \in Traders
      BY TradeEntriesAssumption
    <2>3. QED
      BY <2>1, <2>2 DEF NewSettlement, Settlement, Recorded
  <1>3. CASE Recorded(s) /\ ~s.settled /\ ~s.slashed /\ ~DeadlinePassed(s) /\ u = MarkSettled(s)
    <2>1. /\ u \in Settlement /\ u.settled = TRUE
          /\ u.refunded = s.refunded /\ u.slashed = s.slashed
          /\ u.deadline = s.deadline /\ u.token = s.token
      BY <1>0, <1>3, Zenon DEF MarkSettled, Settlement
    <2>2. ~(s.refunded \/ s.slashed)
      BY <1>3 DEF RecordOK, DeadlinePassed
    <2>3. QED
      BY <1>3, <2>1, <2>2 DEF RecordOK, Recorded
  <1>4. CASE Recorded(s) /\ ~s.settled /\ ~s.refunded /\ DeadlinePassed(s) /\ u = MarkRefunded(s)
    <2>1. /\ u \in Settlement /\ u.refunded = TRUE
          /\ u.settled = s.settled /\ u.slashed = s.slashed
          /\ u.deadline = s.deadline /\ u.token = s.token
      BY <1>0, <1>4, ZenonT(60) DEF MarkRefunded, Settlement
    <2>2. now' > s.deadline
      BY <1>0, <1>4 DEF DeadlinePassed, Settlement
    <2>3. QED
      BY <1>4, <2>1, <2>2 DEF RecordOK, Recorded
  <1>5. CASE Recorded(s) /\ ~s.settled /\ ~s.slashed /\ DeadlinePassed(s) /\ u = MarkSlashed(s)
    <2>1. /\ u \in Settlement /\ u.slashed = TRUE
          /\ u.settled = s.settled /\ u.refunded = s.refunded
          /\ u.deadline = s.deadline /\ u.token = s.token
      BY <1>0, <1>5, ZenonT(60) DEF MarkSlashed, Settlement
    <2>2. now' > s.deadline
      BY <1>0, <1>5 DEF DeadlinePassed, Settlement
    <2>3. QED
      BY <1>5, <2>1, <2>2 DEF RecordOK, Recorded
  <1>6. QED
    BY <1>1, <1>2, <1>3, <1>4, <1>5, ZenonT(60) DEF RecordStep

-----------------------------------------------------------------------------
(* Sums over the positions of a batch. *)

\* The trades that one group of a batch names.
Named(batch, t, k) == {batch[i].tradeHash : i \in Group(batch, t, k)}

\* A group is a finite set of positions with natural amounts and fees, and its
\* sums are naturals.
LEMMA BatchSums ==
    ASSUME NEW batch \in Batches(TradeEntries), NEW t, NEW k
    PROVE  /\ IsFiniteSet(Group(batch, t, k))
           /\ \A i \in Group(batch, t, k) : batch[i].amount \in Nat /\ batch[i].fee \in Nat
           /\ AmountSum(batch, t, k) \in Nat
           /\ FeeSum(batch, t, k) \in Nat
           /\ LockedSum(batch, t, k) \in Nat
  <1>1. PICK n \in Int : DOMAIN batch = 1..n
    BY DEF Batches
  <1>2. IsFiniteSet(Group(batch, t, k))
    BY <1>1, FS_Interval, FS_Subset DEF Group
  <1>3. \A i \in DOMAIN batch : batch[i].amount \in Nat /\ batch[i].fee \in Nat
    BY BatchEntries, TradeEntriesAssumption
  <1>4. Group(batch, t, k) \subseteq DOMAIN batch
    BY DEF Group
  <1>5. AmountSum(batch, t, k) \in Nat
    <2> DEFINE f == [i \in DOMAIN batch |-> batch[i].amount]
    <2>1. \A i \in Group(batch, t, k) : f[i] \in Nat
      BY <1>3, <1>4, Zenon
    <2> HIDE DEF f
    <2>2. QED
      BY <1>2, <2>1, SumNat, Zenon DEF AmountSum, f
  <1>6. FeeSum(batch, t, k) \in Nat
    <2> DEFINE f == [i \in DOMAIN batch |-> batch[i].fee]
    <2>1. \A i \in Group(batch, t, k) : f[i] \in Nat
      BY <1>3, <1>4, Zenon
    <2> HIDE DEF f
    <2>2. QED
      BY <1>2, <2>1, SumNat, ZenonT(60) DEF FeeSum, f
  <1>7. QED
    BY <1>2, <1>3, <1>4, <1>5, <1>6 DEF LockedSum

\* When every trade that a group names has locked what its entry says, the
\* amount locked by a set of trades that holds them is the group's sum and the
\* amount locked by the others.
LEMMA GroupSum ==
    ASSUME NEW batch \in Batches(TradeEntries), NoRepeats(batch), NEW t, NEW k,
           NEW S \in SUBSET TradeHashes, NEW f, \A h \in S : f[h] \in Int,
           Named(batch, t, k) \subseteq S,
           \A i \in Group(batch, t, k) : f[batch[i].tradeHash] = batch[i].amount + batch[i].fee
    PROVE  SumFunctionOnSet(f, S) =
              LockedSum(batch, t, k) + SumFunctionOnSet(f, S \ Named(batch, t, k))
  <1> DEFINE G == Group(batch, t, k)
             hash == [i \in DOMAIN batch |-> batch[i].tradeHash]
             amount == [i \in DOMAIN batch |-> batch[i].amount]
             fee == [i \in DOMAIN batch |-> batch[i].fee]
             both == [i \in DOMAIN batch |-> batch[i].amount + batch[i].fee]
  <1>0. IsFiniteSet(S)
    BY ONLY S \in SUBSET TradeHashes, TradeHashesAssumption, FS_Subset, Zenon
  <1>1. G \subseteq DOMAIN batch /\ IsFiniteSet(G) /\ IsFiniteSet(S)
    <2>1. IsFiniteSet(Group(batch, t, k))
      BY ONLY batch \in Batches(TradeEntries), BatchSums, Zenon
    <2>2. QED
      BY <1>0, <2>1, Zenon DEF Group
  <1>2. Names(hash, G)
    BY DEF Names, NoRepeats, Group
  <1>3. Named(batch, t, k) = {hash[i] : i \in G}
    BY <1>1, ZenonT(60) DEF Named
  <1>4. \A i \in G : both[i] \in Int /\ f[hash[i]] = both[i]
    BY <1>1, BatchSums
  <1>5. \A i \in G : amount[i] \in Int /\ fee[i] \in Int /\ both[i] = amount[i] + fee[i]
    BY <1>1, BatchSums
  <1>6. LockedSum(batch, t, k) = SumFunctionOnSet(amount, G) + SumFunctionOnSet(fee, G)
    BY Zenon DEF LockedSum, AmountSum, FeeSum
  <1> HIDE DEF G, hash, amount, fee, both
  <1>7. SumFunctionOnSet(both, G) = SumFunctionOnSet(amount, G) + SumFunctionOnSet(fee, G)
    BY ONLY <1>1, <1>5, SumAdd, Zenon
  <1>8. SumFunctionOnSet(f, {hash[i] : i \in G}) = SumFunctionOnSet(both, G)
    BY ONLY <1>1, <1>2, <1>4, SumNamed
  <1>9. SumFunctionOnSet(f, S) =
            SumFunctionOnSet(f, Named(batch, t, k)) + SumFunctionOnSet(f, S \ Named(batch, t, k))
    <2>1. Named(batch, t, k) \in SUBSET S
      BY Zenon
    <2>2. QED
      BY ONLY <1>1, <2>1, \A h \in S : f[h] \in Int, SumSplit, ZenonT(60)
  <1>10. SumFunctionOnSet(f, Named(batch, t, k)) = LockedSum(batch, t, k)
    BY <1>3, <1>6, <1>7, <1>8, ZenonT(60)
  <1>11. QED
    BY <1>9, <1>10

-----------------------------------------------------------------------------
\* The books of the escrows: typed, and covered by what the escrows own.
BooksOK ==
    /\ escrows \subseteq Traders
    /\ balances \in [Traders -> [Tokens -> Nat]]
    /\ lockedBalances \in [Traders -> [Tokens -> Nat]]
    /\ holdings \in [Traders -> [Tokens -> Nat]]
    /\ EscrowSolvent
    /\ LockedIsOpenTrades

IInv == RegistryInv /\ RecordsOK /\ BooksOK

\* The parts that the runs check.
LEMMA IInvParts ==
    IInv => /\ TypeOK /\ SettledExclusive /\ EarlyEndExcluded
            /\ EscrowSolvent /\ LockedIsOpenTrades /\ RegistrySound
  BY DEF IInv, RegistryInv, RecordsOK, BooksOK, RecordOK, TypeOK, EscrowTypeOK,
         SettledExclusive, EarlyEndExcluded, RegistrySound

\* Every transaction keeps every record well formed.
LEMMA StepKeepsRecords == IInv /\ [Next]_vars => RecordsOK'
  <1> SUFFICES ASSUME IInv, [Next]_vars
               PROVE  RecordsOK'
    OBVIOUS
  <1>1. EveryRecordSteps /\ now' \in {now, now + 1} /\ now \in Nat \ {0}
    BY RecordSteps, IInvParts, Zenon DEF TypeOK, EscrowTypeOK
  <1>2. ASSUME NEW t \in Traders, NEW h \in TradeHashes
        PROVE  RecordOK(settlements[t][h])'
    <2>1. RecordOK(settlements[t][h]) /\ RecordStep(settlements[t][h], settlements'[t][h])
      BY <1>1 DEF IInv, RecordsOK, EveryRecordSteps
    <2>2. QED
      BY <1>1, <2>1, RecordStepKeepsOK, ZenonT(60) DEF RecordOK, Recorded
  <1>3. settlements' \in [Traders -> [TradeHashes -> Settlement]]
    <2>1. \A t \in Traders, h \in TradeHashes : settlements'[t][h] \in Settlement
      BY <1>2, SMTT(30) DEF RecordOK
    <2>2. QED
      BY <2>1, RecordShape, IInvParts, Zenon DEF TypeOK, Total
  <1>4. QED
    BY <1>1, <1>2, <1>3 DEF RecordsOK

\* The books without their tie to the records.
Covered ==
    /\ escrows \subseteq Traders
    /\ balances \in [Traders -> [Tokens -> Nat]]
    /\ lockedBalances \in [Traders -> [Tokens -> Nat]]
    /\ holdings \in [Traders -> [Tokens -> Nat]]
    /\ EscrowSolvent

\* Every transaction keeps the escrows' books typed and covered.
LEMMA StepKeepsCovered == IInv /\ [Next]_vars => Covered'
  <1> SUFFICES ASSUME IInv, [Next]_vars
               PROVE  Covered'
    OBVIOUS
  <1> USE DEF Covered, EscrowSolvent
  <1>0. Covered /\ RecordsOK
    BY DEF IInv, BooksOK
  <1>1. CASE UNCHANGED <<balances, lockedBalances, holdings>> /\ escrows' \subseteq Traders
    BY <1>0, <1>1, Zenon
  <1>2. ASSUME NEW swap \in Swaps, SettleBatch(swap)
        PROVE  Covered'
    <2>1. swap.amountA \in Nat /\ swap.amountB \in Nat
      BY SwapAmountsAssumption, ZenonT(60) DEF Swaps
    <2>2. \A t \in Traders, k \in Tokens : SwapLeg(swap, t, k) \in Nat
      BY <2>1 DEF SwapLeg
    <2>3. QED
      BY <1>0, <1>2, <2>2 DEF SettleBatch
  <1>3. ASSUME NEW batch \in Batches(TradeEntries), CommitTradeBatch(batch)
        PROVE  Covered'
    <2>1. \A t \in Traders, k \in Tokens : LockedSum(batch, t, k) \in Nat
      BY BatchSums, Zenon
    <2>2. QED
      BY <1>0, <1>3, <2>1 DEF CommitTradeBatch
  <1>4. ASSUME NEW batch \in Batches(TradeEntries), NEW o \in Operators, NEW r \in BOOLEAN,
               SettleBatchWithFees(batch, o, r)
        PROVE  Covered'
    <2>1. \A t \in Traders, k \in Tokens :
             AmountSum(batch, t, k) \in Nat /\ FeeSum(batch, t, k) \in Nat
      BY BatchSums, Zenon
    <2>2. QED
      BY <1>0, <1>4, <2>1, SMTT(30) DEF SettleBatchWithFees
  <1>5. ASSUME NEW t \in Traders, NEW k \in Tokens, NEW a \in Deposits, Deposit(t, k, a)
        PROVE  Covered'
    BY <1>0, <1>5, DepositsAssumption DEF Deposit
  <1>6. ASSUME NEW t \in Traders, NEW k \in Tokens, NEW a \in Deposits, Withdraw(t, k, a)
        PROVE  Covered'
    BY <1>0, <1>6, DepositsAssumption, SMTT(30) DEF Withdraw
  <1>7. ASSUME NEW t \in Traders, NEW h \in TradeHashes, RefundAfterDeadline(t, h)
        PROVE  Covered'
    <2> DEFINE s == settlements[t][h]
    <2>1. s.token \in Tokens /\ s.lockedAmount \in Nat
      BY <1>0, <1>7, Zenon DEF RecordsOK, RecordOK, RefundAfterDeadline, Settlement
    <2>2. QED
      BY <1>0, <1>7, <2>1, SMTT(60) DEF RefundAfterDeadline
  <1>8. QED
    BY <1>0, <1>1, <1>2, <1>3, <1>4, <1>5, <1>6, <1>7, ZenonT(60)
    DEF Next, vars, escrowVars, FactoryCall, EscrowCall, Tick, CreateEscrow, ClaimSlash

\* Every transaction keeps lockedBalances equal to what the open trades locked.
LEMMA StepKeepsLocked == IInv /\ [Next]_vars => LockedIsOpenTrades'
  <1> SUFFICES ASSUME IInv, [Next]_vars, NEW t \in Traders, NEW k \in Tokens
               PROVE  lockedBalances'[t][k] =
                        SumFunctionOnSet([h \in TradeHashes |-> settlements'[t][h].lockedAmount],
                                         OpenTrades(t, k)')
    BY Zenon DEF LockedIsOpenTrades
  <1> DEFINE f == [h \in TradeHashes |-> settlements[t][h].lockedAmount]
             g == [h \in TradeHashes |-> settlements'[t][h].lockedAmount]
             A == OpenTrades(t, k)
             B == OpenTrades(t, k)'
  <1> SUFFICES lockedBalances'[t][k] = SumFunctionOnSet(g, B)
    OBVIOUS
  <1>0. /\ lockedBalances[t][k] = SumFunctionOnSet(f, A)
        /\ lockedBalances[t][k] \in Nat
        /\ settlements \in [Traders -> [TradeHashes -> Settlement]]
        /\ RecordsOK
    BY DEF IInv, BooksOK, LockedIsOpenTrades, RecordsOK
  <1>1. A \in SUBSET TradeHashes /\ B \in SUBSET TradeHashes
    BY DEF OpenTrades
  <1>2. IsFiniteSet(A) /\ IsFiniteSet(B)
    BY ONLY <1>1, TradeHashesAssumption, FS_Subset, Zenon
  <1>3. \A h \in TradeHashes : f[h] \in Int /\ g[h] \in Int
    <2>1. RecordsOK'
      BY StepKeepsRecords, Zenon
    <2>2. QED
      BY <1>0, <2>1 DEF RecordsOK, Settlement
  <1>4. ASSUME lockedBalances'[t][k] = lockedBalances[t][k],
               B = A, \A h \in A : g[h] = f[h]
        PROVE  lockedBalances'[t][k] = SumFunctionOnSet(g, B)
    <2> HIDE DEF f, g, A, B
    <2>1. SumFunctionOnSet(g, A) = SumFunctionOnSet(f, A)
      BY ONLY <1>2, <1>4, SumSame, Zenon
    <2>2. QED
      BY <1>0, <1>4, <2>1, Zenon
  <1>5. CASE UNCHANGED <<lockedBalances, settlements>>
    BY <1>4, <1>5, Zenon DEF OpenTrades, Open, Recorded
  <1>6. ASSUME NEW batch \in Batches(TradeEntries), CommitTradeBatch(batch)
        PROVE  lockedBalances'[t][k] = SumFunctionOnSet(g, B)
    <2> DEFINE N == Named(batch, t, k)
    <2>1. lockedBalances'[t][k] = lockedBalances[t][k] + LockedSum(batch, t, k)
      BY <1>6, Zenon DEF CommitTradeBatch
    <2>2. ASSUME NEW i \in DOMAIN batch, batch[i].trader = t
          PROVE  /\ batch[i].tradeHash \in TradeHashes
                 /\ settlements[t][batch[i].tradeHash].deadline = 0
                 /\ settlements'[t][batch[i].tradeHash].lockedAmount = batch[i].amount + batch[i].fee
                 /\ settlements'[t][batch[i].tradeHash].token = batch[i].token
                 /\ Open(settlements'[t][batch[i].tradeHash])
      <3> DEFINE h == batch[i].tradeHash
                 pos == CHOOSE j \in DOMAIN batch : batch[j].trader = t /\ batch[j].tradeHash = h
      <3>1. batch[i] \in TradeEntries /\ h \in TradeHashes
        BY BatchEntries, TradeEntriesAssumption
      <3>2. pos \in DOMAIN batch /\ batch[pos].trader = t /\ batch[pos].tradeHash = h
        BY <2>2, Zenon
      <3>3. pos = i
        BY <1>6, <2>2, <3>2, SMTT(30) DEF CommitTradeBatch, NoRepeats
      <3>4. settlements'[t][h] = NewSettlement(settlements[t][h], batch[pos])
        BY <1>6, <2>2, <3>1, ZenonT(60) DEF CommitTradeBatch, UpdateRecords
      <3>5. CanCommit(batch[i])
        BY <1>6, Zenon DEF CommitTradeBatch
      <3> HIDE DEF pos
      <3>6. settlements'[t][h] = NewSettlement(settlements[t][h], batch[i])
        BY <3>3, <3>4, Zenon
      <3>7. batch[i].deadline \in Nat /\ now \in Nat \ {0}
        BY <1>0, <3>1, TradeEntriesAssumption, ZenonT(60) DEF RecordsOK
      <3>8. Open(settlements'[t][h])
        BY <3>5, <3>6, <3>7, SMTT(30) DEF Open, Recorded, NewSettlement, CanCommit
      <3>9. QED
        BY <2>2, <3>1, <3>5, <3>6, <3>8, SMTT(30) DEF NewSettlement, CanCommit, RecordOf
    <2>3. ASSUME NEW h \in TradeHashes,
                 ~ \E i \in DOMAIN batch : batch[i].trader = t /\ batch[i].tradeHash = h
          PROVE  settlements'[t][h] = settlements[t][h]
      BY <1>6, <2>3, Zenon DEF CommitTradeBatch, UpdateRecords
    <2>4. B \ N = A /\ N \subseteq B
      <3>1. N \subseteq B
        BY <2>2 DEF Named, Group, OpenTrades
      <3>2. ASSUME NEW h \in TradeHashes
            PROVE  h \in B \ N <=> h \in A
        <4>1. CASE \E i \in DOMAIN batch : batch[i].trader = t /\ batch[i].tradeHash = h
          <5>1. PICK i \in DOMAIN batch : batch[i].trader = t /\ batch[i].tradeHash = h
            BY <4>1, Zenon
          <5>2. h \notin A
            BY <2>2, <5>1, SMTT(30) DEF OpenTrades, Open, Recorded
          <5>3. h \in B => batch[i].token = k
            BY <2>2, <5>1, Zenon DEF OpenTrades
          <5>4. h \in B => h \in N
            BY <5>1, <5>3, Zenon DEF Named, Group
          <5>5. QED
            BY <5>2, <5>4
        <4>2. CASE ~ \E i \in DOMAIN batch : batch[i].trader = t /\ batch[i].tradeHash = h
          <5>1. h \notin N
            BY <4>2, Zenon DEF Named, Group
          <5>2. settlements'[t][h] = settlements[t][h]
            BY <2>3, <4>2, Zenon
          <5>3. QED
            BY <5>1, <5>2, Zenon DEF OpenTrades, Open, Recorded
        <4>3. QED
          BY <4>1, <4>2
      <3>3. QED
        BY <1>1, <3>1, <3>2, ZenonT(60)
    <2>5. \A h \in A : g[h] = f[h]
      <3>1. ASSUME NEW h \in A
            PROVE  ~ \E i \in DOMAIN batch : batch[i].trader = t /\ batch[i].tradeHash = h
        BY <2>2 DEF OpenTrades, Open, Recorded
      <3>2. QED
        BY <1>1, <2>3, <3>1, ZenonT(60)
    <2>6. \A i \in Group(batch, t, k) : g[batch[i].tradeHash] = batch[i].amount + batch[i].fee
      BY <2>2, Zenon DEF Group
    <2>7. NoRepeats(batch)
      BY <1>6, Zenon DEF CommitTradeBatch
    <2> HIDE DEF f, g, A, B
    <2>8. SumFunctionOnSet(g, B) = LockedSum(batch, t, k) + SumFunctionOnSet(g, B \ N)
      <3>1. \A h \in B : g[h] \in Int
        BY <1>1, <1>3, Zenon
      <3>2. QED
        BY ONLY batch \in Batches(TradeEntries), <1>1, <2>4, <2>6, <2>7, <3>1, GroupSum, SMTT(30)
    <2>9. SumFunctionOnSet(g, A) = SumFunctionOnSet(f, A)
      BY ONLY <1>2, <2>5, SumSame, Zenon
    <2>10. LockedSum(batch, t, k) \in Nat
      BY BatchSums
    <2>11. SumFunctionOnSet(g, B \ N) = SumFunctionOnSet(f, A)
      BY <2>4, <2>9, Zenon
    <2>12. QED
      <3>1. /\ SumFunctionOnSet(g, B) = LockedSum(batch, t, k) + lockedBalances[t][k]
            /\ lockedBalances[t][k] \in Nat
        BY ONLY <1>0, <2>8, <2>11, ZenonT(60)
      <3>2. QED
        BY ONLY <2>1, <2>10, <3>1
  <1>7. ASSUME NEW batch \in Batches(TradeEntries), NEW o \in Operators, NEW r \in BOOLEAN,
               SettleBatchWithFees(batch, o, r)
        PROVE  lockedBalances'[t][k] = SumFunctionOnSet(g, B)
    <2> DEFINE N == Named(batch, t, k)
    <2>1. lockedBalances'[t][k] = lockedBalances[t][k] - LockedSum(batch, t, k)
      BY <1>7, Zenon DEF SettleBatchWithFees, LockedSum
    <2>2. ASSUME NEW i \in DOMAIN batch, batch[i].trader = t
          PROVE  /\ batch[i].tradeHash \in TradeHashes
                 /\ settlements[t][batch[i].tradeHash].lockedAmount = batch[i].amount + batch[i].fee
                 /\ settlements[t][batch[i].tradeHash].token = batch[i].token
                 /\ Open(settlements[t][batch[i].tradeHash])
                 /\ ~Open(settlements'[t][batch[i].tradeHash])
      <3> DEFINE h == batch[i].tradeHash
      <3>1. batch[i] \in TradeEntries /\ h \in TradeHashes
        BY BatchEntries, TradeEntriesAssumption, SMTT(30)
      <3>2. CanSettle(batch[i], o)
        BY <1>7, ZenonT(60) DEF SettleBatchWithFees
      <3>3. settlements'[t][h] = MarkSettled(settlements[t][h])
        BY <1>7, <2>2, <3>1, Zenon DEF SettleBatchWithFees, UpdateRecords, SettledRecord
      <3>4. settlements[t][h] \in Settlement /\ RecordOK(settlements[t][h])
        BY <1>0, <3>1, ZenonT(60) DEF RecordsOK
      <3>5. MarkSettled(settlements[t][h]).settled = TRUE
        BY <3>4, SMTT(30) DEF MarkSettled, Settlement
      <3>6. ~settlements[t][h].refunded
        BY <2>2, <3>2, <3>4, ZenonT(60) DEF CanSettle, RecordOf, RecordOK, DeadlinePassed
      <3>7. QED
        BY <2>2, <3>1, <3>2, <3>3, <3>5, <3>6, ZenonT(60) DEF CanSettle, RecordOf, Open
    <2>3. ASSUME NEW h \in TradeHashes,
                 ~ \E i \in DOMAIN batch : batch[i].trader = t /\ batch[i].tradeHash = h
          PROVE  settlements'[t][h] = settlements[t][h]
      BY <1>7, <2>3, ZenonT(60) DEF SettleBatchWithFees, UpdateRecords
    <2>4. A \ N = B /\ N \subseteq A
      <3>1. N \subseteq A
        BY <2>2, ZenonT(60) DEF Named, Group, OpenTrades
      <3>2. ASSUME NEW h \in TradeHashes
            PROVE  h \in A \ N <=> h \in B
        <4>1. CASE \E i \in DOMAIN batch : batch[i].trader = t /\ batch[i].tradeHash = h
          <5>1. PICK i \in DOMAIN batch : batch[i].trader = t /\ batch[i].tradeHash = h
            BY <4>1, Zenon
          <5>2. h \notin B
            BY <2>2, <5>1, Zenon DEF OpenTrades, Open, Recorded
          <5>3. h \in A => batch[i].token = k
            BY <2>2, <5>1, Zenon DEF OpenTrades
          <5>4. h \in A => h \in N
            BY <5>1, <5>3, Zenon DEF Named, Group
          <5>5. QED
            BY <5>2, <5>4, Zenon
        <4>2. CASE ~ \E i \in DOMAIN batch : batch[i].trader = t /\ batch[i].tradeHash = h
          <5>1. h \notin N
            BY <4>2, Zenon DEF Named, Group
          <5>2. settlements'[t][h] = settlements[t][h]
            BY <2>3, <4>2, Zenon
          <5>3. QED
            BY <5>1, <5>2, Zenon DEF OpenTrades, Open, Recorded
        <4>3. QED
          BY <4>1, <4>2, Zenon
      <3>3. QED
        BY <1>1, <3>1, <3>2, Zenon
    <2>5. \A h \in B : f[h] = g[h]
      <3>1. ASSUME NEW h \in B
            PROVE  ~ \E i \in DOMAIN batch : batch[i].trader = t /\ batch[i].tradeHash = h
        BY <2>2, Zenon DEF OpenTrades, Open, Recorded
      <3>2. QED
        BY <1>1, <2>3, <3>1, ZenonT(60)
    <2>6. \A i \in Group(batch, t, k) : f[batch[i].tradeHash] = batch[i].amount + batch[i].fee
      BY <2>2, Zenon DEF Group
    <2>7. NoRepeats(batch)
      BY <1>7, Zenon DEF SettleBatchWithFees
    <2> HIDE DEF f, g, A, B
    <2>8. SumFunctionOnSet(f, A) = LockedSum(batch, t, k) + SumFunctionOnSet(f, A \ N)
      <3>1. \A h \in A : f[h] \in Int
        BY <1>1, <1>3, Zenon
      <3>2. QED
        BY ONLY batch \in Batches(TradeEntries), <1>1, <2>4, <2>6, <2>7, <3>1, GroupSum
    <2>9. SumFunctionOnSet(f, B) = SumFunctionOnSet(g, B)
      BY ONLY <1>2, <2>5, SumSame, ZenonT(60)
    <2>10. LockedSum(batch, t, k) \in Nat /\ SumFunctionOnSet(g, B) \in Int
      <3>1. \A h \in B : g[h] \in Int
        BY <1>1, <1>3, Zenon
      <3>2. SumFunctionOnSet(g, B) \in Int
        BY ONLY <1>2, <3>1, SumInt, ZenonT(60)
      <3>3. QED
        BY <3>2, BatchSums, Zenon
    <2>11. SumFunctionOnSet(f, A \ N) = SumFunctionOnSet(g, B)
      BY <2>4, <2>9, Zenon
    <2>12. QED
      BY ONLY <1>0, <2>1, <2>8, <2>10, <2>11, SMTT(30)
  <1>8. ASSUME NEW hashes \in Batches(TradeHashes), NEW c \in Traders, ClaimSlash(hashes, c)
        PROVE  lockedBalances'[t][k] = SumFunctionOnSet(g, B)
    <2>1. \A h \in TradeHashes :
             settlements'[t][h] \in {settlements[t][h], MarkSlashed(settlements[t][h])}
      BY <1>0, <1>8, ZenonT(60) DEF ClaimSlash
    <2>2. ASSUME NEW h \in TradeHashes
          PROVE  LET s == settlements[t][h]
                     u == settlements'[t][h]
                 IN <<u.deadline, u.settled, u.refunded, u.token, u.lockedAmount>> =
                    <<s.deadline, s.settled, s.refunded, s.token, s.lockedAmount>>
      <3>1. settlements[t][h] \in Settlement
        BY <1>0, ZenonT(60)
      <3>2. QED
        BY ONLY <2>1, <3>1, h \in TradeHashes, SMTT(30) DEF MarkSlashed, Settlement
    <2>3. B = A
      BY <2>2, ZenonT(60) DEF OpenTrades, Open, Recorded
    <2>4. \A h \in A : g[h] = f[h]
      BY <1>1, <2>2, Zenon
    <2>5. lockedBalances'[t][k] = lockedBalances[t][k]
      BY <1>8, Zenon DEF ClaimSlash
    <2>6. QED
      BY <1>4, <2>3, <2>4, <2>5, SMTT(30)
  <1>9. ASSUME NEW c \in Traders, NEW x \in TradeHashes, RefundAfterDeadline(c, x)
        PROVE  lockedBalances'[t][k] = SumFunctionOnSet(g, B)
    <2> DEFINE s == settlements[c][x]
    <2>1. s \in Settlement /\ s.token \in Tokens /\ Open(s) /\ RecordOK(s)
      BY <1>0, <1>9, Zenon DEF RecordsOK, RecordOK, RefundAfterDeadline, Open
    <2>2. /\ settlements' = [settlements EXCEPT ![c][x] = MarkRefunded(s)]
          /\ lockedBalances' = [lockedBalances EXCEPT ![c][s.token] = @ - s.lockedAmount]
          /\ lockedBalances \in [Traders -> [Tokens -> Nat]]
      BY <1>9, Zenon DEF RefundAfterDeadline, IInv, BooksOK
    <2>3. \A h \in TradeHashes : ~(t = c /\ h = x) => settlements'[t][h] = settlements[t][h]
      BY <1>0, <2>2, Zenon
    <2>4. CASE t = c /\ k = s.token
      <3>1. ~Open(settlements'[t][x])
        BY <1>0, <2>1, <2>2, <2>4, ZenonT(60) DEF MarkRefunded, Settlement, Open
      <3>2. x \in A /\ B = A \ {x}
        BY <2>1, <2>3, <2>4, <3>1, ZenonT(60) DEF OpenTrades, Open, Recorded
      <3>3. \A h \in B : f[h] = g[h]
        BY <1>1, <2>3, <3>2, Zenon
      <3>4. f[x] = s.lockedAmount /\ s.lockedAmount \in Int
        BY <2>1, <2>4 DEF Settlement
      <3>5. lockedBalances'[t][k] = lockedBalances[t][k] - s.lockedAmount
        BY <2>1, <2>2, <2>4, Zenon
      <3> HIDE DEF f, g, A, B, s
      <3>6. SumFunctionOnSet(f, A) = f[x] + SumFunctionOnSet(f, A \ {x})
        <4>1. \A h \in A : f[h] \in Int
          BY <1>1, <1>3, Zenon
        <4>2. QED
          BY ONLY <1>2, <3>2, <4>1, SumTake, ZenonT(60)
      <3>7. SumFunctionOnSet(f, B) = SumFunctionOnSet(g, B)
        BY ONLY <1>2, <3>3, SumSame, ZenonT(60)
      <3>8. SumFunctionOnSet(g, B) \in Int
        <4>1. \A h \in B : g[h] \in Int
          BY <1>1, <1>3, Zenon
        <4>2. QED
          BY ONLY <1>2, <4>1, SumInt, Zenon
      <3>9. SumFunctionOnSet(f, A \ {x}) = SumFunctionOnSet(g, B)
        BY <3>2, <3>7, Zenon
      <3>10. QED
        BY ONLY <1>0, <3>4, <3>5, <3>6, <3>8, <3>9
    <2>5. CASE ~(t = c /\ k = s.token)
      <3>1. lockedBalances'[t][k] = lockedBalances[t][k]
        BY <2>1, <2>2, <2>5, Zenon
      <3>2. t = c => x \notin A /\ x \notin B
        <4>1. t = c => settlements'[t][x].token = s.token /\ settlements[t][x].token = s.token
          BY <1>0, <2>1, <2>2, ZenonT(60) DEF MarkRefunded, Settlement
        <4>2. QED
          BY <2>5, <4>1, Zenon DEF OpenTrades
      <3>3. B = A
        BY <2>3, <3>2, Zenon DEF OpenTrades, Open, Recorded
      <3>4. \A h \in A : g[h] = f[h]
        BY <1>1, <2>3, <3>2, ZenonT(60)
      <3>5. QED
        BY <1>4, <3>1, <3>3, <3>4, ZenonT(60)
    <2>6. QED
      BY <2>4, <2>5, Zenon
  <1> HIDE DEF f, g, A, B
  <1>10. QED
    BY <1>5, <1>6, <1>7, <1>8, <1>9, ZenonT(60)
    DEF Next, vars, escrowVars, FactoryCall, EscrowCall, Tick, CreateEscrow, SettleBatch,
        Deposit, Withdraw

\* Every transaction keeps the registry's invariant.
LEMMA StepKeepsRegistry == IInv /\ [Next]_vars => RegistryInv'
  <1> SUFFICES ASSUME IInv, [Next]_vars
               PROVE  RegistryInv'
    OBVIOUS
  <1>0. RegistryInv
    BY DEF IInv
  <1>1. CASE UNCHANGED registryVars
    BY <1>0, <1>1, RegistryStepKeepsInv, Zenon
  <1>2. CASE RegistryCall
    BY <1>0, <1>2, RegistryCallKeepsInv, Zenon
  <1>3. ASSUME NEW hashes \in Batches(TradeHashes), NEW c \in Traders, ClaimSlash(hashes, c)
        PROVE  RegistryInv'
    <2> DEFINE amount == [n \in Nodes |-> SlashAmount(n)]
    <2>1. PICK hit \in SUBSET Nodes :
             /\ \A n \in hit : CanSlash(nodes[n], SlashAmount(n))
             /\ nodes' = [n \in Nodes |-> IF n \in hit THEN Slashed(nodes[n], SlashAmount(n))
                                                        ELSE nodes[n]]
             /\ SumFunctionOnSet(amount, hit) <= registryBalance
             /\ registryBalance' = registryBalance - SumFunctionOnSet(amount, hit)
      BY <1>3, ZenonT(60) DEF ClaimSlash
    <2>2. \A n \in Nodes : NodeOK(nodes[n]) /\ SlashAmount(n) \in Nat /\ nodes[n].stake \in Nat
      BY <1>0, RegistryInvByNode, SMTT(30) DEF NodeOK, NodeInfo, SlashAmount
    <2>3. ASSUME NEW n \in Nodes
          PROVE  /\ NodeOK(nodes'[n])
                 /\ nodes'[n].stake \in Nat
                 /\ n \in hit => nodes'[n].stake + amount[n] <= nodes[n].stake
                 /\ n \notin hit => nodes'[n].stake = nodes[n].stake
      <3>1. n \in hit => /\ NodeOK(Slashed(nodes[n], SlashAmount(n)))
                         /\ Slashed(nodes[n], SlashAmount(n)).stake <= nodes[n].stake - SlashAmount(n)
        BY <2>1, <2>2, SlashedOK, ZenonT(60)
      <3>2. NodeOK(nodes'[n])
        BY <2>1, <2>2, <3>1, Zenon
      <3>3. nodes'[n].stake \in Nat
        BY <3>2 DEF NodeOK, NodeInfo
      <3> HIDE DEF Slashed, SlashAmount
      <3>4. amount[n] = SlashAmount(n)
        BY Zenon
      <3>5. QED
        BY <2>1, <2>2, <3>1, <3>2, <3>3, <3>4, SMTT(30)
    <2>4. nodes' \in [Nodes -> NodeInfo]
      BY <2>1, <2>3, SMTT(30) DEF NodeOK
    <2>5. nodeList' \in Seq(Nodes)
      BY <1>0, <1>3, ZenonT(60) DEF ClaimSlash, RegistryInv, RegistryTypeOK
    <2>6. registryBalance' \in Nat /\ RegistrySolvent'
      <3> DEFINE old == [n \in Nodes |-> nodes[n].stake]
                 new == [n \in Nodes |-> nodes'[n].stake]
                 lost == [n \in Nodes |-> IF n \in hit THEN amount[n] ELSE 0]
                 sum == [n \in Nodes |-> new[n] + lost[n]]
      <3>1. \A n \in Nodes : /\ new[n] \in Nat /\ lost[n] \in Nat
                              /\ sum[n] \in Int /\ old[n] \in Int
                              /\ sum[n] = new[n] + lost[n] /\ sum[n] <= old[n]
        BY <2>2, <2>3
      <3>2. \A n \in Nodes \ hit : lost[n] = 0
        OBVIOUS
      <3>3. \A n \in hit : lost[n] = amount[n]
        OBVIOUS
      <3>4. RegistrySolvent <=> registryBalance >= SumFunctionOnSet(old, Nodes)
        BY DEF RegistrySolvent
      <3>5. RegistrySolvent' <=> registryBalance' >= SumFunctionOnSet(new, Nodes)
        BY Zenon DEF RegistrySolvent
      <3>6. IsFiniteSet(Nodes) /\ IsFiniteSet(hit) /\ IsFiniteSet(Nodes \ hit)
        BY <2>1, NodesAssumption, FS_Subset, ZenonT(60)
      <3>7. \A n \in Nodes : new[n] \in Int /\ lost[n] \in Int
        BY <3>1, SMTT(30)
      <3> HIDE DEF old, new, lost, sum, amount
      <3>8. SumFunctionOnSet(sum, Nodes) = SumFunctionOnSet(new, Nodes) + SumFunctionOnSet(lost, Nodes)
        BY ONLY <3>1, <3>6, <3>7, SumAdd, ZenonT(60)
      <3>9. SumFunctionOnSet(sum, Nodes) <= SumFunctionOnSet(old, Nodes)
        BY ONLY <3>1, <3>6, SumMonotone, ZenonT(60)
      <3>10. SumFunctionOnSet(lost, Nodes) =
                SumFunctionOnSet(lost, hit) + SumFunctionOnSet(lost, Nodes \ hit)
        BY ONLY hit \in SUBSET Nodes, <3>6, <3>7, SumSplit, ZenonT(60)
      <3>11. SumFunctionOnSet(lost, Nodes \ hit) = 0
        BY ONLY <3>2, <3>6, SumZero, ZenonT(60)
      <3>12. SumFunctionOnSet(lost, hit) = SumFunctionOnSet(amount, hit)
        BY ONLY <3>3, <3>6, SumSame, ZenonT(60)
      <3>13. SumFunctionOnSet(new, Nodes) \in Int /\ SumFunctionOnSet(old, Nodes) \in Int
        BY ONLY <3>1, <3>6, <3>7, SumInt, ZenonT(60)
      <3>14. SumFunctionOnSet(lost, hit) \in Nat
        <4>1. \A n \in hit : lost[n] \in Nat
          BY <3>1
        <4>2. QED
          BY ONLY <3>6, <4>1, SumNat, ZenonT(60)
      <3>15. registryBalance \in Nat /\ RegistrySolvent
        BY <1>0 DEF RegistryInv, RegistryTypeOK
      <3>16. QED
        BY ONLY <2>1, <3>4, <3>5, <3>8, <3>9, <3>10, <3>11, <3>12, <3>13, <3>14, <3>15, SMTT(30)
    <2>7. QED
      BY <2>3, <2>4, <2>5, <2>6, ZenonT(60)
      DEF RegistryInv, RegistryTypeOK, ActiveNodeStaked, MissedDeadlinesActedOn,
          OnlyRegisteredOperated, NodeOK
  <1>4. QED
    BY <1>1, <1>2, <1>3, ZenonT(60)
    DEF Next, vars, registryVars, FactoryCall, CreateEscrow, SettleBatch, CommitTradeBatch,
        SettleBatchWithFees

\* The contracts as deployed satisfy IInv.
LEMMA InitIInv == Init => IInv
  <1> SUFFICES ASSUME Init
               PROVE  IInv
    OBVIOUS
  <1>1. RegistryInv
    BY RegistryInitInv DEF Init
  <1>2. BooksOK
    <2>1. LockedIsOpenTrades
      <3>1. ASSUME NEW t \in Traders, NEW k \in Tokens
            PROVE  OpenTrades(t, k) = {}
        BY DEF OpenTrades, Open, Recorded, NoSettlement, Init, EscrowInit
      <3>2. \A t \in Traders, k \in Tokens : lockedBalances[t][k] = 0
        BY Zenon DEF Init, EscrowInit
      <3>3. QED
        BY <3>1, <3>2, SumEmpty, ZenonT(60) DEF LockedIsOpenTrades
    <2>2. QED
      BY <2>1 DEF Init, EscrowInit, BooksOK, EscrowSolvent
  <1>3. RecordOK(NoSettlement)
    BY SMTT(30) DEF RecordOK, NoSettlement, Settlement, Recorded
  <1>4. RecordsOK
    BY <1>3 DEF Init, EscrowInit, RecordsOK, RecordOK
  <1>5. QED
    BY <1>1, <1>2, <1>4 DEF IInv

-----------------------------------------------------------------------------
\* The inductive invariant of the contracts.
THEOREM Invariant == Spec => []IInv
  <1>1. IInv /\ [Next]_vars => IInv'
    BY StepKeepsRecords, StepKeepsCovered, StepKeepsLocked, StepKeepsRegistry, ZenonT(60)
    DEF IInv, BooksOK, Covered
  <1>2. QED
    BY <1>1, InitIInv, PTL DEF Spec

\* The contracts' state is always well typed: balances, locked balances,
\* stakes and holdings stay naturals under every call of every function.
THEOREM TypeCorrect == Spec => []TypeOK
  BY Invariant, IInvParts, PTL

\* A trade that was paid out is never refunded nor slashed, in either order,
\* though _settleGroup does not read `refunded`.
THEOREM SettledIsExclusive == Spec => []SettledExclusive
  BY Invariant, IInvParts, PTL

\* refundAfterDeadline and claimSlash end a trade only after its deadline.
THEOREM NoEarlyEnd == Spec => []EarlyEndExcluded
  BY Invariant, IInvParts, PTL

\* An escrow always owns what its books promise.
THEOREM EscrowsSolvent == Spec => []EscrowSolvent
  BY Invariant, IInvParts, PTL

\* lockedBalances is at all times the sum of what the open trades locked, for
\* any number of trades and any batches: every open trade can be settled or
\* refunded as far as the books go, and no locked token is orphaned.
THEOREM LockedMatchesOpenTrades == Spec => []LockedIsOpenTrades
  BY Invariant, IInvParts, PTL

\* Whatever the factory asks of the registry, a node that commitTrade accepts is
\* staked, three missed deadlines are acted on, and the pooled ether covers the
\* stakes of all nodes: a claimSlash of several trades never spends the stake
\* of another node.
THEOREM RegistryStaysSound == Spec => []RegistrySound
  BY Invariant, IInvParts, PTL

\* No call changes the terms of a recorded trade or takes a flag back.
THEOREM RecordsStayFinal == Spec => RecordsAreFinal
  <1>1. IInv /\ [Next]_vars => RecordFinal
    <2> SUFFICES ASSUME IInv, [Next]_vars, NEW t \in Traders, NEW h \in TradeHashes,
                        Recorded(settlements[t][h])
                 PROVE  LET s == settlements[t][h]
                            u == settlements'[t][h]
                        IN /\ <<u.deadline, u.token, u.assignedNode, u.lockedAmount, u.counterparty>> =
                              <<s.deadline, s.token, s.assignedNode, s.lockedAmount, s.counterparty>>
                           /\ s.settled => u.settled
                           /\ s.refunded => u.refunded
                           /\ s.slashed => u.slashed
      BY ZenonT(60) DEF RecordFinal
    <2> DEFINE s == settlements[t][h]
               u == settlements'[t][h]
    <2>1. RecordStep(s, u) /\ s \in Settlement /\ Recorded(s)
      BY RecordSteps, IInvParts, ZenonT(60) DEF TypeOK, EscrowTypeOK, EveryRecordSteps
    <2> HIDE DEF s, u
    <2>2. u = s \/ u = MarkSettled(s) \/ u = MarkRefunded(s) \/ u = MarkSlashed(s)
      BY ONLY <2>1 DEF RecordStep, Recorded, Settlement
    <2>3. /\ <<u.deadline, u.token, u.assignedNode, u.lockedAmount, u.counterparty>> =
             <<s.deadline, s.token, s.assignedNode, s.lockedAmount, s.counterparty>>
          /\ s.settled => u.settled
          /\ s.refunded => u.refunded
          /\ s.slashed => u.slashed
      BY ONLY <2>1, <2>2, Zenon DEF MarkSettled, MarkRefunded, MarkSlashed, Settlement
    <2>4. QED
      BY <2>3, Zenon DEF s, u
  <1>2. QED
    BY <1>1, Invariant, PTL DEF Spec, RecordsAreFinal

-----------------------------------------------------------------------------
(* The contracts implement EscrowPromise. *)

Pairs == Traders \X TradeHashes
Funds == [d \in Pairs |-> Place(settlements[d[1]][d[2]])]
Due == [d \in Pairs |-> settlements[d[1]][d[2]].deadline]

\* A record that has not been written has no funds; one step places the funds
\* of one trade as its record says.
LEMMA Placing ==
    ASSUME now \in Nat \ {0}, NEW s, RecordOK(s)
    PROVE  /\ s.deadline = 0 => Place(s) = "none"
           /\ Open(s) => Place(s) = "locked"
           /\ Open(s) => Place(MarkSettled(s)) = "paid"
           /\ Open(s) => Place(MarkRefunded(s)) = "returned"
           /\ Place(MarkSlashed(s)) = Place(s)
           /\ MarkSettled(s).deadline = s.deadline
           /\ MarkRefunded(s).deadline = s.deadline
           /\ MarkSlashed(s).deadline = s.deadline
           /\ \A e \in TradeEntries : now <= e.deadline =>
                 /\ Place(NewSettlement(s, e)) = "locked"
                 /\ NewSettlement(s, e).deadline = e.deadline
  <1>1. s \in Settlement /\ s.deadline \in Nat
    BY DEF RecordOK, Settlement
  <1>2. /\ MarkSettled(s).settled = TRUE /\ MarkSettled(s).refunded = s.refunded
        /\ MarkSettled(s).deadline = s.deadline
        /\ MarkRefunded(s).refunded = TRUE /\ MarkRefunded(s).settled = s.settled
        /\ MarkRefunded(s).deadline = s.deadline
        /\ MarkSlashed(s).settled = s.settled /\ MarkSlashed(s).refunded = s.refunded
        /\ MarkSlashed(s).deadline = s.deadline
    BY <1>1 DEF MarkSettled, MarkRefunded, MarkSlashed, Settlement
  <1>3. s.deadline = 0 => Place(s) = "none"
    BY <1>1 DEF RecordOK, Recorded, Place
  <1>4. Open(s) => /\ Place(s) = "locked"
                   /\ Place(MarkSettled(s)) = "paid"
                   /\ Place(MarkRefunded(s)) = "returned"
    BY <1>2 DEF Open, Place, Recorded
  <1>5. Place(MarkSlashed(s)) = Place(s)
    BY <1>2 DEF Place, Recorded
  <1>6. ASSUME NEW e \in TradeEntries, now <= e.deadline
        PROVE  /\ Place(NewSettlement(s, e)) = "locked"
               /\ NewSettlement(s, e).deadline = e.deadline
    <2>1. e.deadline \in Nat
      BY TradeEntriesAssumption, Zenon
    <2>2. QED
      BY <1>6, <2>1 DEF NewSettlement, Place, Recorded
  <1>7. QED
    BY <1>2, <1>3, <1>4, <1>5, <1>6, ZenonT(60)

\* Every step of the contracts is a step of EscrowPromise, or moves no funds.
LEMMA StepKeepsPromise ==
    IInv /\ [Next]_vars => [Promise!PromiseNext]_<<now, Funds, Due>>
  <1> SUFFICES ASSUME IInv, [Next]_vars
               PROVE  Promise!PromiseNext \/ UNCHANGED <<now, Funds, Due>>
    BY Zenon
  <1> DEFINE rec(d) == settlements[d[1]][d[2]]
             new(d) == settlements'[d[1]][d[2]]
  <1>0. /\ now \in Nat \ {0}
        /\ \A d \in Pairs : RecordOK(rec(d)) /\ rec(d).deadline \in Nat
        /\ \A d \in Pairs : d[1] \in Traders /\ d[2] \in TradeHashes /\ d = <<d[1], d[2]>>
    <2>1. /\ now \in Nat \ {0} /\ \A t \in Traders, h \in TradeHashes : RecordOK(settlements[t][h])
      BY Zenon DEF IInv, RecordsOK
    <2>2. ASSUME NEW d \in Pairs PROVE d[1] \in Traders /\ d[2] \in TradeHashes /\ d = <<d[1], d[2]>>
      BY ONLY d \in Pairs, SMTT(30) DEF Pairs
    <2>3. ASSUME NEW s, RecordOK(s) PROVE s.deadline \in Nat
      BY ONLY <2>3, SMTT(30) DEF RecordOK, Settlement
    <2>4. QED
      BY ONLY <2>1, <2>2, <2>3, ZenonT(60)
  <1>00. /\ Funds = [d \in Pairs |-> Place(rec(d))]
         /\ Funds' = [d \in Pairs |-> Place(new(d))]
         /\ Due = [d \in Pairs |-> rec(d).deadline]
         /\ Due' = [d \in Pairs |-> new(d).deadline]
    BY DEF Funds, Due, Place, Recorded
  <1>1. CASE UNCHANGED settlements
    <2>1. UNCHANGED <<Funds, Due>>
      BY <1>00, <1>1, Zenon
    <2>2. now' = now \/ Tick
      BY ZenonT(60) DEF Next, vars, FactoryCall, EscrowCall, RegistryCall, CreateEscrow, SettleBatch,
             CommitTradeBatch, SettleBatchWithFees, ClaimSlash, Deposit, Withdraw,
             RefundAfterDeadline
    <2>3. Tick => Promise!Pass
      BY <2>1, Zenon DEF Tick, Promise!Pass, Funds, Due, Pairs
    <2>4. QED
      BY <2>1, <2>2, <2>3, ZenonT(60) DEF Promise!PromiseNext
  <1>2. ASSUME NEW batch \in Batches(TradeEntries), CommitTradeBatch(batch)
        PROVE  Promise!PromiseNext
    <2> DEFINE at(d) == {i \in DOMAIN batch : batch[i].trader = d[1] /\ batch[i].tradeHash = d[2]}
               D == {d \in Pairs : at(d) # {}}
    <2>1. D # {}
      <3>1. 1 \in DOMAIN batch
        BY DEF Batches
      <3>2. batch[1] \in TradeEntries
        BY <3>1, BatchEntries, Zenon
      <3>3. <<batch[1].trader, batch[1].tradeHash>> \in D
        BY <3>1, <3>2, TradeEntriesAssumption, ZenonT(60) DEF Pairs
      <3>4. QED
        BY <3>3
    <2>2. ASSUME NEW d \in D
          PROVE  /\ rec(d).deadline = 0
                 /\ \E e \in TradeEntries : now <= e.deadline /\ new(d) = NewSettlement(rec(d), e)
      <3> DEFINE pos == CHOOSE i \in DOMAIN batch : batch[i].trader = d[1] /\ batch[i].tradeHash = d[2]
      <3>1. pos \in DOMAIN batch /\ batch[pos].trader = d[1] /\ batch[pos].tradeHash = d[2]
        BY <2>2, Zenon
      <3>2. new(d) = NewSettlement(rec(d), batch[pos])
        BY <1>0, <1>2, <3>1, ZenonT(60) DEF CommitTradeBatch, UpdateRecords
      <3>3. CanCommit(batch[pos]) /\ batch[pos] \in TradeEntries
        BY <1>2, <3>1, BatchEntries, ZenonT(60) DEF CommitTradeBatch
      <3>4. QED
        BY <3>1, <3>2, <3>3, ZenonT(60) DEF CanCommit, RecordOf
    <2>3. ASSUME NEW d \in Pairs, d \notin D
          PROVE  new(d) = rec(d)
      BY <1>0, <1>2, <2>3, ZenonT(60) DEF CommitTradeBatch, UpdateRecords
    <2>4. \A d \in D : /\ Place(rec(d)) = "none" /\ Place(new(d)) = "locked"
                       /\ new(d).deadline >= now /\ new(d).deadline \in Nat
      <3> SUFFICES ASSUME NEW d \in D
                   PROVE  /\ Place(rec(d)) = "none" /\ Place(new(d)) = "locked"
                          /\ new(d).deadline >= now /\ new(d).deadline \in Nat
        BY ZenonT(60)
      <3>0. RecordOK(rec(d)) /\ rec(d).deadline = 0
        BY <1>0, <2>2, ZenonT(60)
      <3> HIDE DEF rec, new
      <3>1. PICK e \in TradeEntries : now <= e.deadline /\ new(d) = NewSettlement(rec(d), e)
        BY <2>2, ZenonT(60)
      <3>2. e.deadline \in Nat
        BY ONLY <3>1, TradeEntriesAssumption
      <3>3. now \in Nat \ {0}
        BY ONLY <1>0, Zenon
      <3>4. QED
        BY ONLY <3>0, <3>1, <3>2, <3>3, Placing
    <2> HIDE DEF D
    <2>5. D \in SUBSET Pairs
      BY Zenon DEF D
    <2>6. Promise!Move(D, "none", "locked")
      BY <1>00, <2>1, <2>3, <2>4, <2>5, ZenonT(60) DEF Promise!Move, Funds, Pairs
    <2>7. /\ \A d \in D : Due'[d] >= now
          /\ Due' \in [Pairs -> Nat]
          /\ \A d \in Pairs \ D : Due'[d] = Due[d]
      BY <1>0, <1>00, <2>3, <2>4, <2>5, ZenonT(60)
    <2>8. Promise!Commit(D)
      BY <1>2, <2>6, <2>7, ZenonT(60) DEF Promise!Commit, CommitTradeBatch, Due, Pairs
    <2>9. QED
      BY <2>5, <2>8, Zenon DEF Promise!PromiseNext, Pairs
  <1>3. ASSUME NEW batch \in Batches(TradeEntries), NEW o \in Operators, NEW r \in BOOLEAN,
               SettleBatchWithFees(batch, o, r)
        PROVE  Promise!PromiseNext
    <2> DEFINE at(d) == {i \in DOMAIN batch : batch[i].trader = d[1] /\ batch[i].tradeHash = d[2]}
               D == {d \in Pairs : at(d) # {}}
    <2>1. D # {}
      <3>1. 1 \in DOMAIN batch
        BY DEF Batches
      <3>2. batch[1] \in TradeEntries
        BY <3>1, BatchEntries, Zenon
      <3>3. <<batch[1].trader, batch[1].tradeHash>> \in D
        BY <3>1, <3>2, TradeEntriesAssumption, SMTT(30) DEF Pairs
      <3>4. QED
        BY <3>3
    <2>2. ASSUME NEW d \in D
          PROVE  /\ Recorded(rec(d)) /\ ~rec(d).settled /\ ~DeadlinePassed(rec(d))
                 /\ new(d) = MarkSettled(rec(d))
      <3>1. PICK i \in DOMAIN batch : batch[i].trader = d[1] /\ batch[i].tradeHash = d[2]
        BY <2>2, Zenon
      <3>2. new(d) = MarkSettled(rec(d))
        BY <1>0, <1>3, <3>1, SMTT(30) DEF SettleBatchWithFees, UpdateRecords, SettledRecord
      <3>3. QED
        BY <1>3, <3>1, <3>2, ZenonT(60) DEF SettleBatchWithFees, CanSettle, RecordOf
    <2>3. ASSUME NEW d \in Pairs, d \notin D
          PROVE  new(d) = rec(d)
      BY <1>0, <1>3, <2>3, ZenonT(60) DEF SettleBatchWithFees, UpdateRecords
    <2>4. \A d \in D : /\ Place(rec(d)) = "locked" /\ Place(new(d)) = "paid"
                       /\ now <= rec(d).deadline /\ new(d).deadline = rec(d).deadline
      <3> SUFFICES ASSUME NEW d \in D
                   PROVE  /\ Place(rec(d)) = "locked" /\ Place(new(d)) = "paid"
                          /\ now <= rec(d).deadline /\ new(d).deadline = rec(d).deadline
        BY ZenonT(60)
      <3>0. /\ RecordOK(rec(d)) /\ rec(d).deadline \in Nat /\ now \in Nat \ {0}
            /\ Recorded(rec(d)) /\ ~rec(d).settled /\ ~DeadlinePassed(rec(d))
            /\ new(d) = MarkSettled(rec(d))
        BY <1>0, <2>2, ZenonT(60)
      <3> HIDE DEF rec, new
      <3>1. now <= rec(d).deadline
        BY ONLY <3>0, SMTT(30) DEF DeadlinePassed
      <3>2. ~rec(d).refunded
        <4>1. rec(d).deadline \in Nat /\ now \in Nat
          BY ONLY <3>0, Zenon
        <4>2. ~(now > rec(d).deadline)
          BY ONLY <3>1, <4>1, SMTT(30)
        <4>. QED
          BY ONLY <3>0, <4>2, ZenonT(60) DEF RecordOK
      <3>3. QED
        BY ONLY <3>0, <3>1, <3>2, Placing, ZenonT(60) DEF Open
    <2> HIDE DEF D
    <2>5. D \in SUBSET Pairs
      BY Zenon DEF D
    <2>6. Promise!Move(D, "locked", "paid")
      BY <1>00, <2>1, <2>3, <2>4, <2>5, ZenonT(60) DEF Promise!Move, Funds, Pairs
    <2>7. Due' = Due /\ \A d \in D : now <= Due[d]
      BY <1>0, <1>00, <2>3, <2>4, <2>5, ZenonT(60)
    <2>8. Promise!Pay(D)
      BY <1>3, <2>6, <2>7, ZenonT(60) DEF Promise!Pay, SettleBatchWithFees, Due, Pairs
    <2>9. QED
      BY <2>5, <2>8, Zenon DEF Promise!PromiseNext, Pairs
  <1>4. ASSUME NEW hashes \in Batches(TradeHashes), NEW c \in Traders, ClaimSlash(hashes, c)
        PROVE  UNCHANGED <<now, Funds, Due>>
    <2>1. ASSUME NEW d \in Pairs
          PROVE  new(d) = rec(d) \/ new(d) = MarkSlashed(rec(d))
      BY <1>0, <1>4, Zenon DEF ClaimSlash, IInv, RecordsOK
    <2>2. \A d \in Pairs : Place(new(d)) = Place(rec(d)) /\ new(d).deadline = rec(d).deadline
      BY <1>0, <2>1, Placing
    <2>3. QED
      BY <1>00, <1>4, <2>2, ZenonT(60) DEF ClaimSlash
  <1>5. ASSUME NEW c \in Traders, NEW g \in TradeHashes, RefundAfterDeadline(c, g)
        PROVE  Promise!PromiseNext
    <2> DEFINE p == <<c, g>>
    <2>1. p \in Pairs
      BY Zenon DEF Pairs
    <2>2. /\ new(p) = MarkRefunded(rec(p))
          /\ Open(rec(p)) /\ DeadlinePassed(rec(p))
          /\ \A d \in Pairs \ {p} : new(d) = rec(d)
      BY <1>0, <1>5, Zenon DEF RefundAfterDeadline, IInv, RecordsOK, Open
    <2>3. /\ Place(rec(p)) = "locked" /\ Place(new(p)) = "returned"
          /\ new(p).deadline = rec(p).deadline
      BY <1>0, <2>1, <2>2, Placing, SMTT(30)
    <2> HIDE DEF p
    <2>4. Promise!Move({p}, "locked", "returned")
      BY <1>00, <2>1, <2>2, <2>3, ZenonT(60) DEF Promise!Move, Funds, Pairs
    <2>5. Due' = Due /\ now > Due[p]
      BY <1>0, <1>00, <2>1, <2>2, <2>3, ZenonT(60) DEF DeadlinePassed
    <2>6. Promise!Return(p)
      BY <1>5, <2>4, <2>5, ZenonT(60) DEF Promise!Return, RefundAfterDeadline, Due, Pairs
    <2>7. QED
      BY <2>1, <2>6 DEF Promise!PromiseNext, Pairs
  <1>6. QED
    BY <1>1, <1>2, <1>3, <1>4, <1>5, ZenonT(60)
    DEF Next, vars, escrowVars, FactoryCall, EscrowCall, Tick, CreateEscrow, SettleBatch, Deposit, Withdraw

\* The settlement contracts implement EscrowPromise: the funds of a committed
\* trade are paid by its deadline or returned after it, and never both.
THEOREM ContractsKeepPromise == Spec => KeepsPromise
  <1>1. Init => Promise!PromiseInit
    BY DEF Init, EscrowInit, Promise!PromiseInit, NoSettlement, Place, Recorded
  <1>2. QED
    BY <1>1, Invariant, StepKeepsPromise, PTL
    DEF Spec, KeepsPromise, Promise!PromiseSpec, Funds, Due, Pairs
=============================================================================
