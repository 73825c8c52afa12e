---------------------------- MODULE NodeRegistry ----------------------------
(***************************************************************************)
(* contracts/ethereum/NodeRegistry.sol: the stake, the activity flag and   *)
(* the missed-deadline count of every settlement node, and the ETH the     *)
(* contract holds.                                                         *)
(*                                                                         *)
(* Every external function runs in one transaction, so it is one action;   *)
(* a function that reverts changes nothing and is a disabled action.       *)
(* Reputation (reputationScore, trustLevel) decides nothing on chain and   *)
(* is left out; registeredAt is kept as "registered or not".               *)
(***************************************************************************)
EXTENDS Integers, Sequences, FiniteSets, Functions

CONSTANTS
    Nodes,          \* node public keys
    Operators,      \* accounts that register and run nodes
    NoOperator,     \* address(0), the operator of an unregistered node
    MinStake,       \* MIN_STAKE
    Stakes,         \* msg.value of the registerNode calls considered
    SlashAmounts,   \* amounts of the slashNode calls considered
    MaxListed       \* bound: registerNode calls in one behaviour

ASSUME NodesAssumption == IsFiniteSet(Nodes)
ASSUME MinStakeAssumption == MinStake \in Nat \ {0}
ASSUME StakesAssumption == Stakes \subseteq Nat
ASSUME SlashAmountsAssumption == SlashAmounts \subseteq Nat
ASSUME NoOperatorAssumption == NoOperator \notin Operators

VARIABLES
    nodes,              \* nodes: mapping(bytes32 => NodeInfo)
    nodeList,           \* nodeList; totalNodes is always its length
    registryBalance     \* ETH held by the contract

registryVars == <<nodes, nodeList, registryBalance>>

MAX_MISSED_DEADLINES == 3

NodeInfo == [operator : Operators \union {NoOperator}, stake : Nat,
             registered : BOOLEAN, active : BOOLEAN,
             slashCount : Nat, missedDeadlines : Nat]

\* The zero value of a mapping entry: never written, or removed by delete.
Unregistered ==
    [operator |-> NoOperator, stake |-> 0, registered |-> FALSE,
     active |-> FALSE, slashCount |-> 0, missedDeadlines |-> 0]

RegistryTypeOK ==
    /\ nodes \in [Nodes -> NodeInfo]
    /\ nodeList \in Seq(Nodes)
    /\ registryBalance \in Nat

RegistryInit ==
    /\ nodes = [n \in Nodes |-> Unregistered]
    /\ nodeList = <<>>
    /\ registryBalance = 0

-----------------------------------------------------------------------------
DeleteIfUnderstaked(info) == IF info.stake < MinStake THEN Unregistered ELSE info

CanSlash(info, amount) == info.active /\ info.stake >= amount

\* What slashNode leaves of a node.
Slashed(info, amount) ==
    DeleteIfUnderstaked([info EXCEPT !.stake = @ - amount,
                                     !.slashCount = @ + 1,
                                     !.active = FALSE])

PenaltyDue(missed) == missed >= MAX_MISSED_DEADLINES

\* What _autoPenalize leaves of a node; the penalty stays in the contract.
Penalized(info) ==
    DeleteIfUnderstaked([info EXCEPT !.stake = @ - (@ \div 2),
                                     !.missedDeadlines = 0,
                                     !.active = FALSE])

-----------------------------------------------------------------------------
RegisterNode(n, operator, value) ==
    /\ Len(nodeList) < MaxListed
    /\ value >= MinStake
    /\ ~nodes[n].registered
    /\ nodes' = [nodes EXCEPT ![n] =
                    [operator |-> operator, stake |-> value, registered |-> TRUE,
                     active |-> TRUE, slashCount |-> 0, missedDeadlines |-> 0]]
    /\ nodeList' = Append(nodeList, n)
    /\ registryBalance' = registryBalance + value

\* A direct call by the slashing authority; the ETH transfer needs the funds.
SlashNode(n, amount) ==
    /\ CanSlash(nodes[n], amount)
    /\ registryBalance >= amount
    /\ nodes' = [nodes EXCEPT ![n] = Slashed(@, amount)]
    /\ registryBalance' = registryBalance - amount
    /\ UNCHANGED nodeList

MissedCounted(info) == [info EXCEPT !.missedDeadlines = @ + 1]

RecordMissedDeadline(n) ==
    /\ nodes[n].active
    /\ LET counted == MissedCounted(nodes[n])
       IN nodes' = [nodes EXCEPT ![n] =
                      IF PenaltyDue(counted.missedDeadlines)
                      THEN Penalized(counted) ELSE counted]
    /\ UNCHANGED <<nodeList, registryBalance>>

DeactivateNode(n, caller) ==
    /\ nodes[n].operator = caller
    /\ nodes' = [nodes EXCEPT ![n].active = FALSE]
    /\ UNCHANGED <<nodeList, registryBalance>>

ActivateNode(n, caller) ==
    /\ nodes[n].operator = caller
    /\ nodes[n].stake >= MinStake
    /\ nodes' = [nodes EXCEPT ![n].active = TRUE]
    /\ UNCHANGED <<nodeList, registryBalance>>

\* Slip: the "Must deactivate first" test is missing.
StakeAlwaysFree(info) == TRUE

StakeFree(info) == ~info.active

WithdrawStake(n, caller) ==
    /\ nodes[n].operator = caller
    /\ StakeFree(nodes[n])
    /\ registryBalance >= nodes[n].stake
    /\ nodes' = [nodes EXCEPT ![n].stake = 0]
    /\ registryBalance' = registryBalance - nodes[n].stake
    /\ UNCHANGED nodeList

\* The calls anyone or an operator may make, whoever is slashing authority.
RegistryCall ==
    \E n \in Nodes :
        \/ \E o \in Operators, v \in Stakes : RegisterNode(n, o, v)
        \/ RecordMissedDeadline(n)
        \/ \E o \in Operators : DeactivateNode(n, o)
        \/ \E o \in Operators : ActivateNode(n, o)
        \/ \E o \in Operators : WithdrawStake(n, o)

-----------------------------------------------------------------------------
\* The registry on its own, with a slashing authority that picks the amount.
RegistryNext ==
    \/ RegistryCall
    \/ \E n \in Nodes, amount \in SlashAmounts : SlashNode(n, amount)

RegistrySpec == RegistryInit /\ [][RegistryNext]_registryVars

-----------------------------------------------------------------------------
\* An active node (one commitTrade accepts) has at least MIN_STAKE at risk:
\* no order of slashes, penalties, withdrawals and re-activations leaves a
\* node that can be assigned trades with less.
ActiveNodeStaked ==
    \A n \in Nodes : nodes[n].active => nodes[n].registered /\ nodes[n].stake >= MinStake

\* Three missed deadlines are always acted on: no node ever carries
\* MAX_MISSED_DEADLINES of them, through re-activation or re-registration.
MissedDeadlinesActedOn ==
    \A n \in Nodes : nodes[n].missedDeadlines < MAX_MISSED_DEADLINES

\* The registry owns at least the stakes it may have to return or pay out:
\* slashes of several trades and penalties never spend another node's stake.
RegistrySolvent ==
    registryBalance >= SumFunctionOnSet([n \in Nodes |-> nodes[n].stake], Nodes)
=============================================================================
