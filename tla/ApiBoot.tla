------------------------------ MODULE ApiBoot -------------------------------
(***************************************************************************)
(* crates/api/src/main.rs: from the environment variables to a node that   *)
(* serves.  main reads them group by group and gives up at the first that  *)
(* it cannot use; on the way it spawns tasks, some of which rest on what   *)
(* was read, or left out, long before.  URLs and contract addresses it     *)
(* only passes on: the tasks that use them find out, and return.           *)
(*                                                                         *)
(* A variable, or a group that is read together, is "unset", "ok", or      *)
(* "bad" in one of the ways its parser refuses.  Of Ethereum's group it is *)
(* the key that main parses ("badKey"), not the URL and the addresses      *)
(* ("badAddress"); FRG's endpoint may be "unreachable".  What only has a   *)
(* default (ports, intervals, fees) is left out.                           *)
(***************************************************************************)
CONSTANT
    Environments    \* the environments a node is started in

VARIABLES
    env,            \* MEX_*, and what of the machine the start depends on
    stage,          \* the part of main that comes next, or how it ended
    tasks,          \* the tasks spawned so far
    node            \* what main has built: active_nodes, mesh, its receivers,
                    \* whether stored state was loaded, the stake threshold

bootVars == <<env, stage, tasks, node>>

Nothing == [active |-> {}, mesh |-> FALSE, receivers |-> {}, loaded |-> FALSE, threshold |-> "none"]

BootInit ==
    /\ env \in Environments
    /\ stage = "settlement" /\ tasks = {} /\ node = Nothing

-----------------------------------------------------------------------------
Chain == IF env.chain = "unset" THEN "ethereum" ELSE env.chain

\* Slip: the variables of Ethereum are asked for only to settle there.
NeedEthereumToSettle == Chain = "ethereum"

\* need_ethereum_vars: to settle on Ethereum, or to look up reporters' stakes.
NeedEthereum == Chain = "ethereum" \/ env.requireStake

\* The process is gone, and its tasks with it.
Ends(how) == stage' = how /\ tasks' = {} /\ UNCHANGED node

GoesOn(next) == stage' = next /\ UNCHANGED <<tasks, node>>

ExitsIf(refused, otherwise) == (refused /\ Ends("exited")) \/ (~refused /\ otherwise)

\* Which chain, the variables for it, and this node's own key.
ReadSettlement ==
    /\ stage = "settlement"
    /\ ExitsIf(\/ Chain \notin {"ethereum", "frg"}
               \/ NeedEthereum /\ env.ethereum = "unset"
               \/ Chain = "frg" /\ env.frg \in {"unset", "bad"}
               \/ env.nodeKey # "ok",
               GoesOn("keys"))

\* The private key, parsed if there is one, and the receipt key, made up if
\* there is none.
ReadKeys ==
    /\ stage = "keys"
    /\ ExitsIf((NeedEthereum /\ env.ethereum = "badKey") \/ env.receiptKey = "bad", GoesOn("nodes"))

\* MEX_SETTLEMENT_ACTIVE_NODES, or this node alone; it goes into the book.
ReadActiveNodes ==
    /\ stage = "nodes"
    /\ ExitsIf(env.activeNodes \in {"bad", "others"},
               /\ node' = [node EXCEPT !.active =
                             IF env.activeNodes = "unset" THEN {"self"} ELSE {"self", "other"}]
               /\ stage' = "mesh" /\ UNCHANGED tasks)

\* With MEX_MESH_NODE_ID, a MeshNode is bound and run, and if reporters have
\* to be staked, the loop that looks up their stakes.
StartMesh ==
    /\ stage = "mesh"
    /\ \/ env.mesh = "unset" /\ GoesOn("sequencing")
       \/ /\ env.mesh # "unset"
          /\ ExitsIf(env.mesh = "bad" \/ (env.requireStake /\ env.threshold # "ok"),
                     /\ node' = [node EXCEPT !.mesh = TRUE,
                                             !.receivers = {"confirmed_batch", "flood"},
                                             !.threshold = IF env.requireStake THEN "given" ELSE "zero"]
                     /\ tasks' = tasks \union {"mesh"}
                                       \union (IF env.requireStake THEN {"chain_status"} ELSE {})
                     /\ stage' = "sequencing")

SequencingPossible == env.window # "bad" /\ (env.window = "ok" => node.mesh)

\* MEX_ORDER_SEQUENCING_WINDOW_MS, which needs the mesh.
ReadSequencing ==
    /\ stage = "sequencing"
    /\ ExitsIf(~SequencingPossible, GoesOn("persistence"))

\* The log is opened and, before anything can touch the state, loaded.
OpenPersistence ==
    /\ stage = "persistence"
    /\ ExitsIf(env.persistence = "bad", GoesOn("load"))

LoadPersistence ==
    /\ stage = "load"
    /\ ExitsIf(env.persistence = "corrupt",
               /\ node' = [node EXCEPT !.loaded = env.persistence = "ok"]
               /\ stage' = "loops" /\ UNCHANGED tasks)

\* Exactly one of the two is started.
SettlementTask == IF Chain = "frg" THEN "settle_frg" ELSE "settle_ethereum"

\* The snapshot loop, the two loops of sequencing (which unwrap the mesh and
\* take its receivers), and one settlement loop.
StartLoops ==
    /\ stage = "loops"
    /\ IF env.window = "ok" /\ ~(node.mesh /\ node.receivers = {"confirmed_batch", "flood"})
       THEN Ends("panicked")
       ELSE /\ tasks' = tasks
                  \union (IF env.persistence = "ok" THEN {"snapshots"} ELSE {})
                  \union (IF env.window = "ok" THEN {"sequencing", "replication"} ELSE {})
                  \union {SettlementTask}
            /\ node' = [node EXCEPT !.receivers = IF env.window = "ok" THEN {} ELSE @]
            /\ stage' = "serve"

\* The listener is unwrapped.
Serve ==
    /\ stage = "serve"
    /\ IF env.port = "taken" THEN Ends("panicked") ELSE GoesOn("serving")

\* The task cannot make the adapter it works with.
Unusable(task) ==
    \/ task \in {"settle_ethereum", "chain_status"} /\ env.ethereum = "badAddress"
    \/ task = "settle_frg" /\ env.frg = "unreachable"

\* It logs that and returns, sooner or later; the node does not notice.
TaskReturns(task) ==
    /\ task \in tasks /\ Unusable(task)
    /\ tasks' = tasks \ {task} /\ UNCHANGED <<stage, node>>

BootNext ==
    /\ \/ \E task \in tasks : TaskReturns(task)
       \/ ReadSettlement \/ ReadKeys \/ ReadActiveNodes \/ StartMesh \/ ReadSequencing
       \/ OpenPersistence \/ LoadPersistence \/ StartLoops \/ Serve
    /\ UNCHANGED env

-----------------------------------------------------------------------------
\* No task is spawned without the variables and parts it works with, although
\* those were read, or passed over, under conditions of their own.
TasksSupplied ==
    /\ tasks \intersect {"settle_ethereum", "chain_status"} # {} => env.ethereum \in {"ok", "badAddress"}
    /\ "settle_frg" \in tasks => env.frg \in {"ok", "unreachable"}
    /\ tasks \intersect {"sequencing", "replication"} # {} => "mesh" \in tasks
    /\ "chain_status" \in tasks => node.threshold = "given"

\* Whoever reads or changes the state is spawned after what was stored is
\* loaded; only the mesh, which keeps orders in its channel, comes before.
LoadedFirst == ~(tasks \subseteq {"mesh", "chain_status"}) => node.loaded = (env.persistence = "ok")

\* The task runs, or has found out that it cannot, or will.
Running(task) == task \in tasks \/ Unusable(task)

\* A node that serves settles on no chain but the one it was told, may be assigned
\* trades itself, and leaves nothing out that it was asked for; but a settlement or
\* chain-status loop with an address or endpoint of no use is gone, and the node
\* serves on without it.
ServesAsConfigured ==
    LET settles == IF env.chain = "frg" THEN "settle_frg" ELSE "settle_ethereum" IN
    stage = "serving" =>
        /\ tasks \intersect {"settle_ethereum", "settle_frg"} \subseteq {settles} /\ Running(settles)
        /\ "self" \in node.active
        /\ env.window # "unset" <=> {"sequencing", "replication"} \subseteq tasks
        /\ env.mesh # "unset" <=> "mesh" \in tasks
        /\ env.persistence # "unset" <=> "snapshots" \in tasks
        /\ IF env.mesh # "unset" /\ env.requireStake
           THEN Running("chain_status") ELSE "chain_status" \notin tasks

\* main's unwraps and expects hold, but for the one of the listener.
NoPanic == stage = "panicked" => env.port = "taken"

\* However the environment mixes what is set, left out and wrong, main either
\* gives up or starts a node whose parts fit together (main, and the first lines of
\* run_settlement_loop, run_settlement_loop_frg and run_mesh_chain_status_loop).
BootSound == TasksSupplied /\ LoadedFirst /\ ServesAsConfigured /\ NoPanic
=============================================================================
