------------------------------- MODULE MCMesh -------------------------------
(***************************************************************************)
(* Four mesh nodes in a ring, seen at one of two tasks: orders and echo    *)
(* probes travel (MeshFlood), or reports of misconduct do (Misconduct).    *)
(* The two share no state of the code, so a behaviour has one of them.     *)
(*                                                                         *)
(* n1 is an API node, which has no key of its own; n4 is reported, and its *)
(* peer entry carries no key; n3 runs a watchtower.                        *)
(***************************************************************************)
EXTENDS MeshFlood, Misconduct, TLC

CONSTANTS n1, n2, n3, n4, alice

FourNodes == {n1, n2, n3, n4}
ApiObserver == [n \in {n1} |-> {n2, n3}]

\* n2 has left.
OneOut == [n \in FourNodes |-> [active |-> n # n2, stake |-> 1]]
AtStart == {OneOut}

Ring == [n \in FourNodes |-> IF n \in {n1, n3} THEN {n2, n4} ELSE {n1, n3}]

\* Two orders of one trader, the newer one from the other side of the ring.
TwoOrders ==
    {[trader |-> alice, nonce |-> 1, source |-> n1], [trader |-> alice, nonce |-> 2, source |-> n3]}

ASSUME FloodConfigured == Configured

VARIABLE traffic        \* "orders" or "reports"

meshVars == <<traffic, meshFloodVars, vars>>

MeshInit ==
    /\ Init /\ FloodInit
    /\ \/ traffic = "orders" /\ ~staked
       \/ traffic = "reports" /\ maxHops = 4

FloodStep == traffic = "orders" /\ FloodNext /\ UNCHANGED <<traffic, vars>>
ReportStep == traffic = "reports" /\ Next /\ UNCHANGED <<traffic, meshFloodVars>>

MeshSpec == MeshInit /\ [][FloodStep \/ ReportStep]_meshVars
=============================================================================
