---------------------------- MODULE EscrowPromise ---------------------------
(***************************************************************************)
(* What the settlement contracts promise a trader about the funds of a     *)
(* committed trade: locked by a commit before the deadline, they are paid  *)
(* to the counterparty no later than the deadline, or returned after it,   *)
(* and never both.                                                         *)
(***************************************************************************)
EXTENDS Integers

CONSTANT Trades

VARIABLES
    time,
    funds,      \* where a trade's funds are
    due         \* the deadline of a trade, 0 before it is committed

Places == {"none", "locked", "paid", "returned"}

PromiseInit ==
    /\ time = 1
    /\ funds = [d \in Trades |-> "none"]
    /\ due = [d \in Trades |-> 0]

\* The trades in D move together, as the trades of one batch do.
Move(D, from, to) ==
    /\ D # {}
    /\ \A d \in D : funds[d] = from
    /\ funds' = [d \in Trades |-> IF d \in D THEN to ELSE funds[d]]

Commit(D) ==
    /\ Move(D, "none", "locked")
    /\ \A d \in D : due'[d] >= time
    /\ due' \in [Trades -> Nat]
    /\ \A d \in Trades \ D : due'[d] = due[d]
    /\ UNCHANGED time

Pay(D) ==
    /\ Move(D, "locked", "paid")
    /\ \A d \in D : time <= due[d]
    /\ UNCHANGED <<time, due>>

Return(d) ==
    /\ Move({d}, "locked", "returned")
    /\ time > due[d]
    /\ UNCHANGED <<time, due>>

Pass ==
    /\ time' = time + 1
    /\ UNCHANGED <<funds, due>>

PromiseNext ==
    \/ \E D \in SUBSET Trades : Commit(D) \/ Pay(D)
    \/ \E d \in Trades : Return(d)
    \/ Pass

PromiseSpec == PromiseInit /\ [][PromiseNext]_<<time, funds, due>>
=============================================================================
