---------------------------- MODULE AppendOnlyLog ---------------------------
(***************************************************************************)
(* What an audit log promises (crates/orderlog): a history that only ever  *)
(* grows at its end.  Where an entry is stored is not its business.        *)
(***************************************************************************)
EXTENDS Sequences

CONSTANT Payloads

VARIABLE history

Init == history = <<>>

Next == \E p \in Payloads : history' = Append(history, p)

Spec == Init /\ [][Next]_history
=============================================================================
