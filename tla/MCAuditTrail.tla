---------------------------- MODULE MCAuditTrail ----------------------------
(***************************************************************************)
(* AuditTrail on three orders: the second and the third match, the second  *)
(* with the network's timestamp.                                           *)
(***************************************************************************)
EXTENDS AuditTrail

MCPayloads == 1..MaxOrders
MCTakers == {2, 3}
MCEvidenced == {2}
=============================================================================
