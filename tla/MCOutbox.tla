------------------------------ MODULE MCOutbox ------------------------------
(***************************************************************************)
(* Instances of Outbox for TLC.  "create" records one event, "update" two, *)
(* published in order.                                                     *)
(***************************************************************************)
EXTENDS Outbox, TLC

CONSTANTS create, update, e1, e2, e3

OneAndTwo == create :> <<e1>> @@ update :> <<e2, e3>>
=============================================================================
