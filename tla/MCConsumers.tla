----------------------------- MODULE MCConsumers -----------------------------
(* Instances of RabbitMQConsumers for TLC. *)
EXTENDS RabbitMQConsumers, TLC

CONSTANTS m1, m2, q1, q2

Apart == m1 :> q1 @@ m2 :> q2
Together == m1 :> q1 @@ m2 :> q1

\* Nothing is claimed of what follows a stray ack.
NotStrayed == strayed = {}
=============================================================================
