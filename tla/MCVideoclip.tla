----------------------------- MODULE MCVideoclip -----------------------------
(* Instances of VideoclipProcess for TLC. *)
EXTENDS VideoclipProcess

=============================================================================
