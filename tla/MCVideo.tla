------------------------------- MODULE MCVideo -------------------------------
(* Instances of InstrumentVideo for TLC. *)
EXTENDS InstrumentVideo

=============================================================================
