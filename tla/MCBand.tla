-------------------------------- MODULE MCBand --------------------------------
(* Instances of BandMembership for TLC. *)
EXTENDS BandMembership, TLC

Symmetry == Permutations(Musician) \cup Permutations(Instrument) \cup Permutations(Slot)

=============================================================================
