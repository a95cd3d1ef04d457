------------------------------ MODULE MCUpload ------------------------------
(***************************************************************************)
(* Instances of UploadLifecycle for TLC: two attempts of one instrument.   *)
(***************************************************************************)
EXTENDS UploadLifecycle, TLC

\* Attempts in Fragile and the others cannot be exchanged.
Interchangeable == Permutations(Slot) \cup Permutations(Musician)

=============================================================================
