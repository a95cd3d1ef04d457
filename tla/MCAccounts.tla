------------------------------ MODULE MCAccounts ------------------------------
(* Instances of Accounts for TLC. *)
EXTENDS Accounts, TLC

Symmetry ==
    Permutations(UserId) \cup Permutations(Email) \cup Permutations(Password)
    \cup Permutations(MusicianId) \cup Permutations(Username) \cup Permutations(Slot)

=============================================================================
