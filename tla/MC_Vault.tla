------------------------------ MODULE MC_Vault ------------------------------
(* A small instance of Vault; the passwords and the contents are alike.     *)
EXTENDS Vault, TLC

Symmetry == Permutations(Passwords) \cup Permutations(Contents) \cup Permutations(Tables)
=============================================================================
