------------------------------ MODULE MCVault ------------------------------
(* Small instances of Vault for TLC.  Copies of the program, passwords and   *)
(* edits are interchangeable: no action compares two of them by anything but *)
(* equality.                                                                 *)
EXTENDS Vault, TLC

Symmetry == Permutations(Instances) \cup Permutations(Passwords)
                \cup Permutations(Edits) \cup Permutations(Keys)
=============================================================================
