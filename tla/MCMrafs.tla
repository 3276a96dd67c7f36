------------------------------ MODULE MCMrafs ------------------------------
(* Instances of Mrafs for TLC.                                             *)
EXTENDS Mrafs

Symmetry == Permutations(Paths) \cup Permutations(Tokens)
=============================================================================
