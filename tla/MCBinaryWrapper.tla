-------------------------- MODULE MCBinaryWrapper --------------------------
(* Instances of BinaryWrapper for TLC. *)
EXTENDS BinaryWrapper, TLC
Symmetry == Permutations(Procs) \cup Permutations(Temps)
=============================================================================
