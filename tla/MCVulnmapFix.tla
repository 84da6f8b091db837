---------------------------- MODULE MCVulnmapFix ----------------------------
(* Instances of VulnmapFix for TLC. *)
EXTENDS VulnmapFix, TLC
Symmetry == Permutations(Projects)
=============================================================================
