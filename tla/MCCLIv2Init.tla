---------------------------- MODULE MCCLIv2Init ----------------------------
(* Instances of CLIv2Init for TLC. *)
EXTENDS CLIv2Init, TLC
CONSTANTS p1, p2

\* Every process has version 1; version 0 is left over in the cache.
OneVersion == [p \in Procs |-> 1]
=============================================================================
