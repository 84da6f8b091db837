---------------------------- MODULE MCTestCommand ----------------------------
(* Instances of TestCommand for TLC. *)
EXTENDS TestCommand

\* Text output and every --fail-on that differs when no patches are found;
\* JSON output without --fail-on.
PromisedModes ==
  [output : {"text"}, failOn : {"none", "all", "patchable"}]
    \cup [output : {"json"}, failOn : {"none"}]
==============================================================================
