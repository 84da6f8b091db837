------------------------------ MODULE MCCommands -----------------------------
(***************************************************************************)
(* The programs and commands that are modelled as one flow of control      *)
(* each, for TLC: one of them is chosen and run.                           *)
(***************************************************************************)
EXTENDS Protect, IacTest, ExecutableCache, Drift, Auth, IacV2, CodeTest, FixCommand

CONSTANTS v1, v2, f1, f2

\* Both vulnerabilities change the file f2.
TwoPatches == [v \in Vulns |-> IF v = v1 THEN {f1, f2} ELSE {f2}]

Labels == {"protect", "iac", "cache", "drift", "auth", "iacv2", "code", "fix"}

vars == <<programVars, protectVars, iacVars, cacheVars, driftVars, authVars, iacV2Vars, codeVars, fixVars>>

Init ==
  /\ pc = "choose" /\ exitCode = 0
  /\ ProtectInit
  /\ IacInit
  /\ CacheInit
  /\ DriftInit
  /\ AuthInit
  /\ IacV2Init
  /\ CodeInit
  /\ FixInit

Choose ==
  /\ pc = "choose" /\ pc' \in Labels /\ UNCHANGED exitCode
  /\ UNCHANGED <<protectVars, iacVars, cacheVars, driftVars, authVars, iacV2Vars, codeVars, fixVars>>

Next ==
  \/ Choose
  \/ ProtectNext /\ UNCHANGED <<iacVars, cacheVars, driftVars, authVars, iacV2Vars, codeVars, fixVars>>
  \/ IacNext /\ UNCHANGED <<protectVars, cacheVars, driftVars, authVars, iacV2Vars, codeVars, fixVars>>
  \/ CacheNext /\ UNCHANGED <<protectVars, iacVars, driftVars, authVars, iacV2Vars, codeVars, fixVars>>
  \/ DriftNext /\ UNCHANGED <<protectVars, iacVars, cacheVars, authVars, iacV2Vars, codeVars, fixVars>>
  \/ AuthNext /\ UNCHANGED <<protectVars, iacVars, cacheVars, driftVars, iacV2Vars, codeVars, fixVars>>
  \/ IacV2Next /\ UNCHANGED <<protectVars, iacVars, cacheVars, driftVars, authVars, codeVars, fixVars>>
  \/ CodeNext /\ UNCHANGED <<protectVars, iacVars, cacheVars, driftVars, authVars, iacV2Vars, fixVars>>
  \/ FixNext /\ UNCHANGED <<protectVars, iacVars, cacheVars, driftVars, authVars, iacV2Vars, codeVars>>

Spec == Init /\ [][Next]_vars /\ WF_vars(Next)

\* Every command ends, whatever the service, the engine, the user and the other
\* commands do.
ProgramEnds == <>(pc = "done")
==============================================================================
