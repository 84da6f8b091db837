----------------------------- MODULE TestPromise -----------------------------
(***************************************************************************)
(* What vulnmap test promises: the paths are tested one after the other,   *)
(* whatever becomes of each of them, and the exit code tells all of their  *)
(* outcomes.  Requests, retries and the pool are hidden.                   *)
(***************************************************************************)
EXTENDS Integers, Sequences

CONSTANTS NPaths, Findings, Errors, None

VARIABLES
  outcomes,    \* of the paths tested: an error, or the findings of the projects
  failOn,      \* the option --fail-on
  exitCode

vars == <<outcomes, failOn, exitCode>>

VulnsFound == 1
Error == 2
NoSupportedProjectsDetected == 3

Outcome == [error : Errors \cup {None}, found : SUBSET Findings]

FailOns == {"none", "all", "upgradable", "patchable"}

Init == outcomes = <<>> /\ failOn \in FailOns /\ exitCode = None

TestPath ==
  /\ exitCode = None /\ Len(outcomes) < NPaths
  /\ \E o \in Outcome : outcomes' = Append(outcomes, o)
  /\ UNCHANGED <<failOn, exitCode>>

\* The findings that make the command fail.
Failing ==
  CASE failOn = "none"       -> Findings \ {"clean"}
    [] failOn = "all"        -> {"upgradable", "patchable"}
    [] failOn = "upgradable" -> {"upgradable"}
    [] failOn = "patchable"  -> {"patchable"}

AllErrors == {outcomes[i].error : i \in DOMAIN outcomes} \ {None}
AllFound  == UNION {outcomes[i].found : i \in DOMAIN outcomes}

Verdict ==
  CASE "noManifest" \in AllErrors -> NoSupportedProjectsDetected
    [] AllErrors # {} /\ "noManifest" \notin AllErrors -> Error
    [] AllErrors = {} /\ AllFound \cap Failing # {} -> VulnsFound
    [] OTHER -> 0

Exit ==
  /\ exitCode = None /\ Len(outcomes) = NPaths
  /\ exitCode' = Verdict
  /\ UNCHANGED <<outcomes, failOn>>

\* Wrong options or no credentials.
Fail ==
  /\ exitCode = None /\ outcomes = <<>>
  /\ exitCode' = Error
  /\ UNCHANGED <<outcomes, failOn>>

Next == TestPath \/ Exit \/ Fail

Spec == Init /\ [][Next]_vars
==============================================================================
