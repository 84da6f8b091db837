-------------------------------- MODULE IacV2 --------------------------------
(***************************************************************************)
(* vulnmap iac test for organisations with IaC v2: the policy engine, an   *)
(* executable that ExecutableCache finds or downloads, is run once for all *)
(* paths and writes its output to a file of a temporary directory.  The    *)
(* engine is external: it may fail, be killed, or die after its output.    *)
(***************************************************************************)
EXTENDS Program

CONSTANT MaxErrors   \* bound: errors of the engine's output

VARIABLES
  tempDir,       \* the temporary directory: none, there or left (its removal failed)
  engineOutput   \* what the engine wrote: absent, cut short, or whole with its
                 \*   errors, resources and vulnerabilities

iacV2Vars == <<tempDir, engineOutput>>

\* Errors of the engine: Fatal ones are about no path, or about the entitlement
\* or the settings of the organisation; NoInput is a path with nothing to scan.
EngineErrors == {"Fatal", "NoInput", "Other"}
Whole(errs, resources, vulns) ==
  [state |-> "whole", errors |-> errs, resources |-> resources, vulnerabilities |-> vulns]
Broken(s) == [state |-> s, errors |-> <<>>, resources |-> FALSE, vulnerabilities |-> FALSE]

IacV2Init == tempDir = "none" /\ engineOutput = Broken("absent")

\* assertIacV2Options, the policy, the cache or the executable.
IacV2Rejected == Exit("iacv2", 2) /\ UNCHANGED iacV2Vars

EngineFound == Goto("iacv2", "iacv2.temp") /\ UNCHANGED iacV2Vars

\* The policy is written into the new directory outside of the try block whose
\* finally removes it.
TempFails ==
  /\ Exit("iacv2.temp", 2)
  /\ tempDir' \in {"none", "left"} /\ UNCHANGED engineOutput

TempCreated ==
  /\ Goto("iacv2.temp", "iacv2.run")
  /\ tempDir' = "there" /\ UNCHANGED engineOutput

EngineWrites ==
  /\ pc = "iacv2.run" /\ engineOutput.state = "absent"
  /\ engineOutput' \in {Broken("cut")} \cup
       {Whole(errs, r, v) : errs \in UNION {[1..n -> EngineErrors] : n \in 0..MaxErrors},
                            r \in BOOLEAN, v \in BOOLEAN}
  /\ UNCHANGED <<programVars, tempDir>>

Removed == IF tempDir = "there" THEN {"none", "left"} ELSE {tempDir}

\* The engine exits, with a status other than 0, or cannot be started.
EngineFails ==
  /\ Exit("iacv2.run", 2)
  /\ tempDir' \in Removed /\ UNCHANGED engineOutput

\* Its status is 0, or null when a signal ended it: then its output is read too.
EngineExits ==
  /\ IF engineOutput.state = "whole" /\ \A i \in DOMAIN engineOutput.errors : engineOutput.errors[i] # "Fatal"
     THEN Goto("iacv2.run", "iacv2.output") ELSE Exit("iacv2.run", 2)
  /\ tempDir' \in Removed /\ UNCHANGED engineOutput

\* Mutant: a scan with vulnerabilities counts as a successful one.
SuccessfulScans_Errors(o) == TRUE

SuccessfulScans(o) == o.resources \/ o.errors = <<>>

\* NoLoadableInputError when every error is that there was nothing to scan.
BuildOutputV2 ==
  /\ Exit("iacv2.output",
       IF SuccessfulScans(engineOutput) THEN IF engineOutput.vulnerabilities THEN 1 ELSE 0
       ELSE IF \E i \in DOMAIN engineOutput.errors : engineOutput.errors[i] # "NoInput" THEN 2 ELSE 3)
  /\ UNCHANGED iacV2Vars

IacV2Next ==
  \/ IacV2Rejected \/ EngineFound \/ TempFails \/ TempCreated \/ EngineWrites
  \/ EngineFails \/ EngineExits \/ BuildOutputV2

------------------------------------------------------------------------------
\* What the exit code says is so: with 0 or 1 the engine's whole output was
\* read and it scanned something or had no errors, 0 means no vulnerabilities
\* and 3 that every path had nothing to scan. A directory that may have the
\* project's policy is left behind only when a file operation failed.
EngineExitIsHonest ==
  LET o == engineOutput IN
  pc = "done" /\ o.state # "absent" =>
    /\ exitCode \in {0, 1} => /\ o.state = "whole" /\ (o.resources \/ o.errors = <<>>)
                              /\ o.vulnerabilities = (exitCode = 1)
    /\ exitCode = 3 => \A i \in DOMAIN o.errors : o.errors[i] = "NoInput"
    /\ tempDir # "there"
==============================================================================
