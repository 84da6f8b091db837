------------------------------ MODULE FixCommand -----------------------------
(***************************************************************************)
(* vulnmap fix around the fix itself (the module VulnmapFix): each path is *)
(* tested, one after the other; the results are converted to projects and  *)
(* fixed together; the command ends with an error, or with the summary.    *)
(***************************************************************************)
EXTENDS Program

CONSTANTS
  FixPaths,     \* number of paths given
  MaxProjects   \* bound: projects of a path

ASSUME FixPathsAssumption == FixPaths \in Nat \ {0}

VARIABLES
  quiet,        \* --quiet
  fixPath,      \* the path being tested
  projects,     \* results: for each one, whether it is vulnerable
  untested,     \* paths whose test or conversion failed
  told,         \* those of them the terminal told
  fixed, failed \* meta of the fix: projects fixed and failed

fixVars == <<quiet, fixPath, projects, untested, told, fixed, failed>>

FixInit ==
  /\ quiet = FALSE /\ fixPath = 1 /\ projects = <<>> /\ untested = {} /\ told = {}
  /\ fixed = 0 /\ failed = 0

Count(s, x) == Cardinality({i \in DOMAIN s : s[i] = x})

\* Containers and other ecosystems, an organisation without the feature or that
\* cannot be asked, a package file given as a path, several paths with a project
\* name, an unknown severity or fail-on, no credentials.
FixRejected == Exit("fix", 2) /\ UNCHANGED fixVars

FixAccepted ==
  /\ Goto("fix", "fix.test") /\ quiet' \in BOOLEAN
  /\ UNCHANGED <<fixPath, projects, untested, told, fixed, failed>>

AfterPath == IF fixPath = FixPaths THEN "fix.fix" ELSE "fix.test"

\* The test has at least one result, with a package manager each.
PathTested ==
  /\ Goto("fix.test", AfterPath)
  /\ \E n \in 1..MaxProjects : \E vulnerable \in [1..n -> BOOLEAN] :
       projects' = projects \o vulnerable
  /\ fixPath' = fixPath + 1
  /\ UNCHANGED <<quiet, untested, told, fixed, failed>>

\* Mutant: the failure is only logged.
PathFailed_Untold ==
  /\ Goto("fix.test", AfterPath)
  /\ untested' = untested \cup {fixPath}
  /\ fixPath' = fixPath + 1
  /\ UNCHANGED <<quiet, projects, told, fixed, failed>>

\* A test that fails, or a result without a package manager: none of the path's
\* projects is fixed, its error is shown by the spinner, and the next is tested.
PathFailed ==
  /\ Goto("fix.test", AfterPath)
  /\ untested' = untested \cup {fixPath}
  /\ told' = IF quiet THEN told ELSE told \cup {fixPath}
  /\ fixPath' = fixPath + 1
  /\ UNCHANGED <<quiet, projects, fixed, failed>>

\* Some vulnerable projects are fixed, some fail, some have nothing to fix.
Fixed ==
  /\ Goto("fix.fix", "fix.end")
  /\ fixed' \in 0..Count(projects, TRUE)
  /\ failed' \in 0..(Count(projects, TRUE) - fixed')
  /\ UNCHANGED <<quiet, fixPath, projects, untested, told>>

\* No results at all, or vulnerable projects of which some failed and none was
\* fixed, are an error; the untested paths count for nothing.
FixExitCode ==
  IF projects = <<>> THEN 2
  ELSE IF Count(projects, TRUE) = 0 THEN 0
  ELSE IF failed > 0 /\ fixed = 0 THEN 2 ELSE 0

FixEnds == Exit("fix.end", FixExitCode) /\ UNCHANGED fixVars

FixNext == FixRejected \/ FixAccepted \/ PathTested \/ PathFailed \/ Fixed \/ FixEnds

------------------------------------------------------------------------------
\* A path that is not tested is told, unless --quiet silences the spinner, and
\* success means that some path was tested and that not everything that was
\* attempted failed (fix/index.ts:71-86, :149).
UntestedIsTold ==
  pc = "done" =>
    /\ ~quiet => told = untested
    /\ exitCode = 0 => /\ Cardinality(untested) < FixPaths
                       /\ failed > 0 => fixed > 0
==============================================================================
