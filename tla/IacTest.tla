------------------------------- MODULE IacTest -------------------------------
(***************************************************************************)
(* vulnmap iac test: the rules are put in a directory of this run, then    *)
(* each path is loaded, parsed, scanned by the policy engine, shared with  *)
(* the service when --report is given, and counted; the results make the   *)
(* output and the exit code.                                               *)
(*                                                                         *)
(* An error is NoFiles (nothing to scan: exit code 3) or Other.            *)
(***************************************************************************)
EXTENDS Program

CONSTANTS
  IacPaths,    \* number of paths given
  MaxFailures  \* bound: files of a path that fail to parse

ASSUME MaxFailuresAssumption == MaxFailures \in Nat

VARIABLES
  output,      \* text, json or sarif
  custom,      \* custom rules: none, local (--rules), oci (settings or config)
  report,      \* --report
  rulesDir,    \* who wrote the internal rules of the cache: none, custom, vulnmap;
               \*   gone before, and after it was removed
  bundle,      \* Vulnmap's archive of rules: none yet, whole, or bad, with some or
               \*   all of its files missing
  engine,      \* whose rules the engine of policyEngineCache has
  iacPath,     \* the path being tested
  results,     \* results and errors so far
  failures,    \* iacScanFailures is not empty
  issues,      \* the path being tested has issues that are shown
  storedPaths  \* paths whose results the service has

iacOptions == <<output, custom, report>>
iacVars == <<iacOptions, rulesDir, bundle, engine, iacPath, results, failures, issues, storedPaths>>

IacInit ==
  /\ output = "text" /\ custom = "none" /\ report = FALSE
  /\ rulesDir = "gone" /\ bundle = "none" /\ engine = "none"
  /\ iacPath = 1 /\ results = <<>> /\ failures = FALSE /\ issues = FALSE /\ storedPaths = {}

Scanned(found) == [error |-> "none", issues |-> found]
Error(code) == [error |-> code, issues |-> FALSE]

\* handleError of main.ts, for an error with this code.
ExitCodeOf(code) == CASE code = "VULNS" -> 1 [] code = "NoFiles" -> 3 [] OTHER -> 2

\* Options, credentials, entitlements or the organisation's settings.
IacRejected == Exit("iac", 2) /\ UNCHANGED iacVars

IacAccepted ==
  /\ Goto("iac", "iac.rules")
  /\ output' \in {"text", "json", "sarif"} /\ report' \in BOOLEAN
  /\ custom' \in {"none", "local", "oci"}
  /\ rulesDir' = "none"
  /\ UNCHANGED <<bundle, engine, iacPath, results, failures, issues, storedPaths>>

------------------------------------------------------------------------------
(* initRules and initLocalCache *)

\* cleanLocalCache, whose errors are counted in the analytics only.
CleanLocalCache == rulesDir' \in {"gone", rulesDir}

\* No entitlement for custom rules, --rules and a registry at once, a pull,
\* a connection or a write that fails. The cache is removed all the same.
RulesFail ==
  /\ \E l \in {"iac.rules", "iac.bundle"} : Exit(l, 2)
  /\ CleanLocalCache
  /\ UNCHANGED <<iacOptions, bundle, engine, iacPath, results, failures, issues, storedPaths>>

\* Mutant: the custom rules are extracted over the bundle.
BundleExtracted_Under ==
  /\ Goto("iac.bundle", "iac.path")
  /\ bundle' = "whole" /\ rulesDir' = IF rulesDir = "none" THEN "vulnmap" ELSE rulesDir
  /\ UNCHANGED <<iacOptions, engine, iacPath, results, failures, issues, storedPaths>>

\* Custom rules are extracted first; their archive may have files of any name.
CustomExtracted ==
  /\ Goto("iac.rules", "iac.bundle")
  /\ rulesDir' \in IF custom = "none" THEN {"none"} ELSE {"none", "custom"}
  /\ UNCHANGED <<iacOptions, bundle, engine, iacPath, results, failures, issues, storedPaths>>

\* What is downloaded is not looked at: not its status, and tar only warns about
\* an archive that is cut short or is none. The files that it does not have stay
\* as the custom rules left them.
BundleExtracted ==
  /\ Goto("iac.bundle", "iac.path")
  /\ \/ bundle' = "whole" /\ rulesDir' = "vulnmap"
     \/ bundle' = "bad" /\ rulesDir' \in {rulesDir, "vulnmap"}
  /\ UNCHANGED <<iacOptions, engine, iacPath, results, failures, issues, storedPaths>>

------------------------------------------------------------------------------
(* One path *)

NextPath == IF iacPath = IacPaths THEN "iac.output" ELSE "iac.path"

\* The path's errors are results like others (formatTestError); its failures,
\* if any, are forgotten.
PathFails(from, errs) ==
  /\ Goto(from, NextPath)
  /\ results' = results \o errs /\ iacPath' = iacPath + 1
  /\ IF iacPath = IacPaths THEN CleanLocalCache ELSE UNCHANGED rulesDir
  /\ UNCHANGED <<iacOptions, bundle, engine, failures, issues, storedPaths>>

\* Options, a path outside the working directory, tags, a file or a directory
\* that cannot be read.
PathRejected == PathFails("iac.path", <<Error("Other")>>)

\* No file was parsed: NoFilesToScanError, or the errors of all files.
NothingParsed ==
  \E n \in 0..MaxFailures :
    PathFails("iac.path", IF n = 0 THEN <<Error("NoFiles")>> ELSE [i \in 1..n |-> Error("Other")])

\* Some files were parsed; failures of others are kept when the path is a folder.
FilesParsed ==
  /\ Goto("iac.path", "iac.scan")
  /\ failures' \in {failures, TRUE}
  /\ UNCHANGED <<iacOptions, rulesDir, bundle, engine, iacPath, results, issues, storedPaths>>

\* The engine cannot be built from the rules, or fails on a file.
ScanFails == PathFails("iac.scan", <<Error("Other")>>)

\* scanFiles, with custom severities. Custom rules with an invalid severity or
\* public id are failures.
FilesScanned ==
  /\ Goto("iac.scan", IF report THEN "iac.share" ELSE "iac.format")
  /\ engine # "none" \/ rulesDir # "none"
  /\ engine' = IF engine = "none" THEN rulesDir ELSE engine
  /\ failures' \in IF custom = "none" THEN {failures} ELSE {failures, TRUE}
  /\ UNCHANGED <<iacOptions, rulesDir, bundle, iacPath, results, issues, storedPaths>>

\* The organisation may not share results; the service refuses them.
ShareFails == PathFails("iac.share", <<Error("Other")>>)

Shared ==
  /\ Goto("iac.share", "iac.format")
  /\ storedPaths' = storedPaths \cup {iacPath}
  /\ UNCHANGED <<iacOptions, rulesDir, bundle, engine, iacPath, results, failures, issues>>

FormatFails == PathFails("iac.format", <<Error("Other")>>)

\* Issues below the severity threshold and ignored ones are not shown.
ResultsFormatted ==
  /\ Goto("iac.format", "iac.usage")
  /\ issues' \in BOOLEAN
  /\ UNCHANGED <<iacOptions, rulesDir, bundle, engine, iacPath, results, failures, storedPaths>>

LimitReached == PathFails("iac.usage", <<Error("Other")>>)

\* Any other error of the request is dropped.
UsageTracked ==
  /\ Goto("iac.usage", NextPath)
  /\ results' = Append(results, Scanned(issues)) /\ iacPath' = iacPath + 1
  /\ IF iacPath = IacPaths THEN CleanLocalCache ELSE UNCHANGED rulesDir
  /\ UNCHANGED <<iacOptions, bundle, engine, failures, issues, storedPaths>>

------------------------------------------------------------------------------
(* buildOutput *)

\* The positions of the errors among the results.
ErrorResults == {i \in DOMAIN results : results[i].error # "none"}
FirstError == results[CHOOSE i \in ErrorResults : \A j \in ErrorResults : i <= j].error
IssuesFound == \E i \in DOMAIN results : results[i].issues
PartialSuccess == ErrorResults # DOMAIN results

\* Mutant: JSON and SARIF are concluded as text is.
ThrownCode_AsText ==
  IF ErrorResults # {} /\ ~PartialSuccess THEN FirstError
  ELSE IF IssuesFound THEN "VULNS" ELSE "none"

\* The code that buildOutput throws, or none. As JSON, the code of the first
\* error hides VULNS; as text, an error is thrown only when no path succeeded.
ThrownCode ==
  IF output = "text"
  THEN IF ErrorResults # {} /\ ~PartialSuccess THEN FirstError
       ELSE IF IssuesFound THEN "VULNS" ELSE "none"
  ELSE IF output = "json" /\ ErrorResults # {} THEN FirstError
       ELSE IF IssuesFound THEN "VULNS"
       ELSE IF ErrorResults # {} THEN "Other" ELSE "none"

BuildOutput ==
  /\ Exit("iac.output", IF ThrownCode = "none" THEN 0 ELSE ExitCodeOf(ThrownCode))
  /\ UNCHANGED iacVars

IacNext ==
  \/ IacRejected \/ IacAccepted \/ RulesFail \/ CustomExtracted \/ BundleExtracted
  \/ PathRejected \/ NothingParsed \/ FilesParsed \/ ScanFails \/ FilesScanned
  \/ ShareFails \/ Shared \/ FormatFails \/ ResultsFormatted \/ LimitReached
  \/ UsageTracked \/ BuildOutput

------------------------------------------------------------------------------
\* What the exit code says is so: with 0 some path was scanned, none has issues
\* that are shown and, but for text output, none failed; with 1 a path has
\* issues; with 3 a path has nothing to scan and, but for JSON, none has issues.
IacExitIsHonest ==
  pc = "done" /\ results # <<>> =>
    /\ exitCode = 0 => PartialSuccess /\ ~IssuesFound /\ (output = "text" \/ ErrorResults = {})
    /\ exitCode = 1 => IssuesFound
    /\ exitCode = 3 => \E i \in DOMAIN results : results[i].error = "NoFiles"
    /\ exitCode = 3 /\ output # "json" => ~IssuesFound

\* The engine for Vulnmap's rules is built from Vulnmap's bundle, whatever files
\* an archive of custom rules has (local-cache.ts:144): such a file is used only
\* when custom rules were asked for and the bundle that came lacks it.
VulnmapRulesUsed ==
  engine = "custom" => custom # "none" /\ bundle = "bad"
==============================================================================
