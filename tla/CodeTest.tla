------------------------------- MODULE CodeTest ------------------------------
(***************************************************************************)
(* vulnmap code test: the settings of the organisation, an analysis by the *)
(* service (external), and from its SARIF the results to print, the files  *)
(* to write and the exit code.                                             *)
(***************************************************************************)
EXTENDS Program

CONSTANT MaxResults   \* bound: results of an analysis

VARIABLES
  codeOptions,   \* those of report, print (--json or --sarif), jsonFile and sarifFile given
  ignoreCA,      \* global.ignoreUnknownCA
  insecure,      \* its value given by --insecure
  sarif,         \* results of the analysis that are kept
  displayed,     \* results in the text for the user
  printed,       \* results in what main is given to print
  files          \* files[f]: results in file f, for those that main is given to write

codeVars == <<codeOptions, ignoreCA, insecure, sarif, displayed, printed, files>>

CodeInit ==
  /\ codeOptions = {} /\ ignoreCA = FALSE /\ insecure = FALSE
  /\ sarif = {} /\ displayed = {} /\ printed = {} /\ files = <<>>

\* A result is of a rule about security or of another; it may be suppressed; it
\* is full, it is bare of a level or a location, or its level is none of note,
\* warning and error.
Results == [rule : {"security", "other"}, suppressed : BOOLEAN, shape : {"full", "bare", "odd"}]

\* Credentials, an unknown organisation, a feature that is off, the usage limit;
\* or a command that is not code, before any request.
SettingsRefused == Exit("code", 2) /\ UNCHANGED codeVars

SettingsReceived ==
  /\ Goto("code", "code.engine")
  /\ codeOptions' \in SUBSET {"report", "print", "jsonFile", "sarifFile"}
  /\ insecure' \in BOOLEAN /\ ignoreCA' = insecure'
  /\ UNCHANGED <<sarif, displayed, printed, files>>

\* logLocalCodeEngineVersion: with --debug, a local engine with a plain http url
\* is asked for its status without a check of certificates.
EngineAsked ==
  /\ Goto("code.engine", "code.status") /\ ignoreCA' = TRUE
  /\ UNCHANGED <<codeOptions, insecure, sarif, displayed, printed, files>>

EngineAnswers ==
  /\ Goto("code.status", "code.analysis") /\ ignoreCA' = insecure
  /\ UNCHANGED <<codeOptions, insecure, sarif, displayed, printed, files>>

NoEngineAsked == Goto("code.engine", "code.analysis") /\ UNCHANGED codeVars

\* The client's errors, each with its own message; --severity-threshold=critical.
AnalysisFails == Exit("code.analysis", 2) /\ UNCHANGED codeVars

\* NoSupportedSastFiles
NothingToAnalyse == Exit("code.analysis", 3) /\ UNCHANGED codeVars

\* getSecurityResultsOnly
SecurityResults(found) == {r \in found : r.rule = "security"}

\* Only the report flow receives results that are suppressed.
Analysed ==
  /\ Goto("code.analysis", "code.display")
  /\ \E found \in SUBSET Results :
       /\ Cardinality(found) <= MaxResults
       /\ "report" \in codeOptions \/ \A r \in found : ~r.suppressed
       /\ sarif' = SecurityResults(found)
  /\ UNCHANGED <<codeOptions, ignoreCA, insecure, displayed, printed, files>>

\* Mutant: suppressed results count as issues.
FilterIgnored_Not(results) == results

\* filterIgnoredIssues
FilterIgnored(results) == {r \in results : ~r.suppressed}

FoundIssues == IF "report" \in codeOptions THEN FilterIgnored(sarif) ELSE sarif

\* getIssues throws for a level that it does not know; an analysis without a
\* list of results throws too.
DisplayFails ==
  /\ sarif = {} \/ \E r \in FoundIssues : r.shape = "odd"
  /\ Exit("code.display", 2) /\ UNCHANGED codeVars

Displayed ==
  /\ \A r \in FoundIssues : r.shape # "odd"
  /\ Goto("code.display", "code.results")
  /\ displayed' = {r \in sarif : ~r.suppressed /\ r.shape = "full"}
  /\ printed' = IF "print" \in codeOptions THEN sarif ELSE displayed'
  /\ UNCHANGED <<codeOptions, ignoreCA, insecure, sarif, files>>

\* throwIssuesError gives main both files to write, each with the whole SARIF.
CodeIssuesFound ==
  /\ FoundIssues # {} /\ Exit("code.results", 1)
  /\ files' = [f \in codeOptions \cap {"jsonFile", "sarifFile"} |-> sarif]
  /\ UNCHANGED <<codeOptions, ignoreCA, insecure, sarif, displayed, printed>>

\* Without issues only the SARIF result is returned.
NoCodeIssues ==
  /\ FoundIssues = {} /\ Exit("code.results", 0)
  /\ files' = [f \in codeOptions \cap {"sarifFile"} |-> sarif]
  /\ UNCHANGED <<codeOptions, ignoreCA, insecure, sarif, displayed, printed>>

CodeNext ==
  \/ SettingsRefused \/ SettingsReceived \/ EngineAsked \/ EngineAnswers \/ NoEngineAsked
  \/ AnalysisFails \/ NothingToAnalyse \/ Analysed \/ DisplayFails \/ Displayed
  \/ CodeIssuesFound \/ NoCodeIssues

------------------------------------------------------------------------------
\* The exit code tells whether a result without a suppression remains: 0 that none
\* does, 1 that some do and that each file asked for is handed over (with 0 the JSON
\* file is not).  The text shows exactly those results, but the ones without a level
\* or a location; what --json and --sarif print and the files hold every result,
\* the suppressed ones too (sast/index.ts:54-111, output-format.ts:24-29).
CodeExitIsHonest ==
  pc = "done" /\ sarif # {} =>
    /\ exitCode = 0 => \A r \in sarif : r.suppressed
    /\ exitCode = 1 => /\ \E r \in sarif : ~r.suppressed
                       /\ codeOptions \cap {"jsonFile", "sarifFile"} \subseteq DOMAIN files
    /\ exitCode \in {0, 1} =>
         printed = IF "print" \in codeOptions THEN sarif
                   ELSE {r \in sarif : ~r.suppressed /\ r.shape # "bare"}
    /\ \A f \in DOMAIN files : files[f] = sarif
==============================================================================
