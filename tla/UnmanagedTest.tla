---------------------------- MODULE UnmanagedTest ----------------------------
(***************************************************************************)
(* vulnmap test --unmanaged (lib/ecosystems/test.ts and                    *)
(* resolve-test-facts.ts): the C/C++ files of all paths are hashed; then   *)
(* the hashes of every scan are submitted, the service makes a dependency  *)
(* graph of them while the command polls, at intervals that grow, and the  *)
(* issues of the graph are fetched.  With --print-graph only the graphs    *)
(* are asked for.                                                          *)
(*                                                                         *)
(* The code of an error is an HTTP status, VULNS, or NoCode: none, or a    *)
(* word such as ECONNRESET.                                                *)
(***************************************************************************)
EXTENDS Integers, FiniteSets

CONSTANTS
  Paths,         \* number of paths given
  MaxScans,      \* bound: scan results of a path
  MinInterval,   \* minIntervalMs, maxIntervalMs and maxElapsedTime of
  MaxInterval,   \*   pollDepGraphAttributes
  MaxElapsed,
  Statuses       \* HTTP statuses of failed requests

ASSUME SizeAssumption == Paths \in Nat \ {0} /\ MaxScans \in Nat \ {0}
ASSUME TimeAssumption ==
  /\ MinInterval \in Nat \ {0} /\ MaxInterval \in Nat \ {0} /\ MaxElapsed \in Nat
  /\ MinInterval <= MaxInterval
ASSUME StatusAssumption == Statuses \subseteq 300..599

NoCode == 0
VULNS  == -1
Never  == -1

VARIABLES
  printGraph, json,   \* options
  pc,
  path,         \* the path to hash next
  scans,        \* number of scan results of the paths hashed
  next,         \* the scan to resolve next, or being resolved
  results,      \* scans with a result
  errors,       \* scans with an error
  orgMissing,   \* the error of an organisation that is not found
  attempts, elapsed,   \* of pollDepGraphAttributes
  job,          \* the service making the graph of the scan being polled
  waited,       \* history: time slept since its hashes were submitted
  readyAt,      \* history: what waited was when the graph was ready
  orgStatus,    \* history: what the organisation's lookup was refused with
  thrown,       \* code of the error that reaches handleError
  exitCode

options  == <<printGraph, json>>
outcome  == <<results, errors, orgMissing>>
pollVars == <<attempts, elapsed, job, waited, readyAt>>
vars == <<options, pc, path, scans, next, outcome, pollVars, orgStatus, thrown, exitCode>>

Init ==
  /\ printGraph \in BOOLEAN /\ json \in BOOLEAN
  /\ pc = "start"
  /\ path = 1 /\ scans = 0 /\ next = 1
  /\ results = {} /\ errors = {} /\ orgMissing = FALSE
  /\ attempts = 0 /\ elapsed = 0
  /\ job = "none" /\ waited = 0 /\ readyAt = Never
  /\ orgStatus = NoCode
  /\ thrown = NoCode /\ exitCode = 0

\* What a request is rejected with.
Rejections == Statuses \cup {NoCode}

Throw(from, code) ==
  /\ pc = from /\ pc' = "threw"
  /\ thrown' = code
  /\ UNCHANGED <<options, path, scans, next, outcome, pollVars, exitCode>>

Goto(from, to) == pc = from /\ pc' = to

------------------------------------------------------------------------------
(* Before the first scan is sent *)

\* The options or the credentials are not acceptable.
Rejected == (\E c \in {NoCode, 401, 422} : Throw("start", c)) /\ UNCHANGED orgStatus

Accepted ==
  /\ Goto("start", "scan")
  /\ UNCHANGED <<options, path, scans, next, outcome, pollVars, orgStatus, thrown, exitCode>>

ScanFails == Throw("scan", NoCode) /\ UNCHANGED orgStatus

\* plugin.scan; the organisation is asked for after the last path.
ScanPath ==
  /\ Goto("scan", IF path = Paths THEN "org" ELSE "scan")
  /\ path' = path + 1
  /\ \E n \in 0..MaxScans : scans' = scans + n
  /\ UNCHANGED <<options, next, outcome, pollVars, orgStatus, thrown, exitCode>>

\* Mutant: the error is made an Error without its code.
CodeOfOrgError_Lost(e) == NoCode

\* resolveAndTestFacts keeps the code of an error that says unauthorized. The
\* others are made an Error without a code, as are all with --print-graph.
CodeOfOrgError(e) == IF e \in {401, 403} /\ ~printGraph THEN e ELSE NoCode

\* getOrg: neither the default organisation nor the slug's id can be had.
OrgFails ==
  \E e \in Rejections : Throw("org", CodeOfOrgError(e)) /\ orgStatus' = e

\* No organisation has the slug.
OrgMissing ==
  /\ ~printGraph /\ Goto("org", "display")
  /\ orgMissing' = TRUE
  /\ UNCHANGED <<options, path, scans, next, results, errors, pollVars, orgStatus, thrown, exitCode>>

OrgFound ==
  /\ Goto("org", "submit")
  /\ UNCHANGED <<options, path, scans, next, outcome, pollVars, orgStatus, thrown, exitCode>>

------------------------------------------------------------------------------
(* One scan *)

NoJob == job' = "none" /\ waited' = 0 /\ readyAt' = Never /\ UNCHANGED <<attempts, elapsed>>

NextScan(from) ==
  /\ Goto(from, "submit")
  /\ next' = next + 1
  /\ NoJob
  /\ UNCHANGED <<options, path, scans, orgMissing, orgStatus, thrown, exitCode>>

Resolved(from) == NextScan(from) /\ results' = results \cup {next} /\ UNCHANGED errors

\* Mutant: errors with a status are not kept.
Failed_Continue(from, e) ==
  IF printGraph THEN Throw(from, NoCode) /\ UNCHANGED orgStatus
  ELSE /\ NextScan(from)
       /\ errors' = IF e \in 400..500 THEN errors ELSE errors \cup {next}
       /\ UNCHANGED results

\* An error of one scan is an entry among the errors, whatever it is; with
\* --print-graph nothing catches it.
Failed(from, e) ==
  IF printGraph THEN Throw(from, NoCode) /\ UNCHANGED orgStatus
  ELSE NextScan(from) /\ errors' = errors \cup {next} /\ UNCHANGED results

\* Mutant: the time is that of all scans.
PollStarts_KeepTime == attempts' = 1 /\ UNCHANGED elapsed

PollStarts == attempts' = 1 /\ elapsed' = 0

\* submitHashes, and the beginning of pollDepGraphAttributes.
Submit ==
  /\ next <= scans /\ Goto("submit", "poll")
  /\ PollStarts
  /\ job' = "running" /\ waited' = 0 /\ readyAt' = Never
  /\ UNCHANGED <<options, path, scans, next, outcome, orgStatus, thrown, exitCode>>

\* The service, whoever asks.
GraphReady ==
  /\ job = "running" /\ job' = "ready"
  /\ readyAt' = waited
  /\ UNCHANGED <<options, pc, path, scans, next, outcome, attempts, elapsed, waited,
                 orgStatus, thrown, exitCode>>

Interval ==
  IF MinInterval * attempts < MaxInterval THEN MinInterval * attempts ELSE MaxInterval

InTime == elapsed <= MaxElapsed

Pending ==
  /\ InTime /\ job = "running" /\ Goto("poll", "sleep")
  /\ UNCHANGED <<options, path, scans, next, outcome, pollVars, orgStatus, thrown, exitCode>>

\* Mutant: the time is not counted.
Wake_NoTime ==
  /\ Goto("sleep", "poll")
  /\ attempts' = attempts /\ elapsed' = elapsed /\ waited' = waited
  /\ UNCHANGED <<options, path, scans, next, outcome, job, readyAt, orgStatus, thrown, exitCode>>

Wake ==
  /\ Goto("sleep", "poll")
  /\ elapsed' = elapsed + Interval /\ waited' = waited + Interval
  /\ attempts' = attempts + 1
  /\ UNCHANGED <<options, path, scans, next, outcome, job, readyAt, orgStatus, thrown, exitCode>>

\* The loop has ended: 'max retries reached'.
TimedOut == ~InTime /\ Failed("poll", NoCode)

GraphReceived ==
  /\ InTime /\ job = "ready"
  /\ \/ /\ ~printGraph /\ Goto("poll", "issues") /\ NoJob
        /\ UNCHANGED <<options, path, scans, next, outcome, orgStatus, thrown, exitCode>>
     \/ printGraph /\ Resolved("poll")
     \/ printGraph /\ NextScan("poll") /\ UNCHANGED <<results, errors>>   \* no graph

\* fetchIssues, and the policy that is applied to them.
IssuesReceived == Resolved("issues")

RequestFails ==
  \E e \in Rejections :
    \/ next <= scans /\ Failed("submit", e)
    \/ InTime /\ Failed("poll", e)
    \/ Failed("issues", e)

EndOfScans ==
  /\ next > scans /\ Goto("submit", "display")
  /\ UNCHANGED <<options, path, scans, next, outcome, pollVars, orgStatus, thrown, exitCode>>

------------------------------------------------------------------------------
(* The end *)

\* What the plugin's display may throw, given the results and the errors.
DisplayErrors == {NoCode, VULNS}

\* JSON has the results alone; of the graphs only the first is printed.
Display ==
  /\ UNCHANGED orgStatus
  /\ \/ /\ printGraph => results # {}
        /\ Goto("display", "returned")
        /\ UNCHANGED <<options, path, scans, next, outcome, pollVars, thrown, exitCode>>
     \/ printGraph /\ results = {} /\ Throw("display", NoCode)
     \/ ~printGraph /\ ~json /\ \E c \in DisplayErrors : Throw("display", c)

\* process.exitCode: 8 bits, and 0 for what is not a number.
ExitCode == IF thrown = VULNS THEN 1 ELSE thrown % 256

HandleError ==
  /\ Goto("threw", "done")
  /\ exitCode' = ExitCode
  /\ UNCHANGED <<options, path, scans, next, outcome, pollVars, orgStatus, thrown>>

PrintResult ==
  /\ Goto("returned", "done")
  /\ UNCHANGED <<options, path, scans, next, outcome, pollVars, orgStatus, thrown, exitCode>>

Command ==
  \/ Rejected \/ Accepted \/ ScanFails \/ ScanPath
  \/ OrgFails \/ OrgMissing \/ OrgFound
  \/ Submit \/ Pending \/ Wake \/ TimedOut \/ GraphReceived \/ IssuesReceived
  \/ RequestFails \/ EndOfScans
  \/ Display \/ HandleError \/ PrintResult

Next == Command \/ GraphReady

Spec == Init /\ [][Next]_vars

\* The event loop runs the command; the service need never make a graph.
FairSpec == Spec /\ WF_vars(Command)

------------------------------------------------------------------------------
(* Properties *)

Codes == Rejections \cup {VULNS, 401, 403, 422}

TypeOK ==
  /\ printGraph \in BOOLEAN /\ json \in BOOLEAN
  /\ pc \in {"start", "scan", "org", "submit", "poll", "sleep", "issues", "display",
             "threw", "returned", "done"}
  /\ path \in 1..Paths + 1 /\ scans \in Nat /\ next \in 1..scans + 1
  /\ results \subseteq 1..scans /\ errors \subseteq 1..scans /\ orgMissing \in BOOLEAN
  /\ attempts \in Nat /\ elapsed \in 0..MaxElapsed + MaxInterval
  /\ job \in {"none", "running", "ready"}
  /\ waited \in Nat /\ readyAt \in Nat \cup {Never}
  /\ orgStatus \in Rejections
  /\ thrown \in Codes
  /\ exitCode \in 0..255

\* Every scan that has been dealt with has one result or one error, and when the
\* results are shown all have, unless there is no organisation: a failure of
\* one scan costs the others nothing.
Accounted ==
  ~printGraph /\ pc \in {"submit", "poll", "sleep", "issues", "display", "returned"} =>
    /\ results \cup errors = 1..next - 1
    /\ results \cap errors = {}
    /\ pc \in {"display", "returned"} /\ ~orgMissing => next = scans + 1

\* A scan is given up for time only when it has itself been waited for longer
\* than MaxElapsed, and its graph was not ready MaxInterval before that.
GivenUpLate ==
  pc = "poll" /\ ~InTime =>
    /\ waited > MaxElapsed
    /\ job = "ready" => readyAt > MaxElapsed - MaxInterval

\* Credentials that are refused when the organisation is looked up are told by
\* an exit code that is none of the CLI's own.
UnauthorizedIsTold ==
  pc = "done" /\ orgStatus \in {401, 403} /\ ~printGraph => exitCode \notin 0..3

\* The command ends, even if the service never makes a graph.
TestEnds == <>(pc = "done")
==============================================================================
