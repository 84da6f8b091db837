------------------------------- MODULE Monitor -------------------------------
(***************************************************************************)
(* vulnmap monitor (cli/commands/monitor/index.ts): take a snapshot of     *)
(* every project found in the paths and have the service monitor it.  The  *)
(* projects of package managers are scanned and posted path by path, and   *)
(* an error is kept as a result.  Of containers ("docker") and unmanaged   *)
(* projects ("cpp", lib/ecosystems/monitor.ts) all paths are scanned       *)
(* first, then every snapshot is sent; for unmanaged ones the service      *)
(* answers with a token and resolves the snapshot while the command polls. *)
(*                                                                         *)
(* A project is its path and its number in it.  An error is an HTTP status *)
(* or 0, any other error.                                                  *)
(***************************************************************************)
EXTENDS Integers, Sequences, FiniteSets

CONSTANTS
  Paths,         \* number of paths given
  MaxProjects,   \* bound: projects found in a path
  MaxAttempts,   \* what the service may send as pollingTask.maxAttempts
  Statuses,      \* HTTP statuses of failed requests
  MaxPolls       \* bound of the history variable polls

ASSUME SizeAssumption ==
  Paths \in Nat \ {0} /\ MaxProjects \in Nat \ {0} /\ MaxPolls \in Nat \ {0}
ASSUME AttemptsAssumption == MaxAttempts \subseteq Nat
ASSUME StatusAssumption == Statuses \subseteq 300..599

Projects == (1..Paths) \X (1..MaxProjects)

VARIABLES
  flow,         \* "projects", "docker" or "cpp"
  pc,
  path,         \* the path to scan next
  todo,         \* projects found and not yet sent, in order
  found,        \* history: projects the plugins have found
  good, bad,    \* results: projects reported as monitored, as failed
  pathResult,   \* results about a path: "none", "error", "noManifest"
  attempts,     \* maxAttempts of the job that is polled
  job,          \* the service resolving the snapshot that is polled
  service,      \* history: what the service did with the snapshot of a project
  polls,        \* history: how often the job has been found pending
  exitCode

progress == <<path, todo, found, good, bad, pathResult>>
jobVars  == <<attempts, job, polls>>
vars == <<flow, pc, progress, jobVars, service, exitCode>>

Errors == Statuses \cup {0}

Init ==
  /\ flow \in {"projects", "docker", "cpp"}
  /\ pc = "start"
  /\ path = 1
  /\ todo = <<>> /\ found = {}
  /\ good = {} /\ bad = {}
  /\ pathResult = [p \in 1..Paths |-> "none"]
  /\ attempts = 0
  /\ job = "none"
  /\ service = [r \in Projects |-> "unknown"]
  /\ polls = 0
  /\ exitCode = 0

Current == Head(todo)

\* handleError of main.ts: an error thrown by the command.
Abort(from) ==
  /\ pc = from /\ pc' = "done"
  /\ exitCode' = 2

\* Nobody looks at the results any more.
DropResults ==
  /\ good' = {} /\ bad' = {} /\ todo' = <<>>
  /\ job' = "none" /\ polls' = 0 /\ attempts' = 0
  /\ UNCHANGED <<flow, path, found, pathResult>>

------------------------------------------------------------------------------
(* Before the first request *)

\* Options, credentials, tags or attributes are not acceptable.
Rejected == Abort("start") /\ DropResults /\ UNCHANGED service

Accepted ==
  /\ pc = "start" /\ pc' = "scan"
  /\ UNCHANGED <<flow, progress, jobVars, service, exitCode>>

\* The path does not exist, nothing supported is in it, or the plugin fails.
PathFails ==
  /\ flow = "projects" /\ pc = "scan" /\ path <= Paths
  /\ \E r \in {"error", "noManifest"} : pathResult' = [pathResult EXCEPT ![path] = r]
  /\ path' = path + 1
  /\ UNCHANGED <<flow, pc, todo, found, good, bad, jobVars, service, exitCode>>

\* The plugin has found projects; it may have failed for some of the files.
PathScanned ==
  /\ pc = "scan" /\ path <= Paths
  /\ \E n \in 0..MaxProjects :
       /\ todo' = todo \o [k \in 1..n |-> <<path, k>>]
       /\ found' = found \cup ({path} \X (1..n))
  /\ \/ UNCHANGED pathResult
     \/ flow = "projects" /\ pathResult' = [pathResult EXCEPT ![path] = "error"]
  /\ path' = path + 1
  /\ pc' = IF flow = "projects" THEN "send" ELSE "scan"
  /\ UNCHANGED <<flow, good, bad, jobVars, service, exitCode>>

\* An ecosystem's plugin fails, or a policy cannot be read.
EcosystemScanFails ==
  /\ flow # "projects" /\ path <= Paths
  /\ Abort("scan") /\ DropResults /\ UNCHANGED service

\* All paths of an ecosystem have been scanned, or all projects of a path sent.
EndOfPaths ==
  /\ pc = "scan" /\ path > Paths
  /\ pc' = IF flow = "projects" THEN "report" ELSE "send"
  /\ UNCHANGED <<flow, progress, jobVars, service, exitCode>>
EndOfProjects ==
  /\ pc = "send" /\ todo = <<>>
  /\ pc' = IF flow = "projects" THEN "scan" ELSE "report"
  /\ UNCHANGED <<flow, progress, jobVars, service, exitCode>>

------------------------------------------------------------------------------
(* One snapshot *)

ProjectDone(from) ==
  /\ pc = from /\ pc' = "send"
  /\ todo # <<>> /\ todo' = Tail(todo)
  /\ job' = "none" /\ polls' = 0 /\ attempts' = 0
  /\ UNCHANGED <<flow, path, found, pathResult, exitCode>>

Good(from) == ProjectDone(from) /\ good' = good \cup {Current} /\ UNCHANGED bad
Bad(from)  == ProjectDone(from) /\ bad' = bad \cup {Current} /\ UNCHANGED good

\* A status that ends the command for an ecosystem: 401 and the other 4xx.
Fatal(e) == flow # "projects" /\ e >= 400 /\ e < 500

\* Mutant: the first failure ends the loop over the projects of a path.
Failed_Stops(from, e) ==
  IF Fatal(e) THEN Abort(from) /\ DropResults
  ELSE /\ pc = from /\ pc' = "send" /\ todo' = <<>>
       /\ bad' = bad \cup {Current}
       /\ job' = "none" /\ polls' = 0 /\ attempts' = 0
       /\ UNCHANGED <<flow, path, found, pathResult, exitCode, good>>

Failed(from, e) ==
  IF Fatal(e) THEN Abort(from) /\ DropResults ELSE Bad(from)

\* The project has no dependency graph, its policy cannot be read: nothing
\* is sent.  An ecosystem's policy is read outside of the try block.
NotSent ==
  /\ todo # <<>> /\ UNCHANGED service
  /\ \/ flow = "projects" /\ Bad("send")
     \/ flow = "docker" /\ Abort("send") /\ DropResults

\* The PUT of a project or an image is answered; the service may have found
\* nothing to monitor.
Answered ==
  /\ flow \in {"projects", "docker"} /\ Good("send")
  /\ \E a \in {"accepted", "refused"} : service' = [service EXCEPT ![Current] = a]

\* It is answered with an error or not at all, processed or not.
SendFails ==
  /\ todo # <<>>
  /\ \E e \in Errors : Failed("send", e)
  /\ \/ UNCHANGED service
     \/ flow # "cpp" /\ service' = [service EXCEPT ![Current] = "accepted"]

\* requestMonitorPollingToken
TokenReceived ==
  /\ flow = "cpp" /\ todo # <<>>
  /\ pc = "send" /\ pc' = "poll"
  /\ attempts' \in MaxAttempts
  /\ job' = "running"
  /\ UNCHANGED <<flow, progress, service, exitCode, polls>>

\* The service comes to an end with the snapshot, whoever asks; a project that
\* was deactivated is resolved but not monitored.
JobEnds ==
  /\ job = "running"
  /\ job' \in {"monitored", "inactive", "failed"}
  /\ service' = [service EXCEPT ![Current] =
       IF job' = "monitored" THEN "accepted" ELSE "refused"]
  /\ UNCHANGED <<flow, pc, progress, attempts, polls, exitCode>>

\* Mutant: the status of the job is not looked at.
ProcessingFailed_Ignored == FALSE

\* handleProcessingStatus
ProcessingFailed == job = "failed"

IsMonitored == job = "monitored"

\* pollingMonitorWithTokenUntilDone: the answers that end the recursion.
PollSucceeds == pc = "poll" /\ IsMonitored /\ Good("poll") /\ UNCHANGED service
PollFails ==
  /\ pc = "poll" /\ UNCHANGED service
  /\ \/ ProcessingFailed /\ Bad("poll")
     \/ \E e \in Errors : Failed("poll", e)

\* delayNextStep adds one to its own copy of attemptsCount, which is 0 in every
\* call.
AttemptsExceeded == 0 + 1 > attempts

\* The job is pending: give up, or sleep and poll again.
Pending == ~IsMonitored /\ ~ProcessingFailed
GiveUp == Pending /\ AttemptsExceeded /\ Bad("poll") /\ UNCHANGED service
Delay ==
  /\ Pending /\ ~AttemptsExceeded
  /\ pc = "poll" /\ pc' = "sleep"
  /\ polls' = IF polls < MaxPolls THEN polls + 1 ELSE polls
  /\ UNCHANGED <<flow, progress, attempts, job, service, exitCode>>
PollAgain ==
  /\ pc = "sleep" /\ pc' = "poll"
  /\ UNCHANGED <<flow, progress, jobVars, service, exitCode>>

------------------------------------------------------------------------------
(* The report *)

Messages == {pathResult[p] : p \in 1..Paths}

\* Mutant: one good result is enough.
AllOk_Some == good # {} \/ (bad = {} /\ Messages = {"none"})

AllOk == bad = {} /\ Messages = {"none"}

\* The error has the messages of all results; handleError looks for that of a
\* path without a supported manifest in it.
ExitCodeOf == IF "noManifest" \in Messages THEN 3 ELSE 2

Report ==
  /\ pc = "report" /\ pc' = "done"
  /\ exitCode' = IF AllOk THEN 0 ELSE ExitCodeOf
  /\ UNCHANGED <<flow, progress, jobVars, service>>

Command ==
  \/ Rejected \/ Accepted \/ PathFails \/ PathScanned \/ EcosystemScanFails
  \/ EndOfPaths \/ EndOfProjects \/ NotSent \/ Answered \/ SendFails
  \/ TokenReceived \/ PollSucceeds \/ PollFails \/ GiveUp \/ Delay \/ PollAgain
  \/ Report

Next == Command \/ JobEnds

Spec == Init /\ [][Next]_vars

\* The event loop runs the command; nothing makes the service answer.
FairSpec == Spec /\ WF_vars(Command)

------------------------------------------------------------------------------
(* Properties *)

TypeOK ==
  /\ flow \in {"projects", "docker", "cpp"}
  /\ pc \in {"start", "scan", "send", "poll", "sleep", "report", "done"}
  /\ path \in 1..Paths + 1
  /\ todo \in Seq(Projects)
  /\ found \subseteq Projects /\ good \subseteq Projects /\ bad \subseteq Projects
  /\ pathResult \in [1..Paths -> {"none", "error", "noManifest"}]
  /\ attempts \in MaxAttempts \cup {0}
  /\ job \in {"none", "running", "monitored", "inactive", "failed"}
  /\ service \in [Projects -> {"unknown", "accepted", "refused"}]
  /\ polls \in 0..MaxPolls
  /\ exitCode \in {0, 2, 3}

Remaining == {todo[i] : i \in DOMAIN todo}

\* "this allow this inner loop to keep scanning the projects even if 1 in 100
\* fails": until the command is aborted, every project found is either still to
\* be sent or has exactly one result; the projects of package managers are
\* never dropped once the command has started.
NoneForgotten ==
  pc \in {"scan", "send", "poll", "sleep", "report"}
    \/ (flow = "projects" /\ path > 1) =>
    /\ found = Remaining \cup good \cup bad
    /\ good \cap bad = {} /\ Remaining \cap (good \cup bad) = {}
    /\ pc = "report" => todo = <<>> /\ path = Paths + 1

\* What is reported as monitored was answered so by the service, and for an
\* unmanaged project it is monitored, whatever answers were lost on the way.
ReportedIsMonitored ==
  \A r \in good :
    service[r] = "accepted" \/ (flow # "cpp" /\ service[r] = "refused")

\* The exit code 0 means that every path was scanned and the service has every
\* project found.
SuccessIsComplete ==
  pc = "done" /\ exitCode = 0 =>
    /\ path = Paths + 1 /\ Messages = {"none"}
    /\ \A r \in found : service[r] # "unknown"
    /\ flow = "cpp" => \A r \in found : service[r] = "accepted"

Promise == INSTANCE MonitorPromise WITH
  missed <- Messages # {"none"},
  ended  <- IF pc # "done" THEN "no" ELSE IF exitCode = 0 THEN "success" ELSE "failure"

\* Whatever fails, is late or is lost: each project found gets one result that is
\* never taken back, unless the command of an ecosystem is aborted; the service is
\* given none twice; nothing is concluded before all are settled, and the exit
\* code is 0 exactly if nothing failed.
KeepsMonitorPromise == Promise!Spec

\* The command ends if the service ends every job it has begun with a project
\* that is monitored or with an error.
MonitorEnds == []<>(job \notin {"running", "inactive"}) => <>(pc = "done")

\* "Exceeded Polling maxAttempts": a job is not found pending more often than
\* the service allowed.
PollsLimited == polls <= attempts
==============================================================================
