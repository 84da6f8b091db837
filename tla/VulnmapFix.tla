----------------------------- MODULE VulnmapFix -----------------------------
(***************************************************************************)
(* vulnmap fix (packages/vulnmap-fix and src/cli/commands/fix): the tested *)
(* projects are grouped by scan type, each group goes to a plugin, the     *)
(* Python plugin groups its projects by manifest and gives each group to a *)
(* handler.  Groups run concurrently: a handler is suspended at every      *)
(* await, and what it returns is merged when it has ended.                 *)
(*                                                                         *)
(* How a handler changes a manifest is abstracted to what it reports and   *)
(* whether a fix was applied (module PipRequirements looks inside one).    *)
(* The order of the projects of a group is any order.                      *)
(***************************************************************************)
EXTENDS Integers, FiniteSets

CONSTANTS
  Projects,        \* the projects vulnmap test has returned results for
  Concurrency,     \* scan types processed at a time
  Faults           \* what may go wrong, see below

ScanTypes == {"pip", "poetry", "npm"}
Handlers  == {"requirements", "pipfile", "poetry"}

ASSUME ConcurrencyAssumption == Concurrency \in Nat \ {0}
\* "throw": what a handler does outside its try fails; "write": a write fails
\* after an earlier one of the same project.
ASSUME FaultsAssumption == Faults \subseteq {"throw", "write"}
\* Not a project: what stands for results that have no "python".
ASSUME MissingAssumption == "missing" \notin Projects

VARIABLES
  project,      \* what the test said of each project
  override,     \* the option --package-manager
  dryRun,       \* the option --dry-run
  task,         \* state of fix()'s call for a scan type
  handler,      \* state of a handler in the call for a scan type
  response,     \* what a handler has put into its result so far
  lists,        \* handlerResult.python of pythonFix's call for a scan type
  results,      \* resultsByPlugin: what is under "python", if anything
  exceptions,   \* scan types whose plugin could not be loaded or has thrown
  applied,      \* history: projects with a fix on the disk
  through,      \* history: projects fixed through another one's files
  outcome       \* what the command ends with

inputs == <<project, override, dryRun>>
vars == <<inputs, task, handler, response, lists, results, exceptions, applied,
          through, outcome>>

\* targetFile by the names that getHandlerType tells apart.
Tested ==
  {[type |-> t, file |-> f, vulnerable |-> v, pins |-> p] :
     t \in ScanTypes, f \in {"none", "txt", "Pipfile", "pyproject", "other"},
     v \in BOOLEAN, p \in BOOLEAN}
\* The manifests that vulnmap test returns for a package manager.
Possible(k) ==
  /\ k.type = "pip" => k.file \in {"none", "txt", "Pipfile", "other"}
  /\ k.type = "poetry" => k.file = "pyproject"
  /\ k.type = "npm" => k.file = "other"
  /\ k.pins => k.vulnerable

NoFix   == [succeeded |-> {}, failed |-> {}]
NoLists == [succeeded |-> {}, failed |-> {}, skipped |-> {}]
Missing == [succeeded |-> {}, failed |-> {}, skipped |-> {"missing"}]

Init ==
  /\ project \in [Projects -> {k \in Tested : Possible(k)}]
  /\ override \in {"none", "pip", "poetry", "other"}
  /\ dryRun \in BOOLEAN
  /\ task = [s \in ScanTypes |-> "waiting"]
  /\ handler = [s \in ScanTypes |-> [h \in Handlers |-> "idle"]]
  /\ response = [s \in ScanTypes |-> [h \in Handlers |-> NoFix]]
  /\ lists = [s \in ScanTypes |-> NoLists]
  /\ results = Missing
  /\ exceptions = {}
  /\ applied = {}
  /\ through = {}
  /\ outcome = "none"

------------------------------------------------------------------------------
(* Grouping *)

PartitionByVulnerable == {p \in Projects : project[p].vulnerable}

GroupEntitiesPerScanType(s) == {p \in PartitionByVulnerable : project[p].type = s}

GetTypeFromPackageManager ==
  CASE override = "pip" -> "requirements"
    [] override = "poetry" -> "poetry"
    [] OTHER -> "none"

GetHandlerType(p) ==
  CASE project[p].file = "none" -> "none"
    [] project[p].file # "none" /\ override # "none" -> GetTypeFromPackageManager
    [] project[p].file = "txt" /\ override = "none" -> "requirements"
    [] project[p].file = "Pipfile" /\ override = "none" -> "pipfile"
    [] project[p].file = "pyproject" /\ override = "none" -> "poetry"
    [] OTHER -> "none"

MapEntitiesPerHandlerType(s, h) ==
  {p \in GroupEntitiesPerScanType(s) : GetHandlerType(p) = h}

\* isSupported: the remediation has pins.
PartitionByFixable(s, h) ==
  {p \in MapEntitiesPerHandlerType(s, h) : project[p].pins}

------------------------------------------------------------------------------
(* fix() and pythonFix() *)

Running == {s \in ScanTypes : task[s] = "running"}

\* loadPlugin knows no plugin for the scan type.
UnsupportedType(s) ==
  /\ task[s] = "waiting" /\ GroupEntitiesPerScanType(s) # {}
  /\ Cardinality(Running) < Concurrency
  /\ s \notin {"pip", "poetry"}
  /\ task' = [task EXCEPT ![s] = "ended"]
  /\ exceptions' = exceptions \cup {s}
  /\ UNCHANGED <<inputs, handler, response, lists, results, applied, through,
                 outcome>>

\* Mutant: projects without a handler are dropped.
StartPlugin_NoSkipped(s) ==
  /\ task[s] = "waiting" /\ GroupEntitiesPerScanType(s) # {}
  /\ Cardinality(Running) < Concurrency
  /\ s \in {"pip", "poetry"}
  /\ task' = [task EXCEPT ![s] = "running"]
  /\ handler' = [handler EXCEPT ![s] = [h \in Handlers |->
       IF MapEntitiesPerHandlerType(s, h) = {} THEN "ended" ELSE "partition"]]
  /\ UNCHANGED <<inputs, response, lists, results, exceptions, applied, through,
                 outcome>>

\* pythonFix up to its pMap, which starts every handler that has projects.
StartPlugin(s) ==
  /\ task[s] = "waiting" /\ GroupEntitiesPerScanType(s) # {}
  /\ Cardinality(Running) < Concurrency
  /\ s \in {"pip", "poetry"}
  /\ task' = [task EXCEPT ![s] = "running"]
  /\ lists' = [lists EXCEPT ![s].skipped =
       {p \in GroupEntitiesPerScanType(s) : GetHandlerType(p) = "none"}]
  /\ handler' = [handler EXCEPT ![s] = [h \in Handlers |->
       IF MapEntitiesPerHandlerType(s, h) = {} THEN "ended" ELSE "partition"]]
  /\ UNCHANGED <<inputs, response, results, exceptions, applied, through, outcome>>

At(s, h, from, to) ==
  handler[s][h] = from /\ handler' = [handler EXCEPT ![s][h] = to]

\* The notFixable projects are reported before the handler is called.
Partition(s, h) ==
  /\ At(s, h, "partition", IF h = "requirements" THEN "fix" ELSE "tool")
  /\ lists' = [lists EXCEPT ![s].skipped =
       @ \cup (MapEntitiesPerHandlerType(s, h) \ PartitionByFixable(s, h))]
  /\ UNCHANGED <<inputs, task, response, results, exceptions, applied, through,
                 outcome>>

\* checkPackageToolSupported: an unsupported version is only reported.
CheckPackageToolSupported(s, h) ==
  /\ At(s, h, "tool", "fix")
  /\ UNCHANGED <<inputs, task, response, lists, results, exceptions, applied,
                 through, outcome>>

\* The tool cannot be asked for its version, or poetry's generateUpgrades, which
\* is outside the try, cannot read pyproject.toml: what the handler has
\* collected is lost and all of its projects are reported as failed.
HandlerThrows(s, h) ==
  /\ "throw" \in Faults
  /\ \/ At(s, h, "tool", "ended")
     \/ /\ h = "poetry" /\ At(s, h, "fix", "ended")
        /\ PartitionByFixable(s, h) # response[s][h].succeeded \cup response[s][h].failed
  /\ lists' = [lists EXCEPT ![s].failed = @ \cup MapEntitiesPerHandlerType(s, h)]
  /\ UNCHANGED <<inputs, task, response, results, exceptions, applied, through,
                 outcome>>

\* The result of a handler is merged when it returns.
HandlerReturns(s, h) ==
  /\ At(s, h, "fix", "ended")
  /\ PartitionByFixable(s, h) = response[s][h].succeeded \cup response[s][h].failed
  /\ lists' = [lists EXCEPT ![s].failed = @ \cup response[s][h].failed,
                            ![s].succeeded = @ \cup response[s][h].succeeded]
  /\ UNCHANGED <<inputs, task, response, results, exceptions, applied, through,
                 outcome>>

------------------------------------------------------------------------------
(* The handlers, one project at a time *)

Unprocessed(s, h, p) ==
  /\ handler[s][h] = "fix"
  /\ p \in PartitionByFixable(s, h)
  /\ p \notin response[s][h].succeeded \cup response[s][h].failed

Report(s, h, list, p) ==
  /\ response' = IF list = "succeeded"
                 THEN [response EXCEPT ![s][h].succeeded = @ \cup {p}]
                 ELSE [response EXCEPT ![s][h].failed = @ \cup {p}]
  /\ UNCHANGED <<inputs, task, handler, lists, results, exceptions, outcome>>

\* Nothing is written, and no package tool is run, in a dry run.
ApplyFix(p) == applied' = IF dryRun THEN applied ELSE applied \cup {p}

\* At least one change was successful.
FixSucceeds(s, h, p) ==
  /\ Unprocessed(s, h, p)
  /\ ApplyFix(p)
  /\ Report(s, h, "succeeded", p)
  /\ UNCHANGED through

\* No change could be computed or made; or a requirements file could not be
\* written after another one had been.
FixFails(s, h, p) ==
  /\ Unprocessed(s, h, p)
  /\ Report(s, h, "failed", p)
  /\ \/ UNCHANGED applied
     \/ h = "requirements" /\ "write" \in Faults /\ ApplyFix(p)
  /\ UNCHANGED through

\* The requirements file of the project was among the files of another one.
FixedThrough(s, h, p) ==
  /\ h = "requirements"
  /\ Unprocessed(s, h, p)
  /\ response[s][h].succeeded # {}
  /\ through' = through \cup {p}
  /\ Report(s, h, "succeeded", p)
  /\ UNCHANGED applied

------------------------------------------------------------------------------
(* The end of fix() and of the command *)

\* resultsByPlugin = {...resultsByPlugin, ...results}: the key is the plugin's.
PluginReturns(s) ==
  /\ task[s] = "running"
  /\ \A h \in Handlers : handler[s][h] = "ended"
  /\ task' = [task EXCEPT ![s] = "ended"]
  /\ results' = lists[s]
  /\ UNCHANGED <<inputs, handler, response, lists, exceptions, applied, through,
                 outcome>>

Reported == IF results = Missing THEN NoLists ELSE results

CalculateFixed  == Cardinality(Reported.succeeded)
CalculateFailed ==
  Cardinality(Reported.failed) + Cardinality(Reported.skipped)
    + Cardinality(UNION {GroupEntitiesPerScanType(s) : s \in exceptions})

\* The command throws its summary if there is nothing to show for it.
Finish ==
  /\ outcome = "none"
  /\ \A s \in ScanTypes : task[s] = "ended" \/ GroupEntitiesPerScanType(s) = {}
  /\ outcome' = IF \/ Projects = {}
                   \/ PartitionByVulnerable # {} /\ CalculateFailed > 0
                                                 /\ CalculateFixed = 0
                THEN "error" ELSE "summary"
  /\ UNCHANGED <<inputs, task, handler, response, lists, results, exceptions,
                 applied, through>>

HandlerStep(s, h) ==
  \/ Partition(s, h) \/ CheckPackageToolSupported(s, h)
  \/ HandlerThrows(s, h) \/ HandlerReturns(s, h)
  \/ \E p \in Projects :
       FixSucceeds(s, h, p) \/ FixFails(s, h, p) \/ FixedThrough(s, h, p)

Next ==
  \/ \E s \in ScanTypes :
       \/ UnsupportedType(s) \/ StartPlugin(s) \/ PluginReturns(s)
       \/ \E h \in Handlers : HandlerStep(s, h)
  \/ Finish

Spec == Init /\ [][Next]_vars

------------------------------------------------------------------------------
(* Properties *)

ListsOf(l) == l.succeeded \cup l.failed \cup l.skipped

TypeOK ==
  /\ project \in [Projects -> {k \in Tested : Possible(k)}]
  /\ override \in {"none", "pip", "poetry", "other"} /\ dryRun \in BOOLEAN
  /\ task \in [ScanTypes -> {"waiting", "running", "ended"}]
  /\ handler \in [ScanTypes -> [Handlers ->
                    {"idle", "partition", "tool", "fix", "ended"}]]
  /\ response \in [ScanTypes -> [Handlers ->
                    [succeeded : SUBSET Projects, failed : SUBSET Projects]]]
  /\ lists \in [ScanTypes -> [succeeded : SUBSET Projects,
                  failed : SUBSET Projects, skipped : SUBSET Projects]]
  /\ results = Missing \/ results \in {lists[s] : s \in {"pip", "poetry"}}
  /\ exceptions \subseteq ScanTypes
  /\ applied \subseteq Projects /\ through \subseteq Projects
  /\ outcome \in {"none", "summary", "error"}

\* A failure of one group stays in that group: whatever a handler throws, the
\* Python plugin returns its lists, and only a scan type without a plugin
\* is reported as an exception.
PluginsNeverThrow == exceptions \cap {"pip", "poetry"} = {}

\* When only one scan type is Python's, every vulnerable project is in the
\* summary, however many groups there are and whichever of them fail.
EveryProjectReported ==
  outcome # "none"
    /\ (GroupEntitiesPerScanType("pip") = {} \/ GroupEntitiesPerScanType("poetry") = {})
  => PartitionByVulnerable =
       ListsOf(Reported) \cup UNION {GroupEntitiesPerScanType(s) : s \in exceptions}

\* A project listed as fixed is fixed on the disk, or through one that is; in
\* a dry run nothing is.
SucceededIsApplied ==
  IF dryRun THEN applied = {}
  ELSE /\ Reported.succeeded \subseteq applied \cup through
       /\ Reported.succeeded \cap through # {} => applied # {}

\* "some errors occurred during `vulnmap fix` and nothing was fixed in the
\* end": the reason for which the command fails.
NothingFixedInTheEnd == outcome = "error" => applied = {}
==============================================================================
