------------------------------ MODULE FixReport ------------------------------
(***************************************************************************)
(* From the remediation of Pipfile and Poetry projects to the summary of   *)
(* vulnmap fix: the upgrades that the handlers ask pipenv or poetry for,   *)
(* the changes that they report, and what lib/output-formatters and        *)
(* extractMeta make of the results.                                        *)
(*                                                                         *)
(* The input is a sequence of tested projects.  A pin of the remediation   *)
(* has the issues that it fixes, where pyproject.toml lists the package,   *)
(* and whether its name is spelled in the standard form; `refuses` are the *)
(* packages that the tool does not change.  A project is referred to by    *)
(* its position.  For npm, which no plugin handles, the pins are upgrades. *)
(***************************************************************************)
EXTENDS Inputs, FiniteSetsExt, Functions

CONSTANTS
  FixProjects,     \* of [type, issues, pins, patches, refuses]
  MaxFixProjects,
  GradeOf          \* severity of each issue

ASSUME FixAssumption ==
  \A p \in FixProjects :
    /\ IsFiniteSet(p.issues) /\ p.type \in {"pipenv", "poetry", "npm"}
    /\ \A x \in p.issues : GradeOf[x] \in {"critical", "high", "medium", "low"}

\* Options, and what may happen: the plugin is called for pipenv and for poetry
\* projects at once, `last` is the call that ends last, and `throws` are the handlers
\* that throw, if only after they have changed some of their projects.
FixReportOptions ==
  [sequential : BOOLEAN, dryRun : BOOLEAN, dev : BOOLEAN,
   last : {"pipenv", "poetry"}, throws : SUBSET {"pipenv", "poetry"}]

------------------------------------------------------------------------------
(* The handlers *)

\* generateUpgrades: pipenv is asked for every package; the names in
\* pyproject.toml are standardized before they are compared, the pin's is not.
PackageUpgrades(p) ==
  {d \in p.pins : p.type = "pipenv" \/ d.listed = "transitive" \/ (d.listed = "prod" /\ d.standard)}
DevUpgrades(p, o) ==
  {d \in p.pins : p.type = "poetry" /\ o.dev /\ d.listed = "dev" /\ d.standard}

\* fixSequentially and fixAll: the pins that each call of the tool is for.
ToolCalls(p, o) ==
  LET calls(pins) == IF o.sequential THEN {{d} : d \in pins} ELSE {pins} \ {{}}
  IN  calls(PackageUpgrades(p)) \cup calls(DevUpgrades(p, o))

\* pipenvAdd and poetryAdd: a dry run does not call the tool.
AddFails(p, call, o) == ~o.dryRun /\ \E d \in call : d.pkg \in p.refuses

\* Mutant: the upgrades that were attempted are not looked at.
GenerateChanges_Unfiltered(p, call, success) == {[success |-> success, pin |-> d] : d \in p.pins}

\* generateSuccessfulChanges and generateFailedChanges: the pins whose package
\* the call was for, if upgradeTo spells it as the call did.
GenerateChanges(p, call, success) ==
  {[success |-> success, pin |-> d] : d \in {e \in p.pins : e.standard /\ \E u \in call : u.pkg = e.pkg}}

FixChanges(p, o) ==
  UNION {GenerateChanges(p, call, ~AddFails(p, call, o)) : call \in ToolCalls(p, o)}

\* updateDependencies: no upgrade, no change and no successful change are failures.
UpdateDependencies(p, o) ==
  LET changes == FixChanges(p, o)
  IN  [lists |-> IF \E c \in changes : c.success THEN {"succeeded"} ELSE {"failed"},
       changes |-> changes]

\* generateFailed lists every project of a handler that throws, those too that
\* partitionByFixable has skipped.
FixResult(p, o) ==
  CASE p.issues = {} -> [lists |-> {"not vulnerable"}]
    [] p.issues # {} /\ p.type = "npm" -> [lists |-> {"exception"}]
    [] p.issues # {} /\ p.type \in o.throws ->
         [lists |-> IF p.pins = {} THEN {"skipped", "failed"} ELSE {"failed"}]
    [] p.issues # {} /\ p.type \notin o.throws \cup {"npm"} /\ p.pins = {} -> [lists |-> {"skipped"}]
    [] OTHER -> UpdateDependencies(p, o)

\* The results of both calls have the key python, so that fix() keeps those of the
\* call that ends last.
Lost(n, o) ==
  /\ input[n].issues # {} /\ input[n].type \notin {o.last, "npm"}
  /\ \E m \in DOMAIN input : input[m].issues # {} /\ input[m].type = o.last

FixResults(o) ==
  [n \in DOMAIN input |-> IF Lost(n, o) THEN [lists |-> {}] ELSE FixResult(input[n], o)]

------------------------------------------------------------------------------
(* The summary of the results r *)

\* A list of the results: the projects are pushed to it in their order.
ResultsIn(r, list) ==
  LET pushed[n \in 0..Len(r)] ==
        IF n = 0 THEN <<>> ELSE IF list \in r[n].lists THEN Append(pushed[n - 1], n) ELSE pushed[n - 1]
  IN  pushed[Len(r)]

\* formatChangesSummary: a line for each change.
SuccessfulFixes(r) ==
  LET done == ResultsIn(r, "succeeded")
  IN  [k \in DOMAIN done |-> [project |-> done[k], changes |-> r[done[k]].changes]]

\* generateUnresolvedSummary
Unresolved(r) == ResultsIn(r, "skipped") \o ResultsIn(r, "failed") \o ResultsIn(r, "exception")

FixedCount(r) == Len(ResultsIn(r, "succeeded"))
FailedCount(r) ==
  Len(ResultsIn(r, "failed")) + Len(ResultsIn(r, "skipped")) + Len(ResultsIn(r, "exception"))

\* calculateFixedIssues: once for each project, in however many places.
FixedPerEntity(entity) == UNION {c.pin.vulns : c \in {d \in entity.changes : d.success}}
FixedIssues(r) ==
  Cardinality(UNION {{n} \X FixedPerEntity(r[n]) : n \in Range(ResultsIn(r, "succeeded"))})

\* getTestResults: a project that is listed twice has its test result there twice.
TestResults(r) ==
  ResultsIn(r, "skipped") \o ResultsIn(r, "failed") \o ResultsIn(r, "succeeded") \o ResultsIn(r, "exception")

\* The issues of all test results are put together.
IssuesData(r) ==
  LET tested == TestResults(r) IN UNION {{k} \X input[tested[k]].issues : k \in DOMAIN tested}
TotalIssueCount(r) == Cardinality(IssuesData(r))
CountBySeverity(r) ==
  [s \in {"critical", "high", "medium", "low"} |-> Cardinality({i \in IssuesData(r) : GradeOf[i[2]] = s})]

\* hasFixableIssues: an issue counts for each of the packages that fix it.
FixableIssues(r) ==
  LET tested == TestResults(r)
  IN  MapThenSumSet(
        LAMBDA k : MapThenSumSet(LAMBDA d : Cardinality(d.vulns), input[tested[k]].pins)
                     + Cardinality(input[tested[k]].patches), DOMAIN tested)

\* extractMeta
FixMeta(r) ==
  [fixed |-> FixedCount(r), failed |-> FailedCount(r), totalIssues |-> TotalIssueCount(r),
   fixableIssues |-> FixableIssues(r), fixedIssues |-> FixedIssues(r)]

\* generateOverallSummary and generateIssueSummary: what is 0 is left out.
OverallSummary(r) ==
  [notFixed |-> FailedCount(r), fixed |-> FixedCount(r),
   notVulnerable |-> Len(ResultsIn(r, "not vulnerable")), issues |-> TotalIssueCount(r),
   bySeverity |-> CountBySeverity(r), fixable |-> FixableIssues(r), fixedIssues |-> FixedIssues(r)]

\* showResultsSummary
ResultsSummary(r) ==
  CASE r = <<>> -> [says |-> "no successful fixes"]
    [] r # <<>> /\ Len(ResultsIn(r, "not vulnerable")) = Len(r) /\ Unresolved(r) = <<>> ->
         [says |-> "no vulnerable items", overall |-> OverallSummary(r)]
    [] OTHER ->
         [says |-> "results", fixes |-> SuccessfulFixes(r), unresolved |-> Unresolved(r),
          overall |-> OverallSummary(r), help |-> Unresolved(r) # <<>>]

FixReportNext == Grow("fixReport", FixProjects, MaxFixProjects)

------------------------------------------------------------------------------
\* The packages that the tool has changed, or would have.
ToolChanged(p, o) ==
  {d.pkg : d \in UNION {call \in ToolCalls(p, o) : ~AddFails(p, call, o)}}
StandardNames(p) == \A d \in p.pins : d.standard

\* The vulnerable projects whose results are kept, and those whose handler threw.
Reported(o) == {n \in DOMAIN input : input[n].issues # {} /\ ~Lost(n, o)}
Thrown(o) == {n \in Reported(o) : input[n].type \in o.throws}
ListedTwice(o) == {n \in Thrown(o) : input[n].pins = {}}

\* The summary tells what the tool has done, but for what python/index.ts:76 says of
\* the projects of a handler that throws, and for the results that index.ts:57 loses.
\* Each other vulnerable project is under the successful fixes or unresolved, once
\* (twice if it was skipped and the handler threw); one under the fixes has a package
\* changed and, if names are in the standard form, one that is unresolved has none,
\* and an issue counts as fixed once for each project in which a package that it
\* needs was changed ("some fixed may need to be made in multiple places and would
\* count multiple times otherwise", show-results-summary.ts:192): never more than
\* were found, if what the remediation fixes was found.
FixReportIsTrue ==
  kind = "fixReport" => \A o \in FixReportOptions :
    LET r == FixResults(o)  s == ResultsSummary(r)  meta == FixMeta(r)
        fixes == IF s.says = "results" THEN [k \in DOMAIN s.fixes |-> s.fixes[k].project] ELSE <<>>
        unresolved == IF s.says = "results" THEN s.unresolved ELSE <<>>
        handled == {n \in Reported(o) \ Thrown(o) : input[n].type # "npm"}
        changed == [n \in handled |-> ToolChanged(input[n], o)]
        issuesOf(n) == UNION {d.vulns : d \in {e \in input[n].pins : e.pkg \in changed[n]}}
        found(n) == \A d \in input[n].pins : d.vulns \subseteq input[n].issues
    IN  /\ Range(fixes) \cup Range(unresolved) = Reported(o) /\ Range(fixes) \cap Range(unresolved) = {}
        /\ Len(fixes) + Len(unresolved) = Cardinality(Reported(o)) + Cardinality(ListedTwice(o))
        /\ \A n \in Range(fixes) : n \in handled /\ changed[n] # {}
        /\ \A n \in handled \cap Range(unresolved) : StandardNames(input[n]) => changed[n] = {}
        /\ s.says = "results" =>
             s.overall.bySeverity.critical + s.overall.bySeverity.high
               + s.overall.bySeverity.medium + s.overall.bySeverity.low = meta.totalIssues
        /\ (\A n \in DOMAIN input : StandardNames(input[n])) =>
             meta.fixedIssues = Cardinality(UNION {{n} \X issuesOf(n) : n \in handled})
        /\ (\A n \in DOMAIN input : found(n)) => meta.fixedIssues <= meta.totalIssues
==============================================================================
