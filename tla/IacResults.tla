------------------------------ MODULE IacResults -----------------------------
(***************************************************************************)
(* From the rules that the files of one path violate to what vulnmap iac   *)
(* test shares and shows: validation of custom rules (file-scanner), the   *)
(* organisation's severities, --report, the grouping of a file's documents *)
(* (results-formatter, share-results-formatter), the severity threshold    *)
(* and the policy.                                                         *)
(*                                                                         *)
(* The input is a sequence of violations: the file and the document of it, *)
(* whether the rule is a custom one and well formed, its severity and the  *)
(* one that the organisation sets, and whether .vulnmap ignores it.  A     *)
(* violation is referred to by its position.                               *)
(***************************************************************************)
EXTENDS Inputs

CONSTANTS
  Violations,     \* of [file, doc, custom, valid, severity, orgSeverity, ignored]
  MaxViolations

\* Severities are numbers, 0 is "none"; an organisation that sets none has -1.
ASSUME ViolationAssumption == \A e \in Violations : e.severity \in Nat /\ e.orgSeverity \in Int

IacOptions == [report : BOOLEAN, threshold : {1, 2}, policy : BOOLEAN]

Scan(e) == [file |-> e.file, doc |-> e.doc, custom |-> e.custom]

\* validateResultFromCustomRules: a severity and an id that custom rules may have.
Invalid(e) == e.custom /\ (~e.valid \/ e.severity = 0)

\* applyCustomSeverities
Severity(e) == IF e.orgSeverity >= 0 THEN e.orgSeverity ELSE e.severity

\* scanFiles: a result for each document and engine.
ScanFiles(violations) ==
  [s \in {Scan(violations[n]) : n \in DOMAIN violations} |->
     {n \in DOMAIN violations : Scan(violations[n]) = s /\ ~Invalid(violations[n])}]

FailedScans(violations) == {n \in DOMAIN violations : Invalid(violations[n])}

\* The results of the same file, and the one that came first, whichever that is.
SameFile(results, s) == {t \in DOMAIN results : t.file = s.file}
First(results, s) == CHOOSE t \in SameFile(results, s) : TRUE

\* groupByFilePath: the first result of a file gets the violations of the others,
\* in place.
GroupByFilePath(results) ==
  [s \in DOMAIN results |->
     IF s = First(results, s) THEN UNION {results[t] : t \in SameFile(results, s)} ELSE results[s]]

\* Violations with the results they are in: one may be in several.
Listed(results) == UNION {{s} \X results[s] : s \in DOMAIN results}

\* formatShareResults: the first result of each file, without severity none.
FormatShareResults(results, violations) ==
  {x \in Listed(GroupByFilePath(results)) :
     x[1] = First(results, x[1]) /\ Severity(violations[x[2]]) # 0}

\* filterPoliciesBySeverity
FilterBySeverity(listed, violations, o) ==
  {x \in listed : LET severity == Severity(violations[x[2]])
                  IN  severity # 0 /\ severity >= o.threshold}

\* formatScanResults: the results of a file, one after the other.
FormatScanResults(results, violations, o) ==
  FilterBySeverity(Listed(results), violations, o)

\* filterIgnoredIssues: by the rule, the file, the document and the path in it.
FilterIgnored(listed, violations, o) == {x \in listed : ~(o.policy /\ violations[x[2]].ignored)}

\* Mutant: the results are shared without being copied first.
ProcessResults_Shared(violations, o) ==
  LET results == ScanFiles(violations)
      after == IF o.report THEN GroupByFilePath(results) ELSE results
  IN  [shared |-> IF o.report THEN FormatShareResults(results, violations) ELSE {},
       shown |-> FilterIgnored(FormatScanResults(after, violations, o), violations, o)]

\* processResults: a copy of the results is shared, the results are shown.
ProcessResults(violations, o) ==
  LET results == ScanFiles(violations)
  IN  [shared |-> IF o.report THEN FormatShareResults(results, violations) ELSE {},
       shown |-> FilterIgnored(FormatScanResults(results, violations, o), violations, o)]

IacResultsNext == Grow("iacResults", Violations, MaxViolations)

------------------------------------------------------------------------------
\* Every violation is accounted for once: it is a failure of a custom rule, or is
\* left out for its severity or by the policy, or is shown once; the service gets
\* it once unless it is a failure or has no severity, whatever is shown
\* ("resulting in double count of issues", process-results.ts:39).
ViolationsShownOnce ==
  kind = "iacResults" => \A o \in IacOptions :
    LET r == ProcessResults(input, o)
        times(listed, n) == Cardinality({x \in listed : x[2] = n})
    IN  \A n \in DOMAIN input :
          LET e == input[n]
              leftOut == \/ n \in FailedScans(input) \/ Severity(e) < o.threshold
                         \/ o.policy /\ e.ignored
          IN  /\ times(r.shown, n) = IF leftOut THEN 0 ELSE 1
              /\ times(r.shared, n) =
                   IF o.report /\ n \notin FailedScans(input) /\ Severity(e) > 0 THEN 1 ELSE 0
==============================================================================
