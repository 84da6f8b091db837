--------------------------- MODULE AlgorithmsProofs --------------------------
(***************************************************************************)
(* What the algorithms do with inputs of any length, from any elements     *)
(* that the assumptions on the constants admit.                            *)
(***************************************************************************)
EXTENDS MCAlgorithms, FiniteSetTheorems, SequenceTheorems, WellFoundedInduction, TLAPS

\* Only the algorithm that an input is for makes it grow.
LEMMA OneAlgorithm ==
  ASSUME [Next]_vars
  PROVE  /\ kind' = kind
         /\ \/ UNCHANGED input
            \/ kind = "options" /\ OptionsNext
            \/ kind = "patch" /\ PatchNext
            \/ kind = "find" /\ FindNext
            \/ kind = "allProjects" /\ AllProjectsNext
            \/ kind = "report" /\ ReportNext
            \/ kind = "iacResults" /\ IacResultsNext
            \/ kind = "log4shell" /\ Log4ShellNext
            \/ kind = "fixReport" /\ FixReportNext
  BY DEF Next, vars, Grow, OptionsNext, PatchNext, FindNext, AllProjectsNext, ReportNext,
         IacResultsNext, Log4ShellNext, FixReportNext

\* The answer consists of issues.
AnswerTyped == kind = "report" => input \in Seq(ReportIssues)

\* Every input that is reached by growing is a sequence of issues.
LEMMA AnswerGrows == Spec => []AnswerTyped
<1>1. Init => AnswerTyped
  BY DEF Init, AnswerTyped
<1>2. AnswerTyped /\ [Next]_vars => AnswerTyped'
  <2> SUFFICES ASSUME AnswerTyped, [Next]_vars, kind' = "report"
               PROVE input' \in Seq(ReportIssues)
    BY DEF AnswerTyped
  <2>1. CASE ReportNext
    <3>1. kind = "report" /\ \E i \in ReportIssues : input' = Append(input, i)
      BY <2>1 DEF ReportNext, Grow
    <3> QED BY <3>1 DEF AnswerTyped
  <2>2. CASE UNCHANGED input
    BY <2>2, OneAlgorithm DEF AnswerTyped
  <2> QED BY <2>1, <2>2, OneAlgorithm
<1> QED BY <1>1, <1>2, PTL DEF Spec

------------------------------------------------------------------------------
(* The report *)

\* All issues of any answer are in the report. The policy and the base image
\* leave out the same ones in the text, in the JSON and in the count (<1>2), and
\* what is left has a fix among the remediation's (<1>12).
LEMMA EveryIssueIsShown ==
  ASSUME input \in Seq(ReportIssues)
  PROVE  EveryIssueShown
<1> SUFFICES ASSUME NEW o \in ReportOptions
             PROVE  LET r == ParseRes(input, o)
                        shown == Displayed(r, o)
                        json == GroupIssues(r)
                    IN  /\ r.ok <=> r.vulnerabilities = {}
                        /\ Throws(r, o) => o.project = "python" /\ o.threshold > 1
                        /\ ~Throws(r, o) =>
                             /\ shown = Ids(r.vulnerabilities)
                             /\ Cardinality(shown) = r.uniqueCount
                        /\ UNION {json[x] : x \in DOMAIN json} = {v.from : v \in r.vulnerabilities}
                        /\ IsFixable(r) /\ o.threshold = 1 /\ o.project # "docker" =>
                             UpgradeText(r) \cup PatchText(r) # {}
  BY DEF EveryIssueShown
<1> DEFINE found == Range(input)
           legacy == ConvertToLegacy(input, o)
           kept == {v \in legacy : Kept(v.issue, o)}
           excludes == o.project = "docker" /\ o.excludeBase
           r == ParseRes(input, o)
           ids == Ids(r.vulnerabilities)
           m == r.remediation
<1>1. found \subseteq ReportIssues
  BY DEF Range
<1>2. /\ r.vulnerabilities = IF excludes THEN {v \in kept : v.issue.origin = "instruction"} ELSE kept
      /\ r.ok <=> (kept = {} \/ (excludes /\ kept # {} /\ r.vulnerabilities = {}))
      /\ r.remediation = Remediation(input, o)
      /\ r.uniqueCount = Cardinality(ids)
  BY DEF ParseRes, Ids
<1> HIDE DEF r
<1>3. /\ \A v \in legacy : v.issue \in found
      /\ \A i \in found : Severe(i, o) /\ ~IsBinary(i, o) =>
           \E v \in legacy : v.issue = i
  <2>1. \A i \in ReportIssues : PathsTo[i.pkg] # {}
    BY ReportAssumption
  <2>2. \A v \in legacy : v.issue \in found
    BY DEF ConvertToLegacy
  <2>3. ASSUME NEW i \in found, Severe(i, o), ~IsBinary(i, o)
        PROVE  \E v \in legacy : v.issue = i
    <3>1. PICK p \in PathsTo[i.pkg] : TRUE
      BY <1>1, <2>1, <2>3
    <3>2. [issue |-> i, from |-> p] \in legacy
      BY <2>3, <3>1 DEF ConvertToLegacy
    <3> QED BY <3>2
  <2> QED BY <2>2, <2>3
<1> HIDE DEF legacy, found
\* The ids of the remediation that are left are among the ids that are shown.
<1>4. ASSUME o.project # "docker", NEW i \in found, Kept(i, o), Severe(i, o)
      PROVE  i.id \in ids
  <2>1. PICK v \in legacy : v.issue = i
    BY <1>3, <1>4 DEF IsBinary
  <2> QED BY <1>2, <1>4, <2>1 DEF Ids
<1>5. ASSUME NEW x \in ids
      PROVE  \E i \in found : i.id = x /\ Kept(i, o)
  BY <1>2, <1>3 DEF Ids
<1>6. o.threshold = 1 => \A i \in found : Severe(i, o)
  BY <1>1, ReportAssumption DEF Severe
<1>7. /\ m.upgrade = FixedBy(input, o, IF o.project = "python" THEN {"direct"} ELSE {"direct", "transitive"})
      /\ m.patch = IF o.project = "python" THEN {} ELSE FixedBy(input, o, {"patch"})
      /\ m.pinDirect = IF o.project = "python" THEN m.upgrade ELSE {}
      /\ m.pinTransitive = IF o.project = "python" THEN FixedBy(input, o, {"transitive"}) ELSE {}
      /\ m.unresolved = FixedBy(input, o, IF o.project = "python" THEN {"none", "patch", "transitive"} ELSE {"none"})
  BY <1>2 DEF Remediation
<1>8. \A fixes : FixedBy(input, o, fixes) =
                   {i.id : i \in {j \in found : Kept(j, o) /\ j.fix \in fixes}}
  BY DEF FixedBy, found
<1>9. ASSUME o.threshold = 1, o.project # "docker", NEW fixes, "none" \notin fixes
      PROVE  FixedBy(input, o, fixes) \subseteq BasicVulnInfo(r)
  <2> SUFFICES ASSUME NEW i \in found, Kept(i, o), i.fix \in fixes
               PROVE  i.id \in ids /\ i.id \notin Licenses
    BY <1>8 DEF BasicVulnInfo
  <2> QED BY <1>1, <1>4, <1>6, <1>9, ReportAssumption
<1>10. r.ok <=> r.vulnerabilities = {}
  BY <1>2
<1>11. Throws(r, o) => o.project = "python" /\ o.threshold > 1
  <2> SUFFICES ASSUME Throws(r, o) PROVE o.project = "python" /\ o.threshold > 1
    OBVIOUS
  <2>1. o.project # "docker" /\ ~(m.pinTransitive \subseteq BasicVulnInfo(r))
    BY DEF Throws, PinTextThrows
  <2>2. o.project = "python"
    BY <1>7, <2>1
  <2>3. o.threshold # 1
    BY <1>7, <1>9, <2>1, <2>2
  <2> QED BY <2>2, <2>3 DEF ReportOptions
<1>12. ASSUME ~Throws(r, o)
       PROVE  Displayed(r, o) = ids
  <2>1. CASE NothingFound(r)
    BY <2>1 DEF NothingFound, Displayed, Ids
  <2>2. CASE ~NothingFound(r) /\ o.project = "docker"
    <3>1. Displayed(r, o) =
            (ids \ Upstream(r.vulnerabilities, o)) \cup FormatBinaries(r, o)
      BY <2>2 DEF Displayed, DisplayedOutput
    <3>2. \A x \in ids : x \in Upstream(r.vulnerabilities, o) =>
            \E v \in r.vulnerabilities : v.issue.id = x /\ IsBinary(v.issue, o)
      BY DEF Upstream, Ids
    <3> QED BY <3>1, <3>2 DEF FormatBinaries, Upstream
  <2>3. CASE ~NothingFound(r) /\ o.project # "docker"
    <3>1. Displayed(r, o) = FormatIssuesWithRemediation(r)
      BY <2>3 DEF Displayed, DisplayedOutput
    <3>2. FormatIssuesWithRemediation(r) \subseteq ids
      BY DEF FormatIssuesWithRemediation, UpgradeText, ThisUpgradeFixes,
             PatchText, UnfixableText, BasicVulnInfo, BasicLicenseInfo
    <3>3. ASSUME NEW x \in ids, x \notin Licenses
          PROVE  x \in UpgradeText(r) \cup PatchText(r) \cup UnfixableText(r)
      <4>1. PICK i \in found : i.id = x /\ Kept(i, o)
        BY <1>5, <3>3
      <4>2. i.fix \in {"none", "direct", "transitive", "patch"}
        BY <1>1, ReportAssumption
      <4>3. x \in m.upgrade \cup Pins(r) \cup m.patch \cup m.unresolved
        BY <1>7, <1>8, <4>1, <4>2 DEF Pins
      <4>4. x \in BasicVulnInfo(r)
        BY <3>3 DEF BasicVulnInfo
      <4>5. m.upgrade \subseteq Pins(r) \/ Pins(r) = {}
        BY <1>7 DEF Pins
      <4> QED BY <4>3, <4>4, <4>5 DEF UpgradeText, ThisUpgradeFixes,
                 PatchText, UnfixableText
    <3>4. ids \subseteq FormatIssuesWithRemediation(r)
      BY <3>3 DEF FormatIssuesWithRemediation, BasicLicenseInfo
    <3> QED BY <3>1, <3>2, <3>4
  <2> QED BY <2>1, <2>2, <2>3
<1>13. LET json == GroupIssues(r)
       IN  UNION {json[x] : x \in DOMAIN json} = {v.from : v \in r.vulnerabilities}
  <2> DEFINE json == GroupIssues(r)
             paths(x) == {v.from : v \in {w \in r.vulnerabilities : w.issue.id = x}}
  <2>1. DOMAIN json = ids /\ \A x \in ids : json[x] = paths(x)
    BY DEF GroupIssues
  <2>2. \A x \in ids : paths(x) \subseteq {v.from : v \in r.vulnerabilities}
    OBVIOUS
  <2>3. ASSUME NEW v \in r.vulnerabilities
        PROVE  v.issue.id \in ids /\ v.from \in paths(v.issue.id)
    BY DEF Ids
  <2> HIDE DEF json, paths, ids
  <2>4. UNION {json[x] : x \in DOMAIN json} = {v.from : v \in r.vulnerabilities}
    BY <2>1, <2>2, <2>3
  <2> QED BY <2>4 DEF json
<1>14. ASSUME IsFixable(r), o.threshold = 1, o.project # "docker"
       PROVE  UpgradeText(r) \cup PatchText(r) # {}
  <2>1. /\ m.upgrade \subseteq BasicVulnInfo(r) /\ m.patch \subseteq BasicVulnInfo(r)
        /\ Pins(r) \subseteq BasicVulnInfo(r)
    BY <1>7, <1>9, <1>14 DEF Pins
  <2> QED BY <1>14, <2>1 DEF IsFixable, UpgradeText, ThisUpgradeFixes,
             PatchText
<1> QED BY <1>2, <1>10, <1>11, <1>12, <1>13, <1>14 DEF r

------------------------------------------------------------------------------
(* The options *)

\* The name that args() gives an option.
Renamed(n) == IF n \in ArgumentsToTransform THEN CamelCase(n) ELSE n

\* What is given by a name is an option under the name that it is given.
LEMMA RenameKeeps ==
  ASSUME NEW given, NEW n, Truthy(given, n)
  PROVE  Truthy(Rename(given), Renamed(n))
<1> DEFINE moved == {k \in DOMAIN given \cap ArgumentsToTransform : Truthy(given, k)}
           from(k) == {j \in moved : CamelCase(j) = k}
           names == (DOMAIN given \ moved) \cup {CamelCase(j) : j \in moved}
           renamed == Rename(given)
<1>1. /\ DOMAIN renamed = names
      /\ \A k \in names : renamed[k] = IF from(k) = {} THEN given[k]
                                       ELSE given[CHOOSE j \in from(k) : TRUE]
  BY DEF Rename
<1>2. n \in DOMAIN given
  BY DEF Truthy, Value
<1>3. Renamed(n) \in names
  <2>1. CASE n \in moved
    BY <2>1 DEF Renamed
  <2>2. CASE n \notin moved
    BY <1>2, <2>2 DEF Renamed
  <2> QED BY <2>1, <2>2
<1>4. \A j \in moved : given[j] \notin {"undefined", ""}
  BY DEF Truthy, Value
<1>5. CASE from(Renamed(n)) # {}
  <2>1. (CHOOSE j \in from(Renamed(n)) : TRUE) \in from(Renamed(n))
    BY <1>5
  <2>2. from(Renamed(n)) \subseteq moved
    OBVIOUS
  <2> QED BY <1>1, <1>3, <1>4, <1>5, <2>1, <2>2 DEF Truthy, Value
<1>6. CASE from(Renamed(n)) = {}
  <2>1. n \notin moved
    BY <1>6 DEF Renamed
  <2>2. Renamed(n) = n
    BY <1>2, <2>1 DEF Renamed
  <2>3. given[n] \notin {"undefined", ""}
    BY DEF Truthy, Value
  <2>4. renamed[n] = given[n]
    BY <1>1, <1>3, <1>6, <2>2
  <2> QED BY <1>1, <1>3, <2>2, <2>3, <2>4 DEF Truthy, Value
<1> QED BY <1>5, <1>6

\* The alias is docker, the other options stay.
LEMMA ContainerKeeps ==
  ASSUME NEW given, NEW n, Truthy(given, n)
  PROVE  Truthy(Container(given), IF n = "container" THEN "docker" ELSE n)
  BY DEF Truthy, Value, Container

\* The option that the mode sets.
ModeGives(words) ==
  IF ModeApplies(words) THEN {ModeOption(Mode(words))} ELSE {}

\* What is given, by a word or by the mode, is an option under its last name.
LEMMA ParsedKeeps ==
  ASSUME NEW words, NEW n, Truthy(Given(words), n) \/ n \in ModeGives(words)
  PROVE  Truthy(ParsedOptions(words),
                           IF Renamed(n) = "container" THEN "docker" ELSE Renamed(n))
<1> DEFINE g == Given(words)
           m == IF ModeApplies(words)
                THEN [k \in {ModeOption(Mode(words))} |-> "true"] ELSE <<>>
           merged == [k \in DOMAIN g \cup DOMAIN m |-> IF k \in DOMAIN m THEN m[k] ELSE g[k]]
<1>1. ParsedOptions(words) = Container(Rename(merged))
  BY DEF ParsedOptions
<1>2. DOMAIN m = ModeGives(words) /\ \A k \in DOMAIN m : m[k] = "true"
  <2>1. CASE ModeApplies(words)
    BY <2>1 DEF ModeGives
  <2>2. CASE ~ModeApplies(words)
    BY <2>2 DEF ModeGives
  <2> QED BY <2>1, <2>2
<1> HIDE DEF m, g
<1>3. Truthy(merged, n)
  BY <1>2 DEF Truthy, Value, g
<1> HIDE DEF merged
<1>4. Truthy(Rename(merged), Renamed(n))
  BY <1>3, RenameKeeps
<1> QED BY <1>1, <1>4, ContainerKeeps

\* The name under which main() looks for an option.
Looked(name) ==
  CASE name = "all-projects" -> "allProjects"
    [] name = "yarn-workspaces" -> "yarnWorkspaces"
    [] name = "package-manager" -> "packageManager"
    [] name = "all-sub-projects" -> "allSubProjects"
    [] name = "scan-all-unmanaged" -> "scanAllUnmanaged"
    [] name = "maven-aggregate-project" -> "mavenAggregateProject"
    [] OTHER -> name

\* The options that exclude others or are excluded.
Excluding ==
  {"all-projects", "yarn-workspaces", "package-manager", "all-sub-projects", "scan-all-unmanaged",
   "maven-aggregate-project", "project-name", "file", "docker"}

\* However the user asks for an option, it is there under that name.
LEMMA AskedIsParsed ==
  ASSUME NEW words, NEW name \in Excluding, Asked(words, name)
  PROVE  Truthy(ParsedOptions(words), Looked(name))
<1> DEFINE parsed == ParsedOptions(words)
<1>1. PICK n : /\ Truthy(Given(words), n) \/ n \in ModeGives(words)
               /\ n \in {name, CamelCase(name)} \/ (name = "docker" /\ n \in {"container", "docker"})
  BY DEF Asked, ModeGives, ModeOption
<1>2. Looked(name) = IF Renamed(n) = "container" THEN "docker" ELSE Renamed(n)
  BY <1>1 DEF Looked, Renamed, Excluding, ArgumentsToTransform, CamelCase
<1> QED BY <1>1, <1>2, ParsedKeeps

\* Two options that exclude each other are rejected, whatever else is given.
LEMMA ExclusiveAreRejected == ExclusiveOptionsRejected
<1> SUFFICES ASSUME NEW p \in ExclusivePairs,
                    Asked(input, p[1]), Asked(input, p[2])
             PROVE  Rejects(input)
  BY DEF ExclusiveOptionsRejected
<1> DEFINE o == ParsedOptions(input)
<1>1. p[1] \in Excluding /\ p[2] \in Excluding
  BY DEF ExclusivePairs, Excluding
<1>2. Truthy(o, Looked(p[1])) /\ Truthy(o, Looked(p[2]))
  BY <1>1, AskedIsParsed
<1> HIDE DEF o
<1>3. \/ p[1] = "all-projects" /\ p[2] \in {"project-name", "file", "yarn-workspaces", "package-manager",
                                           "docker", "all-sub-projects"}
      \/ p[1] = "yarn-workspaces" /\ p[2] \in {"project-name", "file", "package-manager", "docker",
                                              "all-sub-projects"}
      \/ p[1] = "scan-all-unmanaged" /\ p[2] = "file"
      \/ p[1] = "maven-aggregate-project" /\ p[2] = "project-name"
  BY DEF ExclusivePairs
<1>4. CASE p[1] = "all-projects"
  <2>1. Looked(p[2]) \in {"project-name", "file", "yarnWorkspaces", "packageManager", "docker",
                          "allSubProjects"}
    BY <1>3, <1>4 DEF Looked
  <2> QED BY <1>2, <1>4, <2>1 DEF Looked, UnsupportedCombinations, Rejects, o
<1>5. CASE p[1] = "yarn-workspaces"
  <2>1. Looked(p[2]) \in {"project-name", "file", "packageManager", "docker", "allSubProjects"}
    BY <1>3, <1>5 DEF Looked
  <2> QED BY <1>2, <1>5, <2>1 DEF Looked, UnsupportedCombinations, Rejects, o
<1>6. CASE p[1] = "scan-all-unmanaged"
  BY <1>2, <1>3, <1>6 DEF Looked, UnsupportedCombinations, Rejects, o
<1>7. CASE p[1] = "maven-aggregate-project"
  BY <1>2, <1>3, <1>7 DEF Looked, MainRejects, Rejects, o
<1> QED BY <1>3, <1>4, <1>5, <1>6, <1>7

------------------------------------------------------------------------------
(* Results of iac test *)

\* The violations have the fields of violations.
ViolationsTyped == kind = "iacResults" => input \in Seq(Violations)

LEMMA ViolationsGrow == Spec => []ViolationsTyped
<1>1. Init => ViolationsTyped
  BY DEF Init, ViolationsTyped
<1>2. ViolationsTyped /\ [Next]_vars => ViolationsTyped'
  <2> SUFFICES ASSUME ViolationsTyped, [Next]_vars, kind' = "iacResults"
               PROVE input' \in Seq(Violations)
    BY DEF ViolationsTyped
  <2>1. CASE IacResultsNext
    <3>1. kind = "iacResults" /\ \E e \in Violations : input' = Append(input, e)
      BY <2>1 DEF IacResultsNext, Grow
    <3> QED BY <3>1 DEF ViolationsTyped
  <2>2. CASE UNCHANGED input
    BY <2>2, OneAlgorithm DEF ViolationsTyped
  <2> QED BY <2>1, <2>2, OneAlgorithm
<1> QED BY <1>1, <1>2, PTL DEF Spec

\* A violation is listed in the result of its document and engine, unless it is a
\* failure.
LEMMA ListedOnce ==
  ASSUME NEW violations
  PROVE  Listed(ScanFiles(violations)) =
           {<<Scan(violations[n]), n>> : n \in DOMAIN violations \ FailedScans(violations)}
<1> DEFINE r == ScanFiles(violations)
           scans == {Scan(violations[n]) : n \in DOMAIN violations}
           of(s) == {n \in DOMAIN violations : Scan(violations[n]) = s /\ ~Invalid(violations[n])}
<1>1. DOMAIN r = scans /\ \A s \in scans : r[s] = of(s)
  BY DEF ScanFiles
<1>2. \A s \in scans : \A n \in of(s) : s = Scan(violations[n])
                                     /\ n \in DOMAIN violations \ FailedScans(violations)
  BY DEF FailedScans
<1>3. \A n \in DOMAIN violations \ FailedScans(violations) :
         Scan(violations[n]) \in scans /\ n \in of(Scan(violations[n]))
  BY DEF FailedScans
<1> HIDE DEF scans, of, r
<1>4. \A x : x \in Listed(r) <=> \E s \in scans : \E n \in of(s) : x = <<s, n>>
  BY <1>1 DEF Listed
<1>5. \A x : x \in Listed(r) <=>
         \E n \in DOMAIN violations \ FailedScans(violations) : x = <<Scan(violations[n]), n>>
  BY <1>2, <1>3, <1>4
<1> QED BY <1>5 DEF r

\* Grouped by file, it is listed in the first result of its file, besides.
LEMMA SharedOnce ==
  ASSUME NEW violations
  PROVE  LET r == ScanFiles(violations)
         IN  {x \in Listed(GroupByFilePath(r)) : x[1] = First(r, x[1])} =
               {<<First(r, Scan(violations[n])), n>> : n \in DOMAIN violations \ FailedScans(violations)}
<1> DEFINE r == ScanFiles(violations)
           g == GroupByFilePath(r)
           ok == DOMAIN violations \ FailedScans(violations)
           firsts == {s \in DOMAIN r : s = First(r, s)}
<1>1. DOMAIN g = DOMAIN r /\ \A s \in firsts : g[s] = UNION {r[t] : t \in SameFile(r, s)}
  BY DEF GroupByFilePath
<1>2. \A s \in DOMAIN r : /\ First(r, s) \in SameFile(r, s)
                          /\ \A t \in SameFile(r, s) : First(r, t) = First(r, s)
  <2> SUFFICES ASSUME NEW s \in DOMAIN r
               PROVE  /\ First(r, s) \in SameFile(r, s)
                      /\ \A t \in SameFile(r, s) : First(r, t) = First(r, s)
    OBVIOUS
  <2>1. s \in SameFile(r, s)
    BY DEF SameFile
  <2>2. \A t \in SameFile(r, s) : SameFile(r, t) = SameFile(r, s)
    BY DEF SameFile
  <2> QED BY <2>1, <2>2 DEF First
<1>3. \A s \in DOMAIN r : SameFile(r, s) \subseteq DOMAIN r
  BY DEF SameFile
<1>4. \A t \in DOMAIN r : \A n : n \in r[t] <=> n \in ok /\ t = Scan(violations[n])
  <2>1. \A t, n : <<t, n>> \in Listed(r) <=> t \in DOMAIN r /\ n \in r[t]
    BY DEF Listed
  <2>2. \A t, n : <<t, n>> \in Listed(r) <=> n \in ok /\ t = Scan(violations[n])
    BY ListedOnce
  <2> QED BY <2>1, <2>2
<1>5. \A n \in ok : Scan(violations[n]) \in DOMAIN r
  BY DEF ScanFiles
<1> HIDE DEF r, g, ok
<1>6. \A x : x \in Listed(g) /\ x[1] = First(r, x[1]) <=>
              \E s \in firsts : \E n \in g[s] : x = <<s, n>>
  BY <1>1 DEF Listed
<1>7. \A s \in firsts : \A n \in g[s] : n \in ok /\ s = First(r, Scan(violations[n]))
  BY <1>1, <1>2, <1>3, <1>4
<1>8. \A n \in ok : LET s == First(r, Scan(violations[n])) IN s \in firsts /\ n \in g[s]
  <2> SUFFICES ASSUME NEW n \in ok
               PROVE  LET s == First(r, Scan(violations[n])) IN s \in firsts /\ n \in g[s]
    OBVIOUS
  <2> DEFINE t == Scan(violations[n])  s == First(r, t)
  <2>1. t \in DOMAIN r /\ s \in SameFile(r, t) /\ s \in DOMAIN r
    BY <1>2, <1>3, <1>5
  <2>2. First(r, s) = s /\ t \in SameFile(r, s)
    BY <1>2, <2>1 DEF SameFile
  <2>3. n \in r[t]
    BY <1>4, <2>1
  <2>4. s \in firsts
    BY <2>1, <2>2
  <2> HIDE DEF t, firsts
  <2>5. n \in UNION {r[u] : u \in SameFile(r, s)}
    BY <2>2, <2>3
  <2>6. n \in g[s]
    BY <1>1, <2>4, <2>5
  <2> QED BY <2>4, <2>6 DEF t
<1> HIDE DEF firsts
<1>9. \A x : x \in Listed(g) /\ x[1] = First(r, x[1]) <=>
              \E n \in ok : x = <<First(r, Scan(violations[n])), n>>
  BY <1>6, <1>7, <1>8
<1>10. {x \in Listed(g) : x[1] = First(r, x[1])} = {<<First(r, Scan(violations[n])), n>> : n \in ok}
  BY <1>9
<1> QED BY <1>10 DEF r, g, ok

\* Of some violations, each is listed once.
EachOnce(listed, in, kept) == listed = {<<in[m], m>> : m \in kept}
Times(listed, n) == Cardinality({x \in listed : x[2] = n})

LEMMA TimesListed ==
  ASSUME NEW kept, NEW in, NEW listed, NEW n, EachOnce(listed, in, kept)
  PROVE  Times(listed, n) = IF n \in kept THEN 1 ELSE 0
<1> DEFINE times == {x \in listed : x[2] = n}
<1>1. CASE n \in kept
  <2>1. times = {<<in[n], n>>}
    BY <1>1 DEF EachOnce
  <2> QED BY <1>1, <2>1, FS_Singleton DEF Times
<1>2. CASE n \notin kept
  <2>1. times = {}
    BY <1>2 DEF EachOnce
  <2> QED BY <1>2, <2>1, FS_EmptySet DEF Times
<1> QED BY <1>1, <1>2

\* Each violation of any files is shown once and shared once, or left out.
LEMMA ViolationsAreShownOnce ==
  ASSUME input \in Seq(Violations)
  PROVE  ViolationsShownOnce
<1> SUFFICES ASSUME NEW o \in IacOptions, NEW n \in DOMAIN input
             PROVE  LET r == ProcessResults(input, o)
                        times(listed) == Cardinality({x \in listed : x[2] = n})
                        e == input[n]
                        leftOut == \/ n \in FailedScans(input) \/ Severity(e) < o.threshold
                                   \/ o.policy /\ e.ignored
                    IN  /\ times(r.shown) = IF leftOut THEN 0 ELSE 1
                        /\ times(r.shared) =
                             IF o.report /\ n \notin FailedScans(input) /\ Severity(e) > 0 THEN 1 ELSE 0
  BY DEF ViolationsShownOnce
<1> DEFINE e == input[n]
           r == ScanFiles(input)
           ok == DOMAIN input \ FailedScans(input)
           severity(m) == Severity(input[m])
           keeps == {m \in ok : /\ severity(m) # 0 /\ severity(m) >= o.threshold
                                /\ ~(o.policy /\ input[m].ignored)}
           shares == {m \in ok : severity(m) # 0}
           in == [m \in ok |-> Scan(input[m])]
           first == [m \in ok |-> First(r, Scan(input[m]))]
           shown == FilterIgnored(FormatScanResults(r, input, o), input, o)
           shared == FormatShareResults(r, input)
<1>1. severity(n) \in Nat /\ o.threshold \in {1, 2}
  BY ViolationAssumption DEF Severity, IacOptions
<1>2. EachOnce(shown, in, keeps)
  <2>1. Listed(r) = {<<in[m], m>> : m \in ok}
    BY ListedOnce
  <2> HIDE DEF in, ok, r
  <2>2. shown = {x \in {<<in[m], m>> : m \in ok} :
                    (severity(x[2]) # 0 /\ severity(x[2]) >= o.threshold) /\ ~(o.policy /\ input[x[2]].ignored)}
    BY <2>1 DEF FilterIgnored, FormatScanResults, FilterBySeverity
  <2> HIDE DEF shown, severity
  <2> QED BY <2>2 DEF EachOnce
<1>3. EachOnce(shared, first, shares)
  <2>1. {x \in Listed(GroupByFilePath(r)) : x[1] = First(r, x[1])} = {<<first[m], m>> : m \in ok}
    BY SharedOnce
  <2> HIDE DEF first, ok, r
  <2>2. shared = {x \in {<<first[m], m>> : m \in ok} : severity(x[2]) # 0}
    BY <2>1 DEF FormatShareResults
  <2> HIDE DEF shared, severity
  <2> QED BY <2>2 DEF EachOnce
<1> HIDE DEF in, first, shown, shared, r, keeps, shares
<1>4. Times(shown, n) = IF n \in keeps THEN 1 ELSE 0
  BY ONLY <1>2, TimesListed
<1>5. Times(shared, n) = IF n \in shares THEN 1 ELSE 0
  BY ONLY <1>3, TimesListed
<1>6. Times({}, n) = 0
  <2>1. {x \in {} : x[2] = n} = {}
    OBVIOUS
  <2> QED BY <2>1, FS_EmptySet DEF Times
<1>7. /\ ProcessResults(input, o).shown = shown
      /\ ProcessResults(input, o).shared = IF o.report THEN shared ELSE {}
  BY DEF ProcessResults, shown, shared, r
<1> HIDE DEF severity
<1>8. /\ n \in keeps <=> ~(n \in FailedScans(input) \/ severity(n) < o.threshold \/ (o.policy /\ e.ignored))
      /\ n \in shares <=> (n \notin FailedScans(input) /\ severity(n) > 0)
  BY <1>1 DEF keeps, shares
<1> HIDE DEF keeps, shares, ok
<1> QED BY <1>4, <1>5, <1>6, <1>7, <1>8 DEF severity, Times

------------------------------------------------------------------------------
(* All projects *)

\* The targets are in the order of their folders; of two in one folder the second
\* one is a pom.xml and the first is not.
TargetsOrdered ==
  kind = "allProjects" =>
    /\ input \in Seq(Targets)
    /\ \A i, j \in DOMAIN input :
         i < j => \/ Len(input[i].dir) < Len(input[j].dir)
                  \/ /\ input[i].dir = input[j].dir
                     /\ input[j].base = "pom.xml" /\ input[i].base # "pom.xml"

LEMMA TargetsGrow == Spec => []TargetsOrdered
<1>1. Init => TargetsOrdered
  BY DEF Init, TargetsOrdered
<1>2. TargetsOrdered /\ [Next]_vars => TargetsOrdered'
  <2> SUFFICES ASSUME TargetsOrdered, [Next]_vars, kind' = "allProjects"
               PROVE TargetsOrdered'
    BY DEF TargetsOrdered
  <2>1. CASE AllProjectsNext
    <3>1. PICK t \in Targets :
            /\ kind = "allProjects" /\ input' = Append(input, t)
            /\ \/ input = <<>>
               \/ Len(Last(input).dir) < Len(t.dir)
               \/ Last(input).dir = t.dir /\ t.base = "pom.xml" /\ Last(input).base # "pom.xml"
      BY <2>1 DEF AllProjectsNext, Grow
    <3> DEFINE n == Len(input)
    <3>2. /\ input \in Seq(Targets) /\ n \in Nat /\ DOMAIN input = 1..n
          /\ input' \in Seq(Targets) /\ DOMAIN input' = 1..(n + 1)
          /\ input'[n + 1] = t /\ \A i \in 1..n : input'[i] = input[i]
      BY <3>1 DEF TargetsOrdered
    <3>3. Last(input) = input[n]
      BY DEF Last
    <3> HIDE DEF n
    <3>4. \A u \in Targets : Len(u.dir) \in Nat
      BY TargetAssumption
    <3>5. ASSUME NEW i \in 1..n
          PROVE  \/ Len(input[i].dir) < Len(t.dir)
                 \/ input[i].dir = t.dir /\ t.base = "pom.xml" /\ input[i].base # "pom.xml"
      <4>1. n \in 1..n /\ input # <<>>
        BY <3>2
      <4>2. CASE i = n
        BY <3>1, <3>3, <4>1, <4>2
      <4>3. CASE i # n
        <5>1. \/ Len(input[i].dir) < Len(input[n].dir)
              \/ input[i].dir = input[n].dir /\ input[n].base = "pom.xml"
          <6>1. i < n /\ i \in DOMAIN input /\ n \in DOMAIN input
            BY <3>2, <4>1, <4>3
          <6> QED BY <3>1, <6>1 DEF TargetsOrdered
        <5>2. Len(input[i].dir) \in Nat /\ Len(input[n].dir) \in Nat /\ Len(t.dir) \in Nat
          BY <3>2, <3>4, <4>1
        <5>3. \/ Len(input[n].dir) < Len(t.dir)
              \/ input[n].dir = t.dir /\ t.base = "pom.xml" /\ input[n].base # "pom.xml"
          BY <3>1, <3>3, <4>1
        <5>4. Len(input[i].dir) <= Len(input[n].dir)
          BY <5>1, <5>2
        <5>5. CASE Len(input[n].dir) < Len(t.dir)
          BY <5>2, <5>4, <5>5
        <5>6. CASE input[n].dir = t.dir /\ input[n].base # "pom.xml"
          BY <5>1, <5>6
        <5> QED BY <5>3, <5>5, <5>6
      <4> QED BY <4>2, <4>3
    <3>6. ASSUME NEW i \in 1..(n + 1), NEW j \in 1..(n + 1), i < j
          PROVE  \/ Len(input'[i].dir) < Len(input'[j].dir)
                 \/ /\ input'[i].dir = input'[j].dir
                    /\ input'[j].base = "pom.xml" /\ input'[i].base # "pom.xml"
      <4>1. i \in 1..n /\ (j \in 1..n \/ j = n + 1)
        BY <3>2, <3>6
      <4>2. CASE j \in 1..n
        BY <3>1, <3>2, <3>6, <4>1, <4>2 DEF TargetsOrdered
      <4>3. CASE j = n + 1
        BY <3>2, <3>5, <4>1, <4>3
      <4> QED BY <4>1, <4>2, <4>3
    <3> QED BY <3>2, <3>6 DEF TargetsOrdered
  <2>2. CASE UNCHANGED input
    BY <2>2, OneAlgorithm DEF TargetsOrdered
  <2> QED BY <2>1, <2>2, OneAlgorithm
<1> QED BY <1>1, <1>2, PTL DEF Spec

\* Only folders of the targets with a package.json or a lock file are processed as
\* workspaces.
LEMMA ScannedAreTargets ==
  ASSUME NEW kindOf, NEW targets, NEW d \in ScannedAsWorkspace(kindOf, targets)
  PROVE  \E i \in DOMAIN targets : targets[i].base \in NodeFiles(kindOf) /\ targets[i].dir = d
<1> DEFINE node == RestrictValues(targets, LAMBDA t : t.base \in NodeFiles(kindOf))
<1>1. /\ DOMAIN node = {i \in DOMAIN targets : targets[i].base \in NodeFiles(kindOf)}
      /\ \A i \in DOMAIN node : node[i] = targets[i]
  BY DEF RestrictValues, Restrict
<1>2. \E i \in DOMAIN node : node[i].dir = d
  BY DEF ScannedAsWorkspace
<1> QED BY <1>1, <1>2

\* No target occurs twice.
LEMMA CountedOnce ==
  ASSUME NEW n, NEW s, NEW ns \in SUBSET DOMAIN input,
         DOMAIN s = ns, \A i \in ns : s[i] = input[i],
         n \in DOMAIN input, \A i, j \in DOMAIN input : input[i] = input[j] => i = j
  PROVE  Count(s, input[n]) = IF n \in ns THEN 1 ELSE 0
<1> DEFINE at == {i \in DOMAIN s : s[i] = input[n]}
<1>1. CASE n \in ns
  <2>1. at = {n}
    BY <1>1
  <2> QED BY <1>1, <2>1, FS_Singleton DEF Count
<1>2. CASE n \notin ns
  <2>1. at = {}
    BY <1>2
  <2> QED BY <1>2, <2>1, FS_EmptySet DEF Count
<1> QED BY <1>1, <1>2

\* What is left of the targets after a scan.
Left(kindOf, ns, dirs) == {i \in ns : ~Processed(kindOf, input[i], dirs)}

\* Every target of any folders has one result.
LEMMA EveryTargetIsOnce ==
  ASSUME TargetsOrdered, kind = "allProjects"
  PROVE  EveryTargetOnce
<1> DEFINE r == MultiPluginResult(input)
           left == Left("yarn", DOMAIN input, r.yarn)
           rest == Left("npm", left, r.npm)
           single == {i \in rest : input[i].scans}
           failed == {i \in rest : ~input[i].scans}
<1>1. /\ r.npm \subseteq {input[i].dir : i \in {j \in left : input[j].base \in NodeFiles("npm")}}
      /\ DOMAIN r.single = single /\ \A i \in single : r.single[i] = input[i]
      /\ DOMAIN r.failed = failed /\ \A i \in failed : r.failed[i] = input[i]
  <2> DEFINE yarn == ScannedAsWorkspace("yarn", input)
             l == RestrictValues(input, LAMBDA t : ~Processed("yarn", t, yarn))
             npm == ScannedAsWorkspace("npm", l)
             e == RestrictValues(l, LAMBDA t : ~Processed("npm", t, npm))
  <2>1. /\ r.yarn = yarn /\ r.npm = npm
        /\ r.single = RestrictValues(e, LAMBDA t : t.scans)
        /\ r.failed = RestrictValues(e, LAMBDA t : ~t.scans)
    BY DEF MultiPluginResult
  <2> HIDE DEF r
  <2>2. DOMAIN l = left /\ \A i \in left : l[i] = input[i]
    BY <2>1 DEF RestrictValues, Restrict, Left
  <2> HIDE DEF l, left
  <2>3. npm \subseteq {input[i].dir : i \in {j \in left : input[j].base \in NodeFiles("npm")}}
    <3> SUFFICES ASSUME NEW d \in npm
                 PROVE  \E i \in left : input[i].base \in NodeFiles("npm") /\ input[i].dir = d
      OBVIOUS
    <3>1. \E i \in DOMAIN l : l[i].base \in NodeFiles("npm") /\ l[i].dir = d
      BY ScannedAreTargets
    <3> QED BY <2>2, <3>1
  <2> HIDE DEF npm
  <2>4. DOMAIN e = rest /\ \A i \in rest : e[i] = input[i]
    BY <2>1, <2>2 DEF RestrictValues, Restrict, Left
  <2> HIDE DEF e, rest
  <2>5. DOMAIN r.single = single /\ \A i \in single : r.single[i] = input[i]
    BY <2>1, <2>4 DEF RestrictValues, Restrict
  <2>6. DOMAIN r.failed = failed /\ \A i \in failed : r.failed[i] = input[i]
    BY <2>1, <2>4 DEF RestrictValues, Restrict
  <2> QED BY <2>1, <2>3, <2>5, <2>6
<1> HIDE DEF r
<1>2. \A i, j \in DOMAIN input : input[i] = input[j] => i = j
  <2> SUFFICES ASSUME NEW i \in DOMAIN input, NEW j \in DOMAIN input, input[i] = input[j], i # j
               PROVE  FALSE
    OBVIOUS
  <2>1. i \in Nat /\ j \in Nat /\ Len(input[i].dir) \in Nat
    BY TargetAssumption DEF TargetsOrdered
  <2>2. i < j \/ j < i
    BY <2>1
  <2> QED BY <2>1, <2>2 DEF TargetsOrdered
<1>3. \A i, j \in DOMAIN input :
         input[i].dir = input[j].dir /\ input[i].base # "pom.xml" /\ input[j].base # "pom.xml" => i = j
  <2> SUFFICES ASSUME NEW i \in DOMAIN input, NEW j \in DOMAIN input, input[i].dir = input[j].dir,
                      input[i].base # "pom.xml", input[j].base # "pom.xml", i # j
               PROVE  FALSE
    OBVIOUS
  <2>1. i \in Nat /\ j \in Nat /\ Len(input[i].dir) \in Nat
    BY TargetAssumption DEF TargetsOrdered
  <2>2. i < j \/ j < i
    BY <2>1
  <2> QED BY <2>1, <2>2 DEF TargetsOrdered
<1> SUFFICES ASSUME NEW n \in DOMAIN input
             PROVE  InWorkspace("yarn", r.yarn, input[n]) + InWorkspace("npm", r.npm, input[n])
                      + Count(r.single, input[n]) + Count(r.failed, input[n]) = 1
  BY DEF EveryTargetOnce, r
<1> DEFINE t == input[n]
<1>4. /\ Count(r.single, t) = IF n \in single THEN 1 ELSE 0
      /\ Count(r.failed, t) = IF n \in failed THEN 1 ELSE 0
  <2>1. single \subseteq DOMAIN input /\ failed \subseteq DOMAIN input
    BY DEF Left
  <2> HIDE DEF single, failed
  <2>2. Count(r.single, t) = IF n \in single THEN 1 ELSE 0
    BY <1>1, <1>2, <2>1, CountedOnce
  <2>3. Count(r.failed, t) = IF n \in failed THEN 1 ELSE 0
    BY <1>1, <1>2, <2>1, CountedOnce
  <2> QED BY <2>2, <2>3
<1>5. /\ InWorkspace("yarn", r.yarn, t) = IF n \notin left THEN 1 ELSE 0
      /\ InWorkspace("npm", r.npm, t) = IF Processed("npm", t, r.npm) THEN 1 ELSE 0
  BY DEF InWorkspace, Left, Processed
<1>6. n \notin left => ~Processed("npm", t, r.npm)
  <2> SUFFICES ASSUME n \notin left, Processed("npm", t, r.npm)
               PROVE  FALSE
    OBVIOUS
  <2>1. t.base \in NodeFiles("yarn") /\ t.base \in NodeFiles("npm") /\ t.dir \in r.npm
    BY DEF Left, Processed
  <2>2. PICK i \in left : input[i].base \in NodeFiles("npm") /\ input[i].dir = t.dir
    BY <1>1, <2>1
  <2>3. t.base # "pom.xml" /\ input[i].base # "pom.xml"
    BY <2>1, <2>2 DEF NodeFiles, LockFile
  <2>4. i = n
    BY <1>3, <2>2, <2>3 DEF Left
  <2> QED BY <2>4
<1>7. n \in single \/ n \in failed <=> n \in left /\ ~Processed("npm", t, r.npm)
  BY DEF Left
<1>8. ~(n \in single /\ n \in failed)
  OBVIOUS
<1> QED BY <1>4, <1>5, <1>6, <1>7, <1>8

------------------------------------------------------------------------------
(* Loops over the elements of a sequence *)

\* Of some numbers there is a least one.
LEMMA LeastExists ==
  ASSUME NEW T \in SUBSET Nat, T # {}
  PROVE  \E k \in T : \A j \in T : k <= j
<1>1. \E k \in T : \A j \in T : <<j, k>> \notin OpToRel(<, Nat)
  BY ONLY T \in SUBSET Nat, T # {}, NatLessThanWellFounded, WFMin
<1>2. \A k, j \in Nat : <<j, k>> \notin OpToRel(<, Nat) => k <= j
  BY DEF OpToRel
<1> QED BY ONLY <1>1, <1>2, T \in SUBSET Nat

\* What holds of 0, and of each next number up to n, holds of all of them.
LEMMA PrefixInduction ==
  ASSUME NEW n \in Nat, NEW P \in SUBSET (0..n), 0 \in P, \A i \in 1..n : i - 1 \in P => i \in P
  PROVE  P = 0..n
<1>1. SUFFICES ASSUME (0..n) \ P # {} PROVE FALSE
  OBVIOUS
<1>2. PICK k \in (0..n) \ P : \A j \in (0..n) \ P : k <= j
  <2>1. (0..n) \ P \in SUBSET Nat
    OBVIOUS
  <2> QED BY <1>1, <2>1, LeastExists
<1>3. k \in 1..n
  BY 0 \in P
<1>4. k - 1 \in 0..n /\ ~(k <= k - 1)
  BY <1>3
<1> QED BY <1>2, <1>3, <1>4

\* A function that is given by its value for 0 and by a step exists, and is the
\* only one that is so given.
RunOf(f, n, base, step) == f[0] = base /\ \A i \in 1..n : f[i] = step[<<f[i - 1], i>>]
GivenAs(g, n, V, base, step) ==
  /\ g = [m \in 0..n |-> g[m]] /\ g[0] = base
  /\ \A i \in 1..n : g[i - 1] \in V => g[i] = step[<<g[i - 1], i>>]

LEMMA PrefixRecursion ==
  ASSUME NEW n \in Nat, NEW V, NEW base \in V, NEW step \in [V \X (1..n) -> V]
  PROVE  \E f \in [0..n -> V] :
           RunOf(f, n, base, step) /\ \A g : GivenAs(g, n, V, base, step) => g = f
<1> DEFINE Upto(f, m) == f[0] = base /\ \A i \in 1..m : f[i] = step[<<f[i - 1], i>>]
           P == {m \in 0..n : \E f \in [0..m -> V] : Upto(f, m)}
<1>1. 0 \in P
  <2> DEFINE f == [i \in 0..0 |-> base]
  <2>1. f \in [0..0 -> V] /\ f[0] = base
    OBVIOUS
  <2>2. 0 \in 0..n /\ 1..0 = {}
    OBVIOUS
  <2> HIDE DEF f
  <2> QED BY <2>1, <2>2
<1>2. ASSUME NEW m \in 1..n, m - 1 \in P
      PROVE  m \in P
  <2>1. PICK f \in [0..(m - 1) -> V] : Upto(f, m - 1)
    BY <1>2
  <2> DEFINE h == [i \in 0..m |-> IF i = m THEN step[<<f[m - 1], m>>] ELSE f[i]]
  <2>2. m - 1 \in 0..(m - 1) /\ step[<<f[m - 1], m>>] \in V
    OBVIOUS
  <2>3. \A i \in 0..(m - 1) : i \in 0..m /\ h[i] = f[i] /\ f[i] \in V
    OBVIOUS
  <2>4. h \in [0..m -> V]
    BY <2>2
  <2>5. h[0] = base
    BY <2>1, <2>3
  <2>6. ASSUME NEW i \in 1..m
        PROVE  h[i] = step[<<h[i - 1], i>>]
    <3>1. i - 1 \in 0..(m - 1) /\ i \in 0..m
      OBVIOUS
    <3>2. CASE i = m
      BY <2>3, <3>1, <3>2
    <3>3. CASE i # m
      <4>1. i \in 1..(m - 1) /\ i \in 0..(m - 1)
        BY <3>3
      <4> QED BY <2>1, <2>3, <3>1, <4>1
    <3> QED BY <3>2, <3>3
  <2> HIDE DEF h
  <2> QED BY <2>4, <2>5, <2>6
<1>3. P = 0..n
  <2> HIDE DEF P
  <2>1. P \in SUBSET (0..n)
    BY DEF P
  <2> QED BY <1>1, <1>2, <2>1, PrefixInduction
<1>4. PICK f \in [0..n -> V] : Upto(f, n)
  <2>1. n \in 0..n
    OBVIOUS
  <2>2. \A m \in P : \E f \in [0..m -> V] : Upto(f, m)
    OBVIOUS
  <2> HIDE DEF P
  <2> QED BY <1>3, <2>1, <2>2
<1>5. ASSUME NEW g, g = [m \in 0..n |-> g[m]], g[0] = base,
             \A i \in 1..n : g[i - 1] \in V => g[i] = step[<<g[i - 1], i>>]
      PROVE  g = f
  <2> DEFINE Q == {m \in 0..n : g[m] = f[m]}
  <2>1. 0 \in Q
    BY <1>4, <1>5
  <2>2. ASSUME NEW i \in 1..n, i - 1 \in Q
        PROVE  i \in Q
    <3>1. i - 1 \in 0..n /\ i \in 0..n /\ f[i - 1] \in V
      OBVIOUS
    <3> QED BY <1>4, <1>5, <2>2, <3>1
  <2>3. Q = 0..n
    <3> HIDE DEF Q
    <3>1. Q \in SUBSET (0..n)
      BY DEF Q
    <3> QED BY <2>1, <2>2, <3>1, PrefixInduction
  <2>4. \A m \in 0..n : g[m] = f[m]
    BY <2>3
  <2>5. f = [m \in 0..n |-> f[m]]
    OBVIOUS
  <2> QED BY <1>5, <2>4, <2>5
<1> QED BY <1>4, <1>5 DEF RunOf, GivenAs

------------------------------------------------------------------------------
(* The patches *)

\* A file, then the lines of a patch.
PatchTyped ==
  kind = "patch" =>
    /\ input \in Seq(PatchedFiles \cup (PatchTypes \X Texts))
    /\ input # <<>> => input[1] \in PatchedFiles
    /\ \A i \in 2..Len(input) : input[i] \in PatchTypes \X Texts

LEMMA PatchGrows == Spec => []PatchTyped
<1>1. Init => PatchTyped
  BY DEF Init, PatchTyped
<1>2. PatchTyped /\ [Next]_vars => PatchTyped'
  <2> SUFFICES ASSUME PatchTyped, [Next]_vars, kind' = "patch"
               PROVE PatchTyped'
    BY DEF PatchTyped
  <2>1. CASE PatchNext
    <3>1. CASE Len(input) = 0 /\ Grow("patch", PatchedFiles, 1)
      <4>1. kind = "patch" /\ \E f \in PatchedFiles : input' = Append(input, f)
        BY <3>1 DEF Grow
      <4> QED BY <3>1, <4>1 DEF PatchTyped
    <3>2. CASE Len(input) > 0 /\ Grow("patch", PatchTypes \X Texts, 1 + MaxPatchLines)
      <4>1. kind = "patch" /\ \E p \in PatchTypes \X Texts : input' = Append(input, p)
        BY <3>2 DEF Grow
      <4>2. PICK p \in PatchTypes \X Texts : input' = Append(input, p)
        BY <4>1
      <4>3. input \in Seq(PatchedFiles \cup (PatchTypes \X Texts)) /\ Len(input) \in Nat
        BY <4>1 DEF PatchTyped
      <4>4. input' \in Seq(PatchedFiles \cup (PatchTypes \X Texts)) /\ Len(input') = Len(input) + 1
        BY <4>2, <4>3
      <4>5. /\ \A i \in 1..Len(input) : input'[i] = input[i]
            /\ input'[Len(input) + 1] = p
        BY <4>2, <4>3
      <4>6. input[1] \in PatchedFiles
        BY <3>2, <4>1 DEF PatchTyped
      <4>7. input'[1] \in PatchedFiles
        BY <3>2, <4>3, <4>5, <4>6
      <4>8. ASSUME NEW i \in 2..Len(input')
            PROVE  input'[i] \in PatchTypes \X Texts
        <5>1. CASE i = Len(input) + 1
          BY <4>5, <5>1
        <5>2. CASE i # Len(input) + 1
          <6>1. i \in 2..Len(input) /\ i \in 1..Len(input)
            BY <4>3, <4>4, <5>2
          <6> QED BY <4>1, <4>5, <6>1 DEF PatchTyped
        <5> QED BY <5>1, <5>2
      <4> QED BY <4>4, <4>7, <4>8 DEF PatchTyped
    <3> QED BY <2>1, <3>1, <3>2 DEF PatchNext
  <2>2. CASE UNCHANGED input
    BY <2>2, OneAlgorithm DEF PatchTyped
  <2> QED BY <2>1, <2>2, OneAlgorithm
<1> QED BY <1>1, <1>2, PTL DEF Spec

\* Lines with one more and with one less.
InsertedAt(new, l, i, e) ==
  /\ Len(new) = Len(l) + 1 /\ new[i] = e
  /\ \A j \in 1..(i - 1) : new[j] = l[j]
  /\ \A j \in (i + 1)..(Len(l) + 1) : new[j] = l[j - 1]

LEMMA EditedLines ==
  ASSUME NEW S, NEW l \in Seq(S), NEW i \in 1..(Len(l) + 1), NEW e \in S
  PROVE  /\ InsertAt(l, i, e) \in Seq(S) /\ InsertedAt(InsertAt(l, i, e), l, i, e)
         /\ i <= Len(l) => RemoveAt(l, i) \in Seq(S) /\ Len(RemoveAt(l, i)) = Len(l) - 1
<1>1. Len(l) \in Nat /\ i \in Int /\ \A j \in 1..Len(l) : l[j] \in S
  OBVIOUS
<1> DEFINE a == SubSeq(l, 1, i - 1)
           b == SubSeq(l, i, Len(l))
           c == a \o <<e>>
           d == SubSeq(l, i + 1, Len(l))
<1>2. a \in Seq(S) /\ Len(a) = i - 1 /\ \A j \in 1..(i - 1) : a[j] = l[j]
  <2>1. (\A j \in 1..(i - 1) : l[j] \in S) /\ i - 1 \in Int /\ 1 \in Int
    BY <1>1
  <2>2. /\ a \in Seq(S) /\ Len(a) = IF 1 <= i - 1 THEN i - 1 - 1 + 1 ELSE 0
        /\ \A j \in 1..(i - 1 - 1 + 1) : a[j] = l[1 + j - 1]
    BY <2>1, SubSeqProperties
  <2> HIDE DEF a
  <2> QED BY <1>1, <2>2
<1>3. b \in Seq(S) /\ Len(b) = Len(l) + 1 - i /\ \A j \in 1..(Len(l) + 1 - i) : b[j] = l[i + j - 1]
  <2>1. (\A j \in i..Len(l) : l[j] \in S) /\ Len(l) \in Int
    BY <1>1
  <2>2. /\ b \in Seq(S) /\ Len(b) = IF i <= Len(l) THEN Len(l) - i + 1 ELSE 0
        /\ \A j \in 1..(Len(l) - i + 1) : b[j] = l[i + j - 1]
    BY <1>1, <2>1, SubSeqProperties
  <2> HIDE DEF b
  <2> QED BY <1>1, <2>2
<1>4. d \in Seq(S) /\ (i <= Len(l) => Len(d) = Len(l) - i)
  <2>1. (\A j \in (i + 1)..Len(l) : l[j] \in S) /\ Len(l) \in Int /\ i + 1 \in Int
    BY <1>1
  <2>2. d \in Seq(S) /\ Len(d) = IF i + 1 <= Len(l) THEN Len(l) - (i + 1) + 1 ELSE 0
    BY <2>1, SubSeqProperties
  <2> HIDE DEF d
  <2> QED BY <1>1, <2>2
<1>5. InsertAt(l, i, e) = c \o b /\ RemoveAt(l, i) = a \o d
  BY DEF InsertAt, RemoveAt
<1> HIDE DEF a, b, d
<1>6. <<e>> \in Seq(S) /\ Len(<<e>>) = 1 /\ <<e>>[1] = e
  OBVIOUS
<1>7. /\ c \in Seq(S) /\ Len(c) = Len(a) + 1
      /\ \A j \in 1..(Len(a) + 1) : c[j] = IF j <= Len(a) THEN a[j] ELSE <<e>>[j - Len(a)]
  BY <1>2, <1>6, ConcatProperties
<1>8. c \in Seq(S) /\ Len(c) = i /\ \A j \in 1..i : c[j] = IF j < i THEN l[j] ELSE e
  <2> HIDE DEF c
  <2>1. \A j \in 1..i : c[j] = IF j <= i - 1 THEN a[j] ELSE <<e>>[j - (i - 1)]
    BY <1>1, <1>2, <1>7
  <2>2. \A j \in 1..i : ~(j <= i - 1) => j - (i - 1) = 1
    BY <1>1
  <2>3. \A j \in 1..i : j < i <=> j <= i - 1
    BY <1>1
  <2>4. \A j \in 1..i : j <= i - 1 => a[j] = l[j]
    BY <1>1, <1>2
  <2> QED BY <1>1, <1>2, <1>6, <1>7, <2>1, <2>2, <2>3, <2>4
<1> HIDE DEF c
<1>9. /\ c \o b \in Seq(S) /\ Len(c \o b) = Len(c) + Len(b)
      /\ \A j \in 1..(Len(c) + Len(b)) : (c \o b)[j] = IF j <= Len(c) THEN c[j] ELSE b[j - Len(c)]
  BY <1>3, <1>8, ConcatProperties
<1>10. ASSUME NEW j \in 1..(Len(l) + 1)
       PROVE  (c \o b)[j] = IF j < i THEN l[j] ELSE IF j = i THEN e ELSE l[j - 1]
  <2>1. (c \o b)[j] = IF j <= i THEN c[j] ELSE b[j - i]
    BY <1>1, <1>3, <1>8, <1>9
  <2>2. CASE j <= i
    <3>1. j \in 1..i
      BY <2>2
    <3> QED BY <1>8, <2>1, <2>2, <3>1
  <2>3. CASE ~(j <= i)
    <3>1. j - i \in 1..(Len(l) + 1 - i) /\ i + (j - i) - 1 = j - 1 /\ ~(j < i) /\ j # i
      BY <1>1, <2>3
    <3> QED BY <1>3, <2>1, <2>3, <3>1
  <2> QED BY <2>2, <2>3
<1>11. a \o d \in Seq(S) /\ Len(a \o d) = Len(a) + Len(d)
  BY <1>2, <1>4, ConcatProperties
<1>12. Len(c \o b) = Len(l) + 1 /\ (i <= Len(l) => Len(a \o d) = Len(l) - 1)
  BY <1>1, <1>2, <1>3, <1>4, <1>8, <1>9, <1>11
<1>13. InsertAt(l, i, e) \in Seq(S) /\ RemoveAt(l, i) \in Seq(S)
  BY <1>5, <1>9, <1>11
<1>14. /\ (c \o b)[i] = e
       /\ \A j \in 1..(i - 1) : (c \o b)[j] = l[j]
       /\ \A j \in (i + 1)..(Len(l) + 1) : (c \o b)[j] = l[j - 1]
  <2>1. ~(i < i) /\ i \in 1..(Len(l) + 1)
    BY <1>1
  <2>2. \A j \in 1..(i - 1) : j \in 1..(Len(l) + 1) /\ j < i
    BY <1>1
  <2>3. \A j \in (i + 1)..(Len(l) + 1) : j \in 1..(Len(l) + 1) /\ ~(j < i) /\ j # i
    BY <1>1
  <2> QED BY <1>10, <2>1, <2>2, <2>3
<1> HIDE DEF InsertAt, RemoveAt
<1> QED BY <1>5, <1>12, <1>13, <1>14 DEF InsertedAt

\* The states of the two loops over the lines of a patch.
PatchedLine == [text : Texts, cr : BOOLEAN]
LoopStates == [at : Int, lines : Seq(PatchedLine), thrown : BOOLEAN]
HunkStates ==
  {r \in [at : Int, lines : Seq(Texts), failed : BOOLEAN] : r.at \in 1..(Len(r.lines) + 1)}

LEMMA LoopTyped ==
  ASSUME NEW p \in PatchTypes \X Texts
  PROVE  /\ \A s \in LoopStates : PatchLine(s, p) \in LoopStates
         /\ \A r \in HunkStates : HunkLine(r, p) \in HunkStates
<1>1. p[2] \in Texts /\ p[1] \in PatchTypes
  OBVIOUS
<1>2. ASSUME NEW s \in LoopStates
      PROVE  PatchLine(s, p) \in LoopStates
  <2> DEFINE at == s.at + 1
             lines == s.lines
  <2>1. at \in Int /\ lines \in Seq(PatchedLine) /\ s.thrown \in BOOLEAN
    BY DEF LoopStates
  <2>2. CASE s.thrown \/ at \notin DOMAIN lines
    BY <2>2 DEF PatchLine, LoopStates
  <2>3. CASE ~s.thrown /\ at \in DOMAIN lines
    <3>1. /\ at \in 1..(Len(lines) + 1) /\ at <= Len(lines)
          /\ NextLine(lines[at], p) \in PatchedLine
      <4>1. Len(lines) \in Nat /\ at \in 1..Len(lines) /\ lines[at] \in PatchedLine
        <5> HIDE DEF at, lines
        <5> QED BY <2>1, <2>3
      <4> QED BY <1>1, <4>1 DEF NextLine, PatchedLine
    <3>2. RemoveAt(lines, at) \in Seq(PatchedLine) /\ InsertAt(lines, at, NextLine(lines[at], p)) \in Seq(PatchedLine)
      <4> HIDE DEF at, lines
      <4> QED BY <2>1, <3>1, EditedLines
    <3>3. PatchLine(s, p) \in
            {[s EXCEPT !.at = at, !.lines = RemoveAt(lines, at)],
             [s EXCEPT !.at = at, !.lines = InsertAt(lines, at, NextLine(lines[at], p))],
             [s EXCEPT !.at = at, !.thrown = lines[at] # NextLine(lines[at], p)],
             [s EXCEPT !.at = at]}
      <4>1. CASE p[1] = "remove"
        BY <2>3, <4>1 DEF PatchLine
      <4>2. CASE p[1] = "add"
        BY <2>3, <4>2 DEF PatchLine
      <4>3. CASE p[1] = "keep"
        BY <2>3, <4>3 DEF PatchLine
      <4>4. CASE p[1] \notin {"remove", "add", "keep"}
        BY <2>3, <4>4 DEF PatchLine
      <4> QED BY <4>1, <4>2, <4>3, <4>4
    <3> HIDE DEF at, lines
    <3> QED BY <2>1, <3>2, <3>3 DEF LoopStates
  <2> QED BY <2>2, <2>3
<1>3. ASSUME NEW r \in HunkStates
      PROVE  HunkLine(r, p) \in HunkStates
  <2>1. /\ r.at \in 1..(Len(r.lines) + 1) /\ r.lines \in Seq(Texts) /\ r.failed \in BOOLEAN
        /\ Len(r.lines) \in Nat /\ DOMAIN r.lines = 1..Len(r.lines)
        /\ r \in [at : Int, lines : Seq(Texts), failed : BOOLEAN]
    BY DEF HunkStates
  <2> DEFINE inserted == InsertAt(r.lines, r.at, p[2])
             removed == RemoveAt(r.lines, r.at)
  <2>2. /\ inserted \in Seq(Texts) /\ Len(inserted) = Len(r.lines) + 1
        /\ r.at <= Len(r.lines) => removed \in Seq(Texts) /\ Len(removed) = Len(r.lines) - 1
    BY <1>1, <2>1, EditedLines DEF InsertedAt
  <2> HIDE DEF inserted, removed
  <2>3. CASE r.failed
    BY <2>3 DEF HunkLine
  <2>4. CASE ~r.failed /\ p[1] = "add"
    <3>1. HunkLine(r, p) = [at |-> r.at + 1, lines |-> inserted, failed |-> r.failed]
      BY <2>1, <2>4 DEF HunkLine, inserted
    <3> QED BY <2>1, <2>2, <3>1 DEF HunkStates
  <2>5. CASE ~r.failed /\ p[1] # "add" /\ (r.at \notin DOMAIN r.lines \/ r.lines[r.at] # p[2])
    <3>1. HunkLine(r, p) = [at |-> r.at, lines |-> r.lines, failed |-> TRUE]
      BY <2>1, <2>5 DEF HunkLine
    <3> QED BY <2>1, <3>1 DEF HunkStates
  <2>6. CASE ~r.failed /\ p[1] = "keep" /\ r.at \in DOMAIN r.lines /\ r.lines[r.at] = p[2]
    <3>1. HunkLine(r, p) = [at |-> r.at + 1, lines |-> r.lines, failed |-> r.failed]
      BY <2>1, <2>6 DEF HunkLine
    <3>2. r.at + 1 \in 1..(Len(r.lines) + 1)
      BY <2>1, <2>6
    <3> QED BY <2>1, <3>1, <3>2 DEF HunkStates
  <2>7. CASE ~r.failed /\ p[1] \notin {"add", "keep"} /\ r.at \in DOMAIN r.lines /\ r.lines[r.at] = p[2]
    <3>1. HunkLine(r, p) = [at |-> r.at, lines |-> removed, failed |-> r.failed]
      BY <2>1, <2>7 DEF HunkLine, removed
    <3>2. r.at <= Len(r.lines) /\ r.at \in 1..(Len(r.lines) - 1 + 1)
      BY <2>1, <2>7
    <3> QED BY <2>1, <2>2, <3>1, <3>2 DEF HunkStates
  <2> QED BY <2>3, <2>4, <2>5, <2>6, <2>7
<1> QED BY <1>2, <1>3

\* What the code has made of the file's lines, if it has not thrown: what the
\* patch says, with returns that reach up to some line.
ReturnsLast(lines) == \A j \in DOMAIN lines : lines[j].cr => \A i \in 1..j : lines[i].cr
TextsOf(lines) == [i \in DOMAIN lines |-> lines[i].text]
Agree(s, r) ==
  s.thrown \/ /\ ~r.failed /\ r.at = s.at + 1
              /\ r.lines = TextsOf(s.lines)
              /\ ReturnsLast(s.lines)

\* A line that is added has the return of the line that it is added before.
LEMMA LineAdded ==
  ASSUME NEW lines \in Seq(PatchedLine), NEW at \in DOMAIN lines,
         NEW t \in Texts, ReturnsLast(lines)
  PROVE  LET new == InsertAt(lines, at, [text |-> t, cr |-> lines[at].cr])
         IN  /\ TextsOf(new) = InsertAt(TextsOf(lines), at, t)
             /\ ReturnsLast(new)
<1> DEFINE line == [text |-> t, cr |-> lines[at].cr]
           new == InsertAt(lines, at, line)
           texts == TextsOf(lines)
           wanted == InsertAt(texts, at, t)
<1>1. /\ Len(lines) \in Nat /\ DOMAIN lines = 1..Len(lines) /\ at \in 1..(Len(lines) + 1)
      /\ at \in 1..Len(lines) /\ line \in PatchedLine
  <2>1. Len(lines) \in Nat /\ DOMAIN lines = 1..Len(lines) /\ lines[at] \in PatchedLine
    OBVIOUS
  <2> QED BY <2>1 DEF PatchedLine
<1>2. /\ new \in Seq(PatchedLine) /\ Len(new) = Len(lines) + 1
      /\ new[at] = line
      /\ \A j \in 1..(at - 1) : new[j] = lines[j]
      /\ \A j \in (at + 1)..(Len(lines) + 1) : new[j] = lines[j - 1]
  <2> HIDE DEF line
  <2>1. lines \in Seq(PatchedLine) /\ at \in 1..(Len(lines) + 1) /\ line \in PatchedLine
    BY <1>1
  <2>2. new \in Seq(PatchedLine) /\ InsertedAt(new, lines, at, line)
    BY ONLY <2>1, EditedLines
  <2> QED BY <2>2 DEF InsertedAt
<1>3. texts \in Seq(Texts) /\ Len(texts) = Len(lines) /\ \A j \in 1..Len(lines) : texts[j] = lines[j].text
  <2>1. \A j \in 1..Len(lines) : lines[j] \in PatchedLine
    OBVIOUS
  <2> QED BY <1>1, <2>1 DEF TextsOf, PatchedLine
<1>4. /\ wanted \in Seq(Texts) /\ Len(wanted) = Len(lines) + 1
      /\ wanted[at] = t
      /\ \A j \in 1..(at - 1) : wanted[j] = texts[j]
      /\ \A j \in (at + 1)..(Len(lines) + 1) : wanted[j] = texts[j - 1]
  <2> HIDE DEF texts
  <2>1. at \in 1..(Len(texts) + 1) /\ Len(texts) = Len(lines)
    BY <1>1, <1>3
  <2>2. wanted \in Seq(Texts) /\ InsertedAt(wanted, texts, at, t)
    BY <1>3, <2>1, EditedLines
  <2> QED BY <2>1, <2>2 DEF InsertedAt
<1>5. DOMAIN new = 1..(Len(lines) + 1) /\ wanted = [j \in 1..(Len(lines) + 1) |-> wanted[j]]
  <2> HIDE DEF new, wanted
  <2>1. DOMAIN new = 1..Len(new) /\ wanted = [j \in 1..Len(wanted) |-> wanted[j]]
    BY <1>2, <1>4
  <2> QED BY <1>2, <1>4, <2>1
<1> HIDE DEF new, wanted, texts
<1>6. \A j \in 1..(Len(lines) + 1) : new[j].text = wanted[j]
  <2> SUFFICES ASSUME NEW j \in 1..(Len(lines) + 1) PROVE new[j].text = wanted[j]
    OBVIOUS
  <2>1. CASE j < at
    <3>1. j \in 1..(at - 1) /\ j \in 1..Len(lines)
      BY <1>1, <2>1
    <3> QED BY <1>2, <1>3, <1>4, <3>1
  <2>2. CASE j = at
    BY <1>1, <1>2, <1>4, <2>2
  <2>3. CASE j > at
    <3>1. j - 1 \in 1..Len(lines)
      BY <1>1, <2>3
    <3>2. j \in (at + 1)..(Len(lines) + 1)
      BY <1>1, <2>3
    <3>3. new[j] = lines[j - 1] /\ wanted[j] = texts[j - 1]
      BY <1>2, <1>4, <3>2
    <3> QED BY <1>3, <3>1, <3>3
  <2> QED BY <1>1, <2>1, <2>2, <2>3
<1>7. ASSUME NEW j \in DOMAIN new, new[j].cr, NEW i \in 1..j
      PROVE  new[i].cr
  <2>1. i \in 1..(Len(lines) + 1) /\ j \in 1..(Len(lines) + 1)
    BY <1>1, <1>5
  <2>2. CASE j < at
    <3>1. j \in 1..(at - 1) /\ j \in DOMAIN lines /\ i \in 1..(at - 1)
      BY <1>1, <2>1, <2>2
    <3> QED BY <1>2, <1>7, <3>1 DEF ReturnsLast
  <2>3. CASE j >= at
    <3>1. lines[at].cr
      <4>1. CASE j = at
        BY <1>2, <1>7, <2>1, <4>1
      <4>2. CASE j # at
        <5>1. j - 1 \in DOMAIN lines /\ j \in (at + 1)..(Len(lines) + 1) /\ at \in 1..(j - 1)
          BY <1>1, <2>1, <2>3, <4>2
        <5> QED BY <1>2, <1>7, <5>1 DEF ReturnsLast
      <4> QED BY <4>1, <4>2
    <3>2. CASE i < at
      <4>1. i \in 1..at /\ i \in 1..(at - 1)
        BY <1>1, <2>1, <3>2
      <4>2. lines[i].cr
        BY <3>1, <4>1 DEF ReturnsLast
      <4> QED BY <1>2, <4>1, <4>2
    <3>3. CASE i = at
      BY <1>1, <1>2, <2>1, <3>1, <3>3
    <3>4. CASE i > at
      <4>1. /\ j - 1 \in DOMAIN lines /\ i - 1 \in 1..(j - 1)
            /\ i \in (at + 1)..(Len(lines) + 1) /\ j \in (at + 1)..(Len(lines) + 1)
        BY <1>1, <2>1, <3>4
      <4>2. lines[i - 1].cr
        BY <1>2, <1>7, <4>1 DEF ReturnsLast
      <4> QED BY <1>2, <4>1, <4>2
    <3> QED BY <1>1, <2>1, <3>2, <3>3, <3>4
  <2> QED BY <1>1, <2>1, <2>2, <2>3
<1>8. ReturnsLast(new)
  BY <1>7 DEF ReturnsLast
<1>9. TextsOf(new) = wanted
  BY <1>5, <1>6 DEF TextsOf
<1> QED BY <1>8, <1>9 DEF new, wanted, texts

\* Each line that a patch adds or keeps does what the patch says, or throws.
LEMMA LineAgrees ==
  ASSUME NEW s \in LoopStates, NEW r \in HunkStates, Agree(s, r),
         NEW p \in PatchTypes \X Texts, p[1] \notin {"remove", "other"}
  PROVE  Agree(PatchLine(s, p), HunkLine(r, p))
<1> DEFINE at == s.at + 1
           lines == s.lines
<1>1. at \in Int /\ lines \in Seq(PatchedLine) /\ s.thrown \in BOOLEAN /\ p[2] \in Texts
  BY DEF LoopStates
<1>2. CASE s.thrown \/ at \notin DOMAIN lines
  BY <1>2 DEF PatchLine, Agree, LoopStates
<1>3. CASE ~s.thrown /\ at \in DOMAIN lines
  <2>1. /\ r.failed = FALSE /\ s.thrown = FALSE /\ r.at = at /\ r.lines = TextsOf(lines)
        /\ ReturnsLast(lines)
    BY <1>1, <1>3 DEF Agree, HunkStates
  <2>2. r = [at |-> r.at, lines |-> r.lines, failed |-> r.failed]
    BY DEF HunkStates
  <2>3. s = [at |-> s.at, lines |-> s.lines, thrown |-> s.thrown]
    BY DEF LoopStates
  <2>4. CASE p[1] = "add"
    <3> DEFINE new == InsertAt(lines, at, NextLine(lines[at], p))
    <3>1. PatchLine(s, p) = [at |-> at, lines |-> new, thrown |-> FALSE]
      BY <1>3, <2>1, <2>3, <2>4 DEF PatchLine
    <3>2. HunkLine(r, p) = [at |-> at + 1, lines |-> InsertAt(r.lines, at, p[2]), failed |-> FALSE]
      BY <2>1, <2>2, <2>4 DEF HunkLine
    <3>3. TextsOf(new) = InsertAt(r.lines, at, p[2]) /\ ReturnsLast(new)
      <4> HIDE DEF at, lines
      <4> QED BY <1>1, <1>3, <2>1, LineAdded DEF NextLine
    <3> HIDE DEF new
    <3> QED BY <3>1, <3>2, <3>3 DEF Agree
  <2>5. CASE p[1] = "keep" /\ lines[at] # NextLine(lines[at], p)
    BY <1>3, <2>3, <2>5 DEF PatchLine, Agree
  <2>6. CASE p[1] = "keep" /\ lines[at] = NextLine(lines[at], p)
    <3>1. PatchLine(s, p) = [at |-> at, lines |-> lines, thrown |-> FALSE]
      BY <1>3, <2>1, <2>3, <2>6 DEF PatchLine
    <3>2. at \in DOMAIN r.lines /\ r.lines[at] = p[2]
      BY <1>3, <2>1, <2>6 DEF NextLine, TextsOf
    <3>3. HunkLine(r, p) = [at |-> at + 1, lines |-> r.lines, failed |-> FALSE]
      BY <2>1, <2>2, <2>6, <3>2 DEF HunkLine
    <3> QED BY <2>1, <3>1, <3>3 DEF Agree
  <2> QED BY <2>4, <2>5, <2>6 DEF PatchTypes
<1> QED BY <1>1, <1>2, <1>3

\* The loops as sequences of states.
LEMMA LoopsRun ==
  ASSUME PatchTyped, kind = "patch", StartsInFile
  PROVE  LET ps == PatchLines(input)
             n == Len(ps)
         IN  /\ n \in Nat /\ ps \in Seq(PatchTypes \X Texts)
             /\ \E f \in [0..n -> LoopStates] :
                  /\ f[0] = [at |-> StartLine(input), lines |-> FileLines(input), thrown |-> FALSE]
                  /\ \A i \in 1..n : f[i] = PatchLine(f[i - 1], ps[i])
                  /\ f[n] = Patched(input)
             /\ \E g \in [0..n -> HunkStates] :
                  /\ g[0] = [at |-> input[1].start, lines |-> input[1].texts, failed |-> FALSE]
                  /\ \A i \in 1..n : g[i] = HunkLine(g[i - 1], ps[i])
                  /\ g[n] = ApplyHunk(input)
             /\ FileLines(input) \in Seq(PatchedLine) /\ Agree(
                  [at |-> StartLine(input), lines |-> FileLines(input), thrown |-> FALSE],
                  [at |-> input[1].start, lines |-> input[1].texts, failed |-> FALSE])
<1> DEFINE ps == PatchLines(input)
           n == Len(ps)
           file == input[1]
           first == [at |-> StartLine(input), lines |-> FileLines(input), thrown |-> FALSE]
           hunk == [at |-> file.start, lines |-> file.texts, failed |-> FALSE]
<1>1. /\ input \in Seq(PatchedFiles \cup (PatchTypes \X Texts)) /\ input # <<>>
      /\ file \in PatchedFiles /\ \A i \in 2..Len(input) : input[i] \in PatchTypes \X Texts
  BY DEF PatchTyped, StartsInFile
<1>2. n \in Nat /\ ps \in Seq(PatchTypes \X Texts)
  <2>1. /\ ps \in Seq(PatchedFiles \cup (PatchTypes \X Texts)) /\ Len(ps) = Len(input) - 1
        /\ \A i \in 1..Len(ps) : ps[i] = input[i + 1]
    BY <1>1, HeadTailProperties DEF PatchLines
  <2>2. Len(ps) \in Nat /\ Len(input) \in Nat /\ DOMAIN ps = 1..Len(ps)
    BY <1>1, <2>1
  <2> HIDE DEF ps
  <2>3. \A i \in 1..Len(ps) : i + 1 \in 2..Len(input)
    BY <2>1, <2>2
  <2>4. \A i \in 1..Len(ps) : ps[i] \in PatchTypes \X Texts
    BY <1>1, <2>1, <2>3
  <2>5. ps \in [1..Len(ps) -> PatchTypes \X Texts]
    BY <2>1, <2>2, <2>4
  <2> QED BY <2>2, <2>5
<1>3. /\ file.texts \in Seq(Texts) /\ Len(file.texts) \in Nat /\ file.returns \in BOOLEAN
      /\ file.start \in 1..Len(file.texts) /\ DOMAIN file.texts = 1..Len(file.texts)
      /\ \A i \in 1..Len(file.texts) : file.texts[i] \in Texts
  <2>1. /\ file.texts \in BoundedSeq(Texts, MaxFileLines) /\ file.returns \in BOOLEAN
        /\ file.start \in DOMAIN file.texts
    BY <1>1 DEF PatchedFiles, StartsInFile
  <2>2. PICK m \in 0..MaxFileLines : file.texts \in [1..m -> Texts]
    BY <2>1 DEF BoundedSeq, SeqOf
  <2>3. m \in Nat
    BY PatchAssumption
  <2> HIDE DEF file
  <2>4. file.texts \in Seq(Texts) /\ Len(file.texts) = m
    BY <2>2, <2>3
  <2> QED BY <2>1, <2>2, <2>3, <2>4
<1>4. /\ FileLines(input) \in Seq(PatchedLine) /\ DOMAIN FileLines(input) = 1..Len(file.texts)
      /\ TextsOf(FileLines(input)) = file.texts /\ ReturnsLast(FileLines(input))
  <2>1. FileLines(input) = [i \in 1..Len(file.texts) |->
          [text |-> file.texts[i], cr |-> file.returns /\ i < Len(file.texts)]]
    BY <1>3 DEF FileLines
  <2> HIDE DEF file
  <2>2. FileLines(input) \in [1..Len(file.texts) -> PatchedLine]
    BY <1>3, <2>1 DEF PatchedLine
  <2>3. TextsOf(FileLines(input)) = [i \in 1..Len(file.texts) |-> file.texts[i]]
    BY <2>1 DEF TextsOf
  <2>4. ReturnsLast(FileLines(input))
    BY <1>3, <2>1 DEF ReturnsLast
  <2>5. FileLines(input) \in Seq(PatchedLine) /\ DOMAIN FileLines(input) = 1..Len(file.texts)
    BY <1>3, <2>2
  <2>6. file.texts = [i \in 1..Len(file.texts) |-> file.texts[i]]
    BY <1>3
  <2> QED BY <2>3, <2>4, <2>5, <2>6
<1>5. first \in LoopStates /\ hunk \in HunkStates /\ Agree(first, hunk)
  <2>1. StartLine(input) = file.start - 1
    BY DEF StartLine
  <2> HIDE DEF file
  <2> QED BY <1>3, <1>4, <2>1 DEF LoopStates, HunkStates, Agree
<1> HIDE DEF first, hunk, n
<1>6. \E f \in [0..n -> LoopStates] :
        f[0] = first /\ (\A i \in 1..n : f[i] = PatchLine(f[i - 1], ps[i])) /\ f[n] = Patched(input)
  <2> DEFINE step == [x \in LoopStates \X (1..n) |-> PatchLine(x[1], ps[x[2]])]
             after == CHOOSE h : h = [m \in 0..n |-> IF m = 0 THEN first ELSE PatchLine(h[m - 1], ps[m])]
  <2>1. step \in [LoopStates \X (1..n) -> LoopStates]
    <3>1. \A x \in LoopStates \X (1..n) : x[1] \in LoopStates /\ ps[x[2]] \in PatchTypes \X Texts
      <4> HIDE DEF ps
      <4> QED BY <1>2 DEF n
    <3> QED BY <3>1, LoopTyped
  <2>2. \A s \in LoopStates : \A i \in 1..n : step[<<s, i>>] = PatchLine(s, ps[i])
    OBVIOUS
  <2> HIDE DEF step
  <2>3. PICK f \in [0..n -> LoopStates] :
          RunOf(f, n, first, step) /\ \A g : GivenAs(g, n, LoopStates, first, step) => g = f
    <3>1. n \in Nat
      BY <1>2 DEF n
    <3> QED BY <1>5, <2>1, <3>1, PrefixRecursion
  <2>4. \A i \in 1..n : f[i] = PatchLine(f[i - 1], ps[i])
    <3>1. \A i \in 1..n : i - 1 \in 0..n
      BY <1>2 DEF n
    <3>2. \A i \in 1..n : f[i - 1] \in LoopStates
      BY <3>1
    <3> QED BY <2>2, <2>3, <3>2 DEF RunOf
  <2>5. n \in 0..n /\ 0 \in 0..n /\ 1..n = {i \in 0..n : i # 0}
    BY <1>2 DEF n
  <2>6. f = [m \in 0..n |-> IF m = 0 THEN first ELSE PatchLine(f[m - 1], ps[m])]
    <3>1. f = [m \in 0..n |-> f[m]]
      OBVIOUS
    <3>2. \A m \in 0..n : f[m] = IF m = 0 THEN first ELSE PatchLine(f[m - 1], ps[m])
      BY <2>3, <2>4, <2>5 DEF RunOf
    <3> QED BY <3>1, <3>2
  <2>7. after = [m \in 0..n |-> IF m = 0 THEN first ELSE PatchLine(after[m - 1], ps[m])]
    BY <2>6
  <2>8. Patched(input) = after[n]
    BY DEF Patched, n, first
  <2> HIDE DEF after
  <2>9. after = f
    <3>1. after = [m \in 0..n |-> after[m]] /\ after[0] = first
      BY <2>5, <2>7
    <3>2. \A i \in 1..n : after[i] = PatchLine(after[i - 1], ps[i])
      BY <2>5, <2>7
    <3>3. \A i \in 1..n : after[i - 1] \in LoopStates => after[i] = step[<<after[i - 1], i>>]
      BY <2>2, <3>2
    <3> QED BY <2>3, <3>1, <3>3 DEF GivenAs
  <2> QED BY <2>3, <2>4, <2>8, <2>9 DEF RunOf
<1>7. \E g \in [0..n -> HunkStates] :
        g[0] = hunk /\ (\A i \in 1..n : g[i] = HunkLine(g[i - 1], ps[i])) /\ g[n] = ApplyHunk(input)
  <2> DEFINE step == [x \in HunkStates \X (1..n) |-> HunkLine(x[1], ps[x[2]])]
             after == CHOOSE h : h = [m \in 0..n |-> IF m = 0 THEN hunk ELSE HunkLine(h[m - 1], ps[m])]
  <2>1. step \in [HunkStates \X (1..n) -> HunkStates]
    <3>1. \A x \in HunkStates \X (1..n) : x[1] \in HunkStates /\ ps[x[2]] \in PatchTypes \X Texts
      <4> HIDE DEF ps
      <4> QED BY <1>2 DEF n
    <3> QED BY <3>1, LoopTyped
  <2>2. \A s \in HunkStates : \A i \in 1..n : step[<<s, i>>] = HunkLine(s, ps[i])
    OBVIOUS
  <2> HIDE DEF step
  <2>3. PICK f \in [0..n -> HunkStates] :
          RunOf(f, n, hunk, step) /\ \A g : GivenAs(g, n, HunkStates, hunk, step) => g = f
    <3>1. n \in Nat
      BY <1>2 DEF n
    <3> QED BY <1>5, <2>1, <3>1, PrefixRecursion
  <2>4. \A i \in 1..n : f[i] = HunkLine(f[i - 1], ps[i])
    <3>1. \A i \in 1..n : i - 1 \in 0..n
      BY <1>2 DEF n
    <3>2. \A i \in 1..n : f[i - 1] \in HunkStates
      BY <3>1
    <3> QED BY <2>2, <2>3, <3>2 DEF RunOf
  <2>5. n \in 0..n /\ 0 \in 0..n /\ 1..n = {i \in 0..n : i # 0}
    BY <1>2 DEF n
  <2>6. f = [m \in 0..n |-> IF m = 0 THEN hunk ELSE HunkLine(f[m - 1], ps[m])]
    <3>1. f = [m \in 0..n |-> f[m]]
      OBVIOUS
    <3>2. \A m \in 0..n : f[m] = IF m = 0 THEN hunk ELSE HunkLine(f[m - 1], ps[m])
      BY <2>3, <2>4, <2>5 DEF RunOf
    <3> QED BY <3>1, <3>2
  <2>7. after = [m \in 0..n |-> IF m = 0 THEN hunk ELSE HunkLine(after[m - 1], ps[m])]
    BY <2>6
  <2>8. ApplyHunk(input) = after[n]
    BY DEF ApplyHunk, n, hunk
  <2> HIDE DEF after
  <2>9. after = f
    <3>1. after = [m \in 0..n |-> after[m]] /\ after[0] = hunk
      BY <2>5, <2>7
    <3>2. \A i \in 1..n : after[i] = HunkLine(after[i - 1], ps[i])
      BY <2>5, <2>7
    <3>3. \A i \in 1..n : after[i - 1] \in HunkStates => after[i] = step[<<after[i - 1], i>>]
      BY <2>2, <3>2
    <3> QED BY <2>3, <3>1, <3>3 DEF GivenAs
  <2> QED BY <2>3, <2>4, <2>8, <2>9 DEF RunOf
<1> QED BY <1>2, <1>4, <1>5, <1>6, <1>7 DEF first, hunk, n

\* A patch that removes nothing does what it says, line by line, or throws.
LEMMA AdditionsApplied ==
  ASSUME PatchTyped
  PROVE  AdditionsAreExact
<1> SUFFICES ASSUME kind = "patch", StartsInFile, ~HasLines({"remove", "other"}), ~Patched(input).thrown
             PROVE  LET r == ApplyHunk(input)  new == Patched(input).lines
                    IN  /\ ~r.failed /\ [i \in DOMAIN new |-> new[i].text] = r.lines
                        /\ \A j \in DOMAIN new : new[j].cr => \A i \in 1..j : new[i].cr
  BY DEF AdditionsAreExact
<1> DEFINE ps == PatchLines(input)
           n == Len(ps)
           first == [at |-> StartLine(input), lines |-> FileLines(input), thrown |-> FALSE]
           hunk == [at |-> input[1].start, lines |-> input[1].texts, failed |-> FALSE]
<1>1. n \in Nat /\ ps \in Seq(PatchTypes \X Texts) /\ Agree(first, hunk)
  BY LoopsRun
<1>2. PICK f \in [0..n -> LoopStates] :
        f[0] = first /\ (\A i \in 1..n : f[i] = PatchLine(f[i - 1], ps[i])) /\ f[n] = Patched(input)
  BY LoopsRun
<1>3. PICK g \in [0..n -> HunkStates] :
        g[0] = hunk /\ (\A i \in 1..n : g[i] = HunkLine(g[i - 1], ps[i])) /\ g[n] = ApplyHunk(input)
  BY LoopsRun
<1>4. \A i \in 1..n : ps[i] \in PatchTypes \X Texts /\ ps[i][1] \notin {"remove", "other"}
  <2>1. DOMAIN ps = 1..n /\ \A i \in 1..n : ps[i] \in PatchTypes \X Texts
    BY <1>1
  <2>2. \A i \in DOMAIN ps : ps[i] \in Range(ps)
    BY DEF Range
  <2>3. \A p \in Range(ps) : p[1] \notin {"remove", "other"}
    BY DEF HasLines
  <2> HIDE DEF ps
  <2> QED BY <2>1, <2>2, <2>3
<1> HIDE DEF ps, n, first, hunk
<1> DEFINE P == {i \in 0..n : Agree(f[i], g[i])}
<1>5. 0 \in P
  BY <1>1, <1>2, <1>3
<1>6. ASSUME NEW i \in 1..n, i - 1 \in P
      PROVE  i \in P
  <2>1. i - 1 \in 0..n /\ i \in 0..n
    BY <1>1
  <2>2. f[i - 1] \in LoopStates /\ g[i - 1] \in HunkStates /\ Agree(f[i - 1], g[i - 1])
    BY <1>6, <2>1
  <2>3. Agree(PatchLine(f[i - 1], ps[i]), HunkLine(g[i - 1], ps[i]))
    BY <1>4, <2>2, LineAgrees
  <2> QED BY <1>2, <1>3, <2>1, <2>3
<1>7. P = 0..n
  <2>1. P \in SUBSET (0..n)
    OBVIOUS
  <2> HIDE DEF P
  <2> QED BY <1>1, <1>5, <1>6, <2>1, PrefixInduction
<1>8. Agree(Patched(input), ApplyHunk(input))
  <2>1. n \in 0..n
    BY <1>1
  <2>2. n \in P
    BY <1>7, <2>1
  <2> QED BY <1>2, <1>3, <2>2
<1> QED BY <1>8 DEF Agree, TextsOf, ReturnsLast

------------------------------------------------------------------------------
(* log4shell *)

\* The artifacts differ by their places, and the archives around one are among them.
ArtifactsNested ==
  kind = "log4shell" =>
    /\ input \in Seq(DOMAIN ArtifactsInOrder)
    /\ \A a, b \in Artifacts : <<a.in, a.root, a.name>> = <<b.in, b.root, b.name>> => a = b
    /\ \A a \in Artifacts : \A k \in DOMAIN a.in : \E b \in Artifacts : Stands(b, a.in, k)

\* What stands in the chain of an archive stands in the chain of what it has.
LEMMA ChainsAgree ==
  ASSUME NEW A, NEW in \in Seq(A), NEW k \in DOMAIN in, NEW b, Stands(b, in, k)
  PROVE  /\ b.in \in Seq(A) /\ DOMAIN b.in = 1..(k - 1) /\ k \in Nat
         /\ \A j \in 1..(k - 1) : j \in DOMAIN in /\ (\A c : Stands(c, b.in, j) <=> Stands(c, in, j))
<1>1. /\ k \in 1..Len(in) /\ Len(in) \in Nat
      /\ b.in = SubSeq(in, 1, k - 1)
  BY DEF Stands
<1>2. /\ b.in \in Seq(A) /\ Len(b.in) = k - 1
      /\ \A j \in 1..(k - 1) : b.in[j] = in[j]
  BY <1>1
<1>3. ASSUME NEW j \in 1..(k - 1)
      PROVE  j \in DOMAIN in /\ SubSeq(b.in, 1, j - 1) = SubSeq(in, 1, j - 1)
  <2>1. j \in DOMAIN in /\ j - 1 \in 0..(k - 1)
    BY <1>1
  <2>2. \A i \in 1..(j - 1) : b.in[i] = in[i]
    BY <1>1, <1>2
  <2>3. SubSeq(b.in, 1, j - 1) = [i \in 1..(j - 1) |-> b.in[i]]
    BY <1>1, <1>2, <2>1
  <2>4. SubSeq(in, 1, j - 1) = [i \in 1..(j - 1) |-> in[i]]
    BY <1>1, <2>1
  <2> QED BY <2>1, <2>2, <2>3, <2>4
<1> QED BY <1>1, <1>2, <1>3 DEF Stands

LEMMA ArtifactsGrow == Spec => []ArtifactsNested
<1>1. Init => ArtifactsNested
  BY DEF Init, ArtifactsNested, Artifacts
<1>2. ArtifactsNested /\ [Next]_vars => ArtifactsNested'
  <2> SUFFICES ASSUME ArtifactsNested, [Next]_vars, kind' = "log4shell"
               PROVE ArtifactsNested'
    BY DEF ArtifactsNested
  <2>1. CASE Log4ShellNext
    <3>1. PICK n \in DOMAIN ArtifactsInOrder :
            /\ kind = "log4shell" /\ input' = Append(input, n)
            /\ LET a == ArtifactsInOrder[n]
               IN  /\ \A b \in Artifacts : <<b.in, b.root, b.name>> # <<a.in, a.root, a.name>>
                   /\ a.in # <<>> => \E b \in Artifacts : Append(b.in, b.name) = a.in
      BY <2>1 DEF Log4ShellNext, Grow
    <3> DEFINE a == ArtifactsInOrder[n]
    <3>2. input \in Seq(DOMAIN ArtifactsInOrder) /\ input' \in Seq(DOMAIN ArtifactsInOrder)
      BY <3>1 DEF ArtifactsNested
    <3>3. Artifacts' = Artifacts \cup {a}
      <4>1. /\ DOMAIN input = 1..Len(input) /\ DOMAIN input' = 1..(Len(input) + 1) /\ Len(input) \in Nat
            /\ \A i \in 1..Len(input) : input'[i] = input[i]
            /\ input'[Len(input) + 1] = n
        BY <3>1, <3>2
      <4>2. \A i \in DOMAIN input' : i \in DOMAIN input \/ i = Len(input) + 1
        BY <4>1
      <4>3. DOMAIN input \subseteq DOMAIN input' /\ Len(input) + 1 \in DOMAIN input'
        BY <4>1
      <4> QED BY <4>1, <4>2, <4>3 DEF Artifacts
    <3>4. \A b, c \in Artifacts' : <<b.in, b.root, b.name>> = <<c.in, c.root, c.name>> => b = c
      BY <3>1, <3>3 DEF ArtifactsNested
    <3>5. ASSUME NEW k \in DOMAIN a.in
          PROVE  \E c \in Artifacts : Stands(c, a.in, k)
      <4>1. a.in \in Seq(Archives)
        BY ArtifactAssumption
      <4>2. k \in 1..Len(a.in) /\ Len(a.in) \in Nat
        BY <4>1
      <4>3. a.in # <<>>
        BY <4>2
      <4>4. PICK b \in Artifacts : Append(b.in, b.name) = a.in
        BY <3>1, <4>3
      <4>5. b.in \in Seq(Archives)
        BY <3>2, <4>4, ArtifactAssumption DEF Artifacts
      <4>6. Len(a.in) = Len(b.in) + 1 /\ Len(b.in) \in Nat /\ a.in[Len(b.in) + 1] = b.name
        BY <4>4, <4>5
      <4>7. b.in = SubSeq(a.in, 1, Len(b.in))
        BY <4>1, <4>4, <4>5, <4>6
      <4>8. Len(a.in) \in DOMAIN a.in /\ Stands(b, a.in, Len(a.in))
        BY <4>1, <4>2, <4>6, <4>7 DEF Stands
      <4>9. CASE k = Len(a.in)
        BY <4>8, <4>9
      <4>10. CASE k # Len(a.in)
        <5>1. k \in 1..(Len(a.in) - 1)
          BY <4>2, <4>10
        <5>2. /\ DOMAIN b.in = 1..(Len(a.in) - 1)
              /\ \A c : Stands(c, b.in, k) <=> Stands(c, a.in, k)
          BY <4>1, <4>8, <5>1, ChainsAgree
        <5>3. \E c \in Artifacts : Stands(c, b.in, k)
          BY <3>1, <5>1, <5>2 DEF ArtifactsNested
        <5> QED BY <5>2, <5>3
      <4> QED BY <4>9, <4>10
    <3> HIDE DEF a
    <3>6. \A b \in Artifacts' : \A k \in DOMAIN b.in : \E c \in Artifacts' : Stands(c, b.in, k)
      BY <3>1, <3>3, <3>5 DEF ArtifactsNested
    <3> QED BY <3>2, <3>4, <3>6 DEF ArtifactsNested
  <2>2. CASE UNCHANGED input
    BY <2>2, OneAlgorithm DEF ArtifactsNested, Artifacts
  <2> QED BY <2>1, <2>2, OneAlgorithm
<1> QED BY <1>1, <1>2, PTL DEF Spec

\* Shown is what is known of the issues: each known artifact has a version that
\* says something, and only these have one.
LEMMA ShownAreKnown ==
  ASSUME ArtifactsNested, kind = "log4shell"
  PROVE  RceIssues \cup DosIssues = {a \in Issues4J : Known(a)}
<1>1. ASSUME NEW a \in Issues4J
      PROVE  ComputeExploitType(a) \in {"Log4Shell", "DoS"} <=> \E i \in DOMAIN a.versions : a.versions[i] \in Telling
  BY DEF ComputeExploitType
<1>2. ASSUME NEW a \in Issues4J, Known(a)
      PROVE  \E i \in DOMAIN a.versions : a.versions[i] \in Telling
  BY <1>2, ArtifactAssumption DEF ArtifactsNested, Issues4J, FilterJndi, Signatures, ParsedPaths, Find4J, Artifacts
<1>3. \A a : ~Known(a) => DOMAIN a.versions = {}
  BY DEF Known
<1> QED BY <1>1, <1>2, <1>3 DEF RceIssues, DosIssues

\* What an archive in a chain is, and that it is the only one in its place.
LEMMA OneStands ==
  ASSUME ArtifactsNested, kind = "log4shell", NEW a \in Artifacts
  PROVE  /\ a.in \in Seq(Archives)
         /\ a.content \in {"ok", "unlisted", "corrupt", "unreadable"}
         /\ Known(a) => a.content \in {"ok", "unlisted"} /\ ~JndiLookup(a)
         /\ \A k \in DOMAIN a.in :
              /\ \E b \in Artifacts : Stands(b, a.in, k)
              /\ \A b, c \in Artifacts : Stands(b, a.in, k) /\ Stands(c, a.in, k) => b = c /\ IsJavaArchive(b)
<1>1. PICK n \in DOMAIN ArtifactsInOrder : a = ArtifactsInOrder[n]
  BY DEF ArtifactsNested, Artifacts
<1>2. /\ a.in \in Seq(Archives)
      /\ a.content \in {"ok", "unlisted", "corrupt", "unreadable"}
      /\ Known(a) => a.content \in {"ok", "unlisted"} /\ ~JndiLookup(a)
  BY <1>1, ArtifactAssumption
<1>3. ASSUME NEW k \in DOMAIN a.in, NEW b \in Artifacts, NEW c \in Artifacts,
             Stands(b, a.in, k), Stands(c, a.in, k)
      PROVE  b = c /\ IsJavaArchive(b)
  <2>1. b.name \in Archives /\ c.name = b.name /\ b.in = c.in
    BY <1>2, <1>3 DEF Stands
  <2>2. PICK m \in DOMAIN ArtifactsInOrder : b = ArtifactsInOrder[m]
    BY DEF ArtifactsNested, Artifacts
  <2>3. PICK l \in DOMAIN ArtifactsInOrder : c = ArtifactsInOrder[l]
    BY DEF ArtifactsNested, Artifacts
  <2>4. b.root = c.root
    BY <2>1, <2>2, <2>3, ArtifactAssumption DEF IsJavaArchive
  <2> QED BY <2>1, <2>4 DEF ArtifactsNested, IsJavaArchive
<1> QED BY <1>2, <1>3 DEF ArtifactsNested

\* What is shown was reached: all archives around it have been opened.
LEMMA ShownAreFound ==
  ASSUME ArtifactsNested, kind = "log4shell",
         NEW a \in RceIssues \cup DosIssues, a.name # "JndiManager.java"
  PROVE  Vulnerable4J(a) /\ Accessible(a)
<1>1. /\ a \in Artifacts /\ a.content # "unlisted" /\ Opened(a.in)
      /\ a \in Issues4J /\ Known(a)
  BY ShownAreKnown DEF Issues4J, FilterJndi, Signatures, ParsedPaths, Find4J
<1>2. Vulnerable4J(a)
  BY <1>1, ArchiveAssumption DEF Vulnerable4J, Issues4J, FilterJndi, JndiManager, IsJavaArchive, Signatures, ParsedPaths
<1>3. a.content \notin {"unlisted", "corrupt"} /\ a.name # "JndiLookup.jar"
  BY <1>1, OneStands DEF JndiLookup
<1>4. ASSUME NEW b \in Artifacts, Within(a, b)
      PROVE  b.content \notin {"unlisted", "corrupt"} /\ b.name # "JndiLookup.jar"
  <2>1. PICK k \in DOMAIN a.in : Stands(b, a.in, k)
    BY <1>4 DEF Within
  <2>2. PICK c \in Artifacts : Stands(c, a.in, k) /\ Opens(c)
    BY <1>1 DEF Opened, Find4J
  <2>3. b = c
    BY <1>1, <2>1, <2>2, OneStands
  <2> QED BY <2>2, <2>3 DEF Opens, Signature, JndiLookup
<1> QED BY <1>2, <1>3, <1>4 DEF Accessible

\* A vulnerable artifact that can be reached is shown, if all around it is opened,
\* and otherwise the outermost archive that is not opened.
LEMMA VulnerableShownOnce ==
  ASSUME ArtifactsNested, kind = "log4shell", ~ScanThrows,
         NEW a \in Artifacts, IsArchiveOrJndi(a), Vulnerable4J(a), Accessible(a)
  PROVE  Cardinality({b \in RceIssues \cup DosIssues : b = a \/ Within(a, b)}) = 1
<1> DEFINE shown == RceIssues \cup DosIssues
           around == {b \in shown : b = a \/ Within(a, b)}
           T == {k \in DOMAIN a.in : \E b \in Artifacts : Stands(b, a.in, k) /\ ~Opens(b)}
<1>1. shown = {b \in Issues4J : Known(b)}
  BY ShownAreKnown
<1>2. \A b \in shown : b \in Artifacts /\ Signature(b) /\ ~Opens(b) /\ Opened(b.in)
  BY <1>1 DEF Opens, Issues4J, FilterJndi, Signatures, ParsedPaths, Find4J
<1>3. /\ a.in \in Seq(Archives) /\ DOMAIN a.in \in SUBSET Nat
      /\ Known(a) /\ a \in Find4J
      /\ \A k \in DOMAIN a.in :
           /\ \E b \in Artifacts : Stands(b, a.in, k)
           /\ \A b, c \in Artifacts : Stands(b, a.in, k) /\ Stands(c, a.in, k) => b = c /\ IsJavaArchive(b)
  BY OneStands DEF Vulnerable4J, Accessible, Find4J
<1>4. \A k \in DOMAIN a.in : \A b \in Artifacts : Stands(b, a.in, k) =>
        b \in Find4J /\ b.content # "corrupt" /\ b.name # "JndiLookup.jar"
  BY DEF Accessible, Within, Find4J
<1>5. \A k \in DOMAIN a.in : k \notin T => \E b \in Find4J : Stands(b, a.in, k) /\ Opens(b)
  BY <1>3, <1>4
<1> HIDE DEF shown, T
<1>6. CASE T = {}
  <2>1. Opened(a.in)
    BY <1>5, <1>6 DEF Opened
  <2>2. a \in Signatures /\ (IsJavaArchive(a) \/ JndiManager(a))
    BY <1>3, <2>1, OneStands DEF Signatures, Signature, ParsedPaths, IsArchiveOrJndi
  <2>3. ASSUME JndiManager(a)
        PROVE  \E b \in Signatures : b.name = "JndiLookup.class" /\ Beside(a, b)
    <3>1. PICK b \in Find4J : b.name = "JndiLookup.class" /\ Beside(a, b)
      BY <2>3 DEF Vulnerable4J
    <3>2. b \in Signatures
      BY <2>1, <3>1 DEF Signatures, Signature, ParsedPaths, IsArchiveOrJndi, JndiLookup, Beside
    <3> QED BY <3>1, <3>2
  <2>4. a \in shown
    BY <1>1, <1>3, <2>2, <2>3 DEF Issues4J, FilterJndi
  <2>5. ASSUME NEW b \in shown, Within(a, b)
        PROVE  FALSE
    BY <1>2, <1>6, <2>5 DEF Within, T
  <2>6. around = {a}
    BY <2>4, <2>5
  <2> QED BY <2>6, FS_Singleton DEF shown
<1>7. CASE T # {}
  <2>1. T \in SUBSET Nat
    BY <1>3 DEF T
  <2>2. PICK k \in T : \A j \in T : k <= j
    BY <1>7, <2>1, LeastExists
  <2>3. PICK b \in Artifacts : Stands(b, a.in, k) /\ ~Opens(b)
    BY DEF T
  <2>4. k \in DOMAIN a.in /\ k \in Nat
    BY <2>1 DEF T
  <2>5. \A j \in 1..(k - 1) : j \notin T
    BY <2>1, <2>2, <2>4
  <2>6. /\ DOMAIN b.in = 1..(k - 1)
        /\ \A j \in 1..(k - 1) : j \in DOMAIN a.in /\ (\A c : Stands(c, b.in, j) <=> Stands(c, a.in, j))
    BY <1>3, <2>3, <2>4, ChainsAgree
  <2>7. Opened(b.in)
    BY <1>5, <2>5, <2>6 DEF Opened
  <2>8. b \in ParsedPaths /\ IsJavaArchive(b)
    BY <1>3, <1>4, <2>3, <2>4, <2>7 DEF ParsedPaths, IsArchiveOrJndi
  <2>9. b.content = "ok"
    BY <1>4, <2>3, <2>4, <2>8, OneStands DEF ScanThrows, Find4J
  <2>10. Known(b)
    BY <1>4, <2>3, <2>4, <2>8, <2>9, ArchiveAssumption DEF Opens, Signature, JndiLookup, IsJavaArchive
  <2>11. b \in shown
    BY <1>1, <2>8, <2>10 DEF Issues4J, FilterJndi, Signatures, Signature
  <2>12. ASSUME NEW c \in Artifacts, Stands(c, a.in, k), Opens(c)
         PROVE  FALSE
    BY <1>3, <2>3, <2>4, <2>12
  <2>13. a \notin shown
    BY <1>2, <2>4, <2>12 DEF Opened, Find4J
  <2>14. ASSUME NEW d \in shown, NEW j \in DOMAIN a.in, Stands(d, a.in, j)
         PROVE  d = b
    <3>1. d \in Artifacts /\ ~Opens(d) /\ Opened(d.in)
      BY <1>2
    <3>2. j \in Nat /\ j \in T
      BY <1>3, <2>14, <3>1 DEF T
    <3>3. k <= j
      BY <2>2, <3>2
    <3>4. CASE j = k
      BY <1>3, <2>3, <2>4, <2>14, <3>1, <3>4
    <3>5. CASE j # k
      <4>1. k \in 1..(j - 1)
        BY <1>3, <2>4, <3>2, <3>3, <3>5
      <4>2. /\ DOMAIN d.in = 1..(j - 1)
            /\ \A c : Stands(c, d.in, k) <=> Stands(c, a.in, k)
        BY <1>3, <2>14, <4>1, ChainsAgree
      <4> QED BY <2>12, <3>1, <4>1, <4>2 DEF Opened, Find4J
    <3> QED BY <3>4, <3>5
  <2>15. Within(a, b)
    BY <2>3, <2>4 DEF Within
  <2>16. around = {b}
    BY <2>11, <2>13, <2>14, <2>15 DEF Within
  <2> QED BY <2>16, FS_Singleton DEF shown
<1> QED BY <1>6, <1>7

\* A scan that ends finds each vulnerable artifact once, and nothing else.
LEMMA ScanIsRight ==
  ASSUME ArtifactsNested
  PROVE  Log4ShellFound
<1> SUFFICES ASSUME kind = "log4shell", Log4ShellEnd # "error"
             PROVE  LET shown == RceIssues \cup DosIssues
                    IN  /\ \A a \in {b \in Artifacts : IsArchiveOrJndi(b) /\ Vulnerable4J(b) /\ Accessible(b)} :
                             Cardinality({b \in shown : b = a \/ Within(a, b)}) = 1
                        /\ \A a \in shown : a.name # "JndiManager.java" => Vulnerable4J(a) /\ Accessible(a)
                        /\ Log4ShellEnd = "VULNS" <=> shown # {} \/ \E a \in Signatures : a.name = "JndiLookup.jar"
                        /\ RceIssues \cap DosIssues = {}
  BY DEF Log4ShellFound
<1>1. ~ScanThrows /\ (Log4ShellEnd = "VULNS" <=> Issues4J # {})
  BY DEF Log4ShellEnd
<1>2. \A a \in Signatures : a.name = "JndiLookup.jar" => a \in Issues4J
  BY ArchiveAssumption DEF Issues4J, FilterJndi, IsJavaArchive
<1>3. \A a \in Issues4J : Known(a) \/ a.name = "JndiLookup.jar"
  BY ArchiveAssumption DEF Issues4J, FilterJndi, Signatures, Signature, IsJavaArchive, JndiManager, JndiLookup
<1>4. Issues4J # {} <=> RceIssues \cup DosIssues # {} \/ \E a \in Signatures : a.name = "JndiLookup.jar"
  <2>1. Issues4J \subseteq Signatures
    BY DEF Issues4J, FilterJndi
  <2> QED BY <1>2, <1>3, <2>1, ShownAreKnown
<1>5. RceIssues \cap DosIssues = {}
  BY DEF RceIssues, DosIssues
<1> QED BY <1>1, <1>4, <1>5, VulnerableShownOnce, ShownAreFound

------------------------------------------------------------------------------
(* The summary of vulnmap fix *)

\* What a list has after something is pushed to it.
LEMMA RangeAppended ==
  ASSUME NEW s \in Seq(Nat), NEW e \in Nat
  PROVE  Len(Append(s, e)) = Len(s) + 1 /\ Range(Append(s, e)) = Range(s) \cup {e}
<1> DEFINE t == Append(s, e)
<1>1. /\ Len(t) = Len(s) + 1 /\ t[Len(s) + 1] = e /\ t \in Seq(Nat)
      /\ \A j \in 1..Len(s) : t[j] = s[j]
  BY AppendProperties
<1> HIDE DEF t
<1>2. DOMAIN s = 1..Len(s) /\ Len(s) \in Nat /\ DOMAIN t = 1..(Len(s) + 1)
  BY <1>1
<1>3. /\ \A j \in 1..(Len(s) + 1) : j \in 1..Len(s) \/ j = Len(s) + 1
      /\ \A j \in 1..Len(s) : j \in 1..(Len(s) + 1)
      /\ Len(s) + 1 \in 1..(Len(s) + 1)
  BY <1>2
<1>4. Range(t) = Range(s) \cup {e}
  BY <1>1, <1>2, <1>3 DEF Range
<1> QED BY <1>1, <1>4 DEF t

\* What is pushed to a list of the results, and how long it is.
In(r, list) == {n \in 1..Len(r) : list \in r[n].lists}

LEMMA PushedOnce ==
  ASSUME NEW V, NEW r \in Seq(V), NEW list
  PROVE  /\ ResultsIn(r, list) \in Seq(Nat)
         /\ Range(ResultsIn(r, list)) = In(r, list)
         /\ Len(ResultsIn(r, list)) = Cardinality(In(r, list))
<1> DEFINE N == Len(r)
           Upto(m) == {n \in 1..m : list \in r[n].lists}
           step == [x \in Seq(Nat) \X (1..N) |->
                      IF list \in r[x[2]].lists THEN Append(x[1], x[2]) ELSE x[1]]
           pushed == CHOOSE h : h = [n \in 0..N |->
                       IF n = 0 THEN <<>> ELSE IF list \in r[n].lists THEN Append(h[n - 1], n) ELSE h[n - 1]]
<1>1. N \in Nat /\ <<>> \in Seq(Nat) /\ ResultsIn(r, list) = pushed[N]
  BY DEF ResultsIn
<1>2. step \in [Seq(Nat) \X (1..N) -> Seq(Nat)]
  <2> HIDE DEF N
  <2>1. \A x \in Seq(Nat) \X (1..N) : x[1] \in Seq(Nat) /\ x[2] \in Nat
    BY <1>1
  <2> QED BY <2>1
<1>3. \A s \in Seq(Nat) : \A i \in 1..N :
        step[<<s, i>>] = IF list \in r[i].lists THEN Append(s, i) ELSE s
  OBVIOUS
<1> HIDE DEF N, step
<1>4. PICK f \in [0..N -> Seq(Nat)] :
        RunOf(f, N, <<>>, step) /\ \A g : GivenAs(g, N, Seq(Nat), <<>>, step) => g = f
  BY <1>1, <1>2, PrefixRecursion
<1>5. \A i \in 1..N : f[i] = IF list \in r[i].lists THEN Append(f[i - 1], i) ELSE f[i - 1]
  <2>1. \A i \in 1..N : i - 1 \in 0..N
    BY <1>1
  <2> QED BY <1>3, <1>4, <2>1 DEF RunOf
<1>6. N \in 0..N /\ 0 \in 0..N /\ 1..N = {i \in 0..N : i # 0}
  BY <1>1
<1>7. f = [n \in 0..N |-> IF n = 0 THEN <<>> ELSE IF list \in r[n].lists THEN Append(f[n - 1], n) ELSE f[n - 1]]
  <2>1. f = [n \in 0..N |-> f[n]]
    OBVIOUS
  <2>2. \A n \in 0..N :
          f[n] = IF n = 0 THEN <<>> ELSE IF list \in r[n].lists THEN Append(f[n - 1], n) ELSE f[n - 1]
    BY <1>4, <1>5, <1>6 DEF RunOf
  <2> QED BY <2>1, <2>2
<1>8. pushed = [n \in 0..N |-> IF n = 0 THEN <<>> ELSE IF list \in r[n].lists THEN Append(pushed[n - 1], n) ELSE pushed[n - 1]]
  BY <1>7
<1> HIDE DEF pushed
<1>9. pushed = f
  <2>1. pushed = [n \in 0..N |-> pushed[n]] /\ pushed[0] = <<>>
    BY <1>6, <1>8
  <2>2. \A i \in 1..N : pushed[i] = IF list \in r[i].lists THEN Append(pushed[i - 1], i) ELSE pushed[i - 1]
    BY <1>6, <1>8
  <2>3. \A i \in 1..N : pushed[i - 1] \in Seq(Nat) => pushed[i] = step[<<pushed[i - 1], i>>]
    BY <1>3, <2>2
  <2> QED BY <1>4, <2>1, <2>3 DEF GivenAs
<1> DEFINE P == {m \in 0..N : Range(f[m]) = Upto(m) /\ Len(f[m]) = Cardinality(Upto(m))}
<1>10. 0 \in P
  <2>1. f[0] = <<>> /\ Upto(0) = {}
    BY <1>4 DEF RunOf
  <2>2. Range(<<>>) = {} /\ Len(<<>>) = 0 /\ Cardinality({}) = 0
    BY FS_EmptySet DEF Range
  <2> QED BY <1>6, <2>1, <2>2
<1>11. ASSUME NEW i \in 1..N, i - 1 \in P
       PROVE  i \in P
  <2>1. i - 1 \in 0..N /\ i \in 0..N /\ i \in Nat
    BY <1>1
  <2>2. f[i - 1] \in Seq(Nat) /\ Range(f[i - 1]) = Upto(i - 1) /\ Len(f[i - 1]) = Cardinality(Upto(i - 1))
    BY <1>11, <2>1
  <2>3. CASE list \in r[i].lists
    <3>1. f[i] = Append(f[i - 1], i)
      BY <1>5, <2>3
    <3>2. Upto(i) = Upto(i - 1) \cup {i} /\ i \notin Upto(i - 1)
      BY <2>1, <2>3
    <3>3. IsFiniteSet(Upto(i - 1))
      <4>1. IsFiniteSet(1..(i - 1)) /\ Upto(i - 1) \subseteq 1..(i - 1)
        BY <2>1, FS_Interval
      <4> QED BY <4>1, FS_Subset
    <3>4. Cardinality(Upto(i)) = Cardinality(Upto(i - 1)) + 1
      <4> HIDE DEF Upto
      <4> QED BY <3>2, <3>3, FS_AddElement
    <3>5. Len(f[i]) = Len(f[i - 1]) + 1 /\ Range(f[i]) = Range(f[i - 1]) \cup {i}
      <4>1. f[i - 1] \in Seq(Nat) /\ i \in Nat
        BY <2>1, <2>2
      <4>2. Len(Append(f[i - 1], i)) = Len(f[i - 1]) + 1 /\ Range(Append(f[i - 1], i)) = Range(f[i - 1]) \cup {i}
        BY ONLY <4>1, RangeAppended
      <4> QED BY <3>1, <4>2
    <3> HIDE DEF Upto
    <3> QED BY <2>1, <2>2, <3>2, <3>4, <3>5
  <2>4. CASE list \notin r[i].lists
    <3>1. f[i] = f[i - 1]
      BY <1>5, <2>4
    <3>2. Upto(i) = Upto(i - 1)
      <4>1. \A n \in 1..i : n = i \/ n \in 1..(i - 1)
        BY <2>1
      <4>2. 1..(i - 1) \subseteq 1..i
        BY <2>1
      <4> QED BY <2>4, <4>1, <4>2
    <3> HIDE DEF Upto
    <3> QED BY <2>1, <2>2, <3>1, <3>2
  <2> QED BY <2>3, <2>4
<1>12. P = 0..N
  <2>1. P \in SUBSET (0..N)
    OBVIOUS
  <2> HIDE DEF P
  <2> QED BY <1>1, <1>10, <1>11, <2>1, PrefixInduction
<1>13. Range(f[N]) = Upto(N) /\ Len(f[N]) = Cardinality(Upto(N)) /\ f[N] \in Seq(Nat)
  BY <1>6, <1>12
<1> QED BY <1>1, <1>9, <1>13 DEF N, In

\* One list after another.
LEMMA RangeJoined ==
  ASSUME NEW a \in Seq(Nat), NEW b \in Seq(Nat)
  PROVE  a \o b \in Seq(Nat) /\ Len(a \o b) = Len(a) + Len(b) /\ Range(a \o b) = Range(a) \cup Range(b)
<1> DEFINE c == a \o b
<1>1. /\ c \in Seq(Nat) /\ Len(c) = Len(a) + Len(b)
      /\ \A i \in 1..(Len(a) + Len(b)) : c[i] = IF i <= Len(a) THEN a[i] ELSE b[i - Len(a)]
  BY ConcatProperties
<1> HIDE DEF c
<1>2. /\ DOMAIN a = 1..Len(a) /\ DOMAIN b = 1..Len(b) /\ DOMAIN c = 1..(Len(a) + Len(b))
      /\ Len(a) \in Nat /\ Len(b) \in Nat
  BY <1>1
<1>3. \A i \in 1..Len(a) : i \in 1..(Len(a) + Len(b)) /\ c[i] = a[i]
  BY <1>1, <1>2
<1>4. \A i \in 1..Len(b) : Len(a) + i \in 1..(Len(a) + Len(b)) /\ c[Len(a) + i] = b[i]
  <2> SUFFICES ASSUME NEW i \in 1..Len(b)
               PROVE  Len(a) + i \in 1..(Len(a) + Len(b)) /\ c[Len(a) + i] = b[i]
    OBVIOUS
  <2>1. Len(a) + i \in 1..(Len(a) + Len(b)) /\ ~(Len(a) + i <= Len(a)) /\ Len(a) + i - Len(a) = i
    BY <1>2
  <2> QED BY <1>1, <2>1
<1>5. \A i \in 1..(Len(a) + Len(b)) : i \in 1..Len(a) \/ \E j \in 1..Len(b) : i = Len(a) + j
  <2> SUFFICES ASSUME NEW i \in 1..(Len(a) + Len(b)), i \notin 1..Len(a)
               PROVE  \E j \in 1..Len(b) : i = Len(a) + j
    OBVIOUS
  <2>1. i - Len(a) \in 1..Len(b) /\ i = Len(a) + (i - Len(a))
    BY <1>2
  <2> QED BY <2>1
<1>6. Range(c) = Range(a) \cup Range(b)
  <2> DEFINE A == 1..Len(a)
             B == 1..Len(b)
             C == 1..(Len(a) + Len(b))
  <2>1. \A i \in C : i \in A \/ \E j \in B : i = Len(a) + j
    BY <1>5
  <2>2. (\A i \in A : i \in C /\ c[i] = a[i]) /\ \A i \in B : Len(a) + i \in C /\ c[Len(a) + i] = b[i]
    BY <1>3, <1>4
  <2>3. Range(a) = {a[i] : i \in A} /\ Range(b) = {b[i] : i \in B} /\ Range(c) = {c[i] : i \in C}
    BY <1>2 DEF Range
  <2> HIDE DEF A, B, C
  <2>4. Range(c) \subseteq Range(a) \cup Range(b)
    BY <2>1, <2>2, <2>3
  <2>5. Range(a) \subseteq Range(c) /\ Range(b) \subseteq Range(c)
    BY <2>2, <2>3
  <2> QED BY <2>4, <2>5
<1> QED BY <1>1, <1>6 DEF c

LEMMA NothingInRange ==
  ASSUME NEW a \in Seq(Nat), Range(a) = {}
  PROVE  a = <<>>
<1>1. \A k \in 1..Len(a) : a[k] \in Range(a)
  BY DEF Range
<1>2. Len(a) = 0
  BY <1>1
<1> QED BY <1>2

\* What the result of one project says of what the tool has changed.
IssuesOf(p, o) == UNION {d.vulns : d \in {e \in p.pins : e.pkg \in ToolChanged(p, o)}}

Handled(p, o) == p.issues # {} /\ p.type # "npm" /\ p.type \notin o.throws

TrueResult(p, o) ==
  LET r == FixResult(p, o)
  IN  /\ p.issues = {} => r.lists = {"not vulnerable"}
      /\ p.issues # {} /\ p.type = "npm" => r.lists = {"exception"}
      /\ p.issues # {} /\ p.type # "npm" /\ p.type \in o.throws =>
           r.lists = IF p.pins = {} THEN {"skipped", "failed"} ELSE {"failed"}
      /\ Handled(p, o) =>
           /\ r.lists \in {{"succeeded"}, {"skipped"}, {"failed"}}
           /\ r.lists = {"succeeded"} => /\ ToolChanged(p, o) # {}
                                        /\ FixedPerEntity(r) \subseteq UNION {d.vulns : d \in p.pins}
           /\ r.lists = {"succeeded"} /\ StandardNames(p) => FixedPerEntity(r) = IssuesOf(p, o)
           /\ r.lists # {"succeeded"} /\ StandardNames(p) => ToolChanged(p, o) = {}

LEMMA ResultIsTrue ==
  ASSUME NEW p \in FixProjects, NEW o \in FixReportOptions
  PROVE  TrueResult(p, o)
<1> DEFINE r == FixResult(p, o)
           changes == FixChanges(p, o)
           ok == {call \in ToolCalls(p, o) : ~AddFails(p, call, o)}
<1>1. ToolChanged(p, o) = {d.pkg : d \in UNION ok}
  BY DEF ToolChanged
<1>2. \A call \in ToolCalls(p, o) : call \subseteq p.pins
  BY DEF ToolCalls, PackageUpgrades, DevUpgrades
<1>3. \A c \in changes : c.success =>
        \E call \in ok : \E u \in call : c.pin \in p.pins /\ u.pkg = c.pin.pkg
  <2> SUFFICES ASSUME NEW c \in changes, c.success
               PROVE  \E call \in ok : \E u \in call : c.pin \in p.pins /\ u.pkg = c.pin.pkg
    OBVIOUS
  <2>1. PICK call \in ToolCalls(p, o) : c \in GenerateChanges(p, call, ~AddFails(p, call, o))
    BY DEF FixChanges
  <2>2. PICK d \in p.pins : (\E u \in call : u.pkg = d.pkg) /\ c = [success |-> ~AddFails(p, call, o), pin |-> d]
    BY <2>1 DEF GenerateChanges
  <2> QED BY <2>2
<1>4. \A call \in ok : \A u \in call : \A d \in p.pins : d.standard /\ u.pkg = d.pkg =>
        \E c \in changes : c.success /\ c.pin = d
  <2> SUFFICES ASSUME NEW call \in ok, NEW u \in call, NEW d \in p.pins, d.standard, u.pkg = d.pkg
               PROVE  \E c \in changes : c.success /\ c.pin = d
    OBVIOUS
  <2>1. [success |-> TRUE, pin |-> d] \in GenerateChanges(p, call, TRUE)
    BY DEF GenerateChanges
  <2>2. ~AddFails(p, call, o) = TRUE
    OBVIOUS
  <2>3. [success |-> TRUE, pin |-> d] \in changes
    BY <2>1, <2>2 DEF FixChanges
  <2> QED BY <2>3
<1>5. CASE ~Handled(p, o)
  <2>1. "npm" \notin o.throws
    BY DEF FixReportOptions
  <2>2. CASE p.issues = {}
    <3>1. r.lists = {"not vulnerable"}
      BY <2>2 DEF FixResult
    <3> QED BY ONLY <2>2, <2>1, <3>1 DEF TrueResult, Handled
  <2>3. CASE p.issues # {} /\ p.type = "npm"
    <3>1. r.lists = {"exception"}
      BY <2>1, <2>3 DEF FixResult
    <3> QED BY ONLY <2>3, <2>1, <3>1 DEF TrueResult, Handled
  <2>4. CASE p.issues # {} /\ p.type # "npm" /\ p.type \in o.throws
    <3>1. r.lists = IF p.pins = {} THEN {"skipped", "failed"} ELSE {"failed"}
      BY <2>4 DEF FixResult
    <3> QED BY ONLY <2>4, <2>1, <3>1 DEF TrueResult, Handled
  <2> QED BY <1>5, <2>2, <2>3, <2>4 DEF Handled
<1>7. CASE Handled(p, o) /\ p.pins = {}
  <2>1. r.lists = {"skipped"}
    BY <1>7 DEF FixResult, Handled
  <2>2. UNION ok = {}
    BY <1>2, <1>7
  <2> QED BY <1>1, <1>7, <2>1, <2>2 DEF TrueResult, Handled
<1>8. CASE Handled(p, o) /\ p.pins # {}
  <2>1. r = [lists |-> IF \E c \in changes : c.success THEN {"succeeded"} ELSE {"failed"}, changes |-> changes]
    BY <1>8 DEF FixResult, UpdateDependencies, Handled
  <2> HIDE DEF changes, ok, r
  <2>2. FixedPerEntity(r) = UNION {c.pin.vulns : c \in {d \in changes : d.success}}
    BY <2>1 DEF FixedPerEntity
  <2>3. CASE \E c \in changes : c.success
    <3>1. r.lists = {"succeeded"}
      BY <2>1, <2>3
    <3>2. ToolChanged(p, o) # {}
      BY <1>1, <1>3, <2>3
    <3>3. FixedPerEntity(r) \subseteq UNION {d.vulns : d \in p.pins}
      BY <1>3, <2>2
    <3>4. ASSUME StandardNames(p)
          PROVE  FixedPerEntity(r) = IssuesOf(p, o)
      <4>1. \A d \in p.pins : d.pkg \in ToolChanged(p, o) <=> \E call \in ok : \E u \in call : u.pkg = d.pkg
        BY <1>1
      <4>2. \A c \in changes : c.success => c.pin \in p.pins /\ c.pin.pkg \in ToolChanged(p, o)
        BY <1>3, <4>1
      <4>3. \A d \in p.pins : d.pkg \in ToolChanged(p, o) => \E c \in changes : c.success /\ c.pin = d
        BY <1>4, <3>4, <4>1 DEF StandardNames
      <4> QED BY <2>2, <4>2, <4>3 DEF IssuesOf
    <3> QED BY <1>8, <3>1, <3>2, <3>3, <3>4 DEF r, TrueResult, Handled
  <2>4. CASE ~\E c \in changes : c.success
    <3>1. r.lists = {"failed"}
      BY <2>1, <2>4
    <3>2. StandardNames(p) => ToolChanged(p, o) = {}
      <4>1. \A call \in ok : call \subseteq p.pins
        BY <1>2 DEF ok
      <4> QED BY <1>1, <1>4, <2>4, <4>1 DEF StandardNames
    <3> QED BY <1>8, <3>1, <3>2 DEF r, TrueResult, Handled
  <2> QED BY <2>3, <2>4
<1> QED BY <1>5, <1>7, <1>8

\* The inputs of the summary are sequences of projects.
FixTyped == kind = "fixReport" => input \in Seq(FixProjects)

LEMMA ProjectsGrow == Spec => []FixTyped
<1>1. Init => FixTyped
  BY DEF Init, FixTyped
<1>2. FixTyped /\ [Next]_vars => FixTyped'
  <2> SUFFICES ASSUME FixTyped, [Next]_vars, kind' = "fixReport"
               PROVE input' \in Seq(FixProjects)
    BY DEF FixTyped
  <2>1. CASE FixReportNext
    <3>1. kind = "fixReport" /\ \E p \in FixProjects : input' = Append(input, p)
      BY <2>1 DEF FixReportNext, Grow
    <3> QED BY <3>1 DEF FixTyped
  <2>2. CASE UNCHANGED input
    BY <2>2, OneAlgorithm DEF FixTyped
  <2> QED BY <2>1, <2>2, OneAlgorithm
<1> QED BY <1>1, <1>2, PTL DEF Spec

\* Two sets without a common member.
LEMMA UnionAddsUp ==
  ASSUME NEW A, NEW B, IsFiniteSet(A), IsFiniteSet(B), A \cap B = {}
  PROVE  /\ IsFiniteSet(A \cup B) /\ Cardinality(A \cup B) = Cardinality(A) + Cardinality(B)
<1>1. Cardinality(A \cap B) = 0
  BY FS_EmptySet
<1>2. IsFiniteSet(A \cup B) /\ Cardinality(A \cup B) = Cardinality(A) + Cardinality(B) - Cardinality(A \cap B)
  BY FS_Union
<1>3. Cardinality(A) \in Nat /\ Cardinality(B) \in Nat
  BY FS_CardinalityType
<1> QED BY <1>1, <1>2, <1>3

\* Each project whose results are kept is in one list, or in two if its handler threw,
\* and the lists are as long as they have projects.
RightLists(o) ==
  LET r == FixResults(o)
      done == ResultsIn(r, "succeeded")
      tested == TestResults(r)
  IN  /\ Len(r) = Len(input) /\ DOMAIN input = 1..Len(input) /\ Len(input) \in Nat
      /\ \A n \in DOMAIN input : input[n] \in FixProjects /\ n \notin Reported(o) => r[n].lists \in {{}, {"not vulnerable"}}
      /\ \A n \in Reported(o) : input[n] \in FixProjects /\ r[n] = FixResult(input[n], o)
      /\ done \in Seq(Nat) /\ Range(done) = In(r, "succeeded")
      /\ Unresolved(r) \in Seq(Nat)
      /\ Range(Unresolved(r)) = In(r, "skipped") \cup In(r, "failed") \cup In(r, "exception")
      /\ Range(done) \cup Range(Unresolved(r)) = Reported(o) /\ Range(done) \cap Range(Unresolved(r)) = {}
      /\ Len(done) + Len(Unresolved(r)) = Cardinality(Reported(o)) + Cardinality(ListedTwice(o))
      /\ tested \in Seq(Nat) /\ Range(tested) = Reported(o)
      /\ Len(ResultsIn(r, "not vulnerable")) = Len(r) => Reported(o) = {}

LEMMA ListsAreRight ==
  ASSUME input \in Seq(FixProjects), NEW o \in FixReportOptions
  PROVE  RightLists(o)
<1> DEFINE r == FixResults(o)
           N == Len(input)
           V == {FixResult(p, o) : p \in FixProjects} \cup {[lists |-> {}]}
<1>1. DOMAIN input = 1..N /\ N \in Nat /\ \A n \in 1..N : input[n] \in FixProjects
  OBVIOUS
<1>2. r = [n \in 1..N |-> IF Lost(n, o) THEN [lists |-> {}] ELSE FixResult(input[n], o)]
  BY <1>1 DEF FixResults
<1>3. r \in Seq(V) /\ Len(r) = N
  <2>1. \A n \in 1..N : FixResult(input[n], o) \in V /\ [lists |-> {}] \in V
    BY <1>1
  <2> HIDE DEF V, r, N
  <2>2. r \in [1..N -> V]
    BY <1>2, <2>1
  <2> QED BY <1>1, <2>2
<1>4. \A n \in 1..N : r[n] = IF Lost(n, o) THEN [lists |-> {}] ELSE FixResult(input[n], o)
  BY <1>2
<1> HIDE DEF r, N, V
<1>5. \A list : /\ ResultsIn(r, list) \in Seq(Nat) /\ Range(ResultsIn(r, list)) = In(r, list)
                /\ Len(ResultsIn(r, list)) = Cardinality(In(r, list))
  BY <1>3, PushedOnce
<1>6. /\ \A n \in Reported(o) : n \in 1..N /\ input[n].issues # {} /\ ~Lost(n, o)
      /\ \A n \in 1..N : Lost(n, o) => input[n].issues # {}
      /\ \A n \in 1..N : n \notin Reported(o) => input[n].issues = {} \/ Lost(n, o)
      /\ \A n \in ListedTwice(o) : n \in Reported(o)
      /\ \A n \in Reported(o) : n \in ListedTwice(o) <=> input[n].type \in o.throws /\ input[n].pins = {}
      /\ "npm" \notin o.throws
  BY <1>1 DEF Reported, Lost, ListedTwice, Thrown, FixReportOptions
<1>7. \A n \in 1..N : n \notin Reported(o) => r[n].lists \in {{}, {"not vulnerable"}}
  <2> SUFFICES ASSUME NEW n \in 1..N, n \notin Reported(o)
               PROVE  r[n].lists \in {{}, {"not vulnerable"}}
    OBVIOUS
  <2>1. CASE Lost(n, o)
    <3>1. r[n] = [lists |-> {}]
      BY <1>4, <2>1
    <3> QED BY <3>1
  <2>2. CASE ~Lost(n, o)
    <3>1. r[n] = FixResult(input[n], o) /\ input[n].issues = {} /\ TrueResult(input[n], o)
      BY <1>1, <1>4, <1>6, <2>2, ResultIsTrue
    <3> QED BY <3>1 DEF TrueResult
  <2> QED BY <2>1, <2>2
<1>8. \A n \in Reported(o) :
        /\ r[n] = FixResult(input[n], o)
        /\ n \notin ListedTwice(o) => r[n].lists \in {{"succeeded"}, {"skipped"}, {"failed"}, {"exception"}}
        /\ n \in ListedTwice(o) => r[n].lists = {"skipped", "failed"}
  <2> SUFFICES ASSUME NEW n \in Reported(o)
               PROVE  /\ r[n] = FixResult(input[n], o)
                      /\ n \notin ListedTwice(o) => r[n].lists \in {{"succeeded"}, {"skipped"}, {"failed"}, {"exception"}}
                      /\ n \in ListedTwice(o) => r[n].lists = {"skipped", "failed"}
    OBVIOUS
  <2> DEFINE p == input[n]
  <2>1. p \in FixProjects /\ r[n] = FixResult(p, o) /\ p.issues # {}
    BY <1>1, <1>4, <1>6
  <2>2. TrueResult(p, o)
    BY <2>1, ResultIsTrue
  <2>3. n \in ListedTwice(o) <=> p.type \in o.throws /\ p.pins = {}
    BY <1>6
  <2> HIDE DEF p
  <2>4. CASE p.type = "npm"
    <3>1. r[n].lists = {"exception"} /\ n \notin ListedTwice(o)
      BY <1>6, <2>1, <2>2, <2>3, <2>4 DEF TrueResult
    <3> QED BY <2>1, <3>1 DEF p
  <2>5. CASE p.type # "npm" /\ p.type \in o.throws
    <3>1. r[n].lists = IF p.pins = {} THEN {"skipped", "failed"} ELSE {"failed"}
      BY <2>1, <2>2, <2>5 DEF TrueResult
    <3> QED BY <2>1, <2>3, <2>5, <3>1 DEF p
  <2>6. CASE p.type # "npm" /\ p.type \notin o.throws
    <3>1. r[n].lists \in {{"succeeded"}, {"skipped"}, {"failed"}} /\ n \notin ListedTwice(o)
      BY <2>1, <2>2, <2>3, <2>6 DEF TrueResult, Handled
    <3> QED BY <2>1, <3>1 DEF p
  <2> QED BY <2>4, <2>5, <2>6
<1> DEFINE S == In(r, "succeeded")
           K == In(r, "skipped")
           F == In(r, "failed")
           E == In(r, "exception")
<1>9. /\ Reported(o) = S \cup K \cup F \cup E
      /\ S \cap (K \cup F \cup E) = {} /\ K \cap F = ListedTwice(o) /\ (K \cup F) \cap E = {}
  <2>0. \A n \in 1..N : n \in S \cup K \cup F \cup E <=>
                            r[n].lists \cap {"succeeded", "skipped", "failed", "exception"} # {}
    BY <1>3 DEF In
  <2>1. ASSUME NEW n \in 1..N
        PROVE  n \in Reported(o) <=> n \in S \cup K \cup F \cup E
    <3>1. CASE n \in Reported(o)
      <4>1. r[n].lists \in {{"succeeded"}, {"skipped"}, {"failed"}, {"exception"}, {"skipped", "failed"}}
        BY <1>8, <3>1
      <4> QED BY <2>0, <3>1, <4>1
    <3>2. CASE n \notin Reported(o)
      <4>1. r[n].lists \in {{}, {"not vulnerable"}}
        BY <1>7, <3>2
      <4> QED BY <2>0, <3>2, <4>1
    <3> QED BY <3>1, <3>2
  <2>2. S \cup K \cup F \cup E \subseteq 1..N
    BY <1>3 DEF In
  <2>3. \A n \in Reported(o) :
          /\ n \in K \cap F <=> n \in ListedTwice(o)
          /\ n \in S => n \notin K \cup F \cup E
          /\ n \in E => n \notin K \cup F
    BY <1>3, <1>6, <1>8 DEF In
  <2> HIDE DEF S, K, F, E
  <2> QED BY <1>6, <2>1, <2>2, <2>3
<1>10. IsFiniteSet(S) /\ IsFiniteSet(K) /\ IsFiniteSet(F) /\ IsFiniteSet(E)
  <2>1. IsFiniteSet(1..N)
    BY <1>1, FS_Interval
  <2>2. \A list : In(r, list) \subseteq 1..N
    BY <1>3 DEF In
  <2> QED BY <2>1, <2>2, FS_Subset
<1> HIDE DEF S, K, F, E
<1>11. /\ IsFiniteSet(K \cup F)
       /\ Cardinality(K \cup F) = Cardinality(K) + Cardinality(F) - Cardinality(ListedTwice(o))
       /\ Cardinality(ListedTwice(o)) \in Nat
  <2>1. IsFiniteSet(K \cap F)
    BY <1>10, FS_Subset
  <2> QED BY <1>9, <1>10, <2>1, FS_Union, FS_CardinalityType
<1>12. IsFiniteSet((K \cup F) \cup E) /\ Cardinality((K \cup F) \cup E) = Cardinality(K \cup F) + Cardinality(E)
  BY <1>9, <1>10, <1>11, UnionAddsUp
<1>13. Cardinality(Reported(o)) = Cardinality(S) + Cardinality(K \cup F \cup E)
  <2>1. Reported(o) = S \cup (K \cup F \cup E)
    BY <1>9
  <2> QED BY <1>9, <1>10, <1>12, <2>1, UnionAddsUp
<1> DEFINE done == ResultsIn(r, "succeeded")
           skipped == ResultsIn(r, "skipped")
           failed == ResultsIn(r, "failed")
           exceptions == ResultsIn(r, "exception")
<1>14. /\ done \in Seq(Nat) /\ Range(done) = S /\ Len(done) = Cardinality(S)
       /\ skipped \in Seq(Nat) /\ Range(skipped) = K /\ Len(skipped) = Cardinality(K)
       /\ failed \in Seq(Nat) /\ Range(failed) = F /\ Len(failed) = Cardinality(F)
       /\ exceptions \in Seq(Nat) /\ Range(exceptions) = E /\ Len(exceptions) = Cardinality(E)
  BY <1>5 DEF S, K, F, E
<1>15. Unresolved(r) = (skipped \o failed) \o exceptions /\ TestResults(r) = ((skipped \o failed) \o done) \o exceptions
  BY DEF Unresolved, TestResults
<1> HIDE DEF done, skipped, failed, exceptions
<1>16. /\ skipped \o failed \in Seq(Nat) /\ Range(skipped \o failed) = K \cup F
       /\ Len(skipped \o failed) = Cardinality(K) + Cardinality(F)
  BY <1>14, RangeJoined
<1>17. /\ Unresolved(r) \in Seq(Nat) /\ Range(Unresolved(r)) = (K \cup F) \cup E
       /\ Len(Unresolved(r)) = Cardinality(K) + Cardinality(F) + Cardinality(E)
  <2>1. /\ (skipped \o failed) \o exceptions \in Seq(Nat)
        /\ Len((skipped \o failed) \o exceptions) = Len(skipped \o failed) + Len(exceptions)
        /\ Range((skipped \o failed) \o exceptions) = Range(skipped \o failed) \cup Range(exceptions)
    BY ONLY <1>14, <1>16, RangeJoined
  <2> QED BY <1>14, <1>15, <1>16, <2>1
<1>18. TestResults(r) \in Seq(Nat) /\ Range(TestResults(r)) = Reported(o)
  <2> DEFINE most == (skipped \o failed) \o done
  <2>1. most \in Seq(Nat) /\ Range(most) = (K \cup F) \cup S
    BY <1>14, <1>16, RangeJoined
  <2> HIDE DEF most
  <2>2. most \o exceptions \in Seq(Nat) /\ Range(most \o exceptions) = Range(most) \cup Range(exceptions)
    BY <1>14, <2>1, RangeJoined
  <2>3. TestResults(r) = most \o exceptions
    BY <1>15 DEF most
  <2> QED BY <1>9, <1>14, <2>1, <2>2, <2>3
<1>19. Len(done) + Len(Unresolved(r)) = Cardinality(Reported(o)) + Cardinality(ListedTwice(o))
  <2>1. /\ Cardinality(S) \in Nat /\ Cardinality(K) \in Nat
        /\ Cardinality(F) \in Nat /\ Cardinality(E) \in Nat
    BY <1>10, FS_CardinalityType
  <2> QED BY <1>11, <1>12, <1>13, <1>14, <1>17, <2>1
<1>20. ASSUME Len(ResultsIn(r, "not vulnerable")) = Len(r)
       PROVE  Reported(o) = {}
  <2>1. Cardinality(In(r, "not vulnerable")) = N
    BY <1>3, <1>5, <1>20
  <2>2. IsFiniteSet(1..N) /\ Cardinality(1..N) = N
    BY <1>1, FS_Interval
  <2>3. In(r, "not vulnerable") \in SUBSET (1..N)
    BY <1>3 DEF In
  <2>4. In(r, "not vulnerable") = 1..N
    BY <2>1, <2>2, <2>3, FS_Subset
  <2> QED BY <1>6, <1>8, <2>4 DEF In
<1>21. Range(done) \cup Range(Unresolved(r)) = Reported(o) /\ Range(done) \cap Range(Unresolved(r)) = {}
  BY <1>9, <1>14, <1>17
<1> QED BY <1>1, <1>3, <1>6, <1>7, <1>8, <1>14, <1>17, <1>18, <1>19, <1>20, <1>21 DEF r, done, S, K, F, E, N, RightLists

\* The issues of finitely many projects are finitely many, and each has one severity.
LEMMA SeveritiesAddUp ==
  ASSUME input \in Seq(FixProjects), NEW r, TestResults(r) \in Seq(Nat),
         Range(TestResults(r)) \subseteq DOMAIN input, NEW s, s = CountBySeverity(r)
  PROVE  /\ IsFiniteSet(IssuesData(r))
         /\ s.critical + s.high + s.medium + s.low = TotalIssueCount(r)
<1> DEFINE tested == TestResults(r)
           T == DOMAIN tested
           f == [n \in T |-> {n} \X input[tested[n]].issues]
           U == {f[n] : n \in T}
           D == IssuesData(r)
           Of(g) == {i \in D : GradeOf[i[2]] = g}
<1>1. IsFiniteSet(T)
  <2>1. DOMAIN tested = 1..Len(tested) /\ Len(tested) \in Nat
    OBVIOUS
  <2> QED BY <2>1, FS_Interval
<1>2. \A n \in T : input[tested[n]] \in FixProjects
  BY DEF Range
<1>3. D = UNION U
  BY DEF IssuesData
<1>4. IsFiniteSet(U)
  <2> HIDE DEF T
  <2>1. f \in Surjection(T, U)
    BY DEF Surjection
  <2> QED BY <1>1, <2>1, FS_Surjection
<1>5. \A u \in U : IsFiniteSet(u)
  <2> SUFFICES ASSUME NEW n \in T
               PROVE  IsFiniteSet({n} \X input[tested[n]].issues)
    OBVIOUS
  <2>1. IsFiniteSet({n}) /\ IsFiniteSet(input[tested[n]].issues)
    BY <1>2, FixAssumption, FS_Singleton
  <2> QED BY <2>1, FS_Product
<1>6. IsFiniteSet(D)
  <2> HIDE DEF U, D
  <2> QED BY <1>3, <1>4, <1>5, FS_UNION
<1>7. \A i \in D : GradeOf[i[2]] \in {"critical", "high", "medium", "low"}
  <2> SUFFICES ASSUME NEW n \in T, NEW x \in input[tested[n]].issues
               PROVE  GradeOf[x] \in {"critical", "high", "medium", "low"}
    BY DEF IssuesData
  <2> QED BY <1>2, FixAssumption
<1>8. /\ s.critical = Cardinality(Of("critical")) /\ s.high = Cardinality(Of("high"))
      /\ s.medium = Cardinality(Of("medium")) /\ s.low = Cardinality(Of("low"))
  BY DEF CountBySeverity
<1> DEFINE C == Of("critical")
           H == Of("high")
           M == Of("medium")
           L == Of("low")
<1> HIDE DEF D
<1>9. /\ D = (C \cup H) \cup (M \cup L) /\ C \cap H = {} /\ M \cap L = {}
      /\ (C \cup H) \cap (M \cup L) = {}
  BY <1>7
<1>10. IsFiniteSet(C) /\ IsFiniteSet(H) /\ IsFiniteSet(M) /\ IsFiniteSet(L)
  BY <1>6, FS_Subset
<1> HIDE DEF C, H, M, L
<1>11. /\ IsFiniteSet(C \cup H) /\ Cardinality(C \cup H) = Cardinality(C) + Cardinality(H)
       /\ IsFiniteSet(M \cup L) /\ Cardinality(M \cup L) = Cardinality(M) + Cardinality(L)
  BY <1>9, <1>10, UnionAddsUp
<1>12. Cardinality(D) = Cardinality(C \cup H) + Cardinality(M \cup L)
  BY <1>9, <1>11, UnionAddsUp
<1>13. /\ Cardinality(C) \in Nat /\ Cardinality(H) \in Nat
       /\ Cardinality(M) \in Nat /\ Cardinality(L) \in Nat
  BY <1>10, FS_CardinalityType
<1>14. s.critical = Cardinality(C) /\ s.high = Cardinality(H) /\ s.medium = Cardinality(M) /\ s.low = Cardinality(L)
  BY <1>8 DEF C, H, M, L
<1>15. TotalIssueCount(r) = Cardinality(D)
  BY DEF TotalIssueCount, D
<1> QED BY <1>6, <1>11, <1>12, <1>13, <1>14, <1>15 DEF D

\* The issues that the summary counts as fixed.
Fixed(r) == UNION {{n} \X FixedPerEntity(r[n]) : n \in In(r, "succeeded")}

RightFixes(r, o, handled) ==
  /\ FixedIssues(r) = Cardinality(Fixed(r))
  /\ \A n \in In(r, "succeeded") : n \in handled /\ ToolChanged(input[n], o) # {}
  /\ \A n \in handled \cap Range(Unresolved(r)) : StandardNames(input[n]) => ToolChanged(input[n], o) = {}
  /\ (\A n \in DOMAIN input : StandardNames(input[n])) =>
       Fixed(r) = UNION {{n} \X IssuesOf(input[n], o) : n \in handled}
  /\ (\A n \in DOMAIN input : \A d \in input[n].pins : d.vulns \subseteq input[n].issues) =>
       \A i \in Fixed(r) : i[1] \in Reported(o) /\ i[2] \in input[i[1]].issues /\ i = <<i[1], i[2]>>

LEMMA FixedAreRight ==
  ASSUME input \in Seq(FixProjects), NEW o \in FixReportOptions,
         NEW handled, handled = {n \in Reported(o) \ Thrown(o) : input[n].type # "npm"}
  PROVE  RightFixes(FixResults(o), o, handled)
<1> DEFINE r == FixResults(o)
           S == In(r, "succeeded")
<1>0. RightLists(o)
  BY ListsAreRight
<1>1. /\ Range(ResultsIn(r, "succeeded")) = S /\ DOMAIN input = 1..Len(r)
      /\ S \subseteq Reported(o) /\ S \cap Range(Unresolved(r)) = {}
      /\ Reported(o) \ S \subseteq Range(Unresolved(r))
      /\ \A n \in Reported(o) : n \in DOMAIN input
  BY <1>0 DEF RightLists, Reported
<1>2. FixedIssues(r) = Cardinality(Fixed(r))
  BY <1>1 DEF FixedIssues, Fixed
<1>3. \A n \in Reported(o) : input[n] \in FixProjects /\ r[n] = FixResult(input[n], o) /\ input[n].issues # {}
  BY <1>0 DEF RightLists, Reported
<1> HIDE DEF r
<1>4. S = {n \in Reported(o) : "succeeded" \in r[n].lists}
  BY <1>1 DEF In
<1>5. \A n \in handled : n \in Reported(o) /\ Handled(input[n], o)
  BY <1>3 DEF Handled, Thrown
<1>6. \A n \in Reported(o) : n \notin handled => "succeeded" \notin r[n].lists
  <2> SUFFICES ASSUME NEW n \in Reported(o), n \notin handled
               PROVE  "succeeded" \notin r[n].lists
    OBVIOUS
  <2> DEFINE p == input[n]
  <2>1. p \in FixProjects /\ r[n] = FixResult(p, o) /\ p.issues # {} /\ TrueResult(p, o)
    BY <1>3, ResultIsTrue
  <2>2. p.type = "npm" \/ (p.type # "npm" /\ p.type \in o.throws)
    BY DEF Thrown
  <2> HIDE DEF p
  <2>3. CASE p.type = "npm"
    <3>1. r[n].lists = {"exception"}
      BY <2>1, <2>3 DEF TrueResult
    <3> QED BY <3>1
  <2>4. CASE p.type # "npm" /\ p.type \in o.throws
    <3>1. r[n].lists = IF p.pins = {} THEN {"skipped", "failed"} ELSE {"failed"}
      BY <2>1, <2>4 DEF TrueResult
    <3> QED BY <3>1
  <2> QED BY <2>2, <2>3, <2>4
<1>7. \A n \in handled :
        /\ r[n].lists \in {{"succeeded"}, {"skipped"}, {"failed"}}
        /\ r[n].lists = {"succeeded"} => /\ ToolChanged(input[n], o) # {}
                                        /\ FixedPerEntity(r[n]) \subseteq UNION {d.vulns : d \in input[n].pins}
        /\ r[n].lists = {"succeeded"} /\ StandardNames(input[n]) => FixedPerEntity(r[n]) = IssuesOf(input[n], o)
        /\ r[n].lists # {"succeeded"} /\ StandardNames(input[n]) => ToolChanged(input[n], o) = {}
  <2> SUFFICES ASSUME NEW n \in handled
               PROVE
        /\ r[n].lists \in {{"succeeded"}, {"skipped"}, {"failed"}}
        /\ r[n].lists = {"succeeded"} => /\ ToolChanged(input[n], o) # {}
                                        /\ FixedPerEntity(r[n]) \subseteq UNION {d.vulns : d \in input[n].pins}
        /\ r[n].lists = {"succeeded"} /\ StandardNames(input[n]) => FixedPerEntity(r[n]) = IssuesOf(input[n], o)
        /\ r[n].lists # {"succeeded"} /\ StandardNames(input[n]) => ToolChanged(input[n], o) = {}
    OBVIOUS
  <2>1. r[n] = FixResult(input[n], o) /\ TrueResult(input[n], o) /\ Handled(input[n], o)
    BY <1>3, <1>5, ResultIsTrue
  <2> QED BY <2>1 DEF TrueResult
<1>8. \A n \in handled : n \in S <=> r[n].lists = {"succeeded"}
  BY <1>4, <1>5, <1>7
<1>9. \A n \in S : n \in handled /\ n \in Reported(o) /\ n \in DOMAIN input
  BY <1>1, <1>4, <1>6
<1> HIDE DEF S
<1>10. \A n \in S : n \in handled /\ ToolChanged(input[n], o) # {}
  BY <1>7, <1>8, <1>9
<1>11. \A n \in handled : n \notin S => (StandardNames(input[n]) => ToolChanged(input[n], o) = {})
  BY <1>7, <1>8
<1>12. \A n \in handled \cap Range(Unresolved(r)) :
         StandardNames(input[n]) => ToolChanged(input[n], o) = {}
  BY <1>1, <1>11
<1>13. Fixed(r) = UNION {{n} \X FixedPerEntity(r[n]) : n \in S}
  BY DEF Fixed, S
<1>14. ASSUME \A n \in DOMAIN input : StandardNames(input[n])
       PROVE  Fixed(r) = UNION {{n} \X IssuesOf(input[n], o) : n \in handled}
  <2>1. \A n \in S : FixedPerEntity(r[n]) = IssuesOf(input[n], o)
    BY <1>7, <1>8, <1>9, <1>14
  <2>2. \A n \in handled : n \notin S => IssuesOf(input[n], o) = {}
    <3> SUFFICES ASSUME NEW n \in handled, n \notin S
                 PROVE  IssuesOf(input[n], o) = {}
      OBVIOUS
    <3>1. ToolChanged(input[n], o) = {}
      BY <1>1, <1>5, <1>11, <1>14
    <3> QED BY <3>1 DEF IssuesOf
  <2>3. Fixed(r) \subseteq UNION {{n} \X IssuesOf(input[n], o) : n \in handled}
    BY <1>9, <1>13, <2>1
  <2>4. ASSUME NEW n \in handled, NEW x \in IssuesOf(input[n], o)
        PROVE  <<n, x>> \in Fixed(r)
    BY <1>13, <2>1, <2>2, <2>4
  <2>5. UNION {{n} \X IssuesOf(input[n], o) : n \in handled} \subseteq Fixed(r)
    BY <2>4
  <2> QED BY <2>3, <2>5
<1>15. ASSUME \A n \in DOMAIN input : \A d \in input[n].pins : d.vulns \subseteq input[n].issues
       PROVE  \A i \in Fixed(r) : i[1] \in Reported(o) /\ i[2] \in input[i[1]].issues /\ i = <<i[1], i[2]>>
  <2>1. \A n \in S : n \in Reported(o) /\ FixedPerEntity(r[n]) \subseteq input[n].issues
    <3> SUFFICES ASSUME NEW n \in S
                 PROVE  n \in Reported(o) /\ FixedPerEntity(r[n]) \subseteq input[n].issues
      OBVIOUS
    <3>1. n \in DOMAIN input /\ FixedPerEntity(r[n]) \subseteq UNION {d.vulns : d \in input[n].pins}
      BY <1>7, <1>8, <1>9
    <3> QED BY <1>9, <1>15, <3>1
  <2> QED BY <1>13, <2>1
<1> QED BY <1>2, <1>10, <1>12, <1>14, <1>15 DEF r, S, RightFixes

\* What is fixed was found: each issue of a project that is fixed is at a place of the
\* test results that has the project.
LEMMA FixedWereFound ==
  ASSUME NEW r, NEW tested, tested = TestResults(r), IsFiniteSet(IssuesData(r)),
         \A i \in Fixed(r) : i[1] \in Range(tested) /\ i[2] \in input[i[1]].issues /\ i = <<i[1], i[2]>>
  PROVE  Cardinality(Fixed(r)) <= Cardinality(IssuesData(r))
<1> DEFINE D == IssuesData(r)
           f == [i \in D |-> <<tested[i[1]], i[2]>>]
           T == {f[i] : i \in D}
<1>1. D = UNION {{k} \X input[tested[k]].issues : k \in DOMAIN tested}
  BY DEF IssuesData
<1>2. ASSUME NEW i \in Fixed(r)
      PROVE  i \in T
  <2>1. i = <<i[1], i[2]>> /\ i[2] \in input[i[1]].issues /\ i[1] \in Range(tested)
    OBVIOUS
  <2>2. PICK k \in DOMAIN tested : tested[k] = i[1]
    BY <2>1 DEF Range
  <2>3. <<k, i[2]>> \in D
    BY <1>1, <2>1, <2>2
  <2>4. f[<<k, i[2]>>] = i
    BY <2>1, <2>2, <2>3
  <2> QED BY <2>3, <2>4
<1> HIDE DEF D
<1>3. f \in Surjection(D, T)
  BY DEF Surjection
<1> HIDE DEF f, T
<1>4. IsFiniteSet(T) /\ Cardinality(T) <= Cardinality(D)
  BY <1>3, FS_Surjection DEF D
<1>5. Fixed(r) \in SUBSET T
  BY <1>2
<1>6. IsFiniteSet(Fixed(r)) /\ Cardinality(Fixed(r)) <= Cardinality(T)
  BY <1>4, <1>5, FS_Subset
<1> QED BY <1>4, <1>6, FS_CardinalityType DEF D

\* The summary of these projects is true.
LEMMA SummaryIsTrue ==
  ASSUME kind = "fixReport", input \in Seq(FixProjects)
  PROVE  FixReportIsTrue
<1> SUFFICES ASSUME NEW o \in FixReportOptions
             PROVE
    LET r == FixResults(o)  s == ResultsSummary(r)  meta == FixMeta(r)
        fixes == IF s.says = "results" THEN [k \in DOMAIN s.fixes |-> s.fixes[k].project] ELSE <<>>
        unresolved == IF s.says = "results" THEN s.unresolved ELSE <<>>
        handled == {n \in Reported(o) \ Thrown(o) : input[n].type # "npm"}
        changed == [n \in handled |-> ToolChanged(input[n], o)]
        issuesOf(n) == UNION {d.vulns : d \in {e \in input[n].pins : e.pkg \in changed[n]}}
        found(n) == \A d \in input[n].pins : d.vulns \subseteq input[n].issues
    IN  /\ Range(fixes) \cup Range(unresolved) = Reported(o) /\ Range(fixes) \cap Range(unresolved) = {}
        /\ Len(fixes) + Len(unresolved) = Cardinality(Reported(o)) + Cardinality(ListedTwice(o))
        /\ \A n \in Range(fixes) : n \in handled /\ changed[n] # {}
        /\ \A n \in handled \cap Range(unresolved) : StandardNames(input[n]) => changed[n] = {}
        /\ s.says = "results" =>
             s.overall.bySeverity.critical + s.overall.bySeverity.high
               + s.overall.bySeverity.medium + s.overall.bySeverity.low = meta.totalIssues
        /\ (\A n \in DOMAIN input : StandardNames(input[n])) =>
             meta.fixedIssues = Cardinality(UNION {{n} \X issuesOf(n) : n \in handled})
        /\ (\A n \in DOMAIN input : found(n)) => meta.fixedIssues <= meta.totalIssues
  BY DEF FixReportIsTrue
<1> DEFINE r == FixResults(o)
           s == ResultsSummary(r)
           meta == FixMeta(r)
           done == ResultsIn(r, "succeeded")
           fixes == IF s.says = "results" THEN [k \in DOMAIN s.fixes |-> s.fixes[k].project] ELSE <<>>
           unresolved == IF s.says = "results" THEN s.unresolved ELSE <<>>
           handled == {n \in Reported(o) \ Thrown(o) : input[n].type # "npm"}
           changed == [n \in handled |-> ToolChanged(input[n], o)]
           issuesOf(n) == UNION {d.vulns : d \in {e \in input[n].pins : e.pkg \in changed[n]}}
<1>0. RightLists(o)
  BY ListsAreRight
<1>1. Len(r) = Len(input) /\ DOMAIN input = 1..Len(input) /\ Len(input) \in Nat
  BY <1>0 DEF RightLists
<1>2. /\ done \in Seq(Nat) /\ Range(done) = In(r, "succeeded") /\ Unresolved(r) \in Seq(Nat)
      /\ Range(done) \cup Range(Unresolved(r)) = Reported(o) /\ Range(done) \cap Range(Unresolved(r)) = {}
      /\ Len(done) + Len(Unresolved(r)) = Cardinality(Reported(o)) + Cardinality(ListedTwice(o))
      /\ TestResults(r) \in Seq(Nat) /\ Range(TestResults(r)) = Reported(o)
      /\ Len(ResultsIn(r, "not vulnerable")) = Len(r) => Reported(o) = {}
  BY <1>0 DEF RightLists
<1>3. RightFixes(r, o, handled)
  BY FixedAreRight
<1>4. LET sev == CountBySeverity(r)
      IN  /\ IsFiniteSet(IssuesData(r))
          /\ sev.critical + sev.high + sev.medium + sev.low = TotalIssueCount(r)
  <2>1. Range(TestResults(r)) \subseteq DOMAIN input
    BY <1>2 DEF Reported
  <2> QED BY <1>2, <2>1, SeveritiesAddUp
<1>5. meta.totalIssues = TotalIssueCount(r) /\ meta.fixedIssues = FixedIssues(r)
  BY DEF FixMeta
<1> HIDE DEF r
<1>6. ASSUME s.says = "results"
      PROVE  /\ s.unresolved = Unresolved(r) /\ s.overall.bySeverity = CountBySeverity(r)
             /\ s.fixes = [k \in DOMAIN done |-> [project |-> done[k], changes |-> r[done[k]].changes]]
  BY <1>6 DEF ResultsSummary, OverallSummary, SuccessfulFixes
<1>7. s.says # "results" => Reported(o) = {}
  <2>1. ASSUME r = <<>>
        PROVE  Reported(o) = {}
    <3>1. Len(r) = 0
      BY <2>1
    <3>2. DOMAIN input = {}
      BY ONLY <1>1, <3>1
    <3> QED BY <3>2 DEF Reported
  <2>2. s.says # "results" => r = <<>> \/ Len(ResultsIn(r, "not vulnerable")) = Len(r)
    BY DEF ResultsSummary
  <2> QED BY <1>2, <2>1, <2>2
<1> HIDE DEF s, done
<1>8. done \in Seq(Nat) /\ Unresolved(r) \in Seq(Nat)
  BY <1>2
<1>9. fixes = done /\ unresolved = Unresolved(r)
  <2>1. CASE s.says = "results"
    <3>1. DOMAIN s.fixes = DOMAIN done /\ \A k \in DOMAIN done : s.fixes[k].project = done[k]
      BY <1>6, <2>1
    <3>2. done = [k \in DOMAIN done |-> done[k]]
      BY ONLY <1>8
    <3> QED BY <1>6, <2>1, <3>1, <3>2
  <2>2. CASE s.says # "results"
    <3>1. Range(done) = {} /\ Range(Unresolved(r)) = {}
      BY <1>2, <1>7, <2>2
    <3>2. done = <<>> /\ Unresolved(r) = <<>>
      BY ONLY <1>8, <3>1, NothingInRange
    <3> QED BY <2>2, <3>2
  <2> QED BY <2>1, <2>2
<1> HIDE DEF fixes, unresolved
<1>10. /\ Range(fixes) \cup Range(unresolved) = Reported(o) /\ Range(fixes) \cap Range(unresolved) = {}
      /\ Len(fixes) + Len(unresolved) = Cardinality(Reported(o)) + Cardinality(ListedTwice(o))
  BY <1>2, <1>9
<1>11. \A n \in handled : changed[n] = ToolChanged(input[n], o) /\ issuesOf(n) = IssuesOf(input[n], o)
  BY DEF IssuesOf
<1>12. /\ \A n \in Range(fixes) : n \in handled /\ changed[n] # {}
       /\ \A n \in handled \cap Range(unresolved) : StandardNames(input[n]) => changed[n] = {}
  <2> HIDE DEF handled, changed, issuesOf
  <2> QED BY <1>2, <1>3, <1>9, <1>11 DEF RightFixes
<1>13. s.says = "results" =>
          s.overall.bySeverity.critical + s.overall.bySeverity.high
            + s.overall.bySeverity.medium + s.overall.bySeverity.low = meta.totalIssues
  BY <1>4, <1>5, <1>6
<1>14. (\A n \in DOMAIN input : StandardNames(input[n])) =>
         meta.fixedIssues = Cardinality(UNION {{n} \X issuesOf(n) : n \in handled})
  <2>1. UNION {{n} \X issuesOf(n) : n \in handled} = UNION {{n} \X IssuesOf(input[n], o) : n \in handled}
    <3> HIDE DEF handled, issuesOf
    <3>1. {{n} \X issuesOf(n) : n \in handled} = {{n} \X IssuesOf(input[n], o) : n \in handled}
      BY <1>11
    <3> QED BY <3>1
  <2> HIDE DEF handled, changed, issuesOf, meta
  <2> QED BY <1>3, <1>5, <2>1 DEF RightFixes
<1>15. (\A n \in DOMAIN input : \A d \in input[n].pins : d.vulns \subseteq input[n].issues) =>
         meta.fixedIssues <= meta.totalIssues
  <2> HIDE DEF meta
  <2> SUFFICES ASSUME \A n \in DOMAIN input : \A d \in input[n].pins : d.vulns \subseteq input[n].issues
               PROVE  meta.fixedIssues <= meta.totalIssues
    OBVIOUS
  <2>1. \A i \in Fixed(r) : i[1] \in Range(TestResults(r)) /\ i[2] \in input[i[1]].issues /\ i = <<i[1], i[2]>>
    BY <1>2, <1>3 DEF RightFixes
  <2>2. Cardinality(Fixed(r)) <= Cardinality(IssuesData(r))
    BY <1>4, <2>1, FixedWereFound
  <2> QED BY <1>3, <1>5, <2>2 DEF TotalIssueCount, RightFixes
<1> QED BY <1>10, <1>12, <1>13, <1>14, <1>15 DEF r, s, fixes, unresolved

------------------------------------------------------------------------------
(* The manifests of all projects *)

ManifestRecords == [dir : Seq(STRING), base : STRING]

\* A folder and what lies below it, place by place.
Below(d, e) == Len(d) <= Len(e) /\ \A i \in 1..Len(d) : d[i] = e[i]

LEMMA PrefixIsBelow ==
  ASSUME NEW d \in Seq(STRING), NEW e \in Seq(STRING)
  PROVE  IsPrefix(d, e) <=> Below(d, e)
<1>1. /\ d \in [1..Len(d) -> STRING] /\ Len(d) \in Nat
      /\ e \in [1..Len(e) -> STRING] /\ Len(e) \in Nat
  OBVIOUS
<1>2. SubSeq(d, 1, Len(d)) = [i \in 1..Len(d) |-> d[i]]
  BY <1>1
<1>3. SubSeq(e, 1, Len(d)) = [i \in 1..Len(d) |-> e[i]]
  BY <1>1
<1>4. ASSUME SubSeq(d, 1, Len(d)) = SubSeq(e, 1, Len(d)), NEW i \in 1..Len(d)
      PROVE  d[i] = e[i]
  BY <1>2, <1>3, <1>4
<1>5. ASSUME \A i \in 1..Len(d) : d[i] = e[i]
      PROVE  SubSeq(d, 1, Len(d)) = SubSeq(e, 1, Len(d))
  BY <1>2, <1>3, <1>5
<1> QED BY <1>4, <1>5 DEF IsPrefix, Below

LEMMA BelowFacts ==
  ASSUME NEW d \in Seq(STRING), NEW e \in Seq(STRING), NEW f \in Seq(STRING)
  PROVE  /\ Below(d, d)
         /\ Below(d, e) /\ Below(e, f) => Below(d, f)
         /\ Below(d, e) /\ Len(d) = Len(e) => d = e
         /\ Below(d, e) /\ IgnoredDir(d) => IgnoredDir(e)
<1>1. /\ d \in [1..Len(d) -> STRING] /\ Len(d) \in Nat /\ DOMAIN d = 1..Len(d)
      /\ e \in [1..Len(e) -> STRING] /\ Len(e) \in Nat /\ DOMAIN e = 1..Len(e)
      /\ Len(f) \in Nat
  OBVIOUS
<1>2. Below(d, e) => \A i \in 1..Len(d) : i \in 1..Len(e)
  BY <1>1 DEF Below
<1>3. Below(d, d)
  BY <1>1 DEF Below
<1>4. Below(d, e) /\ Below(e, f) => Below(d, f)
  BY <1>1, <1>2 DEF Below
<1>5. Below(d, e) /\ Len(d) = Len(e) => d = e
  <2> SUFFICES ASSUME Below(d, e), Len(d) = Len(e)
               PROVE  d = e
    OBVIOUS
  <2>1. DOMAIN d = DOMAIN e /\ \A i \in DOMAIN d : d[i] = e[i]
    BY <1>1 DEF Below
  <2>2. d = [i \in DOMAIN d |-> d[i]] /\ e = [i \in DOMAIN e |-> e[i]]
    BY <1>1
  <2> QED BY <2>1, <2>2
<1>6. Below(d, e) /\ IgnoredDir(d) => IgnoredDir(e)
  BY <1>1, <1>2 DEF Below, IgnoredDir
<1> QED BY <1>3, <1>4, <1>5, <1>6

\* Of several manifests for a package manager, the code knows one to take, except for NuGet.
LEMMA BestIsOne ==
  ASSUME NEW B \in SUBSET AutoDetectableFiles, NEW x \in B, NEW y \in B, x # y,
         NEW t, t # "unknown", \A b \in B : ProjectType(b) = t
  PROVE  IF t = "nuget" THEN BestManifest(B, t) \notin B ELSE BestManifest(B, t) \in B
<1>1. CASE t = "node"
  <2>1. B \subseteq {"package-lock.json", "yarn.lock", "package.json"}
    BY <1>1 DEF AutoDetectableFiles, ProjectType
  <2> QED BY <1>1, <2>1 DEF BestManifest
<1>2. CASE t = "rubygems"
  <2>1. B \subseteq {"Gemfile", "Gemfile.lock"}
    BY <1>2 DEF AutoDetectableFiles, ProjectType
  <2> QED BY <1>2, <2>1 DEF BestManifest
<1>3. CASE t = "cocoapods"
  <2>1. B \subseteq {"Podfile", "Podfile.lock"}
    BY <1>3 DEF AutoDetectableFiles, ProjectType
  <2> QED BY <1>3, <2>1 DEF BestManifest
<1>4. CASE t = "pip"
  <2>1. B \subseteq {"Pipfile", "requirements.txt"}
    BY <1>4 DEF AutoDetectableFiles, ProjectType
  <2> QED BY <1>4, <2>1 DEF BestManifest
<1>5. CASE t = "gradle"
  <2>1. B \subseteq {"build.gradle", "build.gradle.kts"}
    BY <1>5 DEF AutoDetectableFiles, ProjectType
  <2> QED BY <1>5, <2>1 DEF BestManifest
<1>6. CASE t = "nuget"
  <2>1. BestManifest(B, t) = "none"
    BY <1>6 DEF BestManifest
  <2>2. "none" \notin AutoDetectableFiles
    BY DEF AutoDetectableFiles
  <2> QED BY <1>6, <2>1, <2>2
<1>7. CASE t \notin {"node", "rubygems", "cocoapods", "pip", "gradle", "nuget"}
  <2>1. ProjectType(x) = ProjectType(y) /\ ProjectType(x) = t
    OBVIOUS
  <2>2. x = y
    BY <1>7, <2>1 DEF AutoDetectableFiles, ProjectType
  <2> QED BY <2>2
<1> QED BY <1>1, <1>2, <1>3, <1>4, <1>5, <1>6, <1>7

LEMMA DefaultIsOne ==
  ASSUME NEW B \in SUBSET AutoDetectableFiles, IsFiniteSet(B), NEW x \in B,
         NEW t, t # "unknown", \A b \in B : ProjectType(b) = t
  PROVE  /\ B = {x} => DefaultManifest(B, t) = x
         /\ t # "nuget" => DefaultManifest(B, t) \in B
         /\ t = "nuget" /\ B # {x} => DefaultManifest(B, t) \notin B
<1>1. Cardinality(B) = 1 <=> \E b : B = {b}
  BY FS_Singleton
<1>2. CASE B = {x}
  BY <1>1, <1>2 DEF DefaultManifest
<1>3. CASE B # {x}
  <2>1. PICK y \in B : y # x
    BY <1>3
  <2>2. DefaultManifest(B, t) = BestManifest(B, t)
    BY <1>1, <2>1 DEF DefaultManifest
  <2> QED BY <1>3, <2>1, <2>2, BestIsOne
<1> QED BY <1>2, <1>3

\* The manifests that a filter keeps of some files S: one for each folder and package
\* manager, unless NuGet has several, and none for Gradle below another one.
Bases(S, f) == {g.base : g \in {h \in S : SameProject(h, f)}}
GradleAbove(S, e) ==
  \E g \in S : ProjectType(g.base) = "gradle" /\ Below(g.dir, e) /\ Len(g.dir) < Len(e)
Chosen(S) ==
  {f \in S : /\ ProjectType(f.base) # "unknown"
             /\ f.base = DefaultManifest(Bases(S, f), ProjectType(f.base))
             /\ ~(ProjectType(f.base) = "gradle" /\ GradleAbove(S, f.dir))}

\* Files that find may find.
Manifests(S) ==
  /\ S \subseteq ManifestRecords /\ IsFiniteSet(S)
  /\ \A f \in S : f.base \in AutoDetectableFiles /\ Len(f.dir) < LevelsDeep

LEMMA BasesAre ==
  ASSUME NEW S, Manifests(S), NEW f \in S, ProjectType(f.base) # "unknown"
  PROVE  LET B == Bases(S, f)  t == ProjectType(f.base)
         IN  /\ B = {f.base} => DefaultManifest(B, t) = f.base
             /\ t # "nuget" => DefaultManifest(B, t) \in B
             /\ t = "nuget" /\ B # {f.base} => DefaultManifest(B, t) \notin B
<1> DEFINE T == {h \in S : SameProject(h, f)}
           B == Bases(S, f)
           g == [h \in T |-> h.base]
<1>1. IsFiniteSet(T)
  BY FS_Subset DEF Manifests
<1>2. B = {h.base : h \in T}
  BY DEF Bases
<1>3. IsFiniteSet(B)
  <2> HIDE DEF T, B
  <2>1. g \in Surjection(T, B)
    BY <1>2 DEF Surjection
  <2> QED BY <1>1, <2>1, FS_Surjection
<1>4. f.base \in B /\ B \in SUBSET AutoDetectableFiles /\ \A b \in B : ProjectType(b) = ProjectType(f.base)
  BY <1>2 DEF Manifests, SameProject
<1> HIDE DEF B
<1> QED BY <1>3, <1>4, DefaultIsOne DEF B

\* Above a folder that has a Gradle file above it is one that is kept.
LEMMA TopGradle ==
  ASSUME NEW S, Manifests(S), NEW e \in Seq(STRING), GradleAbove(S, e)
  PROVE  GradleAbove(Chosen(S), e)
<1> DEFINE G == {g \in S : ProjectType(g.base) = "gradle" /\ Below(g.dir, e) /\ Len(g.dir) < Len(e)}
           L == {Len(g.dir) : g \in G}
<1>1. \A g \in S : g.dir \in Seq(STRING) /\ Len(g.dir) \in Nat /\ g = [dir |-> g.dir, base |-> g.base]
  BY DEF Manifests, ManifestRecords
<1>2. L # {} /\ L \in SUBSET Nat
  BY <1>1 DEF GradleAbove
<1>3. PICK n \in L : \A m \in L : n <= m
  <2> HIDE DEF L
  <2> QED BY <1>2, LeastExists
<1>4. PICK g \in G : Len(g.dir) = n
  OBVIOUS
<1>5. \A h \in G : Len(g.dir) <= Len(h.dir)
  BY <1>3, <1>4
<1>6. DefaultManifest(Bases(S, g), "gradle") \in Bases(S, g)
  BY BasesAre
<1>7. PICK h \in S : SameProject(h, g) /\ h.base = DefaultManifest(Bases(S, g), "gradle")
  BY <1>6 DEF Bases
<1>8. h.dir = g.dir /\ ProjectType(h.base) = "gradle" /\ Bases(S, h) = Bases(S, g)
  BY <1>7 DEF SameProject, Bases
<1>9. ~GradleAbove(S, g.dir)
  <2> SUFFICES ASSUME NEW k \in S, ProjectType(k.base) = "gradle", Below(k.dir, g.dir), Len(k.dir) < Len(g.dir)
               PROVE  FALSE
    BY DEF GradleAbove
  <2>1. Below(k.dir, e)
    BY <1>1, BelowFacts
  <2>2. Len(k.dir) < Len(e) /\ ~(Len(g.dir) <= Len(k.dir))
    BY <1>1
  <2>3. k \in G
    BY <2>1, <2>2
  <2> QED BY <1>5, <2>2, <2>3
<1>10. h \in Chosen(S)
  BY <1>7, <1>8, <1>9 DEF Chosen
<1> QED BY <1>4, <1>8, <1>10 DEF GradleAbove

\* filterForDefaultManifests passes over the folders of each depth.
PassOver(S, x, n) ==
  {f \in S : /\ ProjectType(f.base) # "unknown" /\ Len(f.dir) = n - 1
             /\ f.base = DefaultManifest(Bases(S, f), ProjectType(f.base))
             /\ ~ShouldSkip(ProjectType(f.base), f.dir, x)}

LEMMA FilterPasses ==
  ASSUME NEW S, ~(Cardinality(S) <= 1)
  PROVE  \E f \in [0..LevelsDeep -> SUBSET S] :
           /\ f[0] = {} /\ f[LevelsDeep] = FilterForDefaultManifests(S)
           /\ \A i \in 1..LevelsDeep : f[i] = f[i - 1] \cup PassOver(S, f[i - 1], i)
<1> DEFINE N == LevelsDeep
           known == {f \in S : ProjectType(f.base) # "unknown"}
           beside(f) == {g.base : g \in {h \in known : SameProject(h, f)}}
           Pass(x, n) ==
             {f \in known : /\ Len(f.dir) = n - 1
                            /\ f.base = DefaultManifest(beside(f), ProjectType(f.base))
                            /\ ~ShouldSkip(ProjectType(f.base), f.dir, x)}
           V == SUBSET S
           step == [x \in V \X (1..N) |-> x[1] \cup Pass(x[1], x[2])]
           kept == CHOOSE h : h = [n \in 0..N |-> IF n = 0 THEN {} ELSE h[n - 1] \cup Pass(h[n - 1], n)]
<1>1. N \in Nat
  BY FilesAssumption
<1>2. FilterForDefaultManifests(S) = kept[N]
  BY DEF FilterForDefaultManifests
<1>3. \A x, n : Pass(x, n) = PassOver(S, x, n)
  <2>1. \A f \in known : {h \in known : SameProject(h, f)} = {h \in S : SameProject(h, f)}
    BY DEF SameProject
  <2>2. \A f \in known : beside(f) = Bases(S, f)
    BY <2>1 DEF Bases
  <2> QED BY <2>2 DEF PassOver
<1>4. \A x \in V : \A n \in 1..N : Pass(x, n) \in V
  OBVIOUS
<1>5. step \in [V \X (1..N) -> V]
  <2> HIDE DEF V, N, Pass
  <2>1. \A x \in V \X (1..N) : x[1] \cup Pass(x[1], x[2]) \in V
    BY <1>4 DEF V
  <2> QED BY <2>1
<1>6. \A x \in V : \A n \in 1..N : step[<<x, n>>] = x \cup Pass(x, n)
  OBVIOUS
<1> HIDE DEF N, Pass, step
<1>7. PICK f \in [0..N -> V] :
        RunOf(f, N, {}, step) /\ \A g : GivenAs(g, N, V, {}, step) => g = f
  <2>1. {} \in V
    OBVIOUS
  <2> HIDE DEF V
  <2> QED BY <1>1, <1>5, <2>1, PrefixRecursion
<1>8. N \in 0..N /\ 0 \in 0..N /\ (1..N = {i \in 0..N : i # 0}) /\ \A i \in 1..N : i - 1 \in 0..N
  BY <1>1
<1>9. \A i \in 1..N : f[i] = f[i - 1] \cup Pass(f[i - 1], i)
  <2> HIDE DEF V
  <2> QED BY <1>6, <1>7, <1>8 DEF RunOf
<1>10. f = [n \in 0..N |-> IF n = 0 THEN {} ELSE f[n - 1] \cup Pass(f[n - 1], n)]
  <2> HIDE DEF V
  <2>1. f = [n \in 0..N |-> f[n]]
    BY <1>7
  <2>2. \A n \in 0..N : f[n] = IF n = 0 THEN {} ELSE f[n - 1] \cup Pass(f[n - 1], n)
    BY <1>7, <1>8, <1>9 DEF RunOf
  <2> QED BY <2>1, <2>2
<1>11. kept = [n \in 0..N |-> IF n = 0 THEN {} ELSE kept[n - 1] \cup Pass(kept[n - 1], n)]
  BY <1>10
<1> HIDE DEF kept
<1>12. kept = f
  <2>1. kept = [n \in 0..N |-> kept[n]] /\ kept[0] = {}
    BY <1>8, <1>11
  <2>2. \A i \in 1..N : kept[i] = kept[i - 1] \cup Pass(kept[i - 1], i)
    BY <1>8, <1>11
  <2> HIDE DEF V
  <2>3. \A i \in 1..N : kept[i - 1] \in V => kept[i] = step[<<kept[i - 1], i>>]
    BY <1>6, <2>2
  <2> QED BY <1>7, <2>1, <2>3 DEF GivenAs
<1> QED BY <1>2, <1>3, <1>7, <1>9, <1>12 DEF RunOf, N

LEMMA FilterChooses ==
  ASSUME NEW S, Manifests(S), ~(Cardinality(S) <= 1)
  PROVE  FilterForDefaultManifests(S) = Chosen(S)
<1> DEFINE N == LevelsDeep
           Upto(m) == {f \in Chosen(S) : Len(f.dir) < m}
<1>1. N \in Nat /\ N \in 0..N /\ 0 \in 0..N /\ \A i \in 1..N : i - 1 \in 0..N /\ i \in 0..N
  BY FilesAssumption
<1>2. \A f \in S : f.dir \in Seq(STRING) /\ Len(f.dir) \in Nat /\ Len(f.dir) < N
  BY DEF Manifests, ManifestRecords
<1>3. ASSUME NEW n \in 1..N
      PROVE  Upto(n) = Upto(n - 1) \cup PassOver(S, Upto(n - 1), n)
  <2>1. ASSUME NEW f \in S, Len(f.dir) = n - 1
        PROVE  ShouldSkip(ProjectType(f.base), f.dir, Upto(n - 1))
                 <=> ProjectType(f.base) = "gradle" /\ GradleAbove(S, f.dir)
    <3>1. f.dir \in Seq(STRING) /\ \A g \in S : g.dir \in Seq(STRING) /\ Len(g.dir) \in Nat
      BY <1>2
    <3>2. ShouldSkip(ProjectType(f.base), f.dir, Upto(n - 1))
            <=> ProjectType(f.base) = "gradle" /\ GradleAbove(Chosen(S), f.dir)
      <4>1. \A g \in S : IsPrefix(g.dir, f.dir) <=> Below(g.dir, f.dir)
        BY <3>1, PrefixIsBelow
      <4>2. Chosen(S) \subseteq S
        BY DEF Chosen
      <4> QED BY <2>1, <4>1, <4>2 DEF ShouldSkip, GradleAbove
    <3>3. GradleAbove(Chosen(S), f.dir) => GradleAbove(S, f.dir)
      BY DEF GradleAbove, Chosen
    <3>4. GradleAbove(S, f.dir) => GradleAbove(Chosen(S), f.dir)
      BY <3>1, TopGradle
    <3> QED BY <3>2, <3>3, <3>4
  <2>2. PassOver(S, Upto(n - 1), n) = {f \in Chosen(S) : Len(f.dir) = n - 1}
    BY <2>1 DEF Chosen, PassOver
  <2>3. \A f \in S : Len(f.dir) < n <=> Len(f.dir) < n - 1 \/ Len(f.dir) = n - 1
    BY <1>1, <1>2
  <2>4. Chosen(S) \subseteq S
    BY DEF Chosen
  <2> QED BY <2>2, <2>3, <2>4
<1>4. PICK f \in [0..N -> SUBSET S] :
        /\ f[0] = {} /\ f[N] = FilterForDefaultManifests(S)
        /\ \A i \in 1..N : f[i] = f[i - 1] \cup PassOver(S, f[i - 1], i)
  BY FilterPasses
<1> DEFINE P == {m \in 0..N : f[m] = Upto(m)}
<1>5. 0 \in P
  <2>1. Upto(0) = {}
    BY <1>2 DEF Chosen
  <2> QED BY <1>1, <1>4, <2>1
<1>6. \A i \in 1..N : i - 1 \in P => i \in P
  <2> HIDE DEF Upto
  <2> QED BY <1>1, <1>3, <1>4
<1>7. P = 0..N
  <2>1. P \in SUBSET (0..N)
    OBVIOUS
  <2> HIDE DEF P
  <2> QED BY <1>1, <1>5, <1>6, <2>1, PrefixInduction
<1>8. f[N] = Upto(N) /\ Upto(N) = Chosen(S)
  BY <1>1, <1>2, <1>7 DEF Chosen
<1> QED BY <1>4, <1>8

\* Nothing is added by a filter.
LEMMA FilterTakes ==
  ASSUME NEW S
  PROVE  FilterForDefaultManifests(S) \subseteq S
<1>1. CASE Cardinality(S) <= 1
  BY <1>1 DEF FilterForDefaultManifests
<1>2. CASE ~(Cardinality(S) <= 1)
  <2>1. LevelsDeep \in 0..LevelsDeep
    BY FilesAssumption
  <2> QED BY <1>2, <2>1, FilterPasses
<1> QED BY <1>1, <1>2

\* Whether a file is filtered alone or not, what it is known as.
KnownOf(S) == {f \in S : ProjectType(f.base) # "unknown"}

LEMMA FilterRight ==
  ASSUME NEW S, Manifests(S)
  PROVE  /\ FilterForDefaultManifests(S) \subseteq S
         /\ KnownOf(FilterForDefaultManifests(S)) = Chosen(S)
<1>1. CASE ~(Cardinality(S) <= 1)
  BY <1>1, FilterChooses DEF Chosen, KnownOf
<1>2. CASE Cardinality(S) <= 1
  <2>1. FilterForDefaultManifests(S) = S
    BY <1>2 DEF FilterForDefaultManifests
  <2>2. \A f, g \in S : f = g
    <3>1. IsFiniteSet(S) /\ Cardinality(S) \in Nat
      BY FS_CardinalityType DEF Manifests
    <3>2. Cardinality(S) = 0 \/ Cardinality(S) = 1
      BY <1>2, <3>1
    <3> QED BY <3>1, <3>2, FS_EmptySet, FS_Singleton
  <2>3. ASSUME NEW f \in S, ProjectType(f.base) # "unknown"
        PROVE  f \in Chosen(S)
    <3>1. Bases(S, f) = {f.base}
      BY <2>2 DEF Bases, SameProject
    <3>2. DefaultManifest(Bases(S, f), ProjectType(f.base)) = f.base
      BY <2>3, <3>1, BasesAre
    <3>3. ~GradleAbove(S, f.dir)
      <4>1. Len(f.dir) \in Nat
        BY DEF Manifests, ManifestRecords
      <4> QED BY <2>2, <4>1 DEF GradleAbove
    <3> QED BY <2>3, <3>2, <3>3 DEF Chosen
  <2> QED BY <2>1, <2>3 DEF KnownOf, Chosen
<1> QED BY <1>1, <1>2

\* Of files R, all in or below a folder, those in a sub-folder.
InSub(R, dir, name) == {g \in R : Len(g.dir) > Len(dir) /\ g.dir[Len(dir) + 1] = name}

\* What is chosen of the files of a folder, and of what was chosen of its
\* sub-folders' files, is what would be chosen of all of them.
LEMMA ChosenTogether ==
  ASSUME NEW R, Manifests(R), NEW dir \in Seq(STRING), \A f \in R : Below(dir, f.dir),
         NEW S, S \subseteq R, \A f \in R : f.dir = dir => f \in S,
         \A f \in R : f.dir # dir /\ ProjectType(f.base) # "unknown" =>
           (f \in S <=> f \in Chosen(InSub(R, dir, f.dir[Len(dir) + 1])))
  PROVE  Chosen(S) = Chosen(R)
<1> DEFINE Sub(f) == InSub(R, dir, f.dir[Len(dir) + 1])
           Gradle(f) == ProjectType(f.base) = "gradle"
           Above(g, f) == Below(g.dir, f.dir) /\ Len(g.dir) < Len(f.dir)
<1>1. \A f \in R : /\ f.dir \in Seq(STRING) /\ Len(f.dir) \in Nat /\ Len(dir) \in Nat
                   /\ f = [dir |-> f.dir, base |-> f.base]
  BY DEF Manifests, ManifestRecords
<1>2. \A f \in R : f.dir # dir => Len(f.dir) > Len(dir) /\ f \in Sub(f)
  <2> SUFFICES ASSUME NEW f \in R, f.dir # dir
               PROVE  Len(f.dir) > Len(dir) /\ f \in Sub(f)
    OBVIOUS
  <2>1. Below(dir, f.dir) /\ Len(dir) <= Len(f.dir)
    BY DEF Below
  <2>2. Len(dir) # Len(f.dir)
    BY <1>1, <2>1, BelowFacts
  <2> QED BY <1>1, <2>1, <2>2 DEF InSub
<1>3. \A f \in R : f.dir = dir => \A g \in R : ~Above(g, f)
  <2> SUFFICES ASSUME NEW f \in R, f.dir = dir, NEW g \in R, Above(g, f)
               PROVE  FALSE
    OBVIOUS
  <2>1. Len(dir) <= Len(g.dir)
    BY DEF Below
  <2> QED BY <1>1, <2>1
<1>4. \A f \in R : f.dir # dir => \A g \in R : Above(g, f) => g.dir = dir \/ g \in Sub(f)
  <2> SUFFICES ASSUME NEW f \in R, f.dir # dir, NEW g \in R, Above(g, f), g.dir # dir
               PROVE  g \in Sub(f)
    OBVIOUS
  <2>1. Len(g.dir) > Len(dir) /\ Len(dir) \in Nat /\ Len(g.dir) \in Nat
    BY <1>1, <1>2
  <2>2. Len(dir) + 1 \in 1..Len(g.dir)
    BY <2>1
  <2>3. g.dir[Len(dir) + 1] = f.dir[Len(dir) + 1]
    BY <2>2 DEF Below
  <2> QED BY <2>1, <2>3 DEF InSub
<1>5. \A f \in R : f.dir # dir => Bases(Sub(f), f) = Bases(R, f) /\ Sub(f) \subseteq R
  <2> SUFFICES ASSUME NEW f \in R, f.dir # dir
               PROVE  Bases(Sub(f), f) = Bases(R, f) /\ Sub(f) \subseteq R
    OBVIOUS
  <2>1. \A h \in R : SameProject(h, f) => h \in Sub(f)
    BY <1>2 DEF SameProject, InSub
  <2>2. Sub(f) \subseteq R
    BY DEF InSub
  <2> HIDE DEF Sub
  <2>3. {h \in Sub(f) : SameProject(h, f)} = {h \in R : SameProject(h, f)}
    BY <2>1, <2>2
  <2> QED BY <2>2, <2>3 DEF Bases
<1> HIDE DEF Sub
<1>6. \A f \in R : f.dir = dir => Bases(S, f) = Bases(R, f)
  <2> SUFFICES ASSUME NEW f \in R, f.dir = dir
               PROVE  Bases(S, f) = Bases(R, f)
    OBVIOUS
  <2>1. {h \in S : SameProject(h, f)} = {h \in R : SameProject(h, f)}
    BY DEF SameProject
  <2> QED BY <2>1 DEF Bases
<1>7. \A f \in R : f.dir = dir => (f \in Chosen(S) <=> f \in Chosen(R))
  BY <1>3, <1>6 DEF Chosen, GradleAbove
<1>8. ASSUME NEW f \in R, f.dir # dir, f \in Chosen(R)
      PROVE  f \in Chosen(S)
  <2>1. f \in Chosen(Sub(f))
    BY <1>2, <1>5, <1>8 DEF Chosen, GradleAbove
  <2>2. f \in S /\ ProjectType(f.base) # "unknown"
    BY <1>8, <2>1 DEF Chosen, Sub
  <2>3. Bases(S, f) = {f.base}
    <3>1. ASSUME NEW h \in S, SameProject(h, f)
          PROVE  h.base = f.base
      <4>1. h \in R /\ h.dir = f.dir /\ ProjectType(h.base) = ProjectType(f.base) /\ Sub(h) = Sub(f)
        BY <3>1 DEF SameProject, Sub
      <4>2. h \in Chosen(Sub(f))
        BY <1>8, <2>2, <4>1 DEF Sub
      <4>3. Bases(Sub(f), h) = Bases(Sub(f), f)
        BY <4>1 DEF Bases, SameProject
      <4> QED BY <2>1, <4>1, <4>2, <4>3 DEF Chosen
    <3>2. SameProject(f, f)
      BY DEF SameProject
    <3> QED BY <2>2, <3>1, <3>2 DEF Bases
  <2>4. Manifests(S)
    BY FS_Subset DEF Manifests
  <2>5. DefaultManifest(Bases(S, f), ProjectType(f.base)) = f.base
    BY <2>2, <2>3, <2>4, BasesAre
  <2>6. ~(Gradle(f) /\ GradleAbove(S, f.dir))
    BY <1>8 DEF Chosen, GradleAbove
  <2> QED BY <2>2, <2>5, <2>6 DEF Chosen
<1>9. ASSUME NEW f \in R, f.dir # dir, f \in Chosen(S)
      PROVE  f \in Chosen(R)
  <2>1. f \in S /\ ProjectType(f.base) # "unknown"
    BY <1>9 DEF Chosen
  <2>2. f \in Chosen(Sub(f))
    BY <1>9, <2>1 DEF Sub
  <2>3. DefaultManifest(Bases(R, f), ProjectType(f.base)) = f.base
    BY <1>5, <1>9, <2>2 DEF Chosen
  <2>4. ASSUME Gradle(f), NEW g \in R, Gradle(g), Above(g, f)
        PROVE  FALSE
    <3>1. g.dir # dir
      BY <1>9, <2>4 DEF Chosen, GradleAbove
    <3>2. g \in Sub(f)
      BY <1>4, <1>9, <2>4, <3>1
    <3> QED BY <2>2, <2>4, <3>2 DEF Chosen, GradleAbove
  <2> QED BY <2>1, <2>3, <2>4 DEF Chosen, GradleAbove
<1>10. Chosen(S) \subseteq R /\ Chosen(R) \subseteq R
  BY DEF Chosen
<1> QED BY <1>7, <1>8, <1>9, <1>10

\* The files that a folder's find reaches with k - 1 levels left.
Reached(M, k, dir) ==
  {f \in M : /\ Below(dir, f.dir) /\ Len(f.dir) - Len(dir) + 2 <= k
             /\ ~IgnoredDir(f.dir) /\ f.base \notin Ignored}

\* What find returns of them.
RightlyFound(found, M, k, dir) ==
  /\ found \subseteq Reached(M, k, dir)
  /\ KnownOf(found) = Chosen(Reached(M, k, dir))

LEMMA SubFolderOf ==
  ASSUME NEW M, M \subseteq ManifestRecords, NEW f \in M,
         NEW dir \in Seq(STRING), Below(dir, f.dir), f.dir # dir
  PROVE  \E d \in SubFolders(dir, FoldersOf(M)) :
           d \in Seq(STRING) /\ Below(d, f.dir) /\ d[Len(dir) + 1] = f.dir[Len(dir) + 1]
<1> DEFINE n == Len(dir)
           d == SubSeq(f.dir, 1, n + 1)
<1>1. f.dir \in Seq(STRING) /\ n \in Nat /\ Len(f.dir) \in Nat /\ n < Len(f.dir)
  <2>1. f.dir \in Seq(STRING) /\ n <= Len(f.dir) /\ n \in Nat /\ Len(f.dir) \in Nat
    BY DEF ManifestRecords, Below
  <2>2. n # Len(f.dir)
    BY <2>1, BelowFacts
  <2> QED BY <2>1, <2>2
<1>2. /\ d \in Seq(STRING) /\ Len(d) = n + 1 /\ \A i \in 1..(n + 1) : d[i] = f.dir[i]
  BY <1>1
<1>3. d \in FoldersOf(M)
  <2>1. n + 1 \in 0..Len(f.dir)
    BY <1>1
  <2> QED BY <2>1 DEF FoldersOf
<1> HIDE DEF d
<1>4. Below(d, f.dir)
  BY <1>1, <1>2 DEF Below
<1>5. Below(dir, d)
  <2>1. \A i \in 1..n : i \in 1..(n + 1) /\ dir[i] = f.dir[i]
    BY <1>1 DEF Below
  <2> QED BY <1>1, <1>2, <2>1 DEF Below
<1>6. IsPrefix(dir, d)
  BY <1>2, <1>5, PrefixIsBelow
<1>7. n + 1 \in 1..(n + 1)
  BY <1>1
<1> QED BY <1>2, <1>3, <1>4, <1>6, <1>7 DEF SubFolders

\* The files of a folder, and what is left of its sub-folders'.
Together(M, below, k, dir) ==
  OwnFiles(dir, k - 1, M) \cup UNION {below[d] : d \in SubFolders(dir, FoldersOf(M))}

\* One level: what is left of a folder's sub-folders is right, so is what is left of it.
LEMMA LevelIsRight ==
  ASSUME NEW M, M \subseteq ManifestRecords, IsFiniteSet(M), \A f \in M : f.base \in AutoDetectableFiles,
         FoldersOf(M) \subseteq Seq(STRING), NEW k \in Nat, k # 0, NEW dir \in FoldersOf(M),
         Len(dir) + k <= LevelsDeep + 1, ~IgnoredDir(dir), NEW below,
         \A d \in SubFolders(dir, FoldersOf(M)) : RightlyFound(below[d], M, k - 1, d)
  PROVE  RightlyFound(FilterForDefaultManifests(Together(M, below, k, dir)), M, k, dir)
<1> DEFINE Subs == SubFolders(dir, FoldersOf(M))
           own == OwnFiles(dir, k - 1, M)
           S == own \cup UNION {below[d] : d \in Subs}
           R == Reached(M, k, dir)
<1>1. dir \in Seq(STRING) /\ Len(dir) \in Nat /\ LevelsDeep \in Nat
  BY FilesAssumption
<1>2. \A f \in M : f.dir \in Seq(STRING) /\ Len(f.dir) \in Nat
  BY DEF ManifestRecords
<1>3. \A d \in Subs : d \in Seq(STRING) /\ Len(d) = Len(dir) + 1 /\ Below(dir, d)
  BY <1>1, PrefixIsBelow DEF SubFolders
<1>4. own = {f \in R : f.dir = dir}
  <2>1. \A f \in M : f.dir = dir => Below(dir, f.dir) /\ Len(f.dir) - Len(dir) + 2 = 2 /\ ~IgnoredDir(f.dir)
    BY <1>1, BelowFacts
  <2>2. FilesReached(k - 1) <=> 2 <= k
    BY DEF FilesReached
  <2> QED BY <2>1, <2>2 DEF OwnFiles, Reached
<1>5. Manifests(R)
  <2>1. R \subseteq M /\ \A f \in R : Len(f.dir) < LevelsDeep
    BY <1>1, <1>2 DEF Reached
  <2> QED BY <2>1, FS_Subset DEF Manifests
<1>6. \A d \in Subs : Reached(M, k - 1, d) \subseteq R
  <2> SUFFICES ASSUME NEW d \in Subs, NEW f \in Reached(M, k - 1, d)
               PROVE  f \in R
    OBVIOUS
  <2>1. f \in M /\ Below(d, f.dir) /\ Len(f.dir) - Len(d) + 2 <= k - 1 /\ ~IgnoredDir(f.dir) /\ f.base \notin Ignored
    BY DEF Reached
  <2>2. Below(dir, f.dir)
    BY <1>1, <1>2, <1>3, <2>1, BelowFacts
  <2>3. Len(f.dir) - Len(dir) + 2 <= k
    BY <1>1, <1>2, <1>3, <2>1
  <2> QED BY <2>1, <2>2, <2>3 DEF Reached
<1>7. S \subseteq R
  BY <1>4, <1>6 DEF RightlyFound
<1>8. \A f \in R : f.dir = dir => f \in S
  BY <1>4
<1>9. \A f \in R : Below(dir, f.dir)
  BY DEF Reached
<1>10. ASSUME NEW f \in R, f.dir # dir, ProjectType(f.base) # "unknown"
       PROVE  f \in S <=> f \in Chosen(InSub(R, dir, f.dir[Len(dir) + 1]))
  <2>1. f \in M
    BY DEF Reached
  <2>2. PICK d \in Subs : Below(d, f.dir) /\ d[Len(dir) + 1] = f.dir[Len(dir) + 1]
    BY <1>1, <1>9, <1>10, <2>1, SubFolderOf
  <2>3. InSub(R, dir, f.dir[Len(dir) + 1]) = Reached(M, k - 1, d)
    <3>1. ASSUME NEW g \in R, Len(g.dir) > Len(dir), g.dir[Len(dir) + 1] = f.dir[Len(dir) + 1]
          PROVE  g \in Reached(M, k - 1, d)
      <4>1. g \in M /\ Below(dir, g.dir) /\ Len(g.dir) - Len(dir) + 2 <= k /\ ~IgnoredDir(g.dir) /\ g.base \notin Ignored
        BY DEF Reached
      <4>2. Len(g.dir) - Len(d) + 2 <= k - 1 /\ Len(d) <= Len(g.dir)
        BY <1>1, <1>2, <1>3, <3>1, <4>1
      <4>3. \A i \in 1..Len(d) : i \in 1..Len(dir) \/ i = Len(dir) + 1
        BY <1>1, <1>3
      <4>4. Below(d, g.dir)
        BY <1>3, <2>2, <3>1, <4>1, <4>2, <4>3 DEF Below
      <4> QED BY <4>1, <4>2, <4>4 DEF Reached
    <3>2. ASSUME NEW g \in Reached(M, k - 1, d)
          PROVE  g \in R /\ Len(g.dir) > Len(dir) /\ g.dir[Len(dir) + 1] = f.dir[Len(dir) + 1]
      <4>1. g \in R /\ g \in M /\ Below(d, g.dir)
        BY <1>6 DEF Reached
      <4>2. Len(dir) + 1 \in 1..Len(d) /\ Len(g.dir) > Len(dir)
        BY <1>1, <1>2, <1>3, <4>1 DEF Below
      <4> QED BY <2>2, <4>1, <4>2 DEF Below
    <3> QED BY <3>1, <3>2 DEF InSub
  <2>4. f \in below[d] <=> f \in Chosen(Reached(M, k - 1, d))
    BY <1>10 DEF RightlyFound, KnownOf
  <2>5. ASSUME f \in S
        PROVE  f \in below[d]
    <3>1. f \notin own
      BY <1>4, <1>10
    <3>2. PICK e \in Subs : f \in below[e]
      BY <2>5, <3>1
    <3>3. Below(e, f.dir)
      BY <3>2 DEF RightlyFound, Reached
    <3>4. e = d
      <4>1. /\ d \in Seq(STRING) /\ e \in Seq(STRING) /\ Len(e) = Len(d)
        BY <1>3
      <4>2. Below(e, d)
        BY <2>2, <3>3, <4>1 DEF Below
      <4> QED BY <4>1, <4>2, BelowFacts
    <3> QED BY <3>2, <3>4
  <2> QED BY <2>3, <2>4, <2>5
<1> HIDE DEF S, R
<1>11. Chosen(S) = Chosen(R)
  BY <1>1, <1>5, <1>7, <1>8, <1>9, <1>10, ChosenTogether
<1>12. Manifests(S)
  BY <1>5, <1>7, FS_Subset DEF Manifests
<1>13. FilterForDefaultManifests(S) \subseteq R /\ KnownOf(FilterForDefaultManifests(S)) = Chosen(R)
  BY <1>7, <1>11, <1>12, FilterRight
<1> QED BY <1>13 DEF RightlyFound, Together, S, R

LEMMA FoundIsRight ==
  ASSUME NEW M, M \subseteq ManifestRecords, IsFiniteSet(M), \A f \in M : f.base \in AutoDetectableFiles
  PROVE  RightlyFound(Find(M), M, LevelsDeep + 1, <<>>)
<1> DEFINE N == LevelsDeep + 1
           dirs == FoldersOf(M)
           Level(x, k) ==
             [dir \in dirs |->
                IF IgnoredDir(dir) THEN {}
                ELSE FilterForDefaultManifests(Together(M, x, k, dir))]
           none == [dir \in dirs |-> {}]
           V == [dirs -> SUBSET M]
           step == [x \in V \X (1..N) |-> Level(x[1], x[2])]
           found == CHOOSE h : h = [k \in 0..N |-> IF k = 0 THEN none ELSE Level(h[k - 1], k)]
<1>1. N \in Nat /\ LevelsDeep \in Nat
  BY FilesAssumption
<1>2. Find(M) = found[N][<<>>]
  BY DEF Find, Together
<1>3. dirs \subseteq Seq(STRING) /\ <<>> \in dirs
  <2>1. \A f \in M : f.dir \in Seq(STRING)
    BY DEF ManifestRecords
  <2>2. \A s \in Seq(STRING) : \A n \in 0..Len(s) : SubSeq(s, 1, n) \in Seq(STRING)
    OBVIOUS
  <2>3. \A f \in M : \A n \in 0..Len(f.dir) : SubSeq(f.dir, 1, n) \in Seq(STRING)
    BY <2>1, <2>2
  <2>4. <<>> \in Seq(STRING)
    OBVIOUS
  <2>5. ASSUME NEW d \in dirs, d # <<>>
        PROVE  d \in Seq(STRING)
    <3>1. \E f \in M : \E n \in 0..Len(f.dir) : d = SubSeq(f.dir, 1, n)
      BY <2>5 DEF FoldersOf
    <3> QED BY <2>3, <3>1
  <2>6. <<>> \in dirs
    BY DEF FoldersOf
  <2> QED BY <2>4, <2>5, <2>6
<1>4. \A x \in V : \A k \in 1..N : Level(x, k) \in V
  <2> SUFFICES ASSUME NEW x \in V, NEW k \in 1..N, NEW dir \in dirs
               PROVE  FilterForDefaultManifests(Together(M, x, k, dir)) \in SUBSET M
    OBVIOUS
  <2>1. OwnFiles(dir, k - 1, M) \subseteq M
    BY DEF OwnFiles
  <2>2. \A d \in SubFolders(dir, dirs) : x[d] \subseteq M
    BY DEF SubFolders
  <2>3. Together(M, x, k, dir) \subseteq M
    BY <2>1, <2>2 DEF Together
  <2> QED BY <2>3, FilterTakes
<1>5. step \in [V \X (1..N) -> V]
  <2> HIDE DEF V, N, Level
  <2>1. \A x \in V \X (1..N) : Level(x[1], x[2]) \in V
    BY <1>4
  <2> QED BY <2>1
<1> HIDE DEF N
<1>6. \A x \in V : \A k \in 1..N : step[<<x, k>>] = Level(x, k)
  <2> HIDE DEF V, Level
  <2> QED OBVIOUS
<1>7. \A x : \A k \in 1..N : \A dir \in dirs :
        Level(x, k)[dir] = IF IgnoredDir(dir) THEN {}
                           ELSE FilterForDefaultManifests(Together(M, x, k, dir))
  OBVIOUS
<1>8. none \in V /\ \A dir \in dirs : none[dir] = {}
  OBVIOUS
<1> HIDE DEF Level, step, none, V
<1>9. PICK f \in [0..N -> V] :
        RunOf(f, N, none, step) /\ \A g : GivenAs(g, N, V, none, step) => g = f
  BY <1>1, <1>5, <1>8, PrefixRecursion
<1>10. N \in 0..N /\ 0 \in 0..N /\ (1..N = {i \in 0..N : i # 0}) /\ \A i \in 1..N : i - 1 \in 0..N
  BY <1>1
<1>11. \A i \in 1..N : f[i] = Level(f[i - 1], i)
  BY <1>6, <1>9, <1>10 DEF RunOf
<1>12. f = [k \in 0..N |-> IF k = 0 THEN none ELSE Level(f[k - 1], k)]
  <2>1. f = [k \in 0..N |-> f[k]]
    BY <1>9
  <2>2. \A k \in 0..N : f[k] = IF k = 0 THEN none ELSE Level(f[k - 1], k)
    BY <1>9, <1>10, <1>11 DEF RunOf
  <2> QED BY <2>1, <2>2
<1>13. found = [k \in 0..N |-> IF k = 0 THEN none ELSE Level(found[k - 1], k)]
  BY <1>12
<1> HIDE DEF found
<1>14. found = f
  <2>1. found = [k \in 0..N |-> found[k]] /\ found[0] = none
    BY <1>10, <1>13
  <2>2. \A i \in 1..N : found[i] = Level(found[i - 1], i)
    BY <1>10, <1>13
  <2>3. \A i \in 1..N : found[i - 1] \in V => found[i] = step[<<found[i - 1], i>>]
    BY <1>6, <2>2
  <2> QED BY <1>9, <2>1, <2>3 DEF GivenAs
<1> DEFINE Right(k) == \A dir \in dirs : Len(dir) + k <= N => RightlyFound(f[k][dir], M, k, dir)
           P == {m \in 0..N : Right(m)}
<1>15. 0 \in P
  <2> SUFFICES ASSUME NEW dir \in dirs
               PROVE  RightlyFound(f[0][dir], M, 0, dir)
    BY <1>10
  <2>1. f[0][dir] = {}
    BY <1>8, <1>9 DEF RunOf
  <2>2. Reached(M, 0, dir) = {}
    <3>1. Len(dir) \in Nat /\ \A g \in M : Len(g.dir) \in Nat
      BY <1>3 DEF ManifestRecords
    <3> QED BY <3>1 DEF Reached, Below
  <2> QED BY <2>1, <2>2 DEF RightlyFound, KnownOf, Chosen
<1>16. ASSUME NEW i \in 1..N, i - 1 \in P
       PROVE  i \in P
  <2> SUFFICES ASSUME NEW dir \in dirs, Len(dir) + i <= N
               PROVE  RightlyFound(f[i][dir], M, i, dir)
    BY <1>1
  <2>1. dir \in Seq(STRING) /\ Len(dir) \in Nat /\ i \in Nat /\ i # 0
    BY <1>1, <1>3
  <2>2. f[i][dir] = IF IgnoredDir(dir) THEN {}
                    ELSE FilterForDefaultManifests(Together(M, f[i - 1], i, dir))
    BY <1>7, <1>11
  <2>3. CASE IgnoredDir(dir)
    <3>1. Reached(M, i, dir) = {}
      <4>1. \A g \in M : g.dir \in Seq(STRING)
        BY DEF ManifestRecords
      <4>2. \A g \in M : Below(dir, g.dir) => IgnoredDir(g.dir)
        BY <2>1, <2>3, <4>1, BelowFacts
      <4> QED BY <4>2 DEF Reached
    <3> QED BY <2>2, <2>3, <3>1 DEF RightlyFound, KnownOf, Chosen
  <2>4. CASE ~IgnoredDir(dir)
    <3>1. \A d \in SubFolders(dir, dirs) : RightlyFound(f[i - 1][d], M, i - 1, d)
      <4> SUFFICES ASSUME NEW d \in SubFolders(dir, dirs)
                   PROVE  RightlyFound(f[i - 1][d], M, i - 1, d)
        OBVIOUS
      <4>1. d \in dirs /\ Len(d) = Len(dir) + 1
        BY DEF SubFolders
      <4>2. Len(d) + (i - 1) <= N
        BY <2>1, <4>1
      <4> QED BY <1>16, <4>1, <4>2
    <3>2. Len(dir) + i <= LevelsDeep + 1
      BY DEF N
    <3> HIDE DEF N
    <3> DEFINE below == f[i - 1]
    <3>3. \A d \in SubFolders(dir, FoldersOf(M)) : RightlyFound(below[d], M, i - 1, d)
      BY <3>1
    <3> HIDE DEF below
    <3>4. RightlyFound(FilterForDefaultManifests(Together(M, below, i, dir)), M, i, dir)
      BY <1>3, <2>1, <2>4, <3>2, <3>3, LevelIsRight
    <3> QED BY <2>2, <2>4, <3>4 DEF below
  <2> QED BY <2>3, <2>4
<1>17. P = 0..N
  <2>1. P \in SUBSET (0..N)
    OBVIOUS
  <2> HIDE DEF P
  <2> QED BY <1>1, <1>15, <1>16, <2>1, PrefixInduction
<1>18. RightlyFound(f[N][<<>>], M, N, <<>>)
  <2>1. Len(<<>>) = 0 /\ 0 + N <= N
    BY <1>1
  <2> QED BY <1>3, <1>10, <1>17, <2>1
<1> QED BY <1>2, <1>14, <1>18 DEF N

\* The input is a sequence of the files' numbers.
FilesTyped == kind = "find" => input \in Seq(DOMAIN FilesInOrder)

LEMMA FilesGrow == Spec => []FilesTyped
<1>1. Init => FilesTyped
  BY DEF Init, FilesTyped
<1>2. FilesTyped /\ [Next]_vars => FilesTyped'
  <2> SUFFICES ASSUME FilesTyped, [Next]_vars, kind' = "find"
               PROVE input' \in Seq(DOMAIN FilesInOrder)
    BY DEF FilesTyped
  <2>1. CASE FindNext
    <3>1. kind = "find" /\ \E n \in DOMAIN FilesInOrder : input' = Append(input, n)
      BY <2>1 DEF FindNext, Grow
    <3> QED BY <3>1 DEF FilesTyped
  <2>2. CASE UNCHANGED input
    BY <2>2, OneAlgorithm DEF FilesTyped
  <2> QED BY <2>1, <2>2, OneAlgorithm
<1> QED BY <1>1, <1>2, PTL DEF Spec

\* What the targets of these files are.
LEMMA TargetsAreRight ==
  ASSUME input \in Seq(DOMAIN FilesInOrder)
  PROVE  LET R == {f \in ManifestFiles : InDepth(f)}
         IN  Manifests(R) /\ TargetFiles \subseteq R /\ KnownOf(TargetFiles) = Chosen(R)
<1> DEFINE M == ManifestFiles
           R == {f \in M : InDepth(f)}
<1>1. M \subseteq ManifestRecords /\ \A f \in M : f.base \in AutoDetectableFiles
  <2>1. Files \subseteq ManifestRecords
    BY FilesAssumption DEF Files, ManifestRecords
  <2> QED BY <2>1 DEF ManifestFiles
<1>2. IsFiniteSet(M)
  <2> DEFINE D == DOMAIN input
             g == [i \in D |-> FilesInOrder[input[i]]]
             F == Files
  <2>1. IsFiniteSet(D)
    <3>1. D = 1..Len(input) /\ Len(input) \in Nat
      OBVIOUS
    <3> QED BY <3>1, FS_Interval
  <2>2. F = {FilesInOrder[input[i]] : i \in D}
    BY DEF Files
  <2> HIDE DEF D, F
  <2>3. g \in Surjection(D, F)
    BY <2>2 DEF Surjection
  <2>4. IsFiniteSet(F)
    BY <2>1, <2>3, FS_Surjection
  <2>5. M \in SUBSET F
    BY DEF F, ManifestFiles
  <2> QED BY <2>4, <2>5, FS_Subset
<1>3. RightlyFound(TargetFiles, M, LevelsDeep + 1, <<>>)
  <2> HIDE DEF M
  <2>1. RightlyFound(Find(M), M, LevelsDeep + 1, <<>>)
    BY <1>1, <1>2, FoundIsRight
  <2> QED BY <2>1 DEF TargetFiles, M
<1>4. Reached(M, LevelsDeep + 1, <<>>) = R
  <2>1. \A f \in M : f.dir \in Seq(STRING) /\ Len(f.dir) \in Nat /\ Below(<<>>, f.dir)
    BY <1>1 DEF ManifestRecords, Below
  <2>2. \A f \in M : Len(f.dir) - Len(<<>>) + 2 <= LevelsDeep + 1 <=> Len(f.dir) < LevelsDeep
    BY <2>1, FilesAssumption
  <2> QED BY <2>1, <2>2 DEF Reached, InDepth
<1>5. Manifests(R)
  <2>1. R \in SUBSET M /\ \A f \in R : Len(f.dir) < LevelsDeep
    BY DEF InDepth
  <2>2. IsFiniteSet(R)
    BY <1>2, <2>1, FS_Subset
  <2> QED BY <1>1, <2>1, <2>2 DEF Manifests
<1> QED BY <1>3, <1>4, <1>5 DEF RightlyFound

LEMMA ProjectsAreFound ==
  ASSUME kind = "find", input \in Seq(DOMAIN FilesInOrder)
  PROVE  EveryProjectFound
<1> DEFINE R == {f \in ManifestFiles : InDepth(f)}
           T == TargetFiles
           chosen(f) == {t \in T : SameProject(t, f)}
           above(f) == {t \in T : t.base \in {"build.gradle", "build.gradle.kts"}
                                  /\ IsStrictPrefix(t.dir, f.dir)}
           several(f) == \E g \in ManifestFiles : InDepth(g) /\ SameProject(f, g) /\ g # f
<1>1. Manifests(R) /\ T \subseteq R /\ KnownOf(T) = Chosen(R)
  BY TargetsAreRight
<1>2. \A f \in R : /\ f.dir \in Seq(STRING) /\ Len(f.dir) \in Nat
                   /\ f = [dir |-> f.dir, base |-> f.base] /\ f.base \in AutoDetectableFiles
  BY <1>1 DEF Manifests, ManifestRecords
<1>3. \A b \in AutoDetectableFiles :
        /\ ProjectType(b) = "gradle" <=> b \in {"build.gradle", "build.gradle.kts"}
        /\ ProjectType(b) = "unknown" <=> b = "mix.lock"
  <2> SUFFICES ASSUME NEW b \in AutoDetectableFiles
               PROVE  /\ ProjectType(b) = "gradle" <=> b \in {"build.gradle", "build.gradle.kts"}
                      /\ ProjectType(b) = "unknown" <=> b = "mix.lock"
    OBVIOUS
  <2>1. ProjectType(b) = "gradle" => b \in {"build.gradle", "build.gradle.kts"}
    BY DEF AutoDetectableFiles, ProjectType
  <2>2. ProjectType(b) = "unknown" => b = "mix.lock"
    BY DEF AutoDetectableFiles, ProjectType
  <2>3. /\ b \in {"build.gradle", "build.gradle.kts"} => ProjectType(b) = "gradle"
        /\ b = "mix.lock" => ProjectType(b) = "unknown"
    BY DEF ProjectType
  <2> QED BY <2>1, <2>2, <2>3
<1> HIDE DEF R, T
<1>4. ASSUME NEW f \in R, f.base # "mix.lock"
      PROVE  IF ProjectType(f.base) = "gradle" /\ above(f) # {} THEN chosen(f) = {}
             ELSE IF ProjectType(f.base) = "nuget" /\ several(f) THEN chosen(f) = {}
             ELSE Cardinality(chosen(f)) = 1
  <2>1. ProjectType(f.base) # "unknown"
    BY <1>2, <1>3, <1>4
  <2>2. chosen(f) = {t \in Chosen(R) : SameProject(t, f)}
    BY <1>1, <2>1 DEF KnownOf, SameProject
  <2>3. above(f) # {} <=> GradleAbove(R, f.dir)
    <3>1. \A g \in R : IsStrictPrefix(g.dir, f.dir) <=> Below(g.dir, f.dir) /\ Len(g.dir) < Len(f.dir)
      <4> SUFFICES ASSUME NEW g \in R
                   PROVE  IsStrictPrefix(g.dir, f.dir) <=> Below(g.dir, f.dir) /\ Len(g.dir) < Len(f.dir)
        OBVIOUS
      <4>1. g.dir \in Seq(STRING) /\ f.dir \in Seq(STRING) /\ Len(g.dir) \in Nat /\ Len(f.dir) \in Nat
        BY <1>2
      <4>2. IsPrefix(g.dir, f.dir) <=> Below(g.dir, f.dir)
        BY <4>1, PrefixIsBelow
      <4>3. Below(g.dir, f.dir) /\ Len(g.dir) = Len(f.dir) => g.dir = f.dir
        BY <4>1, BelowFacts
      <4> QED BY <4>1, <4>2, <4>3 DEF IsStrictPrefix, Below
    <3>2. \A g \in R : ProjectType(g.base) = "gradle" <=> g.base \in {"build.gradle", "build.gradle.kts"}
      BY <1>2, <1>3
    <3>3. above(f) # {} => GradleAbove(R, f.dir)
      BY <1>1, <3>1, <3>2 DEF GradleAbove
    <3>4. ASSUME GradleAbove(R, f.dir)
          PROVE  above(f) # {}
      <4>1. GradleAbove(Chosen(R), f.dir)
        BY <1>1, <1>2, <3>4, TopGradle
      <4>2. Chosen(R) \subseteq T /\ Chosen(R) \subseteq R
        BY <1>1 DEF KnownOf, Chosen
      <4> QED BY <3>1, <3>2, <4>1, <4>2 DEF GradleAbove
    <3> QED BY <3>3, <3>4
  <2>4. several(f) <=> Bases(R, f) # {f.base}
    <3>1. several(f) <=> \E g \in R : SameProject(g, f) /\ g # f
      BY DEF R, SameProject
    <3>2. \A g \in R : SameProject(g, f) => (g # f <=> g.base # f.base)
      BY <1>2 DEF SameProject
    <3>3. f.base \in Bases(R, f)
      BY DEF Bases, SameProject
    <3> QED BY <3>1, <3>2, <3>3 DEF Bases
  <2> DEFINE m == DefaultManifest(Bases(R, f), ProjectType(f.base))
  <2>5. \A t \in R : SameProject(t, f) =>
          (t \in Chosen(R) <=> t.base = m /\ ~(ProjectType(f.base) = "gradle" /\ GradleAbove(R, f.dir)))
    <3> SUFFICES ASSUME NEW t \in R, SameProject(t, f)
                 PROVE  t \in Chosen(R) <=> t.base = m /\ ~(ProjectType(f.base) = "gradle" /\ GradleAbove(R, f.dir))
      OBVIOUS
    <3>1. Bases(R, t) = Bases(R, f) /\ ProjectType(t.base) = ProjectType(f.base) /\ t.dir = f.dir
      BY DEF Bases, SameProject
    <3> QED BY <2>1, <3>1 DEF Chosen
  <2>6. /\ Bases(R, f) = {f.base} => m = f.base
        /\ ProjectType(f.base) # "nuget" => m \in Bases(R, f)
        /\ ProjectType(f.base) = "nuget" /\ Bases(R, f) # {f.base} => m \notin Bases(R, f)
    BY <1>1, <2>1, BasesAre
  <2> HIDE DEF m
  <2>7. ASSUME ProjectType(f.base) = "gradle" /\ above(f) # {}
        PROVE  chosen(f) = {}
    BY <2>2, <2>3, <2>5, <2>7 DEF Chosen
  <2>8. ASSUME ProjectType(f.base) = "nuget", several(f)
        PROVE  chosen(f) = {}
    <3>1. m \notin Bases(R, f)
      BY <2>4, <2>6, <2>8
    <3>2. \A t \in R : SameProject(t, f) => t.base # m
      BY <3>1 DEF Bases
    <3> QED BY <2>2, <2>5, <3>2 DEF Chosen
  <2>9. ASSUME ~(ProjectType(f.base) = "gradle" /\ above(f) # {}), ~(ProjectType(f.base) = "nuget" /\ several(f))
        PROVE  Cardinality(chosen(f)) = 1
    <3>1. m \in Bases(R, f)
      <4>1. f.base \in Bases(R, f)
        BY DEF Bases, SameProject
      <4> QED BY <2>4, <2>6, <2>9, <4>1
    <3>2. PICK t \in R : SameProject(t, f) /\ t.base = m
      BY <3>1 DEF Bases
    <3>3. \A u \in R : SameProject(u, f) /\ u.base = m => u = t
      BY <1>2, <3>2 DEF SameProject
    <3>4. \A u \in R : SameProject(u, f) => (u \in Chosen(R) <=> u.base = m)
      BY <2>3, <2>5, <2>9
    <3>5. chosen(f) = {t}
      BY <2>2, <3>2, <3>3, <3>4 DEF Chosen
    <3> QED BY <3>5, FS_Singleton
  <2> QED BY <2>7, <2>8, <2>9
<1>5. \A t \in T : t \in ManifestFiles /\ InDepth(t)
  BY <1>1 DEF R
<1>6. \A f \in {g \in ManifestFiles : InDepth(g) /\ g.base # "mix.lock"} : f \in R /\ f.base # "mix.lock"
  BY DEF R
<1> QED BY <1>4, <1>5, <1>6 DEF EveryProjectFound, T

------------------------------------------------------------------------------
\* No command line, of any words, runs with two options that exclude each other,
\* in whatever order, spelling or mode they are given.
THEOREM ExclusiveAlwaysRejected == Spec => []ExclusiveOptionsRejected
  BY ExclusiveAreRejected, PTL

\* Whatever the answer, each issue that is left is shown, counted once, and has
\* all of its paths in the JSON, if issues have one fix and license issues none.
THEOREM IssuesAlwaysShown == Spec => []EveryIssueShown
<1>1. AnswerTyped => EveryIssueShown
  <2>1. CASE kind # "report"
    BY <2>1 DEF EveryIssueShown
  <2>2. CASE kind = "report"
    BY <2>2, EveryIssueIsShown DEF AnswerTyped
  <2> QED BY <2>1, <2>2
<1> QED BY <1>1, AnswerGrows, PTL

\* Of any violations, in any files and documents and by any rules, each is shown once,
\* and told to the service once, unless it is left out.
THEOREM ViolationsAlwaysShownOnce == Spec => []ViolationsShownOnce
<1>1. ViolationsTyped => ViolationsShownOnce
  <2>1. CASE kind # "iacResults"
    BY <2>1 DEF ViolationsShownOnce
  <2>2. CASE kind = "iacResults"
    BY <2>2, ViolationsAreShownOnce DEF ViolationsTyped
  <2> QED BY <2>1, <2>2
<1> QED BY <1>1, ViolationsGrow, PTL

\* Of any targets, however the workspaces contain each other, each has one result.
THEOREM TargetsAlwaysOnce == Spec => []EveryTargetOnce
<1>1. TargetsOrdered => EveryTargetOnce
  <2>1. CASE kind # "allProjects"
    BY <2>1 DEF EveryTargetOnce
  <2>2. CASE kind = "allProjects"
    BY <2>2, EveryTargetIsOnce
  <2> QED BY <2>1, <2>2
<1> QED BY <1>1, TargetsGrow, PTL

\* Of any artifacts, however deep they lie in archives, a scan that ends shows each
\* vulnerable one that it can reach, or an archive around it, once, and nothing else.
THEOREM Log4ShellAlwaysFound == Spec => []Log4ShellFound
<1>1. ArtifactsNested => Log4ShellFound
  BY ScanIsRight
<1> QED BY <1>1, ArtifactsGrow, PTL

\* Of any file and any patch of one hunk that only adds lines, the lines that are
\* written are those that the patch says, or it throws.
THEOREM AdditionsAlwaysExact == Spec => []AdditionsAreExact
<1>1. PatchTyped => AdditionsAreExact
  BY AdditionsApplied
<1> QED BY <1>1, PatchGrows, PTL

\* Of any projects, whichever plugin call ends last and whichever handlers throw, the
\* summary of a fix has each vulnerable one whose results are kept in one section, and
\* says of the changes, the issues that they fix and those that were found what is so,
\* but for the projects of a handler that throws.
THEOREM FixReportAlwaysTrue == Spec => []FixReportIsTrue
<1>1. FixTyped => FixReportIsTrue
  <2>1. CASE kind # "fixReport"
    BY <2>1 DEF FixReportIsTrue
  <2>2. CASE kind = "fixReport"
    BY <2>2, SummaryIsTrue DEF FixTyped
  <2> QED BY <2>1, <2>2
<1> QED BY <1>1, ProjectsGrow, PTL

\* Of any files, in folders however deep, the manifests that are tested are one for
\* each folder and package manager, with the two exceptions, and no other files.
THEOREM ProjectsAlwaysFound == Spec => []EveryProjectFound
<1>1. FilesTyped => EveryProjectFound
  <2>1. CASE kind # "find"
    BY <2>1 DEF EveryProjectFound
  <2>2. CASE kind = "find"
    BY <2>2, ProjectsAreFound DEF FilesTyped
  <2> QED BY <2>1, <2>2
<1> QED BY <1>1, FilesGrow, PTL

==============================================================================
