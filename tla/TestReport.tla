------------------------------ MODULE TestReport -----------------------------
(***************************************************************************)
(* From the service's answer for one project to what vulnmap test says of  *)
(* it: run-test and legacy turn affected packages into one vulnerability   *)
(* for each path to them, the policy and --exclude-base-image-vulns leave  *)
(* some out, and the formatters group the rest by issue and list them      *)
(* under the section of their remediation.                                 *)
(*                                                                         *)
(* The input is a sequence of issues of the answer: the issue's id, its    *)
(* package, who introduced it (an instruction of the Dockerfile, the base  *)
(* image, a binary of the image), its fix, and whether .vulnmap ignores    *)
(* it.  Wording, colours and the order of the text are left out.           *)
(***************************************************************************)
EXTENDS Inputs, SequencesExt

CONSTANTS
  ReportIssues,  \* of [id, pkg, origin, fix, ignored]
  MaxIssues,
  SeverityOf,    \* severity of each id, 1 is low
  Licenses,      \* ids that are license issues
  PathsTo        \* paths of each package from the root

\* An issue has one fix, a license issue has none; a package has a path.
ASSUME ReportAssumption ==
  \A i \in ReportIssues :
    /\ i.fix \in {"none", "direct", "transitive", "patch"}
    /\ i.id \in Licenses => i.fix = "none"
    /\ SeverityOf[i.id] \in Nat \ {0}
    /\ PathsTo[i.pkg] # {}

ReportOptions ==
  [project : {"node", "python", "docker"}, threshold : {1, 2}, ignorePolicy : BOOLEAN,
   excludeBase : BOOLEAN]

------------------------------------------------------------------------------
(* The answer *)

\* The service looks at the severity, and at the policy that it is sent.
Severe(i, o) == SeverityOf[i.id] >= o.threshold
Kept(i, o) == o.ignorePolicy \/ ~i.ignored
FixedBy(answer, o, fixes) == {i.id : i \in {j \in Range(answer) : Kept(j, o) /\ j.fix \in fixes}}

\* The fixes that the service proposes, whatever the severity: only Python has
\* pins, whose issues are unresolved when no direct upgrade fixes them too.
Remediation(answer, o) ==
  LET python == o.project = "python"
      upgrade == FixedBy(answer, o, IF python THEN {"direct"} ELSE {"direct", "transitive"})
  IN  [upgrade |-> upgrade,
       patch |-> IF python THEN {} ELSE FixedBy(answer, o, {"patch"}),
       pinDirect |-> IF python THEN upgrade ELSE {},
       pinTransitive |-> IF python THEN FixedBy(answer, o, {"transitive"}) ELSE {},
       unresolved |-> FixedBy(answer, o, IF python THEN {"none", "patch", "transitive"} ELSE {"none"})]

\* The packages of an image and the binaries in it are apart.
IsBinary(i, o) == o.project = "docker" /\ i.origin = "binary"

\* convertIssuesToAffectedPkgs: what is said of an issue of a package is said once.
SameIssue(i, j) == <<i.pkg, i.id, i.origin = "binary">> = <<j.pkg, j.id, j.origin = "binary">>

\* convertTestDepGraphResultToLegacy: a vulnerability for each path.
ConvertToLegacy(answer, o) ==
  UNION {{[issue |-> i, from |-> p] :
            p \in IF IsBinary(i, o) THEN {<<"Upstream", i.pkg>>} ELSE PathsTo[i.pkg]} :
          i \in {j \in Range(answer) : Severe(j, o)}}

\* Mutant: ok is not looked at again when the base image is left out.
ParseRes_Stale(answer, o) ==
  LET all == ConvertToLegacy(answer, o)
      kept == {v \in all : Kept(v.issue, o)}
      vulns == IF o.project = "docker" /\ o.excludeBase
               THEN {v \in kept : v.issue.origin = "instruction"} ELSE kept
  IN  [vulnerabilities |-> vulns, ok |-> kept = {}, remediation |-> Remediation(answer, o),
       uniqueCount |-> Cardinality({v.issue.id : v \in vulns})]

\* parseRes: the policy's filter sets ok; leaving out the base image's issues
\* sets it where nothing is left.
ParseRes(answer, o) ==
  LET all == ConvertToLegacy(answer, o)
      kept == {v \in all : Kept(v.issue, o)}
      excludes == o.project = "docker" /\ o.excludeBase
      vulns == IF excludes THEN {v \in kept : v.issue.origin = "instruction"} ELSE kept
  IN  [vulnerabilities |-> vulns,
       ok |-> kept = {} \/ (excludes /\ kept # {} /\ vulns = {}),
       remediation |-> Remediation(answer, o),
       uniqueCount |-> Cardinality({v.issue.id : v \in vulns})]

------------------------------------------------------------------------------
(* The text *)

Ids(vulns) == {v.issue.id : v \in vulns}

\* groupVulnerabilities: what is said of a group is said of its first one, and
\* binaries come last.
Upstream(vulns, o) == {x \in Ids(vulns) : \A v \in vulns : v.issue.id = x => IsBinary(v.issue, o)}

\* basicVulnInfo and basicLicenseInfo of formatIssuesWithRemediation
BasicVulnInfo(r) == Ids(r.vulnerabilities) \ Licenses
BasicLicenseInfo(r) == Ids(r.vulnerabilities) \cap Licenses

Pins(r) == r.remediation.pinDirect \cup r.remediation.pinTransitive

\* thisUpgradeFixes: basicVulnInfo only has issues with the specified severities.
ThisUpgradeFixes(ids, r) == ids \cap BasicVulnInfo(r)

\* constructPinText, or constructUpgradesText if there are no pins.
UpgradeText(r) == ThisUpgradeFixes(IF Pins(r) # {} THEN Pins(r) ELSE r.remediation.upgrade, r)

\* constructPinText reads the version of each issue that a pin fixes, also of
\* those that thisUpgradeFixes has left out.
PinTextThrows(r) == ~(r.remediation.pinTransitive \subseteq BasicVulnInfo(r))

\* constructPatchesText
PatchText(r) == r.remediation.patch \cap BasicVulnInfo(r)

\* constructUnfixableText, without what is pinned; licenses have their own text.
UnfixableText(r) == (r.remediation.unresolved \ Pins(r)) \cap BasicVulnInfo(r)

\* formatIssuesWithRemediation
FormatIssuesWithRemediation(r) ==
  UpgradeText(r) \cup PatchText(r) \cup UnfixableText(r) \cup BasicLicenseInfo(r)

\* formatDockerBinariesIssues: the groups that have the name of a binary.
FormatBinaries(r, o) ==
  {x \in Upstream(r.vulnerabilities, o) :
     \E v \in r.vulnerabilities : v.issue.id = x /\ IsBinary(v.issue, o)}

\* getDisplayedOutput: images have no remediation.
DisplayedOutput(r, o) ==
  IF o.project = "docker"
  THEN (Ids(r.vulnerabilities) \ Upstream(r.vulnerabilities, o)) \cup FormatBinaries(r, o)
  ELSE FormatIssuesWithRemediation(r)

\* displayResult
NothingFound(r) == r.ok /\ r.vulnerabilities = {}
Displayed(r, o) == IF NothingFound(r) THEN {} ELSE DisplayedOutput(r, o)

Throws(r, o) == ~NothingFound(r) /\ o.project # "docker" /\ PinTextThrows(r)

\* formatJsonVulnerabilityStructure: --group-issues lists the paths of an id.
GroupIssues(r) ==
  [x \in Ids(r.vulnerabilities) |-> {v.from : v \in {w \in r.vulnerabilities : w.issue.id = x}}]

\* isUpgradable and isPatchable for --fail-on
IsFixable(r) == Pins(r) \cup r.remediation.upgrade \cup r.remediation.patch # {}

ReportNext ==
  /\ Grow("report", ReportIssues, MaxIssues)
  /\ \A n \in DOMAIN input : ~SameIssue(input[n], Last(input'))

------------------------------------------------------------------------------
\* ok, which the exit code of --json goes by, and the vulnerabilities, which that
\* of the text goes by, agree; every issue that is counted is in the text, and
\* in the JSON with all of its paths; what --fail-on counts as fixable is shown
\* with a fix. But for a threshold: a pin of issues below it ends the command
\* with a TypeError (remediation-based-format-issues.ts:324), and a fix of them
\* makes it fail (vuln-helpers.ts:21).
EveryIssueShown ==
  kind = "report" => \A o \in ReportOptions :
    LET r == ParseRes(input, o)  shown == Displayed(r, o)  json == GroupIssues(r)
    IN  /\ r.ok <=> r.vulnerabilities = {}
        /\ Throws(r, o) => o.project = "python" /\ o.threshold > 1
        /\ ~Throws(r, o) => /\ shown = Ids(r.vulnerabilities)
                            /\ Cardinality(shown) = r.uniqueCount
        /\ UNION {json[x] : x \in DOMAIN json} = {v.from : v \in r.vulnerabilities}
        /\ IsFixable(r) /\ o.threshold = 1 /\ o.project # "docker" =>
             UpgradeText(r) \cup PatchText(r) # {}
==============================================================================
