----------------------------- MODULE MCAlgorithms ----------------------------
(***************************************************************************)
(* The algorithms that are modelled as operators, for TLC: every input of  *)
(* one of them, up to a length.                                            *)
(***************************************************************************)
EXTENDS Options, PatchString, FindFiles, AllProjects, TestReport, IacResults, Log4Shell,
  FixReport

\* Words that a user may give: flags, and options with a value or without one.
Flags ==
  {"all-projects", "yarnWorkspaces", "yarn-workspaces", "docker", "container",
   "all-sub-projects", "scan-all-unmanaged", "maven-aggregate-project", "json", "sarif",
   "help", "version", "group-issues"}
Valued == {"file", "project-name", "exclude", "package-manager", "detection-depth", "json-file-output"}
Words ==
  (Flags \X {"true"}) \cup (Valued \X {"text", "true"})
  \cup {<<"file", "sln">>, <<"all-projects", "">>, <<"exclude", "path">>, <<"--", "">>,
        <<"_", "test">>, <<"detection-depth", "zero">>}

\* Folders below each other, beside each other, ignored and too deep.
Folders ==
  <<<<>>, <<"a">>, <<"a", "b">>, <<"a", "b", "c">>, <<"a", "node_modules">>, <<"d">>,
    <<"old_node_modules">>, <<"x">>>>
Names ==
  <<"Gemfile", "Gemfile.lock", "Pipfile", "build.gradle", "build.gradle.kts", "mix.exs", "mix.lock",
    "notes.txt", "package-lock.json", "package.json", "packages.config", "pom.xml", "project.json",
    "yarn.lock">>
FoldersFiles ==
  [n \in 1..(Len(Folders) * Len(Names)) |->
     [dir |-> Folders[((n - 1) \div Len(Names)) + 1], base |-> Names[((n - 1) % Len(Names)) + 1]]]

\* Targets in a folder, in one that the first declares, and in one below that.
Target(dir, base, manifest, workspaces, resolves, scans) ==
  [dir |-> dir, base |-> base, manifest |-> manifest, workspaces |-> workspaces,
   resolves |-> resolves, scans |-> scans]
TargetsIn(dir, declarations) ==
  {Target(dir, b, TRUE, w, r, s) : b \in {"package.json", "yarn.lock", "package-lock.json"},
                                   w \in declarations, r \in BOOLEAN, s \in BOOLEAN}
  \cup {Target(dir, b, FALSE, {}, FALSE, s) : b \in {"yarn.lock", "package-lock.json"}, s \in BOOLEAN}
  \cup {Target(dir, "pom.xml", TRUE, {}, TRUE, s) : s \in BOOLEAN}
NestedTargets ==
  TargetsIn(<<>>, {{}, {"a"}}) \cup TargetsIn(<<"a">>, {{}, {"b"}})
  \cup TargetsIn(<<"a", "b">>, {{}})
  \cup {Target(<<"a">>, "mix.lock", TRUE, {}, TRUE, TRUE)}

\* Two vulnerabilities and a license issue, in packages with one path and two.
Severities == [x \in {"low", "high", "license"} |-> IF x = "high" THEN 2 ELSE 1]
Paths == [p \in {"a", "b"} |-> IF p = "a" THEN {<<"a">>} ELSE {<<"a", "b">>, <<"c", "b">>}]
FoundIssues ==
  [id : {"low", "high"}, pkg : {"a", "b"}, origin : {"instruction"},
   fix : {"none", "direct", "transitive", "patch"}, ignored : BOOLEAN]
  \cup [id : {"low", "high"}, pkg : {"a", "b"}, origin : {"base", "binary"},
        fix : {"none"}, ignored : BOOLEAN]
  \cup [id : {"license"}, pkg : {"a"}, origin : {"instruction"}, fix : {"none"}, ignored : BOOLEAN]

\* Violations in two files, one of which has two documents.
FoundViolations ==
  {v \in [file : {"f", "g"}, doc : {0, 1}, custom : BOOLEAN, valid : BOOLEAN, severity : 0..2,
          orgSeverity : {-1, 0}, ignored : BOOLEAN] :
     /\ v.file = "g" => v.doc = 0
     /\ ~v.custom => v.valid
     /\ v.orgSeverity >= 0 => v.severity = 1
     /\ v.ignored => v.severity = 2}

\* Archives in archives, with the classes in two packages of each.
Artifact(in, root, name, versions, content) ==
  [in |-> in, root |-> root, name |-> name, versions |-> versions, content |-> content]
Old == <<"before 2.16", "before 2.16">>
ArtifactsIn(in, archive) ==
  <<Artifact(in, "", archive, <<>>, "ok"), Artifact(in, "", archive, Old, "ok"),
    Artifact(in, "", archive, <<"2.16">>, "ok"), Artifact(in, "", archive, <<>>, "corrupt"),
    Artifact(in, "", archive, <<>>, "unreadable"),
    Artifact(in, "x", "JndiManager.class", <<>>, "ok"), Artifact(in, "x", "JndiManager.class", Old, "ok"),
    Artifact(in, "y", "JndiManager.class", <<"2.16">>, "ok"),
    Artifact(in, "x", "JndiManager.java", Old, "ok"), Artifact(in, "x", "JndiLookup.class", <<>>, "ok"),
    Artifact(in, "y", "JndiLookup.class", <<>>, "ok"),
    Artifact(in, "x", "JndiLookup.class", <<>>, "unreadable"),
    Artifact(in, "x", "JndiLookup.jar", <<>>, "ok"), Artifact(in, "x", "Other.class", <<>>, "unreadable")>>
NestedArtifacts ==
  <<Artifact(<<>>, "", "a.jar", Old, "unlisted"),
    Artifact(<<>>, "x", "JndiLookup.class", <<>>, "unlisted")>> \o ArtifactsIn(<<>>, "a.jar")
  \o ArtifactsIn(<<"a.jar">>, "b.war") \o ArtifactsIn(<<"a.jar", "b.war">>, "c.ear")

\* Remediations with one package, two that fix one issue, and two versions of one.
Pin(version, pkg, vulns, listed, standard) ==
  [version |-> version, pkg |-> pkg, vulns |-> vulns, listed |-> listed, standard |-> standard]
Remediations ==
  {{}} \cup {{Pin(1, "a", {"high"}, l, s)} : l \in {"transitive", "prod", "dev", "none"}, s \in BOOLEAN}
  \cup {{Pin(1, "a", {"high", "low"}, l, s), Pin(1, "b", {"high"}, "prod", TRUE)} :
          l \in {"transitive", "dev"}, s \in BOOLEAN}
  \cup {{Pin(1, "a", {"high"}, "prod", TRUE), Pin(2, "a", {"low"}, "prod", TRUE)}}
TestedProjects ==
  [type : {"pipenv", "poetry"}, issues : {{"high", "low"}}, pins : Remediations,
   patches : {{}}, refuses : {{}, {"a"}}]
  \cup [type : {"pipenv", "poetry"}, issues : {{"high"}}, pins : Remediations,
         patches : {{}}, refuses : {{}}]
  \cup [type : {"npm"}, issues : {{"high", "low"}},
         pins : {{}, {Pin(1, "a", {"high"}, "none", TRUE)}}, patches : {{}, {"low"}}, refuses : {{}}]
  \cup [type : {"poetry", "npm"}, issues : {{}}, pins : {{}}, patches : {{}}, refuses : {{}}]
Grades == [x \in {"high", "low"} |-> x]

vars == <<kind, input>>

Init == kind \in {"options", "patch", "find", "allProjects", "report", "iacResults", "log4shell", "fixReport"}
        /\ input = <<>>

Next == OptionsNext \/ PatchNext \/ FindNext \/ AllProjectsNext \/ ReportNext
  \/ IacResultsNext \/ Log4ShellNext \/ FixReportNext

Spec == Init /\ [][Next]_vars
==============================================================================
