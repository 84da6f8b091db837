------------------------------- MODULE Options -------------------------------
(***************************************************************************)
(* The command line: args() makes the command and its options from the     *)
(* words, with modes and aliases, and main() refuses combinations of       *)
(* options before the command runs.  A word is <<name, value>>: a command  *)
(* or path has the name "_", an option without a value has TRUE as its     *)
(* value; "--" has the name "--".  Values are told apart by what the code  *)
(* asks of them; names by their spelling, dashed or in camel case.         *)
(***************************************************************************)
EXTENDS Inputs, SequencesExt, FiniteSetsExt

CONSTANTS MaxWords, OptionWords

\* Values: "true" for none, "" for an empty one, "text", "sln", "path", "zero".
Value(given, name) == IF name \in DOMAIN given THEN given[name] ELSE "undefined"
Truthy(given, name) == Value(given, name) \notin {"undefined", ""}

Modes == {"unmanaged", "container", "iac", "code"}
Commands == {"test", "monitor", "ignore", "help"}

\* What a mode allows, and the option that it sets.
Allowed(mode) ==
  CASE mode \in {"unmanaged", "container"} -> {"test", "monitor"}
    [] mode = "iac" -> {"test", "describe", "update-exclude-policy"}
    [] mode = "code" -> {"test"}
ModeOption(mode) == IF mode = "container" THEN "docker" ELSE mode

CamelCase(name) ==
  CASE name = "all-projects" -> "allProjects"
    [] name = "yarn-workspaces" -> "yarnWorkspaces"
    [] name = "package-manager" -> "packageManager"
    [] name = "all-sub-projects" -> "allSubProjects"
    [] name = "scan-all-unmanaged" -> "scanAllUnmanaged"
    [] name = "detection-depth" -> "detectionDepth"
    [] name = "maven-aggregate-project" -> "mavenAggregateProject"
    [] OTHER -> name

\* Mutant: an option is missing in the list.
ArgumentsToTransform_Less ==
  {"all-projects", "package-manager", "all-sub-projects", "scan-all-unmanaged",
   "detection-depth", "maven-aggregate-project"}

\* The options that are renamed, when they are truthy. Of the list, those that
\* main() looks at.
ArgumentsToTransform ==
  {"all-projects", "yarn-workspaces", "package-manager", "all-sub-projects",
   "scan-all-unmanaged", "detection-depth", "maven-aggregate-project"}

------------------------------------------------------------------------------
(* args() *)

BeforeDoubleDash(words) ==
  LET n == SelectInSeq(words, LAMBDA w : w[1] = "--")
  IN  IF n = 0 THEN words ELSE SubSeq(words, 1, n - 1)

Positional(words) ==
  LET p == SelectSeq(BeforeDoubleDash(words), LAMBDA w : w[1] = "_")
  IN  [i \in DOMAIN p |-> p[i][2]]

\* A later word overrides an earlier one; abbreviations are given by their names.
Given(words) ==
  LET o == SelectSeq(BeforeDoubleDash(words), LAMBDA w : w[1] # "_")
      last(name) == Max({i \in DOMAIN o : o[i][1] = name})
  IN  [name \in {o[i][1] : i \in DOMAIN o} |-> o[last(name)][2]]

\* displayModeHelp and parseMode: a mode with a command it does not allow shows
\* the help of the mode.
Mode(words) ==
  LET p == Positional(words)
  IN  IF p # <<>> /\ p[1] \in Modes THEN p[1] ELSE "none"
ModeApplies(words) ==
  /\ Mode(words) # "none" /\ Len(Positional(words)) > 1 /\ ~Truthy(Given(words), "help")
  /\ Positional(words)[2] \in Allowed(Mode(words))

Command(words) ==
  LET p == Positional(words)  given == Given(words)
      c == CASE p = <<>> -> "none" [] ModeApplies(words) -> p[2] [] OTHER -> p[1]
  IN  CASE Truthy(given, "help") \/ (Mode(words) # "none" /\ ~ModeApplies(words)) -> "help"
        [] ~Truthy(given, "help") /\ Truthy(given, "about") -> "about"
        [] ~Truthy(given, "help") /\ ~Truthy(given, "about") /\ Truthy(given, "version") -> "version"
        [] c = "none" -> "help"
        [] OTHER -> c

\* Each renamed option replaces one given in camel case.
Rename(given) ==
  LET moved == {n \in DOMAIN given \cap ArgumentsToTransform : Truthy(given, n)}
  IN  [n \in (DOMAIN given \ moved) \cup {CamelCase(m) : m \in moved} |->
         LET from == {m \in moved : CamelCase(m) = n}
         IN  IF from = {} THEN given[n] ELSE given[CHOOSE m \in from : TRUE]]

\* The aliases container and gradleSubProject (the latter is left out).
Container(given) ==
  IF Truthy(given, "container")
  THEN [n \in (DOMAIN given \ {"container"}) \cup {"docker"} |->
          IF n = "docker" THEN given["container"] ELSE given[n]]
  ELSE given

ParsedOptions(words) ==
  LET m == IF ModeApplies(words) THEN [n \in {ModeOption(Mode(words))} |-> "true"] ELSE <<>>
      g == Given(words)
  IN  Container(Rename([n \in DOMAIN g \cup DOMAIN m |-> IF n \in DOMAIN m THEN m[n] ELSE g[n]]))

------------------------------------------------------------------------------
(* main() *)

UnsupportedCombinations(o) ==
  \/ Truthy(o, "scanAllUnmanaged") /\ Truthy(o, "file")
  \/ Truthy(o, "allProjects") /\ \E n \in {"project-name", "file", "yarnWorkspaces", "packageManager",
                                            "docker", "allSubProjects"} : Truthy(o, n)
  \/ Truthy(o, "yarnWorkspaces") /\ \E n \in {"project-name", "file", "packageManager",
                                               "docker", "allSubProjects"} : Truthy(o, n)

BadExclude(o) ==
  /\ Truthy(o, "exclude")
  /\ \/ ~Truthy(o, "allProjects") /\ ~Truthy(o, "yarnWorkspaces")
     \/ o["exclude"] \in {"true", "path"}

\* The checks that main() makes itself.
MainRejects(o) ==
  \/ Truthy(o, "group-issues") /\ (Truthy(o, "iac") \/ ~(Truthy(o, "json") \/ Truthy(o, "json-file-output")))
  \/ Truthy(o, "mavenAggregateProject") /\ Truthy(o, "project-name")
  \/ Value(o, "file") = "true" \/ (Value(o, "file") = "sln" /\ Truthy(o, "project-name"))
  \/ Value(o, "detectionDepth") \in {"", "text", "sln", "path", "zero"}

UnsupportedSarif(command, o) ==
  \/ command # "test" /\ \E n \in {"json-file-output", "sarif", "sarif-file-output"} : Truthy(o, n)
  \/ Truthy(o, "sarif") /\ Truthy(o, "json")

BadOutputFile(o) ==
  \E n \in {"json-file-output", "sarif-file-output"} : Value(o, n) \in {"true", ""}

Rejects(words) ==
  LET o == ParsedOptions(words)
  IN  UnsupportedCombinations(o) \/ BadExclude(o) \/ MainRejects(o)
      \/ UnsupportedSarif(Command(words), o) \/ BadOutputFile(o)

------------------------------------------------------------------------------
FirstWords == {<<"_", w>> : w \in Modes \cup Commands}

OptionsNext ==
  \/ Len(input) = 0 /\ Grow("options", FirstWords, 1)
  \/ Len(input) > 0 /\ Grow("options", OptionWords, MaxWords)

------------------------------------------------------------------------------
\* What the user asks for, by any spelling, mode or alias, wherever it stands.
Asked(words, name) ==
  \/ \E n \in {name, CamelCase(name)} : Truthy(Given(words), n)
  \/ name = "docker" /\ (Truthy(Given(words), "container") \/
                           (Mode(words) = "container" /\ ModeApplies(words)))

ExclusivePairs ==
  ({"all-projects"} \X {"project-name", "file", "yarn-workspaces", "package-manager", "docker",
                        "all-sub-projects"})
  \cup ({"yarn-workspaces"} \X {"project-name", "file", "package-manager", "docker",
                                "all-sub-projects"})
  \cup {<<"scan-all-unmanaged", "file">>, <<"maven-aggregate-project", "project-name">>}

\* No command runs with two options that exclude each other, in whatever order,
\* spelling or mode they were given: the options that main() looks at are the
\* names that args() makes (main.ts:334, args.ts:202).
ExclusiveOptionsRejected ==
  kind = "options" =>
    \A p \in ExclusivePairs : Asked(input, p[1]) /\ Asked(input, p[2]) => Rejects(input)
==============================================================================
