------------------------------- MODULE FindFiles -----------------------------
(***************************************************************************)
(* The manifests that --all-projects tests (find-files.ts, detect.ts): the *)
(* files with known names, some levels deep, of which every folder keeps   *)
(* one for each package manager.  find() filters what it has found at      *)
(* every level, on its way up, when it is more than one file.              *)
(*                                                                         *)
(* The input is a set of files, given in the order of the directories: a   *)
(* sequence of their numbers in FilesInOrder.                              *)
(***************************************************************************)
EXTENDS Inputs, SequencesExt

CONSTANTS
  FilesInOrder,  \* sequence of [dir |-> sequence of names, base |-> name]
  MaxFiles,
  Ignored,       \* names of folders and files that --exclude gives
  NodeModules,   \* names that end with node_modules
  LevelsDeep     \* options.detectionDepth

ASSUME FilesAssumption ==
  /\ LevelsDeep \in Nat
  /\ "node_modules" \in NodeModules
  /\ \A n \in DOMAIN FilesInOrder : FilesInOrder[n] \in [dir : Seq(STRING), base : STRING]

AutoDetectableFiles ==
  {"package-lock.json", "yarn.lock", "package.json", "Gemfile", "Gemfile.lock", "pom.xml",
   "packages.config", "paket.dependencies", "project.json", "project.assets.json", "Podfile",
   "Podfile.lock", "composer.lock", "Gopkg.lock", "go.mod", "vendor.json", "Pipfile",
   "requirements.txt", "build.sbt", "build.gradle", "build.gradle.kts", "poetry.lock",
   "mix.exs", "mix.lock", "Package.swift"}

\* detectPackageManagerFromFile and detectProjectTypeFromFile
ProjectType(base) ==
  CASE base \in {"package-lock.json", "yarn.lock", "package.json"} -> "node"
    [] base \in {"Gemfile", "Gemfile.lock"} -> "rubygems"
    [] base \in {"Podfile", "Podfile.lock"} -> "cocoapods"
    [] base \in {"Pipfile", "requirements.txt"} -> "pip"
    [] base \in {"build.gradle", "build.gradle.kts"} -> "gradle"
    [] base \in {"packages.config", "project.json", "project.assets.json"} -> "nuget"
    [] base = "poetry.lock" -> "poetry"
    [] base = "mix.exs" -> "hex"
    [] base = "mix.lock" -> "unknown"
    [] OTHER -> base

\* chooseBestManifest, of several manifests in a folder, by their names.
BestManifest(bases, type) ==
  CASE type = "node" -> IF "package-lock.json" \in bases THEN "package-lock.json"
                        ELSE IF "yarn.lock" \in bases THEN "yarn.lock" ELSE "package.json"
    [] type = "rubygems" -> "Gemfile.lock"
    [] type = "cocoapods" -> "Podfile"
    [] type = "pip" -> "Pipfile"
    [] type = "gradle" -> "build.gradle"
    [] OTHER -> "none"

\* Mutant: a Gradle file anywhere stands for all the others.
ShouldSkip_Any(type, dir, filtered) ==
  type = "gradle" /\ \E f \in filtered : ProjectType(f.base) = "gradle"

\* shouldSkipAddingFile: a Gradle file in this folder or above it is scanned
\* with all its sub-projects.
ShouldSkip(type, dir, filtered) ==
  type = "gradle" /\ \E f \in filtered : ProjectType(f.base) = "gradle" /\ IsPrefix(f.dir, dir)

\* The manifest of a folder and a package manager: if there is one, that.
DefaultManifest(bases, type) ==
  IF Cardinality(bases) = 1 THEN CHOOSE b \in bases : TRUE ELSE BestManifest(bases, type)

SameProject(f, g) == f.dir = g.dir /\ ProjectType(f.base) = ProjectType(g.base)

\* filterForDefaultManifests: the folders in their order, parents first, here
\* those that are n - 1 levels deep after those that are less.
FilterForDefaultManifests(files) ==
  IF Cardinality(files) <= 1 THEN files
  ELSE
    LET known == {f \in files : ProjectType(f.base) # "unknown"}
        beside(f) == {g.base : g \in {h \in known : SameProject(h, f)}}
        kept[n \in 0..LevelsDeep] ==
          IF n = 0 THEN {}
          ELSE LET filtered == kept[n - 1]
               IN  filtered \cup
                     {f \in known : /\ Len(f.dir) = n - 1
                                    /\ f.base = DefaultManifest(beside(f), ProjectType(f.base))
                                    /\ ~ShouldSkip(ProjectType(f.base), f.dir, filtered)}
    IN  kept[LevelsDeep]

\* A folder that is excluded, or whose path ends with node_modules, as that of
\* old_node_modules does, or with /.build.
IgnoredDir(dir) == \E i \in DOMAIN dir : dir[i] \in Ignored \cup NodeModules \cup {".build"}

\* find is called for each file of a folder too, one level below.
FilesReached(levels) == levels - 1 >= 0

\* The folders in which there are files, and those around them.
FoldersOf(files) == {<<>>} \cup UNION {{SubSeq(f.dir, 1, n) : n \in 0..Len(f.dir)} : f \in files}
SubFolders(dir, dirs) == {d \in dirs : Len(d) = Len(dir) + 1 /\ IsPrefix(dir, d)}

\* findInDirectory: the files of a folder that have one of the names.
OwnFiles(dir, levels, files) ==
  {f \in files : f.dir = dir /\ f.base \notin Ignored /\ FilesReached(levels)}

\* find and findInDirectory, for each folder, with k - 1 levels left: what is left
\* of its sub-folders' files is filtered together with its own.
Find(files) ==
  LET dirs == FoldersOf(files)
      found[k \in 0..(LevelsDeep + 1)] ==
        IF k = 0 THEN [dir \in dirs |-> {}]
        ELSE LET below == found[k - 1]
             IN  [dir \in dirs |->
                    IF IgnoredDir(dir) THEN {}
                    ELSE FilterForDefaultManifests(
                           OwnFiles(dir, k - 1, files) \cup UNION {below[d] : d \in SubFolders(dir, dirs)})]
  IN  found[LevelsDeep + 1][<<>>]

Files == {FilesInOrder[input[i]] : i \in DOMAIN input}
ManifestFiles == {f \in Files : f.base \in AutoDetectableFiles}
TargetFiles == Find(ManifestFiles)

FindNext ==
  /\ kind = "find"
  /\ Grow("find", {n \in DOMAIN FilesInOrder : \A i \in DOMAIN input : input[i] < n}, MaxFiles)

------------------------------------------------------------------------------
InDepth(f) == Len(f.dir) < LevelsDeep /\ ~IgnoredDir(f.dir) /\ f.base \notin Ignored

\* No project is forgotten and none is scanned twice: of the manifests that a
\* folder has for a package manager, one is a target, whichever others lie
\* beside it, above it or below it, and nothing else is: no file that is too
\* deep, unknown, or in a folder that is ignored, among which is each with a name
\* that ends with node_modules (find-files.ts:70). Except that a Gradle project is
\* scanned through one above it, and that a folder with several NuGet files loses
\* them all (find-files.ts:161, find-files.ts:332).
EveryProjectFound ==
  kind = "find" =>
    /\ \A f \in {g \in ManifestFiles : InDepth(g) /\ g.base # "mix.lock"} :
      LET chosen == {t \in TargetFiles : SameProject(t, f)}
          above == {t \in TargetFiles : t.base \in {"build.gradle", "build.gradle.kts"}
                                        /\ IsStrictPrefix(t.dir, f.dir)}
          several == \E g \in ManifestFiles : InDepth(g) /\ SameProject(f, g) /\ g # f
      IN  IF ProjectType(f.base) = "gradle" /\ above # {} THEN chosen = {}
          ELSE IF ProjectType(f.base) = "nuget" /\ several THEN chosen = {}
          ELSE Cardinality(chosen) = 1
    /\ \A t \in TargetFiles : t \in ManifestFiles /\ InDepth(t)
==============================================================================
