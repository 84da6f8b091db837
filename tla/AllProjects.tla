------------------------------ MODULE AllProjects ----------------------------
(***************************************************************************)
(* What becomes of the targets of --all-projects (get-multi-plugin-result, *)
(* yarn- and npm-workspaces-parser): the folders of a Yarn or npm          *)
(* workspace are processed together with the lock file of its root, what   *)
(* they leave is scanned one by one.                                       *)
(*                                                                         *)
(* The input is a sequence of targets, parents first.  A target is a file  *)
(* in a folder (at most one of node) and what the code will find out about *)
(* it: whether the folder has a package.json, the workspaces that it       *)
(* declares, whether its packages can be resolved by the root's lock file, *)
(* and whether its plugin succeeds.                                        *)
(***************************************************************************)
EXTENDS Inputs, SequencesExt, FiniteSetsExt, Functions

CONSTANTS
  Targets,     \* of [dir, base, manifest, workspaces : set of names, resolves, scans]
  MaxTargets

ASSUME TargetAssumption == \A t \in Targets : t.dir \in Seq(STRING)

LockFile(kindOf) == IF kindOf = "yarn" THEN "yarn.lock" ELSE "package-lock.json"
NodeFiles(kindOf) == {"package.json", LockFile(kindOf)}

\* packageJsonBelongsToWorkspace: a Yarn pattern means all that is below it, an
\* npm pattern the folder itself. A pattern here is the name of a folder.
Belongs(kindOf, dir, root) ==
  /\ IsStrictPrefix(root.dir, dir)
  /\ dir[Len(root.dir) + 1] \in root.workspaces
  /\ kindOf = "npm" => Len(dir) = Len(root.dir) + 1

\* processYarnWorkspaces and processNpmWorkspaces: the folders, and a folder
\* without a package.json ends it all (and what was scanned is forgotten). The
\* last root that a folder belongs to is the one whose lock file is read. (What
\* is left of the targets keeps its places.)
ScannedAsWorkspace(kindOf, targets) ==
  LET node == RestrictValues(targets, LAMBDA t : t.base \in NodeFiles(kindOf))
      roots(i) == {j \in DOMAIN node : j <= i /\ node[j].workspaces # {}}
      rootsOf(i) == {j \in roots(i) : Belongs(kindOf, node[i].dir, node[j])}
      lockOf(i) == IF rootsOf(i) # {} THEN node[Max(rootsOf(i))] ELSE node[i]
      hasLock(t) == t.base = LockFile(kindOf)
  IN  IF \E i \in DOMAIN node : ~node[i].manifest THEN {}
      ELSE {node[i].dir : i \in {j \in DOMAIN node :
              /\ rootsOf(j) # {} \/ j \in roots(j)
              /\ hasLock(lockOf(j)) /\ node[j].resolves}}

\* Mutant: the lock file that stands for a package.json is not left out.
Processed_OnlyManifest(kindOf, t, scanned) == t.base = "package.json" /\ t.dir \in scanned

\* filterOutProcessedYarnWorkspaces, filterOutProcessedNpmWorkspaces
Processed(kindOf, t, scanned) == t.base \in NodeFiles(kindOf) /\ t.dir \in scanned

\* getMultiPluginResult
MultiPluginResult(targets) ==
  LET yarn == ScannedAsWorkspace("yarn", targets)
      left == RestrictValues(targets, LAMBDA t : ~Processed("yarn", t, yarn))
      npm == ScannedAsWorkspace("npm", left)
      rest == RestrictValues(left, LAMBDA t : ~Processed("npm", t, npm))
      single == RestrictValues(rest, LAMBDA t : t.scans)
  IN  [thrown |-> \/ \E i \in DOMAIN rest : rest[i].base = "mix.lock"
                  \/ yarn = {} /\ npm = {} /\ DOMAIN single = {},
       yarn |-> yarn, npm |-> npm,
       single |-> single,
       failed |-> RestrictValues(rest, LAMBDA t : ~t.scans)]

AllProjectsNext ==
  /\ kind = "allProjects"
  /\ Grow("allProjects",
          {t \in Targets :
             \/ input = <<>>
             \/ Len(Last(input).dir) < Len(t.dir)
             \/ Last(input).dir = t.dir /\ t.base = "pom.xml" /\ Last(input).base # "pom.xml"},
          MaxTargets)

------------------------------------------------------------------------------
InWorkspace(kindOf, dirs, t) == IF t.base \in NodeFiles(kindOf) /\ t.dir \in dirs THEN 1 ELSE 0
Count(s, t) == Cardinality({i \in DOMAIN s : s[i] = t})

\* Every target has one result, a project or a failure, whichever workspaces
\* contain each other and whichever of the three scans handled it, unless the
\* command fails as a whole (get-multi-plugin-result.ts:39).
EveryTargetOnce ==
  kind = "allProjects" =>
    LET r == MultiPluginResult(input) IN
    \/ r.thrown
    \/ \A i \in DOMAIN input :
         InWorkspace("yarn", r.yarn, input[i]) + InWorkspace("npm", r.npm, input[i])
           + Count(r.single, input[i]) + Count(r.failed, input[i]) = 1
==============================================================================
