------------------------------- MODULE Protect -------------------------------
(***************************************************************************)
(* @vulnmap/protect, which a project runs after each install: it finds the *)
(* folders of the packages that .vulnmap has patches for, fetches all the  *)
(* patches, and then applies them, one file at a time.  A file that was    *)
(* patched is marked by a flag file beside it; the flags that are written  *)
(* beside package.json for older versions are read by nothing here, only   *)
(* writing one may fail.  Whatever it throws is printed by its bin and it  *)
(* exits with 0.                                                           *)
(***************************************************************************)
EXTENDS Program

CONSTANTS
  Modules,     \* folders of installed packages with patches
  Vulns,
  Files,
  FilesOf,     \* FilesOf[v]: the files that the patches of v change
  MaxRuns      \* bound: runs of the program, killed ones included

ASSUME FilesOfAssumption == FilesOf \in [Vulns -> SUBSET Files]

VARIABLES
  runs,
  policy,      \* the vulnerabilities to patch, of .vulnmap
  patched,     \* patched[m][f]: how many patches the file has had, on disk
  flag,        \* flag[m][f]: its flag file, or an .orig file of an older version
  todo,        \* <<module, vuln>> pairs still to be patched
  diffs,       \* files that the patches of the current pair still change
  current,     \* the pair being patched, and the file just written
  reported,    \* patchedModules
  sent,        \* the pairs that the analytics of the last run told
  unflagged    \* history, unflagged[m][f]: runs that ended with the file
               \* written and its flag not

protectVars == <<runs, policy, patched, flag, todo, diffs, current, reported, sent, unflagged>>
disk == <<patched, flag>>
work == <<todo, diffs, current, reported>>

ProtectInit ==
  /\ runs = 0 /\ policy = {} /\ sent = {}
  /\ unflagged = [m \in Modules |-> [f \in Files |-> 0]]
  /\ patched = [m \in Modules |-> [f \in Files |-> 0]]
  /\ flag = [m \in Modules |-> [f \in Files |-> FALSE]]
  /\ todo = {} /\ diffs = {} /\ current = <<>> /\ reported = {}

\* The package is installed: with or without files of an older patch.
Installed ==
  /\ runs = 0 /\ pc = "protect" /\ runs' = 1
  /\ \E old \in SUBSET (Modules \X Files) :
       /\ flag' = [m \in Modules |-> [f \in Files |-> <<m, f>> \in old]]
       /\ patched' = [m \in Modules |-> [f \in Files |-> IF <<m, f>> \in old THEN 1 ELSE 0]]
  /\ UNCHANGED <<programVars, policy, work, sent, unflagged>>

\* This run ends; another may follow.
EndsProtect(from) ==
  \/ Exit(from, 0) /\ UNCHANGED runs
  \/ runs < MaxRuns /\ Goto(from, "protect") /\ runs' = runs + 1

\* --help, --version, no .vulnmap file; or a vulnerability in it that has no
\* package name, or more than one.
NothingAsked ==
  /\ runs > 0 /\ EndsProtect("protect")
  /\ todo' = {} /\ diffs' = {} /\ current' = <<>> /\ reported' = {} /\ sent' = {}
  /\ UNCHANGED <<policy, disk, unflagged>>

ReadPolicy ==
  /\ runs > 0 /\ Goto("protect", "protect.fetch")
  /\ policy' \in SUBSET Vulns \ {{}}
  /\ todo' = {} /\ diffs' = {} /\ current' = <<>> /\ reported' = {} /\ sent' = {}
  /\ UNCHANGED <<runs, disk, unflagged>>

\* A request fails, or an answer is about another package. Nothing was changed.
FetchFails == EndsProtect("protect.fetch") /\ UNCHANGED <<policy, disk, work, sent, unflagged>>

\* findPhysicalModules: folders of node_modules, at any depth, by their names.
FoundModules == SUBSET Modules

\* getAllPatches: those of every vulnerability for each folder's version.
AllPatches(found) == found \X policy

\* With no patches there is nothing to patch.
PatchesFetched ==
  \E found \in FoundModules :
    /\ todo' = AllPatches(found)
    /\ IF found = {} THEN EndsProtect("protect.fetch")
       ELSE Goto("protect.fetch", "protect.next") /\ UNCHANGED runs
    /\ UNCHANGED <<policy, disk, diffs, current, reported, sent, unflagged>>

NextPatch ==
  /\ Goto("protect.next", "protect.apply")
  /\ \E p \in todo : current' = p /\ todo' = todo \ {p} /\ diffs' = FilesOf[p[2]]
  /\ UNCHANGED <<runs, policy, disk, reported, sent, unflagged>>

\* applyPatchToFile leaves a file with a flag alone, whichever vulnerability
\* it was patched for.
Skips(m, f) == flag[m][f]

SkipFile ==
  /\ pc = "protect.apply"
  /\ \E f \in diffs : Skips(current[1], f) /\ diffs' = diffs \ {f}
  /\ UNCHANGED <<programVars, runs, policy, disk, todo, current, reported, sent, unflagged>>

\* patchString throws, as the lines are not those of the patch; or the file
\* cannot be read, or not opened to be written. The files patched so far stay so,
\* and the other folders are not patched.
PatchMismatch ==
  /\ \E f \in diffs : ~Skips(current[1], f)
  /\ EndsProtect("protect.apply")
  /\ UNCHANGED <<policy, disk, work, sent, unflagged>>

\* Mutant: the flag is written before the file.
WriteFile_FlagFirst ==
  \E f \in diffs :
    /\ ~Skips(current[1], f) /\ Goto("protect.apply", "protect.flag")
    /\ flag' = [flag EXCEPT ![current[1]][f] = TRUE]
    /\ current' = <<current[1], current[2], f>> /\ diffs' = diffs \ {f}
    /\ UNCHANGED <<runs, policy, patched, todo, reported, sent, unflagged>>

WriteFile ==
  \E f \in diffs :
    /\ ~Skips(current[1], f) /\ Goto("protect.apply", "protect.flag")
    /\ patched' = [patched EXCEPT ![current[1]][f] = @ + 1]
    /\ current' = <<current[1], current[2], f>> /\ diffs' = diffs \ {f}
    /\ UNCHANGED <<runs, policy, flag, todo, reported, sent, unflagged>>

\* A run that has written the file current[3], and has not flagged it, ends.
LeftUnflagged == unflagged' = [unflagged EXCEPT ![current[1]][current[3]] = @ + 1]

\* fs.writeFileSync fails: after (part of) the patched text is in the file, for
\* its flag, or for the flag in the older versions' name. Nothing catches it.
FlagFails ==
  /\ EndsProtect("protect.flag")
  /\ \/ LeftUnflagged /\ UNCHANGED flag
     \/ flag' = [flag EXCEPT ![current[1]][current[3]] = TRUE] /\ UNCHANGED unflagged
  /\ UNCHANGED <<policy, patched, work, sent>>

WriteFlag ==
  /\ Goto("protect.flag", "protect.apply")
  /\ flag' = [flag EXCEPT ![current[1]][current[3]] = TRUE]
  /\ current' = <<current[1], current[2]>>
  /\ UNCHANGED <<runs, policy, patched, todo, diffs, reported, sent, unflagged>>

ModulePatched ==
  /\ diffs = {} /\ Goto("protect.apply", IF todo = {} THEN "protect.report" ELSE "protect.next")
  /\ reported' = reported \cup {current}
  /\ UNCHANGED <<runs, policy, disk, todo, diffs, current, sent, unflagged>>

SendReport ==
  /\ EndsProtect("protect.report")
  /\ sent' = reported
  /\ UNCHANGED <<policy, disk, work, unflagged>>

\* The process dies, or the machine, between any two of these steps.
KillProtect ==
  /\ \/ /\ \E l \in {"protect.fetch", "protect.next", "protect.apply"} : EndsProtect(l)
        /\ UNCHANGED unflagged
     \/ EndsProtect("protect.flag") /\ LeftUnflagged
  /\ UNCHANGED <<policy, disk, work, sent>>

ProtectNext ==
  \/ Installed \/ NothingAsked \/ ReadPolicy \/ FetchFails \/ PatchesFetched
  \/ NextPatch \/ SkipFile \/ PatchMismatch \/ WriteFile \/ WriteFlag \/ FlagFails
  \/ ModulePatched \/ SendReport \/ KillProtect

------------------------------------------------------------------------------
\* What the analytics report as patched is: each file that the vulnerability's
\* patches change has had a patch, whichever runs failed or were killed in
\* between (patch.ts:27 writes the file before patch.ts:28 its flag).
ReportedIsPatched ==
  \A p \in sent : \A f \in FilesOf[p[2]] : patched[p[1]][f] > 0

\* A file is patched again, by this run, a later one, after an older version or for
\* another vulnerability, only after a run that ended between patch.ts:27 and 28:
\* as often as there were such runs for this very file.
PatchedOnce == \A m \in Modules, f \in Files : patched[m][f] <= 1 + unflagged[m][f]

\* Both: a file has its patch when it is said to, and has it once
\* unless it was left without a flag.
PatchesAreExact == ReportedIsPatched /\ PatchedOnce
==============================================================================
