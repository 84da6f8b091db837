--------------------------- MODULE PipRequirements ---------------------------
(***************************************************************************)
(* The requirements.txt handler of vulnmap fix (pip-requirements): for     *)
(* each project upgrade what its files require directly, pin in the        *)
(* scanned file (or its constraints file) what they do not, and remember   *)
(* the files as fixed so that a project they belong to is not fixed again. *)
(* A write can fail.                                                       *)
(*                                                                         *)
(* The files are in one directory, where extractProvenance finds all of a  *)
(* project's files (module PipProvenance).  A file says of a package       *)
(* nothing, the version the remediation is about, another version, or the  *)
(* version it has been upgraded or pinned to.                              *)
(***************************************************************************)
EXTENDS Integers, FiniteSets

CONSTANTS
  Files,       \* requirements files
  Packages,    \* packages with a vulnerability
  Projects,    \* the fixable projects of one directory
  None

VARIABLES
  target,      \* scanned file of each project
  pins,        \* remediation.pin: packages to upgrade or pin, of a project
  requires,    \* files a file names with -r or -c
  constraint,  \* the first file that a file names with -c
  dryRun,
  line,        \* the disk: what each file says of each package
  original,    \* history: the disk at the beginning
  current,     \* the project being fixed
  todo,        \* its files that have not been upgraded yet
  upgraded,    \* upgradeChanges: the packages in them
  fixedCache,  \* files fixed: the project they were fixed in, and the issues
  succeeded,   \* projects reported as fixed: their fixed issues
  failed       \* projects reported as failed

inputs == <<target, pins, requires, constraint, dryRun, original>>
vars == <<inputs, line, current, todo, upgraded, fixedCache, succeeded, failed>>

NotCached   == [fixedIn |-> None, issues |-> {}]
NoSuccess   == [fixed |-> FALSE, through |-> None, issues |-> {}]

Init ==
  /\ target \in [Projects -> Files]
  /\ \A p, q \in Projects : p # q => target[p] # target[q]
  /\ pins \in [Projects -> SUBSET Packages \ {{}}]      \* isSupported
  /\ requires \in [Files -> SUBSET Files]
  /\ constraint \in [Files -> Files \cup {None}]
  /\ \A f \in Files : f \notin requires[f] /\ constraint[f] \in requires[f] \cup {None}
  /\ dryRun \in BOOLEAN
  /\ line \in [Files -> [Packages -> {"absent", "old", "other"}]]
  /\ original = line
  /\ current = None
  /\ todo = {}
  /\ upgraded = {}
  /\ fixedCache = [f \in Files |-> NotCached]
  /\ succeeded = [p \in Projects |-> NoSuccess]
  /\ failed = {}

------------------------------------------------------------------------------
(* Files of a project *)

\* extractProvenance: the scanned file and what its files require, as the least
\* set that has it and is closed (how it is found is in PipProvenance).
ClosedUnderRequires(S) == \A f \in S : requires[f] \subseteq S
Provenance(p) ==
  {f \in Files : \A S \in SUBSET Files : target[p] \in S /\ ClosedUnderRequires(S) => f \in S}

SelectFileForPinning(p) ==
  IF constraint[target[p]] = None THEN target[p] ELSE constraint[target[p]]

\* generateUpgrades: the packages whose line has the remediation's version.
GenerateUpgrades(f, ps) == {k \in ps : line[f][k] = "old"}

\* generatePins: the packages without a line, whatever version it has.
GeneratePins(f, ps) == {k \in ps : line[f][k] = "absent"}

------------------------------------------------------------------------------
(* fixAll and applyAllFixes *)

Waiting(p) == ~succeeded[p].fixed /\ p \notin failed /\ current = None

\* The file is one of those fixed with an earlier project.
FixedThrough(p) ==
  LET c == fixedCache[target[p]] IN
  /\ Waiting(p) /\ c.fixedIn # None
  /\ succeeded' = [succeeded EXCEPT ![p] =
       [fixed |-> TRUE, through |-> c.fixedIn, issues |-> c.issues \cap pins[p]]]
  /\ UNCHANGED <<inputs, line, current, todo, upgraded, fixedCache, failed>>

Begin(p) ==
  /\ Waiting(p) /\ fixedCache[target[p]].fixedIn = None
  /\ current' = p
  /\ todo' = Provenance(p)
  /\ upgraded' = {}
  /\ UNCHANGED <<inputs, line, fixedCache, succeeded, failed>>

Write(f, ps, version) ==
  line' = IF dryRun THEN line
          ELSE [line EXCEPT ![f] = [k \in Packages |->
                  IF k \in ps THEN version ELSE line[f][k]]]

\* fixIndividualRequirementsTxt with directUpgradesOnly.
UpgradeFile(f) ==
  /\ current # None /\ f \in todo
  /\ LET ups == GenerateUpgrades(f, pins[current]) IN
       /\ Write(f, ups, "new")
       /\ upgraded' = upgraded \cup ups
  /\ todo' = todo \ {f}
  /\ UNCHANGED <<inputs, current, fixedCache, succeeded, failed>>

\* filterOutAppliedUpgrades
ToPin == pins[current] \ upgraded

Fail ==
  /\ failed' = failed \cup {current}
  /\ current' = None
  /\ UNCHANGED <<inputs, upgraded, fixedCache, succeeded>>

\* Writing an upgraded file fails, or writing the file with the pins.
WriteFails ==
  /\ current # None /\ ~dryRun
  /\ \/ \E f \in todo : GenerateUpgrades(f, pins[current]) # {}
     \/ todo = {} /\ GeneratePins(SelectFileForPinning(current), ToPin) # {}
  /\ Fail
  /\ todo' = {}
  /\ UNCHANGED line

\* Mutant: the issues of the whole remediation are taken for fixed.
Succeed_AllPins(pf, ps) ==
  /\ fixedCache' = [f \in Files |-> IF f \in Provenance(current)
       THEN [fixedIn |-> current, issues |-> pins[current]] ELSE fixedCache[f]]
  /\ succeeded' = [succeeded EXCEPT ![current] =
       [fixed |-> TRUE, through |-> None, issues |-> pins[current]]]

\* The issues of all changes belong to every file of the project.
Succeed(pf, ps) ==
  /\ fixedCache' = [f \in Files |-> IF f \in Provenance(current)
       THEN [fixedIn |-> current, issues |-> upgraded \cup ps] ELSE fixedCache[f]]
  /\ succeeded' = [succeeded EXCEPT ![current] =
       [fixed |-> TRUE, through |-> None, issues |-> upgraded \cup ps]]

\* The rest is upgraded or pinned in one file, which is read again.
PinRest ==
  /\ current # None /\ todo = {}
  /\ LET pf == SelectFileForPinning(current)
         ps == GeneratePins(pf, ToPin) IN
       \/ /\ upgraded \cup ps # {}
          /\ Write(pf, ps, "pinned")
          /\ Succeed(pf, ps)
          /\ current' = None
          /\ UNCHANGED <<inputs, upgraded, failed>>
       \/ /\ upgraded \cup ps = {}       \* NoFixesCouldBeAppliedError
          /\ Fail
          /\ UNCHANGED line
  /\ UNCHANGED todo

Next ==
  \/ \E p \in Projects : FixedThrough(p) \/ Begin(p)
  \/ \E f \in Files : UpgradeFile(f)
  \/ WriteFails \/ PinRest

Spec == Init /\ [][Next]_vars

------------------------------------------------------------------------------
(* Properties *)

Versions == {"absent", "old", "other", "new", "pinned"}

TypeOK ==
  /\ line \in [Files -> [Packages -> Versions]]
  /\ current \in Projects \cup {None}
  /\ todo \subseteq Files /\ upgraded \subseteq Packages
  /\ current = None => todo = {}
  /\ fixedCache \in [Files -> [fixedIn : Projects \cup {None}, issues : SUBSET Packages]]
  /\ succeeded \in [Projects -> [fixed : BOOLEAN, through : Projects \cup {None},
                                 issues : SUBSET Packages]]
  /\ failed \subseteq Projects

Says(p, k, v) == \E f \in Provenance(p) : line[f][k] = v

\* pip installs the fixed version of a package for a project.
IsFixed(p, k) == ~Says(p, k, "old") /\ (Says(p, k, "new") \/ Says(p, k, "pinned"))

\* What is reported as fixed in a project that has been fixed itself is fixed
\* in all of its files and stays fixed while the others are.
ReportedIsFixed ==
  ~dryRun => \A p \in Projects : succeeded[p].fixed /\ succeeded[p].through = None =>
    \A k \in succeeded[p].issues : IsFixed(p, k)

\* What remains of the remediation of such a project is a package that the
\* file chosen for pinning has a line for, with yet another version.
NothingMissed ==
  ~dryRun => \A p \in Projects : succeeded[p].fixed /\ succeeded[p].through = None =>
    \A k \in pins[p] \ succeeded[p].issues :
      line[SelectFileForPinning(p)][k] # "absent" /\ ~Says(p, k, "old")

\* A run changes no line but those of packages to fix, in files of a project
\* that has the fix, and of these only the lines at the remediation's version
\* and the missing ones: a version somebody else chose is kept.
OnlyPinsTouched ==
  \A f \in Files : \A k \in Packages : line[f][k] # original[f][k] =>
    \E p \in Projects : k \in pins[p] /\ f \in Provenance(p)
                        /\ original[f][k] \in {"old", "absent"}
==============================================================================
