--------------------------------- MODULE MCFix -------------------------------
(***************************************************************************)
(* vulnmap fix for TLC: its plugins and handlers (VulnmapFix) and, looked  *)
(* into by themselves, the two halves of the requirements.txt handler:     *)
(* which files a project has (PipProvenance) and how they are changed      *)
(* (PipRequirements).                                                      *)
(***************************************************************************)
EXTENDS VulnmapFix, TLC

CONSTANTS Dirs, Bases, Entry, Prefixes, MaxDirectives, MaxRequired, MaxDepth,
          PipFiles, Packages, PipProjects, None

ASSUME NoneAssumption == None \notin PipProjects
ASSUME DirsAssumption == Dirs \subseteq {".", "lib"} /\ "." \in Dirs
ASSUME ContentAssumption == Entry \in Bases /\ MaxDirectives \in Nat /\ MaxRequired \in Nat

VARIABLES
  part,
  content, stack, provenance, extraction,
  target, pins, requires, constraint, pipDryRun, line, original, current, todo, upgraded,
  fixedCache, succeeded, failed

provenanceVars == <<content, stack, provenance, extraction>>
requirementsVars ==
  <<target, pins, requires, constraint, pipDryRun, line, original, current, todo, upgraded,
    fixedCache, succeeded, failed>>

Provenance == INSTANCE PipProvenance WITH outcome <- extraction
Requirements == INSTANCE PipRequirements WITH Files <- PipFiles, Projects <- PipProjects, dryRun <- pipDryRun

Idle == "idle"

FixIdle ==
  /\ project = Idle /\ override = Idle /\ dryRun = Idle /\ task = Idle /\ handler = Idle
  /\ response = Idle /\ lists = Idle /\ results = Idle /\ exceptions = Idle /\ applied = Idle
  /\ through = Idle /\ outcome = Idle

ProvenanceIdle ==
  content = Idle /\ stack = Idle /\ provenance = Idle /\ extraction = Idle

RequirementsIdle ==
  /\ target = Idle /\ pins = Idle /\ requires = Idle /\ constraint = Idle /\ pipDryRun = Idle
  /\ line = Idle /\ original = Idle /\ current = Idle /\ todo = Idle /\ upgraded = Idle
  /\ fixedCache = Idle /\ succeeded = Idle /\ failed = Idle

FixInit ==
  \/ part = "fix" /\ Init /\ ProvenanceIdle /\ RequirementsIdle
  \/ part = "provenance" /\ FixIdle /\ Provenance!Init /\ RequirementsIdle
  \/ part = "requirements" /\ FixIdle /\ ProvenanceIdle /\ Requirements!Init

FixNext ==
  \/ part = "fix" /\ Next /\ UNCHANGED <<part, provenanceVars, requirementsVars>>
  \/ part = "provenance" /\ Provenance!Next /\ UNCHANGED <<part, vars, requirementsVars>>
  \/ part = "requirements" /\ Requirements!Next /\ UNCHANGED <<part, vars, provenanceVars>>

FixSpec == FixInit /\ [][FixNext]_<<part, vars, provenanceVars, requirementsVars>>

Symmetry ==
  Permutations(Projects) \cup Permutations(PipFiles) \cup Permutations(Packages)
  \cup Permutations(PipProjects)

\* VulnmapFix: every vulnerable project is in the summary, and one that is
\* listed as fixed is fixed.
SummaryIsTrue == part = "fix" => EveryProjectReported /\ SucceededIsApplied

\* PipProvenance: every file that a project requires has been parsed, or shares
\* the text it is required by with one that was; and a file that is required by
\* its key is not processed inside of itself.
AllRequiredParsed ==
  part = "provenance" => Provenance!AllRequiredParsed /\ Provenance!RecursionDetected

\* PipRequirements: what is reported as fixed is fixed and stays so, and what
\* remains was not the handler's to change.
ReportedIsFixed ==
  part = "requirements" => Requirements!ReportedIsFixed /\ Requirements!NothingMissed
==============================================================================
