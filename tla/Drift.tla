-------------------------------- MODULE Drift --------------------------------
(***************************************************************************)
(* vulnmap iac describe, which runs driftctl and shows the resources that  *)
(* it reports, and vulnmap iac update-exclude-policy, which reads such a   *)
(* report and adds its resources to those that .vulnmap excludes.  Users   *)
(* run describes one after the other, and updates at any time.  driftctl   *)
(* and the cloud are external; the download of driftctl is the module      *)
(* ExecutableCache.                                                        *)
(***************************************************************************)
EXTENDS Program

CONSTANTS
  Resources,
  Updates,       \* runs of update-exclude-policy
  MaxDescribes   \* bound: runs of describe

VARIABLES
  format,        \* text, json or html (which fmt of driftctl makes)
  describes,
  excluded,      \* policy.exclude['iac-drift'] of .vulnmap, {} if there is none
  ignore,        \* driftIgnore of the describe
  analysis,      \* what driftctl reported
  stdout,        \* what of it arrived before its exit: all or some
  shown,         \* resources printed
  step,          \* step[u]: where update u is
  loaded,        \* loaded[u]: the exclusions it read
  input,         \* input[u]: the analysis on its standard input
  saved,         \* history: everything that an update excluded
  savedBefore,   \* history: saved, when the describe read the policy
  overlapped     \* history: an update read the policy while another one did

describeVars == <<format, describes, ignore, analysis, stdout, shown, savedBefore>>
updateVars == <<excluded, step, loaded, input, saved, overlapped>>
driftVars == <<describeVars, updateVars>>

DriftInit ==
  /\ format = "text" /\ describes = 0 /\ ignore = {} /\ analysis = {} /\ stdout = "some"
  /\ shown = {} /\ savedBefore = {}
  /\ excluded = {} /\ saved = {} /\ overlapped = FALSE
  /\ step = [u \in Updates |-> "idle"]
  /\ loaded = [u \in Updates |-> {}] /\ input = [u \in Updates |-> {}]

------------------------------------------------------------------------------
(* describe *)

\* Not iac, the entitlement, a policy that cannot be read.
DescribeRejected ==
  /\ pc = "drift" /\ describes < MaxDescribes
  /\ describes' = describes + 1 /\ exitCode' = 2 /\ shown' = {}
  /\ UNCHANGED <<pc, format, ignore, analysis, stdout, savedBefore, updateVars>>

Describe ==
  /\ describes < MaxDescribes /\ Goto("drift", "drift.run")
  /\ describes' = describes + 1
  /\ format' \in {"text", "json", "html"}
  /\ ignore' = excluded /\ savedBefore' = saved
  /\ shown' = {}
  /\ UNCHANGED <<analysis, stdout, updateVars>>

\* Several or none of the exclusive arguments, no driftctl, or a driftctl that
\* cannot be started.
DescribeFails ==
  /\ pc \in {"drift.run", "drift.show"} /\ pc' = "drift" /\ exitCode' = 2
  /\ UNCHANGED driftVars

\* Mutant: a driftctl that was killed counts as in sync.
TranslateExitCode_Killed(code) == IF code = 1 THEN 1 ELSE IF code = 2 THEN 2 ELSE 0

\* A signal gives no code.
TranslateExitCode(code) == IF code \in {0, 1} THEN code ELSE 2

\* driftctl's exit code is 0 in sync, 1 with drift, 2 after an error; it may be
\* killed at any time (-1). Its exit ends the wait, with what was read until then.
\* Code 2 is thrown; the JSON of the others must be whole.
DriftctlExits ==
  /\ pc = "drift.run"
  /\ analysis' \in SUBSET (Resources \ ignore) /\ stdout' \in {"all", "some"}
  /\ \E code \in {IF analysis' = {} THEN 0 ELSE 1, 2, -1} :
       IF TranslateExitCode(code) = 2 \/ stdout' = "some"
       THEN pc' = "drift" /\ exitCode' = 2
       ELSE pc' = "drift.show" /\ exitCode' = TranslateExitCode(code)
  /\ UNCHANGED <<format, describes, ignore, shown, savedBefore, updateVars>>

\* getHumanReadableAnalysis, the JSON itself or what fmt made of it. Nobody
\* looks at the exit code of fmt, which may have printed nothing.
ProcessAnalysis ==
  /\ Goto("drift.show", "drift")
  /\ shown' \in {analysis} \cup (IF format = "html" THEN {{}} ELSE {})
  /\ UNCHANGED <<format, describes, ignore, analysis, stdout, savedBefore, updateVars>>

------------------------------------------------------------------------------
(* update-exclude-policy *)

Idle == \A u \in Updates : step[u] \in {"idle", "done"}
Steps(u, from, to) == step[u] = from /\ step' = [step EXCEPT ![u] = to]

\* The user gives it the report of the last describe, or an older one. Input
\* that is not JSON, the entitlement or the policy's format end it.
UpdateReads(u) ==
  /\ pc = "drift" /\ Steps(u, "idle", "read")
  /\ input' = [input EXCEPT ![u] = analysis]
  /\ loaded' = [loaded EXCEPT ![u] = excluded]
  /\ overlapped' = (overlapped \/ ~Idle)
  /\ UNCHANGED <<programVars, describeVars, excluded, saved>>

UpdateFails(u) ==
  /\ pc = "drift" /\ \/ Steps(u, "idle", "done")
                     \/ Steps(u, "read", "done")
  /\ UNCHANGED <<programVars, describeVars, excluded, loaded, input, saved, overlapped>>

\* updateExcludeInPolicy
UpdateExclude(policy, found) == policy \cup found

\* exclude-changed, exclude-missing and exclude-unmanaged leave out resources.
UpdateSaves(u) ==
  /\ pc = "drift" /\ Steps(u, "read", "done")
  /\ \E some \in SUBSET input[u] :
       /\ excluded' = UpdateExclude(loaded[u], some)
       /\ saved' = saved \cup some
  /\ UNCHANGED <<programVars, describeVars, loaded, input, overlapped>>

DriftEnds == Idle /\ pc = "drift" /\ pc' = "done" /\ UNCHANGED <<exitCode, driftVars>>

DriftNext ==
  \/ DescribeRejected \/ Describe \/ DescribeFails \/ DriftctlExits \/ ProcessAnalysis
  \/ \E u \in Updates : UpdateReads(u)
  \/ \E u \in Updates : UpdateFails(u)
  \/ \E u \in Updates : UpdateSaves(u)
  \/ DriftEnds

------------------------------------------------------------------------------
\* When describe is over, its exit code and its output agree: 0 means that
\* driftctl found nothing, 1 that it found what is shown - but for HTML, whose
\* output may be empty (drift.ts:107 ignores how fmt ended) - and 2 that
\* nothing is shown (driftctl.ts:215, describe.ts:45).  And what an update has
\* excluded, no describe that starts later shows: unless two updates overlapped,
\* for each loads the policy and saves the whole of it
\* (update-exclude-policy.ts:46, :56).
DescribeIsHonest ==
  /\ pc \in {"drift", "done"} /\ describes > 0 =>
       /\ exitCode = 0 => analysis = {}
       /\ exitCode = 1 => analysis # {} /\ (shown = analysis \/ format = "html")
       /\ exitCode = 2 => shown = {}
  /\ overlapped \/ shown \cap savedBefore = {}
==============================================================================
