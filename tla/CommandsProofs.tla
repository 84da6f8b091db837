---------------------------- MODULE CommandsProofs ---------------------------
(***************************************************************************)
(* Proofs about the commands that are one flow of control each: Auth,      *)
(* ExecutableCache, Drift, IacV2, CodeTest, FixCommand, Protect and        *)
(* IacTest.                                                                *)
(*                                                                         *)
(* Each has labels of its own and variables of its own, so a step of the   *)
(* program is one of its steps, or leaves its variables alone.  Its        *)
(* invariant says that it has not begun and its variables are as they      *)
(* were, or that its control is at one of its labels, or at the end, and   *)
(* its part of the invariant holds.                                        *)
(***************************************************************************)
EXTENDS MCCommands, FiniteSetTheorems, WellFoundedInduction, TLAPS

ProtectAt == {"protect", "protect.fetch", "protect.next", "protect.apply", "protect.flag", "protect.report"}
IacAt == {"iac", "iac.rules", "iac.bundle", "iac.path", "iac.scan", "iac.share", "iac.format", "iac.usage", "iac.output"}
CacheAt == {"cache", "cache.commands"}
DriftAt == {"drift", "drift.run", "drift.show"}
AuthAt == {"auth", "auth.start", "auth.poll", "auth.sleep", "auth.config", "auth.ignore"}
IacV2At == {"iacv2", "iacv2.temp", "iacv2.run", "iacv2.output"}
CodeAt == {"code", "code.engine", "code.status", "code.analysis", "code.display", "code.results"}
FixAt == {"fix", "fix.test", "fix.fix", "fix.end"}

\* The control moves within a command with these labels, or ends it.
Within(At) == pc \in At /\ pc' \in At \cup {"done"}

\* The step is not one of the command with these labels, but may choose it.
Apart(At, first) ==
  \/ UNCHANGED programVars
  \/ pc \notin At \cup {"done"} /\ pc' \notin At
  \/ pc = "choose" /\ pc' = first /\ UNCHANGED exitCode

\* The program has done nothing before a command is chosen.
Chosen == pc = "choose" => exitCode = 0

------------------------------------------------------------------------------
(* Which steps are whose *)

LEMMA ProtectWithin == ASSUME ProtectNext PROVE Within(ProtectAt)
  BY DEF ProtectNext, Within, ProtectAt, Installed, NothingAsked, ReadPolicy, FetchFails, PatchesFetched,
         NextPatch, SkipFile, PatchMismatch, WriteFile, WriteFlag, FlagFails, ModulePatched, SendReport, KillProtect,
         EndsProtect, Exit, Goto, programVars

LEMMA IacWithin == ASSUME IacNext PROVE Within(IacAt)
  BY DEF IacNext, Within, IacAt, IacRejected, IacAccepted, RulesFail, CustomExtracted, BundleExtracted,
         PathRejected, NothingParsed, FilesParsed, ScanFails, FilesScanned, ShareFails, Shared, FormatFails,
         ResultsFormatted, LimitReached, UsageTracked, BuildOutput, PathFails, NextPath, Exit, Goto

LEMMA CacheWithin == ASSUME CacheNext PROVE Within(CacheAt)
  BY DEF CacheNext, Within, CacheAt, OnPlatform, Goto, Cached, NotCached, DirCreated, DownloadFails, Verified, OpenFails, Open,
         Write, Chmod, Run, Killed, CommandsEnd, Moves, Exit, programVars

LEMMA DriftWithin == ASSUME DriftNext PROVE Within(DriftAt)
  BY DEF DriftNext, Within, DriftAt, DescribeRejected, Describe, DescribeFails, DriftctlExits, ProcessAnalysis,
         UpdateReads, UpdateFails, UpdateSaves, DriftEnds, Goto, programVars

LEMMA AuthWithin == ASSUME AuthNext PROVE Within(AuthAt)
  BY DEF AuthNext, Within, AuthAt, EnvironmentChosen, AuthStarts, AuthFails, TokenVerified, WebLogin, UserLogsIn,
         LoginConfirmed, LoginPending, PollAgain, LoginExpired, ConfigCommand, ConfigFails, ConfigEnds,
         IgnoreStarts, IgnoreRejected, IgnoreNotAllowed, IgnoreIssue, CommandStarts, CommandEnds, Goto, programVars

LEMMA IacV2Within == ASSUME IacV2Next PROVE Within(IacV2At)
  BY DEF IacV2Next, Within, IacV2At, IacV2Rejected, EngineFound, TempFails, TempCreated, EngineWrites,
         EngineFails, EngineExits, BuildOutputV2, Exit, Goto, programVars

LEMMA CodeWithin == ASSUME CodeNext PROVE Within(CodeAt)
  BY DEF CodeNext, Within, CodeAt, SettingsRefused, SettingsReceived, EngineAsked, EngineAnswers, NoEngineAsked,
         AnalysisFails, NothingToAnalyse, Analysed, DisplayFails, Displayed, CodeIssuesFound, NoCodeIssues, Exit, Goto

LEMMA FixWithin == ASSUME FixNext PROVE Within(FixAt)
  BY DEF FixNext, Within, FixAt, FixRejected, FixAccepted, PathTested, PathFailed, Fixed, FixEnds, AfterPath, Exit, Goto

\* A step of the program is a step of the command, or apart from it.
LEMMA OwnSteps ==
  ASSUME [Next]_vars
  PROVE  /\ ProtectNext \/ (Apart(ProtectAt, "protect") /\ UNCHANGED protectVars)
         /\ IacNext \/ (Apart(IacAt, "iac") /\ UNCHANGED iacVars)
         /\ CacheNext \/ (Apart(CacheAt, "cache") /\ UNCHANGED cacheVars)
         /\ DriftNext \/ (Apart(DriftAt, "drift") /\ UNCHANGED driftVars)
         /\ AuthNext \/ (Apart(AuthAt, "auth") /\ UNCHANGED authVars)
         /\ IacV2Next \/ (Apart(IacV2At, "iacv2") /\ UNCHANGED iacV2Vars)
         /\ CodeNext \/ (Apart(CodeAt, "code") /\ UNCHANGED codeVars)
         /\ FixNext \/ (Apart(FixAt, "fix") /\ UNCHANGED fixVars)

  <1>1. CASE UNCHANGED vars
    BY <1>1 DEF vars, Apart, programVars
  <1>2. CASE Choose
    <2>1. pc = "choose" /\ pc' \in Labels /\ UNCHANGED exitCode
      BY <1>2 DEF Choose
    <2>2. /\ Apart(ProtectAt, "protect") /\ Apart(IacAt, "iac") /\ Apart(CacheAt, "cache") /\ Apart(DriftAt, "drift")
          /\ Apart(AuthAt, "auth") /\ Apart(IacV2At, "iacv2") /\ Apart(CodeAt, "code") /\ Apart(FixAt, "fix")
      BY <2>1 DEF Labels, Apart, ProtectAt, IacAt, CacheAt, DriftAt, AuthAt, IacV2At, CodeAt, FixAt
    <2> QED  BY <1>2, <2>2 DEF Choose
  <1>3. CASE ProtectNext /\ UNCHANGED <<iacVars, cacheVars, driftVars, authVars, iacV2Vars, codeVars, fixVars>>
    BY <1>3, ProtectWithin DEF Apart, Within, ProtectAt, IacAt, CacheAt, DriftAt, AuthAt, IacV2At, CodeAt, FixAt
  <1>4. CASE IacNext /\ UNCHANGED <<protectVars, cacheVars, driftVars, authVars, iacV2Vars, codeVars, fixVars>>
    BY <1>4, IacWithin DEF Apart, Within, ProtectAt, IacAt, CacheAt, DriftAt, AuthAt, IacV2At, CodeAt, FixAt
  <1>5. CASE CacheNext /\ UNCHANGED <<protectVars, iacVars, driftVars, authVars, iacV2Vars, codeVars, fixVars>>
    BY <1>5, CacheWithin DEF Apart, Within, ProtectAt, IacAt, CacheAt, DriftAt, AuthAt, IacV2At, CodeAt, FixAt
  <1>6. CASE DriftNext /\ UNCHANGED <<protectVars, iacVars, cacheVars, authVars, iacV2Vars, codeVars, fixVars>>
    BY <1>6, DriftWithin DEF Apart, Within, ProtectAt, IacAt, CacheAt, DriftAt, AuthAt, IacV2At, CodeAt, FixAt
  <1>7. CASE AuthNext /\ UNCHANGED <<protectVars, iacVars, cacheVars, driftVars, iacV2Vars, codeVars, fixVars>>
    BY <1>7, AuthWithin DEF Apart, Within, ProtectAt, IacAt, CacheAt, DriftAt, AuthAt, IacV2At, CodeAt, FixAt
  <1>8. CASE IacV2Next /\ UNCHANGED <<protectVars, iacVars, cacheVars, driftVars, authVars, codeVars, fixVars>>
    BY <1>8, IacV2Within DEF Apart, Within, ProtectAt, IacAt, CacheAt, DriftAt, AuthAt, IacV2At, CodeAt, FixAt
  <1>9. CASE CodeNext /\ UNCHANGED <<protectVars, iacVars, cacheVars, driftVars, authVars, iacV2Vars, fixVars>>
    BY <1>9, CodeWithin DEF Apart, Within, ProtectAt, IacAt, CacheAt, DriftAt, AuthAt, IacV2At, CodeAt, FixAt
  <1>10. CASE FixNext /\ UNCHANGED <<protectVars, iacVars, cacheVars, driftVars, authVars, iacV2Vars, codeVars>>
    BY <1>10, FixWithin DEF Apart, Within, ProtectAt, IacAt, CacheAt, DriftAt, AuthAt, IacV2At, CodeAt, FixAt
  <1> QED  BY <1>1, <1>2, <1>3, <1>4, <1>5, <1>6, <1>7, <1>8, <1>9, <1>10 DEF Next

LEMMA ChosenHolds == Spec => []Chosen
  <1>1. Init => Chosen
    BY DEF Init, Chosen
  <1>2. Chosen /\ [Next]_vars => Chosen'
    <2> SUFFICES ASSUME Chosen, [Next]_vars, pc' = "choose"  PROVE UNCHANGED programVars
      BY DEF Chosen, programVars
    <2>1. CASE AuthNext
      BY <2>1, AuthWithin DEF Within, AuthAt
    <2>2. CASE Apart(AuthAt, "auth") /\ ~UNCHANGED programVars
      <3>1. Next
        BY <2>2 DEF vars, programVars
      <3> QED  BY <3>1, ProtectWithin, IacWithin, CacheWithin, DriftWithin, AuthWithin, IacV2Within, CodeWithin,
                 FixWithin DEF Next, Choose, Labels, Within, ProtectAt, IacAt, CacheAt, DriftAt, AuthAt, IacV2At,
                 CodeAt, FixAt
    <2> QED  BY <2>1, <2>2, OwnSteps
  <1> QED  BY <1>1, <1>2, PTL DEF Spec

------------------------------------------------------------------------------
(* Credentials *)

AuthWork ==
  /\ stored \in confirmed \cup {"set", "none"}
  /\ pc \in AuthAt \ {"auth"} => stored = before
  /\ pc \in {"auth", "done"} /\ exitCode # 0 => stored = before

AuthInv ==
  \/ AuthInit /\ pc \notin AuthAt
  \/ AuthWork /\ pc \in AuthAt \cup {"done"}

LEMMA AuthStep == ASSUME AuthInv, AuthNext PROVE AuthInv'
  <1> USE DEF AuthInv, AuthWork, AuthAt, Goto, CommandStarts, CommandEnds, programVars, authVars, loginVars
  <1>1. pc \in AuthAt /\ pc' \in AuthAt \cup {"done"}
    BY AuthWithin DEF Within
  <1>2. AuthWork
    BY <1>1
  <1>3. CASE EnvironmentChosen \/ UserLogsIn \/ WebLogin \/ LoginPending \/ PollAgain
    BY <1>1, <1>2, <1>3 DEF EnvironmentChosen, UserLogsIn, WebLogin, LoginPending, PollAgain
  <1>4. CASE AuthStarts \/ ConfigCommand \/ IgnoreStarts
    BY <1>1, <1>2, <1>4 DEF AuthStarts, ConfigCommand, IgnoreStarts
  <1>5. CASE AuthFails \/ LoginExpired \/ ConfigFails \/ IgnoreRejected \/ IgnoreNotAllowed \/ IgnoreIssue
    BY <1>1, <1>2, <1>5 DEF AuthFails, LoginExpired, ConfigFails, IgnoreRejected, IgnoreNotAllowed, IgnoreIssue
  <1>6. CASE TokenVerified \/ LoginConfirmed \/ ConfigEnds
    BY <1>1, <1>2, <1>6 DEF TokenVerified, LoginConfirmed, ConfigEnds
  <1> QED  BY <1>3, <1>4, <1>5, <1>6 DEF AuthNext

\* However many commands the user runs and whatever the service answers, the
\* token kept is one that the service accepted or the user set, and a command
\* that fails keeps the one there was.
THEOREM AuthKeepsConfirmed == Spec => []StoredIsConfirmed
  <1>1. Init => AuthInv
    BY DEF Init, AuthInv, AuthAt
  <1>2. Chosen /\ AuthInv /\ [Next]_vars => AuthInv'
    <2> SUFFICES ASSUME Chosen, AuthInv, [Next]_vars, Apart(AuthAt, "auth"), UNCHANGED authVars  PROVE AuthInv'
      BY OwnSteps, AuthStep
    <2> QED  BY DEF AuthInv, AuthWork, AuthInit, AuthAt, Apart, Chosen, authVars, loginVars, programVars
  <1>3. AuthInv => StoredIsConfirmed
    BY DEF AuthInv, AuthWork, AuthInit, AuthAt, StoredIsConfirmed
  <1> QED  BY <1>1, <1>2, <1>3, ChosenHolds, PTL DEF Spec

------------------------------------------------------------------------------
(* The cache of executables *)

CacheTypeOK ==
  /\ windows \in BOOLEAN /\ parts \in SUBSET (1..Parts) /\ exists \in BOOLEAN /\ exe \in BOOLEAN
  /\ overwritten \in BOOLEAN /\ brokenOff \in BOOLEAN
  /\ at \in [Commands -> {"look", "fetch", "open", "write", "run", "done"}]
  /\ offset \in [Commands -> 0..Parts]
  /\ ran \in [Commands -> SUBSET (1..Parts)]

\* At most one command writes, into a file whose mode is not changed yet, and the
\* file has what it wrote.
OneWriter ==
  \A c \in Commands :
    at[c] = "write" => /\ ~exe /\ exists /\ parts = 1..offset[c]
                      /\ \A d \in Commands : at[d] = "write" => d = c

Nobody == \A c \in Commands : at[c] # "write"

CacheWork ==
  /\ CacheTypeOK
  /\ \A c \in Commands : at[c] = "run" => IsExe
  /\ ~overwritten => OneWriter
  /\ ExecutableIsWhole

CacheInv ==
  \/ CacheInit /\ pc # "cache.commands"
  \/ CacheWork /\ pc \in {"cache.commands", "done"}

\* Who executes the file, executes a complete one.
LEMMA RunsWhole ==
  ASSUME CacheWork, ~overwritten, ~(windows /\ brokenOff), NEW c \in Commands, at[c] = "run",
         ~\E d \in Commands : at[d] = "write" /\ offset[d] < Parts
  PROVE  parts = 1..Parts
  <1>1. CASE Nobody
    BY <1>1 DEF CacheWork, ExecutableIsWhole, Nobody
  <1>2. CASE ~Nobody
    <2>1. PICK d \in Commands : at[d] = "write" /\ parts = 1..offset[d] /\ offset[d] \in 0..Parts
      BY <1>2 DEF Nobody, CacheWork, CacheTypeOK, OneWriter
    <2>2. offset[d] = Parts
      BY <2>1, PartsAssumption
    <2> QED  BY <2>1, <2>2
  <1> QED  BY <1>1, <1>2

LEMMA CacheStep == ASSUME CacheInv, CacheNext PROVE CacheInv'
  <1>0. CASE OnPlatform
    <2>1. CacheInit /\ pc' = "cache.commands"
      BY <1>0 DEF CacheInv, OnPlatform, Goto
    <2>2. CacheTypeOK'
      <3>1. parts' \in SUBSET (1..Parts) /\ ran' \in [Commands -> SUBSET (1..Parts)]
        BY <1>0, <2>1 DEF CacheInit, OnPlatform, file
      <3>2. offset' \in [Commands -> 0..Parts]
        BY <1>0, <2>1, PartsAssumption DEF CacheInit, OnPlatform
      <3> QED  BY <1>0, <2>1, <3>1, <3>2 DEF CacheInit, OnPlatform, CacheTypeOK, file, history
    <2>3. (OneWriter /\ ExecutableIsWhole /\ \A c \in Commands : at[c] # "run")'
      BY <1>0, <2>1 DEF CacheInit, OnPlatform, OneWriter, ExecutableIsWhole, IsExe, file
    <2> QED  BY <2>1, <2>2, <2>3 DEF CacheInv, CacheWork
  <1> SUFFICES ASSUME CacheWork, pc = "cache.commands"  PROVE CacheWork' /\ pc' \in {"cache.commands", "done"}
    BY <1>0 DEF CacheInv, CacheNext, Cached, NotCached, DirCreated, DownloadFails, Verified, OpenFails, Open, Write,
                Chmod, Run, Killed, CommandsEnd, Moves, Exit
  <1>p. ~OnPlatform => pc' \in {"cache.commands", "done"}
    BY DEF CacheNext, Cached, NotCached, DirCreated, DownloadFails, Verified, OpenFails, Open, Write, Chmod, Run,
           Killed, CommandsEnd, Moves, Exit, programVars
  <1> USE DEF CacheWork, CacheTypeOK, OneWriter, ExecutableIsWhole, IsExe, Moves, programVars, file, history
  <1>1. ASSUME NEW c \in Commands, Cached(c)  PROVE CacheWork'
    BY <1>1 DEF Cached
  <1>7. ASSUME NEW c \in Commands, NotCached(c) \/ Verified(c)  PROVE CacheWork'
    <2>1. PICK l \in {"fetch", "open"} : /\ at[c] \in {"look", "fetch"} /\ at' = [at EXCEPT ![c] = l]
                                       /\ UNCHANGED <<windows, parts, exists, exe, offset, ran, history>>
      BY <1>7 DEF NotCached, Verified
    <2> QED  BY <2>1
  <1>8. ASSUME NEW c \in Commands, DownloadFails(c) \/ OpenFails(c)  PROVE CacheWork'
    <2>1. /\ at[c] \in {"fetch", "open"} /\ at' = [at EXCEPT ![c] = "done"]
          /\ UNCHANGED <<windows, parts, exists, exe, offset, ran, history>>
      BY <1>8 DEF DownloadFails, OpenFails
    <2> QED  BY <2>1
  <1>10. ASSUME NEW c \in Commands, Killed(c)  PROVE CacheWork'
    <2>1. /\ at[c] \in {"fetch", "open", "write", "run"} /\ at' = [at EXCEPT ![c] = "done"]
          /\ brokenOff' = (brokenOff \/ (at[c] = "write" /\ offset[c] < Parts))
          /\ UNCHANGED <<windows, parts, exists, exe, offset, ran, overwritten>>
      BY <1>10 DEF Killed
    <2>2. CacheTypeOK' /\ (\A d \in Commands : at'[d] = "run" => IsExe') /\ (~overwritten' => OneWriter')
      BY <2>1
    <2>3. ASSUME ~overwritten', ~(windows' /\ brokenOff'), IsExe', Nobody'  PROVE parts = 1..Parts
      <3>1. CASE at[c] = "write"
        <4>1. parts = 1..offset[c] /\ ~exe /\ offset[c] \in 0..Parts /\ windows /\ ~(offset[c] < Parts)
          BY <2>1, <2>3, <3>1
        <4>2. offset[c] = Parts
          BY ONLY <4>1, PartsAssumption
        <4> QED  BY <4>1, <4>2
      <3>2. CASE at[c] # "write"
        <4>1. Nobody
          BY <2>1, <2>3, <3>2 DEF Nobody
        <4> QED  BY <2>1, <2>3, <3>2, <4>1 DEF Nobody
      <3> QED  BY <3>1, <3>2
    <2>4. ~overwritten' /\ ~(windows' /\ brokenOff') => \A d \in Commands : ran'[d] \in {{}, 1..Parts}
      BY <2>1
    <2>5. UNCHANGED parts
      BY <2>1
    <2>6. ExecutableIsWhole'
      BY <2>3, <2>4, <2>5 DEF Nobody
    <2> QED  BY <2>2, <2>6
  <1>9. ASSUME NEW c \in Commands, DirCreated(c)  PROVE CacheWork'
    BY <1>9 DEF DirCreated
  <1>2. ASSUME NEW c \in Commands, Open(c)  PROVE CacheWork'
    <2>1. CacheTypeOK' /\ \A d \in Commands : at'[d] = "run" => IsExe'
      BY <1>2, PartsAssumption DEF Open
    <2>2. ASSUME ~overwritten'
          PROVE  ~exe /\ ~exe' /\ exists' /\ ran' = ran /\ \A d \in Commands : at'[d] = "write" <=> d = c
      BY <1>2, <2>2 DEF Open
    <2>3. parts' = {} /\ offset'[c] = 0 /\ 1..0 = {} /\ UNCHANGED <<windows, brokenOff>>
      BY <1>2 DEF Open
    <2>4. ~overwritten' => ~overwritten
      BY <1>2 DEF Open
    <2>5. ~overwritten' => OneWriter'
      BY <2>2, <2>3
    <2>6. ExecutableIsWhole'
      BY <2>2, <2>3, <2>4
    <2> QED  BY <2>1, <2>5, <2>6
  <1>3. ASSUME NEW c \in Commands, Write(c)  PROVE CacheWork'
    <2>1. /\ at[c] = "write" /\ at' = at /\ offset[c] \in 0..Parts /\ offset[c] < Parts
          /\ offset' = [offset EXCEPT ![c] = @ + 1] /\ parts' = parts \cup {offset[c] + 1}
          /\ UNCHANGED <<windows, exists, exe, ran, history>>
      BY <1>3 DEF Write
    <2>2. parts' \in SUBSET (1..Parts)
      <3>1. parts \subseteq 1..Parts
        OBVIOUS
      <3>2. offset[c] + 1 \in 1..Parts
        BY <2>1, PartsAssumption
      <3> QED  BY ONLY <2>1, <3>1, <3>2
    <2>3. offset' \in [Commands -> 0..Parts]
      BY <2>1, PartsAssumption
    <2>4. ASSUME OneWriter  PROVE OneWriter'
      <3>1. parts' = 1..offset'[c] /\ ~exe /\ exists /\ \A d \in Commands : at[d] = "write" => d = c
        BY <2>1, <2>4, PartsAssumption
      <3> QED  BY <2>1, <2>4, <3>1
    <2>5. ExecutableIsWhole'
      BY <2>1
    <2> QED  BY <2>1, <2>2, <2>3, <2>4, <2>5
  <1>4. ASSUME NEW c \in Commands, Chmod(c)  PROVE CacheWork'
    BY <1>4 DEF Chmod
  <1>5. ASSUME NEW c \in Commands, Run(c)  PROVE CacheWork'
    <2>1. CacheTypeOK' /\ \A d \in Commands : at'[d] = "run" => IsExe'
      BY <1>5 DEF Run
    <2>2. \A d \in Commands : at'[d] = "write" <=> at[d] = "write"
      BY <1>5 DEF Run
    <2>3. UNCHANGED <<windows, exists, exe, parts, offset, history>> /\ at[c] = "run"
      BY <1>5 DEF Run
    <2>4. ASSUME ~overwritten', ~(windows' /\ brokenOff')
          PROVE  \A d \in Commands : ran'[d] \in {{}, 1..Parts}
      <3>1. CASE \E d \in Commands : at[d] = "write" /\ offset[d] < Parts
        BY <1>5, <2>3, <2>4, <3>1 DEF Run
      <3>2. CASE ~\E d \in Commands : at[d] = "write" /\ offset[d] < Parts
        <4>1. parts = 1..Parts /\ ran' = [ran EXCEPT ![c] = parts]
          BY <1>5, <2>3, <2>4, <3>2, RunsWhole DEF Run
        <4> QED  BY <2>3, <2>4, <4>1
      <3> QED  BY <3>1, <3>2
    <2>5. ExecutableIsWhole'
      BY <2>2, <2>3, <2>4
    <2>6. ~overwritten' => OneWriter'
      BY <2>2, <2>3
    <2> QED  BY <2>1, <2>5, <2>6
  <1>6. ASSUME CommandsEnd  PROVE CacheWork'
    <2>1. UNCHANGED <<windows, parts, exists, exe, at, offset, ran, overwritten, brokenOff>>
      BY <1>6 DEF CommandsEnd, cacheVars
    <2> QED  BY <2>1
  <1>11. ~OnPlatform
    BY DEF OnPlatform, Goto
  <1> QED  BY <1>p, <1>1, <1>2, <1>3, <1>4, <1>5, <1>6, <1>7, <1>8, <1>9, <1>10, <1>11 DEF CacheNext

\* However many commands share the cache, whichever of them fail or are killed, a
\* file that nobody writes and that is executed without a check is complete, as is
\* what was executed: unless one command opened the file while another wrote it, or
\* after its mode was changed, or one on Windows ended with the file in part.
THEOREM ExecutableAlwaysWhole == Spec => []ExecutableIsWhole
  <1>1. Init => CacheInv
    BY DEF Init, CacheInv
  <1>2. CacheInv /\ [Next]_vars => CacheInv'
    <2> SUFFICES ASSUME CacheInv, Apart(CacheAt, "cache"), UNCHANGED cacheVars  PROVE CacheInv'
      BY OwnSteps, CacheStep
    <2>1. CacheInit => CacheInit'
      BY DEF CacheInit, cacheVars, file, history
    <2>2. CacheWork => CacheWork'
      BY DEF CacheWork, CacheTypeOK, OneWriter, ExecutableIsWhole, IsExe, cacheVars, file, history
    <2> QED  BY <2>1, <2>2 DEF CacheInv, Apart, CacheAt, programVars
  <1>3. CacheInv => ExecutableIsWhole
    BY DEF CacheInv, CacheWork, CacheInit, ExecutableIsWhole, IsExe
  <1> QED  BY <1>1, <1>2, <1>3, PTL DEF Spec

------------------------------------------------------------------------------
(* Drift: describe, and the updates that exclude what it reported *)

DriftTypeOK ==
  /\ describes \in Nat
  /\ overlapped \in BOOLEAN
  /\ step \in [Updates -> {"idle", "read", "done"}]
  /\ DOMAIN loaded = Updates

\* What is known of the describe that runs, or of the last one.
DescribeWork ==
  /\ pc \in {"drift.run", "drift.show"} => shown = {}
  /\ pc = "drift.show" => exitCode = IF analysis = {} THEN 0 ELSE 1
  /\ pc \in {"drift", "done"} /\ describes > 0 =>
       /\ exitCode = 0 => analysis = {}
       /\ exitCode = 1 => analysis # {} /\ (shown = analysis \/ format = "html")
       /\ exitCode = 2 => shown = {}

\* The policy has all that was excluded, and an update that read it has read the
\* policy that there is.
NoneLost ==
  /\ saved \subseteq excluded
  /\ \A u, v \in Updates : step[u] = "read" /\ step[v] = "read" => u = v
  /\ \A u \in Updates : step[u] = "read" => loaded[u] = excluded
  /\ savedBefore \subseteq ignore
  /\ pc = "drift.show" => analysis \cap ignore = {}
  /\ shown \cap savedBefore = {}

DriftWork == DriftTypeOK /\ DescribeWork /\ (overlapped \/ NoneLost)

DriftInv ==
  \/ DriftInit /\ pc \notin DriftAt
  \/ DriftWork /\ pc \in DriftAt \cup {"done"}

LEMMA DescribeStep ==
  ASSUME DriftWork, pc \in DriftAt,
         DescribeRejected \/ Describe \/ DescribeFails \/ DriftctlExits \/ ProcessAnalysis \/ DriftEnds
  PROVE  DriftWork'
  <1> USE DEF DriftWork, DriftTypeOK, DescribeWork, NoneLost, Goto, updateVars, describeVars
  <1>1. CASE DescribeRejected
    BY <1>1 DEF DescribeRejected
  <1>2. CASE Describe
    BY <1>2 DEF Describe
  <1>3. CASE DescribeFails
    BY <1>3 DEF DescribeFails, driftVars
  <1>4. CASE DriftctlExits
    <2>1. /\ pc = "drift.run" /\ analysis' \cap ignore = {}
          /\ \/ pc' = "drift" /\ exitCode' = 2
             \/ pc' = "drift.show" /\ exitCode' = IF analysis' = {} THEN 0 ELSE 1
          /\ UNCHANGED <<format, describes, ignore, shown, savedBefore, updateVars>>
      BY <1>4 DEF DriftctlExits, TranslateExitCode
    <2> QED  BY <2>1
  <1>5. CASE ProcessAnalysis
    BY <1>5 DEF ProcessAnalysis
  <1>6. CASE DriftEnds
    BY <1>6 DEF DriftEnds, driftVars
  <1> QED  BY <1>1, <1>2, <1>3, <1>4, <1>5, <1>6

LEMMA UpdateStep ==
  ASSUME DriftWork, pc \in DriftAt, NEW u \in Updates,
         UpdateReads(u) \/ UpdateFails(u) \/ UpdateSaves(u)
  PROVE  DriftWork'
  <1> USE DEF DriftWork, DriftTypeOK, NoneLost
  <1>1. DescribeWork'
    BY DEF DescribeWork, UpdateReads, UpdateFails, UpdateSaves, programVars, describeVars
  <1>2. CASE UpdateReads(u)
    <2>1. DriftTypeOK'
      BY <1>2 DEF UpdateReads, Steps, describeVars
    <2>2. ASSUME ~overlapped'  PROVE NoneLost'
      <3>1. ~overlapped /\ \A v \in Updates : step[v] # "read"
        BY <1>2, <2>2 DEF UpdateReads, Idle
      <3> QED  BY <1>2, <3>1 DEF UpdateReads, Steps, programVars, describeVars
    <2> QED  BY <1>1, <2>1, <2>2
  <1>3. CASE UpdateFails(u)
    <2>1. step' = [step EXCEPT ![u] = "done"]
      BY <1>3 DEF UpdateFails, Steps
    <2> QED  BY <1>1, <1>3, <2>1 DEF UpdateFails, programVars, describeVars
  <1>4. CASE UpdateSaves(u)
    <2>1. DriftTypeOK'
      BY <1>4 DEF UpdateSaves, Steps, describeVars
    <2>2. ASSUME ~overlapped'  PROVE NoneLost'
      <3>1. ~overlapped /\ saved \subseteq excluded /\ loaded[u] = excluded
        BY <1>4, <2>2 DEF UpdateSaves, Steps
      <3>2. saved' \subseteq excluded'
        BY <1>4, <3>1 DEF UpdateSaves, UpdateExclude
      <3>3. \A v \in Updates : step'[v] # "read"
        BY <1>4, <3>1 DEF UpdateSaves, Steps
      <3> QED  BY <1>4, <3>1, <3>2, <3>3 DEF UpdateSaves, programVars, describeVars
    <2> QED  BY <1>1, <2>1, <2>2
  <1> QED  BY <1>2, <1>3, <1>4

LEMMA DriftStep == ASSUME DriftInv, DriftNext PROVE DriftInv'
  <1>1. pc \in DriftAt /\ pc' \in DriftAt \cup {"done"}
    BY DriftWithin DEF Within
  <1>2. DriftWork
    BY <1>1 DEF DriftInv
  <1>3. DriftWork'
    BY <1>1, <1>2, DescribeStep, UpdateStep DEF DriftNext
  <1> QED  BY <1>1, <1>3 DEF DriftInv

\* However many updates and describes run, the exit code and the output of a
\* describe that is over agree, and no describe shows what was excluded before
\* it, unless two updates overlapped.
THEOREM DescribeAlwaysHonest == Spec => []DescribeIsHonest
  <1>1. Init => DriftInv
    BY DEF Init, DriftInv, DriftAt
  <1>2. Chosen /\ DriftInv /\ [Next]_vars => DriftInv'
    <2> SUFFICES ASSUME Chosen, DriftInv, [Next]_vars, Apart(DriftAt, "drift"), UNCHANGED driftVars  PROVE DriftInv'
      BY OwnSteps, DriftStep
    <2>1. CASE UNCHANGED programVars
      BY <2>1 DEF DriftInv, DriftInit, DriftWork, DriftTypeOK, DescribeWork, NoneLost, driftVars, describeVars,
                  updateVars, programVars
    <2>2. CASE DriftInit /\ pc' \notin DriftAt
      BY <2>2 DEF DriftInv, DriftInit, driftVars, describeVars, updateVars
    <2>3. CASE DriftInit /\ pc = "choose" /\ pc' = "drift"
      <3>1. DriftTypeOK
        BY <2>3 DEF DriftInit, DriftTypeOK
      <3>2. DriftWork'
        BY <2>3, <3>1 DEF DriftInit, DriftWork, DriftTypeOK, DescribeWork, NoneLost, driftVars, describeVars, updateVars
      <3> QED  BY <2>3, <3>2 DEF DriftInv, DriftAt
    <2> QED  BY <2>1, <2>2, <2>3 DEF DriftInv, Apart, DriftAt
  <1>3. DriftInv => DescribeIsHonest
    BY DEF DriftInv, DriftInit, DriftWork, DescribeWork, NoneLost, DriftAt, DescribeIsHonest
  <1> QED  BY <1>1, <1>2, <1>3, ChosenHolds, PTL DEF Spec

------------------------------------------------------------------------------
(* The policy engine of infrastructure scans, v2 *)

IacV2Work ==
  /\ tempDir \in {"none", "there", "left"}
  /\ engineOutput.vulnerabilities \in BOOLEAN
  /\ pc \in {"iacv2", "iacv2.temp"} => engineOutput = Broken("absent")
  /\ pc = "iacv2.output" =>
       /\ engineOutput.state = "whole" /\ tempDir # "there"
       /\ \A i \in DOMAIN engineOutput.errors : engineOutput.errors[i] # "Fatal"
  /\ EngineExitIsHonest

IacV2Inv ==
  \/ IacV2Init /\ pc \notin IacV2At
  \/ IacV2Work /\ pc \in IacV2At \cup {"done"}

LEMMA IacV2Step == ASSUME IacV2Inv, IacV2Next PROVE IacV2Inv'
  <1> USE DEF IacV2Work, Goto, Exit, programVars, iacV2Vars
  <1>1. pc \in IacV2At /\ pc' \in IacV2At \cup {"done"}
    BY IacV2Within DEF Within
  <1>2. IacV2Work
    BY <1>1 DEF IacV2Inv
  <1>3. CASE IacV2Rejected \/ EngineFound
    BY <1>1, <1>2, <1>3 DEF IacV2Rejected, EngineFound, EngineExitIsHonest, IacV2Inv, Broken
  <1>4. CASE TempFails \/ TempCreated
    BY <1>1, <1>2, <1>4 DEF TempFails, TempCreated, EngineExitIsHonest, IacV2Inv, Broken
  <1>5. CASE EngineWrites
    <2>1. engineOutput'.vulnerabilities \in BOOLEAN
      <3>1. CASE engineOutput' = Broken("cut")
        BY <3>1 DEF Broken
      <3>2. CASE engineOutput' # Broken("cut")
        <4>1. \E errs, r : \E v \in BOOLEAN : engineOutput' = Whole(errs, r, v)
          BY <1>5, <3>2 DEF EngineWrites
        <4> QED  BY <4>1 DEF Whole
      <3> QED  BY <3>1, <3>2
    <2>2. pc = "iacv2.run" /\ UNCHANGED <<programVars, tempDir>>
      BY <1>5 DEF EngineWrites
    <2> QED  BY <1>1, <1>2, <2>1, <2>2 DEF EngineExitIsHonest, IacV2Inv
  <1>6. CASE EngineFails \/ EngineExits
    <2>1. tempDir' \in {"none", "left"} /\ UNCHANGED engineOutput
      BY <1>2, <1>6 DEF EngineFails, EngineExits, Removed
    <2>2. \/ pc' = "done" /\ exitCode' = 2
          \/ /\ pc' = "iacv2.output" /\ engineOutput.state = "whole"
             /\ \A i \in DOMAIN engineOutput.errors : engineOutput.errors[i] # "Fatal"
      BY <1>6 DEF EngineFails, EngineExits
    <2> QED  BY <1>1, <1>2, <2>1, <2>2 DEF EngineExitIsHonest, IacV2Inv
  <1>7. CASE BuildOutputV2
    BY <1>1, <1>2, <1>7 DEF BuildOutputV2, SuccessfulScans, EngineExitIsHonest, IacV2Inv
  <1> QED  BY <1>3, <1>4, <1>5, <1>6, <1>7 DEF IacV2Next

\* Whatever the engine writes, and however it ends, the exit code is one that its
\* output justifies, and its directory is left only when it cannot be removed.
THEOREM EngineExitAlwaysHonest == Spec => []EngineExitIsHonest
  <1>1. Init => IacV2Inv
    BY DEF Init, IacV2Inv, IacV2At
  <1>2. Chosen /\ IacV2Inv /\ [Next]_vars => IacV2Inv'
    <2> SUFFICES ASSUME Chosen, IacV2Inv, [Next]_vars, Apart(IacV2At, "iacv2"), UNCHANGED iacV2Vars  PROVE IacV2Inv'
      BY OwnSteps, IacV2Step
    <2>1. CASE UNCHANGED programVars
      BY <2>1 DEF IacV2Inv, IacV2Work, IacV2Init, EngineExitIsHonest, iacV2Vars, programVars
    <2>2. CASE IacV2Init /\ pc' \notin IacV2At
      BY <2>2 DEF IacV2Inv, IacV2Init, iacV2Vars
    <2>3. CASE IacV2Init /\ pc' = "iacv2"
      BY <2>3 DEF IacV2Inv, IacV2Init, IacV2Work, EngineExitIsHonest, IacV2At, Broken, iacV2Vars
    <2> QED  BY <2>1, <2>2, <2>3 DEF IacV2Inv, Apart, IacV2At
  <1>3. IacV2Inv => EngineExitIsHonest
    BY DEF IacV2Inv, IacV2Work, IacV2Init, EngineExitIsHonest, Broken
  <1> QED  BY <1>1, <1>2, <1>3, ChosenHolds, PTL DEF Spec

------------------------------------------------------------------------------
(* Code analysis *)

CodeWork ==
  /\ sarif \subseteq Results
  /\ pc \in CodeAt \ {"code.display", "code.results"} => sarif = {}
  /\ "report" \notin codeOptions => \A r \in sarif : ~r.suppressed
  /\ pc = "code.results" => /\ displayed = {r \in sarif : ~r.suppressed /\ r.shape = "full"}
                            /\ \A r \in FoundIssues : r.shape # "odd"
                            /\ printed = IF "print" \in codeOptions THEN sarif ELSE displayed
  /\ pc \in CodeAt => files = <<>>
  /\ CodeExitIsHonest

CodeInv ==
  \/ CodeInit /\ pc \notin CodeAt
  \/ CodeWork /\ pc \in CodeAt \cup {"done"}

\* With or without --report, the issues are the results without a suppression.
LEMMA IssuesAreFound == ASSUME CodeWork PROVE FoundIssues = {r \in sarif : ~r.suppressed}
  BY DEF CodeWork, FoundIssues, FilterIgnored

LEMMA CodeStep == ASSUME CodeInv, CodeNext PROVE CodeInv'
  <1> USE DEF CodeWork, Goto, Exit, codeVars, CodeExitIsHonest
  <1>1. pc \in CodeAt /\ pc' \in CodeAt \cup {"done"}
    BY CodeWithin DEF Within
  <1>2. CodeWork
    BY <1>1 DEF CodeInv
  <1> SUFFICES CodeWork'
    BY <1>1 DEF CodeInv
  <1>3. CASE SettingsRefused \/ SettingsReceived \/ AnalysisFails \/ NothingToAnalyse
    BY <1>2, <1>3 DEF SettingsRefused, SettingsReceived, AnalysisFails, NothingToAnalyse, CodeAt
  <1>4. CASE EngineAsked \/ EngineAnswers \/ NoEngineAsked
    BY <1>2, <1>4 DEF EngineAsked, EngineAnswers, NoEngineAsked, CodeAt
  <1>5. CASE Analysed
    BY <1>2, <1>5 DEF Analysed, SecurityResults, CodeAt
  <1>6. CASE DisplayFails
    BY <1>2, <1>6 DEF DisplayFails, CodeAt
  <1>7. CASE Displayed
    BY <1>2, <1>7 DEF Displayed, FoundIssues, FilterIgnored, CodeAt
  <1>8. CASE CodeIssuesFound \/ NoCodeIssues
    <2>1. /\ FoundIssues = {r \in sarif : ~r.suppressed} /\ UNCHANGED <<codeOptions, sarif, displayed>>
          /\ displayed = {r \in sarif : ~r.suppressed /\ r.shape = "full"}
          /\ \A r \in FoundIssues : r.shape # "odd"
      BY <1>2, <1>8, IssuesAreFound DEF CodeIssuesFound, NoCodeIssues
    <2>2. \A r \in sarif : r.shape \in {"full", "bare", "odd"}
      BY <1>2 DEF Results
    <2>3. displayed = {r \in sarif : ~r.suppressed /\ r.shape # "bare"}
      BY <2>1, <2>2
    <2>4. printed' = IF "print" \in codeOptions' THEN sarif'
                     ELSE {r \in sarif' : ~r.suppressed /\ r.shape # "bare"}
      BY <1>2, <1>8, <2>1, <2>3 DEF CodeIssuesFound, NoCodeIssues
    <2>5. /\ \A f \in DOMAIN files' : files'[f] = sarif'
          /\ exitCode' = 1 => codeOptions' \cap {"jsonFile", "sarifFile"} \subseteq DOMAIN files'
      BY <1>8, <2>1 DEF CodeIssuesFound, NoCodeIssues
    <2>6. CodeExitIsHonest'
      BY <1>8, <2>1, <2>4, <2>5 DEF CodeIssuesFound, NoCodeIssues
    <2> QED  BY <1>2, <1>8, <2>1, <2>6 DEF CodeIssuesFound, NoCodeIssues, CodeAt
  <1> QED  BY <1>3, <1>4, <1>5, <1>6, <1>7, <1>8 DEF CodeNext

\* However many results the analysis has, the exit code and the text agree on those
\* that are issues, and the files and the JSON or SARIF output hold all of them.
THEOREM CodeExitAlwaysHonest == Spec => []CodeExitIsHonest
  <1>1. Init => CodeInv
    BY DEF Init, CodeInv, CodeAt
  <1>2. Chosen /\ CodeInv /\ [Next]_vars => CodeInv'
    <2> SUFFICES ASSUME Chosen, CodeInv, [Next]_vars, Apart(CodeAt, "code"), UNCHANGED codeVars  PROVE CodeInv'
      BY OwnSteps, CodeStep
    <2> QED  BY DEF CodeInv, CodeWork, CodeInit, CodeAt, Apart, CodeExitIsHonest, FoundIssues, FilterIgnored,
                    codeVars, programVars
  <1>3. CodeInv => CodeExitIsHonest
    BY DEF CodeInv, CodeWork, CodeInit, CodeExitIsHonest
  <1> QED  BY <1>1, <1>2, <1>3, ChosenHolds, PTL DEF Spec

------------------------------------------------------------------------------
(* vulnmap fix, around the fix itself *)

FixTypeOK ==
  /\ quiet \in BOOLEAN
  /\ projects \in Seq(BOOLEAN)
  /\ fixPath \in 1..(FixPaths + 1) /\ (pc \in {"fix", "fix.test"} => fixPath <= FixPaths)
  /\ untested \in SUBSET (1..(fixPath - 1))
  /\ fixed \in Nat /\ failed \in Nat

Vulnerable == Count(projects, TRUE)

\* A path whose projects are known was tested, and a fix that failed had a
\* vulnerable project to fix.
FixWork ==
  /\ FixTypeOK
  /\ ~quiet \/ pc = "fix" => told = untested
  /\ projects # <<>> => \E p \in 1..(fixPath - 1) : p \notin untested
  /\ pc = "fix.end" /\ Vulnerable = 0 => failed = 0
  /\ UntestedIsTold

FixInv ==
  \/ FixInit /\ pc \notin FixAt
  \/ FixWork /\ pc \in FixAt \cup {"done"}

LEMMA VulnerableType == ASSUME projects \in Seq(BOOLEAN) PROVE Vulnerable \in Nat
  <1> DEFINE S == {i \in DOMAIN projects : projects[i] = TRUE}
  <1>1. IsFiniteSet(1..Len(projects))
    BY FS_Interval
  <1>2. S \subseteq 1..Len(projects)
    OBVIOUS
  <1>3. IsFiniteSet(S)
    BY ONLY <1>1, <1>2, FS_Subset
  <1>4. Cardinality(S) \in Nat
    BY ONLY <1>3, FS_CardinalityType
  <1> QED  BY <1>4 DEF Count, Vulnerable

\* Paths of which one was tested.
LEMMA NotAll ==
  ASSUME NEW n \in Nat, NEW S \in SUBSET (1..n), NEW p \in 1..n, p \notin S
  PROVE  Cardinality(S) < n
  <1>1. IsFiniteSet(1..n) /\ Cardinality(1..n) = n
    BY FS_Interval
  <1>2. IsFiniteSet((1..n) \ {p}) /\ Cardinality((1..n) \ {p}) = n - 1
    BY ONLY <1>1, FS_RemoveElement, p \in 1..n
  <1>3. S \subseteq (1..n) \ {p}
    OBVIOUS
  <1>4. IsFiniteSet(S) /\ Cardinality(S) <= Cardinality((1..n) \ {p})
    BY ONLY <1>2, <1>3, FS_Subset
  <1>5. Cardinality(S) \in Nat
    BY ONLY <1>4, FS_CardinalityType
  <1> QED  BY ONLY <1>2, <1>4, <1>5, n \in Nat

LEMMA FixStep == ASSUME FixInv, FixNext PROVE FixInv'
  <1> USE FixPathsAssumption DEF Goto, Exit, fixVars
  <1>1. pc \in FixAt /\ pc' \in FixAt \cup {"done"}
    BY FixWithin DEF Within
  <1>2. FixWork
    BY <1>1 DEF FixInv
  <1> SUFFICES FixWork'
    BY <1>1 DEF FixInv
  <1>3. CASE FixRejected \/ FixAccepted
    <2>1. /\ pc = "fix" /\ quiet' \in BOOLEAN /\ UNCHANGED <<fixPath, projects, untested, told, fixed, failed>>
          /\ (pc' = "fix.test" \/ (pc' = "done" /\ exitCode' = 2 /\ quiet' = quiet))
      BY <1>2, <1>3 DEF FixRejected, FixAccepted, FixWork, FixTypeOK
    <2> QED  BY <1>2, <2>1 DEF FixWork, FixTypeOK, UntestedIsTold
  <1>4. CASE PathTested
    <2>1. PICK n \in 1..MaxProjects : \E vulnerable \in [1..n -> BOOLEAN] : projects' = projects \o vulnerable
      BY <1>4 DEF PathTested
    <2>2. PICK vulnerable \in [1..n -> BOOLEAN] : projects' = projects \o vulnerable
      BY <2>1
    <2>3. vulnerable \in Seq(BOOLEAN)
      OBVIOUS
    <2>4. projects' \in Seq(BOOLEAN)
      BY <1>2, <2>2, <2>3 DEF FixWork, FixTypeOK
    <2>5. /\ pc = "fix.test" /\ fixPath' = fixPath + 1 /\ pc' = (IF fixPath = FixPaths THEN "fix.fix" ELSE "fix.test")
          /\ UNCHANGED <<quiet, untested, told, fixed, failed>>
      BY <1>4 DEF PathTested, AfterPath
    <2>6. FixTypeOK'
      BY <1>2, <2>4, <2>5 DEF FixWork, FixTypeOK
    <2>7. fixPath \in 1..(fixPath' - 1) /\ fixPath \notin untested'
      BY <1>2, <2>5 DEF FixWork, FixTypeOK
    <2> QED  BY <1>2, <2>5, <2>6, <2>7 DEF FixWork, UntestedIsTold
  <1>5. CASE PathFailed
    <2>1. /\ pc = "fix.test" /\ fixPath' = fixPath + 1 /\ pc' = (IF fixPath = FixPaths THEN "fix.fix" ELSE "fix.test")
          /\ untested' = untested \cup {fixPath} /\ told' = (IF quiet THEN told ELSE told \cup {fixPath})
          /\ UNCHANGED <<quiet, projects, fixed, failed>>
      BY <1>5 DEF PathFailed, AfterPath
    <2>2. FixTypeOK'
      BY <1>2, <2>1 DEF FixWork, FixTypeOK
    <2>3. \A p \in 1..(fixPath - 1) : p \in 1..(fixPath' - 1) /\ p # fixPath
      BY <1>2, <2>1 DEF FixWork, FixTypeOK
    <2> QED  BY <1>2, <2>1, <2>2, <2>3 DEF FixWork, UntestedIsTold
  <1>6. CASE Fixed
    <2>1. Vulnerable \in Nat
      BY <1>2, VulnerableType DEF FixWork, FixTypeOK
    <2>2. fixed' \in 0..Vulnerable /\ failed' \in 0..(Vulnerable - fixed')
      BY <1>6, Zenon DEF Fixed, Vulnerable
    <2>3. fixed' \in Nat /\ failed' \in Nat /\ (Vulnerable = 0 => failed' = 0)
      <3>1. ASSUME NEW n \in Nat, NEW f \in 0..n, NEW g \in 0..(n - f)
            PROVE  f \in Nat /\ g \in Nat /\ (n = 0 => g = 0)
        OBVIOUS
      <3> QED  BY ONLY <2>1, <2>2, <3>1, Zenon
    <2>4. pc' = "fix.end" /\ UNCHANGED <<quiet, fixPath, projects, untested, told>>
      BY <1>6 DEF Fixed
    <2>5. Vulnerable' = Vulnerable
      BY <2>4 DEF Vulnerable
    <2> QED  BY <1>2, <2>3, <2>4, <2>5 DEF FixWork, FixTypeOK, UntestedIsTold
  <1>7. CASE FixEnds
    <2>1. pc = "fix.end" /\ pc' = "done" /\ exitCode' = FixExitCode /\ UNCHANGED fixVars
      BY <1>7 DEF FixEnds
    <2>2. ASSUME exitCode' = 0
          PROVE  Cardinality(untested) < FixPaths /\ (failed > 0 => fixed > 0)
      <3>1. projects # <<>> /\ (failed > 0 => fixed > 0)
        <4>1. FixExitCode = IF projects = <<>> THEN 2 ELSE IF Vulnerable = 0 THEN 0
                            ELSE IF failed > 0 /\ fixed = 0 THEN 2 ELSE 0
          BY Zenon DEF FixExitCode, Vulnerable
        <4>2. FixExitCode = 0 /\ fixed \in Nat
          BY <1>2, <2>1, <2>2 DEF FixWork, FixTypeOK
        <4>3. projects # <<>> /\ (Vulnerable = 0 \/ ~(failed > 0 /\ fixed = 0))
          BY ONLY <4>1, <4>2
        <4>4. Vulnerable = 0 => failed = 0
          BY <1>2, <2>1 DEF FixWork
        <4> QED  BY ONLY <4>2, <4>3, <4>4
      <3>2. PICK p \in 1..(fixPath - 1) : p \notin untested
        BY <1>2, <3>1 DEF FixWork
      <3>3. p \in 1..FixPaths /\ untested \in SUBSET (1..FixPaths)
        BY <1>2, <3>2 DEF FixWork, FixTypeOK
      <3> QED  BY <3>1, <3>2, <3>3, NotAll
    <2>3. UntestedIsTold'
      BY <1>2, <2>1, <2>2 DEF FixWork, UntestedIsTold
    <2> QED  BY <1>2, <2>1, <2>3 DEF FixWork, FixTypeOK
  <1> QED  BY <1>3, <1>4, <1>5, <1>6, <1>7 DEF FixNext

\* However many paths and projects there are, a path that is not tested is told,
\* and with exit code 0 some path was tested and not all fixes failed.
THEOREM UntestedAlwaysTold == Spec => []UntestedIsTold
  <1>1. Init => FixInv
    BY DEF Init, FixInv, FixAt
  <1>2. Cardinality({}) = 0
    BY FS_EmptySet
  <1>3. FixInit => UntestedIsTold
    BY <1>2, FixPathsAssumption DEF FixInit, UntestedIsTold
  <1>4. Chosen /\ FixInv /\ [Next]_vars => FixInv'
    <2> SUFFICES ASSUME Chosen, FixInv, [Next]_vars, Apart(FixAt, "fix"), UNCHANGED fixVars  PROVE FixInv'
      BY OwnSteps, FixStep
    <2>1. CASE UNCHANGED programVars
      BY <2>1 DEF FixInv, FixInit, FixWork, FixTypeOK, UntestedIsTold, Vulnerable, fixVars, programVars
    <2>2. CASE FixInit /\ pc' \notin FixAt
      BY <2>2 DEF FixInv, FixInit, fixVars
    <2>3. CASE FixInit /\ pc' = "fix"
      <3>1. FixInit'
        BY <2>3 DEF FixInit, fixVars
      <3>2. fixPath' \in 1..(FixPaths + 1) /\ fixPath' <= FixPaths /\ projects' \in Seq(BOOLEAN)
        BY <3>1, FixPathsAssumption DEF FixInit
      <3>3. FixTypeOK'
        BY <3>1, <3>2 DEF FixInit, FixTypeOK
      <3> QED  BY <2>3, <3>1, <3>3 DEF FixInv, FixInit, FixWork, UntestedIsTold, FixAt
    <2> QED  BY <2>1, <2>2, <2>3 DEF FixInv, Apart, FixAt
  <1>5. FixInv => UntestedIsTold
    BY <1>3 DEF FixInv, FixWork
  <1> QED  BY <1>1, <1>4, <1>5, ChosenHolds, PTL DEF Spec

------------------------------------------------------------------------------
(* Protect *)

Pairs == Modules \X Vulns

ProtectTypeOK ==
  /\ runs \in Nat
  /\ policy \in SUBSET Vulns
  /\ patched \in [Modules -> [Files -> Nat]]
  /\ flag \in [Modules -> [Files -> BOOLEAN]]
  /\ unflagged \in [Modules -> [Files -> Nat]]
  /\ todo \in SUBSET Pairs /\ reported \in SUBSET Pairs /\ sent \in SUBSET Pairs
  /\ diffs \in SUBSET Files
  /\ pc = "protect.apply" => current \in Pairs
  /\ pc = "protect.flag" => current \in Modules \X Vulns \X Files

\* The file m, f is the one just written, whose flag is not there yet.
FlagMissing(m, f) == pc = "protect.flag" /\ current[1] = m /\ current[3] = f

\* A file has had a patch for each run that ended before its flag, and one if it
\* has its flag or is the one just written.
FlagsAreTrue ==
  \A m \in Modules, f \in Files :
    /\ patched[m][f] = unflagged[m][f] + IF flag[m][f] \/ FlagMissing(m, f) THEN 1 ELSE 0
    /\ FlagMissing(m, f) => ~flag[m][f]

\* All the files of a pair.
AllPatched(p, S) == \A f \in FilesOf[p[2]] \cap S : patched[p[1]][f] > 0

ProtectWork ==
  /\ ProtectTypeOK
  /\ FlagsAreTrue
  /\ pc \in {"protect.apply", "protect.flag"} => AllPatched(current, Files \ diffs)
  /\ \A p \in reported \cup sent : AllPatched(p, Files)
  /\ runs = 0 => /\ pc \in {"protect", "done"} /\ reported = {} /\ sent = {}
                 /\ \A m \in Modules, f \in Files : unflagged[m][f] = 0

ProtectInv ==
  \/ ProtectInit /\ pc \notin ProtectAt
  \/ ProtectWork /\ pc \in ProtectAt \cup {"done"}

\* Another run, or none.
LEMMA ProtectEnding ==
  ASSUME ProtectTypeOK, NEW l \in ProtectAt, EndsProtect(l)
  PROVE  pc = l /\ pc' \in {"done", "protect"} /\ runs' \in Nat /\ (runs' = 0 => runs = 0)
  BY DEF ProtectTypeOK, EndsProtect, Exit, Goto

\* Steps that end a run, and touch no file.
LEMMA ProtectEnds ==
  ASSUME ProtectWork, pc \in ProtectAt,
         \/ NothingAsked \/ FetchFails \/ PatchMismatch \/ SendReport
         \/ KillProtect /\ UNCHANGED unflagged /\ pc # "protect.flag"
  PROVE  ProtectWork'
  <1>1. ProtectTypeOK /\ UNCHANGED <<policy, disk, unflagged>>
    BY DEF ProtectWork, NothingAsked, FetchFails, PatchMismatch, SendReport, KillProtect
  <1>2. pc' \in {"done", "protect"} /\ runs' \in Nat /\ (runs' = 0 => runs = 0) /\ pc # "protect.flag"
    BY <1>1, ProtectEnding DEF ProtectAt, NothingAsked, FetchFails, PatchMismatch, SendReport, KillProtect
  <1>3. /\ todo' \in {todo, {}} /\ diffs' \in {diffs, {}} /\ reported' \in {reported, {}}
        /\ sent' \in {sent, reported, {}}
    BY DEF NothingAsked, FetchFails, PatchMismatch, SendReport, KillProtect, work
  <1>4. ProtectTypeOK'
    BY <1>1, <1>2, <1>3 DEF ProtectTypeOK, disk
  <1>5. FlagsAreTrue'
    <2>1. \A m, f : ~FlagMissing(m, f) /\ ~FlagMissing(m, f)'
      BY <1>2 DEF FlagMissing
    <2>2. UNCHANGED <<patched, flag, unflagged>>
      BY <1>1 DEF disk
    <2> QED  BY <2>1, <2>2 DEF ProtectWork, FlagsAreTrue
  <1>6. \A p \in (reported \cup sent)' : AllPatched(p, Files)'
    BY <1>1, <1>3 DEF ProtectWork, AllPatched, disk
  <1>7. runs' = 0 => /\ reported' = {} /\ sent' = {}
                    /\ \A m \in Modules, f \in Files : unflagged'[m][f] = 0
    <2>1. unflagged' = unflagged
      BY <1>1
    <2>2. runs' = 0 => /\ reported = {} /\ sent = {}
                      /\ \A m \in Modules, f \in Files : unflagged[m][f] = 0
      BY <1>2 DEF ProtectWork
    <2> QED  BY <1>3, <2>1, <2>2
  <1> QED  BY <1>2, <1>4, <1>5, <1>6, <1>7 DEF ProtectWork

\* The file just written stays without a flag, or has it and the run ends.
LEMMA ProtectBreaks ==
  ASSUME ProtectWork, pc = "protect.flag",
         FlagFails \/ (KillProtect /\ LeftUnflagged)
  PROVE  ProtectWork'
  <1>1. PICK m \in Modules, v \in Vulns, g \in Files : current = <<m, v, g>>
    BY DEF ProtectWork, ProtectTypeOK
  <1>2. /\ EndsProtect("protect.flag") /\ UNCHANGED <<policy, patched, work, sent>>
        /\ \/ unflagged' = [unflagged EXCEPT ![m][g] = @ + 1] /\ UNCHANGED flag
           \/ flag' = [flag EXCEPT ![m][g] = TRUE] /\ UNCHANGED unflagged
    <2>1. CASE FlagFails
      BY <1>1, <2>1 DEF FlagFails, LeftUnflagged
    <2>2. CASE KillProtect /\ LeftUnflagged
      <3>1. EndsProtect("protect.flag")
        BY <2>2 DEF KillProtect, EndsProtect, Exit, Goto
      <3> QED  BY <1>1, <2>2, <3>1 DEF KillProtect, LeftUnflagged, disk
    <2> QED  BY <2>1, <2>2
  <1>3. pc' \in {"done", "protect"} /\ runs' \in Nat /\ (runs' = 0 => runs = 0)
    BY <1>2, ProtectEnding DEF ProtectWork, ProtectAt
  <1>4. ProtectTypeOK'
    <2>1. CASE unflagged' = [unflagged EXCEPT ![m][g] = @ + 1] /\ UNCHANGED flag
      <3>1. unflagged \in [Modules -> [Files -> Nat]] /\ flag \in [Modules -> [Files -> BOOLEAN]]
        BY DEF ProtectWork, ProtectTypeOK
      <3>2. unflagged' \in [Modules -> [Files -> Nat]]
        BY <2>1, <3>1
      <3> QED  BY <1>2, <1>3, <2>1, <3>1, <3>2 DEF ProtectWork, ProtectTypeOK, work
    <2>2. CASE flag' = [flag EXCEPT ![m][g] = TRUE] /\ UNCHANGED unflagged
      BY <1>2, <1>3, <2>2 DEF ProtectWork, ProtectTypeOK, work
    <2> QED  BY <1>2, <2>1, <2>2
  <1>5. ASSUME NEW n \in Modules, NEW f \in Files
        PROVE  /\ patched'[n][f] = unflagged'[n][f] + IF flag'[n][f] \/ FlagMissing(n, f)' THEN 1 ELSE 0
               /\ ~FlagMissing(n, f)'
    <2>1. ~FlagMissing(n, f)' /\ patched' = patched
      BY <1>2, <1>3 DEF FlagMissing
    <2>2. FlagMissing(n, f) <=> n = m /\ f = g
      BY <1>1 DEF FlagMissing
    <2>3. /\ patched[n][f] = unflagged[n][f] + IF flag[n][f] \/ FlagMissing(n, f) THEN 1 ELSE 0
          /\ unflagged[n][f] \in Nat /\ flag[n][f] \in BOOLEAN /\ (FlagMissing(n, f) => ~flag[n][f])
      BY DEF ProtectWork, ProtectTypeOK, FlagsAreTrue
    <2>4. \/ /\ unflagged'[n][f] = IF n = m /\ f = g THEN unflagged[n][f] + 1 ELSE unflagged[n][f]
             /\ flag'[n][f] = flag[n][f]
          \/ /\ flag'[n][f] <=> flag[n][f] \/ (n = m /\ f = g)
             /\ unflagged'[n][f] = unflagged[n][f]
      BY <1>2 DEF ProtectWork, ProtectTypeOK
    <2> QED  BY <2>1, <2>2, <2>3, <2>4
  <1>6. \A p \in (reported \cup sent)' : AllPatched(p, Files)'
    BY <1>2 DEF ProtectWork, AllPatched, work
  <1> QED  BY <1>2, <1>3, <1>4, <1>5, <1>6 DEF ProtectWork, FlagsAreTrue, work

\* Steps that choose what to patch.
LEMMA ProtectChooses ==
  ASSUME ProtectWork, pc \in ProtectAt,
         ReadPolicy \/ PatchesFetched \/ NextPatch \/ SkipFile \/ ModulePatched
  PROVE  ProtectWork'
  <1> USE DEF ProtectWork, ProtectTypeOK, Goto, programVars
  <1>1. UNCHANGED <<disk, unflagged>> /\ pc # "protect.flag" /\ pc' # "protect.flag"
    BY ProtectEnding DEF ReadPolicy, PatchesFetched, NextPatch, SkipFile, ModulePatched, ProtectAt
  <1>2. FlagsAreTrue'
    BY <1>1 DEF FlagsAreTrue, FlagMissing, disk
  <1>3. CASE ReadPolicy
    <2>1. /\ policy' \in SUBSET Vulns /\ todo' = {} /\ diffs' = {} /\ reported' = {} /\ sent' = {}
          /\ pc' = "protect.fetch" /\ runs' = runs /\ runs > 0
      BY <1>3 DEF ReadPolicy
    <2> QED  BY <1>1, <1>2, <2>1 DEF disk
  <1>4. CASE PatchesFetched
    <2>1. pc' \in {"done", "protect", "protect.next"} /\ runs' \in Nat /\ (runs' = 0 => runs = 0) /\ pc = "protect.fetch"
      BY <1>4, ProtectEnding DEF PatchesFetched, ProtectAt
    <2>2. todo' \in SUBSET Pairs /\ UNCHANGED <<policy, disk, diffs, current, reported, sent, unflagged>>
      BY <1>4 DEF PatchesFetched, FoundModules, AllPatches, Pairs
    <2> QED  BY <1>1, <1>2, <2>1, <2>2 DEF AllPatched, disk
  <1>5. CASE NextPatch
    <2>1. PICK p \in todo : current' = p /\ todo' = todo \ {p} /\ diffs' = FilesOf[p[2]]
      BY <1>5 DEF NextPatch
    <2>2. p \in Pairs /\ p[2] \in Vulns /\ FilesOf[p[2]] \in SUBSET Files
      BY <2>1, FilesOfAssumption DEF Pairs
    <2>3. pc = "protect.next" /\ pc' = "protect.apply" /\ UNCHANGED <<runs, policy, disk, reported, sent, unflagged>>
      BY <1>5 DEF NextPatch
    <2>4. AllPatched(current, Files \ diffs)'
      BY <2>1 DEF AllPatched
    <2> QED  BY <1>1, <1>2, <2>1, <2>2, <2>3, <2>4 DEF AllPatched, disk
  <1>6. CASE SkipFile
    <2>1. PICK f \in diffs : flag[current[1]][f] /\ diffs' = diffs \ {f}
      BY <1>6 DEF SkipFile, Skips
    <2>2. pc = "protect.apply" /\ UNCHANGED <<programVars, runs, policy, disk, todo, current, reported, sent, unflagged>>
      BY <1>6 DEF SkipFile
    <2>3. current[1] \in Modules /\ f \in Files
      BY <2>1, <2>2 DEF Pairs
    <2>4. patched[current[1]][f] > 0
      <3>1. /\ patched[current[1]][f] = unflagged[current[1]][f] + 1
            /\ unflagged[current[1]][f] \in Nat
        BY <2>1, <2>3 DEF FlagsAreTrue
      <3> QED  BY ONLY <3>1
    <2>5. AllPatched(current, Files \ diffs)'
      BY <2>1, <2>2, <2>4 DEF AllPatched, disk
    <2> QED  BY <1>1, <1>2, <2>1, <2>2, <2>5 DEF AllPatched, disk
  <1>7. CASE ModulePatched
    <2>1. /\ pc = "protect.apply" /\ pc' \in {"protect.report", "protect.next"} /\ diffs = {}
          /\ reported' = reported \cup {current}
          /\ UNCHANGED <<runs, policy, disk, todo, diffs, current, sent, unflagged>>
      BY <1>7 DEF ModulePatched
    <2>2. AllPatched(current, Files)
      BY <2>1 DEF AllPatched
    <2> QED  BY <1>1, <1>2, <2>1, <2>2 DEF AllPatched, disk
  <1> QED  BY <1>3, <1>4, <1>5, <1>6, <1>7

LEMMA ProtectInstalls == ASSUME ProtectWork, pc \in ProtectAt, Installed PROVE ProtectWork'
  <1> USE DEF ProtectWork, ProtectTypeOK, Installed, work, programVars
  <1>1. PICK old \in SUBSET (Modules \X Files) :
          /\ flag' = [m \in Modules |-> [f \in Files |-> <<m, f>> \in old]]
          /\ patched' = [m \in Modules |-> [f \in Files |-> IF <<m, f>> \in old THEN 1 ELSE 0]]
    OBVIOUS
  <1>2. /\ flag' \in [Modules -> [Files -> BOOLEAN]] /\ patched' \in [Modules -> [Files -> Nat]]
        /\ pc = "protect" /\ runs' = 1 /\ reported = {} /\ sent = {}
        /\ \A m \in Modules, f \in Files : unflagged'[m][f] = 0
        /\ UNCHANGED <<programVars, policy, todo, diffs, current, reported, sent, unflagged>>
    BY <1>1
  <1>3. FlagsAreTrue'
    <2>1. \A m, f : ~FlagMissing(m, f)'
      BY <1>2 DEF FlagMissing
    <2>2. ASSUME NEW m \in Modules, NEW f \in Files
          PROVE  /\ flag'[m][f] <=> <<m, f>> \in old
                 /\ patched'[m][f] = IF <<m, f>> \in old THEN 1 ELSE 0
      BY <1>1
    <2>3. ASSUME NEW m \in Modules, NEW f \in Files
          PROVE  /\ patched'[m][f] = unflagged'[m][f] + IF flag'[m][f] \/ FlagMissing(m, f)' THEN 1 ELSE 0
                 /\ ~FlagMissing(m, f)'
      <3>0. unflagged'[m][f] = 0
        BY <1>2
      <3>1. CASE <<m, f>> \in old
        BY ONLY <2>1, <2>2, <3>0, <3>1
      <3>2. CASE <<m, f>> \notin old
        BY ONLY <2>1, <2>2, <3>0, <3>2
      <3> QED  BY <3>1, <3>2
    <2> QED  BY ONLY <2>3 DEF FlagsAreTrue
  <1> QED  BY <1>2, <1>3

LEMMA ProtectWrites == ASSUME ProtectWork, pc \in ProtectAt, WriteFile PROVE ProtectWork'
  <1> USE DEF Goto
  <1>1. PICK g \in diffs :
          /\ ~flag[current[1]][g]
          /\ patched' = [patched EXCEPT ![current[1]][g] = @ + 1]
          /\ current' = <<current[1], current[2], g>> /\ diffs' = diffs \ {g}
    BY DEF WriteFile, Skips
  <1>2. /\ pc = "protect.apply" /\ pc' = "protect.flag"
        /\ UNCHANGED <<runs, policy, flag, todo, reported, sent, unflagged>>
    BY DEF WriteFile
  <1>3. current \in Pairs /\ current[1] \in Modules /\ current[2] \in Vulns /\ g \in Files
    BY <1>1, <1>2 DEF ProtectWork, ProtectTypeOK, Pairs
  <1>4. PICK m \in Modules, v \in Vulns : current = <<m, v>>
    BY <1>3 DEF Pairs
  <1>5. current' = <<m, v, g>> /\ current'[1] = m /\ current'[2] = v /\ current'[3] = g
    BY <1>1, <1>4
  <1>6. \A n \in Modules, f \in Files :
          patched'[n][f] = (IF n = m /\ f = g THEN patched[n][f] + 1 ELSE patched[n][f]) /\ patched[n][f] \in Nat
    BY <1>1, <1>3, <1>4 DEF ProtectWork, ProtectTypeOK
  <1>7. ProtectTypeOK'
    BY <1>1, <1>2, <1>3, <1>4, <1>5 DEF ProtectWork, ProtectTypeOK
  <1>8. FlagsAreTrue'
    <2> SUFFICES ASSUME NEW n \in Modules, NEW f \in Files
                 PROVE  /\ patched'[n][f] = unflagged[n][f] + IF flag[n][f] \/ FlagMissing(n, f)' THEN 1 ELSE 0
                        /\ FlagMissing(n, f)' => ~flag[n][f]
      BY <1>2 DEF FlagsAreTrue
    <2>1. FlagMissing(n, f)' <=> n = m /\ f = g
      BY <1>2, <1>5 DEF FlagMissing
    <2>2. ~FlagMissing(n, f)
      BY <1>2 DEF FlagMissing
    <2>3. ~flag[m][g]
      BY <1>1, <1>4
    <2>4. unflagged[n][f] \in Nat
      BY DEF ProtectWork, ProtectTypeOK
    <2> QED  BY <1>6, <2>1, <2>2, <2>3, <2>4 DEF ProtectWork, FlagsAreTrue
  <1>9. \A n \in Modules, f \in Files : patched[n][f] > 0 => patched'[n][f] > 0
    BY <1>6
  <1>10. ASSUME NEW p \in reported \cup sent  PROVE AllPatched(p, Files)'
    BY <1>9, FilesOfAssumption DEF ProtectWork, ProtectTypeOK, AllPatched, Pairs
  <1>11. AllPatched(current, Files \ diffs)'
    <2>1. AllPatched(<<m, v>>, Files \ diffs)
      BY <1>2, <1>4 DEF ProtectWork
    <2>2. patched'[m][g] > 0
      BY <1>3, <1>6
    <2> QED  BY <1>1, <1>5, <1>9, <2>1, <2>2 DEF AllPatched
  <1> QED  BY <1>2, <1>7, <1>8, <1>10, <1>11 DEF ProtectWork

LEMMA ProtectFlags == ASSUME ProtectWork, pc \in ProtectAt, WriteFlag PROVE ProtectWork'
  <1> USE DEF Goto, WriteFlag
  <1>1. pc = "protect.flag" /\ pc' = "protect.apply" /\ UNCHANGED <<runs, policy, patched, todo, diffs, reported, sent, unflagged>>
    OBVIOUS
  <1>2. current \in Modules \X Vulns \X Files
    BY <1>1 DEF ProtectWork, ProtectTypeOK
  <1>3. PICK m \in Modules, v \in Vulns, g \in Files : current = <<m, v, g>>
    BY <1>2
  <1>4. current' = <<m, v>> /\ flag' = [flag EXCEPT ![m][g] = TRUE]
    BY <1>3
  <1>5. ProtectTypeOK'
    BY <1>1, <1>3, <1>4 DEF ProtectWork, ProtectTypeOK, Pairs
  <1>6. FlagsAreTrue'
    <2> SUFFICES ASSUME NEW n \in Modules, NEW f \in Files
                 PROVE  /\ patched[n][f] = unflagged[n][f] + IF flag'[n][f] \/ FlagMissing(n, f)' THEN 1 ELSE 0
                        /\ ~FlagMissing(n, f)'
      BY <1>1 DEF FlagsAreTrue
    <2>1. ~FlagMissing(n, f)'
      BY <1>1 DEF FlagMissing
    <2>2. FlagMissing(n, f) <=> n = m /\ f = g
      BY <1>1, <1>3 DEF FlagMissing
    <2>3. flag'[n][f] <=> flag[n][f] \/ (n = m /\ f = g)
      BY <1>4 DEF ProtectWork, ProtectTypeOK
    <2> QED  BY <2>1, <2>2, <2>3 DEF ProtectWork, FlagsAreTrue
  <1>7. AllPatched(current, Files \ diffs)'
    BY <1>1, <1>3, <1>4 DEF ProtectWork, AllPatched
  <1>8. \A p \in (reported \cup sent)' : AllPatched(p, Files)'
    BY <1>1 DEF ProtectWork, AllPatched
  <1> QED  BY <1>1, <1>5, <1>6, <1>7, <1>8 DEF ProtectWork

LEMMA ProtectStep == ASSUME ProtectInv, ProtectNext PROVE ProtectInv'
  <1>1. pc \in ProtectAt /\ pc' \in ProtectAt \cup {"done"}
    BY ProtectWithin DEF Within
  <1>2. ProtectWork
    BY <1>1 DEF ProtectInv
  <1>3. CASE KillProtect
    <2>1. \/ pc # "protect.flag" /\ UNCHANGED unflagged
          \/ pc = "protect.flag" /\ LeftUnflagged
      BY <1>3 DEF KillProtect, EndsProtect, Exit, Goto
    <2> QED  BY <1>1, <1>2, <1>3, <2>1, ProtectEnds, ProtectBreaks DEF ProtectInv
  <1>4. CASE FlagFails
    <2>1. pc = "protect.flag"
      BY <1>4 DEF FlagFails, EndsProtect, Exit, Goto
    <2> QED  BY <1>1, <1>2, <1>4, <2>1, ProtectBreaks DEF ProtectInv
  <1>5. CASE ~KillProtect /\ ~FlagFails
    BY <1>1, <1>2, <1>5, ProtectEnds, ProtectChooses, ProtectInstalls, ProtectWrites, ProtectFlags
       DEF ProtectNext, ProtectInv
  <1> QED  BY <1>3, <1>4, <1>5

\* For any packages and vulnerabilities, any number of runs and of files that an
\* older version patched: what is reported as patched is, and a file is patched
\* again only as often as runs ended, by a failure or killed, between writing this
\* file and its flag.
THEOREM PatchesAlwaysExact == Spec => []PatchesAreExact
  <1>1. Init => ProtectInv
    BY DEF Init, ProtectInv, ProtectAt
  <1>2. Chosen /\ ProtectInv /\ [Next]_vars => ProtectInv'
    <2> SUFFICES ASSUME Chosen, ProtectInv, [Next]_vars, Apart(ProtectAt, "protect"), UNCHANGED protectVars
                 PROVE  ProtectInv'
      BY OwnSteps, ProtectStep
    <2>1. CASE UNCHANGED programVars
      BY <2>1 DEF ProtectInv, ProtectInit, ProtectWork, ProtectTypeOK, FlagsAreTrue, FlagMissing, AllPatched,
                  protectVars, programVars
    <2>2. CASE ProtectInit /\ pc' \notin ProtectAt
      BY <2>2 DEF ProtectInv, ProtectInit, protectVars
    <2>3. CASE ProtectInit /\ pc' = "protect"
      <3>1. ProtectInit'
        BY <2>3 DEF ProtectInit, protectVars
      <3>2. ProtectTypeOK'
        BY <2>3, <3>1 DEF ProtectInit, ProtectTypeOK
      <3>3. FlagsAreTrue'
        BY <2>3, <3>1 DEF ProtectInit, FlagsAreTrue, FlagMissing
      <3> QED  BY <2>3, <3>1, <3>2, <3>3 DEF ProtectInv, ProtectInit, ProtectWork, ProtectAt
    <2> QED  BY <2>1, <2>2, <2>3 DEF ProtectInv, Apart, ProtectAt
  <1>3. ProtectInv => PatchesAreExact
    <2>1. CASE ProtectInit
      BY <2>1 DEF ProtectInit, PatchesAreExact, ReportedIsPatched, PatchedOnce
    <2>2. CASE ProtectWork
      <3>1. ReportedIsPatched
        BY <2>2, FilesOfAssumption DEF ProtectWork, ProtectTypeOK, AllPatched, Pairs, ReportedIsPatched
      <3>2. PatchedOnce
        <4> SUFFICES ASSUME NEW m \in Modules, NEW f \in Files  PROVE patched[m][f] <= 1 + unflagged[m][f]
          BY DEF PatchedOnce
        <4>1. /\ patched[m][f] = unflagged[m][f] + IF flag[m][f] \/ FlagMissing(m, f) THEN 1 ELSE 0
              /\ unflagged[m][f] \in Nat
          BY <2>2 DEF ProtectWork, ProtectTypeOK, FlagsAreTrue
        <4> QED  BY ONLY <4>1
      <3> QED  BY <3>1, <3>2 DEF PatchesAreExact
    <2> QED  BY <2>1, <2>2 DEF ProtectInv
  <1> QED  BY <1>1, <1>2, <1>3, ChosenHolds, PTL DEF Spec

------------------------------------------------------------------------------
(* Infrastructure as code: local execution *)

\* The result of a path, or an error of it, which has no issues.
IacResult == [error : {"none"}, issues : BOOLEAN] \cup [error : {"Other", "NoFiles"}, issues : {FALSE}]

IacWork ==
  /\ output \in {"text", "json", "sarif"}
  /\ results \in Seq(IacResult) /\ issues \in BOOLEAN
  /\ pc \in {"iac", "iac.rules", "iac.bundle"} => results = <<>>
  /\ pc = "iac.bundle" => rulesDir \in {"none", "custom"} /\ (rulesDir = "custom" => custom # "none")
  /\ pc \in IacAt \ {"iac", "iac.rules", "iac.bundle", "iac.output"} /\ rulesDir = "custom" =>
       custom # "none" /\ bundle = "bad"
  /\ pc \in {"iac", "iac.rules", "iac.bundle"} => engine = "none"
  /\ VulnmapRulesUsed
  /\ IacExitIsHonest

IacInv ==
  \/ IacInit /\ pc \notin IacAt
  \/ IacWork /\ pc \in IacAt \cup {"done"}

\* A set of numbers that is not empty has a least one, so the first error exists.
LEMMA FirstErrorExists ==
  ASSUME results \in Seq(IacResult), ErrorResults # {}
  PROVE  \E i \in ErrorResults : FirstError = results[i].error
  <1>1. ErrorResults \subseteq Nat
    BY DEF ErrorResults
  <1>2. \E i \in ErrorResults : \A j \in ErrorResults : <<j, i>> \notin OpToRel(<, Nat)
    BY ONLY <1>1, ErrorResults # {}, NatLessThanWellFounded, WFMin
  <1>3. \A i, j \in Nat : <<j, i>> \notin OpToRel(<, Nat) => i <= j
    BY DEF OpToRel
  <1>4. \E i \in ErrorResults : \A j \in ErrorResults : i <= j
    BY ONLY <1>1, <1>2, <1>3
  <1> QED  BY <1>4 DEF FirstError

LEMMA ThrownIsHonest ==
  ASSUME results \in Seq(IacResult), results # <<>>, output \in {"text", "json", "sarif"}
  PROVE  /\ ThrownCode = "none" => PartialSuccess /\ ~IssuesFound /\ (output = "text" \/ ErrorResults = {})
         /\ ThrownCode = "VULNS" => IssuesFound
         /\ ThrownCode = "NoFiles" => /\ \E i \in DOMAIN results : results[i].error = "NoFiles"
                                      /\ output # "json" => ~IssuesFound
         /\ ThrownCode \in {"none", "VULNS", "NoFiles", "Other"}
  <1>1. \A i \in DOMAIN results : results[i] \in IacResult
    OBVIOUS
  <1>2. \A i \in ErrorResults : /\ i \in DOMAIN results /\ results[i].error \in {"Other", "NoFiles"}
                                /\ ~results[i].issues
    BY <1>1 DEF ErrorResults, IacResult
  <1>3. DOMAIN results # {}
    <2>1. DOMAIN results = 1..Len(results) /\ Len(results) \in Nat /\ Len(results) # 0
      OBVIOUS
    <2> QED  BY ONLY <2>1
  <1>4. ErrorResults = {} => PartialSuccess
    BY <1>3 DEF PartialSuccess
  <1>5. ~PartialSuccess => ~IssuesFound
    BY <1>2 DEF PartialSuccess, IssuesFound
  <1>6. ErrorResults # {} => /\ FirstError \in {"Other", "NoFiles"}
                            /\ \E i \in DOMAIN results : results[i].error = FirstError
    BY <1>2, FirstErrorExists
  <1>7. CASE output = "text" /\ ErrorResults # {} /\ ~PartialSuccess
    BY <1>5, <1>6, <1>7 DEF ThrownCode
  <1>8. CASE output = "text" /\ ~(ErrorResults # {} /\ ~PartialSuccess)
    BY <1>4, <1>8 DEF ThrownCode
  <1>9. CASE output = "json" /\ ErrorResults # {}
    BY <1>6, <1>9 DEF ThrownCode
  <1>10. CASE output # "text" /\ ~(output = "json" /\ ErrorResults # {})
    BY <1>4, <1>10 DEF ThrownCode
  <1> QED  BY <1>7, <1>8, <1>9, <1>10

\* The path's errors, and what it leaves as it is.
LEMMA IacPathStep ==
  ASSUME IacWork, IacNext, pc \in IacAt \ {"iac", "iac.rules", "iac.bundle", "iac.output"}
  PROVE  /\ results' \in Seq(IacResult) /\ issues' \in BOOLEAN /\ UNCHANGED <<output, custom, bundle>>
         /\ engine' \in {engine, rulesDir}
         /\ \/ pc' \in IacAt \ {"iac", "iac.rules", "iac.bundle", "iac.output"} /\ rulesDir' = rulesDir
            \/ pc' = "iac.output"
  <1> USE DEF IacWork, Goto, Exit, IacAt, NextPath, iacOptions
  <1>1. ASSUME NEW l, NEW errs \in Seq(IacResult), PathFails(l, errs),
               l \in {"iac.path", "iac.scan", "iac.share", "iac.format", "iac.usage"}
        PROVE  /\ results' \in Seq(IacResult) /\ issues' \in BOOLEAN /\ UNCHANGED <<output, custom, bundle>>
               /\ engine' \in {engine, rulesDir}
               /\ \/ pc' = "iac.path" /\ rulesDir' = rulesDir
                  \/ pc' = "iac.output"
    BY <1>1 DEF PathFails
  <1>2. Error("Other") \in IacResult /\ Error("NoFiles") \in IacResult /\ Scanned(issues) \in IacResult
    BY DEF Error, Scanned, IacResult
  <1>3. CASE PathRejected \/ ScanFails \/ ShareFails \/ FormatFails \/ LimitReached
    <2>1. PICK l \in {"iac.path", "iac.scan", "iac.share", "iac.format", "iac.usage"} : PathFails(l, <<Error("Other")>>)
      BY <1>3 DEF PathRejected, ScanFails, ShareFails, FormatFails, LimitReached
    <2>2. <<Error("Other")>> \in Seq(IacResult)
      BY <1>2
    <2> QED  BY <1>1, <2>1, <2>2
  <1>4. CASE NothingParsed
    <2>1. PICK n \in 0..MaxFailures :
            PathFails("iac.path", IF n = 0 THEN <<Error("NoFiles")>> ELSE [i \in 1..n |-> Error("Other")])
      BY <1>4 DEF NothingParsed
    <2>2. <<Error("NoFiles")>> \in Seq(IacResult)
      BY <1>2
    <2>3. [i \in 1..n |-> Error("Other")] \in Seq(IacResult)
      BY <1>2, MaxFailuresAssumption
    <2> QED  BY <1>1, <2>1, <2>2, <2>3
  <1>5. CASE FilesParsed \/ FilesScanned \/ Shared \/ ResultsFormatted
    BY <1>5 DEF FilesParsed, FilesScanned, Shared, ResultsFormatted
  <1>6. CASE UsageTracked
    BY <1>2, <1>6 DEF UsageTracked
  <1>7. ~(IacRejected \/ IacAccepted \/ RulesFail \/ CustomExtracted \/ BundleExtracted \/ BuildOutput)
    BY DEF IacRejected, IacAccepted, RulesFail, CustomExtracted, BundleExtracted, BuildOutput
  <1> QED  BY <1>3, <1>4, <1>5, <1>6, <1>7 DEF IacNext

LEMMA IacStep == ASSUME IacInv, IacNext PROVE IacInv'
  <1>1. pc \in IacAt /\ pc' \in IacAt \cup {"done"}
    BY IacWithin DEF Within
  <1>2. IacWork
    BY <1>1 DEF IacInv
  <1> SUFFICES IacWork'
    BY <1>1 DEF IacInv
  <1>3. CASE pc \in IacAt \ {"iac", "iac.rules", "iac.bundle", "iac.output"}
    <2>1. VulnmapRulesUsed'
      BY <1>2, <1>3, IacPathStep DEF IacWork, VulnmapRulesUsed
    <2> QED  BY <1>2, <1>3, <2>1, IacPathStep DEF IacWork, IacExitIsHonest, IacAt
  <1>4. CASE pc \in {"iac", "iac.rules", "iac.bundle"}
    <2>1. IacRejected \/ IacAccepted \/ RulesFail \/ CustomExtracted \/ BundleExtracted
      BY <1>4 DEF IacNext, PathRejected, NothingParsed, FilesParsed, ScanFails, FilesScanned, ShareFails, Shared,
                  FormatFails, ResultsFormatted, LimitReached, UsageTracked, BuildOutput, PathFails, Goto, Exit
    <2> QED  BY <1>2, <1>4, <2>1 DEF IacRejected, IacAccepted, RulesFail, CustomExtracted, BundleExtracted, Goto, Exit,
                 CleanLocalCache, IacWork, IacExitIsHonest, VulnmapRulesUsed, IacAt, iacVars, iacOptions
  <1>5. CASE pc = "iac.output"
    <2>1. BuildOutput
      BY <1>5 DEF IacNext, IacRejected, IacAccepted, RulesFail, CustomExtracted, BundleExtracted, PathRejected,
                  NothingParsed, FilesParsed, ScanFails, FilesScanned, ShareFails, Shared, FormatFails,
                  ResultsFormatted, LimitReached, UsageTracked, PathFails, Goto, Exit
    <2>2. UNCHANGED iacVars /\ pc' = "done" /\ exitCode' = IF ThrownCode = "none" THEN 0 ELSE ExitCodeOf(ThrownCode)
      BY <2>1 DEF BuildOutput, Exit
    <2>3. /\ ErrorResults' = ErrorResults /\ IssuesFound' = IssuesFound /\ PartialSuccess' = PartialSuccess
          /\ UNCHANGED <<output, custom, results, rulesDir, bundle, engine, issues>>
      BY <2>2 DEF iacVars, iacOptions, ErrorResults, IssuesFound, PartialSuccess
    <2>4. results # <<>> =>
            /\ exitCode' = 0 => ThrownCode = "none"
            /\ exitCode' = 1 => ThrownCode = "VULNS"
            /\ exitCode' = 3 => ThrownCode = "NoFiles"
      BY <1>2, <2>2, ThrownIsHonest DEF IacWork, ExitCodeOf
    <2>5. IacExitIsHonest'
      BY <1>2, <2>3, <2>4, ThrownIsHonest DEF IacWork, IacExitIsHonest
    <2> QED  BY <1>2, <1>5, <2>2, <2>3, <2>5 DEF IacWork, VulnmapRulesUsed, IacAt
  <1> QED  BY <1>1, <1>3, <1>4, <1>5 DEF IacAt

LEMMA IacInvHolds == Spec => []IacInv
  <1>1. Init => IacInv
    BY DEF Init, IacInv, IacAt
  <1>2. Chosen /\ IacInv /\ [Next]_vars => IacInv'
    <2> SUFFICES ASSUME Chosen, IacInv, [Next]_vars, Apart(IacAt, "iac"), UNCHANGED iacVars  PROVE IacInv'
      BY OwnSteps, IacStep
    <2>1. CASE UNCHANGED programVars
      BY <2>1 DEF IacInv, IacInit, IacWork, IacExitIsHonest, VulnmapRulesUsed, ErrorResults, IssuesFound, PartialSuccess,
                  iacVars, iacOptions, programVars
    <2>2. CASE IacInit /\ pc' \notin IacAt
      BY <2>2 DEF IacInv, IacInit, iacVars, iacOptions
    <2>3. CASE IacInit /\ pc' = "iac"
      <3>1. results' = <<>> /\ output' = "text" /\ issues' = FALSE /\ rulesDir' = "gone" /\ engine' = "none"
        BY <2>3 DEF IacInit, iacVars, iacOptions
      <3>2. results' \in Seq(IacResult)
        BY <3>1
      <3>3. IacExitIsHonest' /\ VulnmapRulesUsed'
        BY <2>3, <3>1 DEF IacExitIsHonest, VulnmapRulesUsed
      <3> QED  BY <2>3, <3>1, <3>2, <3>3 DEF IacInv, IacWork, IacAt
    <2> QED  BY <2>1, <2>2, <2>3 DEF IacInv, Apart, IacAt
  <1> QED  BY <1>1, <1>2, ChosenHolds, PTL DEF Spec

\* For any number of paths and of errors of each, the exit code of iac test is one
\* that its results justify.
THEOREM IacExitAlwaysHonest == Spec => []IacExitIsHonest
  <1>1. IacInv => IacExitIsHonest
    BY DEF IacInv, IacInit, IacWork, IacExitIsHonest
  <1> QED  BY <1>1, IacInvHolds, PTL

\* For any number of paths: whatever an archive of custom rules has, the engine for
\* Vulnmap's rules is built from the bundle, unless custom rules were asked for and
\* the bundle that was downloaded lacks the files.
THEOREM VulnmapRulesAlwaysUsed == Spec => []VulnmapRulesUsed
  <1>1. IacInv => VulnmapRulesUsed
    BY DEF IacInv, IacInit, IacWork, VulnmapRulesUsed
  <1> QED  BY <1>1, IacInvHolds, PTL

==============================================================================
