# A formal model of the Vulnmap CLI

The Vulnmap CLI is three programs in one repository: a Go program (`cliv2`)
that extracts and runs the older TypeScript CLI (`src/`) behind a proxy of its
own; a small wrapper (`ts-binary-wrapper`) that npm installs and that downloads
the Go binary; and packages (`packages/vulnmap-fix`, `packages/vulnmap-protect`)
that the TypeScript CLI uses. This directory holds TLA+ modules translated from
that code, TLC configurations that check them on small instances, and proofs
for TLAPS. `PROJECT.json` maps every definition to the lines it stands for, and
lists the runs, the hazards, the findings and the theorems.

To run: `tlc -config TestCommand.cfg MCTestCommand.tla`,
`tlapm CLIv2Proofs.tla`.

## 1. Inventory

Each part with its state, operations and interactions, what is hard about it
and what makes it correct.

**cliv2: cache, lock, extraction** (`cliv2/internal/cliv2`, `embedded`, `utils`).
State: the cache directory with one directory per version, the lock file
`<version>.lock`, the extracted binary, `tmp/` with certificate files.
Operations: `Init` (lock, create, `ClearCache`, validate, extract, validate,
unlock, remove the lock file), the creation and closing of the wrapper proxy,
`Execute`. All processes of a user share the directory, so what is hard is
interleaving between any two file-system calls and processes that die there.
Correct when: what is executed has the embedded checksum; the certificate stays
while a child trusts it; certificates do not pile up; nobody waits for ever.

**cliv2: dispatch** (`cliv2/cmd/cliv2/main.go`, `pkg/basic_workflows`). State: the
command line, the environment, the last error, the child's exit code.
Operations: the choice of workflow, `handleError`'s fallback to the legacy CLI,
`deriveExitCode`, the environment of the child. Hard: an error is recognised by
its text, whoever raised it. Correct when: the legacy CLI runs at most once,
success means that what ran last succeeded, and every error is shown or spoken
by an exit code.

**npm wrapper** (`ts-binary-wrapper`). State: the executable's file, temporary
files, permissions. Operations: download with a hash on the fly, rename,
`chmod`, run, fall back. Hard: concurrent installs and commands, names made of
the time, failures between rename and `chmod`. Correct when: whatever is under
the binary's name is the published binary, a failed download is cleaned up, one
CLI gets the command.

**vulnmap fix** (`packages/vulnmap-fix`, `src/cli/commands/fix`). State: results by
plugin and by list (succeeded, failed, skipped), exceptions, the manifests on
disk; in the requirements handler the provenance and the files already fixed.
Operations: partitioning, plugins (three at a time), handlers, upgrade, pin,
write, summary. Hard: results of concurrent handlers are merged under shared
keys, writes fail half-way through a project, requirements files include each
other. Correct when: every project is in one list, what is reported as fixed
is fixed on disk, and a failure has changed nothing.

**test command** (`src/cli/commands/test`, `src/cli/main.ts`, `src/lib/vulnmap-test`).
State: results so far, the pool of requests, attempts, the exit code.
Operations: per path assemble, send, retry, parse; then conclude and exit. Hard:
one failed request ends a path but not its siblings; errors, vulnerabilities and
unsupported projects compete for one code. Correct when: one outcome per path,
in order, and an exit code that follows from all of them.

**unmanaged scans** (`src/lib/polling`, `src/lib/ecosystems`). State: the job at
the service, the attempts and the time waited for it, results and errors per
path. Operations: `create` job, `poll` until the graph is there or time is up,
ask for the issues, conclude. Hard: a limit on time that is looked at between
sleeps, failures of one path among others, exit codes of their own. Correct
when: every scan is a result or an error, one is given up only when time is
up, and a refused token is told to the user.

**monitor** (`src/cli/commands/monitor`, `src/lib/monitor`). State: results per
path and project, what the service has stored. Operations: per path collect the
projects, send them one by one (or, for ecosystems, per scan), conclude. Hard:
a project sent before another fails stays sent, and the report must say so.
Correct when: no project is forgotten, the report and the service agree, and
success means that all were monitored.

**protect** (`packages/vulnmap-protect`). State: the files of installed modules and
the flag files beside them. Operations: find the modules, fetch every patch, then
per file patch and flag. Hard: applied half-way by a run that dies, run again,
two patches of one file. Correct when: what is reported as patched is, once.

**IaC, local** (`src/cli/commands/test/iac`). State: the directory with the rules
bundles, the engines made from them, results and errors per path. Operations:
settings, bundles, per path load, parse, scan, share, format, filter; then output
and exit code. Hard: text, JSON and SARIF decide differently what a failed path
means; one set of results is shared and shown. Correct when: the exit code is
honest, Vulnmap's rules are used, and a violation is shown once.

**IaC v2, drift** (`src/lib/iac`, `describe`, `update-exclude-policy`). State: the
cached executables, the engine's output, the policy file. Operations: look up,
download, compare, write, run; describe; update. Hard: several commands write
the executable in place, any of them may die, a child may be killed. Correct
when: what is executed is whole, and the exit code says what the child found.

**credentials** (`auth`, `config`, `ignore`, `api-token.ts`). State: the stored token,
the attempts left for the login, the rules of `.vulnmap`. Correct when: a stored
token was confirmed, and the polling ends.

**code analysis** (`src/lib/plugins/sast`). State: settings, the analysis' SARIF,
files to write. Correct when: exit code and text agree on the issues, and what machines
read has every result, the suppressed ones too.

**manifests** (`src/lib/find-files.ts`, `detect.ts`, `src/lib/plugins`). Operations: the
search with one manifest per folder and package manager, workspaces, plugins
that fail. Correct when: no project is forgotten and none is scanned twice.

**report** (`run-test.ts`, `legacy.ts`, `src/lib/formatters`). From an answer to
vulnerabilities per path, the filters, and the sections of the text. Correct
when: every issue that is left is shown, and only those.

**log4shell** (`src/cli/commands/log4shell.ts`). Searches files and archives for known
hashes. Correct when: what can be reached and is vulnerable is shown, and a
mitigated archive is not.

**options** (`src/cli/args.ts`, `modes.ts`, `main.ts`). From words to options. Correct
when: options that exclude each other are refused however they are spelled.

**container** (`src/lib/container`), **support** (`src/lib/request`, `config`),
analytics, spinner, scripts: a plugin or library does the work, or nothing
depends on them.

How they interact: npm's wrapper runs the Go CLI; the Go CLI runs the TypeScript
CLI as a child process (environment in, exit code out, traffic through the
proxy); the TypeScript CLI calls its commands with the paths one after the
other; `fix` calls `test` and then `packages/vulnmap-fix`; `protect` is called
in the same way. Everything that is shared between processes is in files.

## 2. Modules

| Module | Models | Composes |
| --- | --- | --- |
| `CLIv2Init` | processes sharing the Go CLI's cache | |
| `CLIv2Main` | one run of the Go CLI, `CLIv2Init` seen from outside | |
| `BinaryWrapper` | installs and commands of the npm wrapper | |
| `InstallPromise` | the abstract specification of `BinaryWrapper` | instantiated by it |
| `VulnmapFix` | plugins, handlers and the summary of `vulnmap fix` | |
| `PipProvenance` | which files a requirements project consists of | |
| `PipRequirements` | how these files are changed | |
| `RunTest` | one path's test: the pool of requests | |
| `TestCommand` | the paths, the conclusion, the exit code | extends `RunTest` |
| `TestPromise` | the abstract specification of `TestCommand` | instantiated by it |
| `UnmanagedTest` | `test --unmanaged`: jobs, polling, conclusion | |
| `Monitor` | `monitor` of projects, images and unmanaged directories | |
| `MonitorPromise` | the abstract specification of `Monitor` | instantiated by it |
| `Program` | the flow of control that the eight modules below share | |
| `Protect` | runs of `@vulnmap/protect` over the same modules | extends `Program` |
| `IacTest` | `iac test`, local execution | extends `Program` |
| `IacV2` | `iac test` with the policy engine | extends `Program` |
| `ExecutableCache` | commands that share the engine or driftctl | extends `Program` |
| `Drift` | `iac describe` and `update-exclude-policy` | extends `Program` |
| `Auth` | `auth`, `config`, `ignore` | extends `Program` |
| `CodeTest` | `code test` | extends `Program` |
| `FixCommand` | `fix` around the fix itself | extends `Program` |
| `Inputs` | an input that grows element by element | |
| `Options` | `args()`, modes, and the combinations `main()` refuses | extends `Inputs` |
| `PatchString` | the application of a diff to a text | extends `Inputs` |
| `FindFiles` | the search for manifests | extends `Inputs` |
| `AllProjects` | targets, workspaces and plugins of `--all-projects` | extends `Inputs` |
| `TestReport` | an answer of the service to what is shown | extends `Inputs` |
| `IacResults` | violations of rules to what is shared and shown | extends `Inputs` |
| `Log4Shell` | artifacts in archives to issues | extends `Inputs` |
| `FixReport` | remediations to calls of pipenv and poetry, changes and the summary of `fix` | extends `Inputs` |
| `MC...` | instances for TLC, where constants need more than a cfg | extend the modules they are named after |
| `MCFix` | `vulnmap fix` in three parts | `VulnmapFix`, with instances of `PipProvenance` and `PipRequirements` |
| `MCCommands`, `MCAlgorithms` | one of the programs, one of the algorithms | extend all of them |
| `BinaryWrapperProofs`, `UnmanagedTestProofs`, `MonitorProofs`, `TestCommandProofs` | theorems | extend their modules |
| `CLIv2Proofs` | theorems about `CLIv2Init` and `CLIv2Main` | extends both |
| `AlgorithmsProofs` | theorems about the eight algorithms | extends `MCAlgorithms` |
| `FixProofs` | theorems about the three parts of `vulnmap fix` | extends `MCFix` |
| `CommandsProofs` | theorems about the eight commands of `Program` | extends `MCCommands` |

**`CLIv2Init`.** `pc` is the place in `Init`/`executeRunV1`; every action is one
file-system call. A file lock belongs to an inode, so `lockFile` (what the path
names), `fd` and `holder` are kept apart: that is Unix's flock; Windows, where an
open file cannot be removed, is not modelled. The image is absent, partial or
whole; `writer` says whose bytes a partial image will be completed with. Each call
may fail: `Close` only logs that it could not remove its certificate, and the process
ends with the file left (`aborted`).
`disturbed` is a history variable: why a version's directory cannot be relied
upon. A killed process does not come back: a new process plays its part. Once a
whole version is idle, its history is forgotten (`Begin`).

**`CLIv2Main`.** An error is what `handleError` looks for in it and who raised it.
`runs` is the sequence of legacy runs. `Execute` is entered only after an `Init` that
succeeded, as `CLIv2Init` shows; the code does not validate again there.

**`BinaryWrapper`.** A file is an inode with chunks; the publisher's content is
`good` in all of them. `SameMillisecond` says whether two downloads may take the
same temporary name. The rename, the change of the mode and the unlink may fail: the
first two end the process with an exception, the third is ignored and `kept` remembers
it. **`InstallPromise`** is what an outsider sees of it: the binary
is absent or whole, and each process has a fate (a CLI's status, a signal, the
legacy CLI, an error, a kill). The mapping `Binary` is what the binary's name leads
to, `Fate` follows from where the process is and what it has started.

**`VulnmapFix`.** A task per scan type, and in it the handlers one after the other;
a step may be taken by another task at every await. `Faults` chooses which
failures happen.

**`PipProvenance`.** The recursion is a stack of calls; `Reachable`, what it should
find, is the least set with the scanned file that is closed under requiring.
**`PipRequirements`**: a file maps a package to the version it asks for; `Provenance` is
that least set.

**`RunTest`/`TestCommand`.** Each payload of a path has a `sendRequest` with a state
and its number of attempts. The first rejection ends the path (`Throw`), the
other calls stay in the pool and go on. `TestCommand` puts the outcome of a path
among the results and begins the next; at the end it concludes as text or as
JSON, and `main` sets the exit code. Leaving `SARIF` to the JSON branch, the layout
and the `--print-graph` shortcut out changes no outcome.

**`UnmanagedTest`.** All paths are hashed first; then scan by scan the hashes are submitted,
the service makes a graph (`job`) and the command polls for it at intervals that
grow. `elapsed` is the code's sum of intervals; `waited` and `readyAt` are history:
the time slept, and what it was when the graph was ready. A request may be
refused with any status, and a graph may come late or never.

**`Monitor`.** Three flows share the conclusion: `projects` (sent one request each),
`docker` and `cpp` (all paths are scanned, then every snapshot is sent; for `cpp`
the service resolves it while the command polls). What the service did with a
snapshot (`service`) is history, kept apart from what the command reports
(`good`, `bad`). **`MonitorPromise`** hides paths, requests, jobs and polls: projects
are found, served at most once, settled for good, and then the command concludes,
or an ecosystem's command is aborted, which takes its results away.

**Programs** (`MCCommands`). Each command is a single flow of control, so `pc` says
where it is, with labels of the module's own, and the modules can share one run:
`Choose` picks one of them. Where several processes are involved (`ExecutableCache`,
the updates of `Drift`), each has a state of its own. Requests, child processes and
users are external: an action for each way in which they may end. `Protect` lets a
run die, or fail to write, between any two steps and another one follow; `patched`
counts the patches a file has had, `unflagged` the runs that left it without its flag. In `IacTest` an error is `NoFiles` or `Other`, which is all the exit
code depends on; issues are told apart only as shown or not; the bundle of rules that
is downloaded is whole or bad, since neither its status nor what tar warns about is
looked at. `ExecutableCache` runs on Unix or on Windows, where a file can be executed
as soon as it exists; that Windows itself refuses to run a file which is open for
writing is left out. In `CodeTest` the results carry their suppressions into what is
printed and written. `Auth` runs commands
one after the other, with a token that comes from the user or from a login that
is polled for.

**Algorithms** (`MCAlgorithms`). What the code computes from an input is an operator,
and `Grow` makes every input up to a length a state, one element at a time. The
properties state what the result has to be without following the code's steps.
Loops and recursion are recursive functions over what the code goes through: the
lines of a patch, the depths of folders (`Find`: a level's result is a function from
folders to files, made from the one below it), the pins of a project. Text that is
only compared is a value; folders are sequences of names, of which `NodeModules` are
those that end with `node_modules`. `FixReport` has the two calls of the Python plugin,
of which the one that ends last keeps its results, and handlers that throw.

Details that no property depends on are abstracted: a line of a patch has no carriage
return of its own in `PatchString`, so an added one takes the file's; `FilterJndi`
looks at an artifact's own name, where the code looks for the text in its whole path;
`ParseRes` takes the answer for an image to name its base image, without which the
code filters nothing; `vulnmap ignore --file-path`, which adds to another section of
the policy, is left out of `Auth`.

## 3. Runs

| Run | Bounds | Shows |
| --- | --- | --- |
| `CLIv2Init` | 2 processes of version 1, the directory of another version | image and certificates are safe in every interleaving, crash and new run; runs end |
| `CLIv2Main` | exit codes 1..3 | legacy CLI at most once, honest success, shown errors |
| `BinaryWrapper` | 3 processes, 2 chunks | verified binary, only kills and failing file operations leave files; refines `InstallPromise`: installed in one step, one CLI per command |
| `VulnmapFix` | 3 projects, 2 plugins at once; 4 files of 2 directories, one with 2 directives, the others with 1, 4 prefixes; 2 files, 2 packages, 2 projects | every project in the summary and succeeded means applied; all that is required is parsed; what is reported as fixed is on disk |
| `VulnmapFix_lost_results` (violated) | 2 projects, no faults | results replaced under one key |
| `TestCommand` | 2 paths of 1 or 2 projects, 2 in flight, 2 attempts | refines `TestPromise`; the command and the requests it leaves behind end |
| `UnmanagedTest` | 2 paths of at most 2 scans, intervals of 1 to 3, `MaxElapsed` 6, six statuses | every scan accounted for, given up only late, a refused token is told; the command ends |
| `Monitor` | 2 paths of at most 2 projects, attempts 0..2, statuses 302, 401, 404, 500, 3 polls counted | success means all; refines `MonitorPromise`: no project forgotten, none sent twice; the command ends |
| `Monitor_attempts` (violated) | the same | attempts of an ecosystem's job are announced as limited but never counted |
| `Commands` | `Protect`: 2 modules, 2 patches of 2 files, 2 runs; `IacTest`: 2 paths; `ExecutableCache`: 2 commands, 2 parts; `Drift`: 2 resources, 2 describes, 2 updates; `Auth`: 2 attempts, 2 commands; `IacV2`: 2 errors; `CodeTest`: 2 results; `FixCommand`: 2 paths, 2 projects | exact patches, honest exit codes, Vulnmap's rules, whole executables, confirmed tokens; every program ends |
| `Algorithms` | 4 words, 3 lines of file and of patch, 3 files in 8 folders, a folder and a file name excluded, 4 targets, 3 issues, 3 violations, 4 artifacts, 2 projects to fix with at most 2 pins | conflicts refused, exact additions, each project found, each target once, each issue and violation shown once, each reachable artifact reported, the summary of `fix` tells what the tools did |
| `PatchString_mismatch` (violated) | the same | a patch whose removed line is not in the file is applied |

Named bounds and why they are enough: in `CLIv2Init` a process that has ended begins again as another, so
two of them give a holder, a waiter and a newcomer that locks another inode;
the wrapper's processes do not begin again, so there are three;
`MaxVersionToDelete` is 1 (the code's 5), the one foreign version there is; `N` = 2 chunks so that a write can be cut in the middle;
`Concurrency` and `MaxConcurrency` 2 with three tasks so that one waits;
`RetryAttempts` 2 so that there is a retry and a last attempt; `MaxDirectives`
2 in the scanned file and `MaxRequired` 1 in the others make cycles with and without
it and a diamond; `MaxDepth` 5 calls, one more than there are files, ends the recursion
that the code does not detect (section 5). In
`UnmanagedTest` the code's 2 s, 20 s and 30 min become 1, 3 and 6: a shortest and a
longest interval, and a limit that several sleeps add up to. `Monitor`'s statuses
are one of each kind the code tells apart. In `Commands`, two runs of `Protect` are
one that dies and one that repeats; two parts of an executable are the least that
can be cut in the middle; two paths, errors and results are a failure among
others. In `Algorithms`, four words are a command and an exclusive pair in any
order with a third option; three folders below each other and one too deep,
three files and four targets let the filter run on several levels and workspaces nest; four artifacts are an archive in an archive with
a manager and a lookup class.

Fairness. `CLIv2Init`: the operating system runs every process and hands a free
lock to a waiter (weak fairness per process and for the lock); nothing forces
an error, a crash or a new run. `TestCommand` and `Commands`: one event loop, which is not idle while something can be done
(`WF_vars(Next)`); a request is answered or times out. `UnmanagedTest` and `Monitor`: the command
is run, the service is never forced to finish a job, so their ends rest on the
limits in the code. In `Commands` an external process, a request or a user may
take any of their ways, but take one: driftctl, the engine and the analysis have
no timeout in the code, so that they end is assumed.

`CHECK_DEADLOCK FALSE` everywhere: each of these programs ends, and an input is
complete at its bound.

## 4. Proofs

TLAPS proves, for every value of the constants that the assumptions named below
admit, all safety properties of the passing runs, the three refinements among them:

* `CLIv2Proofs`, of the cache: `TypeOK`, `LinkedLockExclusive`, `ImageTrusted`, `CertTrusted`
  and `NoCertLeak`, for any processes, versions and inodes, from the assumptions
  that versions are natural numbers (ranks of their names) and `None` is neither
  a process nor an inode. `ImageTrusted` is not inductive: `ImageInv` adds that
  two processes of an undisturbed version are never both inside `Init`, that
  nobody is about to write an image that somebody relies upon, and that `initOk`
  is only set by `validate` and `revalidate`; `LockInv` says whose lock is whose.
* `CLIv2Proofs`, of one run: `TypeOK`, `LegacyOnce` and `ExitIsHonest`, for any
  exit codes of one byte (`ExitCodeAssumption`). `Invocations` says at each place how
  many legacy runs there can be and for whom, so that the fallback for an unknown
  command and cobra's help cannot add up to two of a kind; `Results` that the error at
  hand is what the last run returned.
* `BinaryWrapperProofs`: `TypeOK`, `BinaryIsVerified` and `NoTempLeft` when no two
  downloads take the same temporary name. `OwnFile` says that a process writes a
  file of its own, `Written` that the bytes written so far are good while the
  hash is, `InPlace` that nobody writes the file that is in place. `OneCliPerCommand`
  holds for any clocks; its invariant `RunInv` says where a process that has started
  a CLI, or none, can be. From both, and from what is known of a process that is not
  settled (`Pending`), `PromiseKept`: every step is one of `InstallPromise` or hidden.
  A rename is `Install` when there was no binary, and hidden when it replaces one,
  since both are whole; the spawn, the fallback and every end settle a fate.
* `FixProofs`, for `vulnmap fix`, whose parts share a run and a specification:
  * `SummaryIsTrue` (every project in the summary, succeeded means applied), for any
    projects, plugins at once and faults. `FixInv` says of each scan type what its
    lists hold while its handlers are at their steps: nothing before it begins, only
    its own projects, each of them once the handler has ended. The results are the
    lists of the plugins that have returned (`ResultsOf`), and what a list calls
    succeeded was applied (`Applied`), whichever tasks are interleaved.
  * `ReportedIsFixed`, for any projects, packages and files. What is remembered of
    a file (`FixKept`) must be true of the disk later on, when another project has
    been fixed in a file that both have: a write only replaces the old version or adds
    a missing line (`Improved`), so what one project is told stays true.
  * `AllRequiredParsed`, for any file names in the root and `lib`, any prefixes and
    number of directives, without a hypothesis: the file that a directive requires is
    parsed, or else one whose key is the directive's text, and recursion is detected by
    that key. What this leaves out is the code's mistake (section 5). `NoneForgotten`
    says that each directive of a parsed file is followed or some call on the stack
    has yet to look at it.
* `TestCommandProofs`: `TestCommand` implements `TestPromise` (`KeepsPromise`), for any
  number of paths, payloads, requests in flight and attempts, with text output and
  any `--fail-on` or with `--json` alone (with both, errors are dropped: section 5).
  `Tries` bounds the attempts, `CallsOf` says that an answered payload has an
  answer and that a path returns only when all are answered, `Order` that the
  paths collected are the first ones and over, `Concluded` that the error thrown
  stands for the verdict on all outcomes. `OutcomesStay` is the heart: the requests
  that a failed path leaves behind change no outcome. Collecting a path maps to
  `TestPath`, the end of the process to `Exit` or `Fail`, all else to a stutter.
* `UnmanagedTestProofs`: `TypeOK`, `Accounted`, `GivenUpLate` and
  `UnauthorizedIsTold`, for any number of paths and scans, any intervals and limit.
  `Timing` ties the code's sum to the time slept, `Early` says that nothing is
  settled before the first scan is submitted, `Told` that what the organisation's
  lookup was refused with is thrown and becomes the exit code.
* `MonitorProofs`: `TypeOK`, `NoneForgotten`, `ReportedIsMonitored` and
  `SuccessIsComplete`. Results, errors and what is still to send partition the
  projects found (`Partition`; of an ecosystem only until a request aborts it),
  no project is to be sent twice (`Distinct`), and a job belongs to the project
  at the head (`JobOfCurrent`). `PromiseKept` adds `NotYet`: the service has got nothing
  of a project that is still to be sent, but of the one whose job it has ended. Then
  a project's result is a `Settle`, a job's end a `Serve`, a path `Find`, the report
  `Conclude` and an error that ends the command `Abort`; all else is hidden.
* `CommandsProofs`: the nine invariants of the run `Commands`. A command's variables
  are its own, so its invariant has two parts: it has not begun and nothing is changed,
  or its control is at one of its labels and its part (`AuthWork`, `ProtectWork`, ...)
  holds; a lemma for each command says that its steps keep within its labels.
  * `ExecutableIsWhole`: `OneWriter` says whose bytes the file has while it is being
    written; that it excepts overwritten files and, on Windows,
    commands that end in the middle of writing is what the code does (section 5).
  * `PatchesAreExact`: `ProtectWork` relates what each file has been patched with to
    the flags, the pairs still to do and the patch at hand, for any modules, patches
    (`FilesOf`, a function into the files) and runs, killed or failing between any two
    steps: a file is patched at most once more than it was left without its flag.
  * `DescribeIsHonest` for any resources and updates, `StoredIsConfirmed` for any number
    of commands and login attempts, `EngineExitIsHonest`, `CodeExitIsHonest`, and
    `UntestedIsTold`, where the counts of paths and projects need the cardinality lemmas.
  * `IacExitIsHonest` and `VulnmapRulesUsed`: the exit code goes by the first error, so
    the proof needs the least element of a set of positions.
* `AlgorithmsProofs`: the eight invariants of the run `Algorithms`, for inputs of any
  length. An input is a sequence of elements that the constants admit; that is
  all that is inductive of it, and each property is a lemma about any such input.
  * `ExclusiveOptionsRejected`, for any words: what is given is an option under the name
    that main() looks for (`AskedIsParsed`), through the mode, the renaming and the alias.
  * `AdditionsAreExact`, for any file and patch: the code's loop over the patch and the
    patch read line by line are two recursive functions; after each line they agree
    on the lines written, on the place in the file and on whether an error is thrown.
  * `EveryProjectFound`, for files in folders of any depth, of any names: by induction over
    the levels, a folder's `found` is what would be chosen of all files below it at
    once (`RightlyFound`). The filter does not do the same to what it has filtered already
    as to the files themselves; the lemma that it comes to the same (`Chosen` of the
    chosen) rests on the Gradle file that is highest above another being kept.
  * `EveryTargetOnce`, for targets in any folders, declaring any workspaces: what is left
    of the targets after each workspace and each scan is a set without those processed.
  * `EveryIssueShown` for answers of any length, with any severities and thresholds
    of `ReportOptions`, and `ViolationsShownOnce`, for violations of any rules: the text,
    the JSON and the counts leave out the same ones, and a violation is in one list
    of its document, or of its file when the list is grouped by file.
  * `Log4ShellFound`, for artifacts in archives of any depth: a chain of archives is opened as
    far as its shortest prefix that cannot be read, which is what is shown instead.
  * `FixReportIsTrue`, for any projects, remediations and refusals of the tools: lists grow
    by what is pushed, so their lengths are the numbers of projects, changes and
    issues in them (the cardinality lemmas), and a change that is reported is one made;
    a list that names a project twice is a sequence of positions, over which is summed.

  Recursive functions over numbers are unfolded by lemmas of the module
  (`PrefixRecursion`, `PrefixInduction`), which follow from the fact that a set of
  natural numbers has a least element; so nothing is left to induction over data.

Each of the others is proved as `Init => IndInv`, `IndInv /\ [Next]_vars => IndInv'` (a lemma per
conjunct, a step per action) and `IndInv => Inv`, after TLC had found no
counterexample to `IndInv`.

The assumptions are named in the modules that declare the constants, and TLC
evaluates them in the runs: sizes are natural numbers and not 0 where the code
has at least one, `None` is none of the values it stands beside
(`NoneAssumption`), statuses and exit codes are in the code's ranges. Those of `MCFix`
are about the instance: the directories are the root and `lib` (`DirsAssumption`,
since paths are resolved case by case), and the scanned file is one of the files
(`ContentAssumption`). A theorem with a hypothesis of its own (`~SameMillisecond`,
`ModesPromised`) states it.

Of the inputs of the algorithms it is assumed: the lines of a file are finitely many
(`PatchAssumption`); folders are sequences of names and the depth is a number
(`FilesAssumption`, `TargetAssumption`: `path.dirname` and `split`, `--detection-depth` is
checked); an issue has one fix, a license issue none, and a package has a path
(`ReportAssumption`: the service's answer lists a vulnerability under its package with its
remediation); severities are numbers (`ViolationAssumption`: places in the code's
lists); a project has finitely many issues, each with one of the four severities, and
is of a type that the code tells apart (`FixAssumption`); the chain of an artifact
consists of archives, what has a known hash could be read and is no lookup class, and
a hash has a version that says something (`ArchiveAssumption`, `ArtifactAssumption`: the
code's own list of signatures).

Only model-checked:

* liveness (`RunEnds`, `CommandEnds`, `TestEnds`, `MonitorEnds`, `ProgramEnds`): fairness
  needs ENABLED, which the prover does not handle;
* the three runs that are violated: each is a counterexample, and needs no proof.

Some of the theorems (type correctness, `LinkedLockExclusive`, `ReportedIsMonitored`,
`NoneForgotten` and `OneCliPerCommand`, which the refinements imply) and versions that delete each other's
directories have no run of their own any more: the theorems cover them for every
value of the constants.

## 5. What the model shows of the code

The violated runs are disagreements between the code and what its comments or
messages say: see `findings` in `PROJECT.json`. The models also show the
following, for which no run is kept:

* `ClearCache` deletes the directories of newer versions too.
* `handleError` of cliv2 answers an extension's error with the legacy CLI when its
  text resembles one of cobra's (`CLIv2Main`: `HandleErrorResult` does not look at
  `err.from`).
* The wrapper renames the binary before it makes it executable: another wrapper
  may then find a binary it may not run.
* Two downloads that start in one millisecond write to one file
  (`SameMillisecond = TRUE` violates `BinaryIsVerified`).
* A poetry handler that throws loses the results of projects it has fixed, and lists
  those that it skipped a second time, as failed (`python/index.ts:66`, `:76`).
* With pipenv and poetry projects together the results of the call that ends first are
  lost, in the summary and its counts too (`index.ts:57`, `Lost` in `FixReport`).
* Requirements files in a subdirectory, or required with `./`, are compared with
  keys of another kind: a required file is not parsed when the text is the key of
  another one, and files that require each other in such a way are parsed again and
  again until the stack is exhausted, which `MaxDepth` cuts short.
* A requirements project can be reported as fixed through another one with issues
  that were fixed in files it does not have; a package that an included file
  requires at another version is pinned as not directly required.
* Requests of a path that has failed go on while the next path is tested: more
  than `MAX_CONCURRENCY` may be in flight.
* Two runs of one version may both be inside `Init`: the lock file is removed
  after the lock is released, and a newcomer creates and locks another inode
  while a waiter gets the old one.
* cliv2 sends a random token without the proxy that replaces it when the
  integration's environment is only partly defined; what the child is given follows from
  one condition in the code, so no property restates it.
* The certificate of cliv2's proxy, and the wrapper's temporary file, stay when removing
  them fails, which is logged or not even that; the wrapper's file also stays when the
  binary's name cannot be replaced.
* With `--json` and a `--fail-on` that nothing meets, the errors of paths are
  dropped and the exit code is 0.
* `test --unmanaged`: with `--json` errors are dropped and the exit code is 0; a
  thrown error without a numeric code ends with 0 as well, refused credentials
  under `--print-graph` among them, while 401 elsewhere gives 145; a graph that is
  ready during the last sleep is given up.
* `monitor`: the exit code is 3 whenever a failure's message speaks of unsupported
  files; a 4xx of an ecosystem's scan ends the command and the results of
  earlier ones are not shown.
* With `vulnmap test a b`, where `a` has vulnerabilities and `b` no supported
  manifest, the exit code is 3; with `--sarif` the failure's message does not
  contain the errors' text, so there it is 2.
* `test` with a severity threshold and a Python project's pins: `constructPinText`
  reads the version of each issue that a pin fixes, also of those that the
  threshold left out, and throws (`remediation-based-format-issues.ts:326`).
* A folder with several NuGet files has no best one and none is scanned
  (`find-files.ts:332`); one target without a package manager, `mix.lock`, ends
  `--all-projects` (`get-multi-plugin-result.ts:71`). A folder like `old_node_modules` is
  skipped with its projects, since only the end of its path is compared
  (`find-files.ts:70`).
* `protect` exits with 0 whatever it throws, and a run that dies between a file
  and its flag, or cannot write the flag, lets the next one patch the file again.
* An engine or driftctl that is being written by one command is executable for
  another: it is written in place and never checked again. On Windows a part of it that
  a command left behind is executable as well.
* `iac test` uses what it downloads as rules: of an archive that is bad, custom rules of
  the same names stay in use; directories that cannot be removed stay without a word.
* `code test` shows the results without suppressions and prints or writes all of them;
  without issues the JSON file is not written.
* Two `update-exclude-policy` at once lose what one of them excluded.
* `vulnmap fix` with a path that could not be tested succeeds when the others
  have nothing that fails; with `--quiet` nothing tells.
* `fix` of a Pipfile or Poetry project: the package's name is standardized for the
  tool but compared as it is afterwards (`attempted-changes-summary.ts:18`, `:49`) and with
  the names of `pyproject.toml` (`poetry/.../generate-upgrades.ts:55`), although
  `standardize-package-name.ts:3` says that all comparisons must ignore case and
  hyphens. With `Django` pipenv changes the files and the project is reported as
  failed; poetry is not asked. `FixReportIsTrue` excepts such names.
* The summary of `fix` counts a fixable issue for each package that fixes it, a fixed
  one once per project; what a severity threshold leaves out can be counted as fixed.
* `log4shell` ends without any result when one archive, or one Jndi class, cannot
  be read; an archive named JndiLookup ends it with VULNS and nothing shown; a
  JndiManager source file counts as vulnerable when there is a lookup class anywhere.

## 6. Plan

Order, most important first; each with its MC module, and proofs in a module of
their own:

1. `CLIv2Init`, `CLIv2Main`, `BinaryWrapper`, `InstallPromise`, with `CLIv2Proofs` and
   `BinaryWrapperProofs` (done).
2. `VulnmapFix`, `PipProvenance`, `PipRequirements`, with `FixProofs` (done).
3. `RunTest`, `TestPromise`, `TestCommand` with `TestCommandProofs` (done).
4. `UnmanagedTest` with `UnmanagedTestProofs`, `Monitor` and `MonitorPromise` with
   `MonitorProofs` (done).
5. `Protect`, `IacTest`, `IacV2`, `ExecutableCache`, `Drift`, `Auth`, `CodeTest`,
   `FixCommand`, in one run, with `CommandsProofs` (done).
6. `Options`, `PatchString`, `FindFiles`, `AllProjects`, `TestReport`, `IacResults`,
   `Log4Shell`, `FixReport`, in one run, with `AlgorithmsProofs` (done).
7. Abstract specifications that are not written: one list per project for
   `VulnmapFix`, which its code keeps only with one Python scan type (section 5), and
   one cache of verified images for `CLIv2Init`, which it keeps only for versions
   that nobody clears meanwhile; `SummaryIsTrue` and `ImageTrusted` say so as invariants.

The runs are few enough to be repeated in minutes; modules that do not share
state share a run.

## 7. Not modelled, and why

Layout of output (text, JSON, SARIF, HTML), help texts, analytics and metrics, the
spinner: no result depends on them. Container and dependency plugins, the code
analysis library, goproxy, cobra, pip, pipenv, poetry, the policy library, driftctl
and the policy engine: external; modelled, where they are used, by what the code
does with their outcomes. The grammars of manifests, of IaC files and of policies:
data. Proxy and protocol choice of requests: one expression over the environment.
`https.get` of the npm wrapper has no timeout (`common.ts:289`), so its download may
hold a command for ever; no code promises otherwise and nothing is stated.
Scripts of the delivery pipeline: not part of the program.
