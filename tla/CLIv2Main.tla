------------------------------ MODULE CLIv2Main ------------------------------
(***************************************************************************)
(* One run of the Go CLI: MainWithErrorCode (main.go) hands the command    *)
(* line to cobra, which runs an extension's workflow, the legacy CLI or    *)
(* the help; handleError decides from the text of the error whether the    *)
(* legacy CLI has to serve the command after all; the exit code comes from *)
(* the last error.  The legacy workflow (legacycli.go) prepares the cache  *)
(* and the wrapper proxy (module CLIv2Init looks inside), and starts the   *)
(* legacy CLI with an environment that routes its traffic through the      *)
(* proxy (PrepareV1EnvironmentVariables in cliv2.go).                      *)
(*                                                                         *)
(* The text of an error is abstracted to what handleError looks for in it. *)
(***************************************************************************)
EXTENDS Integers, Sequences

CONSTANT ExitCodes    \* exit codes of the legacy CLI other than 0

ASSUME ExitCodeAssumption == ExitCodes \subseteq 1..255 /\ 2 \in ExitCodes

VARIABLES
  place,         \* where the run is
  args,          \* what the command line is to cobra
  env,           \* what the user's environment and configuration define
  err,           \* the error at hand
  helpProvided,  \* main.go's global variable
  caller,        \* who invoked the legacy workflow
  child,         \* the environment of the legacy CLI
  runs,          \* history: invocations of the legacy workflow by main.go
  exitCode,      \* what the process exits with
  shown          \* displayError has printed the error

mainVars == <<place, args, env, err, helpProvided, caller, child, runs, exitCode, shown>>

Arguments ==
  {"legacy",     \* cobra knows no such command, or only a parent of it
   "root",       \* no command
   "workflow",   \* an extension's command
   "badFlag",    \* an extension's command with a flag cobra rejects
   "helpCmd",    \* the help command
   "helpFlag"}   \* --help of the root or of an extension's command

\* What handleError tells apart: an error of the text classes it knows, the
\* exit error of a child process, any other error; and whom it comes from.
Kinds   == {"unknownCommand", "flag", "exit", "other"}
Origins == {"cobra", "extension", "legacy"}
Codes   == ExitCodes \cup {-1}     \* -1: a signal killed the child
Errors  == [kind : Kinds, code : Codes \cup {0}, from : Origins]
NoError == [kind |-> "none", code |-> 0, from |-> "none"]
Error(kind, from)   == [kind |-> kind, code |-> 0, from |-> from]
ExitError(c, from)  == [kind |-> "exit", code |-> c, from |-> from]

\* An extension reports whatever it likes, also the exit error of a child.
ExtensionErrors ==
  {Error(k, "extension") : k \in Kinds \ {"exit"}} \cup
  {ExitError(c, "extension") : c \in Codes}
\* The legacy workflow fails with errors of the operating system; the text of
\* EINVAL is "invalid argument".
LegacyErrors == {Error("flag", "legacy"), Error("other", "legacy")}

Environments ==
  [integrationName    : BOOLEAN,   \* VULNMAP_INTEGRATION_NAME is set
   integrationVersion : BOOLEAN,   \* VULNMAP_INTEGRATION_VERSION is set
   proxy      : BOOLEAN,           \* the user has an HTTPS proxy
   noProxy    : BOOLEAN,           \* the user has no_proxy entries
   extraCa    : BOOLEAN,           \* NODE_EXTRA_CA_CERTS names a readable file
   oauthEnv   : BOOLEAN,           \* VULNMAP_OAUTH_TOKEN is set
   dockerEnv  : BOOLEAN,           \* VULNMAP_DOCKER_TOKEN is set
   storage    : {"none", "config", "env"},  \* where an OAuth token is stored
   oauthFlow  : BOOLEAN]           \* the OAuth flow is enabled by configuration

NoChild == [https |-> "none", ca |-> {}, noProxy |-> {}, system |-> "none",
            token |-> "none"]

MainInit ==
  /\ place = "start"
  /\ args \in Arguments
  /\ env \in Environments
  /\ err = NoError
  /\ helpProvided = FALSE
  /\ caller = "none"
  /\ child = NoChild
  /\ runs = <<>>
  /\ exitCode = 0
  /\ shown = FALSE

Moves(from, to) == place = from /\ place' = to

------------------------------------------------------------------------------
(* MainWithErrorCode up to rootCommand.Execute *)

\* initApplicationConfiguration: a bearer token in the environment disables
\* the OAuth flow, unless the OAuth storage itself is in the environment.
OAuthIsAvailable ==
  IF env.storage # "env" /\ (env.oauthEnv \/ env.dockerEnv) THEN FALSE
  ELSE env.oauthFlow

\* engine.Init fails: the run ends before any command.
EngineFails ==
  /\ Moves("start", "done")
  /\ exitCode' = 2
  /\ UNCHANGED <<args, env, err, helpProvided, caller, child, runs, shown>>

\* rootCommand.Execute finds the command and looks at its flags.  Not every
\* error of a flag is one handleError knows: "unknown shorthand flag" is not.
CobraError ==
  /\ Moves("start", "handle")
  /\ \/ args = "legacy" /\ err' = Error("unknownCommand", "cobra")
     \/ args = "badFlag" /\ err' \in {Error("flag", "cobra"), Error("other", "cobra")}
  /\ UNCHANGED <<args, env, helpProvided, caller, child, runs, exitCode, shown>>

\* defaultCmd: the legacy workflow with the raw arguments, or with --help.
InvokeLegacy(c, help) ==
  /\ caller' = c
  /\ runs' = Append(runs, [help |-> help, result |-> NoError])
  /\ helpProvided' = (helpProvided \/ help)
  /\ UNCHANGED <<args, env, err, child, exitCode, shown>>

RunRoot     == args = "root" /\ Moves("start", "legacy") /\ InvokeLegacy("cobra", FALSE)
RunHelpCmd  == args = "helpCmd" /\ Moves("start", "legacy") /\ InvokeLegacy("cobra", TRUE)
\* The function given to SetHelpFunc has no result.
RunHelpFlag == args = "helpFlag" /\ Moves("start", "legacy") /\ InvokeLegacy("helpFunc", TRUE)

\* runMainWorkflow: the workflow, then the output workflow on its data.
RunMainWorkflow ==
  /\ args = "workflow"
  /\ Moves("start", "handle")
  /\ err' \in ExtensionErrors \cup {NoError}
  /\ UNCHANGED <<args, env, helpProvided, caller, child, runs, exitCode, shown>>

------------------------------------------------------------------------------
(* legacycliWorkflow *)

\* The callers differ in what they do with the error of the workflow.
Return(e) ==
  /\ place' = IF caller \in {"cobra", "helpFunc"} THEN "handle" ELSE "finish"
  /\ err' = IF caller = "helpFunc" THEN NoError ELSE e
  /\ runs' = [runs EXCEPT ![Len(runs)].result = e]
  /\ child' = NoChild
  /\ UNCHANGED <<args, env, helpProvided, caller, exitCode, shown>>

\* NewCLIv2, Init, NewWrapperProxy or Start fails.
LegacyFails ==
  /\ place = "legacy"
  /\ \E e \in LegacyErrors : Return(e)

\* commandVersion prints the version, or refuses --json-file-output.
CommandVersion ==
  /\ place = "legacy"
  /\ \E e \in {NoError, Error("other", "legacy")} : Return(e)

\* legacycliWorkflow: the legacy CLI needs some token, the proxy replaces it.
Token ==
  IF env.oauthEnv THEN "user"
  ELSE IF OAuthIsAvailable /\ env.storage # "none" THEN "random" ELSE "none"

UserProxy   == IF env.proxy THEN "user" ELSE "none"
UserNoProxy == IF env.noProxy THEN {"user"} ELSE {}
UserCa      == IF env.extraCa THEN {"user"} ELSE {}

\* An EnvironmentWarning: only one of the two integration variables is set.
EnvironmentWarning == env.integrationName # env.integrationVersion

\* The certificate file holds the proxy's certificate and, merged by
\* NewWrapperProxy, the user's.
\* The proxy settings are moved to the system variables and replaced, unless
\* there is a warning: then the environment stays what it was.
PrepareV1EnvironmentVariables ==
  IF EnvironmentWarning
  THEN [https |-> UserProxy, ca |-> UserCa, noProxy |-> UserNoProxy,
        system |-> "none", token |-> Token]
  ELSE [https |-> "wrapper", ca |-> {"wrapper"} \cup UserCa,
        noProxy |-> {"internal"} \cup UserNoProxy,
        system |-> UserProxy, token |-> Token]

\* executeV1Default: the warning is printed, the command runs all the same.
StartChild ==
  /\ Moves("legacy", "child")
  /\ child' = PrepareV1EnvironmentVariables
  /\ UNCHANGED <<args, env, err, helpProvided, caller, runs, exitCode, shown>>

ChildReturns ==
  /\ place = "child"
  /\ \E e \in {ExitError(c, "legacy") : c \in Codes}
                \cup LegacyErrors \cup {NoError} : Return(e)

------------------------------------------------------------------------------
(* handleError, displayError, DeriveExitCode *)

\* Mutant: the error is looked at although help has been provided.
HandleErrorResult_Always ==
  IF err.kind = "unknownCommand" THEN "fallback"
  ELSE IF err.kind = "flag" THEN "help" ELSE "unhandled"

HandleErrorResult ==
  IF err = NoError \/ helpProvided THEN "unhandled"
  ELSE IF err.kind = "unknownCommand" THEN "fallback"
  ELSE IF err.kind = "flag" THEN "help" ELSE "unhandled"

HandleError ==
  \/ /\ HandleErrorResult = "fallback"
     /\ Moves("handle", "legacy")
     /\ InvokeLegacy("fallback", FALSE)
  \/ /\ HandleErrorResult = "help"
     /\ Moves("handle", "legacy")
     /\ InvokeLegacy("help", TRUE)
  \/ /\ HandleErrorResult = "unhandled"
     /\ Moves("handle", "finish")
     /\ UNCHANGED <<args, env, err, helpProvided, caller, child, runs,
                    exitCode, shown>>

\* Mutant: only the exit error of a child process counts.
DeriveExitCode_ExitErrorOnly(e) == e.code
DeriveExitCode(e) ==
  IF e = NoError THEN 0 ELSE IF e.kind = "exit" THEN e.code ELSE 2

\* displayError leaves it to the child process to print its errors.
Displayed == err.kind \notin {"none", "exit"}

Finish ==
  /\ Moves("finish", "done")
  /\ shown' = Displayed
  /\ exitCode' = DeriveExitCode(err) % 256      \* what the parent sees
  /\ UNCHANGED <<args, env, err, helpProvided, caller, child, runs>>

MainNext ==
  \/ EngineFails \/ CobraError \/ RunRoot \/ RunHelpCmd \/ RunHelpFlag
  \/ RunMainWorkflow \/ LegacyFails \/ CommandVersion \/ StartChild
  \/ ChildReturns \/ HandleError \/ Finish

MainSpec == MainInit /\ [][MainNext]_mainVars

------------------------------------------------------------------------------
(* Properties *)

HelpRuns == {i \in DOMAIN runs : runs[i].help}
LastResult == IF runs = <<>> THEN NoError ELSE runs[Len(runs)].result

MainTypeOK ==
  /\ place \in {"start", "handle", "legacy", "child", "finish", "done"}
  /\ args \in Arguments
  /\ env \in Environments
  /\ err \in Errors \cup {NoError}
  /\ helpProvided \in BOOLEAN
  /\ caller \in {"none", "cobra", "helpFunc", "fallback", "help"}
  /\ child \in [https : {"none", "user", "wrapper"}, ca : SUBSET {"user", "wrapper"},
                noProxy : SUBSET {"user", "internal"},
                system : {"none", "user"}, token : {"none", "user", "random"}]
  /\ runs \in Seq([help : BOOLEAN, result : Errors \cup {NoError}])
  /\ exitCode \in {0, 255} \cup ExitCodes
  /\ shown \in BOOLEAN

\* The user's command is given to the legacy CLI at most once and its help is
\* asked for at most once, whatever the errors look like.
LegacyOnce ==
  \A i, j \in DOMAIN runs : i # j => runs[i].help # runs[j].help

\* A run that ends with exit code 0 has not lost an error: what ran last
\* succeeded (cobra's help function, which cannot report an error, excepted). An
\* error that the child process has not printed itself is printed before the
\* process exits with an error code, except when the engine is not ready.
ExitIsHonest ==
  /\ place = "done" /\ exitCode = 0 /\ caller # "helpFunc" =>
       err = NoError /\ LastResult = NoError
  /\ place = "done" /\ exitCode # 0 /\ err # NoError =>
       shown \/ (err.kind = "exit" /\ exitCode = err.code % 256)
==============================================================================
