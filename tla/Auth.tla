--------------------------------- MODULE Auth --------------------------------
(***************************************************************************)
(* The credentials: vulnmap auth, with a token or by logging in on the     *)
(* web, vulnmap config, and vulnmap ignore, which needs them to change the *)
(* .vulnmap file; run one after the other by one user.  The service, and   *)
(* the user who logs in, are external.                                     *)
(***************************************************************************)
EXTENDS Program

CONSTANTS
  Attempts,      \* polls for the login (60 in a container, 180 otherwise)
  MaxCommands,   \* bound: commands run
  Issues, Paths  \* what vulnmap ignore can be given

VARIABLES
  environment,   \* tokens of the environment: TOKEN (VULNMAP_TOKEN), cfg
                 \*   (VULNMAP_CFG_API); and CI
  stored,        \* the key api of the configuration file
  commands,
  attemptsLeft,
  loggedIn,      \* the user logged in with the token of this command
  confirmed,     \* history: tokens that the service said it accepts
  before,        \* history: stored, when this command began
  rules          \* rules of .vulnmap: <<issue, path, command that wrote it>>

loginVars == <<attemptsLeft, loggedIn>>
authVars == <<environment, stored, commands, loginVars, confirmed, before, rules>>

AuthInit ==
  /\ environment = {} /\ stored = "none" /\ commands = 0
  /\ attemptsLeft = 0 /\ loggedIn = FALSE
  /\ confirmed = {} /\ before = "none" /\ rules = {}

EnvironmentChosen ==
  /\ pc = "auth" /\ commands = 0 /\ commands' = 1
  /\ environment' \in SUBSET {"TOKEN", "cfg", "CI"}
  /\ UNCHANGED <<programVars, stored, loginVars, confirmed, before, rules>>

\* userConfig.get('api'): VULNMAP_CFG_API comes before the file.
UserConfig == IF "cfg" \in environment THEN "cfg" ELSE stored

\* api()
Api == IF "TOKEN" \in environment THEN "TOKEN" ELSE UserConfig

CommandStarts(to) ==
  /\ commands \in 1..MaxCommands /\ Goto("auth", to)
  /\ before' = stored

\* The command ends; another one may be run.
CommandEnds(from, code) ==
  /\ pc = from /\ exitCode' = code /\ commands' = commands + 1
  /\ pc' \in {"done"} \cup (IF commands < MaxCommands THEN {"auth"} ELSE {})

------------------------------------------------------------------------------
(* auth *)

AuthStarts ==
  /\ CommandStarts("auth.start")
  /\ attemptsLeft' = Attempts /\ loggedIn' = FALSE
  /\ UNCHANGED <<environment, stored, commands, confirmed, rules>>

\* errorForFailedAuthAttempt, a request that fails or an answer without a body.
AuthFails ==
  /\ \E l \in {"auth.start", "auth.poll"} : CommandEnds(l, 2)
  /\ UNCHANGED <<environment, stored, loginVars, confirmed, before, rules>>

\* Mutant: the token given is kept whatever the service answers.
TokenVerified_Unchecked ==
  /\ CommandEnds("auth.start", 0)
  /\ stored' = "given" /\ confirmed' \in {confirmed, confirmed \cup {"given"}}
  /\ UNCHANGED <<environment, loginVars, before, rules>>

\* verifyAPI of the token given: a 200 or 201 has the token to keep.
TokenVerified ==
  /\ CommandEnds("auth.start", 0)
  /\ stored' = "given" /\ confirmed' = confirmed \cup {"given"}
  /\ UNCHANGED <<environment, loginVars, before, rules>>

\* After a request over IPv6 that chooses the family; not in CI.
WebLogin ==
  /\ "CI" \notin environment
  /\ Goto("auth.start", "auth.poll")
  /\ UNCHANGED authVars

UserLogsIn ==
  /\ pc \in {"auth.poll", "auth.sleep"} /\ ~loggedIn /\ loggedIn' = TRUE
  /\ UNCHANGED <<programVars, environment, stored, commands, attemptsLeft, confirmed, before, rules>>

LoginConfirmed ==
  /\ loggedIn /\ CommandEnds("auth.poll", 0)
  /\ stored' = "login" /\ confirmed' = confirmed \cup {"login"}
  /\ UNCHANGED <<environment, loginVars, before, rules>>

LoginPending ==
  /\ ~loggedIn /\ Goto("auth.poll", "auth.sleep")
  /\ UNCHANGED <<environment, stored, commands, loginVars, confirmed, before, rules>>

\* Mutant: the number of attempts is not counted down.
PollAgain_Forever ==
  /\ Goto("auth.sleep", "auth.poll")
  /\ UNCHANGED authVars

\* A second later.
PollAgain ==
  /\ attemptsLeft > 1 /\ Goto("auth.sleep", "auth.poll")
  /\ attemptsLeft' = attemptsLeft - 1
  /\ UNCHANGED <<environment, stored, commands, loggedIn, confirmed, before, rules>>

\* TokenExpiredError, after a second in which the user may have logged in.
LoginExpired ==
  /\ attemptsLeft <= 1 /\ CommandEnds("auth.sleep", 2)
  /\ attemptsLeft' = attemptsLeft - 1
  /\ UNCHANGED <<environment, stored, loggedIn, confirmed, before, rules>>

------------------------------------------------------------------------------
(* config and ignore *)

ConfigCommand ==
  /\ CommandStarts("auth.config")
  /\ UNCHANGED <<environment, stored, commands, loginVars, confirmed, rules>>

\* An unknown method, or get without a key.
ConfigFails ==
  /\ CommandEnds("auth.config", 2)
  /\ UNCHANGED <<environment, stored, loginVars, confirmed, before, rules>>

\* set api=..., unset api and clear; get and the list change nothing.
ConfigEnds ==
  /\ CommandEnds("auth.config", 0)
  /\ stored' \in {"set", "none", stored}
  /\ UNCHANGED <<environment, loginVars, confirmed, before, rules>>

\* isAuthed asks about the token of the configuration and its answer counts in
\* CI only; any token at all is needed.
IgnoreStarts ==
  /\ CommandStarts("auth.ignore")
  /\ UNCHANGED <<environment, stored, commands, loginVars, confirmed, rules>>

IgnoreRejected ==
  /\ CommandEnds("auth.ignore", 2)
  /\ UNCHANGED <<environment, stored, loginVars, confirmed, before, rules>>

\* actionAllowed says no, or cannot be asked: the reason is printed, exit 0.
IgnoreNotAllowed ==
  /\ Api # "none" /\ CommandEnds("auth.ignore", 0)
  /\ UNCHANGED <<environment, stored, loginVars, confirmed, before, rules>>

\* The rule of the issue for the path is replaced, or added; the rules of other
\* issues and other paths stay.
IgnoreIssue ==
  \E i \in Issues, p \in Paths :
    /\ Api # "none" /\ CommandEnds("auth.ignore", 0)
    /\ rules' = {r \in rules : <<r[1], r[2]>> # <<i, p>>} \cup {<<i, p, commands>>}
    /\ UNCHANGED <<environment, stored, loginVars, confirmed, before>>

AuthNext ==
  \/ EnvironmentChosen \/ AuthStarts \/ AuthFails \/ TokenVerified \/ WebLogin
  \/ UserLogsIn \/ LoginConfirmed \/ LoginPending \/ PollAgain \/ LoginExpired
  \/ ConfigCommand \/ ConfigFails \/ ConfigEnds
  \/ IgnoreStarts \/ IgnoreRejected \/ IgnoreNotAllowed \/ IgnoreIssue

------------------------------------------------------------------------------
\* The stored token is one that the service accepted or the user set, and a
\* command that fails leaves the one there was (auth/index.ts:135).
StoredIsConfirmed ==
  /\ stored \in confirmed \cup {"set", "none"}
  /\ pc \in {"auth", "done"} /\ exitCode # 0 => stored = before
==============================================================================
