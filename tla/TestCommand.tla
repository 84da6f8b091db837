---------------------------- MODULE TestCommand ------------------------------
(***************************************************************************)
(* vulnmap test for open source projects (cli/commands/test/index.ts and   *)
(* cli/main.ts): the paths of the command line are tested one after the    *)
(* other, a failed path is a result like any other, and the results decide *)
(* what is thrown and with which code the process ends.                    *)
(***************************************************************************)
EXTENDS RunTest

CONSTANTS
  OutputModes, \* output ("text", "json", "sarif") and --fail-on, of a command line
  None         \* no error, no exit code

ASSUME NoneAssumption == None \notin Errors \cup {"VULNS", "error"} /\ None \notin 0..3

VARIABLES
  mode,      \* the options
  stage,     \* "validating", "testing", "threw", "returned", "ended"
  current,   \* the path being tested
  results,   \* paths whose outcome is among the results
  thrown,    \* the error that reaches handleError: its code and its text
  exitCode   \* process.exitCode

commandVars == <<mode, stage, current, results, thrown, exitCode>>
vars == <<testVars, commandVars>>

EXIT_CODES == [VULNS_FOUND |-> 1, ERROR |-> 2, NO_SUPPORTED_PROJECTS_DETECTED |-> 3]
NoError == [code |-> None, unsupported |-> FALSE]

Init ==
  /\ TestInit
  /\ mode \in OutputModes
  /\ stage = "validating"
  /\ current = 0
  /\ results = {}
  /\ thrown = NoError
  /\ exitCode = None

------------------------------------------------------------------------------
(* test() *)

NextPath ==
  /\ current' = current + 1
  /\ IF current < NPaths THEN CallTest(current + 1) ELSE UNCHANGED testVars

ValidateOptions ==
  /\ stage = "validating"
  /\ \/ /\ stage' = "testing"
        /\ NextPath
        /\ UNCHANGED thrown
     \/ /\ stage' = "threw"
        /\ thrown' = [code |-> "error", unsupported |-> FALSE]
        /\ UNCHANGED <<testVars, current>>
  /\ UNCHANGED <<mode, results, exitCode>>

\* Mutant: the first path that fails ends the loop.
CollectPath_Throw ==
  /\ stage = "testing" /\ current \in Paths
  /\ test[current] \in {"returned", "threw"}
  /\ results' = results \cup {current}
  /\ IF test[current] = "threw" THEN current' = NPaths + 1 /\ UNCHANGED testVars
     ELSE NextPath
  /\ UNCHANGED <<mode, stage, thrown, exitCode>>

\* A path's results, or its error, join the others'.
CollectPath ==
  /\ stage = "testing" /\ current \in Paths
  /\ test[current] \in {"returned", "threw"}
  /\ results' = results \cup {current}
  /\ NextPath
  /\ UNCHANGED <<mode, stage, thrown, exitCode>>

ErrorResults == {p \in results : test[p] = "threw"}
Found == UNION {{answer[p][c] : c \in Payloads(p)} : p \in results \ ErrorResults}
FoundVulnerabilities == Found \ {"clean"} # {}

ShouldFail ==
  CASE mode.failOn = "all"        -> Found \cap {"upgradable", "patchable"} # {}
    [] mode.failOn = "upgradable" -> "upgradable" \in Found
    [] mode.failOn = "patchable"  -> "patchable" \in Found
    [] OTHER                      -> FoundVulnerabilities

\* Mutant: --fail-on is not looked at.
Tolerated_Never == FALSE

\* Vulnerabilities that --fail-on does not name.
Tolerated == FoundVulnerabilities /\ mode.failOn # "none" /\ ~ShouldFail

Unsupported == mode.output # "sarif" /\ \E p \in ErrorResults : error[p] = "noManifest"

ThrowText(code) == stage' = "threw" /\ thrown' = [code |-> code, unsupported |-> Unsupported]
ReturnText == stage' = "returned" /\ UNCHANGED thrown

\* Mutant: vulnerabilities hide the errors.
ConcludeText_VulnsFirst ==
  IF FoundVulnerabilities /\ ~Tolerated THEN ThrowText("VULNS")
  ELSE IF ErrorResults # {} THEN ThrowText("error") ELSE ReturnText

ConcludeText ==
  \/ ErrorResults # {} /\ ThrowText("error")
  \/ ErrorResults = {} /\ FoundVulnerabilities /\ ~Tolerated /\ ThrowText("VULNS")
  \/ ErrorResults = {} /\ (FoundVulnerabilities => Tolerated) /\ ReturnText

\* With --json or --sarif.
ConcludeJson ==
  LET allOk == ErrorResults = {} /\ ~FoundVulnerabilities IN
  \/ (allOk \/ Tolerated) /\ ReturnText
  \/ /\ ~allOk /\ ~Tolerated
     /\ ThrowText(IF ErrorResults # {} THEN "error" ELSE "VULNS")

Conclude ==
  /\ stage = "testing" /\ current = NPaths + 1
  /\ IF mode.output = "text" THEN ConcludeText ELSE ConcludeJson
  /\ UNCHANGED <<testVars, mode, current, results, exitCode>>

------------------------------------------------------------------------------
(* main() *)

HandleError ==
  /\ stage = "threw"
  /\ exitCode' = CASE thrown.code = "VULNS" -> EXIT_CODES.VULNS_FOUND
                   [] thrown.code # "VULNS" /\ thrown.unsupported ->
                        EXIT_CODES.NO_SUPPORTED_PROJECTS_DETECTED
                   [] OTHER -> EXIT_CODES.ERROR
  /\ stage' = "ended"
  /\ UNCHANGED <<testVars, mode, current, results, thrown>>

\* runCommand prints and saves the results; no exit code is set.
PrintResult ==
  /\ stage = "returned"
  /\ exitCode' = 0
  /\ stage' = "ended"
  /\ UNCHANGED <<testVars, mode, current, results, thrown>>

\* The requests of all paths go on, those of failed paths too: the process
\* ends when none is left.
Idle == \A p \in Paths : Active(p) = {}

Next ==
  \/ ValidateOptions \/ CollectPath \/ Conclude \/ HandleError \/ PrintResult
  \/ \E p \in Paths : RunTestNext(p) /\ UNCHANGED commandVars

Spec == Init /\ [][Next]_vars

\* The event loop is never idle for ever while something can be done, and
\* every request is answered or times out.
LiveSpec == Spec /\ WF_vars(Next)

------------------------------------------------------------------------------
(* Properties *)

TypeOK ==
  /\ TestTypeOK
  /\ mode \in OutputModes
  /\ stage \in {"validating", "testing", "threw", "returned", "ended"}
  /\ current \in 0..NPaths + 1
  /\ results \subseteq Paths
  /\ thrown \in [code : {"VULNS", "error", None}, unsupported : BOOLEAN]
  /\ exitCode \in 0..3 \cup {None}
  /\ \A p \in Paths : p > current => test[p] = "untested"

\* The command and the requests it has left behind come to an end.
CommandEnds == <>(exitCode # None /\ Idle)

OutcomeOf(p) ==
  [error |-> IF test[p] = "threw" THEN error[p] ELSE None,
   found |-> IF test[p] = "threw" THEN {} ELSE {answer[p][c] : c \in Payloads(p)}]

Promise == INSTANCE TestPromise WITH
  outcomes <- [i \in 1..Cardinality(results) |-> OutcomeOf(i)],
  failOn <- mode.failOn

\* The command keeps its promise: one outcome for every path, in their order,
\* and an exit code that tells all of them.
KeepsPromise == Promise!Spec
==============================================================================
