------------------------------- MODULE RunTest -------------------------------
(***************************************************************************)
(* runTest (lib/vulnmap-test/run-test.ts): the test of one path.  The      *)
(* path's dependencies are made into payloads, which are sent by a pool of *)
(* requests and retried when the server is unwell.  The first payload that *)
(* is given up fails the path; the requests of the pool that are under way *)
(* or waiting to be retried then go on by themselves.                      *)
(***************************************************************************)
EXTENDS Integers, Sequences, FiniteSets

CONSTANTS
  NPaths,          \* paths of the command line, in their order
  MaxPayloads,     \* bound: projects found at a path
  MaxConcurrency,  \* MAX_CONCURRENCY
  RetryAttempts,   \* RETRY_ATTEMPTS
  Findings         \* what the server tells of a project

ASSUME NPathsAssumption == NPaths \in Nat \ {0}
ASSUME PayloadsAssumption == MaxPayloads \in Nat \ {0}
ASSUME PoolAssumption == MaxConcurrency \in Nat \ {0} /\ RetryAttempts \in Nat \ {0}

Paths == 1..NPaths
Calls == 1..MaxPayloads

\* What the server finds: nothing, or vulnerabilities of which the best
\* remedy is none, an upgrade or a patch.
ASSUME FindingsAssumption ==
  Findings \subseteq {"clean", "unfixable", "upgradable", "patchable"} /\ Findings # {}

\* Errors of runTest: only the first is told from the others by its text.
Errors == {"noManifest", "failed"}

VARIABLES
  test,       \* a path's test: "untested", "assembling", "sending", "returned", "threw"
  call,       \* sendRequest of each payload of a path
  answer,     \* what the server answered a payload with
  error       \* what the test of a path was rejected with

testVars == <<test, call, answer, error>>

NoCall == [state |-> "none", step |-> 0]

TestInit ==
  /\ test = [p \in Paths |-> "untested"]
  /\ call = [p \in Paths |-> [c \in Calls |-> NoCall]]
  /\ answer = [p \in Paths |-> [c \in Calls |-> "none"]]
  /\ error = [p \in Paths |-> "none"]

Payloads(p)   == {c \in Calls : call[p][c].state # "none"}
InState(p, s) == {c \in Calls : call[p][c].state = s}
Active(p)     == InState(p, "inFlight") \cup InState(p, "asleep")

------------------------------------------------------------------------------
(* assemblePayloads *)

CallTest(p) ==
  /\ test[p] = "untested"
  /\ test' = [test EXCEPT ![p] = "assembling"]
  /\ UNCHANGED <<call, answer, error>>

Assemble(p) ==
  /\ test[p] = "assembling"
  /\ \E n \in Calls :
       call' = [call EXCEPT ![p] =
         [c \in Calls |-> IF c <= n THEN [NoCall EXCEPT !.state = "queued"] ELSE NoCall]]
  /\ test' = [test EXCEPT ![p] = "sending"]
  /\ UNCHANGED <<answer, error>>

Throw(p, e) ==
  /\ test' = [test EXCEPT ![p] = "threw"]
  /\ error' = [error EXCEPT ![p] = e]

\* No package manager is detected, a plugin fails, dependencies are missing.
AssembleFails(p) ==
  /\ test[p] = "assembling"
  /\ \E e \in Errors : Throw(p, e)
  /\ UNCHANGED <<call, answer>>

------------------------------------------------------------------------------
(* sendRequest, in p-map's pool *)

SetCall(p, c, s) == call' = [call EXCEPT ![p][c].state = s]

\* p-map starts the payloads in their order, and none after a rejection.
StartCall(p) ==
  /\ test[p] = "sending"
  /\ Cardinality(Active(p)) < MaxConcurrency
  /\ \E c \in InState(p, "queued") :
       /\ \A d \in InState(p, "queued") : c <= d
       /\ SetCall(p, c, "inFlight")
  /\ UNCHANGED <<test, answer, error>>

Answered(p, c) ==
  /\ call[p][c].state = "inFlight"
  /\ SetCall(p, c, "answered")
  /\ \E f \in Findings : answer' = [answer EXCEPT ![p][c] = f]
  /\ UNCHANGED <<test, error>>

\* The payload's promise is rejected: the first to be so ends the test.
GiveUp(p, c, e) ==
  /\ call' = [call EXCEPT ![p][c].state = "gaveUp"]
  /\ IF test[p] = "sending" THEN Throw(p, e) ELSE UNCHANGED <<test, error>>
  /\ UNCHANGED answer

\* Mutant: the request is retried at once and for ever.
Unavailable_NoCount(p, c) ==
  /\ call[p][c].state = "inFlight"
  /\ SetCall(p, c, "asleep")
  /\ UNCHANGED <<test, answer, error>>

\* 500, 502 and 503 are waited out, after the last attempt too.
Unavailable(p, c) ==
  /\ call[p][c].state = "inFlight"
  /\ call' = [call EXCEPT ![p][c] = [state |-> "asleep", step |-> @.step + 1]]
  /\ UNCHANGED <<test, answer, error>>

Wake(p, c) ==
  /\ call[p][c].state = "asleep"
  /\ \/ /\ call[p][c].step < RetryAttempts
        /\ SetCall(p, c, "inFlight")
        /\ UNCHANGED <<test, answer, error>>
     \/ /\ call[p][c].step >= RetryAttempts
        /\ GiveUp(p, c, "failed")

\* Any other status, or no connection.  A feature that is not allowed is
\* reported as a path without supported files.
Refused(p, c) ==
  /\ call[p][c].state = "inFlight"
  /\ \E e \in Errors : GiveUp(p, c, e)

------------------------------------------------------------------------------
(* parseRes *)

AllAnswered(p) == \A c \in Payloads(p) : call[p][c].state = "answered"

Parse(p) ==
  /\ test[p] = "sending" /\ AllAnswered(p)
  /\ \/ /\ test' = [test EXCEPT ![p] = "returned"]
        /\ UNCHANGED error
     \/ Throw(p, "failed")              \* a policy that cannot be loaded
  /\ UNCHANGED <<call, answer>>

Pool(p) ==
  \/ StartCall(p)
  \/ \E c \in Calls :
       Answered(p, c) \/ Unavailable(p, c) \/ Wake(p, c) \/ Refused(p, c)

RunTestNext(p) == Assemble(p) \/ AssembleFails(p) \/ Pool(p) \/ Parse(p)

------------------------------------------------------------------------------
(* Properties *)

TestTypeOK ==
  /\ test \in [Paths -> {"untested", "assembling", "sending", "returned", "threw"}]
  /\ call \in [Paths -> [Calls ->
       [state : {"none", "queued", "inFlight", "asleep", "answered", "gaveUp"},
        step : 0..RetryAttempts]]]
  /\ answer \in [Paths -> [Calls -> Findings \cup {"none"}]]
  /\ error \in [Paths -> Errors \cup {"none"}]
==============================================================================
