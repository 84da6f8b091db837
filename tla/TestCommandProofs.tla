-------------------------- MODULE TestCommandProofs --------------------------
(***************************************************************************)
(* TestCommand implements TestPromise, for every number of paths, payloads *)
(* and attempts, with the options for which the command keeps its promise: *)
(* text output, or JSON output without --fail-on.                          *)
(***************************************************************************)
EXTENDS TestCommand, FiniteSetTheorems, TLAPS

\* The options of the promise: text output with any --fail-on, JSON output with
\* none (with one, errors of paths are dropped, so the promise is not kept).
FailOns == {"none", "all", "upgradable", "patchable"}
ModesPromised ==
  OutputModes \subseteq [output : {"text"}, failOn : FailOns] \cup [output : {"json"}, failOn : {"none"}]

CallStates == {"none", "queued", "inFlight", "asleep", "answered", "gaveUp"}
Outcomes == [i \in 1..Cardinality(results) |-> OutcomeOf(i)]

\* Attempts are counted while a request is tried.
Tries ==
  \A p \in Paths : \A c \in Calls :
    /\ call[p][c].state = "queued" => call[p][c].step = 0
    /\ call[p][c].state = "inFlight" => call[p][c].step < RetryAttempts

\* A path that is sent has payloads; what is answered has an answer; a path
\* returns when all is answered, and throws with an error.
CallsOf ==
  \A p \in Paths :
    /\ test[p] \in {"untested", "assembling"} => Payloads(p) = {}
    /\ \A c \in Calls : call[p][c].state = "answered" => answer[p][c] \in Findings
    /\ test[p] = "returned" => AllAnswered(p)
    /\ test[p] = "threw" => error[p] \in Errors

\* The paths collected are the first ones, and their tests are over.
Order ==
  /\ results = 1..current - 1
  /\ \A p \in results : test[p] \in {"returned", "threw"}

\* What reaches main, and the exit code, follow from all the outcomes.
CodeOf(t) ==
  CASE t.code = "VULNS" -> EXIT_CODES.VULNS_FOUND
    [] t.code # "VULNS" /\ t.unsupported -> EXIT_CODES.NO_SUPPORTED_PROJECTS_DETECTED
    [] OTHER -> EXIT_CODES.ERROR

Concluded ==
  /\ stage = "validating" => current = 0
  /\ stage = "testing" => current > 0
  /\ stage = "returned" => current = NPaths + 1 /\ Promise!Verdict = 0
  /\ stage = "threw" =>
       \/ current = NPaths + 1 /\ CodeOf(thrown) = Promise!Verdict
       \/ current = 0 /\ CodeOf(thrown) = EXIT_CODES.ERROR
  /\ stage # "ended" => exitCode = None

\* The inductive invariant.
IndInv == TypeOK /\ Tries /\ CallsOf /\ Order /\ Concluded

------------------------------------------------------------------------------
(* A step of the pool *)

\* What a step of the pool does to the call of c.
Becomes(p, c, s, n) == call' = [call EXCEPT ![p][c] = [state |-> s, step |-> n]]

\* A request becomes another one, is answered, or is given up.
NextStates == {"inFlight", "asleep", "answered", "gaveUp"}
PoolStep(p, c, s, n) ==
  /\ call[p][c].state \in {"queued", "inFlight", "asleep"}
  /\ Becomes(p, c, s, n)
  /\ s = "inFlight" => n < RetryAttempts
  /\ \/ s = "answered" /\ \E f \in Findings : answer' = [answer EXCEPT ![p][c] = f]
     \/ s # "answered" /\ UNCHANGED answer
  /\ \/ test[p] = "sending" /\ \E e \in Errors : Throw(p, e)
     \/ UNCHANGED <<test, error>>

\* Writing a field of a call writes the call.
LEMMA SetCallBecomes ==
  ASSUME TestTypeOK, NEW p \in Paths, NEW c \in Calls, NEW s \in CallStates,
         call' = [call EXCEPT ![p][c].state = s]
  PROVE  Becomes(p, c, s, call[p][c].step) /\ call[p][c].step \in 0..RetryAttempts
<1>1. call[p][c] \in [state : CallStates, step : 0..RetryAttempts]
  BY DEF TestTypeOK, CallStates
<1>2. [call[p][c] EXCEPT !.state = s] = [state |-> s, step |-> call[p][c].step]
  BY <1>1
<1>3. call' = [call EXCEPT ![p] = [call[p] EXCEPT ![c] = [call[p][c] EXCEPT !.state = s]]]
  OBVIOUS
<1> QED
  BY <1>1, <1>2, <1>3 DEF Becomes

\* Every action of the pool is such a step.
LEMMA PoolSteps ==
  ASSUME TestTypeOK, Tries, NEW p \in Paths, Pool(p)
  PROVE  \E c \in Calls : \E s \in NextStates : \E n \in 0..RetryAttempts :
           PoolStep(p, c, s, n)
<1> USE PoolAssumption DEF NextStates
<1>1. CASE StartCall(p)
  <2>1. PICK c \in InState(p, "queued") : SetCall(p, c, "inFlight")
    BY <1>1 DEF StartCall
  <2>2. c \in Calls /\ call[p][c].state = "queued" /\ call[p][c].step = 0
    BY <2>1 DEF InState, Tries
  <2>3. Becomes(p, c, "inFlight", 0)
    BY <2>1, <2>2, SetCallBecomes DEF SetCall, CallStates
  <2> QED
    BY <1>1, <2>2, <2>3 DEF StartCall, PoolStep
<1>2. ASSUME NEW c \in Calls, Answered(p, c)
      PROVE  \E s \in NextStates : \E n \in 0..RetryAttempts : PoolStep(p, c, s, n)
    BY <1>2, SetCallBecomes DEF Answered, SetCall, PoolStep, CallStates
<1>3. ASSUME NEW c \in Calls, Unavailable(p, c)
      PROVE  \E s \in NextStates : \E n \in 0..RetryAttempts : PoolStep(p, c, s, n)
  <2>1. call[p][c].step + 1 \in 0..RetryAttempts
    BY <1>3 DEF Unavailable, Tries, TestTypeOK
  <2>2. Becomes(p, c, "asleep", call[p][c].step + 1)
    BY <1>3 DEF Unavailable, Becomes, TestTypeOK
  <2> QED
    BY <1>3, <2>1, <2>2 DEF Unavailable, PoolStep
<1>4. ASSUME NEW c \in Calls, NEW e \in Errors, GiveUp(p, c, e),
             call[p][c].state \in {"inFlight", "asleep"}
      PROVE  \E s \in NextStates : \E n \in 0..RetryAttempts : PoolStep(p, c, s, n)
  <2>1. Becomes(p, c, "gaveUp", call[p][c].step) /\ call[p][c].step \in 0..RetryAttempts
    BY <1>4, SetCallBecomes DEF GiveUp, CallStates
  <2>2. \/ test[p] = "sending" /\ Throw(p, e)
        \/ test[p] # "sending" /\ UNCHANGED <<test, error>>
    BY <1>4 DEF GiveUp
  <2> QED
    BY <1>4, <2>1, <2>2 DEF GiveUp, PoolStep
<1>5. ASSUME NEW c \in Calls, Wake(p, c)
      PROVE  \E s \in NextStates : \E n \in 0..RetryAttempts : PoolStep(p, c, s, n)
  <2>1. CASE call[p][c].step < RetryAttempts
    <3>1. SetCall(p, c, "inFlight") /\ UNCHANGED <<test, answer, error>>
      BY <1>5, <2>1 DEF Wake, TestTypeOK
    <3>2. Becomes(p, c, "inFlight", call[p][c].step) /\ call[p][c].step \in 0..RetryAttempts
      BY <3>1, SetCallBecomes DEF SetCall, CallStates
    <3> QED
      BY <1>5, <2>1, <3>1, <3>2 DEF Wake, PoolStep
  <2>2. CASE ~(call[p][c].step < RetryAttempts)
    BY <1>4, <1>5, <2>2 DEF Wake, Errors
  <2> QED
    BY <2>1, <2>2
<1>6. ASSUME NEW c \in Calls, Refused(p, c)
      PROVE  \E s \in NextStates : \E n \in 0..RetryAttempts : PoolStep(p, c, s, n)
    BY <1>4, <1>6 DEF Refused
<1> QED
    BY <1>1, <1>2, <1>3, <1>5, <1>6 DEF Pool

\* What such a step changes, call by call.
LEMMA BecomesEffect ==
  ASSUME TestTypeOK, NEW p \in Paths, NEW c \in Calls, NEW s \in CallStates,
         NEW n \in 0..RetryAttempts, Becomes(p, c, s, n)
  PROVE  /\ call' \in [Paths -> [Calls -> [state : CallStates, step : 0..RetryAttempts]]]
         /\ call'[p][c] = [state |-> s, step |-> n]
         /\ \A q \in Paths : \A d \in Calls :
              q # p \/ d # c => call'[q][d] = call[q][d]
BY DEF TestTypeOK, Becomes, CallStates

------------------------------------------------------------------------------
(* The test of a path *)

TestInv == TestTypeOK /\ Tries /\ CallsOf

\* A step of the pool keeps what is true of the tests.
LEMMA PoolKeeps ==
  ASSUME TestInv, NEW p \in Paths, NEW c \in Calls, NEW s \in NextStates,
         NEW n \in 0..RetryAttempts, PoolStep(p, c, s, n)
  PROVE  TestInv'
<1> TestTypeOK /\ Tries /\ CallsOf
  BY DEF TestInv
<1>1. s \in CallStates
  BY DEF NextStates, CallStates
<1>2. /\ call' \in [Paths -> [Calls -> [state : CallStates, step : 0..RetryAttempts]]]
      /\ call'[p][c] = [state |-> s, step |-> n]
      /\ \A q \in Paths : \A d \in Calls : q # p \/ d # c => call'[q][d] = call[q][d]
  BY <1>1, BecomesEffect DEF PoolStep
<1>3. s = "inFlight" => n < RetryAttempts
  BY DEF PoolStep
<1>4. \/ test[p] = "sending" /\ \E e \in Errors : Throw(p, e)
      \/ UNCHANGED <<test, error>>
  BY DEF PoolStep
<1>5. answer' = answer \/ \E f \in Findings : answer' = [answer EXCEPT ![p][c] = f]
  BY DEF PoolStep
<1>6. s = "answered" => \E f \in Findings : answer' = [answer EXCEPT ![p][c] = f]
  BY DEF PoolStep
<1>7. TestTypeOK'
  <2>1. answer' \in [Paths -> [Calls -> Findings \cup {"none"}]]
    <3>1. CASE answer' = answer
      BY <3>1 DEF TestTypeOK
    <3>2. CASE \E f \in Findings : answer' = [answer EXCEPT ![p][c] = f]
      BY <3>2 DEF TestTypeOK
    <3> QED
      BY <1>5, <3>1, <3>2
  <2>2. test' \in [Paths -> {"untested", "assembling", "sending", "returned", "threw"}]
        /\ error' \in [Paths -> Errors \cup {"none"}]
    <3>1. CASE UNCHANGED <<test, error>>
      BY <3>1 DEF TestTypeOK
    <3>2. CASE \E e \in Errors : Throw(p, e)
      BY <3>2 DEF TestTypeOK, Throw
    <3> QED
      BY <1>4, <3>1, <3>2
  <2> QED
    BY <1>2, <2>1, <2>2 DEF TestTypeOK, CallStates
<1>8. Tries'
  <2>1. SUFFICES ASSUME NEW q \in Paths, NEW d \in Calls
        PROVE  /\ call'[q][d].state = "queued" => call'[q][d].step = 0
               /\ call'[q][d].state = "inFlight" => call'[q][d].step < RetryAttempts
    BY DEF Tries
  <2>2. CASE q = p /\ d = c
    BY <1>2, <1>3, <2>2 DEF NextStates
  <2>3. CASE q # p \/ d # c
    <3>1. call'[q][d] = call[q][d]
      BY <1>2, <2>3
    <3>2. /\ call[q][d].state = "queued" => call[q][d].step = 0
          /\ call[q][d].state = "inFlight" => call[q][d].step < RetryAttempts
      BY DEF Tries
    <3> QED
      BY <3>1, <3>2
  <2> QED
    BY <2>2, <2>3
<1>9. test[p] \in {"sending", "threw"}
  BY DEF PoolStep, CallsOf, Payloads, AllAnswered, TestTypeOK
<1>10. \A q \in Paths :
         \/ test'[q] = test[q] /\ error'[q] = error[q]
         \/ q = p /\ test'[q] = "threw" /\ error'[q] \in Errors
  <2>1. CASE UNCHANGED <<test, error>>
    BY <2>1
  <2>2. CASE \E e \in Errors : Throw(p, e)
    BY <2>2 DEF Throw, TestTypeOK
  <2> QED
    BY <1>4, <2>1, <2>2
<1>11. \A q \in Paths : \A d \in Calls :
         \/ answer'[q][d] = answer[q][d]
         \/ q = p /\ d = c /\ answer'[q][d] \in Findings
  BY <1>5 DEF TestTypeOK
<1>12. s = "answered" => answer'[p][c] \in Findings
  BY <1>6 DEF TestTypeOK
<1>13. ASSUME NEW q \in Paths
       PROVE  /\ test'[q] \in {"untested", "assembling"} => Payloads(q)' = {}
              /\ test'[q] = "returned" => AllAnswered(q)'
              /\ test'[q] = "threw" => error'[q] \in Errors
  <2>1. CASE q = p
    BY <1>9, <1>10, <2>1 DEF CallsOf
  <2>2. CASE q # p
    <3>1. \A d \in Calls : call'[q][d] = call[q][d]
      BY <1>2, <2>2
    <3>2. Payloads(q)' = Payloads(q) /\ (AllAnswered(q) => AllAnswered(q)')
      BY <3>1 DEF Payloads, AllAnswered
    <3> QED
      BY <1>10, <2>2, <3>2 DEF CallsOf
  <2> QED
    BY <2>1, <2>2
<1>14. \A q \in Paths : \A d \in Calls :
         call'[q][d].state = "answered" => answer'[q][d] \in Findings
  <2>1. SUFFICES ASSUME NEW q \in Paths, NEW d \in Calls, call'[q][d].state = "answered"
        PROVE  answer'[q][d] \in Findings
    OBVIOUS
  <2>2. CASE q = p /\ d = c
    BY <1>2, <1>12, <2>1, <2>2
  <2>3. CASE q # p \/ d # c
    BY <1>2, <1>11, <2>1, <2>3 DEF CallsOf
  <2> QED
    BY <2>2, <2>3
<1>15. CallsOf'
  BY <1>13, <1>14 DEF CallsOf
<1> QED
  BY <1>7, <1>8, <1>15 DEF TestInv

\* So does every step of a path's test.
LEMMA RunTestKeeps ==
  ASSUME TestInv, NEW p \in Paths, RunTestNext(p)
  PROVE  TestInv'
<1> TestTypeOK /\ Tries /\ CallsOf
  BY DEF TestInv
<1>1. CASE Assemble(p)
  <2>1. PICK n \in Calls : call' = [call EXCEPT ![p] =
          [c \in Calls |-> IF c <= n THEN [NoCall EXCEPT !.state = "queued"] ELSE NoCall]]
    BY <1>1 DEF Assemble
  <2>2. /\ \A q \in Paths : q # p => call'[q] = call[q]
        /\ \A d \in Calls : call'[p][d] \in {[state |-> "queued", step |-> 0], NoCall}
        /\ call' \in [Paths -> [Calls -> [state : CallStates, step : 0..RetryAttempts]]]
    BY <2>1, PoolAssumption DEF TestTypeOK, NoCall, CallStates
  <2>3. /\ test' = [test EXCEPT ![p] = "sending"]
        /\ UNCHANGED <<answer, error>>
    BY <1>1 DEF Assemble
  <2>4. TestTypeOK'
    BY <2>2, <2>3 DEF TestTypeOK, CallStates
  <2>5. Tries'
    <3>1. ASSUME NEW q \in Paths, NEW d \in Calls
          PROVE  \/ call'[q][d] = call[q][d]
                 \/ call'[q][d] \in {[state |-> "queued", step |-> 0], [state |-> "none", step |-> 0]}
      BY <2>2 DEF NoCall
    <3> QED
      BY <3>1 DEF Tries
  <2>6. CallsOf'
    BY <2>2, <2>3 DEF CallsOf, Payloads, AllAnswered, NoCall, TestTypeOK
  <2> QED
    BY <2>4, <2>5, <2>6 DEF TestInv
<1>2. CASE AssembleFails(p)
    BY <1>2 DEF TestInv, AssembleFails, Throw, TestTypeOK, Tries, CallsOf, Payloads, AllAnswered
<1>3. CASE Pool(p)
    BY <1>3, PoolSteps, PoolKeeps
<1>4. CASE Parse(p)
  <2>1. UNCHANGED <<call, answer>>
    BY <1>4 DEF Parse
  <2>2. \/ test' = [test EXCEPT ![p] = "returned"] /\ UNCHANGED error
        \/ test' = [test EXCEPT ![p] = "threw"] /\ error' = [error EXCEPT ![p] = "failed"]
    BY <1>4 DEF Parse, Throw
  <2>3. TestTypeOK'
    BY <2>1, <2>2 DEF TestTypeOK, Errors
  <2>4. CallsOf'
    BY <1>4, <2>1, <2>2 DEF Parse, CallsOf, Payloads, AllAnswered, TestTypeOK, Errors
  <2> QED
    BY <2>1, <2>3, <2>4 DEF TestInv, Tries
<1> QED
  BY <1>1, <1>2, <1>3, <1>4 DEF RunTestNext

\* The outcome of a test that is over stays, whatever its requests still do,
\* and no test begins by itself.
LEMMA OutcomesStay ==
  ASSUME TestInv, NEW p \in Paths, RunTestNext(p), NEW q \in Paths
  PROVE  /\ test[q] = "untested" => test'[q] = "untested"
         /\ test[q] \in {"returned", "threw"} =>
              test'[q] = test[q] /\ OutcomeOf(q)' = OutcomeOf(q)
<1> TestTypeOK /\ Tries /\ CallsOf
  BY DEF TestInv
<1>1. CASE Pool(p)
  <2>1. PICK c \in Calls, s \in NextStates, n \in 0..RetryAttempts : PoolStep(p, c, s, n)
    BY <1>1, PoolSteps
  <2>2. test[p] \in {"sending", "threw"}
    BY <2>1 DEF PoolStep, CallsOf, Payloads, AllAnswered, TestTypeOK
  <2>3. \/ test' = test /\ error' = error
        \/ test[p] = "sending" /\ \E e \in Errors : Throw(p, e)
    BY <2>1 DEF PoolStep
  <2>4. test[q] # "sending" => test'[q] = test[q] /\ error'[q] = error[q]
    BY <2>3 DEF Throw, TestTypeOK
  <2>5. q # p => call'[q] = call[q] /\ answer'[q] = answer[q]
    <3>1. q # p => call'[q] = call[q]
      BY <2>1 DEF PoolStep, Becomes, TestTypeOK
    <3>2. answer' = answer \/ \E f \in Findings : answer' = [answer EXCEPT ![p][c] = f]
      BY <2>1 DEF PoolStep
    <3> QED
      BY <3>1, <3>2 DEF TestTypeOK
  <2> QED
    BY <2>2, <2>4, <2>5 DEF OutcomeOf, Payloads
<1>2. CASE ~Pool(p)
  <2>1. test[p] \in {"assembling", "sending"}
    BY <1>2 DEF RunTestNext, Assemble, AssembleFails, Parse
  <2>2. q # p => /\ test'[q] = test[q] /\ error'[q] = error[q]
                 /\ call'[q] = call[q] /\ answer'[q] = answer[q]
    BY <1>2 DEF RunTestNext, Assemble, AssembleFails, Parse, Throw, TestTypeOK
  <2> QED
    BY <2>1, <2>2 DEF OutcomeOf, Payloads
<1> QED
  BY <1>1, <1>2

------------------------------------------------------------------------------
(* The outcomes *)

\* As many outcomes as paths before the current one.
LEMMA OutcomesLength ==
  ASSUME TypeOK, Order
  PROVE  Cardinality(results) = IF current = 0 THEN 0 ELSE current - 1
BY FS_Interval, NPathsAssumption DEF TypeOK, Order

\* The outcome of a path that has been tested is an outcome.
LEMMA OutcomeTypes ==
  ASSUME TestInv, NEW p \in Paths, test[p] \in {"returned", "threw"}
  PROVE  OutcomeOf(p) \in Promise!Outcome
<1>1. CASE test[p] = "threw"
  BY <1>1 DEF TestInv, CallsOf, OutcomeOf, Promise!Outcome
<1>2. CASE test[p] = "returned"
  <2>1. {answer[p][c] : c \in Payloads(p)} \subseteq Findings
    BY <1>2 DEF TestInv, CallsOf, AllAnswered, Payloads
  <2> QED
    BY <1>2, <2>1 DEF OutcomeOf, Promise!Outcome
<1> QED
  BY <1>1, <1>2

\* Of all outcomes: an error of each path that threw, the findings of the others.
LEMMA AllOutcomes ==
  ASSUME TypeOK, TestInv, Order, current = NPaths + 1
  PROVE  /\ Promise!AllErrors = {error[p] : p \in ErrorResults}
         /\ Promise!AllFound = Found
         /\ Found \subseteq Findings
         /\ {error[p] : p \in ErrorResults} \subseteq Errors
<1>1. Cardinality(results) = NPaths /\ results = 1..NPaths /\ Paths = 1..NPaths
  BY OutcomesLength, NPathsAssumption DEF Order, Paths
<1>2. \A p \in results : test[p] \in {"returned", "threw"}
  BY DEF Order
<1>3. {error[p] : p \in ErrorResults} \subseteq Errors
  BY <1>1 DEF ErrorResults, TestInv, CallsOf
<1>4. Promise!AllErrors = {OutcomeOf(p).error : p \in results} \ {None}
  BY <1>1 DEF Promise!AllErrors
<1>5. \A p \in results : OutcomeOf(p).error = IF p \in ErrorResults THEN error[p] ELSE None
  BY DEF OutcomeOf, ErrorResults
<1>6. Promise!AllErrors = {error[p] : p \in ErrorResults}
  BY <1>3, <1>4, <1>5, NoneAssumption DEF ErrorResults
<1>7. Promise!AllFound = UNION {OutcomeOf(p).found : p \in results}
  BY <1>1 DEF Promise!AllFound
<1>8. \A p \in results : OutcomeOf(p).found =
        IF p \in ErrorResults THEN {} ELSE {answer[p][c] : c \in Payloads(p)}
  BY DEF OutcomeOf, ErrorResults
<1>9. Promise!AllFound = Found
  <2> DEFINE Told(x) ==
        \E p \in results : p \notin ErrorResults /\ \E c \in Payloads(p) : x = answer[p][c]
  <2>1. ASSUME NEW x PROVE x \in Promise!AllFound <=> Told(x)
    <3>1. x \in Promise!AllFound <=> \E p \in results : x \in OutcomeOf(p).found
      BY <1>7
    <3>2. ASSUME NEW p \in results
          PROVE  x \in OutcomeOf(p).found <=>
                   p \notin ErrorResults /\ \E c \in Payloads(p) : x = answer[p][c]
      BY <1>8
    <3> QED
      BY <3>1, <3>2
  <2>2. ASSUME NEW x PROVE x \in Found <=> Told(x)
    BY DEF Found
  <2> QED
    BY <2>1, <2>2
<1>10. ASSUME NEW p \in results \ ErrorResults, NEW c \in Payloads(p)
       PROVE  answer[p][c] \in Findings
  BY <1>1, <1>2, <1>10 DEF ErrorResults, TestInv, CallsOf, AllAnswered, Payloads
<1>11. Found \subseteq Findings
  BY <1>10 DEF Found
<1> QED
  BY <1>3, <1>6, <1>9, <1>11

\* What test() concludes, with the options of the promise, is the verdict.
LEMMA Conclusion ==
  ASSUME TypeOK, TestInv, Order, ModesPromised, Conclude
  PROVE  \/ stage' = "returned" /\ Promise!Verdict = 0
         \/ stage' = "threw" /\ CodeOf(thrown') = Promise!Verdict
<1> DEFINE E == {error[p] : p \in ErrorResults}
<1>1. /\ Promise!AllErrors = E
      /\ Promise!AllFound = Found
      /\ Found \subseteq Findings
      /\ E \subseteq {"noManifest", "failed"}
  BY AllOutcomes DEF Conclude, Errors
<1>2. \/ mode.output = "text" /\ mode.failOn \in FailOns
      \/ mode.output = "json" /\ mode.failOn = "none"
  BY DEF ModesPromised, TypeOK
<1>3. E = {} <=> ErrorResults = {}
  OBVIOUS
<1>4. Unsupported <=> "noManifest" \in E
  BY <1>2 DEF Unsupported
<1>5. Found \cap Promise!Failing # {} <=> FoundVulnerabilities /\ ~Tolerated
  BY <1>1, <1>2 DEF Promise!Failing, FoundVulnerabilities, Tolerated, ShouldFail, FailOns
<1>6. Promise!Verdict =
        IF E # {} THEN IF "noManifest" \in E THEN 3 ELSE 2
        ELSE IF FoundVulnerabilities /\ ~Tolerated THEN 1 ELSE 0
  <2> HIDE DEF E
  <2> QED
    BY <1>1, <1>5 DEF Promise!Verdict, Promise!NoSupportedProjectsDetected, Promise!Error,
         Promise!VulnsFound
<1>7. /\ \A u \in BOOLEAN : CodeOf([code |-> "VULNS", unsupported |-> u]) = 1
      /\ CodeOf([code |-> "error", unsupported |-> TRUE]) = 3
      /\ CodeOf([code |-> "error", unsupported |-> FALSE]) = 2
  BY DEF CodeOf, EXIT_CODES
<1>8. Unsupported \in BOOLEAN
  BY DEF Unsupported
<1> HIDE DEF E
<1>9. CASE mode.output = "text"
  BY <1>3, <1>4, <1>6, <1>7, <1>8, <1>9 DEF Conclude, ConcludeText, ThrowText, ReturnText
<1>10. CASE mode.output = "json"
  <2>1. ~Tolerated
    BY <1>2, <1>10 DEF Tolerated
  <2> QED
    BY <1>3, <1>4, <1>6, <1>7, <1>8, <1>10, <2>1
    DEF Conclude, ConcludeJson, ThrowText, ReturnText
<1> QED
  BY <1>2, <1>9, <1>10

------------------------------------------------------------------------------
(* The invariant is inductive *)

\* The next path's test begins, and nothing else.
LEMMA NextPathKeeps ==
  ASSUME TypeOK, TestInv, current \in 0..NPaths, NextPath
  PROVE  /\ TestInv'
         /\ current' = current + 1
         /\ UNCHANGED <<call, answer, error>>
         /\ \A q \in Paths : q # current + 1 => test'[q] = test[q]
<1> USE NPathsAssumption DEF TypeOK, TestInv, Paths
<1>1. current' = current + 1 /\ UNCHANGED <<call, answer, error>>
  BY DEF NextPath, CallTest, testVars
<1>2. \/ UNCHANGED test
      \/ test[current + 1] = "untested" /\ test' = [test EXCEPT ![current + 1] = "assembling"]
  BY DEF NextPath, CallTest, testVars
<1>3. \A q \in Paths : q # current + 1 => test'[q] = test[q]
  BY <1>2 DEF TestTypeOK
<1>4. TestTypeOK'
  BY <1>1, <1>2 DEF TestTypeOK
<1>5. CallsOf'
  BY <1>1, <1>2 DEF CallsOf, Payloads, AllAnswered, TestTypeOK
<1> QED
  BY <1>1, <1>3, <1>4, <1>5 DEF Tries

\* The verdict follows from the outcomes and the options.
LEMMA VerdictOfOutcomes ==
  ASSUME Outcomes' = Outcomes, UNCHANGED mode
  PROVE  Promise!Verdict' = Promise!Verdict
<1> DEFINE Errs == {Outcomes[i].error : i \in DOMAIN Outcomes} \ {None}
           Fnds == UNION {Outcomes[i].found : i \in DOMAIN Outcomes}
<1>1. Promise!AllErrors = Errs /\ Promise!AllFound = Fnds
  BY DEF Outcomes, Promise!AllErrors, Promise!AllFound
<1>2. Promise!AllErrors' = Errs' /\ Promise!AllFound' = Fnds'
  BY DEF Outcomes, Promise!AllErrors, Promise!AllFound
<1>3. Errs' = Errs /\ Fnds' = Fnds
  OBVIOUS
<1>4. Promise!Failing' = Promise!Failing
  BY DEF Promise!Failing
<1> HIDE DEF Errs, Fnds
<1> QED
  BY <1>1, <1>2, <1>3, <1>4 DEF Promise!Verdict, Promise!NoSupportedProjectsDetected,
    Promise!Error, Promise!VulnsFound

\* What goes on in the background changes no outcome.
LEMMA OutcomesFixed ==
  ASSUME IndInv, NEW p \in Paths, RunTestNext(p), UNCHANGED commandVars
  PROVE  Outcomes' = Outcomes
<1>1. results' = results /\ \A i \in 1..Cardinality(results) : i \in Paths /\ i \in results
  BY OutcomesLength, NPathsAssumption DEF IndInv, Order, TypeOK, commandVars, Paths
<1>2. \A i \in 1..Cardinality(results) : OutcomeOf(i)' = OutcomeOf(i)
  BY <1>1, OutcomesStay DEF IndInv, TypeOK, TestInv, Order
<1> QED
  BY <1>1, <1>2 DEF Outcomes

\* The initial states satisfy the invariant.
LEMMA InitInv ==
  ASSUME Init
  PROVE  IndInv
<1> USE NPathsAssumption, PoolAssumption
    DEF Init, TestInit, NoCall, NoError
<1>1. TypeOK
  BY DEF TypeOK, TestTypeOK
<1>2. Tries /\ CallsOf
  BY DEF Tries, CallsOf, Payloads, AllAnswered
<1>3. Order
  BY DEF Order
<1> QED
  BY <1>1, <1>2, <1>3 DEF IndInv, Concluded

\* Every step preserves it.
LEMMA StepInv ==
  ASSUME ModesPromised, IndInv, [Next]_vars
  PROVE  IndInv'
<1> USE NPathsAssumption
<1>1. TestInv
  BY DEF IndInv, TypeOK, TestInv
<1>2. CASE ValidateOptions
  <2>1. stage = "validating" /\ current = 0 /\ UNCHANGED <<mode, results, exitCode>>
    BY <1>2 DEF ValidateOptions, IndInv, Concluded
  <2>2. CASE stage' = "testing" /\ NextPath /\ UNCHANGED thrown
    <3>1. /\ TestInv' /\ current' = 1
          /\ \A q \in Paths : q # 1 => test'[q] = test[q]
      BY <1>1, <2>1, <2>2, NextPathKeeps DEF IndInv
    <3>2. TypeOK'
      BY <2>1, <2>2, <3>1 DEF IndInv, TypeOK, TestInv, Paths
    <3>3. Order'
      BY <2>1, <3>1 DEF IndInv, Order
    <3>4. Concluded'
      BY <2>1, <2>2, <3>1 DEF IndInv, Concluded
    <3> QED
      BY <3>1, <3>2, <3>3, <3>4 DEF IndInv, TestInv
  <2>3. CASE /\ stage' = "threw" /\ thrown' = [code |-> "error", unsupported |-> FALSE]
             /\ UNCHANGED <<testVars, current>>
    <3>1. TypeOK'
      BY <2>1, <2>3 DEF IndInv, TypeOK, TestTypeOK, testVars
    <3>2. Tries' /\ CallsOf'
      BY <2>3 DEF IndInv, Tries, CallsOf, Payloads, AllAnswered, testVars
    <3>3. Order'
      BY <2>1, <2>3 DEF IndInv, Order, testVars
    <3>4. Concluded'
      BY <2>1, <2>3 DEF IndInv, Concluded, CodeOf, EXIT_CODES
    <3> QED
      BY <3>1, <3>2, <3>3, <3>4 DEF IndInv
  <2> QED
    BY <1>2, <2>2, <2>3 DEF ValidateOptions
<1>3. CASE CollectPath
  <2>1. /\ stage = "testing" /\ current \in Paths /\ test[current] \in {"returned", "threw"}
        /\ results' = results \cup {current}
        /\ NextPath
        /\ UNCHANGED <<mode, stage, thrown, exitCode>>
    BY <1>3 DEF CollectPath
  <2>2. /\ TestInv' /\ current' = current + 1
        /\ \A q \in Paths : q # current + 1 => test'[q] = test[q]
    BY <1>1, <2>1, NextPathKeeps DEF IndInv, Paths
  <2>3. TypeOK'
    BY <2>1, <2>2 DEF IndInv, TypeOK, TestInv, Paths
  <2>4. Order'
    <3>1. current \in 1..NPaths /\ results = 1..(current - 1)
      BY <2>1 DEF IndInv, Order, Paths
    <3>2. results' = 1..(current' - 1)
      BY <3>1, <2>1, <2>2, NPathsAssumption
    <3>3. ASSUME NEW p \in results' PROVE test'[p] \in {"returned", "threw"}
      <4>1. p \in Paths /\ p # current + 1 /\ (p \in results \/ p = current)
        BY <3>1, <3>3, <2>1, NPathsAssumption DEF Paths
      <4>2. test[p] \in {"returned", "threw"}
        BY <4>1, <2>1 DEF IndInv, Order
      <4> QED
        BY <4>1, <4>2, <2>2
    <3> QED
      BY <3>2, <3>3 DEF Order
  <2>5. Concluded'
    BY <2>1, <2>2 DEF IndInv, Concluded, Paths
  <2> QED
    BY <2>2, <2>3, <2>4, <2>5 DEF IndInv, TestInv
<1>4. CASE Conclude
  <2>1. /\ stage = "testing" /\ current = NPaths + 1
        /\ UNCHANGED <<testVars, mode, current, results, exitCode>>
    BY <1>4 DEF Conclude
  <2>2. \/ stage' = "returned" /\ Promise!Verdict = 0
        \/ stage' = "threw" /\ CodeOf(thrown') = Promise!Verdict
    BY <1>1, <1>4, Conclusion DEF IndInv
  <2>3. thrown' \in [code : {"VULNS", "error", None}, unsupported : BOOLEAN]
    <3>1. Unsupported \in BOOLEAN
      BY DEF Unsupported
    <3>2. \/ thrown' = thrown
          \/ thrown' = [code |-> "error", unsupported |-> Unsupported]
          \/ thrown' = [code |-> "VULNS", unsupported |-> Unsupported]
      BY <1>4 DEF Conclude, ConcludeText, ConcludeJson, ThrowText, ReturnText
    <3> HIDE DEF Unsupported
    <3> QED
      BY <3>1, <3>2 DEF IndInv, TypeOK
  <2>4. TypeOK'
    BY <2>1, <2>2, <2>3 DEF IndInv, TypeOK, TestTypeOK, testVars
  <2>5. Tries' /\ CallsOf' /\ Order'
    BY <2>1 DEF IndInv, Tries, CallsOf, Order, Payloads, AllAnswered, testVars
  <2>6. Outcomes' = Outcomes
    BY <2>1 DEF Outcomes, OutcomeOf, Payloads, testVars
  <2>7. Promise!Verdict' = Promise!Verdict
    BY <2>1, <2>6, VerdictOfOutcomes
  <2>8. exitCode = None
    BY <2>1 DEF IndInv, Concluded
  <2>9. CodeOf(thrown)' = CodeOf(thrown')
    BY DEF CodeOf, EXIT_CODES
  <2>10. Concluded'
    BY <2>1, <2>2, <2>7, <2>8, <2>9 DEF Concluded
  <2> QED
    BY <2>4, <2>5, <2>10 DEF IndInv
<1>5. CASE HandleError \/ PrintResult
  <2>1. /\ stage' = "ended" /\ exitCode' \in 0..3
        /\ UNCHANGED <<testVars, mode, current, results, thrown>>
    BY <1>5 DEF HandleError, PrintResult, EXIT_CODES
  <2>2. TypeOK'
    BY <2>1 DEF IndInv, TypeOK, TestTypeOK, testVars
  <2>3. Tries' /\ CallsOf' /\ Order'
    BY <2>1 DEF IndInv, Tries, CallsOf, Order, Payloads, AllAnswered, testVars
  <2> QED
    BY <2>1, <2>2, <2>3 DEF IndInv, Concluded
<1>6. ASSUME NEW p \in Paths, RunTestNext(p), UNCHANGED commandVars
      PROVE  IndInv'
  <2>1. TestInv'
    BY <1>1, <1>6, RunTestKeeps
  <2>2. /\ \A q \in Paths : test[q] = "untested" => test'[q] = "untested"
        /\ \A q \in Paths : test[q] \in {"returned", "threw"} => test'[q] = test[q]
    BY <1>1, <1>6, OutcomesStay
  <2>3. UNCHANGED <<mode, stage, current, results, thrown, exitCode>>
    BY <1>6 DEF commandVars
  <2>4. TypeOK'
    BY <2>1, <2>2, <2>3 DEF IndInv, TypeOK, TestInv
  <2>5. Order'
    BY <2>2, <2>3 DEF IndInv, Order, TypeOK
  <2>6. Promise!Verdict' = Promise!Verdict
    BY <1>6, <2>3, OutcomesFixed, VerdictOfOutcomes
  <2>7. CodeOf(thrown)' = CodeOf(thrown)
    BY <2>3 DEF CodeOf, EXIT_CODES
  <2>8. Concluded'
    BY <2>3, <2>6, <2>7 DEF IndInv, Concluded
  <2> QED
    BY <2>1, <2>4, <2>5, <2>8 DEF IndInv, TestInv
<1>7. CASE UNCHANGED vars
  <2>1. UNCHANGED <<testVars, mode, stage, current, results, thrown, exitCode>>
    BY <1>7 DEF vars, commandVars
  <2>2. TypeOK'
    BY <2>1 DEF IndInv, TypeOK, TestTypeOK, testVars
  <2>3. Tries' /\ CallsOf' /\ Order'
    BY <2>1 DEF IndInv, Tries, CallsOf, Order, Payloads, AllAnswered, testVars
  <2>4. Outcomes' = Outcomes
    BY <2>1 DEF Outcomes, OutcomeOf, Payloads, testVars
  <2>5. Promise!Verdict' = Promise!Verdict
    BY <2>1, <2>4, VerdictOfOutcomes
  <2>6. CodeOf(thrown)' = CodeOf(thrown)
    BY <2>1 DEF CodeOf, EXIT_CODES
  <2>7. Concluded'
    BY <2>1, <2>5, <2>6 DEF IndInv, Concluded
  <2> QED
    BY <2>2, <2>3, <2>7 DEF IndInv
<1> QED
  BY <1>2, <1>3, <1>4, <1>5, <1>6, <1>7 DEF Next

------------------------------------------------------------------------------
(* The promise is kept *)

\* Before the first path is collected there are no outcomes.
LEMMA NoOutcomes ==
  ASSUME Cardinality(results) = 0
  PROVE  Outcomes = << >>
BY DEF Outcomes

\* The command's initial states are the promise's.
LEMMA InitKeeps ==
  ASSUME ModesPromised, Init
  PROVE  Promise!Init
<1>1. mode.failOn \in FailOns
  BY DEF Init, ModesPromised, FailOns
<1>2. Outcomes = << >>
  BY InitInv, OutcomesLength, NoOutcomes DEF IndInv, Init
<1> QED
  BY <1>1, <1>2 DEF Init, Promise!Init, Promise!FailOns, FailOns, Outcomes

\* A step that changes neither outcomes nor options nor exit code is a stutter.
LEMMA Stutters ==
  ASSUME Outcomes' = Outcomes, UNCHANGED <<mode, exitCode>>
  PROVE  UNCHANGED Promise!vars
BY DEF Promise!vars, Outcomes

\* Collecting a path appends its outcome.
LEMMA CollectKeeps ==
  ASSUME IndInv, CollectPath
  PROVE  Promise!TestPath
<1> USE NPathsAssumption
<1>1. TestInv
  BY DEF IndInv, TypeOK, TestInv
<1>2. /\ stage = "testing" /\ current \in Paths /\ test[current] \in {"returned", "threw"}
      /\ results' = results \cup {current}
      /\ NextPath
      /\ UNCHANGED <<mode, exitCode>>
  BY DEF CollectPath
<1>3. /\ current' = current + 1
      /\ UNCHANGED <<call, answer, error>>
      /\ \A q \in Paths : q # current + 1 => test'[q] = test[q]
  BY <1>1, <1>2, NextPathKeeps DEF IndInv, Paths
<1>4. Cardinality(results) = current - 1 /\ current - 1 < NPaths /\ current \in Nat \ {0}
  BY <1>2, OutcomesLength DEF IndInv, Paths
<1>5. Cardinality(results') = current
  <2>1. results' = 1..current
    BY <1>2, <1>4 DEF IndInv, Order
  <2> QED
    BY <2>1, <1>4, FS_Interval
<1>6. \A i \in 1..current : OutcomeOf(i)' = OutcomeOf(i)
  <2>1. ASSUME NEW i \in 1..current PROVE test'[i] = test[i]
    BY <1>2, <1>3, <1>4 DEF Paths
  <2> QED
    BY <1>3, <2>1 DEF OutcomeOf, Payloads
<1>7. OutcomeOf(current) \in Promise!Outcome
  BY <1>1, <1>2, OutcomeTypes
<1>8. Outcomes = [i \in 1..current - 1 |-> OutcomeOf(i)]
  BY <1>4 DEF Outcomes
<1>9. Outcomes' = [i \in 1..current |-> OutcomeOf(i)]
  BY <1>5, <1>6 DEF Outcomes
<1>10. Len(Outcomes) = current - 1
  BY <1>4, <1>8
<1>11. Outcomes' = Append(Outcomes, OutcomeOf(current))
  BY <1>4, <1>8, <1>9
<1>12. exitCode = None
  BY <1>2 DEF IndInv, Concluded
<1> QED
  BY <1>2, <1>4, <1>7, <1>10, <1>11, <1>12 DEF Promise!TestPath, Outcomes

\* The process ends with the verdict, or with an error before the first path.
LEMMA EndKeeps ==
  ASSUME IndInv, HandleError \/ PrintResult
  PROVE  Promise!Exit \/ Promise!Fail
<1> USE NPathsAssumption
<1>1. UNCHANGED <<testVars, mode, results>> /\ exitCode = None
  BY DEF HandleError, PrintResult, IndInv, Concluded
<1>2. Outcomes' = Outcomes
  BY <1>1 DEF Outcomes, OutcomeOf, Payloads, testVars
<1>3. HandleError => exitCode' = CodeOf(thrown)
  BY DEF HandleError, CodeOf
<1>4. CASE current = NPaths + 1
  <2>1. exitCode' = Promise!Verdict
    BY <1>3, <1>4 DEF HandleError, PrintResult, IndInv, Concluded
  <2>2. Cardinality(results) = NPaths
    BY <1>4, OutcomesLength DEF IndInv
  <2>3. Len(Outcomes) = NPaths
    BY <2>2 DEF Outcomes
  <2> QED
    BY <1>1, <1>2, <2>1, <2>3 DEF Promise!Exit, Outcomes
<1>5. CASE current = 0
  <2>1. exitCode' = 2
    BY <1>3, <1>5 DEF HandleError, PrintResult, IndInv, Concluded, EXIT_CODES
  <2>2. Outcomes = << >>
    BY <1>5, OutcomesLength, NoOutcomes DEF IndInv
  <2> QED
    BY <1>1, <1>2, <2>1, <2>2 DEF Promise!Fail, Promise!Error, Outcomes
<1> QED
  BY <1>4, <1>5 DEF HandleError, PrintResult, IndInv, Concluded

\* Every step of the command is a step of the promise or a stutter.
LEMMA StepKeeps ==
  ASSUME IndInv, [Next]_vars
  PROVE  [Promise!Next]_(Promise!vars)
<1>1. CASE CollectPath
  BY <1>1, CollectKeeps DEF Promise!Next
<1>2. CASE HandleError \/ PrintResult
  BY <1>2, EndKeeps DEF Promise!Next
<1>3. CASE ValidateOptions
  <2>1. results' = results /\ UNCHANGED <<mode, exitCode>> /\ Cardinality(results) = 0
    BY <1>3, OutcomesLength DEF ValidateOptions, IndInv, Concluded
  <2>2. Outcomes' = Outcomes
    BY <2>1 DEF Outcomes
  <2> QED
    BY <2>1, <2>2, Stutters
<1>4. CASE Conclude \/ UNCHANGED vars
  <2>1. UNCHANGED <<testVars, mode, results, exitCode>>
    BY <1>4 DEF Conclude, vars, commandVars
  <2>2. Outcomes' = Outcomes
    BY <2>1 DEF Outcomes, OutcomeOf, Payloads, testVars
  <2> QED
    BY <2>1, <2>2, Stutters
<1>5. ASSUME NEW p \in Paths, RunTestNext(p), UNCHANGED commandVars
      PROVE  UNCHANGED Promise!vars
  BY <1>5, OutcomesFixed, Stutters DEF commandVars
<1> QED
  BY <1>1, <1>2, <1>3, <1>4, <1>5 DEF Next

------------------------------------------------------------------------------
(* Theorems *)

\* The invariant holds in every reachable state.
THEOREM Inductive == ASSUME ModesPromised PROVE Spec => []IndInv
<1>1. Init => IndInv
  BY InitInv
<1>2. IndInv /\ [Next]_vars => IndInv'
  BY StepInv
<1> QED
  BY <1>1, <1>2, PTL DEF Spec

\* Every variable keeps its type: attempts do not exceed RETRY_ATTEMPTS, and no
\* path is tested before the ones in front of it.
THEOREM TypeCorrect == ASSUME ModesPromised PROVE Spec => []TypeOK
<1>1. IndInv => TypeOK
  BY DEF IndInv
<1> QED
  BY <1>1, Inductive, PTL

\* vulnmap test collects one outcome for every path, in their order, and its exit
\* code follows from all of them, however the requests are interleaved.
THEOREM PromiseKept == ASSUME ModesPromised PROVE Spec => KeepsPromise
<1>1. Init => Promise!Init
  BY InitKeeps
<1>2. IndInv /\ [Next]_vars => [Promise!Next]_(Promise!vars)
  BY StepKeeps
<1> QED
  BY <1>1, <1>2, Inductive, PTL DEF Spec, KeepsPromise, Promise!Spec
==============================================================================
