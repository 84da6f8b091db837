------------------------- MODULE UnmanagedTestProofs -------------------------
(***************************************************************************)
(* Proofs about UnmanagedTest, for every number of paths and scans, every  *)
(* interval and every limit on the time.                                   *)
(***************************************************************************)
EXTENDS UnmanagedTest, TLAPS

\* The scan that is being resolved is one of those found.
Resolving == pc \in {"poll", "sleep", "issues"} => next <= scans

\* The loop's time is the time slept for the scan. A graph that gets ready
\* during a sleep was not ready when the sleep began.
Timing ==
  /\ pc \in {"poll", "sleep"} => elapsed = waited /\ job # "none"
  /\ pc = "sleep" => InTime /\ (job = "ready" => readyAt = waited)

\* No scan has been dealt with before the first is submitted.
Early ==
  /\ pc \in {"start", "scan"} => path <= Paths
  /\ pc \in {"start", "scan", "org"} => next = 1 /\ results = {} /\ errors = {}

\* What the organisation's lookup was refused with is what is thrown and what
\* the process ends with.
Told ==
  /\ pc \notin {"threw", "done"} => orgStatus = NoCode
  /\ orgStatus \in {401, 403} /\ ~printGraph =>
       \/ pc = "threw" /\ thrown = orgStatus
       \/ pc = "done" /\ exitCode = orgStatus % 256

IndInv == TypeOK /\ Resolving /\ Timing /\ GivenUpLate /\ Early /\ Accounted /\ Told

\* An interval is a time between 0 and MaxInterval.
LEMMA IntervalBounded ==
  ASSUME attempts \in Nat
  PROVE  Interval \in 0..MaxInterval
<1>1. MinInterval * attempts \in Nat
  BY TimeAssumption
<1> QED
  BY <1>1, TimeAssumption DEF Interval

LEMMA NoScans == 1..0 = {}
OBVIOUS

LEMMA RangeGrows ==
  ASSUME NEW a \in Nat, NEW b \in Nat, a <= b
  PROVE  1..a \subseteq 1..b
OBVIOUS

LEMMA CodesOf ==
  /\ NoCode \in Rejections /\ NoCode \in Codes /\ VULNS \in Codes
  /\ 401 \in Codes /\ 403 \in Codes /\ 422 \in Codes
BY DEF Codes, Rejections, NoCode

\* The exit code has 8 bits.
LEMMA ExitCodeRange ==
  ASSUME thrown \in Codes
  PROVE  ExitCode \in 0..255
<1>1. CASE thrown = VULNS
  BY <1>1 DEF ExitCode
<1>2. CASE thrown # VULNS
  <2>1. thrown \in Nat
    BY <1>2, StatusAssumption DEF Codes, Rejections, NoCode
  <2> QED
    BY <1>2, <2>1 DEF ExitCode
<1> QED
  BY <1>1, <1>2

\* Throwing preserves the types.
LEMMA ThrowTypes ==
  ASSUME TypeOK, NEW from, NEW code \in Codes, Throw(from, code), orgStatus' \in Rejections
  PROVE  TypeOK'
BY DEF TypeOK, Throw, options, outcome, pollVars

\* So does the end of a scan with a result, an error or neither.
LEMMA NextScanTypes ==
  ASSUME TypeOK, NEW from, NextScan(from), next <= scans,
         results' \subseteq results \cup {next}, errors' \subseteq errors \cup {next}
  PROVE  TypeOK'
<1>1. next \in 1..scans /\ next + 1 \in 1..scans + 1
  BY DEF TypeOK
<1>2. results' \subseteq 1..scans /\ errors' \subseteq 1..scans
  BY <1>1 DEF TypeOK
<1> QED
  BY <1>1, <1>2 DEF TypeOK, NextScan, NoJob, Goto, Never, options

\* And so does a failure.
LEMMA FailedTypes ==
  ASSUME TypeOK, NEW from, NEW e, Failed(from, e), next <= scans
  PROVE  TypeOK'
<1>1. CASE printGraph
  <2>1. Throw(from, NoCode) /\ orgStatus' \in Rejections
    BY <1>1 DEF Failed, TypeOK
  <2> QED
    BY <2>1, CodesOf, ThrowTypes
<1>2. CASE ~printGraph
  BY <1>2, NextScanTypes DEF Failed
<1> QED
  BY <1>1, <1>2

\* Every step preserves the types.
LEMMA TypeStep ==
  ASSUME TypeOK, Resolving, Timing, Early, [Next]_vars
  PROVE  TypeOK'
<1> USE SizeAssumption, TimeAssumption, StatusAssumption
    DEF Never, options, outcome, pollVars
<1>1. CASE Rejected
    BY <1>1, CodesOf, ThrowTypes DEF Rejected, TypeOK
<1>2. CASE Accepted
    BY <1>2 DEF Accepted, Goto, TypeOK
<1>3. CASE ScanFails
    BY <1>3, CodesOf, ThrowTypes DEF ScanFails, TypeOK
<1>4. CASE ScanPath
  <2>1. PICK n \in 0..MaxScans : scans' = scans + n
    BY <1>4 DEF ScanPath
  <2>2. scans' \in Nat /\ scans <= scans'
    BY <2>1 DEF TypeOK
  <2>3. 1..scans \subseteq 1..scans' /\ 1..scans + 1 \subseteq 1..scans' + 1
    <3>0. scans \in Nat
      BY DEF TypeOK
    <3>1. 1..scans \subseteq 1..scans'
      BY <2>2, <3>0, RangeGrows
    <3>2. scans + 1 \in Nat /\ scans' + 1 \in Nat /\ scans + 1 <= scans' + 1
      BY <2>1, <2>2, <3>0
    <3> QED
      BY <3>1, <3>2, RangeGrows
  <2>4. pc = "scan" /\ path <= Paths /\ path' \in 1..Paths + 1
    BY <1>4 DEF ScanPath, Goto, TypeOK, Early
  <2> QED
    BY <1>4, <2>2, <2>3, <2>4 DEF ScanPath, Goto, TypeOK
<1>5. CASE OrgFails
  <2>1. PICK e \in Rejections : Throw("org", CodeOfOrgError(e)) /\ orgStatus' = e
    BY <1>5 DEF OrgFails
  <2>2. CodeOfOrgError(e) \in Codes
    BY CodesOf DEF CodeOfOrgError
  <2> QED
    BY <2>1, <2>2, ThrowTypes
<1>6. CASE OrgMissing
    BY <1>6 DEF OrgMissing, Goto, TypeOK
<1>7. CASE OrgFound
    BY <1>7 DEF OrgFound, Goto, TypeOK
<1>8. CASE Submit
    BY <1>8 DEF Submit, PollStarts, Goto, TypeOK
<1>9. CASE Pending
    BY <1>9 DEF Pending, InTime, Goto, TypeOK
<1>10. CASE Wake
  <2>1. Interval \in 0..MaxInterval
    BY IntervalBounded DEF TypeOK
  <2>2. elapsed' \in 0..MaxElapsed + MaxInterval
    BY <1>10, <2>1 DEF Wake, Timing, InTime, Goto, TypeOK
  <2>3. waited' \in Nat
    BY <1>10, <2>1 DEF Wake, TypeOK
  <2> QED
    BY <1>10, <2>2, <2>3 DEF Wake, Goto, TypeOK
<1>11. CASE TimedOut
  <2>1. Failed("poll", NoCode) /\ pc = "poll"
    BY <1>11 DEF TimedOut, Failed, Throw, NextScan, Goto
  <2> QED
    BY <2>1, FailedTypes DEF Resolving
<1>12. CASE GraphReceived
  <2>1. pc = "poll" /\ next <= scans
    BY <1>12 DEF GraphReceived, Resolved, NextScan, Goto, Resolving
  <2>2. CASE ~printGraph /\ Goto("poll", "issues") /\ NoJob
             /\ UNCHANGED <<options, path, scans, next, outcome, orgStatus, thrown, exitCode>>
    BY <2>2 DEF NoJob, Goto, TypeOK
  <2>3. CASE printGraph /\ Resolved("poll")
    BY <2>1, <2>3, NextScanTypes DEF Resolved
  <2>4. CASE printGraph /\ NextScan("poll") /\ UNCHANGED <<results, errors>>
    BY <2>1, <2>4, NextScanTypes
  <2> QED
    BY <1>12, <2>2, <2>3, <2>4 DEF GraphReceived
<1>13. CASE IssuesReceived
  <2>1. pc = "issues" /\ Resolved("issues")
    BY <1>13 DEF IssuesReceived, Resolved, NextScan, Goto
  <2> QED
    BY <2>1, NextScanTypes DEF Resolved, Resolving
<1>14. CASE RequestFails
  <2>1. PICK e \in Rejections : \/ next <= scans /\ Failed("submit", e)
                                \/ InTime /\ Failed("poll", e)
                                \/ Failed("issues", e)
    BY <1>14 DEF RequestFails
  <2>2. \A from \in {"poll", "issues"} : Failed(from, e) => next <= scans
    BY DEF Failed, Throw, NextScan, Goto, Resolving
  <2> QED
    BY <2>1, <2>2, FailedTypes
<1>15. CASE EndOfScans
    BY <1>15 DEF EndOfScans, Goto, TypeOK
<1>16. CASE Display
  <2>1. CASE pc' = "returned"
    <3>1. UNCHANGED <<options, path, scans, next, outcome, pollVars, orgStatus, thrown, exitCode>>
      BY <1>16, <2>1 DEF Display, Throw
    <3> QED
      BY <2>1, <3>1 DEF TypeOK
  <2>2. CASE pc' # "returned"
    <3>1. PICK c \in Codes : Throw("display", c)
      BY <1>16, <2>2, CodesOf DEF Display, DisplayErrors, Goto
    <3>2. orgStatus' \in Rejections
      BY <1>16 DEF Display, TypeOK
    <3> QED
      BY <3>1, <3>2, ThrowTypes
  <2> QED
    BY <2>1, <2>2
<1>17. CASE HandleError
    BY <1>17, ExitCodeRange DEF HandleError, Goto, TypeOK
<1>18. CASE PrintResult
    BY <1>18 DEF PrintResult, Goto, TypeOK
<1>19. CASE GraphReady
    BY <1>19 DEF GraphReady, Goto, TypeOK
<1>20. CASE UNCHANGED vars
    BY <1>20 DEF vars, Goto, TypeOK, pollVars, outcome, options
<1> QED
    BY <1>1, <1>2, <1>3, <1>4, <1>5, <1>6, <1>7, <1>8, <1>9, <1>10, <1>11, <1>12, <1>13, <1>14, <1>15, <1>16, <1>17, <1>18, <1>19, <1>20 DEF Next, Command

\* Every step preserves Resolving.
LEMMA ResolvingStep ==
  ASSUME TypeOK, Resolving, [Next]_vars
  PROVE  Resolving'
<1> USE SizeAssumption, TimeAssumption, StatusAssumption
    DEF TypeOK, Resolving, Goto, options, outcome, pollVars
<1>1. CASE Rejected
    BY <1>1 DEF Rejected, Throw
<1>2. CASE Accepted
    BY <1>2 DEF Accepted
<1>3. CASE ScanFails
    BY <1>3 DEF ScanFails, Throw
<1>4. CASE ScanPath
    BY <1>4 DEF ScanPath
<1>5. CASE OrgFails
    BY <1>5 DEF OrgFails, Throw, CodeOfOrgError
<1>6. CASE OrgMissing
    BY <1>6 DEF OrgMissing
<1>7. CASE OrgFound
    BY <1>7 DEF OrgFound
<1>8. CASE Submit
    BY <1>8 DEF Submit, PollStarts
<1>9. CASE Pending
    BY <1>9 DEF Pending, InTime
<1>10. CASE Wake
    BY <1>10 DEF Wake, Interval, InTime
<1>11. CASE TimedOut
    BY <1>11 DEF TimedOut, Failed, Throw, NextScan, NoJob
<1>12. CASE GraphReceived
    BY <1>12 DEF GraphReceived, Resolved, NextScan, NoJob, InTime
<1>13. CASE IssuesReceived
    BY <1>13 DEF IssuesReceived, Resolved, NextScan, NoJob
<1>14. CASE RequestFails
    BY <1>14 DEF RequestFails, Failed, Throw, NextScan, NoJob, InTime
<1>15. CASE EndOfScans
    BY <1>15 DEF EndOfScans
<1>16. CASE Display
    BY <1>16 DEF Display, Throw, DisplayErrors
<1>17. CASE HandleError
    BY <1>17 DEF HandleError, ExitCode
<1>18. CASE PrintResult
    BY <1>18 DEF PrintResult
<1>19. CASE GraphReady
    BY <1>19 DEF GraphReady
<1>20. CASE UNCHANGED vars
    BY <1>20 DEF vars, pollVars, outcome, options
<1> QED
    BY <1>1, <1>2, <1>3, <1>4, <1>5, <1>6, <1>7, <1>8, <1>9, <1>10, <1>11, <1>12, <1>13, <1>14, <1>15, <1>16, <1>17, <1>18, <1>19, <1>20 DEF Next, Command

\* Every step preserves Timing.
LEMMA TimingStep ==
  ASSUME TypeOK, Timing, [Next]_vars
  PROVE  Timing'
<1> USE SizeAssumption, TimeAssumption, StatusAssumption
    DEF TypeOK, Timing, InTime, Goto, options, outcome, pollVars
<1>1. CASE Rejected
    BY <1>1 DEF Rejected, Throw
<1>2. CASE Accepted
    BY <1>2 DEF Accepted
<1>3. CASE ScanFails
    BY <1>3 DEF ScanFails, Throw
<1>4. CASE ScanPath
    BY <1>4 DEF ScanPath
<1>5. CASE OrgFails
    BY <1>5 DEF OrgFails, Throw, CodeOfOrgError
<1>6. CASE OrgMissing
    BY <1>6 DEF OrgMissing
<1>7. CASE OrgFound
    BY <1>7 DEF OrgFound
<1>8. CASE Submit
    BY <1>8 DEF Submit, PollStarts
<1>9. CASE Pending
    BY <1>9 DEF Pending, InTime
<1>10. CASE Wake
    BY <1>10, IntervalBounded DEF Wake
<1>11. CASE TimedOut
    BY <1>11 DEF TimedOut, Failed, Throw, NextScan, NoJob
<1>12. CASE GraphReceived
    BY <1>12 DEF GraphReceived, Resolved, NextScan, NoJob, InTime
<1>13. CASE IssuesReceived
    BY <1>13 DEF IssuesReceived, Resolved, NextScan, NoJob
<1>14. CASE RequestFails
    BY <1>14 DEF RequestFails, Failed, Throw, NextScan, NoJob, InTime
<1>15. CASE EndOfScans
    BY <1>15 DEF EndOfScans
<1>16. CASE Display
    BY <1>16 DEF Display, Throw, DisplayErrors
<1>17. CASE HandleError
    BY <1>17 DEF HandleError, ExitCode
<1>18. CASE PrintResult
    BY <1>18 DEF PrintResult
<1>19. CASE GraphReady
    BY <1>19 DEF GraphReady
<1>20. CASE UNCHANGED vars
    BY <1>20 DEF vars, pollVars, outcome, options
<1> QED
    BY <1>1, <1>2, <1>3, <1>4, <1>5, <1>6, <1>7, <1>8, <1>9, <1>10, <1>11, <1>12, <1>13, <1>14, <1>15, <1>16, <1>17, <1>18, <1>19, <1>20 DEF Next, Command

\* Every step preserves GivenUpLate.
LEMMA GivenUpLateStep ==
  ASSUME TypeOK, Timing, GivenUpLate, [Next]_vars
  PROVE  GivenUpLate'
<1> USE SizeAssumption, TimeAssumption, StatusAssumption
    DEF TypeOK, Timing, GivenUpLate, InTime, Goto, options, outcome, pollVars
<1>1. CASE Rejected
    BY <1>1 DEF Rejected, Throw
<1>2. CASE Accepted
    BY <1>2 DEF Accepted
<1>3. CASE ScanFails
    BY <1>3 DEF ScanFails, Throw
<1>4. CASE ScanPath
    BY <1>4 DEF ScanPath
<1>5. CASE OrgFails
    BY <1>5 DEF OrgFails, Throw, CodeOfOrgError
<1>6. CASE OrgMissing
    BY <1>6 DEF OrgMissing
<1>7. CASE OrgFound
    BY <1>7 DEF OrgFound
<1>8. CASE Submit
    BY <1>8 DEF Submit, PollStarts
<1>9. CASE Pending
    BY <1>9 DEF Pending, InTime
<1>10. CASE Wake
  <2>1. Interval \in 0..MaxInterval
    BY IntervalBounded
  <2> QED
    BY <1>10, <2>1 DEF Wake
<1>11. CASE TimedOut
    BY <1>11 DEF TimedOut, Failed, Throw, NextScan, NoJob
<1>12. CASE GraphReceived
    BY <1>12 DEF GraphReceived, Resolved, NextScan, NoJob, InTime
<1>13. CASE IssuesReceived
    BY <1>13 DEF IssuesReceived, Resolved, NextScan, NoJob
<1>14. CASE RequestFails
    BY <1>14 DEF RequestFails, Failed, Throw, NextScan, NoJob, InTime
<1>15. CASE EndOfScans
    BY <1>15 DEF EndOfScans
<1>16. CASE Display
    BY <1>16 DEF Display, Throw, DisplayErrors
<1>17. CASE HandleError
    BY <1>17 DEF HandleError, ExitCode
<1>18. CASE PrintResult
    BY <1>18 DEF PrintResult
<1>19. CASE GraphReady
    BY <1>19 DEF GraphReady
<1>20. CASE UNCHANGED vars
    BY <1>20 DEF vars, pollVars, outcome, options
<1> QED
    BY <1>1, <1>2, <1>3, <1>4, <1>5, <1>6, <1>7, <1>8, <1>9, <1>10, <1>11, <1>12, <1>13, <1>14, <1>15, <1>16, <1>17, <1>18, <1>19, <1>20 DEF Next, Command

\* Every step preserves Early.
LEMMA EarlyStep ==
  ASSUME TypeOK, Early, [Next]_vars
  PROVE  Early'
<1> USE SizeAssumption, TimeAssumption, StatusAssumption
    DEF TypeOK, Early, Goto, options, outcome, pollVars
<1>1. CASE Rejected
    BY <1>1 DEF Rejected, Throw
<1>2. CASE Accepted
    BY <1>2 DEF Accepted
<1>3. CASE ScanFails
    BY <1>3 DEF ScanFails, Throw
<1>4. CASE ScanPath
    BY <1>4 DEF ScanPath
<1>5. CASE OrgFails
    BY <1>5 DEF OrgFails, Throw, CodeOfOrgError
<1>6. CASE OrgMissing
    BY <1>6 DEF OrgMissing
<1>7. CASE OrgFound
    BY <1>7 DEF OrgFound
<1>8. CASE Submit
    BY <1>8 DEF Submit, PollStarts
<1>9. CASE Pending
    BY <1>9 DEF Pending, InTime
<1>10. CASE Wake
    BY <1>10 DEF Wake, Interval, InTime
<1>11. CASE TimedOut
    BY <1>11 DEF TimedOut, Failed, Throw, NextScan, NoJob
<1>12. CASE GraphReceived
    BY <1>12 DEF GraphReceived, Resolved, NextScan, NoJob, InTime
<1>13. CASE IssuesReceived
    BY <1>13 DEF IssuesReceived, Resolved, NextScan, NoJob
<1>14. CASE RequestFails
    BY <1>14 DEF RequestFails, Failed, Throw, NextScan, NoJob, InTime
<1>15. CASE EndOfScans
    BY <1>15 DEF EndOfScans
<1>16. CASE Display
    BY <1>16 DEF Display, Throw, DisplayErrors
<1>17. CASE HandleError
    BY <1>17 DEF HandleError, ExitCode
<1>18. CASE PrintResult
    BY <1>18 DEF PrintResult
<1>19. CASE GraphReady
    BY <1>19 DEF GraphReady
<1>20. CASE UNCHANGED vars
    BY <1>20 DEF vars, pollVars, outcome, options
<1> QED
    BY <1>1, <1>2, <1>3, <1>4, <1>5, <1>6, <1>7, <1>8, <1>9, <1>10, <1>11, <1>12, <1>13, <1>14, <1>15, <1>16, <1>17, <1>18, <1>19, <1>20 DEF Next, Command

\* Every step preserves Accounted.
LEMMA AccountedStep ==
  ASSUME TypeOK, Resolving, Early, Accounted, [Next]_vars
  PROVE  Accounted'
<1> USE SizeAssumption, TimeAssumption, StatusAssumption
    DEF TypeOK, Resolving, Early, Accounted, Goto, options, outcome, pollVars
<1>1. CASE Rejected
    BY <1>1 DEF Rejected, Throw
<1>2. CASE Accepted
    BY <1>2 DEF Accepted
<1>3. CASE ScanFails
    BY <1>3 DEF ScanFails, Throw
<1>4. CASE ScanPath
    BY <1>4 DEF ScanPath
<1>5. CASE OrgFails
    BY <1>5 DEF OrgFails, Throw, CodeOfOrgError
<1>6. CASE OrgMissing
  <2>1. results' = {} /\ errors' = {} /\ next' = 1
    BY <1>6 DEF OrgMissing
  <2>2. 1..next' - 1 = {}
    BY <2>1
  <2> QED
    BY <1>6, <2>1, <2>2 DEF OrgMissing
<1>7. CASE OrgFound
  <2>1. results' = {} /\ errors' = {} /\ next' = 1
    BY <1>7 DEF OrgFound
  <2>2. 1..next' - 1 = {}
    BY <2>1
  <2> QED
    BY <1>7, <2>1, <2>2 DEF OrgFound
<1>8. CASE Submit
    BY <1>8 DEF Submit, PollStarts
<1>9. CASE Pending
    BY <1>9 DEF Pending, InTime
<1>10. CASE Wake
    BY <1>10 DEF Wake, Interval, InTime
<1>11. CASE TimedOut
    BY <1>11 DEF TimedOut, Failed, Throw, NextScan, NoJob
<1>12. CASE GraphReceived
    BY <1>12 DEF GraphReceived, Resolved, NextScan, NoJob, InTime
<1>13. CASE IssuesReceived
    BY <1>13 DEF IssuesReceived, Resolved, NextScan, NoJob
<1>14. CASE RequestFails
    BY <1>14 DEF RequestFails, Failed, Throw, NextScan, NoJob, InTime
<1>15. CASE EndOfScans
    BY <1>15 DEF EndOfScans
<1>16. CASE Display
    BY <1>16 DEF Display, Throw, DisplayErrors
<1>17. CASE HandleError
    BY <1>17 DEF HandleError, ExitCode
<1>18. CASE PrintResult
    BY <1>18 DEF PrintResult
<1>19. CASE GraphReady
    BY <1>19 DEF GraphReady
<1>20. CASE UNCHANGED vars
    BY <1>20 DEF vars, pollVars, outcome, options
<1> QED
    BY <1>1, <1>2, <1>3, <1>4, <1>5, <1>6, <1>7, <1>8, <1>9, <1>10, <1>11, <1>12, <1>13, <1>14, <1>15, <1>16, <1>17, <1>18, <1>19, <1>20 DEF Next, Command

\* Every step preserves Told.
LEMMA ToldStep ==
  ASSUME TypeOK, Told, [Next]_vars
  PROVE  Told'
<1> USE SizeAssumption, TimeAssumption, StatusAssumption
    DEF Told, ExitCode, Goto, options, outcome, pollVars
<1>1. CASE Rejected
    BY <1>1 DEF Rejected, Throw
<1>2. CASE Accepted
    BY <1>2 DEF Accepted
<1>3. CASE ScanFails
    BY <1>3 DEF ScanFails, Throw
<1>4. CASE ScanPath
    BY <1>4 DEF ScanPath
<1>5. CASE OrgFails
    BY <1>5 DEF OrgFails, Throw, CodeOfOrgError
<1>6. CASE OrgMissing
    BY <1>6 DEF OrgMissing
<1>7. CASE OrgFound
    BY <1>7 DEF OrgFound
<1>8. CASE Submit
    BY <1>8 DEF Submit, PollStarts
<1>9. CASE Pending
    BY <1>9 DEF Pending, InTime
<1>10. CASE Wake
    BY <1>10 DEF Wake, Interval, InTime
<1>11. CASE TimedOut
    BY <1>11 DEF TimedOut, Failed, Throw, NextScan, NoJob
<1>12. CASE GraphReceived
    BY <1>12 DEF GraphReceived, Resolved, NextScan, NoJob, InTime
<1>13. CASE IssuesReceived
    BY <1>13 DEF IssuesReceived, Resolved, NextScan, NoJob
<1>14. CASE RequestFails
    BY <1>14 DEF RequestFails, Failed, Throw, NextScan, NoJob, InTime
<1>15. CASE EndOfScans
    BY <1>15 DEF EndOfScans
<1>16. CASE Display
    BY <1>16 DEF Display, Throw, DisplayErrors
<1>17. CASE HandleError
    BY <1>17 DEF HandleError, VULNS
<1>18. CASE PrintResult
    BY <1>18 DEF PrintResult
<1>19. CASE GraphReady
    BY <1>19 DEF GraphReady
<1>20. CASE UNCHANGED vars
    BY <1>20 DEF vars, pollVars, outcome, options
<1> QED
    BY <1>1, <1>2, <1>3, <1>4, <1>5, <1>6, <1>7, <1>8, <1>9, <1>10, <1>11, <1>12, <1>13, <1>14, <1>15, <1>16, <1>17, <1>18, <1>19, <1>20 DEF Next, Command

\* The initial states satisfy the inductive invariant.
LEMMA InitIndInv ==
  ASSUME Init
  PROVE  IndInv
<1> USE SizeAssumption, TimeAssumption
    DEF Init, Never
<1>1. TypeOK
  <2>1. path \in 1..Paths + 1 /\ next \in 1..scans + 1 /\ elapsed \in 0..MaxElapsed + MaxInterval
    OBVIOUS
  <2>2. orgStatus \in Rejections /\ thrown \in Codes
    BY CodesOf
  <2>3. results \subseteq 1..scans /\ errors \subseteq 1..scans
    OBVIOUS
  <2>4. /\ attempts \in Nat /\ waited \in Nat /\ scans \in Nat /\ exitCode \in 0..255
        /\ readyAt \in Nat \cup {Never}
    OBVIOUS
  <2> QED
    BY <2>1, <2>2, <2>3, <2>4 DEF TypeOK
<1>2. Resolving /\ Timing /\ GivenUpLate /\ Early /\ Accounted /\ Told
    BY NoScans DEF Resolving, Timing, GivenUpLate, Early, Accounted, Told, InTime, NoCode
<1> QED
    BY <1>1, <1>2 DEF IndInv

THEOREM Inductive == Spec => []IndInv
<1>1. Init => IndInv
  BY InitIndInv
<1>2. IndInv /\ [Next]_vars => IndInv'
  BY TypeStep, ResolvingStep, TimingStep, GivenUpLateStep, EarlyStep, AccountedStep,
     ToldStep DEF IndInv
<1> QED
  BY <1>1, <1>2, PTL DEF Spec

\* The variables keep their types; the time spent polling for one scan is
\* bounded (pollDepGraphAttributes).
THEOREM TypeCorrect == Spec => []TypeOK
<1>1. IndInv => TypeOK
  BY DEF IndInv
<1> QED
  BY <1>1, Inductive, PTL

\* Each scan dealt with has exactly one result or one error, and all have when
\* the results are shown (resolveAndTestFactsUnmanagedDeps).
THEOREM ScansAccounted == Spec => []Accounted
<1>1. IndInv => Accounted
  BY DEF IndInv
<1> QED
  BY <1>1, Inductive, PTL

\* A scan is given up for time only when its graph was not ready MaxInterval
\* before the limit (pollDepGraphAttributes).
THEOREM GivenUpOnlyLate == Spec => []GivenUpLate
<1>1. IndInv => GivenUpLate
  BY DEF IndInv
<1> QED
  BY <1>1, Inductive, PTL

\* Refused credentials are told by an exit code that is not one of the CLI's
\* own (resolveAndTestFacts, handleError).
THEOREM RefusalTold == Spec => []UnauthorizedIsTold
<1>1. IndInv => UnauthorizedIsTold
  <2> SUFFICES ASSUME IndInv, pc = "done", orgStatus \in {401, 403}, ~printGraph
               PROVE  exitCode \notin 0..3
    BY DEF UnauthorizedIsTold
  <2>1. exitCode = orgStatus % 256
    BY DEF IndInv, Told
  <2>2. 401 % 256 = 145 /\ 403 % 256 = 147
    OBVIOUS
  <2> QED
    BY <2>1, <2>2
<1> QED
  BY <1>1, Inductive, PTL
==============================================================================
