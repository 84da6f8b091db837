---------------------------- MODULE MonitorProofs ----------------------------
(***************************************************************************)
(* Proofs about Monitor, for every number of paths and projects, every     *)
(* status and every limit on the attempts.                                 *)
(***************************************************************************)
EXTENDS Monitor, TLAPS

\* No project is to be sent twice, and all are of paths already scanned.
Distinct == \A i, j \in DOMAIN todo : todo[i] = todo[j] => i = j
Scanned  == \A r \in found : r[1] < path
Partition ==
  /\ found = Remaining \cup good \cup bad
  /\ good \cap bad = {} /\ Remaining \cap (good \cup bad) = {}

\* The projects are partitioned until an ecosystem's command is aborted, and
\* those of package managers for ever.
Kept ==
  /\ Distinct
  /\ pc # "done" \/ flow = "projects" => Scanned /\ Partition

\* Where the command is in its two loops.
Place ==
  /\ pc = "start" => path = 1 /\ found = {}
  /\ flow = "projects" /\ pc \in {"start", "scan"} => todo = <<>>
  /\ flow # "projects" /\ pc \in {"send", "poll", "sleep"} => path = Paths + 1
  /\ pc = "report" => todo = <<>> /\ path = Paths + 1

\* A job is that of the snapshot at the head, and says what became of it.
JobOfCurrent ==
  /\ pc \in {"poll", "sleep"} => flow = "cpp" /\ todo # <<>>
  /\ job # "none" => pc \in {"poll", "sleep"}
  /\ job = "monitored" => service[Current] = "accepted"

IndInv ==
  /\ TypeOK /\ Kept /\ Place /\ JobOfCurrent
  /\ ReportedIsMonitored /\ SuccessIsComplete

------------------------------------------------------------------------------
(* The sequence of projects to send *)

\* The head of a sequence without repetitions is not in its tail.
LEMMA TailOfTodo ==
  ASSUME todo \in Seq(Projects), todo # <<>>, Distinct, todo' = Tail(todo)
  PROVE  /\ todo' \in Seq(Projects) /\ Current \in Projects
         /\ Current \in Remaining
         /\ Remaining' = Remaining \ {Current}
         /\ Distinct'
<1>1. /\ Len(todo) \in Nat \ {0} /\ DOMAIN todo = 1..Len(todo)
      /\ Current = todo[1] /\ todo' \in Seq(Projects)
      /\ Len(todo') = Len(todo) - 1 /\ DOMAIN todo' = 1..Len(todo')
      /\ \A i \in 1..Len(todo') : todo'[i] = todo[i + 1]
  BY DEF Current
<1>2. Current \in Remaining /\ Current \in Projects
  BY <1>1 DEF Remaining
<1>3. Distinct'
  <2> SUFFICES ASSUME NEW i \in 1..Len(todo'), NEW j \in 1..Len(todo'), todo'[i] = todo'[j]
               PROVE  i = j
    BY <1>1 DEF Distinct
  <2>1. todo[i + 1] = todo[j + 1] /\ i + 1 \in DOMAIN todo /\ j + 1 \in DOMAIN todo
    BY <1>1
  <2> QED
    BY <2>1 DEF Distinct
<1>4. Remaining' \subseteq Remaining \ {Current}
  <2> SUFFICES ASSUME NEW i \in 1..Len(todo') PROVE todo'[i] \in Remaining \ {Current}
    BY <1>1 DEF Remaining
  <2>1. i + 1 \in DOMAIN todo /\ 1 \in DOMAIN todo /\ i + 1 # 1
    BY <1>1
  <2>2. todo[i + 1] # todo[1]
    BY <2>1 DEF Distinct
  <2> QED
    BY <1>1, <2>1, <2>2 DEF Remaining
<1>5. Remaining \ {Current} \subseteq Remaining'
  <2> SUFFICES ASSUME NEW i \in DOMAIN todo, todo[i] # Current PROVE todo[i] \in Remaining'
    BY DEF Remaining
  <2>1. i - 1 \in 1..Len(todo') /\ (i - 1) + 1 = i
    BY <1>1
  <2>2. todo'[i - 1] = todo[i]
    BY <1>1, <2>1
  <2> QED
    BY <1>1, <2>1, <2>2 DEF Remaining
<1> QED
  BY <1>1, <1>2, <1>3, <1>4, <1>5

\* What is found in the next path follows what is still to be sent.
LEMMA FoundInPath ==
  ASSUME TypeOK, Distinct, \A r \in Remaining : r[1] < path,
         NEW n \in 0..MaxProjects, path <= Paths,
         todo' = todo \o [k \in 1..n |-> <<path, k>>]
  PROVE  /\ todo' \in Seq(Projects)
         /\ Remaining' = Remaining \cup ({path} \X (1..n))
         /\ Distinct'
<1> DEFINE new == [k \in 1..n |-> <<path, k>>]
<1>0. path \in 1..Paths /\ n \in Nat /\ n <= MaxProjects /\ todo \in Seq(Projects)
  BY SizeAssumption DEF TypeOK
<1>1. new \in Seq(Projects) /\ Len(new) = n
  <2>1. \A k \in 1..n : <<path, k>> \in Projects
    BY <1>0, SizeAssumption DEF Projects
  <2> QED
    BY <1>0, <2>1
<1>2. /\ todo' \in Seq(Projects)
      /\ Len(todo) \in Nat /\ DOMAIN todo = 1..Len(todo)
      /\ Len(todo') = Len(todo) + n /\ DOMAIN todo' = 1..Len(todo')
  BY <1>0, <1>1
<1>3. \A i \in 1..Len(todo) : todo'[i] = todo[i] /\ i \in 1..Len(todo')
  BY <1>0, <1>1, <1>2
<1>4. \A k \in 1..n : todo'[Len(todo) + k] = <<path, k>> /\ Len(todo) + k \in 1..Len(todo')
  BY <1>0, <1>1, <1>2
<1>5. \A i \in 1..Len(todo') : i \in 1..Len(todo) \/ \E k \in 1..n : i = Len(todo) + k
  <2> SUFFICES ASSUME NEW i \in 1..Len(todo'), i \notin 1..Len(todo)
               PROVE  \E k \in 1..n : i = Len(todo) + k
    OBVIOUS
  <2>1. i - Len(todo) \in 1..n /\ i = Len(todo) + (i - Len(todo))
    BY <1>0, <1>2
  <2> QED
    BY <2>1
<1>6. \A i \in 1..Len(todo) : todo[i] \in Remaining /\ todo[i][1] < path
  BY <1>2 DEF Remaining
<1>7. Distinct'
  <2> SUFFICES ASSUME NEW i \in 1..Len(todo'), NEW j \in 1..Len(todo'), todo'[i] = todo'[j]
               PROVE  i = j
    BY <1>2 DEF Distinct
  <2>1. CASE i \in 1..Len(todo) /\ j \in 1..Len(todo)
    BY <1>2, <1>3, <2>1 DEF Distinct
  <2>2. CASE i \in 1..Len(todo) /\ j \notin 1..Len(todo)
    <3>1. PICK k \in 1..n : j = Len(todo) + k
      BY <1>5, <2>2
    <3>2. todo[i][1] < path /\ todo[i] = <<path, k>>
      BY <1>3, <1>4, <1>6, <2>2, <3>1
    <3> QED
      BY <1>0, <3>2
  <2>3. CASE i \notin 1..Len(todo) /\ j \in 1..Len(todo)
    <3>1. PICK k \in 1..n : i = Len(todo) + k
      BY <1>5, <2>3
    <3>2. todo[j][1] < path /\ todo[j] = <<path, k>>
      BY <1>3, <1>4, <1>6, <2>3, <3>1
    <3> QED
      BY <1>0, <3>2
  <2>4. CASE i \notin 1..Len(todo) /\ j \notin 1..Len(todo)
    <3>1. PICK k \in 1..n : i = Len(todo) + k
      BY <1>5, <2>4
    <3>2. PICK m \in 1..n : j = Len(todo) + m
      BY <1>5, <2>4
    <3>3. <<path, k>> = <<path, m>>
      BY <1>4, <3>1, <3>2
    <3> QED
      BY <3>1, <3>2, <3>3
  <2> QED
    BY <2>1, <2>2, <2>3, <2>4
<1>8. Remaining' \subseteq Remaining \cup ({path} \X (1..n))
  <2> SUFFICES ASSUME NEW i \in 1..Len(todo')
               PROVE  todo'[i] \in Remaining \cup ({path} \X (1..n))
    BY <1>2 DEF Remaining
  <2>1. CASE i \in 1..Len(todo)
    BY <1>3, <1>6, <2>1
  <2>2. CASE i \notin 1..Len(todo)
    <3>1. PICK k \in 1..n : i = Len(todo) + k
      BY <1>5, <2>2
    <3>2. todo'[i] = <<path, k>>
      BY <1>4, <3>1
    <3> QED
      BY ONLY <3>2
  <2> QED
    BY <2>1, <2>2
<1>9. Remaining \cup ({path} \X (1..n)) \subseteq Remaining'
  <2>1. \A i \in 1..Len(todo') : todo'[i] \in Remaining'
    BY <1>2 DEF Remaining
  <2>2. ASSUME NEW r \in Remaining PROVE r \in Remaining'
    <3>1. PICK i \in 1..Len(todo) : r = todo[i]
      BY <1>2 DEF Remaining
    <3> QED
      BY <1>3, <2>1, <3>1
  <2>3. ASSUME NEW r \in {path} \X (1..n) PROVE r \in Remaining'
    <3>1. PICK k \in 1..n : r = <<path, k>>
      OBVIOUS
    <3> QED
      BY <1>4, <2>1, <3>1
  <2> QED
    BY <2>2, <2>3
<1> QED
  BY <1>2, <1>7, <1>8, <1>9

------------------------------------------------------------------------------
(* Steps that several actions share *)

\* An aborted command: nothing is reported, and the exit code is not 0.
LEMMA AbortStep ==
  ASSUME IndInv, NEW from \in {"start", "scan", "send", "poll"},
         Abort(from), DropResults, flow # "projects" \/ from = "start",
         service' \in [Projects -> {"unknown", "accepted", "refused"}]
  PROVE  IndInv'
<1> USE DEF IndInv, Abort, DropResults
<1>1. TypeOK'
  <2>1. todo' \in Seq(Projects)
    OBVIOUS
  <2> QED
    BY <2>1, SizeAssumption DEF TypeOK
<1>2. Kept'
  <2>1. Distinct'
    BY DEF Distinct
  <2>2. CASE flow = "projects"
    <3>1. found' = {} /\ good' = {} /\ bad' = {}
      BY <2>2 DEF Place
    <3>2. Remaining' = {}
      BY DEF Remaining
    <3> QED
      BY <2>1, <3>1, <3>2 DEF Kept, Scanned, Partition
  <2> QED
    BY <2>1, <2>2 DEF Kept
<1>3. Place' /\ JobOfCurrent' /\ ReportedIsMonitored' /\ SuccessIsComplete'
  BY DEF Place, JobOfCurrent, ReportedIsMonitored, SuccessIsComplete
<1> QED
  BY <1>1, <1>2, <1>3

\* A project gets its result: good if the service has it, or bad.
LEMMA ResultStep ==
  ASSUME IndInv, NEW from \in {"send", "poll"}, ProjectDone(from),
         service' \in [Projects -> {"unknown", "accepted", "refused"}],
         \A r \in Projects : r # Current => service'[r] = service[r],
         \/ /\ good' = good \cup {Current} /\ bad' = bad
            /\ \/ service'[Current] = "accepted"
               \/ flow # "cpp" /\ service'[Current] = "refused"
         \/ bad' = bad \cup {Current} /\ good' = good
  PROVE  IndInv'
<1>1. /\ todo' \in Seq(Projects) /\ Current \in Projects /\ Current \in Remaining
      /\ Remaining' = Remaining \ {Current} /\ Distinct'
  BY TailOfTodo DEF IndInv, TypeOK, Kept, ProjectDone
<1>2. Scanned /\ Partition
  BY DEF IndInv, Kept, ProjectDone
<1>3. TypeOK'
  BY <1>1, SizeAssumption DEF IndInv, TypeOK, ProjectDone
<1>4. Kept'
  <2>1. Scanned'
    BY <1>2 DEF Scanned, ProjectDone
  <2>2. Partition'
    BY <1>1, <1>2 DEF Partition, ProjectDone
  <2> QED
    BY <1>1, <2>1, <2>2 DEF Kept
<1>5. Place'
  BY DEF IndInv, Place, ProjectDone
<1>6. JobOfCurrent'
  BY DEF JobOfCurrent, ProjectDone
<1>7. ReportedIsMonitored'
  <2>1. Current \notin good
    BY <1>1, <1>2 DEF Partition
  <2>2. \A r \in good : r \in Projects /\ service'[r] = service[r]
    BY <2>1 DEF IndInv, TypeOK
  <2> QED
    BY <2>2 DEF IndInv, ReportedIsMonitored, ProjectDone
<1>8. SuccessIsComplete'
  BY DEF SuccessIsComplete, ProjectDone
<1> QED
  BY <1>3, <1>4, <1>5, <1>6, <1>7, <1>8 DEF IndInv

\* A snapshot that fails is a bad result or aborts the command.
LEMMA FailedStep ==
  ASSUME IndInv, NEW from \in {"send", "poll"}, NEW e, Failed(from, e), todo # <<>>,
         service' \in [Projects -> {"unknown", "accepted", "refused"}],
         \A r \in Projects : r # Current => service'[r] = service[r]
  PROVE  IndInv'
<1>1. CASE Fatal(e)
  BY <1>1, AbortStep DEF Failed, Fatal
<1>2. CASE ~Fatal(e)
  BY <1>2, ResultStep DEF Failed, Bad
<1> QED
  BY <1>1, <1>2

\* A step that only moves the program counter within the loops.
LEMMA MoveStep ==
  ASSUME IndInv, UNCHANGED <<flow, progress, service, exitCode>>, pc' # "done", pc # "done",
         TypeOK', Place', JobOfCurrent'
  PROVE  IndInv'
<1>1. Kept'
  BY DEF IndInv, Kept, Distinct, Scanned, Partition, Remaining, progress
<1>2. ReportedIsMonitored' /\ SuccessIsComplete'
  BY DEF IndInv, ReportedIsMonitored, SuccessIsComplete, progress
<1> QED
  BY <1>1, <1>2 DEF IndInv

------------------------------------------------------------------------------
(* Every step *)

\* The projects found in the next path are new ones.
LEMMA PathScannedStep ==
  ASSUME IndInv, PathScanned
  PROVE  IndInv'
<1> USE DEF IndInv
<1>1. PICK n \in 0..MaxProjects : /\ todo' = todo \o [k \in 1..n |-> <<path, k>>]
                                  /\ found' = found \cup ({path} \X (1..n))
  BY DEF PathScanned
<1>2. /\ pc = "scan" /\ path \in 1..Paths /\ path' = path + 1 /\ n \in Nat /\ n <= MaxProjects
      /\ UNCHANGED <<flow, good, bad, jobVars, service, exitCode>>
      /\ Scanned /\ Partition /\ Distinct
  BY SizeAssumption DEF PathScanned, TypeOK, Kept
<1>3. \A r \in Remaining : r[1] < path
  BY <1>2 DEF Scanned, Partition
<1>4. /\ todo' \in Seq(Projects) /\ Distinct'
      /\ Remaining' = Remaining \cup ({path} \X (1..n))
  BY <1>1, <1>2, <1>3, FoundInPath
<1>5. TypeOK'
  <2>1. \A r \in {path} \X (1..n) : r \in Projects
    BY <1>2, SizeAssumption DEF Projects
  <2>2. found' \subseteq Projects
    BY <1>1, <2>1 DEF TypeOK
  <2>3. pathResult' \in [1..Paths -> {"none", "error", "noManifest"}]
    BY DEF PathScanned, TypeOK
  <2>4. path' \in 1..Paths + 1 /\ pc' \in {"scan", "send"}
    BY <1>2, SizeAssumption DEF PathScanned
  <2> QED
    BY <1>2, <1>4, <2>2, <2>3, <2>4 DEF TypeOK, jobVars
<1>6. Kept'
  <2>1. \A r \in {path} \X (1..n) : r[1] = path
    OBVIOUS
  <2>2. Scanned'
    <3> SUFFICES ASSUME NEW r \in found' PROVE r[1] < path'
      BY DEF Scanned
    <3>1. CASE r \in found
      <4>1. r[1] < path /\ r[1] \in Int
        BY <1>2, <3>1, SizeAssumption DEF Scanned, TypeOK, Projects
      <4> QED
        BY <1>2, <4>1
    <3>2. CASE r \notin found
      BY <1>1, <1>2, <2>1, <3>2
    <3> QED
      BY <3>1, <3>2
  <2>3. \A r \in good \cup bad : r[1] < path
    BY <1>2 DEF Scanned, Partition
  <2>4. ({path} \X (1..n)) \cap (good \cup bad) = {}
    BY <1>2, <2>1, <2>3
  <2>5. Partition'
    BY <1>1, <1>2, <1>4, <2>4 DEF Partition
  <2> QED
    BY <1>4, <2>2, <2>5 DEF Kept
<1>7. Place'
  BY <1>2, SizeAssumption DEF Place, PathScanned
<1>8. JobOfCurrent' /\ ReportedIsMonitored' /\ SuccessIsComplete'
  BY <1>2 DEF JobOfCurrent, ReportedIsMonitored, SuccessIsComplete, PathScanned, jobVars
<1> QED
  BY <1>4, <1>5, <1>6, <1>7, <1>8

\* A path without projects changes its result only.
LEMMA PathFailsStep ==
  ASSUME IndInv, PathFails
  PROVE  IndInv'
<1> USE DEF IndInv, PathFails
<1>1. path \in 1..Paths /\ path' = path + 1
  BY SizeAssumption DEF TypeOK
<1>2. TypeOK'
  <2>1. path' \in 1..Paths + 1
    BY <1>1, SizeAssumption
  <2> QED
    BY <2>1 DEF TypeOK, jobVars
<1>3. Kept'
  <2>1. \A r \in found : r[1] < path' 
    BY <1>1, SizeAssumption DEF Kept, Scanned, TypeOK, Projects
  <2> QED
    BY <2>1 DEF Kept, Distinct, Scanned, Partition, Remaining
<1>4. Place' /\ JobOfCurrent' /\ ReportedIsMonitored' /\ SuccessIsComplete'
  BY DEF Place, JobOfCurrent, ReportedIsMonitored, SuccessIsComplete, jobVars
<1> QED
  BY <1>2, <1>3, <1>4

\* The service's end of a job concerns the snapshot at the head.
LEMMA JobEndsStep ==
  ASSUME IndInv, JobEnds
  PROVE  IndInv'
<1> USE DEF IndInv, JobEnds
<1>1. /\ flow = "cpp" /\ todo # <<>> /\ pc \in {"poll", "sleep"}
      /\ todo \in Seq(Projects) /\ Current \in Projects /\ Current \in Remaining
  <2>1. Current = todo[1] /\ 1 \in DOMAIN todo /\ todo[1] \in Projects
    BY DEF Current, JobOfCurrent, TypeOK
  <2> QED
    BY <2>1 DEF Remaining, JobOfCurrent, TypeOK
<1>2. /\ service' \in [Projects -> {"unknown", "accepted", "refused"}]
      /\ \A r \in Projects : r # Current => service'[r] = service[r]
      /\ job' = "monitored" => service'[Current] = "accepted"
  BY <1>1 DEF TypeOK
<1>3. TypeOK'
  BY <1>2 DEF TypeOK, progress
<1>4. Kept' /\ Place' /\ SuccessIsComplete' /\ UNCHANGED Current
  BY <1>1 DEF Kept, Distinct, Scanned, Partition, Remaining, Place, SuccessIsComplete,
              progress, Current
<1>5. JobOfCurrent'
  BY <1>1, <1>2, <1>4 DEF JobOfCurrent, progress
<1>6. ReportedIsMonitored'
  <2>1. Current \notin good /\ good \subseteq Projects
    BY <1>1 DEF Kept, Partition, TypeOK
  <2> QED
    BY <1>1, <1>2, <2>1 DEF ReportedIsMonitored, progress
<1> QED
  BY <1>3, <1>4, <1>5, <1>6

\* The report tells success only if no result is bad.
LEMMA ReportStep ==
  ASSUME IndInv, Report
  PROVE  IndInv'
<1> USE DEF IndInv, Report
<1>1. TypeOK' /\ Place' /\ JobOfCurrent' /\ ReportedIsMonitored'
  BY DEF TypeOK, Place, JobOfCurrent, ReportedIsMonitored, ExitCodeOf, progress, jobVars
<1>2. Kept'
  BY DEF Kept, Distinct, Scanned, Partition, Remaining, progress
<1>3. SuccessIsComplete'
  <2> SUFFICES ASSUME exitCode' = 0
               PROVE  /\ path = Paths + 1 /\ Messages = {"none"}
                      /\ \A r \in found : service[r] # "unknown"
                      /\ flow = "cpp" => \A r \in found : service[r] = "accepted"
    BY DEF SuccessIsComplete, Messages, progress
  <2>1. bad = {} /\ Messages = {"none"}
    BY DEF AllOk, ExitCodeOf
  <2>2. todo = <<>> /\ path = Paths + 1
    BY DEF Place
  <2>3. Remaining = {}
    BY <2>2 DEF Remaining
  <2>4. found = good
    BY <2>1, <2>3 DEF Kept, Partition
  <2> QED
    BY <2>1, <2>2, <2>4 DEF ReportedIsMonitored
<1> QED
  BY <1>1, <1>2, <1>3

\* The service does something with a snapshot that is to be sent.
LEMMA ServiceTyped ==
  ASSUME TypeOK, todo # <<>>, NEW a \in {"unknown", "accepted", "refused"},
         service' = [service EXCEPT ![Current] = a]
  PROVE  /\ service' \in [Projects -> {"unknown", "accepted", "refused"}]
         /\ Current \in Projects
         /\ \A r \in Projects : r # Current => service'[r] = service[r]
         /\ service'[Current] = a
<1>1. Current \in Projects
  BY DEF Current, TypeOK
<1> QED
  BY <1>1 DEF TypeOK

\* Every step preserves the inductive invariant.
LEMMA IndStep ==
  ASSUME IndInv, [Next]_vars
  PROVE  IndInv'
<1>0. /\ service \in [Projects -> {"unknown", "accepted", "refused"}]
      /\ \A r \in Projects : service[r] = service[r]
      /\ TypeOK /\ Place /\ JobOfCurrent
  BY DEF IndInv, TypeOK
<1>1. CASE Rejected
  BY <1>0, <1>1, AbortStep DEF Rejected
<1>2. CASE Accepted
  <2>1. TypeOK' /\ Place' /\ JobOfCurrent'
    BY <1>0, <1>2 DEF Accepted, TypeOK, Place, JobOfCurrent, progress, jobVars
  <2> QED
    BY <1>2, <2>1, MoveStep DEF Accepted
<1>3. CASE PathFails
  BY <1>3, PathFailsStep
<1>4. CASE PathScanned
  BY <1>4, PathScannedStep
<1>5. CASE EcosystemScanFails
  BY <1>0, <1>5, AbortStep DEF EcosystemScanFails
<1>6. CASE EndOfPaths
  <2>1. TypeOK' /\ Place' /\ JobOfCurrent'
    BY <1>0, <1>6, SizeAssumption
       DEF EndOfPaths, TypeOK, Place, JobOfCurrent, progress, jobVars
  <2> QED
    BY <1>6, <2>1, MoveStep DEF EndOfPaths
<1>7. CASE EndOfProjects
  <2>1. TypeOK' /\ Place' /\ JobOfCurrent'
    BY <1>0, <1>7 DEF EndOfProjects, TypeOK, Place, JobOfCurrent, progress, jobVars
  <2> QED
    BY <1>7, <2>1, MoveStep DEF EndOfProjects
<1>8. CASE NotSent
  <2>1. CASE flow = "projects" /\ Bad("send")
    BY <1>0, <1>8, <2>1, ResultStep DEF Bad, NotSent
  <2>2. CASE flow = "docker" /\ Abort("send") /\ DropResults
    BY <1>0, <1>8, <2>2, AbortStep DEF NotSent
  <2> QED
    BY <1>8, <2>1, <2>2 DEF NotSent
<1>9. CASE Answered
  <2>1. PICK a \in {"accepted", "refused"} : service' = [service EXCEPT ![Current] = a]
    BY <1>9 DEF Answered
  <2>2. todo # <<>> /\ flow # "cpp"
    BY <1>9 DEF Answered, Good, ProjectDone
  <2> QED
    BY <1>0, <1>9, <2>1, <2>2, ServiceTyped, ResultStep DEF Answered, Good
<1>10. CASE SendFails
  <2>1. PICK e \in Errors : Failed("send", e)
    BY <1>10 DEF SendFails
  <2>2. todo # <<>>
    BY <1>10 DEF SendFails
  <2>3. CASE UNCHANGED service
    BY <1>0, <2>1, <2>2, <2>3, FailedStep
  <2>4. CASE service' = [service EXCEPT ![Current] = "accepted"]
    BY <1>0, <2>1, <2>2, <2>4, ServiceTyped, FailedStep
  <2> QED
    BY <1>10, <2>3, <2>4 DEF SendFails
<1>11. CASE TokenReceived
  <2>1. TypeOK' /\ Place' /\ JobOfCurrent'
    BY <1>0, <1>11 DEF TokenReceived, TypeOK, Place, JobOfCurrent, progress
  <2> QED
    BY <1>11, <2>1, MoveStep DEF TokenReceived
<1>12. CASE PollSucceeds
  <2>1. service[Current] = "accepted"
    BY <1>0, <1>12 DEF PollSucceeds, IsMonitored, JobOfCurrent
  <2> QED
    BY <1>0, <1>12, <2>1, ResultStep DEF PollSucceeds, Good
<1>13. CASE PollFails
  <2>1. CASE Bad("poll")
    BY <1>0, <1>13, <2>1, ResultStep DEF Bad, PollFails
  <2>2. CASE \E e \in Errors : Failed("poll", e)
    <3>1. PICK e \in Errors : Failed("poll", e)
      BY <2>2
    <3>2. todo # <<>>
      BY <1>0, <1>13 DEF PollFails, JobOfCurrent
    <3> QED
      BY <1>0, <1>13, <3>1, <3>2, FailedStep DEF PollFails
  <2> QED
    BY <1>13, <2>1, <2>2 DEF PollFails
<1>14. CASE GiveUp
  BY <1>0, <1>14, ResultStep DEF GiveUp, Bad
<1>15. CASE Delay
  <2>1. TypeOK' /\ Place' /\ JobOfCurrent'
    BY <1>0, <1>15, SizeAssumption DEF Delay, TypeOK, Place, JobOfCurrent, progress, Current
  <2> QED
    BY <1>15, <2>1, MoveStep DEF Delay
<1>16. CASE PollAgain
  <2>1. TypeOK' /\ Place' /\ JobOfCurrent'
    BY <1>0, <1>16 DEF PollAgain, TypeOK, Place, JobOfCurrent, progress, jobVars, Current
  <2> QED
    BY <1>16, <2>1, MoveStep DEF PollAgain
<1>17. CASE Report
  BY <1>17, ReportStep
<1>18. CASE JobEnds
  BY <1>18, JobEndsStep
<1>19. CASE UNCHANGED vars
  <2>1. TypeOK' /\ Place' /\ JobOfCurrent' /\ ReportedIsMonitored' /\ SuccessIsComplete'
    BY <1>19 DEF IndInv, TypeOK, Place, JobOfCurrent, ReportedIsMonitored, SuccessIsComplete,
                 Messages, Current, vars, progress, jobVars
  <2>2. Kept'
    BY <1>19 DEF IndInv, Kept, Distinct, Scanned, Partition, Remaining, vars, progress
  <2> QED
    BY <2>1, <2>2 DEF IndInv
<1> QED
  BY <1>1, <1>2, <1>3, <1>4, <1>5, <1>6, <1>7, <1>8, <1>9, <1>10, <1>11, <1>12, <1>13,
     <1>14, <1>15, <1>16, <1>17, <1>18, <1>19 DEF Next, Command

LEMMA InitInd == Init => IndInv
<1> SUFFICES ASSUME Init PROVE IndInv
  OBVIOUS
<1>1. TypeOK
  BY SizeAssumption DEF Init, TypeOK
<1>2. Kept
  BY DEF Init, Kept, Distinct, Scanned, Partition, Remaining
<1>3. Place /\ JobOfCurrent /\ ReportedIsMonitored /\ SuccessIsComplete
  BY DEF Init, Place, JobOfCurrent, ReportedIsMonitored, SuccessIsComplete
<1> QED
  BY <1>1, <1>2, <1>3 DEF IndInv

THEOREM Inductive == Spec => []IndInv
<1>1. Init => IndInv
  BY InitInd
<1>2. IndInv /\ [Next]_vars => IndInv'
  BY IndStep
<1> QED
  BY <1>1, <1>2, PTL DEF Spec

------------------------------------------------------------------------------
(* The properties *)

\* The variables keep their types, the exit code is 0, 2 or 3 (monitor, handleError).
THEOREM TypeCorrect == Spec => []TypeOK
<1>1. IndInv => TypeOK
  BY DEF IndInv
<1> QED
  BY <1>1, Inductive, PTL

\* Every project found is still to be sent or has exactly one result, until the
\* command is aborted (the loops of monitor and of resolveAndMonitorFacts).
THEOREM NoProjectForgotten == Spec => []NoneForgotten
<1>1. IndInv => NoneForgotten
  BY DEF IndInv, NoneForgotten, Kept, Partition, Place
<1> QED
  BY <1>1, Inductive, PTL

\* What is reported as monitored was accepted or answered by the service
\* (pollingMonitorWithTokenUntilDone, getMonitorDependencies).
THEOREM ReportIsTrue == Spec => []ReportedIsMonitored
<1>1. IndInv => ReportedIsMonitored
  BY DEF IndInv
<1> QED
  BY <1>1, Inductive, PTL

\* The exit code 0 means that all paths were scanned and that the service knows
\* every project (getFormattedMonitorOutput).
THEOREM SuccessMeansAll == Spec => []SuccessIsComplete
<1>1. IndInv => SuccessIsComplete
  BY DEF IndInv
<1> QED
  BY <1>1, Inductive, PTL

------------------------------------------------------------------------------
(* Monitor implements MonitorPromise *)

\* The service has got nothing of a project that is still to be sent, but of the
\* one whose job it has ended: no project is given to it twice.
NotYet ==
  /\ \A r \in Projects : service[r] # "unknown" => r \in found
  /\ \A r \in Remaining :
       service[r] # "unknown" => r = Current /\ job \notin {"none", "running"}

Missed == Messages # {"none"}

Keeps == NotYet' /\ [Promise!Next]_(Promise!vars)

\* What is not settled is what is still to be sent.
LEMMA UnsettledIs ==
  ASSUME Partition
  PROVE  Promise!Unsettled = Remaining /\ Remaining \subseteq found
BY DEF Partition, Promise!Unsettled

\* The head of the sequence is among what is still to be sent.
LEMMA CurrentRemains ==
  ASSUME TypeOK, todo # <<>>
  PROVE  Current \in Remaining /\ Current \in Projects
<1>1. Current = todo[1] /\ 1 \in DOMAIN todo /\ todo[1] \in Projects
  BY DEF Current, TypeOK
<1> QED
  BY <1>1 DEF Remaining

\* A step that only moves the program counter is none of the promise's.
LEMMA MoveKeeps ==
  ASSUME NotYet, UNCHANGED <<flow, progress, service, exitCode>>, pc # "done", pc' # "done",
         job' = job \/ (job = "none" /\ job' = "running")
  PROVE  Keeps
<1>1. UNCHANGED Promise!vars
  BY DEF Promise!vars, progress, Messages
<1>2. NotYet'
  <2>1. Remaining' = Remaining /\ Current' = Current
    BY DEF Remaining, Current, progress
  <2> QED
    BY <2>1 DEF NotYet, progress
<1> QED
  BY <1>1, <1>2 DEF Keeps

\* What the service may do with the project at hand.
ServedNow(a) ==
  /\ todo # <<>> /\ job = "none"
  /\ service' = [service EXCEPT ![Current] = a]

\* It has not done anything with it before.
LEMMA FirstTime ==
  ASSUME TypeOK, NotYet, NEW a \in {"accepted", "refused"}, ServedNow(a)
  PROVE  /\ Promise!Served(Current) /\ Current \in Remaining /\ Current \in Projects
         /\ service'[Current] = a
         /\ \A r \in Projects : r # Current => service'[r] = service[r]
<1>1. Current \in Remaining /\ Current \in Projects
  BY CurrentRemains DEF ServedNow
<1>2. service[Current] = "unknown"
  BY <1>1 DEF NotYet, ServedNow
<1> QED
  BY <1>1, <1>2 DEF Promise!Served, ServedNow, TypeOK

\* An aborted command concludes nothing.
LEMMA AbortKeeps ==
  ASSUME IndInv, NotYet, NEW from \in {"start", "scan", "send", "poll"},
         Abort(from), DropResults, flow # "projects" \/ from = "start",
         UNCHANGED service \/ ServedNow("accepted")
  PROVE  Keeps
<1>1. Remaining' = {}
  BY DEF DropResults, Remaining
<1>2. Partition /\ TypeOK /\ (from = "start" => found = {})
  BY DEF IndInv, Kept, Place, Abort
<1>3. UNCHANGED service \/ \E r \in Promise!Unsettled : Promise!Served(r)
  BY <1>2, FirstTime, UnsettledIs
<1>4. NotYet'
  <2>1. CASE UNCHANGED service
    BY <1>1, <2>1 DEF NotYet, DropResults
  <2>2. CASE ServedNow("accepted")
    <3>1. Current \in found
      BY <1>2, <2>2, FirstTime, UnsettledIs
    <3> QED
      BY <1>1, <1>2, <2>2, <3>1, FirstTime DEF NotYet, DropResults
  <2> QED
    BY <2>1, <2>2
<1>5. Promise!Abort
  BY <1>2, <1>3 DEF Promise!Abort, Abort, DropResults, Messages
<1> QED
  BY <1>4, <1>5 DEF Keeps, Promise!Next

\* A result settles the project at hand.
LEMMA ResultKeeps ==
  ASSUME IndInv, NotYet, NEW from \in {"send", "poll"}, ProjectDone(from),
         UNCHANGED service \/ \E a \in {"accepted", "refused"} : ServedNow(a),
         \/ /\ good' = good \cup {Current} /\ bad' = bad
            /\ \/ service'[Current] = "accepted"
               \/ flow # "cpp" /\ service'[Current] = "refused"
         \/ bad' = bad \cup {Current} /\ good' = good
  PROVE  Keeps
<1>1. Current \in Remaining /\ Remaining' = Remaining \ {Current} /\ Current \in Projects
  BY TailOfTodo DEF IndInv, TypeOK, Kept, ProjectDone
<1>2. Partition /\ TypeOK
  BY DEF IndInv, Kept, ProjectDone
<1>3. Promise!Unsettled = Remaining /\ Remaining \subseteq found
  BY <1>2, UnsettledIs
<1>4. /\ UNCHANGED service \/ Promise!Served(Current)
      /\ \A r \in Projects : r # Current => service'[r] = service[r]
  BY <1>2, FirstTime
<1>5. NotYet'
  <2>1. \A r \in Remaining' : r # Current /\ r \in Projects
    BY <1>1, <1>2, <1>3 DEF TypeOK
  <2>2. found' = found
    BY DEF ProjectDone
  <2> QED
    BY <1>1, <1>3, <1>4, <2>1, <2>2 DEF NotYet
<1>6. Promise!Settle
  BY <1>1, <1>3, <1>4 DEF Promise!Settle, Promise!Confirmed, ProjectDone, Messages
<1> QED
  BY <1>5, <1>6 DEF Keeps, Promise!Next

\* So does a failure, or it aborts the command.
LEMMA FailedKeeps ==
  ASSUME IndInv, NotYet, NEW from \in {"send", "poll"}, NEW e, Failed(from, e),
         UNCHANGED service \/ ServedNow("accepted")
  PROVE  Keeps
<1>1. CASE Fatal(e)
  BY <1>1, AbortKeeps DEF Failed, Fatal
<1>2. CASE ~Fatal(e)
  BY <1>2, ResultKeeps DEF Failed, Bad
<1> QED
  BY <1>1, <1>2

\* The result of a path is not "none" when it is missed.
LEMMA MissedStays ==
  ASSUME TypeOK, path \in 1..Paths,
         \/ pathResult' = pathResult
         \/ \E r \in {"error", "noManifest"} : pathResult' = [pathResult EXCEPT ![path] = r]
  PROVE  Missed => Missed'
<1>1. CASE pathResult' = pathResult
  BY <1>1 DEF Missed, Messages
<1>2. CASE \E r \in {"error", "noManifest"} : pathResult' = [pathResult EXCEPT ![path] = r]
  <2>1. pathResult'[path] # "none"
    BY <1>2 DEF TypeOK
  <2> QED
    BY <2>1 DEF Missed, Messages
<1> QED
  BY <1>1, <1>2

\* A path is scanned: what is found in it is new to the service.
LEMMA PathKeeps ==
  ASSUME IndInv, NotYet, PathScanned \/ PathFails
  PROVE  Keeps
<1>1. /\ TypeOK /\ Scanned /\ Partition /\ Distinct
      /\ pc = "scan" /\ pc' # "done" /\ path \in 1..Paths
      /\ UNCHANGED <<flow, good, bad, jobVars, service, exitCode>>
  BY SizeAssumption DEF IndInv, Kept, PathScanned, PathFails, TypeOK
<1>2. Missed => Missed'
  BY <1>1, MissedStays DEF PathScanned, PathFails
<1>3. \A r \in Remaining : service[r] = "unknown"
  BY <1>1 DEF NotYet, IndInv, JobOfCurrent
<1>4. /\ found \subseteq found' /\ found' \subseteq Projects
      /\ \A r \in Remaining' : service[r] = "unknown"
  <2>1. CASE PathFails
    <3>1. found' = found /\ Remaining' = Remaining
      BY <2>1 DEF PathFails, Remaining
    <3> QED
      BY <1>1, <1>3, <3>1 DEF TypeOK
  <2>2. CASE PathScanned
    <3>1. PICK n \in 0..MaxProjects : /\ todo' = todo \o [k \in 1..n |-> <<path, k>>]
                                      /\ found' = found \cup ({path} \X (1..n))
      BY <2>2 DEF PathScanned
    <3>2. \A r \in Remaining : r[1] < path
      BY <1>1 DEF Scanned, Partition
    <3>3. Remaining' = Remaining \cup ({path} \X (1..n))
      BY <1>1, <2>2, <3>1, <3>2, FoundInPath DEF PathScanned
    <3>4. \A r \in {path} \X (1..n) : r \in Projects /\ r \notin found
      <4>1. n \in Nat /\ n <= MaxProjects
        BY SizeAssumption
      <4>2. \A r \in {path} \X (1..n) : r \in Projects /\ r[1] = path
        BY <1>1, <4>1, SizeAssumption DEF Projects
      <4> QED
        BY <1>1, <4>2 DEF Scanned
    <3>5. \A r \in {path} \X (1..n) : service[r] = "unknown"
      BY <3>4 DEF NotYet
    <3> QED
      BY <1>1, <1>3, <3>1, <3>3, <3>4, <3>5 DEF TypeOK
  <2> QED
    BY <2>1, <2>2
<1>5. NotYet'
  BY <1>1, <1>4 DEF NotYet
<1>6. Promise!Find
  BY <1>1, <1>2, <1>4 DEF Promise!Find, Missed
<1> QED
  BY <1>5, <1>6 DEF Keeps, Promise!Next

\* The service ends a job: nobody has been told yet.
LEMMA JobEndsKeeps ==
  ASSUME IndInv, NotYet, JobEnds
  PROVE  Keeps
<1>1. /\ TypeOK /\ Partition /\ todo # <<>> /\ pc \in {"poll", "sleep"} /\ pc' = pc
      /\ UNCHANGED <<flow, progress, exitCode>>
  BY DEF IndInv, Kept, JobOfCurrent, JobEnds
<1>2. /\ Current \in Remaining /\ Current \in Projects /\ Current \in found
      /\ Remaining' = Remaining /\ Current' = Current /\ Remaining \subseteq Projects
  BY <1>1, CurrentRemains, UnsettledIs DEF Remaining, Current, progress, TypeOK
<1>3. service[Current] = "unknown"
  BY <1>2 DEF NotYet, JobEnds
<1>4. PICK a \in {"accepted", "refused"} : service' = [service EXCEPT ![Current] = a]
  BY DEF JobEnds
<1>5. NotYet'
  <2>1. \A r \in Projects : r # Current => service'[r] = service[r]
    BY <1>1, <1>4 DEF TypeOK
  <2>2. job' \notin {"none", "running"} /\ found' = found
    BY <1>1 DEF JobEnds, progress
  <2>3. \A r \in Remaining : r \in Projects
    BY <1>2
  <2> QED
    BY <1>2, <2>1, <2>2, <2>3 DEF NotYet
<1>6. Promise!Serve
  <2>1. Promise!Served(Current) /\ Current \in Promise!Unsettled
    BY <1>1, <1>2, <1>3, <1>4, UnsettledIs DEF Promise!Served
  <2> QED
    BY <1>1, <2>1 DEF Promise!Serve, progress, Messages
<1> QED
  BY <1>5, <1>6 DEF Keeps, Promise!Next

\* The report concludes when all is settled.
LEMMA ReportKeeps ==
  ASSUME IndInv, NotYet, Report
  PROVE  Keeps
<1>1. pc = "report" /\ pc' = "done" /\ UNCHANGED <<flow, progress, jobVars, service>>
  BY DEF Report
<1>2. Partition /\ Remaining = {} /\ Remaining' = {}
  BY <1>1 DEF IndInv, Kept, Place, Remaining, progress
<1>3. exitCode' = 0 <=> bad = {} /\ ~Missed
  BY DEF Report, AllOk, ExitCodeOf, Missed
<1>4. NotYet'
  BY <1>1, <1>2 DEF NotYet, progress
<1>5. Promise!Conclude
  BY <1>1, <1>2, <1>3, UnsettledIs DEF Promise!Conclude, progress, Messages, Missed
<1> QED
  BY <1>4, <1>5 DEF Keeps, Promise!Next

\* Every step keeps the promise.
LEMMA StepKeeps ==
  ASSUME IndInv, NotYet, [Next]_vars
  PROVE  Keeps
<1>0. TypeOK /\ Place /\ JobOfCurrent
  BY DEF IndInv
<1>1. CASE Rejected
  BY <1>1, AbortKeeps DEF Rejected
<1>2. CASE EcosystemScanFails
  BY <1>2, AbortKeeps DEF EcosystemScanFails
<1>3. CASE Accepted \/ EndOfPaths \/ EndOfProjects \/ PollAgain
  BY <1>3, MoveKeeps DEF Accepted, EndOfPaths, EndOfProjects, PollAgain, jobVars
<1>4. CASE TokenReceived \/ Delay
  BY <1>0, <1>4, MoveKeeps DEF TokenReceived, Delay, JobOfCurrent
<1>5. CASE PathFails \/ PathScanned
  BY <1>5, PathKeeps
<1>6. CASE NotSent
  BY <1>6, AbortKeeps, ResultKeeps DEF NotSent, Bad
<1>7. CASE Answered
  <2>1. PICK a \in {"accepted", "refused"} : ServedNow(a)
    BY <1>0, <1>7 DEF Answered, Good, ProjectDone, ServedNow, JobOfCurrent
  <2>2. service'[Current] = a
    BY <1>0, <2>1, FirstTime
  <2> QED
    BY <1>7, <2>1, <2>2, ResultKeeps DEF Answered, Good
<1>8. CASE SendFails
  <2>1. PICK e \in Errors : Failed("send", e)
    BY <1>8 DEF SendFails
  <2>2. UNCHANGED service \/ ServedNow("accepted")
    BY <1>0, <1>8 DEF SendFails, Failed, Abort, Bad, ProjectDone, ServedNow, JobOfCurrent
  <2> QED
    BY <2>1, <2>2, FailedKeeps
<1>9. CASE PollSucceeds
  BY <1>0, <1>9, ResultKeeps DEF PollSucceeds, IsMonitored, Good, JobOfCurrent
<1>10. CASE PollFails
  BY <1>10, FailedKeeps, ResultKeeps DEF PollFails, Bad
<1>11. CASE GiveUp
  BY <1>11, ResultKeeps DEF GiveUp, Bad
<1>12. CASE Report
  BY <1>12, ReportKeeps
<1>13. CASE JobEnds
  BY <1>13, JobEndsKeeps
<1>14. CASE UNCHANGED vars
  BY <1>14 DEF vars, progress, jobVars, Keeps, NotYet, Remaining, Current, Promise!vars, Messages
<1> QED
  BY <1>1, <1>2, <1>3, <1>4, <1>5, <1>6, <1>7, <1>8, <1>9, <1>10, <1>11, <1>12, <1>13,
     <1>14 DEF Next, Command

\* The command implements MonitorPromise, for any number of paths and projects,
\* in each of its three flows and whatever the requests are answered with: each
\* project has one result, the service is given none twice, and the exit code is
\* 0 exactly if nothing failed.
THEOREM PromiseKept == Spec => KeepsMonitorPromise
<1>1. Init => NotYet /\ Promise!Init
  <2> SUFFICES ASSUME Init PROVE NotYet /\ Promise!Init
    OBVIOUS
  <2>1. Messages = {"none"}
    BY SizeAssumption DEF Init, Messages
  <2>2. Remaining = {}
    BY DEF Init, Remaining
  <2> QED
    BY <2>1, <2>2 DEF Init, NotYet, Promise!Init
<1>2. IndInv /\ NotYet /\ [Next]_vars => NotYet' /\ [Promise!Next]_(Promise!vars)
  BY StepKeeps DEF Keeps
<1> QED
  BY <1>1, <1>2, Inductive, PTL DEF Spec, KeepsMonitorPromise, Promise!Spec
==============================================================================
