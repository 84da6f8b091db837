------------------------- MODULE BinaryWrapperProofs -------------------------
(***************************************************************************)
(* Proofs about BinaryWrapper, for every number of processes and of chunks *)
(* of the binary, when no two downloads start in the same millisecond.     *)
(***************************************************************************)
EXTENDS BinaryWrapper, TLAPS

\* Temporary names are not shared, so a process writes a file of its own and
\* a temporary name leads nowhere but to the file of the process that chose it.
OwnFile ==
  /\ \A p, q \in Procs : p # q /\ temp[p] # None => temp[p] # temp[q]
  /\ \A p \in Procs : pc[p] \in {"start", "open"} => temp[p] = None
  /\ \A p \in Procs : pc[p] \in Downloading => temp[p] \in Temps /\ out[p] = p
  /\ \A t \in Temps : names[t] # None => temp[names[t]] = t

\* As long as the hash is that of the published binary, so is what has been
\* written.
Written ==
  /\ \A p \in Procs : pc[p] = "open" => pos[p] = 0
  /\ \A p \in Procs : pc[p] = "start" => pos[p] = 0
  /\ \A p \in Procs : pc[p] = "close" => pos[p] = N
  /\ \A p \in Procs : pc[p] \in Downloading /\ hashOk[p] =>
       \A k \in 1..pos[p] : content[p][k] = "good"

\* Nobody writes the file in place any more.
InPlace ==
  /\ exe # None =>
       content[exe] = Whole /\ pc[exe] \notin {"start", "open"} \cup Downloading
  /\ \A p \in Procs : pc[p] = "chmod" => exe # None

IndInv == TypeOK /\ OwnFile /\ Written /\ InPlace /\ NoTempLeft

\* Every step of a process preserves the types.
LEMMA TypeStep ==
  ASSUME TypeOK, OwnFile, InPlace, NEW p \in Procs, Step(p)
  PROVE  TypeOK'
<1> USE NoneAssumption, SizeAssumption
    DEF TypeOK, Go, Caught, CleanupAfterError, Unlink, ShasumMatches, Uncaught, CanSpawn, procVars, fileVars, Downloading, Ended, Empty, InPlace
<1>1. CASE Start(p)
    BY <1>1 DEF Start
<1>2. CASE OpenTemp(p)
    BY <1>2 DEF OpenTemp
<1>3. CASE OpenFails(p)
    BY <1>3 DEF OpenFails
<1>4. CASE ReceiveChunk(p)
  <2>1. PICK c \in {"good", "bad"} :
          /\ content' = [content EXCEPT ![out[p]][pos[p] + 1] = c]
          /\ hashOk' = [hashOk EXCEPT ![p] = @ /\ c = "good"]
    BY <1>4 DEF ReceiveChunk
  <2>2. hashOk' \in [Procs -> BOOLEAN]
    BY <2>1
  <2>3. pos' \in [Procs -> 0..N]
    BY <1>4 DEF ReceiveChunk
  <2>4. content' \in [Procs -> [1..N -> {"hole", "good", "bad"}]]
    BY <2>1
  <2> QED
    BY <1>4, <2>2, <2>3, <2>4 DEF ReceiveChunk
<1>5. CASE DownloadFails(p)
    BY <1>5 DEF DownloadFails
<1>6. CASE EndResponse(p)
    BY <1>6 DEF EndResponse
<1>7. CASE LastWriteFails(p)
  <2>1. content' = [content EXCEPT ![out[p]][N] = "hole"]
    BY <1>7 DEF LastWriteFails
  <2>2. content' \in [Procs -> [1..N -> {"hole", "good", "bad"}]]
    BY <2>1
  <2>3. names' \in [Temps -> Procs \cup {None}] /\ kept' \subseteq Procs
    BY <1>7 DEF LastWriteFails
  <2>4. \/ pc' = [pc EXCEPT ![p] = "uncaught"] /\ outcome' = [outcome EXCEPT ![p] = "exception"]
        \/ pc' = [pc EXCEPT ![p] = Caught(p)] /\ UNCHANGED outcome
    BY ONLY <1>7 DEF LastWriteFails, CleanupAfterError, Uncaught
  <2>5. UNCHANGED <<mode, temp, out, pos, hashOk, exe, execBit, ran>>
    BY <1>7 DEF LastWriteFails
  <2> QED
    BY <2>2, <2>3, <2>4, <2>5
<1>8. CASE CloseStream(p)
  <2>1. temp[p] \in Temps
    BY <1>8 DEF CloseStream, OwnFile
  <2>2. exe' \in Procs \cup {None}
    BY <1>8, <2>1 DEF CloseStream
  <2>3. names' \in [Temps -> Procs \cup {None}]
    BY <1>8, <2>1 DEF CloseStream
  <2>4. pc' \in [Procs -> {"start", "open", "download", "close", "chmod",
                          "run", "fallback"} \cup Ended]
    <3>1. PICK to \in {"fallback", "done", "chmod", "uncaught"} :
            pc' = [pc EXCEPT ![p] = to]
      BY <1>8 DEF CloseStream
    <3> QED
      BY <3>1
  <2>5. outcome' \in [Procs -> {"none", "status", "signal", "spawnError",
                               "exception"}]
    BY <1>8 DEF CloseStream
  <2> QED
    BY <1>8, <2>2, <2>3, <2>4, <2>5 DEF CloseStream
<1>9. CASE Chmod(p)
  <2>1. execBit' \subseteq Procs
    BY <1>9 DEF Chmod
  <2>2. CASE Go(p, "chmod", IF mode[p] = "bootstrap" THEN "done" ELSE "run") /\ UNCHANGED outcome
    BY <1>9, <2>1, <2>2 DEF Chmod
  <2>3. CASE Uncaught(p)
    BY <1>9, <2>1, <2>3 DEF Chmod
  <2> QED
    BY <1>9, <2>2, <2>3 DEF Chmod
<1>10. CASE SpawnFails(p)
    BY <1>10 DEF SpawnFails
<1>11. CASE RunExecutable(p)
  <2>1. ran' \in [Procs -> Seq({"binary", "legacy"})]
    BY <1>11 DEF RunExecutable
  <2>2. /\ pc' \in [Procs -> {"start", "open", "download", "close", "chmod",
                          "run", "fallback"} \cup Ended]
        /\ outcome' \in [Procs -> {"none", "status", "signal", "spawnError",
                                   "exception"}]
    <3>1. PICK to \in {"done", "fallback"} : pc' = [pc EXCEPT ![p] = to]
      BY ONLY <1>11 DEF RunExecutable, Go
    <3>2. pc' \in [Procs -> {"start", "open", "download", "close", "chmod", "run",
                           "fallback"} \cup Ended]
      BY <3>1
    <3>3. PICK end \in {"status", "signal"} : outcome' = [outcome EXCEPT ![p] = end]
      BY ONLY <1>11 DEF RunExecutable
    <3>4. outcome' \in [Procs -> {"none", "status", "signal", "spawnError", "exception"}]
      BY <3>3
    <3> QED
      BY <3>2, <3>4
  <2>3. UNCHANGED <<procVars, fileVars, kept>>
    BY <1>11 DEF RunExecutable
  <2>4. UNCHANGED <<mode, temp, out, pos, hashOk, names, exe, content, execBit, kept>>
    BY ONLY <2>3 DEF procVars, fileVars
  <2>5. /\ mode' \in [Procs -> {"wrapper", "bootstrap", "legacy"}]
        /\ temp' \in [Procs -> Temps \cup {None}] /\ out' \in [Procs -> Procs \cup {None}]
        /\ pos' \in [Procs -> 0..N] /\ hashOk' \in [Procs -> BOOLEAN]
    BY <2>4
  <2>6. /\ names' \in [Temps -> Procs \cup {None}] /\ exe' \in Procs \cup {None}
        /\ content' \in [Procs -> [1..N -> {"hole", "good", "bad"}]]
        /\ execBit' \subseteq Procs /\ kept' \subseteq Procs
    BY <2>4
  <2> QED
    BY ONLY <2>1, <2>2, <2>5, <2>6 DEF TypeOK, Ended
<1>12. CASE RunFallback(p)
  <2>1. ran' \in [Procs -> Seq({"binary", "legacy"})]
    BY <1>12 DEF RunFallback
  <2>2. /\ pc' \in [Procs -> {"start", "open", "download", "close", "chmod",
                          "run", "fallback"} \cup Ended]
        /\ outcome' \in [Procs -> {"none", "status", "signal", "spawnError",
                                   "exception"}]
    <3>1. PICK to \in {"done", "uncaught"} : pc' = [pc EXCEPT ![p] = to]
      BY ONLY <1>12 DEF RunFallback, Go
    <3>2. outcome' = outcome
      BY ONLY <1>12 DEF RunFallback
    <3> QED
      BY <3>1, <3>2
  <2>3. UNCHANGED <<procVars, fileVars, kept>>
    BY <1>12 DEF RunFallback
  <2>4. UNCHANGED <<mode, temp, out, pos, hashOk, names, exe, content, execBit, kept>>
    BY ONLY <2>3 DEF procVars, fileVars
  <2>5. /\ mode' \in [Procs -> {"wrapper", "bootstrap", "legacy"}]
        /\ temp' \in [Procs -> Temps \cup {None}] /\ out' \in [Procs -> Procs \cup {None}]
        /\ pos' \in [Procs -> 0..N] /\ hashOk' \in [Procs -> BOOLEAN]
    BY <2>4
  <2>6. /\ names' \in [Temps -> Procs \cup {None}] /\ exe' \in Procs \cup {None}
        /\ content' \in [Procs -> [1..N -> {"hole", "good", "bad"}]]
        /\ execBit' \subseteq Procs /\ kept' \subseteq Procs
    BY <2>4
  <2> QED
    BY ONLY <2>1, <2>2, <2>5, <2>6 DEF TypeOK, Ended
<1>13. CASE Kill(p)
    BY <1>13 DEF Kill
<1> QED
    BY <1>1, <1>2, <1>3, <1>4, <1>5, <1>6, <1>7, <1>8, <1>9, <1>10, <1>11, <1>12, <1>13 DEF Step

\* Every step keeps the files of the processes apart.
LEMMA OwnFileStep ==
  ASSUME TypeOK, ~SameMillisecond, OwnFile, NEW p \in Procs, Step(p)
  PROVE  OwnFile'
<1> USE NoneAssumption, SizeAssumption
    DEF Go, Caught, CleanupAfterError, Unlink, ShasumMatches, Uncaught, CanSpawn, procVars, fileVars, Downloading, Ended, OwnFile
<1>t. /\ pc \in [Procs -> {"start", "open", "download", "close", "chmod", "run",
                           "fallback"} \cup Ended]
      /\ temp \in [Procs -> Temps \cup {None}]
      /\ out \in [Procs -> Procs \cup {None}]
      /\ names \in [Temps -> Procs \cup {None}]
  BY DEF TypeOK
<1> USE <1>t
<1>1. CASE Start(p)
  <2>1. PICK to \in {"fallback", "done", "run", "open"} :
          /\ pc[p] = "start" /\ pc' = [pc EXCEPT ![p] = to]
          /\ UNCHANGED <<procVars, fileVars>>
    BY <1>1 DEF Start
  <2> QED
    BY <2>1
<1>2. CASE OpenTemp(p)
  <2>1. PICK t \in Temps :
          /\ \A q \in Procs : temp[q] # t
          /\ temp' = [temp EXCEPT ![p] = t]
          /\ pc[p] = "open" /\ pc' = [pc EXCEPT ![p] = "download"]
          /\ LET f == IF names[t] = None THEN p ELSE names[t] IN
               /\ names' = [names EXCEPT ![t] = f]
               /\ out' = [out EXCEPT ![p] = f]
    BY <1>2 DEF OpenTemp
  <2>2. names[t] = None
    BY <2>1
  <2>3. names' = [names EXCEPT ![t] = p] /\ out' = [out EXCEPT ![p] = p]
    BY <2>1, <2>2
  <2>4. \A q, r \in Procs : q # r /\ temp'[q] # None => temp'[q] # temp'[r]
    BY <2>1
  <2>5. \A q \in Procs :
          /\ pc'[q] \in {"start", "open"} => temp'[q] = None
          /\ pc'[q] \in Downloading => temp'[q] \in Temps /\ out'[q] = q
    BY <2>1, <2>3
  <2>6. \A u \in Temps : names'[u] # None => temp'[names'[u]] = u
    BY <2>1, <2>3
  <2> QED
    BY <2>4, <2>5, <2>6
<1>3. CASE OpenFails(p)
    BY <1>3 DEF OpenFails
<1>4. CASE ReceiveChunk(p)
    BY <1>4 DEF ReceiveChunk
<1>5. CASE DownloadFails(p)
    BY <1>5 DEF DownloadFails
<1>6. CASE EndResponse(p)
    BY <1>6 DEF EndResponse
<1>7. CASE LastWriteFails(p)
  <2>1. CASE ShasumMatches(p)
    BY <1>7, <2>1 DEF LastWriteFails
  <2>2. CASE ~ShasumMatches(p)
    BY <1>7, <2>2 DEF LastWriteFails
  <2> QED
    BY <1>7, <2>1, <2>2 DEF LastWriteFails
<1>8. CASE CloseStream(p)
  <2>1. CASE ~ShasumMatches(p)
    BY <1>8, <2>1 DEF CloseStream
  <2>2. CASE ShasumMatches(p) /\ names[temp[p]] # None
    BY <1>8, <2>2 DEF CloseStream
  <2>3. CASE ShasumMatches(p) /\ names[temp[p]] = None
    BY <1>8, <2>3 DEF CloseStream
  <2> QED
    BY <1>8, <2>1, <2>2, <2>3 DEF CloseStream
<1>9. CASE Chmod(p)
    BY <1>9 DEF Chmod
<1>10. CASE SpawnFails(p)
    BY <1>10 DEF SpawnFails
<1>11. CASE RunExecutable(p)
  <2>1. PICK to \in {"fallback", "done"} :
          /\ pc[p] = "run" /\ pc' = [pc EXCEPT ![p] = to]
          /\ UNCHANGED <<procVars, fileVars>>
    BY <1>11 DEF RunExecutable
  <2> QED
    BY <2>1
<1>12. CASE RunFallback(p)
  <2>1. PICK to \in {"uncaught", "done"} :
          /\ pc[p] = "fallback" /\ pc' = [pc EXCEPT ![p] = to]
          /\ UNCHANGED <<procVars, fileVars>>
    BY <1>12 DEF RunFallback
  <2> QED
    BY <2>1
<1>13. CASE Kill(p)
    BY <1>13 DEF Kill
<1> QED
    BY <1>1, <1>2, <1>3, <1>4, <1>5, <1>6, <1>7, <1>8, <1>9, <1>10, <1>11, <1>12, <1>13 DEF Step

\* Every step keeps the hash and the file in agreement.
LEMMA WrittenStep ==
  ASSUME TypeOK, ~SameMillisecond, OwnFile, Written, NEW p \in Procs, Step(p)
  PROVE  Written'
<1> USE NoneAssumption, SizeAssumption
    DEF Go, Caught, CleanupAfterError, Unlink, ShasumMatches, Uncaught, CanSpawn, procVars, fileVars, Downloading, Ended, OwnFile, Written
<1>t. /\ pc \in [Procs -> {"start", "open", "download", "close", "chmod", "run",
                           "fallback"} \cup Ended]
      /\ temp \in [Procs -> Temps \cup {None}]
      /\ out \in [Procs -> Procs \cup {None}]
      /\ pos \in [Procs -> 0..N]
      /\ hashOk \in [Procs -> BOOLEAN]
      /\ content \in [Procs -> [1..N -> {"hole", "good", "bad"}]]
  BY DEF TypeOK
<1> USE <1>t
<1>1. CASE Start(p)
  <2>1. PICK to \in {"fallback", "done", "run", "open"} :
          /\ pc[p] = "start" /\ pc' = [pc EXCEPT ![p] = to]
          /\ UNCHANGED <<procVars, fileVars>>
    BY <1>1 DEF Start
  <2> QED
    BY <2>1
<1>2. CASE OpenTemp(p)
    BY <1>2 DEF OpenTemp
<1>3. CASE OpenFails(p)
    BY <1>3 DEF OpenFails
<1>4. CASE ReceiveChunk(p)
    BY <1>4 DEF ReceiveChunk
<1>5. CASE DownloadFails(p)
    BY <1>5 DEF DownloadFails
<1>6. CASE EndResponse(p)
    BY <1>6 DEF EndResponse
<1>7. CASE LastWriteFails(p)
    BY <1>7 DEF LastWriteFails
<1>8. CASE CloseStream(p)
  <2>1. PICK to \in {"fallback", "done", "chmod", "uncaught"} :
          /\ pc[p] = "close" /\ pc' = [pc EXCEPT ![p] = to]
          /\ UNCHANGED <<pos, hashOk, content>>
    BY <1>8 DEF CloseStream
  <2> QED
    BY <2>1
<1>9. CASE Chmod(p)
    BY <1>9 DEF Chmod
<1>10. CASE SpawnFails(p)
    BY <1>10 DEF SpawnFails
<1>11. CASE RunExecutable(p)
  <2>1. PICK to \in {"fallback", "done"} :
          /\ pc[p] = "run" /\ pc' = [pc EXCEPT ![p] = to]
          /\ UNCHANGED <<procVars, fileVars>>
    BY <1>11 DEF RunExecutable
  <2> QED
    BY <2>1
<1>12. CASE RunFallback(p)
  <2>1. PICK to \in {"uncaught", "done"} :
          /\ pc[p] = "fallback" /\ pc' = [pc EXCEPT ![p] = to]
          /\ UNCHANGED <<procVars, fileVars>>
    BY <1>12 DEF RunFallback
  <2> QED
    BY <2>1
<1>13. CASE Kill(p)
    BY <1>13 DEF Kill
<1> QED
    BY <1>1, <1>2, <1>3, <1>4, <1>5, <1>6, <1>7, <1>8, <1>9, <1>10, <1>11, <1>12, <1>13 DEF Step

\* Every step keeps the file in place as it is, or replaces it by a whole one.
LEMMA InPlaceStep ==
  ASSUME TypeOK, ~SameMillisecond, OwnFile, Written, InPlace, NEW p \in Procs, Step(p)
  PROVE  InPlace'
<1> USE NoneAssumption, SizeAssumption
    DEF Go, Caught, CleanupAfterError, Unlink, ShasumMatches, Uncaught, CanSpawn, procVars, fileVars, Downloading, Ended, OwnFile, Written, InPlace
<1>t. /\ pc \in [Procs -> {"start", "open", "download", "close", "chmod", "run",
                           "fallback"} \cup Ended]
      /\ temp \in [Procs -> Temps \cup {None}]
      /\ out \in [Procs -> Procs \cup {None}]
      /\ pos \in [Procs -> 0..N]
      /\ hashOk \in [Procs -> BOOLEAN]
      /\ names \in [Temps -> Procs \cup {None}]
      /\ exe \in Procs \cup {None}
      /\ content \in [Procs -> [1..N -> {"hole", "good", "bad"}]]
  BY DEF TypeOK
<1> USE <1>t
<1>1. CASE Start(p)
  <2>1. PICK to \in {"fallback", "done", "run", "open"} :
          /\ pc[p] = "start" /\ pc' = [pc EXCEPT ![p] = to]
          /\ UNCHANGED <<procVars, fileVars>>
    BY <1>1 DEF Start
  <2> QED
    BY <2>1
<1>2. CASE OpenTemp(p)
    BY <1>2 DEF OpenTemp
<1>3. CASE OpenFails(p)
    BY <1>3 DEF OpenFails
<1>4. CASE ReceiveChunk(p)
    BY <1>4 DEF ReceiveChunk
<1>5. CASE DownloadFails(p)
    BY <1>5 DEF DownloadFails
<1>6. CASE EndResponse(p)
    BY <1>6 DEF EndResponse
<1>7. CASE LastWriteFails(p)
    BY <1>7 DEF LastWriteFails
<1>8. CASE CloseStream(p)
  <2>1. CASE ~ShasumMatches(p)
    BY <1>8, <2>1 DEF CloseStream
  <2>2. CASE ShasumMatches(p) /\ names[temp[p]] # None
    <3>1. names[temp[p]] = p
      BY <1>8, <2>2 DEF CloseStream
    <3>2. content[p] = Whole
      <4>1. \A k \in 1..N : content[p][k] = "good"
        BY <1>8, <2>2 DEF CloseStream
      <4>2. content[p] \in [1..N -> {"hole", "good", "bad"}]
        OBVIOUS
      <4> QED
        BY <4>1, <4>2 DEF Whole
    <3> QED
      BY <1>8, <2>2, <3>1, <3>2 DEF CloseStream
  <2>3. CASE ShasumMatches(p) /\ names[temp[p]] = None
    BY <1>8, <2>3 DEF CloseStream
  <2> QED
    BY <1>8, <2>1, <2>2, <2>3 DEF CloseStream
<1>9. CASE Chmod(p)
    BY <1>9 DEF Chmod
<1>10. CASE SpawnFails(p)
    BY <1>10 DEF SpawnFails
<1>11. CASE RunExecutable(p)
  <2>1. PICK to \in {"fallback", "done"} :
          /\ pc[p] = "run" /\ pc' = [pc EXCEPT ![p] = to]
          /\ UNCHANGED <<procVars, fileVars>>
    BY <1>11 DEF RunExecutable
  <2> QED
    BY <2>1
<1>12. CASE RunFallback(p)
  <2>1. PICK to \in {"uncaught", "done"} :
          /\ pc[p] = "fallback" /\ pc' = [pc EXCEPT ![p] = to]
          /\ UNCHANGED <<procVars, fileVars>>
    BY <1>12 DEF RunFallback
  <2> QED
    BY <2>1
<1>13. CASE Kill(p)
    BY <1>13 DEF Kill
<1> QED
    BY <1>1, <1>2, <1>3, <1>4, <1>5, <1>6, <1>7, <1>8, <1>9, <1>10, <1>11, <1>12, <1>13 DEF Step

\* Every way out of a download but a kill gives the temporary name up.
LEMMA NoTempStep ==
  ASSUME TypeOK, ~SameMillisecond, OwnFile, NoTempLeft, NEW p \in Procs, Step(p)
  PROVE  NoTempLeft'
<1> USE NoneAssumption, SizeAssumption
    DEF Go, Caught, CleanupAfterError, Unlink, ShasumMatches, Uncaught, CanSpawn, procVars, fileVars, Downloading, Ended, OwnFile, NoTempLeft, Threw
<1>t. /\ outcome \in [Procs -> {"none", "status", "signal", "spawnError", "exception"}]
      /\ kept \subseteq Procs
      /\ pc \in [Procs -> {"start", "open", "download", "close", "chmod", "run",
                           "fallback"} \cup Ended]
      /\ temp \in [Procs -> Temps \cup {None}]
      /\ names \in [Temps -> Procs \cup {None}]
  BY DEF TypeOK
<1> USE <1>t
<1> SUFFICES ASSUME NEW t \in Temps, names'[t] # None
             PROVE  \E q \in Procs :
                      /\ temp'[q] = t
                      /\ \/ pc'[q] \in Downloading \cup {"killed"}
                         \/ pc'[q] = "uncaught" /\ outcome'[q] = "exception"
                         \/ q \in kept'
    OBVIOUS
<1>1. CASE Start(p)
  <2>1. PICK to \in {"fallback", "done", "run", "open"} :
          /\ pc[p] = "start" /\ pc' = [pc EXCEPT ![p] = to]
          /\ UNCHANGED <<procVars, fileVars, kept, outcome>>
    BY <1>1 DEF Start
  <2> QED
    BY <2>1
<1>2. CASE OpenTemp(p)
  <2>0. PICK u \in Temps :
          /\ temp' = [temp EXCEPT ![p] = u]
          /\ pc[p] = "open" /\ pc' = [pc EXCEPT ![p] = "download"]
          /\ UNCHANGED <<kept, outcome>>
          /\ names' = [names EXCEPT ![u] = IF names[u] = None THEN p ELSE names[u]]
    BY ONLY <1>2 DEF OpenTemp, Go
  <2>1. /\ temp' = [temp EXCEPT ![p] = u]
        /\ pc[p] = "open" /\ pc' = [pc EXCEPT ![p] = "download"]
        /\ UNCHANGED <<kept, outcome>>
        /\ \A w \in Temps \ {u} : names'[w] = names[w]
    BY <2>0
  <2>2. CASE t = u
    BY <2>1, <2>2
  <2>3. CASE t # u
    BY <2>1, <2>3
  <2> QED
    BY <2>2, <2>3
<1>3. CASE OpenFails(p)
    BY <1>3 DEF OpenFails
<1>4. CASE ReceiveChunk(p)
    BY <1>4 DEF ReceiveChunk
<1>5. CASE DownloadFails(p)
    BY <1>5 DEF DownloadFails
<1>6. CASE EndResponse(p)
    BY <1>6 DEF EndResponse
<1>7. CASE LastWriteFails(p)
  <2>1. CASE ShasumMatches(p)
    BY <1>7, <2>1 DEF LastWriteFails
  <2>2. CASE ~ShasumMatches(p)
    BY <1>7, <2>2 DEF LastWriteFails
  <2> QED
    BY <1>7, <2>1, <2>2 DEF LastWriteFails
<1>8. CASE CloseStream(p)
  <2>1. CASE ~ShasumMatches(p)
    BY <1>8, <2>1 DEF CloseStream
  <2>2. CASE ShasumMatches(p) /\ names[temp[p]] # None
    BY <1>8, <2>2 DEF CloseStream
  <2>3. CASE ShasumMatches(p) /\ names[temp[p]] = None
    BY <1>8, <2>3 DEF CloseStream
  <2> QED
    BY <1>8, <2>1, <2>2, <2>3 DEF CloseStream
<1>9. CASE Chmod(p)
    BY <1>9 DEF Chmod
<1>10. CASE SpawnFails(p)
    BY <1>10 DEF SpawnFails
<1>11. CASE RunExecutable(p)
  <2>1. PICK to \in {"fallback", "done"} :
          /\ pc[p] = "run" /\ pc' = [pc EXCEPT ![p] = to]
          /\ UNCHANGED <<procVars, fileVars, kept>>
          /\ \A q \in Procs \ {p} : outcome'[q] = outcome[q]
    BY <1>11 DEF RunExecutable
  <2> QED
    BY <2>1
<1>12. CASE RunFallback(p)
  <2>1. PICK to \in {"uncaught", "done"} :
          /\ pc[p] = "fallback" /\ pc' = [pc EXCEPT ![p] = to]
          /\ UNCHANGED <<procVars, fileVars, kept, outcome>>
    BY <1>12 DEF RunFallback
  <2> QED
    BY <2>1
<1>13. CASE Kill(p)
    BY <1>13 DEF Kill
<1> QED
    BY <1>1, <1>2, <1>3, <1>4, <1>5, <1>6, <1>7, <1>8, <1>9, <1>10, <1>11, <1>12, <1>13 DEF Step

------------------------------------------------------------------------------
LEMMA InitInd == Init => IndInv
<1> SUFFICES ASSUME Init PROVE IndInv
    OBVIOUS
<1> USE NoneAssumption, SizeAssumption DEF Init
<1>1. TypeOK
  BY DEF TypeOK, Empty, Ended
<1>2. OwnFile /\ Written /\ InPlace /\ NoTempLeft
  BY DEF OwnFile, Written, InPlace, NoTempLeft, Downloading, Threw
<1> QED
  BY <1>1, <1>2 DEF IndInv

LEMMA NextInd == ~SameMillisecond /\ IndInv /\ [Next]_vars => IndInv'
<1> SUFFICES ASSUME ~SameMillisecond, IndInv, [Next]_vars PROVE IndInv'
    OBVIOUS
<1>1. ASSUME NEW p \in Procs, Step(p) PROVE IndInv'
  BY <1>1, TypeStep, OwnFileStep, WrittenStep, InPlaceStep, NoTempStep DEF IndInv
<1>2. CASE UNCHANGED vars
  BY <1>2 DEF vars, procVars, fileVars, IndInv, TypeOK, OwnFile, Written,
              InPlace, NoTempLeft, Threw
<1> QED
  BY <1>1, <1>2 DEF Next

\* Every variable keeps its type.
THEOREM TypeCorrect ==
  ASSUME ~SameMillisecond PROVE Spec => []TypeOK
<1>1. IndInv => TypeOK
  BY DEF IndInv
<1> QED
  BY InitInd, NextInd, <1>1, PTL DEF Spec

\* Whatever fails and whoever is killed, the file under the binary's name is
\* whole: "it exists" is reason enough for index.ts to run it.
THEOREM BinaryAlwaysVerified ==
  ASSUME ~SameMillisecond PROVE Spec => []BinaryIsVerified
<1>1. IndInv => BinaryIsVerified
  BY DEF IndInv, InPlace, BinaryIsVerified
<1> QED
  BY InitInd, NextInd, <1>1, PTL DEF Spec

\* A temporary file that is left behind is that of a process that was killed, that
\* the close handler's exception ended, or whose unlink failed.
THEOREM NoTempEverLeft ==
  ASSUME ~SameMillisecond PROVE Spec => []NoTempLeft
<1>1. IndInv => NoTempLeft
  BY DEF IndInv
<1> QED
  BY InitInd, NextInd, <1>1, PTL DEF Spec

\* Every step leaves the binary in place executable, or to the one who brought it.
LEMMA PermissionStep ==
  ASSUME ~SameMillisecond, IndInv, PermissionPending, NEW p \in Procs, Step(p)
  PROVE  PermissionPending'
<1> USE NoneAssumption DEF Go, Caught, CleanupAfterError, Unlink, ShasumMatches, Uncaught,
         procVars, fileVars, Downloading, Ended, PermissionPending, Threw
<1>t. /\ pc \in [Procs -> {"start", "open", "download", "close", "chmod", "run",
                           "fallback"} \cup Ended]
      /\ outcome \in [Procs -> {"none", "status", "signal", "spawnError", "exception"}]
      /\ temp \in [Procs -> Temps \cup {None}]
      /\ names \in [Temps -> Procs \cup {None}]
      /\ exe \in Procs \cup {None}
      /\ pc[p] = "close" => temp[p] \in Temps
      /\ \A q, r \in Procs : q # r /\ temp[q] # None => temp[q] # temp[r]
      /\ \A t \in Temps : names[t] # None => temp[names[t]] = t
      /\ exe # None => pc[exe] \notin {"start", "open"} \cup Downloading
  BY DEF IndInv, TypeOK, OwnFile, InPlace
<1> USE <1>t
<1>1. CASE Start(p) \/ OpenTemp(p) \/ OpenFails(p)
  <2>1. pc[p] \in {"start", "open"} /\ UNCHANGED <<exe, execBit, outcome>>
        /\ \A q \in Procs \ {p} : pc'[q] = pc[q]
    BY <1>1 DEF Start, OpenTemp, OpenFails
  <2> QED
    BY <2>1
<1>2. CASE ReceiveChunk(p) \/ EndResponse(p)
  BY <1>2 DEF ReceiveChunk, EndResponse
<1>3. CASE DownloadFails(p)
  BY <1>3 DEF DownloadFails
<1>4. CASE LastWriteFails(p)
  <2>1. pc[p] = "close" /\ UNCHANGED <<exe, execBit>>
        /\ \A q \in Procs \ {p} : pc'[q] = pc[q] /\ outcome'[q] = outcome[q]
    BY <1>4 DEF LastWriteFails
  <2> QED
    BY <2>1
<1>5. CASE CloseStream(p)
  <2>1. CASE exe' = exe
    <3>1. pc[p] = "close" /\ UNCHANGED execBit
          /\ \A q \in Procs \ {p} : pc'[q] = pc[q] /\ outcome'[q] = outcome[q]
      BY <1>5 DEF CloseStream
    <3> QED
      BY <2>1, <3>1
  <2>2. CASE exe' # exe
    <3>1. names[temp[p]] # None /\ exe' = names[temp[p]] /\ pc' = [pc EXCEPT ![p] = "chmod"]
      BY <1>5, <2>2 DEF CloseStream
    <3>2. exe' = p
      BY <1>5, <3>1 DEF CloseStream
    <3> QED
      BY <3>1, <3>2
  <2> QED
    BY <2>1, <2>2
<1>6. CASE Chmod(p)
  BY <1>6 DEF Chmod
<1>7. CASE SpawnFails(p) \/ RunExecutable(p) \/ RunFallback(p)
  <2>1. /\ pc[p] \in {"run", "fallback"} /\ UNCHANGED <<exe, execBit>>
        /\ \A q \in Procs \ {p} : pc'[q] = pc[q] /\ outcome'[q] = outcome[q]
    BY <1>7 DEF SpawnFails, RunExecutable, RunFallback
  <2> QED
    BY <2>1
<1>8. CASE Kill(p)
  BY <1>8 DEF Kill
<1> QED
  BY <1>1, <1>2, <1>3, <1>4, <1>5, <1>6, <1>7, <1>8 DEF Step

\* A binary in place that may not be run is one whose own download has not set its
\* mode yet, was killed before it did, or failed to.
THEOREM PermissionOnlyPending ==
  ASSUME ~SameMillisecond PROVE Spec => []PermissionPending
<1>1. Init => PermissionPending
  BY DEF Init, PermissionPending
<1>2. IndInv /\ PermissionPending /\ [Next]_vars => PermissionPending'
  <2> SUFFICES ASSUME IndInv, PermissionPending, [Next]_vars PROVE PermissionPending'
    OBVIOUS
  <2>1. CASE UNCHANGED vars
    BY <2>1 DEF vars, fileVars, PermissionPending, Threw
  <2> QED
    BY <2>1, PermissionStep DEF Next
<1> QED
  BY InitInd, NextInd, <1>1, <1>2, PTL DEF Spec
------------------------------------------------------------------------------
(* The CLIs that a process starts *)

\* Where no CLI has been started yet.
BeforeRun == {"start", "open", "download", "close", "chmod", "run"}

\* What a process has started, from where it is: nothing before "run"; in front
\* of the fallback nothing, or a binary that a signal ended.
Started(p) ==
  /\ pc[p] \in BeforeRun => ran[p] = <<>>
  /\ pc[p] = "run" => mode[p] # "bootstrap"
  /\ pc[p] = "fallback" =>
       mode[p] # "bootstrap" /\ (ran[p] = <<>> \/ (Len(ran[p]) = 1 /\ outcome[p] = "signal"))
  /\ Len(ran[p]) = 2 => outcome[p] = "signal"
  /\ Len(ran[p]) <= 2
  /\ pc[p] = "done" /\ mode[p] # "bootstrap" /\ ran[p] = <<>> => outcome[p] = "spawnError"

\* It needs nothing of the files, and no assumption about milliseconds.
RunInv ==
  /\ pc \in [Procs -> BeforeRun \cup {"fallback"} \cup Ended]
  /\ mode \in [Procs -> {"wrapper", "bootstrap", "legacy"}]
  /\ ran \in [Procs -> Seq({"binary", "legacy"})]
  /\ outcome \in [Procs -> {"none", "status", "signal", "spawnError", "exception"}]
  /\ \A p \in Procs : Started(p)

\* A step of a process changes nothing of the others' runs.
LEMMA OthersStay ==
  ASSUME RunInv, NEW p \in Procs, Step(p)
  PROVE  /\ mode' = mode
         /\ \E l \in BeforeRun \cup {"fallback"} \cup Ended : pc' = [pc EXCEPT ![p] = l]
         /\ ran' = ran \/ \E x \in {"binary", "legacy"} : ran' = [ran EXCEPT ![p] = Append(@, x)]
         /\ \/ outcome' = outcome
            \/ \E o \in {"status", "signal", "spawnError", "exception"} :
                 outcome' = [outcome EXCEPT ![p] = o]
<1> USE DEF Go, Caught, CleanupAfterError, Unlink, Uncaught, BeforeRun, Ended, procVars, fileVars
<1>0. pc = [pc EXCEPT ![p] = pc[p]] /\ pc[p] \in BeforeRun \cup {"fallback"} \cup Ended
  BY DEF RunInv
<1>1. CASE Start(p) \/ OpenTemp(p) \/ OpenFails(p)
  BY <1>1 DEF Start, OpenTemp, OpenFails
<1>2. CASE ReceiveChunk(p)
  BY <1>0, <1>2 DEF ReceiveChunk
<1>3. CASE DownloadFails(p) \/ EndResponse(p)
  BY <1>3 DEF DownloadFails, EndResponse
<1>4. CASE LastWriteFails(p)
  BY <1>4 DEF LastWriteFails
<1>5. CASE CloseStream(p)
  BY <1>5 DEF CloseStream
<1>6. CASE Chmod(p) \/ SpawnFails(p) \/ Kill(p)
  BY <1>6 DEF Chmod, SpawnFails, Kill
<1>7. CASE RunExecutable(p)
  BY <1>7 DEF RunExecutable
<1>8. CASE RunFallback(p)
  BY <1>8 DEF RunFallback
<1> QED
  BY <1>1, <1>2, <1>3, <1>4, <1>5, <1>6, <1>7, <1>8 DEF Step

\* A CLI that is started makes the sequence longer by one.
LEMMA OneMore ==
  ASSUME RunInv, NEW p \in Procs, NEW x \in {"binary", "legacy"},
         ran' = [ran EXCEPT ![p] = Append(@, x)]
  PROVE  Len(ran'[p]) = Len(ran[p]) + 1 /\ ran'[p] # <<>> /\ Len(ran[p]) \in Nat
<1>1. ran[p] \in Seq({"binary", "legacy"}) /\ ran'[p] = Append(ran[p], x)
  BY DEF RunInv
<1> QED
  BY <1>1

\* Every step keeps what its process has started.
LEMMA StartedStep ==
  ASSUME RunInv, NEW p \in Procs, Step(p)
  PROVE  Started(p)'
<1>t. /\ pc \in [Procs -> BeforeRun \cup {"fallback"} \cup Ended]
      /\ ran[p] \in Seq({"binary", "legacy"})
      /\ outcome \in [Procs -> {"none", "status", "signal", "spawnError", "exception"}]
      /\ Started(p)
      /\ mode' = mode /\ mode[p] \in {"wrapper", "bootstrap", "legacy"}
      /\ Len(<<>>) = 0
  BY OthersStay DEF RunInv
<1> USE <1>t DEF Go, Caught, BeforeRun, Ended, Started
<1>1. CASE Start(p)
  <2>1. /\ pc[p] = "start" /\ UNCHANGED <<ran, outcome>>
        /\ \/ pc'[p] \in {"open", "run"} /\ (pc'[p] = "run" => mode[p] = "wrapper")
           \/ pc'[p] = "fallback" /\ mode[p] # "bootstrap"
           \/ pc'[p] = "done" /\ mode[p] = "bootstrap"
    BY <1>1 DEF Start
  <2> QED
    BY <2>1
<1>2. CASE OpenTemp(p) \/ OpenFails(p) \/ EndResponse(p)
  <2>1. /\ pc[p] \in {"open", "download"} /\ UNCHANGED <<ran, outcome>>
        /\ \/ pc'[p] \in {"download", "close"}
           \/ pc'[p] = Caught(p)
    BY <1>2 DEF OpenTemp, OpenFails, EndResponse
  <2> QED
    BY <2>1
<1>3. CASE ReceiveChunk(p)
  <2>1. UNCHANGED <<pc, ran, outcome>>
    BY <1>3 DEF ReceiveChunk
  <2> QED
    BY <2>1
<1>4. CASE DownloadFails(p)
  <2>1. pc[p] = "download" /\ UNCHANGED <<ran, outcome>> /\ pc'[p] = Caught(p)
    BY <1>4 DEF DownloadFails, CleanupAfterError, Unlink
  <2> QED
    BY <2>1
<1>5. CASE LastWriteFails(p) \/ CloseStream(p)
  <2>1. pc[p] = "close" /\ UNCHANGED ran
    BY <1>5 DEF LastWriteFails, CloseStream
  <2>2. pc'[p] \in {"uncaught", "chmod"} \/ pc'[p] = Caught(p)
    BY <1>5 DEF LastWriteFails, CloseStream, CleanupAfterError, Unlink, Uncaught
  <2>3. ran'[p] = <<>> /\ Len(ran'[p]) = 0
    BY <2>1
  <2>4. mode'[p] = mode[p]
    OBVIOUS
  <2> QED
    BY ONLY <2>2, <2>3, <2>4 DEF Started, Caught, BeforeRun
<1>6. CASE Chmod(p)
  <2>1. /\ pc[p] = "chmod" /\ UNCHANGED ran
        /\ \/ pc'[p] = IF mode[p] = "bootstrap" THEN "done" ELSE "run"
           \/ pc'[p] = "uncaught"
    BY <1>6 DEF Chmod, Uncaught
  <2>2. ran'[p] = <<>> /\ Len(ran'[p]) = 0 /\ mode'[p] = mode[p]
    BY <2>1
  <2> QED
    BY ONLY <2>1, <2>2, <1>t DEF Started, BeforeRun
<1>7. CASE SpawnFails(p)
  <2>1. pc[p] = "run" /\ pc'[p] = "done" /\ UNCHANGED ran /\ outcome'[p] = "spawnError"
    BY <1>7 DEF SpawnFails
  <2>2. Len(ran'[p]) = 0
    BY <2>1
  <2> QED
    BY <2>1, <2>2
<1>8. CASE RunExecutable(p)
  <2>1. /\ pc[p] = "run" /\ ran' = [ran EXCEPT ![p] = Append(@, "binary")]
        /\ \/ pc'[p] = "done"
           \/ pc'[p] = "fallback" /\ outcome'[p] = "signal"
    BY <1>8 DEF RunExecutable
  <2>2. Len(ran[p]) = 0
    BY <2>1
  <2>3. Len(ran'[p]) = Len(ran[p]) + 1 /\ ran'[p] # <<>>
    BY <2>1, OneMore
  <2>4. Len(ran'[p]) = 1
    BY <2>2, <2>3
  <2> QED
    BY <2>1, <2>3, <2>4
<1>9. CASE RunFallback(p)
  <2>1. /\ pc[p] = "fallback" /\ ran' = [ran EXCEPT ![p] = Append(@, "legacy")]
        /\ pc'[p] \in {"done", "uncaught"} /\ outcome' = outcome
    BY <1>9 DEF RunFallback
  <2>2. Len(ran'[p]) = Len(ran[p]) + 1 /\ ran'[p] # <<>>
    BY <2>1, OneMore
  <2> QED
    BY <2>1, <2>2
<1>10. CASE Kill(p)
  <2>1. pc'[p] = "killed" /\ UNCHANGED <<ran, outcome>>
    BY <1>10 DEF Kill
  <2> QED
    BY <2>1
<1> QED
  BY <1>1, <1>2, <1>3, <1>4, <1>5, <1>6, <1>7, <1>8, <1>9, <1>10 DEF Step

\* What the processes have started is inductive.
LEMMA RunInvStep ==
  ASSUME RunInv, [Next]_vars
  PROVE  RunInv'
<1>1. ASSUME NEW p \in Procs, Step(p) PROVE RunInv'
  <2>1. /\ mode' = mode
        /\ \E l \in BeforeRun \cup {"fallback"} \cup Ended : pc' = [pc EXCEPT ![p] = l]
        /\ ran' = ran \/ \E x \in {"binary", "legacy"} : ran' = [ran EXCEPT ![p] = Append(@, x)]
        /\ \/ outcome' = outcome
           \/ \E o \in {"status", "signal", "spawnError", "exception"} :
                outcome' = [outcome EXCEPT ![p] = o]
    BY <1>1, OthersStay
  <2>2. ran' \in [Procs -> Seq({"binary", "legacy"})]
    <3>1. CASE ran' = ran
      BY <3>1 DEF RunInv
    <3>2. ASSUME NEW x \in {"binary", "legacy"}, ran' = [ran EXCEPT ![p] = Append(@, x)]
          PROVE  ran' \in [Procs -> Seq({"binary", "legacy"})]
      <4>1. Append(ran[p], x) \in Seq({"binary", "legacy"})
        BY DEF RunInv
      <4> QED
        BY <3>2, <4>1 DEF RunInv
    <3> QED
      BY <2>1, <3>1, <3>2
  <2>3. /\ pc' \in [Procs -> BeforeRun \cup {"fallback"} \cup Ended]
        /\ mode' \in [Procs -> {"wrapper", "bootstrap", "legacy"}]
        /\ outcome' \in [Procs -> {"none", "status", "signal", "spawnError", "exception"}]
    <3>1. pc' \in [Procs -> BeforeRun \cup {"fallback"} \cup Ended]
      BY ONLY RunInv, <2>1 DEF RunInv
    <3>2. outcome' \in [Procs -> {"none", "status", "signal", "spawnError", "exception"}]
      <4>1. CASE outcome' = outcome
        BY <4>1 DEF RunInv
      <4>2. ASSUME NEW o \in {"status", "signal", "spawnError", "exception"},
                   outcome' = [outcome EXCEPT ![p] = o]
            PROVE  outcome' \in [Procs -> {"none", "status", "signal", "spawnError", "exception"}]
        BY <4>2 DEF RunInv
      <4> QED
        BY <2>1, <4>1, <4>2
    <3> QED
      BY <2>1, <3>1, <3>2 DEF RunInv
  <2>4. ASSUME NEW q \in Procs PROVE Started(q)'
    <3>1. CASE q = p
      BY <1>1, <3>1, StartedStep
    <3>2. CASE q # p
      <4>1. pc'[q] = pc[q] /\ mode'[q] = mode[q] /\ ran'[q] = ran[q] /\ outcome'[q] = outcome[q]
        BY <2>1, <3>2 DEF RunInv
      <4>2. Started(q)
        BY DEF RunInv
      <4> QED
        BY <4>1, <4>2 DEF Started
    <3> QED
      BY <3>1, <3>2
  <2> QED
    BY <2>2, <2>3, <2>4 DEF RunInv
<1>2. CASE UNCHANGED vars
  BY <1>2 DEF vars, procVars, RunInv, Started
<1> QED
  BY <1>1, <1>2 DEF Next

\* Whatever happens to the binary, to its download and to the other processes, a
\* user's command is given to one CLI, and to a second one only when a signal
\* has ended the first.
THEOREM OneCli == Spec => []OneCliPerCommand
<1>1. Init => RunInv
  BY DEF Init, RunInv, Started, BeforeRun, Ended
<1>2. RunInv /\ [Next]_vars => RunInv'
  BY RunInvStep
<1>3. RunInv => OneCliPerCommand
  BY DEF RunInv, Started, OneCliPerCommand
<1> QED
  BY <1>1, <1>2, <1>3, PTL DEF Spec
------------------------------------------------------------------------------
(* The wrapper implements InstallPromise *)

\* What is known of a process whose fate is open, or open again after a signal;
\* and a process only tries to run what is there.
Pending(p) ==
  /\ pc[p] \in BeforeRun => outcome[p] = "none"
  /\ pc[p] = "run" => exe # None
  /\ pc[p] = "fallback" => \/ ran[p] = <<>> /\ outcome[p] = "none"
                           \/ ran[p] = <<"binary">> /\ outcome[p] = "signal"

PromiseInv == IndInv /\ RunInv /\ \A p \in Procs : Pending(p)

Fates == [p \in Procs |-> Fate(p)]
Users == {p \in Procs : mode[p] # "bootstrap"}

\* The ways in which a step of a process changes its fate.
Quiet(p) ==
  /\ pc[p] \in BeforeRun /\ pc'[p] \in BeforeRun \cup {"fallback"}
  /\ UNCHANGED <<ran, outcome>>
  /\ exe # None => exe' # None
  /\ pc'[p] = "run" => exe' # None
Installs(p) ==
  /\ pc[p] \in BeforeRun /\ pc'[p] = "done" /\ mode[p] = "bootstrap"
  /\ UNCHANGED <<exe, ran, outcome>>
Throws(p) ==
  /\ pc[p] \in {"close", "chmod"} /\ pc'[p] = "uncaught" /\ outcome'[p] = "exception"
  /\ UNCHANGED <<exe, ran>>

\* A step is quiet, or it settles something, or it is one of four actions.
LEMMA Effects ==
  ASSUME PromiseInv, NEW p \in Procs, Step(p)
  PROVE  \/ Quiet(p) \/ Installs(p) \/ Throws(p)
         \/ SpawnFails(p) \/ RunExecutable(p) \/ RunFallback(p) \/ Kill(p)
<1>t. /\ pc \in [Procs -> BeforeRun \cup {"fallback"} \cup Ended]
      /\ mode[p] \in {"wrapper", "bootstrap", "legacy"}
      /\ outcome \in [Procs -> {"none", "status", "signal", "spawnError", "exception"}]
      /\ pc[p] = "chmod" => exe # None
  BY DEF PromiseInv, RunInv, IndInv, InPlace
<1> USE <1>t DEF Go, Caught, CleanupAfterError, Unlink, Uncaught, BeforeRun, Ended, procVars, fileVars,
               Quiet, Installs, Throws
<1>1. CASE Start(p)
  BY <1>1 DEF Start
<1>2. CASE OpenTemp(p)
  BY <1>2 DEF OpenTemp
<1>3. CASE OpenFails(p)
  BY <1>3 DEF OpenFails
<1>4. CASE ReceiveChunk(p)
  BY <1>4 DEF ReceiveChunk
<1>5. CASE DownloadFails(p)
  BY <1>5 DEF DownloadFails
<1>6. CASE EndResponse(p)
  BY <1>6 DEF EndResponse
<1>7. CASE LastWriteFails(p)
  BY <1>7 DEF LastWriteFails
<1>8. CASE CloseStream(p)
  BY <1>8 DEF CloseStream
<1>9. CASE Chmod(p)
  BY <1>9 DEF Chmod
<1> QED
  BY <1>1, <1>2, <1>3, <1>4, <1>5, <1>6, <1>7, <1>8, <1>9 DEF Step

\* The fates of the other processes stay, and the commands are whose they were.
LEMMA OthersFates ==
  ASSUME PromiseInv, NEW p \in Procs, Step(p)
  PROVE  /\ Fates' = [Fates EXCEPT ![p] = Fate(p)']
         /\ Users' = Users
<1>1. /\ mode' = mode
      /\ \E l \in BeforeRun \cup {"fallback"} \cup Ended : pc' = [pc EXCEPT ![p] = l]
      /\ ran' = ran \/ \E x \in {"binary", "legacy"} : ran' = [ran EXCEPT ![p] = Append(@, x)]
      /\ \/ outcome' = outcome
         \/ \E o \in {"status", "signal", "spawnError", "exception"} :
              outcome' = [outcome EXCEPT ![p] = o]
  BY OthersStay DEF PromiseInv
<1>2. ASSUME NEW q \in Procs, q # p PROVE Fate(q)' = Fate(q)
  <2>1. pc'[q] = pc[q] /\ ran'[q] = ran[q] /\ outcome'[q] = outcome[q]
    BY <1>1, <1>2 DEF PromiseInv, RunInv
  <2> QED
    BY <2>1 DEF Fate
<1>3. Users' = Users
  BY <1>1 DEF Users
<1> QED
  BY <1>2, <1>3 DEF Fates

\* A name that leads to a whole file leads to a whole file: nobody sees a
\* replacement.
LEMMA BinaryIs ==
  ASSUME InPlace
  PROVE  Binary = IF exe = None THEN "absent" ELSE "whole"
BY DEF InPlace, Binary

\* What is known of the pending processes stays true.
LEMMA PendingStep ==
  ASSUME PromiseInv, RunInv', NEW p \in Procs, Step(p), NEW q \in Procs
  PROVE  Pending(q)'
<1>t. Pending(p) /\ Pending(q) /\ RunInv
  BY DEF PromiseInv
<1>0. exe # None => exe' # None
  BY Effects DEF Quiet, Installs, Throws, SpawnFails, RunExecutable, RunFallback, Kill, fileVars
<1>1. CASE q # p
  <2>1. /\ \E l \in BeforeRun \cup {"fallback"} \cup Ended : pc' = [pc EXCEPT ![p] = l]
        /\ ran' = ran \/ \E x \in {"binary", "legacy"} : ran' = [ran EXCEPT ![p] = Append(@, x)]
        /\ \/ outcome' = outcome
           \/ \E o \in {"status", "signal", "spawnError", "exception"} :
                outcome' = [outcome EXCEPT ![p] = o]
    BY <1>t, OthersStay
  <2>2. pc'[q] = pc[q] /\ ran'[q] = ran[q] /\ outcome'[q] = outcome[q]
    BY <1>t, <1>1, <2>1 DEF RunInv
  <2> QED
    BY <1>t, <1>0, <2>2 DEF Pending
<1>2. CASE q = p
  <2> USE <1>t, <1>2 DEF Pending, RunInv, Started, BeforeRun, Ended, Go
  <2>1. CASE Quiet(p)
    BY ONLY <1>t, <1>2, <2>1 DEF Quiet, Pending, RunInv, Started, BeforeRun
  <2>2. CASE Installs(p) \/ Throws(p)
    BY <2>2 DEF Installs, Throws
  <2>3. CASE SpawnFails(p) \/ Kill(p)
    BY <2>3 DEF SpawnFails, Kill
  <2>4. CASE RunExecutable(p)
    <3>1. ran[p] = <<>> /\ ran'[p] = Append(ran[p], "binary")
      BY ONLY <1>t, <2>4 DEF RunExecutable, RunInv, Started, Go, BeforeRun
    <3>2. ran'[p] = <<"binary">>
      BY <3>1
    <3> QED
      BY <2>4, <3>2 DEF RunExecutable
  <2>5. CASE RunFallback(p)
    BY <2>5 DEF RunFallback
  <2> QED
    BY <2>1, <2>2, <2>3, <2>4, <2>5, Effects
<1> QED
  BY <1>1, <1>2

\* A step of a process is a step of the promise, or none of its business.
LEMMA StepKeeps ==
  ASSUME PromiseInv, InPlace', RunInv', NEW p \in Procs, Step(p)
  PROVE  [Promise!Next]_(Promise!vars)
<1>t. /\ Pending(p) /\ Started(p)
      /\ pc \in [Procs -> BeforeRun \cup {"fallback"} \cup Ended]
      /\ pc' \in [Procs -> BeforeRun \cup {"fallback"} \cup Ended]
      /\ outcome \in [Procs -> {"none", "status", "signal", "spawnError", "exception"}]
      /\ outcome' \in [Procs -> {"none", "status", "signal", "spawnError", "exception"}]
      /\ ran \in [Procs -> Seq({"binary", "legacy"})]
      /\ mode[p] \in {"wrapper", "bootstrap", "legacy"}
  BY DEF PromiseInv, RunInv
<1>1. /\ Fates' = [Fates EXCEPT ![p] = Fate(p)']
      /\ Users' = Users
      /\ Fates[p] = Fate(p)
      /\ p \in Users <=> mode[p] # "bootstrap"
  BY OthersFates DEF Fates, Users
<1>2. /\ Binary = IF exe = None THEN "absent" ELSE "whole"
      /\ Binary' = IF exe' = None THEN "absent" ELSE "whole"
  BY BinaryIs DEF PromiseInv, IndInv, InPlace, Binary
<1> USE DEF Promise!Next, Promise!vars, Fates, Users
<1>3. CASE Quiet(p)
  <2>1. Fate(p) = "open" /\ Fate(p)' = "open"
    BY <1>t, <1>3 DEF Quiet, Pending, Started, Fate, BeforeRun, Ended
  <2>2. Fates' = Fates
    BY <1>1, <2>1 DEF Fates
  <2>3. CASE Binary' = Binary
    BY <1>1, <1>3, <2>2, <2>3 DEF Quiet
  <2>4. CASE Binary' # Binary
    BY <1>1, <1>2, <1>3, <2>2, <2>4 DEF Quiet, Promise!Install
  <2> QED
    BY <2>3, <2>4
<1>4. CASE Installs(p) \/ Throws(p) \/ SpawnFails(p)
  <2>1. Fate(p) = "open"
    BY <1>t, <1>4 DEF Installs, Throws, SpawnFails, Go, Pending, Started, Fate, BeforeRun, Ended
  <2>2. /\ UNCHANGED <<exe, ran>>
        /\ \/ mode[p] = "bootstrap" /\ Fate(p)' = "installed"
           \/ Fate(p)' = "exception"
           \/ exe # None /\ mode[p] # "bootstrap" /\ Fate(p)' = "spawnError"
    BY <1>t, <1>4 DEF Installs, Throws, SpawnFails, fileVars, Go, Pending, Started, Fate, BeforeRun, Ended
  <2>3. Binary' = Binary
    BY <1>2, <2>2
  <2> QED
    BY <1>1, <1>2, <2>1, <2>2, <2>3 DEF Promise!End, Promise!Settle
<1>5. CASE RunExecutable(p)
  <2>1. /\ pc[p] = "run" /\ ran[p] = <<>> /\ outcome[p] = "none"
        /\ exe # None /\ exe' = exe /\ mode[p] # "bootstrap"
        /\ ran' = [ran EXCEPT ![p] = Append(@, "binary")]
        /\ pc'[p] \in {"done", "fallback"} /\ outcome'[p] \in {"status", "signal"}
    BY <1>t, <1>5 DEF RunExecutable, fileVars, Go, Pending, Started, BeforeRun
  <2>2. Fate(p) = "open"
    BY <2>1 DEF Fate, Ended
  <2>3. ran'[p] = <<"binary">>
    BY <1>t, <2>1
  <2>4. Fate(p)' \in {"status", "signal"}
    BY <2>1, <2>3 DEF Fate
  <2>5. Binary = "whole" /\ Binary' = "whole"
    BY <1>2, <2>1
  <2> QED
    BY <1>1, <2>1, <2>2, <2>4, <2>5 DEF Promise!RunBinary, Promise!Settle
<1>6. CASE RunFallback(p)
  <2>1. /\ pc[p] = "fallback" /\ pc'[p] \in {"done", "uncaught"}
        /\ exe' = exe /\ mode[p] # "bootstrap"
        /\ ran' = [ran EXCEPT ![p] = Append(@, "legacy")]
    BY <1>t, <1>6 DEF RunFallback, fileVars, Go, Started
  <2>2. Fate(p) \in {"open", "signal"}
    <3>1. CASE ran[p] = <<>> /\ outcome[p] = "none"
      BY <2>1, <3>1 DEF Fate, Ended
    <3>2. CASE ran[p] = <<"binary">> /\ outcome[p] = "signal"
      BY <2>1, <3>2 DEF Fate, Ended
    <3> QED
      BY <1>t, <2>1, <3>1, <3>2 DEF Pending
  <2>3. ran'[p] # <<>> /\ ran'[p][Len(ran'[p])] = "legacy"
    <3>1. ran[p] \in Seq({"binary", "legacy"}) /\ ran'[p] = Append(ran[p], "legacy")
      BY <1>t, <2>1
    <3> QED
      BY <3>1
  <2>4. Fate(p)' = "legacy"
    BY <2>1, <2>3 DEF Fate
  <2>5. Binary' = Binary
    BY <1>2, <2>1
  <2> QED
    BY <1>1, <2>1, <2>2, <2>4, <2>5 DEF Promise!RunLegacy, Promise!Settle
<1>7. CASE Kill(p)
  <2>1. /\ pc[p] \in BeforeRun \cup {"fallback"} /\ pc'[p] = "killed"
        /\ UNCHANGED <<exe, ran, outcome>>
    BY <1>t, <1>7 DEF Kill, fileVars, Ended
  <2>2. Fate(p) \in {"open", "signal"}
    <3>1. CASE ran[p] = <<>> /\ outcome[p] = "none"
      BY <2>1, <3>1 DEF Fate, BeforeRun, Ended
    <3>2. CASE pc[p] = "fallback" /\ ran[p] = <<"binary">> /\ outcome[p] = "signal"
      BY <2>1, <3>2 DEF Fate, Ended
    <3> QED
      BY <1>t, <2>1, <3>1, <3>2 DEF Pending, Started
  <2>3. Fate(p)' = "killed"
    BY <2>1 DEF Fate
  <2>4. Binary' = Binary
    BY <1>2, <2>1
  <2> QED
    BY <1>1, <2>1, <2>2, <2>3, <2>4 DEF Promise!End, Promise!Settle
<1> QED
  BY <1>3, <1>4, <1>5, <1>6, <1>7, Effects

\* The wrapper implements InstallPromise: in whatever way installs and commands
\* are interleaved, fail or are killed, the binary comes into place whole, and a
\* user's command is given to one CLI, or to none or two for the reasons stated.
THEOREM PromiseKept ==
  ASSUME ~SameMillisecond PROVE Spec => KeepsInstallPromise
<1>1. Init => PromiseInv /\ Promise!Init
  <2> SUFFICES ASSUME Init PROVE PromiseInv /\ Promise!Init
    OBVIOUS
  <2>1. IndInv
    BY InitInd
  <2>2. RunInv /\ \A p \in Procs : Pending(p) /\ Fate(p) = "open"
    BY DEF Init, RunInv, Started, Pending, Fate, BeforeRun, Ended
  <2>3. Promise!Init
    BY <2>2 DEF Init, Promise!Init, Binary
  <2> QED
    BY <2>1, <2>2, <2>3 DEF PromiseInv
<1>2. PromiseInv /\ [Next]_vars => PromiseInv' /\ [Promise!Next]_(Promise!vars)
  <2> SUFFICES ASSUME PromiseInv, [Next]_vars
               PROVE  PromiseInv' /\ [Promise!Next]_(Promise!vars)
    OBVIOUS
  <2>1. IndInv' /\ RunInv' /\ InPlace'
    BY NextInd, RunInvStep DEF PromiseInv, IndInv
  <2>2. ASSUME NEW p \in Procs, Step(p)
        PROVE  PromiseInv' /\ [Promise!Next]_(Promise!vars)
    BY <2>1, <2>2, PendingStep, StepKeeps DEF PromiseInv
  <2>3. CASE UNCHANGED vars
    <3>1. UNCHANGED <<pc, mode, exe, content, ran, outcome>>
      BY <2>3 DEF vars, procVars, fileVars
    <3>2. \A p \in Procs : Pending(p)' /\ Fate(p)' = Fate(p)
      BY <3>1 DEF PromiseInv, Pending, Fate
    <3> QED
      BY <2>1, <3>1, <3>2 DEF PromiseInv, Promise!vars, Binary
  <2> QED
    BY <2>2, <2>3 DEF Next
<1> QED
  BY <1>1, <1>2, PTL DEF Spec, KeepsInstallPromise, Promise!Spec
==============================================================================
