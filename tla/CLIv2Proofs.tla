---------------------------- MODULE CLIv2Proofs ------------------------------
(***************************************************************************)
(* Proofs about the Go CLI.  First CLIv2Init, the cache that its runs      *)
(* share, for every set of processes and versions, every assignment of     *)
(* versions to processes and every set of inodes; then CLIv2Main, one run  *)
(* of it, for every set of exit codes of the legacy CLI.                   *)
(***************************************************************************)
EXTENDS CLIv2Init, CLIv2Main, TLAPS

\* No second process of version v got into Init and nobody cleared v.
Clean(v) == disturbed[v] = {}

\* p is inside Init, or past it, and has seen the binary whole.
Relies(p) == \/ pc[p] \in AfterInit
             \/ pc[p] \in {"unlock", "remove"} /\ initOk[p]

\* Init has not decided yet that it will return nil.
Undecided == {"start", "locking", "dirs", "list", "clear", "validate",
              "extract", "write", "revalidate"}

\* What the lock guarantees: a process inside Init holds the lock of the
\* inode it has open.
LockInv ==
  /\ \A p \in Procs : pc[p] \in Critical \cup {"locking"} => fd[p] \in Inodes
  /\ \A p \in Procs : pc[p] \in Critical => holder[fd[p]] = p

\* ClearCache never has its own version on its list.
ClearInv == \A p \in Procs : V(p) \notin todo[p]

\* Why the binary of an undisturbed version is whole for those who rely on it:
\* whoever is about to write it is alone inside Init and nobody relies on it.
ImageInv ==
  /\ \A p \in Procs : pc[p] \in Undecided => ~initOk[p]
  /\ \A p \in Procs : Clean(V(p)) /\ Relies(p) => image[V(p)] = "whole"
  /\ \A p, q \in Procs :
       p # q /\ SameVersion(p, q) /\ Clean(V(p))
         => ~(pc[p] \in Critical /\ pc[q] \in Critical)
  /\ \A p, q \in Procs :
       p # q /\ SameVersion(p, q) /\ Clean(V(p))
         => ~(pc[p] \in {"extract", "write", "revalidate"} /\ Relies(q))

IndInv == TypeOK /\ LockInv /\ ClearInv /\ CertTrusted /\ NoCertLeak /\ ImageInv

\* Every step of a process preserves the types.
LEMMA TypeStep ==
  ASSUME TypeOK, NEW p \in Procs, Step(p)
  PROVE  TypeOK'
<1> USE VersionAssumption, NoneAssumption, MaxAssumption
    DEF TypeOK, Go, V, vars, procVars, lockVars, dirVars, Locations, Critical, AfterInit, WithCert, Clearing, Active, SameVersion
<1>2. CASE Begin(p)
  <2>1. disturbed' \in {disturbed, [disturbed EXCEPT ![V(p)] = {}]}
    BY ONLY <1>2 DEF Begin
  <2>2. disturbed' \in [Versions -> SUBSET {"overlap", "cleared"}]
    BY <2>1
  <2>3. pc' \in [Procs -> Locations] /\ initOk' \in [Procs -> BOOLEAN]
    BY <1>2 DEF Begin
  <2>4. UNCHANGED <<lockVars, todo, attempts, dirVars>>
    BY ONLY <1>2 DEF Begin
  <2> QED
    BY <2>2, <2>3, <2>4
<1>3. CASE OpenLock(p)
  <2>1. CASE lockFile[V(p)] # None
    BY <1>3, <2>1 DEF OpenLock
  <2>2. CASE lockFile[V(p)] = None
    <3>1. PICK i \in Inodes : /\ fd' = [fd EXCEPT ![p] = i]
                             /\ lockFile' = [lockFile EXCEPT ![V(p)] = i]
      BY <1>3, <2>2 DEF OpenLock
    <3> QED
      BY <1>3, <3>1 DEF OpenLock
  <2> QED
    BY <2>1, <2>2
<1>4. CASE AcquireLock(p)
    BY <1>4 DEF AcquireLock
<1>5. CASE LockFails(p)
    BY <1>5 DEF LockFails
<1>6. CASE Unlock(p)
    BY <1>6 DEF Unlock
<1>7. CASE RemoveLockFile(p)
    BY <1>7 DEF RemoveLockFile
<1>8. CASE CreateAllDirectories(p)
  <2>1. CASE Go(p, "dirs", "list") /\ tmp' = [tmp EXCEPT ![V(p)] = TRUE]
    BY <1>8, <2>1 DEF CreateAllDirectories
  <2>2. CASE Go(p, "dirs", "unlock") /\ UNCHANGED tmp
    BY <1>8, <2>2 DEF CreateAllDirectories
  <2> QED
    BY <1>8, <2>1, <2>2 DEF CreateAllDirectories
<1>9. CASE ReadCache(p)
    BY <1>9 DEF ReadCache
<1>10. CASE EntryDone(p)
    BY <1>10 DEF EntryDone
<1>11. CASE ClearDone(p)
    BY <1>11 DEF ClearDone
<1>12. CASE Validate(p)
  <2>1. ValidateFile(p) \in BOOLEAN
    BY DEF ValidateFile
  <2>2. pc' \in [Procs -> Locations]
    BY <1>12 DEF Validate
  <2>3. initOk' \in [Procs -> BOOLEAN]
    BY <1>12, <2>1 DEF Validate
  <2> QED
    BY <1>12, <2>2, <2>3 DEF Validate
<1>13. CASE ExtractTo(p)
    BY <1>13 DEF ExtractTo
<1>14. CASE WriteImage(p)
    BY <1>14 DEF WriteImage
<1>15. CASE Revalidate(p)
  <2>1. ValidateFile(p) \in BOOLEAN
    BY DEF ValidateFile
  <2>2. pc' \in [Procs -> Locations]
    BY <1>15 DEF Revalidate
  <2>3. initOk' \in [Procs -> BOOLEAN]
    BY <1>15, <2>1 DEF Revalidate
  <2> QED
    BY <1>15, <2>2, <2>3 DEF Revalidate
<1>16. CASE ProxyDirectories(p)
    BY <1>16 DEF ProxyDirectories
<1>17. CASE CreateCert(p)
    BY <1>17 DEF CreateCert
<1>18. CASE WriteCert(p)
    BY <1>18 DEF WriteCert
<1>19. CASE Execute(p)
    BY <1>19 DEF Execute
<1>20. CASE ChildExits(p)
    BY <1>20 DEF ChildExits
<1>21. CASE Close(p)
  <2>1. certs' \in [Versions -> SUBSET Procs]
    <3>1. certs' \in {certs, [certs EXCEPT ![V(p)] = @ \ {p}]}
      BY ONLY <1>21 DEF Close
    <3> QED
      BY <3>1
  <2>2. PICK to \in {"idle", "aborted"} : pc' = [pc EXCEPT ![p] = to]
    BY <1>21 DEF Close
  <2>3. UNCHANGED <<initOk, lockVars, todo, attempts, tmp, image, writer, disturbed>>
    BY ONLY <1>21 DEF Close
  <2> QED
    BY <2>1, <2>2, <2>3
<1>22. CASE \E v \in Versions : RemoveEntry(p, v)
  <2>1. PICK v \in Versions : RemoveEntry(p, v)
    BY <1>22
  <2>2. disturbed' \in [Versions -> SUBSET {"overlap", "cleared"}]
    BY <2>1 DEF RemoveEntry
  <2>3. /\ image' \in [Versions -> {"absent", "partial", "whole"}]
        /\ writer' \in [Versions -> Procs \cup {None}]
    BY <2>1 DEF RemoveEntry
  <2>4. tmp' \in [Versions -> BOOLEAN]
    BY <2>1 DEF RemoveEntry
  <2>5. certs' \in [Versions -> SUBSET Procs]
    <3>1. certs' = certs \/ \E q \in certs[v] : certs' = [certs EXCEPT ![v] = @ \ {q}]
      BY <2>1 DEF RemoveEntry
    <3> QED
      BY <3>1
  <2> QED
    BY <2>1, <2>2, <2>3, <2>4, <2>5 DEF RemoveEntry
<1>23. CASE Crash(p)
    BY <1>23 DEF Crash
<1> QED
    BY <1>2, <1>3, <1>4, <1>5, <1>6, <1>7, <1>8, <1>9, <1>10, <1>11, <1>12, <1>13, <1>14, <1>15, <1>16, <1>17, <1>18, <1>19, <1>20, <1>21, <1>22, <1>23 DEF Step, Progress

\* The lock invariant is inductive.
LEMMA LockStep ==
  ASSUME TypeOK, LockInv, NEW p \in Procs, Step(p)
  PROVE  LockInv'
<1> USE VersionAssumption, NoneAssumption, MaxAssumption
    DEF TypeOK, Go, V, procVars, lockVars, dirVars, Critical, AfterInit, WithCert, Clearing, LockInv
<1> SUFFICES ASSUME NEW q \in Procs
      PROVE  /\ pc'[q] \in Critical \cup {"locking"} => fd'[q] \in Inodes
             /\ pc'[q] \in Critical => holder'[fd'[q]] = q
    OBVIOUS
<1>2. CASE Begin(p)
    BY <1>2 DEF Begin
<1>3. CASE OpenLock(p)
    BY <1>3 DEF OpenLock
<1>4. CASE AcquireLock(p)
    BY <1>4 DEF AcquireLock
<1>5. CASE LockFails(p)
    BY <1>5 DEF LockFails
<1>6. CASE Unlock(p)
    BY <1>6 DEF Unlock
<1>7. CASE RemoveLockFile(p)
    BY <1>7 DEF RemoveLockFile
<1>8. CASE CreateAllDirectories(p)
    BY <1>8 DEF CreateAllDirectories
<1>9. CASE ReadCache(p)
    BY <1>9 DEF ReadCache
<1>10. CASE EntryDone(p)
    BY <1>10 DEF EntryDone
<1>11. CASE ClearDone(p)
    BY <1>11 DEF ClearDone
<1>12. CASE Validate(p)
    BY <1>12 DEF Validate
<1>13. CASE ExtractTo(p)
    BY <1>13 DEF ExtractTo
<1>14. CASE WriteImage(p)
    BY <1>14 DEF WriteImage
<1>15. CASE Revalidate(p)
    BY <1>15 DEF Revalidate
<1>16. CASE ProxyDirectories(p)
    BY <1>16 DEF ProxyDirectories
<1>17. CASE CreateCert(p)
    BY <1>17 DEF CreateCert
<1>18. CASE WriteCert(p)
    BY <1>18 DEF WriteCert
<1>19. CASE Execute(p)
    BY <1>19 DEF Execute
<1>20. CASE ChildExits(p)
    BY <1>20 DEF ChildExits
<1>21. CASE Close(p)
  <2>1. CASE certs' = [certs EXCEPT ![V(p)] = @ \ {p}]
    BY <1>21, <2>1 DEF Close
  <2>2. CASE UNCHANGED certs
    BY <1>21, <2>2 DEF Close
  <2> QED
    BY <1>21, <2>1, <2>2 DEF Close
<1>22. CASE \E v \in Versions : RemoveEntry(p, v)
    BY <1>22 DEF RemoveEntry, Current
<1>23. CASE Crash(p)
    BY <1>23 DEF Crash
<1> QED
    BY <1>2, <1>3, <1>4, <1>5, <1>6, <1>7, <1>8, <1>9, <1>10, <1>11, <1>12, <1>13, <1>14, <1>15, <1>16, <1>17, <1>18, <1>19, <1>20, <1>21, <1>22, <1>23 DEF Step, Progress

\* A process never lists its own version.
LEMMA ClearStep ==
  ASSUME TypeOK, ClearInv, NEW p \in Procs, Step(p)
  PROVE  ClearInv'
<1> USE VersionAssumption, NoneAssumption, MaxAssumption
    DEF TypeOK, Go, V, procVars, lockVars, dirVars, Critical, AfterInit, WithCert, Clearing, ClearInv

<1>2. CASE Begin(p)
    BY <1>2 DEF Begin
<1>3. CASE OpenLock(p)
    BY <1>3 DEF OpenLock
<1>4. CASE AcquireLock(p)
    BY <1>4 DEF AcquireLock
<1>5. CASE LockFails(p)
    BY <1>5 DEF LockFails
<1>6. CASE Unlock(p)
    BY <1>6 DEF Unlock
<1>7. CASE RemoveLockFile(p)
    BY <1>7 DEF RemoveLockFile
<1>8. CASE CreateAllDirectories(p)
    BY <1>8 DEF CreateAllDirectories
<1>9. CASE ReadCache(p)
    BY <1>9 DEF ReadCache
<1>10. CASE EntryDone(p)
    BY <1>10 DEF EntryDone
<1>11. CASE ClearDone(p)
    BY <1>11 DEF ClearDone
<1>12. CASE Validate(p)
    BY <1>12 DEF Validate
<1>13. CASE ExtractTo(p)
    BY <1>13 DEF ExtractTo
<1>14. CASE WriteImage(p)
    BY <1>14 DEF WriteImage
<1>15. CASE Revalidate(p)
    BY <1>15 DEF Revalidate
<1>16. CASE ProxyDirectories(p)
    BY <1>16 DEF ProxyDirectories
<1>17. CASE CreateCert(p)
    BY <1>17 DEF CreateCert
<1>18. CASE WriteCert(p)
    BY <1>18 DEF WriteCert
<1>19. CASE Execute(p)
    BY <1>19 DEF Execute
<1>20. CASE ChildExits(p)
    BY <1>20 DEF ChildExits
<1>21. CASE Close(p)
  <2>1. CASE certs' = [certs EXCEPT ![V(p)] = @ \ {p}]
    BY <1>21, <2>1 DEF Close
  <2>2. CASE UNCHANGED certs
    BY <1>21, <2>2 DEF Close
  <2> QED
    BY <1>21, <2>1, <2>2 DEF Close
<1>22. CASE \E v \in Versions : RemoveEntry(p, v)
    BY <1>22 DEF RemoveEntry, Current
<1>23. CASE Crash(p)
    BY <1>23 DEF Crash
<1> QED
    BY <1>2, <1>3, <1>4, <1>5, <1>6, <1>7, <1>8, <1>9, <1>10, <1>11, <1>12, <1>13, <1>14, <1>15, <1>16, <1>17, <1>18, <1>19, <1>20, <1>21, <1>22, <1>23 DEF Step, Progress

\* Only ClearCache of another version takes a certificate away early.
LEMMA CertStep ==
  ASSUME TypeOK, ClearInv, CertTrusted, NEW p \in Procs, Step(p)
  PROVE  CertTrusted'
<1> USE VersionAssumption, NoneAssumption, MaxAssumption
    DEF TypeOK, Go, V, procVars, lockVars, dirVars, Critical, AfterInit, WithCert, Clearing, ClearInv, CertTrusted, SameVersion, Active
<1> SUFFICES ASSUME NEW q \in Procs, pc'[q] \in WithCert,
                      "cleared" \notin disturbed'[V(q)]
               PROVE  q \in certs'[V(q)]
    OBVIOUS
<1>2. CASE Begin(p)
    BY <1>2 DEF Begin
<1>3. CASE OpenLock(p)
    BY <1>3 DEF OpenLock
<1>4. CASE AcquireLock(p)
    BY <1>4 DEF AcquireLock
<1>5. CASE LockFails(p)
    BY <1>5 DEF LockFails
<1>6. CASE Unlock(p)
    BY <1>6 DEF Unlock
<1>7. CASE RemoveLockFile(p)
    BY <1>7 DEF RemoveLockFile
<1>8. CASE CreateAllDirectories(p)
    BY <1>8 DEF CreateAllDirectories
<1>9. CASE ReadCache(p)
    BY <1>9 DEF ReadCache
<1>10. CASE EntryDone(p)
    BY <1>10 DEF EntryDone
<1>11. CASE ClearDone(p)
    BY <1>11 DEF ClearDone
<1>12. CASE Validate(p)
    BY <1>12 DEF Validate
<1>13. CASE ExtractTo(p)
    BY <1>13 DEF ExtractTo
<1>14. CASE WriteImage(p)
    BY <1>14 DEF WriteImage
<1>15. CASE Revalidate(p)
    BY <1>15 DEF Revalidate
<1>16. CASE ProxyDirectories(p)
    BY <1>16 DEF ProxyDirectories
<1>17. CASE CreateCert(p)
  <2>1. CASE certs' = [certs EXCEPT ![V(p)] = @ \cup {p}]
    BY <1>17, <2>1 DEF CreateCert
  <2>2. CASE UNCHANGED certs
    BY <1>17, <2>2 DEF CreateCert
  <2> QED
    BY <1>17, <2>1, <2>2 DEF CreateCert
<1>18. CASE WriteCert(p)
  <2>1. CASE certs' = [certs EXCEPT ![V(p)] = @ \cup {p}]
    BY <1>18, <2>1 DEF WriteCert
  <2>2. CASE UNCHANGED certs
    BY <1>18, <2>2 DEF WriteCert
  <2> QED
    BY <1>18, <2>1, <2>2 DEF WriteCert
<1>19. CASE Execute(p)
    BY <1>19 DEF Execute
<1>20. CASE ChildExits(p)
    BY <1>20 DEF ChildExits
<1>21. CASE Close(p)
  <2>1. CASE certs' = [certs EXCEPT ![V(p)] = @ \ {p}]
    BY <1>21, <2>1 DEF Close
  <2>2. CASE UNCHANGED certs
    BY <1>21, <2>2 DEF Close
  <2> QED
    BY <1>21, <2>1, <2>2 DEF Close
<1>22. CASE \E v \in Versions : RemoveEntry(p, v)
  <2>1. PICK w \in Versions : RemoveEntry(p, w)
    BY <1>22
  <2>2. w # V(p) /\ w # V(q)
    BY <2>1 DEF RemoveEntry, Current
  <2>3. certs'[V(q)] = certs[V(q)]
    <3>1. certs' = certs \/ \E r \in certs[w] : certs' = [certs EXCEPT ![w] = @ \ {r}]
      BY <2>1 DEF RemoveEntry
    <3> QED
      BY <2>2, <3>1
  <2> QED
    BY <2>1, <2>2, <2>3 DEF RemoveEntry
<1>23. CASE Crash(p)
    BY <1>23 DEF Crash
<1> QED
    BY <1>2, <1>3, <1>4, <1>5, <1>6, <1>7, <1>8, <1>9, <1>10, <1>11, <1>12, <1>13, <1>14, <1>15, <1>16, <1>17, <1>18, <1>19, <1>20, <1>21, <1>22, <1>23 DEF Step, Progress

\* A certificate belongs to a process that will delete it or cannot.
LEMMA LeakStep ==
  ASSUME TypeOK, NoCertLeak, NEW p \in Procs, Step(p)
  PROVE  NoCertLeak'
<1> USE VersionAssumption, NoneAssumption, MaxAssumption
    DEF TypeOK, Go, V, procVars, lockVars, dirVars, Critical, AfterInit, WithCert, Clearing, NoCertLeak, Active
<1> SUFFICES ASSUME NEW v \in Versions, NEW q \in Procs, q \in certs'[v]
               PROVE  V(q) = v /\ pc'[q] \in WithCert \cup {"crashed", "aborted"}
    BY TypeStep
<1>2. CASE Begin(p)
    BY <1>2 DEF Begin
<1>3. CASE OpenLock(p)
    BY <1>3 DEF OpenLock
<1>4. CASE AcquireLock(p)
    BY <1>4 DEF AcquireLock
<1>5. CASE LockFails(p)
    BY <1>5 DEF LockFails
<1>6. CASE Unlock(p)
    BY <1>6 DEF Unlock
<1>7. CASE RemoveLockFile(p)
    BY <1>7 DEF RemoveLockFile
<1>8. CASE CreateAllDirectories(p)
    BY <1>8 DEF CreateAllDirectories
<1>9. CASE ReadCache(p)
    BY <1>9 DEF ReadCache
<1>10. CASE EntryDone(p)
    BY <1>10 DEF EntryDone
<1>11. CASE ClearDone(p)
    BY <1>11 DEF ClearDone
<1>12. CASE Validate(p)
    BY <1>12 DEF Validate
<1>13. CASE ExtractTo(p)
    BY <1>13 DEF ExtractTo
<1>14. CASE WriteImage(p)
    BY <1>14 DEF WriteImage
<1>15. CASE Revalidate(p)
    BY <1>15 DEF Revalidate
<1>16. CASE ProxyDirectories(p)
    BY <1>16 DEF ProxyDirectories
<1>17. CASE CreateCert(p)
    BY <1>17 DEF CreateCert
<1>18. CASE WriteCert(p)
    BY <1>18 DEF WriteCert
<1>19. CASE Execute(p)
    BY <1>19 DEF Execute
<1>20. CASE ChildExits(p)
    BY <1>20 DEF ChildExits
<1>21. CASE Close(p)
  <2>1. CASE certs' = [certs EXCEPT ![V(p)] = @ \ {p}]
    BY <1>21, <2>1 DEF Close
  <2>2. CASE UNCHANGED certs
    BY <1>21, <2>2 DEF Close
  <2> QED
    BY <1>21, <2>1, <2>2 DEF Close
<1>22. CASE \E w \in Versions : RemoveEntry(p, w)
    BY <1>22 DEF RemoveEntry, Current
<1>23. CASE Crash(p)
    BY <1>23 DEF Crash
<1> QED
    BY <1>2, <1>3, <1>4, <1>5, <1>6, <1>7, <1>8, <1>9, <1>10, <1>11, <1>12, <1>13, <1>14, <1>15, <1>16, <1>17, <1>18, <1>19, <1>20, <1>21, <1>22, <1>23 DEF Step, Progress

\* Init does not report success before it has seen the binary.
LEMMA UndecidedStep ==
  ASSUME TypeOK, ImageInv, NEW p \in Procs, Step(p)
  PROVE  (\A q \in Procs : pc[q] \in Undecided => ~initOk[q])'
<1> USE VersionAssumption, NoneAssumption, MaxAssumption
    DEF TypeOK, Go, V, procVars, lockVars, dirVars, Critical, AfterInit, Clearing, Clean, Relies, Undecided, SameVersion, ImageInv
<1> SUFFICES ASSUME NEW q \in Procs, pc'[q] \in Undecided
             PROVE  ~initOk'[q]
    OBVIOUS
<1>2. CASE Begin(p)
    BY <1>2 DEF Begin
<1>3. CASE OpenLock(p)
    BY <1>3 DEF OpenLock
<1>4. CASE AcquireLock(p)
    BY <1>4 DEF AcquireLock
<1>5. CASE LockFails(p)
    BY <1>5 DEF LockFails
<1>6. CASE Unlock(p)
    BY <1>6 DEF Unlock
<1>7. CASE RemoveLockFile(p)
    BY <1>7 DEF RemoveLockFile
<1>8. CASE CreateAllDirectories(p)
    BY <1>8 DEF CreateAllDirectories
<1>9. CASE ReadCache(p)
    BY <1>9 DEF ReadCache
<1>10. CASE EntryDone(p)
    BY <1>10 DEF EntryDone
<1>11. CASE ClearDone(p)
    BY <1>11 DEF ClearDone
<1>12. CASE Validate(p)
    BY <1>12 DEF Validate
<1>13. CASE ExtractTo(p)
    BY <1>13 DEF ExtractTo
<1>14. CASE WriteImage(p)
    BY <1>14 DEF WriteImage
<1>15. CASE Revalidate(p)
    BY <1>15 DEF Revalidate
<1>16. CASE ProxyDirectories(p)
    BY <1>16 DEF ProxyDirectories
<1>17. CASE CreateCert(p)
    BY <1>17 DEF CreateCert
<1>18. CASE WriteCert(p)
    BY <1>18 DEF WriteCert
<1>19. CASE Execute(p)
    BY <1>19 DEF Execute
<1>20. CASE ChildExits(p)
    BY <1>20 DEF ChildExits
<1>21. CASE Close(p)
  <2>1. CASE certs' = [certs EXCEPT ![V(p)] = @ \ {p}]
    BY <1>21, <2>1 DEF Close
  <2>2. CASE UNCHANGED certs
    BY <1>21, <2>2 DEF Close
  <2> QED
    BY <1>21, <2>1, <2>2 DEF Close
<1>22. CASE \E v \in Versions : RemoveEntry(p, v)
    BY <1>22 DEF RemoveEntry, Current
<1>23. CASE Crash(p)
    BY <1>23 DEF Crash
<1> QED
    BY <1>2, <1>3, <1>4, <1>5, <1>6, <1>7, <1>8, <1>9, <1>10, <1>11, <1>12, <1>13, <1>14, <1>15, <1>16, <1>17, <1>18, <1>19, <1>20, <1>21, <1>22, <1>23 DEF Step, Progress

\* A second process inside Init is noticed.
LEMMA OverlapStep ==
  ASSUME TypeOK, ImageInv, NEW p \in Procs, Step(p)
  PROVE  (\A q, r \in Procs :
            q # r /\ SameVersion(q, r) /\ Clean(V(q))
              => ~(pc[q] \in Critical /\ pc[r] \in Critical))'
<1> USE VersionAssumption, NoneAssumption, MaxAssumption
    DEF TypeOK, Go, V, procVars, lockVars, dirVars, Critical, AfterInit, Clearing, Clean, Relies, Undecided, SameVersion, ImageInv, Active
<1> SUFFICES ASSUME NEW q \in Procs, NEW r \in Procs, q # r, SameVersion(q, r),
                    Clean(V(q))', pc'[q] \in Critical, pc'[r] \in Critical
             PROVE  FALSE
    OBVIOUS
<1>2. CASE Begin(p)
    BY <1>2 DEF Begin
<1>3. CASE OpenLock(p)
    BY <1>3 DEF OpenLock
<1>4. CASE AcquireLock(p)
  <2>1. pc[p] = "locking" /\ pc' = [pc EXCEPT ![p] = "dirs"]
    BY <1>4 DEF AcquireLock
  <2>2. ASSUME NEW s \in Procs \ {p}, V(s) = V(p), pc[s] \in Critical
        PROVE  disturbed'[V(p)] # {}
    <3>1. disturbed' = [disturbed EXCEPT ![V(p)] = @ \cup {"overlap"}]
      BY <1>4, <2>2 DEF AcquireLock
    <3> QED
      BY <3>1
  <2>3. disturbed'[V(q)] = {} => disturbed[V(q)] = {}
    <3>1. \/ disturbed' = [disturbed EXCEPT ![V(p)] = @ \cup {"overlap"}]
          \/ disturbed' = disturbed
      BY <1>4 DEF AcquireLock
    <3> QED
      BY <3>1
  <2>4. CASE p \in {q, r}
    BY <2>1, <2>2, <2>4
  <2>5. CASE p \notin {q, r}
    BY <2>1, <2>3, <2>5
  <2> QED
    BY <2>4, <2>5
<1>5. CASE LockFails(p)
    BY <1>5 DEF LockFails
<1>6. CASE Unlock(p)
    BY <1>6 DEF Unlock
<1>7. CASE RemoveLockFile(p)
    BY <1>7 DEF RemoveLockFile
<1>8. CASE CreateAllDirectories(p)
    BY <1>8 DEF CreateAllDirectories
<1>9. CASE ReadCache(p)
    BY <1>9 DEF ReadCache
<1>10. CASE EntryDone(p)
    BY <1>10 DEF EntryDone
<1>11. CASE ClearDone(p)
    BY <1>11 DEF ClearDone
<1>12. CASE Validate(p)
    BY <1>12 DEF Validate
<1>13. CASE ExtractTo(p)
    BY <1>13 DEF ExtractTo
<1>14. CASE WriteImage(p)
    BY <1>14 DEF WriteImage
<1>15. CASE Revalidate(p)
    BY <1>15 DEF Revalidate
<1>16. CASE ProxyDirectories(p)
    BY <1>16 DEF ProxyDirectories
<1>17. CASE CreateCert(p)
    BY <1>17 DEF CreateCert
<1>18. CASE WriteCert(p)
    BY <1>18 DEF WriteCert
<1>19. CASE Execute(p)
    BY <1>19 DEF Execute
<1>20. CASE ChildExits(p)
    BY <1>20 DEF ChildExits
<1>21. CASE Close(p)
  <2>1. CASE certs' = [certs EXCEPT ![V(p)] = @ \ {p}]
    BY <1>21, <2>1 DEF Close
  <2>2. CASE UNCHANGED certs
    BY <1>21, <2>2 DEF Close
  <2> QED
    BY <1>21, <2>1, <2>2 DEF Close
<1>22. CASE \E v \in Versions : RemoveEntry(p, v)
    BY <1>22 DEF RemoveEntry, Current
<1>23. CASE Crash(p)
    BY <1>23 DEF Crash
<1> QED
    BY <1>2, <1>3, <1>4, <1>5, <1>6, <1>7, <1>8, <1>9, <1>10, <1>11, <1>12, <1>13, <1>14, <1>15, <1>16, <1>17, <1>18, <1>19, <1>20, <1>21, <1>22, <1>23 DEF Step, Progress

\* Nobody relies on a binary that is about to be written.
LEMMA WriterStep ==
  ASSUME TypeOK, ImageInv, NEW p \in Procs, Step(p)
  PROVE  (\A q, r \in Procs :
            q # r /\ SameVersion(q, r) /\ Clean(V(q))
              => ~(pc[q] \in {"extract", "write", "revalidate"} /\ Relies(r)))'
<1> USE VersionAssumption, NoneAssumption, MaxAssumption
    DEF TypeOK, Go, V, procVars, lockVars, dirVars, Critical, AfterInit, Clearing, Clean, Relies, Undecided, SameVersion, ImageInv, Active, ValidateFile
<1> SUFFICES ASSUME NEW q \in Procs, NEW r \in Procs, q # r, SameVersion(q, r),
                    Clean(V(q))', pc'[q] \in {"extract", "write", "revalidate"},
                    Relies(r)'
             PROVE  FALSE
    OBVIOUS
<1>2. CASE Begin(p)
    BY <1>2 DEF Begin
<1>3. CASE OpenLock(p)
    BY <1>3 DEF OpenLock
<1>4. CASE AcquireLock(p)
    BY <1>4 DEF AcquireLock
<1>5. CASE LockFails(p)
    BY <1>5 DEF LockFails
<1>6. CASE Unlock(p)
    BY <1>6 DEF Unlock
<1>7. CASE RemoveLockFile(p)
    BY <1>7 DEF RemoveLockFile
<1>8. CASE CreateAllDirectories(p)
    BY <1>8 DEF CreateAllDirectories
<1>9. CASE ReadCache(p)
    BY <1>9 DEF ReadCache
<1>10. CASE EntryDone(p)
    BY <1>10 DEF EntryDone
<1>11. CASE ClearDone(p)
    BY <1>11 DEF ClearDone
<1>12. CASE Validate(p)
    BY <1>12 DEF Validate
<1>13. CASE ExtractTo(p)
    BY <1>13 DEF ExtractTo
<1>14. CASE WriteImage(p)
    BY <1>14 DEF WriteImage
<1>15. CASE Revalidate(p)
    BY <1>15 DEF Revalidate
<1>16. CASE ProxyDirectories(p)
    BY <1>16 DEF ProxyDirectories
<1>17. CASE CreateCert(p)
    BY <1>17 DEF CreateCert
<1>18. CASE WriteCert(p)
    BY <1>18 DEF WriteCert
<1>19. CASE Execute(p)
    BY <1>19 DEF Execute
<1>20. CASE ChildExits(p)
    BY <1>20 DEF ChildExits
<1>21. CASE Close(p)
  <2>1. CASE certs' = [certs EXCEPT ![V(p)] = @ \ {p}]
    BY <1>21, <2>1 DEF Close
  <2>2. CASE UNCHANGED certs
    BY <1>21, <2>2 DEF Close
  <2> QED
    BY <1>21, <2>1, <2>2 DEF Close
<1>22. CASE \E v \in Versions : RemoveEntry(p, v)
    BY <1>22 DEF RemoveEntry, Current
<1>23. CASE Crash(p)
    BY <1>23 DEF Crash
<1> QED
    BY <1>2, <1>3, <1>4, <1>5, <1>6, <1>7, <1>8, <1>9, <1>10, <1>11, <1>12, <1>13, <1>14, <1>15, <1>16, <1>17, <1>18, <1>19, <1>20, <1>21, <1>22, <1>23 DEF Step, Progress

\* The binary of an undisturbed version stays whole.
LEMMA WholeStep ==
  ASSUME TypeOK, ClearInv, ImageInv, NEW p \in Procs, Step(p)
  PROVE  (\A q \in Procs : Clean(V(q)) /\ Relies(q) => image[V(q)] = "whole")'
<1> USE VersionAssumption, NoneAssumption, MaxAssumption
    DEF TypeOK, Go, V, procVars, lockVars, dirVars, Critical, AfterInit, Clearing, Clean, Relies, Undecided, SameVersion, ImageInv, ClearInv, Active, ValidateFile
<1> SUFFICES ASSUME NEW q \in Procs, Clean(V(q))', Relies(q)'
             PROVE  image'[V(q)] = "whole"
    OBVIOUS
<1>2. CASE Begin(p)
    BY <1>2 DEF Begin
<1>3. CASE OpenLock(p)
    BY <1>3 DEF OpenLock
<1>4. CASE AcquireLock(p)
    BY <1>4 DEF AcquireLock
<1>5. CASE LockFails(p)
    BY <1>5 DEF LockFails
<1>6. CASE Unlock(p)
    BY <1>6 DEF Unlock
<1>7. CASE RemoveLockFile(p)
    BY <1>7 DEF RemoveLockFile
<1>8. CASE CreateAllDirectories(p)
    BY <1>8 DEF CreateAllDirectories
<1>9. CASE ReadCache(p)
    BY <1>9 DEF ReadCache
<1>10. CASE EntryDone(p)
    BY <1>10 DEF EntryDone
<1>11. CASE ClearDone(p)
    BY <1>11 DEF ClearDone
<1>12. CASE Validate(p)
    BY <1>12 DEF Validate
<1>13. CASE ExtractTo(p)
  <2>1. q # p
    BY <1>13 DEF ExtractTo
  <2>2. disturbed' = disturbed /\ pc'[q] = pc[q] /\ initOk'[q] = initOk[q]
    BY <1>13, <2>1 DEF ExtractTo
  <2>3. image[V(q)] = "whole" /\ V(p) # V(q)
    BY <1>13, <2>1, <2>2 DEF ExtractTo
  <2>4. \/ image' = [image EXCEPT ![V(p)] = "partial"]
        \/ image' = image
    BY <1>13 DEF ExtractTo
  <2>5. image \in [Versions -> {"absent", "partial", "whole"}] /\ V(q) \in Versions
    OBVIOUS
  <2> QED
    BY ONLY <2>3, <2>4, <2>5
<1>14. CASE WriteImage(p)
  <2>1. q # p
    BY <1>14 DEF WriteImage
  <2>2. disturbed' = disturbed /\ pc'[q] = pc[q] /\ initOk'[q] = initOk[q]
    BY <1>14, <2>1 DEF WriteImage
  <2>3. image[V(q)] = "whole"
    BY <1>14, <2>1, <2>2 DEF WriteImage
  <2>4. \/ image' = [image EXCEPT ![V(p)] = "whole"]
        \/ image' = image
    BY <1>14 DEF WriteImage
  <2>5. image \in [Versions -> {"absent", "partial", "whole"}] /\ V(q) \in Versions
    OBVIOUS
  <2> QED
    BY ONLY <2>3, <2>4, <2>5
<1>15. CASE Revalidate(p)
    BY <1>15 DEF Revalidate
<1>16. CASE ProxyDirectories(p)
    BY <1>16 DEF ProxyDirectories
<1>17. CASE CreateCert(p)
    BY <1>17 DEF CreateCert
<1>18. CASE WriteCert(p)
    BY <1>18 DEF WriteCert
<1>19. CASE Execute(p)
    BY <1>19 DEF Execute
<1>20. CASE ChildExits(p)
    BY <1>20 DEF ChildExits
<1>21. CASE Close(p)
  <2>1. CASE certs' = [certs EXCEPT ![V(p)] = @ \ {p}]
    BY <1>21, <2>1 DEF Close
  <2>2. CASE UNCHANGED certs
    BY <1>21, <2>2 DEF Close
  <2> QED
    BY <1>21, <2>1, <2>2 DEF Close
<1>22. CASE \E v \in Versions : RemoveEntry(p, v)
  <2>1. PICK w \in Versions : RemoveEntry(p, w)
    BY <1>22
  <2>2. w # V(q) /\ UNCHANGED <<pc, initOk>>
    BY <2>1 DEF RemoveEntry, Current
  <2>3. image'[V(q)] = image[V(q)] /\ disturbed'[V(q)] = disturbed[V(q)]
    <3>1. \/ image' = [image EXCEPT ![w] = "absent"]
          \/ image' = image
      BY <2>1 DEF RemoveEntry
    <3>2. \/ disturbed' = [disturbed EXCEPT ![w] = @ \cup {"cleared"}]
          \/ disturbed' = disturbed
      BY <2>1 DEF RemoveEntry
    <3>3. /\ image \in [Versions -> {"absent", "partial", "whole"}]
          /\ disturbed \in [Versions -> SUBSET {"overlap", "cleared"}]
          /\ V(q) \in Versions
      OBVIOUS
    <3> QED
      BY ONLY <2>2, <3>1, <3>2, <3>3
  <2> QED
    BY <2>2, <2>3
<1>23. CASE Crash(p)
    BY <1>23 DEF Crash
<1> QED
    BY <1>2, <1>3, <1>4, <1>5, <1>6, <1>7, <1>8, <1>9, <1>10, <1>11, <1>12, <1>13, <1>14, <1>15, <1>16, <1>17, <1>18, <1>19, <1>20, <1>21, <1>22, <1>23 DEF Step, Progress

------------------------------------------------------------------------------
\* The inductive invariant holds initially, with whatever the cache holds.
LEMMA InitInd == Init => IndInv
<1> SUFFICES ASSUME Init PROVE IndInv
    OBVIOUS
<1> USE VersionAssumption, NoneAssumption, MaxAssumption DEF Init
<1>1. TypeOK
  <2>1. tmp \in [Versions -> BOOLEAN]
    BY Zenon
  <2>2. attempts \in [Procs -> 0..MaxVersionToDelete]
    OBVIOUS
  <2> QED
    BY <2>1, <2>2 DEF TypeOK, Locations
<1>2. LockInv /\ ClearInv
  BY DEF LockInv, ClearInv, Critical, V
<1>3. CertTrusted /\ NoCertLeak
  BY DEF CertTrusted, NoCertLeak, WithCert, V
<1>4. ImageInv
  BY DEF ImageInv, Critical, AfterInit, Relies, Undecided
<1> QED
  BY <1>1, <1>2, <1>3, <1>4 DEF IndInv

\* Every step, and stuttering, preserves it.
LEMMA NextInd == IndInv /\ [Next]_vars => IndInv'
<1> SUFFICES ASSUME IndInv, [Next]_vars PROVE IndInv'
    OBVIOUS
<1>1. ASSUME NEW p \in Procs, Step(p) PROVE IndInv'
  <2>1. TypeOK' /\ LockInv' /\ ClearInv' /\ CertTrusted' /\ NoCertLeak'
    BY <1>1, TypeStep, LockStep, ClearStep, CertStep, LeakStep DEF IndInv
  <2>2. ImageInv'
    BY <1>1, UndecidedStep, OverlapStep, WriterStep, WholeStep
       DEF IndInv, ImageInv
  <2> QED
    BY <2>1, <2>2 DEF IndInv
<1>2. CASE UNCHANGED vars
  BY <1>2 DEF vars, procVars, lockVars, dirVars, IndInv, TypeOK, LockInv,
              ClearInv, CertTrusted, NoCertLeak, ImageInv, Clean, Relies
<1> QED
  BY <1>1, <1>2 DEF Next

THEOREM IndInvHolds == Spec => []IndInv
  BY InitInd, NextInd, PTL DEF Spec

\* Every variable keeps its type; ClearCache's attempts keep their bound.
THEOREM TypeCorrect == Spec => []TypeOK
  BY IndInvHolds, PTL DEF IndInv

\* Two processes inside Init never have the same lock file open: the kernel
\* excludes them for as long as the path names one inode.
THEOREM LockExclusive == Spec => []LinkedLockExclusive
<1>1. IndInv => LinkedLockExclusive
  BY DEF IndInv, LockInv, LinkedLockExclusive
<1> QED
  BY <1>1, IndInvHolds, PTL

\* After a successful Init the legacy binary is whole, unless a second process
\* of the version got into Init or another version cleared the directory.
THEOREM ImageAlwaysTrusted == Spec => []ImageTrusted
<1>1. IndInv => ImageTrusted
  BY DEF IndInv, ImageInv, ImageTrusted, Clean, Relies
<1> QED
  BY <1>1, IndInvHolds, PTL

\* The certificate outlives the child unless another version cleared it.
THEOREM CertAlwaysTrusted == Spec => []CertTrusted
  BY IndInvHolds, PTL DEF IndInv

\* A certificate left behind belongs to a killed process or to one whose
\* NewWrapperProxy failed half-way.
THEOREM NoCertLeaks == Spec => []NoCertLeak
  BY IndInvHolds, PTL DEF IndInv

------------------------------------------------------------------------------
(* CLIv2Main *)

Run == [help : BOOLEAN, result : Errors \cup {NoError}]

\* Only the exit error of a child has a code, and it is never 0.
ErrorsOf == err.kind = "exit" => err.code \in Codes

\* Who has asked the legacy CLI for what.  It is asked again only after cobra
\* itself asked for the command, and then for its help: no error of the legacy
\* workflow has the text of an unknown command.
Invocations ==
  /\ place = "start" => runs = <<>> /\ err = NoError /\ ~helpProvided
  /\ place = "handle" =>
       \/ runs = <<>> /\ ~helpProvided
       \/ Len(runs) = 1 /\ (helpProvided <=> runs[1].help) /\ err.kind # "unknownCommand"
  /\ place \in {"legacy", "child"} =>
       \/ Len(runs) = 1 /\ (helpProvided <=> runs[1].help)
       \/ Len(runs) = 2 /\ caller = "help"
  /\ Len(runs) <= 2
  /\ Len(runs) = 2 => ~runs[1].help /\ runs[2].help

\* The error at hand is the result of what ran last.
Results ==
  place \in {"handle", "finish", "done"} /\ caller # "helpFunc" /\ runs # <<>> =>
    LastResult = err

\* The inductive invariant.
MainInv == MainTypeOK /\ ErrorsOf /\ Invocations /\ Results /\ ExitIsHonest

------------------------------------------------------------------------------
(* The steps that several actions share *)

\* An invocation of the legacy workflow is added to the others.
LEMMA InvokeAppends ==
  ASSUME runs \in Seq(Run), NEW c, NEW help \in BOOLEAN, InvokeLegacy(c, help)
  PROVE  /\ runs' \in Seq(Run) /\ Len(runs') = Len(runs) + 1
         /\ runs'[Len(runs')].help = help
         /\ \A i \in 1..Len(runs) : runs'[i] = runs[i]
<1> DEFINE r == [help |-> help, result |-> NoError]
<1>1. r \in Run
  BY DEF Run
<1>2. runs' = Append(runs, r)
  BY DEF InvokeLegacy
<1> HIDE DEF r
<1>3. /\ runs' \in Seq(Run) /\ Len(runs') = Len(runs) + 1
      /\ runs'[Len(runs')] = r
      /\ \A i \in 1..Len(runs) : runs'[i] = runs[i]
  BY <1>1, <1>2
<1> QED
  BY <1>3 DEF r

\* The workflow's return sets the result of the last one.
LEMMA ReturnSetsResult ==
  ASSUME runs \in Seq(Run), runs # <<>>, NEW e \in Errors \cup {NoError}, Return(e)
  PROVE  /\ runs' \in Seq(Run) /\ Len(runs') = Len(runs) /\ runs' # <<>>
         /\ \A i \in 1..Len(runs) : runs'[i].help = runs[i].help
         /\ runs'[Len(runs)].result = e
<1> DEFINE n == Len(runs)
           r == [runs[n] EXCEPT !.result = e]
<1>1. n \in 1..n /\ n \in Nat /\ runs[n] \in Run
  OBVIOUS
<1>2. r \in Run /\ r.help = runs[n].help /\ r.result = e
  BY <1>1 DEF Run
<1>3. runs' = [runs EXCEPT ![n] = r]
  BY DEF Return
<1> HIDE DEF r, n
<1>4. DOMAIN runs = 1..n /\ n = Len(runs)
  BY DEF n
<1>5. runs' \in Seq(Run) /\ Len(runs') = n /\ runs'[n] = r
  BY <1>1, <1>2, <1>3, <1>4
<1>6. \A i \in 1..n : i # n => runs'[i] = runs[i]
  BY <1>3, <1>4
<1> QED
  <2>1. runs' # <<>>
    BY <1>1, <1>4, <1>5
  <2>2. ASSUME NEW i \in 1..n PROVE runs'[i].help = runs[i].help
    BY <1>2, <1>5, <1>6
  <2> QED
    BY <1>2, <1>4, <1>5, <2>1, <2>2

\* What each way into the legacy workflow keeps.
LEMMA InvokeKeeps ==
  ASSUME MainInv, NEW c \in {"cobra", "helpFunc", "fallback", "help"}, NEW help \in BOOLEAN,
         InvokeLegacy(c, help), place' = "legacy", place # "done",
         \/ runs = <<>> /\ ~helpProvided
         \/ Len(runs) = 1 /\ ~runs[1].help /\ help /\ c = "help"
  PROVE  MainInv'
<1> USE DEF MainInv
<1>1. runs \in Seq(Run)
  BY DEF MainTypeOK, Run
<1>2. /\ runs' \in Seq(Run) /\ Len(runs') = Len(runs) + 1
      /\ runs'[Len(runs')].help = help
      /\ \A i \in 1..Len(runs) : runs'[i] = runs[i]
  BY <1>1, InvokeAppends
<1>3. /\ caller' = c /\ helpProvided' = (helpProvided \/ help)
      /\ UNCHANGED <<args, env, err, child, exitCode, shown>>
  BY DEF InvokeLegacy
<1>4. MainTypeOK'
  BY <1>2, <1>3 DEF MainTypeOK, Run
<1>5. Invocations'
  <2>1. CASE runs = <<>> /\ ~helpProvided
    <3>1. Len(runs') = 1 /\ runs'[1].help = help /\ helpProvided' = help
      BY <1>2, <1>3, <2>1
    <3> QED
      BY <3>1 DEF Invocations
  <2>2. CASE Len(runs) = 1 /\ ~runs[1].help /\ help /\ c = "help"
    <3>1. Len(runs') = 2
      BY ONLY <1>2, <2>2
    <3>2. runs'[1] = runs[1]
      BY ONLY <1>2, <2>2
    <3>3. runs'[2].help
      BY ONLY <1>2, <2>2, <3>1
    <3> QED
      BY <1>3, <2>2, <3>1, <3>2, <3>3 DEF Invocations
  <2> QED
    BY <2>1, <2>2
<1> QED
  BY <1>3, <1>4, <1>5 DEF ErrorsOf, Results, ExitIsHonest

\* The errors that the legacy workflow returns.
Returned == {ExitError(c, "legacy") : c \in Codes} \cup LegacyErrors \cup {NoError}

LEMMA ReturnedErrors ==
  ASSUME NEW e \in Returned
  PROVE  /\ e \in Errors \cup {NoError}
         /\ e.kind # "unknownCommand"
         /\ e.kind = "exit" => e.code \in Codes
<1> USE DEF Errors, Kinds, Origins
<1>1. CASE e \in LegacyErrors
  BY <1>1 DEF LegacyErrors, Error
<1>2. CASE e = NoError
  BY <1>2 DEF NoError
<1>3. CASE e \in {ExitError(c, "legacy") : c \in Codes}
  <2>1. PICK c \in Codes : e = [kind |-> "exit", code |-> c, from |-> "legacy"]
    BY <1>3 DEF ExitError
  <2> QED
    BY <2>1
<1> QED
  BY <1>1, <1>2, <1>3 DEF Returned

\* What each way out of it keeps.
LEMMA ReturnKeeps ==
  ASSUME MainInv, place \in {"legacy", "child"}, NEW e \in Returned, Return(e)
  PROVE  MainInv'
<1> USE DEF MainInv
<1>1. runs \in Seq(Run) /\ runs # <<>>
  BY DEF MainTypeOK, Run, Invocations
<1>2. e \in Errors \cup {NoError} /\ e.kind # "unknownCommand" /\ (e.kind = "exit" => e.code \in Codes)
  BY ReturnedErrors
<1>3. /\ runs' \in Seq(Run) /\ Len(runs') = Len(runs) /\ runs' # <<>>
      /\ \A i \in 1..Len(runs) : runs'[i].help = runs[i].help
      /\ runs'[Len(runs)].result = e
  BY <1>1, <1>2, ReturnSetsResult
<1>4. /\ place' = IF caller \in {"cobra", "helpFunc"} THEN "handle" ELSE "finish"
      /\ err' = IF caller = "helpFunc" THEN NoError ELSE e
      /\ child' = NoChild
      /\ UNCHANGED <<args, env, helpProvided, caller, exitCode, shown>>
  BY DEF Return
<1>5. MainTypeOK'
  BY <1>2, <1>3, <1>4 DEF MainTypeOK, Run, NoChild
<1>6. err' \in {e, NoError} /\ ErrorsOf' /\ err'.kind # "unknownCommand"
  BY <1>2, <1>4 DEF ErrorsOf, NoError
<1>7. Invocations'
  BY <1>1, <1>3, <1>4, <1>6 DEF Invocations
<1>8. Results'
  BY <1>3, <1>4 DEF Results, LastResult
<1> QED
  BY <1>4, <1>5, <1>6, <1>7, <1>8 DEF ExitIsHonest

------------------------------------------------------------------------------
(* The invariant is inductive *)

\* No run begins with an error, a child or an exit code.
LEMMA InitInv ==
  ASSUME MainInit
  PROVE  MainInv
<1> USE DEF MainInit, NoError
<1>1. <<>> \in Seq([help : BOOLEAN, result : Errors \cup {NoError}])
  OBVIOUS
<1>2. MainTypeOK
  BY <1>1 DEF MainTypeOK, NoChild
<1> QED
  BY <1>2 DEF MainInv, ErrorsOf, Invocations, Results, ExitIsHonest

\* A small negative code, as the parent of the process sees it.
LEMMA NegativeModulo ==
  ASSUME NEW x \in Int, x < 0, x > -256
  PROVE  x % 256 = x + 256
<1>1. x = 256 * (x \div 256) + (x % 256)
  OBVIOUS
<1>2. x \div 256 = -1
  OBVIOUS
<1> QED
  BY <1>1, <1>2

\* The exit code of an error is not 0; that of a child's exit error is its own.
LEMMA ExitCodes256 ==
  ASSUME MainTypeOK, ErrorsOf
  PROVE  /\ DeriveExitCode(err) % 256 \in {0, 255} \cup ExitCodes
         /\ DeriveExitCode(err) % 256 = 0 => err = NoError
         /\ err.kind = "exit" => DeriveExitCode(err) % 256 = err.code % 256
<1> USE ExitCodeAssumption
<1>1. CASE err = NoError
  BY <1>1 DEF DeriveExitCode, NoError
<1>2. CASE err # NoError /\ err.kind = "exit"
  <2>1. err.code \in ExitCodes \cup {-1} /\ DeriveExitCode(err) = err.code
    BY <1>2 DEF ErrorsOf, Codes, DeriveExitCode
  <2>2. CASE err.code = -1
    <3>1. (-1) % 256 = 255
      <4>1. -1 \in Int /\ -1 < 0 /\ -1 > -256 /\ -1 + 256 = 255
        OBVIOUS
      <4> QED
        BY ONLY <4>1, NegativeModulo
    <3> QED
      BY <1>2, <2>1, <2>2, <3>1
  <2>3. CASE err.code \in ExitCodes
    <3>1. err.code \in 1..255
      BY <2>3
    <3>2. err.code % 256 = err.code
      BY ONLY <3>1
    <3> QED
      BY <1>2, <2>1, <2>3, <3>1, <3>2
  <2> QED
    BY <2>1, <2>2, <2>3
<1>3. CASE err # NoError /\ err.kind # "exit"
  BY <1>3 DEF DeriveExitCode
<1> QED
  BY <1>1, <1>2, <1>3

\* The child's environment has its type, whatever the user's is.
LEMMA ChildType ==
  PrepareV1EnvironmentVariables \in
    [https : {"none", "user", "wrapper"}, ca : SUBSET {"user", "wrapper"},
     noProxy : SUBSET {"user", "internal"}, system : {"none", "user"},
     token : {"none", "user", "random"}]
<1>1. /\ Token \in {"none", "user", "random"} /\ UserProxy \in {"none", "user"}
      /\ UserNoProxy \subseteq {"user"} /\ UserCa \subseteq {"user"}
  BY DEF Token, UserProxy, UserNoProxy, UserCa
<1> QED
  BY <1>1 DEF PrepareV1EnvironmentVariables

\* Every step preserves it.
LEMMA StepInv ==
  ASSUME MainInv, [MainNext]_mainVars
  PROVE  MainInv'
<1> USE DEF MainInv
<1>1. CASE EngineFails
  <2>1. /\ place = "start" /\ place' = "done" /\ exitCode' = 2
        /\ UNCHANGED <<args, env, err, helpProvided, caller, child, runs, shown>>
    BY <1>1 DEF EngineFails, Moves
  <2>2. err = NoError /\ runs = <<>>
    BY <2>1 DEF Invocations
  <2> QED
    BY <2>1, <2>2, ExitCodeAssumption
    DEF MainTypeOK, ErrorsOf, Invocations, Results, ExitIsHonest
<1>2. CASE CobraError \/ RunMainWorkflow
  <2>1. /\ place = "start" /\ place' = "handle" /\ runs = <<>> /\ ~helpProvided
        /\ UNCHANGED <<args, env, helpProvided, caller, child, runs, exitCode, shown>>
    BY <1>2 DEF CobraError, RunMainWorkflow, Moves, Invocations
  <2>2. err' \in Errors \cup {NoError} /\ (err'.kind = "exit" => err'.code \in Codes)
    <3> USE DEF Errors, Kinds, Origins
    <3>1. CASE CobraError
      <4>1. err' \in {Error(k, "cobra") : k \in {"unknownCommand", "flag", "other"}}
        BY <3>1 DEF CobraError
      <4> QED
        BY <4>1 DEF Error
    <3>2. CASE RunMainWorkflow
      <4>1. CASE err' = NoError
        BY <4>1 DEF NoError
      <4>2. CASE err' \in {Error(k, "extension") : k \in Kinds \ {"exit"}}
        BY <4>2 DEF Error
      <4>3. CASE err' \in {ExitError(c, "extension") : c \in Codes}
        BY <4>3 DEF ExitError
      <4> QED
        BY <3>2, <4>1, <4>2, <4>3 DEF RunMainWorkflow, ExtensionErrors
    <3> QED
      BY <1>2, <3>1, <3>2
  <2>3. MainTypeOK'
    BY <2>1, <2>2 DEF MainTypeOK
  <2> QED
    BY <2>1, <2>2, <2>3 DEF ErrorsOf, Invocations, Results, ExitIsHonest
<1>3. CASE RunRoot \/ RunHelpCmd \/ RunHelpFlag
  <2>1. place = "start" /\ place' = "legacy" /\ runs = <<>> /\ ~helpProvided
    BY <1>3 DEF RunRoot, RunHelpCmd, RunHelpFlag, Moves, Invocations
  <2>2. \E c \in {"cobra", "helpFunc"}, help \in BOOLEAN : InvokeLegacy(c, help)
    BY <1>3 DEF RunRoot, RunHelpCmd, RunHelpFlag
  <2> QED
    BY <2>1, <2>2, InvokeKeeps
<1>4. CASE LegacyFails \/ CommandVersion \/ ChildReturns
  <2>1. place \in {"legacy", "child"}
    BY <1>4 DEF LegacyFails, CommandVersion, ChildReturns
  <2>2. \E e \in Returned : Return(e)
    BY <1>4 DEF LegacyFails, CommandVersion, ChildReturns, Returned, LegacyErrors
  <2> QED
    BY <2>1, <2>2, ReturnKeeps
<1>5. CASE StartChild
  <2>1. /\ place = "legacy" /\ place' = "child" /\ child' = PrepareV1EnvironmentVariables
        /\ UNCHANGED <<args, env, err, helpProvided, caller, runs, exitCode, shown>>
    BY <1>5 DEF StartChild, Moves
  <2>2. MainTypeOK'
    BY <2>1, ChildType DEF MainTypeOK
  <2> QED
    BY <2>1, <2>2 DEF ErrorsOf, Invocations, Results, ExitIsHonest
<1>6. CASE HandleError
  <2>1. CASE HandleErrorResult = "fallback"
    <3>1. place = "handle" /\ place' = "legacy" /\ InvokeLegacy("fallback", FALSE)
      BY <1>6, <2>1 DEF HandleError, Moves
    <3>2. ~helpProvided /\ err.kind = "unknownCommand"
      BY <2>1 DEF HandleErrorResult
    <3>3. runs = <<>>
      BY <3>1, <3>2 DEF Invocations
    <3> QED
      BY <3>1, <3>2, <3>3, InvokeKeeps
  <2>2. CASE HandleErrorResult = "help"
    <3>1. place = "handle" /\ place' = "legacy" /\ InvokeLegacy("help", TRUE)
      BY <1>6, <2>2 DEF HandleError, Moves
    <3>2. ~helpProvided
      BY <2>2 DEF HandleErrorResult
    <3>3. runs = <<>> \/ (Len(runs) = 1 /\ ~runs[1].help)
      BY <3>1, <3>2 DEF Invocations
    <3> QED
      BY <3>1, <3>2, <3>3, InvokeKeeps
  <2>3. CASE HandleErrorResult = "unhandled"
    <3>1. /\ place = "handle" /\ place' = "finish"
          /\ UNCHANGED <<args, env, err, helpProvided, caller, child, runs, exitCode, shown>>
      BY <1>6, <2>3 DEF HandleError, Moves
    <3> QED
      BY <3>1 DEF MainTypeOK, ErrorsOf, Invocations, Results, LastResult, ExitIsHonest
  <2> QED
    BY <1>6, <2>1, <2>2, <2>3 DEF HandleError
<1>7. CASE Finish
  <2>1. /\ place = "finish" /\ place' = "done" /\ shown' = Displayed
        /\ exitCode' = DeriveExitCode(err) % 256
        /\ UNCHANGED <<args, env, err, helpProvided, caller, child, runs>>
    BY <1>7 DEF Finish, Moves
  <2>2. MainTypeOK'
    BY <2>1, ExitCodes256 DEF MainTypeOK, Displayed
  <2>3. LastResult' = LastResult
    BY <2>1 DEF LastResult
  <2>4. ExitIsHonest'
    <3>1. exitCode' = 0 /\ caller' # "helpFunc" => err' = NoError /\ LastResult' = NoError
      BY <2>1, <2>3, ExitCodes256 DEF Results, LastResult
    <3>2. exitCode' # 0 /\ err' # NoError =>
            shown' \/ (err'.kind = "exit" /\ exitCode' = err'.code % 256)
      BY <2>1, ExitCodes256 DEF MainTypeOK, Displayed, Errors, Kinds
    <3> QED
      BY <3>1, <3>2 DEF ExitIsHonest
  <2> QED
    BY <2>1, <2>2, <2>3, <2>4 DEF ErrorsOf, Invocations, Results
<1>8. CASE UNCHANGED mainVars
  <2>1. UNCHANGED <<place, args, env, err, helpProvided, caller, child, runs, exitCode, shown>>
    BY <1>8 DEF mainVars
  <2> QED
    BY <2>1 DEF MainTypeOK, ErrorsOf, Invocations, Results, LastResult, ExitIsHonest
<1> QED
  BY <1>1, <1>2, <1>3, <1>4, <1>5, <1>6, <1>7, <1>8 DEF MainNext

------------------------------------------------------------------------------
(* Theorems *)

\* The invariant holds in every reachable state.
THEOREM Inductive == MainSpec => []MainInv
<1>1. MainInit => MainInv
  BY InitInv
<1>2. MainInv /\ [MainNext]_mainVars => MainInv'
  BY StepInv
<1> QED
  BY <1>1, <1>2, PTL DEF MainSpec

\* Every variable keeps its type: the exit code is 0, 2, one of the legacy
\* CLI's or 255, which a child that a signal killed makes of -1.
THEOREM MainTypeCorrect == MainSpec => []MainTypeOK
<1>1. MainInv => MainTypeOK
  BY DEF MainInv
<1> QED
  BY <1>1, Inductive, PTL

\* The legacy CLI gets the user's command at most once and is asked for help at
\* most once, whatever errors the commands, cobra and the children report.
THEOREM LegacyRunsOnce == MainSpec => []LegacyOnce
<1>1. ASSUME MainInv PROVE LegacyOnce
  <2>1. /\ runs \in Seq(Run) /\ DOMAIN runs = 1..Len(runs)
        /\ Len(runs) \in Nat /\ Len(runs) <= 2
    BY <1>1 DEF MainInv, MainTypeOK, Invocations, Run
  <2>2. ASSUME NEW i \in 1..Len(runs), NEW j \in 1..Len(runs), i # j
        PROVE  Len(runs) = 2
    BY <2>1, <2>2
  <2>3. Len(runs) = 2 => runs[1].help = FALSE /\ runs[2].help = TRUE
    <3> SUFFICES ASSUME Len(runs) = 2 PROVE runs[1].help = FALSE /\ runs[2].help = TRUE
      OBVIOUS
    <3>1. runs[1] \in Run /\ runs[2] \in Run
      BY <2>1
    <3>2. runs[1].help \in BOOLEAN /\ runs[2].help \in BOOLEAN
      BY <3>1 DEF Run
    <3> QED
      BY <1>1, <3>2, Zenon DEF MainInv, Invocations
  <2>4. ASSUME NEW i \in 1..Len(runs), NEW j \in 1..Len(runs), i # j
        PROVE  runs[i].help # runs[j].help
    <3>1. (i = 1 /\ j = 2) \/ (i = 2 /\ j = 1)
      BY <2>1, <2>4
    <3> QED
      BY <2>2, <2>3, <2>4, <3>1, Zenon
  <2> QED
    BY <2>1, <2>4 DEF LegacyOnce
<1> QED
  BY <1>1, Inductive, PTL

\* The exit code tells how what ran last ended, and an error that the child has
\* not printed is printed.
THEOREM ExitAlwaysHonest == MainSpec => []ExitIsHonest
<1>1. MainInv => ExitIsHonest
  BY DEF MainInv
<1> QED
  BY <1>1, Inductive, PTL
==============================================================================
