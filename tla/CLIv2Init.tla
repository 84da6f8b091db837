------------------------------ MODULE CLIv2Init ------------------------------
(***************************************************************************)
(* Processes of the Go CLI (cliv2) sharing one cache directory.            *)
(*                                                                         *)
(* A run of the legacy workflow (legacycli.go) calls CLI.Init, which takes *)
(* a file lock named after the CLI version, creates the directories,       *)
(* clears other versions out of the cache and extracts the legacy binary;  *)
(* then it creates the wrapper proxy with its certificate file, executes   *)
(* the binary and closes the proxy.  Every step between two file-system    *)
(* calls is an action of its own, so processes interleave between them; a  *)
(* process may be killed at any of them.                                   *)
(*                                                                         *)
(* The file lock is gofrs/flock on a Unix system: the lock belongs to the  *)
(* inode that was opened, not to the path.                                 *)
(***************************************************************************)
EXTENDS Integers, FiniteSets

CONSTANTS
  Procs,               \* CLI processes
  Versions,            \* CLI versions, as ranks in the order of their names
  VersionOf,           \* the version of each process
  Inodes,              \* inodes a lock file can have
  None,                \* no inode, no process
  MaxVersionToDelete   \* directories one ClearCache attempts to delete (5)

ASSUME VersionAssumption ==
  /\ Versions \subseteq Nat
  /\ VersionOf \in [Procs -> Versions]
ASSUME NoneAssumption == None \notin Procs /\ None \notin Inodes
ASSUME MaxAssumption  == MaxVersionToDelete \in Nat \ {0}

VARIABLES
  pc,        \* where each process is; "aborted": it ended without having
             \* removed its certificate
  initOk,    \* Init is going to return nil
  fd,        \* inode of the lock file a process has open
  holder,    \* process that holds the lock of an inode
  lockFile,  \* inode the path <version>.lock names
  todo,      \* ClearCache: listed version directories not handled yet
  attempts,  \* ClearCache: deleteCount
  tmp,       \* does <version>/tmp exist
  image,     \* the legacy binary of a version
  writer,    \* the process that truncated a partial image last
  certs,     \* processes whose certificate file is in <version>/tmp
  disturbed  \* history: why the directory of a version cannot be relied on

procVars == <<pc, initOk, fd, todo, attempts>>
lockVars == <<fd, holder, lockFile>>
dirVars  == <<tmp, image, writer, certs>>
vars == <<pc, initOk, fd, holder, lockFile, todo, attempts,
          tmp, image, writer, certs, disturbed>>

\* Init between taking the lock and giving it up.
Critical == {"dirs", "list", "clear", "validate", "extract", "write",
             "revalidate", "unlock"}
\* Init has returned nil; the process counts on the extracted binary.
AfterInit == {"proxy", "cert", "certWrite", "exec", "running", "close"}
\* The proxy's certificate has been created and not yet deleted.
WithCert == {"certWrite", "exec", "running", "close"}
Locations == {"idle", "start", "locking", "remove", "crashed", "aborted"}
               \cup Critical \cup AfterInit
Active(p) == pc[p] \notin {"idle", "crashed", "aborted"}

V(p) == VersionOf[p]
SameVersion(p, q) == V(p) = V(q)
Go(p, from, to) == pc[p] = from /\ pc' = [pc EXCEPT ![p] = to]
DirExists(v) == tmp[v] \/ image[v] # "absent"

\* The cache may hold what earlier runs left: whole or partial binaries.
Init ==
  /\ pc = [p \in Procs |-> "idle"]
  /\ initOk = [p \in Procs |-> FALSE]
  /\ fd = [p \in Procs |-> None]
  /\ holder = [i \in Inodes |-> None]
  /\ lockFile = [v \in Versions |-> None]
  /\ todo = [p \in Procs |-> {}]
  /\ attempts = [p \in Procs |-> 0]
  /\ image \in [Versions -> {"absent", "partial", "whole"}]
  /\ tmp = [v \in Versions |-> image[v] # "absent"]
  /\ writer = [v \in Versions |-> None]
  /\ certs = [v \in Versions |-> {}]
  /\ disturbed = [v \in Versions |-> {}]

------------------------------------------------------------------------------
(* CLI.Init: the lock *)

\* A CLI process is started.  When no other process of its version is alive,
\* what happened to the directory before no longer matters.
Begin(p) ==
  /\ Go(p, "idle", "start")
  /\ initOk' = [initOk EXCEPT ![p] = FALSE]
  /\ disturbed' = IF \E q \in Procs \ {p} : SameVersion(p, q) /\ Active(q)
                  THEN disturbed
                  ELSE [disturbed EXCEPT ![V(p)] = {}]
  /\ UNCHANGED <<lockVars, todo, attempts, dirVars>>

\* flock.Lock, first half: open the path with O_CREATE.
OpenLock(p) ==
  /\ Go(p, "start", "locking")
  /\ \/ /\ lockFile[V(p)] # None
        /\ fd' = [fd EXCEPT ![p] = lockFile[V(p)]]
        /\ UNCHANGED lockFile
     \/ /\ lockFile[V(p)] = None
        /\ \E i \in Inodes :
             /\ \A v \in Versions : lockFile[v] # i
             /\ \A q \in Procs : fd[q] # i
             /\ fd' = [fd EXCEPT ![p] = i]
             /\ lockFile' = [lockFile EXCEPT ![V(p)] = i]
  /\ UNCHANGED <<initOk, holder, todo, attempts, dirVars, disturbed>>

\* flock.Lock, second half: wait for the lock of the inode that was opened.
AcquireLock(p) ==
  /\ Go(p, "locking", "dirs")
  /\ holder[fd[p]] = None
  /\ holder' = [holder EXCEPT ![fd[p]] = p]
  /\ disturbed' =
       IF \E q \in Procs \ {p} : SameVersion(p, q) /\ pc[q] \in Critical
       THEN [disturbed EXCEPT ![V(p)] = @ \cup {"overlap"}]
       ELSE disturbed
  /\ UNCHANGED <<initOk, fd, lockFile, todo, attempts, dirVars>>

\* The cache directory cannot be created, or flock.Lock returns an error: Init
\* returns it, nothing was deferred yet.
LockFails(p) ==
  /\ Go(p, "start", "idle") \/ Go(p, "locking", "idle")
  /\ fd' = [fd EXCEPT ![p] = None]
  /\ UNCHANGED <<initOk, holder, lockFile, todo, attempts, dirVars, disturbed>>

\* Mutant: unlock is called at the end of Init instead of being deferred.
Unlock_OnSuccess(p) ==
  /\ Go(p, "unlock", IF initOk[p] THEN "remove" ELSE "idle")
  /\ holder' = IF initOk[p] THEN [holder EXCEPT ![fd[p]] = None] ELSE holder
  /\ fd' = [fd EXCEPT ![p] = None]
  /\ UNCHANGED <<initOk, lockFile, todo, attempts, dirVars, disturbed>>

\* The deferred unlock: first fileLock.Unlock() ...
Unlock(p) ==
  /\ Go(p, "unlock", "remove")
  /\ holder' = [holder EXCEPT ![fd[p]] = None]
  /\ fd' = [fd EXCEPT ![p] = None]
  /\ UNCHANGED <<initOk, lockFile, todo, attempts, dirVars, disturbed>>

\* ... then os.Remove(lockFileName), whatever file has that name by now.
RemoveLockFile(p) ==
  /\ Go(p, "remove", IF initOk[p] THEN "proxy" ELSE "idle")
  /\ lockFile' = [lockFile EXCEPT ![V(p)] = None]
  /\ UNCHANGED <<initOk, fd, holder, todo, attempts, dirVars, disturbed>>

------------------------------------------------------------------------------
(* CLI.Init: directories, ClearCache, ExtractV1Binary *)

CreateAllDirectories(p) ==
  /\ \/ Go(p, "dirs", "list") /\ tmp' = [tmp EXCEPT ![V(p)] = TRUE]
     \/ Go(p, "dirs", "unlock") /\ UNCHANGED tmp          \* MkdirAll fails
  /\ UNCHANGED <<initOk, lockVars, todo, attempts, image, writer, certs,
                 disturbed>>

\* ReadDir; the own version and the lock files are passed over.  Its error
\* ends ClearCache, and Init ignores that.
ReadCache(p) ==
  /\ \/ /\ Go(p, "list", "clear")
        /\ todo' = [todo EXCEPT
                      ![p] = {v \in Versions \ {V(p)} : DirExists(v)}]
     \/ Go(p, "list", "validate") /\ UNCHANGED todo
  /\ attempts' = [attempts EXCEPT ![p] = 0]
  /\ UNCHANGED <<initOk, lockVars, dirVars, disturbed>>

Clearing(p) == todo[p] # {} /\ attempts[p] < MaxVersionToDelete

\* The directory at hand: ReadDir lists by name.
Current(p, v) == v \in todo[p] /\ \A w \in todo[p] : v <= w

\* os.RemoveAll on the directory at hand deletes one more thing in it.
RemoveEntry(p, v) ==
  /\ pc[p] = "clear"
  /\ Clearing(p)
  /\ Current(p, v)
  /\ \/ /\ image[v] # "absent"
        /\ image' = [image EXCEPT ![v] = "absent"]
        /\ writer' = [writer EXCEPT ![v] = None]
        /\ UNCHANGED <<tmp, certs>>
     \/ /\ certs[v] # {}
        /\ \E q \in certs[v] : certs' = [certs EXCEPT ![v] = @ \ {q}]
        /\ UNCHANGED <<tmp, image, writer>>
     \/ /\ tmp[v] /\ certs[v] = {}
        /\ tmp' = [tmp EXCEPT ![v] = FALSE]
        /\ UNCHANGED <<image, writer, certs>>
  /\ disturbed' = IF v # V(p)
                  THEN [disturbed EXCEPT ![v] = @ \cup {"cleared"}]
                  ELSE disturbed
  /\ UNCHANGED <<procVars, holder, lockFile>>

\* os.RemoveAll returns, with or without an error; both count.
EntryDone(p) ==
  /\ pc[p] = "clear"
  /\ Clearing(p)
  /\ \E v \in Versions :
       Current(p, v) /\ todo' = [todo EXCEPT ![p] = @ \ {v}]
  /\ attempts' = [attempts EXCEPT ![p] = @ + 1]
  /\ UNCHANGED <<pc, initOk, lockVars, dirVars, disturbed>>

ClearDone(p) ==
  /\ Go(p, "clear", "validate")
  /\ ~Clearing(p)
  /\ todo' = [todo EXCEPT ![p] = {}]
  /\ UNCHANGED <<initOk, lockVars, attempts, dirVars, disturbed>>

\* Mutant: a file that exists is taken for the binary.
ValidateFile_Exists(p) == image[V(p)] # "absent"

\* ValidateFile: does the file have the expected SHA-256.
ValidateFile(p) == image[V(p)] = "whole"

Validate(p) ==
  /\ Go(p, "validate", IF ValidateFile(p) THEN "unlock" ELSE "extract")
  /\ initOk' = [initOk EXCEPT ![p] = ValidateFile(p)]
  /\ UNCHANGED <<lockVars, todo, attempts, dirVars, disturbed>>

\* ExtractBytesToTarget: MkdirAll and the O_TRUNC open of WriteFile.
ExtractTo(p) ==
  /\ \/ /\ Go(p, "extract", "write")
        /\ image' = [image EXCEPT ![V(p)] = "partial"]
        /\ writer' = [writer EXCEPT ![V(p)] = p]
     \/ Go(p, "extract", "unlock") /\ UNCHANGED <<image, writer>>   \* fails
  /\ UNCHANGED <<initOk, lockVars, todo, attempts, tmp, certs, disturbed>>

\* WriteFile has written everything (or fails half-way).  The bytes complete
\* the image only if nobody has truncated or deleted the file since.
WriteImage(p) ==
  /\ \/ /\ Go(p, "write", "revalidate")
        /\ image' = IF writer[V(p)] = p
                    THEN [image EXCEPT ![V(p)] = "whole"] ELSE image
        /\ writer' = IF writer[V(p)] = p
                     THEN [writer EXCEPT ![V(p)] = None] ELSE writer
     \/ Go(p, "write", "unlock") /\ UNCHANGED <<image, writer>>     \* fails
  /\ UNCHANGED <<initOk, lockVars, todo, attempts, tmp, certs, disturbed>>

Revalidate(p) ==
  /\ Go(p, "revalidate", "unlock")
  /\ initOk' = [initOk EXCEPT ![p] = ValidateFile(p)]
  /\ UNCHANGED <<lockVars, todo, attempts, dirVars, disturbed>>

------------------------------------------------------------------------------
(* NewWrapperProxy, Execute, Close *)

\* The second CreateAllDirectories; its error is not looked at.
ProxyDirectories(p) ==
  /\ Go(p, "proxy", "cert")
  /\ \/ tmp' = [tmp EXCEPT ![V(p)] = TRUE]
     \/ UNCHANGED tmp
  /\ UNCHANGED <<initOk, lockVars, todo, attempts, image, writer, certs,
                 disturbed>>

\* os.CreateTemp in <version>/tmp.
CreateCert(p) ==
  /\ \/ /\ tmp[V(p)]
        /\ Go(p, "cert", "certWrite")
        /\ certs' = [certs EXCEPT ![V(p)] = @ \cup {p}]
     \/ Go(p, "cert", "idle") /\ UNCHANGED certs                    \* fails
  /\ UNCHANGED <<initOk, lockVars, todo, attempts, tmp, image, writer,
                 disturbed>>

\* WriteToFile creates the file again if it is gone.  An error from here to
\* the end of NewWrapperProxy returns without a proxy, so nobody closes it.
WriteCert(p) ==
  /\ \/ /\ tmp[V(p)]
        /\ Go(p, "certWrite", "exec")
        /\ certs' = [certs EXCEPT ![V(p)] = @ \cup {p}]
     \/ Go(p, "certWrite", "aborted") /\ UNCHANGED certs            \* fails
  /\ UNCHANGED <<initOk, lockVars, todo, attempts, tmp, image, writer,
                 disturbed>>

\* Start and Execute: the child runs if its binary is there and whole.
Execute(p) ==
  /\ \/ Go(p, "exec", IF ValidateFile(p) THEN "running" ELSE "close")
     \/ Go(p, "exec", "close")               \* the proxy does not start
  /\ UNCHANGED <<initOk, lockVars, todo, attempts, dirVars, disturbed>>

ChildExits(p) ==
  /\ Go(p, "running", "close")
  /\ UNCHANGED <<initOk, lockVars, todo, attempts, dirVars, disturbed>>

\* Mutants: the whole temporary directory is emptied; nothing is removed.
Close_EmptiesTmp(p) ==
  /\ Go(p, "close", "idle")
  /\ certs' = [certs EXCEPT ![V(p)] = {}]
  /\ UNCHANGED <<initOk, lockVars, todo, attempts, tmp, image, writer,
                 disturbed>>
Close_KeepsCert(p) ==
  /\ Go(p, "close", "idle")
  /\ UNCHANGED <<initOk, lockVars, todo, attempts, dirVars, disturbed>>

\* The deferred wrapperProxy.Close(): os.Remove of the certificate.  When that
\* fails, the error is logged and the file stays.
Close(p) ==
  /\ \/ /\ Go(p, "close", "idle")
        /\ certs' = [certs EXCEPT ![V(p)] = @ \ {p}]
     \/ Go(p, "close", "aborted") /\ UNCHANGED certs                  \* fails
  /\ UNCHANGED <<initOk, lockVars, todo, attempts, tmp, image, writer,
                 disturbed>>

\* The process is killed: no deferred call runs, the kernel drops its lock.
Crash(p) ==
  /\ Active(p)
  /\ pc' = [pc EXCEPT ![p] = "crashed"]
  /\ fd' = [fd EXCEPT ![p] = None]
  /\ holder' = [i \in Inodes |-> IF holder[i] = p THEN None ELSE holder[i]]
  /\ todo' = [todo EXCEPT ![p] = {}]
  /\ UNCHANGED <<initOk, lockFile, attempts, dirVars, disturbed>>

------------------------------------------------------------------------------
\* What a live process does sooner or later.
Progress(p) ==
  \/ OpenLock(p) \/ Unlock(p) \/ RemoveLockFile(p)
  \/ CreateAllDirectories(p) \/ ReadCache(p) \/ EntryDone(p) \/ ClearDone(p)
  \/ Validate(p) \/ ExtractTo(p) \/ WriteImage(p) \/ Revalidate(p)
  \/ ProxyDirectories(p) \/ CreateCert(p) \/ WriteCert(p) \/ Execute(p)
  \/ ChildExits(p) \/ Close(p)

Step(p) ==
  \/ Begin(p) \/ Progress(p) \/ AcquireLock(p) \/ LockFails(p)
  \/ (\E v \in Versions : RemoveEntry(p, v)) \/ Crash(p)

Next == \E p \in Procs : Step(p)

Spec == Init /\ [][Next]_vars

\* The scheduler runs every process and the kernel hands a free lock to a
\* waiter.  Nothing forces a lock error, a crash or a new run.
Fairness == \A p \in Procs : WF_vars(Progress(p)) /\ WF_vars(AcquireLock(p))
FairSpec == Spec /\ Fairness

------------------------------------------------------------------------------
(* Properties *)

\* Every variable has its type; in particular a ClearCache attempts at most
\* MaxVersionToDelete deletions.
TypeOK ==
  /\ pc \in [Procs -> Locations]
  /\ initOk \in [Procs -> BOOLEAN]
  /\ fd \in [Procs -> Inodes \cup {None}]
  /\ holder \in [Inodes -> Procs \cup {None}]
  /\ lockFile \in [Versions -> Inodes \cup {None}]
  /\ todo \in [Procs -> SUBSET Versions]
  /\ attempts \in [Procs -> 0..MaxVersionToDelete]
  /\ tmp \in [Versions -> BOOLEAN]
  /\ image \in [Versions -> {"absent", "partial", "whole"}]
  /\ writer \in [Versions -> Procs \cup {None}]
  /\ certs \in [Versions -> SUBSET Procs]
  /\ disturbed \in [Versions -> SUBSET {"overlap", "cleared"}]

\* Two processes can be inside Init at once only through two lock files, of
\* which at most one is still the one the path names.
LinkedLockExclusive ==
  \A p, q \in Procs :
    p # q /\ pc[p] \in Critical /\ pc[q] \in Critical => fd[p] # fd[q]

\* As long as no second process of the version got into Init and no other
\* version cleared the directory, a process whose Init succeeded finds the
\* legacy binary whole, whatever crashed before and whatever other processes
\* of the version do meanwhile.
ImageTrusted ==
  \A p \in Procs :
    pc[p] \in AfterInit /\ disturbed[V(p)] = {} => image[V(p)] = "whole"

\* The certificate the legacy CLI is told to trust stays in place until the
\* proxy is closed, unless another version cleared the directory.
CertTrusted ==
  \A p \in Procs :
    pc[p] \in WithCert /\ "cleared" \notin disturbed[V(p)] => p \in certs[V(p)]

\* Certificates are left behind only by a process that was killed, by a
\* NewWrapperProxy that failed after creating the file, and by a Close whose
\* os.Remove failed (both end in "aborted"): no other process's Close, no
\* ClearCache and no later run brings one back or hides whose it is.
NoCertLeak ==
  \A v \in Versions : \A p \in certs[v] :
    V(p) = v /\ pc[p] \in WithCert \cup {"crashed", "aborted"}

\* A process that waits for the Init lock gets it or gives up: since every
\* release unlinks the file, newcomers queue on another inode.
LockGranted == \A p \in Procs : pc[p] = "locking" ~> pc[p] # "locking"

\* Every run of the CLI comes to an end.
RunEnds == \A p \in Procs : Active(p) ~> ~Active(p)
==============================================================================
