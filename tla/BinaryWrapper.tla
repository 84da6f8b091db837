---------------------------- MODULE BinaryWrapper ----------------------------
(***************************************************************************)
(* The npm package's wrapper (ts-binary-wrapper): bootstrap.ts downloads   *)
(* the CLI binary when the package is installed; index.ts downloads it if  *)
(* it is missing, runs it, and falls back to the legacy CLI in JavaScript. *)
(* Several of these processes share the package's directory.               *)
(*                                                                         *)
(* A file is the inode that names lead to: the process that created it     *)
(* stands for the inode.  Its content is a sequence of chunks.             *)
(***************************************************************************)
EXTENDS Integers, Sequences

CONSTANTS
  Procs,            \* wrapper and bootstrap processes
  None,             \* no file
  Temps,            \* names of temporary files: times in milliseconds
  N,                \* chunks of the binary
  SameMillisecond   \* may two processes start a download in one millisecond

ASSUME NoneAssumption == None \notin Procs /\ None \notin Temps
ASSUME SizeAssumption == N \in Nat \ {0} /\ SameMillisecond \in BOOLEAN

VARIABLES
  pc,       \* where each process is
  mode,     \* "wrapper", "bootstrap" or "legacy" (--legacy-cli)
  temp,     \* name of the temporary file of a process
  out,      \* the file a process writes
  pos,      \* chunks a process has received and written
  hashOk,   \* the SHA-256 of what the network delivered is the expected one
  names,    \* the file each temporary name leads to
  exe,      \* the file the name of the binary leads to
  content,  \* chunks of a file
  execBit,  \* files with mode 0755
  kept,     \* history: processes whose unlink of the temporary file failed
  ran,      \* history: the CLIs a process has started
  outcome   \* how a process ended

procVars == <<mode, temp, out, pos, hashOk>>
fileVars == <<names, exe, content, execBit>>
vars == <<pc, procVars, fileVars, kept, ran, outcome>>

Empty == [k \in 1..N |-> "hole"]
Whole == [k \in 1..N |-> "good"]
Downloading == {"download", "close"}
Ended == {"done", "uncaught", "killed"}

Init ==
  /\ pc = [p \in Procs |-> "start"]
  /\ mode \in [Procs -> {"wrapper", "bootstrap", "legacy"}]
  /\ temp = [p \in Procs |-> None]
  /\ out = [p \in Procs |-> None]
  /\ pos = [p \in Procs |-> 0]
  /\ hashOk = [p \in Procs |-> TRUE]
  /\ names = [t \in Temps |-> None]
  /\ exe = None
  /\ content = [f \in Procs |-> Empty]
  /\ execBit = {}
  /\ kept = {}
  /\ ran = [p \in Procs |-> <<>>]
  /\ outcome = [p \in Procs |-> "none"]

Go(p, from, to) == pc[p] = from /\ pc' = [pc EXCEPT ![p] = to]

------------------------------------------------------------------------------
(* index.ts and bootstrap.ts *)

\* Where an error leads that the surrounding try catches.
Caught(p) == IF mode[p] = "bootstrap" THEN "done" ELSE "fallback"

Start(p) ==
  /\ \/ mode[p] = "legacy" /\ Go(p, "start", "fallback")
     \/ mode[p] # "legacy" /\ Go(p, "start", Caught(p))  \* no configuration
     \/ mode[p] = "wrapper" /\ exe # None /\ Go(p, "start", "run")
     \/ mode[p] = "wrapper" /\ exe = None /\ Go(p, "start", "open")
     \/ mode[p] = "bootstrap" /\ Go(p, "start", "open")
  /\ UNCHANGED <<procVars, fileVars, kept, ran, outcome>>

------------------------------------------------------------------------------
(* downloadExecutable *)

\* Mutant: the temporary file stays.
CleanupAfterError_NoUnlink(p) ==
  pc' = [pc EXCEPT ![p] = Caught(p)] /\ UNCHANGED <<names, kept>>

\* unlinkSync(temp); its error is ignored, and the file stays.
Unlink(p) ==
  \/ names' = [names EXCEPT ![temp[p]] = None] /\ UNCHANGED kept
  \/ kept' = kept \cup {p} /\ UNCHANGED names

\* cleanupAfterError: unlink the temporary name, resolve with the error.
CleanupAfterError(p) ==
  pc' = [pc EXCEPT ![p] = Caught(p)] /\ Unlink(p)

\* createWriteStream(temp): create the file, or truncate the one that has the
\* name; the name is the time.
OpenTemp(p) ==
  \E t \in Temps :
    /\ Go(p, "open", "download")
    /\ SameMillisecond \/ \A q \in Procs : temp[q] # t
    /\ temp' = [temp EXCEPT ![p] = t]
    /\ LET f == IF names[t] = None THEN p ELSE names[t] IN
         /\ names' = [names EXCEPT ![t] = f]
         /\ out' = [out EXCEPT ![p] = f]
         /\ content' = [content EXCEPT ![f] = Empty]
    /\ UNCHANGED <<mode, pos, hashOk, exe, execBit, kept, ran, outcome>>

\* The stream cannot be opened.
OpenFails(p) ==
  /\ Go(p, "open", Caught(p))
  /\ UNCHANGED <<procVars, fileVars, kept, ran, outcome>>

\* A chunk goes to the file and to the hash; what is in it is what the server
\* published, or not.
ReceiveChunk(p) ==
  /\ pc[p] = "download" /\ pos[p] < N
  /\ \E c \in {"good", "bad"} :
       /\ content' = [content EXCEPT ![out[p]][pos[p] + 1] = c]
       /\ hashOk' = [hashOk EXCEPT ![p] = @ /\ c = "good"]
  /\ pos' = [pos EXCEPT ![p] = @ + 1]
  /\ UNCHANGED <<pc, mode, temp, out, names, exe, execBit, kept, ran, outcome>>

\* The request fails, the server answers with an error status, the connection
\* breaks, or the file cannot be written while the response is still coming.
DownloadFails(p) ==
  /\ pc[p] = "download"
  /\ CleanupAfterError(p)
  /\ UNCHANGED <<procVars, exe, content, execBit, ran, outcome>>

EndResponse(p) ==
  /\ Go(p, "download", "close")
  /\ pos[p] = N
  /\ UNCHANGED <<procVars, fileVars, kept, ran, outcome>>

\* Mutant: the shasum is not compared.
ShasumMatches_Never(p) == TRUE

ShasumMatches(p) == hashOk[p]

\* renameSync or chmodSync in the close handler throws: nobody catches it.
Uncaught(p) ==
  /\ pc' = [pc EXCEPT ![p] = "uncaught"]
  /\ outcome' = [outcome EXCEPT ![p] = "exception"]

\* The last chunk cannot be written although the hash is complete: the error
\* handler unlinks the file and the close handler renames it.  Both run in one
\* turn, so a directory that refuses the first refuses the second as well.
LastWriteFails(p) ==
  /\ pc[p] = "close"
  /\ content' = [content EXCEPT ![out[p]][N] = "hole"]
  /\ IF ShasumMatches(p)
     THEN Unlink(p) /\ Uncaught(p)
     ELSE CleanupAfterError(p) /\ UNCHANGED outcome
  /\ UNCHANGED <<procVars, exe, execBit, ran>>

\* The close handler.  The name may be gone, or the file under the binary's name
\* may refuse to be replaced (it runs, on Windows): renameSync throws, and nobody
\* unlinks the temporary file.
CloseStream(p) ==
  /\ pc[p] = "close"
  /\ \/ /\ ~ShasumMatches(p)
        /\ CleanupAfterError(p)
        /\ UNCHANGED <<exe, outcome>>
     \/ /\ ShasumMatches(p) /\ names[temp[p]] # None
        /\ pc' = [pc EXCEPT ![p] = "chmod"]
        /\ exe' = names[temp[p]]
        /\ names' = [names EXCEPT ![temp[p]] = None]
        /\ UNCHANGED <<kept, outcome>>
     \/ /\ ShasumMatches(p)
        /\ Uncaught(p)
        /\ UNCHANGED <<names, exe, kept>>
  /\ UNCHANGED <<procVars, content, execBit, ran>>

\* Mutant: only who runs the binary makes it executable.
Chmod_NotBootstrap(p) ==
  /\ Go(p, "chmod", IF mode[p] = "bootstrap" THEN "done" ELSE "run")
  /\ execBit' = IF mode[p] = "bootstrap" THEN execBit ELSE execBit \cup {exe}
  /\ UNCHANGED <<procVars, names, exe, content, kept, ran, outcome>>

\* chmodSync(filename): the file that has the name by now.  It may throw.
Chmod(p) ==
  /\ \/ /\ Go(p, "chmod", IF mode[p] = "bootstrap" THEN "done" ELSE "run")
        /\ execBit' = execBit \cup {exe}
        /\ UNCHANGED outcome
     \/ /\ pc[p] = "chmod" /\ Uncaught(p)
        /\ UNCHANGED execBit
  /\ UNCHANGED <<procVars, names, exe, content, kept, ran>>

------------------------------------------------------------------------------
(* runWrapper *)

BeingWritten(f) == \E q \in Procs : pc[q] \in Downloading /\ out[q] = f
CanSpawn == exe \in execBit /\ ~BeingWritten(exe)

\* EACCES or ETXTBSY: a message, and exit code 2.
SpawnFails(p) ==
  /\ Go(p, "run", "done")
  /\ ~CanSpawn
  /\ outcome' = [outcome EXCEPT ![p] = "spawnError"]
  /\ UNCHANGED <<procVars, fileVars, kept, ran>>

\* Mutant: a status other than 0 is thrown like a failed download.
RunExecutable_StatusThrows(p) ==
  /\ CanSpawn
  /\ ran' = [ran EXCEPT ![p] = Append(@, "binary")]
  /\ Go(p, "run", "fallback")
  /\ \E end \in {"status", "signal"} : outcome' = [outcome EXCEPT ![p] = end]
  /\ UNCHANGED <<procVars, fileVars, kept>>

\* The child ends with a status, which becomes the wrapper's; or a signal ends
\* it: then there is no res.error, whose code runWrapper reads, and the
\* TypeError is caught like a failed download.
RunExecutable(p) ==
  /\ CanSpawn
  /\ ran' = [ran EXCEPT ![p] = Append(@, "binary")]
  /\ \/ /\ Go(p, "run", "done")
        /\ outcome' = [outcome EXCEPT ![p] = "status"]
     \/ /\ Go(p, "run", "fallback")
        /\ outcome' = [outcome EXCEPT ![p] = "signal"]
  /\ UNCHANGED <<procVars, fileVars, kept>>

\* run(fallbackScript), outside of any try.
RunFallback(p) ==
  /\ ran' = [ran EXCEPT ![p] = Append(@, "legacy")]
  /\ \/ Go(p, "fallback", "done") /\ UNCHANGED outcome
     \/ Go(p, "fallback", "uncaught") /\ UNCHANGED outcome   \* a signal again
  /\ UNCHANGED <<procVars, fileVars, kept>>

\* The process is killed: nothing is cleaned up.
Kill(p) ==
  /\ pc[p] \notin Ended
  /\ pc' = [pc EXCEPT ![p] = "killed"]
  /\ UNCHANGED <<procVars, fileVars, kept, ran, outcome>>

------------------------------------------------------------------------------
Step(p) ==
  \/ Start(p) \/ OpenTemp(p) \/ OpenFails(p) \/ ReceiveChunk(p)
  \/ DownloadFails(p) \/ EndResponse(p) \/ LastWriteFails(p) \/ CloseStream(p)
  \/ Chmod(p) \/ SpawnFails(p) \/ RunExecutable(p) \/ RunFallback(p) \/ Kill(p)

Next == \E p \in Procs : Step(p)
Spec == Init /\ [][Next]_vars

------------------------------------------------------------------------------
(* Properties *)

TypeOK ==
  /\ pc \in [Procs -> {"start", "open", "download", "close", "chmod", "run",
                       "fallback"} \cup Ended]
  /\ mode \in [Procs -> {"wrapper", "bootstrap", "legacy"}]
  /\ temp \in [Procs -> Temps \cup {None}]
  /\ out \in [Procs -> Procs \cup {None}]
  /\ pos \in [Procs -> 0..N]
  /\ hashOk \in [Procs -> BOOLEAN]
  /\ names \in [Temps -> Procs \cup {None}]
  /\ exe \in Procs \cup {None}
  /\ content \in [Procs -> [1..N -> {"hole", "good", "bad"}]]
  /\ execBit \subseteq Procs
  /\ kept \subseteq Procs
  /\ ran \in [Procs -> Seq({"binary", "legacy"})]
  /\ outcome \in [Procs -> {"none", "status", "signal", "spawnError",
                            "exception"}]

\* Whatever fails and whoever is killed, the file under the binary's name is
\* complete and has the published checksum, so that "it exists" is reason
\* enough to run it.
BinaryIsVerified == exe # None => content[exe] = Whole

\* An exception of the close handler ended the process.
Threw(p) == pc[p] = "uncaught" /\ outcome[p] = "exception"

\* A download leaves its temporary file behind only if its process was killed,
\* if the close handler threw (nobody cleans up after renameSync), or if the
\* unlink itself failed; after every other failure the file is gone.
NoTempLeft ==
  \A t \in Temps : names[t] # None =>
    \E p \in Procs :
      /\ temp[p] = t
      /\ pc[p] \in Downloading \cup {"killed"} \/ Threw(p) \/ p \in kept

\* A user's command is given to exactly one CLI: the binary, or the legacy CLI
\* if there is no binary; only a signal that kills the binary makes it two.
OneCliPerCommand ==
  \A p \in Procs :
    /\ Len(ran[p]) = 2 => outcome[p] = "signal"
    /\ pc[p] = "done" /\ mode[p] # "bootstrap" /\ ran[p] = <<>>
         => outcome[p] = "spawnError"

\* The refinement: what the name of the binary leads to, and what has become of
\* a process, from the point of view of the user's command.
Binary ==
  IF exe = None THEN "absent"
  ELSE IF content[exe] = Whole THEN "whole" ELSE "broken"

Fate(p) ==
  IF pc[p] = "killed" THEN "killed"
  ELSE IF ran[p] # <<>> /\ ran[p][Len(ran[p])] = "legacy" THEN "legacy"
  ELSE IF outcome[p] # "none" THEN outcome[p]
  ELSE IF pc[p] \in Ended THEN "installed" ELSE "open"

Promise == INSTANCE InstallPromise WITH
  binary <- Binary,
  users  <- {p \in Procs : mode[p] # "bootstrap"},
  ran    <- ran,
  fate   <- [p \in Procs |-> Fate(p)]

\* Whatever is interleaved, fails or is killed, the binary is installed in one
\* step and for good, as if nobody could see a download, and each process does
\* with the user's command what InstallPromise allows: a CLI that is there, the
\* legacy one instead, both only after a signal, none only for a reason.
KeepsInstallPromise == Promise!Spec

\* The binary that is in place may be run, unless the download that brought it is
\* between its renameSync and its chmodSync, was killed there, or chmodSync threw:
\* no other process, which may replace it or set its mode, makes it otherwise.
PermissionPending ==
  exe # None /\ exe \notin execBit =>
    pc[exe] \in {"chmod", "killed"} \/ Threw(exe)
==============================================================================
