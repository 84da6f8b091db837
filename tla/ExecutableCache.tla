--------------------------- MODULE ExecutableCache ---------------------------
(***************************************************************************)
(* The executables that infrastructure scans download: the policy engine   *)
(* of iac test v2 and driftctl.  Each command looks for an executable file *)
(* in the shared cache, and otherwise downloads it, compares its checksum  *)
(* in memory and writes it in place, a part at a time; a file that can be  *)
(* executed is never checked again.  On Windows each file that is there    *)
(* can be executed.  Several commands run at once and any of them may fail *)
(* or be killed.                                                           *)
(***************************************************************************)
EXTENDS Program

CONSTANTS
  Commands,
  Parts      \* parts in which the file is written

ASSUME PartsAssumption == Parts \in Nat

VARIABLES
  windows,    \* the platform
  dir,        \* the cache directory exists
  parts,      \* parts of the file that have been written
  exists,     \* the file exists
  exe,        \* and its mode was changed
  at,         \* at[c]: where command c is
  mkdir,      \* mkdir[c]: it asked for the directory and did not wait
  offset,     \* offset[c]: the parts c wrote
  ran,        \* ran[c]: the parts of the file when c ran it, or {} if it did not
  overwritten, \* history: a command opened a file whose mode was changed or that
               \*   another was writing
  brokenOff    \* history: a command ended with the file written in part

history == <<overwritten, brokenOff>>
file == <<parts, exists, exe>>
cacheVars == <<windows, dir, file, at, mkdir, offset, ran, history>>

CacheInit ==
  /\ dir = FALSE /\ parts = {} /\ exists = FALSE /\ exe = FALSE
  /\ windows = FALSE /\ overwritten = FALSE /\ brokenOff = FALSE
  /\ at = [c \in Commands |-> "look"] /\ mkdir = [c \in Commands |-> FALSE]
  /\ offset = [c \in Commands |-> 0] /\ ran = [c \in Commands |-> {}]

\* Which build runs, and what access() means there.
OnPlatform ==
  /\ Goto("cache", "cache.commands") /\ windows' \in BOOLEAN
  /\ UNCHANGED <<dir, file, at, mkdir, offset, ran, history>>

Moves(c, from, to) == pc = "cache.commands" /\ at[c] = from /\ at' = [at EXCEPT ![c] = to]

\* isExe: access with X_OK, which looks at the mode, but on Windows only whether
\* the file is there.
IsExe == exe \/ (windows /\ exists)

\* The file is used as it is.
Cached(c) ==
  /\ IsExe /\ Moves(c, "look", "run")
  /\ UNCHANGED <<programVars, windows, dir, file, mkdir, offset, ran, history>>

\* createDirIfNotExists, whose mkdir nobody awaits.
NotCached(c) ==
  /\ ~IsExe /\ Moves(c, "look", "fetch")
  /\ mkdir' = [mkdir EXCEPT ![c] = ~dir]
  /\ UNCHANGED <<programVars, windows, dir, file, offset, ran, history>>

DirCreated(c) ==
  /\ pc = "cache.commands" /\ mkdir[c] /\ mkdir' = [mkdir EXCEPT ![c] = FALSE]
  /\ dir' = TRUE
  /\ UNCHANGED <<programVars, windows, file, at, offset, ran, history>>

\* The request fails, or what it received has another checksum.
DownloadFails(c) ==
  /\ Moves(c, "fetch", "done")
  /\ UNCHANGED <<programVars, windows, dir, file, mkdir, offset, ran, history>>

Verified(c) ==
  /\ Moves(c, "fetch", "open")
  /\ UNCHANGED <<programVars, windows, dir, file, mkdir, offset, ran, history>>

\* No directory, or a file that may not be written.
OpenFails(c) ==
  /\ Moves(c, "open", "done")
  /\ UNCHANGED <<programVars, windows, dir, file, mkdir, offset, ran, history>>

\* writeFile empties the file and leaves its mode.
Open(c) ==
  /\ dir /\ Moves(c, "open", "write")
  /\ parts' = {} /\ exists' = TRUE
  /\ offset' = [offset EXCEPT ![c] = 0]
  /\ overwritten' = (overwritten \/ exe \/ \E d \in Commands : at[d] = "write")
  /\ UNCHANGED <<programVars, windows, dir, exe, mkdir, ran, brokenOff>>

Write(c) ==
  /\ offset[c] < Parts /\ Moves(c, "write", "write")
  /\ offset' = [offset EXCEPT ![c] = @ + 1]
  /\ parts' = parts \cup {offset[c] + 1}
  /\ UNCHANGED <<programVars, windows, dir, exists, exe, mkdir, ran, history>>

\* Mutant: the mode is changed before the file is complete.
Chmod_Early(c) ==
  /\ Moves(c, "write", IF offset[c] = Parts THEN "run" ELSE "write")
  /\ exe' = TRUE
  /\ UNCHANGED <<programVars, windows, dir, parts, exists, mkdir, offset, ran, history>>

Chmod(c) ==
  /\ offset[c] = Parts /\ Moves(c, "write", "run")
  /\ exe' = TRUE
  /\ UNCHANGED <<programVars, windows, dir, parts, exists, mkdir, offset, ran, history>>

\* The system refuses to execute a file that is being written, and the command
\* ends; one that was written in part is executed like any other.
Run(c) ==
  /\ Moves(c, "run", "done")
  /\ ran' = IF \E d \in Commands : at[d] = "write" /\ offset[d] < Parts THEN ran
            ELSE [ran EXCEPT ![c] = parts]
  /\ UNCHANGED <<programVars, windows, dir, file, mkdir, offset, history>>

\* The command is killed, or writing the file or changing its mode fails.
Killed(c) ==
  /\ \E l \in {"fetch", "open", "write", "run"} : Moves(c, l, "done")
  /\ brokenOff' = (brokenOff \/ (at[c] = "write" /\ offset[c] < Parts))
  /\ UNCHANGED <<programVars, windows, dir, file, mkdir, offset, ran, overwritten>>

CommandsEnd ==
  /\ \A c \in Commands : at[c] = "done"
  /\ Exit("cache.commands", 0) /\ UNCHANGED cacheVars

CacheNext ==
  \/ OnPlatform
  \/ \E c \in Commands : Cached(c)
  \/ \E c \in Commands : NotCached(c)
  \/ \E c \in Commands : DirCreated(c)
  \/ \E c \in Commands : DownloadFails(c)
  \/ \E c \in Commands : Verified(c)
  \/ \E c \in Commands : OpenFails(c)
  \/ \E c \in Commands : Open(c)
  \/ \E c \in Commands : Write(c)
  \/ \E c \in Commands : Chmod(c)
  \/ \E c \in Commands : Run(c)
  \/ \E c \in Commands : Killed(c)
  \/ CommandsEnd

------------------------------------------------------------------------------
\* A file that nobody is writing and that the next command would execute without a
\* check is complete, and so is what was executed, whichever commands fail or are
\* killed, but for two cases, as file-utils.ts:52 writes in place what file-utils.ts:5
\* finds: a command opened the file while another was writing it or after its mode
\* was changed; or, on Windows, a command ended in the middle of writing it.
ExecutableIsWhole ==
  ~overwritten /\ ~(windows /\ brokenOff) =>
    /\ IsExe /\ (\A c \in Commands : at[c] # "write") => parts = 1..Parts
    /\ \A c \in Commands : ran[c] \in {{}, 1..Parts}
==============================================================================
