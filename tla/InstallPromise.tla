--------------------------- MODULE InstallPromise ---------------------------
(***************************************************************************)
(* What the npm package promises to the processes that share its           *)
(* directory: the binary comes into place whole or not at all, and a       *)
(* user's command is given to one CLI.  Downloads, temporary files,        *)
(* checksums and permissions are hidden.                                   *)
(***************************************************************************)
EXTENDS Sequences

CONSTANT Procs    \* installs and commands

VARIABLES
  binary,   \* under the binary's name: "absent" or "whole"
  users,    \* the processes that have a user's command; the others install
  ran,      \* the CLIs a process has started
  fate      \* what has become of a process, "open" until it is settled

vars == <<binary, users, ran, fate>>

Init ==
  /\ binary = "absent"
  /\ users \in SUBSET Procs
  /\ ran = [p \in Procs |-> <<>>]
  /\ fate = [p \in Procs |-> "open"]

Settle(p, from, to) == fate[p] \in from /\ fate' = [fate EXCEPT ![p] = to]

\* In one step, and for good.
Install ==
  /\ binary = "absent" /\ binary' = "whole"
  /\ UNCHANGED <<users, ran, fate>>

\* The binary ends with a status, or a signal ends it.
RunBinary(p) ==
  /\ p \in users /\ binary = "whole"
  /\ \E end \in {"status", "signal"} : Settle(p, {"open"}, end)
  /\ ran' = [ran EXCEPT ![p] = Append(@, "binary")]
  /\ UNCHANGED <<binary, users>>

\* The legacy CLI, instead of the binary or after a signal.
RunLegacy(p) ==
  /\ p \in users
  /\ Settle(p, {"open", "signal"}, "legacy")
  /\ ran' = [ran EXCEPT ![p] = Append(@, "legacy")]
  /\ UNCHANGED <<binary, users>>

\* A process ends without a CLI: a binary that is there cannot be spawned, an
\* exception is nobody's, or there was no command.  A kill may come at any time.
End(p) ==
  /\ \/ p \in users /\ binary = "whole" /\ Settle(p, {"open"}, "spawnError")
     \/ Settle(p, {"open"}, "exception")
     \/ p \notin users /\ Settle(p, {"open"}, "installed")
     \/ Settle(p, {"open", "signal"}, "killed")
  /\ UNCHANGED <<binary, users, ran>>

Next == Install \/ \E p \in Procs : RunBinary(p) \/ RunLegacy(p) \/ End(p)

Spec == Init /\ [][Next]_vars
=============================================================================
