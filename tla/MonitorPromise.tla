--------------------------- MODULE MonitorPromise ---------------------------
(***************************************************************************)
(* What vulnmap monitor promises: every project found gets one result, for *)
(* good, that agrees with what the service did with the project; none is   *)
(* given to the service twice; and the exit code tells of all of them.     *)
(* Paths, requests, jobs and polls are hidden.                             *)
(***************************************************************************)
CONSTANT Projects

VARIABLES
  flow,        \* "projects", "docker" or "cpp"
  found,       \* the projects found
  missed,      \* some path could not be scanned, or not all of it
  service,     \* what the service did: "unknown", "accepted" or "refused"
  good, bad,   \* results: projects reported as monitored, as failed
  ended        \* "no", "success" or "failure"

vars == <<flow, found, missed, service, good, bad, ended>>

Init ==
  /\ flow \in {"projects", "docker", "cpp"}
  /\ found = {} /\ missed = FALSE
  /\ service = [r \in Projects |-> "unknown"]
  /\ good = {} /\ bad = {}
  /\ ended = "no"

Unsettled == found \ (good \cup bad)

\* A path is scanned.
Find ==
  /\ ended = "no"
  /\ found \subseteq found' /\ found' \subseteq Projects
  /\ missed' \in BOOLEAN /\ (missed => missed')
  /\ UNCHANGED <<flow, service, good, bad, ended>>

\* The service does something with a project, for the first time.
Served(r) ==
  /\ service[r] = "unknown"
  /\ \E a \in {"accepted", "refused"} : service' = [service EXCEPT ![r] = a]

\* Nobody has been told yet.
Serve ==
  /\ ended = "no"
  /\ \E r \in Unsettled : Served(r)
  /\ UNCHANGED <<flow, found, missed, good, bad, ended>>

\* "Monitored" is only said of what the service has answered for, and of an
\* unmanaged project when it is monitored.
Confirmed(r) == service'[r] = "accepted" \/ (flow # "cpp" /\ service'[r] = "refused")

\* A result, for good.  An answer may be lost: then the result is bad.
Settle ==
  /\ ended = "no"
  /\ \E r \in Unsettled :
       /\ UNCHANGED service \/ Served(r)
       /\ \/ good' = good \cup {r} /\ Confirmed(r) /\ UNCHANGED bad
          \/ bad' = bad \cup {r} /\ UNCHANGED good
  /\ UNCHANGED <<flow, found, missed, ended>>

Conclude ==
  /\ ended = "no" /\ Unsettled = {}
  /\ ended' = IF bad = {} /\ ~missed THEN "success" ELSE "failure"
  /\ UNCHANGED <<flow, found, missed, service, good, bad>>

\* Nothing is found yet, or an error ends an ecosystem's command: its results
\* are not shown.  The service may have a project whose answer was the error.
Abort ==
  /\ ended = "no" /\ ended' = "failure"
  /\ flow = "projects" => found = {}
  /\ good' = {} /\ bad' = {}
  /\ UNCHANGED service \/ \E r \in Unsettled : Served(r)
  /\ UNCHANGED <<flow, found, missed>>

Next == Find \/ Serve \/ Settle \/ Conclude \/ Abort

Spec == Init /\ [][Next]_vars
=============================================================================
