------------------------------- MODULE FixProofs ------------------------------
(***************************************************************************)
(* Proofs about vulnmap fix: the summary of its plugins and handlers       *)
(* (VulnmapFix), the changes of requirements files (PipRequirements) and   *)
(* the search for them (PipProvenance).                                    *)
(***************************************************************************)
EXTENDS MCFix, SequenceTheorems, TLAPS

------------------------------------------------------------------------------
(* Plugins and handlers *)

Python == {"pip", "poetry"}

ListsType == [succeeded : SUBSET Projects, failed : SUBSET Projects, skipped : SUBSET Projects]
HandlerType == {"idle", "partition", "tool", "fix", "ended"}
ResponseType == [succeeded : SUBSET Projects, failed : SUBSET Projects]

\* A scan type that was not begun has nothing to show, nor has one without a plugin.
NotBegun(s) ==
  task[s] = "waiting" \/ s = "npm" => /\ lists[s] = NoLists
                         /\ \A h \in Handlers : handler[s][h] = "idle" /\ response[s][h] = NoFix

\* The projects without a handler are skipped, those that cannot be fixed are
\* once the handler partitioned them, and all of its projects are in a list when
\* the handler has ended.
Listed(s) ==
  task[s] # "waiting" /\ s \in Python =>
    /\ {p \in GroupEntitiesPerScanType(s) : GetHandlerType(p) = "none"} \subseteq lists[s].skipped
    /\ \A h \in Handlers :
         /\ handler[s][h] # "idle"
         /\ handler[s][h] \in {"tool", "fix"} =>
              MapEntitiesPerHandlerType(s, h) \ PartitionByFixable(s, h) \subseteq lists[s].skipped
         /\ handler[s][h] = "ended" => MapEntitiesPerHandlerType(s, h) \subseteq ListsOf(lists[s])

\* Nothing else is in a list.
OwnProjects(s) ==
  /\ ListsOf(lists[s]) \subseteq GroupEntitiesPerScanType(s)
  /\ \A h \in Handlers :
       response[s][h].succeeded \cup response[s][h].failed \subseteq PartitionByFixable(s, h)

Ended(s) ==
  /\ task[s] # "waiting" => GroupEntitiesPerScanType(s) # {}
  /\ task[s] = "ended" /\ s \in Python => \A h \in Handlers : handler[s][h] = "ended"
  /\ s \in exceptions <=> s = "npm" /\ task[s] = "ended"
  /\ s = "npm" => task[s] # "running"

\* The results are those of a scan type that has ended.
ResultsOf ==
  \/ results = Missing /\ \A s \in Python : task[s] # "ended"
  \/ \E s \in Python : task[s] = "ended" /\ results = lists[s]

\* What is reported as fixed is on the disk, or through a project that is.
Applied ==
  IF dryRun THEN applied = {}
  ELSE /\ \A s \in ScanTypes : /\ lists[s].succeeded \subseteq applied \cup through
                                /\ \A h \in Handlers : response[s][h].succeeded \subseteq applied \cup through
       /\ through # {} => applied # {}

AllEnded == outcome # "none" => \A s \in ScanTypes : task[s] = "ended" \/ GroupEntitiesPerScanType(s) = {}

GroupInv(s) == NotBegun(s) /\ Listed(s) /\ OwnProjects(s) /\ Ended(s)

FixInv == TypeOK /\ (\A s \in ScanTypes : GroupInv(s)) /\ ResultsOf /\ Applied /\ AllEnded

\* What a step leaves of the groups when it changes no input.
LEMMA SameGroups ==
  ASSUME UNCHANGED inputs
  PROVE  /\ \A s : GroupEntitiesPerScanType(s)' = GroupEntitiesPerScanType(s)
         /\ \A p : GetHandlerType(p)' = GetHandlerType(p)
         /\ \A s, h : /\ MapEntitiesPerHandlerType(s, h)' = MapEntitiesPerHandlerType(s, h)
                      /\ PartitionByFixable(s, h)' = PartitionByFixable(s, h)
  BY DEF inputs, GroupEntitiesPerScanType, PartitionByVulnerable, GetHandlerType, GetTypeFromPackageManager,
         MapEntitiesPerHandlerType, PartitionByFixable

LEMMA GroupsWithin ==
  /\ \A s : GroupEntitiesPerScanType(s) \subseteq Projects
  /\ \A s, h : /\ MapEntitiesPerHandlerType(s, h) \subseteq GroupEntitiesPerScanType(s)
               /\ PartitionByFixable(s, h) \subseteq MapEntitiesPerHandlerType(s, h)
  BY DEF GroupEntitiesPerScanType, PartitionByVulnerable, MapEntitiesPerHandlerType, PartitionByFixable

\* What an action may do to the lists of a scan type and to the state of a
\* handler, pointwise.
LEMMA ListsAt ==
  ASSUME TypeOK, NEW s \in ScanTypes, NEW l \in ListsType,
         lists' = [lists EXCEPT ![s] = l]
  PROVE  /\ lists' \in [ScanTypes -> ListsType]
         /\ lists'[s] = l
         /\ \A t \in ScanTypes \ {s} : lists'[t] = lists[t]
  BY DEF TypeOK, ListsType

LEMMA HandlerAt ==
  ASSUME TypeOK, NEW s \in ScanTypes, NEW h \in Handlers, NEW from, NEW to \in HandlerType,
         At(s, h, from, to)
  PROVE  /\ handler' \in [ScanTypes -> [Handlers -> HandlerType]]
         /\ handler'[s][h] = to /\ handler[s][h] = from
         /\ \A t \in ScanTypes, i \in Handlers : t # s \/ i # h => handler'[t][i] = handler[t][i]
  BY DEF TypeOK, HandlerType, At

LEMMA UnsupportedTypeStep ==
  ASSUME FixInv, NEW s \in ScanTypes, UnsupportedType(s)  PROVE FixInv'
  <1> USE SameGroups DEF FixInv, UnsupportedType
  <1>1. s = "npm"
    BY DEF ScanTypes
  <1>2. TypeOK'
    BY DEF TypeOK, inputs
  <1>3. /\ task'[s] = "ended" /\ task[s] = "waiting" 
        /\ \A t \in ScanTypes : t # s => task'[t] = task[t]
    BY DEF TypeOK
  <1>4. (\A t \in ScanTypes : GroupInv(t))'
    BY <1>1, <1>3 DEF GroupInv, NotBegun, Listed, OwnProjects, Ended, Python
  <1>5. ResultsOf'
    BY <1>1, <1>3 DEF ResultsOf, Python, ScanTypes
  <1>6. Applied'
    BY DEF Applied, inputs
  <1>7. AllEnded'
    BY <1>3 DEF AllEnded
  <1> QED  BY <1>2, <1>4, <1>5, <1>6, <1>7

LEMMA StartPluginStep ==
  ASSUME FixInv, NEW s \in ScanTypes, StartPlugin(s)  PROVE FixInv'
  <1> USE SameGroups DEF FixInv, StartPlugin
  <1> DEFINE none == {p \in GroupEntitiesPerScanType(s) : GetHandlerType(p) = "none"}
             l == [lists[s] EXCEPT !.skipped = none]
  <1>1. s \in Python /\ task[s] = "waiting"
    BY DEF Python
  <1>2. /\ task' \in [ScanTypes -> {"waiting", "running", "ended"}]
        /\ task'[s] = "running" /\ \A t \in ScanTypes : t # s => task'[t] = task[t]
    BY DEF TypeOK
  <1>3. lists[s] = NoLists /\ \A h \in Handlers : response[s][h] = NoFix
    BY <1>1 DEF GroupInv, NotBegun
  <1>4. none \subseteq GroupEntitiesPerScanType(s) /\ GroupEntitiesPerScanType(s) \subseteq Projects
    BY GroupsWithin
  <1>5. l = [succeeded |-> {}, failed |-> {}, skipped |-> none]
    BY <1>3 DEF NoLists
  <1>6. lists' = [lists EXCEPT ![s] = l]
    OBVIOUS
  <1>7. /\ lists' \in [ScanTypes -> ListsType]
        /\ lists'[s] = l /\ \A t \in ScanTypes \ {s} : lists'[t] = lists[t]
    <2> HIDE DEF none, l
    <2>1. l \in ListsType
      BY <1>4, <1>5 DEF ListsType
    <2> QED  BY <2>1, <1>6, ListsAt
  <1>8. /\ handler' \in [ScanTypes -> [Handlers -> HandlerType]]
        /\ \A h \in Handlers : handler'[s][h] = IF MapEntitiesPerHandlerType(s, h) = {} THEN "ended" ELSE "partition"
        /\ \A t \in ScanTypes \ {s} : handler'[t] = handler[t]
    BY DEF TypeOK, HandlerType
  <1> HIDE DEF none, l, StartPlugin
  <1>9. UNCHANGED <<inputs, response, results, exceptions, applied, through, outcome>> /\ GroupEntitiesPerScanType(s) # {}
    BY DEF StartPlugin
  <1>10. TypeOK'
    <2>1. results' = Missing \/ results' \in {lists'[t] : t \in {"pip", "poetry"}}
      <3>1. results = Missing \/ \E t \in Python : task[t] = "ended" /\ results = lists[t]
        BY DEF ResultsOf
      <3>2. \A t \in Python : task[t] = "ended" => t \in ScanTypes \ {s}
        BY <1>1 DEF Python, ScanTypes
      <3>3. \A t \in Python : task[t] = "ended" => lists'[t] = lists[t]
        BY <3>2, <1>7
      <3> QED  BY <3>1, <3>3, <1>9 DEF Python
    <2> QED  BY <2>1, <1>2, <1>7, <1>8, <1>9 DEF TypeOK, inputs, ListsType, HandlerType
  <1>11. ASSUME NEW t \in ScanTypes  PROVE GroupInv(t)'
    <2>1. CASE t # s
      <3>1. GroupInv(t)
        OBVIOUS
      <3>2. lists'[t] = lists[t] /\ handler'[t] = handler[t] /\ task'[t] = task[t]
        BY <2>1, <1>2, <1>7, <1>8
      <3> QED  BY <3>1, <3>2, <1>9 DEF GroupInv, NotBegun, Listed, OwnProjects, Ended
    <2>2. CASE t = s
      <3>1. Listed(s)'
        BY <1>1, <1>2, <1>5, <1>7, <1>8, <1>9 DEF Listed, none, ListsOf
      <3>2. OwnProjects(s)'
        <4>1. ListsOf(lists'[s]) = none
          BY <1>5, <1>7 DEF ListsOf
        <4>2. \A h \in Handlers : response'[s][h].succeeded \cup response'[s][h].failed = {}
          BY <1>3, <1>9 DEF NoFix
        <4> QED  BY <4>1, <4>2, <1>4, <1>9 DEF OwnProjects
      <3>3. Ended(s)'
        BY <1>1, <1>2, <1>9 DEF GroupInv, Ended, Python
      <3> QED  BY <2>2, <3>1, <3>2, <3>3, <1>1, <1>2 DEF GroupInv, NotBegun, Python
    <2> QED  BY <2>1, <2>2
  <1>12. ResultsOf'
    BY <1>1, <1>2, <1>7, <1>9 DEF ResultsOf, Python, ScanTypes
  <1>13. Applied'
    <2>1. \A t \in ScanTypes : lists'[t].succeeded = lists[t].succeeded
      BY <1>3, <1>5, <1>7 DEF NoLists
    <2> QED  BY <2>1, <1>9 DEF Applied, inputs
  <1>14. AllEnded'
    BY <1>1, <1>2, <1>9 DEF AllEnded
  <1> QED  BY <1>10, <1>11, <1>12, <1>13, <1>14

\* A handler that is busy is one of a Python plugin that is running.
LEMMA Busy ==
  ASSUME FixInv, NEW s \in ScanTypes, NEW h \in Handlers, handler[s][h] \notin {"idle", "ended"}
  PROVE  s \in Python /\ task[s] = "running"
  <1>1. NotBegun(s) /\ Ended(s)
    BY DEF FixInv, GroupInv
  <1>2. task[s] # "waiting" /\ s # "npm"
    BY <1>1 DEF NotBegun
  <1> QED  BY <1>1, <1>2 DEF Ended, Python, ScanTypes, FixInv, TypeOK

\* What is left to show of a step of a handler.
LEMMA OneHandler ==
  ASSUME FixInv, NEW s \in ScanTypes, s \in Python, task[s] = "running",
         UNCHANGED <<inputs, task, results, exceptions, outcome>>,
         lists' \in [ScanTypes -> ListsType], handler' \in [ScanTypes -> [Handlers -> HandlerType]],
         response' \in [ScanTypes -> [Handlers -> ResponseType]],
         applied' \subseteq Projects, through' \subseteq Projects,
         \A t \in ScanTypes \ {s} : /\ lists'[t] = lists[t] /\ handler'[t] = handler[t]
                                    /\ response'[t] = response[t],
         Listed(s)', OwnProjects(s)', Applied'
  PROVE  FixInv'
  <1> USE SameGroups DEF FixInv
  <1>1. TypeOK'
    <2>1. results' = Missing \/ results' \in {lists'[t] : t \in {"pip", "poetry"}}
      <3>1. results = Missing \/ \E t \in Python : task[t] = "ended" /\ results = lists[t]
        BY DEF ResultsOf
      <3>2. \A t \in Python : task[t] = "ended" => t \in ScanTypes \ {s}
        BY DEF Python, ScanTypes
      <3> QED  BY <3>1, <3>2 DEF Python
    <2> QED  BY <2>1 DEF TypeOK, inputs, ListsType, HandlerType, ResponseType
  <1>2. ASSUME NEW t \in ScanTypes  PROVE GroupInv(t)'
    <2>1. CASE t # s
      <3>1. GroupInv(t)
        OBVIOUS
      <3> QED  BY <3>1, <2>1 DEF GroupInv, NotBegun, Listed, OwnProjects, Ended
    <2>2. CASE t = s
      <3>1. Ended(s)
        BY DEF GroupInv
      <3>2. Ended(s)'
        BY <3>1 DEF Ended
      <3> QED  BY <2>2, <3>2 DEF GroupInv, NotBegun, Python
    <2> QED  BY <2>1, <2>2
  <1>3. ResultsOf'
    BY DEF ResultsOf, Python, ScanTypes
  <1>4. AllEnded'
    BY DEF AllEnded
  <1> QED  BY <1>1, <1>2, <1>3, <1>4

\* A handler moves on, and something is added to the lists of its scan type.
LEMMA HandlerMoves ==
  ASSUME FixInv, NEW s \in ScanTypes, NEW h \in Handlers,
         NEW from \in HandlerType \ {"idle", "ended"}, NEW to \in HandlerType \ {"idle"}, NEW l \in ListsType,
         At(s, h, from, to), lists' = [lists EXCEPT ![s] = l],
         UNCHANGED <<inputs, task, response, results, exceptions, applied, through, outcome>>,
         lists[s].succeeded \subseteq l.succeeded, lists[s].failed \subseteq l.failed,
         lists[s].skipped \subseteq l.skipped, ListsOf(l) \subseteq GroupEntitiesPerScanType(s),
         l.succeeded \subseteq lists[s].succeeded \cup response[s][h].succeeded,
         to \in {"tool", "fix"} => MapEntitiesPerHandlerType(s, h) \ PartitionByFixable(s, h) \subseteq l.skipped,
         to = "ended" => MapEntitiesPerHandlerType(s, h) \subseteq ListsOf(l)
  PROVE  FixInv'
  <1>1. TypeOK /\ Listed(s) /\ OwnProjects(s) /\ Applied
    BY DEF FixInv, GroupInv
  <1>2. /\ lists' \in [ScanTypes -> ListsType]
        /\ lists'[s] = l /\ \A t \in ScanTypes \ {s} : lists'[t] = lists[t]
    BY <1>1, ListsAt
  <1>3. /\ handler' \in [ScanTypes -> [Handlers -> HandlerType]]
        /\ handler'[s][h] = to /\ handler[s][h] = from
        /\ \A t \in ScanTypes, i \in Handlers : t # s \/ i # h => handler'[t][i] = handler[t][i]
    BY <1>1, HandlerAt
  <1>4. s \in Python /\ task[s] = "running"
    BY <1>3, Busy
  <1>5. \A t \in ScanTypes \ {s} : handler'[t] = handler[t]
    BY <1>1, <1>3 DEF TypeOK, HandlerType
  <1>6. Listed(s)'
    <2>1. ASSUME NEW i \in Handlers
          PROVE  /\ handler'[s][i] # "idle"
                 /\ handler'[s][i] \in {"tool", "fix"} =>
                      MapEntitiesPerHandlerType(s, i) \ PartitionByFixable(s, i) \subseteq l.skipped
                 /\ handler'[s][i] = "ended" => MapEntitiesPerHandlerType(s, i) \subseteq ListsOf(l)
      <3>1. CASE i = h
        BY <3>1, <1>3
      <3>2. CASE i # h
        BY <3>2, <1>1, <1>3, <1>4 DEF Listed, ListsOf
      <3> QED  BY <3>1, <3>2
    <2>2. {p \in GroupEntitiesPerScanType(s) : GetHandlerType(p) = "none"} \subseteq l.skipped
      BY <1>1, <1>4 DEF Listed
    <2> QED  BY <2>1, <2>2, <1>2, SameGroups DEF Listed
  <1>7. OwnProjects(s)'
    BY <1>1, <1>2, SameGroups DEF OwnProjects
  <1>8. Applied'
    <2>1. CASE dryRun
      BY <2>1, <1>1 DEF Applied, inputs
    <2>2. CASE ~dryRun
      <3>1. ASSUME NEW t \in ScanTypes  PROVE lists'[t].succeeded \subseteq applied \cup through
        <4>1. CASE t = s
          BY <4>1, <2>2, <1>1, <1>2 DEF Applied
        <4>2. CASE t # s
          BY <4>2, <2>2, <1>1, <1>2 DEF Applied
        <4> QED  BY <4>1, <4>2
      <3> QED  BY <2>2, <3>1, <1>1 DEF Applied, inputs
    <2> QED  BY <2>1, <2>2, <1>1 DEF TypeOK
  <1>9. response' \in [ScanTypes -> [Handlers -> ResponseType]] /\ applied' \subseteq Projects /\ through' \subseteq Projects
    BY <1>1 DEF TypeOK, ResponseType
  <1> QED  BY <1>2, <1>3, <1>4, <1>5, <1>6, <1>7, <1>8, <1>9, OneHandler

LEMMA PartitionStep ==
  ASSUME FixInv, NEW s \in ScanTypes, NEW h \in Handlers, Partition(s, h)  PROVE FixInv'
  <1> DEFINE notFixable == MapEntitiesPerHandlerType(s, h) \ PartitionByFixable(s, h)
             to == IF h = "requirements" THEN "fix" ELSE "tool"
             l == [lists[s] EXCEPT !.skipped = @ \cup notFixable]
  <1>1. /\ lists[s] \in ListsType /\ ListsOf(lists[s]) \subseteq GroupEntitiesPerScanType(s)
    BY DEF FixInv, GroupInv, TypeOK, OwnProjects, ListsType
  <1>2. At(s, h, "partition", to) /\ to \in {"tool", "fix"} /\ to \in HandlerType \ {"idle"}
    BY DEF Partition, HandlerType
  <1>3. lists' = [lists EXCEPT ![s] = l]
    BY DEF Partition
  <1>4. notFixable \subseteq GroupEntitiesPerScanType(s) /\ notFixable \subseteq Projects
    BY GroupsWithin
  <1> HIDE DEF to
  <1>5. /\ l \in ListsType /\ l.succeeded = lists[s].succeeded /\ l.failed = lists[s].failed
        /\ l.skipped = lists[s].skipped \cup notFixable
    BY <1>1, <1>4 DEF ListsType
  <1>6. UNCHANGED <<inputs, task, response, results, exceptions, applied, through, outcome>>
    BY DEF Partition
  <1> HIDE DEF l
  <1>7. "partition" \in HandlerType \ {"idle", "ended"}
    BY DEF HandlerType
  <1>8. ListsOf(l) \subseteq GroupEntitiesPerScanType(s)
    BY <1>1, <1>4, <1>5 DEF ListsOf
  <1>9. /\ lists[s].succeeded \subseteq l.succeeded /\ lists[s].failed \subseteq l.failed
        /\ lists[s].skipped \subseteq l.skipped
        /\ l.succeeded \subseteq lists[s].succeeded \cup response[s][h].succeeded
        /\ notFixable \subseteq l.skipped /\ to # "ended"
    BY <1>2, <1>5
  <1> QED  BY <1>2, <1>3, <1>5, <1>6, <1>7, <1>8, <1>9, HandlerMoves

LEMMA CheckPackageToolSupportedStep ==
  ASSUME FixInv, NEW s \in ScanTypes, NEW h \in Handlers, CheckPackageToolSupported(s, h)  PROVE FixInv'
  <1>1. At(s, h, "tool", "fix") /\ handler[s][h] = "tool"
    BY DEF CheckPackageToolSupported, At
  <1>2. s \in Python /\ task[s] = "running"
    BY <1>1, Busy
  <1>3. /\ lists[s] \in ListsType /\ ListsOf(lists[s]) \subseteq GroupEntitiesPerScanType(s)
        /\ MapEntitiesPerHandlerType(s, h) \ PartitionByFixable(s, h) \subseteq lists[s].skipped
    BY <1>1, <1>2 DEF FixInv, GroupInv, TypeOK, OwnProjects, Listed, ListsType
  <1>4. lists' = [lists EXCEPT ![s] = lists[s]]
    BY DEF CheckPackageToolSupported, FixInv, TypeOK
  <1>5. "tool" \in HandlerType \ {"idle", "ended"} /\ "fix" \in HandlerType \ {"idle"}
    BY DEF HandlerType
  <1>6. UNCHANGED <<inputs, task, response, results, exceptions, applied, through, outcome>>
    BY DEF CheckPackageToolSupported
  <1> QED  BY <1>1, <1>3, <1>4, <1>5, <1>6, HandlerMoves

LEMMA HandlerThrowsStep ==
  ASSUME FixInv, NEW s \in ScanTypes, NEW h \in Handlers, HandlerThrows(s, h)  PROVE FixInv'
  <1> DEFINE l == [lists[s] EXCEPT !.failed = @ \cup MapEntitiesPerHandlerType(s, h)]
  <1>1. /\ lists[s] \in ListsType /\ ListsOf(lists[s]) \subseteq GroupEntitiesPerScanType(s)
    BY DEF FixInv, GroupInv, TypeOK, OwnProjects, ListsType
  <1>2. PICK from \in {"tool", "fix"} : At(s, h, from, "ended")
    BY DEF HandlerThrows
  <1>3. lists' = [lists EXCEPT ![s] = l]
    BY DEF HandlerThrows
  <1>4. MapEntitiesPerHandlerType(s, h) \subseteq GroupEntitiesPerScanType(s) /\ GroupEntitiesPerScanType(s) \subseteq Projects
    BY GroupsWithin
  <1>5. /\ l \in ListsType /\ l.succeeded = lists[s].succeeded /\ l.skipped = lists[s].skipped
        /\ l.failed = lists[s].failed \cup MapEntitiesPerHandlerType(s, h)
    BY <1>1, <1>4 DEF ListsType
  <1>6. UNCHANGED <<inputs, task, response, results, exceptions, applied, through, outcome>>
    BY DEF HandlerThrows
  <1> HIDE DEF l
  <1>7. from \in HandlerType \ {"idle", "ended"} /\ "ended" \in HandlerType \ {"idle"}
    BY DEF HandlerType
  <1>8. ListsOf(l) \subseteq GroupEntitiesPerScanType(s) /\ MapEntitiesPerHandlerType(s, h) \subseteq ListsOf(l)
    BY <1>1, <1>4, <1>5 DEF ListsOf
  <1>9. /\ lists[s].succeeded \subseteq l.succeeded /\ lists[s].failed \subseteq l.failed
        /\ lists[s].skipped \subseteq l.skipped
        /\ l.succeeded \subseteq lists[s].succeeded \cup response[s][h].succeeded
    BY <1>5
  <1> QED  BY <1>2, <1>3, <1>5, <1>6, <1>7, <1>8, <1>9, HandlerMoves

LEMMA HandlerReturnsStep ==
  ASSUME FixInv, NEW s \in ScanTypes, NEW h \in Handlers, HandlerReturns(s, h)  PROVE FixInv'
  <1> DEFINE l == [lists[s] EXCEPT !.failed = @ \cup response[s][h].failed,
                                   !.succeeded = @ \cup response[s][h].succeeded]
  <1>1. At(s, h, "fix", "ended") /\ handler[s][h] = "fix"
    BY DEF HandlerReturns, At
  <1>2. s \in Python /\ task[s] = "running"
    BY <1>1, Busy
  <1>3. /\ lists[s] \in ListsType /\ ListsOf(lists[s]) \subseteq GroupEntitiesPerScanType(s)
        /\ response[s][h] \in ResponseType
        /\ MapEntitiesPerHandlerType(s, h) \ PartitionByFixable(s, h) \subseteq lists[s].skipped
    BY <1>1, <1>2 DEF FixInv, GroupInv, TypeOK, OwnProjects, Listed, ListsType, ResponseType
  <1>4. lists' = [lists EXCEPT ![s] = l]
    BY DEF HandlerReturns
  <1>5. /\ PartitionByFixable(s, h) = response[s][h].succeeded \cup response[s][h].failed
        /\ PartitionByFixable(s, h) \subseteq GroupEntitiesPerScanType(s)
    BY GroupsWithin DEF HandlerReturns
  <1>6. /\ l \in ListsType /\ l.skipped = lists[s].skipped
        /\ l.succeeded = lists[s].succeeded \cup response[s][h].succeeded
        /\ l.failed = lists[s].failed \cup response[s][h].failed
    BY <1>3 DEF ListsType, ResponseType
  <1>7. UNCHANGED <<inputs, task, response, results, exceptions, applied, through, outcome>>
    BY DEF HandlerReturns
  <1> HIDE DEF l
  <1>8. "fix" \in HandlerType \ {"idle", "ended"} /\ "ended" \in HandlerType \ {"idle"}
    BY DEF HandlerType
  <1>9. ListsOf(l) \subseteq GroupEntitiesPerScanType(s) /\ MapEntitiesPerHandlerType(s, h) \subseteq ListsOf(l)
    BY <1>3, <1>5, <1>6 DEF ListsOf
  <1>10. /\ lists[s].succeeded \subseteq l.succeeded /\ lists[s].failed \subseteq l.failed
         /\ lists[s].skipped \subseteq l.skipped
         /\ l.succeeded \subseteq lists[s].succeeded \cup response[s][h].succeeded
    BY <1>6
  <1> QED  BY <1>1, <1>4, <1>6, <1>7, <1>8, <1>9, <1>10, HandlerMoves

\* A handler has put a project into its result, and perhaps applied a fix.
LEMMA ReportStep ==
  ASSUME FixInv, NEW s \in ScanTypes, NEW h \in Handlers, NEW p \in Projects, NEW list \in {"succeeded", "failed"},
         Unprocessed(s, h, p), Report(s, h, list, p),
         applied \subseteq applied', applied' \subseteq Projects, through \subseteq through', through' \subseteq Projects,
         dryRun => applied' = applied, ~dryRun /\ through' # {} => applied' # {},
         ~dryRun /\ list = "succeeded" => p \in applied' \cup through'
  PROVE  FixInv'
  <1>1. TypeOK /\ Listed(s) /\ OwnProjects(s) /\ Applied
    BY DEF FixInv, GroupInv
  <1>2. s \in Python /\ task[s] = "running"
    BY Busy DEF Unprocessed
  <1>3. UNCHANGED <<inputs, task, handler, lists, results, exceptions, outcome>>
    BY DEF Report
  <1>4. response \in [ScanTypes -> [Handlers -> ResponseType]]
    BY <1>1 DEF TypeOK, ResponseType
  <1>5. PICK r \in ResponseType :
          /\ response' = [response EXCEPT ![s][h] = r]
          /\ r.succeeded = response[s][h].succeeded \cup (IF list = "succeeded" THEN {p} ELSE {})
          /\ r.failed = response[s][h].failed \cup (IF list = "succeeded" THEN {} ELSE {p})
    <2>1. CASE list = "succeeded"
      <3> DEFINE r == [response[s][h] EXCEPT !.succeeded = @ \cup {p}]
      <3>1. response' = [response EXCEPT ![s][h] = r]
        BY <2>1 DEF Report
      <3>2. r \in ResponseType /\ r.succeeded = response[s][h].succeeded \cup {p} /\ r.failed = response[s][h].failed
        BY <1>4 DEF ResponseType
      <3> QED  BY <2>1, <3>1, <3>2
    <2>2. CASE list = "failed"
      <3> DEFINE r == [response[s][h] EXCEPT !.failed = @ \cup {p}]
      <3>1. response' = [response EXCEPT ![s][h] = r]
        BY <2>2 DEF Report
      <3>2. r \in ResponseType /\ r.failed = response[s][h].failed \cup {p} /\ r.succeeded = response[s][h].succeeded
        BY <1>4 DEF ResponseType
      <3> QED  BY <2>2, <3>1, <3>2
    <2> QED  BY <2>1, <2>2
  <1>6. /\ response' \in [ScanTypes -> [Handlers -> ResponseType]]
        /\ response'[s][h] = r
        /\ \A t \in ScanTypes, i \in Handlers : t # s \/ i # h => response'[t][i] = response[t][i]
        /\ \A t \in ScanTypes \ {s} : response'[t] = response[t]
    BY <1>4, <1>5
  <1>7. p \in PartitionByFixable(s, h)
    BY DEF Unprocessed
  <1>8. OwnProjects(s)'
    <2>1. ASSUME NEW i \in Handlers  PROVE response'[s][i].succeeded \cup response'[s][i].failed \subseteq PartitionByFixable(s, i)
      <3>1. CASE i = h
        BY <3>1, <1>1, <1>5, <1>6, <1>7 DEF OwnProjects
      <3>2. CASE i # h
        BY <3>2, <1>1, <1>6 DEF OwnProjects
      <3> QED  BY <3>1, <3>2
    <2> QED  BY <2>1, <1>1, <1>3, SameGroups DEF OwnProjects
  <1>9. Listed(s)'
    BY <1>1, <1>3, SameGroups DEF Listed
  <1>10. Applied'
    <2>1. CASE dryRun
      BY <2>1, <1>1, <1>3 DEF Applied, inputs
    <2>2. CASE ~dryRun
      <3>1. ASSUME NEW t \in ScanTypes, NEW i \in Handlers
            PROVE  response'[t][i].succeeded \subseteq applied' \cup through'
        <4>1. response[t][i].succeeded \subseteq applied' \cup through'
          BY <2>2, <1>1 DEF Applied
        <4>2. CASE t = s /\ i = h
          BY <4>1, <4>2, <2>2, <1>5, <1>6
        <4>3. CASE t # s \/ i # h
          BY <4>1, <4>3, <1>6
        <4> QED  BY <4>2, <4>3
      <3>2. ASSUME NEW t \in ScanTypes  PROVE lists'[t].succeeded \subseteq applied' \cup through'
        BY <2>2, <1>1, <1>3 DEF Applied
      <3> QED  BY <3>1, <3>2, <2>2, <1>3 DEF Applied, inputs
    <2> QED  BY <2>1, <2>2, <1>1 DEF TypeOK
  <1>11. lists' \in [ScanTypes -> ListsType] /\ handler' \in [ScanTypes -> [Handlers -> HandlerType]]
    BY <1>1, <1>3 DEF TypeOK, ListsType, HandlerType
  <1> QED  BY <1>2, <1>3, <1>6, <1>8, <1>9, <1>10, <1>11, OneHandler

LEMMA FixSucceedsStep ==
  ASSUME FixInv, NEW s \in ScanTypes, NEW h \in Handlers, NEW p \in Projects, FixSucceeds(s, h, p)  PROVE FixInv'
  <1>1. applied \subseteq Projects /\ through \subseteq Projects /\ dryRun \in BOOLEAN /\ Applied
    BY DEF FixInv, TypeOK
  <1>2. applied' = (IF dryRun THEN applied ELSE applied \cup {p}) /\ through' = through
    BY DEF FixSucceeds, ApplyFix
  <1>3. Unprocessed(s, h, p) /\ Report(s, h, "succeeded", p)
    BY DEF FixSucceeds
  <1> QED  BY <1>1, <1>2, <1>3, ReportStep

LEMMA FixFailsStep ==
  ASSUME FixInv, NEW s \in ScanTypes, NEW h \in Handlers, NEW p \in Projects, FixFails(s, h, p)  PROVE FixInv'
  <1>1. applied \subseteq Projects /\ through \subseteq Projects /\ dryRun \in BOOLEAN
    BY DEF FixInv, TypeOK
  <1>2. applied' = applied \/ applied' = (IF dryRun THEN applied ELSE applied \cup {p})
    BY DEF FixFails, ApplyFix
  <1>3. Unprocessed(s, h, p) /\ Report(s, h, "failed", p) /\ through' = through
    BY DEF FixFails
  <1>4. ~dryRun /\ through # {} => applied # {}
    BY DEF FixInv, Applied
  <1> QED  BY <1>1, <1>2, <1>3, <1>4, ReportStep

LEMMA FixedThroughStep ==
  ASSUME FixInv, NEW s \in ScanTypes, NEW h \in Handlers, NEW p \in Projects, FixedThrough(s, h, p)  PROVE FixInv'
  <1>1. applied \subseteq Projects /\ through \subseteq Projects
    BY DEF FixInv, TypeOK
  <1>2. /\ applied' = applied /\ through' = through \cup {p} /\ response[s][h].succeeded # {}
        /\ Unprocessed(s, h, p) /\ Report(s, h, "succeeded", p)
    BY DEF FixedThrough
  <1>3. ~dryRun => applied # {}
    BY <1>2 DEF FixInv, Applied
  <1> QED  BY <1>1, <1>2, <1>3, ReportStep

LEMMA PluginReturnsStep ==
  ASSUME FixInv, NEW s \in ScanTypes, PluginReturns(s)  PROVE FixInv'
  <1>1. /\ task[s] = "running" /\ \A h \in Handlers : handler[s][h] = "ended"
        /\ task' = [task EXCEPT ![s] = "ended"] /\ results' = lists[s]
        /\ UNCHANGED <<inputs, handler, response, lists, exceptions, applied, through, outcome>>
    BY DEF PluginReturns
  <1>2. TypeOK /\ (\A t \in ScanTypes : GroupInv(t)) /\ Applied /\ AllEnded
    BY DEF FixInv
  <1>3. s \in Python
    BY <1>1, <1>2 DEF GroupInv, Ended, ScanTypes, Python
  <1>4. /\ task' \in [ScanTypes -> {"waiting", "running", "ended"}]
        /\ task'[s] = "ended" /\ \A t \in ScanTypes : t # s => task'[t] = task[t]
    BY <1>1, <1>2 DEF TypeOK
  <1>5. TypeOK'
    BY <1>1, <1>2, <1>3, <1>4 DEF TypeOK, inputs, Python
  <1>6. ASSUME NEW t \in ScanTypes  PROVE GroupInv(t)'
    <2>1. GroupInv(t)
      BY <1>2
    <2>2. task'[t] # "waiting" <=> task[t] # "waiting"
      BY <1>1, <1>4
    <2>3. NotBegun(t)' /\ Listed(t)' /\ OwnProjects(t)'
      BY <2>1, <2>2, <1>1, SameGroups DEF GroupInv, NotBegun, Listed, OwnProjects
    <2>4. Ended(t)'
      BY <2>1, <1>1, <1>3, <1>4, SameGroups DEF GroupInv, Ended, Python
    <2> QED  BY <2>3, <2>4 DEF GroupInv
  <1>7. ResultsOf'
    BY <1>1, <1>3, <1>4 DEF ResultsOf
  <1>8. Applied'
    BY <1>1, <1>2 DEF Applied, inputs
  <1>9. AllEnded'
    BY <1>1, <1>2, <1>4, SameGroups DEF AllEnded
  <1> QED  BY <1>5, <1>6, <1>7, <1>8, <1>9 DEF FixInv

LEMMA FinishStep == ASSUME FixInv, Finish  PROVE FixInv'
  <1>1. /\ \A s \in ScanTypes : task[s] = "ended" \/ GroupEntitiesPerScanType(s) = {}
        /\ outcome' \in {"summary", "error"}
        /\ UNCHANGED <<inputs, task, handler, response, lists, results, exceptions, applied, through>>
    BY DEF Finish
  <1>2. TypeOK'
    BY <1>1 DEF FixInv, TypeOK, inputs
  <1>3. (\A s \in ScanTypes : GroupInv(s))' /\ ResultsOf' /\ Applied'
    BY <1>1, SameGroups DEF FixInv, GroupInv, NotBegun, Listed, OwnProjects, Ended, ResultsOf, Applied, inputs
  <1>4. AllEnded'
    BY <1>1, SameGroups DEF AllEnded
  <1> QED  BY <1>2, <1>3, <1>4 DEF FixInv

LEMMA FixBegins == ASSUME Init  PROVE FixInv
  <1>1. TypeOK
    BY DEF Init, TypeOK, NoLists, NoFix
  <1>2. ASSUME NEW s \in ScanTypes  PROVE GroupInv(s)
    <2>1. task[s] = "waiting" /\ lists[s] = NoLists /\ exceptions = {} /\ \A h \in Handlers : handler[s][h] = "idle" /\ response[s][h] = NoFix
      BY DEF Init
    <2> QED  BY <2>1 DEF GroupInv, NotBegun, Listed, OwnProjects, Ended, NoLists, NoFix, ListsOf
  <1>3. ResultsOf
    BY DEF Init, ResultsOf, Python, ScanTypes
  <1>4. Applied
    BY DEF Init, Applied, NoLists, NoFix
  <1>5. AllEnded
    BY DEF Init, AllEnded
  <1> QED  BY <1>1, <1>2, <1>3, <1>4, <1>5 DEF FixInv

LEMMA FixStep == ASSUME FixInv, [Next]_vars  PROVE FixInv'
  <1>1. CASE UNCHANGED vars
    <2>1. TypeOK'
      BY <1>1 DEF FixInv, TypeOK, vars, inputs
    <2> QED  BY <1>1, <2>1, SameGroups
              DEF FixInv, GroupInv, NotBegun, Listed, OwnProjects, Ended, ResultsOf, Applied, AllEnded, vars, inputs
  <1>2. ASSUME NEW s \in ScanTypes, NEW h \in Handlers, HandlerStep(s, h)  PROVE FixInv'
    BY <1>2, PartitionStep, CheckPackageToolSupportedStep, HandlerThrowsStep, HandlerReturnsStep, FixSucceedsStep,
       FixFailsStep, FixedThroughStep DEF HandlerStep
  <1>3. ASSUME NEW s \in ScanTypes, UnsupportedType(s) \/ StartPlugin(s) \/ PluginReturns(s)  PROVE FixInv'
    BY <1>3, UnsupportedTypeStep, StartPluginStep, PluginReturnsStep
  <1> QED  BY <1>1, <1>2, <1>3, FinishStep DEF Next

\* A vulnerable project is in the group of a scan type, and has a handler or none.
LEMMA EveryProjectGrouped ==
  ASSUME TypeOK, NEW p \in PartitionByVulnerable
  PROVE  /\ \E s \in ScanTypes : p \in GroupEntitiesPerScanType(s)
         /\ GetHandlerType(p) \in Handlers \cup {"none"}
  <1>1. p \in Projects /\ project[p] \in Tested
    BY DEF PartitionByVulnerable, TypeOK
  <1>2. project[p].type \in ScanTypes
    BY <1>1 DEF Tested
  <1>3. GetHandlerType(p) \in Handlers \cup {"none"}
    BY DEF GetHandlerType, GetTypeFromPackageManager, Handlers
  <1> QED  BY <1>2, <1>3 DEF GroupEntitiesPerScanType

\* A plugin that has returned has every project of its group in a list.
LEMMA EndedIsListed ==
  ASSUME FixInv, NEW s \in Python, task[s] = "ended"
  PROVE  /\ ListsOf(lists[s]) = GroupEntitiesPerScanType(s) /\ GroupEntitiesPerScanType(s) # {}
         /\ lists[s] # Missing
  <1>1. s \in ScanTypes /\ GroupInv(s) /\ TypeOK
    BY DEF FixInv, Python, ScanTypes
  <1>2. /\ ListsOf(lists[s]) \subseteq GroupEntitiesPerScanType(s) /\ GroupEntitiesPerScanType(s) # {}
        /\ {p \in GroupEntitiesPerScanType(s) : GetHandlerType(p) = "none"} \subseteq lists[s].skipped
        /\ \A h \in Handlers : MapEntitiesPerHandlerType(s, h) \subseteq ListsOf(lists[s])
    BY <1>1 DEF GroupInv, OwnProjects, Ended, Listed
  <1>3. ASSUME NEW p \in GroupEntitiesPerScanType(s)  PROVE p \in ListsOf(lists[s])
    <2>1. GetHandlerType(p) \in Handlers \cup {"none"}
      BY <1>1, EveryProjectGrouped DEF GroupEntitiesPerScanType
    <2>2. CASE GetHandlerType(p) = "none"
      BY <2>2, <1>2 DEF ListsOf
    <2>3. CASE GetHandlerType(p) \in Handlers
      BY <2>3, <1>2 DEF MapEntitiesPerHandlerType
    <2> QED  BY <2>1, <2>2, <2>3
  <1>4. lists[s].skipped \subseteq Projects
    BY <1>1 DEF TypeOK
  <1>5. lists[s] # Missing
    BY <1>4, MissingAssumption DEF Missing
  <1> QED  BY <1>2, <1>3, <1>5

LEMMA FixInvSummary == ASSUME FixInv  PROVE EveryProjectReported /\ SucceededIsApplied
  <1>1. TypeOK /\ ResultsOf /\ Applied /\ AllEnded /\ \A s \in ScanTypes : Ended(s)
    BY DEF FixInv, GroupInv
  <1>2. /\ results = Missing => Reported = NoLists
        /\ \A s \in Python : task[s] = "ended" /\ results = lists[s] => Reported = lists[s]
    BY EndedIsListed DEF Reported
  <1>3. EveryProjectReported
    <2> SUFFICES ASSUME outcome # "none",
                        GroupEntitiesPerScanType("pip") = {} \/ GroupEntitiesPerScanType("poetry") = {}
                 PROVE  PartitionByVulnerable =
                          ListsOf(Reported) \cup UNION {GroupEntitiesPerScanType(s) : s \in exceptions}
      BY DEF EveryProjectReported
    <2>1. \A s \in ScanTypes : task[s] = "ended" \/ GroupEntitiesPerScanType(s) = {}
      BY <1>1 DEF AllEnded
    <2>2. PartitionByVulnerable = GroupEntitiesPerScanType("pip") \cup GroupEntitiesPerScanType("poetry")
                                    \cup GroupEntitiesPerScanType("npm")
      <3>1. PartitionByVulnerable \subseteq UNION {GroupEntitiesPerScanType(s) : s \in ScanTypes}
        BY <1>1, EveryProjectGrouped
      <3> QED  BY <3>1 DEF ScanTypes, GroupEntitiesPerScanType
    <2>3. UNION {GroupEntitiesPerScanType(s) : s \in exceptions} = GroupEntitiesPerScanType("npm")
      <3>1. \A s \in exceptions : s = "npm"
        BY <1>1 DEF Ended, TypeOK
      <3>2. "npm" \in exceptions \/ GroupEntitiesPerScanType("npm") = {}
        BY <1>1, <2>1 DEF Ended, ScanTypes
      <3> QED  BY <3>1, <3>2
    <2>4. ListsOf(Reported) = GroupEntitiesPerScanType("pip") \cup GroupEntitiesPerScanType("poetry")
      <3>1. CASE results = Missing /\ \A s \in Python : task[s] # "ended"
        <4>1. GroupEntitiesPerScanType("pip") = {} /\ GroupEntitiesPerScanType("poetry") = {}
          BY <3>1, <2>1 DEF Python, ScanTypes
        <4> QED  BY <3>1, <4>1, <1>2 DEF ListsOf, NoLists
      <3>2. ASSUME NEW s \in Python, task[s] = "ended", results = lists[s]
            PROVE  ListsOf(Reported) = GroupEntitiesPerScanType("pip") \cup GroupEntitiesPerScanType("poetry")
        <4>1. ListsOf(Reported) = GroupEntitiesPerScanType(s) /\ GroupEntitiesPerScanType(s) # {}
          BY <3>2, <1>2, EndedIsListed
        <4> QED  BY <4>1 DEF Python
      <3> QED  BY <3>1, <3>2, <1>1 DEF ResultsOf
    <2> QED  BY <2>2, <2>3, <2>4
  <1>4. SucceededIsApplied
    <2>1. CASE dryRun
      BY <2>1, <1>1 DEF Applied, SucceededIsApplied
    <2>2. CASE ~dryRun
      <3>1. CASE Reported = NoLists
        BY <3>1, <2>2 DEF SucceededIsApplied, NoLists
      <3>2. ASSUME NEW s \in Python, Reported = lists[s]  PROVE SucceededIsApplied
        BY <3>2, <2>2, <1>1 DEF SucceededIsApplied, Applied, Python, ScanTypes
      <3> QED  BY <3>1, <3>2, <1>1, <1>2 DEF ResultsOf
    <2> QED  BY <2>1, <2>2, <1>1 DEF TypeOK
  <1> QED  BY <1>3, <1>4

\* Whatever the projects, the order in which plugins and handlers get on and
\* what fails in them: the summary has every vulnerable project, and one that
\* it lists as fixed is.
THEOREM SummaryAlwaysTrue == FixSpec => []SummaryIsTrue
  <1> DEFINE Inv == part = "fix" => FixInv
  <1>1. FixInit => Inv
    BY FixBegins DEF FixInit
  <1>2. Inv /\ [FixNext]_<<part, vars, provenanceVars, requirementsVars>> => Inv'
    <2> SUFFICES ASSUME Inv, [FixNext]_<<part, vars, provenanceVars, requirementsVars>>, part' = "fix"
                 PROVE  FixInv'
      OBVIOUS
    <2>1. part = "fix" /\ [Next]_vars
      BY DEF FixNext
    <2> QED  BY <2>1, FixStep
  <1>3. Inv => SummaryIsTrue
    BY FixInvSummary DEF SummaryIsTrue
  <1> QED  BY <1>1, <1>2, <1>3, PTL DEF FixSpec

------------------------------------------------------------------------------
(* Requirements files *)

RequirementsTypeOK ==
  /\ target \in [PipProjects -> PipFiles] /\ pins \in [PipProjects -> SUBSET Packages]
  /\ requires \in [PipFiles -> SUBSET PipFiles]
  /\ constraint \in [PipFiles -> PipFiles \cup {None}]
  /\ \A f \in PipFiles : constraint[f] \in requires[f] \cup {None}
  /\ pipDryRun \in BOOLEAN
  /\ Requirements!TypeOK

\* The project being fixed: an upgraded package is at its new version in a file,
\* and only files yet to be upgraded have one at the old version.
Upgraded ==
  current # None /\ ~pipDryRun =>
    /\ upgraded \subseteq pins[current]
    /\ \A k \in upgraded : \E f \in Requirements!Provenance(current) : line[f][k] = "new"
    /\ todo \subseteq Requirements!Provenance(current)
    /\ \A f \in Requirements!Provenance(current) \ todo : \A k \in pins[current] : line[f][k] # "old"

\* What the two properties say of a project that has been fixed itself.
FixKept(p) ==
  ~pipDryRun /\ succeeded[p].fixed /\ succeeded[p].through = None =>
    /\ \A k \in succeeded[p].issues : Requirements!IsFixed(p, k)
    /\ \A k \in pins[p] \ succeeded[p].issues :
         line[Requirements!SelectFileForPinning(p)][k] # "absent" /\ ~Requirements!Says(p, k, "old")

RequirementsInv == RequirementsTypeOK /\ Upgraded /\ \A p \in PipProjects : FixKept(p)

\* A write only replaces the old version, or adds a line that is missing.
Improved(f, k) ==
  \/ line'[f][k] = line[f][k]
  \/ line[f][k] \in {"old", "absent"} /\ line'[f][k] \in {"new", "pinned"}

LEMMA ProvenanceWithin ==
  ASSUME RequirementsTypeOK, NEW p \in PipProjects
  PROVE  /\ Requirements!Provenance(p) \subseteq PipFiles
         /\ Requirements!SelectFileForPinning(p) \in Requirements!Provenance(p)
  <1>1. target[p] \in PipFiles /\ target[p] \in Requirements!Provenance(p)
    BY DEF RequirementsTypeOK, Requirements!Provenance
  <1>2. constraint[target[p]] \in requires[target[p]] \cup {None} /\ requires[target[p]] \subseteq PipFiles
    BY <1>1 DEF RequirementsTypeOK
  <1>3. \A f \in requires[target[p]] : f \in Requirements!Provenance(p)
    BY <1>1, <1>2 DEF Requirements!Provenance, Requirements!ClosedUnderRequires
  <1> QED  BY <1>1, <1>2, <1>3 DEF Requirements!Provenance, Requirements!SelectFileForPinning

LEMMA SameProvenance ==
  ASSUME UNCHANGED Requirements!inputs
  PROVE  \A p : /\ Requirements!Provenance(p)' = Requirements!Provenance(p)
                /\ Requirements!SelectFileForPinning(p)' = Requirements!SelectFileForPinning(p)
  BY DEF Requirements!inputs, Requirements!Provenance, Requirements!ClosedUnderRequires,
         Requirements!SelectFileForPinning

\* A write of the versions of packages that are at the old version, or have no line.
LEMMA WriteImproves ==
  ASSUME RequirementsTypeOK, NEW f \in PipFiles, NEW ps \in SUBSET Packages, NEW version \in {"new", "pinned"},
         \A k \in ps : line[f][k] \in {"old", "absent"},
         Requirements!Write(f, ps, version)
  PROVE  /\ line' \in [PipFiles -> [Packages -> Requirements!Versions]]
         /\ \A g \in PipFiles, k \in Packages : Improved(g, k)
         /\ ~pipDryRun => \A k \in ps : line'[f][k] = version
         /\ \A k \in Packages \ ps : line'[f][k] = line[f][k]
         /\ \A g \in PipFiles \ {f} : line'[g] = line[g]
  <1>1. line \in [PipFiles -> [Packages -> Requirements!Versions]]
    BY DEF RequirementsTypeOK, Requirements!TypeOK
  <1>2. version \in Requirements!Versions
    BY DEF Requirements!Versions
  <1>3. CASE pipDryRun
    BY <1>1, <1>3 DEF Requirements!Write, Improved
  <1>4. CASE ~pipDryRun
    <2> DEFINE said == [k \in Packages |-> IF k \in ps THEN version ELSE line[f][k]]
    <2>1. line' = [line EXCEPT ![f] = said]
      BY <1>4 DEF Requirements!Write
    <2>2. said \in [Packages -> Requirements!Versions]
      BY <1>1, <1>2
    <2>3. \A k \in Packages : said[k] = IF k \in ps THEN version ELSE line[f][k]
      OBVIOUS
    <2> HIDE DEF said
    <2>4. /\ line' \in [PipFiles -> [Packages -> Requirements!Versions]]
          /\ line'[f] = said /\ \A g \in PipFiles \ {f} : line'[g] = line[g]
      BY <1>1, <2>1, <2>2
    <2> QED  BY <2>3, <2>4, <1>4 DEF Improved
  <1> QED  BY <1>3, <1>4 DEF RequirementsTypeOK

\* What has been fixed stays fixed while lines are improved.
LEMMA FixStays ==
  ASSUME RequirementsTypeOK, UNCHANGED Requirements!inputs,
         \A g \in PipFiles, k \in Packages : Improved(g, k),
         NEW p \in PipProjects, FixKept(p), succeeded'[p] = succeeded[p]
  PROVE  FixKept(p)'
  <1>1. /\ Requirements!Provenance(p)' = Requirements!Provenance(p)
        /\ Requirements!SelectFileForPinning(p)' = Requirements!SelectFileForPinning(p)
        /\ UNCHANGED <<pins, pipDryRun>>
    BY SameProvenance DEF Requirements!inputs
  <1>2. /\ Requirements!Provenance(p) \subseteq PipFiles /\ pins[p] \subseteq Packages
        /\ Requirements!SelectFileForPinning(p) \in PipFiles /\ succeeded[p].issues \subseteq Packages
    BY ProvenanceWithin DEF RequirementsTypeOK, Requirements!TypeOK
  <1>3. ASSUME NEW k \in Packages  PROVE Requirements!Says(p, k, "old")' => Requirements!Says(p, k, "old")
    BY <1>1, <1>2 DEF Requirements!Says, Improved
  <1>4. ASSUME NEW k \in Packages, Requirements!IsFixed(p, k)  PROVE Requirements!IsFixed(p, k)'
    <2>1. PICK f \in Requirements!Provenance(p) : line[f][k] \in {"new", "pinned"}
      BY <1>4 DEF Requirements!IsFixed, Requirements!Says
    <2>2. line'[f][k] \in {"new", "pinned"}
      BY <2>1, <1>2 DEF Improved
    <2> QED  BY <2>2, <1>1, <1>3, <1>4 DEF Requirements!IsFixed, Requirements!Says
  <1>5. ASSUME NEW k \in Packages, line[Requirements!SelectFileForPinning(p)][k] # "absent"
        PROVE  line'[Requirements!SelectFileForPinning(p)][k] # "absent"
    BY <1>2, <1>5 DEF Improved
  <1> QED  BY <1>1, <1>2, <1>3, <1>4, <1>5 DEF FixKept

LEMMA RequirementsFixedThroughStep ==
  ASSUME RequirementsInv, NEW p \in PipProjects, Requirements!FixedThrough(p)  PROVE RequirementsInv'
  <1> DEFINE s == [fixed |-> TRUE, through |-> fixedCache[target[p]].fixedIn,
                   issues |-> fixedCache[target[p]].issues \cap pins[p]]
  <1>1. RequirementsTypeOK /\ Upgraded /\ \A q \in PipProjects : FixKept(q)
    BY DEF RequirementsInv
  <1>2. /\ UNCHANGED <<Requirements!inputs, line, current, todo, upgraded, fixedCache, failed>>
        /\ succeeded' = [succeeded EXCEPT ![p] = s] /\ s.through # None
    BY DEF Requirements!FixedThrough
  <1>3. s \in [fixed : BOOLEAN, through : PipProjects \cup {None}, issues : SUBSET Packages]
    BY <1>1 DEF RequirementsTypeOK, Requirements!TypeOK
  <1> HIDE DEF s
  <1>4. /\ succeeded' \in [PipProjects -> [fixed : BOOLEAN, through : PipProjects \cup {None}, issues : SUBSET Packages]]
        /\ succeeded'[p] = s /\ \A q \in PipProjects \ {p} : succeeded'[q] = succeeded[q]
    BY <1>1, <1>2, <1>3 DEF RequirementsTypeOK, Requirements!TypeOK
  <1>5. RequirementsTypeOK'
    BY <1>1, <1>2, <1>4 DEF RequirementsTypeOK, Requirements!TypeOK, Requirements!inputs
  <1>6. Upgraded'
    BY <1>1, <1>2, SameProvenance DEF Upgraded, Requirements!inputs
  <1>7. ASSUME NEW q \in PipProjects  PROVE FixKept(q)'
    <2>1. CASE q = p
      BY <2>1, <1>2, <1>4 DEF FixKept
    <2>2. CASE q # p
      BY <2>2, <1>1, <1>2, <1>4, FixStays DEF Improved
    <2> QED  BY <2>1, <2>2
  <1> QED  BY <1>5, <1>6, <1>7 DEF RequirementsInv

LEMMA BeginStep ==
  ASSUME RequirementsInv, NEW p \in PipProjects, Requirements!Begin(p)  PROVE RequirementsInv'
  <1>1. RequirementsTypeOK /\ \A q \in PipProjects : FixKept(q)
    BY DEF RequirementsInv
  <1>2. /\ UNCHANGED <<Requirements!inputs, line, fixedCache, succeeded, failed>>
        /\ current' = p /\ todo' = Requirements!Provenance(p) /\ upgraded' = {}
    BY DEF Requirements!Begin
  <1>3. Requirements!Provenance(p) \subseteq PipFiles
    BY <1>1, ProvenanceWithin
  <1>4. RequirementsTypeOK'
    BY <1>1, <1>2, <1>3, NoneAssumption DEF RequirementsTypeOK, Requirements!TypeOK, Requirements!inputs
  <1>5. Upgraded'
    <2>1. Requirements!Provenance(p)' = Requirements!Provenance(p)
      BY <1>2, SameProvenance
    <2> QED  BY <1>2, <2>1 DEF Upgraded
  <1>6. \A q \in PipProjects : FixKept(q)'
    BY <1>1, <1>2, FixStays DEF Improved
  <1> QED  BY <1>4, <1>5, <1>6 DEF RequirementsInv

LEMMA UpgradeFileStep ==
  ASSUME RequirementsInv, NEW f \in PipFiles, Requirements!UpgradeFile(f)  PROVE RequirementsInv'
  <1> DEFINE ups == Requirements!GenerateUpgrades(f, pins[current])
  <1>1. RequirementsTypeOK /\ Upgraded /\ \A q \in PipProjects : FixKept(q)
    BY DEF RequirementsInv
  <1>2. /\ current # None /\ f \in todo /\ Requirements!Write(f, ups, "new")
        /\ upgraded' = upgraded \cup ups /\ todo' = todo \ {f}
        /\ UNCHANGED <<Requirements!inputs, current, fixedCache, succeeded, failed>>
    BY DEF Requirements!UpgradeFile
  <1>3. current \in PipProjects /\ pins[current] \subseteq Packages
    BY <1>1, <1>2 DEF RequirementsTypeOK, Requirements!TypeOK
  <1>4. ups \subseteq pins[current] /\ \A k \in ups : line[f][k] = "old"
    BY DEF Requirements!GenerateUpgrades
  <1>5. \A k \in pins[current] \ ups : line[f][k] # "old"
    BY DEF Requirements!GenerateUpgrades
  <1> HIDE DEF ups
  <1>6. /\ line' \in [PipFiles -> [Packages -> Requirements!Versions]]
        /\ \A g \in PipFiles, k \in Packages : Improved(g, k)
        /\ ~pipDryRun => \A k \in ups : line'[f][k] = "new"
        /\ \A k \in Packages \ ups : line'[f][k] = line[f][k]
        /\ \A g \in PipFiles \ {f} : line'[g] = line[g]
    BY <1>1, <1>2, <1>3, <1>4, WriteImproves
  <1>7. RequirementsTypeOK'
    BY <1>1, <1>2, <1>3, <1>4, <1>6 DEF RequirementsTypeOK, Requirements!TypeOK, Requirements!inputs, Requirements!Versions
  <1>8. Upgraded'
    <2> SUFFICES ASSUME ~pipDryRun  PROVE Upgraded'
      BY <1>2 DEF Upgraded, Requirements!inputs
    <2>1. /\ Requirements!Provenance(current)' = Requirements!Provenance(current)
          /\ Requirements!Provenance(current) \subseteq PipFiles /\ pins' = pins /\ current' = current
      BY <1>1, <1>2, <1>3, SameProvenance, ProvenanceWithin DEF Requirements!inputs
    <2>2. /\ upgraded \subseteq pins[current]
          /\ \A k \in upgraded : \E g \in Requirements!Provenance(current) : line[g][k] = "new"
          /\ todo \subseteq Requirements!Provenance(current)
          /\ \A g \in Requirements!Provenance(current) \ todo : \A k \in pins[current] : line[g][k] # "old"
      BY <1>1, <1>2 DEF Upgraded
    <2>3. \A k \in upgraded' : \E g \in Requirements!Provenance(current) : line'[g][k] = "new"
      <3>1. \A k \in ups : line'[f][k] = "new" /\ f \in Requirements!Provenance(current)
        BY <1>2, <1>6, <2>2
      <3>2. ASSUME NEW k \in upgraded  PROVE \E g \in Requirements!Provenance(current) : line'[g][k] = "new"
        BY <2>1, <2>2, <1>3, <1>6 DEF Improved
      <3> QED  BY <3>1, <3>2, <1>2
    <2>4. \A g \in Requirements!Provenance(current) \ todo' : \A k \in pins[current] : line'[g][k] # "old"
      <3> SUFFICES ASSUME NEW g \in Requirements!Provenance(current) \ todo', NEW k \in pins[current]
                   PROVE  line'[g][k] # "old"
        OBVIOUS
      <3>1. CASE g = f
        BY <3>1, <1>3, <1>4, <1>5, <1>6
      <3>2. CASE g # f
        BY <3>2, <1>2, <1>6, <2>1, <2>2
      <3> QED  BY <3>1, <3>2
    <2> QED  BY <1>2, <1>4, <2>1, <2>2, <2>3, <2>4 DEF Upgraded
  <1>9. \A q \in PipProjects : FixKept(q)'
    BY <1>1, <1>2, <1>6, FixStays
  <1> QED  BY <1>7, <1>8, <1>9 DEF RequirementsInv

LEMMA FailStep ==
  ASSUME RequirementsInv, current # None, Requirements!Fail, todo' = {}, UNCHANGED line  PROVE RequirementsInv'
  <1>1. RequirementsTypeOK /\ \A q \in PipProjects : FixKept(q)
    BY DEF RequirementsInv
  <1>2. /\ UNCHANGED <<Requirements!inputs, upgraded, fixedCache, succeeded>>
        /\ current' = None /\ failed' = failed \cup {current}
    BY DEF Requirements!Fail
  <1>3. RequirementsTypeOK'
    BY <1>1, <1>2 DEF RequirementsTypeOK, Requirements!TypeOK, Requirements!inputs
  <1>4. \A q \in PipProjects : FixKept(q)'
    BY <1>1, <1>2, FixStays DEF Improved
  <1> QED  BY <1>2, <1>3, <1>4 DEF RequirementsInv, Upgraded

LEMMA SucceedStep ==
  ASSUME RequirementsInv, current # None, todo = {},
         NEW pf, pf = Requirements!SelectFileForPinning(current),
         NEW ps, ps = Requirements!GeneratePins(pf, Requirements!ToPin),
         Requirements!Write(pf, ps, "pinned"), Requirements!Succeed(pf, ps),
         current' = None, UNCHANGED <<Requirements!inputs, todo, upgraded, failed>>
  PROVE  RequirementsInv'
  <1>1. RequirementsTypeOK /\ Upgraded /\ \A q \in PipProjects : FixKept(q)
    BY DEF RequirementsInv
  <1>2. /\ current \in PipProjects /\ pins[current] \subseteq Packages
        /\ Requirements!Provenance(current) \subseteq PipFiles /\ pf \in Requirements!Provenance(current)
    BY <1>1, ProvenanceWithin DEF RequirementsTypeOK, Requirements!TypeOK
  <1>3. /\ ps \subseteq pins[current] \ upgraded /\ \A k \in ps : line[pf][k] = "absent"
        /\ \A k \in pins[current] \ (upgraded \cup ps) : line[pf][k] # "absent"
    BY DEF Requirements!GeneratePins, Requirements!ToPin
  <1>4. /\ line' \in [PipFiles -> [Packages -> Requirements!Versions]]
        /\ \A g \in PipFiles, k \in Packages : Improved(g, k)
        /\ ~pipDryRun => \A k \in ps : line'[pf][k] = "pinned"
        /\ \A k \in Packages \ ps : line'[pf][k] = line[pf][k]
        /\ \A g \in PipFiles \ {pf} : line'[g] = line[g]
    <2>1. pf \in PipFiles /\ ps \in SUBSET Packages /\ \A k \in ps : line[pf][k] \in {"old", "absent"}
      BY <1>2, <1>3
    <2> QED  BY <1>1, <2>1, WriteImproves
  <1> DEFINE issues == upgraded \cup ps
             s == [fixed |-> TRUE, through |-> None, issues |-> issues]
  <1>5. issues \subseteq Packages
    BY <1>1, <1>2, <1>3 DEF RequirementsTypeOK, Requirements!TypeOK
  <1>6. /\ succeeded' = [succeeded EXCEPT ![current] = s]
        /\ fixedCache' = [f \in PipFiles |-> IF f \in Requirements!Provenance(current)
             THEN [fixedIn |-> current, issues |-> issues] ELSE fixedCache[f]]
    BY DEF Requirements!Succeed
  <1> HIDE DEF issues
  <1>7. s \in [fixed : BOOLEAN, through : PipProjects \cup {None}, issues : SUBSET Packages]
    BY <1>5
  <1>8. /\ succeeded' \in [PipProjects -> [fixed : BOOLEAN, through : PipProjects \cup {None}, issues : SUBSET Packages]]
        /\ succeeded'[current] = s /\ \A q \in PipProjects \ {current} : succeeded'[q] = succeeded[q]
    BY <1>1, <1>2, <1>6, <1>7 DEF RequirementsTypeOK, Requirements!TypeOK
  <1>9. fixedCache' \in [PipFiles -> [fixedIn : PipProjects \cup {None}, issues : SUBSET Packages]]
    BY <1>1, <1>2, <1>5, <1>6 DEF RequirementsTypeOK, Requirements!TypeOK
  <1>10. RequirementsTypeOK'
    BY <1>1, <1>4, <1>8, <1>9 DEF RequirementsTypeOK, Requirements!TypeOK, Requirements!inputs, Requirements!Versions
  <1>11. ASSUME NEW p \in PipProjects, p = current  PROVE FixKept(p)'
    <2> SUFFICES ASSUME ~pipDryRun  PROVE FixKept(p)'
      BY DEF FixKept, Requirements!inputs
    <2>1. /\ Requirements!Provenance(p)' = Requirements!Provenance(p)
          /\ Requirements!SelectFileForPinning(p)' = pf /\ pins' = pins
      BY <1>11, SameProvenance DEF Requirements!inputs
    <2>2. /\ upgraded \subseteq pins[p]
          /\ \A k \in upgraded : \E g \in Requirements!Provenance(p) : line[g][k] = "new"
          /\ \A g \in Requirements!Provenance(p) : \A k \in pins[p] : line[g][k] # "old"
      BY <1>1, <1>11 DEF Upgraded
    <2>3. issues \subseteq pins[p]
      BY <2>2, <1>3, <1>11 DEF issues
    <2>4. ASSUME NEW k \in pins[p]  PROVE ~Requirements!Says(p, k, "old")'
      BY <2>1, <2>2, <1>2, <1>4, <1>11 DEF Requirements!Says, Improved
    <2>5. ASSUME NEW k \in issues  PROVE \E g \in Requirements!Provenance(p) : line'[g][k] \in {"new", "pinned"}
      <3>1. CASE k \in ps
        BY <3>1, <1>2, <1>4, <1>11
      <3>2. CASE k \in upgraded
        <4>1. PICK g \in Requirements!Provenance(p) : line[g][k] = "new"
          BY <3>2, <2>2
        <4>2. line'[g][k] = "new"
          BY <4>1, <1>2, <1>4, <1>5, <1>11 DEF Improved
        <4> QED  BY <4>2
      <3> QED  BY <3>1, <3>2 DEF issues
    <2>6. ASSUME NEW k \in issues  PROVE Requirements!IsFixed(p, k)'
      BY <2>1, <2>3, <2>4, <2>5 DEF Requirements!IsFixed, Requirements!Says
    <2>7. ASSUME NEW k \in pins[p] \ issues  PROVE line'[pf][k] # "absent"
      BY <1>2, <1>3, <1>4, <1>11 DEF issues
    <2> QED  BY <2>1, <2>4, <2>6, <2>7, <1>8, <1>11 DEF FixKept
  <1>12. ASSUME NEW q \in PipProjects  PROVE FixKept(q)'
    BY <1>1, <1>4, <1>8, <1>11, FixStays
  <1> QED  BY <1>10, <1>12 DEF RequirementsInv, Upgraded

LEMMA RequirementsStep == ASSUME RequirementsInv, [Requirements!Next]_requirementsVars  PROVE RequirementsInv'
  <1>1. CASE UNCHANGED requirementsVars
    <2>1. UNCHANGED Requirements!inputs /\ UNCHANGED <<line, succeeded, current, todo, upgraded, fixedCache, failed>>
      BY <1>1 DEF requirementsVars, Requirements!inputs
    <2>2. RequirementsTypeOK'
      BY <2>1 DEF RequirementsInv, RequirementsTypeOK, Requirements!TypeOK, Requirements!inputs
    <2>3. Upgraded'
      BY <2>1, SameProvenance DEF RequirementsInv, Upgraded, Requirements!inputs
    <2>4. \A p \in PipProjects : FixKept(p)'
      BY <2>1, FixStays DEF RequirementsInv, Improved
    <2> QED  BY <2>2, <2>3, <2>4 DEF RequirementsInv
  <1>2. CASE Requirements!WriteFails
    <2>1. current # None /\ Requirements!Fail /\ todo' = {} /\ UNCHANGED line
      BY <1>2 DEF Requirements!WriteFails
    <2> QED  BY <2>1, FailStep
  <1>3. CASE Requirements!PinRest
    <2> DEFINE pf == Requirements!SelectFileForPinning(current)
               ps == Requirements!GeneratePins(pf, Requirements!ToPin)
    <2>1. current # None /\ todo = {} /\ todo' = todo
      BY <1>3 DEF Requirements!PinRest
    <2>2. \/ /\ Requirements!Write(pf, ps, "pinned") /\ Requirements!Succeed(pf, ps) /\ current' = None
             /\ UNCHANGED <<Requirements!inputs, upgraded, failed>>
          \/ Requirements!Fail /\ UNCHANGED line
      BY <1>3 DEF Requirements!PinRest
    <2> HIDE DEF pf, ps
    <2>3. pf = Requirements!SelectFileForPinning(current) /\ ps = Requirements!GeneratePins(pf, Requirements!ToPin)
      BY DEF pf, ps
    <2> QED  BY <2>1, <2>2, <2>3, FailStep, SucceedStep
  <1> QED  BY <1>1, <1>2, <1>3, RequirementsFixedThroughStep, BeginStep, UpgradeFileStep DEF Requirements!Next

LEMMA RequirementsBegin == ASSUME Requirements!Init  PROVE RequirementsInv
  <1>1. RequirementsTypeOK
    BY DEF Requirements!Init, RequirementsTypeOK, Requirements!TypeOK, Requirements!Versions, Requirements!NotCached,
           Requirements!NoSuccess
  <1>2. current = None /\ \A p \in PipProjects : ~succeeded[p].fixed
    BY DEF Requirements!Init, Requirements!NoSuccess
  <1> QED  BY <1>1, <1>2 DEF RequirementsInv, Upgraded, FixKept

\* Whatever files, packages and projects there are and whichever writes fail:
\* what has been reported as fixed is fixed, in all files of the project, and
\* stays so, and what remains had a line that was not the handler's to change.
THEOREM ReportedAlwaysFixed == FixSpec => []ReportedIsFixed
  <1> DEFINE Inv == part = "requirements" => RequirementsInv
  <1>1. FixInit => Inv
    BY RequirementsBegin DEF FixInit
  <1>2. Inv /\ [FixNext]_<<part, vars, provenanceVars, requirementsVars>> => Inv'
    <2> SUFFICES ASSUME Inv, [FixNext]_<<part, vars, provenanceVars, requirementsVars>>, part' = "requirements"
                 PROVE  RequirementsInv'
      OBVIOUS
    <2>1. part = "requirements" /\ [Requirements!Next]_requirementsVars
      BY DEF FixNext
    <2> QED  BY <2>1, RequirementsStep
  <1>3. Inv => ReportedIsFixed
    BY DEF ReportedIsFixed, RequirementsInv, FixKept, Requirements!ReportedIsFixed, Requirements!NothingMissed
  <1> QED  BY <1>1, <1>2, <1>3, PTL DEF FixSpec

------------------------------------------------------------------------------
(* The files of a project *)

Frame == [file : Provenance!Files, next : Nat]

Directive(f, j) == Provenance!Resolve(f.dir, content[f][j])
\* The file that it requires has been parsed, or one that it is taken for.
Followed(f, j) == Directive(f, j) \in provenance \/ Provenance!AlreadyParsed(content[f][j])

\* A call has yet to look at the directive, or waits for the one for its file.
Pending(f, j) ==
  \E i \in 1..Len(stack) :
    /\ stack[i].file = f
    /\ \/ stack[i].next <= j
       \/ stack[i].next = j + 1 /\ i < Len(stack) /\ stack[i + 1].file = Directive(f, j)

StackOK ==
  /\ content \in [Provenance!Files -> Seq(Provenance!Directives)]
  /\ stack \in Seq(Frame) /\ Len(stack) > 0 /\ stack[1].file = Provenance!Root
  /\ provenance \subseteq Provenance!Reachable
  /\ \A i \in 1..Len(stack) :
       /\ stack[i].file \in Provenance!Reachable
       /\ i < Len(stack) \/ stack[i].next > 0 => stack[i].file \in provenance

NoneForgotten == \A f \in provenance : \A j \in 1..Len(content[f]) : Followed(f, j) \/ Pending(f, j)

ProvenanceInv ==
  /\ StackOK /\ NoneForgotten
  /\ extraction = "returned" =>
       /\ Provenance!Root \in provenance
       /\ \A f \in provenance : \A j \in 1..Len(content[f]) : Followed(f, j)

\* The last of the calls s is at its directive n in u.
MovedOn(s, u, n) ==
  /\ u \in Seq(Frame) /\ Len(u) = Len(s)
  /\ u[Len(s)].file = s[Len(s)].file /\ u[Len(s)].next = n
  /\ \A i \in 1..Len(s) : i # Len(s) => u[i] = s[i]

LEMMA TopFrame ==
  ASSUME NEW s \in Seq(Frame), Len(s) > 0, NEW n \in Nat, NEW u, u = [s EXCEPT ![Len(s)].next = n]
  PROVE  MovedOn(s, u, n)
  <1> DEFINE e == [s[Len(s)] EXCEPT !.next = n]
  <1>1. Len(s) \in 1..Len(s) /\ s[Len(s)] \in Frame
    BY LenProperties
  <1>2. e \in Frame /\ e.file = s[Len(s)].file /\ e.next = n
    BY <1>1 DEF Frame
  <1>3. u = [s EXCEPT ![Len(s)] = e]
    OBVIOUS
  <1> HIDE DEF e
  <1> QED  BY <1>1, <1>2, <1>3, ExceptSeq DEF MovedOn

LEMMA ReachableClosed ==
  /\ Provenance!Root \in Provenance!Reachable
  /\ Provenance!Reachable \subseteq Provenance!Files
  /\ \A f \in Provenance!Reachable : \A j \in DOMAIN content[f] :
       Directive(f, j) \in Provenance!Files => Directive(f, j) \in Provenance!Reachable
  <1>1. Provenance!Root \in Provenance!Files
    BY DirsAssumption, ContentAssumption DEF Provenance!Root, Provenance!Files
  <1>2. Provenance!NoFile \notin Provenance!Files
    BY DirsAssumption DEF Provenance!NoFile, Provenance!Files
  <1> QED  BY <1>1, <1>2 DEF Provenance!Reachable, Provenance!Closed, Provenance!RequiredBy, Directive

\* The directive that the last call is about.
LEMMA LastFrame ==
  ASSUME StackOK
  PROVE  /\ Len(stack) \in Nat /\ Len(stack) \in 1..Len(stack)
         /\ \A i \in 1..Len(stack) : stack[i] \in Frame /\ stack[i].file \in Provenance!Files /\ stack[i].next \in Nat
         /\ Provenance!Top = stack[Len(stack)]
         /\ \A f \in Provenance!Files : content[f] \in Seq(Provenance!Directives) /\ Len(content[f]) \in Nat
                                         /\ DOMAIN content[f] = 1..Len(content[f])
  <1>1. Len(stack) \in Nat /\ Len(stack) \in 1..Len(stack)
    BY LenProperties DEF StackOK
  <1>2. ASSUME NEW i \in 1..Len(stack)  PROVE stack[i] \in Frame
    BY LenProperties DEF StackOK
  <1>3. \A x \in Frame : x.file \in Provenance!Files /\ x.next \in Nat
    BY DEF Frame
  <1>4. ASSUME NEW f \in Provenance!Files
        PROVE  content[f] \in Seq(Provenance!Directives) /\ Len(content[f]) \in Nat /\ DOMAIN content[f] = 1..Len(content[f])
    BY LenProperties DEF StackOK
  <1> QED  BY <1>1, <1>2, <1>3, <1>4 DEF Provenance!Top

LEMMA SameReachable ==
  ASSUME UNCHANGED content
  PROVE  /\ Provenance!Reachable' = Provenance!Reachable
         /\ \A f, j : Directive(f, j)' = Directive(f, j)
  BY DEF Provenance!Reachable, Provenance!Closed, Provenance!RequiredBy, Directive

\* A directive stays followed, and pending in a call whose frame, and the file of
\* the frame above it, stay.
LEMMA FollowedStays ==
  ASSUME UNCHANGED content, provenance \subseteq provenance', NEW f, NEW j, Followed(f, j)  PROVE Followed(f, j)'
  BY SameReachable DEF Followed, Provenance!AlreadyParsed, Provenance!KeyOf

LEMMA NoneForgottenStays ==
  ASSUME NoneForgotten, UNCHANGED <<content, stack, provenance>>  PROVE NoneForgotten'
  <1> SUFFICES ASSUME NEW f \in provenance, NEW j \in 1..Len(content[f])  PROVE Followed(f, j)' \/ Pending(f, j)'
    BY DEF NoneForgotten
  <1>1. CASE Followed(f, j)
    BY <1>1, FollowedStays
  <1>2. CASE Pending(f, j)
    BY <1>2, SameReachable DEF Pending
  <1> QED  BY <1>1, <1>2 DEF NoneForgotten

\* The last call moves on by a directive, and may call for another file.
LEMMA PendingStays ==
  ASSUME StackOK, UNCHANGED content, Len(stack') \in Nat, Len(stack) <= Len(stack'),
         \A i \in 1..Len(stack) : stack'[i].file = stack[i].file,
         \A i \in 1..Len(stack) : i # Len(stack) => stack'[i].next = stack[i].next,
         NEW f, NEW j \in Nat, NEW i \in 1..Len(stack), stack[i].file = f,
         \/ stack'[i].next <= j
         \/ stack[i].next <= j /\ i # Len(stack)
         \/ stack[i].next = j + 1 /\ i < Len(stack) /\ stack[i + 1].file = Directive(f, j)
  PROVE  Pending(f, j)'
  <1>1. Len(stack) \in Nat /\ \A k \in 1..Len(stack) : stack[k].next \in Nat
    BY LastFrame
  <1>2. i \in 1..Len(stack') /\ stack'[i].file = f
    BY <1>1
  <1>3. CASE stack'[i].next <= j \/ (stack[i].next <= j /\ i # Len(stack))
    BY <1>2, <1>3 DEF Pending
  <1>4. CASE stack[i].next = j + 1 /\ i < Len(stack) /\ stack[i + 1].file = Directive(f, j)
    <2>1. i + 1 \in 1..Len(stack) /\ i < Len(stack') /\ i # Len(stack)
      BY <1>1, <1>4
    <2>2. stack'[i].next = j + 1 /\ stack'[i + 1].file = Directive(f, j)'
      BY <1>4, <2>1, SameReachable
    <2> QED  BY <1>2, <2>1, <2>2 DEF Pending
  <1> QED  BY <1>3, <1>4

LEMMA ReadFileStep == ASSUME ProvenanceInv, Provenance!ReadFile  PROVE ProvenanceInv'
  <1>1. StackOK /\ NoneForgotten /\ UNCHANGED content
    BY DEF ProvenanceInv, Provenance!ReadFile
  <1> DEFINE n == Len(stack)
             top == stack[n]
  <1>2. /\ n \in Nat /\ n \in 1..n /\ top \in Frame /\ top.file \in Provenance!Files /\ Provenance!Top = top
        /\ \A i \in 1..n : stack[i].next \in Nat
        /\ \A f \in Provenance!Files : content[f] \in Seq(Provenance!Directives) /\ Len(content[f]) \in Nat
    BY <1>1, LastFrame
  <1>3. CASE provenance' = provenance \cup {top.file} /\ stack' = [stack EXCEPT ![n].next = 1] /\ extraction' = "none"
    <2>1. /\ stack' \in Seq(Frame) /\ Len(stack') = n /\ stack'[n].file = top.file /\ stack'[n].next = 1
          /\ \A i \in 1..n : i # n => stack'[i] = stack[i]
      <3>1. stack \in Seq(Frame) /\ Len(stack) > 0 /\ 1 \in Nat
        BY <1>1 DEF StackOK
      <3>2. stack' = [stack EXCEPT ![Len(stack)].next = 1]
        BY <1>3
      <3>3. MovedOn(stack, stack', 1)
        BY ONLY <3>1, <3>2, TopFrame, Zenon
      <3> QED  BY <3>3 DEF MovedOn
    <2>2. StackOK'
      <3>1. provenance' \subseteq Provenance!Reachable
        BY <1>1, <1>2, <1>3 DEF StackOK
      <3>2. \A i \in 1..n : /\ stack'[i].file \in Provenance!Reachable
                            /\ i < n \/ stack'[i].next > 0 => stack'[i].file \in provenance'
        BY <1>1, <1>2, <1>3, <2>1 DEF StackOK
      <3>3. stack'[1].file = Provenance!Root
        BY <1>1, <1>2, <2>1 DEF StackOK
      <3>4. content' \in [Provenance!Files -> Seq(Provenance!Directives)] /\ n > 0
        BY <1>1 DEF StackOK
      <3> QED  BY <2>1, <3>1, <3>2, <3>3, <3>4, <1>1, SameReachable DEF StackOK
    <2>3. ASSUME NEW f \in provenance', NEW j \in 1..Len(content[f])  PROVE Followed(f, j)' \/ Pending(f, j)'
      <3>1. j \in Nat /\ 1 <= j
        OBVIOUS
      <3>2. \A i \in 1..n : stack'[i].file = stack[i].file /\ (i # n => stack'[i].next = stack[i].next)
        BY <2>1
      <3>3. CASE f = top.file
        <4>1. stack'[n].next <= j /\ stack[n].file = f
          BY <2>1, <3>1, <3>3
        <4>2. Pending(f, j)'
          BY <4>1, <1>1, <1>2, <2>1, <3>1, <3>2, PendingStays
        <4> QED  BY <4>2
      <3>4. CASE f # top.file
        <4>1. Followed(f, j) \/ Pending(f, j)
          BY <3>4, <1>1, <1>3 DEF NoneForgotten
        <4>2. CASE Followed(f, j)
          BY <4>2, <1>1, <1>3, FollowedStays
        <4>3. CASE Pending(f, j)
          <5>1. PICK i \in 1..n : /\ stack[i].file = f
                                  /\ \/ stack[i].next <= j
                                     \/ stack[i].next = j + 1 /\ i < n /\ stack[i + 1].file = Directive(f, j)
            BY <4>3 DEF Pending
          <5>2. i # n
            BY <5>1, <3>4
          <5> QED  BY <5>1, <5>2, <1>1, <1>2, <2>1, <3>1, <3>2, PendingStays
        <4> QED  BY <4>1, <4>2, <4>3
      <3> QED  BY <3>3, <3>4
    <2> QED  BY <2>2, <2>3, <1>1, <1>3 DEF ProvenanceInv, NoneForgotten
  <1>4. CASE extraction' = "error" /\ UNCHANGED <<stack, provenance>>
    <2>1. StackOK'
      BY <1>1, <1>4, SameReachable DEF StackOK
    <2>2. NoneForgotten'
      BY <1>1, <1>4, NoneForgottenStays
    <2> QED  BY <2>1, <2>2, <1>4 DEF ProvenanceInv
  <1> QED  BY <1>2, <1>3, <1>4 DEF Provenance!ReadFile

\* The last call has dealt with its next directive: what it requires has been
\* parsed, or is the file of a new call.
LEMMA DirectiveDone ==
  ASSUME StackOK, NoneForgotten, UNCHANGED <<content, provenance>>,
         NEW n, n = Len(stack), NEW top, top = stack[n], top.next \in 1..Len(content[top.file]),
         stack' \in Seq(Frame), Len(stack') \in {n, n + 1},
         \A i \in 1..n : stack'[i].file = stack[i].file,
         \A i \in 1..n : i # n => stack'[i].next = stack[i].next,
         stack'[n].next = top.next + 1,
         Len(stack') = n => Followed(top.file, top.next),
         Len(stack') = n + 1 => /\ stack'[n + 1].next = 0 /\ stack'[n + 1].file \in Provenance!Reachable
                                /\ stack'[n + 1].file = Directive(top.file, top.next)
  PROVE  StackOK' /\ NoneForgotten'
  <1>1. /\ n \in Nat /\ n \in 1..n /\ n > 0 /\ top.file \in Provenance!Files /\ top.next \in Nat /\ top.next > 0
        /\ \A i \in 1..n : stack[i].next \in Nat
        /\ \A f \in Provenance!Files : Len(content[f]) \in Nat
    BY LastFrame
  <1>2. top.file \in provenance
    BY <1>1 DEF StackOK
  <1>3. StackOK'
    <2>1. ASSUME NEW i \in 1..Len(stack')
          PROVE  /\ stack'[i].file \in Provenance!Reachable
                 /\ i < Len(stack') \/ stack'[i].next > 0 => stack'[i].file \in provenance
      <3>1. CASE i \in 1..n
        <4>1. stack[i].file \in Provenance!Reachable /\ (i < n => stack[i].file \in provenance)
          BY <3>1 DEF StackOK
        <4>2. i = n => stack[i].file \in provenance
          BY <1>2
        <4> QED  BY <3>1, <4>1, <4>2, <1>1
      <3>2. CASE i = n + 1 /\ Len(stack') = n + 1
        BY <3>2, <1>1
      <3> QED  BY <3>1, <3>2, <1>1
    <2>2. stack'[1].file = Provenance!Root
      BY <1>1 DEF StackOK
    <2>3. /\ content \in [Provenance!Files -> Seq(Provenance!Directives)]
          /\ provenance \subseteq Provenance!Reachable /\ Len(stack') > 0
      BY <1>1 DEF StackOK
    <2> QED  BY <2>1, <2>2, <2>3, SameReachable DEF StackOK
  <1>4. ASSUME NEW f \in provenance, NEW j \in 1..Len(content[f])  PROVE Followed(f, j)' \/ Pending(f, j)'
    <2>1. j \in Nat /\ 1 <= j /\ Len(stack') \in Nat /\ n <= Len(stack')
      BY <1>1
    <2>2. Followed(f, j) \/ Pending(f, j)
      BY DEF NoneForgotten
    <2>3. CASE Followed(f, j)
      BY <2>3, FollowedStays
    <2>4. CASE f = top.file /\ j = top.next /\ ~Followed(f, j)
      <3>1. Len(stack') = n + 1 /\ stack'[n + 1].file = Directive(f, j)
        BY <2>4
      <3>2. n \in 1..Len(stack') /\ n < Len(stack') /\ stack'[n].file = f /\ stack'[n].next = j + 1
        BY <3>1, <2>4, <1>1
      <3>3. Directive(f, j)' = Directive(f, j)
        BY SameReachable
      <3> QED  BY <3>1, <3>2, <3>3 DEF Pending
    <2>5. CASE Pending(f, j) /\ ~(f = top.file /\ j = top.next)
      <3>1. PICK i \in 1..n : /\ stack[i].file = f
                              /\ \/ stack[i].next <= j
                                 \/ stack[i].next = j + 1 /\ i < n /\ stack[i + 1].file = Directive(f, j)
        BY <2>5 DEF Pending
      <3>2. \/ stack'[i].next <= j
            \/ stack[i].next <= j /\ i # n
            \/ stack[i].next = j + 1 /\ i < n /\ stack[i + 1].file = Directive(f, j)
        BY <3>1, <2>1, <2>5, <1>1
      <3> QED  BY <3>1, <3>2, <2>1, PendingStays
    <2> QED  BY <2>2, <2>3, <2>4, <2>5
  <1> QED  BY <1>3, <1>4 DEF NoneForgotten

LEMMA SkipDirectiveStep == ASSUME ProvenanceInv, Provenance!SkipDirective  PROVE ProvenanceInv'
  <1> DEFINE n == Len(stack)
             top == stack[n]
  <1>1. StackOK /\ NoneForgotten /\ UNCHANGED <<content, provenance, extraction>> /\ extraction = "none"
    BY DEF ProvenanceInv, Provenance!SkipDirective
  <1>2. /\ n \in Nat /\ n \in 1..n /\ top.file \in Provenance!Files /\ Provenance!Top = top /\ top.next \in Nat
        /\ content[top.file] \in Seq(Provenance!Directives)
    BY <1>1, LastFrame
  <1>3. /\ top.next \in 1..Len(content[top.file]) /\ Provenance!AlreadyParsed(content[top.file][top.next])
        /\ stack' = [stack EXCEPT ![n].next = top.next + 1]
    BY <1>2 DEF Provenance!SkipDirective, Provenance!Required
  <1>4. Followed(top.file, top.next)
    BY <1>3 DEF Followed
  <1>5. /\ stack' \in Seq(Frame) /\ Len(stack') = n /\ stack'[n].file = top.file /\ stack'[n].next = top.next + 1
        /\ \A i \in 1..n : i # n => stack'[i] = stack[i]
    <2>1. stack \in Seq(Frame) /\ Len(stack) > 0
      BY <1>1 DEF StackOK
    <2>2. PICK m \in Nat : m = top.next + 1
      BY <1>2
    <2>3. stack' = [stack EXCEPT ![Len(stack)].next = m]
      BY <1>3, <2>2
    <2>4. MovedOn(stack, stack', m)
      BY ONLY <2>1, <2>3, m \in Nat, TopFrame, Zenon
    <2> QED  BY <2>2, <2>4 DEF MovedOn
  <1>6. \A i \in 1..n : stack'[i].file = stack[i].file /\ (i # n => stack'[i].next = stack[i].next)
    BY <1>5
  <1>7. Len(stack') # n + 1
    BY <1>2, <1>5
  <1>8. StackOK' /\ NoneForgotten'
    <2> HIDE DEF n, top
    <2>1. n = Len(stack) /\ top = stack[n]
      BY DEF n, top
    <2>2. /\ top.next \in 1..Len(content[top.file]) /\ UNCHANGED <<content, provenance>>
          /\ stack' \in Seq(Frame) /\ Len(stack') \in {n, n + 1} /\ Len(stack') # n + 1
      BY <1>1, <1>3, <1>5, <1>7
    <2>3. /\ \A i \in 1..n : stack'[i].file = stack[i].file
          /\ \A i \in 1..n : i # n => stack'[i].next = stack[i].next
          /\ stack'[n].next = top.next + 1 /\ Followed(top.file, top.next)
      BY <1>4, <1>5, <1>6
    <2>4. StackOK /\ NoneForgotten
      BY <1>1
    <2> QED  BY ONLY <2>1, <2>2, <2>3, <2>4, DirectiveDone
  <1> QED  BY <1>1, <1>8 DEF ProvenanceInv

LEMMA FollowDirectiveStep == ASSUME ProvenanceInv, Provenance!FollowDirective  PROVE ProvenanceInv'
  <1> DEFINE n == Len(stack)
             top == stack[n]
             f == Directive(top.file, top.next)
             s == [stack EXCEPT ![n].next = top.next + 1]
  <1>1. StackOK /\ NoneForgotten /\ UNCHANGED <<content, provenance>> /\ extraction = "none"
    BY DEF ProvenanceInv, Provenance!FollowDirective
  <1>2. /\ n \in Nat /\ n \in 1..n /\ top.file \in Provenance!Files /\ Provenance!Top = top /\ top.next \in Nat
        /\ DOMAIN content[top.file] = 1..Len(content[top.file])
    BY <1>1, LastFrame
  <1>3. /\ top.next \in 1..Len(content[top.file])
        /\ \/ f \in Provenance!Files /\ stack' = Append(s, [file |-> f, next |-> 0]) /\ UNCHANGED extraction
           \/ extraction' = "error" /\ UNCHANGED stack
    BY <1>2 DEF Provenance!FollowDirective, Provenance!Required, Directive
  <1>4. CASE f \in Provenance!Files /\ stack' = Append(s, [file |-> f, next |-> 0]) /\ UNCHANGED extraction
    <2>1. f \in Provenance!Reachable
      BY <1>1, <1>2, <1>3, <1>4, ReachableClosed DEF StackOK
    <2>2. /\ s \in Seq(Frame) /\ Len(s) = n /\ s[n].file = top.file /\ s[n].next = top.next + 1
          /\ \A i \in 1..n : i # n => s[i] = stack[i]
      <3>1. stack \in Seq(Frame) /\ Len(stack) > 0
        BY <1>1 DEF StackOK
      <3>2. PICK m \in Nat : m = top.next + 1
        BY <1>2
      <3>3. s = [stack EXCEPT ![Len(stack)].next = m]
        BY <3>2
      <3> HIDE DEF s
      <3>4. MovedOn(stack, s, m)
        BY ONLY <3>1, <3>3, m \in Nat, TopFrame, Zenon
      <3> QED  BY <3>2, <3>4 DEF MovedOn
    <2> HIDE DEF s, f
    <2>3. [file |-> f, next |-> 0] \in Frame
      BY <1>4 DEF Frame
    <2>4. /\ stack' \in Seq(Frame) /\ Len(stack') = n + 1 /\ stack'[n + 1] = [file |-> f, next |-> 0]
          /\ \A i \in 1..n : stack'[i] = s[i]
      BY <1>4, <2>2, <2>3, AppendProperties
    <2>5. \A i \in 1..n : stack'[i].file = stack[i].file /\ (i # n => stack'[i].next = stack[i].next)
      BY <2>2, <2>4
    <2>6. stack'[n].next = top.next + 1 /\ Len(stack') # n
      BY <1>2, <2>2, <2>4
    <2>7. stack'[n + 1].next = 0 /\ stack'[n + 1].file = f
      BY <2>4
    <2>8. StackOK' /\ NoneForgotten'
      <3>1. f = Directive(top.file, top.next)
        BY DEF f
      <3> HIDE DEF n, top
      <3>2. n = Len(stack) /\ top = stack[n]
        BY DEF n, top
      <3>3. /\ top.next \in 1..Len(content[top.file]) /\ UNCHANGED <<content, provenance>>
            /\ stack' \in Seq(Frame) /\ Len(stack') \in {n, n + 1} /\ Len(stack') # n
        BY <1>1, <1>3, <2>4, <2>6
      <3>4. /\ \A i \in 1..n : stack'[i].file = stack[i].file
            /\ \A i \in 1..n : i # n => stack'[i].next = stack[i].next
            /\ stack'[n].next = top.next + 1 /\ stack'[n + 1].next = 0
            /\ stack'[n + 1].file \in Provenance!Reachable /\ stack'[n + 1].file = Directive(top.file, top.next)
        BY <3>1, <2>1, <2>5, <2>6, <2>7
      <3>5. StackOK /\ NoneForgotten
        BY <1>1
      <3> QED  BY ONLY <3>2, <3>3, <3>4, <3>5, DirectiveDone
    <2> QED  BY <1>1, <1>4, <2>8 DEF ProvenanceInv
  <1>5. CASE extraction' = "error" /\ UNCHANGED stack
    <2>1. StackOK'
      BY <1>1, <1>5, SameReachable DEF StackOK
    <2>2. NoneForgotten'
      BY <1>1, <1>5, NoneForgottenStays
    <2> QED  BY <2>1, <2>2, <1>5 DEF ProvenanceInv
  <1> QED  BY <1>3, <1>4, <1>5

LEMMA ReturnStep == ASSUME ProvenanceInv, Provenance!Return  PROVE ProvenanceInv'
  <1> DEFINE n == Len(stack)
             top == stack[n]
  <1>1. StackOK /\ NoneForgotten /\ UNCHANGED <<content, provenance>> /\ extraction = "none"
    BY DEF ProvenanceInv, Provenance!Return
  <1>2. /\ n \in Nat /\ n \in 1..n /\ top.file \in Provenance!Files /\ Provenance!Top = top /\ top.next \in Nat
        /\ Len(content[top.file]) \in Nat
        /\ \A i \in 1..n : stack[i] \in Frame /\ stack[i].next \in Nat
    BY <1>1, LastFrame
  <1>3. /\ top.next = Len(content[top.file]) + 1
        /\ IF n = 1 THEN extraction' = "returned" /\ UNCHANGED stack
           ELSE stack' = SubSeq(stack, 1, n - 1) /\ UNCHANGED extraction
    BY <1>2 DEF Provenance!Return
  <1>4. top.file \in provenance
    BY <1>1, <1>2, <1>3 DEF StackOK
  <1>5. ASSUME NEW f \in provenance, NEW j \in 1..Len(content[f])
        PROVE  \/ Followed(f, j)
               \/ \E i \in 1..n : /\ stack[i].file = f /\ i < n
                                  /\ stack[i].next <= j \/ (stack[i].next = j + 1 /\ stack[i + 1].file = Directive(f, j))
    <2>1. CASE Followed(f, j)
      BY <2>1
    <2>2. CASE Pending(f, j)
      <3>1. PICK i \in 1..n : /\ stack[i].file = f
                              /\ \/ stack[i].next <= j
                                 \/ stack[i].next = j + 1 /\ i < n /\ stack[i + 1].file = Directive(f, j)
        BY <2>2 DEF Pending
      <3>2. i < n
        BY <3>1, <1>2, <1>3
      <3> QED  BY <3>1, <3>2
    <2> QED  BY <2>1, <2>2, <1>1 DEF NoneForgotten
  <1>6. CASE n = 1
    <2>1. \A f \in provenance : \A j \in 1..Len(content[f]) : Followed(f, j)
      BY <1>5, <1>6
    <2>2. Provenance!Root \in provenance
      BY <1>1, <1>4, <1>6 DEF StackOK
    <2>3. UNCHANGED <<content, stack, provenance>>
      BY <1>1, <1>3, <1>6
    <2>4. StackOK'
      BY <1>1, <2>3, SameReachable DEF StackOK
    <2>5. \A f \in provenance' : \A j \in 1..Len(content'[f]) : Followed(f, j)'
      BY <2>1, <2>3, FollowedStays
    <2> QED  BY <2>2, <2>3, <2>4, <2>5 DEF ProvenanceInv, NoneForgotten
  <1>7. CASE n # 1
    <2>1. stack' = SubSeq(stack, 1, n - 1) /\ extraction' = "none"
      BY <1>1, <1>3, <1>7
    <2>2. n - 1 \in Nat /\ n - 1 >= 1 /\ \A i \in 1..(n - 1) : stack[i] \in Frame
      <3>1. \A i \in 1..n : stack[i] \in Frame
        BY <1>2
      <3>2. \A k \in Nat : k \in 1..k /\ k # 1 => k - 1 \in Nat /\ k - 1 >= 1 /\ \A i \in 1..(k - 1) : i \in 1..k
        OBVIOUS
      <3>3. n \in Nat /\ n \in 1..n /\ n # 1
        BY <1>2, <1>7
      <3> HIDE DEF n
      <3>4. n - 1 \in Nat /\ n - 1 >= 1 /\ \A i \in 1..(n - 1) : i \in 1..n
        BY ONLY <3>2, <3>3, Zenon
      <3> QED  BY <3>1, <3>4
    <2>3. /\ stack' \in Seq(Frame) /\ Len(stack') = n - 1 /\ \A i \in 1..(n - 1) : stack'[i] = stack[i]
      BY <2>1, <2>2, SubSeqProperties
    <2>4. StackOK'
      <3>1. stack'[1].file = Provenance!Root /\ Len(stack') > 0
        BY <1>1, <2>2, <2>3 DEF StackOK
      <3>2. ASSUME NEW i \in 1..(n - 1)  PROVE stack'[i].file \in Provenance!Reachable /\ stack'[i].file \in provenance
        BY <1>1, <1>2, <2>3 DEF StackOK
      <3> QED  BY <1>1, <2>3, <3>1, <3>2, SameReachable DEF StackOK
    <2>5. ASSUME NEW f \in provenance, NEW j \in 1..Len(content[f])  PROVE Followed(f, j)' \/ Pending(f, j)'
      <3>1. CASE Followed(f, j)
        BY <3>1, <1>1, FollowedStays
      <3>2. ASSUME NEW i \in 1..n, stack[i].file = f, i < n,
                   stack[i].next <= j \/ (stack[i].next = j + 1 /\ stack[i + 1].file = Directive(f, j))
            PROVE  Followed(f, j)' \/ Pending(f, j)'
        <4>1. i \in 1..Len(stack') /\ stack'[i] = stack[i]
          BY <3>2, <1>2, <2>3
        <4>2. CASE stack[i].next <= j
          BY <4>1, <4>2, <3>2 DEF Pending
        <4>3. CASE i < n - 1 /\ stack[i].next = j + 1 /\ stack[i + 1].file = Directive(f, j)
          <5>1. i + 1 \in 1..(n - 1) /\ i < Len(stack')
            BY <4>3, <1>2, <2>3
          <5>2. stack'[i + 1].file = Directive(f, j)'
            BY <4>3, <5>1, <2>3, <1>1, SameReachable
          <5> QED  BY <4>1, <4>3, <5>1, <5>2, <3>2 DEF Pending
        <4>4. CASE i = n - 1 /\ stack[i + 1].file = Directive(f, j)
          <5>1. top.file = Directive(f, j)
            BY <4>4, <1>2
          <5>2. Followed(f, j)
            BY <5>1, <1>4 DEF Followed
          <5> QED  BY <5>2, <1>1, FollowedStays
        <4> QED  BY <4>2, <4>3, <4>4, <3>2, <1>2
      <3> QED  BY <3>1, <3>2, <1>5
    <2> QED  BY <2>1, <2>4, <2>5, <1>1 DEF ProvenanceInv, NoneForgotten
  <1> QED  BY <1>6, <1>7

LEMMA ProvenanceBegins == ASSUME Provenance!Init  PROVE ProvenanceInv
  <1>1. content \in [Provenance!Files -> Seq(Provenance!Directives)]
    <2>1. \A max \in Nat : Provenance!Contents(max) \subseteq Seq(Provenance!Directives)
      <3>1. \A max \in Nat : \A k \in 0..max : [1..k -> Provenance!Directives] \subseteq Seq(Provenance!Directives)
        BY SMT
      <3> QED  BY <3>1 DEF Provenance!Contents
    <2>2. PICK required \in [Provenance!Files -> Provenance!Contents(MaxRequired)],
               scanned \in Provenance!Contents(MaxDirectives) :
            content = [required EXCEPT ![Provenance!Root] = scanned]
      BY DEF Provenance!Init
    <2>3. /\ required \in [Provenance!Files -> Seq(Provenance!Directives)]
          /\ scanned \in Seq(Provenance!Directives)
      BY <2>1, <2>2, ContentAssumption
    <2> QED  BY <2>2, <2>3
  <1>2. stack = <<[file |-> Provenance!Root, next |-> 0]>> /\ provenance = {} /\ extraction = "none"
    BY DEF Provenance!Init
  <1>3. Provenance!Root \in Provenance!Files /\ Provenance!Root \in Provenance!Reachable
    BY ReachableClosed
  <1>4. [file |-> Provenance!Root, next |-> 0] \in Frame
    BY <1>3 DEF Frame
  <1>5. stack \in Seq(Frame) /\ Len(stack) = 1 /\ stack[1] = [file |-> Provenance!Root, next |-> 0]
    BY <1>2, <1>4
  <1> QED  BY <1>1, <1>2, <1>3, <1>5 DEF ProvenanceInv, StackOK, NoneForgotten

LEMMA ProvenanceStep ==
  ASSUME ProvenanceInv, [Provenance!Next]_provenanceVars  PROVE ProvenanceInv'
  <1>1. CASE UNCHANGED provenanceVars
    <2>1. UNCHANGED <<content, stack, provenance, extraction>>
      BY <1>1 DEF provenanceVars
    <2>2. StackOK'
      BY <2>1, SameReachable DEF ProvenanceInv, StackOK
    <2>3. NoneForgotten'
      BY <2>1, NoneForgottenStays DEF ProvenanceInv
    <2> QED  BY <2>1, <2>2, <2>3, FollowedStays DEF ProvenanceInv
  <1> QED  BY <1>1, ReadFileStep, SkipDirectiveStep, FollowDirectiveStep, ReturnStep DEF Provenance!Next

\* The files parsed at the end belong to the project, and nothing they require has
\* been forgotten.
LEMMA ProvenanceComplete == ASSUME ProvenanceInv  PROVE Provenance!AllRequiredParsed
  <1> SUFFICES ASSUME extraction = "returned"
               PROVE  /\ Provenance!Root \in provenance /\ provenance \subseteq Provenance!Reachable
                      /\ \A f \in provenance : \A i \in DOMAIN content[f] : Followed(f, i)
    BY DEF Provenance!AllRequiredParsed, Followed, Directive
  <1>1. /\ StackOK /\ Provenance!Root \in provenance
        /\ \A f \in provenance : \A j \in 1..Len(content[f]) : Followed(f, j)
    BY DEF ProvenanceInv
  <1>2. provenance \subseteq Provenance!Reachable /\ provenance \subseteq Provenance!Files
    BY <1>1, ReachableClosed DEF StackOK
  <1> QED  BY <1>1, <1>2, LastFrame

\* A call starts only for a text that is no key of a file parsed before, so of
\* none whose call waits for it.
LEMMA DetectedStep ==
  ASSUME StackOK, Provenance!RecursionDetected, [Provenance!Next]_provenanceVars
  PROVE  Provenance!RecursionDetected'
  <1> DEFINE n == Len(stack)
             top == stack[n]
  <1>1. /\ n \in Nat /\ n \in 1..n /\ Provenance!Top = top /\ top.next \in Nat /\ DOMAIN stack = 1..n
        /\ top.file \in Provenance!Files /\ stack \in Seq(Frame) /\ Len(stack) > 0
        /\ \A i \in 1..n : stack[i] \in Frame
    BY LastFrame, LenProperties DEF StackOK
  <1>2. UNCHANGED content
    BY DEF Provenance!Next, provenanceVars, Provenance!ReadFile, Provenance!SkipDirective,
           Provenance!FollowDirective, Provenance!Return
  <1>3. \A i, j \in 1..n : i < j => Provenance!KeyOf(Provenance!LedTo(j)) # stack[i].file
    BY <1>1 DEF Provenance!RecursionDetected
  <1>4. ASSUME NEW m \in Nat, m <= n + 1, DOMAIN stack' = 1..m,
               \A i \in 1..n : i <= m => stack'[i].file = stack[i].file,
               \A i \in 1..n : i < n /\ i <= m => stack'[i].next = stack[i].next,
               m = n + 1 =>
                 \A i \in 1..n : Provenance!KeyOf(content[stack'[n].file][stack'[n].next - 1]) # stack[i].file
        PROVE  Provenance!RecursionDetected'
    <2> SUFFICES ASSUME NEW i \in 1..m, NEW j \in 1..m, i < j
                 PROVE  Provenance!KeyOf(content[stack'[j - 1].file][stack'[j - 1].next - 1]) # stack'[i].file
      BY <1>2, <1>4 DEF Provenance!RecursionDetected, Provenance!KeyOf, Provenance!LedTo
    <2>0. n \in Nat /\ m \in Nat /\ m <= n + 1
      BY <1>1, <1>4
    <2>1. CASE j = n + 1
      <3>1. m = n + 1 /\ i \in 1..n /\ j - 1 = n
        <4> HIDE DEF n
        <4> QED  BY ONLY <2>0, <2>1, i \in 1..m, j \in 1..m, i < j
      <3>2. stack'[i].file = stack[i].file
        BY <3>1, <1>4
      <3> QED  BY <3>1, <3>2, <1>4
    <2>2. CASE j # n + 1
      <3>1. j \in 1..n /\ i \in 1..n /\ j - 1 \in 1..n /\ j - 1 < n /\ j - 1 <= m
        <4> HIDE DEF n
        <4> QED  BY ONLY <2>0, <2>2, i \in 1..m, j \in 1..m, i < j
      <3>2. /\ stack'[i].file = stack[i].file /\ stack'[j - 1].file = stack[j - 1].file
            /\ stack'[j - 1].next = stack[j - 1].next
        BY <3>1, <1>4
      <3> QED  BY <3>1, <3>2, <1>3 DEF Provenance!LedTo
    <2> QED  BY <2>1, <2>2
  <1>5. CASE UNCHANGED stack
    BY <1>1, <1>2, <1>5 DEF Provenance!RecursionDetected, Provenance!LedTo, Provenance!KeyOf
  <1>6. ASSUME NEW k \in Nat, stack' = [stack EXCEPT ![n].next = k]
        PROVE  Provenance!RecursionDetected'
    <2>1. MovedOn(stack, stack', k)
      BY ONLY <1>1, <1>6, TopFrame
    <2>2. DOMAIN stack' = 1..n
      BY <2>1, LenProperties DEF MovedOn
    <2>3. /\ \A i \in 1..n : stack'[i].file = stack[i].file
          /\ \A i \in 1..n : i < n => stack'[i].next = stack[i].next
      BY <2>1, <1>1 DEF MovedOn
    <2>4. n \in Nat /\ n <= n + 1 /\ n # n + 1
      <3>1. n \in Nat
        BY <1>1
      <3> HIDE DEF n
      <3> QED  BY ONLY <3>1
    <2> QED  BY <2>2, <2>3, <2>4, <1>4
  <1>7. CASE Provenance!ReadFile \/ Provenance!SkipDirective
    <2>1. \/ UNCHANGED stack
          \/ stack' = [stack EXCEPT ![n].next = 1]
          \/ stack' = [stack EXCEPT ![n].next = top.next + 1]
      BY <1>1, <1>7 DEF Provenance!ReadFile, Provenance!SkipDirective
    <2> QED  BY <2>1, <1>1, <1>5, <1>6
  <1>8. CASE Provenance!FollowDirective
    <2> DEFINE f == Provenance!Resolve(top.file.dir, content[top.file][top.next])
               s == [stack EXCEPT ![n].next = top.next + 1]
    <2>1. CASE f \in Provenance!Files /\ stack' = Append(s, [file |-> f, next |-> 0])
      <3>1. PICK k \in Nat : k = top.next + 1
        BY <1>1
      <3>2. MovedOn(stack, s, k)
        <4>1. s = [stack EXCEPT ![Len(stack)].next = k]
          BY <3>1
        <4> HIDE DEF s
        <4> QED  BY ONLY <1>1, <4>1, TopFrame
      <3>3. [file |-> f, next |-> 0] \in Frame
        BY <2>1 DEF Frame
      <3> HIDE DEF s, f
      <3>4. /\ stack' \in Seq(Frame) /\ Len(stack') = n + 1
            /\ \A i \in 1..n : stack'[i] = s[i]
        BY <2>1, <3>2, <3>3, AppendProperties DEF MovedOn
      <3>5. DOMAIN stack' = 1..(n + 1)
        BY <3>4, LenProperties
      <3>6. /\ \A i \in 1..n : stack'[i].file = stack[i].file
            /\ \A i \in 1..n : i < n => stack'[i].next = stack[i].next
            /\ stack'[n].next = top.next + 1
        BY <3>1, <3>2, <3>4, <1>1 DEF MovedOn
      <3>7. content[stack'[n].file][stack'[n].next - 1] = content[top.file][top.next]
        <4>1. /\ top.next \in Nat /\ n \in 1..n
          BY <1>1
        <4>2. stack'[n].file = top.file /\ stack'[n].next = top.next + 1
          BY <3>6, <4>1
        <4>3. \A t \in Nat : (t + 1) - 1 = t
          OBVIOUS
        <4>4. (top.next + 1) - 1 = top.next
          BY ONLY <4>1, <4>3, Zenon
        <4>5. stack'[n].next - 1 = top.next
          BY ONLY <4>2, <4>4, Zenon
        <4> QED  BY ONLY <4>2, <4>5, Zenon
      <3>8. top.next > 0 /\ Provenance!KeyOf(content[top.file][top.next]) \notin provenance
        BY <1>1, <1>8 DEF Provenance!FollowDirective, Provenance!AlreadyParsed, Provenance!Required
      <3>9. \A i \in 1..n : stack[i].file \in provenance
        BY <3>8, <1>1 DEF StackOK
      <3>10. n + 1 \in Nat /\ n + 1 <= n + 1
        BY <1>1
      <3>11. \A i \in 1..n : Provenance!KeyOf(content[stack'[n].file][stack'[n].next - 1]) # stack[i].file
        BY <3>7, <3>8, <3>9
      <3> QED  BY <3>5, <3>6, <3>10, <3>11, <1>4
    <2>2. CASE UNCHANGED stack
      BY <2>2, <1>5
    <2> QED  BY <1>1, <1>8, <2>1, <2>2 DEF Provenance!FollowDirective, Provenance!Required
  <1>9. CASE Provenance!Return
    <2>1. CASE n = 1
      BY <1>5, <1>9, <2>1 DEF Provenance!Return
    <2>2. CASE n # 1
      <3>1. stack' = SubSeq(stack, 1, n - 1)
        BY <1>9, <2>2 DEF Provenance!Return
      <3>2. n - 1 \in Nat /\ n - 1 >= 1 /\ \A i \in 1..(n - 1) : i \in 1..n
        BY <1>1, <2>2
      <3>3. stack' \in Seq(Frame) /\ Len(stack') = n - 1 /\ \A i \in 1..(n - 1) : stack'[i] = stack[i]
        BY <3>1, <3>2, <1>1, SubSeqProperties
      <3>4. DOMAIN stack' = 1..(n - 1)
        BY <3>3, LenProperties
      <3>5. /\ \A i \in 1..n : i <= n - 1 => stack'[i].file = stack[i].file
            /\ \A i \in 1..n : i < n /\ i <= n - 1 => stack'[i].next = stack[i].next
        BY <3>2, <3>3
      <3>6. n - 1 \in Nat /\ n - 1 <= n + 1 /\ n - 1 # n + 1
        <4>1. n \in Nat /\ n - 1 \in Nat
          BY <1>1, <3>2
        <4> HIDE DEF n
        <4> QED  BY ONLY <4>1
      <3> QED  BY <3>4, <3>5, <3>6, <1>4
    <2> QED  BY <2>1, <2>2
  <1>10. CASE UNCHANGED provenanceVars
    BY <1>5, <1>10 DEF provenanceVars
  <1> QED  BY <1>7, <1>8, <1>9, <1>10 DEF Provenance!Next

\* However many files there are, in the root and in lib, and however they require
\* each other: when the search for the files of a project returns, it has parsed
\* files of the project only, and what each directive requires, or a file whose
\* key is the directive's text; no file is processed inside of its own processing
\* for a directive that names it by its key.
THEOREM AllRequiredAlwaysParsed == FixSpec => []AllRequiredParsed
  <1> DEFINE Inv == part = "provenance" => ProvenanceInv /\ Provenance!RecursionDetected
  <1>1. FixInit => Inv
    <2> SUFFICES ASSUME Provenance!Init  PROVE ProvenanceInv /\ Provenance!RecursionDetected
      BY DEF FixInit
    <2>1. DOMAIN stack = 1..1
      BY DEF Provenance!Init
    <2> QED  BY <2>1, ProvenanceBegins DEF Provenance!RecursionDetected
  <1>2. Inv /\ [FixNext]_<<part, vars, provenanceVars, requirementsVars>> => Inv'
    <2> SUFFICES ASSUME Inv, [FixNext]_<<part, vars, provenanceVars, requirementsVars>>, part' = "provenance"
                 PROVE  ProvenanceInv' /\ Provenance!RecursionDetected'
      OBVIOUS
    <2>1. part = "provenance" /\ [Provenance!Next]_provenanceVars
      BY DEF FixNext
    <2> QED  BY <2>1, ProvenanceStep, DetectedStep DEF ProvenanceInv
  <1>3. Inv => AllRequiredParsed
    BY ProvenanceComplete DEF AllRequiredParsed
  <1> QED  BY <1>1, <1>2, <1>3, PTL DEF FixSpec

==============================================================================
