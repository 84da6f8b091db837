---------------------------- MODULE PipProvenance ----------------------------
(***************************************************************************)
(* extractProvenance of vulnmap fix (extract-version-provenance.ts): which *)
(* files belong to a requirements.txt project, found by following its -r   *)
(* and -c directives.  It calls itself for every required file, one at a   *)
(* time; the calls that have not returned are a stack.                     *)
(*                                                                         *)
(* A path is a directory and a base name.  What a directive says is kept   *)
(* as written: it is relative to the file's directory, while the keys of   *)
(* provenance are paths relative to the root directory.                    *)
(***************************************************************************)
EXTENDS Integers, Sequences, FiniteSets

CONSTANTS
  Dirs,            \* directories, of "." and "lib"
  Bases,           \* base names
  Entry,           \* base name of the scanned file, in "."
  Prefixes,        \* what a directive puts before the base name
  MaxDirectives,   \* bound: directives of the scanned file
  MaxRequired,     \* bound: directives of any other file
  MaxDepth         \* bound: calls on the stack

Files == [dir : Dirs, base : Bases]
Root  == [dir |-> ".", base |-> Entry]
Directives == [prefix : Prefixes, base : Bases]
NoFile == [dir |-> "none", base |-> "none"]

VARIABLES
  content,      \* the directives of each file, in their order
  stack,        \* calls: the file and its next directive
  provenance,   \* files parsed, the keys of the record
  outcome       \* "none", "returned", "error"

vars == <<content, stack, provenance, outcome>>

Contents(max) == UNION {[1..n -> Directives] : n \in 0..max}

Init ==
  /\ \E required \in [Files -> Contents(MaxRequired)], scanned \in Contents(MaxDirectives) :
       content = [required EXCEPT ![Root] = scanned]
  /\ stack = <<[file |-> Root, next |-> 0]>>
  /\ provenance = {}
  /\ outcome = "none"

------------------------------------------------------------------------------
(* Paths *)

\* path.join(dir, text)
Resolve(dir, text) ==
  CASE text.prefix \in {"", "./"} -> [dir |-> dir, base |-> text.base]
    [] text.prefix = "lib/" /\ dir = "." -> [dir |-> "lib", base |-> text.base]
    [] text.prefix = "../" /\ dir = "lib" -> [dir |-> ".", base |-> text.base]
    [] OTHER -> NoFile

\* The key that the text of a directive happens to be.
KeyOf(text) ==
  CASE text.prefix = "" -> [dir |-> ".", base |-> text.base]
    [] text.prefix = "lib/" -> [dir |-> "lib", base |-> text.base]
    [] OTHER -> NoFile

------------------------------------------------------------------------------
(* extractProvenance *)

Top == stack[Len(stack)]
Required == content[Top.file][Top.next]

\* The beginning of a call: the file is read and parsed, or is not there.
ReadFile ==
  /\ outcome = "none" /\ Top.next = 0
  /\ \/ /\ provenance' = provenance \cup {Top.file}
        /\ stack' = [stack EXCEPT ![Len(stack)].next = 1]
        /\ UNCHANGED outcome
     \/ /\ outcome' = "error"
        /\ UNCHANGED <<stack, provenance>>
  /\ UNCHANGED content

AlreadyParsed(text) == KeyOf(text) \in provenance

\* Mutant: the other directives of the file are not looked at.
SkipDirective_Stop ==
  /\ outcome = "none" /\ Top.next \in 1..Len(content[Top.file])
  /\ AlreadyParsed(Required)
  /\ stack' = [stack EXCEPT ![Len(stack)].next = Len(content[Top.file]) + 1]
  /\ UNCHANGED <<content, provenance, outcome>>

SkipDirective ==
  /\ outcome = "none" /\ Top.next \in 1..Len(content[Top.file])
  /\ AlreadyParsed(Required)
  /\ stack' = [stack EXCEPT ![Len(stack)].next = @ + 1]
  /\ UNCHANGED <<content, provenance, outcome>>

\* The call for a required file.
FollowDirective ==
  /\ outcome = "none" /\ Top.next \in 1..Len(content[Top.file])
  /\ ~AlreadyParsed(Required)
  /\ Len(stack) < MaxDepth
  /\ LET f == Resolve(Top.file.dir, Required) IN
       \/ /\ f \in Files
          /\ stack' = Append([stack EXCEPT ![Len(stack)].next = @ + 1],
                             [file |-> f, next |-> 0])
          /\ UNCHANGED outcome
       \/ f \notin Files /\ outcome' = "error" /\ UNCHANGED stack
  /\ UNCHANGED <<content, provenance>>

Return ==
  /\ outcome = "none" /\ Top.next = Len(content[Top.file]) + 1
  /\ IF Len(stack) = 1 THEN outcome' = "returned" /\ UNCHANGED stack
     ELSE stack' = SubSeq(stack, 1, Len(stack) - 1) /\ UNCHANGED outcome
  /\ UNCHANGED <<content, provenance>>

Next == ReadFile \/ SkipDirective \/ FollowDirective \/ Return

Spec == Init /\ [][Next]_vars

------------------------------------------------------------------------------
(* Properties *)

TypeOK ==
  /\ \A f \in Files : content[f] \in Seq(Directives)
  /\ stack \in Seq([file : Files, next : Nat])
  /\ provenance \subseteq Files
  /\ outcome \in {"none", "returned", "error"}

RequiredBy(f) ==
  {Resolve(f.dir, content[f][i]) : i \in DOMAIN content[f]} \ {NoFile}

\* The files that belong to the project: the least set that has the scanned one
\* and all that its files require.
Closed(S) == \A f \in S : RequiredBy(f) \subseteq S
Reachable == {f \in Files : \A S \in SUBSET Files : Root \in S /\ Closed(S) => f \in S}

\* "can extract and parse all required files": when it returns, it has parsed the
\* scanned file and only files of the project, and each directive of each of
\* them, in whatever directory it stands: the file it requires, or else a file
\* whose key is its text.  The second is the code's mistake when that file is
\* another one; nothing else is forgotten, however files require each other.
AllRequiredParsed ==
  outcome = "returned" =>
    /\ Root \in provenance /\ provenance \subseteq Reachable
    /\ \A f \in provenance : \A i \in DOMAIN content[f] :
         Resolve(f.dir, content[f][i]) \in provenance \/ AlreadyParsed(content[f][i])

\* The directive that led to a call other than the first.
LedTo(j) == content[stack[j - 1].file][stack[j - 1].next - 1]

\* "Detected recursive require directive, skipping": a file is processed again
\* inside of its own processing only when it is not required by its key, but
\* with "./" or from a subdirectory.
RecursionDetected ==
  \A i, j \in DOMAIN stack : i < j => KeyOf(LedTo(j)) # stack[i].file
==============================================================================
