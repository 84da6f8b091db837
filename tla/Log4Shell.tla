------------------------------ MODULE Log4Shell ------------------------------
(***************************************************************************)
(* vulnmap log4shell (cli/commands/log4shell.ts): the built artifacts      *)
(* below the current folder, and inside their archives, whose hash is      *)
(* known to be one of a vulnerable Log4J.                                  *)
(*                                                                         *)
(* The input is a set of artifacts, given by their increasing numbers in   *)
(* ArtifactsInOrder.  An artifact lies in a chain of archives, `in`, with  *)
(* a class under the root of its packages, `root`.                         *)
(***************************************************************************)
EXTENDS Inputs, FiniteSetsExt

CONSTANTS
  ArtifactsInOrder, \* of [in, root, name, versions, content], outer archives first
  Archives,         \* names that end with .jar, .war or ear
  MaxArtifacts

ASSUME ArchiveAssumption ==
  "JndiLookup.jar" \in Archives
  /\ {"JndiManager.class", "JndiManager.java", "JndiLookup.class"} \cap Archives = {}

Telling == {"before 2.16", "2.16"}

\* The versions that a hash is known for; none for any other hash.
Known(a) == a.versions # <<>>
IsJavaArchive(a) == a.name \in Archives
JndiManager(a) == a.name \in {"JndiManager.class", "JndiManager.java"}
JndiLookup(a) == a.name \in {"JndiLookup.class", "JndiLookup.jar"}
IsArchiveOrJndi(a) == IsJavaArchive(a) \/ JndiManager(a) \/ JndiLookup(a)

\* A chain names the archives, one in the other. A file that is no archive or
\* cannot be read has no known hash.  vulnerableSignatures has no lookup class, and
\* of each hash a version that says something.
ASSUME ArtifactAssumption ==
  \A n \in DOMAIN ArtifactsInOrder :
    LET a == ArtifactsInOrder[n]
    IN  /\ a.in \in Seq(Archives)
        /\ a.content \in {"ok", "unlisted", "corrupt", "unreadable"}
        /\ Known(a) => /\ a.content \in {"ok", "unlisted"} /\ ~JndiLookup(a)
                       /\ \E i \in DOMAIN a.versions : a.versions[i] \in Telling
        /\ \A m \in DOMAIN ArtifactsInOrder :
             LET b == ArtifactsInOrder[m]
             IN  IsJavaArchive(a) /\ <<a.in, a.name>> = <<b.in, b.name>> => a.root = b.root

\* traverse: what stat and readdir refuse, and files beyond 2 GB, are left out.
Artifacts == {ArtifactsInOrder[input[i]] : i \in DOMAIN input}
Find4J == {a \in Artifacts : a.content # "unlisted"}

Signature(a) == Known(a) \/ JndiLookup(a)

\* parsePaths opens archives, if their hash is not known.  A file that is no
\* archive after all is empty.
Opens(a) == ~Signature(a) /\ IsJavaArchive(a) /\ a.content = "ok"

\* b is the archive that stands k-th in the chain `in`.
Stands(b, in, k) == b.in = SubSeq(in, 1, k - 1) /\ b.name = in[k]
Opened(in) == \A k \in DOMAIN in : \E b \in Find4J : Stands(b, in, k) /\ Opens(b)

\* parsePaths: the artifacts that are looked at, from the outside in.
ParsedPaths == {a \in Find4J : IsArchiveOrJndi(a) /\ Opened(a.in)}

Signatures == {a \in ParsedPaths : Signature(a)}

\* No handler for a file or an entry that cannot be read: the command rejects.
ScanThrows == \E a \in ParsedPaths : a.content = "unreadable"

\* computeExploitType: the first version that says something.
ComputeExploitType(a) ==
  LET telling == {i \in DOMAIN a.versions : a.versions[i] \in Telling}
  IN  IF telling = {} THEN "Unknown"
      ELSE IF a.versions[Min(telling)] = "2.16" THEN "DoS" ELSE "Log4Shell"

Beside(a, b) == a.in = b.in /\ a.root = b.root

\* Mutant: a lookup class anywhere will do for every manager.
FilterJndi_Anywhere(signatures) ==
  {a \in signatures : IsJavaArchive(a) \/ (JndiManager(a) /\ \E b \in signatures : b.name = "JndiLookup.class")}

\* filterJndi: a manager without the lookup class is mitigated.  A source file
\* has no place: a lookup class anywhere counts as its own.
FilterJndi(signatures) ==
  {a \in signatures :
     \/ IsJavaArchive(a)
     \/ JndiManager(a) /\ \E b \in signatures : b.name = "JndiLookup.class"
                                                /\ (a.name = "JndiManager.class" => Beside(a, b))}

Issues4J == FilterJndi(Signatures)
RceIssues == {a \in Issues4J : ComputeExploitType(a) = "Log4Shell"}
DosIssues == {a \in Issues4J : ComputeExploitType(a) = "DoS"}

\* log4shell: how the command ends.
Log4ShellEnd ==
  IF ScanThrows THEN "error" ELSE IF Issues4J = {} THEN "nothing detected" ELSE "VULNS"

Log4ShellNext ==
  /\ kind = "log4shell"
  /\ Grow("log4shell",
       {n \in DOMAIN ArtifactsInOrder :
          LET a == ArtifactsInOrder[n]
          IN  /\ \A i \in DOMAIN input : input[i] < n
              /\ \A b \in Artifacts : <<b.in, b.root, b.name>> # <<a.in, a.root, a.name>>
              /\ a.in # <<>> => \E b \in Artifacts : Append(b.in, b.name) = a.in},
       MaxArtifacts)

------------------------------------------------------------------------------
Within(a, b) == \E k \in DOMAIN a.in : Stands(b, a.in, k)
Vulnerable4J(a) ==
  Known(a) /\ (JndiManager(a) => \E b \in Find4J : b.name = "JndiLookup.class" /\ Beside(a, b))
Accessible(a) ==
  \A b \in Artifacts : b = a \/ Within(a, b) =>
    b.content \notin {"unlisted", "corrupt"} /\ b.name # "JndiLookup.jar"

\* Of the vulnerable artifacts that can be reached, however deep in archives,
\* each is shown, or an archive around it is, once; what is shown is vulnerable
\* and not mitigated by the removal of its lookup class; and the command says
\* that it detected nothing only when that is so.  Excepted are
\* sources and archives that are named JndiLookup, which end the
\* command with VULNS and nothing shown (log4shell.ts:161, :291), a file that
\* cannot be read, which ends it with nothing at all (log4shell.ts:155), and one
\* that cannot be listed, which is as good as removed (log4shell.ts:205).
Log4ShellFound ==
  kind = "log4shell" /\ Log4ShellEnd # "error" =>
    LET shown == RceIssues \cup DosIssues
    IN  /\ \A a \in {b \in Artifacts : IsArchiveOrJndi(b) /\ Vulnerable4J(b) /\ Accessible(b)} :
             Cardinality({b \in shown : b = a \/ Within(a, b)}) = 1
        /\ \A a \in shown : a.name # "JndiManager.java" => Vulnerable4J(a) /\ Accessible(a)
        /\ Log4ShellEnd = "VULNS" <=> shown # {} \/ \E a \in Signatures : a.name = "JndiLookup.jar"
        /\ RceIssues \cap DosIssues = {}
==============================================================================
