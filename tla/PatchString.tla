------------------------------ MODULE PatchString ----------------------------
(***************************************************************************)
(* patchString of vulnmap-protect (patch.ts): the lines of a patch applied *)
(* to the lines of a file by their numbers, from the line of the first     *)
(* hunk on.  The input is the file, with the line number of the hunk, and  *)
(* the lines of the patch, <<type, text>> ...; the two lines that end a    *)
(* patch are left out.  In a file with carriage returns all lines but the  *)
(* last one end with one.                                                  *)
(***************************************************************************)
EXTENDS Inputs, SequencesExt

CONSTANTS Texts, MaxFileLines, MaxPatchLines

ASSUME PatchAssumption == MaxFileLines \in Nat

\* getPatchType: what a line of the patch begins with, +, -, a space or anything else.
PatchTypes == {"add", "remove", "keep", "other"}
PatchedFiles ==
  [start : 0..MaxFileLines, returns : BOOLEAN, texts : BoundedSeq(Texts, MaxFileLines) \ {<<>>}]

\* contentsToPatchLines: what the lines say and whether they have the return.
FileLines(words) ==
  LET f == words[1]
  IN  [i \in DOMAIN f.texts |-> [text |-> f.texts[i], cr |-> f.returns /\ i < Len(f.texts)]]
PatchLines(words) == Tail(words)

\* Mutant: the first line of the patch is taken for the line after it.
StartLine_Off(words) == words[1].start

\* lineToPatch before the first line of the patch, counted from 1.
StartLine(words) == words[1].start - 1

\* getNextLine: the text, with the return that the current line has.
NextLine(current, p) == [text |-> p[2], cr |-> current.cr]

\* One line of the patch. A removed line is not compared, and the line that
\* follows it is passed over.
PatchLine(s, p) ==
  LET at == s.at + 1  lines == s.lines IN
  IF s.thrown \/ at \notin DOMAIN lines THEN [s EXCEPT !.thrown = TRUE]
  ELSE CASE p[1] = "remove" -> [s EXCEPT !.at = at, !.lines = RemoveAt(lines, at)]
         [] p[1] = "add" -> [s EXCEPT !.at = at,
                             !.lines = InsertAt(lines, at, NextLine(lines[at], p))]
         [] p[1] = "keep" -> [s EXCEPT !.at = at, !.thrown = lines[at] # NextLine(lines[at], p)]
         [] OTHER -> [s EXCEPT !.at = at]

\* The loop over the lines of the patch.
Patched(words) ==
  LET after[n \in 0..Len(PatchLines(words))] ==
        IF n = 0 THEN [at |-> StartLine(words), lines |-> FileLines(words), thrown |-> FALSE]
        ELSE PatchLine(after[n - 1], PatchLines(words)[n])
  IN  after[Len(PatchLines(words))]

PatchNext ==
  \/ Len(input) = 0 /\ Grow("patch", PatchedFiles, 1)
  \/ kind = "patch" /\ Len(input) > 0 /\ Grow("patch", PatchTypes \X Texts, 1 + MaxPatchLines)

------------------------------------------------------------------------------
\* What a patch of one hunk means: the lines that it keeps and the ones that it
\* removes are those of the file.
HunkLine(s, p) ==
  IF s.failed THEN s
  ELSE IF p[1] = "add" THEN [s EXCEPT !.lines = InsertAt(s.lines, s.at, p[2]), !.at = @ + 1]
  ELSE IF s.at \notin DOMAIN s.lines \/ s.lines[s.at] # p[2] THEN [s EXCEPT !.failed = TRUE]
  ELSE IF p[1] = "keep" THEN [s EXCEPT !.at = @ + 1]
  ELSE [s EXCEPT !.lines = RemoveAt(s.lines, s.at)]

ApplyHunk(words) ==
  LET after[n \in 0..Len(PatchLines(words))] ==
        IF n = 0 THEN [at |-> words[1].start, lines |-> words[1].texts, failed |-> FALSE]
        ELSE HunkLine(after[n - 1], PatchLines(words)[n])
  IN  after[Len(PatchLines(words))]

HasLines(types) == \E p \in Range(PatchLines(input)) : p[1] \in types
StartsInFile == input # <<>> /\ input[1].start \in DOMAIN input[1].texts

\* A patch that only adds lines is applied as it says or is refused: every line
\* of the file is kept, in its order and at its place, and in a file with
\* carriage returns only lines added before the last one lack them (patch.ts:76,
\* patch.ts:48).
AdditionsAreExact ==
  kind = "patch" /\ StartsInFile /\ ~HasLines({"remove", "other"}) /\ ~Patched(input).thrown =>
    LET r == ApplyHunk(input)  new == Patched(input).lines
    IN  /\ ~r.failed /\ [i \in DOMAIN new |-> new[i].text] = r.lines
        /\ \A j \in DOMAIN new : new[j].cr => \A i \in 1..j : new[i].cr

\* "if the patch is not compatible with the target, make sure we throw an Error"
IncompatibleIsRefused ==
  kind = "patch" /\ StartsInFile /\ ~HasLines({"other"}) /\ ApplyHunk(input).failed =>
    Patched(input).thrown
==============================================================================
