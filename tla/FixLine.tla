------------------------------- MODULE FixLine -------------------------------
(***************************************************************************)
(* applyFixesToContent on one line of a Markdown file: the fixes of all    *)
(* rules are sorted from right to left, duplicates and an insertion and a  *)
(* deletion at the same place are merged, and the rest are applied one by  *)
(* one unless they overlap the one before.                                 *)
(*                                                                         *)
(* The line is its Width characters; a fix deletes `del` characters from   *)
(* `col` on and inserts a text or NoText.  deleteCount -1, for the whole     *)
(* line, is `whole`.  Lines do not influence each other.                   *)
(***************************************************************************)
EXTENDS Integers, Sequences, FiniteSets, SequencesExt

CONSTANTS Width, Texts, MaxFixes, NoText

ASSUME FixAssumption == Width \in Nat /\ MaxFixes \in Nat /\ NoText \notin Texts

Fix ==
  { f \in [col : 1..(Width + 1), del : 0..Width, whole : BOOLEAN, text : Texts \cup {NoText}] :
      IF f.whole THEN f.col = 1 /\ f.del = 0
      ELSE f.col + f.del <= Width + 1 /\ (f.del > 0 \/ f.text # NoText) }

VARIABLES
  fixes,     (* the fixes, in the order the rules proposed them                   *)
  fixQueue,  (* fixInfos: [fix, from], `from` the positions in fixes it stands for *)
  phase,     (* "sort", "merge", "apply", "done"                                  *)
  line,      (* the text of the line, or NoText when it was deleted                 *)
  lastEdit,  (* the column of the fix before, or NoText                             *)
  applied    (* the positions in fixes of those that count as applied             *)

lineVars == <<fixes, fixQueue, phase, line, lastEdit, applied>>

Char(i) == <<"char", i>>
Text(t) == IF t = NoText THEN <<>> ELSE <<<<"text", t>>>>
Original == [i \in 1..Width |-> Char(i)]

FixLineInit ==
  /\ \E n \in 0..MaxFixes : fixes \in [1..n -> Fix]
  /\ fixQueue = <<>> /\ phase = "sort" /\ line = Original /\ lastEdit = NoText /\ applied = {}

------------------------------------------------------------------------------
\* Fixes of the whole line last and as they come (the comparison of two of them
\* never says "before"), then right to left, then longer texts first; the sort
\* is stable.  All texts are of one length here.
AppliedBefore(x, y) ==
  LET f == x.fix
      g == y.fix
      first == CHOOSE i \in x.from : TRUE
      second == CHOOSE i \in y.from : TRUE
  IN IF f.whole # g.whole THEN g.whole
     ELSE IF f.col # g.col THEN f.col > g.col
     ELSE IF ~f.whole /\ (f.text = NoText) # (g.text = NoText) THEN g.text = NoText
     ELSE first < second

Sorts ==
  /\ phase = "sort" /\ phase' = "merge"
  /\ fixQueue' = SetToSortSeq({[fix |-> fixes[i], from |-> {i}] : i \in DOMAIN fixes}, AppliedBefore)
  /\ UNCHANGED <<fixes, line, lastEdit, applied>>

\* A fix and its twin before it in the queue are one.
Dedupe(s) ==
  LET add(acc, x) ==
        IF acc # <<>> /\ Last(acc).fix = x.fix
        THEN Append(Front(acc), [fix |-> x.fix, from |-> Last(acc).from \cup x.from])
        ELSE Append(acc, x)
  IN FoldLeft(add, <<>>, s)

\* An insertion followed by a deletion at the same column is a replacement.
Fits(x, y) ==
  /\ x.fix.col = y.fix.col /\ ~y.fix.whole
  /\ y.fix.text = NoText /\ y.fix.del > 0
  /\ x.fix.text # NoText /\ x.fix.del = 0 /\ ~x.fix.whole

Join(s) ==
  LET add(acc, x) ==
        IF acc # <<>> /\ Fits(Last(acc), x)
        THEN Append(Front(acc), [fix |-> [x.fix EXCEPT !.text = Last(acc).fix.text],
                                 from |-> Last(acc).from \cup x.from])
        ELSE Append(acc, x)
  IN FoldLeft(add, <<>>, s)

Merges ==
  /\ phase = "merge" /\ phase' = "apply"
  /\ fixQueue' = Join(Dedupe(fixQueue))
  /\ UNCHANGED <<fixes, line, lastEdit, applied>>

\* Faulty: an insertion may touch the fix to its right.
ClearTouching(f) ==
  lastEdit = NoText \/ f.whole \/ f.col + f.del <= lastEdit
\* Faulty: only where a fix starts counts.
ClearStart(f) ==
  lastEdit = NoText \/ f.whole \/ f.col < lastEdit
\* Faulty: fixes must not touch.
ClearApart(f) ==
  lastEdit = NoText \/ f.whole \/ f.col + f.del < lastEdit

\* The fix does not overlap the one before it in the queue.
Clear(f) ==
  lastEdit = NoText \/ f.whole \/ f.col + f.del <= lastEdit - (IF f.del > 0 THEN 0 ELSE 1)

\* Faulty: a fix of the whole line always deletes it, as in markdownlint.
EditedDeletes(f) ==
  IF f.whole THEN NoText
  ELSE SubSeq(line, 1, f.col - 1) \o Text(f.text) \o SubSeq(line, f.col + f.del, Len(line))

\* deleteCount -1 deletes the line, or replaces it by the text.
Edited(f) ==
  IF f.whole THEN (IF f.text = NoText THEN NoText ELSE Text(f.text))
  ELSE SubSeq(line, 1, f.col - 1) \o Text(f.text) \o SubSeq(line, f.col + f.del, Len(line))

Applies ==
  /\ phase = "apply" /\ fixQueue # <<>>
  /\ LET f == Head(fixQueue).fix
     IN /\ lastEdit' = f.col
        /\ IF Clear(f) THEN line' = Edited(f) /\ applied' = applied \cup Head(fixQueue).from
           ELSE UNCHANGED <<line, applied>>
  /\ fixQueue' = Tail(fixQueue)
  /\ UNCHANGED <<fixes, phase>>

FixesEnd ==
  /\ phase = "apply" /\ fixQueue = <<>> /\ phase' = "done"
  /\ UNCHANGED <<fixes, fixQueue, line, lastEdit, applied>>

FixLineNext == Sorts \/ Merges \/ Applies \/ FixesEnd

FixLineSpec == FixLineInit /\ [][FixLineNext]_lineVars

------------------------------------------------------------------------------
(* Properties. *)

Inline == {i \in applied : ~fixes[i].whole}
Wholes == {i \in DOMAIN fixes : fixes[i].whole}

\* What the fixes in `landed` make of the original text when all are applied at
\* once: the texts inserted before each column, and every character none deletes.
AllAtOnce(landed) ==
  LET at(k) ==
        LET texts == {fixes[i].text : i \in {j \in landed : fixes[j].col = k}} \ {NoText}
            gone == \E i \in landed : fixes[i].col <= k /\ k < fixes[i].col + fixes[i].del
        IN (IF texts = {} THEN <<>> ELSE Text(CHOOSE t \in texts : TRUE))
             \o (IF k > Width \/ gone THEN <<>> ELSE <<Char(k)>>)
  IN FlattenSeq([k \in 1..(Width + 1) |-> at(k)])

\* The line when fixes of the whole line are among those proposed: the last of them
\* has the last word.
Replaced == LET t == fixes[Max(Wholes)].text IN IF t = NoText THEN NoText ELSE Text(t)

\* Fixes applied one after the other give the text they give applied at once: no
\* fix shifts or eats what another one edits.  The exception is a fix of the whole
\* line, of which the last one proposed is always applied, and after all others:
\* the line is then its text or deleted, and fixes of the same line that still
\* count as applied have left nothing in it (recheck/src/core/auto-fix.ts:13, "Input
\* fixes whose edit (or an identical/merged twin's) landed", is not true of them).
SameAsAtOnce ==
  phase = "done" =>
    IF Wholes = {} THEN line = AllAtOnce(applied)
    ELSE Wholes \subseteq applied /\ line = Replaced

\* A fix is skipped only when another one starts at its column or deletes some of
\* what it deletes or inserts into.
SkippedOnlyOnOverlap ==
  phase = "done" =>
    \A i \in DOMAIN fixes \ applied : \E j \in DOMAIN fixes \ {i} :
       \/ fixes[i].col = fixes[j].col
       \/ /\ fixes[i].col < fixes[j].col + fixes[j].del
          /\ fixes[j].col < fixes[i].col + fixes[i].del

\* At no column do two different texts that fixes insert there count as applied.
OneTextPerColumn ==
  \A i, j \in Inline :
    fixes[i].col = fixes[j].col /\ fixes[i].text # NoText /\ fixes[j].text # NoText
      => fixes[i].text = fixes[j].text

\* What applyFixesToContent keeps of a line: without a fix of the whole line, the
\* fixes that count as applied are all in its text; with one, the line is what the
\* last such fix makes of it; and the fixes that do not count had to be left out.
LineIsSound == SameAsAtOnce /\ SkippedOnlyOnOverlap /\ OneTextPerColumn
==============================================================================
