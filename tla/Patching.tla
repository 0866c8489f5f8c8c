------------------------------- MODULE Patching -------------------------------
(***************************************************************************)
(* The batch processor's own arithmetic on a file's unified diff: reading  *)
(* the hunks and applying them to the note, with the terminator of its     *)
(* last line.  A note is its lines and whether the last one is terminated. *)
(* git, which writes the patch, is external: any script that turns the one *)
(* side into the other, any number of context lines, and a pipeline that   *)
(* may have trimmed the blank ones.                                        *)
(***************************************************************************)
EXTENDS Integers, Sequences, FiniteSets

CONSTANTS
  Blank,       \* the empty line
  Lines,       \* lines notes are made of, Blank among them
  MaxLines,    \* bound: lines of a note
  Contexts,    \* context lines git may leave around a change
  NotYet, Refused  \* no result so far; PatchError

ASSUME PatchingAssumption ==
  Blank \in Lines /\ MaxLines \in Nat /\ Contexts \subseteq Nat

Note(lines, ended) == [lines |-> lines, ended |-> ended]
NoText == Note(<<>>, "yes")
Texts ==
  {NoText} \cup
  {t \in {Note(l, e) : l \in UNION {[1..n -> Lines] : n \in 1..MaxLines}, e \in {"yes", "no"}} :
     t.ended = "yes" \/ t.lines[Len(t.lines)] # Blank}

-----------------------------------------------------------------------------
(* git diff.  A script goes through both sides line by line: a line is     *)
(* kept ("same"), deleted or inserted.  A line of a patch is its kind and  *)
(* its text; a trimmed blank context line is "bare".                       *)

Kinds == {"same", "-", "+"}

\* The i-th line of t as git compares it, with its terminator.
Whole(t, i) == <<t.lines[i], IF i = Len(t.lines) THEN t.ended ELSE "yes">>

\* The lines of either side among a script's first k.
OldLines(s, k) == Cardinality({i \in 1..k : s[i] # "+"})
NewLines(s, k) == Cardinality({i \in 1..k : s[i] # "-"})

Scripts(a, b) ==
  {s \in UNION {[1..n -> Kinds] : n \in 0..(Len(a.lines) + Len(b.lines))} :
     /\ OldLines(s, Len(s)) = Len(a.lines) /\ NewLines(s, Len(s)) = Len(b.lines)
     /\ \A k \in DOMAIN s : s[k] = "same" => Whole(a, OldLines(s, k)) = Whole(b, NewLines(s, k))}

\* What is near enough to a change to be in a hunk.
Shown(s, context) ==
  {k \in DOMAIN s : \E j \in (k - context)..(k + context) : j \in DOMAIN s /\ s[j] # "same"}

\* Line k of the script as the patch has it: itself, and the marker of a
\* missing terminator.
Printed(a, b, s, k, trimmed) ==
  LET whole == IF s[k] = "+" THEN Whole(b, NewLines(s, k)) ELSE Whole(a, OldLines(s, k))
      blank == s[k] = "same" /\ whole[1] = Blank /\ trimmed = "yes"
  IN <<<<IF blank THEN "bare" ELSE s[k], whole[1]>>>>
       \o (IF whole[2] = "no" THEN <<<<"\\", Blank>>>> ELSE <<>>)

\* Of the hunk that begins at line k.
Header(s, shown, k) ==
  LET end == CHOOSE j \in shown : k <= j /\ j + 1 \notin shown /\ k..j \subseteq shown
      before == OldLines(s, k - 1)
      count == OldLines(s, end) - before
  IN [oldStart |-> IF count = 0 THEN before ELSE before + 1, oldCount |-> count,
      newCount |-> NewLines(s, end) - NewLines(s, k - 1)]

Diff(a, b, s, context, trimmed) ==
  LET shown == Shown(s, context)
      Opening(k) == IF k - 1 \in shown THEN <<>> ELSE <<<<"@@", Header(s, shown, k)>>>>
      upto[k \in 0..Len(s)] ==
        IF k = 0 THEN <<>>
        ELSE IF k \notin shown THEN upto[k - 1]
        ELSE upto[k - 1] \o Opening(k) \o Printed(a, b, s, k, trimmed)
  IN upto[Len(s)]

-----------------------------------------------------------------------------
(* _parse_file_diff, from the first hunk on.                               *)

Hunk(header) == [header |-> header, lines |-> <<>>, old |-> 0, new |-> 0, closed |-> "no"]
Wanting(h) == h.old < h.header.oldCount \/ h.new < h.header.newCount

\* Mutant of Taken: a bare line is passed over.
TakenMutBare(h, line) ==
  IF line[1] = "bare" THEN h
  ELSE [h EXCEPT !.lines = Append(@, line),
          !.old = IF line[1] \in {"same", "-"} THEN @ + 1 ELSE @,
          !.new = IF line[1] \in {"same", "+"} THEN @ + 1 ELSE @]

\* A counted line of a hunk, or a marker; a bare line is blank context.
Taken(h, line) ==
  LET kind == IF line[1] = "bare" THEN "same" ELSE line[1]
  IN [h EXCEPT !.lines = Append(@, <<kind, line[2]>>),
        !.old = IF kind \in {"same", "-"} THEN @ + 1 ELSE @,
        !.new = IF kind \in {"same", "+"} THEN @ + 1 ELSE @]

\* By the header's counts; one marker may follow the last counted line.
ParseLine(hunks, line) ==
  LET h == hunks[Len(hunks)]
      Now(hunk) == [hunks EXCEPT ![Len(hunks)] = hunk]
  IN CASE line[1] = "@@"                                -> Append(hunks, Hunk(line[2]))
       [] line[1] # "@@" /\ hunks # <<>> /\ Wanting(h)  -> Now(Taken(h, line))
       [] line[1] = "\\" /\ hunks # <<>> /\ ~Wanting(h) /\ h.closed = "no" ->
            Now([Taken(h, line) EXCEPT !.closed = "yes"])
       [] OTHER                                         -> hunks

ParseHunks(text) ==
  LET upto[i \in 0..Len(text)] == IF i = 0 THEN <<>> ELSE ParseLine(upto[i - 1], text[i])
  IN upto[Len(text)]

\* A hunk carries the lines its header declares.
Complete(h) == h.old = h.header.oldCount /\ h.new = h.header.newCount

-----------------------------------------------------------------------------
(* apply_file_diff.                                                        *)

\* Mutant of HunkStart: an insertion's start is taken for a replacement's.
HunkStartMutOne(header) == IF header.oldCount = 0 THEN header.oldStart + 1 ELSE header.oldStart - 1

\* Lines before the hunk: with nothing replaced, its start is already that.
HunkStart(header) == IF header.oldCount = 0 THEN header.oldStart ELSE header.oldStart - 1

\* Mutant of Unended: the marker is taken for the new side's whatever it follows.
UnendedMutEither(w) == "yes"

\* The marker binds to the side of the line before it.
Unended(w) == IF w.previous \in {"same", "+"} THEN "yes" ELSE w.unended

ApplyLine(source, w, line) ==
  LET kind == line[1]
      kept == w.cursor < Len(source) /\ source[w.cursor + 1] = line[2]
  IN IF w.ok = "no" THEN w
     ELSE IF kind = "\\" THEN [w EXCEPT !.unended = Unended(w)]
     ELSE IF kind # "+" /\ ~kept THEN [w EXCEPT !.ok = "no"]
     ELSE [w EXCEPT !.cursor = IF kind = "+" THEN @ ELSE @ + 1,
                    !.out = IF kind = "-" THEN @ ELSE Append(@, line[2]),
                    !.previous = kind]

ApplyLines(source, w, lines) ==
  LET upto[i \in 0..Len(lines)] ==
        IF i = 0 THEN w ELSE ApplyLine(source, upto[i - 1], lines[i])
  IN upto[Len(lines)]

\* The lines up to the hunk are as they were.
Begun(source, w, start) ==
  [w EXCEPT !.out = @ \o SubSeq(source, w.cursor + 1, start),
            !.cursor = start, !.previous = "none"]

ApplyHunk(source, w, hunk) ==
  LET start == HunkStart(hunk.header)
      done == ApplyLines(source, Begun(source, w, start), hunk.lines)
  IN IF w.ok = "no" \/ start < w.cursor \/ start > Len(source) THEN [w EXCEPT !.ok = "no"]
     ELSE [done EXCEPT !.tail = IF done.cursor >= Len(source) THEN "yes" ELSE @]

ApplyHunks(source, hunks) ==
  LET upto[i \in 0..Len(hunks)] ==
        IF i = 0 THEN [out |-> <<>>, cursor |-> 0, tail |-> "no", unended |-> "no",
                       previous |-> "none", ok |-> "yes"]
        ELSE ApplyHunk(source, upto[i - 1], hunks[i])
  IN upto[Len(hunks)]

FromLines(lines, ended) ==
  IF lines = <<>> THEN NoText
  ELSE IF ended = "no" /\ lines[Len(lines)] = Blank
       THEN Note(SubSeq(lines, 1, Len(lines) - 1), "yes")
  ELSE Note(lines, ended)

\* What `pre` is after the hunks, or Refused.
ApplyFileDiff(pre, hunks) ==
  LET w == ApplyHunks(pre.lines, hunks)
      unended == IF w.tail = "yes" THEN w.unended = "yes" ELSE pre.ended = "no"
  IN IF w.ok = "no" THEN Refused
     ELSE FromLines(w.out \o SubSeq(pre.lines, w.cursor + 1, Len(pre.lines)),
                    IF unended THEN "no" ELSE "yes")

-----------------------------------------------------------------------------
(* One note edited and its patch applied.                                  *)

VARIABLES old, new, patch, result

patchVars == <<old, new, patch, result>>

PatchInit == old \in Texts /\ new \in Texts /\ patch = <<>> /\ result = NotYet

Produce ==
  /\ result = NotYet /\ patch = <<>> /\ old # new
  /\ \E s \in Scripts(old, new), context \in Contexts, trimmed \in {"yes", "no"} :
       patch' = Diff(old, new, s, context, trimmed)
  /\ UNCHANGED <<old, new, result>>

\* Refused too when a hunk falls short of its header.
ApplyPatch ==
  /\ result = NotYet /\ patch # <<>>
  /\ LET hunks == ParseHunks(patch)
     IN result' = IF \A i \in DOMAIN hunks : Complete(hunks[i])
                  THEN ApplyFileDiff(old, hunks) ELSE Refused
  /\ UNCHANGED <<old, new, patch>>

PatchNext == Produce \/ ApplyPatch

PatchSpec == PatchInit /\ [][PatchNext]_patchVars

\* A patch git made of two versions of a note, applied to the one, gives the
\* other to the last byte, whatever script git chose, whether or not either
\* ends in a newline, and with its blank lines trimmed or not
\* (parse_patch, apply_file_diff).
PatchRebuildsTheNote == result # NotYet => result = new

=============================================================================
