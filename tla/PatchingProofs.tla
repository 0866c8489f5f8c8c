---------------------------- MODULE PatchingProofs ----------------------------
(***************************************************************************)
(* Proofs about Patching: for any lines and bounds, any script git may     *)
(* choose and any context, the patch it writes rebuilds the note.          *)
(***************************************************************************)
EXTENDS Patching, SequenceTheorems, FiniteSetTheorems, TLAPS

-----------------------------------------------------------------------------
(* What the parts of a patch are, and of the work on it.                   *)

Headers == [oldStart : Nat, oldCount : Nat, newCount : Nat]
PatchLines == ({"@@"} \X Headers) \cup ({"same", "-", "+", "bare", "\\"} \X Lines)
HunkLines == {"same", "-", "+", "\\"} \X Lines
Hunks == [header : Headers, lines : Seq(HunkLines), old : Nat, new : Nat, closed : {"yes", "no"}]
Works == [out : Seq(Lines), cursor : Nat, tail : {"yes", "no"}, unended : {"yes", "no"},
          previous : {"none", "same", "-", "+"}, ok : {"yes", "no"}]

NoWork == [out |-> <<>>, cursor |-> 0, tail |-> "no", unended |-> "no",
           previous |-> "none", ok |-> "yes"]

\* A patch after line k of the script.
Opening(s, shown, k) == IF k - 1 \in shown THEN <<>> ELSE <<<<"@@", Header(s, shown, k)>>>>
Grown(text, a, b, s, shown, trimmed, k) ==
  IF k \notin shown THEN text
  ELSE text \o Opening(s, shown, k) \o Printed(a, b, s, k, trimmed)

\* A note and another, a script from the one to the other, and the part of it
\* that is shown: at least the changes.
Scripted(a, b, s, shown) ==
  /\ a \in Texts /\ b \in Texts /\ s \in Scripts(a, b)
  /\ shown \subseteq DOMAIN s /\ \A k \in DOMAIN s : s[k] # "same" => k \in shown

-----------------------------------------------------------------------------
(* Numbers.                                                                *)

\* A set of numbers has a least.
LEMMA LeastNumber ==
  ASSUME NEW s \in SUBSET Nat, s # {}
  PROVE  \E n \in s : \A m \in s : n <= m
<1>1. \E n \in s : \A m \in s : <<m, n>> \notin OpToRel(<, Nat)
  BY NatLessThanWellFounded, WFMin, Zenon
<1>2. \E n \in s : \A m \in s : ~(m < n)
  BY <1>1, Zenon DEF OpToRel
<1>. QED
  BY <1>2

\* So what holds of 0, and of each number up to n after the one before it,
\* holds of them all.
LEMMA Ladder ==
  ASSUME NEW n \in Nat, NEW S, 0 \in S,
         \A i \in 0..n : i # n /\ i \in S => i + 1 \in S
  PROVE  \A i \in 0..n : i \in S
<1>. DEFINE T == {i \in 0..n : i \notin S}
<1>. SUFFICES ASSUME T # {} PROVE FALSE
  OBVIOUS
<1>1. PICK m \in T : \A k \in T : m <= k
  <2>. T \in SUBSET Nat
    OBVIOUS
  <2>. HIDE DEF T
  <2>. QED
    BY LeastNumber
<1>2. m \in 1..n
  BY <1>1
<1>3. m - 1 \in 0..n /\ m - 1 # n /\ m - 1 \notin T
  BY <1>1, <1>2
<1>4. (m - 1) + 1 \in S /\ (m - 1) + 1 = m
  BY <1>2, <1>3
<1>. QED
  BY <1>1, <1>4

-----------------------------------------------------------------------------
(* The recursive functions, step by step.                                  *)

\* A patch is read line by line.
LEMMA ParseSteps ==
  ASSUME NEW text, Len(text) \in Nat
  PROVE  \E f : /\ f[0] = <<>>
                /\ \A i \in 1..Len(text) : f[i] = ParseLine(f[i - 1], text[i])
                /\ f[Len(text)] = ParseHunks(text)
<1>. DEFINE Step(g, i) == IF i = 0 THEN <<>> ELSE ParseLine(g[i - 1], text[i])
            S == {n \in 0..Len(text) : \E g : g = [i \in 0..n |-> Step(g, i)]}
<1>1. 0 \in S
  <2>. DEFINE g == [i \in 0..0 |-> <<>>]
  <2>1. g = [i \in 0..0 |-> Step(g, i)]
    OBVIOUS
  <2>. HIDE DEF g
  <2>. QED
    BY <2>1
<1>2. ASSUME NEW n \in 0..Len(text), n # Len(text), n \in S
      PROVE  n + 1 \in S
  <2>1. PICK g : g = [i \in 0..n |-> Step(g, i)]
    BY <1>2
  <2>. DEFINE h == [i \in 0..(n + 1) |-> IF i = n + 1 THEN Step(g, i) ELSE g[i]]
  <2>2. ASSUME NEW i \in 0..(n + 1) PROVE h[i] = Step(h, i)
    <3>1. CASE i = 0
      BY <2>1, <3>1
    <3>2. CASE i # 0
      <4>1. i - 1 \in 0..n /\ h[i - 1] = g[i - 1]
        BY <3>2
      <4>2. h[i] = Step(g, i)
        <5>1. CASE i = n + 1
          BY <5>1
        <5>2. CASE i # n + 1
          <6>1. i \in 0..n /\ h[i] = g[i]
            BY <5>2
          <6>. HIDE DEF h, Step
          <6>. QED
            BY <2>1, <6>1
        <5>. QED
          BY <5>1, <5>2
      <4>. QED
        BY <3>2, <4>1, <4>2
    <3>. QED
      BY <3>1, <3>2
  <2>3. h = [i \in 0..(n + 1) |-> Step(h, i)]
    <3>1. DOMAIN h = 0..(n + 1)
      OBVIOUS
    <3>2. h = [i \in 0..(n + 1) |-> h[i]]
      BY <3>1
    <3>. HIDE DEF h
    <3>. QED
      BY <2>2, <3>2
  <2>. HIDE DEF h, Step
  <2>. QED
    BY <2>3
<1>3. Len(text) \in S
  <2>. HIDE DEF S
  <2>1. \A i \in 0..Len(text) : i # Len(text) /\ i \in S => i + 1 \in S
    BY <1>2
  <2>2. \A i \in 0..Len(text) : i \in S
    BY <1>1, <2>1, Ladder, Zenon
  <2>. QED
    BY <2>2
<1>. DEFINE f == CHOOSE g : g = [i \in 0..Len(text) |-> Step(g, i)]
<1>4. f = [i \in 0..Len(text) |-> Step(f, i)]
  BY <1>3, Zenon
<1>5. f[Len(text)] = ParseHunks(text)
  BY DEF ParseHunks
<1>. HIDE DEF f
<1>6. \A i \in 0..Len(text) : f[i] = Step(f, i)
  <2>. HIDE DEF Step
  <2>. QED
    BY <1>4
<1>7. f[0] = <<>>
  BY <1>6
<1>8. ASSUME NEW i \in 1..Len(text)
      PROVE  f[i] = ParseLine(f[i - 1], text[i])
  BY <1>6
<1>. QED
  BY <1>5, <1>7, <1>8

\* So one line more is one step more.
LEMMA ParseMore ==
  ASSUME NEW S, NEW text \in Seq(S), NEW e \in S
  PROVE  ParseHunks(Append(text, e)) = ParseLine(ParseHunks(text), e)
<1>. DEFINE more == Append(text, e)
<1>1. /\ Len(text) \in Nat /\ Len(more) = Len(text) + 1 /\ more[Len(text) + 1] = e
      /\ \A i \in 1..Len(text) : more[i] = text[i]
  OBVIOUS
<1>2. PICK f : /\ f[0] = <<>>
               /\ \A i \in 1..Len(text) : f[i] = ParseLine(f[i - 1], text[i])
               /\ f[Len(text)] = ParseHunks(text)
  <2>. HIDE DEF more
  <2>1. Len(text) \in Nat
    BY <1>1
  <2>. QED
    BY <2>1, ParseSteps
<1>3. PICK g : /\ g[0] = <<>>
               /\ \A i \in 1..Len(more) : g[i] = ParseLine(g[i - 1], more[i])
               /\ g[Len(more)] = ParseHunks(more)
  <2>. HIDE DEF more
  <2>1. Len(more) \in Nat
    BY <1>1
  <2>. QED
    BY <2>1, ParseSteps
<1>. HIDE DEF more
<1>4. \A i \in 0..Len(text) : f[i] = g[i]
  <2>. DEFINE T == {i \in 0..Len(text) : f[i] = g[i]}
  <2>1. 0 \in T
    BY <1>1, <1>2, <1>3
  <2>2. ASSUME NEW i \in 0..Len(text), i # Len(text), i \in T PROVE i + 1 \in T
    <3>1. i + 1 \in 1..Len(text) /\ i + 1 \in 1..Len(more) /\ (i + 1) - 1 = i
      BY <1>1, <2>2
    <3>2. f[i] = g[i] /\ more[i + 1] = text[i + 1]
      BY <1>1, <2>2, <3>1
    <3>3. f[i + 1] = g[i + 1]
      BY <1>2, <1>3, <3>1, <3>2
    <3>. QED
      BY <3>1, <3>3
  <2>. HIDE DEF T
  <2>3. \A i \in 0..Len(text) : i \in T
    BY <1>1, <2>1, <2>2, Ladder, Zenon
  <2>. QED
    BY <2>3 DEF T
<1>5. ParseHunks(more) = ParseLine(ParseHunks(text), e)
  <2>1. /\ Len(more) \in 1..Len(more) /\ Len(more) - 1 = Len(text)
        /\ Len(text) \in 0..Len(text)
    BY <1>1
  <2>. QED
    BY <1>1, <1>2, <1>3, <1>4, <2>1
<1>. QED
  BY <1>5 DEF more

\* And with none there is nothing to do.
LEMMA ParseNone ==
  ParseHunks(<<>>) = <<>>
<1>1. Len(<<>>) = 0
  OBVIOUS
<1>. QED
  BY <1>1, ParseSteps

\* A hunk is applied line by line.
LEMMA LineSteps ==
  ASSUME NEW source, NEW w, NEW lines, Len(lines) \in Nat
  PROVE  \E f : /\ f[0] = w
                /\ \A i \in 1..Len(lines) : f[i] = ApplyLine(source, f[i - 1], lines[i])
                /\ f[Len(lines)] = ApplyLines(source, w, lines)
<1>. DEFINE Step(g, i) == IF i = 0 THEN w ELSE ApplyLine(source, g[i - 1], lines[i])
            S == {n \in 0..Len(lines) : \E g : g = [i \in 0..n |-> Step(g, i)]}
<1>1. 0 \in S
  <2>. DEFINE g == [i \in 0..0 |-> w]
  <2>1. g = [i \in 0..0 |-> Step(g, i)]
    OBVIOUS
  <2>. HIDE DEF g
  <2>. QED
    BY <2>1
<1>2. ASSUME NEW n \in 0..Len(lines), n # Len(lines), n \in S
      PROVE  n + 1 \in S
  <2>1. PICK g : g = [i \in 0..n |-> Step(g, i)]
    BY <1>2
  <2>. DEFINE h == [i \in 0..(n + 1) |-> IF i = n + 1 THEN Step(g, i) ELSE g[i]]
  <2>2. ASSUME NEW i \in 0..(n + 1) PROVE h[i] = Step(h, i)
    <3>1. CASE i = 0
      BY <2>1, <3>1
    <3>2. CASE i # 0
      <4>1. i - 1 \in 0..n /\ h[i - 1] = g[i - 1]
        BY <3>2
      <4>2. h[i] = Step(g, i)
        <5>1. CASE i = n + 1
          BY <5>1
        <5>2. CASE i # n + 1
          <6>1. i \in 0..n /\ h[i] = g[i]
            BY <5>2
          <6>. HIDE DEF h, Step
          <6>. QED
            BY <2>1, <6>1
        <5>. QED
          BY <5>1, <5>2
      <4>. QED
        BY <3>2, <4>1, <4>2
    <3>. QED
      BY <3>1, <3>2
  <2>3. h = [i \in 0..(n + 1) |-> Step(h, i)]
    <3>1. DOMAIN h = 0..(n + 1)
      OBVIOUS
    <3>2. h = [i \in 0..(n + 1) |-> h[i]]
      BY <3>1
    <3>. HIDE DEF h
    <3>. QED
      BY <2>2, <3>2
  <2>. HIDE DEF h, Step
  <2>. QED
    BY <2>3
<1>3. Len(lines) \in S
  <2>. HIDE DEF S
  <2>1. \A i \in 0..Len(lines) : i # Len(lines) /\ i \in S => i + 1 \in S
    BY <1>2
  <2>2. \A i \in 0..Len(lines) : i \in S
    BY <1>1, <2>1, Ladder, Zenon
  <2>. QED
    BY <2>2
<1>. DEFINE f == CHOOSE g : g = [i \in 0..Len(lines) |-> Step(g, i)]
<1>4. f = [i \in 0..Len(lines) |-> Step(f, i)]
  BY <1>3, Zenon
<1>5. f[Len(lines)] = ApplyLines(source, w, lines)
  BY DEF ApplyLines
<1>. HIDE DEF f
<1>6. \A i \in 0..Len(lines) : f[i] = Step(f, i)
  <2>. HIDE DEF Step
  <2>. QED
    BY <1>4
<1>7. f[0] = w
  BY <1>6
<1>8. ASSUME NEW i \in 1..Len(lines)
      PROVE  f[i] = ApplyLine(source, f[i - 1], lines[i])
  BY <1>6
<1>. QED
  BY <1>5, <1>7, <1>8

\* So one line more is one step more.
LEMMA LineMore ==
  ASSUME NEW source, NEW w, NEW S, NEW lines \in Seq(S), NEW e \in S
  PROVE  ApplyLines(source, w, Append(lines, e)) = ApplyLine(source, ApplyLines(source, w, lines), e)
<1>. DEFINE more == Append(lines, e)
<1>1. /\ Len(lines) \in Nat /\ Len(more) = Len(lines) + 1 /\ more[Len(lines) + 1] = e
      /\ \A i \in 1..Len(lines) : more[i] = lines[i]
  OBVIOUS
<1>2. PICK f : /\ f[0] = w
               /\ \A i \in 1..Len(lines) : f[i] = ApplyLine(source, f[i - 1], lines[i])
               /\ f[Len(lines)] = ApplyLines(source, w, lines)
  <2>. HIDE DEF more
  <2>1. Len(lines) \in Nat
    BY <1>1
  <2>. QED
    BY <2>1, LineSteps
<1>3. PICK g : /\ g[0] = w
               /\ \A i \in 1..Len(more) : g[i] = ApplyLine(source, g[i - 1], more[i])
               /\ g[Len(more)] = ApplyLines(source, w, more)
  <2>. HIDE DEF more
  <2>1. Len(more) \in Nat
    BY <1>1
  <2>. QED
    BY <2>1, LineSteps
<1>. HIDE DEF more
<1>4. \A i \in 0..Len(lines) : f[i] = g[i]
  <2>. DEFINE T == {i \in 0..Len(lines) : f[i] = g[i]}
  <2>1. 0 \in T
    BY <1>1, <1>2, <1>3
  <2>2. ASSUME NEW i \in 0..Len(lines), i # Len(lines), i \in T PROVE i + 1 \in T
    <3>1. i + 1 \in 1..Len(lines) /\ i + 1 \in 1..Len(more) /\ (i + 1) - 1 = i
      BY <1>1, <2>2
    <3>2. f[i] = g[i] /\ more[i + 1] = lines[i + 1]
      BY <1>1, <2>2, <3>1
    <3>3. f[i + 1] = g[i + 1]
      BY <1>2, <1>3, <3>1, <3>2
    <3>. QED
      BY <3>1, <3>3
  <2>. HIDE DEF T
  <2>3. \A i \in 0..Len(lines) : i \in T
    BY <1>1, <2>1, <2>2, Ladder, Zenon
  <2>. QED
    BY <2>3 DEF T
<1>5. ApplyLines(source, w, more) = ApplyLine(source, ApplyLines(source, w, lines), e)
  <2>1. /\ Len(more) \in 1..Len(more) /\ Len(more) - 1 = Len(lines)
        /\ Len(lines) \in 0..Len(lines)
    BY <1>1
  <2>. QED
    BY <1>1, <1>2, <1>3, <1>4, <2>1
<1>. QED
  BY <1>5 DEF more

\* And with none there is nothing to do.
LEMMA LineNone ==
  ASSUME NEW source, NEW w
  PROVE  ApplyLines(source, w, <<>>) = w
<1>1. Len(<<>>) = 0
  OBVIOUS
<1>. QED
  BY <1>1, LineSteps

\* Hunks are applied one by one.
LEMMA HunkSteps ==
  ASSUME NEW source, NEW hunks, Len(hunks) \in Nat
  PROVE  \E f : /\ f[0] = NoWork
                /\ \A i \in 1..Len(hunks) : f[i] = ApplyHunk(source, f[i - 1], hunks[i])
                /\ f[Len(hunks)] = ApplyHunks(source, hunks)
<1>. DEFINE Step(g, i) == IF i = 0 THEN NoWork ELSE ApplyHunk(source, g[i - 1], hunks[i])
            S == {n \in 0..Len(hunks) : \E g : g = [i \in 0..n |-> Step(g, i)]}
<1>1. 0 \in S
  <2>. DEFINE g == [i \in 0..0 |-> NoWork]
  <2>1. g = [i \in 0..0 |-> Step(g, i)]
    OBVIOUS
  <2>. HIDE DEF g
  <2>. QED
    BY <2>1
<1>2. ASSUME NEW n \in 0..Len(hunks), n # Len(hunks), n \in S
      PROVE  n + 1 \in S
  <2>1. PICK g : g = [i \in 0..n |-> Step(g, i)]
    BY <1>2
  <2>. DEFINE h == [i \in 0..(n + 1) |-> IF i = n + 1 THEN Step(g, i) ELSE g[i]]
  <2>2. ASSUME NEW i \in 0..(n + 1) PROVE h[i] = Step(h, i)
    <3>1. CASE i = 0
      BY <2>1, <3>1
    <3>2. CASE i # 0
      <4>1. i - 1 \in 0..n /\ h[i - 1] = g[i - 1]
        BY <3>2
      <4>2. h[i] = Step(g, i)
        <5>1. CASE i = n + 1
          BY <5>1
        <5>2. CASE i # n + 1
          <6>1. i \in 0..n /\ h[i] = g[i]
            BY <5>2
          <6>. HIDE DEF h, Step
          <6>. QED
            BY <2>1, <6>1
        <5>. QED
          BY <5>1, <5>2
      <4>. QED
        BY <3>2, <4>1, <4>2
    <3>. QED
      BY <3>1, <3>2
  <2>3. h = [i \in 0..(n + 1) |-> Step(h, i)]
    <3>1. DOMAIN h = 0..(n + 1)
      OBVIOUS
    <3>2. h = [i \in 0..(n + 1) |-> h[i]]
      BY <3>1
    <3>. HIDE DEF h
    <3>. QED
      BY <2>2, <3>2
  <2>. HIDE DEF h, Step
  <2>. QED
    BY <2>3
<1>3. Len(hunks) \in S
  <2>. HIDE DEF S
  <2>1. \A i \in 0..Len(hunks) : i # Len(hunks) /\ i \in S => i + 1 \in S
    BY <1>2
  <2>2. \A i \in 0..Len(hunks) : i \in S
    BY <1>1, <2>1, Ladder, Zenon
  <2>. QED
    BY <2>2
<1>. DEFINE f == CHOOSE g : g = [i \in 0..Len(hunks) |-> Step(g, i)]
<1>4. f = [i \in 0..Len(hunks) |-> Step(f, i)]
  BY <1>3, Zenon
<1>5. f[Len(hunks)] = ApplyHunks(source, hunks)
  BY DEF ApplyHunks, NoWork
<1>. HIDE DEF f
<1>6. \A i \in 0..Len(hunks) : f[i] = Step(f, i)
  <2>. HIDE DEF Step
  <2>. QED
    BY <1>4
<1>7. f[0] = NoWork
  BY <1>6
<1>8. ASSUME NEW i \in 1..Len(hunks)
      PROVE  f[i] = ApplyHunk(source, f[i - 1], hunks[i])
  BY <1>6
<1>. QED
  BY <1>5, <1>7, <1>8

\* So one hunk more is one step more.
LEMMA HunkMore ==
  ASSUME NEW source, NEW S, NEW hunks \in Seq(S), NEW e \in S
  PROVE  ApplyHunks(source, Append(hunks, e)) = ApplyHunk(source, ApplyHunks(source, hunks), e)
<1>. DEFINE more == Append(hunks, e)
<1>1. /\ Len(hunks) \in Nat /\ Len(more) = Len(hunks) + 1 /\ more[Len(hunks) + 1] = e
      /\ \A i \in 1..Len(hunks) : more[i] = hunks[i]
  OBVIOUS
<1>2. PICK f : /\ f[0] = NoWork
               /\ \A i \in 1..Len(hunks) : f[i] = ApplyHunk(source, f[i - 1], hunks[i])
               /\ f[Len(hunks)] = ApplyHunks(source, hunks)
  <2>. HIDE DEF more
  <2>1. Len(hunks) \in Nat
    BY <1>1
  <2>. QED
    BY <2>1, HunkSteps
<1>3. PICK g : /\ g[0] = NoWork
               /\ \A i \in 1..Len(more) : g[i] = ApplyHunk(source, g[i - 1], more[i])
               /\ g[Len(more)] = ApplyHunks(source, more)
  <2>. HIDE DEF more
  <2>1. Len(more) \in Nat
    BY <1>1
  <2>. QED
    BY <2>1, HunkSteps
<1>. HIDE DEF more
<1>4. \A i \in 0..Len(hunks) : f[i] = g[i]
  <2>. DEFINE T == {i \in 0..Len(hunks) : f[i] = g[i]}
  <2>1. 0 \in T
    BY <1>1, <1>2, <1>3
  <2>2. ASSUME NEW i \in 0..Len(hunks), i # Len(hunks), i \in T PROVE i + 1 \in T
    <3>1. i + 1 \in 1..Len(hunks) /\ i + 1 \in 1..Len(more) /\ (i + 1) - 1 = i
      BY <1>1, <2>2
    <3>2. f[i] = g[i] /\ more[i + 1] = hunks[i + 1]
      BY <1>1, <2>2, <3>1
    <3>3. f[i + 1] = g[i + 1]
      BY <1>2, <1>3, <3>1, <3>2
    <3>. QED
      BY <3>1, <3>3
  <2>. HIDE DEF T
  <2>3. \A i \in 0..Len(hunks) : i \in T
    BY <1>1, <2>1, <2>2, Ladder, Zenon
  <2>. QED
    BY <2>3 DEF T
<1>5. ApplyHunks(source, more) = ApplyHunk(source, ApplyHunks(source, hunks), e)
  <2>1. /\ Len(more) \in 1..Len(more) /\ Len(more) - 1 = Len(hunks)
        /\ Len(hunks) \in 0..Len(hunks)
    BY <1>1
  <2>. QED
    BY <1>1, <1>2, <1>3, <1>4, <2>1
<1>. QED
  BY <1>5 DEF more

\* And with none there is nothing to do.
LEMMA HunkNone ==
  ASSUME NEW source
  PROVE  ApplyHunks(source, <<>>) = NoWork
<1>1. Len(<<>>) = 0
  OBVIOUS
<1>. QED
  BY <1>1, HunkSteps

\* A patch grows line by line of the script.
LEMMA DiffSteps ==
  ASSUME NEW a, NEW b, NEW s, NEW context, NEW trimmed, Len(s) \in Nat
  PROVE  \E f : /\ f[0] = <<>>
                /\ \A i \in 1..Len(s) : f[i] = Grown(f[i - 1], a, b, s, Shown(s, context), trimmed, i)
                /\ f[Len(s)] = Diff(a, b, s, context, trimmed)
<1>. DEFINE Step(g, i) == IF i = 0 THEN <<>> ELSE Grown(g[i - 1], a, b, s, Shown(s, context), trimmed, i)
            S == {n \in 0..Len(s) : \E g : g = [i \in 0..n |-> Step(g, i)]}
<1>1. 0 \in S
  <2>. DEFINE g == [i \in 0..0 |-> <<>>]
  <2>1. g = [i \in 0..0 |-> Step(g, i)]
    OBVIOUS
  <2>. HIDE DEF g
  <2>. QED
    BY <2>1
<1>2. ASSUME NEW n \in 0..Len(s), n # Len(s), n \in S
      PROVE  n + 1 \in S
  <2>1. PICK g : g = [i \in 0..n |-> Step(g, i)]
    BY <1>2
  <2>. DEFINE h == [i \in 0..(n + 1) |-> IF i = n + 1 THEN Step(g, i) ELSE g[i]]
  <2>2. ASSUME NEW i \in 0..(n + 1) PROVE h[i] = Step(h, i)
    <3>1. CASE i = 0
      BY <2>1, <3>1
    <3>2. CASE i # 0
      <4>1. i - 1 \in 0..n /\ h[i - 1] = g[i - 1]
        BY <3>2
      <4>2. h[i] = Step(g, i)
        <5>1. CASE i = n + 1
          BY <5>1
        <5>2. CASE i # n + 1
          <6>1. i \in 0..n /\ h[i] = g[i]
            BY <5>2
          <6>. HIDE DEF h, Step
          <6>. QED
            BY <2>1, <6>1
        <5>. QED
          BY <5>1, <5>2
      <4>. QED
        BY <3>2, <4>1, <4>2
    <3>. QED
      BY <3>1, <3>2
  <2>3. h = [i \in 0..(n + 1) |-> Step(h, i)]
    <3>1. DOMAIN h = 0..(n + 1)
      OBVIOUS
    <3>2. h = [i \in 0..(n + 1) |-> h[i]]
      BY <3>1
    <3>. HIDE DEF h
    <3>. QED
      BY <2>2, <3>2
  <2>. HIDE DEF h, Step
  <2>. QED
    BY <2>3
<1>3. Len(s) \in S
  <2>. HIDE DEF S
  <2>1. \A i \in 0..Len(s) : i # Len(s) /\ i \in S => i + 1 \in S
    BY <1>2
  <2>2. \A i \in 0..Len(s) : i \in S
    BY <1>1, <2>1, Ladder, Zenon
  <2>. QED
    BY <2>2
<1>. DEFINE f == CHOOSE g : g = [i \in 0..Len(s) |-> Step(g, i)]
<1>4. f = [i \in 0..Len(s) |-> Step(f, i)]
  BY <1>3, Zenon
<1>5. f[Len(s)] = Diff(a, b, s, context, trimmed)
  BY DEF Diff, Grown, Opening
<1>. HIDE DEF f
<1>6. \A i \in 0..Len(s) : f[i] = Step(f, i)
  <2>. HIDE DEF Step
  <2>. QED
    BY <1>4
<1>7. f[0] = <<>>
  BY <1>6
<1>8. ASSUME NEW i \in 1..Len(s)
      PROVE  f[i] = Grown(f[i - 1], a, b, s, Shown(s, context), trimmed, i)
  BY <1>6
<1>. QED
  BY <1>5, <1>7, <1>8

-----------------------------------------------------------------------------
(* Scripts.                                                                *)

\* Each line of a script adds one to the sides it is of, and to no other.
LEMMA OldCounts ==
  ASSUME NEW n \in Nat, NEW s \in [1..n -> Kinds]
  PROVE  /\ OldLines(s, 0) = 0 /\ \A k \in 0..n : OldLines(s, k) \in Nat
         /\ \A k \in 1..n : /\ s[k] = "+" => OldLines(s, k) = OldLines(s, k - 1)
                            /\ s[k] # "+" => OldLines(s, k) = OldLines(s, k - 1) + 1
         /\ \A i, k \in 0..n : i <= k => OldLines(s, i) <= OldLines(s, k)
<1>. DEFINE Of(k) == {i \in 1..k : s[i] # "+"}
<1>1. ASSUME NEW k \in 0..n PROVE IsFiniteSet(Of(k)) /\ Cardinality(Of(k)) \in Nat
  <2>1. IsFiniteSet(1..k)
    BY FS_Interval
  <2>2. IsFiniteSet(Of(k))
    BY <2>1, FS_Subset
  <2>. QED
    BY <2>2, FS_CardinalityType
<1>2. Cardinality(Of(0)) = 0
  <2>1. Of(0) = {}
    OBVIOUS
  <2>. QED
    BY <2>1, FS_EmptySet
<1>3. ASSUME NEW k \in 1..n
      PROVE  /\ s[k] = "+" => Cardinality(Of(k)) = Cardinality(Of(k - 1))
             /\ s[k] # "+" => Cardinality(Of(k)) = Cardinality(Of(k - 1)) + 1
  <2>1. k - 1 \in 0..n /\ k \notin Of(k - 1)
    OBVIOUS
  <2>2. CASE s[k] = "+"
    <3>1. Of(k) = Of(k - 1)
      BY <2>2
    <3>. QED
      BY <2>2, <3>1
  <2>3. CASE s[k] # "+"
    <3>1. Of(k) = Of(k - 1) \cup {k}
      BY <2>3
    <3>2. Cardinality(Of(k - 1) \cup {k}) = Cardinality(Of(k - 1)) + 1
      <4>1. IsFiniteSet(Of(k - 1))
        BY <2>1, <1>1
      <4>. HIDE DEF Of
      <4>. QED
        BY <2>1, <4>1, FS_AddElement
    <3>. QED
      BY <2>3, <3>1, <3>2
  <2>. QED
    BY <2>2, <2>3
<1>4. ASSUME NEW i \in 0..n, NEW k \in 0..n, i <= k
      PROVE  Cardinality(Of(i)) <= Cardinality(Of(k))
  <2>1. Of(i) \subseteq Of(k)
    BY <1>4
  <2>. HIDE DEF Of
  <2>. QED
    BY <1>1, <2>1, FS_Subset
<1>. QED
  BY <1>1, <1>2, <1>3, <1>4 DEF OldLines

\* The same of the other side.
LEMMA NewCounts ==
  ASSUME NEW n \in Nat, NEW s \in [1..n -> Kinds]
  PROVE  /\ NewLines(s, 0) = 0 /\ \A k \in 0..n : NewLines(s, k) \in Nat
         /\ \A k \in 1..n : /\ s[k] = "-" => NewLines(s, k) = NewLines(s, k - 1)
                            /\ s[k] # "-" => NewLines(s, k) = NewLines(s, k - 1) + 1
         /\ \A i, k \in 0..n : i <= k => NewLines(s, i) <= NewLines(s, k)
<1>. DEFINE Of(k) == {i \in 1..k : s[i] # "-"}
<1>1. ASSUME NEW k \in 0..n PROVE IsFiniteSet(Of(k)) /\ Cardinality(Of(k)) \in Nat
  <2>1. IsFiniteSet(1..k)
    BY FS_Interval
  <2>2. IsFiniteSet(Of(k))
    BY <2>1, FS_Subset
  <2>. QED
    BY <2>2, FS_CardinalityType
<1>2. Cardinality(Of(0)) = 0
  <2>1. Of(0) = {}
    OBVIOUS
  <2>. QED
    BY <2>1, FS_EmptySet
<1>3. ASSUME NEW k \in 1..n
      PROVE  /\ s[k] = "-" => Cardinality(Of(k)) = Cardinality(Of(k - 1))
             /\ s[k] # "-" => Cardinality(Of(k)) = Cardinality(Of(k - 1)) + 1
  <2>1. k - 1 \in 0..n /\ k \notin Of(k - 1)
    OBVIOUS
  <2>2. CASE s[k] = "-"
    <3>1. Of(k) = Of(k - 1)
      BY <2>2
    <3>. QED
      BY <2>2, <3>1
  <2>3. CASE s[k] # "-"
    <3>1. Of(k) = Of(k - 1) \cup {k}
      BY <2>3
    <3>2. Cardinality(Of(k - 1) \cup {k}) = Cardinality(Of(k - 1)) + 1
      <4>1. IsFiniteSet(Of(k - 1))
        BY <2>1, <1>1
      <4>. HIDE DEF Of
      <4>. QED
        BY <2>1, <4>1, FS_AddElement
    <3>. QED
      BY <2>3, <3>1, <3>2
  <2>. QED
    BY <2>2, <2>3
<1>4. ASSUME NEW i \in 0..n, NEW k \in 0..n, i <= k
      PROVE  Cardinality(Of(i)) <= Cardinality(Of(k))
  <2>1. Of(i) \subseteq Of(k)
    BY <1>4
  <2>. HIDE DEF Of
  <2>. QED
    BY <1>1, <2>1, FS_Subset
<1>. QED
  BY <1>1, <1>2, <1>3, <1>4 DEF NewLines

\* A note's lines are lines; unended, its last is not blank.
LEMMA TextIs ==
  ASSUME NEW t \in Texts
  PROVE  /\ t = Note(t.lines, t.ended) /\ t.lines \in Seq(Lines) /\ t.ended \in {"yes", "no"}
         /\ t.lines = <<>> => t = NoText
         /\ t.ended = "no" => t.lines # <<>> /\ t.lines[Len(t.lines)] # Blank
<1>1. CASE t = NoText
  BY <1>1 DEF NoText, Note
<1>2. CASE t # NoText
  <2>1. PICK n \in 1..MaxLines :
          \E l \in [1..n -> Lines], e \in {"yes", "no"} :
            t = Note(l, e) /\ (t.ended = "yes" \/ t.lines[Len(t.lines)] # Blank)
    BY <1>2 DEF Texts
  <2>. PICK l \in [1..n -> Lines], e \in {"yes", "no"} :
          t = Note(l, e) /\ (t.ended = "yes" \/ t.lines[Len(t.lines)] # Blank)
    BY <2>1
  <2>2. t.lines = l /\ t.ended = e
    BY DEF Note
  <2>3. l \in Seq(Lines) /\ Len(l) = n /\ l # <<>>
    BY PatchingAssumption
  <2>. QED
    BY <2>2, <2>3
<1>. QED
  BY <1>1, <1>2

\* Where line k of a script is in the two notes.
LEMMA ScriptIs ==
  ASSUME NEW a, NEW b, NEW s, NEW shown, Scripted(a, b, s, shown)
  PROVE  /\ Len(s) \in Nat /\ s \in [1..Len(s) -> Kinds]
         /\ OldLines(s, 0) = 0 /\ NewLines(s, 0) = 0
         /\ OldLines(s, Len(s)) = Len(a.lines) /\ NewLines(s, Len(s)) = Len(b.lines)
         /\ \A k \in 0..Len(s) : /\ OldLines(s, k) \in 0..Len(a.lines)
                                 /\ NewLines(s, k) \in 0..Len(b.lines)
         /\ \A k \in 1..Len(s) :
              /\ k - 1 \in 0..Len(s)
              /\ s[k] = "+" => OldLines(s, k) = OldLines(s, k - 1)
              /\ s[k] # "+" => OldLines(s, k) = OldLines(s, k - 1) + 1
              /\ s[k] = "-" => NewLines(s, k) = NewLines(s, k - 1)
              /\ s[k] # "-" => NewLines(s, k) = NewLines(s, k - 1) + 1
              /\ s[k] = "same" => Whole(a, OldLines(s, k)) = Whole(b, NewLines(s, k))
         /\ \A i, k \in 0..Len(s) :
              i <= k => OldLines(s, i) <= OldLines(s, k) /\ NewLines(s, i) <= NewLines(s, k)
<1>1. /\ a.lines \in Seq(Lines) /\ b.lines \in Seq(Lines)
  BY TextIs DEF Scripted
<1>2. PICK n \in 0..(Len(a.lines) + Len(b.lines)) : s \in [1..n -> Kinds]
  BY DEF Scripted, Scripts
<1>3. Len(s) \in Nat /\ s \in [1..Len(s) -> Kinds]
  BY <1>1, <1>2
<1>4. /\ OldLines(s, Len(s)) = Len(a.lines) /\ NewLines(s, Len(s)) = Len(b.lines)
      /\ \A k \in 1..Len(s) : s[k] = "same" => Whole(a, OldLines(s, k)) = Whole(b, NewLines(s, k))
  BY <1>2, <1>3 DEF Scripted, Scripts
<1>5. /\ OldLines(s, 0) = 0 /\ \A k \in 0..Len(s) : OldLines(s, k) \in Nat
      /\ \A k \in 1..Len(s) :
           /\ s[k] = "+" => OldLines(s, k) = OldLines(s, k - 1)
           /\ s[k] # "+" => OldLines(s, k) = OldLines(s, k - 1) + 1
      /\ \A i, k \in 0..Len(s) : i <= k => OldLines(s, i) <= OldLines(s, k)
  BY <1>3, OldCounts
<1>6. /\ NewLines(s, 0) = 0 /\ \A k \in 0..Len(s) : NewLines(s, k) \in Nat
      /\ \A k \in 1..Len(s) :
           /\ s[k] = "-" => NewLines(s, k) = NewLines(s, k - 1)
           /\ s[k] # "-" => NewLines(s, k) = NewLines(s, k - 1) + 1
      /\ \A i, k \in 0..Len(s) : i <= k => NewLines(s, i) <= NewLines(s, k)
  BY <1>3, NewCounts
<1>7. ASSUME NEW k \in 0..Len(s)
      PROVE  OldLines(s, k) <= OldLines(s, Len(s)) /\ NewLines(s, k) <= NewLines(s, Len(s))
  <2>1. k <= Len(s) /\ Len(s) \in 0..Len(s)
    BY <1>3
  <2>. QED
    BY <1>5, <1>6, <2>1
<1>8. ASSUME NEW k \in 0..Len(s)
      PROVE  OldLines(s, k) \in 0..Len(a.lines) /\ NewLines(s, k) \in 0..Len(b.lines)
  <2>1. Len(a.lines) \in Nat /\ Len(b.lines) \in Nat
    BY <1>1
  <2>2. OldLines(s, k) \in Nat /\ NewLines(s, k) \in Nat
    BY <1>5, <1>6
  <2>3. OldLines(s, k) <= Len(a.lines) /\ NewLines(s, k) <= Len(b.lines)
    BY <1>4, <1>7
  <2>. QED
    BY <2>1, <2>2, <2>3
<1>9. \A k \in 1..Len(s) : k - 1 \in 0..Len(s)
  BY <1>3
<1>. QED
  <2>1. \A k \in 1..Len(s) :
          /\ k - 1 \in 0..Len(s)
          /\ s[k] = "same" => Whole(a, OldLines(s, k)) = Whole(b, NewLines(s, k))
    BY <1>3, <1>4, <1>9
  <2>2. \A k \in 1..Len(s) :
          /\ s[k] = "+" => OldLines(s, k) = OldLines(s, k - 1)
          /\ s[k] # "+" => OldLines(s, k) = OldLines(s, k - 1) + 1
    BY <1>5, Zenon
  <2>3. \A k \in 1..Len(s) :
          /\ s[k] = "-" => NewLines(s, k) = NewLines(s, k - 1)
          /\ s[k] # "-" => NewLines(s, k) = NewLines(s, k - 1) + 1
    BY <1>6, Zenon
  <2>4. \A i, k \in 0..Len(s) :
          i <= k => OldLines(s, i) <= OldLines(s, k) /\ NewLines(s, i) <= NewLines(s, k)
    BY <1>3, <1>5, <1>6
  <2>5. \A k \in 0..Len(s) : /\ OldLines(s, k) \in 0..Len(a.lines)
                            /\ NewLines(s, k) \in 0..Len(b.lines)
    BY <1>3, <1>8
  <2>6. /\ Len(s) \in Nat /\ s \in [1..Len(s) -> Kinds]
        /\ OldLines(s, 0) = 0 /\ NewLines(s, 0) = 0
        /\ OldLines(s, Len(s)) = Len(a.lines) /\ NewLines(s, Len(s)) = Len(b.lines)
    BY <1>2, <1>3, <1>4, <1>5, <1>6
  <2>. QED
    BY <2>1, <2>2, <2>3, <2>4, <2>5, <2>6, Zenon

\* What is shown from a line on ends somewhere.
LEMMA HunkEnds ==
  ASSUME NEW n \in Nat, NEW shown \in SUBSET (1..n), NEW k \in shown
  PROVE  \E j \in shown : k <= j /\ j + 1 \notin shown /\ k..j \subseteq shown
<1>. DEFINE T == {j \in k..n : j + 1 \notin shown}
<1>1. T # {} /\ T \in SUBSET Nat
  <2>1. n \in T
    OBVIOUS
  <2>. QED
    BY <2>1
<1>2. PICK j \in T : \A i \in T : j <= i
  <2>. HIDE DEF T
  <2>. QED
    BY <1>1, LeastNumber
<1>3. j \in k..n /\ j + 1 \notin shown /\ \A i \in k..n : i < j => i + 1 \in shown
  BY <1>2
<1>4. ASSUME NEW i \in k..j PROVE i \in shown
  <2>1. CASE i = k
    BY <2>1
  <2>2. CASE i # k
    <3>1. i - 1 \in k..n /\ i - 1 < j /\ (i - 1) + 1 = i
      BY <1>3, <2>2
    <3>. QED
      BY <1>3, <3>1
  <2>. QED
    BY <2>1, <2>2
<1>. QED
  BY <1>3, <1>4

\* A hunk's header counts the lines to where it ends, and starts the hunk
\* after the lines before it.
LEMMA HeaderIs ==
  ASSUME NEW a, NEW b, NEW s, NEW shown, Scripted(a, b, s, shown), NEW k \in shown
  PROVE  \E j \in shown :
           /\ k <= j /\ j + 1 \notin shown /\ k..j \subseteq shown
           /\ Header(s, shown, k) \in Headers
           /\ Header(s, shown, k).oldCount = OldLines(s, j) - OldLines(s, k - 1)
           /\ Header(s, shown, k).newCount = NewLines(s, j) - NewLines(s, k - 1)
           /\ HunkStart(Header(s, shown, k)) = OldLines(s, k - 1)
<1>1. Len(s) \in Nat /\ shown \in SUBSET (1..Len(s)) /\ k \in 1..Len(s)
  <2>1. Len(s) \in Nat /\ s \in [1..Len(s) -> Kinds]
    BY ScriptIs
  <2>. QED
    BY <2>1 DEF Scripted
<1>. DEFINE j == CHOOSE i \in shown : k <= i /\ i + 1 \notin shown /\ k..i \subseteq shown
            before == OldLines(s, k - 1)
            count == OldLines(s, j) - before
<1>2. j \in shown /\ k <= j /\ j + 1 \notin shown /\ k..j \subseteq shown
  BY <1>1, HunkEnds
<1>3. Header(s, shown, k) =
        [oldStart |-> IF count = 0 THEN before ELSE before + 1, oldCount |-> count,
         newCount |-> NewLines(s, j) - NewLines(s, k - 1)]
  BY DEF Header
<1>. HIDE DEF j
<1>4. /\ before \in Nat /\ OldLines(s, j) \in Nat /\ before <= OldLines(s, j)
      /\ NewLines(s, k - 1) \in Nat /\ NewLines(s, j) \in Nat
      /\ NewLines(s, k - 1) <= NewLines(s, j)
  <2>1. k - 1 \in 0..Len(s) /\ j \in 0..Len(s) /\ k - 1 <= j
    BY <1>1, <1>2
  <2>2. /\ \A i \in 0..Len(s) : /\ OldLines(s, i) \in 0..Len(a.lines)
                                /\ NewLines(s, i) \in 0..Len(b.lines)
        /\ \A i, l \in 0..Len(s) :
              i <= l => OldLines(s, i) <= OldLines(s, l) /\ NewLines(s, i) <= NewLines(s, l)
    BY ScriptIs
  <2>3. a.lines \in Seq(Lines) /\ b.lines \in Seq(Lines)
    BY TextIs DEF Scripted
  <2>. QED
    BY <2>1, <2>2, <2>3
<1>5. count \in Nat /\ NewLines(s, j) - NewLines(s, k - 1) \in Nat
  BY <1>4
<1>6. Header(s, shown, k) \in Headers
  BY <1>3, <1>4, <1>5 DEF Headers
<1>7. HunkStart(Header(s, shown, k)) = before
  BY <1>3, <1>4, <1>5 DEF HunkStart
<1>. QED
  BY <1>2, <1>3, <1>6, <1>7

\* The text of line k of a script, and where a missing terminator shows.
LEMMA LineIs ==
  ASSUME NEW a, NEW b, NEW s, NEW shown, Scripted(a, b, s, shown), NEW k \in 1..Len(s)
  PROVE  /\ s[k] \in Kinds
         /\ s[k] # "+" => /\ OldLines(s, k) \in 1..Len(a.lines)
                          /\ a.lines[OldLines(s, k)] \in Lines
         /\ s[k] # "-" => /\ NewLines(s, k) \in 1..Len(b.lines)
                          /\ b.lines[NewLines(s, k)] \in Lines
         /\ s[k] = "same" => /\ a.lines[OldLines(s, k)] = b.lines[NewLines(s, k)]
                             /\ NewLines(s, k) = Len(b.lines) /\ b.ended = "no"
                                  <=> OldLines(s, k) = Len(a.lines) /\ a.ended = "no"
<1>1. /\ a.lines \in Seq(Lines) /\ b.lines \in Seq(Lines)
      /\ a.ended \in {"yes", "no"} /\ b.ended \in {"yes", "no"}
  BY TextIs DEF Scripted
<1>2. Len(a.lines) \in Nat /\ Len(b.lines) \in Nat
  BY <1>1
<1>. DEFINE o == OldLines(s, k)
            m == NewLines(s, k)
<1>3. /\ s \in [1..Len(s) -> Kinds] /\ o \in 0..Len(a.lines) /\ m \in 0..Len(b.lines)
      /\ s[k] # "+" => o # 0
      /\ s[k] # "-" => m # 0
      /\ s[k] = "same" => Whole(a, o) = Whole(b, m)
  <2>1. Len(s) \in Nat /\ s \in [1..Len(s) -> Kinds]
    BY ScriptIs
  <2>2. k \in 0..Len(s) /\ k - 1 \in 0..Len(s)
    BY <2>1
  <2>3. /\ OldLines(s, k - 1) \in 0..Len(a.lines) /\ o \in 0..Len(a.lines)
        /\ NewLines(s, k - 1) \in 0..Len(b.lines) /\ m \in 0..Len(b.lines)
    BY <2>2, ScriptIs
  <2>4. \A i \in 1..Len(s) :
          /\ s[i] # "+" => OldLines(s, i) = OldLines(s, i - 1) + 1
          /\ s[i] # "-" => NewLines(s, i) = NewLines(s, i - 1) + 1
          /\ s[i] = "same" => Whole(a, OldLines(s, i)) = Whole(b, NewLines(s, i))
    BY ScriptIs
  <2>5. /\ s[k] # "+" => o = OldLines(s, k - 1) + 1
        /\ s[k] # "-" => m = NewLines(s, k - 1) + 1
        /\ s[k] = "same" => Whole(a, o) = Whole(b, m)
    BY <2>4
  <2>6. OldLines(s, k - 1) \in Nat /\ NewLines(s, k - 1) \in Nat
    BY <1>2, <2>3
  <2>7. (s[k] # "+" => o # 0) /\ (s[k] # "-" => m # 0)
    BY <2>5, <2>6
  <2>. HIDE DEF o, m
  <2>. QED
    BY <2>1, <2>3, <2>5, <2>7
<1>. HIDE DEF o, m
<1>4. s[k] \in Kinds
  BY <1>3
<1>5. ASSUME s[k] # "+" PROVE o \in 1..Len(a.lines) /\ a.lines[o] \in Lines
  <2>1. o \in 1..Len(a.lines)
    BY <1>2, <1>3, <1>5
  <2>. QED
    BY <1>1, <2>1
<1>6. ASSUME s[k] # "-" PROVE m \in 1..Len(b.lines) /\ b.lines[m] \in Lines
  <2>1. m \in 1..Len(b.lines)
    BY <1>2, <1>3, <1>6
  <2>. QED
    BY <1>1, <2>1
<1>7. ASSUME s[k] = "same"
      PROVE  /\ a.lines[o] = b.lines[m]
             /\ m = Len(b.lines) /\ b.ended = "no" <=> o = Len(a.lines) /\ a.ended = "no"
  BY <1>1, <1>3, <1>7 DEF Whole
<1>. QED
  BY <1>4, <1>5, <1>6, <1>7 DEF o, m

-----------------------------------------------------------------------------
(* How far reading and applying are.                                       *)

\* After line k the work has the new side but for the last `gap` lines, which
\* are context and the same in the note.
Caught(a, b, s, k, gap, w) ==
  /\ w \in Works /\ w.ok = "yes" /\ w.tail = "no"
  /\ gap \in Nat /\ gap <= OldLines(s, k) /\ gap <= NewLines(s, k)
  /\ w.cursor = OldLines(s, k) - gap
  /\ w.out = SubSeq(b.lines, 1, NewLines(s, k) - gap)
  /\ \A i \in 1..gap : a.lines[w.cursor + i] = b.lines[NewLines(s, k) - gap + i]
  /\ w.unended = "yes" => b.ended = "no"

\* The work has been told of the new side's missing terminator, if it is past.
Told(b, s, k, w) == NewLines(s, k) = Len(b.lines) /\ b.ended = "no" => w.unended = "yes"

\* Outside the hunks.
Between(a, b, s, k, hunks) ==
  /\ hunks \in Seq(Hunks) /\ \A i \in DOMAIN hunks : Complete(hunks[i])
  /\ \E gap : Caught(a, b, s, k, gap, ApplyHunks(a.lines, hunks))

\* Inside the hunk h, which began at line j; f are those before it.
Midway(a, f, h) ==
  ApplyLines(a.lines, Begun(a.lines, ApplyHunks(a.lines, f), HunkStart(h.header)), h.lines)
Within(a, b, s, shown, j, k, f, h) ==
  /\ f \in Seq(Hunks) /\ h \in Hunks /\ \A i \in DOMAIN f : Complete(f[i])
  /\ j \in shown /\ j - 1 \notin shown /\ k \in 0..Len(s) /\ j <= k + 1 /\ j..k \subseteq shown
  /\ h.header = Header(s, shown, j)
  /\ h.old = OldLines(s, k) - OldLines(s, j - 1) /\ h.new = NewLines(s, k) - NewLines(s, j - 1)
  /\ ApplyHunks(a.lines, f) \in Works /\ ApplyHunks(a.lines, f).ok = "yes"
  /\ ApplyHunks(a.lines, f).tail = "no"
  /\ ApplyHunks(a.lines, f).cursor <= HunkStart(h.header) /\ HunkStart(h.header) <= Len(a.lines)
  /\ Caught(a, b, s, k, 0, Midway(a, f, h))

Reading(a, b, s, shown, k, text) ==
  /\ text \in Seq(PatchLines)
  /\ k \notin shown => Between(a, b, s, k, ParseHunks(text))
  /\ k \in shown => \E f, h, j :
       /\ ParseHunks(text) = Append(f, h) /\ j <= k /\ Within(a, b, s, shown, j, k, f, h)
       /\ Wanting(h) => h.closed = "no"
       /\ Told(b, s, k, Midway(a, f, h))

\* Copying the gap gives the new side.
LEMMA CaughtUp ==
  ASSUME NEW x \in Seq(Lines), NEW y \in Seq(Lines), NEW m \in 0..Len(x), NEW n \in 0..Len(y),
         NEW gap \in Nat, gap <= m, gap <= n,
         \A i \in 1..gap : x[m - gap + i] = y[n - gap + i]
  PROVE  SubSeq(y, 1, n - gap) \o SubSeq(x, m - gap + 1, m) = SubSeq(y, 1, n)
<1>. DEFINE p == SubSeq(x, m - gap + 1, m)
            q == SubSeq(y, n - gap + 1, n)
<1>1. /\ p \in Seq(Lines) /\ Len(p) = gap /\ \A i \in 1..gap : p[i] = x[m - gap + i]
  <2>1. /\ m - gap + 1 \in Int /\ m \in Int
        /\ \A i \in (m - gap + 1)..m : x[i] \in Lines
        /\ m - (m - gap + 1) + 1 = gap
        /\ IF m - gap + 1 <= m THEN TRUE ELSE gap = 0
    OBVIOUS
  <2>2. /\ p \in Seq(Lines) /\ Len(p) = gap
        /\ \A i \in 1..gap : p[i] = x[(m - gap + 1) + i - 1]
    BY <2>1, SubSeqProperties
  <2>. HIDE DEF p
  <2>. QED
    BY <2>2
<1>2. /\ q \in Seq(Lines) /\ Len(q) = gap /\ \A i \in 1..gap : q[i] = y[n - gap + i]
  <2>1. /\ n - gap + 1 \in Int /\ n \in Int
        /\ \A i \in (n - gap + 1)..n : y[i] \in Lines
        /\ n - (n - gap + 1) + 1 = gap
        /\ IF n - gap + 1 <= n THEN TRUE ELSE gap = 0
    OBVIOUS
  <2>2. /\ q \in Seq(Lines) /\ Len(q) = gap
        /\ \A i \in 1..gap : q[i] = y[(n - gap + 1) + i - 1]
    BY <2>1, SubSeqProperties
  <2>. HIDE DEF q
  <2>. QED
    BY <2>2
<1>3. p = q
  <2>. HIDE DEF p, q
  <2>. QED
    BY <1>1, <1>2, SeqEqual
<1>4. SubSeq(y, 1, n - gap) \o q = SubSeq(y, 1, n)
  <2>1. 1 \in 1..(Len(y) + 1) /\ n - gap \in (1 - 1)..Len(y) /\ n \in (n - gap)..Len(y)
    OBVIOUS
  <2>. QED
    BY <2>1, ConcatAdjacentSubSeq
<1>. QED
  BY <1>3, <1>4

\* And one line more is one line more.
LEMMA OneMoreLine ==
  ASSUME NEW y \in Seq(Lines), NEW n \in 1..Len(y)
  PROVE  Append(SubSeq(y, 1, n - 1), y[n]) = SubSeq(y, 1, n)
<1>1. 1 \in 1..Len(y) /\ n \in 1..Len(y) /\ y[n] \in Lines
  OBVIOUS
<1>2. SubSeq(y, 1, n) = SubSeq(y, 1, n - 1) \o <<y[n]>>
  BY <1>1, SubSeqRecursiveSecond
<1>3. SubSeq(y, 1, n - 1) \in Seq(Lines)
  OBVIOUS
<1>. QED
  BY <1>1, <1>2, <1>3, AppendIsConcat

-----------------------------------------------------------------------------
(* A step of the reader is a step of the script.                           *)

\* The hunk being read is the last, and the others stand.
LEMMA LastHunk ==
  ASSUME NEW f \in Seq(Hunks), NEW h \in Hunks
  PROVE  /\ Append(f, h) \in Seq(Hunks) /\ Append(f, h) # <<>>
         /\ Len(Append(f, h)) = Len(f) + 1 /\ Append(f, h)[Len(Append(f, h))] = h
         /\ \A g \in Hunks : [Append(f, h) EXCEPT ![Len(Append(f, h))] = g] = Append(f, g)
<1>1. /\ Append(f, h) \in Seq(Hunks) /\ Append(f, h) # <<>> /\ Len(f) \in Nat
      /\ Len(Append(f, h)) = Len(f) + 1 /\ Append(f, h)[Len(f) + 1] = h
      /\ \A i \in 1..Len(f) : Append(f, h)[i] = f[i]
  BY AppendProperties
<1>2. ASSUME NEW g \in Hunks
      PROVE  [Append(f, h) EXCEPT ![Len(f) + 1] = g] = Append(f, g)
  <2>. DEFINE p == Append(f, h)
              q == [p EXCEPT ![Len(f) + 1] = g]
  <2>1. /\ q \in Seq(Hunks) /\ Len(q) = Len(f) + 1
        /\ \A i \in 1..(Len(f) + 1) : q[i] = IF i = Len(f) + 1 THEN g ELSE p[i]
    <3>. HIDE DEF p
    <3>1. p \in Seq(Hunks) /\ Len(p) = Len(f) + 1 /\ Len(f) + 1 \in 1..Len(p)
      BY <1>1 DEF p
    <3>. QED
      BY <3>1, ExceptSeq
  <2>2. /\ Append(f, g) \in Seq(Hunks) /\ Len(Append(f, g)) = Len(f) + 1
        /\ Append(f, g)[Len(f) + 1] = g /\ \A i \in 1..Len(f) : Append(f, g)[i] = f[i]
    BY AppendProperties
  <2>3. ASSUME NEW i \in 1..(Len(f) + 1) PROVE q[i] = Append(f, g)[i]
    <3>. HIDE DEF q
    <3>1. CASE i = Len(f) + 1
      BY <2>1, <2>2, <3>1
    <3>2. CASE i # Len(f) + 1
      <4>1. i \in 1..Len(f)
        BY <1>1, <3>2
      <4>. QED
        BY <1>1, <2>1, <2>2, <3>2, <4>1
    <3>. QED
      BY <3>1, <3>2
  <2>. HIDE DEF q
  <2>4. q = Append(f, g)
    BY <2>1, <2>2, <2>3, SeqEqual
  <2>. QED
    BY <2>4 DEF q
<1>. QED
  BY <1>1, <1>2

\* A header opens a hunk at which the work has caught up.
LEMMA HeaderRead ==
  ASSUME NEW a, NEW b, NEW s, NEW shown, Scripted(a, b, s, shown),
         NEW k \in shown, k - 1 \notin shown, NEW hunks, Between(a, b, s, k - 1, hunks),
         NEW h, h = Hunk(Header(s, shown, k))
  PROVE  /\ ParseLine(hunks, <<"@@", Header(s, shown, k)>>) = Append(hunks, h)
         /\ Within(a, b, s, shown, k, k - 1, hunks, h) /\ h.closed = "no"
<1>. DEFINE head == Header(s, shown, k)
            o == OldLines(s, k - 1)
            n == NewLines(s, k - 1)
            w == ApplyHunks(a.lines, hunks)
            x == Begun(a.lines, w, o)
<1>1. k \in 1..Len(s) /\ k - 1 \in 0..Len(s) /\ Len(s) \in Nat
  <2>1. Len(s) \in Nat /\ s \in [1..Len(s) -> Kinds]
    BY ScriptIs
  <2>. QED
    BY <2>1 DEF Scripted
<1>2. head \in Headers /\ HunkStart(head) = o
  BY HeaderIs
<1>3. /\ a.lines \in Seq(Lines) /\ b.lines \in Seq(Lines)
      /\ Len(a.lines) \in Nat /\ Len(b.lines) \in Nat
  <2>1. a.lines \in Seq(Lines) /\ b.lines \in Seq(Lines)
    BY TextIs DEF Scripted
  <2>. QED
    BY <2>1
<1>4. o \in 0..Len(a.lines) /\ n \in 0..Len(b.lines)
  BY <1>1, ScriptIs
<1>. HIDE DEF head, o, n
<1>5. /\ h \in Hunks /\ h.header = head /\ h.lines = <<>> /\ h.old = 0 /\ h.new = 0
      /\ h.closed = "no"
  <2>1. <<>> \in Seq(HunkLines)
    OBVIOUS
  <2>. QED
    BY <1>2, <2>1 DEF Hunk, Hunks, head
<1>6. ParseLine(hunks, <<"@@", head>>) = Append(hunks, h)
  BY DEF ParseLine, head
<1>7. PICK gap : Caught(a, b, s, k - 1, gap, w)
  BY DEF Between
<1>8. /\ w \in Works /\ w.ok = "yes" /\ w.tail = "no"
      /\ gap \in Nat /\ gap <= o /\ gap <= n
      /\ w.cursor = o - gap /\ w.out = SubSeq(b.lines, 1, n - gap)
      /\ \A i \in 1..gap : a.lines[w.cursor + i] = b.lines[n - gap + i]
      /\ w.unended = "yes" => b.ended = "no"
  BY <1>7 DEF Caught, o, n
<1>9. Midway(a, hunks, h) = x
  BY <1>2, <1>5, LineNone DEF Midway
<1>. HIDE DEF w
<1>10. w.out \o SubSeq(a.lines, w.cursor + 1, o) = SubSeq(b.lines, 1, n)
  <2>1. \A i \in 1..gap : a.lines[o - gap + i] = b.lines[n - gap + i]
    BY <1>8
  <2>2. SubSeq(b.lines, 1, n - gap) \o SubSeq(a.lines, o - gap + 1, o) = SubSeq(b.lines, 1, n)
    BY <1>3, <1>4, <1>8, <2>1, CaughtUp
  <2>. QED
    BY <1>8, <2>2
<1>11. SubSeq(b.lines, 1, n) \in Seq(Lines)
  BY <1>3, <1>4
<1>12. /\ x \in Works /\ x.ok = "yes" /\ x.tail = "no" /\ x.cursor = o
       /\ x.out = SubSeq(b.lines, 1, n) /\ x.unended = w.unended
  <2>1. x = [w EXCEPT !.out = SubSeq(b.lines, 1, n), !.cursor = o, !.previous = "none"]
    BY <1>10 DEF Begun
  <2>2. o \in Nat
    BY <1>3, <1>4
  <2>. HIDE DEF x
  <2>3. w \in [out : Seq(Lines), cursor : Nat, tail : {"yes", "no"}, unended : {"yes", "no"},
               previous : {"none", "same", "-", "+"}, ok : {"yes", "no"}]
    BY <1>8 DEF Works
  <2>4. /\ x.ok = w.ok /\ x.tail = w.tail /\ x.cursor = o
        /\ x.out = SubSeq(b.lines, 1, n) /\ x.unended = w.unended
    BY <2>1, <2>3
  <2>5. x \in Works
    BY <1>11, <2>1, <2>2, <2>3 DEF Works
  <2>. QED
    BY <1>8, <2>4, <2>5
<1>. HIDE DEF x
<1>13. Caught(a, b, s, k - 1, 0, x)
  <2>1. o - 0 = o /\ n - 0 = n /\ 0 <= o /\ 0 <= n
    BY <1>3, <1>4
  <2>2. \A i \in 1..0 : FALSE
    OBVIOUS
  <2>. QED
    BY <1>8, <1>12, <2>1, <2>2 DEF Caught, o, n
<1>14. w.cursor <= o /\ o <= Len(a.lines)
  BY <1>3, <1>4, <1>8
<1>15. /\ \A i \in k..(k - 1) : FALSE
       /\ k <= (k - 1) + 1 /\ OldLines(s, k - 1) - OldLines(s, k - 1) = 0
       /\ NewLines(s, k - 1) - NewLines(s, k - 1) = 0
  BY <1>1, <1>3, <1>4 DEF o, n
<1>16. Within(a, b, s, shown, k, k - 1, hunks, h)
  <2>1. hunks \in Seq(Hunks) /\ \A i \in DOMAIN hunks : Complete(hunks[i])
    BY DEF Between
  <2>2. k..(k - 1) \subseteq shown
    BY <1>15
  <2>. QED
    BY <1>1, <1>2, <1>5, <1>8, <1>9, <1>13, <1>14, <1>15, <2>1, <2>2 DEF Within, head, w
<1>. QED
  BY <1>5, <1>6, <1>16 DEF head

\* A line shown is one its hunk still wants.
LEMMA HunkWants ==
  ASSUME NEW a, NEW b, NEW s, NEW shown, Scripted(a, b, s, shown), NEW k \in shown,
         NEW j, j <= k, NEW f, NEW h, Within(a, b, s, shown, j, k - 1, f, h)
  PROVE  Wanting(h)
<1>1. k \in 1..Len(s) /\ Len(s) \in Nat
  <2>1. Len(s) \in Nat /\ s \in [1..Len(s) -> Kinds]
    BY ScriptIs
  <2>. QED
    BY <2>1 DEF Scripted
<1>2. /\ j \in shown /\ j..(k - 1) \subseteq shown /\ h.header = Header(s, shown, j)
      /\ h.old = OldLines(s, k - 1) - OldLines(s, j - 1)
      /\ h.new = NewLines(s, k - 1) - NewLines(s, j - 1)
  BY DEF Within
<1>3. PICK e \in shown :
        /\ j <= e /\ e + 1 \notin shown
        /\ Header(s, shown, j).oldCount = OldLines(s, e) - OldLines(s, j - 1)
        /\ Header(s, shown, j).newCount = NewLines(s, e) - NewLines(s, j - 1)
  BY <1>2, HeaderIs
<1>4. j \in 1..Len(s) /\ e \in 1..Len(s)
  <2>1. shown \subseteq 1..Len(s)
    <3>1. s \in [1..Len(s) -> Kinds]
      BY ScriptIs
    <3>. QED
      BY <3>1 DEF Scripted
  <2>. QED
    BY <1>2, <2>1
<1>5. k <= e
  <2>1. ASSUME e < k PROVE FALSE
    <3>1. e + 1 = k \/ e + 1 \in j..(k - 1)
      BY <1>1, <1>3, <1>4, <2>1
    <3>. QED
      BY <1>2, <1>3, <3>1
  <2>. QED
    BY <1>1, <1>4, <2>1
<1>6. k \in 0..Len(s) /\ e \in 0..Len(s) /\ k - 1 \in 0..Len(s) /\ j - 1 \in 0..Len(s)
  BY <1>1, <1>4
<1>7. /\ OldLines(s, k) <= OldLines(s, e) /\ NewLines(s, k) <= NewLines(s, e)
      /\ s[k] # "+" => OldLines(s, k) = OldLines(s, k - 1) + 1
      /\ s[k] # "-" => NewLines(s, k) = NewLines(s, k - 1) + 1
  <2>1. /\ \A i \in 1..Len(s) :
             /\ s[i] # "+" => OldLines(s, i) = OldLines(s, i - 1) + 1
             /\ s[i] # "-" => NewLines(s, i) = NewLines(s, i - 1) + 1
        /\ \A i, l \in 0..Len(s) :
             i <= l => OldLines(s, i) <= OldLines(s, l) /\ NewLines(s, i) <= NewLines(s, l)
    BY ScriptIs
  <2>. QED
    BY <1>1, <1>5, <1>6, <2>1
<1>8. /\ OldLines(s, k) \in Nat /\ OldLines(s, e) \in Nat /\ OldLines(s, k - 1) \in Nat
      /\ OldLines(s, j - 1) \in Nat /\ NewLines(s, k) \in Nat /\ NewLines(s, e) \in Nat
      /\ NewLines(s, k - 1) \in Nat /\ NewLines(s, j - 1) \in Nat
  <2>1. \A i \in 0..Len(s) : /\ OldLines(s, i) \in 0..Len(a.lines)
                             /\ NewLines(s, i) \in 0..Len(b.lines)
    BY ScriptIs
  <2>2. a.lines \in Seq(Lines) /\ b.lines \in Seq(Lines)
    BY TextIs DEF Scripted
  <2>. QED
    BY <1>6, <2>1, <2>2
<1>9. CASE s[k] # "+"
  BY <1>2, <1>3, <1>7, <1>8, <1>9 DEF Wanting
<1>10. CASE s[k] = "+"
  <2>1. s[k] # "-"
    BY <1>10
  <2>. QED
    BY <1>2, <1>3, <1>7, <1>8, <2>1 DEF Wanting
<1>. QED
  BY <1>9, <1>10

\* Line k of the script is due, and the patch has it as a kind and a text.
Due(a, b, s, shown, j, k, f, h, kind, t) ==
  /\ k \in shown /\ j <= k /\ Within(a, b, s, shown, j, k - 1, f, h) /\ h.closed = "no"
  /\ kind = s[k] \/ (kind = "bare" /\ s[k] = "same")
  /\ s[k] = "+" => t = b.lines[NewLines(s, k)]
  /\ s[k] # "+" => t = a.lines[OldLines(s, k)]

\* A line of the script read is that line applied.
LEMMA LineRead ==
  ASSUME NEW a, NEW b, NEW s, NEW shown, Scripted(a, b, s, shown),
         NEW k, NEW j, NEW f, NEW h, NEW kind, NEW t,
         Due(a, b, s, shown, j, k, f, h, kind, t)
  PROVE  \E g : /\ ParseLine(Append(f, h), <<kind, t>>) = Append(f, g)
                /\ Within(a, b, s, shown, j, k, f, g) /\ g.closed = "no"
                /\ Midway(a, f, g).previous = s[k]
                /\ Midway(a, f, g).unended = Midway(a, f, h).unended
<1>. USE DEF Due
<1>1. k \in 1..Len(s) /\ Len(s) \in Nat /\ k - 1 \in 0..Len(s) /\ k \in 0..Len(s)
  <2>1. Len(s) \in Nat /\ s \in [1..Len(s) -> Kinds]
    BY ScriptIs
  <2>. QED
    BY <2>1 DEF Scripted
<1>. DEFINE o == OldLines(s, k - 1)
            n == NewLines(s, k - 1)
            w == Midway(a, f, h)
            line == <<s[k], t>>
<1>2. /\ a.lines \in Seq(Lines) /\ b.lines \in Seq(Lines)
      /\ Len(a.lines) \in Nat /\ Len(b.lines) \in Nat
  <2>1. a.lines \in Seq(Lines) /\ b.lines \in Seq(Lines)
    BY TextIs DEF Scripted
  <2>. QED
    BY <2>1
<1>3. /\ o \in Nat /\ n \in Nat
      /\ s[k] = "+" => OldLines(s, k) = o
      /\ s[k] # "+" => OldLines(s, k) = o + 1 /\ o + 1 \in 1..Len(a.lines)
      /\ s[k] = "-" => NewLines(s, k) = n
      /\ s[k] # "-" => NewLines(s, k) = n + 1 /\ n + 1 \in 1..Len(b.lines)
  <2>1. \A i \in 0..Len(s) : /\ OldLines(s, i) \in 0..Len(a.lines)
                             /\ NewLines(s, i) \in 0..Len(b.lines)
    BY ScriptIs
  <2>2. \A i \in 1..Len(s) :
          /\ s[i] = "+" => OldLines(s, i) = OldLines(s, i - 1)
          /\ s[i] # "+" => OldLines(s, i) = OldLines(s, i - 1) + 1
          /\ s[i] = "-" => NewLines(s, i) = NewLines(s, i - 1)
          /\ s[i] # "-" => NewLines(s, i) = NewLines(s, i - 1) + 1
    BY ScriptIs
  <2>3. /\ s[k] # "+" => OldLines(s, k) \in 1..Len(a.lines)
        /\ s[k] # "-" => NewLines(s, k) \in 1..Len(b.lines)
    BY <1>1, LineIs
  <2>. QED
    BY <1>1, <1>2, <2>1, <2>2, <2>3
<1>4. /\ s[k] \in Kinds /\ t \in Lines
      /\ s[k] # "+" => t = a.lines[o + 1]
      /\ s[k] # "-" => t = b.lines[n + 1]
  <2>1. /\ s[k] \in Kinds
        /\ s[k] # "+" => a.lines[OldLines(s, k)] \in Lines
        /\ s[k] # "-" => b.lines[NewLines(s, k)] \in Lines
        /\ s[k] = "same" => a.lines[OldLines(s, k)] = b.lines[NewLines(s, k)]
    BY <1>1, LineIs
  <2>2. s[k] = "same" \/ s[k] = "-" \/ s[k] = "+"
    BY <2>1 DEF Kinds
  <2>. QED
    BY <1>3, <2>1, <2>2
<1>5. /\ f \in Seq(Hunks) /\ h \in Hunks /\ j \in shown /\ j..(k - 1) \subseteq shown
      /\ h.old = o - OldLines(s, j - 1) /\ h.new = n - NewLines(s, j - 1)
      /\ Caught(a, b, s, k - 1, 0, w)
  BY DEF Within
<1>6. /\ w \in Works /\ w.ok = "yes" /\ w.tail = "no" /\ w.cursor = o
      /\ w.out = SubSeq(b.lines, 1, n)
      /\ w.unended = "yes" => b.ended = "no"
  BY <1>3, <1>5 DEF Caught
<1>7. Wanting(h)
  BY HunkWants
<1>. DEFINE g == Taken(h, <<kind, t>>)
<1>. HIDE DEF o, n
<1>8. line \in HunkLines
  BY <1>4 DEF HunkLines, Kinds
<1>9. OldLines(s, j - 1) \in Nat /\ NewLines(s, j - 1) \in Nat /\ j \in Nat
  <2>1. \A i \in 0..Len(s) : /\ OldLines(s, i) \in 0..Len(a.lines)
                             /\ NewLines(s, i) \in 0..Len(b.lines)
    BY ScriptIs
  <2>2. j - 1 \in 0..Len(s) /\ j \in Nat
    <3>1. s \in [1..Len(s) -> Kinds]
      BY ScriptIs
    <3>2. j \in 1..Len(s)
      BY <1>5, <3>1 DEF Scripted
    <3>. QED
      BY <1>1, <3>2
  <2>. QED
    BY <1>2, <2>1, <2>2
<1>10. /\ g.header = h.header /\ g.closed = "no" /\ g.lines = Append(h.lines, line)
       /\ g.old = OldLines(s, k) - OldLines(s, j - 1)
       /\ g.new = NewLines(s, k) - NewLines(s, j - 1)
       /\ g \in Hunks
  <2>1. g = [h EXCEPT !.lines = Append(@, line),
               !.old = IF s[k] \in {"same", "-"} THEN @ + 1 ELSE @,
               !.new = IF s[k] \in {"same", "+"} THEN @ + 1 ELSE @]
    <3>1. (IF kind = "bare" THEN "same" ELSE kind) = s[k]
      BY <1>4 DEF Kinds
    <3>. QED
      BY <3>1, Zenon DEF Taken
  <2>2. h \in [header : Headers, lines : Seq(HunkLines), old : Nat, new : Nat,
               closed : {"yes", "no"}]
    BY <1>5 DEF Hunks
  <2>. HIDE DEF g, line
  <2>3. /\ g.header = h.header /\ g.closed = h.closed /\ g.lines = Append(h.lines, line)
        /\ g.old = (IF s[k] \in {"same", "-"} THEN h.old + 1 ELSE h.old)
        /\ g.new = (IF s[k] \in {"same", "+"} THEN h.new + 1 ELSE h.new)
    BY <2>1, <2>2
  <2>4. g \in Hunks
    <3>1. Append(h.lines, line) \in Seq(HunkLines) /\ h.old + 1 \in Nat /\ h.new + 1 \in Nat
      BY <1>8, <2>2
    <3>. QED
      BY <2>1, <2>2, <3>1 DEF Hunks
  <2>5. s[k] \in {"same", "-", "+"}
    BY <1>4 DEF Kinds
  <2>6. /\ g.old = OldLines(s, k) - OldLines(s, j - 1)
        /\ g.new = NewLines(s, k) - NewLines(s, j - 1)
    <3>. DEFINE p == OldLines(s, j - 1)
                q == NewLines(s, j - 1)
    <3>1. /\ p \in Nat /\ q \in Nat /\ h.old = o - p /\ h.new = n - q
          /\ o \in Nat /\ n \in Nat
      BY <1>3, <1>5, <1>9
    <3>. HIDE DEF p, q
    <3>2. h.old + 1 = (o + 1) - p /\ h.new + 1 = (n + 1) - q
      BY <3>1
    <3>3. g.old = OldLines(s, k) - p
      BY <1>3, <2>3, <2>5, <3>1, <3>2, Zenon
    <3>4. g.new = NewLines(s, k) - q
      BY <1>3, <2>3, <2>5, <3>1, <3>2, Zenon
    <3>. QED
      BY <3>3, <3>4 DEF p, q
  <2>. QED
    BY <2>3, <2>4, <2>6
<1>11. ParseLine(Append(f, h), <<kind, t>>) = Append(f, g)
  <2>. DEFINE hunks == Append(f, h)
  <2>1. kind # "@@"
    BY <1>4 DEF Kinds
  <2>2. /\ hunks # <<>> /\ hunks[Len(hunks)] = h
        /\ [hunks EXCEPT ![Len(hunks)] = g] = Append(f, g)
    <3>. HIDE DEF g
    <3>. QED
      BY <1>5, <1>10, LastHunk
  <2>. HIDE DEF hunks
  <2>3. ParseLine(hunks, <<kind, t>>) = [hunks EXCEPT ![Len(hunks)] = g]
    BY <1>7, <2>1, <2>2 DEF ParseLine
  <2>. QED
    BY <2>2, <2>3 DEF hunks
<1>. HIDE DEF g
<1>. DEFINE x == Midway(a, f, g)
<1>12. x = ApplyLine(a.lines, w, line)
  <2>1. h.lines \in Seq(HunkLines)
    BY <1>5 DEF Hunks
  <2>. QED
    BY <1>8, <1>10, <2>1, LineMore DEF Midway
<1>. HIDE DEF w, x
<1>13. x = [w EXCEPT !.cursor = IF s[k] = "+" THEN @ ELSE @ + 1,
                     !.out = IF s[k] = "-" THEN @ ELSE Append(@, t),
                     !.previous = s[k]]
  <2>1. s[k] # "\\"
    BY <1>4 DEF Kinds
  <2>2. s[k] = "+" \/ (w.cursor < Len(a.lines) /\ a.lines[w.cursor + 1] = t)
    BY <1>2, <1>3, <1>4, <1>6
  <2>. QED
    BY <1>6, <1>12, <2>1, <2>2 DEF ApplyLine
<1>14. /\ x \in Works /\ x.ok = "yes" /\ x.tail = "no" /\ x.unended = w.unended
       /\ x.previous = s[k]
       /\ x.cursor = OldLines(s, k) /\ x.out = SubSeq(b.lines, 1, NewLines(s, k))
  <2>1. w \in [out : Seq(Lines), cursor : Nat, tail : {"yes", "no"}, unended : {"yes", "no"},
               previous : {"none", "same", "-", "+"}, ok : {"yes", "no"}]
    BY <1>6 DEF Works
  <2>2. /\ x.ok = w.ok /\ x.tail = w.tail /\ x.unended = w.unended /\ x.previous = s[k]
        /\ x.cursor = (IF s[k] = "+" THEN w.cursor ELSE w.cursor + 1)
        /\ x.out = (IF s[k] = "-" THEN w.out ELSE Append(w.out, t))
    BY <1>13, <2>1
  <2>3. x.cursor = OldLines(s, k)
    BY <1>3, <1>6, <2>2
  <2>4. x.out = SubSeq(b.lines, 1, NewLines(s, k))
    <3>1. CASE s[k] = "-"
      BY <1>3, <1>6, <2>2, <3>1
    <3>2. CASE s[k] # "-"
      <4>1. Append(SubSeq(b.lines, 1, (n + 1) - 1), b.lines[n + 1]) = SubSeq(b.lines, 1, n + 1)
        BY <1>2, <1>3, <3>2, OneMoreLine
      <4>2. (n + 1) - 1 = n
        BY <1>3
      <4>. QED
        <5>1. x.out = Append(SubSeq(b.lines, 1, n), b.lines[n + 1])
          BY <1>4, <1>6, <2>2, <3>2
        <5>2. NewLines(s, k) = n + 1
          BY <1>3, <3>2
        <5>. QED
          BY <4>1, <4>2, <5>1, <5>2
    <3>. QED
      BY <3>1, <3>2
  <2>5. x \in Works
    <3>1. Append(w.out, t) \in Seq(Lines) /\ w.cursor + 1 \in Nat
      BY <1>4, <2>1
    <3>2. s[k] \in {"none", "same", "-", "+"}
      BY <1>4 DEF Kinds
    <3>. QED
      BY <1>13, <2>1, <3>1, <3>2 DEF Works
  <2>. QED
    BY <1>6, <2>2, <2>3, <2>4, <2>5
<1>15. Caught(a, b, s, k, 0, x)
  <2>1. OldLines(s, k) \in Nat /\ NewLines(s, k) \in Nat
    BY <1>3
  <2>2. /\ OldLines(s, k) - 0 = OldLines(s, k) /\ NewLines(s, k) - 0 = NewLines(s, k)
        /\ 0 <= OldLines(s, k) /\ 0 <= NewLines(s, k)
    BY <2>1
  <2>3. \A i \in 1..0 : FALSE
    OBVIOUS
  <2>. QED
    BY <1>6, <1>14, <2>2, <2>3 DEF Caught
<1>16. Within(a, b, s, shown, j, k, f, g)
  <2>1. j..k \subseteq shown /\ j <= k + 1
    <3>1. \A i \in j..k : i = k \/ i \in j..(k - 1)
      BY <1>1, <1>9
    <3>. QED
      BY <1>1, <1>5, <1>9, <3>1
  <2>. QED
    BY <1>1, <1>10, <1>15, <2>1 DEF Within, x
<1>. QED
  BY <1>10, <1>11, <1>14, <1>16 DEF x, w

\* Line k was read, and it may have a marker.
MayBeMarked(a, b, s, shown, j, k, f, h) ==
  /\ k \in shown /\ Within(a, b, s, shown, j, k, f, h) /\ h.closed = "no"
  /\ Midway(a, f, h).previous = s[k]
  /\ s[k] # "-" => b.ended = "no"

\* A marker read binds to the side of the line before it.
LEMMA MarkerRead ==
  ASSUME NEW a, NEW b, NEW s, NEW shown, Scripted(a, b, s, shown),
         NEW k, NEW j, NEW f, NEW h, MayBeMarked(a, b, s, shown, j, k, f, h)
  PROVE  \E g : /\ ParseLine(Append(f, h), <<"\\", Blank>>) = Append(f, g)
                /\ Within(a, b, s, shown, j, k, f, g)
                /\ Wanting(g) => g.closed = "no"
                /\ s[k] = "-" => Midway(a, f, g).unended = Midway(a, f, h).unended
                /\ s[k] # "-" => Midway(a, f, g).unended = "yes"
<1>. DEFINE w == Midway(a, f, h)
            line == <<"\\", Blank>>
            g == IF Wanting(h) THEN Taken(h, line) ELSE [Taken(h, line) EXCEPT !.closed = "yes"]
<1>0. /\ k \in shown /\ Within(a, b, s, shown, j, k, f, h) /\ h.closed = "no"
      /\ w.previous = s[k]
      /\ s[k] # "-" => b.ended = "no"
  BY DEF MayBeMarked
<1>1. s[k] \in Kinds
  <2>1. s \in [1..Len(s) -> Kinds]
    BY ScriptIs
  <2>. QED
    BY <1>0, <2>1 DEF Scripted
<1>2. /\ f \in Seq(Hunks) /\ h \in Hunks /\ Caught(a, b, s, k, 0, w)
  BY <1>0 DEF Within
<1>3. line \in HunkLines
  BY PatchingAssumption DEF HunkLines
<1>4. /\ g.header = h.header /\ g.lines = Append(h.lines, line) /\ g.old = h.old /\ g.new = h.new
      /\ g.closed = (IF Wanting(h) THEN "no" ELSE "yes") /\ g \in Hunks
  <2>1. Taken(h, line) = [h EXCEPT !.lines = Append(@, line), !.old = @, !.new = @]
    BY Zenon DEF Taken
  <2>2. h \in [header : Headers, lines : Seq(HunkLines), old : Nat, new : Nat,
               closed : {"yes", "no"}]
    BY <1>2 DEF Hunks
  <2>. HIDE DEF line
  <2>3. Append(h.lines, line) \in Seq(HunkLines)
    BY <1>3, <2>2
  <2>4. CASE Wanting(h)
    <3>1. g = [h EXCEPT !.lines = Append(@, line), !.old = @, !.new = @]
      BY <2>1, <2>4
    <3>. HIDE DEF g
    <3>. QED
      BY <1>0, <2>2, <2>3, <2>4, <3>1 DEF Hunks
  <2>5. CASE ~Wanting(h)
    <3>1. g = [[h EXCEPT !.lines = Append(@, line), !.old = @, !.new = @] EXCEPT !.closed = "yes"]
      BY <2>1, <2>5
    <3>. HIDE DEF g
    <3>. QED
      BY <2>2, <2>3, <2>5, <3>1 DEF Hunks
  <2>. QED
    BY <2>4, <2>5
<1>5. ParseLine(Append(f, h), line) = Append(f, g)
  <2>. DEFINE hunks == Append(f, h)
  <2>1. /\ hunks # <<>> /\ hunks[Len(hunks)] = h
        /\ [hunks EXCEPT ![Len(hunks)] = g] = Append(f, g)
    <3>. HIDE DEF g
    <3>. QED
      BY <1>2, <1>4, LastHunk
  <2>. HIDE DEF hunks
  <2>2. ParseLine(hunks, line) = [hunks EXCEPT ![Len(hunks)] = g]
    BY <1>0, <2>1 DEF ParseLine
  <2>. QED
    BY <2>1, <2>2 DEF hunks
<1>. HIDE DEF g
<1>6. Wanting(g) => g.closed = "no"
  BY <1>4 DEF Wanting
<1>. DEFINE x == Midway(a, f, g)
<1>7. x = ApplyLine(a.lines, w, line)
  <2>1. h.lines \in Seq(HunkLines)
    BY <1>2 DEF Hunks
  <2>. QED
    BY <1>3, <1>4, <2>1, LineMore DEF Midway
<1>. HIDE DEF w, x
<1>8. w \in Works /\ w.ok = "yes" /\ w.previous = s[k] /\ (w.unended = "yes" => b.ended = "no")
  BY <1>0, <1>2 DEF Caught, w
<1>9. x = [w EXCEPT !.unended = Unended(w)]
  BY <1>7, <1>8 DEF ApplyLine
<1>10. Unended(w) = IF s[k] = "-" THEN w.unended ELSE "yes"
  BY <1>1, <1>8 DEF Unended, Kinds
<1>11. /\ x \in Works /\ x.ok = w.ok /\ x.tail = w.tail /\ x.cursor = w.cursor /\ x.out = w.out
       /\ x.unended = IF s[k] = "-" THEN w.unended ELSE "yes"
  BY <1>8, <1>9, <1>10 DEF Works
<1>12. Caught(a, b, s, k, 0, x)
  BY <1>0, <1>2, <1>8, <1>11 DEF Caught
<1>13. Within(a, b, s, shown, j, k, f, g)
  BY <1>0, <1>4, <1>12 DEF Within, x
<1>. QED
  BY <1>5, <1>6, <1>11, <1>13 DEF x, w

\* What is printed of a line is that line, and the marker if it is unended.
LEMMA TwoMore ==
  ASSUME NEW S, NEW text \in Seq(S), NEW e \in S, NEW m \in S
  PROVE  /\ Append(text, e) \in Seq(S) /\ Append(Append(text, e), m) \in Seq(S)
         /\ text \o (<<e>> \o <<>>) = Append(text, e)
         /\ text \o (<<e>> \o <<m>>) = Append(Append(text, e), m)
<1>1. <<e>> \in Seq(S) /\ <<m>> \in Seq(S) /\ <<>> \in Seq(S)
  OBVIOUS
<1>2. Append(text, e) \in Seq(S) /\ Append(Append(text, e), m) \in Seq(S)
  OBVIOUS
<1>3. text \o <<e>> = Append(text, e) /\ Append(text, e) \o <<m>> = Append(Append(text, e), m)
  BY <1>2, AppendIsConcat
<1>4. <<e>> \o <<>> = <<e>>
  BY <1>1, ConcatEmptySeq
<1>5. (text \o <<e>>) \o <<m>> = text \o (<<e>> \o <<m>>)
  BY <1>1, ConcatAssociative
<1>. QED
  BY <1>2, <1>3, <1>4, <1>5

\* A deletion never follows the new side's unended last line unshown.
LEMMA NothingAfterTheEnd ==
  ASSUME NEW a, NEW b, NEW s, NEW shown, Scripted(a, b, s, shown), NEW k \in shown,
         k - 1 \notin shown, s[k] = "-", NewLines(s, k - 1) = Len(b.lines), b.ended = "no"
  PROVE  FALSE
<1>1. k \in 1..Len(s) /\ Len(s) \in Nat
  <2>1. Len(s) \in Nat /\ s \in [1..Len(s) -> Kinds]
    BY ScriptIs
  <2>. QED
    BY <2>1 DEF Scripted
<1>2. CASE k = 1
  <2>1. k - 1 = 0 /\ NewLines(s, 0) = 0
    BY <1>2, ScriptIs
  <2>2. b.lines \in Seq(Lines) /\ b.lines # <<>>
    BY TextIs DEF Scripted
  <2>. QED
    BY <2>1, <2>2
<1>3. CASE k # 1
  <2>1. k - 1 \in 1..Len(s) /\ k - 1 \in 0..Len(s) /\ k \in 0..Len(s)
    BY <1>1, <1>3
  <2>2. s[k - 1] = "same"
    <3>1. DOMAIN s = 1..Len(s)
      <4>1. s \in [1..Len(s) -> Kinds]
        BY ScriptIs
      <4>. QED
        BY <4>1
    <3>. QED
      BY <2>1, <3>1 DEF Scripted
  <2>3. OldLines(s, k - 1) = Len(a.lines)
    BY <2>1, <2>2, LineIs
  <2>4. /\ OldLines(s, k) = OldLines(s, k - 1) + 1
        /\ OldLines(s, k) \in 0..Len(a.lines)
    <3>1. \A i \in 1..Len(s) : s[i] # "+" => OldLines(s, i) = OldLines(s, i - 1) + 1
      BY ScriptIs
    <3>2. \A i \in 0..Len(s) : OldLines(s, i) \in 0..Len(a.lines)
      BY ScriptIs
    <3>. QED
      BY <1>1, <2>1, <3>1, <3>2
  <2>5. a.lines \in Seq(Lines)
    BY TextIs DEF Scripted
  <2>. QED
    BY <2>3, <2>4, <2>5
<1>. QED
  BY <1>2, <1>3

\* Line k is shown, and the hunk being read is where it goes.
Awaiting(a, b, s, shown, j, k, f, h) ==
  /\ k \in shown /\ j <= k /\ Within(a, b, s, shown, j, k - 1, f, h) /\ h.closed = "no"
  /\ k - 1 \in shown => Told(b, s, k - 1, Midway(a, f, h))

\* And that is as far as the text goes.
Ready(a, b, s, shown, j, k, f, h, text) ==
  /\ Awaiting(a, b, s, shown, j, k, f, h)
  /\ text \in Seq(PatchLines) /\ ParseHunks(text) = Append(f, h)

\* A line shown, as the patch has it, is that line applied, and where it is the
\* new side's unended last the work is told.
LEMMA PrintedRead ==
  ASSUME NEW a, NEW b, NEW s, NEW shown, Scripted(a, b, s, shown), NEW k,
         NEW trimmed \in {"yes", "no"},
         NEW j, NEW f, NEW h, NEW text, Ready(a, b, s, shown, j, k, f, h, text)
  PROVE  /\ text \o Printed(a, b, s, k, trimmed) \in Seq(PatchLines)
         /\ \E g : /\ ParseHunks(text \o Printed(a, b, s, k, trimmed)) = Append(f, g)
                   /\ Within(a, b, s, shown, j, k, f, g)
                   /\ Wanting(g) => g.closed = "no"
                   /\ Told(b, s, k, Midway(a, f, g))
<1>0. /\ k \in shown /\ j <= k /\ Within(a, b, s, shown, j, k - 1, f, h) /\ h.closed = "no"
      /\ k - 1 \in shown => Told(b, s, k - 1, Midway(a, f, h))
      /\ text \in Seq(PatchLines) /\ ParseHunks(text) = Append(f, h)
  BY DEF Awaiting, Ready
<1>1. k \in 1..Len(s) /\ Len(s) \in Nat /\ s[k] \in Kinds
  <2>1. Len(s) \in Nat /\ s \in [1..Len(s) -> Kinds]
    BY ScriptIs
  <2>. QED
    BY <1>0, <2>1 DEF Scripted
<1>. DEFINE whole == IF s[k] = "+" THEN Whole(b, NewLines(s, k)) ELSE Whole(a, OldLines(s, k))
            blank == s[k] = "same" /\ whole[1] = Blank /\ trimmed = "yes"
            kind == IF blank THEN "bare" ELSE s[k]
            t == IF s[k] = "+" THEN b.lines[NewLines(s, k)] ELSE a.lines[OldLines(s, k)]
            line == <<kind, t>>
            mark == <<"\\", Blank>>
<1>2. /\ whole[1] = t
      /\ whole[2] = "no" <=> IF s[k] = "+" THEN NewLines(s, k) = Len(b.lines) /\ b.ended = "no"
                             ELSE OldLines(s, k) = Len(a.lines) /\ a.ended = "no"
  <2>1. CASE s[k] = "+"
    BY <2>1 DEF Whole
  <2>2. CASE s[k] # "+"
    BY <2>2 DEF Whole
  <2>. QED
    BY <2>1, <2>2
<1>3. /\ s[k] = "+" => (whole[2] = "no" <=> NewLines(s, k) = Len(b.lines) /\ b.ended = "no")
      /\ s[k] = "same" => (whole[2] = "no" <=> NewLines(s, k) = Len(b.lines) /\ b.ended = "no")
  <2>1. s[k] = "same" => (NewLines(s, k) = Len(b.lines) /\ b.ended = "no"
                            <=> OldLines(s, k) = Len(a.lines) /\ a.ended = "no")
    BY <1>1, LineIs
  <2>. HIDE DEF whole
  <2>. QED
    BY <1>2, <2>1
<1>4. Printed(a, b, s, k, trimmed)
        = <<line>> \o (IF whole[2] = "no" THEN <<mark>> ELSE <<>>)
  <2>1. Printed(a, b, s, k, trimmed)
          = <<<<kind, whole[1]>>>> \o (IF whole[2] = "no" THEN <<mark>> ELSE <<>>)
    BY Zenon DEF Printed
  <2>. QED
    BY <1>2, <2>1, Zenon
<1>5. t \in Lines
  <2>1. /\ s[k] # "+" => a.lines[OldLines(s, k)] \in Lines
        /\ s[k] # "-" => b.lines[NewLines(s, k)] \in Lines
    BY <1>1, LineIs
  <2>. QED
    BY <2>1
<1>6. kind = s[k] \/ (kind = "bare" /\ s[k] = "same")
  OBVIOUS
<1>. HIDE DEF whole, blank
<1>7. line \in PatchLines /\ mark \in PatchLines
  <2>1. kind \in {"same", "-", "+", "bare", "\\"}
    BY <1>1, <1>6 DEF Kinds
  <2>. HIDE DEF kind, t
  <2>. QED
    BY <1>5, <2>1, PatchingAssumption DEF PatchLines
<1>. HIDE DEF kind
<1>8. PICK g : /\ ParseLine(Append(f, h), line) = Append(f, g)
               /\ Within(a, b, s, shown, j, k, f, g) /\ g.closed = "no"
               /\ Midway(a, f, g).previous = s[k]
               /\ Midway(a, f, g).unended = Midway(a, f, h).unended
  <2>1. /\ s[k] = "+" => t = b.lines[NewLines(s, k)]
        /\ s[k] # "+" => t = a.lines[OldLines(s, k)]
    OBVIOUS
  <2>. HIDE DEF t
  <2>. QED
    <3>1. Due(a, b, s, shown, j, k, f, h, kind, t)
      BY <1>0, <1>6, <2>1 DEF Due
    <3>. QED
      BY <3>1, LineRead DEF line
<1>. HIDE DEF t, line, mark
<1>9. /\ Append(text, line) \in Seq(PatchLines)
      /\ Append(Append(text, line), mark) \in Seq(PatchLines)
      /\ text \o (<<line>> \o <<>>) = Append(text, line)
      /\ text \o (<<line>> \o <<mark>>) = Append(Append(text, line), mark)
  BY <1>0, <1>7, TwoMore
<1>10. ParseHunks(Append(text, line)) = Append(f, g)
  BY <1>0, <1>7, <1>8, ParseMore
<1>11. ASSUME s[k] = "-", NewLines(s, k) = Len(b.lines), b.ended = "no"
       PROVE  Midway(a, f, g).unended = "yes"
  <2>1. NewLines(s, k - 1) = Len(b.lines)
    <3>1. \A i \in 1..Len(s) : s[i] = "-" => NewLines(s, i) = NewLines(s, i - 1)
      BY ScriptIs
    <3>. QED
      BY <1>1, <1>11, <3>1
  <2>2. k - 1 \in shown
    BY <1>0, <1>11, <2>1, NothingAfterTheEnd
  <2>. QED
    BY <1>0, <1>8, <1>11, <2>1, <2>2 DEF Told
<1>12. CASE whole[2] = "no"
  <2>1. text \o Printed(a, b, s, k, trimmed) = Append(Append(text, line), mark)
    BY <1>4, <1>9, <1>12
  <2>2. s[k] # "-" => b.ended = "no"
    BY <1>1, <1>3, <1>12 DEF Kinds
  <2>3. PICK x : /\ ParseLine(Append(f, g), mark) = Append(f, x)
                 /\ Within(a, b, s, shown, j, k, f, x)
                 /\ Wanting(x) => x.closed = "no"
                 /\ s[k] = "-" => Midway(a, f, x).unended = Midway(a, f, g).unended
                 /\ s[k] # "-" => Midway(a, f, x).unended = "yes"
    <3>1. MayBeMarked(a, b, s, shown, j, k, f, g)
      BY <1>0, <1>8, <2>2 DEF MayBeMarked
    <3>. QED
      BY <3>1, MarkerRead DEF mark
  <2>4. ParseHunks(Append(Append(text, line), mark)) = Append(f, x)
    BY <1>7, <1>9, <1>10, <2>3, ParseMore
  <2>5. Told(b, s, k, Midway(a, f, x))
    BY <1>11, <2>3 DEF Told
  <2>. QED
    BY <1>9, <2>1, <2>3, <2>4, <2>5
<1>13. CASE whole[2] # "no"
  <2>1. text \o Printed(a, b, s, k, trimmed) = Append(text, line)
    BY <1>4, <1>9, <1>13
  <2>2. Told(b, s, k, Midway(a, f, g))
    BY <1>1, <1>3, <1>11, <1>13 DEF Told, Kinds
  <2>. QED
    BY <1>8, <1>9, <1>10, <2>1, <2>2
<1>. QED
  BY <1>12, <1>13

\* At its end a hunk is complete, and the work reaches the note's end with it
\* or the next line is context.
LEMMA HunkDone ==
  ASSUME NEW a, NEW b, NEW s, NEW shown, Scripted(a, b, s, shown), NEW k \in shown,
         k + 1 \notin shown,
         NEW j, j <= k, NEW f, NEW h, Within(a, b, s, shown, j, k, f, h)
  PROVE  /\ Append(f, h) \in Seq(Hunks)
         /\ \A i \in DOMAIN Append(f, h) : Complete(Append(f, h)[i])
         /\ ApplyHunks(a.lines, Append(f, h)) =
              [Midway(a, f, h) EXCEPT
                 !.tail = IF OldLines(s, k) >= Len(a.lines) THEN "yes" ELSE "no"]
<1>1. /\ f \in Seq(Hunks) /\ h \in Hunks /\ \A i \in DOMAIN f : Complete(f[i])
      /\ j \in shown /\ j..k \subseteq shown
      /\ h.header = Header(s, shown, j)
      /\ h.old = OldLines(s, k) - OldLines(s, j - 1) /\ h.new = NewLines(s, k) - NewLines(s, j - 1)
      /\ ApplyHunks(a.lines, f).ok = "yes"
      /\ ApplyHunks(a.lines, f).cursor <= HunkStart(h.header)
      /\ HunkStart(h.header) <= Len(a.lines)
      /\ Caught(a, b, s, k, 0, Midway(a, f, h))
  BY DEF Within
<1>2. k \in 1..Len(s) /\ Len(s) \in Nat /\ shown \subseteq 1..Len(s)
  <2>1. Len(s) \in Nat /\ s \in [1..Len(s) -> Kinds]
    BY ScriptIs
  <2>. QED
    BY <2>1 DEF Scripted
<1>3. Complete(h)
  <2>1. PICK e \in shown :
          /\ j <= e /\ e + 1 \notin shown /\ j..e \subseteq shown
          /\ Header(s, shown, j).oldCount = OldLines(s, e) - OldLines(s, j - 1)
          /\ Header(s, shown, j).newCount = NewLines(s, e) - NewLines(s, j - 1)
    BY <1>1, HeaderIs
  <2>2. e = k
    <3>1. e \in 1..Len(s) /\ j \in 1..Len(s)
      BY <1>1, <1>2, <2>1
    <3>2. ASSUME e < k PROVE FALSE
      <4>1. e + 1 \in j..k
        BY <1>2, <2>1, <3>1, <3>2
      <4>. QED
        BY <1>1, <2>1, <4>1
    <3>3. ASSUME k < e PROVE FALSE
      <4>1. k + 1 \in j..e
        BY <1>2, <3>1, <3>3
      <4>. QED
        BY <2>1, <4>1
    <3>. QED
      BY <1>2, <3>1, <3>2, <3>3
  <2>. QED
    BY <1>1, <2>1, <2>2 DEF Complete
<1>4. /\ Append(f, h) \in Seq(Hunks) /\ \A i \in DOMAIN Append(f, h) : Complete(Append(f, h)[i])
  <2>1. /\ Append(f, h) \in Seq(Hunks) /\ Len(f) \in Nat /\ DOMAIN f = 1..Len(f)
        /\ Len(Append(f, h)) = Len(f) + 1 /\ Append(f, h)[Len(f) + 1] = h
        /\ \A i \in 1..Len(f) : Append(f, h)[i] = f[i]
    BY <1>1, AppendProperties
  <2>2. ASSUME NEW i \in DOMAIN Append(f, h) PROVE Complete(Append(f, h)[i])
    <3>1. i \in 1..(Len(f) + 1)
      BY <2>1
    <3>2. CASE i = Len(f) + 1
      BY <1>3, <2>1, <3>2
    <3>3. CASE i # Len(f) + 1
      <4>1. i \in 1..Len(f)
        BY <2>1, <3>1, <3>3
      <4>2. Append(f, h)[i] = f[i] /\ i \in DOMAIN f
        BY <2>1, <4>1
      <4>. QED
        BY <1>1, <4>2
    <3>. QED
      BY <3>2, <3>3
  <2>. QED
    BY <2>1, <2>2
<1>. DEFINE w == ApplyHunks(a.lines, f)
            x == Midway(a, f, h)
<1>5. ApplyHunks(a.lines, Append(f, h)) = ApplyHunk(a.lines, w, h)
  BY <1>1, HunkMore
<1>6. x = ApplyLines(a.lines, Begun(a.lines, w, HunkStart(h.header)), h.lines)
  BY DEF Midway
<1>7. HunkStart(h.header) \in Nat /\ w.cursor \in Int /\ Len(a.lines) \in Nat
  <2>1. h.header \in Headers
    BY <1>1 DEF Hunks
  <2>2. HunkStart(h.header) = OldLines(s, j - 1)
    BY <1>1, HeaderIs
  <2>3. j - 1 \in 0..Len(s)
    BY <1>1, <1>2
  <2>4. OldLines(s, j - 1) \in 0..Len(a.lines)
    BY <2>3, ScriptIs
  <2>5. w \in Works
    BY DEF Within
  <2>6. a.lines \in Seq(Lines)
    BY TextIs DEF Scripted
  <2>. QED
    BY <2>2, <2>4, <2>5, <2>6 DEF Works
<1>. HIDE DEF w, x
<1>8. /\ x \in Works /\ x.tail = "no" /\ x.cursor = OldLines(s, k)
  <2>1. OldLines(s, k) \in 0..Len(a.lines)
    BY <1>2, ScriptIs
  <2>2. OldLines(s, k) - 0 = OldLines(s, k)
    BY <1>7, <2>1
  <2>. QED
    BY <1>1, <2>2 DEF Caught, x
<1>9. ApplyHunk(a.lines, w, h)
        = [x EXCEPT !.tail = IF x.cursor >= Len(a.lines) THEN "yes" ELSE @]
  <2>1. ~(w.ok = "no" \/ HunkStart(h.header) < w.cursor \/ HunkStart(h.header) > Len(a.lines))
    BY <1>1, <1>7 DEF w
  <2>. QED
    BY <1>6, <2>1, Zenon DEF ApplyHunk
<1>10. [x EXCEPT !.tail = IF x.cursor >= Len(a.lines) THEN "yes" ELSE @]
         = [x EXCEPT !.tail = IF OldLines(s, k) >= Len(a.lines) THEN "yes" ELSE "no"]
  BY <1>8
<1>. QED
  BY <1>4, <1>5, <1>9, <1>10 DEF x

\* A line not shown is context the work has yet to copy.
LEMMA Passed ==
  ASSUME NEW a, NEW b, NEW s, NEW shown, Scripted(a, b, s, shown), NEW k \in 1..Len(s),
         k \notin shown, NEW hunks, Between(a, b, s, k - 1, hunks)
  PROVE  Between(a, b, s, k, hunks)
<1>. DEFINE w == ApplyHunks(a.lines, hunks)
            o == OldLines(s, k - 1)
            n == NewLines(s, k - 1)
<1>1. PICK gap : Caught(a, b, s, k - 1, gap, w)
  BY DEF Between
<1>2. s[k] = "same"
  <2>1. s \in [1..Len(s) -> Kinds]
    BY ScriptIs
  <2>. QED
    BY <2>1 DEF Scripted
<1>3. /\ OldLines(s, k) = o + 1 /\ NewLines(s, k) = n + 1
      /\ a.lines[OldLines(s, k)] = b.lines[NewLines(s, k)]
  <2>1. \A i \in 1..Len(s) : /\ s[i] # "+" => OldLines(s, i) = OldLines(s, i - 1) + 1
                             /\ s[i] # "-" => NewLines(s, i) = NewLines(s, i - 1) + 1
    BY ScriptIs
  <2>2. a.lines[OldLines(s, k)] = b.lines[NewLines(s, k)]
    BY <1>2, LineIs
  <2>. QED
    BY <1>2, <2>1, <2>2
<1>4. o \in Nat /\ n \in Nat
  <2>1. k - 1 \in 0..Len(s)
    BY ScriptIs
  <2>2. o \in 0..Len(a.lines) /\ n \in 0..Len(b.lines)
    BY <2>1, ScriptIs
  <2>3. a.lines \in Seq(Lines) /\ b.lines \in Seq(Lines)
    BY TextIs DEF Scripted
  <2>. QED
    BY <2>2, <2>3
<1>5. /\ w \in Works /\ w.ok = "yes" /\ w.tail = "no"
      /\ gap \in Nat /\ gap <= o /\ gap <= n
      /\ w.cursor = o - gap /\ w.out = SubSeq(b.lines, 1, n - gap)
      /\ \A i \in 1..gap : a.lines[w.cursor + i] = b.lines[n - gap + i]
      /\ w.unended = "yes" => b.ended = "no"
  BY <1>1 DEF Caught
<1>. HIDE DEF o, n, w
<1>6. /\ gap + 1 \in Nat /\ gap + 1 <= o + 1 /\ gap + 1 <= n + 1
      /\ (o + 1) - (gap + 1) = o - gap /\ (n + 1) - (gap + 1) = n - gap
  <2>1. gap \in Nat /\ gap <= o /\ gap <= n
    BY <1>5
  <2>. QED
    BY <1>4, <2>1
<1>7. ASSUME NEW i \in 1..(gap + 1)
      PROVE  a.lines[w.cursor + i] = b.lines[(n + 1) - (gap + 1) + i]
  <2>1. CASE i = gap + 1
    <3>1. w.cursor + i = o + 1 /\ (n + 1) - (gap + 1) + i = n + 1
      BY <1>4, <1>5, <2>1
    <3>. QED
      BY <1>3, <3>1
  <2>2. CASE i # gap + 1
    <3>1. i \in 1..gap
      BY <1>5, <2>2
    <3>. QED
      BY <1>5, <1>6, <3>1
  <2>. QED
    BY <2>1, <2>2
<1>8. Caught(a, b, s, k, gap + 1, w)
  BY <1>3, <1>5, <1>6, <1>7 DEF Caught
<1>. QED
  BY <1>8 DEF Between, w

\* A line of the script more, the reader is a line further.
LEMMA ReadOn ==
  ASSUME NEW a, NEW b, NEW s, NEW shown, Scripted(a, b, s, shown), NEW k \in 1..Len(s),
         NEW trimmed \in {"yes", "no"}, NEW text, Reading(a, b, s, shown, k - 1, text)
  PROVE  Reading(a, b, s, shown, k, Grown(text, a, b, s, shown, trimmed, k))
<1>1. /\ Len(s) \in Nat /\ (k - 1) + 1 = k /\ text \in Seq(PatchLines) /\ shown \subseteq 1..Len(s)
  <2>1. Len(s) \in Nat /\ s \in [1..Len(s) -> Kinds]
    BY ScriptIs
  <2>. QED
    BY <2>1 DEF Reading, Scripted
<1>. DEFINE more == Grown(text, a, b, s, shown, trimmed, k)
<1>2. CASE k \notin shown
  <2>1. more = text
    BY <1>2 DEF Grown
  <2>2. Between(a, b, s, k - 1, ParseHunks(text))
    <3>1. CASE k - 1 \notin shown
      BY <3>1 DEF Reading
    <3>2. CASE k - 1 \in shown
      <4>1. PICK f, h, j : /\ ParseHunks(text) = Append(f, h) /\ j <= k - 1
                           /\ Within(a, b, s, shown, j, k - 1, f, h)
        BY <3>2 DEF Reading
      <4>2. /\ Append(f, h) \in Seq(Hunks)
            /\ \A i \in DOMAIN Append(f, h) : Complete(Append(f, h)[i])
            /\ ApplyHunks(a.lines, Append(f, h)) =
                 [Midway(a, f, h) EXCEPT
                    !.tail = IF OldLines(s, k - 1) >= Len(a.lines) THEN "yes" ELSE "no"]
        <5>1. (k - 1) + 1 \notin shown
          BY <1>1, <1>2
        <5>. QED
          BY <3>2, <4>1, <5>1, HunkDone
      <4>3. ~(OldLines(s, k - 1) >= Len(a.lines))
        <5>1. s[k] = "same"
          <6>1. s \in [1..Len(s) -> Kinds]
            BY ScriptIs
          <6>. QED
            BY <1>2, <6>1 DEF Scripted
        <5>2. \A i \in 1..Len(s) : s[i] # "+" => OldLines(s, i) = OldLines(s, i - 1) + 1
          BY ScriptIs
        <5>3. \A i \in 0..Len(s) : OldLines(s, i) \in 0..Len(a.lines)
          BY ScriptIs
        <5>4. k \in 0..Len(s) /\ k - 1 \in 0..Len(s)
          BY <1>1
        <5>5. /\ OldLines(s, k) = OldLines(s, k - 1) + 1
              /\ OldLines(s, k) \in 0..Len(a.lines)
              /\ OldLines(s, k - 1) \in 0..Len(a.lines)
          BY <5>1, <5>2, <5>3, <5>4
        <5>6. Len(a.lines) \in Nat
          <6>1. a.lines \in Seq(Lines)
            BY TextIs DEF Scripted
          <6>. QED
            BY <6>1
        <5>. QED
          BY <5>5, <5>6
      <4>4. Caught(a, b, s, k - 1, 0, Midway(a, f, h))
        BY <4>1 DEF Within
      <4>5. ApplyHunks(a.lines, Append(f, h)) = Midway(a, f, h)
        <5>. DEFINE x == Midway(a, f, h)
        <5>1. x \in Works /\ x.tail = "no"
          BY <4>4 DEF Caught
        <5>2. ApplyHunks(a.lines, Append(f, h)) = [x EXCEPT !.tail = "no"]
          BY <4>2, <4>3
        <5>. HIDE DEF x
        <5>3. [x EXCEPT !.tail = "no"] = x
          BY <5>1 DEF Works
        <5>. QED
          BY <5>2, <5>3 DEF x
      <4>. QED
        BY <4>1, <4>2, <4>4, <4>5 DEF Between
    <3>. QED
      BY <3>1, <3>2
  <2>3. Between(a, b, s, k, ParseHunks(text))
    BY <1>2, <2>2, Passed
  <2>. QED
    BY <1>1, <1>2, <2>1, <2>3 DEF Reading
<1>3. CASE k \in shown
  <2>1. PICK f, h, j, before :
          /\ before \in Seq(PatchLines) /\ more = before \o Printed(a, b, s, k, trimmed)
          /\ ParseHunks(before) = Append(f, h) /\ Awaiting(a, b, s, shown, j, k, f, h)
    <3>1. CASE k - 1 \notin shown
      <4>. DEFINE line == <<"@@", Header(s, shown, k)>>
                  h == Hunk(Header(s, shown, k))
                  f == ParseHunks(text)
      <4>1. Between(a, b, s, k - 1, f)
        BY <3>1 DEF Reading
      <4>2. /\ ParseLine(f, line) = Append(f, h)
            /\ Within(a, b, s, shown, k, k - 1, f, h) /\ h.closed = "no"
        BY <1>3, <3>1, <4>1, HeaderRead
      <4>3. line \in PatchLines
        <5>1. Header(s, shown, k) \in Headers
          BY <1>3, HeaderIs
        <5>. QED
          BY <5>1 DEF PatchLines
      <4>4. more = (text \o <<line>>) \o Printed(a, b, s, k, trimmed)
        BY <1>3, <3>1 DEF Grown, Opening
      <4>. HIDE DEF line, h, f, more
      <4>5. text \o <<line>> = Append(text, line) /\ Append(text, line) \in Seq(PatchLines)
        BY <1>1, <4>3, AppendIsConcat
      <4>6. ParseHunks(Append(text, line)) = Append(f, h)
        BY <1>1, <4>2, <4>3, ParseMore DEF f
      <4>7. k <= k
        BY <1>1
      <4>. QED
        <5>1. Awaiting(a, b, s, shown, k, k, f, h)
          BY <1>3, <3>1, <4>2, <4>7 DEF Awaiting
        <5>. QED
          BY <4>4, <4>5, <4>6, <5>1
    <3>2. CASE k - 1 \in shown
      <4>1. PICK f, h, j : /\ ParseHunks(text) = Append(f, h) /\ j <= k - 1
                           /\ Within(a, b, s, shown, j, k - 1, f, h)
                           /\ Wanting(h) => h.closed = "no"
                           /\ Told(b, s, k - 1, Midway(a, f, h))
        BY <3>2 DEF Reading
      <4>2. j <= k
        <5>1. j \in 1..Len(s)
          BY <1>1, <4>1 DEF Within
        <5>. QED
          BY <1>1, <4>1, <5>1
      <4>3. h.closed = "no"
        BY <1>3, <4>1, <4>2, HunkWants
      <4>4. text \o <<>> = text
        BY <1>1, ConcatEmptySeq
      <4>5. more = text \o Printed(a, b, s, k, trimmed)
        BY <1>3, <3>2, <4>4 DEF Grown, Opening
      <4>. HIDE DEF more
      <4>. QED
        <5>1. Awaiting(a, b, s, shown, j, k, f, h)
          BY <1>3, <4>1, <4>2, <4>3 DEF Awaiting
        <5>. QED
          BY <1>1, <4>1, <4>5, <5>1
    <3>. QED
      BY <3>1, <3>2
  <2>. HIDE DEF more
  <2>2. /\ more \in Seq(PatchLines)
        /\ \E g : /\ ParseHunks(more) = Append(f, g)
                  /\ Within(a, b, s, shown, j, k, f, g)
                  /\ Wanting(g) => g.closed = "no"
                  /\ Told(b, s, k, Midway(a, f, g))
    <3>1. /\ before \o Printed(a, b, s, k, trimmed) \in Seq(PatchLines)
          /\ \E g : /\ ParseHunks(before \o Printed(a, b, s, k, trimmed)) = Append(f, g)
                    /\ Within(a, b, s, shown, j, k, f, g)
                    /\ Wanting(g) => g.closed = "no"
                    /\ Told(b, s, k, Midway(a, f, g))
      <4>1. Ready(a, b, s, shown, j, k, f, h, before)
        BY <2>1 DEF Ready
      <4>. QED
        BY <4>1, PrintedRead
    <3>. QED
      BY <2>1, <3>1
  <2>3. Reading(a, b, s, shown, k, more)
    BY <1>3, <2>1, <2>2 DEF Reading, Awaiting
  <2>. QED
    BY <2>3 DEF more
<1>. QED
  BY <1>2, <1>3

\* Before the first line nothing is read and nothing applied.
LEMMA ReadNothing ==
  ASSUME NEW a, NEW b, NEW s, NEW shown, Scripted(a, b, s, shown)
  PROVE  Reading(a, b, s, shown, 0, <<>>)
<1>1. 0 \notin shown
  <2>1. s \in [1..Len(s) -> Kinds]
    BY ScriptIs
  <2>. QED
    BY <2>1 DEF Scripted
<1>2. ParseHunks(<<>>) = <<>>
  BY ParseNone
<1>3. ApplyHunks(a.lines, <<>>) = NoWork
  BY HunkNone
<1>4. Caught(a, b, s, 0, 0, NoWork)
  <2>1. OldLines(s, 0) = 0 /\ NewLines(s, 0) = 0
    BY ScriptIs
  <2>2. SubSeq(b.lines, 1, 0) = <<>>
    <3>1. b.lines \in Seq(Lines)
      BY TextIs DEF Scripted
    <3>. QED
      BY <3>1
  <2>3. /\ NoWork \in Works /\ NoWork.ok = "yes" /\ NoWork.tail = "no" /\ NoWork.unended = "no"
        /\ NoWork.cursor = 0 /\ NoWork.out = <<>>
    BY DEF NoWork, Works
  <2>4. 0 - 0 = 0 /\ \A i \in 1..0 : FALSE
    OBVIOUS
  <2>. QED
    BY <2>1, <2>2, <2>3, <2>4 DEF Caught
<1>5. Between(a, b, s, 0, <<>>)
  <2>1. <<>> \in Seq(Hunks) /\ DOMAIN <<>> = {}
    OBVIOUS
  <2>. QED
    BY <1>3, <1>4, <2>1 DEF Between
<1>6. <<>> \in Seq(PatchLines)
  OBVIOUS
<1>. QED
  BY <1>1, <1>2, <1>5, <1>6 DEF Reading

\* The whole of a side copied is that side.
LEMMA WholeNote ==
  ASSUME NEW t \in Texts
  PROVE  /\ SubSeq(t.lines, 1, Len(t.lines)) = t.lines
         /\ FromLines(t.lines, t.ended) = t
<1>1. /\ t = Note(t.lines, t.ended) /\ t.lines \in Seq(Lines)
      /\ t.lines = <<>> => t = NoText
      /\ t.ended = "no" => t.lines # <<>> /\ t.lines[Len(t.lines)] # Blank
  BY TextIs
<1>2. SubSeq(t.lines, 1, Len(t.lines)) = t.lines
  BY <1>1, SubSeqFull
<1>3. FromLines(t.lines, t.ended) = t
  <2>1. ~(t.ended = "no" /\ t.lines[Len(t.lines)] = Blank)
    BY <1>1
  <2>. QED
    BY <1>1, <2>1, Zenon DEF FromLines
<1>. QED
  BY <1>2, <1>3

\* With the script read to its end the hunks are complete and make the new side.
LEMMA ReadAll ==
  ASSUME NEW a, NEW b, NEW s, NEW shown, Scripted(a, b, s, shown), NEW text,
         Reading(a, b, s, shown, Len(s), text)
  PROVE  /\ \A i \in DOMAIN ParseHunks(text) : Complete(ParseHunks(text)[i])
         /\ ApplyFileDiff(a, ParseHunks(text)) = b
<1>. DEFINE k == Len(s)
            hunks == ParseHunks(text)
            w == ApplyHunks(a.lines, hunks)
<1>1. /\ k \in Nat /\ OldLines(s, k) = Len(a.lines) /\ NewLines(s, k) = Len(b.lines)
      /\ shown \subseteq 1..k
  <2>1. Len(s) \in Nat /\ s \in [1..Len(s) -> Kinds]
    BY ScriptIs
  <2>2. OldLines(s, k) = Len(a.lines) /\ NewLines(s, k) = Len(b.lines)
    BY ScriptIs
  <2>. QED
    BY <2>1, <2>2 DEF Scripted
<1>2. /\ a \in Texts /\ b \in Texts /\ a.lines \in Seq(Lines) /\ b.lines \in Seq(Lines)
      /\ Len(a.lines) \in Nat /\ Len(b.lines) \in Nat
      /\ a.ended \in {"yes", "no"} /\ b.ended \in {"yes", "no"}
  <2>1. a \in Texts /\ b \in Texts
    BY DEF Scripted
  <2>2. /\ a.lines \in Seq(Lines) /\ b.lines \in Seq(Lines)
        /\ a.ended \in {"yes", "no"} /\ b.ended \in {"yes", "no"}
    BY <2>1, TextIs
  <2>. QED
    BY <2>1, <2>2
<1>3. SubSeq(b.lines, 1, Len(b.lines)) = b.lines /\ FromLines(b.lines, b.ended) = b
  BY <1>2, WholeNote
<1>4. CASE k \notin shown
  <2>1. Between(a, b, s, k, hunks)
    BY <1>4 DEF Reading
  <2>2. PICK gap : Caught(a, b, s, k, gap, w)
    BY <2>1 DEF Between
  <2>. DEFINE m == Len(a.lines)
              n == Len(b.lines)
  <2>3. /\ w.ok = "yes" /\ w.tail = "no" /\ gap \in Nat /\ gap <= m /\ gap <= n
        /\ w.cursor = m - gap /\ w.out = SubSeq(b.lines, 1, n - gap)
        /\ \A i \in 1..gap : a.lines[w.cursor + i] = b.lines[n - gap + i]
    BY <1>1, <2>2 DEF Caught
  <2>. HIDE DEF w
  <2>4. w.out \o SubSeq(a.lines, w.cursor + 1, m) = b.lines
    <3>1. \A i \in 1..gap : a.lines[m - gap + i] = b.lines[n - gap + i]
      BY <2>3
    <3>2. m \in 0..Len(a.lines) /\ n \in 0..Len(b.lines)
      BY <1>2
    <3>. HIDE DEF m, n
    <3>3. SubSeq(b.lines, 1, n - gap) \o SubSeq(a.lines, m - gap + 1, m) = SubSeq(b.lines, 1, n)
      BY <1>2, <2>3, <3>1, <3>2, CaughtUp
    <3>4. SubSeq(b.lines, 1, n) = b.lines
      BY <1>3 DEF n
    <3>. QED
      BY <2>3, <3>3, <3>4
  <2>5. a.ended = b.ended
    <3>1. CASE k = 0
      <4>1. Len(a.lines) = 0 /\ Len(b.lines) = 0
        BY <1>1, <3>1, ScriptIs
      <4>2. a.lines = <<>> /\ b.lines = <<>>
        BY <1>2, <4>1
      <4>3. a = NoText /\ b = NoText
        BY <1>2, <4>2, TextIs
      <4>. QED
        BY <4>3
    <3>2. CASE k # 0
      <4>1. k \in 1..Len(s)
        BY <1>1, <3>2
      <4>2. s[k] = "same"
        <5>1. s \in [1..Len(s) -> Kinds]
          BY ScriptIs
        <5>. QED
          BY <1>4, <4>1, <5>1 DEF Scripted
      <4>3. b.ended = "no" <=> a.ended = "no"
        <5>1. NewLines(s, k) = Len(b.lines) /\ b.ended = "no"
                <=> OldLines(s, k) = Len(a.lines) /\ a.ended = "no"
          BY <4>1, <4>2, LineIs
        <5>. QED
          BY <1>1, <5>1
      <4>. QED
        BY <1>2, <4>3
    <3>. QED
      BY <3>1, <3>2
  <2>6. ApplyFileDiff(a, hunks) = FromLines(b.lines, b.ended)
    <3>1. ApplyFileDiff(a, hunks) = FromLines(w.out \o SubSeq(a.lines, w.cursor + 1, m),
                                              IF a.ended = "no" THEN "no" ELSE "yes")
      BY <2>3 DEF ApplyFileDiff, w
    <3>2. (IF a.ended = "no" THEN "no" ELSE "yes") = b.ended
      BY <1>2, <2>5
    <3>. QED
      BY <2>4, <3>1, <3>2, Zenon
  <2>. QED
    BY <1>3, <2>1, <2>6 DEF Between
<1>5. CASE k \in shown
  <2>1. PICK f, h, j : /\ hunks = Append(f, h) /\ j <= k /\ Within(a, b, s, shown, j, k, f, h)
                       /\ Told(b, s, k, Midway(a, f, h))
    BY <1>5 DEF Reading
  <2>. DEFINE x == Midway(a, f, h)
  <2>2. /\ \A i \in DOMAIN hunks : Complete(hunks[i])
        /\ w = [x EXCEPT !.tail = IF OldLines(s, k) >= Len(a.lines) THEN "yes" ELSE "no"]
    <3>1. k + 1 \notin shown
      BY <1>1
    <3>2. /\ \A i \in DOMAIN Append(f, h) : Complete(Append(f, h)[i])
          /\ ApplyHunks(a.lines, Append(f, h)) =
               [Midway(a, f, h) EXCEPT
                  !.tail = IF OldLines(s, k) >= Len(a.lines) THEN "yes" ELSE "no"]
      <4>1. j <= k /\ Within(a, b, s, shown, j, k, f, h)
        BY <2>1
      <4>. HIDE DEF k, w, hunks, x
      <4>. QED
        BY <1>5, <3>1, <4>1, HunkDone, SMTT(60)
    <3>. QED
      BY <2>1, <3>2
  <2>3. Caught(a, b, s, k, 0, x) /\ Told(b, s, k, x)
    BY <2>1 DEF Within
  <2>. HIDE DEF x, w
  <2>4. /\ x \in Works /\ x.ok = "yes" /\ x.cursor = Len(a.lines) /\ x.out = b.lines
        /\ x.unended = "yes" <=> b.ended = "no"
    <3>1. /\ x \in Works /\ x.ok = "yes" /\ x.cursor = Len(a.lines) - 0
          /\ x.out = SubSeq(b.lines, 1, Len(b.lines) - 0)
          /\ x.unended = "yes" => b.ended = "no"
      BY <1>1, <2>3 DEF Caught
    <3>2. Len(a.lines) - 0 = Len(a.lines) /\ Len(b.lines) - 0 = Len(b.lines)
      BY <1>2
    <3>3. b.ended = "no" => x.unended = "yes"
      BY <1>1, <2>3 DEF Told
    <3>. QED
      BY <1>3, <3>1, <3>2, <3>3
  <2>5. /\ w.ok = "yes" /\ w.tail = "yes" /\ w.cursor = Len(a.lines) /\ w.out = b.lines
        /\ w.unended = x.unended
    <3>1. OldLines(s, k) >= Len(a.lines)
      BY <1>1, <1>2
    <3>2. w = [x EXCEPT !.tail = "yes"]
      BY <2>2, <3>1
    <3>. QED
      BY <2>4, <3>2 DEF Works
  <2>6. ApplyFileDiff(a, hunks) = FromLines(b.lines, b.ended)
    <3>1. ApplyFileDiff(a, hunks) = FromLines(w.out \o SubSeq(a.lines, w.cursor + 1, Len(a.lines)),
                                              IF w.unended = "yes" THEN "no" ELSE "yes")
      BY <2>5 DEF ApplyFileDiff, w
    <3>2. (IF w.unended = "yes" THEN "no" ELSE "yes") = b.ended
      BY <1>2, <2>4, <2>5
    <3>3. SubSeq(a.lines, Len(a.lines) + 1, Len(a.lines)) = <<>>
      BY <1>2
    <3>4. b.lines \o <<>> = b.lines
      BY <1>2, ConcatEmptySeq
    <3>. QED
      BY <2>5, <3>1, <3>2, <3>3, <3>4, Zenon
  <2>. QED
    BY <1>3, <2>2, <2>6
<1>. QED
  BY <1>4, <1>5

-----------------------------------------------------------------------------
(* The patch of any script.                                                *)

\* A patch git made of two versions of a note makes the one of the other.
LEMMA DiffRebuilds ==
  ASSUME NEW a \in Texts, NEW b \in Texts, NEW s \in Scripts(a, b), NEW context \in Nat,
         NEW trimmed \in {"yes", "no"}, NEW hunks,
         hunks = ParseHunks(Diff(a, b, s, context, trimmed))
  PROVE  /\ \A i \in DOMAIN hunks : Complete(hunks[i])
         /\ ApplyFileDiff(a, hunks) = b
<1>. DEFINE shown == Shown(s, context)
<1>1. Scripted(a, b, s, shown)
  <2>1. \A k \in DOMAIN s : k \in Nat
    <3>1. a.lines \in Seq(Lines) /\ b.lines \in Seq(Lines)
      BY TextIs
    <3>2. PICK n \in 0..(Len(a.lines) + Len(b.lines)) : s \in [1..n -> Kinds]
      BY DEF Scripts
    <3>. QED
      BY <3>1, <3>2
  <2>2. \A k \in DOMAIN s : k \in (k - context)..(k + context)
    BY <2>1
  <2>. QED
    BY <2>2 DEF Scripted, Shown
<1>. HIDE DEF shown
<1>2. Len(s) \in Nat
  BY <1>1, ScriptIs
<1>3. PICK f : /\ f[0] = <<>>
               /\ \A i \in 1..Len(s) : f[i] = Grown(f[i - 1], a, b, s, shown, trimmed, i)
               /\ f[Len(s)] = Diff(a, b, s, context, trimmed)
  BY <1>2, DiffSteps DEF shown
<1>. DEFINE Done == {i \in 0..Len(s) : Reading(a, b, s, shown, i, f[i])}
<1>4. 0 \in Done
  BY <1>1, <1>2, <1>3, ReadNothing
<1>5. ASSUME NEW i \in 0..Len(s), i # Len(s), i \in Done PROVE i + 1 \in Done
  <2>1. i + 1 \in 1..Len(s) /\ i + 1 \in 0..Len(s) /\ (i + 1) - 1 = i
    BY <1>2, <1>5
  <2>2. Reading(a, b, s, shown, (i + 1) - 1, f[i])
    BY <1>5, <2>1
  <2>3. Reading(a, b, s, shown, i + 1, Grown(f[i], a, b, s, shown, trimmed, i + 1))
    <3>. DEFINE k == i + 1
    <3>1. k \in 1..Len(s) /\ Reading(a, b, s, shown, k - 1, f[i])
      BY <2>1, <2>2
    <3>. HIDE DEF k
    <3>2. Reading(a, b, s, shown, k, Grown(f[i], a, b, s, shown, trimmed, k))
      BY <1>1, <3>1, ReadOn
    <3>. QED
      BY <3>2 DEF k
  <2>4. f[i + 1] = Grown(f[i], a, b, s, shown, trimmed, i + 1)
    BY <1>3, <2>1
  <2>. QED
    BY <2>1, <2>3, <2>4
<1>6. Reading(a, b, s, shown, Len(s), Diff(a, b, s, context, trimmed))
  <2>1. \A i \in 0..Len(s) : i \in Done
    <3>. HIDE DEF Done
    <3>. QED
      BY <1>2, <1>4, <1>5, Ladder, Zenon
  <2>2. Len(s) \in Done
    BY <1>2, <2>1
  <2>. QED
    BY <1>3, <2>2
<1>. QED
  BY <1>1, <1>6, ReadAll

\* The two notes are notes, the patch is one of the one to the other, and what
\* it made of the one, if anything yet, is the other.
PatchInv ==
  /\ old \in Texts /\ new \in Texts
  /\ patch # <<>> => \E s \in Scripts(old, new), context \in Contexts, trimmed \in {"yes", "no"} :
                        patch = Diff(old, new, s, context, trimmed)
  /\ PatchRebuildsTheNote

\* A patch git made of two versions of a note, applied to the one, gives the
\* other to the last byte: for notes of any lines, whatever script git chose and
\* however much context it left, whether or not either note ends in a newline,
\* and with its blank lines trimmed or not (parse_patch, apply_file_diff).
THEOREM PatchRebuilds == PatchSpec => []PatchRebuildsTheNote
<1>1. PatchInit => PatchInv
  BY DEF PatchInit, PatchInv, PatchRebuildsTheNote
<1>2. PatchInv /\ [PatchNext]_patchVars => PatchInv'
  <2>. SUFFICES ASSUME PatchInv, [PatchNext]_patchVars PROVE PatchInv'
    OBVIOUS
  <2>1. CASE Produce
    BY <2>1 DEF PatchInv, PatchRebuildsTheNote, Produce
  <2>2. CASE ApplyPatch
    <3>1. PICK s \in Scripts(old, new), context \in Contexts, trimmed \in {"yes", "no"} :
            patch = Diff(old, new, s, context, trimmed)
      BY <2>2 DEF PatchInv, ApplyPatch
    <3>. DEFINE hunks == ParseHunks(patch)
    <3>2. (\A i \in DOMAIN hunks : Complete(hunks[i])) /\ ApplyFileDiff(old, hunks) = new
      <4>1. context \in Nat
        BY PatchingAssumption
      <4>2. hunks = ParseHunks(Diff(old, new, s, context, trimmed))
        BY <3>1
      <4>. HIDE DEF hunks
      <4>. QED
        BY <4>1, <4>2, DiffRebuilds DEF PatchInv
    <3>3. result' = IF \A i \in DOMAIN hunks : Complete(hunks[i])
                    THEN ApplyFileDiff(old, hunks) ELSE Refused
      BY <2>2 DEF ApplyPatch
    <3>. HIDE DEF hunks
    <3>. QED
      BY <2>2, <3>2, <3>3 DEF ApplyPatch, PatchInv, PatchRebuildsTheNote
  <2>3. CASE UNCHANGED patchVars
    BY <2>3 DEF PatchInv, PatchRebuildsTheNote, patchVars
  <2>. QED
    BY <2>1, <2>2, <2>3 DEF PatchNext
<1>3. PatchInv => PatchRebuildsTheNote
  BY DEF PatchInv
<1>. QED
  BY <1>1, <1>2, <1>3, PTL DEF PatchSpec

=============================================================================
