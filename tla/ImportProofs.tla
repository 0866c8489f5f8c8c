------------------------------ MODULE ImportProofs ------------------------------
(***************************************************************************)
(* Proofs about the batch producer, for any paths, contents and HEAD, any  *)
(* sizes of patches and any number of runs, failures and restagings: its   *)
(* types, that its packing is the best there is, and what the processor    *)
(* makes of the stream while a staging stands.                             *)
(***************************************************************************)
EXTENDS BatchProducer, SequenceTheorems, FiniteSetTheorems, TLAPS

-----------------------------------------------------------------------------
(* The invariants.                                                         *)

Staged == StagedDiff(index, Paths)

\* What a run has at each step.
RunKnows ==
  /\ step \in {"idle", "list"} => entries = {} /\ units = <<>>
  /\ step \in {"diff", "hash"} => entries # {}
  /\ step = "hash" => units # <<>>
  /\ \A d \in entries : DiffPaths(d) # {} /\ DiffPaths(d) \subseteq Paths
  /\ \A i \in DOMAIN units : i # Len(units) \/ step # "hash" => units[i].targets # {}
  /\ chunks = <<>> \/ step \in {"connect", "publish"}
  /\ step \in {"connect", "publish"} =>
       /\ chunks = BuildChunks(units) /\ ~Invalid(chunks)
       /\ \A i \in DOMAIN units : UnitBytes(units[i]) <= MaxBytes
  /\ run = 0 => /\ step = "idle" /\ exit = "none" /\ stream = <<>>
                /\ vault = Base /\ blocked = {}

Chunks == [batch : Nat, index : Nat, count : Nat,
           patch : Seq(Patches), targets : SUBSET TargetRecords]

ProducerInv == ImportTypeOK /\ RunKnows /\ stream \in Seq(Chunks)

\* The changes in the order of their paths, and the units a run makes of them.
Ascending(e) == \A i, j \in DOMAIN e : i < j => At(e[i]) < At(e[j])
Lists(e, diffs) == e \in Seq(diffs) /\ Ascending(e) /\ diffs = {e[i] : i \in DOMAIN e}
Listing(diffs) == CHOOSE e : Lists(e, diffs)
UnitFor(d) == [patch |-> {d}, targets |-> TargetsFor(d)]
UnitsFor(e) == [i \in DOMAIN e |-> UnitFor(e[i])]

Groups(diffs) == PackUnits(UnitsFor(Listing(diffs)))

\* A chunk of a batch of these changes, whichever its run.
IsPart(chunk, diffs) ==
  /\ Lists(Listing(diffs), diffs)
  /\ \A d \in diffs : UnitBytes(UnitFor(d)) <= MaxBytes
  /\ chunk.index \in DOMAIN Groups(diffs)
  /\ chunk.patch = [k \in DOMAIN Groups(diffs)[chunk.index] |-> Groups(diffs)[chunk.index][k].patch]
  /\ chunk.targets = UNION {unit.targets : unit \in Range(Groups(diffs)[chunk.index])}

\* How far a run is through the changes: e has been read.
HasRead(e, diffs, left) ==
  /\ e \in Seq(diffs) /\ Ascending(e)
  /\ diffs = {e[i] : i \in DOMAIN e} \cup left
  /\ \A i \in DOMAIN e : \A d \in left : At(e[i]) < At(d)

Halfway(diffs) ==
  /\ step \in {"diff", "hash"} => entries \subseteq diffs
  /\ step \in {"diff", "pack", "connect", "publish"} =>
       \E e \in Seq(diffs) : HasRead(e, diffs, entries) /\ units = UnitsFor(e)
  /\ step = "hash" =>
       \E e \in Seq(diffs) :
         /\ HasRead(e, diffs, entries)
         /\ units = Append(UnitsFor(e), [patch |-> {Foremost(entries)}, targets |-> {}])
  /\ step \in {"pack", "connect", "publish"} => entries = {}

\* What the stream has of these changes: what the run says it sent and, after
\* a zero exit, all of them, in chunks of the run; and of a first run nothing
\* else, in order.
StreamHas(diffs) ==
  /\ \A i \in DOMAIN stream : IsPart(stream[i], diffs)
  /\ \A k \in 1..sent : \E i \in DOMAIN stream : stream[i].index = k /\ stream[i].batch = run
  /\ exit = "ok" => \A d \in diffs : \E i \in DOMAIN stream :
                      d \in ChunkDiffs(stream[i]) /\ stream[i].batch = run
  /\ run <= 1 => /\ \A i \in DOMAIN stream : stream[i].index = i
                 /\ step = "idle" \/ Len(stream) = sent

\* While the staging stands, runs and stream are of it.
StagingStands == steady = "yes" => Halfway(Staged) /\ StreamHas(Staged)

\* The vault in which some changes to a tree have been made.
Vault(tree, done) ==
  [p \in Paths |-> IF \E d \in done : p \in DiffPaths(d) THEN tree[p] ELSE Base[p]]

\* Each chunk of these changes is done or is not.
ByParts(diffs, done) ==
  \A c : IsPart(c, diffs) => ChunkDiffs(c) \subseteq done \/ ChunkDiffs(c) \cap done = {}

IsBarred(chunk) == \E d \in ChunkDiffs(chunk) : Barred(d)

\* What the processor has made of the chunks it has taken, some changes being
\* done: a chunk is done, parked or held back, and parked only for a change
\* that is barred or when done.  In a first run without a failure what is done
\* is what it took, and none of that was parked.
HasDrained(diffs, done) ==
  /\ done \subseteq diffs /\ ByParts(diffs, done) /\ vault = Vault(index, done)
  /\ \A i \in 1..taken : i \in parked \cup waiting \/ ChunkDiffs(stream[i]) \subseteq done
  /\ \A i \in parked : IsBarred(stream[i]) \/ ChunkDiffs(stream[i]) \subseteq done
  /\ \A i \in waiting : HeldBack(i)
  /\ \A b \in blocked : \E j \in parked : stream[j].batch = b[1] /\ b[2] \in Creates(stream[j])
  /\ run <= 1 /\ faults = MaxFaults =>
       /\ \A d \in done : \E i \in 1..taken : d \in ChunkDiffs(stream[i])
       /\ \A i \in parked : IsBarred(stream[i])

DrainStands == steady = "yes" => \E done : HasDrained(Staged, done)

-----------------------------------------------------------------------------
(* Numbers.                                                                *)

\* A set of numbers has a least.
LEMMA LeastNumber ==
  ASSUME NEW s \in SUBSET Nat, s # {}
  PROVE  \E n \in s : \A m \in s : n <= m
<1>1. \E n \in s : \A m \in s : <<m, n>> \notin OpToRel(<, Nat)
  BY NatLessThanWellFounded, WFMin, Zenon
<1>2. \E n \in s : \A m \in s : ~(m < n)
  BY <1>1, Zenon DEF OpToRel
<1>. QED
  BY <1>2

\* So what holds of 0, and of each number up to n after the one before it,
\* holds of them all.
LEMMA Ladder ==
  ASSUME NEW n \in Nat, NEW S, 0 \in S,
         \A i \in 0..n : i # n /\ i \in S => i + 1 \in S
  PROVE  \A i \in 0..n : i \in S
<1>. DEFINE T == {i \in 0..n : i \notin S}
<1>. SUFFICES ASSUME T # {} PROVE FALSE
  OBVIOUS
<1>1. PICK m \in T : \A k \in T : m <= k
  <2>. T \in SUBSET Nat
    OBVIOUS
  <2>. HIDE DEF T
  <2>. QED
    BY LeastNumber
<1>2. m \in 1..n
  BY <1>1
<1>3. m - 1 \in 0..n /\ m - 1 # n /\ m - 1 \notin T
  BY <1>1, <1>2
<1>4. (m - 1) + 1 \in S /\ (m - 1) + 1 = m
  BY <1>2, <1>3
<1>. QED
  BY <1>1, <1>4

-----------------------------------------------------------------------------
(* The recursive functions, step by step.                                  *)

\* The bytes of a list's first units add up one by one.
LEMMA RunningSteps ==
  ASSUME NEW list, Len(list) \in Nat
  PROVE  \E f : /\ f[0] = 0
                /\ \A i \in 1..Len(list) : f[i] = f[i - 1] + UnitBytes(list[i])
                /\ f = RunningBytes(list)
<1>. DEFINE Step(g, i) == IF i = 0 THEN 0 ELSE g[i - 1] + UnitBytes(list[i])
            S == {n \in 0..Len(list) : \E g : g = [i \in 0..n |-> Step(g, i)]}
<1>1. 0 \in S
  <2>. DEFINE g == [i \in 0..0 |-> 0]
  <2>1. g = [i \in 0..0 |-> Step(g, i)]
    OBVIOUS
  <2>. HIDE DEF g
  <2>. QED
    BY <2>1
<1>2. ASSUME NEW n \in 0..Len(list), n # Len(list), n \in S
      PROVE  n + 1 \in S
  <2>1. PICK g : g = [i \in 0..n |-> Step(g, i)]
    BY <1>2
  <2>. DEFINE h == [i \in 0..(n + 1) |-> IF i = n + 1 THEN Step(g, i) ELSE g[i]]
  <2>2. ASSUME NEW i \in 0..(n + 1) PROVE h[i] = Step(h, i)
    <3>1. CASE i = 0
      BY <2>1, <3>1
    <3>2. CASE i # 0
      <4>1. i - 1 \in 0..n /\ h[i - 1] = g[i - 1]
        BY <3>2
      <4>2. h[i] = Step(g, i)
        <5>1. CASE i = n + 1
          BY <5>1
        <5>2. CASE i # n + 1
          <6>1. i \in 0..n /\ h[i] = g[i]
            BY <5>2
          <6>. HIDE DEF h, Step
          <6>. QED
            BY <2>1, <6>1
        <5>. QED
          BY <5>1, <5>2
      <4>. QED
        BY <3>2, <4>1, <4>2
    <3>. QED
      BY <3>1, <3>2
  <2>3. h = [i \in 0..(n + 1) |-> Step(h, i)]
    <3>1. DOMAIN h = 0..(n + 1)
      OBVIOUS
    <3>2. h = [i \in 0..(n + 1) |-> h[i]]
      BY <3>1
    <3>. HIDE DEF h
    <3>. QED
      BY <2>2, <3>2
  <2>. HIDE DEF h, Step
  <2>. QED
    BY <2>3
<1>3. Len(list) \in S
  <2>. HIDE DEF S
  <2>1. \A i \in 0..Len(list) : i # Len(list) /\ i \in S => i + 1 \in S
    BY <1>2
  <2>2. \A i \in 0..Len(list) : i \in S
    BY <1>1, <2>1, Ladder, Zenon
  <2>. QED
    BY <2>2
<1>. DEFINE f == CHOOSE g : g = [i \in 0..Len(list) |-> Step(g, i)]
<1>4. f = [i \in 0..Len(list) |-> Step(f, i)]
  BY <1>3, Zenon
<1>5. f = RunningBytes(list)
  BY DEF RunningBytes
<1>. HIDE DEF f
<1>6. \A i \in 0..Len(list) : f[i] = Step(f, i)
  <2>. HIDE DEF Step
  <2>. QED
    BY <1>4
<1>7. f[0] = 0
  BY <1>6
<1>8. ASSUME NEW i \in 1..Len(list)
      PROVE  f[i] = f[i - 1] + UnitBytes(list[i])
  BY <1>6
<1>. QED
  BY <1>5, <1>7, <1>8

\* Units are packed one by one.
LEMMA PackSteps ==
  ASSUME NEW list, Len(list) \in Nat
  PROVE  \E f : /\ f[0] = <<>>
                /\ \A i \in 1..Len(list) : f[i] = Placed(f[i - 1], list[i])
                /\ f[Len(list)] = PackUnits(list)
<1>. DEFINE Step(g, i) == IF i = 0 THEN <<>> ELSE Placed(g[i - 1], list[i])
            S == {n \in 0..Len(list) : \E g : g = [i \in 0..n |-> Step(g, i)]}
<1>1. 0 \in S
  <2>. DEFINE g == [i \in 0..0 |-> <<>>]
  <2>1. g = [i \in 0..0 |-> Step(g, i)]
    OBVIOUS
  <2>. HIDE DEF g
  <2>. QED
    BY <2>1
<1>2. ASSUME NEW n \in 0..Len(list), n # Len(list), n \in S
      PROVE  n + 1 \in S
  <2>1. PICK g : g = [i \in 0..n |-> Step(g, i)]
    BY <1>2
  <2>. DEFINE h == [i \in 0..(n + 1) |-> IF i = n + 1 THEN Step(g, i) ELSE g[i]]
  <2>2. ASSUME NEW i \in 0..(n + 1) PROVE h[i] = Step(h, i)
    <3>1. CASE i = 0
      BY <2>1, <3>1
    <3>2. CASE i # 0
      <4>1. i - 1 \in 0..n /\ h[i - 1] = g[i - 1]
        BY <3>2
      <4>2. h[i] = Step(g, i)
        <5>1. CASE i = n + 1
          BY <5>1
        <5>2. CASE i # n + 1
          <6>1. i \in 0..n /\ h[i] = g[i]
            BY <5>2
          <6>. HIDE DEF h, Step
          <6>. QED
            BY <2>1, <6>1
        <5>. QED
          BY <5>1, <5>2
      <4>. QED
        BY <3>2, <4>1, <4>2
    <3>. QED
      BY <3>1, <3>2
  <2>3. h = [i \in 0..(n + 1) |-> Step(h, i)]
    <3>1. DOMAIN h = 0..(n + 1)
      OBVIOUS
    <3>2. h = [i \in 0..(n + 1) |-> h[i]]
      BY <3>1
    <3>. HIDE DEF h
    <3>. QED
      BY <2>2, <3>2
  <2>. HIDE DEF h, Step
  <2>. QED
    BY <2>3
<1>3. Len(list) \in S
  <2>. HIDE DEF S
  <2>1. \A i \in 0..Len(list) : i # Len(list) /\ i \in S => i + 1 \in S
    BY <1>2
  <2>2. \A i \in 0..Len(list) : i \in S
    BY <1>1, <2>1, Ladder, Zenon
  <2>. QED
    BY <2>2
<1>. DEFINE f == CHOOSE g : g = [i \in 0..Len(list) |-> Step(g, i)]
<1>4. f = [i \in 0..Len(list) |-> Step(f, i)]
  BY <1>3, Zenon
<1>5. f[Len(list)] = PackUnits(list)
  BY DEF PackUnits
<1>. HIDE DEF f
<1>6. \A i \in 0..Len(list) : f[i] = Step(f, i)
  <2>. HIDE DEF Step
  <2>. QED
    BY <1>4
<1>7. f[0] = <<>>
  BY <1>6
<1>8. ASSUME NEW i \in 1..Len(list)
      PROVE  f[i] = Placed(f[i - 1], list[i])
  BY <1>6
<1>. QED
  BY <1>5, <1>7, <1>8

-----------------------------------------------------------------------------
(* Packing.                                                                *)

Units == [patch : Patches, targets : SUBSET TargetRecords]
Slice(list, a, b) == [k \in 1..(b - a) |-> list[a + k]]

\* Sizes are numbers and add up.
LEMMA BytesAdd ==
  ASSUME NEW list \in Seq(Units)
  PROVE  /\ Len(list) \in Nat /\ RunningBytes(list)[0] = 0
         /\ \A i \in 1..Len(list) :
              /\ UnitBytes(list[i]) \in Nat
              /\ RunningBytes(list)[i] = RunningBytes(list)[i - 1] + UnitBytes(list[i])
         /\ \A i \in 0..Len(list) : RunningBytes(list)[i] \in Nat
<1>. DEFINE n == Len(list)
            f == RunningBytes(list)
            S == {i \in 0..n : f[i] \in Nat}
<1>1. n \in Nat /\ \A i \in 1..n : UnitBytes(list[i]) \in Nat
  <2>1. ASSUME NEW i \in 1..Len(list) PROVE list[i].patch \in Patches
    <3>1. list[i] \in Units
      OBVIOUS
    <3>. QED
      BY <3>1 DEF Units
  <2>2. Len(list) \in Nat
    OBVIOUS
  <2>. QED
    BY <2>1, <2>2, BatchProducerAssumption DEF UnitBytes
<1>2. f[0] = 0 /\ \A i \in 1..n : f[i] = f[i - 1] + UnitBytes(list[i])
  <2>1. \E g : /\ g[0] = 0
               /\ \A i \in 1..Len(list) : g[i] = g[i - 1] + UnitBytes(list[i])
               /\ g = RunningBytes(list)
    BY <1>1, RunningSteps
  <2>. QED
    BY <2>1, Zenon
<1>. HIDE DEF f, n
<1>3. \A i \in 0..n : i \in S
  <2>1. ASSUME NEW i \in 0..n, i # n, i \in S PROVE i + 1 \in S
    <3>1. i + 1 \in 1..n /\ (i + 1) - 1 = i
      BY <1>1, <2>1
    <3>2. f[i + 1] = f[i] + UnitBytes(list[i + 1])
      BY <1>2, <3>1
    <3>. QED
      BY <1>1, <2>1, <3>1, <3>2
  <2>2. 0 \in S
    BY <1>1, <1>2
  <2>. HIDE DEF S
  <2>. QED
    BY <1>1, <2>1, <2>2, Ladder, Zenon
<1>. QED
  BY <1>1, <1>2, <1>3 DEF f, n

\* So more units are no fewer bytes.
LEMMA BytesGrow ==
  ASSUME NEW list \in Seq(Units), NEW i \in 0..Len(list), NEW j \in 0..Len(list), i <= j
  PROVE  RunningBytes(list)[i] <= RunningBytes(list)[j]
<1>. DEFINE f == RunningBytes(list)
            S == {k \in 0..(j - i) : f[i] <= f[i + k]}
<1>1. /\ Len(list) \in Nat /\ j - i \in Nat /\ i + (j - i) = j
      /\ \A k \in 0..Len(list) : f[k] \in Nat
      /\ \A k \in 1..Len(list) : UnitBytes(list[k]) \in Nat /\ f[k] = f[k - 1] + UnitBytes(list[k])
  BY BytesAdd
<1>. HIDE DEF f
<1>2. 0 \in S
  BY <1>1
<1>3. ASSUME NEW k \in 0..(j - i), k # j - i, k \in S PROVE k + 1 \in S
  <2>1. i + (k + 1) \in 1..Len(list) /\ (i + (k + 1)) - 1 = i + k /\ i + k \in 0..Len(list)
    BY <1>1, <1>3
  <2>2. f[i + (k + 1)] = f[i + k] + UnitBytes(list[i + (k + 1)])
    BY <1>1, <2>1
  <2>3. f[i] <= f[i + k]
    BY <1>3
  <2>4. f[i] \in Nat /\ f[i + k] \in Nat /\ UnitBytes(list[i + (k + 1)]) \in Nat
    BY <1>1, <2>1
  <2>5. k + 1 \in 0..(j - i)
    BY <1>1, <1>3
  <2>. QED
    BY <2>2, <2>3, <2>4, <2>5
<1>4. \A k \in 0..(j - i) : k \in S
  <2>. HIDE DEF S
  <2>. QED
    BY <1>1, <1>2, <1>3, Ladder, Zenon
<1>5. j - i \in S
  <2>1. j - i \in 0..(j - i)
    BY <1>1
  <2>. HIDE DEF S
  <2>. QED
    BY <1>4, <2>1
<1>. QED
  BY <1>1, <1>5 DEF f

\* The bytes of part of a list.
LEMMA SliceBytes ==
  ASSUME NEW list \in Seq(Units), NEW a \in 0..Len(list), NEW b \in 0..Len(list), a <= b
  PROVE  /\ Slice(list, a, b) \in Seq(Units) /\ Len(Slice(list, a, b)) = b - a
         /\ GroupBytes(Slice(list, a, b)) = RunningBytes(list)[b] - RunningBytes(list)[a]
<1>. DEFINE s == Slice(list, a, b)
            f == RunningBytes(list)
            g == RunningBytes(s)
            S == {k \in 0..(b - a) : g[k] = f[a + k] - f[a]}
<1>1. /\ Len(list) \in Nat /\ b - a \in Nat /\ a + (b - a) = b /\ a + 0 = a
      /\ \A k \in 0..Len(list) : f[k] \in Nat
      /\ \A k \in 1..Len(list) : UnitBytes(list[k]) \in Nat /\ f[k] = f[k - 1] + UnitBytes(list[k])
  BY BytesAdd
<1>2. /\ s \in Seq(Units) /\ Len(s) = b - a
      /\ \A k \in 1..(b - a) : a + k \in 1..Len(list) /\ s[k] = list[a + k]
  BY <1>1 DEF Slice
<1>. HIDE DEF s
<1>3. /\ g[0] = 0
      /\ \A k \in 1..(b - a) : g[k] = g[k - 1] + UnitBytes(s[k])
  BY <1>2, BytesAdd
<1>4. GroupBytes(s) = g[b - a]
  BY <1>2 DEF GroupBytes
<1>. HIDE DEF f, g
<1>5. 0 \in S
  BY <1>1, <1>3
<1>6. ASSUME NEW k \in 0..(b - a), k # b - a, k \in S PROVE k + 1 \in S
  <2>1. /\ k + 1 \in 1..(b - a) /\ (k + 1) - 1 = k
        /\ a + (k + 1) \in 1..Len(list) /\ (a + (k + 1)) - 1 = a + k /\ a + k \in 0..Len(list)
    BY <1>1, <1>6
  <2>2. g[k + 1] = g[k] + UnitBytes(s[k + 1]) /\ s[k + 1] = list[a + (k + 1)]
    BY <1>2, <1>3, <2>1
  <2>3. f[a + (k + 1)] = f[a + k] + UnitBytes(list[a + (k + 1)])
    BY <1>1, <2>1
  <2>4. f[a] \in Nat /\ f[a + k] \in Nat /\ UnitBytes(list[a + (k + 1)]) \in Nat
    BY <1>1, <2>1
  <2>5. g[k] = f[a + k] - f[a] /\ k + 1 \in 0..(b - a)
    BY <1>1, <1>6
  <2>. QED
    BY <2>2, <2>3, <2>4, <2>5
<1>7. \A k \in 0..(b - a) : k \in S
  <2>. HIDE DEF S
  <2>. QED
    BY <1>1, <1>5, <1>6, Ladder, Zenon
<1>8. b - a \in S
  <2>1. b - a \in 0..(b - a)
    BY <1>1
  <2>. HIDE DEF S
  <2>. QED
    BY <1>7, <2>1
<1>. QED
  BY <1>1, <1>2, <1>4, <1>8 DEF f, s

\* Where the groups end among the first n units of a list: each is a slice
\* within the budget, which the next unit would have burst.
CutAt(list, n, groups, c) ==
  /\ groups \in Seq(Seq(Units))
  /\ c \in [0..Len(groups) -> 0..n] /\ c[0] = 0 /\ c[Len(groups)] = n
  /\ \A i \in 1..Len(groups) :
       /\ c[i - 1] < c[i] /\ groups[i] = Slice(list, c[i - 1], c[i])
       /\ RunningBytes(list)[c[i]] - RunningBytes(list)[c[i - 1]] <= MaxBytes
  /\ \A i \in 1..Len(groups) :
       i # Len(groups) =>
         RunningBytes(list)[c[i] + 1] - RunningBytes(list)[c[i - 1]] > MaxBytes

\* A slice grows by the list's next unit.
LEMMA SliceGrows ==
  ASSUME NEW list \in Seq(Units), NEW a \in 0..Len(list), NEW b \in 0..Len(list), a <= b, b # Len(list)
  PROVE  /\ Append(Slice(list, a, b), list[b + 1]) = Slice(list, a, b + 1)
         /\ <<list[b + 1]>> = Slice(list, b, b + 1)
<1>1. Len(list) \in Nat /\ b + 1 \in 0..Len(list) /\ a <= b + 1 /\ b <= b + 1
  OBVIOUS
<1>2. /\ Slice(list, a, b) \in Seq(Units) /\ Len(Slice(list, a, b)) = b - a
      /\ Slice(list, a, b + 1) \in Seq(Units) /\ Len(Slice(list, a, b + 1)) = (b + 1) - a
      /\ Slice(list, b, b + 1) \in Seq(Units) /\ Len(Slice(list, b, b + 1)) = (b + 1) - b
  BY <1>1, SliceBytes
<1>3. /\ \A k \in 1..(b - a) : Slice(list, a, b)[k] = list[a + k]
      /\ \A k \in 1..((b + 1) - a) : Slice(list, a, b + 1)[k] = list[a + k]
      /\ \A k \in 1..((b + 1) - b) : Slice(list, b, b + 1)[k] = list[b + k]
  BY DEF Slice
<1>4. list[b + 1] \in Units
  BY <1>1
<1>5. Append(Slice(list, a, b), list[b + 1]) = Slice(list, a, b + 1)
  BY <1>1, <1>2, <1>3, <1>4
<1>6. <<list[b + 1]>> = Slice(list, b, b + 1)
  BY <1>1, <1>2, <1>3, <1>4
<1>. QED
  BY <1>5, <1>6

\* Placing one more unit keeps the groups slices within the budget, each
\* closed only by a unit that would have burst it.
LEMMA CutGrows ==
  ASSUME NEW list \in Seq(Units), NEW n \in 0..Len(list), n # Len(list),
         UnitBytes(list[n + 1]) <= MaxBytes,
         NEW groups, NEW c, CutAt(list, n, groups, c)
  PROVE  \E d : CutAt(list, n + 1, Placed(groups, list[n + 1]), d)
<1>. DEFINE u == list[n + 1]
            m == Len(groups)
            f == RunningBytes(list)
<1>1. /\ Len(list) \in Nat /\ n + 1 \in 1..Len(list) /\ (n + 1) - 1 = n
      /\ u \in Units /\ m \in Nat /\ groups \in Seq(Seq(Units)) /\ MaxBytes \in Nat
  BY BatchProducerAssumption DEF CutAt
<1>2. /\ \A k \in 0..Len(list) : f[k] \in Nat
      /\ UnitBytes(u) \in Nat /\ f[n + 1] = f[n] + UnitBytes(u)
  BY <1>1, BytesAdd
<1>3. /\ c \in [0..m -> 0..n] /\ c[0] = 0 /\ c[m] = n
      /\ \A i \in 1..m :
           /\ c[i - 1] < c[i] /\ groups[i] = Slice(list, c[i - 1], c[i])
           /\ f[c[i]] - f[c[i - 1]] <= MaxBytes
           /\ i # m => f[c[i] + 1] - f[c[i - 1]] > MaxBytes
  BY DEF CutAt
<1>. HIDE DEF f, u, m
<1>4. CASE groups # <<>> /\ Fits(groups[m], u)
  <2>. DEFINE d == [k \in 0..m |-> IF k = m THEN n + 1 ELSE c[k]]
              g == Append(groups[m], u)
              new == [groups EXCEPT ![m] = g]
  <2>1. Placed(groups, u) = new
    BY <1>4 DEF Placed, m
  <2>2. m \in 1..m /\ m - 1 \in 0..m /\ m - 1 # m /\ c[m - 1] \in 0..Len(list) /\ c[m - 1] < n
    <3>1. m # 0
      BY <1>1, <1>4 DEF m
    <3>2. m \in 1..m /\ m - 1 \in 0..m /\ m - 1 # m
      BY <1>1, <3>1
    <3>. QED
      BY <1>1, <1>3, <3>2
  <2>3. g = Slice(list, c[m - 1], n + 1) /\ g \in Seq(Units)
    <3>1. groups[m] = Slice(list, c[m - 1], n)
      BY <1>3, <2>2
    <3>2. g = Slice(list, c[m - 1], n + 1)
      BY <1>1, <2>2, <3>1, SliceGrows DEF u
    <3>3. n + 1 \in 0..Len(list) /\ c[m - 1] <= n + 1
      BY <1>1, <2>2
    <3>4. Slice(list, c[m - 1], n + 1) \in Seq(Units)
      BY <2>2, <3>3, SliceBytes
    <3>. QED
      BY <3>2, <3>4
  <2>4. new \in Seq(Seq(Units)) /\ Len(new) = m /\ new[m] = g
        /\ \A i \in 1..m : i # m => new[i] = groups[i]
    <3>. HIDE DEF g
    <3>. QED
      BY <1>1, <2>2, <2>3 DEF m
  <2>5. f[n + 1] - f[c[m - 1]] <= MaxBytes
    <3>1. GroupBytes(groups[m]) = f[n] - f[c[m - 1]]
      <4>1. groups[m] = Slice(list, c[m - 1], n) /\ c[m - 1] <= n
        BY <1>3, <2>2
      <4>. QED
        BY <1>1, <2>2, <4>1, SliceBytes DEF f
    <3>2. GroupBytes(groups[m]) + UnitBytes(u) <= MaxBytes
      BY <1>4 DEF Fits
    <3>3. f[n] \in Nat /\ f[c[m - 1]] \in Nat
      BY <1>1, <1>2, <2>2
    <3>. QED
      BY <1>2, <3>1, <3>2, <3>3
  <2>6. d \in [0..m -> 0..(n + 1)] /\ d[0] = 0 /\ d[m] = n + 1
        /\ \A i \in 0..m : i # m => d[i] = c[i]
    BY <1>1, <1>3, <2>2
  <2>. HIDE DEF d, g, new
  <2>7. ASSUME NEW i \in 1..m
        PROVE  /\ d[i - 1] < d[i] /\ new[i] = Slice(list, d[i - 1], d[i])
               /\ f[d[i]] - f[d[i - 1]] <= MaxBytes
               /\ i # m => f[d[i] + 1] - f[d[i - 1]] > MaxBytes
    <3>1. i - 1 \in 0..m /\ i - 1 # m /\ i \in 0..m /\ d[i - 1] = c[i - 1]
      BY <1>1, <2>6
    <3>2. CASE i = m
      <4>1. d[i] = n + 1 /\ c[i - 1] < n + 1 /\ new[i] = g
        BY <1>1, <2>2, <2>4, <2>6, <3>2
      <4>. QED
        BY <2>3, <2>5, <3>1, <3>2, <4>1
    <3>3. CASE i # m
      <4>1. d[i] = c[i] /\ new[i] = groups[i]
        BY <2>4, <2>6, <3>1, <3>3
      <4>. QED
        BY <1>3, <3>1, <4>1
    <3>. QED
      BY <3>2, <3>3
  <2>8. CutAt(list, n + 1, new, d)
    BY <2>4, <2>6, <2>7 DEF CutAt, f
  <2>. QED
    BY <2>1, <2>8 DEF u
<1>5. CASE ~(groups # <<>> /\ Fits(groups[m], u))
  <2>. DEFINE d == [k \in 0..(m + 1) |-> IF k = m + 1 THEN n + 1 ELSE c[k]]
              new == Append(groups, <<u>>)
  <2>1. Placed(groups, u) = new
    BY <1>5 DEF Placed, m
  <2>2. <<u>> = Slice(list, n, n + 1) /\ <<u>> \in Seq(Units)
    BY <1>1, SliceGrows DEF u
  <2>3. new \in Seq(Seq(Units)) /\ Len(new) = m + 1 /\ new[m + 1] = <<u>>
        /\ \A i \in 1..m : new[i] = groups[i]
    BY <1>1, <2>2 DEF m
  <2>4. d \in [0..(m + 1) -> 0..(n + 1)] /\ d[0] = 0 /\ d[m + 1] = n + 1
        /\ \A i \in 0..m : d[i] = c[i]
    BY <1>1, <1>3
  <2>5. m # 0 => f[n + 1] - f[c[m - 1]] > MaxBytes
    <3>. SUFFICES ASSUME m # 0 PROVE f[n + 1] - f[c[m - 1]] > MaxBytes
      OBVIOUS
    <3>1. m \in 1..m /\ m - 1 \in 0..m /\ groups # <<>>
      BY <1>1 DEF m
    <3>2. groups[m] = Slice(list, c[m - 1], n) /\ c[m - 1] < n /\ c[m - 1] \in 0..Len(list)
      BY <1>1, <1>3, <3>1
    <3>3. GroupBytes(groups[m]) = f[n] - f[c[m - 1]]
      <4>1. c[m - 1] <= n
        BY <1>1, <3>2
      <4>. QED
        BY <3>2, <4>1, SliceBytes DEF f
    <3>4. ~(GroupBytes(groups[m]) + UnitBytes(u) <= MaxBytes)
      BY <1>5, <3>1 DEF Fits
    <3>5. f[n] \in Nat /\ f[c[m - 1]] \in Nat
      BY <1>1, <1>2, <3>2
    <3>. QED
      BY <1>1, <1>2, <3>3, <3>4, <3>5, SMTT(60)
  <2>6. f[n + 1] - f[n] <= MaxBytes
    BY <1>1, <1>2 DEF u
  <2>. HIDE DEF d, new
  <2>7. ASSUME NEW i \in 1..(m + 1)
        PROVE  /\ d[i - 1] < d[i] /\ new[i] = Slice(list, d[i - 1], d[i])
               /\ f[d[i]] - f[d[i - 1]] <= MaxBytes
               /\ i # m + 1 => f[d[i] + 1] - f[d[i - 1]] > MaxBytes
    <3>1. i - 1 \in 0..m /\ d[i - 1] = c[i - 1]
      BY <1>1, <2>4
    <3>2. CASE i = m + 1
      <4>1. i - 1 = m /\ d[i - 1] = n /\ d[i] = n + 1 /\ new[i] = <<u>> /\ n < n + 1
        BY <1>1, <1>3, <2>3, <2>4, <3>1, <3>2
      <4>. QED
        BY <2>2, <2>6, <3>2, <4>1
    <3>3. CASE i # m + 1
      <4>1. i \in 1..m /\ i \in 0..m
        BY <1>1, <3>3
      <4>2. d[i] = c[i] /\ new[i] = groups[i]
        BY <2>3, <2>4, <4>1
      <4>3. f[d[i] + 1] - f[d[i - 1]] > MaxBytes
        <5>1. CASE i = m
          <6>1. m # 0 /\ d[i] = n
            BY <1>1, <1>3, <4>1, <4>2, <5>1
          <6>. QED
            BY <2>5, <3>1, <5>1, <6>1
        <5>2. CASE i # m
          BY <1>3, <3>1, <4>1, <4>2, <5>2
        <5>. QED
          BY <5>1, <5>2
      <4>. QED
        BY <1>3, <3>1, <4>1, <4>2, <4>3
    <3>. QED
      BY <3>2, <3>3
  <2>8. CutAt(list, n + 1, new, d)
    BY <2>3, <2>4, <2>7 DEF CutAt, f
  <2>. QED
    BY <2>1, <2>8 DEF u
<1>. QED
  BY <1>4, <1>5

\* So packing cuts the list.
LEMMA PackingCuts ==
  ASSUME NEW list \in Seq(Units), \A i \in 1..Len(list) : UnitBytes(list[i]) <= MaxBytes
  PROVE  \E c : CutAt(list, Len(list), PackUnits(list), c)
<1>0. Len(list) \in Nat
  OBVIOUS
<1>1. PICK f : /\ f[0] = <<>>
               /\ \A i \in 1..Len(list) : f[i] = Placed(f[i - 1], list[i])
               /\ f[Len(list)] = PackUnits(list)
  BY <1>0, PackSteps
<1>. DEFINE S == {i \in 0..Len(list) : \E c : CutAt(list, i, f[i], c)}
<1>2. 0 \in S
  <2>. DEFINE c == [i \in 0..0 |-> 0]
  <2>1. CutAt(list, 0, <<>>, c)
    <3>1. <<>> \in Seq(Seq(Units)) /\ Len(<<>>) = 0 /\ 1..0 = {}
      OBVIOUS
    <3>2. c \in [0..0 -> 0..0] /\ c[0] = 0
      OBVIOUS
    <3>. HIDE DEF c
    <3>. QED
      BY <3>1, <3>2 DEF CutAt
  <2>. HIDE DEF c
  <2>. QED
    BY <1>0, <1>1, <2>1
<1>3. ASSUME NEW i \in 0..Len(list), i # Len(list), i \in S PROVE i + 1 \in S
  <2>1. PICK c : CutAt(list, i, f[i], c)
    BY <1>3
  <2>2. i + 1 \in 1..Len(list) /\ i + 1 \in 0..Len(list) /\ (i + 1) - 1 = i
    BY <1>0, <1>3
  <2>3. \E d : CutAt(list, i + 1, Placed(f[i], list[i + 1]), d)
    BY <1>3, <2>1, <2>2, CutGrows
  <2>4. f[i + 1] = Placed(f[i], list[i + 1])
    BY <1>1, <2>2
  <2>. QED
    BY <2>2, <2>3, <2>4
<1>4. \A i \in 0..Len(list) : i \in S
  <2>. HIDE DEF S
  <2>. QED
    BY <1>0, <1>2, <1>3, Ladder, Zenon
<1>5. Len(list) \in S
  <2>1. Len(list) \in 0..Len(list)
    BY <1>0
  <2>. HIDE DEF S
  <2>. QED
    BY <1>4, <2>1
<1>. QED
  BY <1>1, <1>5

\* No cut of the list into runs within the budget has fewer: up to each of its
\* runs, the groups have gone as far at least.
LEMMA PackingIsBest ==
  ASSUME NEW list \in Seq(Units), NEW groups, NEW g, CutAt(list, Len(list), groups, g),
         NEW n \in Nat, NEW c \in [0..n -> 0..Len(list)], c[0] = 0, c[n] = Len(list),
         \A i \in 1..n : RunningBytes(list)[c[i]] - RunningBytes(list)[c[i - 1]] <= MaxBytes
  PROVE  Len(groups) <= n
<1>. DEFINE m == Len(groups)
            f == RunningBytes(list)
            S == {k \in 0..n : k <= m => c[k] <= g[k]}
<1>1. /\ Len(list) \in Nat /\ m \in Nat /\ MaxBytes \in Nat
      /\ \A k \in 0..Len(list) : f[k] \in Nat
      /\ \A i, j \in 0..Len(list) : i <= j => f[i] <= f[j]
  <2>1. Len(list) \in Nat /\ MaxBytes \in Nat
    BY BatchProducerAssumption
  <2>2. m \in Nat
    <3>1. groups \in Seq(Seq(Units))
      BY DEF CutAt
    <3>. QED
      BY <3>1
  <2>3. \A k \in 0..Len(list) : f[k] \in Nat
    BY BytesAdd
  <2>4. \A i, j \in 0..Len(list) : i <= j => f[i] <= f[j]
    BY BytesGrow
  <2>. QED
    BY <2>1, <2>2, <2>3, <2>4
<1>2. /\ g \in [0..m -> 0..Len(list)] /\ g[0] = 0 /\ g[m] = Len(list)
      /\ \A i \in 1..m : /\ g[i - 1] < g[i]
                         /\ i # m => f[g[i] + 1] - f[g[i - 1]] > MaxBytes
  BY DEF CutAt
<1>. HIDE DEF f, m
<1>3. 0 \in S
  BY <1>2
<1>4. ASSUME NEW k \in 0..n, k # n, k \in S PROVE k + 1 \in S
  <2>. SUFFICES ASSUME k + 1 <= m, ~(c[k + 1] <= g[k + 1]) PROVE FALSE
    BY <1>4
  <2>1. /\ k + 1 \in 1..n /\ k + 1 \in 1..m /\ (k + 1) - 1 = k
        /\ k \in 0..n /\ k \in 0..m /\ k + 1 \in 0..n /\ k + 1 \in 0..m
    BY <1>1, <1>4
  <2>2. c[k] <= g[k]
    BY <1>1, <1>4
  <2>3. /\ c[k] \in 0..Len(list) /\ c[k + 1] \in 0..Len(list)
        /\ g[k] \in 0..Len(list) /\ g[k + 1] \in 0..Len(list)
    BY <1>2, <2>1
  <2>4. k + 1 # m
    BY <1>1, <1>2, <2>3
  <2>5. f[g[k + 1] + 1] - f[g[k]] > MaxBytes
    BY <1>2, <2>1, <2>4
  <2>6. g[k + 1] + 1 \in 0..Len(list) /\ g[k + 1] + 1 <= c[k + 1]
    BY <1>1, <2>3
  <2>7. f[g[k + 1] + 1] <= f[c[k + 1]] /\ f[c[k]] <= f[g[k]]
    BY <1>1, <2>2, <2>3, <2>6
  <2>8. f[c[k + 1]] - f[c[k]] <= MaxBytes
    BY <2>1 DEF f
  <2>9. /\ f[g[k + 1] + 1] \in Nat /\ f[c[k + 1]] \in Nat
        /\ f[c[k]] \in Nat /\ f[g[k]] \in Nat /\ MaxBytes \in Nat
    BY <1>1, <2>3, <2>6
  <2>. QED
    BY <2>5, <2>7, <2>8, <2>9
<1>5. n \in S
  <2>. HIDE DEF S
  <2>1. \A k \in 0..n : k \in S
    BY <1>3, <1>4, Ladder, Zenon
  <2>. QED
    BY <2>1
<1>6. ASSUME n < m PROVE FALSE
  <2>1. Len(list) <= g[n]
    BY <1>1, <1>5, <1>6
  <2>2. n \in 0..m /\ n + 1 \in 1..m /\ n + 1 \in 0..m /\ (n + 1) - 1 = n
    BY <1>1, <1>6
  <2>3. g[n] < g[n + 1] /\ g[n + 1] \in 0..Len(list) /\ g[n] \in 0..Len(list)
    BY <1>2, <2>2
  <2>. QED
    BY <1>1, <2>1, <2>3
<1>. QED
  BY <1>1, <1>6 DEF m

-----------------------------------------------------------------------------
(* What git lists.                                                         *)

Move(tree, p, q) == [old |-> p, new |-> q, from |-> Base[p], to |-> tree[q]]
Edit(tree, p) == [old |-> IF Base[p] = Absent THEN Absent ELSE p,
                  new |-> IF tree[p] = Absent THEN Absent ELSE p,
                  from |-> Base[p], to |-> tree[p]]

\* A file that went, and one that came and is like it.
Moved(tree, paths, p, q) ==
  /\ p \in paths /\ q \in paths
  /\ Base[p] # Absent /\ tree[p] = Absent /\ Base[q] = Absent /\ tree[q] # Absent
  /\ Kin[Base[p]] = Kin[tree[q]]

Pairing(tree, paths, m) ==
  /\ m \subseteq paths \X paths
  /\ \A r \in m : Moved(tree, paths, r[1], r[2])
  /\ \A r, s \in m : r[1] = s[1] <=> r[2] = s[2]

\* Among sets of a finite set's members one is largest.
LEMMA LargestSet ==
  ASSUME NEW A, IsFiniteSet(A), NEW P \in SUBSET SUBSET A, P # {}
  PROVE  \E m \in P : \A o \in P : Cardinality(o) <= Cardinality(m)
<1>. DEFINE N == Cardinality(A)
            S == {N - Cardinality(m) : m \in P}
<1>1. N \in Nat /\ \A m \in P : Cardinality(m) \in Nat /\ Cardinality(m) <= N
  BY FS_Subset, FS_CardinalityType
<1>2. PICK n \in S : \A k \in S : n <= k
  <2>1. S \in SUBSET Nat /\ S # {}
    BY <1>1
  <2>. HIDE DEF S
  <2>. QED
    BY <2>1, LeastNumber
<1>3. PICK m \in P : n = N - Cardinality(m)
  BY <1>2
<1>4. ASSUME NEW o \in P PROVE Cardinality(o) <= Cardinality(m)
  <2>1. N - Cardinality(o) \in S
    OBVIOUS
  <2>2. N - Cardinality(m) <= N - Cardinality(o)
    BY <1>2, <1>3, <2>1
  <2>. QED
    BY <1>1, <2>2
<1>. QED
  BY <1>4

\* Git's renames pair what went with what came, and no pairing is larger.
LEMMA RenamesPair ==
  ASSUME NEW tree \in Trees, NEW paths \in SUBSET Paths
  PROVE  /\ Pairing(tree, paths, Renames(tree, paths))
         /\ \A o : Pairing(tree, paths, o) => Cardinality(o) <= Cardinality(Renames(tree, paths))
<1>. DEFINE gone == {p \in paths : Base[p] # Absent /\ tree[p] = Absent}
            come == {p \in paths : Base[p] = Absent /\ tree[p] # Absent}
            P == {m \in SUBSET (gone \X come) :
                    /\ \A p \in m : Kin[Base[p[1]]] = Kin[tree[p[2]]]
                    /\ \A p, q \in m : p[1] = q[1] <=> p[2] = q[2]}
<1>1. \A m : m \in P <=> Pairing(tree, paths, m)
  BY DEF Pairing, Moved
<1>2. Renames(tree, paths) = CHOOSE m \in P : \A o \in P : Cardinality(o) <= Cardinality(m)
  BY DEF Renames
<1>3. \E m \in P : \A o \in P : Cardinality(o) <= Cardinality(m)
  <2>1. {} \in P /\ P \in SUBSET SUBSET (paths \X paths)
    OBVIOUS
  <2>2. IsFiniteSet(paths \X paths)
    BY FS_Subset, FS_Product, BatchProducerAssumption
  <2>. HIDE DEF P
  <2>. QED
    BY <2>1, <2>2, LargestSet
<1>. HIDE DEF P
<1>. QED
  BY <1>1, <1>2, <1>3

\* The changes listed: the pairs renamed, and the other paths that changed.
LEMMA DiffIs ==
  ASSUME NEW tree, NEW paths
  PROVE  StagedDiff(tree, paths) =
           {Move(tree, r[1], r[2]) : r \in Renames(tree, paths)}
             \cup {Edit(tree, p) : p \in {p \in paths : Base[p] # tree[p]}
                                          \ UNION {{r[1], r[2]} : r \in Renames(tree, paths)}}
BY DEF StagedDiff, Move, Edit

\* What is at the paths of each.
LEMMA MoveIs ==
  ASSUME NEW tree \in Trees, NEW paths \in SUBSET Paths, NEW p, NEW q, Moved(tree, paths, p, q)
  PROVE  /\ Move(tree, p, q) \in Diffs /\ p # q /\ p \in Paths /\ q \in Paths
         /\ DiffPaths(Move(tree, p, q)) = {p, q} /\ At(Move(tree, p, q)) = q
         /\ Base[p] # tree[p] /\ Base[q] # tree[q]
         /\ p # Absent /\ q # Absent
<1>1. /\ p \in Paths /\ q \in Paths /\ p # q /\ p # Absent /\ q # Absent
      /\ Base[p] # tree[p] /\ Base[q] # tree[q] /\ Base[p] # Absent /\ tree[q] # Absent
  BY BatchProducerAssumption DEF Moved
<1>2. Base[p] \in Contents \cup {Absent} /\ tree[q] \in Contents \cup {Absent}
  BY <1>1, BatchProducerAssumption DEF Trees
<1>3. Move(tree, p, q) \in Diffs
  BY <1>1, <1>2 DEF Move, Diffs
<1>4. DiffPaths(Move(tree, p, q)) = {p, q} /\ At(Move(tree, p, q)) = q
  BY <1>1 DEF Move, DiffPaths, At
<1>. QED
  BY <1>1, <1>3, <1>4

\* What the diff of a path changed in place, added or deleted is.
LEMMA EditIs ==
  ASSUME NEW tree \in Trees, NEW p \in Paths, Base[p] # tree[p]
  PROVE  /\ Edit(tree, p) \in Diffs
         /\ DiffPaths(Edit(tree, p)) = {p} /\ At(Edit(tree, p)) = p
         /\ p # Absent
<1>1. p # Absent /\ Base[p] \in Contents \cup {Absent} /\ tree[p] \in Contents \cup {Absent}
  BY BatchProducerAssumption DEF Trees
<1>2. Edit(tree, p) \in Diffs
  BY <1>1 DEF Edit, Diffs
<1>3. DiffPaths(Edit(tree, p)) = {p} /\ At(Edit(tree, p)) = p
  BY <1>1 DEF Edit, DiffPaths, At
<1>. QED
  BY <1>1, <1>2, <1>3

\* Every change listed is one or the other.
LEMMA DiffShape ==
  ASSUME NEW tree \in Trees, NEW paths \in SUBSET Paths, NEW d \in StagedDiff(tree, paths)
  PROVE  \/ \E r \in Renames(tree, paths) :
              d = Move(tree, r[1], r[2]) /\ Moved(tree, paths, r[1], r[2])
         \/ \E p \in paths :
              /\ d = Edit(tree, p) /\ Base[p] # tree[p]
              /\ \A r \in Renames(tree, paths) : p # r[1] /\ p # r[2]
<1>1. CASE d \in {Move(tree, r[1], r[2]) : r \in Renames(tree, paths)}
  <2>1. PICK r \in Renames(tree, paths) : d = Move(tree, r[1], r[2])
    BY <1>1
  <2>2. Moved(tree, paths, r[1], r[2])
    BY RenamesPair DEF Pairing
  <2>. QED
    BY <2>1, <2>2
<1>2. CASE d \in {Edit(tree, p) : p \in {p \in paths : Base[p] # tree[p]}
                                          \ UNION {{r[1], r[2]} : r \in Renames(tree, paths)}}
  BY <1>2
<1>. QED
  BY <1>1, <1>2, DiffIs

\* It is of changed paths, each in one change, and every changed path is in one.
LEMMA DiffCovers ==
  ASSUME NEW tree \in Trees, NEW paths \in SUBSET Paths
  PROVE  /\ \A d \in StagedDiff(tree, paths) :
              /\ d \in Diffs /\ DiffPaths(d) # {} /\ DiffPaths(d) \subseteq paths
              /\ At(d) \in DiffPaths(d) /\ \A p \in DiffPaths(d) : Base[p] # tree[p]
         /\ \A d, e \in StagedDiff(tree, paths) :
              d # e => DiffPaths(d) \cap DiffPaths(e) = {}
         /\ \A p \in paths : Base[p] # tree[p] =>
              \E d \in StagedDiff(tree, paths) : p \in DiffPaths(d)
<1>. DEFINE R == Renames(tree, paths)
            D == StagedDiff(tree, paths)
<1>1. ASSUME NEW d \in D
      PROVE  /\ d \in Diffs /\ DiffPaths(d) # {} /\ DiffPaths(d) \subseteq paths
             /\ At(d) \in DiffPaths(d) /\ \A p \in DiffPaths(d) : Base[p] # tree[p]
  <2>1. CASE \E r \in R : d = Move(tree, r[1], r[2]) /\ Moved(tree, paths, r[1], r[2])
    <3>1. PICK r \in R : d = Move(tree, r[1], r[2]) /\ Moved(tree, paths, r[1], r[2])
      BY <2>1
    <3>2. r[1] \in paths /\ r[2] \in paths
      BY <3>1 DEF Moved
    <3>. QED
      BY <3>1, <3>2, MoveIs
  <2>2. CASE \E p \in paths : d = Edit(tree, p) /\ Base[p] # tree[p]
    BY <2>2, EditIs
  <2>. QED
    BY <2>1, <2>2, DiffShape
<1>2. ASSUME NEW d \in D, NEW e \in D, NEW p, p \in DiffPaths(d), p \in DiffPaths(e)
      PROVE  d = e
  <2>1. \A r, s \in R : r[1] = s[1] <=> r[2] = s[2]
    BY RenamesPair DEF Pairing
  <2>2. \A r \in R : Moved(tree, paths, r[1], r[2])
    BY RenamesPair DEF Pairing
  <2>3. \A r, s \in R : r[1] # s[2]
    BY <2>2 DEF Moved
  <2>4. CASE \E r \in R : d = Move(tree, r[1], r[2])
    <3>1. PICK r \in R : d = Move(tree, r[1], r[2])
      BY <2>4
    <3>2. p \in {r[1], r[2]}
      BY <1>2, <2>2, <3>1, MoveIs
    <3>3. CASE \E s \in R : e = Move(tree, s[1], s[2])
      <4>1. PICK s \in R : e = Move(tree, s[1], s[2])
        BY <3>3
      <4>2. p \in {s[1], s[2]}
        BY <1>2, <2>2, <4>1, MoveIs
      <4>. QED
        BY <2>1, <2>3, <3>1, <3>2, <4>1, <4>2
    <3>4. CASE \E q \in paths : /\ e = Edit(tree, q) /\ Base[q] # tree[q]
                                /\ \A s \in R : q # s[1] /\ q # s[2]
      BY <1>2, <3>2, <3>4, EditIs
    <3>. QED
      BY <3>3, <3>4, DiffShape
  <2>5. CASE \E q \in paths : /\ d = Edit(tree, q) /\ Base[q] # tree[q]
                              /\ \A s \in R : q # s[1] /\ q # s[2]
    <3>1. PICK q \in paths : /\ d = Edit(tree, q) /\ Base[q] # tree[q]
                             /\ \A s \in R : q # s[1] /\ q # s[2]
      BY <2>5
    <3>2. p = q
      BY <1>2, <3>1, EditIs
    <3>3. CASE \E s \in R : e = Move(tree, s[1], s[2])
      <4>1. PICK s \in R : e = Move(tree, s[1], s[2])
        BY <3>3
      <4>2. p \in {s[1], s[2]}
        BY <1>2, <2>2, <4>1, MoveIs
      <4>. QED
        BY <3>1, <3>2, <4>2
    <3>4. CASE \E q2 \in paths : e = Edit(tree, q2) /\ Base[q2] # tree[q2]
      BY <1>2, <3>1, <3>2, <3>4, EditIs
    <3>. QED
      BY <3>3, <3>4, DiffShape
  <2>. QED
    BY <2>4, <2>5, DiffShape
<1>3. ASSUME NEW p \in paths, Base[p] # tree[p]
      PROVE  \E d \in D : p \in DiffPaths(d)
  <2>1. CASE \E r \in R : p \in {r[1], r[2]}
    <3>1. PICK r \in R : p \in {r[1], r[2]}
      BY <2>1
    <3>2. Move(tree, r[1], r[2]) \in D
      BY DiffIs
    <3>3. DiffPaths(Move(tree, r[1], r[2])) = {r[1], r[2]}
      BY RenamesPair, MoveIs DEF Pairing
    <3>. QED
      BY <3>1, <3>2, <3>3
  <2>2. CASE ~ \E r \in R : p \in {r[1], r[2]}
    <3>1. Edit(tree, p) \in D
      BY <1>3, <2>2, DiffIs
    <3>2. p \in DiffPaths(Edit(tree, p))
      BY <1>3, EditIs
    <3>. QED
      BY <3>1, <3>2
  <2>. QED
    BY <2>1, <2>2
<1>. QED
  BY <1>1, <1>2, <1>3

\* Asked for the paths of one change alone, git lists that change.
LEMMA DiffAlone ==
  ASSUME NEW tree \in Trees, NEW d \in StagedDiff(tree, Paths)
  PROVE  StagedDiff(tree, DiffPaths(d)) = {d}
<1>1. ASSUME NEW p, NEW q, d = Move(tree, p, q), Moved(tree, Paths, p, q)
      PROVE  StagedDiff(tree, DiffPaths(d)) = {d}
  <2>. DEFINE R == Renames(tree, {p, q})
  <2>1. /\ DiffPaths(d) = {p, q} /\ {p, q} \in SUBSET Paths /\ p # q
        /\ Moved(tree, {p, q}, p, q)
    <3>1. Paths \in SUBSET Paths
      OBVIOUS
    <3>2. DiffPaths(d) = {p, q} /\ p # q /\ p \in Paths /\ q \in Paths
      BY <1>1, <3>1, MoveIs
    <3>. QED
      BY <1>1, <3>2 DEF Moved
  <2>2. Pairing(tree, {p, q}, R) /\ Cardinality({<<p, q>>}) <= Cardinality(R)
    <3>1. Pairing(tree, {p, q}, {<<p, q>>})
      BY <2>1 DEF Pairing
    <3>. QED
      BY <2>1, <3>1, RenamesPair
  <2>. HIDE DEF R
  <2>3. R \subseteq {<<p, q>>}
    <3>. SUFFICES ASSUME NEW s \in R PROVE s = <<p, q>>
      OBVIOUS
    <3>1. s \in {p, q} \X {p, q} /\ Moved(tree, {p, q}, s[1], s[2])
      BY <2>2 DEF Pairing
    <3>2. s[1] # q /\ s[2] # p
      BY <2>1, <3>1 DEF Moved
    <3>. QED
      BY <3>1, <3>2
  <2>4. R = {<<p, q>>}
    <3>1. R # {}
      <4>1. Cardinality({<<p, q>>}) = 1
        BY FS_Singleton
      <4>2. Cardinality({}) = 0
        BY FS_EmptySet
      <4>. QED
        BY <2>2, <4>1, <4>2
    <3>. QED
      BY <2>3, <3>1
  <2>5. StagedDiff(tree, {p, q}) = {Move(tree, p, q)}
    <3>1. {Move(tree, s[1], s[2]) : s \in R} = {Move(tree, p, q)}
      BY <2>4
    <3>2. UNION {{s[1], s[2]} : s \in R} = {p, q}
      BY <2>4
    <3>3. {Edit(tree, x) : x \in {x \in {p, q} : Base[x] # tree[x]} \ {p, q}} = {}
      OBVIOUS
    <3>. QED
      BY <3>1, <3>2, <3>3, DiffIs DEF R
  <2>. QED
    BY <1>1, <2>1, <2>5
<1>2. CASE \E p \in Paths : d = Edit(tree, p) /\ Base[p] # tree[p]
  <2>1. PICK p \in Paths : d = Edit(tree, p) /\ Base[p] # tree[p]
    BY <1>2
  <2>2. DiffPaths(d) = {p} /\ {p} \in SUBSET Paths
    BY <2>1, EditIs
  <2>3. Renames(tree, {p}) = {}
    <3>. SUFFICES ASSUME NEW s \in Renames(tree, {p}) PROVE FALSE
      OBVIOUS
    <3>1. Pairing(tree, {p}, Renames(tree, {p}))
      BY <2>2, RenamesPair
    <3>. QED
      BY <3>1 DEF Pairing, Moved
  <2>4. StagedDiff(tree, {p}) = {Edit(tree, p)}
    BY <2>1, <2>3, DiffIs
  <2>. QED
    BY <2>1, <2>2, <2>4
<1>. QED
  BY <1>1, <1>2, DiffShape

\* Asked for the paths of any change, it lists two at most.
LEMMA DiffOfTwo ==
  ASSUME NEW tree \in Trees, NEW d \in Diffs, DiffPaths(d) \subseteq Paths
  PROVE  StagedDiff(tree, DiffPaths(d)) \in Patches
<1>. DEFINE D == StagedDiff(tree, DiffPaths(d))
<1>1. PICK p, q : DiffPaths(d) \subseteq {p, q}
  BY DEF DiffPaths
<1>2. /\ \A e \in D : e \in Diffs /\ (p \in DiffPaths(e) \/ q \in DiffPaths(e))
      /\ \A e, g \in D : e # g => DiffPaths(e) \cap DiffPaths(g) = {}
  BY <1>1, DiffCovers
<1>. HIDE DEF D
<1>3. CASE D = {}
  BY <1>3 DEF Patches, D
<1>4. CASE D # {}
  <2>1. PICK e \in D : TRUE
    BY <1>4
  <2>2. CASE D = {e}
    <3>1. D = {e, e} /\ e \in Diffs
      BY <1>2, <2>2
    <3>. QED
      BY <3>1 DEF Patches, D
  <2>3. CASE D # {e}
    <3>1. PICK g \in D : g # e
      BY <2>1, <2>3
    <3>2. D = {e, g}
      BY <1>2, <2>1, <3>1
    <3>. QED
      BY <1>2, <2>1, <3>1, <3>2 DEF Patches, D
  <2>. QED
    BY <2>2, <2>3
<1>. QED
  BY <1>3, <1>4

\* The first of some changes.
LEMMA ForemostIs ==
  ASSUME NEW listed \in SUBSET Diffs, listed # {},
         \A d \in listed : DiffPaths(d) # {} /\ DiffPaths(d) \subseteq Paths
  PROVE  Foremost(listed) \in listed /\ \A e \in listed : At(Foremost(listed)) <= At(e)
<1>1. \A d \in listed : At(d) \in Nat
  BY BatchProducerAssumption DEF At, DiffPaths
<1>. DEFINE S == {At(d) : d \in listed}
<1>2. PICK n \in S : \A k \in S : n <= k
  <2>1. S \in SUBSET Nat /\ S # {}
    BY <1>1
  <2>. HIDE DEF S
  <2>. QED
    BY <2>1, LeastNumber
<1>3. \E d \in listed : \A e \in listed : At(d) <= At(e)
  BY <1>2
<1>. QED
  BY <1>3 DEF Foremost

\* What a change writes.
LEMMA TargetsAre ==
  ASSUME NEW d \in Diffs, DiffPaths(d) # {}, DiffPaths(d) \subseteq Paths
  PROVE  /\ TargetsFor(d) \in SUBSET TargetRecords /\ TargetsFor(d) # {}
         /\ {t.path : t \in TargetsFor(d)} = DiffPaths(d)
         /\ \A t, u \in TargetsFor(d) : t.path = u.path => t = u
<1>1. d.old \in Paths \cup {Absent} /\ d.new \in Paths \cup {Absent} /\ Absent \notin Paths
  BY BatchProducerAssumption DEF Diffs
<1>2. \A p \in Paths : Base[p] \in Contents \cup {Absent}
  BY BatchProducerAssumption DEF Trees
<1>3. CASE d.old = d.new
  <2>1. d.new \in Paths /\ DiffPaths(d) = {d.new}
    BY <1>1, <1>3 DEF DiffPaths
  <2>2. TargetsFor(d) = {[path |-> d.new, op |-> "modify", base |-> Base[d.new]]}
    BY <1>3 DEF TargetsFor, Target
  <2>3. [path |-> d.new, op |-> "modify", base |-> Base[d.new]] \in TargetRecords
    BY <1>2, <2>1 DEF TargetRecords
  <2>. QED
    BY <2>1, <2>2, <2>3
<1>4. CASE d.old # d.new
  <2>. DEFINE A == {[path |-> p, op |-> "delete", base |-> Base[p]] : p \in {d.old} \ {Absent}}
              B == {[path |-> p, op |-> "create", base |-> Absent] : p \in {d.new} \ {Absent}}
  <2>1. TargetsFor(d) = A \cup B
    BY <1>4 DEF TargetsFor, Target
  <2>2. A \subseteq TargetRecords /\ B \subseteq TargetRecords
    BY <1>1, <1>2 DEF TargetRecords
  <2>3. {t.path : t \in A \cup B} = DiffPaths(d)
    <3>1. \A t \in A \cup B : t.path \in DiffPaths(d)
      BY DEF DiffPaths
    <3>2. ASSUME NEW p \in DiffPaths(d) PROVE \E t \in A \cup B : t.path = p
      <4>1. p # Absent /\ (p = d.old \/ p = d.new)
        BY <3>2 DEF DiffPaths
      <4>2. CASE p = d.old
        <5>. DEFINE t == [path |-> p, op |-> "delete", base |-> Base[p]]
        <5>1. t \in A /\ t.path = p
          BY <4>1, <4>2
        <5>. HIDE DEF t, A, B
        <5>. QED
          BY <5>1
      <4>3. CASE p = d.new
        <5>. DEFINE t == [path |-> p, op |-> "create", base |-> Absent]
        <5>1. t \in B /\ t.path = p
          BY <4>1, <4>3
        <5>. HIDE DEF t, A, B
        <5>. QED
          BY <5>1
      <4>. QED
        BY <4>1, <4>2, <4>3
    <3>. HIDE DEF A, B
    <3>. QED
      BY <3>1, <3>2
  <2>4. \A t, u \in A \cup B : t.path = u.path => t = u
    BY <1>4
  <2>. HIDE DEF A, B
  <2>. QED
    BY <2>1, <2>2, <2>3, <2>4
<1>. QED
  BY <1>3, <1>4

-----------------------------------------------------------------------------
(* Types, and what a run has.                                              *)

\* The chunks of a list of units within the budget.
LEMMA ChunksFrom ==
  ASSUME NEW list \in Seq(Units), \A i \in 1..Len(list) : UnitBytes(list[i]) <= MaxBytes,
         run \in Nat
  PROVE  /\ PackUnits(list) \in Seq(Seq(Units))
         /\ BuildChunks(list) \in Seq(Chunks)
         /\ Len(BuildChunks(list)) = Len(PackUnits(list))
         /\ \A i \in 1..Len(PackUnits(list)) : BuildChunks(list)[i] = ChunkOf(PackUnits(list), i)
         /\ (\A i \in 1..Len(list) : list[i].targets # {}) =>
              \A i \in 1..Len(PackUnits(list)) : BuildChunks(list)[i].targets # {}
<1>. DEFINE groups == PackUnits(list)
            m == Len(groups)
<1>1. PICK c : CutAt(list, Len(list), groups, c)
  BY PackingCuts
<1>2. /\ groups \in Seq(Seq(Units)) /\ m \in Nat /\ DOMAIN groups = 1..m
      /\ c \in [0..m -> 0..Len(list)] /\ Len(list) \in Nat
      /\ \A i \in 1..m : c[i - 1] < c[i] /\ groups[i] = Slice(list, c[i - 1], c[i])
  <2>1. groups \in Seq(Seq(Units))
    BY <1>1 DEF CutAt
  <2>. QED
    BY <1>1, <2>1 DEF CutAt
<1>3. BuildChunks(list) = [i \in 1..m |-> ChunkOf(groups, i)]
  BY <1>2 DEF BuildChunks
<1>. HIDE DEF groups, m
<1>4. ASSUME NEW i \in 1..m
      PROVE  /\ ChunkOf(groups, i) \in Chunks
             /\ (\A k \in 1..Len(list) : list[k].targets # {}) => ChunkOf(groups, i).targets # {}
  <2>. DEFINE g == groups[i]
  <2>1. g \in Seq(Units) /\ Len(g) \in Nat /\ DOMAIN g = 1..Len(g)
    BY <1>2
  <2>. HIDE DEF g
  <2>2. \A k \in DOMAIN g : g[k] \in Units
    BY <2>1
  <2>3. \A k \in DOMAIN g : g[k].patch \in Patches /\ g[k].targets \in SUBSET TargetRecords
    BY <2>2 DEF Units
  <2>4. [k \in DOMAIN g |-> g[k].patch] \in Seq(Patches)
    BY <2>1, <2>3
  <2>5. UNION {unit.targets : unit \in Range(g)} \in SUBSET TargetRecords
    <3>1. Range(g) = {g[k] : k \in DOMAIN g}
      BY DEF Range
    <3>. QED
      BY <2>3, <3>1
  <2>6. ChunkOf(groups, i) = [batch |-> run, index |-> i, count |-> m,
                              patch |-> [k \in DOMAIN g |-> g[k].patch],
                              targets |-> UNION {unit.targets : unit \in Range(g)}]
    BY DEF ChunkOf, g, m
  <2>7. ChunkOf(groups, i) \in Chunks
    BY <1>2, <2>4, <2>5, <2>6 DEF Chunks
  <2>8. ASSUME \A k \in 1..Len(list) : list[k].targets # {}
        PROVE  ChunkOf(groups, i).targets # {}
    <3>1. i - 1 \in 0..m /\ i \in 0..m
      BY <1>2
    <3>2. c[i - 1] \in 0..Len(list) /\ c[i] \in 0..Len(list) /\ c[i - 1] < c[i] /\ Len(list) \in Nat
      BY <1>2, <3>1
    <3>3. 1 \in 1..(c[i] - c[i - 1]) /\ c[i - 1] + 1 \in 1..Len(list)
      BY <3>2
    <3>4. 1 \in DOMAIN g /\ g[1] = list[c[i - 1] + 1]
      <4>1. g = [k \in 1..(c[i] - c[i - 1]) |-> list[c[i - 1] + k]]
        BY <1>2 DEF Slice, g
      <4>. QED
        BY <3>3, <4>1
    <3>5. g[1].targets # {} /\ g[1] \in Range(g)
      BY <2>8, <3>3, <3>4 DEF Range
    <3>6. UNION {unit.targets : unit \in Range(g)} # {}
      BY <3>5
    <3>. QED
      BY <2>6, <3>6
  <2>. QED
    BY <2>7, <2>8
<1>5. BuildChunks(list) \in Seq(Chunks) /\ Len(BuildChunks(list)) = m
  BY <1>2, <1>3, <1>4
<1>. QED
  BY <1>2, <1>3, <1>4, <1>5 DEF groups, m

\* A chunk about to be published.
LEMMA NextChunk ==
  ASSUME ProducerInv, step = "publish", sent < Len(chunks)
  PROVE  /\ chunks \in Seq(Chunks) /\ sent + 1 \in DOMAIN chunks /\ sent + 1 \in 0..Len(chunks)
         /\ chunks[sent + 1] \in Chunks
         /\ chunks[sent + 1].targets # {} /\ UNION Range(chunks[sent + 1].patch) # {}
         /\ \A t, u \in chunks[sent + 1].targets : t.path = u.path => t = u
<1>1. /\ units \in Seq(Units) /\ run \in Nat /\ sent \in 0..Len(chunks)
      /\ chunks = BuildChunks(units) /\ ~Invalid(chunks)
      /\ \A i \in DOMAIN units : UnitBytes(units[i]) <= MaxBytes
      /\ \A i \in DOMAIN units : units[i].targets # {}
  <2>1. run \in Nat
    BY BatchProducerAssumption DEF ProducerInv, ImportTypeOK
  <2>2. units \in Seq(Units) /\ sent \in 0..Len(chunks)
    BY DEF ProducerInv, ImportTypeOK, Units
  <2>3. RunKnows
    BY DEF ProducerInv
  <2>. QED
    BY <2>1, <2>2, <2>3 DEF RunKnows
<1>2. \A i \in 1..Len(units) : UnitBytes(units[i]) <= MaxBytes /\ units[i].targets # {}
  BY <1>1
<1>3. chunks \in Seq(Chunks) /\ \A i \in 1..Len(chunks) : chunks[i].targets # {}
  BY <1>1, <1>2, ChunksFrom
<1>4. sent + 1 \in DOMAIN chunks /\ sent + 1 \in 1..Len(chunks) /\ sent + 1 \in 0..Len(chunks)
  BY <1>1, <1>3
<1>5. chunks[sent + 1] \in Chunks
  BY <1>3, <1>4
<1>6. UNION Range(chunks[sent + 1].patch) # {} /\ ~Twice(chunks)
  BY <1>1, <1>4 DEF Invalid
<1>7. \A t, u \in chunks[sent + 1].targets : t.path = u.path => t = u
  BY <1>4, <1>6 DEF Twice
<1>. QED
  BY <1>3, <1>4, <1>5, <1>6, <1>7

\* The stream after one is published.
LEMMA StreamGrows ==
  ASSUME ProducerInv, step = "publish", sent < Len(chunks), Enqueue
  PROVE  /\ stream' \in Seq(Chunks) /\ Len(stream) \in Nat /\ Len(stream') = Len(stream) + 1
         /\ \A i \in DOMAIN stream' :
              /\ stream'[i].targets # {} /\ UNION Range(stream'[i].patch) # {}
              /\ \A t, u \in stream'[i].targets : t.path = u.path => t = u
<1>. DEFINE c == chunks[sent + 1]
<1>1. /\ c \in Chunks /\ c.targets # {} /\ UNION Range(c.patch) # {}
      /\ \A t, u \in c.targets : t.path = u.path => t = u
  BY NextChunk
<1>2. stream' = Append(stream, c) /\ stream \in Seq(Chunks)
  BY DEF Enqueue, ProducerInv
<1>. HIDE DEF c
<1>3. /\ stream' \in Seq(Chunks) /\ Len(stream') = Len(stream) + 1 /\ Len(stream) \in Nat
      /\ \A i \in DOMAIN stream' : (i \in DOMAIN stream /\ stream'[i] = stream[i]) \/ stream'[i] = c
  BY <1>1, <1>2
<1>. QED
  BY <1>1, <1>3 DEF ProducerInv, ImportTypeOK

\* What the producer does leaves the drain as it is.
LEMMA DrainKept ==
  ASSUME ProducerInv, UNCHANGED drainVars,
         \/ stream' = stream
         \/ step = "publish" /\ sent < Len(chunks) /\ Enqueue
  PROVE  DrainTypeOK'
<1>1. UNCHANGED <<vault, taken, blocked, parked, waiting>> /\ DrainTypeOK
  BY DEF drainVars, ProducerInv, ImportTypeOK
<1>2. taken \in 0..Len(stream')
  <2>1. CASE stream' = stream
    BY <1>1, <2>1 DEF DrainTypeOK
  <2>2. CASE step = "publish" /\ sent < Len(chunks) /\ Enqueue
    <3>1. Len(stream) \in Nat /\ Len(stream') = Len(stream) + 1
      BY <2>2, StreamGrows
    <3>. QED
      BY <1>1, <3>1 DEF DrainTypeOK
  <2>. QED
    BY <2>1, <2>2
<1>. QED
  BY <1>1, <1>2 DEF DrainTypeOK

\* A run that ends leaves nothing of itself but what it published.
LEMMA RunEnds ==
  ASSUME ProducerInv, NEW how \in {"ok", "failed", "died"}, Ends(how),
         run # 0, UNCHANGED <<index, run, restages, steady, drainVars>>, faults' \in 0..MaxFaults,
         \/ stream' = stream
         \/ step = "publish" /\ sent < Len(chunks) /\ Enqueue
  PROVE  ProducerInv'
<1>1. /\ stream' \in Seq(Chunks)
      /\ \A i \in DOMAIN stream' :
           /\ stream'[i].targets # {} /\ UNION Range(stream'[i].patch) # {}
           /\ \A t, u \in stream'[i].targets : t.path = u.path => t = u
  <2>1. CASE stream' = stream
    BY <2>1 DEF ProducerInv, ImportTypeOK
  <2>2. CASE step = "publish" /\ sent < Len(chunks) /\ Enqueue
    BY <2>2, StreamGrows
  <2>. QED
    BY <2>1, <2>2
<1>2. step' = "idle" /\ exit' = how /\ entries' = {} /\ units' = <<>> /\ chunks' = <<>> /\ sent' = 0
  BY DEF Ends
<1>3. ImportTypeOK'
  <2>1. units' \in Seq([patch : Patches, targets : SUBSET TargetRecords])
    BY <1>2
  <2>2. sent' \in 0..Len(chunks')
    BY <1>2
  <2>3. DrainTypeOK'
    BY DrainKept
  <2>. QED
    BY <1>1, <1>2, <2>1, <2>2, <2>3 DEF ProducerInv, ImportTypeOK
<1>4. RunKnows'
  BY <1>2, BatchProducerAssumption DEF RunKnows
<1>. QED
  BY <1>1, <1>3, <1>4 DEF ProducerInv

\* The initial states are of these types.
LEMMA ProducerInit == ImportInit => ProducerInv
<1>. SUFFICES ASSUME ImportInit PROVE ProducerInv
  OBVIOUS
<1>1. ImportTypeOK
  BY BatchProducerAssumption DEF ImportInit, ImportTypeOK, DrainTypeOK
<1>2. RunKnows
  BY DEF ImportInit, RunKnows
<1>. QED
  BY <1>1, <1>2 DEF ImportInit, ProducerInv

\* What the chunk at hand is.
LEMMA DeliveredIs ==
  ASSUME ProducerInv, Pending
  PROVE  /\ taken + 1 \in 1..Len(stream) /\ taken + 1 \in DOMAIN stream /\ taken \in Nat
         /\ Delivered \in Chunks /\ Delivered = stream[taken + 1] /\ Len(stream) \in Nat
         /\ \A d \in ChunkDiffs(Delivered) : d \in Diffs
         /\ Creates(Delivered) \subseteq Paths
<1>1. stream \in Seq(Chunks) /\ taken \in 0..Len(stream) /\ taken < Len(stream)
  BY DEF ProducerInv, ImportTypeOK, DrainTypeOK, Pending
<1>2. /\ taken + 1 \in 1..Len(stream) /\ taken + 1 \in DOMAIN stream /\ taken \in Nat
      /\ Len(stream) \in Nat
  BY <1>1
<1>3. Delivered \in Chunks /\ Delivered = stream[taken + 1]
  BY <1>1, <1>2 DEF Delivered
<1>4. Delivered.patch \in Seq(Patches) /\ Delivered.targets \in SUBSET TargetRecords
  BY <1>3 DEF Chunks
<1>5. ASSUME NEW d \in ChunkDiffs(Delivered) PROVE d \in Diffs
  <2>1. PICK k \in DOMAIN Delivered.patch : d \in Delivered.patch[k]
    BY DEF ChunkDiffs, Range
  <2>2. Delivered.patch[k] \in Patches
    BY <1>4, <2>1
  <2>. QED
    BY <2>1, <2>2 DEF Patches
<1>6. Creates(Delivered) \subseteq Paths
  BY <1>4 DEF Creates, TargetRecords
<1>. QED
  BY <1>2, <1>3, <1>5, <1>6

\* The drain's own types.
LEMMA DrainTypes ==
  ASSUME ProducerInv, stream' = stream,
         \/ ApplyChunk \/ ApplyUnsettled \/ SettleDone \/ ParkDependent
         \/ ParkRefused \/ DrainEnds
  PROVE  DrainTypeOK'
<1>1. CASE ApplyChunk \/ ApplyUnsettled
  <2>1. /\ Pending /\ NextWritten /\ UNCHANGED <<parked, waiting>>
        /\ taken' \in {taken, taken + 1} /\ blocked' \subseteq blocked
    BY <1>1 DEF ApplyChunk, ApplyUnsettled
  <2>2. vault \in Trees
    BY DEF ProducerInv, ImportTypeOK, DrainTypeOK
  <2>3. ASSUME NEW p \in Paths
        PROVE  Written(vault, ChunkDiffs(Delivered), p) \in Contents \cup {Absent}
    <3>. DEFINE E == ChunkDiffs(Delivered)
    <3>. SUFFICES Written(vault, E, p) \in Contents \cup {Absent}
      OBVIOUS
    <3>1. \A d \in E : d \in Diffs
      BY <2>1, DeliveredIs
    <3>. HIDE DEF E
    <3>2. vault[p] \in Contents \cup {Absent}
      BY <2>2 DEF Trees
    <3>3. CASE \E d \in E : d.new = p
      <4>. DEFINE d == CHOOSE d \in E : d.new = p
      <4>1. d \in E
        BY <3>3
      <4>2. Written(vault, E, p) = IF d.from = d.to THEN vault[d.old] ELSE d.to
        BY <3>3 DEF Written
      <4>. HIDE DEF d
      <4>3. d \in Diffs /\ d.new = p
        BY <3>1, <3>3, <4>1 DEF d
      <4>4. /\ d.to \in Contents \cup {Absent} /\ d.old \in Paths \cup {Absent}
            /\ d.old = Absent <=> d.from = Absent
            /\ d.new = Absent <=> d.to = Absent
        BY <4>3 DEF Diffs
      <4>5. p # Absent
        BY BatchProducerAssumption
      <4>6. d.from = d.to => d.old \in Paths
        BY <4>3, <4>4, <4>5
      <4>. QED
        <5>1. CASE d.from = d.to
          BY <2>2, <4>2, <4>6, <5>1 DEF Trees
        <5>2. CASE d.from # d.to
          BY <4>2, <4>4, <5>2
        <5>. QED
          BY <5>1, <5>2
    <3>4. CASE ~ \E d \in E : d.new = p
      <4>1. Written(vault, E, p) = IF \E d \in E : d.old = p THEN Absent ELSE vault[p]
        BY <3>4, Zenon DEF Written
      <4>. QED
        BY <3>2, <4>1
    <3>. QED
      BY <3>3, <3>4
  <2>4. vault' \in Trees
    BY <2>1, <2>3 DEF NextWritten, Trees
  <2>5. taken' \in 0..Len(stream') /\ taken \in Nat /\ taken' \in Nat /\ taken <= taken'
    BY <2>1, DeliveredIs
  <2>. QED
    BY <2>1, <2>4, <2>5 DEF ProducerInv, ImportTypeOK, DrainTypeOK
<1>2. CASE SettleDone \/ ParkDependent \/ ParkRefused
  <2>1. /\ Pending /\ taken' = taken + 1 /\ vault' = vault
        /\ blocked' = blocked \/ blocked' = blocked \cup {<<Delivered.batch, p>> : p \in Creates(Delivered)}
        /\ parked' \subseteq parked \cup {taken + 1} /\ waiting' \subseteq waiting \cup {taken + 1}
    BY <1>2 DEF SettleDone, ParkDependent, ParkRefused
  <2>2. /\ taken \in Nat /\ taken' \in 0..Len(stream') /\ taken + 1 \in 1..taken'
        /\ 1..taken \subseteq 1..taken'
    BY <2>1, DeliveredIs
  <2>3. Delivered.batch \in Nat /\ Creates(Delivered) \subseteq Paths
    BY <2>1, DeliveredIs DEF Chunks
  <2>. QED
    BY <2>1, <2>2, <2>3 DEF ProducerInv, ImportTypeOK, DrainTypeOK
<1>3. CASE DrainEnds
  BY <1>3 DEF DrainEnds, ProducerInv, ImportTypeOK, DrainTypeOK
<1>. QED
  BY <1>1, <1>2, <1>3

\* Every step keeps them.
LEMMA ProducerStep ==
  ASSUME ProducerInv, [ImportNext]_importVars
  PROVE  ProducerInv'
<1>1. CASE BeginImport
  <2>1. run' \in 0..MaxRuns /\ run' # 0
    BY <1>1, BatchProducerAssumption DEF BeginImport, ProducerInv, ImportTypeOK, DrainTypeOK, drainVars
  <2>2. ImportTypeOK'
    BY <1>1, <2>1 DEF BeginImport, ProducerInv, ImportTypeOK, DrainTypeOK, drainVars
  <2>3. RunKnows'
    BY <1>1, <2>1 DEF BeginImport, ProducerInv, RunKnows
  <2>. QED
    BY <1>1, <2>2, <2>3 DEF BeginImport, ProducerInv
<1>2. CASE ListStaged
  <2>1. CASE StagedDiff(index, Paths) = {}
    <3>1. run # 0
      BY <1>2 DEF ListStaged, ProducerInv, RunKnows
    <3>. QED
      BY <1>2, <2>1, <3>1, RunEnds DEF ListStaged, ProducerInv, ImportTypeOK, DrainTypeOK, drainVars
  <2>2. CASE StagedDiff(index, Paths) # {}
    <3>1. /\ entries' \subseteq Diffs /\ entries' # {} /\ step' = "diff"
          /\ \A d \in entries' : DiffPaths(d) # {} /\ DiffPaths(d) \subseteq Paths
      <4>1. index \in Trees /\ Paths \in SUBSET Paths
        BY DEF ProducerInv, ImportTypeOK, DrainTypeOK, drainVars
      <4>2. entries' = StagedDiff(index, Paths) /\ step' = "diff"
        BY <1>2, <2>2 DEF ListStaged
      <4>. QED
        BY <2>2, <4>1, <4>2, DiffCovers
    <3>2. UNCHANGED <<index, stream, run, restages, faults, steady, drainVars, units, chunks, sent, exit>>
      BY <1>2, <2>2 DEF ListStaged
    <3>3. ImportTypeOK'
      BY <3>1, <3>2 DEF ProducerInv, ImportTypeOK, DrainTypeOK, drainVars
    <3>4. RunKnows'
      BY <1>2, <3>1, <3>2 DEF ListStaged, ProducerInv, RunKnows
    <3>. QED
      BY <3>2, <3>3, <3>4 DEF ProducerInv
  <2>. QED
    BY <2>1, <2>2
<1>3. CASE ReadPatch
  <2>. DEFINE patch == StagedDiff(index, DiffPaths(Foremost(entries)))
  <2>1. run # 0 /\ step = "diff" /\ entries # {}
    BY <1>3 DEF ReadPatch, ProducerInv, RunKnows
  <2>2. patch \in Patches
    <3>1. index \in Trees /\ entries \in SUBSET Diffs
      BY DEF ProducerInv, ImportTypeOK, DrainTypeOK, drainVars
    <3>2. \A d \in entries : DiffPaths(d) # {} /\ DiffPaths(d) \subseteq Paths
      BY DEF ProducerInv, RunKnows
    <3>3. Foremost(entries) \in entries
      BY <2>1, <3>1, <3>2, ForemostIs
    <3>. QED
      BY <3>1, <3>2, <3>3, DiffOfTwo
  <2>. HIDE DEF patch
  <2>3. CASE \E d \in patch \cap Garbled : HasText(d)
    <3>1. Ends("failed") /\ UNCHANGED <<index, stream, run, restages, faults, steady, drainVars>>
      BY <1>3, <2>3 DEF ReadPatch, patch
    <3>. QED
      BY <2>1, <3>1, RunEnds DEF ProducerInv, ImportTypeOK, DrainTypeOK, drainVars
  <2>4. CASE ~ \E d \in patch \cap Garbled : HasText(d)
    <3>. DEFINE u == [patch |-> patch, targets |-> {}]
    <3>1. /\ units' = Append(units, u) /\ step' = "hash"
          /\ UNCHANGED <<index, stream, run, restages, faults, steady, drainVars, entries, chunks, sent, exit>>
      BY <1>3, <2>4 DEF ReadPatch, patch
    <3>2. u \in Units /\ units \in Seq(Units)
      BY <2>2 DEF Units, ProducerInv, ImportTypeOK, DrainTypeOK, drainVars
    <3>. HIDE DEF u
    <3>3. /\ units' \in Seq(Units) /\ units' # <<>> /\ Len(units') = Len(units) + 1
          /\ \A i \in DOMAIN units' : i # Len(units') => i \in DOMAIN units /\ units'[i] = units[i]
      BY <3>1, <3>2
    <3>4. ImportTypeOK'
      BY <3>1, <3>3 DEF ProducerInv, ImportTypeOK, DrainTypeOK, drainVars, Units
    <3>5. RunKnows'
      BY <2>1, <3>1, <3>3 DEF ProducerInv, RunKnows
    <3>. QED
      BY <3>1, <3>4, <3>5 DEF ProducerInv
  <2>. QED
    BY <2>3, <2>4
<1>4. CASE HashTargets
  <2>. DEFINE d == Foremost(entries)
              n == Len(units)
  <2>1. run # 0 /\ step = "hash" /\ entries # {} /\ units # <<>> /\ chunks = <<>>
    BY <1>4 DEF HashTargets, ProducerInv, RunKnows
  <2>2. /\ TargetsFor(d) \in SUBSET TargetRecords /\ TargetsFor(d) # {}
    <3>1. entries \in SUBSET Diffs
      BY DEF ProducerInv, ImportTypeOK, DrainTypeOK, drainVars
    <3>2. \A e \in entries : DiffPaths(e) # {} /\ DiffPaths(e) \subseteq Paths
      BY DEF ProducerInv, RunKnows
    <3>3. d \in entries
      BY <2>1, <3>1, <3>2, ForemostIs
    <3>. QED
      BY <3>1, <3>2, <3>3, TargetsAre
  <2>3. /\ units' = [units EXCEPT ![n].targets = TargetsFor(d)]
        /\ entries' = entries \ {d}
        /\ step' = IF entries' = {} THEN "pack" ELSE "diff"
        /\ UNCHANGED <<index, stream, chunks, sent, exit, run, restages, faults, steady, drainVars>>
    BY <1>4 DEF HashTargets
  <2>. HIDE DEF d
  <2>4. /\ units' \in Seq(Units) /\ DOMAIN units' = DOMAIN units /\ Len(units') = n
        /\ \A i \in DOMAIN units : units'[i].targets # {}
    <3>1. units \in Seq(Units) /\ n \in DOMAIN units /\ n \in Nat
      BY <2>1 DEF ProducerInv, ImportTypeOK, DrainTypeOK, drainVars, Units
    <3>2. units[n] \in Units
      BY <3>1
    <3>. DEFINE u == [units[n] EXCEPT !.targets = TargetsFor(d)]
    <3>3. u \in Units /\ u.targets = TargetsFor(d)
      BY <2>2, <3>2 DEF Units
    <3>4. units' = [units EXCEPT ![n] = u]
      BY <2>3
    <3>. HIDE DEF u, n
    <3>5. units' \in Seq(Units) /\ DOMAIN units' = DOMAIN units /\ Len(units') = Len(units)
      BY <3>1, <3>3, <3>4
    <3>6. \A i \in DOMAIN units : i # n => units'[i] = units[i]
      BY <3>1, <3>4
    <3>7. units'[n] = u
      BY <3>1, <3>4
    <3>8. \A i \in DOMAIN units : i # n => units[i].targets # {}
      BY DEF ProducerInv, RunKnows, n
    <3>. QED
      BY <2>2, <3>3, <3>5, <3>6, <3>7, <3>8 DEF n
  <2>5. ImportTypeOK'
    BY <2>3, <2>4 DEF ProducerInv, ImportTypeOK, DrainTypeOK, drainVars, Units
  <2>6. RunKnows'
    <3>1. step' \in {"pack", "diff"} /\ (step' = "diff" => entries' # {})
      BY <2>3
    <3>2. \A i \in DOMAIN units' : units'[i].targets # {}
      BY <2>4
    <3>3. \A e \in entries' : DiffPaths(e) # {} /\ DiffPaths(e) \subseteq Paths
      BY <2>3 DEF ProducerInv, RunKnows
    <3>. QED
      BY <2>1, <2>3, <3>1, <3>2, <3>3 DEF RunKnows
  <2>. QED
    BY <2>3, <2>5, <2>6 DEF ProducerInv
<1>5. CASE Pack
  <2>1. run # 0 /\ step = "pack" /\ chunks = <<>>
    BY <1>5 DEF Pack, ProducerInv, RunKnows
  <2>2. CASE (\E i \in DOMAIN units : UnitBytes(units[i]) > MaxBytes) \/ Invalid(BuildChunks(units))
    <3>1. Ends("failed") /\ UNCHANGED <<index, stream, run, restages, faults, steady, drainVars>>
      BY <1>5, <2>2 DEF Pack
    <3>. QED
      BY <2>1, <3>1, RunEnds DEF ProducerInv, ImportTypeOK, DrainTypeOK, drainVars
  <2>3. CASE ~((\E i \in DOMAIN units : UnitBytes(units[i]) > MaxBytes) \/ Invalid(BuildChunks(units)))
    <3>1. /\ chunks' = BuildChunks(units) /\ step' = "connect"
          /\ UNCHANGED <<index, stream, run, restages, faults, steady, drainVars, entries, units, sent, exit>>
      BY <1>5, <2>3 DEF Pack
    <3>2. units \in Seq(Units) /\ run \in Nat
      BY BatchProducerAssumption DEF ProducerInv, ImportTypeOK, DrainTypeOK, drainVars, Units
    <3>3. \A i \in DOMAIN units : UnitBytes(units[i]) \in Nat /\ UnitBytes(units[i]) <= MaxBytes
      <4>1. DOMAIN units = 1..Len(units)
        BY <3>2
      <4>2. \A i \in DOMAIN units : UnitBytes(units[i]) \in Nat
        BY <3>2, <4>1, BytesAdd
      <4>. QED
        BY <2>3, <4>2, BatchProducerAssumption
    <3>4. chunks' \in Seq(Chunks)
      <4>1. \A i \in 1..Len(units) : UnitBytes(units[i]) <= MaxBytes
        BY <3>2, <3>3
      <4>. QED
        BY <3>1, <3>2, <4>1, ChunksFrom
    <3>5. sent' \in 0..Len(chunks')
      <4>1. sent = 0
        BY <2>1 DEF ProducerInv, ImportTypeOK, DrainTypeOK, drainVars
      <4>. QED
        BY <3>1, <3>4, <4>1
    <3>6. ImportTypeOK'
      BY <3>1, <3>5 DEF ProducerInv, ImportTypeOK, DrainTypeOK, drainVars
    <3>7. BuildChunks(units)' = BuildChunks(units) /\ Invalid(chunks)' = Invalid(BuildChunks(units))
      BY <3>1 DEF BuildChunks, ChunkOf, Invalid, Twice
    <3>8. \A i \in DOMAIN units' : UnitBytes(units'[i]) <= MaxBytes
      BY <3>1, <3>3
    <3>9. RunKnows'
      BY <2>1, <2>3, <3>1, <3>7, <3>8 DEF ProducerInv, RunKnows
    <3>. QED
      BY <3>1, <3>6, <3>9 DEF ProducerInv
  <2>. QED
    BY <2>2, <2>3
<1>6. CASE Connect
  <2>1. ImportTypeOK'
    BY <1>6 DEF Connect, ProducerInv, ImportTypeOK, DrainTypeOK, drainVars
  <2>2. BuildChunks(units)' = BuildChunks(units) /\ Invalid(chunks)' = Invalid(chunks)
    BY <1>6 DEF Connect, BuildChunks, ChunkOf, Invalid, Twice
  <2>3. RunKnows'
    BY <1>6, <2>2 DEF Connect, ProducerInv, RunKnows
  <2>. QED
    BY <1>6, <2>1, <2>3 DEF Connect, ProducerInv
<1>7. CASE PublishChunk
  <2>1. step = "publish" /\ sent < Len(chunks) /\ Enqueue
    BY <1>7 DEF PublishChunk
  <2>2. UNCHANGED <<index, step, entries, units, chunks, exit, run, restages, faults, steady, drainVars>>
        /\ sent' = sent + 1
    BY <1>7 DEF PublishChunk
  <2>3. sent' \in 0..Len(chunks')
    BY <2>1, <2>2, NextChunk
  <2>4. ImportTypeOK'
    <3>1. DrainTypeOK'
      BY <2>1, <2>2, DrainKept
    <3>. QED
      BY <2>1, <2>2, <2>3, <3>1, StreamGrows DEF ProducerInv, ImportTypeOK
  <2>5. BuildChunks(units)' = BuildChunks(units) /\ Invalid(chunks)' = Invalid(chunks)
    BY <2>2 DEF BuildChunks, ChunkOf, Invalid, Twice
  <2>6. RunKnows'
    BY <2>1, <2>2, <2>5 DEF ProducerInv, RunKnows
  <2>. QED
    BY <2>1, <2>4, <2>6, StreamGrows DEF ProducerInv
<1>8. CASE PublishUnanswered
  <2>1. run # 0 /\ step = "publish" /\ sent < Len(chunks)
    BY <1>8 DEF PublishUnanswered, ProducerInv, RunKnows
  <2>2. faults' \in 0..MaxFaults
    BY <1>8, BatchProducerAssumption DEF PublishUnanswered, Fault, ProducerInv, ImportTypeOK, DrainTypeOK, drainVars
  <2>. QED
    BY <1>8, <2>1, <2>2, RunEnds DEF PublishUnanswered, StopsHere
<1>9. CASE AllEnqueued
  <2>1. run # 0
    BY <1>9 DEF AllEnqueued, ProducerInv, RunKnows
  <2>. QED
    BY <1>9, <2>1, RunEnds DEF AllEnqueued, ProducerInv, ImportTypeOK, DrainTypeOK, drainVars
<1>10. CASE CallFails \/ ProducerDies
  <2>1. run # 0
    BY <1>10 DEF CallFails, ProducerDies, ProducerInv, RunKnows
  <2>2. faults' \in 0..MaxFaults
    BY <1>10, BatchProducerAssumption DEF CallFails, ProducerDies, Fault, ProducerInv, ImportTypeOK, DrainTypeOK, drainVars
  <2>. QED
    BY <1>10, <2>1, <2>2, RunEnds DEF CallFails, ProducerDies
<1>11. CASE Restage
  <2>1. index' \in Trees
    BY <1>11 DEF Restage, ProducerInv, ImportTypeOK, DrainTypeOK, drainVars, Trees
  <2>2. restages' \in 0..MaxRestages
    BY <1>11, BatchProducerAssumption DEF Restage, ProducerInv, ImportTypeOK, DrainTypeOK, drainVars
  <2>3. steady' \in {"yes", "no"}
    BY <1>11 DEF Restage, ProducerInv, ImportTypeOK, DrainTypeOK, drainVars
  <2>4. UNCHANGED <<stream, runVars, run, faults, drainVars>>
    BY <1>11 DEF Restage
  <2>5. ImportTypeOK'
    BY <2>1, <2>2, <2>3, <2>4 DEF runVars, ProducerInv, ImportTypeOK, DrainTypeOK, drainVars
  <2>6. BuildChunks(units)' = BuildChunks(units) /\ Invalid(chunks)' = Invalid(chunks)
    BY <2>4 DEF runVars, BuildChunks, ChunkOf, Invalid, Twice
  <2>7. RunKnows'
    BY <2>4, <2>6 DEF runVars, drainVars, ProducerInv, RunKnows
  <2>. QED
    BY <2>4, <2>5, <2>7 DEF ProducerInv
<1>12. CASE UNCHANGED importVars
  <2>1. ImportTypeOK'
    BY <1>12 DEF importVars, producerVars, runVars, ProducerInv, ImportTypeOK, DrainTypeOK, drainVars
  <2>2. BuildChunks(units)' = BuildChunks(units) /\ Invalid(chunks)' = Invalid(chunks)
    BY <1>12 DEF importVars, producerVars, runVars, BuildChunks, ChunkOf, Invalid, Twice
  <2>3. RunKnows'
    BY <1>12, <2>2 DEF importVars, producerVars, drainVars, runVars, ProducerInv, RunKnows
  <2>. QED
    BY <1>12, <2>1, <2>3 DEF importVars, producerVars, ProducerInv
<1>13. CASE \/ ApplyChunk \/ ApplyUnsettled \/ SettleDone \/ ParkDependent
            \/ ParkRefused \/ DrainEnds
  <2>1. UNCHANGED producerVars /\ (faults' = faults \/ Fault)
    BY <1>13 DEF ApplyChunk, ApplyUnsettled, SettleDone, ParkDependent, ParkRefused, DrainEnds
  <2>2. run # 0
    <3>1. CASE DrainEnds
      BY <3>1 DEF DrainEnds, ProducerInv, RunKnows
    <3>2. CASE Pending
      <4>1. stream # <<>>
        BY <3>2, DeliveredIs
      <4>. QED
        BY <4>1 DEF ProducerInv, RunKnows
    <3>. QED
      BY <1>13, <3>1, <3>2 DEF ApplyChunk, ApplyUnsettled, SettleDone, ParkDependent, ParkRefused
  <2>3. DrainTypeOK'
    <3>1. stream' = stream
      BY <2>1 DEF producerVars
    <3>. QED
      BY <1>13, <3>1, DrainTypes
  <2>4. ImportTypeOK'
    <3>1. faults' \in 0..MaxFaults
      BY <2>1, BatchProducerAssumption DEF Fault, ProducerInv, ImportTypeOK
    <3>. QED
      BY <2>1, <2>3, <3>1 DEF producerVars, runVars, ProducerInv, ImportTypeOK
  <2>5. BuildChunks(units)' = BuildChunks(units) /\ Invalid(chunks)' = Invalid(chunks)
    BY <2>1 DEF producerVars, runVars, BuildChunks, ChunkOf, Invalid, Twice
  <2>6. RunKnows'
    BY <2>1, <2>2, <2>5 DEF producerVars, runVars, ProducerInv, RunKnows
  <2>. QED
    BY <2>1, <2>4, <2>6 DEF producerVars, ProducerInv
<1>. QED
  BY <1>1, <1>2, <1>3, <1>4, <1>5, <1>6, <1>7, <1>8, <1>9, <1>10, <1>11, <1>12, <1>13 DEF ImportNext

\* So they are invariant.
LEMMA ProducerInvariant == ImportSpec => []ProducerInv
<1>1. ImportInit => ProducerInv
  BY ProducerInit
<1>2. ProducerInv /\ [ImportNext]_importVars => ProducerInv'
  BY ProducerStep
<1>. QED
  BY <1>1, <1>2, PTL DEF ImportSpec

\* Types, for any paths, contents and sizes: a chunk on the stream writes
\* something, and has one target for a path (validate_batch).
THEOREM ImportTypeCorrect == ImportSpec => []ImportTypeOK
<1>1. ProducerInv => ImportTypeOK
  BY DEF ProducerInv
<1>. QED
  BY <1>1, ProducerInvariant, PTL

\* The packing is the best there is, whatever the units' sizes, once the
\* oversized have been refused: the chunks are a cut of the units in their
\* order, and none within the budget is shorter (pack_units).
LEMMA FewAndInOrder ==
  ASSUME ProducerInv
  PROVE  ChunksAreFewAndInOrder
<1>. SUFFICES ASSUME chunks # <<>> PROVE ChunksAreFewAndInOrder
  BY DEF ChunksAreFewAndInOrder
<1>. DEFINE groups == PackUnits(units)
            upto == RunningBytes(units)
            Cuts(n) == {c \in [0..n -> 0..Len(units)] :
                          /\ c[0] = 0 /\ c[n] = Len(units)
                          /\ \A i \in 1..n :
                               c[i - 1] <= c[i] /\ upto[c[i]] - upto[c[i - 1]] <= MaxBytes}
<1>1. /\ units \in Seq(Units) /\ run \in Nat /\ chunks = BuildChunks(units)
      /\ \A i \in 1..Len(units) : UnitBytes(units[i]) <= MaxBytes
  <2>1. units \in Seq(Units) /\ run \in Nat
    BY BatchProducerAssumption DEF ProducerInv, ImportTypeOK, Units
  <2>2. DOMAIN units = 1..Len(units)
    BY <2>1
  <2>3. RunKnows
    BY DEF ProducerInv
  <2>. QED
    BY <2>1, <2>2, <2>3 DEF RunKnows
<1>2. PICK g : CutAt(units, Len(units), groups, g)
  BY <1>1, PackingCuts
<1>3. /\ groups \in Seq(Seq(Units)) /\ Len(chunks) = Len(groups) /\ chunks \in Seq(Chunks)
      /\ \A i \in 1..Len(groups) : chunks[i] = ChunkOf(groups, i)
  BY <1>1, ChunksFrom
<1>. HIDE DEF groups
<1>4. /\ g \in [0..Len(groups) -> 0..Len(units)] /\ g[0] = 0 /\ g[Len(groups)] = Len(units)
      /\ \A i \in 1..Len(groups) :
           /\ g[i - 1] < g[i] /\ groups[i] = Slice(units, g[i - 1], g[i])
           /\ upto[g[i]] - upto[g[i - 1]] <= MaxBytes
  BY <1>2 DEF CutAt
<1>5. g \in Cuts(Len(chunks))
  <2>1. \A i \in 1..Len(groups) : g[i - 1] <= g[i]
    <3>1. ASSUME NEW i \in 1..Len(groups) PROVE g[i - 1] <= g[i]
      <4>1. i - 1 \in 0..Len(groups) /\ i \in 0..Len(groups)
        BY <1>3
      <4>2. g[i - 1] \in 0..Len(units) /\ g[i] \in 0..Len(units) /\ g[i - 1] < g[i]
        BY <1>4, <4>1
      <4>. QED
        BY <1>1, <4>2
    <3>. QED
      BY <3>1
  <2>. HIDE DEF upto
  <2>. QED
    BY <1>3, <1>4, <2>1
<1>6. ASSUME NEW i \in DOMAIN chunks
      PROVE  /\ chunks[i].patch = [k \in 1..(g[i] - g[i - 1]) |-> units[g[i - 1] + k].patch]
             /\ chunks[i].index = i /\ chunks[i].count = Len(chunks)
  <2>1. i \in 1..Len(groups)
    BY <1>3
  <2>2. chunks[i] = [batch |-> run, index |-> i, count |-> Len(groups),
                     patch |-> [k \in DOMAIN groups[i] |-> groups[i][k].patch],
                     targets |-> UNION {unit.targets : unit \in Range(groups[i])}]
    BY <1>3, <2>1 DEF ChunkOf
  <2>3. groups[i] = [k \in 1..(g[i] - g[i - 1]) |-> units[g[i - 1] + k]]
    BY <1>4, <2>1 DEF Slice
  <2>4. [k \in DOMAIN groups[i] |-> groups[i][k].patch]
          = [k \in 1..(g[i] - g[i - 1]) |-> units[g[i - 1] + k].patch]
    BY <2>3
  <2>. QED
    BY <1>3, <2>2, <2>4
<1>7. ASSUME NEW n \in 0..Len(units), Cuts(n) # {} PROVE Len(chunks) <= n
  <2>1. PICK c : c \in Cuts(n)
    BY <1>7
  <2>2. /\ c \in [0..n -> 0..Len(units)] /\ c[0] = 0 /\ c[n] = Len(units)
        /\ \A i \in 1..n : upto[c[i]] - upto[c[i - 1]] <= MaxBytes
    BY <2>1
  <2>3. n \in Nat
    OBVIOUS
  <2>. QED
    BY <1>1, <1>2, <1>3, <2>2, <2>3, PackingIsBest
<1>8. \E c \in Cuts(Len(chunks)) : \A i \in DOMAIN chunks :
        /\ chunks[i].patch = [k \in 1..(c[i] - c[i - 1]) |-> units[c[i - 1] + k].patch]
        /\ chunks[i].index = i /\ chunks[i].count = Len(chunks)
  <2>. HIDE DEF Cuts
  <2>. QED
    BY <1>5, <1>6
<1>9. \A n \in 0..Len(units) : Cuts(n) # {} => Len(chunks) <= n
  BY <1>7
<1>. QED
  BY <1>8, <1>9, Zenon DEF ChunksAreFewAndInOrder

\* The chunks hold the units in order within the budget, and are the fewest
\* that can (pack_units, build_chunks).
THEOREM ChunksStayFew == ImportSpec => []ChunksAreFewAndInOrder
<1>1. ProducerInv => ChunksAreFewAndInOrder
  BY FewAndInOrder
<1>. QED
  BY <1>1, ProducerInvariant, PTL

-----------------------------------------------------------------------------
(* The chunks of a staging.                                                *)

\* Changes can be listed in the order of their paths in one way only.
LEMMA OneListing ==
  ASSUME NEW diffs, \A d \in diffs : At(d) \in Nat,
         NEW e, NEW f, Lists(e, diffs), Lists(f, diffs)
  PROVE  e = f
<1>0. /\ Len(e) \in Nat /\ Len(f) \in Nat /\ DOMAIN e = 1..Len(e) /\ DOMAIN f = 1..Len(f)
      /\ e \in Seq(diffs) /\ f \in Seq(diffs)
  <2>1. e \in Seq(diffs) /\ f \in Seq(diffs)
    BY DEF Lists
  <2>. QED
    BY <2>1
<1>len. Len(e) \in Nat /\ Len(f) \in Nat
  BY <1>0
<1>1. /\ \A i \in 1..Len(e) : \E j \in 1..Len(f) : e[i] = f[j]
      /\ \A j \in 1..Len(f) : \E i \in 1..Len(e) : e[i] = f[j]
  <2>1. {e[i] : i \in 1..Len(e)} = {f[i] : i \in 1..Len(f)}
    BY <1>0 DEF Lists
  <2>. QED
    BY <2>1
<1>2. /\ \A i \in 1..Len(e) : At(e[i]) \in Nat
      /\ \A i \in 1..Len(f) : At(f[i]) \in Nat
      /\ \A i, j \in 1..Len(e) : i < j => At(e[i]) < At(e[j])
      /\ \A i, j \in 1..Len(f) : i < j => At(f[i]) < At(f[j])
  BY <1>0 DEF Lists, Ascending
<1>. DEFINE n == IF Len(e) <= Len(f) THEN Len(e) ELSE Len(f)
            S == {k \in 0..n : \A i \in 1..k : e[i] = f[i]}
<1>3. n \in Nat /\ n <= Len(e) /\ n <= Len(f) /\ (n = Len(e) \/ n = Len(f))
  BY <1>0
<1>. HIDE DEF n
<1>4. ASSUME NEW k \in 0..n, k # n, k \in S PROVE k + 1 \in S
  <2>0. \A x \in 1..k : e[x] = f[x]
    BY <1>4
  <2>. HIDE DEF S
  <2>1. k \in Nat /\ k < n /\ k + 1 \in 0..n /\ k + 1 \in 1..Len(e) /\ k + 1 \in 1..Len(f)
    BY <1>len, <1>3, <1>4
  <2>2. PICK j \in 1..Len(f) : e[k + 1] = f[j]
    BY <1>1, <2>1
  <2>3. PICK i \in 1..Len(e) : e[i] = f[k + 1]
    BY <1>1, <2>1
  <2>4. \A x \in 1..k : x \in 1..Len(e) /\ x \in 1..Len(f) /\ x < k + 1
    BY <1>len, <2>1
  <2>5. j > k
    <3>. SUFFICES ASSUME j \in 1..k PROVE FALSE
      BY <1>len, <2>1
    <3>1. e[j] = e[k + 1] /\ j < k + 1 /\ j \in 1..Len(e)
      BY <2>0, <2>2, <2>4
    <3>. QED
      BY <1>2, <2>1, <3>1
  <2>6. i > k
    <3>. SUFFICES ASSUME i \in 1..k PROVE FALSE
      BY <1>len, <2>1
    <3>1. f[i] = f[k + 1] /\ i < k + 1 /\ i \in 1..Len(f)
      BY <2>0, <2>3, <2>4
    <3>. QED
      BY <1>2, <2>1, <3>1
  <2>7. At(f[k + 1]) <= At(f[j]) /\ (j # k + 1 => At(f[k + 1]) < At(f[j]))
    <3>1. j = k + 1 \/ k + 1 < j
      BY <1>len, <2>1, <2>5
    <3>. QED
      BY <1>2, <2>1, <3>1
  <2>8. At(e[k + 1]) <= At(e[i])
    <3>1. i = k + 1 \/ k + 1 < i
      BY <1>len, <2>1, <2>6
    <3>. QED
      BY <1>2, <2>1, <3>1
  <2>9. j = k + 1
    <3>1. At(f[j]) <= At(f[k + 1]) /\ At(f[j]) \in Nat /\ At(f[k + 1]) \in Nat
      BY <1>2, <2>1, <2>2, <2>3, <2>8
    <3>. QED
      BY <2>7, <3>1
  <2>10. ASSUME NEW x \in 1..(k + 1) PROVE e[x] = f[x]
    <3>1. x \in 1..k \/ x = k + 1
      BY <2>1
    <3>. QED
      BY <2>0, <2>2, <2>9, <3>1
  <2>. QED
    BY <2>1, <2>10 DEF S
<1>5. \A i \in 1..n : e[i] = f[i]
  <2>1. 0 \in S
    BY <1>3
  <2>2. n \in S
    <3>. HIDE DEF S
    <3>1. \A k \in 0..n : k \in S
      BY <1>3, <1>4, <2>1, Ladder, Zenon
    <3>. QED
      BY <1>3, <3>1
  <2>. QED
    BY <2>2
<1>. HIDE DEF S
<1>6. ASSUME Len(e) < Len(f) PROVE FALSE
  <2>1. n = Len(e) /\ Len(f) \in 1..Len(f)
    BY <1>len, <1>3, <1>6
  <2>2. PICK i \in 1..Len(e) : e[i] = f[Len(f)]
    BY <1>1, <2>1
  <2>3. i < Len(f) /\ i \in 1..Len(f)
    BY <1>0, <1>6
  <2>4. f[i] = f[Len(f)]
    BY <1>5, <2>1, <2>2
  <2>. QED
    BY <1>2, <2>1, <2>3, <2>4
<1>7. ASSUME Len(f) < Len(e) PROVE FALSE
  <2>1. n = Len(f) /\ Len(e) \in 1..Len(e)
    BY <1>len, <1>3, <1>7
  <2>2. PICK i \in 1..Len(f) : e[Len(e)] = f[i]
    BY <1>1, <2>1
  <2>3. i < Len(e) /\ i \in 1..Len(e)
    BY <1>0, <1>7
  <2>4. e[i] = e[Len(e)]
    BY <1>5, <2>1, <2>2
  <2>. QED
    BY <1>2, <2>1, <2>3, <2>4, SMTT(60)
<1>8. Len(e) = Len(f)
  BY <1>len, <1>6, <1>7
<1>9. \A i \in 1..Len(e) : e[i] = f[i]
  BY <1>3, <1>5, <1>8
<1>. QED
  BY <1>0, <1>8, <1>9

\* A listing of a set of diffs at numbered paths is the one it has.
LEMMA ListingIs ==
  ASSUME NEW diffs, \A d \in diffs : At(d) \in Nat, NEW e, Lists(e, diffs)
  PROVE  Listing(diffs) = e /\ Lists(Listing(diffs), diffs)
<1>1. Lists(Listing(diffs), diffs)
  BY DEF Listing
<1>. QED
  BY <1>1, OneListing

\* The groups are one after the other, and cover the list.
LEMMA CutCovers ==
  ASSUME NEW list \in Seq(Units), NEW groups, NEW g, CutAt(list, Len(list), groups, g)
  PROVE  /\ \A i, j \in 0..Len(groups) : i <= j => g[i] <= g[j]
         /\ \A x \in 1..Len(list) : \E k \in 1..Len(groups) : g[k - 1] < x /\ x <= g[k]
<1>. DEFINE m == Len(groups)
<1>1. /\ m \in Nat /\ Len(list) \in Nat
      /\ g \in [0..m -> 0..Len(list)] /\ g[0] = 0 /\ g[m] = Len(list)
      /\ \A i \in 1..m : g[i - 1] < g[i]
  <2>1. groups \in Seq(Seq(Units))
    BY DEF CutAt
  <2>. QED
    BY <2>1 DEF CutAt
<1>. HIDE DEF m
<1>2. \A i \in 0..m : g[i] \in Nat
  BY <1>1
<1>3. ASSUME NEW i \in 0..m, NEW j \in 0..m, i <= j PROVE g[i] <= g[j]
  <2>. DEFINE S == {k \in 0..(j - i) : g[i] <= g[i + k]}
  <2>1. 0 \in S /\ j - i \in Nat /\ i + (j - i) = j
    BY <1>1, <1>2, <1>3
  <2>2. ASSUME NEW k \in 0..(j - i), k # j - i, k \in S PROVE k + 1 \in S
    <3>1. /\ i + k \in 0..m /\ i + (k + 1) \in 1..m /\ i + (k + 1) \in 0..m
          /\ (i + (k + 1)) - 1 = i + k /\ k + 1 \in 0..(j - i)
      BY <1>1, <1>3, <2>2
    <3>2. g[i + k] < g[i + (k + 1)]
      BY <1>1, <3>1
    <3>3. g[i] \in Nat /\ g[i + k] \in Nat /\ g[i + (k + 1)] \in Nat
      BY <1>2, <3>1
    <3>. QED
      BY <2>2, <3>1, <3>2, <3>3
  <2>3. j - i \in S
    <3>. HIDE DEF S
    <3>1. \A k \in 0..(j - i) : k \in S
      BY <2>1, <2>2, Ladder, Zenon
    <3>. QED
      BY <2>1, <3>1
  <2>. QED
    BY <2>1, <2>3
<1>4. ASSUME NEW x \in 1..Len(list)
      PROVE  \E k \in 1..m : g[k - 1] < x /\ x <= g[k]
  <2>. DEFINE T == {k \in 0..m : x <= g[k]}
  <2>1. T \in SUBSET Nat /\ m \in T
    BY <1>1
  <2>2. PICK k \in T : \A j \in T : k <= j
    <3>. HIDE DEF T
    <3>. QED
      BY <2>1, LeastNumber
  <2>3. k \in 1..m /\ k - 1 \in 0..m
    BY <1>1, <2>2
  <2>4. k - 1 \notin T
    BY <1>1, <2>2
  <2>5. g[k - 1] < x
    BY <1>2, <2>3, <2>4
  <2>. QED
    BY <2>2, <2>3, <2>5
<1>. QED
  BY <1>3, <1>4 DEF m

\* The unit of a change is a unit.
LEMMA UnitIs ==
  ASSUME NEW tree \in Trees, NEW d \in StagedDiff(tree, Paths)
  PROVE  UnitFor(d) \in Units
<1>1. d \in Diffs /\ DiffPaths(d) # {} /\ DiffPaths(d) \subseteq Paths
  <2>1. Paths \in SUBSET Paths
    OBVIOUS
  <2>. QED
    BY <2>1, DiffCovers
<1>2. TargetsFor(d) \in SUBSET TargetRecords
  BY <1>1, TargetsAre
<1>3. {d} \in Patches
  <2>1. {d} = {d, d}
    OBVIOUS
  <2>. QED
    BY <1>1, <2>1 DEF Patches
<1>. QED
  BY <1>2, <1>3 DEF UnitFor, Units

\* So a listing's are.
LEMMA UnitsAre ==
  ASSUME NEW tree \in Trees, NEW e \in Seq(StagedDiff(tree, Paths))
  PROVE  /\ UnitsFor(e) \in Seq(Units) /\ Len(UnitsFor(e)) = Len(e) /\ Len(e) \in Nat
         /\ \A i \in 1..Len(e) : UnitsFor(e)[i] = UnitFor(e[i])
<1>1. \A d \in StagedDiff(tree, Paths) : UnitFor(d) \in Units
  BY UnitIs
<1>2. Len(e) \in Nat /\ DOMAIN e = 1..Len(e) /\ \A i \in 1..Len(e) : e[i] \in StagedDiff(tree, Paths)
  OBVIOUS
<1>3. UnitsFor(e) = [i \in 1..Len(e) |-> UnitFor(e[i])]
  BY <1>2 DEF UnitsFor
<1>4. \A i \in 1..Len(e) : UnitFor(e[i]) \in Units
  BY <1>1, <1>2
<1>. QED
  BY <1>2, <1>3, <1>4

\* Where a staging's groups end in its listing, and what a chunk of it holds.
Spans(D, g) ==
  /\ Len(Groups(D)) \in Nat /\ DOMAIN Groups(D) = 1..Len(Groups(D))
  /\ g \in [0..Len(Groups(D)) -> 0..Len(Listing(D))]
  /\ \A k \in 1..Len(Groups(D)) : g[k - 1] < g[k]
  /\ \A i, j \in 0..Len(Groups(D)) : i <= j => g[i] <= g[j]
  /\ \A x \in 1..Len(Listing(D)) : \E k \in 1..Len(Groups(D)) : g[k - 1] < x /\ x <= g[k]
  /\ \A chunk : IsPart(chunk, D) =>
       /\ ChunkDiffs(chunk) = {Listing(D)[x] : x \in (g[chunk.index - 1] + 1)..g[chunk.index]}
       /\ chunk.targets = UNION {TargetsFor(d) : d \in ChunkDiffs(chunk)}

\* They end somewhere.
LEMMA GroupsSpan ==
  ASSUME NEW tree \in Trees, NEW D, D = StagedDiff(tree, Paths),
         Lists(Listing(D), D),
         \A d \in D : UnitBytes(UnitFor(d)) <= MaxBytes
  PROVE  \E g : Spans(D, g)
<1>. DEFINE e == Listing(D)
            list == UnitsFor(e)
            groups == Groups(D)
            m == Len(groups)
<1>1. /\ e \in Seq(D) /\ Len(e) \in Nat /\ DOMAIN e = 1..Len(e)
      /\ \A i \in 1..Len(e) : e[i] \in D
  <2>1. e \in Seq(D)
    BY DEF Lists
  <2>. QED
    BY <2>1
<1>2. /\ list \in Seq(Units) /\ Len(list) = Len(e)
      /\ \A i \in 1..Len(e) : list[i] = UnitFor(e[i])
  BY <1>1, UnitsAre
<1>. HIDE DEF list, e
<1>3. PICK g : CutAt(list, Len(list), groups, g)
  <2>1. \A i \in 1..Len(list) : UnitBytes(list[i]) <= MaxBytes
    BY <1>1, <1>2
  <2>2. groups = PackUnits(list)
    BY DEF Groups, list, e
  <2>. QED
    BY <1>2, <2>1, <2>2, PackingCuts
<1>. HIDE DEF groups
<1>4. /\ groups \in Seq(Seq(Units)) /\ m \in Nat /\ DOMAIN groups = 1..m
      /\ g \in [0..m -> 0..Len(e)]
      /\ \A k \in 1..m : g[k - 1] < g[k] /\ groups[k] = Slice(list, g[k - 1], g[k])
  <2>1. groups \in Seq(Seq(Units))
    BY <1>3 DEF CutAt
  <2>2. m \in Nat /\ DOMAIN groups = 1..m
    BY <2>1
  <2>3. /\ g \in [0..m -> 0..Len(list)]
        /\ \A k \in 1..m : g[k - 1] < g[k] /\ groups[k] = Slice(list, g[k - 1], g[k])
    BY <1>3 DEF CutAt
  <2>. QED
    BY <1>2, <2>1, <2>2, <2>3
<1>5. /\ \A i, j \in 0..m : i <= j => g[i] <= g[j]
      /\ \A x \in 1..Len(e) : \E k \in 1..m : g[k - 1] < x /\ x <= g[k]
  BY <1>2, <1>3, CutCovers
<1>. HIDE DEF m
<1>6. ASSUME NEW chunk, IsPart(chunk, D)
      PROVE  /\ ChunkDiffs(chunk) = {e[x] : x \in (g[chunk.index - 1] + 1)..g[chunk.index]}
             /\ chunk.targets = UNION {TargetsFor(d) : d \in ChunkDiffs(chunk)}
  <2>. DEFINE k == chunk.index
              group == groups[k]
              a == g[k - 1]
              b == g[k]
  <2>1. /\ k \in 1..m
        /\ chunk.patch = [i \in DOMAIN group |-> group[i].patch]
        /\ chunk.targets = UNION {unit.targets : unit \in Range(group)}
    BY <1>4, <1>6 DEF IsPart, groups
  <2>2. group = Slice(list, a, b)
    BY <1>4, <2>1
  <2>3. a \in Nat /\ b \in Nat /\ b <= Len(e)
    <3>1. k - 1 \in 0..m /\ k \in 0..m
      BY <1>4, <2>1
    <3>. QED
      BY <1>1, <1>4, <3>1
  <2>. HIDE DEF a, b, group, k
  <2>4. /\ DOMAIN group = 1..(b - a)
        /\ \A i \in 1..(b - a) : a + i \in 1..Len(e) /\ group[i] = UnitFor(e[a + i])
    <3>1. group = [i \in 1..(b - a) |-> list[a + i]]
      BY <2>2 DEF Slice
    <3>2. \A i \in 1..(b - a) : a + i \in 1..Len(e)
      BY <1>1, <2>3
    <3>. QED
      BY <1>2, <3>1, <3>2
  <2>5. /\ \A x \in (a + 1)..b : x - a \in 1..(b - a) /\ a + (x - a) = x
        /\ \A i \in 1..(b - a) : a + i \in (a + 1)..b
    BY <2>3
  <2>6. ChunkDiffs(chunk) = UNION {group[i].patch : i \in 1..(b - a)}
    <3>1. Range(chunk.patch) = {group[i].patch : i \in 1..(b - a)}
      BY <2>1, <2>4 DEF Range
    <3>. QED
      BY <3>1 DEF ChunkDiffs
  <2>7. ChunkDiffs(chunk) = {e[x] : x \in (a + 1)..b}
    <3>1. \A i \in 1..(b - a) : group[i].patch = {e[a + i]}
      BY <2>4 DEF UnitFor
    <3>2. \A d : d \in ChunkDiffs(chunk) <=> \E i \in 1..(b - a) : d = e[a + i]
      BY <2>6, <3>1
    <3>3. \A d : (\E i \in 1..(b - a) : d = e[a + i]) <=> \E x \in (a + 1)..b : d = e[x]
      BY <2>5
    <3>. QED
      BY <3>2, <3>3
  <2>8. chunk.targets = UNION {TargetsFor(d) : d \in ChunkDiffs(chunk)}
    <3>1. {unit.targets : unit \in Range(group)} = {group[i].targets : i \in 1..(b - a)}
      BY <2>4 DEF Range
    <3>2. \A i \in 1..(b - a) : group[i].targets = TargetsFor(e[a + i])
      BY <2>4 DEF UnitFor
    <3>3. {unit.targets : unit \in Range(group)} = {TargetsFor(e[a + i]) : i \in 1..(b - a)}
      BY <3>1, <3>2
    <3>4. {TargetsFor(e[a + i]) : i \in 1..(b - a)} = {TargetsFor(e[x]) : x \in (a + 1)..b}
      BY <2>5
    <3>5. {TargetsFor(e[x]) : x \in (a + 1)..b} = {TargetsFor(d) : d \in ChunkDiffs(chunk)}
      BY <2>7
    <3>. QED
      BY <2>1, <3>3, <3>4, <3>5
  <2>. QED
    BY <2>7, <2>8 DEF a, b, k
<1>7. /\ m \in Nat /\ DOMAIN groups = 1..m /\ g \in [0..m -> 0..Len(e)]
      /\ \A k \in 1..m : g[k - 1] < g[k]
  BY <1>4
<1>. QED
  BY <1>5, <1>6, <1>7 DEF Spans, groups, m, e

\* A chunk of a staging holds some of its changes, and their targets.
LEMMA PartIs ==
  ASSUME NEW tree \in Trees, NEW D, D = StagedDiff(tree, Paths), NEW c, IsPart(c, D)
  PROVE  /\ ChunkDiffs(c) # {} /\ ChunkDiffs(c) \subseteq D
         /\ c.targets = UNION {TargetsFor(d) : d \in ChunkDiffs(c)}
<1>. DEFINE e == Listing(D)
            k == c.index
            m == Len(Groups(D))
<1>1. Lists(e, D) /\ (\A d \in D : UnitBytes(UnitFor(d)) <= MaxBytes) /\ k \in DOMAIN Groups(D)
  BY DEF IsPart
<1>2. PICK g :
        /\ m \in Nat /\ DOMAIN Groups(D) = 1..m
        /\ g \in [0..m -> 0..Len(e)]
        /\ \A i \in 1..m : g[i - 1] < g[i]
        /\ ChunkDiffs(c) = {e[x] : x \in (g[k - 1] + 1)..g[k]}
        /\ c.targets = UNION {TargetsFor(d) : d \in ChunkDiffs(c)}
  <2>1. PICK g : Spans(D, g)
    BY <1>1, GroupsSpan
  <2>. QED
    BY <2>1 DEF Spans
<1>. HIDE DEF e, m, k
<1>3. k \in 1..m /\ k - 1 \in 0..m /\ k \in 0..m /\ g[k - 1] < g[k]
  BY <1>1, <1>2
<1>4. Len(e) \in Nat /\ \A i \in 1..Len(e) : e[i] \in D
  <2>1. e \in Seq(D)
    BY <1>1 DEF Lists
  <2>. QED
    BY <2>1
<1>5. g[k - 1] \in 0..Len(e) /\ g[k] \in 0..Len(e)
  BY <1>2, <1>3
<1>6. g[k] \in (g[k - 1] + 1)..g[k] /\ (g[k - 1] + 1)..g[k] \subseteq 1..Len(e)
  <2>. DEFINE n == Len(e)
              lo == g[k - 1]
              hi == g[k]
  <2>1. n \in Nat /\ lo \in 0..n /\ hi \in 0..n /\ lo < hi
    BY <1>3, <1>4, <1>5
  <2>. HIDE DEF n, lo, hi
  <2>2. hi \in (lo + 1)..hi /\ (lo + 1)..hi \subseteq 1..n
    BY <2>1
  <2>. QED
    BY <2>2 DEF n, lo, hi
<1>7. \A x \in (g[k - 1] + 1)..g[k] : e[x] \in D
  BY <1>4, <1>6
<1>8. e[g[k]] \in ChunkDiffs(c)
  BY <1>2, <1>6
<1>9. ChunkDiffs(c) \subseteq D
  BY <1>2, <1>7
<1>. QED
  BY <1>2, <1>8, <1>9

\* A change is in the chunks of one number, and those hold the same changes.
LEMMA PartsApart ==
  ASSUME NEW tree \in Trees, NEW D, D = StagedDiff(tree, Paths),
         NEW b, NEW c, IsPart(b, D), IsPart(c, D),
         NEW d, d \in ChunkDiffs(b), d \in ChunkDiffs(c)
  PROVE  ChunkDiffs(b) = ChunkDiffs(c) /\ b.index = c.index
<1>. DEFINE e == Listing(D)
            m == Len(Groups(D))
<1>1. /\ Lists(e, D) /\ (\A x \in D : UnitBytes(UnitFor(x)) <= MaxBytes)
      /\ b.index \in DOMAIN Groups(D) /\ c.index \in DOMAIN Groups(D)
  BY DEF IsPart
<1>2. PICK g :
        /\ m \in Nat /\ DOMAIN Groups(D) = 1..m
        /\ g \in [0..m -> 0..Len(e)]
        /\ \A i, j \in 0..m : i <= j => g[i] <= g[j]
        /\ ChunkDiffs(b) = {e[x] : x \in (g[b.index - 1] + 1)..g[b.index]}
        /\ ChunkDiffs(c) = {e[x] : x \in (g[c.index - 1] + 1)..g[c.index]}
  <2>1. PICK g : Spans(D, g)
    BY <1>1, GroupsSpan
  <2>. QED
    BY <2>1 DEF Spans
<1>. HIDE DEF e
<1>. DEFINE j == b.index
            k == c.index
<1>3. j \in 1..m /\ k \in 1..m
  BY <1>1, <1>2
<1>4. ChunkDiffs(b) = {e[x] : x \in (g[j - 1] + 1)..g[j]} /\ ChunkDiffs(c) = {e[x] : x \in (g[k - 1] + 1)..g[k]}
  BY <1>2
<1>. HIDE DEF j, k, m
<1>5. PICK x \in (g[j - 1] + 1)..g[j], y \in (g[k - 1] + 1)..g[k] : e[x] = d /\ e[y] = d
  BY <1>4
<1>6. /\ j - 1 \in 0..m /\ k - 1 \in 0..m /\ j \in 0..m /\ k \in 0..m
      /\ g[j - 1] \in 0..Len(e) /\ g[k - 1] \in 0..Len(e)
      /\ g[j] \in 0..Len(e) /\ g[k] \in 0..Len(e)
  <2>1. j - 1 \in 0..m /\ k - 1 \in 0..m /\ j \in 0..m /\ k \in 0..m
    BY <1>2, <1>3
  <2>. QED
    BY <1>2, <2>1
<1>7. Len(e) \in Nat /\ DOMAIN e = 1..Len(e) /\ \A i \in 1..Len(e) : At(e[i]) \in Nat
  <2>1. e \in Seq(D)
    BY <1>1 DEF Lists
  <2>2. \A i \in DOMAIN e : e[i] \in D
    BY <2>1
  <2>3. \A f \in D : At(f) \in Nat
    <3>1. Paths \in SUBSET Paths
      OBVIOUS
    <3>. QED
      BY <3>1, DiffCovers, BatchProducerAssumption
  <2>. QED
    BY <2>1, <2>2, <2>3
<1>8. x \in 1..Len(e) /\ y \in 1..Len(e) /\ g[j - 1] < x /\ x <= g[j] /\ g[k - 1] < y /\ y <= g[k]
  <2>. DEFINE n == Len(e)
              gj == g[j - 1]
              hj == g[j]
              gk == g[k - 1]
              hk == g[k]
  <2>1. /\ n \in Nat /\ gj \in 0..n /\ hj \in 0..n /\ gk \in 0..n /\ hk \in 0..n
        /\ x \in (gj + 1)..hj /\ y \in (gk + 1)..hk
    BY <1>6, <1>7
  <2>. HIDE DEF n, gj, hj, gk, hk
  <2>2. x \in 1..n /\ y \in 1..n /\ gj < x /\ x <= hj /\ gk < y /\ y <= hk
    BY <2>1
  <2>. QED
    BY <2>2 DEF n, gj, hj, gk, hk
<1>9. x = y
  <2>1. \A i, n \in 1..Len(e) : i < n => At(e[i]) < At(e[n])
    BY <1>1, <1>7 DEF Lists, Ascending
  <2>2. At(e[x]) = At(e[y])
    BY <1>5
  <2>3. At(e[x]) \in Nat
    BY <1>7, <1>8
  <2>. QED
    BY <1>7, <1>8, <2>1, <2>2, <2>3
<1>10. ~(j < k)
  <2>. SUFFICES ASSUME j < k PROVE FALSE
    OBVIOUS
  <2>1. j <= k - 1
    BY <1>2, <1>3
  <2>2. g[j] <= g[k - 1]
    BY <1>2, <1>6, <2>1
  <2>3. x \in Nat /\ g[j] \in Nat /\ g[k - 1] \in Nat
    BY <1>6, <1>8
  <2>. QED
    BY <1>8, <1>9, <2>2, <2>3
<1>11. ~(k < j)
  <2>. SUFFICES ASSUME k < j PROVE FALSE
    OBVIOUS
  <2>1. k <= j - 1
    BY <1>2, <1>3
  <2>2. g[k] <= g[j - 1]
    BY <1>2, <1>6, <2>1
  <2>3. x \in Nat /\ g[k] \in Nat /\ g[j - 1] \in Nat
    BY <1>6, <1>8
  <2>. QED
    BY <1>8, <1>9, <2>2, <2>3
<1>12. j = k
  BY <1>2, <1>3, <1>10, <1>11
<1>. QED
  BY <1>4, <1>12 DEF j, k

\* Every change is in the chunks of some number.
LEMMA PartsCover ==
  ASSUME NEW tree \in Trees, NEW D, D = StagedDiff(tree, Paths), Lists(Listing(D), D),
         \A x \in D : UnitBytes(UnitFor(x)) <= MaxBytes, NEW d \in D
  PROVE  \E k \in 1..Len(Groups(D)) :
           \A c : IsPart(c, D) /\ c.index = k => d \in ChunkDiffs(c)
<1>. DEFINE e == Listing(D)
            m == Len(Groups(D))
<1>1. PICK g :
        /\ m \in Nat /\ g \in [0..m -> 0..Len(e)]
        /\ \A x \in 1..Len(e) : \E k \in 1..m : g[k - 1] < x /\ x <= g[k]
        /\ \A c : IsPart(c, D) =>
             ChunkDiffs(c) = {e[x] : x \in (g[c.index - 1] + 1)..g[c.index]}
  <2>1. PICK g : Spans(D, g)
    BY GroupsSpan
  <2>. QED
    BY <2>1 DEF Spans
<1>2. Len(e) \in Nat /\ \E x \in 1..Len(e) : e[x] = d
  <2>1. e \in Seq(D) /\ D = {e[i] : i \in DOMAIN e}
    BY DEF Lists
  <2>. HIDE DEF e
  <2>. QED
    BY <2>1
<1>. HIDE DEF e, m
<1>3. PICK x \in 1..Len(e) : e[x] = d
  BY <1>2
<1>4. PICK k \in 1..m : g[k - 1] < x /\ x <= g[k]
  BY <1>1, <1>3
<1>5. x \in (g[k - 1] + 1)..g[k]
  <2>1. k - 1 \in 0..m /\ k \in 0..m
    BY <1>1, <1>4
  <2>2. g[k - 1] \in 0..Len(e) /\ g[k] \in 0..Len(e)
    BY <1>1, <2>1
  <2>. QED
    BY <1>2, <1>4, <2>2
<1>6. \A c : IsPart(c, D) /\ c.index = k => d \in ChunkDiffs(c)
  BY <1>1, <1>3, <1>5
<1>. QED
  BY <1>4, <1>6 DEF m

-----------------------------------------------------------------------------
(* What the processor makes of them.                                       *)

\* A change has the contents of its paths on both sides.
LEMMA DiffSides ==
  ASSUME NEW tree \in Trees, NEW d \in StagedDiff(tree, Paths)
  PROVE  /\ d.old \in Paths \cup {Absent} /\ d.new \in Paths \cup {Absent} /\ Absent \notin Paths
         /\ d.old = Absent => d.from = Absent
         /\ d.old # Absent => d.from = Base[d.old]
         /\ d.new # Absent => d.to = tree[d.new] /\ d.to # Absent
         /\ d.old # Absent /\ d.old # d.new => tree[d.old] = Absent
         /\ d.new # Absent /\ d.old # d.new => Base[d.new] = Absent
<1>0. Paths \in SUBSET Paths /\ Absent \notin Paths
  BY BatchProducerAssumption
<1>1. CASE \E r \in Renames(tree, Paths) :
             d = Move(tree, r[1], r[2]) /\ Moved(tree, Paths, r[1], r[2])
  <2>1. PICK r \in Renames(tree, Paths) :
               d = Move(tree, r[1], r[2]) /\ Moved(tree, Paths, r[1], r[2])
    BY <1>1
  <2>. QED
    BY <1>0, <2>1 DEF Move, Moved
<1>2. CASE \E p \in Paths : d = Edit(tree, p) /\ Base[p] # tree[p]
  <2>1. PICK p \in Paths : d = Edit(tree, p) /\ Base[p] # tree[p]
    BY <1>2
  <2>. QED
    BY <1>0, <2>1 DEF Edit
<1>. QED
  BY <1>0, <1>1, <1>2, DiffShape

\* What the targets of a change say of its paths.
LEMMA TargetSides ==
  ASSUME NEW tree \in Trees, NEW d \in StagedDiff(tree, Paths)
  PROVE  /\ \A t \in TargetsFor(d) : t.path \in DiffPaths(d) /\ t.base = Base[t.path]
         /\ \E t \in TargetsFor(d) : TRUE
         /\ {<<t.path, t.op>> : t \in TargetsFor(d)}
              = {<<x.new, IF x.old = x.new THEN "modify" ELSE "create">> : x \in {x \in {d} : x.new # Absent}}
                  \cup {<<x.old, "delete">> : x \in {x \in {d} : x.old \notin {Absent, x.new}}}
<1>1. /\ d.new # Absent /\ d.old # d.new => Base[d.new] = Absent
      /\ d \in Diffs /\ DiffPaths(d) # {} /\ DiffPaths(d) \subseteq Paths
  <2>1. Paths \in SUBSET Paths
    OBVIOUS
  <2>. QED
    BY <2>1, DiffSides, DiffCovers
<1>2. CASE d.old = d.new
  <2>1. d.new # Absent /\ DiffPaths(d) = {d.new}
    BY <1>1, <1>2 DEF DiffPaths
  <2>2. TargetsFor(d) = {[path |-> d.new, op |-> "modify", base |-> Base[d.new]]}
    BY <1>2 DEF TargetsFor, Target
  <2>3. {<<t.path, t.op>> : t \in TargetsFor(d)} = {<<d.new, "modify">>}
    BY <2>2
  <2>4. {<<x.new, IF x.old = x.new THEN "modify" ELSE "create">> : x \in {x \in {d} : x.new # Absent}}
          = {<<d.new, "modify">>}
    BY <1>2, <2>1
  <2>5. {<<x.old, "delete">> : x \in {x \in {d} : x.old \notin {Absent, x.new}}} = {}
    BY <1>2
  <2>6. /\ \A t \in TargetsFor(d) : t.path \in DiffPaths(d) /\ t.base = Base[t.path]
        /\ \E t \in TargetsFor(d) : TRUE
    BY <2>1, <2>2
  <2>. QED
    BY <2>3, <2>4, <2>5, <2>6
<1>3. CASE d.old # d.new
  <2>. DEFINE A == {[path |-> p, op |-> "delete", base |-> Base[p]] : p \in {d.old} \ {Absent}}
              B == {[path |-> p, op |-> "create", base |-> Absent] : p \in {d.new} \ {Absent}}
              C == {<<x.new, IF x.old = x.new THEN "modify" ELSE "create">> :
                      x \in {x \in {d} : x.new # Absent}}
              D == {<<x.old, "delete">> : x \in {x \in {d} : x.old \notin {Absent, x.new}}}
  <2>1. TargetsFor(d) = A \cup B
    BY <1>3 DEF TargetsFor, Target
  <2>2. \A t \in A : t.path \in DiffPaths(d) /\ t.base = Base[t.path]
    BY DEF DiffPaths
  <2>3. \A t \in B : t.path \in DiffPaths(d) /\ t.base = Base[t.path]
    BY <1>1, <1>3 DEF DiffPaths
  <2>4. {<<t.path, t.op>> : t \in A} = {<<p, "delete">> : p \in {d.old} \ {Absent}}
    <3>1. ASSUME NEW t \in A PROVE <<t.path, t.op>> \in {<<p, "delete">> : p \in {d.old} \ {Absent}}
      OBVIOUS
    <3>2. ASSUME NEW p \in {d.old} \ {Absent} PROVE \E t \in A : <<t.path, t.op>> = <<p, "delete">>
      <4>. DEFINE t == [path |-> p, op |-> "delete", base |-> Base[p]]
      <4>1. t \in A /\ <<t.path, t.op>> = <<p, "delete">>
        OBVIOUS
      <4>. HIDE DEF t, A
      <4>. QED
        BY <4>1
    <3>. HIDE DEF A
    <3>. QED
      BY <3>1, <3>2
  <2>5. {<<t.path, t.op>> : t \in B} = {<<p, "create">> : p \in {d.new} \ {Absent}}
    <3>1. ASSUME NEW t \in B PROVE <<t.path, t.op>> \in {<<p, "create">> : p \in {d.new} \ {Absent}}
      OBVIOUS
    <3>2. ASSUME NEW p \in {d.new} \ {Absent} PROVE \E t \in B : <<t.path, t.op>> = <<p, "create">>
      <4>. DEFINE t == [path |-> p, op |-> "create", base |-> Absent]
      <4>1. t \in B /\ <<t.path, t.op>> = <<p, "create">>
        OBVIOUS
      <4>. HIDE DEF t, B
      <4>. QED
        BY <4>1
    <3>. HIDE DEF B
    <3>. QED
      BY <3>1, <3>2
  <2>6. C = {<<p, "create">> : p \in {d.new} \ {Absent}}
    BY <1>3
  <2>7. D = {<<p, "delete">> : p \in {d.old} \ {Absent}}
    BY <1>3
  <2>8. \E t \in TargetsFor(d) : TRUE
    BY <1>1, TargetsAre
  <2>. HIDE DEF A, B, C, D
  <2>9. {<<t.path, t.op>> : t \in A \cup B} = {<<t.path, t.op>> : t \in A} \cup {<<t.path, t.op>> : t \in B}
    OBVIOUS
  <2>10. {<<t.path, t.op>> : t \in TargetsFor(d)} = C \cup D
    BY <2>1, <2>4, <2>5, <2>6, <2>7, <2>9
  <2>11. \A t \in TargetsFor(d) : t.path \in DiffPaths(d) /\ t.base = Base[t.path]
    BY <2>1, <2>2, <2>3
  <2>. QED
    BY <2>8, <2>10, <2>11 DEF C, D
<1>. QED
  BY <1>2, <1>3

\* The targets of a staging's chunk agree with its patch.
LEMMA PartAgrees ==
  ASSUME NEW tree \in Trees, NEW D, D = StagedDiff(tree, Paths), NEW c, IsPart(c, D)
  PROVE  Agrees(c, ChunkDiffs(c))
<1>. DEFINE E == ChunkDiffs(c)
            N(S) == {<<x.new, IF x.old = x.new THEN "modify" ELSE "create">> :
                       x \in {x \in S : x.new # Absent}}
            G(S) == {<<x.old, "delete">> : x \in {x \in S : x.old \notin {Absent, x.new}}}
            T(d) == {<<t.path, t.op>> : t \in TargetsFor(d)}
<1>1. E \subseteq D /\ c.targets = UNION {TargetsFor(d) : d \in E}
  BY PartIs
<1>. HIDE DEF E
<1>2. {<<t.path, t.op>> : t \in c.targets} = UNION {T(d) : d \in E}
  BY <1>1
<1>3. \A d \in E : T(d) = N({d}) \cup G({d})
  BY <1>1, TargetSides
<1>4. N(E) = UNION {N({d}) : d \in E} /\ G(E) = UNION {G({d}) : d \in E}
  OBVIOUS
<1>. HIDE DEF T, N, G
<1>5. {<<t.path, t.op>> : t \in c.targets} = N(E) \cup G(E)
  <2>. DEFINE P == {<<t.path, t.op>> : t \in c.targets}
  <2>1. P = UNION {T(d) : d \in E}
    BY <1>2
  <2>. HIDE DEF P
  <2>2. \A x : x \in P <=> \E d \in E : x \in T(d)
    BY <2>1
  <2>3. \A x : x \in N(E) <=> \E d \in E : x \in N({d})
    BY <1>4
  <2>4. \A x : x \in G(E) <=> \E d \in E : x \in G({d})
    BY <1>4
  <2>5. \A d \in E : \A x : x \in T(d) <=> x \in N({d}) \/ x \in G({d})
    BY <1>3, Zenon
  <2>6. \A x : x \in P <=> x \in N(E) \/ x \in G(E)
    BY <2>2, <2>3, <2>4, <2>5, Zenon
  <2>7. P = N(E) \cup G(E)
    BY <2>6, Zenon
  <2>. QED
    BY <2>7 DEF P
<1>. QED
  BY <1>5 DEF Agrees, N, G, E

\* A chunk none of whose changes has been made meets its paths as they were.
LEMMA PartMeets ==
  ASSUME NEW tree \in Trees, NEW D, D = StagedDiff(tree, Paths), NEW c, IsPart(c, D),
         NEW done \in SUBSET D, ChunkDiffs(c) \cap done = {}
  PROVE  /\ \A d \in ChunkDiffs(c) : \A p \in DiffPaths(d) :
              p \in Paths /\ Vault(tree, done)[p] = Base[p]
         /\ \A d, x \in ChunkDiffs(c) : \A p : p \in DiffPaths(d) /\ p \in DiffPaths(x) => d = x
         /\ \A d \in ChunkDiffs(c) :
              /\ d.old \in Paths \cup {Absent} /\ d.new \in Paths \cup {Absent} /\ Absent \notin Paths
              /\ DiffPaths(d) = {d.old, d.new} \ {Absent}
              /\ d.old = Absent => d.from = Absent
              /\ d.old # Absent => d.from = Base[d.old] /\ Vault(tree, done)[d.old] = Base[d.old]
              /\ d.new # Absent => d.to = tree[d.new] /\ d.to # Absent
              /\ d.old # Absent /\ d.old # d.new => tree[d.old] = Absent
              /\ d.new # Absent /\ d.old # d.new => Base[d.new] = Absent
              /\ d \in StagedDiff(tree, Paths)
<1>. DEFINE E == ChunkDiffs(c)
            v == Vault(tree, done)
<1>1. E \subseteq D
  BY PartIs
<1>2. /\ \A d \in D : DiffPaths(d) \subseteq Paths
      /\ \A d, x \in D : \A p : p \in DiffPaths(d) /\ p \in DiffPaths(x) => d = x
  <2>1. Paths \in SUBSET Paths
    OBVIOUS
  <2>. QED
    BY <2>1, DiffCovers
<1>3. \A p \in Paths : v[p] = IF \E d \in done : p \in DiffPaths(d) THEN tree[p] ELSE Base[p]
  BY DEF Vault
<1>. HIDE DEF E, v
<1>4. \A d \in E : \A p \in DiffPaths(d) : p \in Paths /\ v[p] = Base[p]
  BY <1>1, <1>2, <1>3 DEF E
<1>5. ASSUME NEW d \in E
      PROVE  /\ d.old \in Paths \cup {Absent} /\ d.new \in Paths \cup {Absent} /\ Absent \notin Paths
             /\ DiffPaths(d) = {d.old, d.new} \ {Absent}
             /\ d.old = Absent => d.from = Absent
             /\ d.old # Absent => d.from = Base[d.old] /\ v[d.old] = Base[d.old]
             /\ d.new # Absent => d.to = tree[d.new] /\ d.to # Absent
             /\ d.old # Absent /\ d.old # d.new => tree[d.old] = Absent
             /\ d.new # Absent /\ d.old # d.new => Base[d.new] = Absent
             /\ d \in StagedDiff(tree, Paths)
  <2>1. d \in StagedDiff(tree, Paths)
    BY <1>1
  <2>2. DiffPaths(d) = {d.old, d.new} \ {Absent}
    BY DEF DiffPaths
  <2>. QED
    BY <1>4, <2>1, <2>2, DiffSides
<1>6. \A d, x \in E : \A p : p \in DiffPaths(d) /\ p \in DiffPaths(x) => d = x
  BY <1>1, <1>2
<1>. QED
  BY <1>4, <1>5, <1>6 DEF E, v

\* Its patch makes its changes.
LEMMA PartWrites ==
  ASSUME NEW tree \in Trees, NEW D, D = StagedDiff(tree, Paths), NEW c, IsPart(c, D),
         NEW done \in SUBSET D, ChunkDiffs(c) \cap done = {}
  PROVE  \A p \in Paths : Written(Vault(tree, done), ChunkDiffs(c), p)
                            = Vault(tree, done \cup ChunkDiffs(c))[p]
<1>. DEFINE E == ChunkDiffs(c)
            v == Vault(tree, done)
<1>1. /\ \A d \in E : \A p \in DiffPaths(d) : p \in Paths /\ v[p] = Base[p]
      /\ \A d, x \in E : \A p : p \in DiffPaths(d) /\ p \in DiffPaths(x) => d = x
  BY PartMeets
<1>3. \A p \in Paths : v[p] = IF \E d \in done : p \in DiffPaths(d) THEN tree[p] ELSE Base[p]
  BY DEF Vault
<1>4. \A d \in E :
        /\ d.old \in Paths \cup {Absent} /\ d.new \in Paths \cup {Absent} /\ Absent \notin Paths
        /\ DiffPaths(d) = {d.old, d.new} \ {Absent}
        /\ d.old = Absent => d.from = Absent
        /\ d.old # Absent => d.from = Base[d.old] /\ v[d.old] = Base[d.old]
        /\ d.new # Absent => d.to = tree[d.new] /\ d.to # Absent
        /\ d.old # Absent /\ d.old # d.new => tree[d.old] = Absent
  BY PartMeets
<1>. HIDE DEF E, v
<1>6. ASSUME NEW p \in Paths
      PROVE  Written(v, E, p) = IF \E d \in done \cup E : p \in DiffPaths(d) THEN tree[p] ELSE Base[p]
  <2>1. p # Absent
    BY BatchProducerAssumption
  <2>2. CASE \E d \in E : p \in DiffPaths(d)
    <3>1. PICK d \in E : p \in DiffPaths(d)
      BY <2>2
    <3>2. \A x \in E : p \in DiffPaths(x) => x = d
      BY <1>1, <3>1
    <3>3. CASE d.new = p
      <4>1. \A x \in E : x.new = p <=> x = d
        BY <1>4, <2>1, <3>2, <3>3
      <4>2. (\E x \in E : x.new = p) /\ (CHOOSE x \in E : x.new = p) = d
        BY <3>1, <4>1
      <4>3. Written(v, E, p) = IF d.from = d.to THEN v[d.old] ELSE d.to
        BY <4>2 DEF Written
      <4>4. Written(v, E, p) = tree[p]
        BY <1>4, <2>1, <3>3, <4>3
      <4>. QED
        BY <3>1, <4>4
    <3>4. CASE d.new # p
      <4>1. d.old = p /\ tree[p] = Absent
        BY <1>4, <2>1, <3>1, <3>4
      <4>2. ~ \E x \in E : x.new = p
        BY <1>4, <2>1, <3>2, <3>4
      <4>3. Written(v, E, p) = Absent
        BY <4>1, <4>2 DEF Written
      <4>. QED
        BY <3>1, <4>1, <4>3
    <3>. QED
      BY <3>3, <3>4
  <2>3. CASE ~ \E d \in E : p \in DiffPaths(d)
    <3>1. ~ (\E x \in E : x.new = p) /\ ~ (\E x \in E : x.old = p)
      BY <1>4, <2>1, <2>3
    <3>2. Written(v, E, p) = v[p]
      BY <3>1 DEF Written
    <3>. QED
      BY <1>3, <2>3, <3>2
  <2>. QED
    BY <2>2, <2>3
<1>7. \A p \in Paths : Written(v, E, p) = Vault(tree, done \cup E)[p]
  BY <1>6 DEF Vault
<1>. QED
  BY <1>7 DEF E, v

\* And it is applied, unless one of them is barred.
LEMMA PartFits ==
  ASSUME NEW tree \in Trees, NEW D, D = StagedDiff(tree, Paths), NEW c, IsPart(c, D),
         NEW done \in SUBSET D, ChunkDiffs(c) \cap done = {}, ~IsBarred(c)
  PROVE  Applicable(Vault(tree, done), c)
<1>. DEFINE E == ChunkDiffs(c)
            v == Vault(tree, done)
<1>1. /\ \A d \in E : \A p \in DiffPaths(d) : p \in Paths /\ v[p] = Base[p]
      /\ \A d \in E :
           /\ d.old \in Paths \cup {Absent} /\ d.new \in Paths \cup {Absent} /\ Absent \notin Paths
           /\ DiffPaths(d) = {d.old, d.new} \ {Absent}
           /\ d.old # Absent => d.from = Base[d.old] /\ v[d.old] = Base[d.old]
           /\ d.new # Absent => d.to = tree[d.new]
           /\ d.new # Absent /\ d.old # d.new => Base[d.new] = Absent
           /\ d \in StagedDiff(tree, Paths)
  BY PartMeets
<1>2. /\ c.targets = UNION {TargetsFor(d) : d \in E}
      /\ Agrees(c, E)
  BY PartIs, PartAgrees
<1>8. \A p \in Paths : Written(v, E, p) = Vault(tree, done \cup E)[p]
  BY PartWrites
<1>4. \A d \in E : ~Barred(d)
  BY DEF IsBarred
<1>. HIDE DEF E, v
<1>3. ASSUME NEW d \in E, d.new # Absent PROVE Written(v, E, d.new) = d.to
  <2>1. d.new \in Paths /\ d.new \in DiffPaths(d) /\ d.to = tree[d.new]
    BY <1>1, <1>3
  <2>2. Vault(tree, done \cup E)[d.new] = tree[d.new]
    BY <2>1 DEF Vault
  <2>. QED
    BY <1>8, <2>1, <2>2
<1>5. ASSUME NEW t \in c.targets
      PROVE  v[t.path] = t.base /\ t.base \notin Foreign /\ (t.path \in Raw => t.op = "create")
  <2>1. PICK d \in E : t \in TargetsFor(d)
    BY <1>2
  <2>2. t.path \in DiffPaths(d) /\ t.base = Base[t.path]
    BY <1>1, <2>1, TargetSides
  <2>3. v[t.path] = t.base
    BY <1>1, <2>1, <2>2
  <2>4. \/ t.path = d.old /\ d.old # Absent
        \/ t.path = d.new /\ d.new # d.old /\ d.new # Absent /\ t.op = "create"
    BY <1>1, <2>1, <2>2 DEF TargetsFor, Target
  <2>5. d.from \notin Foreign /\ d.old \notin Raw /\ Absent \notin Foreign
    BY <1>4, <2>1, BatchProducerAssumption DEF Barred
  <2>. QED
    BY <1>1, <2>1, <2>2, <2>3, <2>4, <2>5
<1>6. \A d \in E : Readable(d) /\ (d.new # Absent => <<d.new, Written(v, E, d.new)>> \notin Unfit)
  BY <1>3, <1>4 DEF Barred
<1>7. \A d \in E : Applies(v, d)
  BY <1>1 DEF Applies
<1>. QED
  BY <1>2, <1>5, <1>6, <1>7 DEF Applicable, Accepted, Plannable, E, v

\* One whose changes have been made is not applied again.
LEMMA PartStale ==
  ASSUME NEW tree \in Trees, NEW D, D = StagedDiff(tree, Paths), NEW c, IsPart(c, D),
         NEW done \in SUBSET D, ChunkDiffs(c) \subseteq done
  PROVE  ~Applicable(Vault(tree, done), c)
<1>. DEFINE E == ChunkDiffs(c)
            v == Vault(tree, done)
<1>1. E # {} /\ E \subseteq D /\ c.targets = UNION {TargetsFor(d) : d \in E}
  BY PartIs
<1>2. \A d \in D : DiffPaths(d) \subseteq Paths /\ \A p \in DiffPaths(d) : Base[p] # tree[p]
  <2>1. Paths \in SUBSET Paths
    OBVIOUS
  <2>. QED
    BY <2>1, DiffCovers
<1>3. \A p \in Paths : v[p] = IF \E d \in done : p \in DiffPaths(d) THEN tree[p] ELSE Base[p]
  BY DEF Vault
<1>. HIDE DEF E, v
<1>4. PICK d \in E : TRUE
  BY <1>1
<1>5. PICK t \in TargetsFor(d) : t.path \in DiffPaths(d) /\ t.base = Base[t.path]
  BY <1>1, <1>4, TargetSides
<1>6. t \in c.targets /\ v[t.path] # t.base
  BY <1>1, <1>2, <1>3, <1>4, <1>5 DEF E
<1>. QED
  BY <1>6 DEF Applicable, Accepted, v

\* And one that is there already has had its changes made.
LEMMA PartSettled ==
  ASSUME NEW tree \in Trees, NEW D, D = StagedDiff(tree, Paths), NEW c, IsPart(c, D),
         NEW done \in SUBSET D, ChunkDiffs(c) \cap done = {}
  PROVE  ~AlreadyApplied(Vault(tree, done), c)
<1>. DEFINE E == ChunkDiffs(c)
            v == Vault(tree, done)
<1>. SUFFICES ASSUME AlreadyApplied(v, c) PROVE FALSE
  OBVIOUS
<1>1. \A d \in E :
        /\ \A p \in DiffPaths(d) : p \in Paths /\ v[p] = Base[p]
        /\ d.old \in Paths \cup {Absent} /\ d.new \in Paths \cup {Absent} /\ Absent \notin Paths
        /\ DiffPaths(d) = {d.old, d.new} \ {Absent}
        /\ d.new # Absent => d.to = tree[d.new] /\ d.to # Absent
        /\ d.old # Absent /\ d.old # d.new => tree[d.old] = Absent
        /\ d.new # Absent /\ d.old # d.new => Base[d.new] = Absent
        /\ d \in StagedDiff(tree, Paths)
  BY PartMeets
<1>2. E # {} /\ c.targets = UNION {TargetsFor(d) : d \in E}
  BY PartIs
<1>3. /\ \A d \in E : d.old = Absent \/ d.new = Absent
      /\ \A d \in E : d.new # Absent => v[d.new] = d.to
      /\ \A t \in c.targets : t.op # "create" => v[t.path] = Absent
  BY DEF AlreadyApplied
<1>4. \A d \in E : DiffPaths(d) # {} /\ \A p \in DiffPaths(d) : Base[p] # tree[p]
  <2>1. Paths \in SUBSET Paths
    OBVIOUS
  <2>. QED
    BY <1>1, <2>1, DiffCovers
<1>. HIDE DEF E, v
<1>5. PICK d \in E : TRUE
  BY <1>2
<1>6. CASE d.new # Absent
  <2>1. d.old # d.new /\ d.new \in DiffPaths(d)
    BY <1>1, <1>3, <1>5, <1>6
  <2>. QED
    BY <1>1, <1>3, <1>5, <1>6, <2>1
<1>7. CASE d.new = Absent
  <2>. DEFINE t == Target(d.old, "delete", Base[d.old])
  <2>1. d.old # Absent /\ d.old # d.new /\ d.old \in DiffPaths(d)
    BY <1>1, <1>4, <1>5, <1>7
  <2>2. t \in TargetsFor(d) /\ t.path = d.old /\ t.op = "delete"
    BY <2>1 DEF TargetsFor, Target
  <2>. HIDE DEF t
  <2>3. t \in c.targets
    BY <1>2, <1>5, <2>2
  <2>4. v[d.old] = Absent
    BY <1>3, <2>2, <2>3
  <2>. QED
    BY <1>1, <1>4, <1>5, <2>1, <2>4
<1>. QED
  BY <1>6, <1>7

\* Paths are numbers.
LEMMA AtIsNumber ==
  ASSUME NEW tree \in Trees, NEW D, D = StagedDiff(tree, Paths)
  PROVE  \A d \in D : At(d) \in Nat /\ At(d) \in DiffPaths(d)
<1>1. Paths \in SUBSET Paths
  OBVIOUS
<1>. QED
  BY <1>1, DiffCovers, BatchProducerAssumption

\* A run that has read everything has the staging's chunks.
LEMMA WholeBatch ==
  ASSUME ProducerInv, NEW D, D = Staged, Halfway(D), step = "publish"
  PROVE  /\ Lists(Listing(D), D) /\ \A d \in D : UnitBytes(UnitFor(d)) <= MaxBytes
         /\ Len(chunks) = Len(Groups(D)) /\ Len(chunks) \in Nat
         /\ \A i \in 1..Len(chunks) :
              IsPart(chunks[i], D) /\ chunks[i].index = i /\ chunks[i].batch = run
<1>1. /\ index \in Trees /\ run \in Nat /\ chunks = BuildChunks(units)
      /\ \A i \in DOMAIN units : UnitBytes(units[i]) <= MaxBytes
  <2>1. index \in Trees /\ run \in Nat
    BY BatchProducerAssumption DEF ProducerInv, ImportTypeOK
  <2>2. RunKnows
    BY DEF ProducerInv
  <2>. QED
    BY <2>1, <2>2 DEF RunKnows
<1>2. PICK e \in Seq(D) : HasRead(e, D, {}) /\ units = UnitsFor(e)
  BY DEF Halfway
<1>3. Lists(e, D)
  BY <1>2 DEF HasRead, Lists
<1>4. Listing(D) = e
  BY <1>1, <1>3, AtIsNumber, ListingIs DEF Staged
<1>5. /\ UnitsFor(e) \in Seq(Units) /\ Len(UnitsFor(e)) = Len(e) /\ Len(e) \in Nat
      /\ \A i \in 1..Len(e) : UnitsFor(e)[i] = UnitFor(e[i])
  BY <1>1, UnitsAre DEF Staged
<1>6. \A i \in 1..Len(e) : UnitBytes(UnitFor(e[i])) <= MaxBytes
  <2>1. DOMAIN UnitsFor(e) = 1..Len(e)
    BY <1>5
  <2>. QED
    BY <1>1, <1>2, <1>5, <2>1
<1>7. \A d \in D : UnitBytes(UnitFor(d)) <= MaxBytes
  <2>1. DOMAIN e = 1..Len(e)
    OBVIOUS
  <2>. QED
    BY <1>3, <1>6, <2>1 DEF Lists
<1>8. Groups(D) = PackUnits(units)
  BY <1>2, <1>4 DEF Groups
<1>9. /\ Groups(D) \in Seq(Seq(Units)) /\ Len(chunks) = Len(Groups(D))
      /\ \A i \in 1..Len(Groups(D)) : chunks[i] = ChunkOf(Groups(D), i)
  <2>1. \A i \in 1..Len(units) : UnitBytes(units[i]) <= MaxBytes
    BY <1>2, <1>5, <1>6
  <2>. QED
    BY <1>1, <1>2, <1>5, <1>8, <2>1, ChunksFrom
<1>10. Len(Groups(D)) \in Nat /\ DOMAIN Groups(D) = 1..Len(Groups(D))
  BY <1>9
<1>11. ASSUME NEW i \in 1..Len(chunks)
       PROVE  IsPart(chunks[i], D) /\ chunks[i].index = i /\ chunks[i].batch = run
  <2>1. i \in DOMAIN Groups(D)
    BY <1>9, <1>10
  <2>2. chunks[i] = [batch |-> run, index |-> i, count |-> Len(Groups(D)),
                     patch |-> [k \in DOMAIN Groups(D)[i] |-> Groups(D)[i][k].patch],
                     targets |-> UNION {unit.targets : unit \in Range(Groups(D)[i])}]
    BY <1>9 DEF ChunkOf
  <2>. QED
    BY <1>3, <1>4, <1>7, <2>1, <2>2 DEF IsPart
<1>. QED
  BY <1>3, <1>4, <1>7, <1>9, <1>10, <1>11

\* A chunk published is one more of the staging, and of this run.
LEMMA StreamStands ==
  ASSUME ProducerInv, NEW D, D = Staged, Halfway(D), StreamHas(D),
         step = "publish" /\ sent < Len(chunks) /\ Enqueue
  PROVE  /\ Len(stream) \in Nat /\ sent \in Nat
         /\ DOMAIN stream' = 1..(Len(stream) + 1) /\ Len(stream') = Len(stream) + 1
         /\ \A i \in DOMAIN stream : i \in DOMAIN stream' /\ stream'[i] = stream[i]
         /\ \A i \in DOMAIN stream' : IsPart(stream'[i], D)
         /\ run <= 1 => \A i \in DOMAIN stream' : stream'[i].index = i
         /\ stream'[Len(stream) + 1].index = sent + 1 /\ stream'[Len(stream) + 1].batch = run
<1>. DEFINE c == chunks[sent + 1]
            n == Len(stream) + 1
<1>1. /\ sent + 1 \in 1..Len(chunks) /\ c \in Chunks /\ sent \in Nat
  <2>1. sent + 1 \in DOMAIN chunks /\ chunks \in Seq(Chunks) /\ c \in Chunks
    BY NextChunk
  <2>2. sent \in Nat
    BY <2>1 DEF ProducerInv, ImportTypeOK
  <2>. QED
    BY <2>1, <2>2
<1>2. IsPart(c, D) /\ c.index = sent + 1 /\ c.batch = run
  BY <1>1, WholeBatch
<1>3. stream' = Append(stream, c) /\ stream \in Seq(Chunks)
  BY DEF Enqueue, ProducerInv
<1>. HIDE DEF c
<1>4. /\ Len(stream) \in Nat /\ DOMAIN stream = 1..Len(stream)
      /\ DOMAIN stream' = 1..n /\ Len(stream') = n /\ stream'[n] = c
      /\ \A i \in DOMAIN stream : i \in DOMAIN stream' /\ stream'[i] = stream[i]
      /\ \A i \in DOMAIN stream' : i \in DOMAIN stream \/ i = n
  BY <1>1, <1>3
<1>. HIDE DEF n
<1>5. \A i \in DOMAIN stream' : IsPart(stream'[i], D)
  BY <1>2, <1>4 DEF StreamHas
<1>6. ASSUME run <= 1, NEW i \in DOMAIN stream' PROVE stream'[i].index = i
  <2>1. Len(stream) = sent /\ \A j \in DOMAIN stream : stream[j].index = j
    BY <1>6 DEF StreamHas
  <2>. QED
    BY <1>2, <1>4, <2>1 DEF n
<1>. QED
  BY <1>1, <1>2, <1>4, <1>5, <1>6 DEF n

\* When a run ends, what it published stands.
LEMMA EndStands ==
  ASSUME ProducerInv, NEW D, D = Staged, Halfway(D), StreamHas(D),
         NEW how \in {"ok", "failed", "died"}, Ends(how), run' = run,
         \/ stream' = stream
         \/ step = "publish" /\ sent < Len(chunks) /\ Enqueue,
         how = "ok" => \A d \in D : \E i \in DOMAIN stream' :
                         d \in ChunkDiffs(stream'[i]) /\ stream'[i].batch = run
  PROVE  Halfway(D)' /\ StreamHas(D)'
<1>1. step' = "idle" /\ sent' = 0 /\ exit' = how
  BY DEF Ends
<1>2. Halfway(D)'
  BY <1>1 DEF Halfway
<1>3. /\ \A i \in DOMAIN stream' : IsPart(stream'[i], D)
      /\ run <= 1 => \A i \in DOMAIN stream' : stream'[i].index = i
  <2>1. CASE stream' = stream
    BY <2>1 DEF StreamHas
  <2>2. CASE step = "publish" /\ sent < Len(chunks) /\ Enqueue
    BY <2>2, StreamStands
  <2>. QED
    BY <2>1, <2>2
<1>4. StreamHas(D)'
  BY <1>1, <1>3 DEF StreamHas
<1>. QED
  BY <1>2, <1>4

\* One more change read is one more unit.
LEMMA UnitsGrow ==
  ASSUME NEW tree \in Trees, NEW D, D = StagedDiff(tree, Paths), NEW e \in Seq(D), NEW d \in D
  PROVE  Append(UnitsFor(e), UnitFor(d)) = UnitsFor(Append(e, d))
<1>. DEFINE f == Append(e, d)
            us == UnitsFor(e)
            vs == UnitsFor(f)
<1>1. /\ Len(e) \in Nat /\ f \in Seq(D) /\ Len(f) = Len(e) + 1
      /\ f[Len(e) + 1] = d /\ \A i \in 1..Len(e) : f[i] = e[i]
  OBVIOUS
<1>. HIDE DEF f
<1>2. /\ us \in Seq(Units) /\ Len(us) = Len(e)
      /\ \A i \in 1..Len(e) : us[i] = UnitFor(e[i])
  BY UnitsAre
<1>3. /\ vs \in Seq(Units) /\ Len(vs) = Len(e) + 1
      /\ \A i \in 1..(Len(e) + 1) : vs[i] = UnitFor(f[i])
  BY <1>1, UnitsAre
<1>. HIDE DEF us, vs
<1>4. \A i \in 1..Len(e) : vs[i] = us[i]
  BY <1>1, <1>2, <1>3
<1>5. vs[Len(e) + 1] = UnitFor(d) /\ UnitFor(d) \in Units
  BY <1>1, <1>3
<1>6. Append(us, UnitFor(d)) = vs
  BY <1>1, <1>2, <1>3, <1>4, <1>5
<1>. QED
  BY <1>6 DEF us, vs, f

\* The next change read is one of the staging, and git's diff of its paths is
\* that change; once it has its targets, one more has been read.
LEMMA OneMoreRead ==
  ASSUME NEW tree \in Trees, NEW D, D = StagedDiff(tree, Paths),
         NEW left \in SUBSET D, left # {}, NEW e \in Seq(D), HasRead(e, D, left)
  PROVE  /\ Foremost(left) \in left
         /\ StagedDiff(tree, DiffPaths(Foremost(left))) = {Foremost(left)}
         /\ Append(e, Foremost(left)) \in Seq(D)
         /\ HasRead(Append(e, Foremost(left)), D, left \ {Foremost(left)})
<1>. DEFINE d == Foremost(left)
            f == Append(e, d)
<1>1. /\ \A x \in D : At(x) \in Nat /\ At(x) \in DiffPaths(x) /\ x \in Diffs
                      /\ DiffPaths(x) # {} /\ DiffPaths(x) \subseteq Paths
      /\ \A x, y \in D : x # y => DiffPaths(x) \cap DiffPaths(y) = {}
  <2>1. Paths \in SUBSET Paths
    OBVIOUS
  <2>. QED
    BY <2>1, AtIsNumber, DiffCovers
<1>2. d \in left /\ \A x \in left : At(d) <= At(x)
  BY <1>1, ForemostIs
<1>3. StagedDiff(tree, DiffPaths(d)) = {d}
  BY <1>2, DiffAlone
<1>. HIDE DEF d
<1>4. /\ Len(e) \in Nat /\ DOMAIN e = 1..Len(e) /\ \A i \in 1..Len(e) : e[i] \in D
      /\ f \in Seq(D) /\ Len(f) = Len(e) + 1 /\ DOMAIN f = 1..(Len(e) + 1)
      /\ f[Len(e) + 1] = d /\ \A i \in 1..Len(e) : f[i] = e[i]
  BY <1>2
<1>. HIDE DEF f
<1>5. HasRead(f, D, left \ {d})
  <2>1. Ascending(f)
    <3>. SUFFICES ASSUME NEW i \in 1..(Len(e) + 1), NEW j \in 1..(Len(e) + 1), i < j
                  PROVE  At(f[i]) < At(f[j])
      BY <1>4 DEF Ascending
    <3>1. i \in 1..Len(e)
      BY <1>4
    <3>2. CASE j = Len(e) + 1
      BY <1>2, <1>4, <3>1, <3>2 DEF HasRead
    <3>3. CASE j # Len(e) + 1
      <4>1. j \in 1..Len(e)
        BY <1>4, <3>3
      <4>. QED
        BY <1>4, <3>1, <4>1 DEF HasRead, Ascending
    <3>. QED
      BY <3>2, <3>3
  <2>2. D = {f[i] : i \in DOMAIN f} \cup (left \ {d})
    <3>1. ASSUME NEW x \in D PROVE x \in left \ {d} \/ \E i \in DOMAIN f : x = f[i]
      <4>1. CASE x = d
        <5>1. Len(e) + 1 \in DOMAIN f
          BY <1>4
        <5>. QED
          BY <1>4, <4>1, <5>1
      <4>2. CASE x # d /\ x \notin left
        <5>1. PICK i \in 1..Len(e) : x = e[i]
          BY <1>4, <4>2 DEF HasRead
        <5>2. i \in DOMAIN f
          BY <1>4, <5>1
        <5>. QED
          BY <1>4, <5>1, <5>2
      <4>. QED
        BY <4>1, <4>2
    <3>2. \A i \in DOMAIN f : f[i] \in D
      BY <1>4
    <3>. QED
      BY <3>1, <3>2
  <2>3. ASSUME NEW i \in 1..(Len(e) + 1), NEW x \in left \ {d} PROVE At(f[i]) < At(x)
    <3>1. CASE i = Len(e) + 1
      <4>1. At(d) <= At(x) /\ x \in D /\ d \in D /\ x # d
        BY <1>2
      <4>2. At(d) \in Nat /\ At(x) \in Nat /\ At(d) # At(x)
        BY <1>1, <4>1
      <4>. QED
        BY <1>4, <3>1, <4>1, <4>2
    <3>2. CASE i # Len(e) + 1
      <4>1. i \in 1..Len(e)
        BY <1>4, <3>2
      <4>. QED
        BY <1>4, <4>1 DEF HasRead
    <3>. QED
      BY <3>1, <3>2
  <2>. QED
    BY <1>4, <2>1, <2>2, <2>3 DEF HasRead
<1>. QED
  BY <1>2, <1>3, <1>4, <1>5 DEF d, f

\* Nothing of the staging has been lost or added to, at the start.
LEMMA StagingInit == ImportInit => StagingStands
BY DEF ImportInit, StagingStands, Halfway, StreamHas

\* While the staging stands, every step keeps it so.
LEMMA StagingStep ==
  ASSUME ProducerInv, StagingStands, [ImportNext]_importVars
  PROVE  StagingStands'
<1>. SUFFICES ASSUME steady' = "yes" PROVE (Halfway(Staged) /\ StreamHas(Staged))'
  BY DEF StagingStands
<1>1. CASE Restage
  <2>1. run = 0 \/ steady' = "no"
    BY <1>1 DEF Restage
  <2>2. /\ step = "idle" /\ exit = "none" /\ stream = <<>> /\ run = 0 /\ sent = 0
    BY <2>1 DEF ProducerInv, RunKnows, ImportTypeOK
  <2>3. step' = "idle" /\ exit' = "none" /\ stream' = <<>> /\ sent' = 0
    BY <1>1, <2>2 DEF Restage, runVars
  <2>. QED
    BY <2>3 DEF Halfway, StreamHas
<1>2. CASE ~Restage
  <2>1. index' = index /\ steady' = steady
    BY <1>2 DEF ImportNext, BeginImport, ListStaged, ReadPatch, HashTargets, Pack, Connect, PublishChunk,
                PublishUnanswered, AllEnqueued, CallFails, ProducerDies, ApplyChunk, ApplyUnsettled,
                SettleDone, ParkDependent, ParkRefused, DrainEnds, importVars, producerVars
  <2>2. PICK D : D = Staged
    OBVIOUS
  <2>3. Staged' = D
    BY <2>1, <2>2 DEF Staged
  <2>4. D = StagedDiff(index, Paths) /\ index \in Trees
    BY <2>2 DEF Staged, ProducerInv, ImportTypeOK
  <2>5. Halfway(D) /\ StreamHas(D)
    BY <2>1, <2>2 DEF StagingStands
  <2>6. SUFFICES Halfway(D)' /\ StreamHas(D)'
    BY <2>3 DEF Halfway, StreamHas
  <2>7. CASE BeginImport
    <3>1. /\ step' = "list" /\ exit' = "none" /\ UNCHANGED <<stream, sent>>
          /\ step = "idle" /\ run' = run + 1
      BY <2>7 DEF BeginImport
    <3>2. sent = 0 /\ run \in Nat /\ (run = 0 => stream = <<>>)
      BY <3>1, BatchProducerAssumption DEF ProducerInv, RunKnows, ImportTypeOK
    <3>. QED
      BY <2>5, <3>1, <3>2 DEF Halfway, StreamHas
  <2>8. CASE ListStaged
    <3>1. CASE D = {}
      <4>1. Ends("ok") /\ stream' = stream /\ run' = run
        BY <2>4, <2>8, <3>1 DEF ListStaged
      <4>. QED
        BY <2>2, <2>5, <3>1, <4>1, EndStands
    <3>2. CASE D # {}
      <4>1. /\ entries' = D /\ step' = "diff" /\ units' = units /\ units = <<>> /\ step = "list"
            /\ UNCHANGED <<stream, sent, exit, run>>
        BY <2>4, <2>8, <3>2 DEF ListStaged, ProducerInv, RunKnows
      <4>2. <<>> \in Seq(D) /\ HasRead(<<>>, D, D) /\ UnitsFor(<<>>) = <<>>
        BY DEF HasRead, Ascending, UnitsFor
      <4>3. Halfway(D)'
        BY <4>1, <4>2 DEF Halfway
      <4>. QED
        BY <2>5, <4>1, <4>3 DEF StreamHas
    <3>. QED
      BY <3>1, <3>2
  <2>9. CASE ReadPatch
    <3>. DEFINE patch == StagedDiff(index, DiffPaths(Foremost(entries)))
    <3>1. /\ step = "diff" /\ entries # {} /\ entries \subseteq D
      BY <2>5, <2>9 DEF ReadPatch, ProducerInv, RunKnows, Halfway
    <3>2. PICK e \in Seq(D) : HasRead(e, D, entries) /\ units = UnitsFor(e)
      BY <2>5, <3>1 DEF Halfway
    <3>3. patch = {Foremost(entries)}
      BY <2>4, <3>1, <3>2, OneMoreRead
    <3>4. CASE \E d \in patch \cap Garbled : HasText(d)
      <4>1. Ends("failed") /\ stream' = stream /\ run' = run
        BY <2>9, <3>4 DEF ReadPatch
      <4>. QED
        BY <2>2, <2>5, <4>1, EndStands
    <3>5. CASE ~ \E d \in patch \cap Garbled : HasText(d)
      <4>1. /\ units' = Append(units, [patch |-> patch, targets |-> {}]) /\ step' = "hash"
            /\ UNCHANGED <<entries, stream, sent, exit, run>>
        BY <2>9, <3>5 DEF ReadPatch
      <4>. HIDE DEF patch
      <4>2. Halfway(D)'
        BY <3>1, <3>2, <3>3, <4>1 DEF Halfway
      <4>. QED
        BY <2>5, <3>1, <4>1, <4>2 DEF StreamHas
    <3>. QED
      BY <3>4, <3>5
  <2>10. CASE HashTargets
    <3>. DEFINE d == Foremost(entries)
    <3>1. /\ step = "hash" /\ entries # {} /\ entries \subseteq D
      BY <2>5, <2>10 DEF HashTargets, ProducerInv, RunKnows, Halfway
    <3>2. PICK e \in Seq(D) :
            HasRead(e, D, entries) /\ units = Append(UnitsFor(e), [patch |-> {d}, targets |-> {}])
      BY <2>5, <3>1 DEF Halfway
    <3>3. /\ Append(e, d) \in Seq(D) /\ HasRead(Append(e, d), D, entries \ {d})
          /\ Append(UnitsFor(e), UnitFor(d)) = UnitsFor(Append(e, d)) /\ d \in D
      <4>1. /\ entries \in SUBSET D /\ entries # {} /\ HasRead(e, D, entries)
            /\ index \in Trees /\ D = StagedDiff(index, Paths) /\ e \in Seq(D)
        BY <2>4, <3>1, <3>2
      <4>2. d \in entries
        BY <4>1, OneMoreRead, Zenon
      <4>3. HasRead(Append(e, d), D, entries \ {d})
        BY <4>1, OneMoreRead, Zenon
      <4>. HIDE DEF d
      <4>4. d \in D /\ Append(e, d) \in Seq(D)
        BY <4>1, <4>2
      <4>5. Append(UnitsFor(e), UnitFor(d)) = UnitsFor(Append(e, d))
        BY <4>1, <4>4, UnitsGrow
      <4>. QED
        BY <4>3, <4>4, <4>5
    <3>4. /\ units' = [units EXCEPT ![Len(units)].targets = TargetsFor(d)]
          /\ entries' = entries \ {d}
          /\ step' = IF entries' = {} THEN "pack" ELSE "diff"
          /\ UNCHANGED <<stream, sent, exit, run>>
      BY <2>10 DEF HashTargets
    <3>. HIDE DEF d
    <3>5. units' = Append(UnitsFor(e), UnitFor(d))
      <4>. DEFINE us == UnitsFor(e)
                  u == [patch |-> {d}, targets |-> {}]
                  n == Len(us) + 1
                  w == [u EXCEPT !.targets = TargetsFor(d)]
      <4>1. us \in Seq(Units) /\ UnitFor(d) \in Units /\ UnitFor(d) = [patch |-> {d}, targets |-> TargetsFor(d)]
        BY <2>4, <3>3, UnitsAre, UnitIs DEF UnitFor
      <4>2. units = Append(us, u)
        BY <3>2
      <4>3. u \in Units /\ w = UnitFor(d)
        <5>1. {d} \in Patches /\ TargetsFor(d) \in SUBSET TargetRecords
          BY <4>1 DEF Units
        <5>2. w \in Units /\ w.patch = {d} /\ w.targets = TargetsFor(d)
          BY <5>1 DEF Units
        <5>. HIDE DEF w
        <5>3. w = [patch |-> {d}, targets |-> TargetsFor(d)]
          BY <5>2 DEF Units
        <5>4. u \in Units
          BY <5>1 DEF Units
        <5>. QED
          BY <4>1, <5>3, <5>4
      <4>. HIDE DEF us, u
      <4>4. Len(us) \in Nat /\ Len(units) = n /\ DOMAIN units = 1..n /\ units[n] = u
            /\ units \in Seq(Units) /\ \A i \in 1..Len(us) : units[i] = us[i]
        BY <4>1, <4>2, <4>3
      <4>5. units' = [units EXCEPT ![n] = UnitFor(d)]
        BY <3>4, <4>3, <4>4
      <4>6. units' \in Seq(Units) /\ Len(units') = n /\ units'[n] = UnitFor(d)
            /\ \A i \in 1..Len(us) : units'[i] = us[i]
        BY <4>1, <4>4, <4>5
      <4>. QED
        BY <4>1, <4>4, <4>6 DEF us
    <3>6. step' \in {"pack", "diff"} /\ (step' = "pack" => entries' = {})
      BY <3>4
    <3>7. Halfway(D)'
      BY <3>1, <3>3, <3>4, <3>5, <3>6 DEF Halfway
    <3>. QED
      BY <2>5, <3>1, <3>4, <3>7 DEF StreamHas
  <2>11. CASE Pack
    <3>1. \/ Ends("failed") /\ stream' = stream /\ run' = run
          \/ step' = "connect" /\ UNCHANGED <<entries, units, stream, sent, exit, run>>
      BY <2>11 DEF Pack
    <3>2. step = "pack"
      BY <2>11 DEF Pack
    <3>3. CASE Ends("failed") /\ stream' = stream /\ run' = run
      BY <2>2, <2>5, <3>3, EndStands
    <3>4. CASE step' = "connect" /\ UNCHANGED <<entries, units, stream, sent, exit, run>>
      BY <2>5, <3>2, <3>4 DEF Halfway, StreamHas
    <3>. QED
      BY <3>1, <3>3, <3>4
  <2>12. CASE Connect
    <3>1. step = "connect" /\ step' = "publish" /\ UNCHANGED <<entries, units, stream, sent, exit, run>>
      BY <2>12 DEF Connect
    <3>. QED
      BY <2>5, <3>1 DEF Halfway, StreamHas
  <2>13. CASE PublishChunk
    <3>. DEFINE n == Len(stream) + 1
    <3>1. /\ step = "publish" /\ sent < Len(chunks) /\ Enqueue /\ sent' = sent + 1
          /\ UNCHANGED <<step, entries, units, exit, run>>
      BY <2>13 DEF PublishChunk
    <3>2. /\ n \in DOMAIN stream' /\ sent \in Nat /\ Len(stream') = n
          /\ \A i \in DOMAIN stream : i \in DOMAIN stream' /\ stream'[i] = stream[i]
          /\ \A i \in DOMAIN stream' : IsPart(stream'[i], D)
          /\ run <= 1 => \A i \in DOMAIN stream' : stream'[i].index = i
          /\ stream'[n].index = sent + 1 /\ stream'[n].batch = run
      BY <2>2, <2>5, <3>1, StreamStands
    <3>. HIDE DEF n
    <3>3. ASSUME NEW k \in 1..sent'
          PROVE  \E i \in DOMAIN stream' : stream'[i].index = k /\ stream'[i].batch = run
      <4>1. CASE k = sent + 1
        BY <3>2, <4>1
      <4>2. CASE k # sent + 1
        <5>1. k \in 1..sent
          BY <3>1, <3>2, <4>2
        <5>2. PICK i \in DOMAIN stream : stream[i].index = k /\ stream[i].batch = run
          BY <2>5, <5>1 DEF StreamHas
        <5>. QED
          BY <3>2, <5>2
      <4>. QED
        BY <4>1, <4>2
    <3>4. exit' = "ok" => \A d \in D : \E i \in DOMAIN stream' :
                            d \in ChunkDiffs(stream'[i]) /\ stream'[i].batch = run
      <4>. SUFFICES ASSUME exit = "ok", NEW d \in D
                    PROVE  \E i \in DOMAIN stream' :
                             d \in ChunkDiffs(stream'[i]) /\ stream'[i].batch = run
        BY <3>1
      <4>1. PICK i \in DOMAIN stream : d \in ChunkDiffs(stream[i]) /\ stream[i].batch = run
        BY <2>5 DEF StreamHas
      <4>. QED
        BY <3>2, <4>1
    <3>5. run <= 1 => Len(stream') = sent'
      BY <2>5, <3>1, <3>2 DEF StreamHas, n
    <3>6. Halfway(D)'
      BY <2>5, <3>1 DEF Halfway
    <3>. QED
      BY <3>1, <3>2, <3>3, <3>4, <3>5, <3>6 DEF StreamHas
  <2>14. CASE PublishUnanswered
    <3>1. /\ step = "publish" /\ sent < Len(chunks) /\ Ends("failed")
          /\ (Enqueue \/ stream' = stream) /\ run' = run
      BY <2>14 DEF PublishUnanswered, StopsHere
    <3>. QED
      BY <2>2, <2>5, <3>1, EndStands
  <2>15. CASE AllEnqueued
    <3>1. step = "publish" /\ sent = Len(chunks) /\ Ends("ok") /\ stream' = stream /\ run' = run
      BY <2>15 DEF AllEnqueued
    <3>2. /\ Lists(Listing(D), D) /\ \A d \in D : UnitBytes(UnitFor(d)) <= MaxBytes
          /\ Len(chunks) = Len(Groups(D))
      BY <2>2, <2>5, <3>1, WholeBatch
    <3>3. ASSUME NEW d \in D
          PROVE  \E i \in DOMAIN stream' : d \in ChunkDiffs(stream'[i]) /\ stream'[i].batch = run
      <4>1. PICK k \in 1..Len(Groups(D)) :
                   \A c : IsPart(c, D) /\ c.index = k => d \in ChunkDiffs(c)
        BY <2>4, <3>2, PartsCover
      <4>2. PICK i \in DOMAIN stream : stream[i].index = k /\ stream[i].batch = run
        BY <2>5, <3>1, <3>2, <4>1 DEF StreamHas
      <4>3. IsPart(stream[i], D)
        BY <2>5, <4>2 DEF StreamHas
      <4>. QED
        BY <3>1, <4>1, <4>2, <4>3
    <3>. QED
      BY <2>2, <2>5, <3>1, <3>3, EndStands
  <2>16. CASE CallFails
    <3>1. Ends("failed") /\ stream' = stream /\ run' = run
      BY <2>16 DEF CallFails
    <3>. QED
      BY <2>2, <2>5, <3>1, EndStands
  <2>17. CASE ProducerDies
    <3>1. Ends("died") /\ stream' = stream /\ run' = run
      BY <2>17 DEF ProducerDies
    <3>. QED
      BY <2>2, <2>5, <3>1, EndStands
  <2>18. CASE UNCHANGED importVars
    BY <2>5, <2>18 DEF importVars, producerVars, runVars, Halfway, StreamHas
  <2>19. CASE \/ ApplyChunk \/ ApplyUnsettled \/ SettleDone \/ ParkDependent
              \/ ParkRefused \/ DrainEnds
    <3>1. UNCHANGED producerVars
      BY <2>19 DEF ApplyChunk, ApplyUnsettled, SettleDone, ParkDependent, ParkRefused, DrainEnds
    <3>. QED
      BY <2>5, <3>1 DEF producerVars, runVars, Halfway, StreamHas
  <2>. QED
    BY <1>2, <2>7, <2>8, <2>9, <2>10, <2>11, <2>12, <2>13, <2>14, <2>15, <2>16, <2>17, <2>18,
       <2>19
       DEF ImportNext
<1>. QED
  BY <1>1, <1>2

-----------------------------------------------------------------------------
(* The drain, while the staging stands.                                    *)

\* What is so of the chunk at hand.
AtHand(D, done) ==
  /\ index \in Trees /\ D = StagedDiff(index, Paths) /\ done \in SUBSET D
  /\ vault = Vault(index, done)
  /\ IsPart(Delivered, D) /\ Delivered = stream[taken + 1]
  /\ ChunkDiffs(Delivered) \subseteq done \/ ChunkDiffs(Delivered) \cap done = {}
  /\ taken \in Nat /\ taken + 1 \in 1..(taken + 1)
  /\ \A i \in 1..(taken + 1) : IsPart(stream[i], D) /\ (i = taken + 1 \/ i \in 1..taken)
  /\ run <= 1 => \A i \in 1..(taken + 1) : stream[i].index = i

\* It is a chunk of the staging, done or not.
LEMMA AtHandIs ==
  ASSUME ProducerInv, NEW D, D = Staged, StreamHas(D), NEW done, HasDrained(D, done), Pending
  PROVE  AtHand(D, done)
<1>1. /\ index \in Trees /\ D = StagedDiff(index, Paths) /\ done \in SUBSET D
      /\ vault = Vault(index, done) /\ ByParts(D, done)
  BY DEF ProducerInv, ImportTypeOK, Staged, HasDrained
<1>2. /\ taken + 1 \in 1..Len(stream) /\ taken \in Nat /\ Len(stream) \in Nat
      /\ Delivered = stream[taken + 1]
  BY DeliveredIs
<1>3. stream \in Seq(Chunks) /\ DOMAIN stream = 1..Len(stream)
  <2>1. stream \in Seq(Chunks)
    BY DEF ProducerInv
  <2>. QED
    BY <2>1
<1>4. 1..(taken + 1) \subseteq DOMAIN stream
  BY <1>2, <1>3
<1>5. /\ \A i \in 1..(taken + 1) : IsPart(stream[i], D)
      /\ run <= 1 => \A i \in 1..(taken + 1) : stream[i].index = i
  BY <1>4 DEF StreamHas
<1>6. taken + 1 \in 1..(taken + 1) /\ \A i \in 1..(taken + 1) : i = taken + 1 \/ i \in 1..taken
  BY <1>2
<1>7. IsPart(Delivered, D)
  BY <1>2, <1>5, <1>6
<1>. QED
  BY <1>1, <1>2, <1>5, <1>6, <1>7 DEF AtHand, ByParts

\* A chunk applied was not done, and adds its changes to the vault.
LEMMA Advances ==
  ASSUME NEW D, NEW done, AtHand(D, done), ByParts(D, done),
         Applicable(vault, Delivered), NextWritten
  PROVE  LET more == done \cup ChunkDiffs(Delivered)
         IN more \subseteq D /\ ByParts(D, more) /\ vault' = Vault(index, more)
<1>. DEFINE E == ChunkDiffs(Delivered)
            more == done \cup E
<1>1. /\ index \in Trees /\ D = StagedDiff(index, Paths) /\ done \in SUBSET D
      /\ vault = Vault(index, done) /\ IsPart(Delivered, D)
      /\ E \subseteq done \/ E \cap done = {}
  BY DEF AtHand
<1>2. E \subseteq D
  BY <1>1, PartIs
<1>3. E \cap done = {}
  BY <1>1, PartStale
<1>4. \A p \in Paths : Written(vault, E, p) = Vault(index, more)[p]
  BY <1>1, <1>3, PartWrites
<1>5. vault' = Vault(index, more)
  BY <1>4 DEF NextWritten, Vault
<1>6. ByParts(D, more)
  <2>. SUFFICES ASSUME NEW b, IsPart(b, D)
                PROVE  ChunkDiffs(b) \subseteq more \/ ChunkDiffs(b) \cap more = {}
    BY DEF ByParts
  <2>1. ChunkDiffs(b) \subseteq done \/ ChunkDiffs(b) \cap done = {}
    BY DEF ByParts
  <2>2. CASE \E d \in E : d \in ChunkDiffs(b)
    <3>1. ChunkDiffs(b) = E
      BY <1>1, <2>2, PartsApart
    <3>. QED
      BY <3>1
  <2>3. CASE ~ \E d \in E : d \in ChunkDiffs(b)
    BY <2>1, <2>3
  <2>. QED
    BY <2>2, <2>3
<1>. QED
  BY <1>1, <1>2, <1>5, <1>6

\* A chunk settled as there already was done.
LEMMA SettledIsDone ==
  ASSUME NEW D, NEW done, AtHand(D, done), AlreadyApplied(vault, Delivered)
  PROVE  ChunkDiffs(Delivered) \subseteq done
BY PartSettled DEF AtHand

\* A chunk that is refused is barred or done; in a first run without a failure
\* no chunk before it had its changes, and it is barred.
LEMMA RefusedIs ==
  ASSUME NEW D, NEW done, AtHand(D, done), ~Applicable(vault, Delivered)
  PROVE  /\ IsBarred(Delivered) \/ ChunkDiffs(Delivered) \subseteq done
         /\ run <= 1 /\ (\A d \in done : \E i \in 1..taken : d \in ChunkDiffs(stream[i])) =>
              IsBarred(Delivered)
<1>. DEFINE E == ChunkDiffs(Delivered)
<1>1. /\ index \in Trees /\ D = StagedDiff(index, Paths) /\ done \in SUBSET D
      /\ vault = Vault(index, done) /\ IsPart(Delivered, D) /\ Delivered = stream[taken + 1]
      /\ E \subseteq done \/ E \cap done = {}
  BY DEF AtHand
<1>2. IsBarred(Delivered) \/ E \subseteq done
  BY <1>1, PartFits
<1>3. E # {}
  BY <1>1, PartIs
<1>4. ASSUME run <= 1, \A d \in done : \E i \in 1..taken : d \in ChunkDiffs(stream[i]), E \subseteq done
      PROVE  FALSE
  <2>1. PICK d \in E : TRUE
    BY <1>3
  <2>2. PICK i \in 1..taken : d \in ChunkDiffs(stream[i])
    BY <1>4, <2>1
  <2>3. /\ taken \in Nat /\ i \in 1..(taken + 1) /\ taken + 1 \in 1..(taken + 1)
        /\ \A j \in 1..(taken + 1) : IsPart(stream[j], D) /\ stream[j].index = j
    BY <1>4 DEF AtHand
  <2>4. IsPart(stream[i], D)
    BY <2>3
  <2>5. stream[i].index = Delivered.index
    BY <1>1, <2>1, <2>2, <2>4, PartsApart
  <2>6. i = taken + 1
    BY <1>1, <2>3, <2>5
  <2>. QED
    BY <2>3, <2>6
<1>. QED
  BY <1>2, <1>4

\* What a chunk was held back for stays.
LEMMA HeldStays ==
  ASSUME ProducerInv, NEW i, HeldBack(i), waiting \subseteq waiting', parked \subseteq parked',
         \A j \in 1..taken : stream'[j] = stream[j]
  PROVE  HeldBack(i)'
<1>1. parked \subseteq 1..taken /\ waiting \subseteq 1..taken
  BY DEF ProducerInv, ImportTypeOK, DrainTypeOK
<1>2. PICK j \in parked : /\ j < i /\ stream[j].batch = stream[i].batch
                          /\ \E d \in ChunkDiffs(stream[i]) : Links(d) \cap Creates(stream[j]) # {}
  BY DEF HeldBack
<1>3. stream'[j] = stream[j] /\ stream'[i] = stream[i] /\ j \in parked' /\ i \in waiting'
  BY <1>1, <1>2 DEF HeldBack
<1>4. ChunkDiffs(stream'[i]) = ChunkDiffs(stream[i]) /\ Creates(stream'[j]) = Creates(stream[j])
  BY <1>3
<1>. QED
  BY <1>2, <1>3, <1>4 DEF HeldBack

\* What the producer does, and the clock of runs and faults.
LEMMA ProducerKeeps ==
  ASSUME ProducerInv,
         \/ BeginImport \/ ListStaged \/ ReadPatch \/ HashTargets \/ Pack \/ Connect
         \/ PublishChunk \/ PublishUnanswered \/ AllEnqueued \/ CallFails \/ ProducerDies
         \/ UNCHANGED importVars
  PROVE  /\ UNCHANGED drainVars /\ (run' <= 1 => run <= 1)
         /\ faults' = MaxFaults => faults = MaxFaults
         /\ \A j \in 1..taken : stream'[j] = stream[j]
<1>1. /\ run \in Nat /\ faults \in 0..MaxFaults /\ MaxFaults \in Nat /\ stream \in Seq(Chunks)
      /\ taken \in 0..Len(stream)
  BY BatchProducerAssumption DEF ProducerInv, ImportTypeOK, DrainTypeOK
<1>2. /\ UNCHANGED drainVars /\ run' \in {run, run + 1} /\ faults' \in {faults, faults - 1}
      /\ \/ stream' = stream
         \/ step = "publish" /\ sent < Len(chunks) /\ Enqueue
  BY DEF BeginImport, ListStaged, ReadPatch, HashTargets, Pack, Connect, PublishChunk,
         PublishUnanswered, AllEnqueued, CallFails, ProducerDies, Fault, importVars, producerVars
<1>3. (run' <= 1 => run <= 1) /\ (faults' = MaxFaults => faults = MaxFaults)
  BY <1>1, <1>2
<1>4. \A j \in 1..taken : stream'[j] = stream[j]
  <2>1. CASE stream' = stream
    BY <2>1
  <2>2. CASE step = "publish" /\ sent < Len(chunks) /\ Enqueue
    <3>. DEFINE c == chunks[sent + 1]
    <3>1. c \in Chunks
      BY <2>2, NextChunk
    <3>2. stream' = Append(stream, c)
      BY <2>2 DEF Enqueue
    <3>. HIDE DEF c
    <3>. QED
      BY <1>1, <3>1, <3>2
  <2>. QED
    BY <1>2, <2>1, <2>2
<1>. QED
  BY <1>2, <1>3, <1>4

\* Before the first run there is nothing to drain.
LEMMA DrainInit == ImportInit => DrainStands
<1>. SUFFICES ASSUME ImportInit PROVE HasDrained(Staged, {})
  BY DEF DrainStands
<1>1. Base \in Trees
  BY BatchProducerAssumption
<1>2. Vault(index, {}) = Base
  BY <1>1 DEF Vault, Trees
<1>. QED
  BY <1>2 DEF ImportInit, HasDrained, ByParts

\* While the staging stands, every step keeps what the drain has made of it.
LEMMA DrainStep ==
  ASSUME ProducerInv, StagingStands, DrainStands, [ImportNext]_importVars
  PROVE  DrainStands'
<1>. SUFFICES ASSUME steady' = "yes" PROVE (\E done : HasDrained(Staged, done))'
  BY DEF DrainStands
<1>1. CASE Restage
  <2>1. run = 0 /\ UNCHANGED drainVars
    BY <1>1 DEF Restage
  <2>2. vault' = Base /\ blocked' = {} /\ taken' = 0 /\ parked' = {} /\ waiting' = {}
    BY <2>1 DEF drainVars, ProducerInv, RunKnows, ImportTypeOK, DrainTypeOK
  <2>3. Base \in Trees
    BY BatchProducerAssumption
  <2>4. Vault(index', {}) = Base
    BY <2>3 DEF Vault, Trees
  <2>5. HasDrained(Staged, {})'
    BY <2>2, <2>4 DEF HasDrained, ByParts, Vault
  <2>. QED
    BY <2>5
<1>2. CASE ~Restage
  <2>1. index' = index /\ steady' = steady
    BY <1>2 DEF ImportNext, BeginImport, ListStaged, ReadPatch, HashTargets, Pack, Connect, PublishChunk,
                PublishUnanswered, AllEnqueued, CallFails, ProducerDies, ApplyChunk, ApplyUnsettled,
                SettleDone, ParkDependent, ParkRefused, DrainEnds, importVars, producerVars
  <2>2. PICK D : D = Staged
    OBVIOUS
  <2>3. Staged' = D
    BY <2>1, <2>2 DEF Staged
  <2>4. StreamHas(D) /\ \E done : HasDrained(D, done)
    BY <2>1, <2>2 DEF StagingStands, DrainStands
  <2>5. PICK done : HasDrained(D, done)
    BY <2>4
  <2>6. SUFFICES \E more : HasDrained(D, more)'
    BY <2>3 DEF HasDrained
  <2>7. /\ done \subseteq D /\ ByParts(D, done) /\ vault = Vault(index, done)
        /\ \A i \in 1..taken : i \in parked \cup waiting \/ ChunkDiffs(stream[i]) \subseteq done
        /\ \A i \in parked : IsBarred(stream[i]) \/ ChunkDiffs(stream[i]) \subseteq done
        /\ \A i \in waiting : HeldBack(i)
        /\ \A b \in blocked : \E j \in parked : stream[j].batch = b[1] /\ b[2] \in Creates(stream[j])
        /\ run <= 1 /\ faults = MaxFaults =>
             /\ \A d \in done : \E i \in 1..taken : d \in ChunkDiffs(stream[i])
             /\ \A i \in parked : IsBarred(stream[i])
    BY <2>5 DEF HasDrained
  <2>8. parked \subseteq 1..taken /\ waiting \subseteq 1..taken /\ taken \in Nat
    BY DEF ProducerInv, ImportTypeOK, DrainTypeOK
  <2>9. CASE \/ BeginImport \/ ListStaged \/ ReadPatch \/ HashTargets \/ Pack \/ Connect
             \/ PublishChunk \/ PublishUnanswered \/ AllEnqueued \/ CallFails \/ ProducerDies
             \/ UNCHANGED importVars
    <3>1. /\ UNCHANGED <<vault, taken, blocked, parked, waiting>> /\ (run' <= 1 => run <= 1)
          /\ faults' = MaxFaults => faults = MaxFaults
          /\ \A j \in 1..taken : stream'[j] = stream[j]
      BY <2>9, ProducerKeeps DEF drainVars
    <3>2. \A i \in waiting' : HeldBack(i)'
      BY <2>7, <3>1, HeldStays
    <3>3. \A b \in blocked' : \E j \in parked' : stream'[j].batch = b[1] /\ b[2] \in Creates(stream'[j])
      BY <2>7, <2>8, <3>1
    <3>4. \A i \in parked' : IsBarred(stream'[i]) \/ ChunkDiffs(stream'[i]) \subseteq done
      BY <2>7, <2>8, <3>1
    <3>5. run' <= 1 /\ faults' = MaxFaults =>
            /\ \A d \in done : \E i \in 1..taken' : d \in ChunkDiffs(stream'[i])
            /\ \A i \in parked' : IsBarred(stream'[i])
      BY <2>7, <2>8, <3>1
    <3>6. \A i \in 1..taken' : i \in parked' \cup waiting' \/ ChunkDiffs(stream'[i]) \subseteq done
      BY <2>7, <3>1
    <3>7. HasDrained(D, done)'
      BY <2>1, <2>7, <3>1, <3>2, <3>3, <3>4, <3>5, <3>6 DEF HasDrained, Vault
    <3>. QED
      BY <3>7
  <2>10. CASE \/ ApplyChunk \/ ApplyUnsettled \/ SettleDone \/ ParkDependent
              \/ ParkRefused \/ DrainEnds
    <3>0. UNCHANGED <<index, stream, run>>
      BY <2>10 DEF ApplyChunk, ApplyUnsettled, SettleDone, ParkDependent, ParkRefused, DrainEnds,
                   producerVars
    <3>. DEFINE c == Delivered
    <3>1. Pending => /\ AtHand(D, done) /\ c = stream[taken + 1]
                     /\ \A i \in 1..(taken + 1) : i = taken + 1 \/ i \in 1..taken
                     /\ 1..taken \subseteq 1..(taken + 1) /\ taken + 1 \in 1..(taken + 1)
      <4>. SUFFICES ASSUME Pending
                    PROVE  /\ AtHand(D, done) /\ c = stream[taken + 1]
                           /\ \A i \in 1..(taken + 1) : i = taken + 1 \/ i \in 1..taken
                           /\ 1..taken \subseteq 1..(taken + 1) /\ taken + 1 \in 1..(taken + 1)
        OBVIOUS
      <4>1. AtHand(D, done)
        BY <2>2, <2>4, <2>5, AtHandIs
      <4>. QED
        BY <2>8, <4>1 DEF AtHand
    <3>. HIDE DEF c
    <3>2. ASSUME waiting \subseteq waiting', parked \subseteq parked'
          PROVE  \A i \in waiting : HeldBack(i)'
      BY <2>7, <3>0, <3>2, HeldStays
    <3>3. CASE ApplyChunk
      <4>1. /\ Pending /\ Applicable(vault, Delivered) /\ NextWritten /\ taken' = taken + 1
            /\ UNCHANGED <<blocked, parked, waiting, faults>>
        BY <3>3 DEF ApplyChunk
      <4>0. PICK more : more = done \cup ChunkDiffs(c)
        OBVIOUS
      <4>2. more \subseteq D /\ ByParts(D, more) /\ vault' = Vault(index, more)
        BY <2>7, <3>1, <4>1, <4>0, Advances DEF c
      <4>3. \A i \in 1..taken' : i \in parked' \cup waiting' \/ ChunkDiffs(stream'[i]) \subseteq more
        BY <2>7, <3>0, <3>1, <4>0, <4>1
      <4>4. run' <= 1 /\ faults' = MaxFaults =>
              /\ \A d \in more : \E i \in 1..taken' : d \in ChunkDiffs(stream'[i])
              /\ \A i \in parked' : IsBarred(stream'[i])
        BY <2>7, <3>0, <3>1, <4>0, <4>1
      <4>5. \A i \in parked' : IsBarred(stream'[i]) \/ ChunkDiffs(stream'[i]) \subseteq more
        BY <2>7, <3>0, <4>0, <4>1
      <4>6. \A i \in waiting' : HeldBack(i)'
        BY <3>2, <4>1
      <4>7. \A b \in blocked' : \E j \in parked' : stream'[j].batch = b[1] /\ b[2] \in Creates(stream'[j])
        BY <2>7, <3>0, <4>1
      <4>8. vault' = Vault(index', more)
        BY <3>0, <4>2
      <4>9. HasDrained(D, more)'
        BY <4>2, <4>3, <4>4, <4>5, <4>6, <4>7, <4>8 DEF HasDrained
      <4>. QED
        BY <4>9
    <3>4. CASE ApplyUnsettled
      <4>1. /\ Pending /\ Applicable(vault, Delivered) /\ NextWritten /\ blocked' = {}
            /\ UNCHANGED <<taken, parked, waiting>> /\ faults' # MaxFaults
        <5>1. faults \in 0..MaxFaults /\ MaxFaults \in Nat
          BY BatchProducerAssumption DEF ProducerInv, ImportTypeOK
        <5>. QED
          BY <3>4, <5>1 DEF ApplyUnsettled, Fault
      <4>0. PICK more : more = done \cup ChunkDiffs(c)
        OBVIOUS
      <4>2. more \subseteq D /\ ByParts(D, more) /\ vault' = Vault(index, more)
        BY <2>7, <3>1, <4>1, <4>0, Advances DEF c
      <4>3. /\ \A i \in 1..taken' : i \in parked' \cup waiting' \/ ChunkDiffs(stream'[i]) \subseteq more
            /\ \A i \in parked' : IsBarred(stream'[i]) \/ ChunkDiffs(stream'[i]) \subseteq more
        BY <2>7, <3>0, <4>0, <4>1
      <4>4. \A i \in waiting' : HeldBack(i)'
        BY <3>2, <4>1
      <4>5. vault' = Vault(index', more)
        BY <3>0, <4>2
      <4>6. HasDrained(D, more)'
        BY <4>1, <4>2, <4>3, <4>4, <4>5 DEF HasDrained
      <4>. QED
        BY <4>6
    <3>5. CASE SettleDone
      <4>1. /\ Pending /\ AlreadyApplied(vault, Delivered) /\ taken' = taken + 1
            /\ UNCHANGED <<vault, blocked, parked, waiting, faults>>
        BY <3>5 DEF SettleDone
      <4>2. ChunkDiffs(c) \subseteq done
        BY <3>1, <4>1, SettledIsDone DEF c
      <4>3. /\ \A i \in 1..taken' : i \in parked' \cup waiting' \/ ChunkDiffs(stream'[i]) \subseteq done
            /\ run' <= 1 /\ faults' = MaxFaults =>
                 /\ \A d \in done : \E i \in 1..taken' : d \in ChunkDiffs(stream'[i])
                 /\ \A i \in parked' : IsBarred(stream'[i])
        BY <2>7, <3>0, <3>1, <4>1, <4>2
      <4>4. HasDrained(D, done)'
        BY <2>7, <3>0, <3>2, <4>1, <4>3 DEF HasDrained, Vault
      <4>. QED
        BY <4>4
    <3>6. CASE ParkDependent
      <4>1. /\ Pending /\ Waits(c) /\ taken' = taken + 1 /\ waiting' = waiting \cup {taken + 1}
            /\ UNCHANGED <<vault, blocked, parked, faults>>
        BY <3>6 DEF ParkDependent, c
      <4>2. PICK d \in ChunkDiffs(c) : \E p \in Links(d) : <<c.batch, p>> \in blocked
        BY <4>1 DEF Waits
      <4>3. PICK p \in Links(d) : <<c.batch, p>> \in blocked
        BY <4>2
      <4>4. PICK j \in parked : stream[j].batch = c.batch /\ p \in Creates(stream[j])
        BY <2>7, <4>3
      <4>5. PICK n : n = taken + 1
        OBVIOUS
      <4>6. HeldBack(n)'
        <5>1. j < n /\ n \in waiting' /\ stream'[n] = c /\ stream'[j] = stream[j] /\ j \in parked'
          BY <2>8, <3>0, <3>1, <4>1, <4>5
        <5>2. ChunkDiffs(stream'[n]) = ChunkDiffs(c) /\ Creates(stream'[j]) = Creates(stream[j])
          BY <5>1
        <5>. QED
          BY <4>3, <4>4, <5>1, <5>2 DEF HeldBack
      <4>7. \A i \in waiting' : HeldBack(i)'
        BY <3>2, <4>1, <4>5, <4>6
      <4>8. /\ \A i \in 1..taken' : i \in parked' \cup waiting' \/ ChunkDiffs(stream'[i]) \subseteq done
            /\ run' <= 1 /\ faults' = MaxFaults =>
                 /\ \A x \in done : \E i \in 1..taken' : x \in ChunkDiffs(stream'[i])
                 /\ \A i \in parked' : IsBarred(stream'[i])
        BY <2>7, <3>0, <3>1, <4>1
      <4>9. HasDrained(D, done)'
        BY <2>7, <3>0, <4>1, <4>7, <4>8 DEF HasDrained, Vault
      <4>. QED
        BY <4>9
    <3>7. CASE ParkRefused
      <4>1. /\ Pending /\ ~Applicable(vault, Delivered)
            /\ taken' = taken + 1 /\ parked' = parked \cup {taken + 1}
            /\ blocked' = blocked \cup {<<c.batch, p>> : p \in Creates(c)}
            /\ UNCHANGED <<vault, waiting, faults>>
        BY <3>7 DEF ParkRefused, c
      <4>2. /\ IsBarred(c) \/ ChunkDiffs(c) \subseteq done
            /\ run <= 1 /\ (\A d \in done : \E i \in 1..taken : d \in ChunkDiffs(stream[i])) => IsBarred(c)
        BY <3>1, <4>1, RefusedIs DEF c
      <4>3. \A i \in parked' : IsBarred(stream'[i]) \/ ChunkDiffs(stream'[i]) \subseteq done
        BY <2>7, <3>0, <3>1, <4>1, <4>2
      <4>4. ASSUME NEW b \in blocked'
            PROVE  \E j \in parked' : stream'[j].batch = b[1] /\ b[2] \in Creates(stream'[j])
        <5>1. CASE b \in blocked
          BY <2>7, <3>0, <4>1, <5>1
        <5>2. CASE b \in {<<c.batch, p>> : p \in Creates(c)}
          <6>1. b[1] = c.batch /\ b[2] \in Creates(c)
            BY <5>2
          <6>2. taken + 1 \in parked' /\ stream'[taken + 1] = c
            BY <3>0, <3>1, <4>1
          <6>. QED
            BY <6>1, <6>2
        <5>. QED
          BY <4>1, <5>1, <5>2
      <4>5. /\ \A i \in 1..taken' : i \in parked' \cup waiting' \/ ChunkDiffs(stream'[i]) \subseteq done
            /\ run' <= 1 /\ faults' = MaxFaults =>
                 /\ \A d \in done : \E i \in 1..taken' : d \in ChunkDiffs(stream'[i])
                 /\ \A i \in parked' : IsBarred(stream'[i])
        BY <2>7, <3>0, <3>1, <4>1, <4>2
      <4>6. HasDrained(D, done)'
        BY <2>7, <3>0, <3>2, <4>1, <4>3, <4>4, <4>5 DEF HasDrained, Vault
      <4>. QED
        BY <4>6
    <3>8. CASE DrainEnds
      <4>1. blocked' = {} /\ UNCHANGED <<vault, taken, parked, waiting, faults>>
        BY <3>8 DEF DrainEnds
      <4>2. HasDrained(D, done)'
        BY <2>7, <3>0, <3>2, <4>1 DEF HasDrained, Vault
      <4>. QED
        BY <4>2
    <3>. QED
      BY <2>10, <3>3, <3>4, <3>5, <3>6, <3>7, <3>8
  <2>. QED
    BY <1>2, <2>9, <2>10 DEF ImportNext
<1>. QED
  BY <1>1, <1>2

\* So what is staged is what arrives.
LEMMA StagingArrives ==
  ASSUME ProducerInv, StagingStands, DrainStands
  PROVE  StagedIsWhatArrives
<1>. SUFFICES ASSUME steady = "yes" PROVE StagedIsWhatArrives
  BY DEF StagedIsWhatArrives
<1>1. PICK D : D = Staged
  OBVIOUS
<1>2. StreamHas(D) /\ \E done : HasDrained(D, done)
  BY <1>1 DEF StagingStands, DrainStands
<1>3. PICK done : HasDrained(D, done)
  BY <1>2
<1>4. /\ index \in Trees /\ D = StagedDiff(index, Paths) /\ done \subseteq D
      /\ vault = Vault(index, done) /\ ByParts(D, done)
      /\ \A i \in 1..taken : i \in parked \cup waiting \/ ChunkDiffs(stream[i]) \subseteq done
      /\ \A i \in parked : IsBarred(stream[i]) \/ ChunkDiffs(stream[i]) \subseteq done
      /\ \A i \in waiting : HeldBack(i)
      /\ run <= 1 /\ faults = MaxFaults => \A i \in parked : IsBarred(stream[i])
  BY <1>1, <1>3 DEF HasDrained, Staged, ProducerInv, ImportTypeOK
<1>5. /\ \A d \in D : DiffPaths(d) \subseteq Paths /\ \A p \in DiffPaths(d) : Base[p] # index[p]
      /\ \A d, x \in D : d # x => DiffPaths(d) \cap DiffPaths(x) = {}
      /\ \A p \in Paths : Base[p] # index[p] => \E d \in D : p \in DiffPaths(d)
  <2>1. Paths \in SUBSET Paths
    OBVIOUS
  <2>. QED
    BY <1>4, <2>1, DiffCovers
<1>6. \A p \in Paths : vault[p] = IF \E d \in done : p \in DiffPaths(d) THEN index[p] ELSE Base[p]
  BY <1>4 DEF Vault
<1>7. \A d \in D : \A p \in DiffPaths(d) : vault[p] = index[p] <=> d \in done
  BY <1>4, <1>5, <1>6
<1>8. \A d \in done : ItIsIn(d)
  BY <1>4, <1>7 DEF ItIsIn
<1>9. \A p \in Paths : vault[p] \in {Base[p], index[p]}
  BY <1>6
<1>10. ASSUME NEW d \in D, d.old # Absent, d.new # Absent
       PROVE  vault[d.old] = index[d.old] <=> vault[d.new] = index[d.new]
  <2>1. d.old \in DiffPaths(d) /\ d.new \in DiffPaths(d)
    BY <1>10 DEF DiffPaths
  <2>. QED
    BY <1>7, <2>1
<1>11. ASSUME NEW i \in parked
       PROVE  \/ \E d \in ChunkDiffs(stream[i]) : Barred(d)
              \/ \A d \in ChunkDiffs(stream[i]) : ItIsIn(d)
  BY <1>4, <1>8 DEF IsBarred
<1>12. stream \in Seq(Chunks) /\ DOMAIN stream = 1..Len(stream) /\ parked \subseteq 1..taken
  <2>1. stream \in Seq(Chunks) /\ parked \subseteq 1..taken
    BY DEF ProducerInv, ImportTypeOK, DrainTypeOK
  <2>. QED
    BY <2>1
<1>13. ASSUME exit = "ok", taken = Len(stream), NEW d \in D
       PROVE  \/ ItIsIn(d)
              \/ \E i \in parked \cup waiting :
                   /\ stream[i].batch = run /\ d \in ChunkDiffs(stream[i])
                   /\ HeldBack(i) \/ (i \in parked /\ \E e \in ChunkDiffs(stream[i]) : Barred(e))
  <2>1. PICK i \in DOMAIN stream : d \in ChunkDiffs(stream[i]) /\ stream[i].batch = run
    BY <1>2, <1>13 DEF StreamHas
  <2>2. i \in 1..taken
    BY <1>12, <1>13
  <2>3. CASE ChunkDiffs(stream[i]) \subseteq done
    BY <1>8, <2>1, <2>3
  <2>4. CASE i \in waiting
    BY <1>4, <2>1, <2>4
  <2>5. CASE i \in parked /\ ~(ChunkDiffs(stream[i]) \subseteq done)
    BY <1>4, <2>1, <2>5 DEF IsBarred
  <2>. QED
    BY <1>4, <2>2, <2>3, <2>4, <2>5
<1>14. ASSUME exit = "ok", taken = Len(stream), run = 1, faults = MaxFaults
       PROVE  vault = index \/ \E d \in D : Barred(d)
  <2>. SUFFICES ASSUME \A d \in D : ~Barred(d) PROVE vault = index
    OBVIOUS
  <2>1. parked = {}
    <3>. SUFFICES ASSUME NEW i \in parked PROVE FALSE
      OBVIOUS
    <3>1. i \in DOMAIN stream
      BY <1>12, <1>14
    <3>2. IsPart(stream[i], D)
      BY <1>2, <3>1 DEF StreamHas
    <3>3. ChunkDiffs(stream[i]) \subseteq D
      BY <1>4, <3>2, PartIs
    <3>4. IsBarred(stream[i])
      BY <1>4, <1>14
    <3>. QED
      BY <3>3, <3>4 DEF IsBarred
  <2>2. waiting = {}
    BY <1>4, <2>1 DEF HeldBack
  <2>3. \A d \in D : d \in done
    <3>. SUFFICES ASSUME NEW d \in D PROVE d \in done
      OBVIOUS
    <3>1. PICK i \in DOMAIN stream : d \in ChunkDiffs(stream[i])
      BY <1>2, <1>14 DEF StreamHas
    <3>2. i \in 1..taken
      BY <1>12, <1>14
    <3>. QED
      BY <1>4, <2>1, <2>2, <3>1, <3>2
  <2>4. \A p \in Paths : vault[p] = index[p]
    BY <1>5, <1>6, <2>3
  <2>5. vault \in Trees /\ index \in Trees
    BY DEF ProducerInv, ImportTypeOK, DrainTypeOK
  <2>. QED
    BY <2>4, <2>5 DEF Trees
<1>. QED
  BY <1>4, <1>9, <1>10, <1>11, <1>13, <1>14 DEF StagedIsWhatArrives

\* What is staged is what arrives, for any tree staged over any HEAD, however
\* the changes fall into chunks, whatever they link to and whichever are barred,
\* when the processor's reads and writes succeed: the vault never has anything
\* but the old and the new, a rename is whole, a chunk is parked for itself only
\* for a barred change or when done already, and after a zero exit a change is
\* missing from a drained vault only where its chunk was barred or held back;
\* a first import without a failure or a barred change arrives whole
\* (producer.run, _publish_all, processor._process).
THEOREM StagedArrives == ImportSpec => []StagedIsWhatArrives
<1>1. ImportInit => ProducerInv /\ StagingStands /\ DrainStands
  BY ProducerInit, StagingInit, DrainInit
<1>2. ProducerInv /\ StagingStands /\ DrainStands /\ [ImportNext]_importVars
        => (ProducerInv /\ StagingStands /\ DrainStands)'
  <2>1. ProducerInv /\ [ImportNext]_importVars => ProducerInv'
    BY ProducerStep
  <2>2. ProducerInv /\ StagingStands /\ [ImportNext]_importVars => StagingStands'
    BY StagingStep
  <2>3. ProducerInv /\ StagingStands /\ DrainStands /\ [ImportNext]_importVars => DrainStands'
    BY DrainStep
  <2>. QED
    BY <2>1, <2>2, <2>3
<1>3. ProducerInv /\ StagingStands /\ DrainStands => StagedIsWhatArrives
  BY StagingArrives
<1>. QED
  BY <1>1, <1>2, <1>3, PTL DEF ImportSpec

=============================================================================
