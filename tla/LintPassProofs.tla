---------------------------- MODULE LintPassProofs ----------------------------
(***************************************************************************)
(* Proofs about the lint pass, for every schema, vault and set of edits,   *)
(* any number of passes at once and any number of edits and failures: what *)
(* normalisation makes of a block, and from it that no edit is lost, that  *)
(* what a fix leaves is finished, and that the audit trail of a pass that  *)
(* exits zero is complete.                                                 *)
(***************************************************************************)
EXTENDS LintPass, SequenceTheorems, WellFoundedInduction, TLAPS

-----------------------------------------------------------------------------
(* Numbers.                                                                *)

\* A set of numbers has a least.
LEMMA LeastIsIn ==
  ASSUME NEW s \in SUBSET Nat, s # {}
  PROVE  Least(s) \in s /\ \A m \in s : Least(s) <= m
<1>1. \E n \in s : \A m \in s : <<m, n>> \notin OpToRel(<, Nat)
  BY NatLessThanWellFounded, WFMin, Zenon
<1>2. \E n \in s : \A m \in s : ~(m < n)
  BY <1>1, Zenon DEF OpToRel
<1>3. \E n \in s : \A m \in s : n <= m
  BY <1>2
<1>. QED
  BY <1>3 DEF Least

\* So what holds of 0, and of each number up to n after the one before it,
\* holds of them all.
LEMMA Ladder ==
  ASSUME NEW n \in Nat, NEW S, 0 \in S,
         \A i \in 0..n : i # n /\ i \in S => i + 1 \in S
  PROVE  \A i \in 0..n : i \in S
<1>. DEFINE T == {i \in 0..n : i \notin S}
<1>. SUFFICES ASSUME T # {} PROVE FALSE
  OBVIOUS
<1>. DEFINE m == Least(T)
<1>1. m \in T /\ \A k \in T : m <= k
  BY LeastIsIn
<1>. HIDE DEF m
<1>2. m \in 1..n
  BY <1>1
<1>3. m - 1 \in 0..n /\ m - 1 # n /\ m - 1 \notin T
  BY <1>1, <1>2
<1>4. (m - 1) + 1 \in S /\ (m - 1) + 1 = m
  BY <1>2, <1>3
<1>. QED
  BY <1>1, <1>4

-----------------------------------------------------------------------------
(* Without.                                                                *)

\* It is reached step by step, from the empty sequence.
LEMMA WithoutSteps ==
  ASSUME NEW s, NEW out, Len(s) \in Nat
  PROVE  \E f : /\ f[0] = <<>>
                /\ \A i \in 1..Len(s) :
                     f[i] = IF s[i] \in out THEN f[i - 1] ELSE Append(f[i - 1], s[i])
                /\ Without(s, out) = f[Len(s)]
<1>. DEFINE Step(g, i) == IF i = 0 THEN <<>>
                          ELSE IF s[i] \in out THEN g[i - 1] ELSE Append(g[i - 1], s[i])
            S == {n \in 0..Len(s) : \E g : g = [i \in 0..n |-> Step(g, i)]}
<1>1. 0 \in S
  <2>. DEFINE g == [i \in 0..0 |-> <<>>]
  <2>1. g = [i \in 0..0 |-> Step(g, i)]
    OBVIOUS
  <2>. HIDE DEF g
  <2>. QED
    BY <2>1
<1>2. ASSUME NEW n \in 0..Len(s), n # Len(s), n \in S
      PROVE  n + 1 \in S
  <2>1. PICK g : g = [i \in 0..n |-> Step(g, i)]
    BY <1>2
  <2>. DEFINE h == [i \in 0..(n + 1) |-> IF i = n + 1 THEN Step(g, i) ELSE g[i]]
  <2>2. ASSUME NEW i \in 0..(n + 1) PROVE h[i] = Step(h, i)
    <3>1. CASE i = 0
      BY <2>1, <3>1
    <3>2. CASE i # 0
      <4>1. i - 1 \in 0..n /\ h[i - 1] = g[i - 1]
        BY <3>2
      <4>2. h[i] = Step(g, i)
        <5>1. CASE i = n + 1
          BY <5>1
        <5>2. CASE i # n + 1
          <6>1. i \in 0..n /\ h[i] = g[i]
            BY <5>2
          <6>. HIDE DEF h, Step
          <6>. QED
            BY <2>1, <6>1
        <5>. QED
          BY <5>1, <5>2
      <4>. QED
        BY <3>2, <4>1, <4>2
    <3>. QED
      BY <3>1, <3>2
  <2>3. h = [i \in 0..(n + 1) |-> Step(h, i)]
    <3>1. DOMAIN h = 0..(n + 1)
      OBVIOUS
    <3>2. h = [i \in 0..(n + 1) |-> h[i]]
      BY <3>1
    <3>. HIDE DEF h
    <3>. QED
      BY <2>2, <3>2
  <2>. HIDE DEF h, Step
  <2>. QED
    BY <2>3
<1>3. Len(s) \in S
  <2>. HIDE DEF S
  <2>1. \A i \in 0..Len(s) : i # Len(s) /\ i \in S => i + 1 \in S
    BY <1>2
  <2>2. \A i \in 0..Len(s) : i \in S
    BY <1>1, <2>1, Ladder, Zenon
  <2>. QED
    BY <2>2
<1>. DEFINE f == CHOOSE g : g = [i \in 0..Len(s) |-> Step(g, i)]
<1>4. f = [i \in 0..Len(s) |-> Step(f, i)]
  BY <1>3, Zenon
<1>5. Without(s, out) = f[Len(s)]
  BY DEF Without
<1>. HIDE DEF f
<1>6. \A i \in 0..Len(s) : f[i] = Step(f, i)
  <2>. HIDE DEF Step
  <2>. QED
    BY <1>4
<1>7. f[0] = <<>>
  BY <1>6
<1>8. ASSUME NEW i \in 1..Len(s)
      PROVE  f[i] = IF s[i] \in out THEN f[i - 1] ELSE Append(f[i - 1], s[i])
  BY <1>6
<1>. QED
  BY <1>5, <1>7, <1>8

\* What a sequence holds, and whether each but once.
Elements(s) == {s[i] : i \in DOMAIN s}
Once(s) == \A i, j \in DOMAIN s : s[i] = s[j] => i = j

\* Appending adds one element, at the end.
LEMMA AppendAdds ==
  ASSUME NEW R, NEW s \in Seq(R), NEW x \in R
  PROVE  /\ Append(s, x) \in Seq(R)
         /\ Elements(Append(s, x)) = Elements(s) \cup {x}
         /\ DOMAIN Append(s, x) = 1..(Len(s) + 1)
         /\ \A i \in 1..Len(s) : Append(s, x)[i] = s[i]
         /\ Append(s, x)[Len(s) + 1] = x
<1>1. /\ Append(s, x) \in Seq(R) /\ Len(s) \in Nat
      /\ DOMAIN s = 1..Len(s) /\ DOMAIN Append(s, x) = 1..(Len(s) + 1)
      /\ \A i \in 1..Len(s) : Append(s, x)[i] = s[i]
      /\ Append(s, x)[Len(s) + 1] = x
  OBVIOUS
<1>2. Elements(Append(s, x)) = Elements(s) \cup {x}
  <2>1. ASSUME NEW y \in Elements(Append(s, x)) PROVE y \in Elements(s) \cup {x}
    BY <1>1, <2>1 DEF Elements
  <2>2. ASSUME NEW y \in Elements(s) \cup {x} PROVE y \in Elements(Append(s, x))
    BY <1>1, <2>2 DEF Elements
  <2>. QED
    BY <2>1, <2>2
<1>. QED
  BY <1>1, <1>2

\* It holds what the sequence holds and is not left out, and nothing twice if
\* the sequence has nothing twice.
LEMMA WithoutHolds ==
  ASSUME NEW R, NEW s \in Seq(R), NEW out
  PROVE  /\ Without(s, out) \in Seq(R)
         /\ Elements(Without(s, out)) = Elements(s) \ out
         /\ Once(s) => Once(Without(s, out))
<1>1. Len(s) \in Nat /\ DOMAIN s = 1..Len(s) /\ \A i \in 1..Len(s) : s[i] \in R
  OBVIOUS
<1>2. PICK f : /\ f[0] = <<>>
               /\ \A i \in 1..Len(s) :
                    f[i] = IF s[i] \in out THEN f[i - 1] ELSE Append(f[i - 1], s[i])
               /\ Without(s, out) = f[Len(s)]
  BY <1>1, WithoutSteps, Zenon
<1>. DEFINE Good(n) == /\ f[n] \in Seq(R)
                       /\ Elements(f[n]) = {s[i] : i \in 1..n} \ out
                       /\ Once(s) => Once(f[n])
            S == {n \in 0..Len(s) : Good(n)}
<1>3. 0 \in S
  <2>1. f[0] \in Seq(R) /\ DOMAIN f[0] = {} /\ Elements(f[0]) = {}
    BY <1>2 DEF Elements
  <2>. QED
    BY <1>1, <2>1 DEF Once
<1>4. ASSUME NEW n \in 0..Len(s), n # Len(s), n \in S
      PROVE  n + 1 \in S
  <2>1. /\ n + 1 \in 1..Len(s) /\ n + 1 \in 0..Len(s) /\ (n + 1) - 1 = n
        /\ 1..(n + 1) = 1..n \cup {n + 1}
    <3>. HIDE DEF S
    <3>1. Len(s) \in Nat /\ n \in 0..Len(s) /\ n # Len(s)
      BY <1>1, <1>4
    <3>. QED
      BY <3>1
  <2>2. Good(n)
    BY <1>4
  <2>3. f[n + 1] = IF s[n + 1] \in out THEN f[n] ELSE Append(f[n], s[n + 1])
    BY <1>2, <2>1
  <2>4. {s[i] : i \in 1..(n + 1)} = {s[i] : i \in 1..n} \cup {s[n + 1]}
    BY <2>1
  <2>5. CASE s[n + 1] \in out
    BY <2>1, <2>2, <2>3, <2>4, <2>5
  <2>6. CASE s[n + 1] \notin out
    <3>1. f[n + 1] = Append(f[n], s[n + 1]) /\ s[n + 1] \in R
      BY <1>1, <2>1, <2>3, <2>6
    <3>2. /\ f[n + 1] \in Seq(R)
          /\ Elements(f[n + 1]) = Elements(f[n]) \cup {s[n + 1]}
      BY <2>2, <3>1, AppendAdds
    <3>3. Elements(f[n + 1]) = {s[i] : i \in 1..(n + 1)} \ out
      BY <2>2, <2>4, <2>6, <3>2
    <3>4. ASSUME Once(s) PROVE Once(f[n + 1])
      <4>1. s[n + 1] \notin {s[i] : i \in 1..n}
        BY <1>1, <2>1, <3>4 DEF Once
      <4>2. \A i \in DOMAIN f[n] : f[n][i] # s[n + 1]
        BY <2>2, <4>1 DEF Elements
      <4>3. Once(f[n]) /\ f[n] \in Seq(R)
        BY <2>2, <3>4
      <4>4. /\ DOMAIN f[n + 1] = 1..(Len(f[n]) + 1)
            /\ \A i \in 1..Len(f[n]) : f[n + 1][i] = f[n][i]
            /\ f[n + 1][Len(f[n]) + 1] = s[n + 1]
        BY <3>1, <4>3, AppendAdds
      <4>5. Len(f[n]) \in Nat /\ DOMAIN f[n] = 1..Len(f[n])
        BY <4>3
      <4>. SUFFICES ASSUME NEW i \in DOMAIN f[n + 1], NEW j \in DOMAIN f[n + 1],
                           f[n + 1][i] = f[n + 1][j]
                    PROVE  i = j
        BY DEF Once
      <4>6. i \in DOMAIN f[n] \/ i = Len(f[n]) + 1
        BY <4>4, <4>5
      <4>7. j \in DOMAIN f[n] \/ j = Len(f[n]) + 1
        BY <4>4, <4>5
      <4>. QED
        BY <4>2, <4>3, <4>4, <4>5, <4>6, <4>7 DEF Once
    <3>. QED
      BY <2>1, <3>2, <3>3, <3>4
  <2>. QED
    BY <2>5, <2>6
<1>5. Good(Len(s))
  <2>1. \A i \in 0..Len(s) : i # Len(s) /\ i \in S => i + 1 \in S
    <3>. HIDE DEF S
    <3>. QED
      BY <1>4
  <2>2. \A i \in 0..Len(s) : i \in S
    <3>. HIDE DEF S
    <3>. QED
      BY <1>1, <1>3, <2>1, Ladder, Zenon
  <2>3. Len(s) \in 0..Len(s)
    BY <1>1
  <2>. HIDE DEF Good
  <2>. QED
    BY <2>2, <2>3
<1>6. Elements(s) = {s[i] : i \in 1..Len(s)}
  BY <1>1 DEF Elements
<1>. QED
  BY <1>2, <1>5, <1>6

JoinsUp(u, v, x) == Append(u \o v, x) = u \o Append(v, x)

\* Appending to a concatenation is appending to its second half.
LEMMA AppendJoins ==
  ASSUME NEW R, NEW u \in Seq(R), NEW v \in Seq(R), NEW x \in R
  PROVE  JoinsUp(u, v, x)
<1>1. u \o v \in Seq(R) /\ Append(u \o v, x) \in Seq(R) /\ Append(v, x) \in Seq(R)
  BY ConcatProperties, AppendAdds
<1>2. u \o Append(v, x) \in Seq(R)
  BY <1>1, ConcatProperties
<1>3. Len(u) \in Nat /\ Len(v) \in Nat
  BY LenProperties
<1>4. Len(Append(u \o v, x)) = Len(u) + Len(v) + 1 /\ Len(u \o Append(v, x)) = Len(u) + Len(v) + 1
  BY <1>1, <1>3, ConcatProperties
<1>5. ASSUME NEW i \in 1..(Len(u) + Len(v) + 1)
      PROVE  Append(u \o v, x)[i] = (u \o Append(v, x))[i]
  <2>1. (u \o Append(v, x))[i] = IF i <= Len(u) THEN u[i] ELSE Append(v, x)[i - Len(u)]
    BY <1>1, <1>3, ConcatProperties
  <2>2. i <= Len(u) + Len(v) =>
          (u \o v)[i] = IF i <= Len(u) THEN u[i] ELSE v[i - Len(u)]
    BY <1>3, ConcatProperties
  <2>3. Append(u \o v, x)[i] = IF i <= Len(u) + Len(v) THEN (u \o v)[i] ELSE x
    <3>1. Len(u \o v) = Len(u) + Len(v)
      BY ConcatProperties
    <3>2. /\ \A j \in 1..Len(u \o v) : Append(u \o v, x)[j] = (u \o v)[j]
          /\ Append(u \o v, x)[Len(u \o v) + 1] = x
      BY <1>1, AppendAdds
    <3>. QED
      BY <1>3, <3>1, <3>2
  <2>4. i > Len(u) => Append(v, x)[i - Len(u)] = IF i <= Len(u) + Len(v) THEN v[i - Len(u)] ELSE x
    BY <1>3
  <2>. QED
    BY <1>3, <2>1, <2>2, <2>3, <2>4
<1>. QED
  BY <1>1, <1>2, <1>4, <1>5, SeqEqual DEF JoinsUp

\* Of two sequences joined it is the two joined.
LEMMA WithoutJoins ==
  ASSUME NEW R, NEW s \in Seq(R), NEW t \in Seq(R), NEW out
  PROVE  Without(s \o t, out) = Without(s, out) \o Without(t, out)
<1>. DEFINE st == s \o t
<1>1. /\ st \in Seq(R) /\ Len(s) \in Nat /\ Len(t) \in Nat
      /\ Len(st) = Len(s) + Len(t)
      /\ \A i \in 1..(Len(s) + Len(t)) : st[i] = IF i <= Len(s) THEN s[i] ELSE t[i - Len(s)]
  BY ConcatProperties, LenProperties
<1>. HIDE DEF st
<1>2. PICK f : /\ f[0] = <<>>
               /\ \A i \in 1..Len(s) :
                    f[i] = IF s[i] \in out THEN f[i - 1] ELSE Append(f[i - 1], s[i])
               /\ Without(s, out) = f[Len(s)]
  BY <1>1, WithoutSteps, Zenon
<1>3. PICK g : /\ g[0] = <<>>
               /\ \A i \in 1..Len(t) :
                    g[i] = IF t[i] \in out THEN g[i - 1] ELSE Append(g[i - 1], t[i])
               /\ Without(t, out) = g[Len(t)]
  BY <1>1, WithoutSteps, Zenon
<1>4. Len(st) \in Nat
  BY <1>1
<1>5. PICK h : /\ h[0] = <<>>
               /\ \A i \in 1..Len(st) :
                    h[i] = IF st[i] \in out THEN h[i - 1] ELSE Append(h[i - 1], st[i])
               /\ Without(st, out) = h[Len(st)]
  BY <1>4, WithoutSteps, Zenon
<1>6. h[Len(s)] = f[Len(s)]
  <2>. DEFINE S == {n \in 0..Len(s) : h[n] = f[n]}
  <2>1. 0 \in S
    <3>1. 0 \in 0..Len(s)
      BY <1>1
    <3>. QED
      BY <1>2, <1>5, <3>1
  <2>2. ASSUME NEW n \in 0..Len(s), n # Len(s), n \in S PROVE n + 1 \in S
    <3>1. n + 1 \in 1..Len(s) /\ n + 1 \in 1..Len(st) /\ (n + 1) - 1 = n /\ n + 1 \in 0..Len(s)
      BY <1>1, <2>2
    <3>2. st[n + 1] = s[n + 1] /\ h[n] = f[n]
      BY <1>1, <2>2, <3>1
    <3>. QED
      BY <1>2, <1>5, <3>1, <3>2
  <2>. HIDE DEF S
  <2>3. \A n \in 0..Len(s) : n # Len(s) /\ n \in S => n + 1 \in S
    BY <2>2
  <2>4. Len(s) \in S
    <3>1. \A n \in 0..Len(s) : n \in S
      BY <1>1, <2>1, <2>3, Ladder, Zenon
    <3>. QED
      BY <1>1, <3>1
  <2>. USE DEF S
  <2>. QED
    BY <2>4
<1>7. f[Len(s)] \in Seq(R)
  BY <1>2, WithoutHolds
<1>8. g[Len(t)] \in Seq(R) /\ h[Len(s) + Len(t)] = f[Len(s)] \o g[Len(t)]
  <2>. DEFINE S == {n \in 0..Len(t) : g[n] \in Seq(R) /\ h[Len(s) + n] = f[Len(s)] \o g[n]}
  <2>1. 0 \in S
    <3>1. f[Len(s)] \o <<>> = f[Len(s)] /\ <<>> \in Seq(R) /\ Len(s) + 0 = Len(s)
      BY <1>1, <1>7, ConcatEmptySeq
    <3>2. 0 \in 0..Len(t)
      BY <1>1
    <3>. QED
      BY <1>3, <1>6, <3>1, <3>2
  <2>2. ASSUME NEW n \in 0..Len(t), n # Len(t), n \in S PROVE n + 1 \in S
    <3>1. /\ n + 1 \in 1..Len(t) /\ n + 1 \in 0..Len(t) /\ (n + 1) - 1 = n
          /\ Len(s) + (n + 1) \in 1..Len(st)
          /\ (Len(s) + (n + 1)) - 1 = Len(s) + n
      BY <1>1, <2>2
    <3>2. st[Len(s) + (n + 1)] = t[n + 1] /\ t[n + 1] \in R
      BY <1>1, <2>2, <3>1
    <3>3. g[n] \in Seq(R) /\ h[Len(s) + n] = f[Len(s)] \o g[n]
      BY <2>2
    <3>4. h[Len(s) + (n + 1)] =
            IF t[n + 1] \in out THEN h[Len(s) + n] ELSE Append(h[Len(s) + n], t[n + 1])
      BY <1>5, <3>1, <3>2
    <3>5. g[n + 1] = IF t[n + 1] \in out THEN g[n] ELSE Append(g[n], t[n + 1])
      BY <1>3, <3>1
    <3>6. Append(f[Len(s)] \o g[n], t[n + 1]) = f[Len(s)] \o Append(g[n], t[n + 1])
      <4>1. JoinsUp(f[Len(s)], g[n], t[n + 1])
        BY <1>7, <3>2, <3>3, AppendJoins
      <4>. QED
        BY <4>1 DEF JoinsUp
    <3>7. Append(g[n], t[n + 1]) \in Seq(R)
      BY <3>2, <3>3, AppendAdds
    <3>. QED
      BY <3>1, <3>3, <3>4, <3>5, <3>6, <3>7
  <2>. HIDE DEF S
  <2>3. \A n \in 0..Len(t) : n # Len(t) /\ n \in S => n + 1 \in S
    BY <2>2
  <2>4. Len(t) \in S
    <3>1. \A n \in 0..Len(t) : n \in S
      BY <1>1, <2>1, <2>3, Ladder, Zenon
    <3>. QED
      BY <1>1, <3>1
  <2>. USE DEF S
  <2>. QED
    BY <2>4
<1>. QED
  BY <1>1, <1>2, <1>3, <1>5, <1>8 DEF st

\* Of a sequence that has none of the set it is the sequence, and of one that
\* has nothing else it is empty.
LEMMA WithoutIdle ==
  ASSUME NEW R, NEW s \in Seq(R), NEW out
  PROVE  /\ Elements(s) \cap out = {} => Without(s, out) = s
         /\ Elements(s) \subseteq out => Without(s, out) = <<>>
<1>1. Len(s) \in Nat /\ DOMAIN s = 1..Len(s) /\ \A i \in 1..Len(s) : s[i] \in R
  OBVIOUS
<1>2. ASSUME Elements(s) \subseteq out PROVE Without(s, out) = <<>>
  <2>1. Without(s, out) \in Seq(R) /\ Elements(Without(s, out)) = {}
    BY <1>2, WithoutHolds
  <2>2. DOMAIN Without(s, out) = {}
    BY <2>1 DEF Elements
  <2>3. Len(Without(s, out)) \in Nat /\ DOMAIN Without(s, out) = 1..Len(Without(s, out))
    BY <2>1, LenProperties
  <2>4. Len(Without(s, out)) = 0
    BY <2>2, <2>3
  <2>. QED
    BY <2>1, <2>4, EmptySeq
<1>3. ASSUME Elements(s) \cap out = {} PROVE Without(s, out) = s
  <2>1. PICK f : /\ f[0] = <<>>
                 /\ \A i \in 1..Len(s) :
                      f[i] = IF s[i] \in out THEN f[i - 1] ELSE Append(f[i - 1], s[i])
                 /\ Without(s, out) = f[Len(s)]
    BY <1>1, WithoutSteps, Zenon
  <2>2. \A i \in 1..Len(s) : s[i] \notin out
    BY <1>1, <1>3 DEF Elements
  <2>. DEFINE S == {n \in 0..Len(s) : f[n] = SubSeq(s, 1, n)}
  <2>0. Len(s) \in Nat /\ 0 \in 0..Len(s) /\ 0 \in Int /\ 1 \in Int /\ 0 < 1
    BY <1>1
  <2>3. 0 \in S
    <3>1. SubSeq(s, 1, 0) = <<>>
      BY <2>0, SubSeqEmpty, Zenon
    <3>. QED
      BY <2>0, <2>1, <3>1
  <2>4. ASSUME NEW n \in 0..Len(s), n # Len(s), n \in S PROVE n + 1 \in S
    <3>1. n + 1 \in 1..Len(s) /\ n + 1 \in 0..Len(s) /\ (n + 1) - 1 = n
      <4>. HIDE DEF S
      <4>. QED
        BY <2>0, <2>4
    <3>2. f[n + 1] = Append(SubSeq(s, 1, n), s[n + 1])
      BY <2>1, <2>2, <2>4, <3>1
    <3>3. SubSeq(s, 1, n) \in Seq(R) /\ Len(SubSeq(s, 1, n)) = n
      BY <1>1, <3>1, SubSeqProperties
    <3>4. SubSeq(s, 1, n + 1) = SubSeq(s, 1, n) \o <<s[n + 1]>>
      <4>1. 1 \in 1..Len(s) /\ n + 1 \in 1..Len(s)
        BY <1>1, <3>1
      <4>. QED
        BY <3>1, <4>1, SubSeqRecursiveSecond
    <3>5. Append(SubSeq(s, 1, n), s[n + 1]) = SubSeq(s, 1, n) \o <<s[n + 1]>>
      BY <1>1, <3>1, <3>3
    <3>. QED
      BY <3>1, <3>2, <3>4, <3>5
  <2>. HIDE DEF S
  <2>5. \A n \in 0..Len(s) : n # Len(s) /\ n \in S => n + 1 \in S
    BY <2>4
  <2>6. Len(s) \in S
    <3>1. \A n \in 0..Len(s) : n \in S
      BY <1>1, <2>3, <2>5, Ladder, Zenon
    <3>. QED
      BY <1>1, <3>1
  <2>. USE DEF S
  <2>. QED
    BY <2>1, <2>6, SubSeqFull
<1>. QED
  BY <1>2, <1>3

-----------------------------------------------------------------------------
(* What normalisation makes of a block.                                    *)

\* The keys of the schema, in its order, each once.
LEMMA CanonicalHolds ==
  ASSUME NEW keys
  PROVE  /\ Canonical(keys) \in Seq(Fields)
         /\ Elements(Canonical(keys)) = Fields \cap keys
         /\ Once(Canonical(keys))
<1>. DEFINE names == [i \in DOMAIN Schema |-> Schema[i].name]
<1>1. names \in [1..Len(Schema) -> Fields] /\ Len(Schema) \in Nat
  BY NormaliseAssumption DEF Fields
<1>2. names \in Seq(Fields)
  <2>. HIDE DEF names
  <2>. QED
    BY <1>1, SeqDef
<1>3. Elements(names) = Fields
  BY DEF Elements, Fields
<1>4. Once(names)
  BY NormaliseAssumption DEF Once
<1>5. Canonical(keys) = Without(names, Fields \ keys)
  BY DEF Canonical
<1>. HIDE DEF names
<1>6. /\ Without(names, Fields \ keys) \in Seq(Fields)
      /\ Elements(Without(names, Fields \ keys)) = Elements(names) \ (Fields \ keys)
      /\ Once(Without(names, Fields \ keys))
  BY <1>2, <1>4, WithoutHolds
<1>7. Elements(names) \ (Fields \ keys) = Fields \cap keys
  BY <1>3
<1>. QED
  BY <1>5, <1>6, <1>7, Zenon

\* Its keys are those of the block and those it may add, in order.
LEMMA NormalKeys ==
  ASSUME NEW b
  PROVE  /\ Keys(Normal(b)) = Keys(b) \cup Stamped \cup Inserted
         /\ Normal(b).order = Ordered(b, Keys(b) \cup Stamped \cup Inserted)
BY DEF Normal, Keys

\* A value is stamped, put in its ISO form, lower-cased, kept or inserted.
Became(b, k, v) ==
  \/ k \in ToStamp(b) /\ v = Modified
  \/ k \in ToIso(b) /\ v = IsoOf[b.value[k]]
  \/ k \in ToLower(b) /\ v = LowerOf[b.value[k]]
  \/ k \in Keys(b) \ (ToStamp(b) \cup ToIso(b) \cup ToLower(b)) /\ v = b.value[k]
  \/ k \in ToInsert(b) \ ToStamp(b) /\ v = NoValue

\* No two of the rewritings are due to one value, so their order is nothing.
LEMMA OneRewriting ==
  ASSUME NEW b, NEW k
  PROVE  /\ k \in ToIso(b) => k \in Keys(b) /\ k \notin ToStamp(b) /\ k \notin ToLower(b)
         /\ k \in ToLower(b) => k \in Keys(b) /\ k \notin ToStamp(b)
         /\ k \in Stamped \ Keys(b) => k \in ToStamp(b)
BY NormaliseAssumption DEF ToIso, ToLower, ToStamp

\* And nothing else becomes of one.
LEMMA NormalValue ==
  ASSUME NEW b, NEW k \in Keys(Normal(b))
  PROVE  Became(b, k, Normal(b).value[k])
<1>. DEFINE v == Normal(b).value[k]
<1>1. k \in Keys(b) \cup Stamped \cup Inserted
  BY NormalKeys
<1>2. v = CASE k \in ToStamp(b) -> Modified
            [] k \in ToIso(b)   -> IsoOf[b.value[k]]
            [] k \in ToLower(b) -> LowerOf[b.value[k]]
            [] OTHER            -> Filled(b, k)
  BY <1>1 DEF Normal
<1>3. k \in ToInsert(b) <=> k \in Inserted \ Keys(b)
  BY DEF ToInsert
<1>. HIDE DEF v
<1>4. CASE k \in ToStamp(b)
  <2>1. v = Modified
    BY <1>2, <1>4, OneRewriting
  <2>. QED
    BY <1>4, <2>1 DEF Became, v
<1>5. CASE k \in ToIso(b)
  <2>1. v = IsoOf[b.value[k]]
    BY <1>2, <1>5, OneRewriting
  <2>. QED
    BY <1>5, <2>1 DEF Became, v
<1>6. CASE k \in ToLower(b)
  <2>1. v = LowerOf[b.value[k]]
    BY <1>2, <1>6, OneRewriting
  <2>. QED
    BY <1>6, <2>1 DEF Became, v
<1>7. CASE k \notin ToStamp(b) /\ k \notin ToIso(b) /\ k \notin ToLower(b)
  <2>1. v = Filled(b, k)
    BY <1>2, <1>7
  <2>2. k \in Keys(b) \/ k \in ToInsert(b)
    BY <1>1, <1>3, <1>7, OneRewriting
  <2>3. k \in Keys(b) => k \notin ToInsert(b)
    BY <1>3
  <2>. QED
    BY <1>7, <2>1, <2>2, <2>3 DEF Became, Filled, v
<1>. QED
  BY <1>4, <1>5, <1>6, <1>7

\* What normalisation makes of a block a parser can give is one.
LEMMA NormalIsWellFormed ==
  ASSUME NEW b, WellFormed(b)
  PROVE  WellFormed(Normal(b))
<1>. DEFINE keys == Keys(b) \cup Stamped \cup Inserted
            c == Normal(b)
            rest == Without(b.order, Fields)
<1>1. Keys(c) = keys /\ c.order = Canonical(keys) \o rest
  BY NormalKeys DEF Ordered
<1>2. /\ b.order \in Seq(Keys(b)) /\ Elements(b.order) = Keys(b)
      /\ Once(b.order)
  BY DEF WellFormed, Elements, Once
<1>3. /\ rest \in Seq(Keys(b)) /\ Elements(rest) = Keys(b) \ Fields
      /\ Once(rest)
  BY <1>2, WithoutHolds
<1>4. /\ Canonical(keys) \in Seq(Fields) /\ Elements(Canonical(keys)) = Fields \cap keys
      /\ Once(Canonical(keys))
  BY CanonicalHolds
<1>5. Stamped \subseteq Fields /\ Inserted \subseteq Fields
  BY NormaliseAssumption DEF Inserted
<1>6. \A k \in keys : c.value[k] \in Scalars \cup Lists \cup {NoValue}
  <2>. SUFFICES ASSUME NEW k \in keys PROVE c.value[k] \in Scalars \cup Lists \cup {NoValue}
    OBVIOUS
  <2>1. Became(b, k, c.value[k])
    BY <1>1, NormalValue
  <2>2. k \in Keys(b) => b.value[k] \in Scalars \cup Lists \cup {NoValue}
    BY DEF WellFormed
  <2>. HIDE DEF c
  <2>. QED
    BY <2>1, <2>2, NormaliseAssumption DEF Became, ToIso, ToLower
<1>. DEFINE head == Canonical(keys)
<1>7. /\ head \in Seq(keys) /\ rest \in Seq(keys)
      /\ Elements(head) = Fields \cap keys /\ Elements(rest) = keys \ Fields
      /\ Elements(head) \cap Elements(rest) = {}
      /\ Elements(head) \cup Elements(rest) = keys
  <2>0. head \in Seq(Fields) /\ Elements(head) = Fields \cap keys
    BY <1>4
  <2>. HIDE DEF head
  <2>1. /\ Len(head) \in Nat /\ DOMAIN head = 1..Len(head)
        /\ head \in [1..Len(head) -> Fields]
    BY <2>0, LenProperties
  <2>2. \A i \in 1..Len(head) : head[i] \in keys
    <3>. HIDE DEF keys
    <3>. QED
      BY <2>0, <2>1 DEF Elements
  <2>3. head \in [1..Len(head) -> keys]
    <3>. HIDE DEF keys
    <3>. QED
      BY <2>1, <2>2
  <2>4. head \in Seq(keys)
    <3>. HIDE DEF keys
    <3>. QED
      BY <2>1, <2>3, SeqDef
  <2>. USE DEF head
  <2>. QED
    BY <1>3, <1>4, <1>5, <2>4, SeqMonotonic
<1>. HIDE DEF head, rest, c, keys
<1>8. head \o rest \in Seq(keys)
  BY <1>7, ConcatProperties
<1>. DEFINE m == Len(head)
            n == Len(rest)
<1>9. /\ m \in Nat /\ n \in Nat /\ DOMAIN head = 1..m /\ DOMAIN rest = 1..n
      /\ DOMAIN (head \o rest) = 1..(m + n)
      /\ \A i \in 1..(m + n) : (head \o rest)[i] = IF i <= m THEN head[i] ELSE rest[i - m]
  BY <1>7, <1>8, ConcatProperties, LenProperties
<1>. HIDE DEF m, n
<1>10. Elements(head \o rest) = keys
  <2>1. ASSUME NEW x \in keys PROVE x \in Elements(head \o rest)
    <3>1. CASE x \in Elements(head)
      <4>1. PICK i \in 1..m : x = head[i]
        BY <1>9, <3>1 DEF Elements
      <4>2. i \in 1..(m + n) /\ (head \o rest)[i] = x
        BY <1>9, <4>1
      <4>. QED
        BY <1>9, <4>2 DEF Elements
    <3>2. CASE x \in Elements(rest)
      <4>1. PICK i \in 1..n : x = rest[i]
        BY <1>9, <3>2 DEF Elements
      <4>2. m + i \in 1..(m + n) /\ (head \o rest)[m + i] = x
        BY <1>9, <4>1
      <4>. QED
        BY <1>9, <4>2 DEF Elements
    <3>. QED
      BY <1>7, <3>1, <3>2
  <2>2. ASSUME NEW i \in 1..(m + n) PROVE (head \o rest)[i] \in keys
    BY <1>8, <1>9
  <2>. QED
    BY <1>9, <2>1, <2>2 DEF Elements
<1>11. ASSUME NEW i \in 1..(m + n), NEW j \in 1..(m + n),
              (head \o rest)[i] = (head \o rest)[j]
       PROVE  i = j
  <2>1. i <= m => i \in DOMAIN head /\ (head \o rest)[i] = head[i]
    BY <1>9
  <2>2. j <= m => j \in DOMAIN head /\ (head \o rest)[j] = head[j]
    BY <1>9
  <2>3. ~(i <= m) => i - m \in DOMAIN rest /\ (head \o rest)[i] = rest[i - m]
    BY <1>9
  <2>4. ~(j <= m) => j - m \in DOMAIN rest /\ (head \o rest)[j] = rest[j - m]
    BY <1>9
  <2>5. CASE i <= m /\ j <= m
    BY <1>4, <1>11, <2>1, <2>2, <2>5 DEF head, Once
  <2>6. CASE ~(i <= m) /\ ~(j <= m)
    <3>1. i - m = j - m
      BY <1>3, <1>11, <2>3, <2>4, <2>6 DEF Once
    <3>. QED
      BY <1>9, <3>1
  <2>7. CASE i <= m /\ ~(j <= m)
    <3>1. (head \o rest)[i] \in Elements(head) /\ (head \o rest)[j] \in Elements(rest)
      BY <2>1, <2>4, <2>7 DEF Elements
    <3>. QED
      BY <1>7, <1>11, <3>1
  <2>8. CASE ~(i <= m) /\ j <= m
    <3>1. (head \o rest)[j] \in Elements(head) /\ (head \o rest)[i] \in Elements(rest)
      BY <2>2, <2>3, <2>8 DEF Elements
    <3>. QED
      BY <1>7, <1>11, <3>1
  <2>. QED
    BY <2>5, <2>6, <2>7, <2>8
<1>12. c.order = head \o rest /\ Keys(c) = keys
  BY <1>1 DEF head
<1>13. /\ c.order \in Seq(Keys(c)) /\ Keys(c) = Elements(c.order)
       /\ Once(c.order)
  BY <1>8, <1>9, <1>10, <1>11, <1>12 DEF Once
<1>14. WellFormed(c)
  BY <1>6, <1>12, <1>13 DEF WellFormed, Elements, Once
<1>. QED
  BY <1>14 DEF c

\* It leaves the keys outside the schema alone, in their order.
LEMMA NormalKeepsTheRest ==
  ASSUME NEW b, WellFormed(b)
  PROVE  Without(Normal(b).order, Fields) = Without(b.order, Fields)
<1>. DEFINE keys == Keys(b) \cup Stamped \cup Inserted
            head == Canonical(keys)
            rest == Without(b.order, Fields)
            R == Keys(b) \cup Fields
<1>1. Normal(b).order = head \o rest
  BY NormalKeys DEF Ordered
<1>2. head \in Seq(Fields) /\ Elements(head) \subseteq Fields
  BY CanonicalHolds
<1>3. rest \in Seq(Keys(b)) /\ Elements(rest) = Elements(b.order) \ Fields
  BY WithoutHolds DEF WellFormed
<1>. HIDE DEF head, rest
<1>4. head \in Seq(R) /\ rest \in Seq(R)
  BY <1>2, <1>3, SeqMonotonic
<1>. HIDE DEF R
<1>5. Without(head \o rest, Fields) = Without(head, Fields) \o Without(rest, Fields)
  BY <1>4, WithoutJoins
<1>6. Without(head, Fields) = <<>>
  BY <1>2, <1>4, WithoutIdle
<1>7. Without(rest, Fields) = rest
  <2>1. Elements(rest) \cap Fields = {}
    BY <1>3
  <2>. QED
    BY <1>4, <2>1, WithoutIdle
<1>8. <<>> \o rest = rest
  BY <1>4, ConcatEmptySeq
<1>. QED
  BY <1>1, <1>5, <1>6, <1>7, <1>8 DEF rest

\* It leaves nothing to do for a second one.
LEMMA NormalIsDone ==
  ASSUME NEW b, WellFormed(b)
  PROVE  Changes(Normal(b)) = {}
<1>. DEFINE c == Normal(b)
<1>1. Keys(c) = Keys(b) \cup Stamped \cup Inserted
      /\ c.order = Canonical(Keys(c)) \o Without(b.order, Fields)
  BY NormalKeys DEF Ordered
<1>2. \A k \in Keys(c) : Became(b, k, c.value[k])
  BY NormalValue
<1>3. Without(c.order, Fields) = Without(b.order, Fields)
  BY NormalKeepsTheRest
<1>4. \A k \in Keys(b) : b.value[k] \in Scalars \cup Lists \cup {NoValue}
  BY DEF WellFormed
<1>. HIDE DEF c
<1>5. ToIso(c) = {}
  <2>. SUFFICES ASSUME NEW k \in ToIso(c) PROVE FALSE
    OBVIOUS
  <2>1. k \in Keys(c) /\ HasType(k, "date") /\ c.value[k] \in DOMAIN IsoOf
        /\ IsoOf[c.value[k]] # c.value[k]
    BY DEF ToIso
  <2>2. Became(b, k, c.value[k])
    BY <1>2, <2>1
  <2>. QED
    BY <2>1, <2>2, NormaliseAssumption DEF Became, ToIso, ToLower
<1>6. ToLower(c) = {}
  <2>. SUFFICES ASSUME NEW k \in ToLower(c) PROVE FALSE
    OBVIOUS
  <2>1. k \in Keys(c) /\ k = "tags" /\ c.value[k] \in Lists
        /\ LowerOf[c.value[k]] # c.value[k]
    BY DEF ToLower
  <2>2. Became(b, k, c.value[k])
    BY <1>2, <2>1
  <2>. QED
    BY <2>1, <2>2, NormaliseAssumption DEF Became, ToIso, ToLower
<1>7. ToStamp(c) = {}
  <2>. SUFFICES ASSUME NEW k \in ToStamp(c) PROVE FALSE
    OBVIOUS
  <2>1. k \in Stamped /\ k \in Keys(c) /\ c.value[k] \in {NoValue, Blank}
    BY <1>1 DEF ToStamp
  <2>2. Became(b, k, c.value[k])
    BY <1>2, <2>1
  <2>3. k \notin ToStamp(b) => k \in Keys(b) /\ b.value[k] \notin {NoValue, Blank} /\ k \notin ToInsert(b)
    BY <2>1 DEF ToStamp, ToInsert
  <2>. QED
    BY <2>1, <2>2, <2>3, NormaliseAssumption DEF Became, ToIso, ToLower
<1>8. ToInsert(c) = {}
  BY <1>1 DEF ToInsert
<1>9. Canonical(Keys(c)) \o Without(c.order, Fields) = c.order
  BY <1>1, <1>3
<1>10. Changes(c) = {}
  BY <1>5, <1>6, <1>7, <1>8, <1>9 DEF Changes
<1>. QED
  BY <1>10 DEF c

\* It says all that was said, dates and tags in their form, and but for a
\* stamp nothing that was not.
LEMMA NormalSaysTheSame ==
  ASSUME NEW b, WellFormed(b)
  PROVE  /\ \A k \in Keys(b) : Says(b, k) =>
              \/ Normal(b).value[k] = b.value[k]
              \/ HasType(k, "date") /\ Normal(b).value[k] = IsoOf[b.value[k]]
              \/ k = "tags" /\ Normal(b).value[k] = LowerOf[b.value[k]]
         /\ Keys(b) \subseteq Keys(Normal(b))
         /\ \A k \in Keys(Normal(b)) \ Stamped : Says(Normal(b), k) => Says(b, k)
<1>. DEFINE c == Normal(b)
<1>1. Keys(c) = Keys(b) \cup Stamped \cup Inserted
  BY NormalKeys
<1>2. \A k \in Keys(c) : Became(b, k, c.value[k])
  BY NormalValue
<1>. HIDE DEF c
<1>3. ASSUME NEW k \in Keys(b), Says(b, k)
      PROVE  \/ c.value[k] = b.value[k]
             \/ HasType(k, "date") /\ c.value[k] = IsoOf[b.value[k]]
             \/ k = "tags" /\ c.value[k] = LowerOf[b.value[k]]
  <2>1. Became(b, k, c.value[k])
    BY <1>1, <1>2
  <2>2. k \notin ToStamp(b) /\ k \notin ToInsert(b)
    BY <1>3 DEF ToStamp, ToInsert, Says, IsEmpty
  <2>. QED
    BY <2>1, <2>2 DEF Became, ToIso, ToLower
<1>4. ASSUME NEW k \in Keys(c) \ Stamped, Says(c, k)
      PROVE  Says(b, k)
  <2>1. Became(b, k, c.value[k]) /\ ~IsEmpty(c.value[k])
    BY <1>2, <1>4 DEF Says
  <2>2. k \notin ToStamp(b) /\ c.value[k] # NoValue
    BY <2>1 DEF ToStamp, IsEmpty
  <2>3. CASE k \in ToIso(b)
    BY <2>3, NormaliseAssumption DEF ToIso, Says, IsEmpty
  <2>4. CASE k \in ToLower(b)
    BY <2>4, NormaliseAssumption DEF ToLower, Says, IsEmpty
  <2>5. CASE k \in Keys(b) /\ c.value[k] = b.value[k]
    BY <2>1, <2>5 DEF Says
  <2>. QED
    BY <2>1, <2>2, <2>3, <2>4, <2>5 DEF Became
<1>. QED
  BY <1>1, <1>3, <1>4 DEF c

-----------------------------------------------------------------------------
(* What a pass knows, and what the files hold.                             *)

\* A pass that has planned nothing has nothing in hand; what it has to fix, it
\* planned from what it read; what it reads is a note.
PassKnows(p) ==
  /\ DOMAIN snap[p] = Notes /\ \A n \in Notes : IsNote(snap[p][n])
  /\ pc[p] \in {"idle", "read"} =>
       todo[p] = {} /\ inhand[p] = NoNote /\ applied[p] = {} /\ failing[p] = "no"
  /\ pc[p] = "write" <=> inhand[p] # NoNote
  /\ todo[p] \subseteq Planned(snap[p])
  /\ pc[p] = "write" => inhand[p] \in Planned(snap[p])
  /\ pc[p] # "idle" => outcome[p] = "none"
  /\ \A r \in applied[p] : r[1] \in Notes

PassesKnow ==
  /\ DOMAIN snap = Passes /\ DOMAIN applied = Passes /\ DOMAIN made = Passes
  /\ \A w \in late : w[1] \in Notes /\ IsNote(w[2])
  /\ \A p \in Passes : PassKnows(p)

LintInv == TypeOK /\ PassesKnow

\* The rows of the fixes a pass made are with it or, after its records, in the
\* audit trail, unless it failed.
RowsKeptOf(p) ==
  /\ pc[p] # "idle" /\ failing[p] = "no" =>
       made[p] \subseteq applied[p] \cup {RowOf(p, n) : n \in {inhand[p]} \ {NoNote}}
  /\ pc[p] = "records" /\ failing[p] = "no" => applied[p] \subseteq audit
  /\ outcome[p] = "ok" => made[p] \subseteq audit

RowsKept == \A p \in Passes : RowsKeptOf(p)

\* May a fix of what somebody left at n be written?
Due(n) ==
  /\ n \in Judged /\ owed[n] \notin {Absent, Garbled}
  /\ Admitted(n, Normal(owed[n]))

\* Where nobody wrote behind a pass's back, a note is as somebody left it or
\* as normalisation makes that, and so will what is on its way leave it.
NotesStand ==
  \A n \in Notes \ raced :
    /\ vault[n] = owed[n] \/ (Due(n) /\ vault[n] = Normal(owed[n]))
    /\ \A p \in Passes : inhand[p] = n => Due(n) /\ FixOf(p, n) = Normal(owed[n])
    /\ \A w \in late : w[1] = n => Due(n) /\ w[2] = Normal(owed[n])

-----------------------------------------------------------------------------
(* Who writes what.                                                        *)

\* A step of a pass touches no other's.
LEMMA Own ==
  ASSUME LintInv, NEW p \in Passes, PassStep(p) \/ Killed(p), NEW q \in Passes, q # p
  PROVE  /\ pc'[q] = pc[q] /\ snap'[q] = snap[q] /\ todo'[q] = todo[q]
         /\ inhand'[q] = inhand[q] /\ applied'[q] = applied[q]
         /\ failing'[q] = failing[q] /\ outcome'[q] = outcome[q] /\ made'[q] = made[q]
<1>. USE DEF LintInv, TypeOK, PassesKnow, ghosts
<1>1. CASE Start(p)
  BY <1>1 DEF Start
<1>2. CASE ReadFile(p)
  BY <1>2 DEF ReadFile, Exit
<1>3. CASE Connect(p)
  BY <1>3 DEF Connect
<1>4. CASE ReadBack(p)
  BY <1>4 DEF ReadBack
<1>5. CASE ReadBackFails(p)
  BY <1>5 DEF ReadBackFails
<1>6. CASE Write(p)
  BY <1>6 DEF Write, Lands, PutDown
<1>7. CASE WriteUnanswered(p) \/ WriteRefused(p)
  BY <1>7 DEF WriteUnanswered, WriteRefused, Lands, PutDown
<1>8. CASE FixesDone(p)
  BY <1>8 DEF FixesDone
<1>9. CASE WriteAudit(p)
  BY <1>9 DEF WriteAudit
<1>10. CASE Finish(p) \/ Killed(p)
  BY <1>10 DEF Finish, Killed, Exit
<1>. QED
  BY <1>1, <1>2, <1>3, <1>4, <1>5, <1>6, <1>7, <1>8, <1>9, <1>10 DEF PassStep

\* What its end leaves of a pass.
LEMMA ExitLeaves ==
  ASSUME LintInv, NEW p \in Passes, NEW how \in {"ok", "failed", "died"}, Exit(p, how)
  PROVE  /\ pc'[p] = "idle" /\ todo'[p] = {} /\ inhand'[p] = NoNote /\ applied'[p] = {}
         /\ failing'[p] = "no" /\ outcome'[p] = how
         /\ snap'[p] = [n \in Notes |-> Absent]
         /\ pc' \in [Passes -> {"idle", "read", "fix", "write", "audit", "records"}]
         /\ toread' \in [Passes -> SUBSET Notes] /\ todo' \in [Passes -> SUBSET Notes]
         /\ auditSeen' \in [Passes -> YesNo] /\ failing' \in [Passes -> YesNo]
         /\ inhand' \in [Passes -> Notes \cup {NoNote}] /\ tries' \in [Passes -> 0..Tries]
         /\ outcome' \in [Passes -> {"none", "ok", "failed", "died"}]
         /\ DOMAIN snap' = Passes /\ DOMAIN applied' = Passes
<1>. USE DEF LintInv, TypeOK, PassesKnow, YesNo
<1>1. Tries \in Nat /\ 0 \in 0..Tries
  BY LintPassAssumption
<1>2. /\ pc'[p] = "idle" /\ todo'[p] = {} /\ inhand'[p] = NoNote /\ applied'[p] = {}
      /\ failing'[p] = "no" /\ outcome'[p] = how
      /\ snap'[p] = [n \in Notes |-> Absent]
  BY DEF Exit
<1>3. /\ pc' \in [Passes -> {"idle", "read", "fix", "write", "audit", "records"}]
      /\ toread' \in [Passes -> SUBSET Notes] /\ todo' \in [Passes -> SUBSET Notes]
      /\ DOMAIN snap' = Passes /\ DOMAIN applied' = Passes
  BY DEF Exit
<1>4. /\ auditSeen' \in [Passes -> YesNo] /\ failing' \in [Passes -> YesNo]
      /\ inhand' \in [Passes -> Notes \cup {NoNote}]
  BY DEF Exit
<1>5. tries' \in [Passes -> 0..Tries]
  BY <1>1 DEF Exit
<1>6. outcome' \in [Passes -> {"none", "ok", "failed", "died"}]
  BY DEF Exit
<1>. QED
  BY <1>2, <1>3, <1>4, <1>5, <1>6

\* The note a pass takes next is one it has to take.
LEMMA NextIsToTake ==
  ASSUME TypeOK, NEW p \in Passes
  PROVE  /\ toread[p] # {} => Least(toread[p]) \in toread[p] /\ toread[p] \subseteq Notes
         /\ todo[p] # {} => Least(todo[p]) \in todo[p] /\ todo[p] \subseteq Notes
<1>1. toread[p] \in SUBSET Nat /\ todo[p] \in SUBSET Nat
      /\ toread[p] \subseteq Notes /\ todo[p] \subseteq Notes
  BY LintPassAssumption DEF TypeOK
<1>. QED
  BY <1>1, LeastIsIn

\* A note that is planned for can be fixed, and its fix is a note.
LEMMA FixIsNote ==
  ASSUME LintInv, NEW p \in Passes, NEW n \in Planned(snap[p])
  PROVE  /\ n \in Notes /\ n \in Judged /\ Changes(snap[p][n]) # {}
         /\ WellFormed(snap[p][n]) /\ snap[p][n] \notin {Absent, Garbled}
         /\ Admitted(n, FixOf(p, n)) /\ IsNote(FixOf(p, n))
<1>1. n \in Judged /\ snap[p][n] \notin {Absent, Garbled}
      /\ Changes(snap[p][n]) # {} /\ Admitted(n, Normal(snap[p][n]))
  BY DEF Planned
<1>2. n \in Notes
  BY <1>1 DEF Judged
<1>3. WellFormed(snap[p][n])
  BY <1>1, <1>2 DEF LintInv, PassesKnow, PassKnows, IsNote
<1>. QED
  BY <1>1, <1>2, <1>3, NormalIsWellFormed DEF FixOf, IsNote

-----------------------------------------------------------------------------
(* Types.                                                                  *)

\* Reading and planning keep them.
LEMMA ReadingTypes ==
  ASSUME LintInv, NEW p \in Passes, Start(p) \/ ReadFile(p) \/ Connect(p)
  PROVE  TypeOK'
<1>. USE DEF LintInv, TypeOK
<1>1. CASE Start(p)
  <2>1. {n \in Notes : vault[n] # Absent} \in SUBSET Notes
    OBVIOUS
  <2>. QED
    BY <1>1, <2>1 DEF Start, files
<1>2. CASE ReadFile(p)
  <2>. DEFINE n == Least(toread[p])
  <2>1. CASE vault[n] # Absent
    <3>1. toread' = [toread EXCEPT ![p] = @ \ {n}]
      BY <1>2, <2>1 DEF ReadFile
    <3>. HIDE DEF n
    <3>2. toread' \in [Passes -> SUBSET Notes]
      BY <3>1
    <3>. USE DEF n
    <3>. QED
      BY <1>2, <2>1, <3>2 DEF ReadFile, files, ghosts
  <2>2. CASE Exit(p, "died")
    BY <1>2, <2>2, ExitLeaves DEF ReadFile, files, ghosts
  <2>. QED
    BY <1>2, <2>1, <2>2 DEF ReadFile
<1>3. CASE Connect(p)
  <2>1. Planned(snap[p]) \in SUBSET Notes
    BY DEF Planned, Judged
  <2>2. todo' \in [Passes -> SUBSET Notes]
    BY <1>3, <2>1 DEF Connect
  <2>3. faults' \in Nat /\ failing' \in [Passes -> YesNo]
    BY <1>3 DEF Connect, Fine, Fault, YesNo
  <2>4. auditSeen' \in [Passes -> YesNo]
    BY <1>3 DEF Connect, YesNo
  <2>. QED
    BY <1>3, <2>2, <2>3, <2>4 DEF Connect, files, ghosts
<1>. QED
  BY <1>1, <1>2, <1>3

\* So does writing.
LEMMA WritingTypes ==
  ASSUME LintInv, NEW p \in Passes,
         ReadBack(p) \/ ReadBackFails(p) \/ Write(p) \/ WriteUnanswered(p) \/ WriteRefused(p)
  PROVE  TypeOK'
<1>. USE DEF LintInv, TypeOK
<1>0. Tries \in Nat /\ 0 \in 0..Tries /\ Tries \in 0..Tries
  BY LintPassAssumption
<1>1. CASE ReadBack(p)
  <2>. DEFINE n == Least(todo[p])
  <2>1. n \in Notes
    BY <1>1, NextIsToTake DEF ReadBack
  <2>2. todo' = [todo EXCEPT ![p] = @ \ {n}]
    BY <1>1 DEF ReadBack
  <2>3. \/ inhand' = [inhand EXCEPT ![p] = n] /\ tries' = [tries EXCEPT ![p] = Tries]
           /\ pc' = [pc EXCEPT ![p] = "write"]
        \/ UNCHANGED <<inhand, tries, pc>>
    BY <1>1 DEF ReadBack
  <2>. HIDE DEF n
  <2>4. todo' \in [Passes -> SUBSET Notes]
    BY <2>2
  <2>5. /\ inhand' \in [Passes -> Notes \cup {NoNote}] /\ tries' \in [Passes -> 0..Tries]
        /\ pc' \in [Passes -> {"idle", "read", "fix", "write", "audit", "records"}]
    BY <1>0, <2>1, <2>3
  <2>. QED
    BY <1>1, <2>4, <2>5 DEF ReadBack, files, ghosts
<1>2. CASE ReadBackFails(p)
  <2>. DEFINE n == Least(todo[p])
  <2>1. todo' = [todo EXCEPT ![p] = @ \ {n}]
    BY <1>2 DEF ReadBackFails
  <2>. HIDE DEF n
  <2>2. todo' \in [Passes -> SUBSET Notes]
    BY <2>1
  <2>3. failing' \in [Passes -> YesNo] /\ faults' \in Nat
    BY <1>2 DEF ReadBackFails, YesNo, Fault
  <2>. QED
    BY <1>2, <2>2, <2>3 DEF ReadBackFails, files, ghosts
<1>3. CASE pc[p] = "write" /\ (Write(p) \/ WriteUnanswered(p) \/ WriteRefused(p))
  <2>. DEFINE n == inhand[p]
  <2>1. n \in Planned(snap[p]) /\ n \in Notes
    BY <1>3, FixIsNote DEF PassesKnow, PassKnows
  <2>2. IsNote(FixOf(p, n))
    BY <2>1, FixIsNote
  <2>3. Lands(p, n) \/ vault' = vault
    BY <1>3 DEF Write, WriteUnanswered, WriteRefused
  <2>4. DOMAIN vault' = Notes /\ \A m \in Notes : IsNote(vault'[m])
    <3>1. CASE Lands(p, n)
      <4>. HIDE DEF n
      <4>1. vault' = [vault EXCEPT ![n] = FixOf(p, n)]
        BY <3>1 DEF Lands
      <4>. QED
        BY <2>1, <2>2, <4>1
    <3>2. CASE vault' = vault
      BY <3>2
    <3>. QED
      BY <2>3, <3>1, <3>2
  <2>5. \A w \in late' : w[1] \in Notes
    BY <1>3, <2>1 DEF Write, WriteUnanswered, WriteRefused
  <2>6. /\ inhand' \in [Passes -> Notes \cup {NoNote}] /\ tries' \in [Passes -> 0..Tries]
        /\ pc' \in [Passes -> {"idle", "read", "fix", "write", "audit", "records"}]
        /\ failing' \in [Passes -> YesNo]
    <3>1. CASE PutDown(p)
      BY <1>0, <1>3, <3>1 DEF PutDown, Write, WriteUnanswered, WriteRefused, YesNo
    <3>2. CASE tries[p] > 1 /\ tries' = [tries EXCEPT ![p] = @ - 1]
               /\ UNCHANGED <<inhand, pc, failing>>
      <4>1. tries[p] - 1 \in 0..Tries
        BY <1>0, <3>2
      <4>. QED
        BY <3>2, <4>1
    <3>. QED
      BY <1>3, <3>1, <3>2 DEF Write, WriteUnanswered, WriteRefused
  <2>7. faults' \in Nat
    BY <1>3 DEF Write, WriteUnanswered, WriteRefused, Fault
  <2>. QED
    BY <1>3, <2>4, <2>5, <2>6, <2>7 DEF Write, WriteUnanswered, WriteRefused
<1>. QED
  BY <1>1, <1>2, <1>3 DEF Write, WriteUnanswered, WriteRefused

\* So do the records, and the end.
LEMMA RecordTypes ==
  ASSUME LintInv, NEW p \in Passes,
         FixesDone(p) \/ WriteAudit(p) \/ Finish(p) \/ Killed(p)
  PROVE  TypeOK'
<1>. USE DEF LintInv, TypeOK
<1>1. CASE FixesDone(p)
  BY <1>1 DEF FixesDone, files, ghosts
<1>2. CASE WriteAudit(p)
  <2>1. \A r \in applied[p] : r[1] \in Notes
    BY DEF PassesKnow, PassKnows
  <2>2. audit' = audit \/ audit' = Recorded(p)
    BY <1>2 DEF WriteAudit
  <2>3. \A r \in audit' : r[1] \in Notes
    BY <2>1, <2>2 DEF Recorded
  <2>4. failing' \in [Passes -> YesNo] /\ faults' \in Nat
    BY <1>2 DEF WriteAudit, Fine, Fault, YesNo
  <2>. QED
    BY <1>2, <2>3, <2>4 DEF WriteAudit, ghosts
<1>3. CASE Finish(p)
  <2>1. PICK failed \in YesNo : Exit(p, ExitCode(p, failed))
    BY <1>3 DEF Finish
  <2>2. ExitCode(p, failed) \in {"ok", "failed", "died"}
    BY DEF ExitCode
  <2>. QED
    BY <1>3, <2>1, <2>2, ExitLeaves DEF Finish, files, ghosts
<1>4. CASE Killed(p)
  BY <1>4, ExitLeaves DEF Killed, Fault, files, ghosts
<1>. QED
  BY <1>1, <1>2, <1>3, <1>4

\* So does everyone else.
LEMMA OthersTypes ==
  ASSUME LintInv, LandLate \/ Edit
  PROVE  TypeOK'
<1>. USE DEF LintInv, TypeOK
<1>1. CASE LandLate
  <2>1. PICK w \in late : /\ vault' = [vault EXCEPT ![w[1]] = w[2]]
                          /\ late' = late \ {w}
    BY <1>1 DEF LandLate
  <2>2. w[1] \in Notes /\ IsNote(w[2])
    BY DEF PassesKnow
  <2>3. DOMAIN vault' = Notes /\ \A m \in Notes : IsNote(vault'[m])
    BY <2>1, <2>2
  <2>. QED
    BY <1>1, <2>1, <2>3 DEF LandLate, passVars, ghosts
<1>2. CASE Edit
  <2>1. PICK n \in Notes : \E c \in Edits[n] :
          /\ vault' = [vault EXCEPT ![n] = c] /\ owed' = [owed EXCEPT ![n] = c]
          /\ raced' = IF OnItsWay(n) THEN raced \cup {n} ELSE raced \ {n}
    BY <1>2 DEF Edit
  <2>2. PICK c \in Edits[n] :
          /\ vault' = [vault EXCEPT ![n] = c] /\ owed' = [owed EXCEPT ![n] = c]
          /\ raced' = IF OnItsWay(n) THEN raced \cup {n} ELSE raced \ {n}
    BY <2>1
  <2>3. IsNote(c)
    BY LintPassAssumption
  <2>4. /\ DOMAIN vault' = Notes /\ DOMAIN owed' = Notes
        /\ \A m \in Notes : IsNote(vault'[m]) /\ IsNote(owed'[m])
    BY <2>2, <2>3
  <2>5. raced' \subseteq Notes
    BY <2>2
  <2>. QED
    BY <1>2, <2>4, <2>5 DEF Edit, passVars
<1>. QED
  BY <1>1, <1>2

-----------------------------------------------------------------------------
(* What the passes know.                                                   *)

\* A step of a pass keeps what it knows itself.
LEMMA PassKnowsKept ==
  ASSUME LintInv, NEW p \in Passes, PassStep(p) \/ Killed(p)
  PROVE  PassKnows(p)' /\ DOMAIN snap' = Passes /\ DOMAIN applied' = Passes /\ DOMAIN made' = Passes
<1>0. PassKnows(p)
  BY DEF LintInv, PassesKnow
<1>. USE DEF LintInv, TypeOK, PassesKnow, ghosts
<1>1. CASE Start(p)
  BY <1>0, <1>1 DEF Start, PassKnows
<1>2. CASE ReadFile(p)
  <2>. DEFINE n == Least(toread[p])
  <2>1. n \in Notes
    BY <1>2, NextIsToTake DEF ReadFile
  <2>2. CASE snap' = [snap EXCEPT ![p][n] = vault[n]]
             /\ UNCHANGED <<pc, todo, inhand, applied, failing, outcome>>
    <3>1. DOMAIN snap'[p] = Notes /\ \A m \in Notes : IsNote(snap'[p][m])
      <4>. HIDE DEF n
      <4>. QED
        BY <1>0, <2>1, <2>2 DEF PassKnows
    <3>. QED
      BY <1>0, <1>2, <2>2, <3>1 DEF ReadFile, PassKnows
  <2>3. CASE Exit(p, "died")
    BY <1>2, <2>3, ExitLeaves DEF ReadFile, PassKnows, IsNote
  <2>. QED
    BY <1>2, <2>2, <2>3 DEF ReadFile
<1>3. CASE Connect(p)
  <2>1. todo'[p] = Planned(snap[p]) \/ todo'[p] = {}
    BY <1>3 DEF Connect
  <2>. QED
    BY <1>0, <1>3, <2>1 DEF Connect, PassKnows
<1>4. CASE ReadBack(p)
  <2>. DEFINE n == Least(todo[p])
  <2>1. n \in todo[p] /\ n \in Notes /\ n # NoNote
    BY <1>4, NextIsToTake, LintPassAssumption DEF ReadBack
  <2>2. todo'[p] = todo[p] \ {n}
    BY <1>4 DEF ReadBack
  <2>3. \/ inhand'[p] = n /\ pc'[p] = "write"
        \/ UNCHANGED <<inhand, pc>>
    BY <1>4 DEF ReadBack
  <2>. HIDE DEF n
  <2>. QED
    BY <1>0, <1>4, <2>1, <2>2, <2>3 DEF ReadBack, PassKnows
<1>5. CASE ReadBackFails(p)
  BY <1>0, <1>5 DEF ReadBackFails, PassKnows
<1>6. CASE Write(p) \/ WriteUnanswered(p) \/ WriteRefused(p)
  <2>1. inhand[p] \in Notes /\ inhand[p] # NoNote
    BY <1>0, <1>6, LintPassAssumption DEF Write, WriteUnanswered, WriteRefused, PassKnows
  <2>2. \A r \in applied'[p] : r[1] \in Notes
    BY <1>0, <1>6, <2>1 DEF Write, WriteUnanswered, WriteRefused, RowOf, PassKnows
  <2>3. \/ inhand'[p] = NoNote /\ pc'[p] = "fix"
        \/ UNCHANGED <<inhand, pc>>
    BY <1>6 DEF Write, WriteUnanswered, WriteRefused, PutDown
  <2>4. DOMAIN applied' = Passes /\ DOMAIN made' = Passes
    BY <1>6 DEF Write, WriteUnanswered, WriteRefused, Lands
  <2>5. UNCHANGED <<snap, todo, outcome>>
    BY <1>6 DEF Write, WriteUnanswered, WriteRefused
  <2>6. pc[p] = "write"
    BY <1>6 DEF Write, WriteUnanswered, WriteRefused
  <2>. QED
    BY <1>0, <2>2, <2>3, <2>4, <2>5, <2>6 DEF PassKnows
<1>7. CASE FixesDone(p)
  BY <1>0, <1>7 DEF FixesDone, PassKnows
<1>8. CASE WriteAudit(p)
  BY <1>0, <1>8 DEF WriteAudit, PassKnows
<1>9. CASE Finish(p) \/ Killed(p)
  <2>1. PICK how \in {"ok", "failed", "died"} : Exit(p, how) /\ made' = made
    BY <1>9 DEF Finish, Killed, ExitCode
  <2>. QED
    BY <2>1, ExitLeaves DEF PassKnows, IsNote
<1>. QED
  BY <1>1, <1>2, <1>3, <1>4, <1>5, <1>6, <1>7, <1>8, <1>9 DEF PassStep

\* What may be late is the note a pass holds, fixed.
LEMMA LateSteps ==
  ASSUME LintInv, NEW p \in Passes, PassStep(p) \/ Killed(p)
  PROVE  late' = late \/ (pc[p] = "write" /\ late' = late \cup {<<inhand[p], FixOf(p, inhand[p])>>})
BY DEF PassStep, Start, ReadFile, Connect, ReadBack, ReadBackFails, Write, WriteUnanswered,
       WriteRefused, FixesDone, WriteAudit, Finish, Killed, files

\* Every step keeps what all of them know.
LEMMA KnowKept ==
  ASSUME LintInv, [Next]_vars
  PROVE  PassesKnow'
<1>1. CASE \E p \in Passes : PassStep(p) \/ Killed(p)
  <2>. PICK p \in Passes : PassStep(p) \/ Killed(p)
    BY <1>1
  <2>1. PassKnows(p)' /\ DOMAIN snap' = Passes /\ DOMAIN applied' = Passes /\ DOMAIN made' = Passes
    BY PassKnowsKept
  <2>2. ASSUME NEW q \in Passes, q # p PROVE PassKnows(q)'
    <3>1. PassKnows(q)
      BY DEF LintInv, PassesKnow
    <3>. QED
      BY <2>2, <3>1, Own DEF PassKnows
  <2>3. \A w \in late' : w[1] \in Notes /\ IsNote(w[2])
    <3>1. CASE late' = late
      BY <3>1 DEF LintInv, PassesKnow
    <3>2. CASE pc[p] = "write" /\ late' = late \cup {<<inhand[p], FixOf(p, inhand[p])>>}
      <4>1. inhand[p] \in Planned(snap[p])
        BY <3>2 DEF LintInv, PassesKnow, PassKnows
      <4>2. inhand[p] \in Notes /\ IsNote(FixOf(p, inhand[p]))
        BY <4>1, FixIsNote
      <4>. QED
        BY <3>2, <4>2 DEF LintInv, PassesKnow
    <3>. QED
      BY <3>1, <3>2, LateSteps
  <2>. QED
    BY <2>1, <2>2, <2>3 DEF PassesKnow
<1>2. CASE LandLate
  <2>1. UNCHANGED <<passVars, made>> /\ late' \subseteq late
    BY <1>2 DEF LandLate, ghosts
  <2>. QED
    BY <2>1 DEF passVars, LintInv, PassesKnow, PassKnows
<1>3. CASE Edit
  BY <1>3 DEF Edit, passVars, LintInv, PassesKnow, PassKnows
<1>4. CASE UNCHANGED vars
  BY <1>4 DEF vars, files, passVars, ghosts, LintInv, PassesKnow, PassKnows
<1>. QED
  BY <1>1, <1>2, <1>3, <1>4 DEF Next

\* And the types.
LEMMA LintTypesKept ==
  ASSUME LintInv, [Next]_vars
  PROVE  TypeOK'
<1>1. CASE \E p \in Passes : PassStep(p) \/ Killed(p)
  BY <1>1, ReadingTypes, WritingTypes, RecordTypes DEF PassStep
<1>2. CASE LandLate \/ Edit
  BY <1>2, OthersTypes
<1>3. CASE UNCHANGED vars
  BY <1>3 DEF vars, files, passVars, ghosts, LintInv, TypeOK
<1>. QED
  BY <1>1, <1>2, <1>3 DEF Next

\* All passes begin at rest, before a vault of notes.
LEMMA LintInvAtFirst == Init => LintInv
<1>. SUFFICES ASSUME Init PROVE LintInv
  OBVIOUS
<1>1. Tries \in Nat /\ 0 \in 0..Tries /\ MaxEdits \in Nat /\ MaxFaults \in Nat
  BY LintPassAssumption
<1>2. DOMAIN vault = Notes /\ \A n \in Notes : IsNote(vault[n])
  BY LintPassAssumption DEF Init
<1>3. TypeOK
  BY <1>1, <1>2 DEF Init, TypeOK, YesNo
<1>4. PassesKnow
  BY DEF Init, PassesKnow, PassKnows, IsNote
<1>. QED
  BY <1>3, <1>4 DEF LintInv

\* So all of it holds in every reachable state.
LEMMA LintInvariant == Spec => []LintInv
<1>1. LintInv /\ [Next]_vars => LintInv'
  BY KnowKept, LintTypesKept DEF LintInv
<1>. QED
  BY <1>1, LintInvAtFirst, PTL DEF Spec

\* Every variable of the passes, the vault and the records holds a value of its
\* type: a note that normalisation has written is again one the parser can
\* read, each key of it once (TypeOK; normalise, Frontmatter).
THEOREM LintTypeCorrect == Spec => []TypeOK
<1>1. LintInv => TypeOK
  BY DEF LintInv
<1>. QED
  BY <1>1, LintInvariant, PTL

-----------------------------------------------------------------------------
(* The audit trail.                                                        *)

\* It only grows.
LEMMA AuditGrows ==
  ASSUME [Next]_vars
  PROVE  audit \subseteq audit'
<1>1. ASSUME NEW p \in Passes, PassStep(p) \/ Killed(p) PROVE audit \subseteq audit'
  <2>1. CASE WriteAudit(p)
    BY <2>1 DEF WriteAudit, Recorded
  <2>. QED
    BY <1>1, <2>1
    DEF PassStep, Start, ReadFile, Connect, ReadBack, ReadBackFails, Write, WriteUnanswered,
        WriteRefused, FixesDone, Finish, Killed, files
<1>. QED
  BY <1>1 DEF Next, LandLate, Edit, vars, files

\* A step of a pass keeps its rows.
LEMMA RowsKeptByOwn ==
  ASSUME LintInv, NEW p \in Passes, RowsKeptOf(p), PassStep(p) \/ Killed(p), audit \subseteq audit'
  PROVE  RowsKeptOf(p)'
<1>0. PassKnows(p)
  BY DEF LintInv, PassesKnow
<1>. USE DEF LintInv, TypeOK, PassesKnow, ghosts
<1>1. CASE Start(p)
  BY <1>1 DEF Start, RowsKeptOf
<1>2. CASE ReadFile(p)
  <2>1. inhand[p] = NoNote /\ made' = made
    BY <1>0, <1>2 DEF ReadFile, PassKnows
  <2>2. CASE Exit(p, "died")
    BY <2>2, ExitLeaves DEF RowsKeptOf
  <2>3. CASE UNCHANGED <<pc, inhand, applied, failing, outcome>>
    BY <2>1, <2>3 DEF RowsKeptOf
  <2>. QED
    BY <1>2, <2>2, <2>3 DEF ReadFile
<1>3. CASE Connect(p)
  <2>1. inhand[p] = NoNote /\ outcome[p] = "none" /\ pc[p] = "read"
    BY <1>0, <1>3 DEF Connect, PassKnows
  <2>2. pc'[p] = "fix" /\ (failing'[p] = "no" => failing[p] = "no")
    BY <1>3 DEF Connect
  <2>. QED
    BY <1>3, <2>1, <2>2 DEF Connect, RowsKeptOf
<1>4. CASE ReadBack(p)
  <2>1. inhand[p] = NoNote /\ outcome[p] = "none" /\ pc[p] = "fix"
    BY <1>0, <1>4 DEF ReadBack, PassKnows
  <2>2. pc'[p] \in {"fix", "write"}
    BY <1>4, <2>1 DEF ReadBack
  <2>. QED
    BY <1>4, <2>1, <2>2 DEF ReadBack, RowsKeptOf
<1>5. CASE ReadBackFails(p)
  <2>1. failing'[p] = "yes" /\ UNCHANGED <<outcome, made>>
    BY <1>5 DEF ReadBackFails
  <2>. QED
    BY <2>1 DEF RowsKeptOf
<1>6. CASE Write(p)
  <2>1. inhand[p] # NoNote /\ outcome[p] = "none" /\ pc[p] = "write"
    BY <1>0, <1>6 DEF Write, PassKnows
  <2>2. /\ made'[p] = made[p] \cup {RowOf(p, inhand[p])}
        /\ applied'[p] = applied[p] \cup {RowOf(p, inhand[p])}
        /\ pc'[p] = "fix" /\ failing' = failing /\ outcome' = outcome
    BY <1>6 DEF Write, Lands, PutDown
  <2>3. failing[p] = "no" => made[p] \subseteq applied[p] \cup {RowOf(p, inhand[p])}
    BY <2>1 DEF RowsKeptOf
  <2>. QED
    BY <2>1, <2>2, <2>3 DEF RowsKeptOf
<1>7. CASE WriteUnanswered(p) \/ WriteRefused(p)
  <2>1. inhand[p] # NoNote /\ outcome[p] = "none" /\ pc[p] = "write"
    BY <1>0, <1>7 DEF WriteUnanswered, WriteRefused, PassKnows
  <2>2. made'[p] \subseteq made[p] \cup {RowOf(p, inhand[p])}
    BY <1>7 DEF WriteUnanswered, WriteRefused, Lands
  <2>3. \/ failing'[p] = "yes"
        \/ UNCHANGED <<inhand, pc, failing>>
    BY <1>7 DEF WriteUnanswered, WriteRefused
  <2>4. UNCHANGED <<snap, applied, outcome>>
    BY <1>7 DEF WriteUnanswered, WriteRefused
  <2>5. CASE failing'[p] = "yes"
    BY <2>1, <2>4, <2>5 DEF RowsKeptOf
  <2>6. CASE UNCHANGED <<inhand, pc, failing>>
    <3>1. RowOf(p, inhand[p])' = RowOf(p, inhand[p])
      BY <2>4, <2>6 DEF RowOf, FixOf
    <3>2. failing[p] = "no" => made[p] \subseteq applied[p] \cup {RowOf(p, inhand[p])}
      BY <2>1 DEF RowsKeptOf
    <3>3. failing[p] = "no" => made'[p] \subseteq applied'[p] \cup {RowOf(p, inhand[p])'}
      BY <2>2, <2>4, <3>1, <3>2
    <3>. QED
      BY <2>1, <2>4, <2>6, <3>3 DEF RowsKeptOf
  <2>. QED
    BY <2>3, <2>5, <2>6
<1>8. CASE FixesDone(p)
  <2>1. inhand[p] = NoNote /\ outcome[p] = "none" /\ pc[p] = "fix"
    BY <1>0, <1>8 DEF FixesDone, PassKnows
  <2>2. pc'[p] = "records" => applied[p] = {}
    BY <1>8 DEF FixesDone
  <2>. QED
    BY <1>8, <2>1, <2>2 DEF FixesDone, RowsKeptOf
<1>9. CASE WriteAudit(p)
  <2>1. inhand[p] = NoNote /\ outcome[p] = "none" /\ pc[p] = "audit"
    BY <1>0, <1>9 DEF WriteAudit, PassKnows
  <2>2. failing'[p] = "no" => failing[p] = "no" /\ audit' = audit \cup applied[p]
    BY <1>9 DEF WriteAudit, Recorded
  <2>. QED
    BY <1>9, <2>1, <2>2 DEF WriteAudit, RowsKeptOf
<1>10. CASE Finish(p)
  <2>1. PICK failed \in YesNo : Exit(p, ExitCode(p, failed))
    BY <1>10 DEF Finish
  <2>2. ExitCode(p, failed) \in {"ok", "failed", "died"} /\ made' = made /\ pc[p] = "records"
    BY <1>10 DEF ExitCode, Finish
  <2>3. inhand[p] = NoNote
    BY <1>0, <2>2 DEF PassKnows
  <2>4. ExitCode(p, failed) = "ok" => failing[p] = "no"
    BY DEF ExitCode, YesNo
  <2>5. ExitCode(p, failed) = "ok" => made[p] \subseteq audit
    BY <2>2, <2>3, <2>4 DEF RowsKeptOf
  <2>6. pc'[p] = "idle" /\ outcome'[p] = ExitCode(p, failed)
    BY <2>1, <2>2, ExitLeaves
  <2>. QED
    BY <2>2, <2>5, <2>6 DEF RowsKeptOf
<1>11. CASE Killed(p)
  <2>1. pc'[p] = "idle" /\ outcome'[p] = "died"
    BY <1>11, ExitLeaves DEF Killed
  <2>. QED
    BY <2>1 DEF RowsKeptOf
<1>. QED
  BY <1>1, <1>2, <1>3, <1>4, <1>5, <1>6, <1>7, <1>8, <1>9, <1>10, <1>11 DEF PassStep

\* Every step keeps all rows.
LEMMA RowsStayKept ==
  ASSUME LintInv, RowsKept, [Next]_vars
  PROVE  RowsKept'
<1>1. audit \subseteq audit'
  BY AuditGrows
<1>. SUFFICES ASSUME NEW q \in Passes PROVE RowsKeptOf(q)'
  BY DEF RowsKept
<1>2. RowsKeptOf(q)
  BY DEF RowsKept
<1>3. CASE \E p \in Passes : PassStep(p) \/ Killed(p)
  <2>. PICK p \in Passes : PassStep(p) \/ Killed(p)
    BY <1>3
  <2>1. CASE p = q
    BY <1>1, <1>2, <2>1, RowsKeptByOwn
  <2>2. CASE p # q
    BY <1>1, <1>2, <2>2, Own DEF RowsKeptOf, RowOf, FixOf
  <2>. QED
    BY <2>1, <2>2
<1>4. CASE LandLate \/ Edit \/ UNCHANGED vars
  <2>1. UNCHANGED <<pc, failing, made, applied, inhand, snap, outcome>>
    BY <1>4 DEF LandLate, Edit, vars, passVars, ghosts
  <2>. QED
    BY <1>1, <1>2, <2>1 DEF RowsKeptOf, RowOf, FixOf
<1>. QED
  BY <1>3, <1>4 DEF Next

\* A pass that exits zero has every fix it made in the day's audit trail, those
\* whose answer was lost among them, however many passes write to the trail and
\* whatever fails or is killed (AuditTellsAll; run_pass).
THEOREM AuditStaysComplete == Spec => []AuditTellsAll
<1>1. Init => RowsKept
  BY DEF Init, RowsKept, RowsKeptOf
<1>2. LintInv /\ RowsKept /\ [Next]_vars => RowsKept'
  BY RowsStayKept
<1>3. RowsKept => AuditTellsAll
  BY DEF RowsKept, RowsKeptOf, AuditTellsAll
<1>. QED
  BY <1>1, <1>2, <1>3, LintInvariant, PTL DEF Spec

-----------------------------------------------------------------------------
(* The notes.                                                              *)

\* What a note was read back as, where nobody has written behind the pass's
\* back, is what somebody left there: normalisation leaves nothing to plan for.
LEMMA ReadBackIsOwed ==
  ASSUME LintInv, NotesStand, NEW p \in Passes, NEW n \in Planned(snap[p]),
         n \notin raced, vault[n] = snap[p][n]
  PROVE  Due(n) /\ FixOf(p, n) = Normal(owed[n])
<1>1. /\ n \in Notes /\ n \in Judged /\ Changes(vault[n]) # {}
      /\ vault[n] \notin {Absent, Garbled} /\ Admitted(n, FixOf(p, n))
  BY FixIsNote
<1>2. vault[n] = owed[n] \/ (Due(n) /\ vault[n] = Normal(owed[n]))
  BY <1>1 DEF NotesStand
<1>3. CASE vault[n] = owed[n]
  BY <1>1, <1>3 DEF Due, FixOf
<1>4. CASE Due(n) /\ vault[n] = Normal(owed[n])
  <2>1. WellFormed(owed[n])
    BY <1>1, <1>4 DEF Due, LintInv, TypeOK, IsNote
  <2>2. Changes(vault[n]) = {}
    BY <1>4, <2>1, NormalIsDone
  <2>. QED
    BY <1>1, <2>2
<1>. QED
  BY <1>2, <1>3, <1>4

\* What a step of a pass does to the notes: it takes one up as it was read,
\* writes the one it holds, or does neither.
LEMMA NoteSteps ==
  ASSUME LintInv, NEW p \in Passes, PassStep(p) \/ Killed(p)
  PROVE  /\ UNCHANGED <<owed, raced>>
         /\ \/ /\ UNCHANGED <<vault, late, snap>> /\ pc[p] = "fix"
               /\ inhand'[p] \in Planned(snap[p]) /\ vault[inhand'[p]] = snap[p][inhand'[p]]
            \/ /\ pc[p] = "write" /\ snap' = snap /\ inhand'[p] \in {inhand[p], NoNote}
               /\ vault' \in {vault, [vault EXCEPT ![inhand[p]] = FixOf(p, inhand[p])]}
               /\ late' \in {late, late \cup {<<inhand[p], FixOf(p, inhand[p])>>}}
            \/ /\ UNCHANGED <<vault, late>> /\ inhand'[p] = NoNote
<1>0. PassKnows(p)
  BY DEF LintInv, PassesKnow
<1>. USE DEF LintInv, TypeOK, PassesKnow, ghosts, files
<1>1. CASE Start(p) \/ Connect(p) \/ ReadBackFails(p) \/ FixesDone(p) \/ WriteAudit(p)
  <2>1. inhand[p] = NoNote
    BY <1>0, <1>1 DEF Start, Connect, ReadBackFails, FixesDone, WriteAudit, PassKnows
  <2>2. UNCHANGED <<vault, late, inhand, owed, raced>>
    BY <1>1 DEF Start, Connect, ReadBackFails, FixesDone, WriteAudit
  <2>. QED
    BY <2>1, <2>2
<1>2. CASE ReadFile(p)
  <2>1. inhand[p] = NoNote /\ UNCHANGED <<vault, late, owed, raced>>
    BY <1>0, <1>2 DEF ReadFile, PassKnows
  <2>2. CASE Exit(p, "died")
    BY <2>1, <2>2, ExitLeaves
  <2>3. CASE UNCHANGED inhand
    BY <2>1, <2>3
  <2>. QED
    BY <1>2, <2>2, <2>3 DEF ReadFile
<1>3. CASE ReadBack(p)
  <2>. DEFINE n == Least(todo[p])
  <2>1. n \in todo[p] /\ pc[p] = "fix" /\ UNCHANGED <<vault, late, snap, owed, raced>>
    BY <1>3, NextIsToTake DEF ReadBack
  <2>2. n \in Planned(snap[p]) /\ inhand[p] = NoNote
    BY <1>0, <2>1 DEF PassKnows
  <2>3. \/ inhand' = [inhand EXCEPT ![p] = n] /\ vault[n] = snap[p][n]
        \/ UNCHANGED inhand
    BY <1>3 DEF ReadBack, SameAsRead
  <2>. HIDE DEF n
  <2>. QED
    BY <2>1, <2>2, <2>3
<1>4. CASE Write(p) \/ WriteUnanswered(p) \/ WriteRefused(p)
  <2>1. pc[p] = "write" /\ UNCHANGED <<snap, owed, raced>>
    BY <1>4 DEF Write, WriteUnanswered, WriteRefused
  <2>2. inhand'[p] \in {inhand[p], NoNote}
    BY <1>4 DEF Write, WriteUnanswered, WriteRefused, PutDown
  <2>3. vault' \in {vault, [vault EXCEPT ![inhand[p]] = FixOf(p, inhand[p])]}
    BY <1>4 DEF Write, WriteUnanswered, WriteRefused, Lands
  <2>4. late' \in {late, late \cup {<<inhand[p], FixOf(p, inhand[p])>>}}
    BY <1>4 DEF Write, WriteUnanswered, WriteRefused
  <2>. QED
    BY <2>1, <2>2, <2>3, <2>4
<1>5. CASE Finish(p) \/ Killed(p)
  <2>1. PICK how \in {"ok", "failed", "died"} : Exit(p, how)
    BY <1>5 DEF Finish, Killed, ExitCode
  <2>2. UNCHANGED <<vault, late, owed, raced>>
    BY <1>5 DEF Finish, Killed
  <2>. QED
    BY <2>1, <2>2, ExitLeaves
<1>. QED
  BY <1>1, <1>2, <1>3, <1>4, <1>5 DEF PassStep

\* Every step leaves the notes as they should stand.
LEMMA NotesStayStanding ==
  ASSUME LintInv, NotesStand, [Next]_vars
  PROVE  NotesStand'
<1>. USE DEF LintInv, TypeOK
<1>1. CASE \E p \in Passes : PassStep(p) \/ Killed(p)
  <2>. PICK p \in Passes : PassStep(p) \/ Killed(p)
    BY <1>1
  <2>1. UNCHANGED <<owed, raced>>
    BY NoteSteps
  <2>. SUFFICES ASSUME NEW n \in Notes \ raced
                PROVE  /\ vault'[n] = owed[n] \/ (Due(n) /\ vault'[n] = Normal(owed[n]))
                       /\ \A q \in Passes : inhand'[q] = n =>
                            Due(n) /\ FixOf(q, n)' = Normal(owed[n])
                       /\ \A w \in late' : w[1] = n => Due(n) /\ w[2] = Normal(owed[n])
    BY <2>1 DEF NotesStand, Due
  <2>2. n # NoNote
    BY LintPassAssumption
  <2>3. /\ vault[n] = owed[n] \/ (Due(n) /\ vault[n] = Normal(owed[n]))
        /\ \A q \in Passes : inhand[q] = n => Due(n) /\ FixOf(q, n) = Normal(owed[n])
        /\ \A w \in late : w[1] = n => Due(n) /\ w[2] = Normal(owed[n])
    BY DEF NotesStand
  <2>4. \A q \in Passes \ {p} : inhand'[q] = inhand[q] /\ FixOf(q, n)' = FixOf(q, n)
    BY Own DEF FixOf
  <2>5. CASE /\ UNCHANGED <<vault, late, snap>> /\ pc[p] = "fix"
             /\ inhand'[p] \in Planned(snap[p]) /\ vault[inhand'[p]] = snap[p][inhand'[p]]
    <3>1. inhand'[p] = n => Due(n) /\ FixOf(p, n) = Normal(owed[n])
      BY <2>5, ReadBackIsOwed
    <3>2. FixOf(p, n)' = FixOf(p, n)
      BY <2>5 DEF FixOf
    <3>. QED
      BY <2>3, <2>4, <2>5, <3>1, <3>2
  <2>6. CASE /\ pc[p] = "write" /\ snap' = snap /\ inhand'[p] \in {inhand[p], NoNote}
             /\ vault' \in {vault, [vault EXCEPT ![inhand[p]] = FixOf(p, inhand[p])]}
             /\ late' \in {late, late \cup {<<inhand[p], FixOf(p, inhand[p])>>}}
    <3>1. FixOf(p, n)' = FixOf(p, n)
      BY <2>6 DEF FixOf
    <3>2. vault'[n] = vault[n] \/ (inhand[p] = n /\ vault'[n] = FixOf(p, n))
      BY <2>6
    <3>3. \A w \in late' : w \in late \/ (w[1] = inhand[p] /\ w[2] = FixOf(p, inhand[p]))
      BY <2>6
    <3>. QED
      BY <2>2, <2>3, <2>4, <2>6, <3>1, <3>2, <3>3
  <2>7. CASE UNCHANGED <<vault, late>> /\ inhand'[p] = NoNote
    BY <2>2, <2>3, <2>4, <2>7
  <2>. QED
    BY <2>5, <2>6, <2>7, NoteSteps
<1>2. CASE LandLate
  <2>1. PICK w \in late : vault' = [vault EXCEPT ![w[1]] = w[2]] /\ late' = late \ {w}
    BY <1>2 DEF LandLate
  <2>2. UNCHANGED <<inhand, snap, owed, raced>>
    BY <1>2 DEF LandLate, passVars, ghosts
  <2>3. ASSUME NEW n \in Notes \ raced
        PROVE  vault'[n] = owed[n] \/ (Due(n) /\ vault'[n] = Normal(owed[n]))
    <3>1. vault'[n] = vault[n] \/ (w[1] = n /\ vault'[n] = w[2])
      BY <2>1
    <3>. QED
      BY <3>1 DEF NotesStand
  <2>. QED
    BY <2>1, <2>2, <2>3 DEF NotesStand, Due, FixOf
<1>3. CASE Edit
  <2>1. PICK e \in Notes : \E c \in Edits[e] :
          /\ vault' = [vault EXCEPT ![e] = c] /\ owed' = [owed EXCEPT ![e] = c]
          /\ raced' = IF OnItsWay(e) THEN raced \cup {e} ELSE raced \ {e}
    BY <1>3 DEF Edit
  <2>2. UNCHANGED <<inhand, snap, late>>
    BY <1>3 DEF Edit, passVars
  <2>. SUFFICES ASSUME NEW n \in Notes \ raced'
                PROVE  /\ vault'[n] = owed'[n] \/ (Due(n)' /\ vault'[n] = Normal(owed'[n]))
                       /\ \A q \in Passes : inhand[q] = n =>
                            Due(n)' /\ FixOf(q, n)' = Normal(owed'[n])
                       /\ \A w \in late : w[1] = n => Due(n)' /\ w[2] = Normal(owed'[n])
    BY <2>2 DEF NotesStand
  <2>3. CASE n = e
    <3>1. ~OnItsWay(e)
      BY <2>1, <2>3
    <3>2. vault'[n] = owed'[n]
      BY <2>1, <2>3
    <3>. QED
      BY <2>3, <3>1, <3>2 DEF OnItsWay
  <2>4. CASE n # e
    <3>1. n \in Notes \ raced /\ vault'[n] = vault[n] /\ owed'[n] = owed[n]
      BY <2>1, <2>4
    <3>2. (Due(n)' <=> Due(n)) /\ \A q \in Passes : FixOf(q, n)' = FixOf(q, n)
      BY <2>2, <3>1 DEF Due, FixOf
    <3>. QED
      BY <3>1, <3>2 DEF NotesStand
  <2>. QED
    BY <2>3, <2>4
<1>4. CASE UNCHANGED vars
  BY <1>4 DEF vars, files, passVars, ghosts, NotesStand, Due, FixOf
<1>. QED
  BY <1>1, <1>2, <1>3, <1>4 DEF Next

\* So they stand in every reachable state.
LEMMA NotesInvariant == Spec => [](LintInv /\ NotesStand)
<1>1. Init => NotesStand
  <2>1. Init => vault = owed /\ late = {} /\ \A p \in Passes : inhand[p] = NoNote
    BY DEF Init
  <2>. QED
    BY <2>1, LintPassAssumption DEF NotesStand
<1>2. LintInv /\ NotesStand /\ [Next]_vars => NotesStand'
  BY NotesStayStanding
<1>. QED
  BY <1>1, <1>2, LintInvariant, PTL DEF Spec

\* No fix costs anybody what they wrote, whatever passes overlap, however often
\* a write is tried again or lands late: only a note somebody wrote to after a
\* pass had read it back can hold something else than what they left or its
\* normal form (EditsSurvive; apply_fixes).
THEOREM EditsStaySafe == Spec => []EditsSurvive
<1>1. NotesStand => EditsSurvive
  BY DEF NotesStand, Due, EditsSurvive
<1>. QED
  BY <1>1, NotesInvariant, PTL

\* What a fix left is finished: nothing is left to fix in it, admission takes
\* it, and it says what its author said and nothing else but the dates the
\* file gives away (FixedNotesStand; normalise, decide).
THEOREM FixedNotesStayDone == Spec => []FixedNotesStand
<1>1. LintInv /\ NotesStand => FixedNotesStand
  <2>. SUFFICES ASSUME LintInv, NotesStand, NEW n \in Notes \ raced, vault[n] # owed[n]
                PROVE  /\ Changes(vault[n]) = {}
                       /\ n \in Judged /\ (Zone[n] = "curated" => Refusals(vault[n]) = {})
                       /\ \A k \in Keys(owed[n]) : Says(owed[n], k) =>
                            \/ vault[n].value[k] = owed[n].value[k]
                            \/ HasType(k, "date") /\ vault[n].value[k] = IsoOf[owed[n].value[k]]
                            \/ k = "tags" /\ vault[n].value[k] = LowerOf[owed[n].value[k]]
                       /\ Keys(owed[n]) \subseteq Keys(vault[n])
                       /\ \A k \in Keys(vault[n]) \ Stamped : Says(vault[n], k) => Says(owed[n], k)
                       /\ Without(vault[n].order, Fields) = Without(owed[n].order, Fields)
    BY DEF FixedNotesStand
  <2>1. Due(n) /\ vault[n] = Normal(owed[n])
    BY DEF NotesStand
  <2>2. WellFormed(owed[n])
    BY <2>1 DEF Due, LintInv, TypeOK, IsNote
  <2>3. n \in Judged /\ (Zone[n] = "curated" => Refusals(vault[n]) = {})
    BY <2>1 DEF Due, Admitted
  <2>. QED
    BY <2>1, <2>2, <2>3, NormalIsDone, NormalSaysTheSame, NormalKeepsTheRest
<1>. QED
  BY <1>1, NotesInvariant, PTL
=============================================================================
