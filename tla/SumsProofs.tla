----------------------------- MODULE SumsProofs -----------------------------
(***************************************************************************)
(* Induction over the natural numbers, and what it shows about SumTo: the  *)
(* facts about loops that the proofs of other modules rest on.             *)
(***************************************************************************)
EXTENDS Sums, SequenceTheorems, WellFoundedInduction, TLAPS

\* A set of numbers that is not empty has a least one.
LEMMA LeastNumber ==
  ASSUME NEW S \in SUBSET Nat, S # {}
  PROVE  \E x \in S : \A y \in S : x <= y
<1> DEFINE R == {p \in Nat \X Nat : p[1] < p[2]}
<1>1. IsWellFoundedOn(R, Nat)
  BY NatLessThanWellFounded, Zenon DEF OpToRel
<1> HIDE DEF R
<1>2. PICK x \in S : \A y \in S : ~(<<y, x>> \in R)
  BY <1>1, WFMin, Zenon
<1>3. ASSUME NEW y \in S PROVE x <= y
  <2>1. ~(<<y, x>> \in R)
    BY <1>2
  <2> QED BY <2>1 DEF R
<1> QED BY <1>3

\* A set that has 0, and with a number the next one, has all numbers.
LEMMA AllNumbers ==
  ASSUME NEW S \in SUBSET Nat, 0 \in S, \A n \in S : n + 1 \in S
  PROVE  S = Nat
<1> SUFFICES ASSUME Nat \ S # {} PROVE FALSE
  OBVIOUS
<1>1. PICK x \in Nat \ S : \A y \in Nat \ S : x <= y
  <2> DEFINE T == Nat \ S
  <2>1. T \in SUBSET Nat /\ T # {}
    OBVIOUS
  <2> HIDE DEF T
  <2>2. \E x \in T : \A y \in T : x <= y
    BY <2>1, LeastNumber
  <2> QED BY <2>2 DEF T
<1>2. x # 0 /\ x - 1 \in Nat /\ x - 1 \notin Nat \ S
  BY <1>1
<1> QED BY <1>2

-----------------------------------------------------------------------------
\* g has the sums of the first 0, 1, ... n elements.
AddsUp(size, s, n, g) ==
  g = [i \in 0..n |-> IF i = 0 THEN 0 ELSE g[i - 1] + size[s[i]]]

\* There is such a function,
LEMMA SumsExist ==
  ASSUME NEW size, NEW s
  PROVE  \A n \in Nat : \E g : AddsUp(size, s, n, g)
<1> DEFINE S == {n \in Nat : \E g : AddsUp(size, s, n, g)}
<1>1. 0 \in S
  <2> DEFINE g == [i \in 0..0 |-> 0]
  <2>1. AddsUp(size, s, 0, g)
    BY DEF AddsUp
  <2> QED BY <2>1
<1>2. ASSUME NEW n \in S PROVE n + 1 \in S
  <2>1. PICK g : AddsUp(size, s, n, g)
    OBVIOUS
  <2> DEFINE h == [i \in 0..(n + 1) |-> IF i = n + 1 THEN g[n] + size[s[n + 1]] ELSE g[i]]
  <2>2. n \in Nat
    OBVIOUS
  <2>3. AddsUp(size, s, n + 1, h)
    BY <2>1, <2>2 DEF AddsUp
  <2> QED BY <2>2, <2>3
<1> HIDE DEF S
<1>3. S = Nat
  <2>1. S \in SUBSET Nat
    BY DEF S
  <2> QED BY <1>1, <1>2, <2>1, AllNumbers
<1> QED BY <1>3 DEF S

\* only one of them,
LEMMA SumsAgree ==
  ASSUME NEW size, NEW s, NEW m \in Nat, NEW n \in Nat, m <= n,
         NEW g, AddsUp(size, s, m, g), NEW h, AddsUp(size, s, n, h)
  PROVE  g[m] = h[m]
<1> DEFINE S == {i \in Nat : i <= m => g[i] = h[i]}
<1>1. 0 \in S
  BY DEF AddsUp
<1>2. ASSUME NEW i \in S PROVE i + 1 \in S
  <2>1. CASE i + 1 <= m
    <3>1. g[i] = h[i]
      BY <2>1
    <3>2. g[i + 1] = g[i] + size[s[i + 1]]
      BY <2>1 DEF AddsUp
    <3>3. h[i + 1] = h[i] + size[s[i + 1]]
      BY <2>1 DEF AddsUp
    <3> QED BY <3>1, <3>2, <3>3
  <2>2. CASE ~(i + 1 <= m)
    BY <2>2
  <2> QED BY <2>1, <2>2
<1>3. S = Nat
  <2>1. S \in SUBSET Nat
    OBVIOUS
  <2> HIDE DEF S
  <2> QED BY <1>1, <1>2, <2>1, AllNumbers
<1> QED BY <1>3

\* and SumTo is its last value.
LEMMA SumToLast ==
  ASSUME NEW size, NEW s, NEW n \in Nat
  PROVE  \E g : AddsUp(size, s, n, g) /\ SumTo(size, s, n) = g[n]
<1>1. \E g : AddsUp(size, s, n, g)
  BY SumsExist
<1>2. AddsUp(size, s, n, CHOOSE g : AddsUp(size, s, n, g))
  BY <1>1
<1>3. SumTo(size, s, n) = (CHOOSE g : AddsUp(size, s, n, g))[n]
  BY DEF SumTo, AddsUp
<1> QED BY <1>2, <1>3

\* SumTo adds up the sizes.
LEMMA SumToNext ==
  ASSUME NEW size, NEW s
  PROVE  /\ SumTo(size, s, 0) = 0
         /\ \A n \in Nat : SumTo(size, s, n + 1) = SumTo(size, s, n) + size[s[n + 1]]
<1>1. SumTo(size, s, 0) = 0
  <2>1. PICK g : AddsUp(size, s, 0, g) /\ SumTo(size, s, 0) = g[0]
    BY SumToLast
  <2> QED BY <2>1 DEF AddsUp
<1>2. ASSUME NEW n \in Nat
      PROVE  SumTo(size, s, n + 1) = SumTo(size, s, n) + size[s[n + 1]]
  <2>1. PICK g : AddsUp(size, s, n, g) /\ SumTo(size, s, n) = g[n]
    BY SumToLast
  <2>2. PICK h : AddsUp(size, s, n + 1, h) /\ SumTo(size, s, n + 1) = h[n + 1]
    <3>1. n + 1 \in Nat
      OBVIOUS
    <3> QED BY <3>1, SumToLast
  <2>3. g[n] = h[n]
    BY <2>1, <2>2, SumsAgree
  <2>4. h[n + 1] = h[n] + size[s[n + 1]]
    BY <2>2 DEF AddsUp
  <2> QED BY <2>1, <2>2, <2>3, <2>4
<1> QED BY <1>1, <1>2

-----------------------------------------------------------------------------
\* Sums of numbers are numbers, and do not get less.
LEMMA SumToNat ==
  ASSUME NEW D, NEW size \in [D -> Nat], NEW s \in Seq(D), NEW n \in 0..Len(s)
  PROVE  SumTo(size, s, n) \in Nat
<1> DEFINE S == {i \in Nat : i <= Len(s) => SumTo(size, s, i) \in Nat}
<1>1. 0 \in S
  BY SumToNext
<1>2. ASSUME NEW i \in S PROVE i + 1 \in S
  <2>1. SumTo(size, s, i + 1) = SumTo(size, s, i) + size[s[i + 1]]
    BY SumToNext
  <2>2. CASE i + 1 <= Len(s)
    <3>1. s[i + 1] \in D
      BY <2>2
    <3>2. size[s[i + 1]] \in Nat
      BY <3>1
    <3> QED BY <2>1, <2>2, <3>2
  <2> QED BY <2>2
<1>3. S = Nat
  <2>1. S \in SUBSET Nat
    OBVIOUS
  <2> HIDE DEF S
  <2> QED BY <1>1, <1>2, <2>1, AllNumbers
<1> QED BY <1>3

\* The sum of the first elements depends on them alone.
LEMMA SumToSame ==
  ASSUME NEW size, NEW s, NEW t, NEW n \in Nat, \A i \in 1..n : s[i] = t[i]
  PROVE  SumTo(size, s, n) = SumTo(size, t, n)
<1> DEFINE S == {i \in Nat : i <= n => SumTo(size, s, i) = SumTo(size, t, i)}
<1>1. 0 \in S
  BY SumToNext
<1>2. ASSUME NEW i \in S PROVE i + 1 \in S
  <2>1. SumTo(size, s, i + 1) = SumTo(size, s, i) + size[s[i + 1]]
    BY SumToNext
  <2>2. SumTo(size, t, i + 1) = SumTo(size, t, i) + size[t[i + 1]]
    BY SumToNext
  <2>3. CASE i + 1 <= n
    BY <2>1, <2>2, <2>3
  <2> QED BY <2>3
<1>3. S = Nat
  <2>1. S \in SUBSET Nat
    OBVIOUS
  <2> HIDE DEF S
  <2> QED BY <1>1, <1>2, <2>1, AllNumbers
<1> QED BY <1>3

\* The sum of two sequences, one after the other.
LEMMA SumToConcat ==
  ASSUME NEW D, NEW size \in [D -> Nat], NEW s \in Seq(D), NEW t \in Seq(D)
  PROVE  SumTo(size, s \o t, Len(s) + Len(t)) = SumTo(size, s, Len(s)) + SumTo(size, t, Len(t))
<1> DEFINE S == {i \in Nat : i <= Len(t) => SumTo(size, s \o t, Len(s) + i)
                                              = SumTo(size, s, Len(s)) + SumTo(size, t, i)}
<1>1. 0 \in S
  <2>1. SumTo(size, s \o t, Len(s)) = SumTo(size, s, Len(s))
    <3>1. \A i \in 1..Len(s) : (s \o t)[i] = s[i]
      OBVIOUS
    <3>2. Len(s) \in Nat
      OBVIOUS
    <3> QED BY <3>1, <3>2, SumToSame
  <2>2. SumTo(size, t, 0) = 0
    BY SumToNext
  <2>3. SumTo(size, s, Len(s)) \in Nat
    <3>1. Len(s) \in 0..Len(s)
      OBVIOUS
    <3> QED BY <3>1, SumToNat
  <2> QED BY <2>1, <2>2, <2>3
<1>2. ASSUME NEW i \in S PROVE i + 1 \in S
  <2>1. CASE i + 1 <= Len(t)
    <3>1. SumTo(size, t, i + 1) = SumTo(size, t, i) + size[t[i + 1]]
      BY SumToNext
    <3>2. SumTo(size, s \o t, (Len(s) + i) + 1)
            = SumTo(size, s \o t, Len(s) + i) + size[(s \o t)[(Len(s) + i) + 1]]
      <4>1. Len(s) + i \in Nat
        OBVIOUS
      <4> QED BY <4>1, SumToNext
    <3>3. (s \o t)[(Len(s) + i) + 1] = t[i + 1] /\ (Len(s) + i) + 1 = Len(s) + (i + 1)
      BY <2>1
    <3>4. size[t[i + 1]] \in Nat
      <4>1. t[i + 1] \in D
        BY <2>1
      <4> QED BY <4>1
    <3>5. SumTo(size, s, Len(s)) \in Nat /\ SumTo(size, t, i) \in Nat
      <4>1. Len(s) \in 0..Len(s) /\ i \in 0..Len(t)
        BY <2>1
      <4> QED BY <4>1, SumToNat
    <3>6. SumTo(size, s \o t, Len(s) + i) = SumTo(size, s, Len(s)) + SumTo(size, t, i)
      BY <2>1
    <3> QED BY <3>1, <3>2, <3>3, <3>4, <3>5, <3>6
  <2>2. CASE ~(i + 1 <= Len(t))
    BY <2>2
  <2> QED BY <2>1, <2>2
<1>3. S = Nat
  <2>1. S \in SUBSET Nat
    OBVIOUS
  <2> HIDE DEF S
  <2> QED BY <1>1, <1>2, <2>1, AllNumbers
<1>4. Len(t) \in Nat
  OBVIOUS
<1>5. Len(t) \in S
  <2> HIDE DEF S
  <2> QED BY <1>3, <1>4
<1> QED BY <1>5

\* A sequence is its first n elements and the others.
LEMMA Divided ==
  ASSUME NEW S, NEW s \in Seq(S), NEW n \in 0..Len(s)
  PROVE  /\ SubSeq(s, 1, n) \in Seq(S) /\ SubSeq(s, n + 1, Len(s)) \in Seq(S)
         /\ s = SubSeq(s, 1, n) \o SubSeq(s, n + 1, Len(s))
<1> DEFINE a == SubSeq(s, 1, n)
           b == SubSeq(s, n + 1, Len(s))
<1>1. a \in Seq(S) /\ b \in Seq(S)
  OBVIOUS
<1>2. s = a \o b
  <2>1. Len(a) = n /\ \A i \in 1..n : a[i] = s[i]
    OBVIOUS
  <2>2. Len(b) = Len(s) - n /\ \A i \in 1..(Len(s) - n) : b[i] = s[n + i]
    OBVIOUS
  <2> HIDE DEF a, b
  <2>3. a \o b \in Seq(S) /\ Len(a \o b) = Len(s)
    <3>1. a \o b \in Seq(S) /\ Len(a \o b) = Len(a) + Len(b)
      BY <1>1, ConcatProperties
    <3>2. n + (Len(s) - n) = Len(s)
      OBVIOUS
    <3> QED BY <2>1, <2>2, <3>1, <3>2
  <2>4. ASSUME NEW i \in 1..Len(s) PROVE (a \o b)[i] = s[i]
    <3>1. CASE i <= n
      BY <1>1, <2>1, <3>1
    <3>2. CASE ~(i <= n)
      <4>1. i - n \in 1..(Len(s) - n) /\ n + (i - n) = i /\ i > Len(a)
        BY <2>1, <3>2
      <4>2. (a \o b)[i] = b[i - n]
        BY <1>1, <2>1, <2>2, <4>1
      <4> QED BY <2>2, <4>1, <4>2
    <3> QED BY <3>1, <3>2
  <2> QED BY <2>3, <2>4, SeqEqual
<1> QED BY <1>1, <1>2
=============================================================================
