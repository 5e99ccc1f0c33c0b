--------------------------- MODULE SequenceLemmas ----------------------------
(***************************************************************************)
(* Facts about numbers and about FlattenSeq that several proofs need.      *)
(* Induction is over sets of numbers: to show P of every number, show that *)
(* {n \in Nat : P(n)} has zero and is closed under successor.              *)
(***************************************************************************)
EXTENDS SequencesExt, Integers, SequenceTheorems, FiniteSetTheorems, NaturalsInduction,
        WellFoundedInduction, TLAPS

LEMMA SmallestExists ==
    ASSUME NEW numbers, numbers \subseteq Nat, numbers # {}
    PROVE  \E least \in numbers : \A other \in numbers : least <= other
<1>1. PICK least \in numbers : \A other \in numbers : ~ (<<other, least>> \in OpToRel(<, Nat))
  BY NatLessThanWellFounded, WFMin
<1>2. ASSUME NEW other \in numbers PROVE least <= other
  <2>1. other \in Nat /\ least \in Nat
    OBVIOUS
  <2>2. ~ (other < least)
    BY <1>1, <2>1 DEF OpToRel
  <2> QED
    BY <2>1, <2>2
<1> QED
  BY <1>2

LEMMA SetInduction ==
    ASSUME NEW S, 0 \in S, \A n \in Nat : n \in S => n + 1 \in S
    PROVE  Nat \subseteq S
<1> SUFFICES ASSUME Nat \ S # {} PROVE FALSE
  OBVIOUS
<1>1. PICK least \in Nat \ S : \A other \in Nat \ S : least <= other
  BY SmallestExists
<1>2. least - 1 \in Nat /\ least = (least - 1) + 1 /\ ~(least <= least - 1)
  BY <1>1
<1> QED
  BY <1>1, <1>2
-----------------------------------------------------------------------------
(* The function by which FlattenSeq is defined.                            *)

Flattens(g, seqs, n) ==
    g = [i \in 1 .. n |-> IF i = 1 THEN seqs[i] ELSE g[i - 1] \o seqs[i]]

LEMMA FlattensExists ==
    ASSUME NEW seqs, NEW n \in Nat
    PROVE  \E g : Flattens(g, seqs, n)
<1> DEFINE S == {m \in Nat : \E g : Flattens(g, seqs, m)}
<1>1. 0 \in S
  <2>1. Flattens([i \in 1 .. 0 |-> i], seqs, 0)
    BY DEF Flattens
  <2> QED
    BY <2>1
<1>2. ASSUME NEW m \in Nat, NEW g, Flattens(g, seqs, m)
      PROVE  m + 1 \in S
  <2> DEFINE h == [i \in 1 .. m + 1 |->
                      IF i = m + 1 THEN IF i = 1 THEN seqs[i] ELSE g[i - 1] \o seqs[i]
                      ELSE g[i]]
  <2>1. ASSUME NEW i \in 1 .. m + 1
        PROVE  h[i] = IF i = 1 THEN seqs[i] ELSE h[i - 1] \o seqs[i]
    <3>1. CASE i = m + 1 /\ i = 1
      BY <3>1
    <3>2. CASE i = m + 1 /\ i # 1
      <4>1. i - 1 \in 1 .. m + 1 /\ i - 1 # m + 1
        BY <3>2
      <4> QED
        BY <3>2, <4>1
    <3>3. CASE i # m + 1
      <4>1. i \in 1 .. m /\ h[i] = g[i]
        BY <3>3
      <4>2. g[i] = IF i = 1 THEN seqs[i] ELSE g[i - 1] \o seqs[i]
        BY <1>2, <4>1 DEF Flattens
      <4>3. CASE i = 1
        BY <4>1, <4>2, <4>3
      <4>4. CASE i # 1
        <5>1. i - 1 \in 1 .. m + 1 /\ i - 1 # m + 1
          BY <4>1, <4>4
        <5> QED
          BY <4>1, <4>2, <4>4, <5>1
      <4> QED
        BY <4>3, <4>4
    <3> QED
      BY <3>1, <3>2, <3>3
  <2>2. Flattens(h, seqs, m + 1)
    BY <2>1 DEF Flattens
  <2> QED
    BY <2>2
<1>3. Nat \subseteq S
  BY <1>1, <1>2, SetInduction
<1> QED
  BY <1>3

LEMMA FlattenSeqIs ==
    ASSUME NEW seqs, Len(seqs) \in Nat \ {0}
    PROVE  \E g : Flattens(g, seqs, Len(seqs)) /\ FlattenSeq(seqs) = g[Len(seqs)]
<1>1. PICK g : Flattens(g, seqs, Len(seqs))
  BY FlattensExists
<1> QED
  BY <1>1 DEF FlattenSeq, Flattens

\* What a sequence has that is made of two.
LEMMA ConcatElements ==
    ASSUME NEW S, NEW s \in Seq(S), NEW t \in Seq(S)
    PROVE  /\ s \o t \in Seq(S)
           /\ ToSet(s \o t) = ToSet(s) \cup ToSet(t)
<1>1. /\ Len(s) \in Nat /\ Len(t) \in Nat
      /\ DOMAIN s = 1 .. Len(s) /\ DOMAIN t = 1 .. Len(t)
      /\ s \o t \in Seq(S)
      /\ DOMAIN (s \o t) = 1 .. Len(s) + Len(t)
      /\ \A i \in 1 .. Len(s) + Len(t) :
            (s \o t)[i] = IF i <= Len(s) THEN s[i] ELSE t[i - Len(s)]
  BY ConcatProperties, LenProperties
<1> DEFINE m == Len(s)
           n == Len(t)
           u == s \o t
<1> HIDE DEF m, n, u
<1>2. m \in Nat /\ n \in Nat /\ DOMAIN s = 1 .. m /\ DOMAIN t = 1 .. n
      /\ DOMAIN u = 1 .. m + n
      /\ \A i \in 1 .. m + n : u[i] = IF i <= m THEN s[i] ELSE t[i - m]
  BY <1>1 DEF m, n, u
<1>3. ASSUME NEW i \in 1 .. m + n PROVE u[i] \in ToSet(s) \cup ToSet(t)
  <2>1. CASE i <= m
    <3>1. i \in 1 .. m /\ u[i] = s[i]
      BY <1>2, <2>1
    <3> QED
      BY <1>2, <3>1 DEF ToSet
  <2>2. CASE ~ (i <= m)
    <3>1. i - m \in 1 .. n /\ u[i] = t[i - m]
      BY <1>2, <2>2
    <3> QED
      BY <1>2, <3>1 DEF ToSet
  <2> QED
    BY <2>1, <2>2
<1>4. ASSUME NEW i \in 1 .. m PROVE s[i] \in ToSet(u)
  <2>1. i \in 1 .. m + n /\ i <= m
    BY <1>2
  <2> QED
    BY <1>2, <2>1 DEF ToSet
<1>5. ASSUME NEW i \in 1 .. n PROVE t[i] \in ToSet(u)
  <2>1. i + m \in 1 .. m + n /\ ~ (i + m <= m) /\ i + m - m = i
    BY <1>2
  <2>2. u[i + m] = t[i]
    BY <1>2, <2>1
  <2> QED
    BY <1>2, <2>1, <2>2 DEF ToSet
<1>6. ToSet(u) = ToSet(s) \cup ToSet(t)
  <2>1. ToSet(u) \subseteq ToSet(s) \cup ToSet(t)
    BY <1>2, <1>3 DEF ToSet
  <2>2. ToSet(s) \subseteq ToSet(u)
    BY <1>2, <1>4 DEF ToSet
  <2>3. ToSet(t) \subseteq ToSet(u)
    BY <1>2, <1>5 DEF ToSet
  <2> QED
    BY <2>1, <2>2, <2>3
<1> QED
  BY <1>1, <1>6 DEF u

LEMMA ConcatInjective ==
    ASSUME NEW S, NEW s \in Seq(S), NEW t \in Seq(S), IsInjective(s), IsInjective(t),
           ToSet(s) \cap ToSet(t) = {}
    PROVE  IsInjective(s \o t)
<1> DEFINE m == Len(s)
           n == Len(t)
           u == s \o t
<1>1. m \in Nat /\ n \in Nat /\ DOMAIN s = 1 .. m /\ DOMAIN t = 1 .. n
      /\ DOMAIN u = 1 .. m + n
      /\ \A i \in 1 .. m + n : u[i] = IF i <= m THEN s[i] ELSE t[i - m]
  BY ConcatProperties, LenProperties
<1> HIDE DEF m, n, u
<1>2. SUFFICES ASSUME NEW i \in 1 .. m + n, NEW j \in 1 .. m + n, u[i] = u[j]
               PROVE  i = j
  BY <1>1 DEF IsInjective, u
<1>3. \A k \in 1 .. m + n : IF k <= m THEN k \in DOMAIN s /\ u[k] = s[k]
                            ELSE k - m \in DOMAIN t /\ u[k] = t[k - m]
  <2>1. \A k \in 1 .. m + n : ~ (k <= m) => k - m \in 1 .. n
    BY <1>1
  <2> QED
    BY <1>1, <2>1
<1>4. CASE i <= m /\ j <= m
  BY <1>2, <1>3, <1>4 DEF IsInjective
<1>5. CASE ~ (i <= m) /\ ~ (j <= m)
  <2>1. i - m = j - m
    BY <1>2, <1>3, <1>5 DEF IsInjective
  <2> QED
    BY <1>1, <2>1
<1>6. CASE (i <= m) # (j <= m)
  BY <1>2, <1>3, <1>6 DEF ToSet
<1> QED
  BY <1>4, <1>5, <1>6

LEMMA FlattenSeqProperties ==
    ASSUME NEW S, NEW ss \in Seq(Seq(S))
    PROVE  /\ FlattenSeq(ss) \in Seq(S)
           /\ ToSet(FlattenSeq(ss)) = UNION {ToSet(ss[i]) : i \in DOMAIN ss}
           /\ (\A i \in DOMAIN ss : IsInjective(ss[i])
                 /\ \A j \in DOMAIN ss : i # j => ToSet(ss[i]) \cap ToSet(ss[j]) = {})
              => IsInjective(FlattenSeq(ss))
<1> DEFINE n == Len(ss)
<1>1. n \in Nat /\ DOMAIN ss = 1 .. n /\ \A i \in 1 .. n : ss[i] \in Seq(S)
  BY LenProperties
<1>2. CASE n = 0
  <2>1. ss = << >> /\ FlattenSeq(ss) = << >>
    BY <1>2, EmptySeq DEF FlattenSeq
  <2>2. << >> \in Seq(S) /\ ToSet(<< >>) = {} /\ IsInjective(<< >>)
    BY EmptySeq DEF ToSet, IsInjective
  <2>3. UNION {ToSet(ss[i]) : i \in DOMAIN ss} = {}
    BY <1>1, <1>2
  <2> QED
    BY <2>1, <2>2, <2>3
<1>3. CASE n # 0
  <2>1. n \in Nat \ {0}
    BY <1>1, <1>3
  <2>2. PICK g : Flattens(g, ss, n) /\ FlattenSeq(ss) = g[n]
    BY <2>1, FlattenSeqIs
  <2> HIDE DEF n
  <2>3. \A i \in 1 .. n : g[i] = IF i = 1 THEN ss[i] ELSE g[i - 1] \o ss[i]
    BY <2>2 DEF Flattens
  <2>4. n \in Nat /\ \A i \in 1 .. n : ss[i] \in Seq(S)
    BY <1>1 DEF n
  <2> DEFINE Distinct == \A i \in 1 .. n : IsInjective(ss[i])
                 /\ \A j \in 1 .. n : i # j => ToSet(ss[i]) \cap ToSet(ss[j]) = {}
             P(m) == /\ g[m] \in Seq(S)
                     /\ ToSet(g[m]) = UNION {ToSet(ss[i]) : i \in 1 .. m}
                     /\ Distinct => IsInjective(g[m])
             T == {m \in Nat : m \in 1 .. n => P(m)}
  <2>5. 1 \in 1 .. n => P(1)
    <3> SUFFICES ASSUME 1 \in 1 .. n PROVE P(1)
      OBVIOUS
    <3>1. g[1] = ss[1] /\ 1 .. 1 = {1}
      BY <2>3
    <3>2. UNION {ToSet(ss[i]) : i \in {1}} = ToSet(ss[1])
      OBVIOUS
    <3>3. Distinct => IsInjective(ss[1])
      OBVIOUS
    <3> QED
      BY <2>4, <3>1, <3>2, <3>3
  <2>6. ASSUME NEW m \in 1 .. n, NEW k \in 1 .. n, k = m + 1, P(m) PROVE P(k)
    <3>1. k # 1 /\ k - 1 = m
      BY <2>6
    <3>2. g[k] = g[m] \o ss[k]
      BY <2>3, <3>1
    <3>3. g[k] \in Seq(S) /\ ToSet(g[k]) = ToSet(g[m]) \cup ToSet(ss[k])
      BY <2>4, <2>6, <3>2, ConcatElements
    <3>4. 1 .. k = (1 .. m) \cup {k}
      BY <2>6
    <3>5. ToSet(g[k]) = UNION {ToSet(ss[i]) : i \in 1 .. k}
      BY <2>6, <3>3, <3>4
    <3>6. ASSUME Distinct PROVE IsInjective(g[k])
      <4>1. \A i \in 1 .. m : i \in 1 .. n /\ i # k
        BY <2>4, <2>6
      <4>2. \A i \in 1 .. m : ToSet(ss[i]) \cap ToSet(ss[k]) = {}
        BY <3>6, <4>1
      <4>3. ToSet(g[m]) \cap ToSet(ss[k]) = {}
        BY <2>6, <4>2
      <4>4. IsInjective(ss[k]) /\ IsInjective(g[m])
        BY <2>6, <3>6
      <4>5. ss[k] \in Seq(S) /\ g[m] \in Seq(S)
        BY <2>4, <2>6
      <4>6. IsInjective(g[m] \o ss[k])
        BY <4>3, <4>4, <4>5, ConcatInjective
      <4> QED
        BY <3>2, <4>6
    <3> QED
      BY <3>3, <3>5, <3>6
  <2>7. P(n)
    <3> HIDE DEF P
    <3>1. ASSUME NEW m \in Nat, m \in T PROVE m + 1 \in T
      <4> SUFFICES ASSUME m + 1 \in 1 .. n PROVE P(m + 1)
        OBVIOUS
      <4>1. CASE m = 0
        BY <2>5, <4>1
      <4>2. CASE m # 0
        <5>1. m \in 1 .. n
          BY <2>4, <4>2
        <5> QED
          BY <2>6, <3>1, <5>1
      <4> QED
        BY <4>1, <4>2
    <3>2. 0 \in T
      OBVIOUS
    <3>3. Nat \subseteq T
      <4> HIDE DEF T
      <4> QED
        BY <3>1, <3>2, SetInduction
    <3>4. n \in 1 .. n
      BY <2>1
    <3> QED
      BY <2>4, <3>3, <3>4
  <2>8. DOMAIN ss = 1 .. n
    BY <1>1 DEF n
  <2> QED
    BY <2>2, <2>7, <2>8
<1> QED
  BY <1>2, <1>3

LEMMA SetToSeqProperties ==
    ASSUME NEW S, IsFiniteSet(S)
    PROVE  /\ SetToSeq(S) \in Seq(S)
           /\ ToSet(SetToSeq(S)) = S
           /\ IsInjective(SetToSeq(S))
<1> DEFINE n == Cardinality(S)
           f == SetToSeq(S)
<1>1. n \in Nat /\ ExistsBijection(1 .. n, S)
  BY FS_CardinalityType
<1>2. \E g \in [1 .. n -> S] : IsInjective(g)
  BY <1>1 DEF ExistsBijection, Bijection, Injection, IsInjective
<1>3. f \in [1 .. n -> S] /\ IsInjective(f)
  BY <1>2 DEF SetToSeq
<1> HIDE DEF f
<1>4. Cardinality(1 .. n) = n
  <2>1. Cardinality(1 .. n) = IF 1 > n THEN 0 ELSE n - 1 + 1
    BY <1>1, FS_Interval
  <2> HIDE DEF n
  <2> QED
    BY <1>1, <2>1
<1>5. f \in Injection(1 .. n, S)
  BY <1>3 DEF Injection, IsInjective
<1>6. f \in Surjection(1 .. n, S)
  BY <1>4, <1>5, FS_Injection
<1>7. ToSet(f) = S
  <2>1. \A x \in S : \E i \in 1 .. n : f[i] = x
    BY <1>6 DEF Surjection
  <2>2. DOMAIN f = 1 .. n /\ \A i \in 1 .. n : f[i] \in S
    BY <1>3
  <2> QED
    BY <2>1, <2>2 DEF ToSet
<1> HIDE DEF n
<1>8. f \in Seq(S)
  BY <1>1, <1>3
<1> QED
  BY <1>3, <1>7, <1>8 DEF f

(***************************************************************************)
(* What a queue has: taken at the front, added to at the back.             *)
(***************************************************************************)
LEMMA AppendElements ==
    ASSUME NEW S, NEW s \in Seq(S), NEW x \in S
    PROVE  /\ Append(s, x) \in Seq(S)
           /\ Len(s) \in Nat /\ DOMAIN s = 1 .. Len(s)
           /\ Len(Append(s, x)) = Len(s) + 1
           /\ DOMAIN Append(s, x) = DOMAIN s \cup {Len(s) + 1}
           /\ \A i \in DOMAIN s : Append(s, x)[i] = s[i]
           /\ Append(s, x)[Len(s) + 1] = x
           /\ ToSet(Append(s, x)) = ToSet(s) \cup {x}
           /\ IsInjective(s) /\ x \notin ToSet(s) => IsInjective(Append(s, x))
<1> DEFINE t == Append(s, x)
           n == Len(s) + 1
<1>1. /\ t \in Seq(S) /\ Len(s) \in Nat /\ DOMAIN s = 1 .. Len(s) /\ Len(t) = n
      /\ DOMAIN t = DOMAIN s \cup {n} /\ n \notin DOMAIN s
      /\ (\A i \in DOMAIN s : t[i] = s[i]) /\ t[n] = x
  OBVIOUS
<1> HIDE DEF t, n
<1>2. ToSet(t) = ToSet(s) \cup {x}
  BY <1>1 DEF ToSet
<1>3. ASSUME IsInjective(s), x \notin ToSet(s) PROVE IsInjective(t)
  <2> SUFFICES ASSUME NEW i \in DOMAIN t, NEW j \in DOMAIN t, t[i] = t[j] PROVE i = j
    BY DEF IsInjective
  <2>1. \A k \in DOMAIN s : s[k] # x
    BY <1>3 DEF ToSet
  <2> QED
    BY <1>1, <1>3, <2>1 DEF IsInjective
<1> QED
  BY <1>1, <1>2, <1>3 DEF t, n

LEMMA HeadTailElements ==
    ASSUME NEW S, NEW s \in Seq(S), s # << >>
    PROVE  /\ Head(s) \in S /\ Tail(s) \in Seq(S)
           /\ ToSet(s) = {Head(s)} \cup ToSet(Tail(s))
           /\ IsInjective(s) => Head(s) \notin ToSet(Tail(s)) /\ IsInjective(Tail(s))
<1> DEFINE t == Tail(s)
           n == Len(s)
<1>1. /\ n \in Nat \ {0} /\ DOMAIN s = 1 .. n /\ t \in Seq(S) /\ DOMAIN t = 1 .. n - 1
      /\ \A i \in 1 .. n - 1 : t[i] = s[i + 1]
      /\ Head(s) = s[1] /\ s[1] \in S
  OBVIOUS
<1> HIDE DEF t, n
<1>2. \A i \in 1 .. n : i = 1 \/ (i - 1 \in 1 .. n - 1 /\ t[i - 1] = s[i])
  <2> SUFFICES ASSUME NEW i \in 1 .. n, i # 1
               PROVE  i - 1 \in 1 .. n - 1 /\ t[i - 1] = s[i]
    OBVIOUS
  <2>1. i - 1 \in 1 .. n - 1 /\ (i - 1) + 1 = i
    BY <1>1
  <2> QED
    BY <1>1, <2>1
<1>3. \A i \in 1 .. n - 1 : i + 1 \in 1 .. n /\ i + 1 # 1
  BY <1>1
<1>4. ToSet(s) = {s[1]} \cup ToSet(t)
  <2>1. ToSet(s) \subseteq {s[1]} \cup ToSet(t)
    <3> SUFFICES ASSUME NEW i \in 1 .. n PROVE s[i] = s[1] \/ s[i] \in ToSet(t)
      BY <1>1 DEF ToSet
    <3>1. i = 1 \/ (i - 1 \in DOMAIN t /\ t[i - 1] = s[i])
      BY <1>1, <1>2
    <3> QED
      BY <3>1 DEF ToSet
  <2>2. s[1] \in ToSet(s)
    <3>1. 1 \in DOMAIN s
      BY <1>1
    <3> QED
      BY <3>1 DEF ToSet
  <2>3. ToSet(t) \subseteq ToSet(s)
    BY <1>1, <1>3 DEF ToSet
  <2> QED
    BY <2>1, <2>2, <2>3
<1>5. ASSUME IsInjective(s) PROVE s[1] \notin ToSet(t) /\ IsInjective(t)
  <2>1. ASSUME NEW i \in 1 .. n - 1, t[i] = s[1] PROVE FALSE
    <3>1. i + 1 \in 1 .. n /\ 1 \in 1 .. n /\ i + 1 # 1 /\ t[i] = s[i + 1]
      BY <1>1, <1>3
    <3> QED
      BY <1>1, <1>5, <2>1, <3>1 DEF IsInjective
  <2>2. ASSUME NEW i \in 1 .. n - 1, NEW j \in 1 .. n - 1, t[i] = t[j] PROVE i = j
    <3>1. i + 1 \in 1 .. n /\ j + 1 \in 1 .. n /\ s[i + 1] = s[j + 1]
      BY <1>1, <1>3, <2>2
    <3>2. i + 1 = j + 1
      BY <1>1, <1>5, <3>1 DEF IsInjective
    <3> QED
      BY <3>2
  <2> QED
    BY <1>1, <2>1, <2>2 DEF IsInjective, ToSet
<1> QED
  BY <1>1, <1>4, <1>5 DEF t

\* A sequence without repetitions is as long as the set of its elements.
LEMMA InjectiveLength ==
    ASSUME NEW S, NEW s \in Seq(S), IsInjective(s)
    PROVE  /\ IsFiniteSet(ToSet(s)) /\ Cardinality(ToSet(s)) = Len(s)
<1> DEFINE T == ToSet(s)
<1>1. Len(s) \in Nat /\ DOMAIN s = 1 .. Len(s) /\ \A t \in T : \E i \in 1 .. Len(s) : s[i] = t
  BY DEF ToSet
<1>2. s \in [1 .. Len(s) -> T]
  BY <1>1 DEF ToSet
<1> HIDE DEF T
<1>3. s \in Bijection(1 .. Len(s), T)
  BY <1>1, <1>2 DEF Bijection, Injection, Surjection, IsInjective
<1>4. Cardinality(T) = Len(s)
  BY <1>1, <1>3, FS_CountingElements DEF ExistsBijection
<1>5. IsFiniteSet(T)
  BY <1>1, <1>3, FS_NatBijection DEF ExistsBijection
<1> QED
  BY <1>4, <1>5 DEF T
=============================================================================
