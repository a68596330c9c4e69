----------------------------- MODULE Recursion -----------------------------
(***************************************************************************)
(* Induction and recursion over numbers, in a form that needs no operator  *)
(* as a parameter: what is shown by induction is that a set has all the    *)
(* numbers, and what is defined by recursion is given by functions.        *)
(***************************************************************************)
EXTENDS Integers, Sequences, SequencesExt, FiniteSetTheorems, SequenceTheorems, TLAPS

\* The initial segments of numbers are finite sets, and these are well-founded.
LEMMA LeastNumber ==
    ASSUME NEW S, S \subseteq Nat, S # {}
    PROVE  \E m \in S : \A k \in S : m <= k
  <1> DEFINE T == {0..n : n \in S}
  <1>1. T \subseteq FiniteSubsetsOf(Nat)
    <2> SUFFICES ASSUME NEW n \in S PROVE 0..n \in FiniteSubsetsOf(Nat)
      OBVIOUS
    <2> QED  BY FS_Interval DEF FiniteSubsetsOf
  <1>2. PICK x \in T : \A y \in T : ~(<<y, x>> \in StrictSubsetOrdering(Nat))
    <2>1. T # {}
      OBVIOUS
    <2> HIDE DEF T
    <2> QED  BY <1>1, <2>1, WFMin, FS_StrictSubsetOrderingWellFounded
  <1>3. PICK m \in S : x = 0..m
    OBVIOUS
  <1>4. ASSUME NEW k \in S, k < m PROVE FALSE
    <2>1. m \in 0..m /\ m \notin 0..k
      BY <1>4
    <2>2. 0..k \subseteq 0..m /\ 0..k # 0..m /\ 0..k \in T /\ 0..m \subseteq Nat
      BY <1>4, <2>1
    <2> QED  BY <1>2, <1>3, <2>2 DEF StrictSubsetOrdering
  <1> QED  BY <1>4

LEMMA Induction ==
    ASSUME NEW S, 0 \in S, \A n \in Nat : n \in S => n + 1 \in S
    PROVE  Nat \subseteq S
  <1> SUFFICES ASSUME Nat \ S # {} PROVE FALSE
    OBVIOUS
  <1>1. PICK m \in Nat \ S : \A k \in Nat \ S : m <= k
    BY LeastNumber
  <1>2. m # 0 /\ m - 1 \in Nat /\ m - 1 \in S
    BY <1>1
  <1> QED  BY <1>1, <1>2

\* The first numbers, one after another.
LEMMA UpTo ==
    ASSUME NEW n \in Nat, NEW S, 0 \in S, \A k \in 0..(n - 1) : k \in S => k + 1 \in S
    PROVE  0..n \subseteq S
  <1> DEFINE T == {k \in Nat : k <= n => k \in S}
  <1>1. 0 \in T
    OBVIOUS
  <1>2. ASSUME NEW k \in Nat, k \in T PROVE k + 1 \in T
    BY <1>2
  <1>3. Nat \subseteq T
    <2> HIDE DEF T
    <2> QED  BY <1>1, <1>2, Induction
  <1> QED  BY <1>3

\* The value at p is made from the value at a number before p.
LooksBack(before, n) == before \in [1..n -> Nat] /\ \A p \in 1..n : before[p] < p

Follows(f, n, base, before, step) ==
    f[0] = base /\ \A p \in 1..n : f[p] = step[p][f[before[p]]]

LEMMA RecursionDefines ==
    ASSUME NEW V, NEW base \in V, NEW n \in Nat, NEW before, LooksBack(before, n),
           NEW step \in [1..n -> [V -> V]]
    PROVE  \E f \in [0..n -> V] : Follows(f, n, base, before, step)
  <1> USE DEF LooksBack, Follows
  <1> DEFINE Defined(k) ==
        \E f \in [0..k -> V] : f[0] = base /\ \A p \in 1..k : f[p] = step[p][f[before[p]]]
      S == {k \in Nat : k <= n => Defined(k)}
  <1>1. 0 \in S
    <2> DEFINE g == [p \in 0..0 |-> base]
    <2>1. g \in [0..0 -> V] /\ g[0] = base
      OBVIOUS
    <2>2. \A p \in 1..0 : g[p] = step[p][g[before[p]]]
      OBVIOUS
    <2>3. Defined(0)
      <3> HIDE DEF g
      <3> QED  BY <2>1, <2>2
    <2> QED  BY <2>3
  <1>2. ASSUME NEW k \in Nat, k \in S PROVE k + 1 \in S
    <2> SUFFICES ASSUME k + 1 <= n PROVE Defined(k + 1)
      BY <1>2
    <2>1. PICK f \in [0..k -> V] : f[0] = base /\ \A p \in 1..k : f[p] = step[p][f[before[p]]]
      BY <1>2
    <2> DEFINE g == [p \in 0..(k + 1) |-> IF p <= k THEN f[p] ELSE step[k + 1][f[before[k + 1]]]]
    <2>2. \A p \in 1..(k + 1) : p \in 1..n /\ before[p] \in 0..k
      OBVIOUS
    <2>3. step[k + 1][f[before[k + 1]]] \in V
      BY <2>2
    <2>4. g \in [0..(k + 1) -> V]
      BY <2>3
    <2>5. g[0] = base
      BY <2>1
    <2>6. \A p \in 1..(k + 1) : g[before[p]] = f[before[p]]
      BY <2>2
    <2>7. \A p \in 1..(k + 1) : g[p] = step[p][f[before[p]]]
      BY <2>1
    <2>8. \A p \in 1..(k + 1) : g[p] = step[p][g[before[p]]]
      <3> HIDE DEF g
      <3> QED  BY <2>6, <2>7
    <2> QED
      <3> HIDE DEF g
      <3> QED  BY <2>4, <2>5, <2>8
  <1>3. Nat \subseteq S
    <2> HIDE DEF S
    <2> QED  BY <1>1, <1>2, Induction
  <1> QED  BY <1>3

\* The value at p is made from the one before.
Makes(f, V, n, base, step) ==
    f[0] = base /\ \A p \in 1..n : f[p - 1] \in V /\ f[p] = step[p][f[p - 1]]

LEMMA StepsDefine ==
    ASSUME NEW V, NEW base \in V, NEW n \in Nat, NEW step \in [1..n -> [V -> V]]
    PROVE  \E f \in [0..n -> V] : Makes(f, V, n, base, step)
  <1> DEFINE before == [p \in 1..n |-> p - 1]
  <1>1. LooksBack(before, n)
    BY DEF LooksBack
  <1>2. PICK f \in [0..n -> V] : Follows(f, n, base, before, step)
    <2> HIDE DEF before
    <2> QED  BY <1>1, RecursionDefines
  <1>3. \A p \in 1..n : before[p] = p - 1 /\ p - 1 \in 0..n
    OBVIOUS
  <1> HIDE DEF before
  <1> QED  BY <1>2, <1>3 DEF Follows, Makes

---------------------------------------------------------------------------
(* Sequences that are put together. *)

\* What there is after each of the sequences.
IsSum(sum, seqs) == sum[0] = <<>> /\ \A p \in 1..Len(seqs) : sum[p] = sum[p - 1] \o seqs[p]

LEMMA FunctionIsSeq ==
    ASSUME NEW V, NEW n \in Nat, NEW s \in [1..n -> V] PROVE s \in Seq(V) /\ Len(s) = n
  <1>1. \A i \in 1..n : s[i] \in V
    OBVIOUS
  <1>2. s = [i \in 1..n |-> s[i]]
    OBVIOUS
  <1>3. [i \in 1..n |-> s[i]] \in Seq(V)
    BY <1>1
  <1> QED  BY <1>2, <1>3

LEMMA FirstSum ==
    ASSUME NEW seqs, Len(seqs) \in Nat, 0 < Len(seqs), NEW sum, IsSum(sum, seqs)
    PROVE  sum[1] = <<>> \o seqs[1]
  <1>1. \A p \in 1..Len(seqs) : p = 1 => p - 1 = 0
    OBVIOUS
  <1>2. \A p \in 1..Len(seqs) : p = 1 => sum[p] = sum[0] \o seqs[p]
    <2>1. ASSUME NEW p \in 1..Len(seqs), p = 1 PROVE sum[p] = sum[0] \o seqs[p]
      <3>1. sum[p] = sum[p - 1] \o seqs[p]
        BY DEF IsSum
      <3>2. p - 1 = 0
        BY <2>1
      <3> QED  BY <3>1, <3>2
    <2> QED  BY <2>1
  <1>3. 1 \in 1..Len(seqs)
    OBVIOUS
  <1> QED  BY <1>2, <1>3 DEF IsSum

LEMMA FlattenSums ==
    ASSUME NEW S, NEW seqs \in Seq(Seq(S))
    PROVE  \E sum \in [0..Len(seqs) -> Seq(S)] : IsSum(sum, seqs) /\ FlattenSeq(seqs) = sum[Len(seqs)]
  <1> DEFINE n == Len(seqs)
             V == Seq(S)
             before == [p \in 1..n |-> p - 1]
             step == [p \in 1..n |-> [v \in V |-> v \o seqs[p]]]
  <1>1. n \in Nat /\ \A p \in 1..n : seqs[p] \in Seq(S)
    OBVIOUS
  <1>2. step \in [1..n -> [V -> V]]
    BY <1>1
  <1>3. LooksBack(before, n) /\ <<>> \in V
    BY <1>1 DEF LooksBack
  <1>4. PICK sum \in [0..n -> V] : Follows(sum, n, <<>>, before, step)
    <2> HIDE DEF n, V, before, step
    <2> QED  BY <1>1, <1>2, <1>3, RecursionDefines
  <1>5. sum[0] = <<>> /\ \A p \in 1..n : sum[p - 1] \in V /\ sum[p] = sum[p - 1] \o seqs[p]
    <2>1. ASSUME NEW p \in 1..n PROVE sum[p - 1] \in V /\ sum[p] = sum[p - 1] \o seqs[p]
      <3>1. p - 1 \in 0..n /\ before[p] = p - 1
        BY <1>1
      <3>2. sum[p - 1] \in V
        BY <3>1
      <3>3. sum[p] = step[p][sum[before[p]]]
        BY <1>4 DEF Follows
      <3> QED  BY <3>1, <3>2, <3>3
    <2> QED  BY <1>4, <2>1 DEF Follows
  <1>6. CASE n = 0
    <2>1. FlattenSeq(seqs) = <<>>
      BY <1>6 DEF FlattenSeq
    <2> QED  BY <1>5, <1>6, <2>1 DEF IsSum
  <1>7. CASE n # 0
    <2> DEFINE Flat(f) == f = [i \in 1..Len(seqs) |-> IF i = 1 THEN seqs[i] ELSE f[i - 1] \o seqs[i]]
               g == [i \in 1..n |-> sum[i]]
    <2>1. Flat(g)
      <3>1. ASSUME NEW i \in 1..n PROVE g[i] = IF i = 1 THEN seqs[i] ELSE g[i - 1] \o seqs[i]
        <4>1. sum[i] = sum[i - 1] \o seqs[i] /\ sum[0] = <<>> /\ seqs[i] \in Seq(S)
          BY <1>1, <1>5
        <4>2. CASE i = 1
          <5>1. sum[i - 1] = <<>>
            <6>1. i - 1 = 0
              BY <4>2
            <6> QED  BY <4>1, <6>1
          <5>2. g[i] = <<>> \o seqs[i]
            BY <4>1, <5>1
          <5>3. <<>> \o seqs[i] = seqs[i]
            BY <4>1, ConcatEmptySeq
          <5> QED  BY <4>2, <5>2, <5>3
        <4>3. CASE i # 1
          <5>1. i - 1 \in 1..n
            BY <1>1, <4>3
          <5> QED  BY <4>1, <4>3, <5>1
        <4> QED  BY <4>2, <4>3
      <3> QED  BY <3>1
    <2> HIDE DEF g
    <2>2. PICK f : Flat(f) /\ f = CHOOSE f0 : Flat(f0)
      BY <2>1
    <2>3. FlattenSeq(seqs) = f[n]
      <3>1. Len(seqs) # 0 /\ f = CHOOSE f0 : Flat(f0)
        BY <1>7, <2>2
      <3> QED  BY <3>1 DEF FlattenSeq
    <2>4. \A i \in Nat : i \in 1..n => f[i] = sum[i]
      <3> DEFINE T == {i \in Nat : i \in 1..n => f[i] = sum[i]}
      <3>1. 0 \in T
        OBVIOUS
      <3>2. ASSUME NEW i \in Nat, i \in T PROVE i + 1 \in T
        <4> SUFFICES ASSUME i + 1 \in 1..n PROVE f[i + 1] = sum[i + 1]
          OBVIOUS
        <4>1. f[i + 1] = IF i + 1 = 1 THEN seqs[i + 1] ELSE f[(i + 1) - 1] \o seqs[i + 1]
          BY <2>2
        <4>2. sum[i + 1] = sum[(i + 1) - 1] \o seqs[i + 1] /\ sum[0] = <<>> /\ seqs[i + 1] \in Seq(S)
          BY <1>1, <1>5
        <4>3. (i + 1) - 1 = i
          OBVIOUS
        <4>4. CASE i = 0
          <5>1. i + 1 = 1 /\ (i + 1) - 1 = 0
            BY <4>4
          <5>2. f[i + 1] = seqs[i + 1] /\ sum[i + 1] = <<>> \o seqs[i + 1]
            BY <4>1, <4>2, <5>1
          <5> QED  BY <4>2, <5>2, ConcatEmptySeq
        <4>5. CASE i # 0
          <5>1. i \in 1..n /\ i + 1 # 1
            BY <1>1, <4>5
          <5>2. f[i] = sum[i]
            BY <3>2, <5>1
          <5>3. f[i + 1] = f[i] \o seqs[i + 1] /\ sum[i + 1] = sum[i] \o seqs[i + 1]
            BY <4>1, <4>2, <4>3, <5>1
          <5> QED  BY <5>2, <5>3
        <4> QED  BY <4>4, <4>5
      <3>3. Nat \subseteq T
        <4> HIDE DEF T
        <4> QED  BY <3>1, <3>2, Induction
      <3> QED  BY <3>3
    <2>5. FlattenSeq(seqs) = sum[n]
      BY <1>1, <1>7, <2>3, <2>4
    <2> QED  BY <1>5, <2>5 DEF IsSum
  <1> QED  BY <1>6, <1>7

LEMMA SumsAgree ==
    ASSUME NEW seqs, Len(seqs) \in Nat, NEW f, NEW g, IsSum(f, seqs), IsSum(g, seqs)
    PROVE  \A p \in 0..Len(seqs) : f[p] = g[p]
  <1> USE DEF IsSum
  <1> DEFINE n == Len(seqs)
             T == {i \in Nat : i \in 0..n => f[i] = g[i]}
  <1>1. 0 \in T
    OBVIOUS
  <1>2. ASSUME NEW i \in Nat, i \in T PROVE i + 1 \in T
    <2> SUFFICES ASSUME i + 1 \in 0..n PROVE f[i + 1] = g[i + 1]
      OBVIOUS
    <2>1. i \in 0..n /\ i + 1 \in 1..n /\ (i + 1) - 1 = i
      OBVIOUS
    <2>2. f[i + 1] = f[(i + 1) - 1] \o seqs[i + 1] /\ g[i + 1] = g[(i + 1) - 1] \o seqs[i + 1]
      BY <2>1
    <2> QED  BY <1>2, <2>1, <2>2
  <1>3. Nat \subseteq T
    <2> HIDE DEF T
    <2> QED  BY <1>1, <1>2, Induction
  <1> QED  BY <1>3

LEMMA SumIsFlat ==
    ASSUME NEW S, NEW seqs \in Seq(Seq(S)), NEW sum, IsSum(sum, seqs)
    PROVE  FlattenSeq(seqs) = sum[Len(seqs)]
  <1>1. Len(seqs) \in Nat /\ Len(seqs) \in 0..Len(seqs)
    OBVIOUS
  <1>2. PICK f \in [0..Len(seqs) -> Seq(S)] : IsSum(f, seqs) /\ FlattenSeq(seqs) = f[Len(seqs)]
    BY FlattenSums
  <1>3. \A p \in 0..Len(seqs) : f[p] = sum[p]
    BY <1>1, <1>2, SumsAgree
  <1> QED  BY <1>1, <1>2, <1>3

LEMMA FlattenIsSeq ==
    ASSUME NEW S, NEW seqs \in Seq(Seq(S)) PROVE FlattenSeq(seqs) \in Seq(S)
  <1>1. Len(seqs) \in 0..Len(seqs)
    OBVIOUS
  <1> QED  BY <1>1, FlattenSums

LEMMA FlattenNone == FlattenSeq(<<>>) = <<>>
  BY DEF FlattenSeq

OneOrder(S) == \A u, v, w \in Seq(S) : u \o (v \o w) = (u \o v) \o w

LEMMA InEitherOrder == ASSUME NEW S PROVE OneOrder(S)
  <1> SUFFICES ASSUME NEW u \in Seq(S), NEW v \in Seq(S), NEW w \in Seq(S)
               PROVE  u \o (v \o w) = (u \o v) \o w
    BY DEF OneOrder
  <1>1. (u \o v) \o w = u \o (v \o w)
    BY ConcatAssociative
  <1> QED  BY <1>1

LEMMA FlattenConcat ==
    ASSUME NEW S, NEW r \in Seq(Seq(S)), NEW s \in Seq(Seq(S))
    PROVE  FlattenSeq(r \o s) = FlattenSeq(r) \o FlattenSeq(s)
  <1> DEFINE m == Len(r)
             n == Len(s)
  <1>0. \A u, v, w \in Seq(S) : u \o (v \o w) = (u \o v) \o w
    <2>1. OneOrder(S)
      BY InEitherOrder
    <2> QED  BY <2>1 DEF OneOrder
  <1>1. m \in Nat /\ n \in Nat
    OBVIOUS
  <1>2. PICK f \in [0..m -> Seq(S)] : IsSum(f, r) /\ FlattenSeq(r) = f[m]
    BY FlattenSums
  <1>3. PICK g \in [0..n -> Seq(S)] : IsSum(g, s) /\ FlattenSeq(s) = g[n]
    BY FlattenSums
  <1> DEFINE h == [p \in 0..(m + n) |-> IF p <= m THEN f[p] ELSE f[m] \o g[p - m]]
             rs == r \o s
  <1>4. rs \in Seq(Seq(S)) /\ Len(rs) = m + n
    OBVIOUS
  <1>5. IsSum(h, rs)
    <2>1. h[0] = <<>>
      BY <1>1, <1>2 DEF IsSum
    <2>2. ASSUME NEW p \in 1..(m + n) PROVE h[p] = h[p - 1] \o rs[p]
      <3>1. CASE p <= m
        <4>1. p \in 1..m /\ rs[p] = r[p] /\ h[p] = f[p] /\ h[p - 1] = f[p - 1]
          BY <1>1, <3>1
        <4> QED  BY <1>2, <4>1 DEF IsSum
      <3>2. CASE p = m + 1
        <4>1. 1 \in 1..n /\ rs[p] = s[1] /\ h[p] = f[m] \o g[1] /\ h[p - 1] = f[m] /\ s[1] \in Seq(S)
          BY <1>1, <3>2
        <4>2. g[1] = <<>> \o s[1]
          <5>1. n \in Nat /\ 0 < n /\ IsSum(g, s)
            BY <1>1, <1>3, <4>1
          <5> QED  BY <5>1, FirstSum
        <4>3. g[1] = s[1]
          BY <4>1, <4>2
        <4> QED  BY <4>1, <4>3
      <3>3. CASE p > m + 1
        <4>1. p - m \in 1..n /\ (p - m) - 1 \in 0..n /\ (p - 1) - m = (p - m) - 1
          BY <1>1, <3>3
        <4>2. rs[p] = s[p - m]
          BY <1>1, <3>3, <4>1
        <4>3. h[p] = f[m] \o g[p - m]
          BY <1>1, <3>3
        <4>4. h[p - 1] = f[m] \o g[(p - m) - 1]
          <5>1. p - 1 \in 0..(m + n) /\ ~(p - 1 <= m)
            BY <1>1, <3>3
          <5>2. h[p - 1] = f[m] \o g[(p - 1) - m]
            BY <5>1
          <5> QED  BY <4>1, <5>2
        <4>5. g[p - m] = g[(p - m) - 1] \o s[p - m]
          BY <1>3, <4>1 DEF IsSum
        <4>6. f[m] \in Seq(S) /\ s[p - m] \in Seq(S)
          <5> DEFINE q == p - m
          <5>1. q \in 1..n /\ m \in 0..m
            BY <1>1, <4>1
          <5> HIDE DEF q
          <5>2. s[q] \in Seq(S)
            BY <5>1
          <5>3. f[m] \in Seq(S)
            <6> HIDE DEF m
            <6> QED  BY <5>1
          <5> QED  BY <5>2, <5>3 DEF q
        <4>7. g[(p - m) - 1] \in Seq(S)
          <5> DEFINE q == (p - m) - 1
          <5>1. q \in 0..n
            BY <4>1
          <5> HIDE DEF q
          <5>2. g[q] \in Seq(S)
            BY <5>1
          <5> QED  BY <5>2 DEF q
        <4>8. f[m] \o (g[(p - m) - 1] \o s[p - m]) = (f[m] \o g[(p - m) - 1]) \o s[p - m]
          BY <1>0, <4>6, <4>7
        <4> DEFINE before == h[p - 1]
                   now == h[p]
                   there == rs[p]
        <4>9. now = f[m] \o (g[(p - m) - 1] \o s[p - m])
          <5> HIDE DEF h
          <5> QED  BY <4>3, <4>5
        <4>10. before \o there = (f[m] \o g[(p - m) - 1]) \o s[p - m]
          <5> HIDE DEF h, rs
          <5> QED  BY <4>2, <4>4
        <4>11. now = before \o there
          <5> HIDE DEF before, now, there
          <5> QED  BY <4>8, <4>9, <4>10
        <4> QED  BY <4>11
      <3>4. p <= m \/ p = m + 1 \/ p > m + 1
        BY <1>1
      <3> HIDE DEF h, rs
      <3> QED  BY <3>1, <3>2, <3>3, <3>4
    <2> HIDE DEF h, rs
    <2> QED  BY <1>4, <2>1, <2>2 DEF IsSum
  <1>6. FlattenSeq(rs) = h[m + n]
    <2> HIDE DEF h, rs
    <2> QED  BY <1>4, <1>5, SumIsFlat
  <1>7. h[m + n] = f[m] \o g[n]
    <2>1. CASE n = 0
      <3>1. g[n] = <<>> /\ f[m] \in Seq(S)
        BY <1>1, <1>3, <2>1 DEF IsSum
      <3> QED  BY <1>1, <2>1, <3>1
    <2>2. CASE n # 0
      BY <1>1, <2>2
    <2> QED  BY <2>1, <2>2
  <1> QED  BY <1>2, <1>3, <1>6, <1>7

LEMMA FlattenOne ==
    ASSUME NEW S, NEW seqs \in Seq(Seq(S)), Len(seqs) = 1 PROVE FlattenSeq(seqs) = seqs[1]
  <1>1. \A p \in 1..Len(seqs) : seqs[p] \in Seq(S)
    OBVIOUS
  <1>2. seqs[1] \in Seq(S)
    BY <1>1
  <1>3. PICK sum \in [0..1 -> Seq(S)] : IsSum(sum, seqs) /\ FlattenSeq(seqs) = sum[1]
    BY FlattenSums
  <1>4. sum[1] = <<>> \o seqs[1]
    BY <1>3, FirstSum
  <1> QED  BY <1>2, <1>3, <1>4, ConcatEmptySeq

LEMMA FlattenAppend ==
    ASSUME NEW S, NEW r \in Seq(Seq(S)), NEW s \in Seq(S)
    PROVE  FlattenSeq(Append(r, s)) = FlattenSeq(r) \o s
  <1> DEFINE one == <<s>>
  <1>1. Append(r, s) = r \o one /\ one \in Seq(Seq(S)) /\ Len(one) = 1 /\ one[1] = s
    OBVIOUS
  <1> HIDE DEF one
  <1>2. FlattenSeq(r \o one) = FlattenSeq(r) \o FlattenSeq(one)
    BY <1>1, FlattenConcat
  <1>3. FlattenSeq(one) = s
    BY <1>1, FlattenOne
  <1> QED  BY <1>1, <1>2, <1>3

\* Putting together what has been put together of sequences.
Flats(seqss) == [i \in 1..Len(seqss) |-> FlattenSeq(seqss[i])]

LEMMA FlattenFlatten ==
    ASSUME NEW S, NEW seqss \in Seq(Seq(Seq(S)))
    PROVE  Flats(seqss) \in Seq(Seq(S)) /\ FlattenSeq(FlattenSeq(seqss)) = FlattenSeq(Flats(seqss))
  <1> DEFINE n == Len(seqss)
  <1>1. n \in Nat /\ \A p \in 1..n : seqss[p] \in Seq(Seq(S))
    OBVIOUS
  <1>2. \A p \in 1..n : FlattenSeq(seqss[p]) \in Seq(S)
    <2> SUFFICES ASSUME NEW p \in 1..n PROVE FlattenSeq(seqss[p]) \in Seq(S)
      OBVIOUS
    <2> DEFINE s == seqss[p]
    <2>1. s \in Seq(Seq(S))
      BY <1>1
    <2> HIDE DEF s
    <2>2. FlattenSeq(s) \in Seq(S)
      BY <2>1, FlattenIsSeq
    <2> QED  BY <2>2 DEF s
  <1> DEFINE flat == Flats(seqss)
  <1>3. flat \in Seq(Seq(S)) /\ Len(flat) = n
    <2>1. flat \in [1..n -> Seq(S)]
      BY <1>2 DEF Flats
    <2> HIDE DEF flat
    <2> QED  BY <1>1, <2>1, FunctionIsSeq
  <1>4. PICK A \in [0..n -> Seq(Seq(S))] : IsSum(A, seqss) /\ FlattenSeq(seqss) = A[n]
    BY FlattenSums
  <1> DEFINE h == [p \in 0..n |-> FlattenSeq(A[p])]
  <1>5. h[0] = <<>>
    BY <1>1, <1>4, FlattenNone DEF IsSum
  <1>6. ASSUME NEW p \in 1..n PROVE h[p] = h[p - 1] \o flat[p]
    <2> DEFINE a == A[p - 1]
               s == seqss[p]
    <2>1. p - 1 \in 0..n /\ p \in 0..n
      BY <1>1
    <2>2. a \in Seq(Seq(S)) /\ s \in Seq(Seq(S))
      BY <1>1, <2>1
    <2>3. A[p] = a \o s
      BY <1>4 DEF IsSum
    <2>4. h[p] = FlattenSeq(A[p]) /\ h[p - 1] = FlattenSeq(a) /\ flat[p] = FlattenSeq(s)
      BY <2>1 DEF Flats
    <2> HIDE DEF a, s, h, flat
    <2>5. FlattenSeq(a \o s) = FlattenSeq(a) \o FlattenSeq(s)
      BY <2>2, FlattenConcat
    <2> QED  BY <2>3, <2>4, <2>5
  <1>7. h[n] = FlattenSeq(FlattenSeq(seqss))
    BY <1>1, <1>4
  <1> HIDE DEF h, flat
  <1>8. IsSum(h, flat)
    BY <1>3, <1>5, <1>6 DEF IsSum
  <1>9. FlattenSeq(flat) = h[Len(flat)]
    BY <1>3, <1>8, SumIsFlat
  <1> QED  BY <1>3, <1>7, <1>9 DEF flat
\* Sequences up to one of them, and from there on.
Splits(S, seqs, n) ==
    /\ SubSeq(seqs, 1, n) \in Seq(Seq(S)) /\ FlattenSeq(SubSeq(seqs, 1, n)) \in Seq(S)
    /\ SubSeq(seqs, n + 1, Len(seqs)) \in Seq(Seq(S)) /\ FlattenSeq(SubSeq(seqs, n + 1, Len(seqs))) \in Seq(S)
    /\ FlattenSeq(seqs) = FlattenSeq(SubSeq(seqs, 1, n)) \o FlattenSeq(SubSeq(seqs, n + 1, Len(seqs)))
    /\ n = 0 => FlattenSeq(SubSeq(seqs, 1, n)) = <<>>
    /\ n < Len(seqs) => FlattenSeq(SubSeq(seqs, 1, n + 1)) = FlattenSeq(SubSeq(seqs, 1, n)) \o seqs[n + 1]

LEMMA FlattenSplits ==
    ASSUME NEW S, NEW seqs \in Seq(Seq(S)), NEW n \in 0..Len(seqs)
    PROVE  Splits(S, seqs, n)
  <1> DEFINE V == Seq(S)
             a == SubSeq(seqs, 1, n)
             b == SubSeq(seqs, n + 1, Len(seqs))
  <1>1. Len(seqs) \in Nat /\ \A p \in 1..Len(seqs) : seqs[p] \in V
    OBVIOUS
  <1>2. a \in Seq(V) /\ b \in Seq(V) /\ a \o b = seqs
    <2>1. seqs \in Seq(V)
      OBVIOUS
    <2> HIDE DEF V
    <2>2. a \in Seq(V)
      BY <1>1, SubSeqProperties
    <2>3. b \in Seq(V)
      BY <1>1, SubSeqProperties
    <2>4. SubSeq(seqs, 1, n) \o SubSeq(seqs, n + 1, Len(seqs)) = SubSeq(seqs, 1, Len(seqs))
      <3>1. 1 \in 1..(Len(seqs) + 1) /\ n \in (1 - 1)..Len(seqs) /\ Len(seqs) \in n..Len(seqs)
        BY <1>1
      <3> QED  BY <2>1, <3>1, ConcatAdjacentSubSeq
    <2>5. SubSeq(seqs, 1, Len(seqs)) = seqs
      BY <2>1, SubSeqFull
    <2> QED  BY <2>2, <2>3, <2>4, <2>5
  <1>3. FlattenSeq(a) \in Seq(S) /\ FlattenSeq(b) \in Seq(S) /\ FlattenSeq(a \o b) = FlattenSeq(a) \o FlattenSeq(b)
    <2> HIDE DEF a, b
    <2> QED  BY <1>2, FlattenIsSeq, FlattenConcat
  <1>4. n = 0 => a = <<>>
    <2> SUFFICES ASSUME n = 0 PROVE SubSeq(seqs, 1, 0) = <<>>
      OBVIOUS
    <2> QED  BY SubSeqEmpty
  <1>5. ASSUME n < Len(seqs)
        PROVE  FlattenSeq(SubSeq(seqs, 1, n + 1)) = FlattenSeq(a) \o seqs[n + 1]
    <2> DEFINE e == seqs[n + 1]
    <2>1. e \in V
      BY <1>1, <1>5
    <2>2. SubSeq(seqs, 1, n + 1) = Append(a, e)
      <3>1. seqs \in Seq(V)
        OBVIOUS
      <3> HIDE DEF V
      <3>2. /\ SubSeq(seqs, 1, n + 1) \in Seq(V) /\ Len(SubSeq(seqs, 1, n + 1)) = n + 1
            /\ \A i \in 1..(n + 1) : SubSeq(seqs, 1, n + 1)[i] = seqs[i]
        BY <1>1, <1>5, SubSeqProperties
      <3>3. Len(a) = n /\ \A i \in 1..n : a[i] = seqs[i]
        BY <1>1, SubSeqProperties
      <3> HIDE DEF a, e
      <3>4. Append(a, e) \in Seq(V) /\ Len(Append(a, e)) = n + 1
        BY <1>2, <2>1, <3>3
      <3>5. \A i \in 1..(n + 1) : SubSeq(seqs, 1, n + 1)[i] = Append(a, e)[i]
        BY <1>2, <2>1, <3>2, <3>3 DEF e
      <3> QED  BY <3>2, <3>4, <3>5, SeqEqual
    <2> HIDE DEF a, e
    <2>3. FlattenSeq(Append(a, e)) = FlattenSeq(a) \o e
      BY <1>2, <2>1, FlattenAppend
    <2> QED  BY <2>2, <2>3 DEF e
  <1> QED  BY <1>2, <1>3, <1>4, <1>5, FlattenNone DEF Splits

---------------------------------------------------------------------------
(* Sequences that grow. *)

LEMMA SubSeqGrows ==
    ASSUME NEW S, NEW s \in Seq(S), NEW i \in Nat \ {0}, NEW p \in Nat, i <= p + 1, p + 1 <= Len(s)
    PROVE  /\ SubSeq(s, i, p + 1) = Append(SubSeq(s, i, p), s[p + 1])
           /\ SubSeq(s, i, p) \in Seq(S)
  <1>1. Len(s) \in Nat /\ \A j \in 1..Len(s) : s[j] \in S
    OBVIOUS
  <1> DEFINE a == SubSeq(s, i, p)
             b == SubSeq(s, i, p + 1)
             c == Append(a, s[p + 1])
  <1>2. a \in Seq(S) /\ Len(a) = p - i + 1 /\ \A j \in 1..(p - i + 1) : a[j] = s[i + j - 1]
    <2>1. \A j \in i..p : s[j] \in S
      BY <1>1
    <2> QED  BY <2>1, SubSeqProperties
  <1>3. b \in Seq(S) /\ Len(b) = p - i + 2 /\ \A j \in 1..(p - i + 2) : b[j] = s[i + j - 1]
    <2>1. \A j \in i..(p + 1) : s[j] \in S
      BY <1>1
    <2> QED  BY <2>1, SubSeqProperties
  <1> DEFINE m == p - i + 1
             e == s[p + 1]
  <1>7. m \in Nat /\ p - i + 2 = m + 1 /\ i + (m + 1) - 1 = p + 1 /\ e \in S
    BY <1>1
  <1> HIDE DEF a, b, m, e
  <1>8. a \in Seq(S) /\ Len(a) = m
    BY <1>2 DEF m
  <1>4. c \in Seq(S) /\ Len(c) = m + 1 /\ c[m + 1] = e /\ \A j \in 1..m : c[j] = a[j]
    BY <1>7, <1>8 DEF e
  <1>5. \A j \in 1..(m + 1) : c[j] = s[i + j - 1]
    <2>1. \A j \in 1..(m + 1) : j \in 1..m \/ j = m + 1
      BY <1>7
    <2>2. \A j \in 1..m : a[j] = s[i + j - 1]
      BY <1>2 DEF m
    <2>3. c[m + 1] = s[i + (m + 1) - 1]
      BY <1>4, <1>7 DEF e
    <2> HIDE DEF c
    <2> QED  BY <1>4, <2>1, <2>2, <2>3
  <1> HIDE DEF c
  <1>6. b = c
    BY <1>3, <1>4, <1>5, <1>7, SeqEqual
  <1> QED  BY <1>2, <1>6 DEF a, b, c, e

LEMMA AppendToOne ==
    ASSUME NEW x, NEW y PROVE Append(<<x>>, y) = <<x, y>>
  <1> DEFINE S == {x, y}
             s == <<x>>
             t == Append(s, y)
             u == <<x, y>>
  <1>1. x \in S /\ y \in S
    OBVIOUS
  <1>2. s \in Seq(S) /\ Len(s) = 1 /\ s[1] = x
    OBVIOUS
  <1>3. u \in Seq(S) /\ Len(u) = 2 /\ u[1] = x /\ u[2] = y
    OBVIOUS
  <1> HIDE DEF S, s, u
  <1>4. t \in Seq(S) /\ Len(t) = Len(s) + 1 /\ t[Len(s) + 1] = y /\ \A i \in 1..Len(s) : t[i] = s[i]
    <2>1. ASSUME NEW z \in Seq(S), NEW e \in S
          PROVE  LET a == Append(z, e)
                 IN a \in Seq(S) /\ Len(a) = Len(z) + 1 /\ a[Len(z) + 1] = e /\ \A i \in 1..Len(z) : a[i] = z[i]
      BY AppendProperties
    <2> QED  BY <1>1, <1>2, <2>1
  <1> HIDE DEF t
  <1>5. \A j \in 1..2 : j = 1 \/ j = 2
    OBVIOUS
  <1>6. t[1] = x /\ t[2] = y /\ Len(t) = 2
    <2>1. 1 \in 1..Len(s)
      BY <1>2
    <2> QED  BY <1>2, <1>4, <2>1
  <1>7. t = u
    <2>1. \A j \in 1..2 : t[j] = u[j]
      BY <1>3, <1>5, <1>6
    <2> QED  BY <1>3, <1>4, <1>6, <2>1, SeqEqual
  <1> QED  BY <1>7 DEF t, u, s

LEMMA FrontAndLast ==
    ASSUME NEW S, NEW s \in Seq(S), s # <<>>
    PROVE  Front(s) \in Seq(S) /\ Last(s) \in S /\ s = Append(Front(s), Last(s))
  <1> DEFINE n == Len(s)
             m == n - 1
             a == SubSeq(s, 1, m)
  <1>1. n \in Nat \ {0} /\ m \in Nat /\ m + 1 = n /\ s[n] \in S
    OBVIOUS
  <1>2. SubSeq(s, 1, m + 1) = Append(a, s[m + 1]) /\ a \in Seq(S)
    <2> HIDE DEF m
    <2> QED  BY <1>1, SubSeqGrows
  <1>3. SubSeq(s, 1, n) = s
    BY SubSeqFull
  <1>4. s = Append(a, s[n])
    <2> HIDE DEF a, m
    <2> QED  BY <1>1, <1>2, <1>3
  <1>5. Front(s) = a /\ Last(s) = s[n]
    BY DEF Front, Last
  <1> HIDE DEF a, n
  <1> QED  BY <1>1, <1>2, <1>4, <1>5

=============================================================================
