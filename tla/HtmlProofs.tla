------------------------------ MODULE HtmlProofs ------------------------------
(***************************************************************************)
(* Whatever markup a text has, what the sanitizer makes of it can be       *)
(* parsed.                                                                 *)
(***************************************************************************)
EXTENDS TelegramHtml, FiniteSetTheorems, SequenceTheorems, WellFoundedInduction, TLAPS

-----------------------------------------------------------------------------
(* Sequences of sequences. *)

Sequence(s) == \E S : s \in Seq(S)
Sequences(s) == Sequence(s) /\ \A i \in DOMAIN s : Sequence(s[i])

LEMMA IsSequence ==
  ASSUME NEW s, Sequence(s)
  PROVE  Len(s) \in Nat /\ DOMAIN s = 1..Len(s) /\ s = [i \in 1..Len(s) |-> s[i]]
<1>1. PICK S : s \in Seq(S)
  BY DEF Sequence
<1> QED
  BY <1>1

LEMMA Enumerated ==
  ASSUME NEW n \in Nat, NEW s, s = [i \in 1..n |-> s[i]]
  PROVE  Sequence(s) /\ Len(s) = n
<1>1. s \in Seq({s[i] : i \in 1..n})
  <2>1. s \in [1..n -> {s[i] : i \in 1..n}]
    OBVIOUS
  <2> QED
    BY <2>1
<1>2. Len(s) = n
  BY <1>1
<1> QED
  BY <1>1, <1>2 DEF Sequence

LEMMA InSeq ==
  ASSUME NEW s, Sequence(s), NEW S, \A i \in DOMAIN s : s[i] \in S
  PROVE  s \in Seq(S)
<1>1. s \in [1..Len(s) -> S] /\ Len(s) \in Nat
  BY IsSequence
<1> QED
  BY <1>1

LEMMA Singleton ==
  ASSUME NEW x
  PROVE  Sequence(<<x>>) /\ Len(<<x>>) = 1 /\ <<x>>[1] = x
<1>1. <<x>> \in Seq({x})
  OBVIOUS
<1> QED
  BY <1>1 DEF Sequence

LEMMA NoElement == Sequence(<<>>) /\ Len(<<>>) = 0 /\ DOMAIN <<>> = {}
<1>1. <<>> \in Seq({})
  OBVIOUS
<1> QED
  BY <1>1 DEF Sequence

\* What is in the one is in the other.
LEMMA Concatenation ==
  ASSUME NEW s, Sequence(s), NEW t, Sequence(t)
  PROVE  /\ Sequence(s \o t) /\ Len(s \o t) = Len(s) + Len(t)
         /\ ToSet(s \o t) = ToSet(s) \cup ToSet(t)
<1> DEFINE S == ToSet(s) \cup ToSet(t)
           w == s \o t
<1>1. s \in Seq(S) /\ t \in Seq(S)
  BY InSeq DEF ToSet
<1>2. /\ w \in Seq(S) /\ Len(w) = Len(s) + Len(t) /\ Len(s) \in Nat /\ Len(t) \in Nat
      /\ \A i \in 1..(Len(s) + Len(t)) : w[i] = IF i <= Len(s) THEN s[i] ELSE t[i - Len(s)]
  BY <1>1, ConcatProperties, LenProperties
<1>3. DOMAIN w = 1..(Len(s) + Len(t)) /\ DOMAIN s = 1..Len(s) /\ DOMAIN t = 1..Len(t)
  BY <1>2, IsSequence
<1> HIDE DEF w
<1>4. ToSet(w) \subseteq S
  <2>1. ASSUME NEW i \in DOMAIN w PROVE w[i] \in S
    <3>1. CASE i <= Len(s)
      <4>1. i \in DOMAIN s /\ w[i] = s[i]
        BY <1>2, <1>3, <3>1
      <4> QED
        BY <4>1 DEF ToSet
    <3>2. CASE ~(i <= Len(s))
      <4>1. i - Len(s) \in DOMAIN t /\ w[i] = t[i - Len(s)]
        BY <1>2, <1>3, <3>2
      <4> QED
        BY <4>1 DEF ToSet
    <3> QED
      BY <3>1, <3>2
  <2> QED
    BY <2>1 DEF ToSet
<1>5. ToSet(s) \subseteq ToSet(w)
  <2>1. ASSUME NEW i \in DOMAIN s PROVE i \in DOMAIN w /\ w[i] = s[i]
    BY <1>2, <1>3, <2>1
  <2> QED
    BY <2>1 DEF ToSet
<1>6. ToSet(t) \subseteq ToSet(w)
  <2>1. ASSUME NEW i \in DOMAIN t PROVE Len(s) + i \in DOMAIN w /\ w[Len(s) + i] = t[i]
    <3>1. Len(s) + i \in DOMAIN w /\ ~(Len(s) + i <= Len(s)) /\ (Len(s) + i) - Len(s) = i
      BY <1>2, <1>3, <2>1
    <3> QED
      BY <1>2, <1>3, <3>1
  <2> QED
    BY <2>1 DEF ToSet
<1> QED
  BY <1>2, <1>4, <1>5, <1>6 DEF w, Sequence

\* The least number of a set.
LEMMA Least ==
  ASSUME NEW S, S \subseteq Nat, S # {}
  PROVE  \E m \in S : \A k \in S : m <= k
<1> DEFINE R == OpToRel(<, Nat)
<1>1. R = {pair \in Nat \X Nat : pair[1] < pair[2]}
  BY DEF OpToRel
<1>2. IsWellFoundedOn(R, Nat)
  BY NatLessThanWellFounded, Zenon
<1> HIDE DEF R
<1>3. PICK m \in S : \A k \in S : <<k, m>> \notin R
  BY <1>2, WFMin
<1>4. ASSUME NEW k \in S PROVE m <= k
  <2> SUFFICES ASSUME k < m PROVE FALSE
    OBVIOUS
  <2>1. <<k, m>> \in R
    BY <1>1
  <2> QED
    BY <1>3, <2>1
<1> QED
  BY <1>4

\* What FlattenSeq computes, up to the n-th sequence.
Flattens(f, s, n) == f = [i \in 1..n |-> IF i = 1 THEN s[i] ELSE f[i - 1] \o s[i]]

LEMMA FlattenExists ==
  ASSUME NEW s, Sequence(s), NEW n \in 0..Len(s)
  PROVE  \E f : Flattens(f, s, n)
<1> DEFINE Bad == {k \in 0..n : ~\E f : Flattens(f, s, k)}
<1>1. Len(s) \in Nat
  BY IsSequence
<1>2. SUFFICES ASSUME Bad # {} PROVE FALSE
  <2>1. n \in 0..n
    BY <1>1
  <2> QED
    BY <2>1
<1>3. PICK m \in Bad : \A k \in Bad : m <= k
  <2>1. Bad \subseteq Nat
    BY <1>1
  <2> HIDE DEF Bad
  <2> QED
    BY <1>2, <2>1, Least
<1>4. m # 0
  <2>1. Flattens([i \in 1..0 |-> 0], s, 0)
    BY DEF Flattens
  <2> QED
    BY <2>1
<1>5. PICK g : Flattens(g, s, m - 1)
  <2>1. m - 1 \in 0..n /\ ~(m <= m - 1)
    BY <1>1, <1>4
  <2>2. m - 1 \notin Bad
    BY <1>3, <2>1
  <2> QED
    BY <2>1, <2>2
<1> DEFINE h == [i \in 1..m |-> IF i = 1 THEN s[i] ELSE g[i - 1] \o s[i]]
<1>6. ASSUME NEW i \in 1..(m - 1) PROVE h[i] = g[i]
  <2>1. g[i] = IF i = 1 THEN s[i] ELSE g[i - 1] \o s[i]
    BY <1>5 DEF Flattens
  <2>2. i \in 1..m
    BY <1>1, <1>4
  <2> QED
    BY <2>1, <2>2
<1>7. ASSUME NEW i \in 1..m PROVE h[i] = IF i = 1 THEN s[i] ELSE h[i - 1] \o s[i]
  <2>1. CASE i = 1
    BY <2>1
  <2>2. CASE i # 1
    <3>1. i - 1 \in 1..(m - 1)
      BY <1>1, <2>2
    <3>2. h[i - 1] = g[i - 1]
      BY <1>6, <3>1
    <3>3. h[i] = g[i - 1] \o s[i]
      BY <2>2
    <3> HIDE DEF h
    <3> QED
      BY <2>2, <3>2, <3>3
  <2> QED
    BY <2>1, <2>2
<1>8. Flattens(h, s, m)
  <2>1. h = [i \in 1..m |-> h[i]]
    OBVIOUS
  <2> HIDE DEF h
  <2> QED
    BY <1>7, <2>1, Zenon DEF Flattens
<1> QED
  BY <1>8

LEMMA FlattensAll ==
  ASSUME NEW s, Sequences(s), NEW f, Flattens(f, s, Len(s)), NEW n \in 1..Len(s)
  PROVE  Sequence(f[n]) /\ ToSet(f[n]) = UNION {ToSet(s[i]) : i \in 1..n}
<1> DEFINE Good(k) == Sequence(f[k]) /\ ToSet(f[k]) = UNION {ToSet(s[i]) : i \in 1..k}
           Bad == {k \in 1..Len(s) : ~Good(k)}
<1>1. Len(s) \in Nat /\ DOMAIN s = 1..Len(s)
  BY IsSequence DEF Sequences
<1>2. SUFFICES ASSUME Bad # {} PROVE FALSE
  OBVIOUS
<1>3. PICK m \in Bad : \A k \in Bad : m <= k
  <2>1. Bad \subseteq Nat
    BY <1>1
  <2> HIDE DEF Bad
  <2> QED
    BY <1>2, <2>1, Least
<1>4. f[m] = IF m = 1 THEN s[m] ELSE f[m - 1] \o s[m]
  BY <1>3 DEF Flattens
<1>5. Sequence(s[m])
  BY <1>1, <1>3 DEF Sequences
<1>6. CASE m = 1
  <2>1. UNION {ToSet(s[i]) : i \in 1..1} = ToSet(s[1])
    OBVIOUS
  <2> QED
    BY <1>3, <1>4, <1>5, <1>6, <2>1
<1>7. CASE m # 1
  <2>1. m - 1 \in 1..Len(s) /\ ~(m <= m - 1)
    BY <1>1, <1>3, <1>7
  <2>2. Good(m - 1)
    <3>1. m - 1 \notin Bad
      BY <1>3, <2>1
    <3> QED
      BY <2>1, <3>1
  <2>3. f[m] = f[m - 1] \o s[m]
    BY <1>4, <1>7
  <2>4. Sequence(f[m]) /\ ToSet(f[m]) = ToSet(f[m - 1]) \cup ToSet(s[m])
    BY <1>5, <2>2, <2>3, Concatenation
  <2>5. 1..m = (1..(m - 1)) \cup {m}
    BY <1>1, <2>1
  <2>6. UNION {ToSet(s[i]) : i \in 1..m} = (UNION {ToSet(s[i]) : i \in 1..(m - 1)}) \cup ToSet(s[m])
    BY ONLY <2>5
  <2> QED
    BY <1>3, <2>2, <2>4, <2>6
<1> QED
  BY <1>6, <1>7

LEMMA Flattened ==
  ASSUME NEW s, Sequences(s)
  PROVE  Sequence(FlattenSeq(s)) /\ ToSet(FlattenSeq(s)) = UNION {ToSet(s[i]) : i \in DOMAIN s}
<1>1. Len(s) \in Nat /\ DOMAIN s = 1..Len(s)
  BY IsSequence DEF Sequences
<1>2. CASE Len(s) = 0
  BY <1>1, <1>2 DEF FlattenSeq, Sequences, ToSet
<1>3. CASE Len(s) # 0
  <2> DEFINE f == CHOOSE f : f = [i \in 1..Len(s) |-> IF i = 1 THEN s[i] ELSE f[i - 1] \o s[i]]
  <2>1. FlattenSeq(s) = f[Len(s)]
    BY <1>3, Zenon DEF FlattenSeq
  <2>2. \E g : Flattens(g, s, Len(s))
    <3>1. Len(s) \in 0..Len(s)
      BY <1>1
    <3> QED
      BY <3>1, FlattenExists DEF Sequences
  <2>3. Flattens(f, s, Len(s))
    BY <2>2, Zenon DEF Flattens
  <2>4. Len(s) \in 1..Len(s)
    BY <1>1, <1>3
  <2> HIDE DEF f
  <2>5. Sequence(f[Len(s)]) /\ ToSet(f[Len(s)]) = UNION {ToSet(s[i]) : i \in 1..Len(s)}
    BY <2>3, <2>4, FlattensAll
  <2> QED
    BY <1>1, <2>1, <2>5
<1> QED
  BY <1>2, <1>3

-----------------------------------------------------------------------------
(* Functions that go through a sequence, one element after the other.        *)

\* The tags of a stack that have been emitted.
Emit(p, tag) == IF tag = Nothing THEN p ELSE Append(p, tag)

Step(kind, p, x) ==
  CASE kind = "feed" -> Handle(p, x)
    [] kind = "strip" -> Strip(p, x)
    [] kind = "nest" -> Nest(p, x)
    [] kind = "emit" -> Emit(p, x)

Folds(f, kind, z, s, n) == f = [i \in 0..n |-> IF i = 0 THEN z ELSE Step(kind, f[i - 1], s[i])]
Result(kind, z, s) == CHOOSE v : \E f : Folds(f, kind, z, s, Len(s)) /\ v = f[Len(s)]

LEMMA FoldExists ==
  ASSUME NEW kind, NEW z, NEW s, NEW n \in Nat
  PROVE  \E f : Folds(f, kind, z, s, n)
<1> DEFINE Bad == {k \in Nat : ~\E f : Folds(f, kind, z, s, k)}
<1>1. SUFFICES ASSUME Bad # {} PROVE FALSE
  OBVIOUS
<1>2. PICK m \in Bad : \A k \in Bad : m <= k
  <2>1. Bad \subseteq Nat
    OBVIOUS
  <2> HIDE DEF Bad
  <2> QED
    BY <1>1, <2>1, Least
<1>3. m # 0
  <2> DEFINE h == [i \in 0..0 |-> z]
  <2>1. h = [i \in 0..0 |-> IF i = 0 THEN z ELSE Step(kind, h[i - 1], s[i])]
    OBVIOUS
  <2>2. Folds(h, kind, z, s, 0)
    BY <2>1, Zenon DEF Folds
  <2> QED
    BY <2>2
<1>4. m - 1 \in Nat /\ ~(m <= m - 1)
  BY <1>2, <1>3
<1>5. PICK g : Folds(g, kind, z, s, m - 1)
  BY <1>2, <1>4
<1> DEFINE h == [i \in 0..m |-> IF i = 0 THEN z ELSE Step(kind, g[i - 1], s[i])]
<1>6. \A i \in 0..(m - 1) : h[i] = g[i]
  <2> TAKE i \in 0..(m - 1)
  <2>1. g[i] = IF i = 0 THEN z ELSE Step(kind, g[i - 1], s[i])
    BY <1>5 DEF Folds
  <2>2. i \in 0..m
    BY <1>4
  <2> QED
    BY <2>1, <2>2
<1>7. \A i \in 0..m : h[i] = IF i = 0 THEN z ELSE Step(kind, h[i - 1], s[i])
  <2> TAKE i \in 0..m
  <2>1. CASE i = 0
    BY <2>1
  <2>2. CASE i # 0
    <3>1. i - 1 \in 0..(m - 1) /\ i \in 0..m
      BY <1>4, <2>2
    <3>2. h[i - 1] = g[i - 1]
      BY <1>6, <3>1
    <3>3. h[i] = Step(kind, g[i - 1], s[i])
      BY <2>2
    <3> HIDE DEF h
    <3> QED
      BY <2>2, <3>2, <3>3
  <2> QED
    BY <2>1, <2>2
<1>8. Folds(h, kind, z, s, m)
  <2>1. h = [i \in 0..m |-> h[i]]
    OBVIOUS
  <2> HIDE DEF h
  <2> QED
    BY <1>7, <2>1, Zenon DEF Folds
<1> QED
  BY <1>2, <1>8

\* What it makes of a prefix.
LEMMA FoldsAgree ==
  ASSUME NEW kind, NEW z, NEW s, NEW t, NEW m \in Nat, NEW n \in Nat, m <= n, \A i \in 1..m : s[i] = t[i],
         NEW f, Folds(f, kind, z, s, m), NEW g, Folds(g, kind, z, t, n)
  PROVE  \A i \in 0..m : f[i] = g[i]
<1> DEFINE Bad == {k \in 0..m : f[k] # g[k]}
<1>1. SUFFICES ASSUME Bad # {} PROVE FALSE
  OBVIOUS
<1>2. PICK l \in Bad : \A k \in Bad : l <= k
  <2>1. Bad \subseteq Nat
    OBVIOUS
  <2> HIDE DEF Bad
  <2> QED
    BY <1>1, <2>1, Least
<1>3. l \in 0..m /\ l \in 0..n
  BY <1>2
<1>4. f[l] = IF l = 0 THEN z ELSE Step(kind, f[l - 1], s[l])
  BY <1>3 DEF Folds
<1>5. g[l] = IF l = 0 THEN z ELSE Step(kind, g[l - 1], t[l])
  BY <1>3 DEF Folds
<1>6. CASE l = 0
  BY <1>2, <1>4, <1>5, <1>6
<1>7. CASE l # 0
  <2>1. l - 1 \in 0..m /\ ~(l <= l - 1) /\ l \in 1..m
    BY <1>3, <1>7
  <2>2. f[l - 1] = g[l - 1] /\ s[l] = t[l]
    BY <1>2, <2>1
  <2> QED
    BY <1>2, <1>4, <1>5, <1>7, <2>2
<1> QED
  BY <1>6, <1>7

LEMMA FoldResult ==
  ASSUME NEW kind, NEW z, NEW s, Len(s) \in Nat, NEW f, Folds(f, kind, z, s, Len(s))
  PROVE  Result(kind, z, s) = f[Len(s)]
<1> DEFINE n == Len(s)
           v == Result(kind, z, s)
<1>1. \E g : Folds(g, kind, z, s, n) /\ v = g[n]
  BY Zenon DEF Result
<1> HIDE DEF v, n
<1>2. PICK g : Folds(g, kind, z, s, n) /\ v = g[n]
  BY <1>1
<1>3. n \in Nat /\ n <= n /\ n \in 0..n /\ Folds(f, kind, z, s, n)
  BY DEF n
<1>4. \A i \in 0..n : f[i] = g[i]
  BY <1>2, <1>3, FoldsAgree
<1> QED
  BY <1>2, <1>3, <1>4 DEF v, n

LEMMA FoldEmpty ==
  ASSUME NEW kind, NEW z
  PROVE  Result(kind, z, <<>>) = z
<1>1. PICK f : Folds(f, kind, z, <<>>, 0)
  BY FoldExists
<1>2. f[0] = z
  BY <1>1 DEF Folds
<1>3. Len(<<>>) = 0
  BY NoElement
<1> QED
  BY <1>1, <1>2, <1>3, FoldResult

LEMMA FoldAppend ==
  ASSUME NEW kind, NEW z, NEW S, NEW s \in Seq(S), NEW x \in S
  PROVE  Result(kind, z, Append(s, x)) = Step(kind, Result(kind, z, s), x)
<1> DEFINE n == Len(s)
           t == Append(s, x)
<1>1. n \in Nat /\ Len(t) = n + 1 /\ (\A i \in 1..n : s[i] = t[i]) /\ t[n + 1] = x
  BY AppendProperties, LenProperties
<1> HIDE DEF n, t
<1>2. PICK f : Folds(f, kind, z, s, n)
  BY <1>1, FoldExists
<1>3. PICK g : Folds(g, kind, z, t, n + 1)
  <2>1. n + 1 \in Nat
    BY <1>1
  <2> QED
    BY <2>1, FoldExists
<1>4. Result(kind, z, s) = f[n]
  BY <1>1, <1>2, FoldResult DEF n
<1>5. Result(kind, z, t) = g[n + 1]
  <2>1. Len(t) \in Nat
    BY <1>1
  <2> QED
    BY <1>1, <1>3, <2>1, FoldResult
<1>6. f[n] = g[n]
  <2>1. n + 1 \in Nat /\ n <= n + 1 /\ n \in 0..n
    BY <1>1
  <2> HIDE DEF t
  <2>2. \A i \in 1..n : s[i] = t[i]
    BY <1>1
  <2> DEFINE k == n + 1
  <2>3. n \in Nat /\ k \in Nat /\ n <= k /\ Folds(g, kind, z, t, k)
    BY <1>1, <1>3, <2>1
  <2> HIDE DEF k
  <2>4. \A i \in 0..n : f[i] = g[i]
    BY <1>2, <2>2, <2>3, FoldsAgree
  <2> QED
    BY <2>1, <2>4
<1>7. g[n + 1] = Step(kind, g[n], x)
  <2>1. n + 1 \in 0..(n + 1) /\ n + 1 # 0 /\ (n + 1) - 1 = n
    BY <1>1
  <2> QED
    BY <1>1, <1>3, <2>1 DEF Folds
<1> QED
  BY <1>4, <1>5, <1>6, <1>7 DEF t

\* What every step keeps, the whole keeps.
LEMMA FoldKeeps ==
  ASSUME NEW kind, NEW z, NEW S, NEW s \in Seq(S), NEW I, z \in I, \A p \in I, x \in S : Step(kind, p, x) \in I
  PROVE  Result(kind, z, s) \in I
<1> DEFINE n == Len(s)
<1>1. n \in Nat /\ \A i \in 1..n : s[i] \in S
  BY ElementOfSeq, LenProperties
<1>2. PICK f : Folds(f, kind, z, s, n)
  BY <1>1, FoldExists
<1>3. Result(kind, z, s) = f[n]
  BY <1>1, <1>2, FoldResult
<1> HIDE DEF n
<1> DEFINE Bad == {k \in 0..n : f[k] \notin I}
<1>4. SUFFICES ASSUME Bad # {} PROVE FALSE
  <2>1. n \in 0..n
    BY <1>1
  <2> QED
    BY <1>3, <2>1
<1>5. PICK l \in Bad : \A k \in Bad : l <= k
  <2>1. Bad \subseteq Nat
    BY <1>1
  <2> HIDE DEF Bad
  <2> QED
    BY <1>4, <2>1, Least
<1>6. f[l] = IF l = 0 THEN z ELSE Step(kind, f[l - 1], s[l])
  BY <1>2, <1>5 DEF Folds
<1>7. CASE l = 0
  BY <1>5, <1>6, <1>7
<1>8. CASE l # 0
  <2>1. l - 1 \in 0..n /\ ~(l <= l - 1) /\ l \in 1..n
    BY <1>1, <1>5, <1>8
  <2>2. f[l - 1] \in I /\ s[l] \in S
    BY <1>1, <1>5, <2>1
  <2> QED
    BY <1>5, <1>6, <1>8, <2>2
<1> QED
  BY <1>7, <1>8

\* What holds of every prefix holds of the whole.
LEMMA FoldReaches ==
  ASSUME NEW kind, NEW z, NEW S, NEW s \in Seq(S), NEW I, z \in I[0],
         \A n \in 1..Len(s) : \A p \in I[n - 1] : Step(kind, p, s[n]) \in I[n]
  PROVE  Result(kind, z, s) \in I[Len(s)]
<1> DEFINE n == Len(s)
<1>1. n \in Nat
  BY LenProperties
<1>2. PICK f : Folds(f, kind, z, s, n)
  BY <1>1, FoldExists
<1>3. Result(kind, z, s) = f[n]
  BY <1>1, <1>2, FoldResult
<1>4. \A k \in 1..n : \A p \in I[k - 1] : Step(kind, p, s[k]) \in I[k]
  OBVIOUS
<1> HIDE DEF n
<1> DEFINE Bad == {k \in 0..n : f[k] \notin I[k]}
<1>5. SUFFICES ASSUME Bad # {} PROVE FALSE
  <2>1. n \in 0..n
    BY <1>1
  <2> QED
    BY <1>3, <2>1 DEF n
<1>6. PICK l \in Bad : \A k \in Bad : l <= k
  <2>1. Bad \subseteq Nat
    BY <1>1
  <2> HIDE DEF Bad
  <2> QED
    BY <1>5, <2>1, Least
<1>7. f[l] = IF l = 0 THEN z ELSE Step(kind, f[l - 1], s[l])
  BY <1>2, <1>6 DEF Folds
<1>8. CASE l = 0
  BY <1>6, <1>7, <1>8
<1>9. CASE l # 0
  <2>1. l - 1 \in 0..n /\ ~(l <= l - 1) /\ l \in 1..n
    BY <1>1, <1>6, <1>9
  <2>2. f[l - 1] \in I[l - 1]
    BY <1>6, <2>1
  <2> QED
    BY <1>4, <1>6, <1>7, <1>9, <2>1, <2>2
<1> QED
  BY <1>8, <1>9

-----------------------------------------------------------------------------
(* The three of them that the sanitizer and Telegram go by. *)

Blank == [out |-> <<>>, stack |-> <<>>]
Emitted(stack) == Result("emit", <<>>, stack)

LEMMA FedIs ==
  ASSUME NEW text, Len(text) \in Nat
  PROVE  Fed(text) = Result("feed", Blank, text)
<1> DEFINE g == CHOOSE g : g = [n \in 0..Len(text) |-> IF n = 0 THEN Blank ELSE Handle(g[n - 1], text[n])]
<1>1. Fed(text) = g[Len(text)]
  BY Zenon DEF Fed, Blank
<1>2. \A p, x : Step("feed", p, x) = Handle(p, x)
  BY DEF Step
<1>3. PICK f : Folds(f, "feed", Blank, text, Len(text))
  BY FoldExists
<1>4. f = [n \in 0..Len(text) |-> IF n = 0 THEN Blank ELSE Handle(f[n - 1], text[n])]
  BY <1>2, <1>3, Zenon DEF Folds
<1>5. g = [n \in 0..Len(text) |-> IF n = 0 THEN Blank ELSE Handle(g[n - 1], text[n])]
  BY <1>4, Zenon
<1> HIDE DEF g
<1>6. Folds(g, "feed", Blank, text, Len(text))
  BY <1>2, <1>5, Zenon DEF Folds
<1> QED
  BY <1>1, <1>6, FoldResult

LEMMA StillOpenIs ==
  ASSUME NEW text, Len(text) \in Nat
  PROVE  StillOpen(text) = Result("nest", <<>>, text)
<1> DEFINE g == CHOOSE g : g = [n \in 0..Len(text) |-> IF n = 0 THEN <<>> ELSE Nest(g[n - 1], text[n])]
<1>1. StillOpen(text) = g[Len(text)]
  BY Zenon DEF StillOpen
<1>2. \A p, x : Step("nest", p, x) = Nest(p, x)
  BY DEF Step
<1>3. PICK f : Folds(f, "nest", <<>>, text, Len(text))
  BY FoldExists
<1>4. f = [n \in 0..Len(text) |-> IF n = 0 THEN <<>> ELSE Nest(f[n - 1], text[n])]
  BY <1>2, <1>3, Zenon DEF Folds
<1>5. g = [n \in 0..Len(text) |-> IF n = 0 THEN <<>> ELSE Nest(g[n - 1], text[n])]
  BY <1>4, Zenon
<1> HIDE DEF g
<1>6. Folds(g, "nest", <<>>, text, Len(text))
  BY <1>2, <1>5, Zenon DEF Folds
<1> QED
  BY <1>1, <1>6, FoldResult

LEMMA StripEmojiIs ==
  ASSUME NEW text, Len(text) \in Nat
  PROVE  StripEmoji(text) = Result("strip", [out |-> <<>>, inside |-> FALSE], text).out
<1> DEFINE z == [out |-> <<>>, inside |-> FALSE]
           g == CHOOSE g : g = [n \in 0..Len(text) |-> IF n = 0 THEN z ELSE Strip(g[n - 1], text[n])]
<1>1. StripEmoji(text) = g[Len(text)].out
  BY Zenon DEF StripEmoji
<1>2. \A p, x : Step("strip", p, x) = Strip(p, x)
  BY DEF Step
<1> HIDE DEF z
<1>3. PICK f : Folds(f, "strip", z, text, Len(text))
  BY FoldExists
<1>4. f = [n \in 0..Len(text) |-> IF n = 0 THEN z ELSE Strip(f[n - 1], text[n])]
  BY <1>2, <1>3, Zenon DEF Folds
<1>5. g = [n \in 0..Len(text) |-> IF n = 0 THEN z ELSE Strip(g[n - 1], text[n])]
  BY <1>4, Zenon
<1> HIDE DEF g
<1>6. Folds(g, "strip", z, text, Len(text))
  BY <1>2, <1>5, Zenon DEF Folds
<1>7. Result("strip", z, text) = g[Len(text)]
  BY <1>6, FoldResult
<1> QED
  BY <1>1, <1>7 DEF z

\* One more tag.
LEMMA OpenAfter ==
  ASSUME NEW S, NEW s \in Seq(S), NEW t \in S
  PROVE  StillOpen(Append(s, t)) = Nest(StillOpen(s), t)
<1> DEFINE w == Append(s, t)
<1>1. Len(s) \in Nat /\ Len(w) \in Nat
  BY LenProperties, AppendProperties
<1>2. Result("nest", <<>>, w) = Step("nest", Result("nest", <<>>, s), t)
  BY FoldAppend
<1> HIDE DEF w
<1>3. StillOpen(w) = Result("nest", <<>>, w) /\ StillOpen(s) = Result("nest", <<>>, s)
  BY <1>1, StillOpenIs
<1> QED
  BY <1>2, <1>3 DEF Step, w

LEMMA NothingOpen == StillOpen(<<>>) = <<>> /\ Emitted(<<>>) = <<>>
<1>1. Len(<<>>) \in Nat
  BY NoElement
<1> QED
  BY <1>1, StillOpenIs, FoldEmpty DEF Emitted

LEMMA EmittedAfter ==
  ASSUME NEW S, NEW s \in Seq(S), NEW tag \in S
  PROVE  Emitted(Append(s, tag)) = Emit(Emitted(s), tag)
BY FoldAppend DEF Emitted, Step

-----------------------------------------------------------------------------
(* The sanitizer. *)

Names == STRING \cup {Nothing}
Entries == Names \cup {Nothing}
Tag == {t \in [kind : {"open", "close", "char"}, tag : Names, valid : BOOLEAN] : t.kind = "char" <=> t.tag = Nothing}
Clean == {t \in Tag : t.kind = "open" => t.tag \in Allowed \/ (t.tag \in Attributed /\ t.valid)}

\* What has been written out leaves open what is on the stack.
States == {p \in [out : Seq(Clean), stack : Seq(Entries)] : StillOpen(p.out) = Emitted(p.stack)}

LEMMA NamesOK == Nothing \notin Allowed \cup Attributed /\ Texts = Seq(Tag)
<1>1. Nothing \notin Allowed \cup Attributed
  BY DEF Nothing, Allowed, Attributed
<1>2. Texts = Seq(Tag)
  BY Zenon DEF Texts, Tag, Names
<1> QED
  BY <1>1, <1>2

LEMMA EmittedTyped ==
  ASSUME NEW s \in Seq(Entries)
  PROVE  Emitted(s) \in Seq(Entries)
<1>1. <<>> \in Seq(Entries)
  OBVIOUS
<1>2. ASSUME NEW p \in Seq(Entries), NEW x \in Entries PROVE Step("emit", p, x) \in Seq(Entries)
  <2>1. Append(p, x) \in Seq(Entries)
    BY AppendProperties
  <2> QED
    BY <2>1 DEF Step, Emit
<1> DEFINE I == Seq(Entries)
<1>3. <<>> \in I /\ \A p \in I, x \in Entries : Step("emit", p, x) \in I
  BY <1>1, <1>2
<1> HIDE DEF I
<1>4. Result("emit", <<>>, s) \in I
  BY <1>3, FoldKeeps
<1> QED
  BY <1>4 DEF Emitted, I

\* The stack without its last entry.
LEMMA Shorter ==
  ASSUME NEW S, NEW s \in Seq(S), NEW n \in 1..Len(s)
  PROVE  /\ SubSeq(s, 1, n - 1) \in Seq(S) /\ s[n] \in S
         /\ SubSeq(s, 1, n) = Append(SubSeq(s, 1, n - 1), s[n])
<1>1. Len(s) \in Nat /\ s[n] \in S
  BY LenProperties, ElementOfSeq
<1>2. SubSeq(s, 1, n - 1) \in Seq(S)
  <2>1. n - 1 \in Int /\ \A i \in 1..(n - 1) : s[i] \in S
    <3>1. \A i \in 1..(n - 1) : i \in 1..Len(s)
      BY <1>1
    <3> QED
      BY <1>1, <3>1, ElementOfSeq
  <2> QED
    BY <2>1, SubSeqProperties
<1>3. SubSeq(s, 1, n) = SubSeq(s, 1, n - 1) \o <<s[n]>>
  <2>1. 1 \in 1..Len(s) /\ n \in 1..Len(s)
    BY <1>1
  <2> QED
    BY <2>1, SubSeqRecursiveSecond
<1> QED
  BY <1>1, <1>2, <1>3, AppendIsConcat

\* One tag is closed.
LEMMA ClosesOne ==
  ASSUME NEW out \in Seq(Clean), NEW stack \in Seq(Entries), NEW x \in Entries, StillOpen(out) = Emitted(Append(stack, x)),
         NEW c, c = IF x = Nothing THEN <<>> ELSE <<Close(x)>>
  PROVE  c \in Seq(Clean) /\ out \o c \in Seq(Clean) /\ StillOpen(out \o c) = Emitted(stack)
<1>1. StillOpen(out) = Emit(Emitted(stack), x)
  BY EmittedAfter
<1>2. CASE x = Nothing
  <2>1. c = <<>> /\ c \in Seq(Clean) /\ out \o c = out
    BY <1>2, ConcatEmptySeq
  <2> QED
    BY <1>1, <1>2, <2>1 DEF Emit
<1>3. CASE x # Nothing
  <2> DEFINE t == Close(x)
             e == Emitted(stack)
  <2>1. t \in Clean /\ t.kind = "close" /\ t.tag = x
    BY <1>3 DEF Close, Clean, Tag, Entries
  <2> HIDE DEF t
  <2>2. c = <<t>> /\ c \in Seq(Clean) /\ out \o c = Append(out, t)
    BY <1>3, <2>1, AppendIsConcat DEF t
  <2>3. e \in Seq(Entries)
    BY EmittedTyped
  <2>4. StillOpen(out) = Append(e, x)
    BY <1>1, <1>3 DEF Emit
  <2>5. StillOpen(Append(out, t)) = Nest(Append(e, x), t)
    BY <2>1, <2>4, OpenAfter
  <2> HIDE DEF e
  <2> DEFINE w == Append(e, x)
  <2>6. w \in Seq(Entries) /\ w # <<>> /\ Len(w) = Len(e) + 1 /\ Last(w) = x /\ Front(w) = SubSeq(w, 1, Len(e)) /\ Len(e) \in Nat
    BY <2>3, AppendProperties, LenProperties DEF Last, Front
  <2>7. SubSeq(w, 1, Len(e)) = e
    BY <2>3
  <2> HIDE DEF w
  <2>8. Nest(w, t) = e
    BY <2>1, <2>6, <2>7 DEF Nest
  <2>9. StillOpen(out \o c) = e
    BY <2>2, <2>5, <2>8 DEF w
  <2>10. out \o c \in Seq(Clean)
    BY <2>1, <2>2, AppendProperties
  <2> QED
    BY <2>2, <2>9, <2>10 DEF e
<1> QED
  BY <1>2, <1>3

\* Everything from the i-th entry on is closed.
LEMMA ClosesFrom ==
  ASSUME NEW p \in States, NEW i \in 1..(Len(p.stack) + 1)
  PROVE  CloseFrom(p, i) \in States /\ CloseFrom(p, i).stack = SubSeq(p.stack, 1, i - 1)
<1> DEFINE out == p.out
           stack == p.stack
           n == Len(stack)
           part == SubSeq(stack, i, n)
           inner == Reverse(part)
           m == Len(inner)
           closing == [k \in DOMAIN inner |-> IF inner[k] = Nothing THEN <<>> ELSE <<Close(inner[k])>>]
<1>1. out \in Seq(Clean) /\ stack \in Seq(Entries) /\ StillOpen(out) = Emitted(stack)
  BY DEF States
<1>2. n \in Nat /\ i \in 1..(n + 1)
  BY <1>1, LenProperties
<1>3. CloseFrom(p, i) = [out |-> out \o FlattenSeq(closing), stack |-> SubSeq(stack, 1, i - 1)]
  BY DEF CloseFrom
<1> HIDE DEF out, stack
<1>4. /\ part \in Seq(Entries) /\ Len(part) = n - i + 1 /\ \A k \in 1..(n - i + 1) : part[k] = stack[i + k - 1]
  <2>1. \A k \in i..n : stack[k] \in Entries
    <3>1. \A k \in i..n : k \in 1..Len(stack)
      BY <1>2
    <3> QED
      BY <1>1, <3>1, ElementOfSeq
  <2> QED
    BY <1>2, <2>1, SubSeqProperties
<1>5. inner = [k \in 1..(n - i + 1) |-> part[(n - i + 1) - k + 1]]
  BY <1>4 DEF Reverse
<1> HIDE DEF part, n, inner
<1>6. m = n - i + 1 /\ m \in Nat /\ DOMAIN inner = 1..m /\ \A k \in 1..m : inner[k] = stack[n - k + 1] /\ n - k + 1 \in 1..n
  <2>1. n - i + 1 \in Nat
    BY <1>2
  <2>2. inner \in [1..(n - i + 1) -> Entries]
    <3>1. \A k \in 1..(n - i + 1) : part[(n - i + 1) - k + 1] \in Entries
      <4>1. \A k \in 1..(n - i + 1) : (n - i + 1) - k + 1 \in 1..Len(part)
        BY <1>2, <1>4
      <4> QED
        BY <1>4, <4>1, ElementOfSeq
    <3> QED
      BY <1>5, <3>1
  <2>3. m = n - i + 1
    <3>1. inner \in Seq(Entries)
      BY <2>1, <2>2
    <3> QED
      BY <2>1, <2>2, <3>1
  <2>4. ASSUME NEW k \in 1..(n - i + 1) PROVE inner[k] = stack[n - k + 1] /\ n - k + 1 \in 1..n
    <3>1. (n - i + 1) - k + 1 \in 1..(n - i + 1) /\ i + ((n - i + 1) - k + 1) - 1 = n - k + 1 /\ n - k + 1 \in 1..n
      BY <1>2
    <3> QED
      BY <1>4, <1>5, <3>1
  <2> QED
    BY <2>1, <2>2, <2>3, <2>4
<1> HIDE DEF m
<1>7. /\ \A k \in 1..m : closing[k] = IF inner[k] = Nothing THEN <<>> ELSE <<Close(inner[k])>>
      /\ DOMAIN closing = 1..m
  BY <1>6
<1>8. closing = [k \in 1..m |-> closing[k]]
  BY <1>6
<1> HIDE DEF closing
<1>9. Sequence(closing) /\ Len(closing) = m
  BY <1>6, <1>8, Enumerated
<1>10. PICK f : Flattens(f, closing, m) /\ FlattenSeq(closing) = IF m = 0 THEN closing ELSE f[m]
  <2> DEFINE g == CHOOSE g : g = [j \in 1..Len(closing) |-> IF j = 1 THEN closing[j] ELSE g[j - 1] \o closing[j]]
  <2>1. FlattenSeq(closing) = IF Len(closing) = 0 THEN closing ELSE g[Len(closing)]
    BY Zenon DEF FlattenSeq
  <2>2. \E h : Flattens(h, closing, Len(closing))
    <3>1. Len(closing) \in 0..Len(closing)
      BY <1>6, <1>9
    <3> QED
      BY <1>9, <3>1, FlattenExists
  <2>3. Flattens(g, closing, Len(closing))
    BY <2>2, Zenon DEF Flattens
  <2> HIDE DEF g
  <2> QED
    BY <1>9, <2>1, <2>3
\* What has been closed after k entries.
<1> DEFINE upto(k) == IF k = 0 THEN <<>> ELSE f[k]
           Good(k) == upto(k) \in Seq(Clean) /\ StillOpen(out \o upto(k)) = Emitted(SubSeq(stack, 1, n - k))
           Bad == {k \in 0..m : ~Good(k)}
<1>11. FlattenSeq(closing) = upto(m)
  <2>1. m = 0 => closing = <<>>
    BY <1>8
  <2> QED
    BY <1>10, <2>1
<1>12. Good(0)
  <2>1. upto(0) = <<>> /\ n - 0 = n
    BY <1>2
  <2>2. out \o <<>> = out /\ SubSeq(stack, 1, n) = stack
    BY <1>1, ConcatEmptySeq, SubSeqFull DEF n
  <2>3. <<>> \in Seq(Clean)
    OBVIOUS
  <2> HIDE DEF upto
  <2> QED
    BY <1>1, <2>1, <2>2, <2>3
<1>13. ASSUME NEW k \in 1..m, Good(k - 1) PROVE Good(k)
  <2> DEFINE o == out \o upto(k - 1)
             st == SubSeq(stack, 1, n - k)
             x == stack[n - k + 1]
             c == closing[k]
  <2>1. o \in Seq(Clean)
    BY <1>1, <1>13, ConcatProperties
  <2>2. st \in Seq(Entries) /\ x \in Entries /\ SubSeq(stack, 1, n - (k - 1)) = Append(st, x)
    <3>1. n - k + 1 \in 1..Len(stack) /\ n - (k - 1) = n - k + 1 /\ (n - k + 1) - 1 = n - k
      BY <1>2, <1>6 DEF n
    <3> QED
      BY <1>1, <3>1, Shorter
  <2>3. StillOpen(o) = Emitted(Append(st, x))
    BY <1>13, <2>2
  <2>4. c = IF x = Nothing THEN <<>> ELSE <<Close(x)>>
    BY <1>6, <1>7
  <2>5. upto(k) = upto(k - 1) \o c
    <3>1. f[k] = IF k = 1 THEN closing[k] ELSE f[k - 1] \o closing[k]
      BY <1>10 DEF Flattens
    <3>2. k # 0 /\ (k - 1 = 0 <=> k = 1)
      BY <1>6
    <3>3. CASE k = 1
      <4>1. <<>> \o c = c
        <5> DEFINE y == Close(x)
        <5>1. c = <<>> \/ c = <<y>>
          BY <2>4
        <5> HIDE DEF y, c
        <5>2. <<>> \in Seq({y}) /\ <<y>> \in Seq({y})
          OBVIOUS
        <5>3. \A d \in Seq({y}) : <<>> \o d = d
          BY ConcatEmptySeq
        <5> QED
          BY <5>1, <5>2, <5>3
      <4> QED
        BY <3>1, <3>2, <3>3, <4>1
    <3>4. CASE k # 1
      BY <3>1, <3>2, <3>4
    <3> QED
      BY <3>3, <3>4
  <2> HIDE DEF o, st, x, c
  <2>6. c \in Seq(Clean) /\ o \o c \in Seq(Clean) /\ StillOpen(o \o c) = Emitted(st)
    <3> DEFINE Closed(d) == d = IF x = Nothing THEN <<>> ELSE <<Close(x)>>
               Closes1(d) == d \in Seq(Clean) /\ o \o d \in Seq(Clean) /\ StillOpen(o \o d) = Emitted(st)
    <3>1. \A d : Closed(d) => Closes1(d)
      BY <2>1, <2>2, <2>3, ClosesOne
    <3>2. Closed(c)
      BY <2>4
    <3> HIDE DEF Closed, Closes1
    <3>3. Closes1(c)
      BY <3>1, <3>2
    <3> QED
      BY <3>3 DEF Closes1
  <2>7. upto(k - 1) \in Seq(Clean)
    BY <1>13
  <2> HIDE DEF upto
  <2>8. o \o c = out \o upto(k)
    <3> DEFINE w == upto(k - 1)
    <3> HIDE DEF w
    <3>1. out \in Seq(Clean) /\ w \in Seq(Clean) /\ c \in Seq(Clean)
      BY <1>1, <2>6, <2>7 DEF w
    <3>2. (out \o w) \o c = out \o (w \o c)
      BY <3>1, ConcatAssociative
    <3> QED
      BY <2>5, <3>2 DEF o, w
  <2>9. upto(k) \in Seq(Clean)
    BY <2>5, <2>6, <2>7, ConcatProperties
  <2>10. StillOpen(out \o upto(k)) = Emitted(SubSeq(stack, 1, n - k))
    BY <2>6, <2>8, Zenon DEF st
  <2> QED
    BY <2>9, <2>10
<1>14. Good(m)
  <2> SUFFICES ASSUME Bad # {} PROVE FALSE
    <3>1. m \in 0..m
      BY <1>6
    <3> QED
      BY <3>1
  <2>1. PICK k \in Bad : \A j \in Bad : k <= j
    <3>1. Bad \subseteq Nat
      OBVIOUS
    <3> HIDE DEF Bad
    <3> QED
      BY <3>1, Least
  <2> HIDE DEF Good
  <2>2. k # 0 /\ k \in 0..m
    BY <1>12, <2>1
  <2>3. k - 1 \in 0..m /\ ~(k <= k - 1) /\ k \in 1..m
    BY <1>6, <2>2
  <2>4. Good(k - 1)
    BY <2>1, <2>3
  <2>5. Good(k)
    BY <1>13, <2>3, <2>4
  <2> QED
    BY <2>1, <2>5
<1>15. n - m = i - 1 /\ SubSeq(stack, 1, i - 1) \in Seq(Entries)
  <2>1. n - m = i - 1
    BY <1>2, <1>6
  <2>2. \A k \in 1..(i - 1) : stack[k] \in Entries
    <3>1. \A k \in 1..(i - 1) : k \in 1..Len(stack)
      BY <1>2 DEF n
    <3> QED
      BY <1>1, <3>1, ElementOfSeq
  <2> QED
    BY <1>2, <2>1, <2>2, SubSeqProperties
<1> HIDE DEF upto
<1>16. out \o upto(m) \in Seq(Clean) /\ StillOpen(out \o upto(m)) = Emitted(SubSeq(stack, 1, i - 1))
  BY <1>1, <1>14, <1>15, ConcatProperties
<1> DEFINE o == out \o upto(m)
           st == SubSeq(stack, 1, i - 1)
<1>17. CloseFrom(p, i) = [out |-> o, stack |-> st] /\ st = SubSeq(p.stack, 1, i - 1)
  BY <1>3, <1>11 DEF stack
<1>18. o \in Seq(Clean) /\ st \in Seq(Entries) /\ StillOpen(o) = Emitted(st)
  BY <1>15, <1>16
<1> HIDE DEF o, st
<1>19. [out |-> o, stack |-> st] \in States
  BY <1>18 DEF States
<1> QED
  BY <1>17, <1>19

LEMMA Greatest ==
  ASSUME NEW n \in Nat, NEW S, S \subseteq 1..n, S # {}
  PROVE  Max(S) \in S
<1> DEFINE T == {n - i : i \in S}
<1>1. T \subseteq Nat /\ T # {}
  <2>1. \A i \in S : n - i \in Nat
    <3>1. \A i \in 1..n : n - i \in Nat
      OBVIOUS
    <3> QED
      BY <3>1
  <2> QED
    BY <2>1
<1>2. PICK m \in T : \A k \in T : m <= k
  <2> HIDE DEF T
  <2> QED
    BY <1>1, Least
<1>3. PICK i \in S : m = n - i
  BY <1>2
<1>4. \A j \in S : i >= j
  <2> TAKE j \in S
  <2>1. m <= n - j
    BY <1>2
  <2> QED
    BY <1>3, <2>1
<1> QED
  BY <1>4, Zenon DEF Max

LEMMA Opens ==
  ASSUME NEW p \in States, NEW t \in Tag, t.kind = "open"
  PROVE  StartTag(p, t) \in States
<1> DEFINE kept == t.tag \in Allowed \/ (t.tag \in Attributed /\ t.valid)
           out == p.out
           stack == p.stack
           o == IF kept THEN Append(out, t) ELSE out
           x == IF kept THEN t.tag ELSE Nothing
           st == Append(stack, x)
<1>1. out \in Seq(Clean) /\ stack \in Seq(Entries) /\ StillOpen(out) = Emitted(stack)
  BY DEF States
<1>2. StartTag(p, t) = IF t.tag \in Void THEN p ELSE [out |-> o, stack |-> st]
  BY Zenon DEF StartTag
<1>3. x \in Entries /\ (kept => x # Nothing /\ t \in Clean)
  BY NamesOK DEF Tag, Clean, Entries
<1>4. st \in Seq(Entries) /\ Emitted(st) = Emit(Emitted(stack), x)
  <2> HIDE DEF x, stack
  <2> QED
    BY <1>1, <1>3, AppendProperties, EmittedAfter
<1>5. o \in Seq(Clean) /\ StillOpen(o) = Emitted(st)
  <2>1. CASE kept
    <3>1. o = Append(out, t) /\ x = t.tag /\ x # Nothing /\ t \in Clean
      BY <1>3, <2>1
    <3> HIDE DEF o, st, x, out, stack
    <3>2. Append(out, t) \in Seq(Clean) /\ StillOpen(Append(out, t)) = Nest(StillOpen(out), t)
      BY <1>1, <3>1, AppendProperties, OpenAfter
    <3>3. Nest(StillOpen(out), t) = Append(StillOpen(out), x)
      BY <3>1 DEF Nest
    <3> QED
      BY <1>1, <1>4, <3>1, <3>2, <3>3 DEF Emit
  <2>2. CASE ~kept
    <3>1. o = out /\ x = Nothing
      BY <2>2
    <3> HIDE DEF o, st, x, out, stack
    <3> QED
      BY <1>1, <1>4, <3>1 DEF Emit
  <2> QED
    BY <2>1, <2>2
<1> HIDE DEF o, st
<1>6. [out |-> o, stack |-> st] \in States
  BY <1>4, <1>5 DEF States
<1> QED
  BY <1>2, <1>6

LEMMA Closes ==
  ASSUME NEW p \in States, NEW t \in Tag
  PROVE  EndTag(p, t) \in States
<1> DEFINE stack == p.stack
           openers == {i \in DOMAIN stack : stack[i] = t.tag \/ (stack[i] = Nothing /\ t.tag \notin ToSet(stack))}
<1>1. stack \in Seq(Entries) /\ DOMAIN stack = 1..Len(stack) /\ Len(stack) \in Nat
  BY LenProperties DEF States
<1>2. EndTag(p, t) = IF t.tag \in Void \/ openers = {} THEN p ELSE CloseFrom(p, Max(openers))
  BY Zenon DEF EndTag
<1>3. openers \subseteq 1..Len(stack)
  BY <1>1
<1> HIDE DEF openers
<1>4. openers # {} => Max(openers) \in 1..(Len(stack) + 1)
  <2> SUFFICES ASSUME openers # {} PROVE Max(openers) \in 1..(Len(stack) + 1)
    OBVIOUS
  <2> DEFINE g == Max(openers)
             n == Len(stack)
  <2>1. n \in Nat /\ openers \subseteq 1..n
    BY <1>1, <1>3
  <2> HIDE DEF n
  <2>2. g \in openers
    BY <2>1, Greatest
  <2> HIDE DEF g
  <2>3. g \in 1..(n + 1)
    BY <2>1, <2>2
  <2> QED
    BY <2>3 DEF g, n
<1>5. openers # {} => CloseFrom(p, Max(openers)) \in States
  BY <1>4, ClosesFrom
<1> QED
  BY <1>2, <1>5

LEMMA Characters ==
  ASSUME NEW p \in States, NEW t \in Tag, t.kind = "char"
  PROVE  [p EXCEPT !.out = Append(@, t)] \in States
<1> DEFINE out == p.out
           stack == p.stack
           o == Append(out, t)
<1>1. out \in Seq(Clean) /\ stack \in Seq(Entries) /\ StillOpen(out) = Emitted(stack)
  BY DEF States
<1>2. [p EXCEPT !.out = Append(@, t)] = [out |-> o, stack |-> stack]
  <2>1. p \in [out : Seq(Clean), stack : Seq(Entries)]
    BY DEF States
  <2> HIDE DEF o
  <2>2. [p EXCEPT !.out = o] = [out |-> o, stack |-> stack]
    BY <2>1
  <2> QED
    BY <2>2 DEF o
<1>3. t \in Clean
  BY DEF Clean
<1> HIDE DEF out, stack
<1>4. o \in Seq(Clean) /\ StillOpen(o) = Nest(StillOpen(out), t)
  BY <1>1, <1>3, AppendProperties, OpenAfter
<1>5. Nest(StillOpen(out), t) = StillOpen(out)
  BY DEF Nest
<1> HIDE DEF o
<1>6. [out |-> o, stack |-> stack] \in States
  BY <1>1, <1>4, <1>5 DEF States
<1> QED
  BY <1>2, <1>6

LEMMA Handles ==
  ASSUME NEW p \in States, NEW t \in Tag
  PROVE  Handle(p, t) \in States
<1>1. CASE t.kind = "open"
  <2>1. Handle(p, t) = StartTag(p, t)
    BY <1>1 DEF Handle
  <2> QED
    BY <1>1, <2>1, Opens
<1>2. CASE t.kind = "close"
  <2>1. Handle(p, t) = EndTag(p, t)
    BY <1>2 DEF Handle
  <2> QED
    BY <2>1, Closes
<1>3. CASE t.kind = "char"
  <2>1. Handle(p, t) = [p EXCEPT !.out = Append(@, t)]
    BY <1>3, Zenon DEF Handle
  <2> QED
    BY <1>3, <2>1, Characters
<1>4. t.kind \in {"open", "close", "char"}
  BY DEF Tag
<1> QED
  BY <1>1, <1>2, <1>3, <1>4

LEMMA FedOK ==
  ASSUME NEW text \in Texts
  PROVE  Fed(text) \in States
<1>1. text \in Seq(Tag) /\ Len(text) \in Nat
  BY NamesOK, LenProperties
<1>2. Blank \in States
  <2>1. <<>> \in Seq(Clean) /\ <<>> \in Seq(Entries)
    OBVIOUS
  <2> QED
    BY <2>1, NothingOpen DEF Blank, States
<1>3. \A p \in States, t \in Tag : Step("feed", p, t) \in States
  BY Handles DEF Step
<1>4. Result("feed", Blank, text) \in States
  BY <1>1, <1>2, <1>3, FoldKeeps
<1> QED
  BY <1>1, <1>4, FedIs

LEMMA SanitizedOK ==
  ASSUME NEW text \in Texts
  PROVE  Sanitize(text) \in Seq(Clean) /\ StillOpen(Sanitize(text)) = <<>>
<1> DEFINE p == Fed(text)
           q == CloseFrom(p, 1)
<1>1. p \in States
  BY FedOK
<1> HIDE DEF p
<1>2. 1 \in 1..(Len(p.stack) + 1)
  <2>1. p.stack \in Seq(Entries)
    BY <1>1 DEF States
  <2> QED
    BY <2>1
<1>3. q \in States /\ q.stack = SubSeq(p.stack, 1, 1 - 1)
  BY <1>1, <1>2, ClosesFrom
<1>4. SubSeq(p.stack, 1, 1 - 1) = <<>>
  BY SubSeqEmpty
<1>5. Sanitize(text) = q.out
  BY DEF Sanitize, p
<1> HIDE DEF q
<1> QED
  BY <1>3, <1>4, <1>5, NothingOpen DEF States

\* sanitize_telegram_html: however tangled the markup of a text is, Telegram can
\* parse what the sanitizer makes of it.
THEOREM SanitizedIsAccepted ==
  \A text \in Texts : Sanitize(text) \in Texts /\ Accepts(Sanitize(text))
<1> SUFFICES ASSUME NEW text \in Texts PROVE Sanitize(text) \in Texts /\ Accepts(Sanitize(text))
  OBVIOUS
<1> DEFINE s == Sanitize(text)
<1>1. s \in Seq(Clean) /\ StillOpen(s) = <<>>
  BY SanitizedOK
<1> HIDE DEF s
<1>2. s \in Seq(Tag)
  BY <1>1, SeqMonotonic DEF Clean
<1>3. \A i \in DOMAIN s : s[i] \in Clean
  BY <1>1, LenProperties, ElementOfSeq
<1>4. Accepts(s)
  BY <1>1, <1>3 DEF Accepts, Clean
<1> QED
  BY <1>2, <1>4, NamesOK DEF s

-----------------------------------------------------------------------------
(* Without custom emoji. *)

LEMMA StrippedOK ==
  ASSUME NEW text \in Texts
  PROVE  StripEmoji(text) \in Texts
<1> DEFINE I == [out : Seq(Tag), inside : BOOLEAN]
           z == [out |-> <<>>, inside |-> FALSE]
<1>1. text \in Seq(Tag) /\ Len(text) \in Nat
  BY NamesOK, LenProperties
<1>2. z \in I
  OBVIOUS
<1>3. ASSUME NEW p \in I, NEW t \in Tag PROVE Step("strip", p, t) \in I
  <2>1. Append(p.out, t) \in Seq(Tag)
    BY AppendProperties
  <2> QED
    BY <2>1 DEF Step, Strip
<1> HIDE DEF I, z
<1>4. Result("strip", z, text) \in I
  BY <1>1, <1>2, <1>3, FoldKeeps
<1>5. StripEmoji(text) = Result("strip", z, text).out
  BY <1>1, StripEmojiIs DEF z
<1> QED
  BY <1>4, <1>5, NamesOK DEF I

\* publish(): what is sent once more without custom emoji can be parsed too,
\* although strip_custom_emoji may leave an emoji's tags unbalanced.
THEOREM StrippedIsAccepted ==
  \A text \in Texts : Sanitize(StripEmoji(Sanitize(text))) \in Texts /\ Accepts(Sanitize(StripEmoji(Sanitize(text))))
BY SanitizedIsAccepted, StrippedOK

-----------------------------------------------------------------------------
(* What the sanitizer writes: no character is lost, and no tag is made up.   *)

LEMMA AppendSet ==
  ASSUME NEW S, NEW s \in Seq(S), NEW x \in S
  PROVE  ToSet(Append(s, x)) = ToSet(s) \cup {x}
<1>1. /\ Len(s) \in Nat /\ DOMAIN s = 1..Len(s) /\ DOMAIN Append(s, x) = 1..(Len(s) + 1)
      /\ (\A i \in 1..Len(s) : Append(s, x)[i] = s[i]) /\ Append(s, x)[Len(s) + 1] = x
  BY AppendProperties, LenProperties
<1> DEFINE w == Append(s, x)
           n == Len(s)
<1>2. 1..(n + 1) = (1..n) \cup {n + 1} /\ n \in Nat
  BY <1>1
<1> HIDE DEF w, n
<1>3. ToSet(w) = {w[i] : i \in 1..(n + 1)} /\ ToSet(s) = {s[i] : i \in 1..n}
  BY <1>1 DEF ToSet, w, n
<1>4. (\A i \in 1..n : w[i] = s[i]) /\ w[n + 1] = x
  BY <1>1 DEF w, n
<1> QED
  BY <1>2, <1>3, <1>4 DEF w

LEMMA ClosingTags ==
  ASSUME NEW p \in States, NEW i \in 1..(Len(p.stack) + 1)
  PROVE  /\ ToSet(p.out) \subseteq ToSet(CloseFrom(p, i).out)
         /\ ToSet(CloseFrom(p, i).out) \subseteq ToSet(p.out) \cup {Close(x) : x \in ToSet(p.stack)}
         /\ ToSet(CloseFrom(p, i).stack) \subseteq ToSet(p.stack)
<1> DEFINE out == p.out
           stack == p.stack
           n == Len(stack)
           part == SubSeq(stack, i, n)
           inner == Reverse(part)
           m == Len(inner)
           closing == [k \in DOMAIN inner |-> IF inner[k] = Nothing THEN <<>> ELSE <<Close(inner[k])>>]
           all == FlattenSeq(closing)
<1>1. out \in Seq(Clean) /\ stack \in Seq(Entries)
  BY DEF States
<1>2. n \in Nat /\ i \in 1..(n + 1) /\ DOMAIN stack = 1..n
  BY <1>1, LenProperties
<1>3. CloseFrom(p, i) = [out |-> out \o all, stack |-> SubSeq(stack, 1, i - 1)]
  BY DEF CloseFrom
<1> HIDE DEF out, stack
<1>4. /\ part \in Seq(Entries) /\ Len(part) = n - i + 1 /\ \A k \in 1..(n - i + 1) : part[k] = stack[i + k - 1]
  <2>1. \A k \in i..n : stack[k] \in Entries
    <3>1. \A k \in i..n : k \in 1..Len(stack)
      BY <1>2
    <3> QED
      BY <1>1, <3>1, ElementOfSeq
  <2> QED
    BY <1>2, <2>1, SubSeqProperties
<1>5. inner = [k \in 1..(n - i + 1) |-> part[(n - i + 1) - k + 1]]
  BY <1>4 DEF Reverse
<1> HIDE DEF part, n, inner
<1>6. m = n - i + 1 /\ m \in Nat /\ DOMAIN inner = 1..m
  <2>1. n - i + 1 \in Nat
    BY <1>2
  <2> QED
    BY <1>5, <2>1, Enumerated
<1>7. \A k \in 1..m : inner[k] \in ToSet(stack)
  <2> TAKE k \in 1..m
  <2>1. (n - i + 1) - k + 1 \in 1..(n - i + 1) /\ i + ((n - i + 1) - k + 1) - 1 \in 1..n
    BY <1>2, <1>6
  <2>2. inner[k] = part[(n - i + 1) - k + 1]
    BY <1>5, <1>6
  <2> QED
    BY <1>2, <1>4, <2>1, <2>2 DEF ToSet
<1> HIDE DEF m
<1>8. \A k \in 1..m : closing[k] = <<>> \/ closing[k] = <<Close(inner[k])>>
  BY <1>6
<1>9. closing = [k \in 1..m |-> closing[k]] /\ DOMAIN closing = 1..m
  BY <1>6
<1> HIDE DEF closing
<1>10. Sequence(closing)
  BY <1>6, <1>9, Enumerated
<1>11. ASSUME NEW k \in 1..m PROVE Sequence(closing[k]) /\ ToSet(closing[k]) \subseteq {Close(x) : x \in ToSet(stack)}
  <2> DEFINE c == Close(inner[k])
  <2>1. DOMAIN <<c>> = {1} /\ <<c>>[1] = c
    OBVIOUS
  <2>2. c \in {Close(x) : x \in ToSet(stack)}
    BY <1>7
  <2>3. closing[k] = <<>> \/ closing[k] = <<c>>
    BY <1>8
  <2> HIDE DEF c
  <2> QED
    BY <2>1, <2>2, <2>3, NoElement, Singleton DEF ToSet
<1>12. Sequences(closing)
  BY <1>9, <1>10, <1>11 DEF Sequences
<1> HIDE DEF all
<1>13. Sequence(all) /\ ToSet(all) = UNION {ToSet(closing[k]) : k \in 1..m}
  BY <1>9, <1>12, Flattened DEF all
<1>14. ToSet(out \o all) = ToSet(out) \cup ToSet(all)
  BY <1>1, <1>13, Concatenation DEF Sequence
<1>15. ToSet(all) \subseteq {Close(x) : x \in ToSet(stack)}
  BY <1>11, <1>13
<1>16. ToSet(SubSeq(stack, 1, i - 1)) \subseteq ToSet(stack)
  <2>1. \A k \in 1..(i - 1) : k \in 1..n
    BY <1>2
  <2>2. /\ Len(SubSeq(stack, 1, i - 1)) = i - 1 /\ SubSeq(stack, 1, i - 1) \in Seq(Entries)
        /\ \A k \in 1..(i - 1) : SubSeq(stack, 1, i - 1)[k] = stack[k]
    <3>1. \A k \in 1..(i - 1) : stack[k] \in Entries
      BY <1>1, <1>2, <2>1, ElementOfSeq DEF n
    <3>2. i - 1 \in Nat /\ (i - 1) - 1 + 1 = i - 1 /\ \A k \in 1..(i - 1) : 1 + k - 1 = k
      BY <1>2
    <3> QED
      BY <1>1, <1>2, <3>1, <3>2, SubSeqProperties
  <2>3. DOMAIN SubSeq(stack, 1, i - 1) = 1..(i - 1)
    BY <2>2, LenProperties
  <2> QED
    BY <1>2, <2>1, <2>2, <2>3 DEF ToSet
<1> QED
  BY <1>3, <1>14, <1>15, <1>16 DEF out, stack

LEMMA Writes ==
  ASSUME NEW p \in States, NEW t \in Tag
  PROVE  /\ ToSet(p.out) \subseteq ToSet(Handle(p, t).out)
         /\ t.kind = "char" => t \in ToSet(Handle(p, t).out)
         /\ ToSet(Handle(p, t).out) \subseteq ToSet(p.out) \cup {t} \cup {Close(x) : x \in ToSet(p.stack)}
         /\ ToSet(Handle(p, t).stack) \subseteq ToSet(p.stack) \cup {t.tag, Nothing}
<1> DEFINE out == p.out
           stack == p.stack
<1>1. out \in Seq(Tag) /\ stack \in Seq(Entries)
  BY SeqMonotonic DEF States, Clean
<1>2. ToSet(Append(out, t)) = ToSet(out) \cup {t}
  BY <1>1, AppendSet
<1>3. t.kind \in {"open", "close", "char"}
  BY DEF Tag
<1>4. CASE t.kind = "open"
  <2> DEFINE kept == t.tag \in Allowed \/ (t.tag \in Attributed /\ t.valid)
             x == IF kept THEN t.tag ELSE Nothing
             o == IF kept THEN Append(out, t) ELSE out
             st == Append(stack, x)
             q == [out |-> o, stack |-> st]
  <2>1. Handle(p, t) = p \/ Handle(p, t) = q
    BY <1>4, Zenon DEF Handle, StartTag
  <2>2. x \in Entries /\ x \in {t.tag, Nothing}
    BY DEF Tag, Entries
  <2> HIDE DEF x
  <2>3. ToSet(st) = ToSet(stack) \cup {x}
    BY <1>1, <2>2, AppendSet
  <2>4. ToSet(o) \subseteq ToSet(out) \cup {t} /\ ToSet(out) \subseteq ToSet(o)
    BY <1>2
  <2>5. q.out = o /\ q.stack = st
    OBVIOUS
  <2> HIDE DEF o, st, q
  <2> QED
    BY <1>4, <2>1, <2>2, <2>3, <2>4, <2>5
<1>5. CASE t.kind = "close"
  <2> DEFINE openers == {i \in DOMAIN stack : stack[i] = t.tag \/ (stack[i] = Nothing /\ t.tag \notin ToSet(stack))}
             n == Len(stack)
  <2>1. Handle(p, t) = p \/ (openers # {} /\ Handle(p, t) = CloseFrom(p, Max(openers)))
    BY <1>5, Zenon DEF Handle, EndTag
  <2>2. n \in Nat /\ openers \subseteq 1..n
    BY <1>1, LenProperties
  <2> HIDE DEF openers, n
  <2>3. CASE Handle(p, t) = p
    BY <1>5, <2>3
  <2>4. CASE openers # {} /\ Handle(p, t) = CloseFrom(p, Max(openers))
    <3> DEFINE g == Max(openers)
    <3>1. g \in openers
      BY <2>2, <2>4, Greatest
    <3> HIDE DEF g
    <3>2. g \in 1..(n + 1)
      BY <2>2, <3>1
    <3>3. /\ ToSet(p.out) \subseteq ToSet(CloseFrom(p, g).out)
          /\ ToSet(CloseFrom(p, g).out) \subseteq ToSet(p.out) \cup {Close(x) : x \in ToSet(p.stack)}
          /\ ToSet(CloseFrom(p, g).stack) \subseteq ToSet(p.stack)
      BY <3>2, ClosingTags DEF n
    <3> QED
      BY <1>5, <2>4, <3>3 DEF g
  <2> QED
    BY <2>1, <2>3, <2>4
<1>6. CASE t.kind = "char"
  <2>1. Handle(p, t) = [p EXCEPT !.out = Append(@, t)]
    BY <1>6, Zenon DEF Handle
  <2>2. p \in [out : Seq(Clean), stack : Seq(Entries)]
    BY DEF States
  <2> DEFINE o == Append(out, t)
  <2>3. Handle(p, t).out = o /\ Handle(p, t).stack = stack
    BY <2>1, <2>2
  <2> HIDE DEF o
  <2> QED
    BY <1>2, <2>3 DEF o
<1> QED
  BY <1>3, <1>4, <1>5, <1>6

LEMMA FedFrom ==
  ASSUME NEW text \in Texts, NEW I, Blank \in I[0],
         \A n \in 1..Len(text) : \A p \in I[n - 1] : Handle(p, text[n]) \in I[n]
  PROVE  Fed(text) \in I[Len(text)]
<1>1. text \in Seq(Tag) /\ Len(text) \in Nat
  BY NamesOK, LenProperties
<1>2. \A n \in 1..Len(text) : \A p \in I[n - 1] : Step("feed", p, text[n]) \in I[n]
  BY DEF Step
<1>3. Result("feed", Blank, text) \in I[Len(text)]
  BY <1>1, <1>2, FoldReaches
<1> QED
  BY <1>1, <1>3, FedIs

\* What the sanitizer writes, in terms of what it has been fed with.
LEMMA SanitizedFrom ==
  ASSUME NEW text \in Texts
  PROVE  LET p == Fed(text) IN
         /\ p \in States
         /\ ToSet(p.out) \subseteq ToSet(Sanitize(text))
         /\ ToSet(Sanitize(text)) \subseteq ToSet(p.out) \cup {Close(x) : x \in ToSet(p.stack)}
<1> DEFINE p == Fed(text)
<1>1. p \in States
  BY FedOK
<1>2. Sanitize(text) = CloseFrom(p, 1).out
  BY DEF Sanitize
<1> HIDE DEF p
<1>3. 1 \in 1..(Len(p.stack) + 1)
  <2>1. p.stack \in Seq(Entries)
    BY <1>1 DEF States
  <2> QED
    BY <2>1
<1>4. /\ ToSet(p.out) \subseteq ToSet(CloseFrom(p, 1).out)
      /\ ToSet(CloseFrom(p, 1).out) \subseteq ToSet(p.out) \cup {Close(x) : x \in ToSet(p.stack)}
  BY <1>1, <1>3, ClosingTags
<1> QED
  BY <1>1, <1>2, <1>4 DEF p

Says(text) == \E t \in ToSet(text) : t.kind = "char"

\* A text that says something does so when it has been sanitized.
LEMMA SanitizedSays ==
  ASSUME NEW text \in Texts, Says(text)
  PROVE  Says(Sanitize(text))
<1>1. text \in Seq(Tag) /\ Len(text) \in Nat /\ DOMAIN text = 1..Len(text) /\ \A n \in 1..Len(text) : text[n] \in Tag
  BY NamesOK, LenProperties, ElementOfSeq
<1> DEFINE Heard(n) == \E k \in 1..n : text[k].kind = "char"
           I == [n \in 0..Len(text) |-> {p \in States : Heard(n) => Says(p.out)}]
<1>2. Blank \in I[0]
  <2>1. Blank \in States
    <3>1. <<>> \in Seq(Clean) /\ <<>> \in Seq(Entries)
      OBVIOUS
    <3> QED
      BY <3>1, NothingOpen DEF Blank, States
  <2>2. ~Heard(0)
    OBVIOUS
  <2> HIDE DEF Heard
  <2> QED
    BY <1>1, <2>1, <2>2
<1>3. ASSUME NEW n \in 1..Len(text), NEW p \in I[n - 1] PROVE Handle(p, text[n]) \in I[n]
  <2>1. n - 1 \in 0..Len(text) /\ n \in 0..Len(text) /\ 1..n = (1..(n - 1)) \cup {n}
    BY <1>1
  <2>2. p \in States /\ (Heard(n - 1) => Says(p.out))
    BY <2>1
  <2>3. Heard(n) => Heard(n - 1) \/ text[n].kind = "char"
    BY <2>1
  <2>4. Handle(p, text[n]) \in States
    BY <1>1, <2>2, Handles
  <2>5. /\ ToSet(p.out) \subseteq ToSet(Handle(p, text[n]).out)
        /\ text[n].kind = "char" => text[n] \in ToSet(Handle(p, text[n]).out)
    BY <1>1, <2>2, Writes
  <2>6. Heard(n) => Says(Handle(p, text[n]).out)
    BY <2>2, <2>3, <2>5 DEF Says
  <2> HIDE DEF Heard
  <2> QED
    BY <2>1, <2>4, <2>6
<1> HIDE DEF I
<1>4. Fed(text) \in I[Len(text)]
  BY <1>2, <1>3, FedFrom
<1>5. Len(text) \in 0..Len(text) /\ Heard(Len(text))
  BY <1>1 DEF Says, ToSet
<1>6. Says(Fed(text).out)
  <2> HIDE DEF Heard
  <2> QED
    BY <1>4, <1>5 DEF I
<1> QED
  BY <1>6, SanitizedFrom DEF Says

\* No custom emoji comes from nowhere.
LEMMA SanitizedNoEmoji ==
  ASSUME NEW text \in Texts, ~HasEmoji(text)
  PROVE  ~HasEmoji(Sanitize(text))
<1> DEFINE e == "tg-emoji"
           Free(p) == (\A t \in ToSet(p.out) : t.tag # e) /\ e \notin ToSet(p.stack)
           J == {p \in States : Free(p)}
           I == [n \in 0..Len(text) |-> J]
<1>1. text \in Seq(Tag) /\ Len(text) \in Nat /\ \A n \in 1..Len(text) : text[n] \in Tag /\ text[n].tag # e
  <2>1. text \in Seq(Tag) /\ Len(text) \in Nat /\ DOMAIN text = 1..Len(text) /\ \A n \in 1..Len(text) : text[n] \in Tag
    BY NamesOK, LenProperties, ElementOfSeq
  <2> QED
    BY <2>1 DEF HasEmoji
<1>2. Blank \in J
  <2>1. <<>> \in Seq(Clean) /\ <<>> \in Seq(Entries)
    OBVIOUS
  <2>2. ToSet(<<>>) = {}
    BY NoElement DEF ToSet
  <2> QED
    BY <2>1, <2>2, NothingOpen DEF Blank, States
<1>3. \A x : Close(x).tag = x
  BY DEF Close
<1>4. ASSUME NEW n \in 1..Len(text), NEW p \in J PROVE Handle(p, text[n]) \in J
  <2> DEFINE t == text[n]
             q == Handle(p, t)
  <2>1. p \in States /\ t \in Tag /\ t.tag # e /\ Free(p) /\ Nothing # e
    BY <1>1 DEF Nothing
  <2>2. q \in States
    BY <2>1, Handles
  <2>3. /\ ToSet(q.out) \subseteq ToSet(p.out) \cup {t} \cup {Close(x) : x \in ToSet(p.stack)}
        /\ ToSet(q.stack) \subseteq ToSet(p.stack) \cup {t.tag, Nothing}
    BY <2>1, Writes
  <2> HIDE DEF q, t, e
  <2>4. Free(q)
    BY <1>3, <2>1, <2>3
  <2> QED
    BY <2>2, <2>4 DEF q, t
<1> HIDE DEF J
<1>5. Fed(text) \in J
  <2>1. Blank \in I[0] /\ \A n \in 1..Len(text) : \A p \in I[n - 1] : Handle(p, text[n]) \in I[n]
    <3>1. \A n \in 1..Len(text) : n - 1 \in 0..Len(text) /\ n \in 0..Len(text)
      BY <1>1
    <3>2. 0 \in 0..Len(text)
      BY <1>1
    <3> QED
      BY <1>2, <1>4, <3>1, <3>2
  <2> HIDE DEF I
  <2>2. Fed(text) \in I[Len(text)]
    BY <2>1, FedFrom
  <2> QED
    BY <1>1, <2>2 DEF I
<1>6. Free(Fed(text))
  BY <1>5 DEF J
<1>7. \A t \in ToSet(Sanitize(text)) : t.tag # e
  <2>1. ToSet(Sanitize(text)) \subseteq ToSet(Fed(text).out) \cup {Close(x) : x \in ToSet(Fed(text).stack)}
    BY SanitizedFrom
  <2> HIDE DEF e
  <2> QED
    BY <1>3, <1>6, <2>1
<1> QED
  BY <1>7 DEF HasEmoji, ToSet

-----------------------------------------------------------------------------
(* What is left of a text without its custom emoji. *)

Stripped == [out : Seq(Tag), inside : BOOLEAN]

LEMMA StripWrites ==
  ASSUME NEW p \in Stripped, NEW t \in Tag
  PROVE  /\ Strip(p, t) \in Stripped
         /\ t.tag = "tg-emoji" /\ (t.kind = "open") # p.inside => Strip(p, t).out = p.out /\ Strip(p, t).inside = ~p.inside
         /\ ~(t.tag = "tg-emoji" /\ (t.kind = "open") # p.inside) =>
               ToSet(Strip(p, t).out) = ToSet(p.out) \cup {t} /\ Strip(p, t).inside = p.inside
<1> DEFINE o == Append(p.out, t)
           e == t.tag = "tg-emoji" /\ (t.kind = "open") # p.inside
<1>1. p.out \in Seq(Tag) /\ p.inside \in BOOLEAN /\ p = [out |-> p.out, inside |-> p.inside]
  BY DEF Stripped
<1>2. o \in Seq(Tag) /\ ToSet(o) = ToSet(p.out) \cup {t}
  BY <1>1, AppendProperties, AppendSet
<1>3. Strip(p, t) = IF e THEN [p EXCEPT !.inside = ~@] ELSE [p EXCEPT !.out = o]
  BY Zenon DEF Strip
<1> HIDE DEF o
<1>4. CASE e
  <2>1. Strip(p, t) = [p EXCEPT !.inside = ~@]
    BY <1>3, <1>4
  <2> HIDE DEF e
  <2>2. Strip(p, t) \in Stripped /\ Strip(p, t).out = p.out /\ Strip(p, t).inside = ~p.inside
    BY <1>1, <2>1 DEF Stripped
  <2> QED
    BY <1>4, <2>2 DEF e
<1>5. CASE ~e
  <2>1. Strip(p, t) = [p EXCEPT !.out = o]
    BY <1>3, <1>5
  <2> HIDE DEF e
  <2>2. Strip(p, t) \in Stripped /\ Strip(p, t).out = o /\ Strip(p, t).inside = p.inside
    BY <1>1, <1>2, <2>1 DEF Stripped
  <2> QED
    BY <1>2, <1>5, <2>2 DEF e
<1> QED
  BY <1>4, <1>5

\* The steps up to the n-th.
LEMMA Stepwise ==
  ASSUME NEW n \in Nat, NEW S, 0 \in S, \A k \in 0..(n - 1) : k \in S => k + 1 \in S
  PROVE  \A k \in 0..n : k \in S
<1> DEFINE Bad == {k \in 0..n : k \notin S}
<1>1. SUFFICES ASSUME Bad # {} PROVE FALSE
  OBVIOUS
<1>2. PICK l \in Bad : \A k \in Bad : l <= k
  <2>1. Bad \subseteq Nat
    OBVIOUS
  <2> HIDE DEF Bad
  <2> QED
    BY <1>1, <2>1, Least
<1>3. l # 0 /\ l \in 0..n
  BY <1>2
<1>4. l - 1 \in 0..n /\ ~(l <= l - 1) /\ l - 1 \in 0..(n - 1) /\ (l - 1) + 1 = l
  BY <1>3
<1>5. l - 1 \in S
  BY <1>2, <1>4
<1>6. l \in S
  BY <1>4, <1>5
<1> QED
  BY <1>2, <1>6

\* strip_custom_emoji, one tag after the other.
Strips(g, text) ==
  /\ g[0] = [out |-> <<>>, inside |-> FALSE]
  /\ \A n \in 1..Len(text) : g[n] = Strip(g[n - 1], text[n])
  /\ \A n \in 0..Len(text) : g[n] \in Stripped
  /\ StripEmoji(text) = g[Len(text)].out

LEMMA StripSteps ==
  ASSUME NEW text \in Texts
  PROVE  \E g : Strips(g, text)
<1> DEFINE z == [out |-> <<>>, inside |-> FALSE]
<1>1. text \in Seq(Tag) /\ Len(text) \in Nat /\ \A n \in 1..Len(text) : text[n] \in Tag
  BY NamesOK, LenProperties, ElementOfSeq
<1>2. z \in Stripped
  BY DEF Stripped
<1> HIDE DEF z
<1>3. PICK g : Folds(g, "strip", z, text, Len(text))
  BY <1>1, FoldExists
<1>4. StripEmoji(text) = g[Len(text)].out
  <2>1. Result("strip", z, text) = g[Len(text)]
    BY <1>1, <1>3, FoldResult
  <2> QED
    BY <1>1, <2>1, StripEmojiIs DEF z
<1>5. g[0] = z
  BY <1>1, <1>3 DEF Folds
<1>6. \A n \in 1..Len(text) : g[n] = Strip(g[n - 1], text[n])
  <2> TAKE n \in 1..Len(text)
  <2>1. n \in 0..Len(text) /\ n # 0
    BY <1>1
  <2>2. g[n] = Step("strip", g[n - 1], text[n])
    BY <1>3, <2>1 DEF Folds
  <2> QED
    BY <2>2 DEF Step
<1>7. \A n \in 0..Len(text) : g[n] \in Stripped
  <2> DEFINE S == {n \in 0..Len(text) : g[n] \in Stripped}
  <2>1. 0 \in S
    <3>1. 0 \in 0..Len(text)
      BY <1>1
    <3> QED
      BY <1>2, <1>5, <3>1
  <2>2. ASSUME NEW k \in 0..(Len(text) - 1), k \in S PROVE k + 1 \in S
    <3>1. k + 1 \in 1..Len(text) /\ (k + 1) - 1 = k /\ k + 1 \in 0..Len(text)
      BY <1>1
    <3>2. g[k + 1] \in Stripped
      BY <1>1, <1>6, <2>2, <3>1, StripWrites
    <3> QED
      BY <3>1, <3>2
  <2> HIDE DEF S
  <2>3. \A k \in 0..Len(text) : k \in S
    BY <1>1, <2>1, <2>2, Stepwise
  <2> QED
    BY <2>3 DEF S
<1> QED
  BY <1>4, <1>5, <1>6, <1>7, Zenon DEF z, Strips

LEMMA StrippedSays ==
  ASSUME NEW text \in Texts, Says(text)
  PROVE  Says(StripEmoji(text))
<1>1. text \in Seq(Tag) /\ Len(text) \in Nat /\ DOMAIN text = 1..Len(text) /\ \A n \in 1..Len(text) : text[n] \in Tag
  BY NamesOK, LenProperties, ElementOfSeq
<1>0. PICK g : Strips(g, text)
  BY StripSteps
<1>2. /\ g[0] = [out |-> <<>>, inside |-> FALSE]
      /\ \A n \in 1..Len(text) : g[n] = Strip(g[n - 1], text[n])
      /\ \A n \in 0..Len(text) : g[n] \in Stripped
      /\ StripEmoji(text) = g[Len(text)].out
  BY <1>0, Zenon DEF Strips
<1> DEFINE Heard(n) == \E k \in 1..n : text[k].kind = "char"
           S == {n \in 0..Len(text) : Heard(n) => Says(g[n].out)}
<1>3. 0 \in S
  BY <1>1
<1>4. ASSUME NEW k \in 0..(Len(text) - 1), k \in S PROVE k + 1 \in S
  <2> DEFINE n == k + 1
             t == text[n]
             p == g[k]
  <2>1. n \in 1..Len(text) /\ n - 1 = k /\ n \in 0..Len(text) /\ k \in 0..Len(text) /\ 1..n = (1..k) \cup {n}
    BY <1>1
  <2>2. g[n] = Strip(p, t) /\ p \in Stripped /\ t \in Tag /\ (Heard(k) => Says(p.out))
    BY <1>1, <1>2, <1>4, <2>1
  <2>3. Heard(n) => Heard(k) \/ t.kind = "char"
    BY <2>1
  <2>4. t.kind = "char" => t.tag # "tg-emoji"
    BY <2>2 DEF Tag, Nothing
  <2> HIDE DEF Heard, n, t, p
  <2>5. ToSet(p.out) \subseteq ToSet(g[n].out) /\ (t.kind = "char" => t \in ToSet(g[n].out))
    BY <2>2, <2>4, StripWrites
  <2>6. Heard(n) => Says(g[n].out)
    BY <2>2, <2>3, <2>5 DEF Says
  <2> QED
    BY <2>1, <2>6 DEF n
<1> HIDE DEF S
<1>5. \A k \in 0..Len(text) : k \in S
  BY <1>1, <1>3, <1>4, Stepwise
<1>6. Len(text) \in 0..Len(text) /\ Heard(Len(text))
  BY <1>1 DEF Says, ToSet
<1> HIDE DEF Heard
<1> QED
  BY <1>2, <1>5, <1>6 DEF S

\* One tag of a text that Telegram parses.
LEMMA NestsOne ==
  ASSUME NEW s \in Seq(Names), NEW t \in Tag
  PROVE  /\ Nest(s, t) \in Seq(Names)
         /\ Nothing \in ToSet(s) => Nothing \in ToSet(Nest(s, t))
         /\ t.kind = "char" => Nest(s, t) = s
         /\ t.kind = "open" => Nest(s, t) = Append(s, t.tag)
         /\ t.kind = "close" /\ Nothing \notin ToSet(Nest(s, t)) =>
               Len(s) >= 1 /\ s[Len(s)] = t.tag /\ Len(Nest(s, t)) = Len(s) - 1 /\ \A i \in 1..(Len(s) - 1) : Nest(s, t)[i] = s[i]
<1> DEFINE n == Len(s)
           w == Nest(s, t)
<1>1. n \in Nat /\ DOMAIN s = 1..n /\ (\A i \in 1..n : s[i] \in Names) /\ (s # <<>> => n >= 1)
  BY LenProperties, ElementOfSeq, EmptySeq
<1>2. t.tag \in Names /\ t.kind \in {"open", "close", "char"} /\ (t.kind = "close" => t.tag # Nothing) /\ Nothing \in Names
  BY DEF Tag, Names
<1>3. ASSUME NEW x \in Names PROVE Append(s, x) \in Seq(Names) /\ ToSet(Append(s, x)) = ToSet(s) \cup {x}
  BY AppendProperties, AppendSet
<1>4. CASE t.kind = "char"
  <2>1. w = s
    BY <1>4 DEF Nest
  <2> QED
    BY <1>4, <2>1
<1>5. CASE t.kind = "open"
  <2>1. w = Append(s, t.tag)
    BY <1>5 DEF Nest
  <2> HIDE DEF w
  <2> QED
    BY <1>2, <1>3, <1>5, <2>1 DEF w
<1>6. CASE t.kind = "close" /\ s # <<>> /\ Last(s) = t.tag
  <2>1. w = Front(s)
    BY <1>6 DEF Nest
  <2>2. s[n] = t.tag /\ n \in 1..n /\ n - 1 \in Nat /\ \A i \in 1..(n - 1) : i \in 1..n
    BY <1>1, <1>6 DEF Last
  <2>3. w = SubSeq(s, 1, n - 1)
    BY <2>1 DEF Front
  <2> HIDE DEF w, n
  <2>4. w \in Seq(Names) /\ Len(w) = n - 1 /\ \A i \in 1..(n - 1) : w[i] = s[i]
    <3>1. \A i \in 1..(n - 1) : s[i] \in Names
      BY <1>1, <2>2
    <3>2. (n - 1) - 1 + 1 = n - 1 /\ \A i \in 1..(n - 1) : 1 + i - 1 = i
      BY <1>1
    <3> QED
      BY <1>1, <2>2, <2>3, <3>1, <3>2, SubSeqProperties
  <2>5. Nothing \in ToSet(s) => Nothing \in ToSet(w)
    <3> SUFFICES ASSUME Nothing \in ToSet(s) PROVE Nothing \in ToSet(w)
      OBVIOUS
    <3>1. PICK i \in 1..n : s[i] = Nothing
      BY <1>1 DEF ToSet
    <3>2. i # n
      BY <1>2, <1>6, <2>2, <3>1
    <3>3. i \in 1..(n - 1) /\ DOMAIN w = 1..(n - 1)
      BY <1>1, <2>4, <3>2, LenProperties
    <3> QED
      BY <2>4, <3>1, <3>3 DEF ToSet
  <2> QED
    BY <1>1, <1>6, <2>2, <2>4, <2>5 DEF w, n
<1>7. CASE t.kind = "close" /\ ~(s # <<>> /\ Last(s) = t.tag)
  <2>1. w = Append(s, Nothing)
    BY <1>7 DEF Nest
  <2> HIDE DEF w
  <2>2. Nothing \in ToSet(w) /\ w \in Seq(Names)
    BY <1>2, <1>3, <2>1
  <2> QED
    BY <1>7, <2>2 DEF w
<1> QED
  BY <1>2, <1>4, <1>5, <1>6, <1>7

\* What is open after each tag of a text that Telegram parses: every closing tag
\* closes the innermost one.
Nests(f, text) ==
  /\ f[0] = <<>>
  /\ \A n \in 1..Len(text) : f[n] = Nest(f[n - 1], text[n])
  /\ \A n \in 0..Len(text) : f[n] \in Seq(Names) /\ Nothing \notin ToSet(f[n])

LEMMA NestSteps ==
  ASSUME NEW text \in Texts, StillOpen(text) = <<>>
  PROVE  \E f : Nests(f, text)
<1>1. text \in Seq(Tag) /\ Len(text) \in Nat /\ \A n \in 1..Len(text) : text[n] \in Tag
  BY NamesOK, LenProperties, ElementOfSeq
<1>2. PICK f : Folds(f, "nest", <<>>, text, Len(text))
  BY <1>1, FoldExists
<1>3. f[Len(text)] = <<>>
  BY <1>1, <1>2, FoldResult, StillOpenIs
<1>4. f[0] = <<>>
  BY <1>1, <1>2 DEF Folds
<1>5. \A n \in 1..Len(text) : f[n] = Nest(f[n - 1], text[n])
  <2> TAKE n \in 1..Len(text)
  <2>1. n \in 0..Len(text) /\ n # 0
    BY <1>1
  <2>2. f[n] = Step("nest", f[n - 1], text[n])
    BY <1>2, <2>1 DEF Folds
  <2> QED
    BY <2>2 DEF Step
<1>6. \A k \in 0..(Len(text) - 1) : k + 1 \in 1..Len(text) /\ (k + 1) - 1 = k /\ k + 1 \in 0..Len(text)
  BY <1>1
<1>7. \A n \in 0..Len(text) : f[n] \in Seq(Names)
  <2> DEFINE S == {n \in 0..Len(text) : f[n] \in Seq(Names)}
  <2>1. 0 \in S
    <3>1. f[0] \in Seq(Names)
      BY <1>4, EmptySeq
    <3>2. 0 \in 0..Len(text)
      BY <1>1
    <3> QED
      BY <3>1, <3>2
  <2>2. ASSUME NEW k \in 0..(Len(text) - 1), k \in S PROVE k + 1 \in S
    <3>1. f[k + 1] = Nest(f[k], text[k + 1]) /\ text[k + 1] \in Tag /\ f[k] \in Seq(Names)
      BY <1>1, <1>5, <1>6, <2>2
    <3> QED
      BY <1>6, <3>1, NestsOne
  <2> HIDE DEF S
  <2>3. \A k \in 0..Len(text) : k \in S
    BY <1>1, <2>1, <2>2, Stepwise
  <2> QED
    BY <2>3 DEF S
<1>8. \A n \in 0..Len(text) : Nothing \notin ToSet(f[n])
  <2> DEFINE Bad == {n \in 0..Len(text) : Nothing \in ToSet(f[n])}
             T == {Len(text) - n : n \in Bad}
  <2>1. SUFFICES ASSUME Bad # {} PROVE FALSE
    OBVIOUS
  <2>2. PICK m \in T : \A k \in T : m <= k
    <3>1. T \subseteq Nat /\ T # {}
      BY <1>1, <2>1
    <3> HIDE DEF T
    <3> QED
      BY <3>1, Least
  <2>3. PICK n \in Bad : m = Len(text) - n
    BY <2>2
  <2>4. n # Len(text)
    <3>1. ToSet(<<>>) = {}
      BY NoElement DEF ToSet
    <3> QED
      BY <1>3, <2>3, <3>1
  <2>5. n \in 0..(Len(text) - 1)
    BY <1>1, <2>3, <2>4
  <2>6. f[n + 1] = Nest(f[n], text[n + 1]) /\ text[n + 1] \in Tag /\ f[n] \in Seq(Names) /\ Nothing \in ToSet(f[n])
    BY <1>1, <1>5, <1>6, <1>7, <2>3, <2>5
  <2>7. n + 1 \in Bad
    BY <1>6, <2>5, <2>6, NestsOne
  <2>8. ~(m <= Len(text) - (n + 1))
    BY <1>1, <2>3, <2>5
  <2> QED
    BY <2>2, <2>7, <2>8
<1> QED
  BY <1>4, <1>5, <1>7, <1>8, Zenon DEF Nests

\* One tag, of a text in which no emoji is within an emoji: what has been written
\* has no emoji, and one is open exactly while its closing tag is still to come.
Bare(p, s, pending) ==
  /\ \A t \in ToSet(p.out) : t.tag # "tg-emoji"
  /\ p.inside => pending
  /\ \A i, j \in 1..Len(s) : s[i] = "tg-emoji" /\ s[j] = "tg-emoji" => i = j
  /\ ~p.inside => \A i \in 1..Len(s) : s[i] # "tg-emoji"

LEMMA TagIs ==
  ASSUME NEW t \in Tag
  PROVE  t.kind \in {"open", "close", "char"} /\ (t.kind = "char" => t.tag # "tg-emoji") /\ t.tag \in Names
<1>1. t.kind \in {"open", "close", "char"} /\ t.tag \in Names
  BY DEF Tag
<1>2. t.kind = "char" => t.tag = Nothing
  BY DEF Tag
<1>3. Nothing # "tg-emoji"
  BY DEF Nothing
<1> QED
  BY <1>1, <1>2, <1>3

LEMMA BareStays ==
  ASSUME NEW p \in Stripped, NEW s \in Seq(Names), NEW t \in Tag, Nothing \notin ToSet(Nest(s, t)),
         NEW pending, NEW pendingNow, Bare(p, s, pending),
         pending => ~(t.tag = "tg-emoji" /\ t.kind = "open"),
         t.tag = "tg-emoji" /\ t.kind = "open" => pendingNow,
         pending /\ t.tag # "tg-emoji" => pendingNow
  PROVE  Bare(Strip(p, t), Nest(s, t), pendingNow)
<1> DEFINE e == "tg-emoji"
           q == Strip(p, t)
           w == Nest(s, t)
           n == Len(s)
<1>1. /\ t.tag = e /\ (t.kind = "open") # p.inside => q.out = p.out /\ q.inside = ~p.inside
      /\ ~(t.tag = e /\ (t.kind = "open") # p.inside) => ToSet(q.out) = ToSet(p.out) \cup {t} /\ q.inside = p.inside
  BY StripWrites
<1>2. /\ t.kind = "char" => w = s
      /\ t.kind = "open" => w = Append(s, t.tag)
      /\ t.kind = "close" => n >= 1 /\ s[n] = t.tag /\ Len(w) = n - 1 /\ \A i \in 1..(n - 1) : w[i] = s[i]
  BY NestsOne
<1>3. t.kind \in {"open", "close", "char"} /\ (t.kind = "char" => t.tag # e) /\ t.tag \in Names /\ p.inside \in BOOLEAN
  <2>1. t.kind \in {"open", "close", "char"} /\ (t.kind = "char" => t.tag # e) /\ t.tag \in Names
    BY TagIs
  <2>2. p.inside \in BOOLEAN
    <3> HIDE DEF Tag
    <3> QED
      BY DEF Stripped
  <2> QED
    BY <2>1, <2>2
<1>4. n \in Nat /\ (t.kind = "open" => Len(w) = n + 1 /\ (\A i \in 1..n : w[i] = s[i]) /\ w[n + 1] = t.tag)
  BY <1>2, <1>3, AppendProperties, LenProperties
<1>5. /\ \A x \in ToSet(p.out) : x.tag # e
      /\ p.inside => pending
      /\ \A i, j \in 1..n : s[i] = e /\ s[j] = e => i = j
      /\ ~p.inside => \A i \in 1..n : s[i] # e
  BY DEF Bare
<1> HIDE DEF q, w, n, e
<1>6. CASE t.tag = e /\ t.kind = "open"
  <2>1. ~p.inside /\ q.out = p.out /\ q.inside
    BY <1>1, <1>3, <1>5, <1>6 DEF e
  <2>2. \A i \in 1..(n + 1) : w[i] = e => i = n + 1
    <3>1. \A i \in 1..(n + 1) : i \in 1..n \/ i = n + 1
      BY <1>4
    <3> QED
      BY <1>4, <1>5, <1>6, <2>1, <3>1
  <2>3. pendingNow
    BY <1>6 DEF e
  <2>4. Len(w) = n + 1
    BY <1>4, <1>6
  <2> QED
    BY <1>5, <2>1, <2>2, <2>3, <2>4, Zenon DEF Bare, e, q, w
<1>7. CASE t.tag = e /\ t.kind = "close"
  <2>1. n \in 1..n /\ s[n] = e
    BY <1>2, <1>4, <1>7
  <2>2. p.inside /\ q.out = p.out /\ ~q.inside
    BY <1>1, <1>3, <1>5, <1>7, <2>1
  <2>3. \A i \in 1..(n - 1) : w[i] # e
    <3>1. \A i \in 1..(n - 1) : i \in 1..n /\ i # n
      BY <1>4
    <3> QED
      BY <1>2, <1>5, <1>7, <2>1, <3>1
  <2>4. Len(w) = n - 1
    BY <1>2, <1>7
  <2> QED
    BY <1>5, <2>2, <2>3, <2>4, Zenon DEF Bare, e, q, w
<1>8. CASE t.tag # e
  <2>1. ToSet(q.out) = ToSet(p.out) \cup {t} /\ q.inside = p.inside
    BY <1>1, <1>8
  <2>2. \A i \in 1..Len(w) : w[i] = e => i \in 1..n /\ s[i] = e
    <3>1. CASE t.kind = "char"
      BY <1>2, <3>1 DEF n
    <3>2. CASE t.kind = "open"
      <4>1. \A i \in 1..(n + 1) : i \in 1..n \/ i = n + 1
        BY <1>4
      <4> QED
        BY <1>4, <1>8, <3>2, <4>1
    <3>3. CASE t.kind = "close"
      <4>1. \A i \in 1..(n - 1) : i \in 1..n
        BY <1>4
      <4> QED
        BY <1>2, <3>3, <4>1
    <3> QED
      BY <1>3, <3>1, <3>2, <3>3
  <2>3. p.inside => pendingNow
    BY <1>5, <1>8 DEF e
  <2>4. \A x \in ToSet(q.out) : x.tag # e
    BY <1>5, <1>8, <2>1
  <2>5. \A i, j \in 1..Len(w) : w[i] = e /\ w[j] = e => i = j
    BY <1>5, <2>2
  <2>6. ~q.inside => \A i \in 1..Len(w) : w[i] # e
    BY <1>5, <2>1, <2>2
  <2> QED
    BY <2>1, <2>3, <2>4, <2>5, <2>6, Zenon DEF Bare, e, q, w
<1> QED
  BY <1>3, <1>6, <1>7, <1>8

\* strip_custom_emoji: of a text that Telegram parses no custom emoji is left,
\* unless an emoji is within an emoji.
LEMMA StrippedNoEmoji ==
  ASSUME NEW text \in Texts, StillOpen(text) = <<>>, ~EmojiNested(text)
  PROVE  ~HasEmoji(StripEmoji(text))
<1> DEFINE e == "tg-emoji"
           Opener(k) == text[k].tag = e /\ text[k].kind = "open"
           Pending(n) == \E i \in 1..n : Opener(i) /\ \A k \in i..n : text[k].tag = e => text[k].kind = "open"
<1>1. text \in Seq(Tag) /\ Len(text) \in Nat /\ DOMAIN text = 1..Len(text) /\ \A n \in 1..Len(text) : text[n] \in Tag
  BY NamesOK, LenProperties, ElementOfSeq
<1>2. PICK g : Strips(g, text)
  BY StripSteps
<1>3. /\ g[0] = [out |-> <<>>, inside |-> FALSE]
      /\ \A n \in 1..Len(text) : g[n] = Strip(g[n - 1], text[n])
      /\ \A n \in 0..Len(text) : g[n] \in Stripped
      /\ StripEmoji(text) = g[Len(text)].out
  BY <1>2, Zenon DEF Strips
<1>0. PICK f : Nests(f, text)
  BY NestSteps
<1>4. /\ f[0] = <<>>
      /\ \A n \in 1..Len(text) : f[n] = Nest(f[n - 1], text[n])
      /\ \A n \in 0..Len(text) : f[n] \in Seq(Names) /\ Nothing \notin ToSet(f[n])
  BY <1>0, Zenon DEF Nests
<1> DEFINE S == {n \in 0..Len(text) : Bare(g[n], f[n], Pending(n))}
<1>5. 0 \in S
  <2>1. ToSet(<<>>) = {} /\ Len(<<>>) = 0
    BY NoElement DEF ToSet
  <2>2. g[0].out = <<>> /\ ~g[0].inside
    BY <1>3
  <2>3. Bare(g[0], f[0], Pending(0))
    <3> HIDE DEF Pending
    <3> QED
      BY <1>4, <2>1, <2>2 DEF Bare
  <2>4. 0 \in 0..Len(text)
    BY <1>1
  <2> HIDE DEF Pending
  <2> QED
    BY <2>3, <2>4
<1>6. ASSUME NEW k \in 0..(Len(text) - 1), k \in S PROVE k + 1 \in S
  <2> DEFINE n == k + 1
             t == text[n]
  <2>1. n \in 1..Len(text) /\ n - 1 = k /\ n \in 0..Len(text) /\ k \in 0..Len(text) /\ k \in Nat /\ n = k + 1
    BY <1>1
  <2> HIDE DEF n
  <2>2. /\ g[n] = Strip(g[k], t) /\ f[n] = Nest(f[k], t) /\ t \in Tag
        /\ g[k] \in Stripped /\ f[k] \in Seq(Names) /\ Nothing \notin ToSet(f[n])
    BY <1>1, <1>3, <1>4, <2>1
  <2>3. Bare(g[k], f[k], Pending(k))
    BY <1>6, Zenon
  <2>4. Pending(k) => ~Opener(n)
    <3> SUFFICES ASSUME NEW i \in 1..k, Opener(i), \A l \in i..k : text[l].tag = e => text[l].kind = "open", Opener(n) PROVE FALSE
      OBVIOUS
    <3>1. i \in DOMAIN text /\ n \in DOMAIN text /\ i < n /\ \A l \in i..n : l \in i..k \/ l = n
      BY <1>1, <2>1
    <3>2. \A l \in {i, n} : text[l].tag = e /\ text[l].kind = "open"
      OBVIOUS
    <3>3. \A l \in i..n : text[l].tag = e => text[l].kind = "open"
      BY <3>1, <3>2
    <3> QED
      BY <3>1, <3>2, <3>3 DEF EmojiNested
  <2>5. Opener(n) => Pending(n)
    <3>1. n \in 1..n /\ \A l \in n..n : l = n
      BY <2>1
    <3> QED
      BY <3>1
  <2>6. Pending(k) /\ t.tag # e => Pending(n)
    <3> SUFFICES ASSUME NEW i \in 1..k, Opener(i), \A l \in i..k : text[l].tag = e => text[l].kind = "open", t.tag # e PROVE Pending(n)
      OBVIOUS
    <3>1. i \in 1..n /\ \A l \in i..n : l \in i..k \/ l = n
      BY <1>1, <2>1
    <3> QED
      BY <3>1
  <2>7. Opener(n) <=> t.tag = "tg-emoji" /\ t.kind = "open"
    OBVIOUS
  <2> HIDE DEF Pending, Opener
  <2>8. Bare(Strip(g[k], t), Nest(f[k], t), Pending(n))
    <3> DEFINE s == f[k]
               p == g[k]
               was == Pending(k)
               is == Pending(n)
    <3>1. /\ p \in Stripped /\ s \in Seq(Names) /\ t \in Tag /\ Nothing \notin ToSet(Nest(s, t)) /\ Bare(p, s, was)
          /\ was => ~(t.tag = "tg-emoji" /\ t.kind = "open")
          /\ t.tag = "tg-emoji" /\ t.kind = "open" => is
          /\ was /\ t.tag # "tg-emoji" => is
      BY <2>2, <2>3, <2>4, <2>5, <2>6, <2>7
    <3> HIDE DEF s, p, was, is, t
    <3>2. Bare(Strip(p, t), Nest(s, t), is)
      BY <3>1, BareStays
    <3> QED
      BY <3>2 DEF s, p, is
  <2>9. Bare(g[n], f[n], Pending(n))
    BY <2>2, <2>8
  <2> QED
    BY <2>1, <2>9 DEF n
<1> HIDE DEF S
<1>7. \A k \in 0..Len(text) : k \in S
  BY <1>1, <1>5, <1>6, Stepwise
<1>8. Len(text) \in 0..Len(text)
  BY <1>1
<1>9. Bare(g[Len(text)], f[Len(text)], Pending(Len(text)))
  <2> HIDE DEF Pending
  <2> QED
    BY <1>7, <1>8 DEF S
<1>10. \A t \in ToSet(StripEmoji(text)) : t.tag # "tg-emoji"
  BY <1>3, <1>9, Zenon DEF Bare
<1> QED
  BY <1>10 DEF HasEmoji, ToSet

\* publish(): what is sent once more has no custom emoji that could be refused
\* again, unless an emoji was within an emoji, and it says what the post says.
THEOREM StrippedLosesEmojiOnly ==
  \A text \in Texts : LET again == Sanitize(StripEmoji(Sanitize(text))) IN
    /\ ~EmojiNested(Sanitize(text)) => ~HasEmoji(again)
    /\ Says(text) => Says(Sanitize(text)) /\ Says(again)
<1> SUFFICES ASSUME NEW text \in Texts
             PROVE  LET again == Sanitize(StripEmoji(Sanitize(text))) IN
                    /\ ~EmojiNested(Sanitize(text)) => ~HasEmoji(again)
                    /\ Says(text) => Says(Sanitize(text)) /\ Says(again)
  OBVIOUS
<1> DEFINE first == Sanitize(text)
           bare == StripEmoji(first)
<1>1. first \in Texts /\ StillOpen(first) = <<>>
  BY SanitizedIsAccepted DEF Accepts
<1>2. Says(text) => Says(first)
  BY SanitizedSays
<1> HIDE DEF first
<1>3. bare \in Texts /\ (~EmojiNested(first) => ~HasEmoji(bare)) /\ (Says(first) => Says(bare))
  BY <1>1, StrippedOK, StrippedNoEmoji, StrippedSays
<1> HIDE DEF bare
<1>4. (~HasEmoji(bare) => ~HasEmoji(Sanitize(bare))) /\ (Says(bare) => Says(Sanitize(bare)))
  BY <1>3, SanitizedNoEmoji, SanitizedSays
<1> QED
  BY <1>2, <1>3, <1>4 DEF first, bare

-----------------------------------------------------------------------------
(* A text without markup. *)

Plain(text) == \A i \in DOMAIN text : text[i].kind = "char"

LEMMA CharsOf ==
  ASSUME NEW text \in Texts
  PROVE  /\ Chars(text) \in Nat /\ Chars(text) <= Len(text)
         /\ Says(text) <=> Chars(text) > 0
         /\ Plain(text) <=> Chars(text) = Len(text)
<1> DEFINE its == {i \in DOMAIN text : text[i].kind = "char"}
           n == Len(text)
<1>1. n \in Nat /\ DOMAIN text = 1..n
  BY NamesOK, LenProperties
<1> HIDE DEF n
<1>2. IsFiniteSet(1..n) /\ Cardinality(1..n) = n
  BY <1>1, FS_Interval
<1>3. its \in SUBSET (1..n)
  BY <1>1
<1>4. Says(text) <=> its # {}
  BY DEF Says, ToSet
<1>5. Plain(text) <=> its = 1..n
  BY <1>1 DEF Plain
<1>6. Chars(text) = Cardinality(its)
  BY DEF Chars
<1> HIDE DEF its
<1>7. IsFiniteSet(its) /\ Cardinality(its) <= n /\ (n = Cardinality(its) => its = 1..n)
  BY <1>2, <1>3, FS_Subset
<1>8. Cardinality(its) \in Nat /\ (Cardinality(its) = 0 <=> its = {})
  BY <1>7, FS_CardinalityType, FS_EmptySet
<1> QED
  BY <1>2, <1>4, <1>5, <1>6, <1>7, <1>8 DEF n

LEMMA PlainIsAccepted ==
  ASSUME NEW text \in Texts, Plain(text)
  PROVE  Accepts(text)
<1>1. text \in Seq(Tag) /\ Len(text) \in Nat /\ DOMAIN text = 1..Len(text) /\ \A n \in 1..Len(text) : text[n] \in Tag
  BY NamesOK, LenProperties, ElementOfSeq
<1>2. \A i \in 1..Len(text) : text[i].kind = "char"
  BY <1>1 DEF Plain
<1>3. PICK f : Folds(f, "nest", <<>>, text, Len(text))
  BY <1>1, FoldExists
<1> DEFINE S == {n \in 0..Len(text) : f[n] = <<>>}
<1>4. 0 \in S
  BY <1>1, <1>3 DEF Folds
<1>5. ASSUME NEW k \in 0..(Len(text) - 1), k \in S PROVE k + 1 \in S
  <2>1. k + 1 \in 1..Len(text) /\ (k + 1) - 1 = k /\ k + 1 \in 0..Len(text) /\ k + 1 # 0
    BY <1>1
  <2>2. f[k + 1] = Step("nest", f[k], text[k + 1])
    BY <1>3, <2>1 DEF Folds
  <2>3. f[k] = <<>> /\ text[k + 1].kind = "char"
    BY <1>2, <1>5, <2>1
  <2>4. f[k + 1] = <<>>
    BY <2>2, <2>3 DEF Step, Nest
  <2> QED
    BY <2>1, <2>4
<1> HIDE DEF S
<1>6. \A k \in 0..Len(text) : k \in S
  BY <1>1, <1>4, <1>5, Stepwise
<1>7. f[Len(text)] = <<>>
  <2>1. Len(text) \in 0..Len(text)
    BY <1>1
  <2> QED
    BY <1>6, <2>1 DEF S
<1>8. StillOpen(text) = <<>>
  BY <1>1, <1>3, <1>7, FoldResult, StillOpenIs
<1>9. \A i \in DOMAIN text : text[i].kind # "open"
  BY <1>1, <1>2
<1> QED
  BY <1>8, <1>9 DEF Accepts
=============================================================================
