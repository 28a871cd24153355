--------------------------- MODULE SequenceLemmas ---------------------------
(***************************************************************************)
(* Facts about natural numbers and sequences on which the proofs about the *)
(* executor rest.  Induction is stated for a set of numbers, and what the  *)
(* recursive operator FlattenSeq computes is proved with it.               *)
(***************************************************************************)
EXTENDS Integers, Sequences, SequencesExt, SequenceTheorems, FiniteSetTheorems,
        WellFoundedInduction, TLAPS

\* A set of numbers that is not empty has a least one: of the intervals from 0 to its members,
\* which are finite, one has no other below it.
LEMMA LeastNatural ==
  ASSUME NEW T, T \subseteq Nat, T # {}
  PROVE  \E x \in T : \A y \in T : x <= y
<1> DEFINE F == {0 .. n : n \in T}
           R == StrictSubsetOrdering(Nat)
<1>1. F \subseteq FiniteSubsetsOf(Nat) /\ F # {}
  <2>1. ASSUME NEW n \in T
        PROVE  0 .. n \in FiniteSubsetsOf(Nat)
    <3>1. n \in Int /\ 0 \in Int /\ 0 .. n \subseteq Nat
      OBVIOUS
    <3>2. IsFiniteSet(0 .. n)
      BY <3>1, FS_Interval
    <3>3. QED
      BY <3>1, <3>2 DEF FiniteSubsetsOf
  <2>2. QED
    BY <2>1
<1>2. IsWellFoundedOn(R, FiniteSubsetsOf(Nat))
  BY FS_StrictSubsetOrderingWellFounded
<1> HIDE DEF F, R
<1>3. PICK I \in F : \A J \in F : ~ (<<J, I>> \in R)
  BY <1>1, <1>2, WFMin
<1>4. PICK x \in T : I = 0 .. x
  BY DEF F
<1>5. ASSUME NEW y \in T
      PROVE  x <= y
  <2>1. 0 .. y \in F
    BY DEF F
  <2>2. ~ (<<0 .. y, 0 .. x>> \in R)
    BY <1>3, <1>4, <2>1
  <2>3. y < x => /\ 0 .. y \in SUBSET Nat /\ 0 .. x \in SUBSET Nat
                 /\ 0 .. y \subseteq 0 .. x /\ 0 .. y # 0 .. x
    <3> SUFFICES ASSUME y < x
                 PROVE  0 .. y \subseteq 0 .. x /\ x \in 0 .. x /\ x \notin 0 .. y
      OBVIOUS
    <3>1. QED
      OBVIOUS
  <2>4. QED
    BY <2>2, <2>3 DEF R, StrictSubsetOrdering
<1>6. QED
  BY <1>5

\* Induction over the natural numbers.
LEMMA SetInduction ==
  ASSUME NEW T, 0 \in T, \A n \in Nat : n \in T => n + 1 \in T
  PROVE  Nat \subseteq T
<1> SUFFICES ASSUME Nat \ T # {}
             PROVE  FALSE
  OBVIOUS
<1>1. PICK x \in Nat \ T : \A y \in Nat \ T : x <= y
  BY LeastNatural
<1>2. x # 0 /\ x - 1 \in Nat /\ x - 1 \in T
  BY <1>1
<1>3. QED
  BY <1>1, <1>2

\* Stated of an operator of its own, whose uses a prover can instantiate.
Associates(s, t, u) == (s \o t) \o u = s \o (t \o u)

LEMMA ThreeConcat ==
  ASSUME NEW S, NEW s \in Seq(S), NEW t \in Seq(S), NEW u \in Seq(S)
  PROVE  Associates(s, t, u)
BY ConcatAssociative DEF Associates

LEMMA ConcatAppend ==
  ASSUME NEW S, NEW s \in Seq(S), NEW t \in Seq(S), NEW e \in S
  PROVE  s \o Append(t, e) = Append(s \o t, e)
OBVIOUS

-----------------------------------------------------------------------------
(* FlattenSeq joins the sequences of a sequence.                           *)

\* f holds what is joined of s after each of its first n members.
JoinsUpTo(s, n, f) ==
  /\ DOMAIN f = 0 .. n
  /\ f[0] = <<>>
  /\ \A i \in 1 .. n : f[i] = f[i - 1] \o s[i]

Joins(s, f) == JoinsUpTo(s, Len(s), f)

LEMMA JoinsTyped ==
  ASSUME NEW S, NEW s \in Seq(Seq(S)), NEW f, Joins(s, f)
  PROVE  \A i \in 0 .. Len(s) : f[i] \in Seq(S)
<1> USE DEF JoinsUpTo
<1> DEFINE T == {n \in Nat : n <= Len(s) => f[n] \in Seq(S)}
<1>1. 0 \in T
  <2>1. f[0] \in Seq(S)
    BY EmptySeq DEF Joins
  <2>2. QED
    BY <2>1
<1>2. ASSUME NEW n \in Nat, n \in T
      PROVE  n + 1 \in T
  <2> SUFFICES ASSUME n + 1 <= Len(s)
               PROVE  f[n + 1] \in Seq(S)
    OBVIOUS
  <2>1. Len(s) \in Nat
    OBVIOUS
  <2>2. n + 1 \in 1 .. Len(s) /\ n <= Len(s) /\ (n + 1) - 1 = n
    BY <2>1
  <2>3. f[n] \in Seq(S) /\ s[n + 1] \in Seq(S)
    BY <1>2, <2>2
  <2>4. f[n + 1] = f[n] \o s[n + 1]
    BY <2>2 DEF Joins
  <2>5. QED
    BY <2>3, <2>4
<1> HIDE DEF T
<1>3. Nat \subseteq T
  BY <1>1, <1>2, SetInduction
<1>4. QED
  BY <1>3 DEF T

LEMMA JoinsAgree ==
  ASSUME NEW s, NEW t, NEW f, NEW g, NEW k \in Nat, NEW m \in Nat, NEW n \in Nat,
         JoinsUpTo(s, k, f), JoinsUpTo(t, m, g), n <= k, n <= m, \A i \in 1 .. n : s[i] = t[i]
  PROVE  f[n] = g[n]
<1> USE DEF JoinsUpTo
<1> DEFINE T == {l \in Nat : l <= n => f[l] = g[l]}
<1>1. 0 \in T
  OBVIOUS
<1>2. ASSUME NEW l \in Nat, l \in T
      PROVE  l + 1 \in T
  <2> SUFFICES ASSUME l + 1 <= n
               PROVE  f[l + 1] = g[l + 1]
    OBVIOUS
  <2>1. l + 1 \in 1 .. n /\ l + 1 \in 1 .. k /\ l + 1 \in 1 .. m /\ l <= n /\ (l + 1) - 1 = l
    OBVIOUS
  <2>2. f[l + 1] = f[l] \o s[l + 1] /\ g[l + 1] = g[l] \o t[l + 1]
    BY <2>1
  <2>3. QED
    BY <1>2, <2>1, <2>2
<1> HIDE DEF T
<1>3. Nat \subseteq T
  BY <1>1, <1>2, SetInduction
<1>4. QED
  BY <1>3 DEF T

LEMMA JoinsExtend ==
  ASSUME NEW s, NEW n \in Nat, NEW f, JoinsUpTo(s, n, f)
  PROVE  \E g : JoinsUpTo(s, n + 1, g)
<1> DEFINE last == f[n] \o s[n + 1]
<1> HIDE DEF last
<1> DEFINE g == [i \in 0 .. n + 1 |-> IF i = n + 1 THEN last ELSE f[i]]
<1>1. DOMAIN g = 0 .. n + 1 /\ g[n + 1] = last /\ \A i \in 0 .. n : g[i] = f[i]
  OBVIOUS
<1> HIDE DEF g
<1>2. n \in 0 .. n /\ \A i \in 1 .. n : i \in 0 .. n /\ i - 1 \in 0 .. n
  OBVIOUS
<1>3. g[n + 1] = g[n] \o s[n + 1]
  BY <1>1, <1>2 DEF last
<1>4. \A i \in 1 .. n : g[i] = g[i - 1] \o s[i]
  BY <1>1, <1>2 DEF JoinsUpTo
<1>5. \A i \in 1 .. n + 1 : g[i] = g[i - 1] \o s[i]
  <2> TAKE i \in 1 .. n + 1
  <2>1. i \in 1 .. n \/ (i = n + 1 /\ i - 1 = n)
    OBVIOUS
  <2>2. QED
    BY <1>3, <1>4, <2>1
<1>6. g[0] = <<>>
  BY <1>1 DEF JoinsUpTo
<1>7. JoinsUpTo(s, n + 1, g)
  BY <1>1, <1>5, <1>6 DEF JoinsUpTo
<1>8. QED
  BY <1>7

LEMMA JoinsExists ==
  ASSUME NEW s, Len(s) \in Nat
  PROVE  \E f : Joins(s, f)
<1> DEFINE T == {n \in Nat : \E f : JoinsUpTo(s, n, f)}
<1>1. 0 \in T
  <2>1. JoinsUpTo(s, 0, [i \in 0 .. 0 |-> <<>>])
    BY DEF JoinsUpTo
  <2>2. QED
    BY <2>1
<1>2. \A n \in Nat : n \in T => n + 1 \in T
  BY JoinsExtend
<1> HIDE DEF T
<1>3. Len(s) \in T
  BY <1>1, <1>2, SetInduction
<1>4. QED
  BY <1>3 DEF T, Joins

LEMMA PrefixJoins ==
  ASSUME NEW s, NEW t, NEW f, NEW g, Joins(s, f), Joins(t, g), Len(s) \in Nat,
         Len(t) = Len(s) \/ Len(t) = Len(s) + 1, \A i \in 1 .. Len(s) : t[i] = s[i]
  PROVE  f[Len(s)] = g[Len(s)]
<1>1. /\ Len(t) \in Nat /\ Len(s) <= Len(s) /\ Len(s) <= Len(t)
      /\ \A i \in 1 .. Len(s) : s[i] = t[i]
  OBVIOUS
<1>2. JoinsUpTo(s, Len(s), f) /\ JoinsUpTo(t, Len(t), g)
  BY DEF Joins
<1>3. QED
  BY <1>1, <1>2, JoinsAgree

LEMMA FlattenJoins ==
  ASSUME NEW S, NEW s \in Seq(Seq(S)), NEW f, Joins(s, f)
  PROVE  FlattenSeq(s) = f[Len(s)]
<1> USE DEF JoinsUpTo
<1>0. /\ f[0] = <<>>
      /\ \A i \in 1 .. Len(s) : f[i] = f[i - 1] \o s[i] /\ s[i] \in Seq(S)
  <2>1. \A i \in 1 .. Len(s) : s[i] \in Seq(S)
    OBVIOUS
  <2>2. QED
    BY <2>1 DEF Joins
<1>1. CASE Len(s) = 0
  BY <1>1 DEF FlattenSeq, Joins
<1>2. CASE Len(s) # 0
  <2> DEFINE Eq(h) == h = [i \in 1 .. Len(s) |-> IF i = 1 THEN s[i] ELSE h[i - 1] \o s[i]]
             g == CHOOSE h : Eq(h)
  <2>1. Len(s) \in Nat \ {0}
    BY <1>2
  <2>2. Eq([i \in 1 .. Len(s) |-> f[i]])
    <3> DEFINE h == [i \in 1 .. Len(s) |-> f[i]]
    <3>1. ASSUME NEW i \in 1 .. Len(s)
          PROVE  h[i] = IF i = 1 THEN s[i] ELSE h[i - 1] \o s[i]
      <4>1. h[i] = f[i] /\ f[i] = f[i - 1] \o s[i] /\ s[i] \in Seq(S)
        BY <1>0
      <4>2. CASE i = 1
        <5>1. f[i - 1] = <<>>
          BY <1>0, <4>2
        <5>2. f[i] = s[i]
          BY <4>1, <5>1, ConcatEmptySeq
        <5>3. QED
          BY <4>1, <4>2, <5>2
      <4>3. CASE i # 1
        <5>1. i - 1 \in 1 .. Len(s)
          BY <2>1, <4>3
        <5>2. h[i - 1] = f[i - 1]
          BY <5>1
        <5> HIDE DEF h
        <5>3. QED
          BY <4>1, <4>3, <5>2
      <4>4. QED
        BY <4>2, <4>3
    <3>2. QED
      BY <3>1
  <2>3. Eq(g)
    BY <2>2
  <2>4. FlattenSeq(s) = g[Len(s)]
    BY <1>2 DEF FlattenSeq
  <2> DEFINE h == [i \in 0 .. Len(s) |-> IF i = 0 THEN <<>> ELSE g[i]]
  <2>5. Joins(s, h)
    <3> HIDE DEF g
    <3>1. ASSUME NEW i \in 1 .. Len(s)
          PROVE  h[i] = h[i - 1] \o s[i]
      <4>1. h[i] = g[i]
        BY <2>1
      <4> HIDE DEF h
      <4>2. g[i] = IF i = 1 THEN s[i] ELSE g[i - 1] \o s[i]
        <5>1. g = [k \in 1 .. Len(s) |-> IF k = 1 THEN s[k] ELSE g[k - 1] \o s[k]]
          BY <2>3
        <5> DEFINE w == [k \in 1 .. Len(s) |-> IF k = 1 THEN s[k] ELSE g[k - 1] \o s[k]]
        <5>2. w[i] = IF i = 1 THEN s[i] ELSE g[i - 1] \o s[i]
          OBVIOUS
        <5> HIDE DEF w
        <5>3. g = w
          BY <5>1 DEF w
        <5>4. QED
          BY <5>2, <5>3
      <4>3. CASE i = 1
        <5>1. h[i - 1] = <<>> /\ s[i] \in Seq(S)
          BY <2>1, <4>3 DEF h
        <5>2. QED
          BY <4>1, <4>2, <4>3, <5>1, ConcatEmptySeq
      <4>4. CASE i # 1
        <5>1. i - 1 \in 1 .. Len(s) /\ i - 1 # 0
          BY <2>1, <4>4
        <5>2. h[i - 1] = g[i - 1]
          BY <2>1, <5>1 DEF h
        <5>3. QED
          BY <4>1, <4>2, <4>4, <5>2
      <4>5. QED
        BY <4>3, <4>4
    <3>2. QED
      BY <2>1, <3>1 DEF Joins
  <2>6. f[Len(s)] = h[Len(s)] /\ h[Len(s)] = g[Len(s)]
    <3> HIDE DEF g, h
    <3>1. f[Len(s)] = h[Len(s)]
      BY <2>1, <2>5, PrefixJoins
    <3>2. QED
      BY <2>1, <3>1 DEF h
  <2>7. QED
    BY <2>4, <2>6
<1>3. QED
  BY <1>1, <1>2

-----------------------------------------------------------------------------
(* What follows for FlattenSeq.                                            *)

LEMMA FlattenEmpty == FlattenSeq(<<>>) = <<>>
BY DEF FlattenSeq

LEMMA FlattenTyped ==
  ASSUME NEW S, NEW s \in Seq(Seq(S))
  PROVE  FlattenSeq(s) \in Seq(S)
<1>1. PICK f : Joins(s, f)
  BY JoinsExists
<1>2. f[Len(s)] \in Seq(S)
  BY <1>1, JoinsTyped
<1>3. QED
  BY <1>1, <1>2, FlattenJoins

LEMMA FlattenAppend ==
  ASSUME NEW S, NEW s \in Seq(Seq(S)), NEW e \in Seq(S)
  PROVE  FlattenSeq(Append(s, e)) = FlattenSeq(s) \o e
<1> DEFINE t == Append(s, e)
<1>1. /\ t \in Seq(Seq(S)) /\ Len(t) = Len(s) + 1 /\ Len(s) \in Nat
      /\ \A i \in 1 .. Len(s) : t[i] = s[i]
      /\ t[Len(s) + 1] = e
  OBVIOUS
<1> HIDE DEF t
<1>2. PICK f : Joins(s, f)
  BY JoinsExists
<1>3. PICK g : Joins(t, g)
  BY <1>1, JoinsExists
<1>4. g[Len(s) + 1] = g[Len(s)] \o e
  <2>1. Len(s) + 1 \in 1 .. Len(t) /\ (Len(s) + 1) - 1 = Len(s)
    BY <1>1
  <2>2. QED
    BY <1>1, <1>3, <2>1 DEF Joins, JoinsUpTo
<1>5. f[Len(s)] = g[Len(s)]
  BY <1>1, <1>2, <1>3, PrefixJoins
<1>6. FlattenSeq(s) = f[Len(s)] /\ FlattenSeq(t) = g[Len(t)]
  BY <1>1, <1>2, <1>3, FlattenJoins
<1>7. QED
  BY <1>1, <1>4, <1>5, <1>6 DEF t

\* FlattenSeq takes s and t apart.
Splits(s, t) == FlattenSeq(s \o t) = FlattenSeq(s) \o FlattenSeq(t)

LEMMA SplitsNothing ==
  ASSUME NEW S, NEW s \in Seq(Seq(S))
  PROVE  Splits(s, <<>>)
<1>1. s \o <<>> = s
  BY ConcatEmptySeq
<1>2. FlattenSeq(s) \o <<>> = FlattenSeq(s)
  BY FlattenTyped, ConcatEmptySeq
<1>3. QED
  BY <1>1, <1>2, FlattenEmpty DEF Splits

LEMMA SplitsAppend ==
  ASSUME NEW S, NEW s \in Seq(Seq(S)), NEW u \in Seq(Seq(S)), NEW e \in Seq(S), Splits(s, u)
  PROVE  Splits(s, Append(u, e))
<1> DEFINE x == FlattenSeq(s)
           y == FlattenSeq(u)
<1>1. s \o Append(u, e) = Append(s \o u, e) /\ s \o u \in Seq(Seq(S))
  BY ConcatAppend
<1>2. FlattenSeq(Append(s \o u, e)) = (x \o y) \o e
  BY <1>1, FlattenAppend DEF Splits
<1>3. FlattenSeq(Append(u, e)) = y \o e
  BY FlattenAppend
<1>4. x \in Seq(S) /\ y \in Seq(S) /\ e \in Seq(S)
  BY FlattenTyped
<1>5. (x \o y) \o e = x \o (y \o e)
  <2> HIDE DEF x, y
  <2>1. Associates(x, y, e)
    BY <1>4, ThreeConcat
  <2>2. QED
    BY <2>1 DEF Associates
<1>6. QED
  BY <1>1, <1>2, <1>3, <1>5, Zenon DEF Splits

LEMMA SplitsAll ==
  ASSUME NEW S, NEW s \in Seq(Seq(S)), NEW t \in Seq(Seq(S))
  PROVE  Splits(s, t)
<1> DEFINE T == {n \in Nat : n <= Len(t) => Splits(s, SubSeq(t, 1, n))}
<1>1. 0 \in T
  <2>1. SubSeq(t, 1, 0) = <<>>
    OBVIOUS
  <2>2. QED
    BY <2>1, SplitsNothing
<1>2. ASSUME NEW n \in Nat, n \in T
      PROVE  n + 1 \in T
  <2> SUFFICES ASSUME n + 1 <= Len(t)
               PROVE  Splits(s, SubSeq(t, 1, n + 1))
    OBVIOUS
  <2> DEFINE u == SubSeq(t, 1, n)
             e == t[n + 1]
  <2>1. u \in Seq(Seq(S)) /\ e \in Seq(S) /\ SubSeq(t, 1, n + 1) = Append(u, e)
    OBVIOUS
  <2>2. Splits(s, u)
    BY <1>2
  <2> HIDE DEF e, u
  <2>3. Splits(s, Append(u, e))
    BY <2>1, <2>2, SplitsAppend
  <2>4. QED
    BY <2>1, <2>3
<1> HIDE DEF T
<1>3. Len(t) \in T
  <2>1. Nat \subseteq T
    BY <1>1, <1>2, SetInduction
  <2>2. QED
    BY <2>1
<1>4. SubSeq(t, 1, Len(t)) = t /\ Len(t) <= Len(t)
  BY SubSeqFull
<1>5. QED
  BY <1>3, <1>4 DEF T

LEMMA FlattenConcat ==
  ASSUME NEW S, NEW s \in Seq(Seq(S)), NEW t \in Seq(Seq(S))
  PROVE  FlattenSeq(s \o t) = FlattenSeq(s) \o FlattenSeq(t)
BY SplitsAll DEF Splits

\* The first member comes first.
LEMMA FlattenSingle ==
  ASSUME NEW S, NEW e \in Seq(S)
  PROVE  FlattenSeq(<<e>>) = e
<1>1. <<e>> = Append(<<>>, e) /\ <<>> \in Seq(Seq(S))
  OBVIOUS
<1>2. FlattenSeq(<<e>>) = <<>> \o e
  BY <1>1, FlattenAppend, FlattenEmpty
<1>3. QED
  BY <1>2, ConcatEmptySeq

LEMMA FlattenFirst ==
  ASSUME NEW S, NEW s \in Seq(Seq(S)), s # <<>>
  PROVE  FlattenSeq(s) = Head(s) \o FlattenSeq(Tail(s))
<1> DEFINE h == <<Head(s)>>
           u == Tail(s)
<1>1. s = h \o u /\ Head(s) \in Seq(S) /\ u \in Seq(Seq(S))
  OBVIOUS
<1>2. h \in Seq(Seq(S))
  BY <1>1
<1>3. FlattenSeq(h) = Head(s)
  BY <1>1, FlattenSingle
<1> HIDE DEF h, u
<1>4. Splits(h, u)
  BY <1>1, <1>2, SplitsAll
<1>5. QED
  BY <1>1, <1>3, <1>4 DEF Splits, u

\* Empty members add nothing.
LEMMA FlattenNothing ==
  ASSUME NEW S, NEW s \in Seq(Seq(S)), \A i \in 1 .. Len(s) : s[i] = <<>>
  PROVE  FlattenSeq(s) = <<>>
<1> USE DEF JoinsUpTo
<1>1. PICK f : Joins(s, f)
  BY JoinsExists
<1> DEFINE T == {n \in Nat : n <= Len(s) => f[n] = <<>>}
<1>2. 0 \in T
  BY <1>1 DEF Joins
<1>3. ASSUME NEW n \in Nat, n \in T
      PROVE  n + 1 \in T
  <2> SUFFICES ASSUME n + 1 <= Len(s)
               PROVE  f[n + 1] = <<>>
    OBVIOUS
  <2>1. n + 1 \in 1 .. Len(s) /\ (n + 1) - 1 = n /\ n <= Len(s)
    OBVIOUS
  <2>2. f[n + 1] = f[n] \o s[n + 1]
    BY <1>1, <2>1 DEF Joins
  <2>3. f[n] = <<>> /\ s[n + 1] = <<>>
    BY <1>3, <2>1
  <2>4. QED
    BY <2>2, <2>3
<1> HIDE DEF T
<1>4. Len(s) \in T
  BY <1>2, <1>3, SetInduction
<1>5. f[Len(s)] = <<>>
  BY <1>4 DEF T
<1>6. QED
  BY <1>1, <1>5, FlattenJoins
-----------------------------------------------------------------------------
(* Concatenation, and the joining of what remains of a sequence without    *)
(* one member.  Cat is concatenation under a name of its own: its uses are *)
(* terms like any other to a prover.                                       *)

Cat(s, t) == s \o t

LEMMA CatTyped ==
  ASSUME NEW S, NEW s \in Seq(S), NEW t \in Seq(S)
  PROVE  Cat(s, t) \in Seq(S)
BY DEF Cat

LEMMA CatEmpty ==
  ASSUME NEW S, NEW s \in Seq(S)
  PROVE  Cat(s, <<>>) = s /\ Cat(<<>>, s) = s
BY ConcatEmptySeq DEF Cat

LEMMA CatAssociative ==
  ASSUME NEW S, NEW s \in Seq(S), NEW t \in Seq(S), NEW u \in Seq(S)
  PROVE  Cat(Cat(s, t), u) = Cat(s, Cat(t, u))
BY ThreeConcat DEF Cat, Associates

LEMMA CatFlatten ==
  ASSUME NEW S, NEW s \in Seq(Seq(S)), NEW t \in Seq(Seq(S))
  PROVE  FlattenSeq(Cat(s, t)) = Cat(FlattenSeq(s), FlattenSeq(t))
BY SplitsAll DEF Cat, Splits

LEMMA CatFlattenAppend ==
  ASSUME NEW S, NEW s \in Seq(Seq(S)), NEW e \in Seq(S)
  PROVE  FlattenSeq(Append(s, e)) = Cat(FlattenSeq(s), e)
BY FlattenAppend DEF Cat

LEMMA CatFlattenFirst ==
  ASSUME NEW S, NEW s \in Seq(Seq(S)), s # <<>>
  PROVE  FlattenSeq(s) = Cat(Head(s), FlattenSeq(Tail(s)))
BY FlattenFirst DEF Cat

\* The members of two sequences one after the other.
LEMMA CatMembers ==
  ASSUME NEW S, NEW s \in Seq(S), NEW t \in Seq(S)
  PROVE  /\ Cat(s, t) \in Seq(S)
         /\ Len(Cat(s, t)) = Len(s) + Len(t)
         /\ \A j \in 1 .. Len(s) + Len(t) :
              Cat(s, t)[j] = IF j <= Len(s) THEN s[j] ELSE t[j - Len(s)]
BY ConcatProperties DEF Cat

\* A member is put at the end.
LEMMA AppendMembers ==
  ASSUME NEW S, NEW s \in Seq(S), NEW e \in S
  PROVE  /\ Append(s, e) \in Seq(S)
         /\ Len(Append(s, e)) = Len(s) + 1
         /\ Append(s, e)[Len(s) + 1] = e
         /\ \A i \in DOMAIN Append(s, e) :
              Append(s, e)[i] = e \/ (i \in DOMAIN s /\ Append(s, e)[i] = s[i])
<1> DEFINE p == Append(s, e)
           n == Len(s)
<1>1. p \in Seq(S) /\ Len(p) = n + 1 /\ n \in Nat /\ DOMAIN s = 1 .. n /\ DOMAIN p = 1 .. n + 1
  OBVIOUS
<1>2. p[n + 1] = e
  OBVIOUS
<1>3. \A i \in 1 .. n : p[i] = s[i]
  OBVIOUS
<1> HIDE DEF p, n
<1>4. \A i \in 1 .. n + 1 : i = n + 1 \/ i \in 1 .. n
  BY <1>1
<1>5. \A i \in DOMAIN p : p[i] = e \/ (i \in DOMAIN s /\ p[i] = s[i])
  BY <1>1, <1>2, <1>3, <1>4
<1>6. QED
  BY <1>1, <1>2, <1>5 DEF p, n

LEMMA AppendAny ==
  ASSUME NEW S, NEW s \in Seq(S), NEW e, NEW i \in DOMAIN Append(s, e)
  PROVE  \/ i = Len(s) + 1 /\ Append(s, e)[i] = e
         \/ i \in DOMAIN s /\ Append(s, e)[i] = s[i]
<1> DEFINE T == S \cup {e}
           p == Append(s, e)
           n == Len(s)
<1>1. s \in Seq(T) /\ e \in T
  OBVIOUS
<1>2. n \in Nat /\ DOMAIN s = 1 .. n /\ DOMAIN p = 1 .. n + 1
  <2> HIDE DEF T
  <2>1. QED
    BY <1>1
<1>3. p[n + 1] = e
  <2> HIDE DEF T
  <2>1. QED
    BY <1>1
<1>4. \A j \in 1 .. n : p[j] = s[j]
  <2> HIDE DEF T
  <2>1. QED
    BY <1>1
<1>5. i \in DOMAIN p
  OBVIOUS
<1> HIDE DEF p, n
<1>6. i = n + 1 \/ i \in 1 .. n
  BY <1>2, <1>5
<1>7. QED
  BY <1>2, <1>3, <1>4, <1>6 DEF p, n

LEMMA SameMembers ==
  ASSUME NEW S, NEW s \in Seq(S), NEW t \in Seq(S), Len(s) = Len(t),
         \A j \in 1 .. Len(s) : s[j] = t[j]
  PROVE  s = t
BY SeqEqual

\* A sequence of one member.
LEMMA Single ==
  ASSUME NEW S, NEW e \in S
  PROVE  \E p \in Seq(S) : p = <<e>> /\ Len(p) = 1 /\ p[1] = e
<1>1. <<e>> \in Seq(S) /\ Len(<<e>>) = 1 /\ <<e>>[1] = e
  OBVIOUS
<1>2. QED
  BY <1>1

\* Two sequences that begin with one member each, and are the same.
LEMMA CatCancel ==
  ASSUME NEW S, NEW h \in S, NEW e \in S, NEW a \in Seq(S), NEW b \in Seq(S)
  PROVE  Cat(<<h>>, a) = Cat(<<e>>, b) => h = e /\ a = b
<1>0. SUFFICES ASSUME Cat(<<h>>, a) = Cat(<<e>>, b)
               PROVE  h = e /\ a = b
  OBVIOUS
<1>1. PICK p \in Seq(S) : p = <<h>> /\ Len(p) = 1 /\ p[1] = h
  BY Single
<1>2. PICK q \in Seq(S) : q = <<e>> /\ Len(q) = 1 /\ q[1] = e
  BY Single
<1>3. PICK s : s = Cat(p, a) /\ s = Cat(q, b)
  BY <1>0, <1>1, <1>2
<1>4. /\ Len(s) = 1 + Len(a)
      /\ \A j \in 1 .. 1 + Len(a) : s[j] = IF j <= 1 THEN p[j] ELSE a[j - 1]
  <2>0. /\ Len(Cat(p, a)) = Len(p) + Len(a)
        /\ \A j \in 1 .. Len(p) + Len(a) :
             Cat(p, a)[j] = IF j <= Len(p) THEN p[j] ELSE a[j - Len(p)]
    BY CatMembers
  <2>1. /\ Len(s) = Len(p) + Len(a)
        /\ \A j \in 1 .. Len(p) + Len(a) : s[j] = IF j <= Len(p) THEN p[j] ELSE a[j - Len(p)]
    BY <1>3, <2>0
  <2>2. QED
    BY <1>1, <2>1
<1>5. /\ Len(s) = 1 + Len(b)
      /\ \A j \in 1 .. 1 + Len(b) : s[j] = IF j <= 1 THEN q[j] ELSE b[j - 1]
  <2>0. /\ Len(Cat(q, b)) = Len(q) + Len(b)
        /\ \A j \in 1 .. Len(q) + Len(b) :
             Cat(q, b)[j] = IF j <= Len(q) THEN q[j] ELSE b[j - Len(q)]
    BY CatMembers
  <2>1. /\ Len(s) = Len(q) + Len(b)
        /\ \A j \in 1 .. Len(q) + Len(b) : s[j] = IF j <= Len(q) THEN q[j] ELSE b[j - Len(q)]
    BY <1>3, <2>0
  <2>2. QED
    BY <1>2, <2>1
<1>6. Len(a) \in Nat /\ Len(b) = Len(a)
  BY <1>4, <1>5
<1>7. h = e
  <2>1. 1 \in 1 .. 1 + Len(a) /\ 1 <= 1
    BY <1>6
  <2>2. s[1] = p[1] /\ s[1] = q[1]
    BY <1>4, <1>5, <1>6, <2>1
  <2>3. QED
    BY <1>1, <1>2, <2>2
<1>8. ASSUME NEW j \in 1 .. Len(a)
      PROVE  a[j] = b[j]
  <2>1. j + 1 \in 1 .. 1 + Len(a) /\ ~(j + 1 <= 1) /\ (j + 1) - 1 = j
    BY <1>6
  <2>2. s[j + 1] = a[j] /\ s[j + 1] = b[j]
    BY <1>4, <1>5, <1>6, <2>1
  <2>3. QED
    BY <2>2
<1>9. a = b
  BY <1>6, <1>8, SameMembers
<1>10. QED
  BY <1>7, <1>9

\* Without its i-th member, a sequence is what comes before it and what comes after it.
Parted(S, s, i, a, b) ==
  /\ a \in Seq(S) /\ b \in Seq(S) /\ s[i] \in S
  /\ Len(a) = i - 1 /\ \A j \in 1 .. i - 1 : a[j] = s[j]
  /\ s = Cat(Append(a, s[i]), b)
  /\ RemoveAt(s, i) = Cat(a, b)

LEMMA RemoveAtParts ==
  ASSUME NEW S, NEW s \in Seq(S), NEW i \in 1 .. Len(s)
  PROVE  \E a, b : Parted(S, s, i, a, b)
<1> DEFINE a == SubSeq(s, 1, i - 1)
           b == SubSeq(s, i + 1, Len(s))
<1>1. Len(s) \in Nat /\ \A j \in 1 .. Len(s) : s[j] \in S
  OBVIOUS
<1>2. /\ a \in Seq(S) /\ Len(a) = i - 1
      /\ \A j \in 1 .. i - 1 : a[j] = s[j]
  BY <1>1, SubSeqProperties
<1>3. /\ b \in Seq(S) /\ Len(b) = Len(s) - i
      /\ \A j \in 1 .. Len(s) - i : b[j] = s[j + i]
  BY <1>1, SubSeqProperties
<1>4. RemoveAt(s, i) = Cat(a, b)
  BY DEF RemoveAt, Cat
<1> HIDE DEF a, b
<1>5. s = Cat(Append(a, s[i]), b)
  <2> DEFINE c == Append(a, s[i])
             d == Cat(c, b)
  <2>1. s[i] \in S /\ i \in Nat
    BY <1>1
  <2>2. /\ c \in Seq(S) /\ Len(c) = Len(a) + 1 /\ c[Len(a) + 1] = s[i]
        /\ \A j \in 1 .. Len(a) : c[j] = a[j]
    BY <1>2, <2>1, AppendProperties
  <2> HIDE DEF c
  <2>3. Len(c) = i /\ \A j \in 1 .. i : c[j] = s[j]
    BY <1>2, <2>1, <2>2
  <2>4. /\ d \in Seq(S)
        /\ Len(d) = Len(c) + Len(b)
        /\ \A j \in 1 .. Len(c) + Len(b) :
             d[j] = IF j <= Len(c) THEN c[j] ELSE b[j - Len(c)]
    BY <1>3, <2>2, CatMembers
  <2> HIDE DEF d
  <2>5. ASSUME NEW j \in 1 .. Len(s)
        PROVE  d[j] = s[j]
    <3>1. j \in 1 .. Len(c) + Len(b)
      BY <1>1, <1>3, <2>3
    <3>2. d[j] = IF j <= i THEN c[j] ELSE b[j - i]
      BY <2>3, <2>4, <3>1
    <3>3. CASE j <= i
      BY <2>3, <3>2, <3>3, <1>1
    <3>4. CASE ~(j <= i)
      <4>1. j - i \in 1 .. Len(s) - i /\ j - i + i = j
        BY <3>4, <1>1, <2>1
      <4>2. b[j - i] = s[j]
        BY <4>1, <1>3
      <4>3. QED
        BY <3>2, <3>4, <4>2
    <3>5. QED
      BY <3>3, <3>4
  <2>6. Len(d) = Len(s)
    BY <1>1, <1>3, <2>1, <2>3, <2>4
  <2>7. d = s
    BY <2>4, <2>5, <2>6, SameMembers
  <2>8. QED
    BY <2>7 DEF c, d
<1>6. Parted(S, s, i, a, b)
  BY <1>1, <1>2, <1>3, <1>4, <1>5 DEF Parted
<1>7. QED
  BY <1>6

\* An empty member can be removed.
LEMMA FlattenRemoveEmpty ==
  ASSUME NEW S, NEW s \in Seq(Seq(S)), NEW i \in 1 .. Len(s), s[i] = <<>>
  PROVE  FlattenSeq(RemoveAt(s, i)) = FlattenSeq(s)
<1>1. \E a, b : Parted(Seq(S), s, i, a, b)
  BY RemoveAtParts
<1>2. PICK a, b : Parted(Seq(S), s, i, a, b)
  BY <1>1
<1>3. /\ a \in Seq(Seq(S)) /\ b \in Seq(Seq(S)) /\ s[i] \in Seq(S)
      /\ s = Cat(Append(a, s[i]), b) /\ RemoveAt(s, i) = Cat(a, b)
  BY <1>2 DEF Parted
<1>4. Append(a, s[i]) \in Seq(Seq(S)) /\ FlattenSeq(Append(a, s[i])) = FlattenSeq(a)
  <2>1. FlattenSeq(Append(a, s[i])) = Cat(FlattenSeq(a), <<>>)
    BY <1>3, CatFlattenAppend
  <2>2. FlattenSeq(a) \in Seq(S)
    BY <1>3, FlattenTyped
  <2>3. QED
    BY <1>3, <2>1, <2>2, CatEmpty
<1>5. FlattenSeq(s) = Cat(FlattenSeq(a), FlattenSeq(b))
  BY <1>3, <1>4, CatFlatten
<1>6. QED
  BY <1>3, <1>5, CatFlatten

\* A member with only empty ones before it comes first.
LEMMA FlattenRemoveFirst ==
  ASSUME NEW S, NEW s \in Seq(Seq(S)), NEW i \in 1 .. Len(s),
         \A j \in 1 .. i - 1 : s[j] = <<>>
  PROVE  FlattenSeq(s) = Cat(s[i], FlattenSeq(RemoveAt(s, i)))
<1>1. \E a, b : Parted(Seq(S), s, i, a, b)
  BY RemoveAtParts
<1>2. PICK a, b : Parted(Seq(S), s, i, a, b)
  BY <1>1
<1>3. /\ a \in Seq(Seq(S)) /\ b \in Seq(Seq(S)) /\ s[i] \in Seq(S)
      /\ Len(a) = i - 1 /\ \A j \in 1 .. i - 1 : a[j] = s[j]
      /\ s = Cat(Append(a, s[i]), b) /\ RemoveAt(s, i) = Cat(a, b)
  BY <1>2 DEF Parted
<1>4. FlattenSeq(a) = <<>>
  BY <1>3, FlattenNothing
<1>5. Append(a, s[i]) \in Seq(Seq(S)) /\ FlattenSeq(Append(a, s[i])) = s[i]
  <2>1. FlattenSeq(Append(a, s[i])) = Cat(<<>>, s[i])
    BY <1>3, <1>4, CatFlattenAppend
  <2>2. QED
    BY <1>3, <2>1, CatEmpty
<1>6. FlattenSeq(s) = Cat(s[i], FlattenSeq(b))
  BY <1>3, <1>5, CatFlatten
<1>7. FlattenSeq(RemoveAt(s, i)) = Cat(<<>>, FlattenSeq(b))
  BY <1>3, <1>4, CatFlatten
<1>8. QED
  BY <1>3, <1>6, <1>7, FlattenTyped, CatEmpty


\* The first of two joined sequences is a prefix of the whole.
LEMMA CatPrefix ==
  ASSUME NEW S, NEW a \in Seq(S), NEW b \in Seq(S)
  PROVE  IsPrefix(a, Cat(a, b))
<1> DEFINE c == Cat(a, b)
<1>1. /\ c \in Seq(S) /\ Len(c) = Len(a) + Len(b)
      /\ \A j \in 1 .. Len(a) + Len(b) : c[j] = IF j <= Len(a) THEN a[j] ELSE b[j - Len(a)]
  BY CatMembers
<1> HIDE DEF c
<1>2. Len(a) \in Nat /\ Len(b) \in Nat /\ Len(a) <= Len(c) /\ DOMAIN a = 1 .. Len(a)
  BY <1>1
<1>3. \A j \in 1 .. Len(a) : a[j] = c[j]
  BY <1>1, <1>2
<1>4. QED
  BY <1>1, <1>2, <1>3 DEF IsPrefix, c

\* A member before a sequence.
LEMMA CatFirst ==
  ASSUME NEW S, NEW e \in S, NEW a \in Seq(S)
  PROVE  /\ Cat(<<e>>, a) # <<>>
         /\ Head(Cat(<<e>>, a)) = e
         /\ Tail(Cat(<<e>>, a)) = a
         /\ Len(Cat(<<e>>, a)) = Len(a) + 1
<1>1. PICK p \in Seq(S) : p = <<e>> /\ Len(p) = 1 /\ p[1] = e
  BY Single
<1> DEFINE c == Cat(p, a)
<1>2. /\ c \in Seq(S) /\ Len(c) = 1 + Len(a)
      /\ \A j \in 1 .. 1 + Len(a) : c[j] = IF j <= 1 THEN p[j] ELSE a[j - 1]
  BY <1>1, CatMembers
<1> HIDE DEF c
<1>3. Len(a) \in Nat
  OBVIOUS
<1>4. c # <<>> /\ Head(c) = c[1] /\ Tail(c) \in Seq(S) /\ Len(Tail(c)) = Len(a)
      /\ \A j \in 1 .. Len(a) : Tail(c)[j] = c[j + 1]
  BY <1>2, <1>3
<1>5. c[1] = e
  BY <1>1, <1>2, <1>3
<1>6. \A j \in 1 .. Len(a) : Tail(c)[j] = a[j]
  BY <1>2, <1>3, <1>4
<1>7. Tail(c) = a
  BY <1>4, <1>6, SameMembers
<1>8. QED
  BY <1>1, <1>2, <1>3, <1>4, <1>5, <1>7 DEF c
=============================================================================
