----------------------------- MODULE DataLemmas -----------------------------
(***************************************************************************)
(* Facts about the data the models are built from: sequences, and what a   *)
(* recursive definition computes, by induction.                            *)
(***************************************************************************)
EXTENDS Integers, FiniteSets, Sequences, SequencesExt, SequenceTheorems,
        FiniteSetTheorems, WellFoundedInduction, TLAPS

\* Taking one element out of a sequence closes the gap it leaves.
LEMMA RemoveAtProperties ==
  ASSUME NEW S, NEW s \in Seq(S), NEW n \in 1 .. Len(s)
  PROVE  /\ RemoveAt(s, n) \in Seq(S)
         /\ Len(RemoveAt(s, n)) = Len(s) - 1
         /\ \A i \in 1 .. Len(s) - 1 :
              RemoveAt(s, n)[i] = IF i < n THEN s[i] ELSE s[i + 1]
  <1> DEFINE left == SubSeq(s, 1, n - 1)
             right == SubSeq(s, n + 1, Len(s))
  <1>1. Len(s) \in Nat
    BY LenProperties
  <1>2. /\ left \in Seq(S) /\ Len(left) = n - 1
        /\ \A i \in 1 .. n - 1 : left[i] = s[i]
    BY <1>1, SubSeqProperties
  <1>3. /\ right \in Seq(S) /\ Len(right) = Len(s) - n
        /\ \A i \in 1 .. Len(s) - n : right[i] = s[n + i]
    BY <1>1, SubSeqProperties
  <1>4. /\ left \o right \in Seq(S)
        /\ Len(left \o right) = Len(left) + Len(right)
        /\ \A i \in 1 .. Len(left) + Len(right) :
             (left \o right)[i] = IF i <= Len(left) THEN left[i] ELSE right[i - Len(left)]
    <2> HIDE DEF left, right
    <2> QED BY <1>2, <1>3, ConcatProperties
  <1>5. RemoveAt(s, n) = left \o right
    BY DEF RemoveAt
  <1> HIDE DEF left, right
  <1>6. ASSUME NEW i \in 1 .. Len(s) - 1
        PROVE  (left \o right)[i] = IF i < n THEN s[i] ELSE s[i + 1]
    <2>1. CASE i < n
      BY <1>1, <1>2, <1>3, <1>4, <2>1
    <2>2. CASE i >= n
      <3>1. i - (n - 1) \in 1 .. Len(s) - n /\ n + (i - (n - 1)) = i + 1
        BY <1>1, <2>2
      <3>2. (left \o right)[i] = right[i - (n - 1)]
        BY <1>1, <1>2, <1>3, <1>4, <2>2, SMTT(30)
      <3>3. QED
        BY <1>3, <3>1, <3>2, <2>2
    <2>3. i < n \/ i >= n
      BY <1>1
    <2>4. QED
      BY <2>1, <2>2, <2>3, Zenon
  <1>7. QED
    BY <1>1, <1>2, <1>3, <1>4, <1>5, <1>6, SMTT(30)

-----------------------------------------------------------------------------
\* Induction: a set of naturals that is not empty has a least element.

LEMMA LeastNatural ==
  ASSUME NEW T \in SUBSET Nat, T # {}
  PROVE  \E n \in T : \A m \in T : n <= m
  <1> DEFINE R == {ss \in Nat \X Nat : ss[1] < ss[2]}
  <1>1. IsWellFoundedOn(R, Nat)
    BY NatLessThanWellFounded DEF OpToRel
  <1> HIDE DEF R
  <1>2. PICK n \in T : \A m \in T : ~ (<<m, n>> \in R)
    BY <1>1, WFMin
  <1>3. ASSUME NEW m \in T
        PROVE  n <= m
    <2>1. <<m, n>> \in Nat \X Nat /\ <<m, n>>[1] = m /\ <<m, n>>[2] = n
      OBVIOUS
    <2>2. ~ (m < n)
      BY <1>2, <2>1 DEF R
    <2>3. QED
      BY <2>2
  <1>4. QED
    BY <1>3

\* The same as an induction over the indices 0 .. n: what holds of 0 and of each
\* index that follows one it holds of, holds of all.
LEMMA IndexInduction ==
  ASSUME NEW n \in Nat, NEW T \in SUBSET (0 .. n), 0 \in T,
         \A i \in 1 .. n : i - 1 \in T => i \in T
  PROVE  T = 0 .. n
  <1> SUFFICES ASSUME (0 .. n) \ T # {} PROVE FALSE
    OBVIOUS
  <1>1. PICK i \in (0 .. n) \ T : \A m \in (0 .. n) \ T : i <= m
    <2>1. (0 .. n) \ T \in SUBSET Nat
      OBVIOUS
    <2>2. QED
      BY <2>1, LeastNatural
  <1>2. i \in 1 .. n /\ i - 1 \in 0 .. n
    BY <1>1
  <1>3. i - 1 \in T
    BY <1>1, <1>2
  <1>4. QED
    BY <1>1, <1>2, <1>3

-----------------------------------------------------------------------------
\* The folds of the community modules are recursive functions over the sets of
\* the indices that are left.  Such a function exists.

LEMMA MaxOf ==
  ASSUME NEW n \in Nat, NEW s \in SUBSET (1 .. n), s # {}
  PROVE  Max(s) \in s /\ \A m \in s : Max(s) >= m
  <1> DEFINE T == {n - m : m \in s}
  <1>1. T \in SUBSET Nat /\ T # {}
    <2>1. ASSUME NEW m \in s
          PROVE  n - m \in Nat
      OBVIOUS
    <2>2. PICK m \in s : TRUE
      OBVIOUS
    <2>3. n - m \in T
      OBVIOUS
    <2>4. QED
      BY <2>1, <2>3
  <1> HIDE DEF T
  <1>2. PICK t \in T : \A u \in T : t <= u
    BY <1>1, LeastNatural
  <1>3. PICK x \in s : t = n - x
    BY <1>2 DEF T
  <1>4. ASSUME NEW m \in s
        PROVE  x >= m
    <2>1. n - m \in T
      BY DEF T
    <2>2. n - x <= n - m /\ m \in Int /\ x \in Int
      BY <1>2, <1>3, <2>1
    <2>3. QED
      BY <2>2
  <1>5. \E y \in s : \A m \in s : y >= m
    BY <1>4
  <1>6. QED
    BY <1>5, Zenon DEF Max

\* Functions with the same values are the same.
LEMMA SameValues ==
  ASSUME NEW D, NEW f, NEW g, f = [i \in D |-> f[i]], g = [i \in D |-> g[i]],
         \A i \in D : f[i] = g[i]
  PROVE  f = g
  OBVIOUS

\* A sequence is another one with one more element at its end.
OneLonger(r, s, x) ==
  /\ Len(r) = Len(s) + 1 /\ DOMAIN r = 1 .. Len(s) + 1 /\ Len(s) \in Nat
  /\ r[Len(s) + 1] = x
  /\ \A i \in 1 .. Len(s) : r[i] = s[i]

LEMMA AppendOneLonger ==
  ASSUME NEW S, NEW s \in Seq(S), NEW x \in S
  PROVE  Append(s, x) \in Seq(S) /\ OneLonger(Append(s, x), s, x)
  <1> DEFINE r == Append(s, x)
  <1>1. /\ r \in Seq(S) /\ Len(r) = Len(s) + 1 /\ r[Len(s) + 1] = x
        /\ \A i \in 1 .. Len(s) : r[i] = s[i]
    BY AppendProperties
  <1> HIDE DEF r
  <1>2. Len(s) \in Nat /\ DOMAIN r = 1 .. Len(r)
    BY <1>1, LenProperties, Zenon
  <1>3. r \in Seq(S) /\ OneLonger(r, s, x)
    BY <1>1, <1>2 DEF OneLonger
  <1>4. QED
    BY <1>3 DEF r

\* Joining three sequences takes either pair first.
Regroups(a, b, c) == (a \o b) \o c = a \o (b \o c)

LEMMA JoinRegroups ==
  ASSUME NEW S, NEW a \in Seq(S), NEW b \in Seq(S), NEW c \in Seq(S)
  PROVE  Regroups(a, b, c)
  BY ConcatAssociative, SMTT(30) DEF Regroups

LEMMA MaxOfPrefix ==
  ASSUME NEW i \in Nat \ {0}
  PROVE  Max(1 .. i) = i /\ (1 .. i) \ {i} = 1 .. (i - 1) /\ 1 .. i # {}
  <1>1. i \in 1 .. i /\ 1 .. i # {} /\ (1 .. i) \ {i} = 1 .. (i - 1)
    OBVIOUS
  <1>2. Max(1 .. i) \in 1 .. i /\ \A m \in 1 .. i : Max(1 .. i) >= m
    BY <1>1, MaxOf
  <1>3. Max(1 .. i) >= i /\ Max(1 .. i) <= i /\ Max(1 .. i) \in Int
    BY <1>1, <1>2
  <1>4. QED
    BY <1>1, <1>3

\* h folds the subsets of 1 .. m from base by G, the largest index last.
FoldsTo(h, m, A, base, G) ==
  /\ h \in [SUBSET (1 .. m) -> A]
  /\ \A s \in SUBSET (1 .. m) :
       h[s] = IF s = {} THEN base ELSE G[<<Max(s), h[s \ {Max(s)}]>>]

LEMMA FoldLonger ==
  ASSUME NEW n \in Nat, NEW A, NEW base \in A, NEW G \in [(1 .. n) \X A -> A],
         NEW m \in 1 .. n, NEW g, FoldsTo(g, m - 1, A, base, G)
  PROVE  \E h : FoldsTo(h, m, A, base, G)
  <1> DEFINE h == [s \in SUBSET (1 .. m) |->
                     IF m \in s THEN G[<<m, g[s \ {m}]>>] ELSE g[s]]
  <1>1. ASSUME NEW s \in SUBSET (1 .. m)
        PROVE  /\ s \ {m} \in SUBSET (1 .. m - 1)
               /\ m \notin s => s \in SUBSET (1 .. m - 1)
    OBVIOUS
  <1>2. g \in [SUBSET (1 .. m - 1) -> A]
    BY DEF FoldsTo
  <1>3. \A s \in SUBSET (1 .. m - 1) :
          g[s] = IF s = {} THEN base ELSE G[<<Max(s), g[s \ {Max(s)}]>>]
    BY DEF FoldsTo
  <1>4. ASSUME NEW s \in SUBSET (1 .. m)
        PROVE  h[s] \in A
    <2>1. CASE m \in s
      <3>1. g[s \ {m}] \in A
        BY <1>1, <1>2
      <3>2. <<m, g[s \ {m}]>> \in (1 .. n) \X A
        BY <3>1
      <3>3. QED
        BY <2>1, <3>2
    <2>2. CASE m \notin s
      BY <1>1, <1>2, <2>2
    <2>3. QED
      BY <2>1, <2>2
  <1>5. h \in [SUBSET (1 .. m) -> A]
    BY <1>4
  <1>6. ASSUME NEW s \in SUBSET (1 .. m)
        PROVE  h[s] = IF s = {} THEN base ELSE G[<<Max(s), h[s \ {Max(s)}]>>]
    <2>1. CASE m \in s
      <3>1. Max(s) \in s /\ Max(s) >= m
        <4>1. m \in Nat /\ s # {}
          BY <2>1
        <4>2. QED
          BY <2>1, <4>1, MaxOf
      <3>2. Max(s) = m
        <4>1. Max(s) \in 1 .. m
          BY <3>1, Zenon
        <4>2. m \in Nat
          OBVIOUS
        <4>3. QED
          BY <3>1, <4>1, <4>2
      <3>3. s \ {m} \in SUBSET (1 .. m) /\ m \notin s \ {m}
        OBVIOUS
      <3>4. h[s \ {m}] = g[s \ {m}] /\ h[s] = G[<<m, g[s \ {m}]>>]
        BY <2>1, <3>3
      <3>5. QED
        BY <2>1, <3>2, <3>4
    <2>2. CASE m \notin s
      <3>1. s \in SUBSET (1 .. m - 1) /\ h[s] = g[s]
        BY <1>1, <2>2
      <3>2. CASE s = {}
        BY <1>3, <3>1, <3>2
      <3>3. CASE s # {}
        <4>1. Max(s) \in s
          <5>1. m \in Nat
            OBVIOUS
          <5>2. QED
            BY <3>3, <5>1, MaxOf
        <4>2. s \ {Max(s)} \in SUBSET (1 .. m) /\ m \notin s \ {Max(s)}
          BY <2>2
        <4>3. h[s \ {Max(s)}] = g[s \ {Max(s)}]
          BY <4>2
        <4>4. g[s] = G[<<Max(s), g[s \ {Max(s)}]>>]
          BY <1>3, <3>1, <3>3
        <4>5. QED
          BY <3>1, <3>3, <4>3, <4>4
      <3>4. QED
        BY <3>2, <3>3
    <2>3. QED
      BY <2>1, <2>2
  <1> HIDE DEF h
  <1>7. QED
    BY <1>5, <1>6 DEF FoldsTo

LEMMA FoldExists ==
  ASSUME NEW n \in Nat, NEW A, NEW base \in A, NEW G \in [(1 .. n) \X A -> A]
  PROVE  \E h : FoldsTo(h, n, A, base, G)
  <1> DEFINE T == {m \in 0 .. n : \E h : FoldsTo(h, m, A, base, G)}
  <1>1. 0 \in T
    <2> DEFINE h == [s \in SUBSET (1 .. 0) |-> base]
    <2>1. SUBSET (1 .. 0) = {{}}
      <3>1. 1 .. 0 = {}
        OBVIOUS
      <3>2. QED
        BY <3>1
    <2>2. h \in [SUBSET (1 .. 0) -> A] /\ \A s \in SUBSET (1 .. 0) : s = {} /\ h[s] = base
      BY <2>1
    <2> HIDE DEF h
    <2>3. FoldsTo(h, 0, A, base, G)
      BY <2>2 DEF FoldsTo
    <2>4. QED
      BY <2>3
  <1>2. ASSUME NEW m \in 1 .. n, m - 1 \in T
        PROVE  m \in T
    <2>1. PICK g : FoldsTo(g, m - 1, A, base, G)
      BY <1>2
    <2>2. \E h : FoldsTo(h, m, A, base, G)
      BY <2>1, FoldLonger
    <2>3. QED
      BY <2>2
  <1>3. T \in SUBSET (0 .. n)
    OBVIOUS
  <1>4. n \in T
    <2> HIDE DEF T
    <2>1. T = 0 .. n
      BY <1>1, <1>2, <1>3, IndexInduction
    <2>2. QED
      BY <2>1
  <1>5. QED
    BY <1>4

\* The values of a fold along a sequence stay where each step keeps them.
LEMMA PrefixesIn ==
  ASSUME NEW n \in Nat, NEW A, NEW q, q = [i \in 0 .. n |-> q[i]], q[0] \in A,
         \A i \in 1 .. n : q[i - 1] \in A => q[i] \in A
  PROVE  q \in [0 .. n -> A]
  <1> DEFINE T == {i \in 0 .. n : q[i] \in A}
  <1>1. T \in SUBSET (0 .. n) /\ 0 \in T
    OBVIOUS
  <1>2. \A i \in 1 .. n : i - 1 \in T => i \in T
    OBVIOUS
  <1> HIDE DEF T
  <1>3. T = 0 .. n
    BY <1>1, <1>2, IndexInduction
  <1>4. \A i \in 0 .. n : q[i] \in A
    BY <1>3 DEF T
  <1>5. QED
    BY <1>4

-----------------------------------------------------------------------------
\* Induction over a finite set, and the sums over it.

\* What holds of the empty subset, and of each subset that has an element without which
\* it holds, holds of the whole set.
LEMMA SetInduction ==
  ASSUME NEW S, IsFiniteSet(S), NEW P \in SUBSET SUBSET S, {} \in P,
         \A T \in SUBSET S : T # {} => \E x \in T : T \ {x} \in P => T \in P
  PROVE  S \in P
  <1> DEFINE Sizes == {Cardinality(T) : T \in (SUBSET S) \ P}
  <1>1. ASSUME NEW T \in SUBSET S
        PROVE  IsFiniteSet(T) /\ Cardinality(T) \in Nat
    BY FS_Subset, FS_CardinalityType
  <1> SUFFICES ASSUME S \notin P PROVE FALSE
    OBVIOUS
  <1>2. Sizes \in SUBSET Nat /\ Sizes # {}
    BY <1>1
  <1>3. PICK n \in Sizes : \A m \in Sizes : n <= m
    BY <1>2, LeastNatural
  <1>4. PICK T \in (SUBSET S) \ P : Cardinality(T) = n
    BY <1>3
  <1>5. PICK x \in T : T \ {x} \in P => T \in P
    <2>1. T \in SUBSET S /\ T \notin P
      BY <1>4
    <2>2. ASSUME T = {}
          PROVE  T \in P
      BY <2>2
    <2>3. QED
      BY <2>1, <2>2, Zenon
  <1>6. T \ {x} \in (SUBSET S) \ P
    BY <1>4, <1>5
  <1>7. Cardinality(T \ {x}) = Cardinality(T) - 1
    BY <1>1, <1>4, FS_RemoveElement
  <1>8. Cardinality(T \ {x}) \in Sizes /\ Cardinality(T) \in Nat
    BY <1>1, <1>4, <1>6
  <1> HIDE DEF Sizes
  <1>9. Cardinality(T) <= Cardinality(T \ {x})
    BY <1>3, <1>4, <1>8
  <1>10. QED
    BY <1>7, <1>8, <1>9

\* g sums f over the subsets of S, in whatever order.
Sums(g, S, f) ==
  /\ g \in [SUBSET S -> Int]
  /\ g[{}] = 0
  /\ \A T \in SUBSET S : \A x \in T : g[T] = f[x] + g[T \ {x}]

LEMMA SumsExist ==
  ASSUME NEW S, IsFiniteSet(S), NEW f, \A x \in S : f[x] \in Int
  PROVE  \E g : Sums(g, S, f)
  <1> DEFINE P == {T \in SUBSET S : \E g : Sums(g, T, f)}
  <1>1. P \in SUBSET SUBSET S
    OBVIOUS
  <1>2. {} \in P
    <2> DEFINE g == [T \in {{}} |-> 0]
    <2>1. SUBSET {} = {{}} /\ g \in [{{}} -> Int] /\ g[{}] = 0
      OBVIOUS
    <2> HIDE DEF g
    <2>2. Sums(g, {}, f)
      BY <2>1 DEF Sums
    <2>3. QED
      BY <2>2
  <1>3. ASSUME NEW T \in SUBSET S, NEW x \in T, T \ {x} \in P
        PROVE  T \in P
    <2>1. PICK g : Sums(g, T \ {x}, f)
      BY <1>3
    <2> DEFINE h == [U \in SUBSET T |-> IF x \in U THEN f[x] + g[U \ {x}] ELSE g[U]]
    <2>2. ASSUME NEW U \in SUBSET T
          PROVE  /\ U \ {x} \in SUBSET (T \ {x})
                 /\ x \notin U => U \in SUBSET (T \ {x})
      OBVIOUS
    <2>3. /\ \A U \in SUBSET (T \ {x}) : g[U] \in Int
          /\ g[{}] = 0
          /\ \A U \in SUBSET (T \ {x}) : \A y \in U : g[U] = f[y] + g[U \ {y}]
      BY <2>1 DEF Sums
    <2>4. /\ h = [U \in SUBSET T |-> h[U]]
          /\ \A U \in SUBSET T : h[U] = IF x \in U THEN f[x] + g[U \ {x}] ELSE g[U]
      OBVIOUS
    <2> HIDE DEF h
    <2>5. ASSUME NEW U \in SUBSET T
          PROVE  h[U] \in Int
      <3>1. CASE x \in U
        <4>1. f[x] \in Int /\ g[U \ {x}] \in Int
          BY <2>2, <2>3
        <4>2. h[U] = f[x] + g[U \ {x}]
          BY <2>4, <3>1
        <4>3. QED
          BY <4>1, <4>2
      <3>2. CASE x \notin U
        BY <2>2, <2>3, <2>4, <3>2
      <3>3. QED
        BY <3>1, <3>2
    <2>6. h \in [SUBSET T -> Int]
      BY <2>4, <2>5
    <2>7. h[{}] = 0
      BY <2>3, <2>4
    <2>8. ASSUME NEW U \in SUBSET T, NEW y \in U
          PROVE  h[U] = f[y] + h[U \ {y}]
      <3>1. U \ {y} \in SUBSET T /\ f[y] \in Int /\ f[x] \in Int
        OBVIOUS
      <3>2. CASE y = x
        BY <2>4, <3>1, <3>2
      <3>3. CASE y # x /\ x \in U
        <4>1. /\ U \ {x} \in SUBSET (T \ {x}) /\ y \in U \ {x}
              /\ (U \ {x}) \ {y} = (U \ {y}) \ {x} /\ x \in U \ {y}
          BY <3>3
        <4>2. g[U \ {x}] = f[y] + g[(U \ {y}) \ {x}]
          BY <2>3, <4>1
        <4>3. h[U] = f[x] + g[U \ {x}] /\ h[U \ {y}] = f[x] + g[(U \ {y}) \ {x}]
          BY <2>4, <3>1, <3>3, <4>1
        <4>4. g[(U \ {y}) \ {x}] \in Int
          BY <2>2, <2>3, <3>1
        <4>5. QED
          BY <3>1, <4>2, <4>3, <4>4
      <3>4. CASE x \notin U
        <4>1. U \in SUBSET (T \ {x}) /\ x \notin U \ {y}
          BY <3>4
        <4>2. QED
          BY <2>3, <2>4, <3>1, <3>4, <4>1
      <3>5. QED
        BY <3>2, <3>3, <3>4
    <2>9. Sums(h, T, f)
      BY <2>6, <2>7, <2>8 DEF Sums
    <2>10. QED
      BY <2>9
  <1> HIDE DEF P
  <1>4. \A T \in SUBSET S : T # {} => \E x \in T : T \ {x} \in P => T \in P
    BY <1>3, Zenon
  <1>5. S \in P
    BY <1>1, <1>2, <1>4, SetInduction
  <1>6. QED
    BY <1>5 DEF P

SumOf(f, S) == MapThenSumSet(LAMBDA x : f[x], S)

\* The fold of the community modules takes the elements as CHOOSE gives them.
LEMMA SumIsSums ==
  ASSUME NEW S, IsFiniteSet(S), NEW f, NEW g, Sums(g, S, f)
  PROVE  SumOf(f, S) = g[S]
  <1> DEFINE AnyOf(T) == CHOOSE x \in T : TRUE
             Body(h) == [T \in SUBSET S |->
                           IF T = {} THEN 0 ELSE f[AnyOf(T)] + h[T \ {AnyOf(T)}]]
             it == CHOOSE h : h = Body(h)
  <1>1. /\ g \in [SUBSET S -> Int] /\ g[{}] = 0
        /\ \A T \in SUBSET S : \A x \in T : g[T] = f[x] + g[T \ {x}]
    BY DEF Sums
  <1>2. ASSUME NEW T \in SUBSET S, T # {}
        PROVE  AnyOf(T) \in T
    BY <1>2
  <1> HIDE DEF AnyOf
  <1>3. g = Body(g)
    <2>1. ASSUME NEW T \in SUBSET S
          PROVE  g[T] = IF T = {} THEN 0 ELSE f[AnyOf(T)] + g[T \ {AnyOf(T)}]
      BY <1>1, <1>2
    <2>2. QED
      BY <1>1, <2>1
  <1>4. it = Body(it)
    BY <1>3
  <1>5. SumOf(f, S) = it[S]
    BY DEF SumOf, MapThenSumSet, MapThenFoldSet, AnyOf
  <1> HIDE DEF it
  <1> DEFINE P == {T \in SUBSET S : it[T] = g[T]}
  <1>6. P \in SUBSET SUBSET S /\ {} \in P
    BY <1>1, <1>4
  <1>7. ASSUME NEW T \in SUBSET S, T # {}
        PROVE  \E x \in T : T \ {x} \in P => T \in P
    <2>1. AnyOf(T) \in T
      BY <1>2, <1>7
    <2>2. it[T] = f[AnyOf(T)] + it[T \ {AnyOf(T)}]
      BY <1>4, <1>7
    <2>3. g[T] = f[AnyOf(T)] + g[T \ {AnyOf(T)}]
      BY <1>1, <2>1
    <2>4. T \ {AnyOf(T)} \in P => T \in P
      BY <2>2, <2>3
    <2>5. QED
      BY <2>1, <2>4
  <1> HIDE DEF P
  <1>8. S \in P
    BY <1>6, <1>7, SetInduction
  <1>9. QED
    BY <1>5, <1>8 DEF P

SumRules(f, S) ==
  /\ SumOf(f, {}) = 0
  /\ \A T \in SUBSET S : SumOf(f, T) \in Int
  /\ \A T \in SUBSET S : \A x \in T : SumOf(f, T) = f[x] + SumOf(f, T \ {x})

\* A sum over a finite set, one element at a time.
LEMMA SumFacts ==
  ASSUME NEW S, IsFiniteSet(S), NEW f, \A x \in S : f[x] \in Int
  PROVE  SumRules(f, S)
  <1>1. PICK g : Sums(g, S, f)
    BY SumsExist
  <1>2. /\ g \in [SUBSET S -> Int] /\ g[{}] = 0
        /\ \A T \in SUBSET S : \A x \in T : g[T] = f[x] + g[T \ {x}]
    BY <1>1 DEF Sums
  <1>3. ASSUME NEW T \in SUBSET S
        PROVE  SumOf(f, T) = g[T]
    <2> DEFINE h == [U \in SUBSET T |-> g[U]]
    <2>1. IsFiniteSet(T) /\ \A U \in SUBSET T : U \in SUBSET S /\ \A x \in U : U \ {x} \in SUBSET T
      BY FS_Subset
    <2>2. h \in [SUBSET T -> Int] /\ \A U \in SUBSET T : h[U] = g[U]
      BY <1>2, <2>1
    <2> HIDE DEF h
    <2>3. Sums(h, T, f)
      BY <1>2, <2>1, <2>2 DEF Sums
    <2>4. QED
      BY <2>1, <2>2, <2>3, SumIsSums
  <1>4. \A T \in SUBSET S : \A x \in T : SumOf(f, T) = f[x] + SumOf(f, T \ {x})
    <2>1. ASSUME NEW T \in SUBSET S, NEW x \in T
          PROVE  T \ {x} \in SUBSET S
      OBVIOUS
    <2>2. QED
      BY <1>2, <1>3, <2>1
  <1>5. SumOf(f, {}) = 0 /\ \A T \in SUBSET S : SumOf(f, T) \in Int
    BY <1>2, <1>3
  <1>6. QED
    BY <1>4, <1>5 DEF SumRules

\* What holds of each term holds of the sum.
LEMMA SumPlus ==
  ASSUME NEW S, IsFiniteSet(S), NEW f, NEW g, NEW h,
         \A x \in S : f[x] \in Int /\ g[x] \in Int /\ h[x] = f[x] + g[x]
  PROVE  SumOf(h, S) = SumOf(f, S) + SumOf(g, S)
  <1> DEFINE P == {T \in SUBSET S : SumOf(h, T) = SumOf(f, T) + SumOf(g, T)}
  <1>1. /\ \A x \in S : f[x] \in Int
        /\ \A x \in S : g[x] \in Int
        /\ \A x \in S : h[x] \in Int
    OBVIOUS
  <1>2. /\ SumOf(f, {}) = 0 /\ SumOf(g, {}) = 0 /\ SumOf(h, {}) = 0
        /\ \A T \in SUBSET S : SumOf(f, T) \in Int /\ SumOf(g, T) \in Int
        /\ \A T \in SUBSET S : \A x \in T : /\ SumOf(f, T) = f[x] + SumOf(f, T \ {x})
                                            /\ SumOf(g, T) = g[x] + SumOf(g, T \ {x})
                                            /\ SumOf(h, T) = h[x] + SumOf(h, T \ {x})
    BY <1>1, SumFacts DEF SumRules
  <1>3. P \in SUBSET SUBSET S /\ {} \in P
    BY <1>2
  <1>4. ASSUME NEW T \in SUBSET S, NEW x \in T, T \ {x} \in P
        PROVE  T \in P
    <2>1. /\ f[x] \in Int /\ g[x] \in Int /\ h[x] = f[x] + g[x]
          /\ SumOf(f, T \ {x}) \in Int /\ SumOf(g, T \ {x}) \in Int
      BY <1>2
    <2>2. SumOf(h, T \ {x}) = SumOf(f, T \ {x}) + SumOf(g, T \ {x})
      BY <1>4
    <2>3. /\ SumOf(f, T) = f[x] + SumOf(f, T \ {x})
          /\ SumOf(g, T) = g[x] + SumOf(g, T \ {x})
          /\ SumOf(h, T) = h[x] + SumOf(h, T \ {x})
      BY <1>2
    <2> DEFINE b == f[x]
               c == g[x]
               t == SumOf(f, T \ {x})
               u == SumOf(g, T \ {x})
    <2>4. b \in Int /\ c \in Int /\ t \in Int /\ u \in Int
      BY <2>1, Zenon
    <2>5. /\ SumOf(f, T) = b + t /\ SumOf(g, T) = c + u
          /\ SumOf(h, T) = (b + c) + (t + u)
      BY <2>1, <2>2, <2>3, Zenon
    <2> HIDE DEF b, c, t, u
    <2>6. (b + c) + (t + u) = (b + t) + (c + u)
      BY <2>4
    <2>7. SumOf(h, T) = SumOf(f, T) + SumOf(g, T)
      BY <2>5, <2>6, Zenon
    <2>8. QED
      BY <2>7
  <1> HIDE DEF P
  <1>5. \A T \in SUBSET S : T # {} => \E x \in T : T \ {x} \in P => T \in P
    BY <1>4, Zenon
  <1>6. S \in P
    BY <1>3, <1>5, SetInduction
  <1>7. QED
    BY <1>6 DEF P

LEMMA SumZero ==
  ASSUME NEW S, IsFiniteSet(S), NEW f, \A x \in S : f[x] = 0
  PROVE  SumOf(f, S) = 0
  <1> DEFINE t == SumOf(f, S)
  <1>1. \A x \in S : f[x] \in Int /\ f[x] = f[x] + f[x]
    OBVIOUS
  <1>2. t \in Int
    BY <1>1, SumFacts DEF SumRules
  <1>3. t = t + t
    BY <1>1, SumPlus, Zenon
  <1> HIDE DEF t
  <1>4. t = 0
    BY <1>2, <1>3
  <1>5. QED
    BY <1>4 DEF t

LEMMA SumSame ==
  ASSUME NEW S, IsFiniteSet(S), NEW f, NEW g, \A x \in S : f[x] \in Int /\ f[x] = g[x]
  PROVE  SumOf(f, S) = SumOf(g, S)
  <1> DEFINE zero == [x \in S |-> 0]
  <1>1. SumOf(zero, S) = 0
    BY SumZero
  <1>2. SumOf(g, S) = SumOf(f, S) + SumOf(zero, S)
    <2>1. \A x \in S : f[x] \in Int /\ zero[x] \in Int /\ g[x] = f[x] + zero[x]
      OBVIOUS
    <2> HIDE DEF zero
    <2>2. QED
      BY <2>1, SumPlus
  <1>3. SumOf(f, S) \in Int
    BY SumFacts DEF SumRules
  <1> HIDE DEF zero
  <1>4. QED
    BY <1>1, <1>2, <1>3

\* Elements that are left out of a sum are the same as zeros in it.
LEMMA SumWhere ==
  ASSUME NEW S, IsFiniteSet(S), NEW C \in SUBSET S, NEW f, \A x \in C : f[x] \in Int
  PROVE  SumOf(f, C) = SumOf([x \in S |-> IF x \in C THEN f[x] ELSE 0], S)
  <1> DEFINE h == [x \in S |-> IF x \in C THEN f[x] ELSE 0]
             P == {T \in SUBSET S : SumOf(f, T \cap C) = SumOf(h, T)}
  <1>1. \A x \in S : h[x] \in Int /\ (x \in C => h[x] = f[x]) /\ (x \notin C => h[x] = 0)
    OBVIOUS
  <1> HIDE DEF h
  <1>2. IsFiniteSet(C)
    BY FS_Subset
  <1>3. /\ SumOf(f, {}) = 0 /\ SumOf(h, {}) = 0
        /\ \A T \in SUBSET C : \A x \in T : SumOf(f, T) = f[x] + SumOf(f, T \ {x})
        /\ \A T \in SUBSET S : SumOf(h, T) \in Int
        /\ \A T \in SUBSET S : \A x \in T : SumOf(h, T) = h[x] + SumOf(h, T \ {x})
    BY <1>1, <1>2, SumFacts DEF SumRules
  <1>4. P \in SUBSET SUBSET S /\ {} \in P
    <2>1. {} \cap C = {}
      OBVIOUS
    <2>2. QED
      BY <1>3, <2>1
  <1>5. ASSUME NEW T \in SUBSET S, NEW x \in T, T \ {x} \in P
        PROVE  T \in P
    <2>1. SumOf(f, (T \ {x}) \cap C) = SumOf(h, T \ {x}) /\ SumOf(h, T \ {x}) \in Int
      BY <1>3, <1>5
    <2>2. SumOf(h, T) = h[x] + SumOf(h, T \ {x})
      BY <1>3
    <2>3. CASE x \in C
      <3>1. T \cap C \in SUBSET C /\ x \in T \cap C /\ (T \cap C) \ {x} = (T \ {x}) \cap C
        BY <2>3
      <3>2. SumOf(f, T \cap C) = f[x] + SumOf(f, (T \ {x}) \cap C)
        BY <1>3, <3>1
      <3>3. QED
        BY <1>1, <2>1, <2>2, <2>3, <3>2
    <2>4. CASE x \notin C
      <3>1. T \cap C = (T \ {x}) \cap C
        BY <2>4
      <3>2. h[x] = 0
        BY <1>1, <2>4
      <3>3. SumOf(h, T) = SumOf(h, T \ {x})
        BY <2>1, <2>2, <3>2
      <3>4. SumOf(f, T \cap C) = SumOf(h, T)
        BY <2>1, <3>1, <3>3, Zenon
      <3>5. QED
        BY <3>4
    <2>5. QED
      BY <2>3, <2>4
  <1> HIDE DEF P
  <1>6. \A T \in SUBSET S : T # {} => \E x \in T : T \ {x} \in P => T \in P
    BY <1>5, Zenon
  <1>7. S \in P
    BY <1>4, <1>6, SetInduction
  <1>8. S \cap C = C
    OBVIOUS
  <1>9. QED
    BY <1>7, <1>8 DEF P, h

LEMMA SumNatural ==
  ASSUME NEW S, IsFiniteSet(S), NEW f, \A x \in S : f[x] \in Nat
  PROVE  SumOf(f, S) \in Nat
  <1> DEFINE P == {T \in SUBSET S : SumOf(f, T) \in Nat}
  <1>1. /\ SumOf(f, {}) = 0
        /\ \A T \in SUBSET S : \A x \in T : SumOf(f, T) = f[x] + SumOf(f, T \ {x})
    <2>1. \A x \in S : f[x] \in Int
      OBVIOUS
    <2>2. QED
      BY <2>1, SumFacts DEF SumRules
  <1>2. P \in SUBSET SUBSET S /\ {} \in P
    BY <1>1
  <1>3. ASSUME NEW T \in SUBSET S, NEW x \in T, T \ {x} \in P
        PROVE  T \in P
    <2>1. f[x] \in Nat /\ SumOf(f, T \ {x}) \in Nat /\ SumOf(f, T) = f[x] + SumOf(f, T \ {x})
      BY <1>1, <1>3
    <2>2. QED
      BY <2>1
  <1> HIDE DEF P
  <1>4. \A T \in SUBSET S : T # {} => \E x \in T : T \ {x} \in P => T \in P
    BY <1>3, Zenon
  <1>5. S \in P
    BY <1>2, <1>4, SetInduction
  <1>6. QED
    BY <1>5 DEF P
-----------------------------------------------------------------------------
(* What FlattenSeq joins.                                                  *)

\* The sequences are joined one at a time.
Joins(p, seqs, S) ==
  /\ p \in [0 .. Len(seqs) -> Seq(S)]
  /\ p[0] = <<>>
  /\ \A i \in 1 .. Len(seqs) : p[i] = p[i - 1] \o seqs[i]
  /\ FlattenSeq(seqs) = p[Len(seqs)]

\* FlattenSeq concatenates along its sequences.
LEMMA FlattenPath ==
  ASSUME NEW S, NEW seqs \in Seq(Seq(S))
  PROVE  \E p : Joins(p, seqs, S)
  <1> DEFINE n == Len(seqs)
             A == Seq(S)
             G == [y \in (1 .. n) \X A |-> y[2] \o seqs[y[1]]]
             Body(f) == [i \in 1 .. n |-> IF i = 1 THEN seqs[i] ELSE f[i - 1] \o seqs[i]]
             it == CHOOSE f : f = Body(f)
  <1>1. n \in Nat /\ <<>> \in A
    OBVIOUS
  <1>2. ASSUME NEW i \in 1 .. n
        PROVE  seqs[i] \in A
    BY <1>1, ElementOfSeq
  <1>3. ASSUME NEW a \in A, NEW b \in A
        PROVE  a \o b \in A
    BY ConcatProperties
  <1>4. ASSUME NEW a \in A
        PROVE  <<>> \o a = a
    BY ConcatEmptySeq
  <1> HIDE DEF A
  <1>5. G \in [(1 .. n) \X A -> A]
    BY <1>2, <1>3
  <1>6. PICK h : FoldsTo(h, n, A, <<>>, G)
    BY <1>1, <1>5, FoldExists
  <1> DEFINE q == [i \in 0 .. n |-> h[1 .. i]]
  <1>7. q[0] = <<>>
    <2>1. 1 .. 0 = {} /\ 0 \in 0 .. n
      BY <1>1
    <2>2. q[0] = h[{}]
      BY <2>1, SMTT(30)
    <2>3. QED
      BY <1>6, <2>2 DEF FoldsTo
  <1>8. ASSUME NEW i \in 1 .. n
        PROVE  q[i - 1] \in A /\ q[i] = q[i - 1] \o seqs[i]
    <2>1. 1 .. i \in SUBSET (1 .. n) /\ i \in Nat \ {0} /\ i \in 0 .. n /\ i - 1 \in 0 .. n
      OBVIOUS
    <2>2. Max(1 .. i) = i /\ (1 .. i) \ {i} = 1 .. (i - 1) /\ 1 .. i # {}
      BY <2>1, MaxOfPrefix
    <2>3. q[i - 1] = h[1 .. (i - 1)] /\ q[i] = h[1 .. i]
      BY <2>1
    <2>4. h[1 .. (i - 1)] \in A /\ h[1 .. i] = G[<<i, h[1 .. (i - 1)]>>]
      <3>1. 1 .. (i - 1) \in SUBSET (1 .. n)
        BY <1>1
      <3>2. h[1 .. i] = G[<<Max(1 .. i), h[(1 .. i) \ {Max(1 .. i)}]>>]
        BY <1>6, <2>1, <2>2 DEF FoldsTo
      <3>3. h[1 .. (i - 1)] \in A
        BY <1>6, <3>1 DEF FoldsTo
      <3> HIDE DEF G
      <3>4. QED
        BY <2>2, <3>2, <3>3
    <2>5. G[<<i, h[1 .. (i - 1)]>>] = h[1 .. (i - 1)] \o seqs[i]
      BY <2>4
    <2>6. QED
      BY <2>3, <2>4, <2>5
  <1> HIDE DEF q, G
  <1>9. \E f : f = Body(f)
    <2> DEFINE f == [i \in 1 .. n |-> q[i]]
    <2>1. ASSUME NEW i \in 1 .. n
          PROVE  q[i] = IF i = 1 THEN seqs[i] ELSE f[i - 1] \o seqs[i]
      <3>1. CASE i = 1
        <4>1. i - 1 = 0
          BY <3>1
        <4>2. q[i] = <<>> \o seqs[i]
          BY <1>7, <1>8, <4>1
        <4>3. QED
          BY <1>2, <1>4, <3>1, <4>2
      <3>2. CASE i # 1
        <4>1. i - 1 \in 1 .. n
          BY <1>1, <3>2
        <4>2. f[i - 1] = q[i - 1]
          BY <4>1
        <4>3. QED
          BY <1>8, <3>2, <4>2
      <3>3. QED
        BY <3>1, <3>2
    <2> DEFINE g == [i \in 1 .. n |-> IF i = 1 THEN seqs[i] ELSE f[i - 1] \o seqs[i]]
    <2>2. ASSUME NEW i \in 1 .. n
          PROVE  f[i] = g[i]
      <3>1. f[i] = q[i] /\ g[i] = IF i = 1 THEN seqs[i] ELSE f[i - 1] \o seqs[i]
        OBVIOUS
      <3>2. QED
        BY <2>1, <3>1, Zenon
    <2> DEFINE D == 1 .. n
    <2>3. f = [i \in D |-> f[i]]
      OBVIOUS
    <2>4. g = [i \in D |-> g[i]]
      OBVIOUS
    <2>5. g = Body(f)
      OBVIOUS
    <2>6. \A i \in D : f[i] = g[i]
      BY <2>2
    <2> HIDE DEF f, g, Body, D
    <2>7. f = g
      BY <2>3, <2>4, <2>6, SameValues, ZenonT(60)
    <2>8. QED
      BY <2>5, <2>7
  <1>10. it = Body(it)
    BY <1>9
  <1>11. n # 0 => FlattenSeq(seqs) = it[n]
    BY DEF FlattenSeq
  <1> HIDE DEF it
  <1> DEFINE p == [i \in 0 .. n |-> IF i = 0 THEN <<>> ELSE it[i]]
  <1>12. p[0] = <<>> /\ p = [i \in 0 .. n |-> p[i]]
    BY <1>1
  <1>13. ASSUME NEW i \in 1 .. n
         PROVE  /\ p[i] = it[i]
                /\ p[i] = IF i = 1 THEN seqs[i] ELSE p[i - 1] \o seqs[i]
    <2>1. i \in 0 .. n /\ i # 0 /\ i - 1 \in 0 .. n /\ (i # 1 => i - 1 # 0)
      BY <1>1
    <2>2. p[i] = it[i] /\ (i # 1 => p[i - 1] = it[i - 1])
      BY <2>1
    <2>3. it[i] = IF i = 1 THEN seqs[i] ELSE it[i - 1] \o seqs[i]
      BY <1>10
    <2>4. QED
      BY <2>2, <2>3
  <1> HIDE DEF p
  <1>14. ASSUME NEW i \in 1 .. n
         PROVE  p[i] = p[i - 1] \o seqs[i]
    <2>1. CASE i = 1
      <3>1. i - 1 = 0 /\ p[i] = seqs[i]
        BY <1>13, <2>1
      <3>2. <<>> \o seqs[i] = seqs[i]
        BY <1>2, <1>4
      <3>3. QED
        BY <1>12, <3>1, <3>2
    <2>2. CASE i # 1
      BY <1>13, <2>2
    <2>3. QED
      BY <2>1, <2>2
  <1>15. p \in [0 .. n -> A]
    <2>1. ASSUME NEW i \in 1 .. n, p[i - 1] \in A
          PROVE  p[i] \in A
      BY <1>2, <1>3, <1>14, <2>1
    <2>2. QED
      BY <1>1, <1>12, <2>1, PrefixesIn, ZenonT(60)
  <1>16. FlattenSeq(seqs) = p[n]
    <2>1. CASE n = 0
      <3>1. seqs = <<>> /\ FlattenSeq(seqs) = seqs
        BY <2>1, EmptySeq DEF FlattenSeq
      <3>2. QED
        BY <1>12, <2>1, <3>1
    <2>2. CASE n # 0
      <3>1. n \in 1 .. n
        BY <1>1, <2>2
      <3>2. QED
        BY <1>11, <1>13, <2>2, <3>1
    <2>3. QED
      BY <2>1, <2>2
  <1>17. Joins(p, seqs, S)
    BY <1>12, <1>14, <1>15, <1>16, Zenon DEF A, Joins
  <1>18. QED
    BY <1>17

-----------------------------------------------------------------------------
(* Sets of positions.                                                      *)

\* Positions in a sequence are finitely many.
LEMMA FinitePositions ==
  ASSUME NEW n \in Nat, NEW P \in SUBSET (1 .. n)
  PROVE  IsFiniteSet(P) /\ Cardinality(P) \in Nat /\ Cardinality(P) <= n
  <1>1. IsFiniteSet(1 .. n) /\ Cardinality(1 .. n) = n
    <2>1. Cardinality(1 .. n) = IF 1 > n THEN 0 ELSE n - 1 + 1
      BY FS_Interval
    <2>2. QED
      BY <2>1, FS_Interval
  <1>2. QED
    BY <1>1, FS_Subset, FS_CardinalityType, ZenonT(60)

\* A set of two at most.
LEMMA PairSize ==
  ASSUME NEW i, NEW j
  PROVE  IsFiniteSet({i, j}) /\ Cardinality({i, j}) \in Nat /\ Cardinality({i, j}) <= 2
  <1>1. IsFiniteSet({i}) /\ Cardinality({i}) = 1
    BY FS_Singleton
  <1> DEFINE s == {i} \cup {j}
  <1>2. IsFiniteSet(s) /\ Cardinality(s) = IF j \in {i} THEN Cardinality({i})
                                           ELSE Cardinality({i}) + 1
    BY <1>1, FS_AddElement
  <1>3. s = {i, j}
    OBVIOUS
  <1> HIDE DEF s
  <1>4. Cardinality(s) \in Nat /\ Cardinality(s) <= 2
    BY <1>1, <1>2
  <1>5. QED
    BY <1>2, <1>3, <1>4

\* The larger of two numbers.
LEMMA LargerOf ==
  ASSUME NEW a \in Nat, NEW b \in Nat
  PROVE  Max({a, b}) \in Nat /\ a <= Max({a, b}) /\ b <= Max({a, b})
  <1>1. \E m \in {a, b} : \A k \in {a, b} : m >= k
    OBVIOUS
  <1>2. Max({a, b}) \in {a, b} /\ \A k \in {a, b} : Max({a, b}) >= k
    BY <1>1 DEF Max
  <1>3. QED
    BY <1>2

=============================================================================
