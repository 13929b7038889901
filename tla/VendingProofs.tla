---------------------------- MODULE VendingProofs ----------------------------
(***************************************************************************)
(* Theorems about the vending example: what is ordered is somewhere, in    *)
(* units and in money, after every tool and every night, for any products, *)
(* slots, suppliers and demand; and the memory of the agent and its        *)
(* checkpoint lose no note, whatever fails, any number of times.           *)
(***************************************************************************)
EXTENDS Vending, VendingMemory, DataLemmas

-----------------------------------------------------------------------------
(* Sums over a queue of orders and over the slots.                         *)

\* Units of a product in a queue of orders.
UnderWay(q, k) ==
  SumOver([i \in DOMAIN q |-> q[i].quantity], {i \in DOMAIN q : q[i].sku = k})

\* The same with one term for each order.
Amount(q, k) == [i \in 1 .. Len(q) |-> IF q[i].sku = k THEN q[i].quantity ELSE 0]

LEMMA UnderWayIsSum ==
  ASSUME NEW q \in Seq(OrderTypes), NEW k
  PROVE  /\ UnderWay(q, k) = SumOf(Amount(q, k), 1 .. Len(q))
         /\ UnderWay(q, k) \in Int
         /\ \A i \in 1 .. Len(q) : Amount(q, k)[i] \in Nat
         /\ IsFiniteSet(1 .. Len(q))
  <1> DEFINE n == Len(q)
             f == [i \in DOMAIN q |-> q[i].quantity]
             C == {i \in DOMAIN q : q[i].sku = k}
             a == [i \in 1 .. n |-> IF i \in C THEN f[i] ELSE 0]
  <1>1. n \in Nat /\ DOMAIN q = 1 .. n
    BY LenProperties
  <1>2. ASSUME NEW i \in 1 .. n
        PROVE  q[i].quantity \in Nat
    <2>1. q[i] \in OrderTypes
      BY ElementOfSeq
    <2>2. QED
      BY <2>1 DEF OrderTypes
  <1>3. IsFiniteSet(1 .. n) /\ C \in SUBSET (1 .. n)
    BY <1>1, FS_Interval
  <1>4. \A i \in 1 .. n : f[i] \in Nat
    BY <1>1, <1>2
  <1>5. a = Amount(q, k)
    BY <1>1 DEF Amount
  <1>6. \A i \in 1 .. n : a[i] \in Nat
    BY <1>4
  <1>7. UnderWay(q, k) = SumOf(f, C)
    BY DEF UnderWay, SumOver, SumOf
  <1> HIDE DEF f, C
  <1>8. SumOf(f, C) = SumOf(a, 1 .. n)
    <2>1. \A i \in C : f[i] \in Int
      BY <1>3, <1>4
    <2>2. QED
      BY <1>3, <2>1, SumWhere, ZenonT(60)
  <1> HIDE DEF a
  <1>9. SumOf(a, 1 .. n) \in Int
    <2>1. \A i \in 1 .. n : a[i] \in Int
      BY <1>6
    <2>2. SumRules(a, 1 .. n)
      BY <1>3, <2>1, SumFacts
    <2>3. QED
      BY <2>2 DEF SumRules
  <1>10. QED
    BY <1>3, <1>5, <1>6, <1>7, <1>8, <1>9

LEMMA UnderWayEmpty ==
  ASSUME NEW k
  PROVE  UnderWay(<<>>, k) = 0
  <1>1. <<>> \in Seq(OrderTypes) /\ Len(<<>>) = 0 /\ 1 .. 0 = {}
    BY EmptySeq
  <1>2. UnderWay(<<>>, k) = SumOf(Amount(<<>>, k), {})
    BY <1>1, UnderWayIsSum
  <1>3. SumOf(Amount(<<>>, k), {}) = 0
    BY SumZero, FS_EmptySet
  <1>4. QED
    BY <1>2, <1>3

\* The units of two queues together.
LEMMA UnderWayConcat ==
  ASSUME NEW q \in Seq(OrderTypes), NEW r \in Seq(OrderTypes), NEW k
  PROVE  q \o r \in Seq(OrderTypes) /\ UnderWay(q \o r, k) = UnderWay(q, k) + UnderWay(r, k)
  <1> DEFINE m == Len(q)
             n == Len(r)
             qr == q \o r
             a == Amount(q, k)
             b == Amount(r, k)
             ab == Amount(qr, k)
  <1>1. m \in Nat /\ n \in Nat
    BY LenProperties
  <1>2. /\ qr \in Seq(OrderTypes) /\ Len(qr) = m + n
        /\ \A i \in 1 .. m + n : qr[i] = IF i <= m THEN q[i] ELSE r[i - m]
    BY ConcatProperties
  <1> HIDE DEF qr
  <1>3. /\ UnderWay(q, k) = SumOf(a, 1 .. m) /\ SumOf(a, 1 .. m) \in Int
        /\ \A i \in 1 .. m : a[i] \in Int
        /\ IsFiniteSet(1 .. m)
    BY UnderWayIsSum
  <1>4. /\ UnderWay(r, k) = SumOf(b, 1 .. n)
        /\ \A i \in 1 .. n : b[i] \in Int
        /\ IsFiniteSet(1 .. n)
    BY UnderWayIsSum
  <1>5. /\ UnderWay(qr, k) = SumOf(ab, 1 .. m + n)
        /\ \A i \in 1 .. m + n : ab[i] \in Int
        /\ IsFiniteSet(1 .. m + n)
    BY <1>2, UnderWayIsSum
  <1>6. /\ \A i \in 1 .. m : ab[i] = a[i]
        /\ \A j \in 1 .. n : ab[m + j] = b[j]
    <2>1. ASSUME NEW i \in 1 .. m
          PROVE  ab[i] = a[i]
      <3>1. i \in 1 .. m + n /\ i <= m
        BY <1>1
      <3>2. QED
        BY <1>2, <3>1 DEF Amount
    <2>2. ASSUME NEW j \in 1 .. n
          PROVE  ab[m + j] = b[j]
      <3>1. m + j \in 1 .. m + n /\ ~(m + j <= m) /\ (m + j) - m = j
        BY <1>1
      <3>2. QED
        BY <1>2, <3>1 DEF Amount
    <2>3. QED
      BY <2>1, <2>2
  <1> HIDE DEF a, b, ab, m, n
  <1>7. SumRules(ab, 1 .. m + n)
    BY <1>5, SumFacts
  <1>8. SumRules(b, 1 .. n)
    BY <1>4, SumFacts
  <1> DEFINE T == {j \in 0 .. n : SumOf(ab, 1 .. m + j) = SumOf(a, 1 .. m) + SumOf(b, 1 .. j)}
  <1>9. T \in SUBSET (0 .. n) /\ 0 \in T
    <2>1. SumOf(ab, 1 .. m) = SumOf(a, 1 .. m)
      BY <1>3, <1>6, SumSame
    <2>2. 1 .. 0 = {} /\ m + 0 = m /\ 0 \in 0 .. n
      BY <1>1
    <2>3. QED
      BY <1>3, <1>8, <2>1, <2>2 DEF SumRules
  <1>10. ASSUME NEW j \in 1 .. n, j - 1 \in T
         PROVE  j \in T
    <2>1. /\ 1 .. m + j \in SUBSET (1 .. m + n) /\ m + j \in 1 .. m + j
          /\ (1 .. m + j) \ {m + j} = 1 .. m + (j - 1)
          /\ 1 .. j \in SUBSET (1 .. n) /\ j \in 1 .. j /\ (1 .. j) \ {j} = 1 .. (j - 1)
          /\ 1 .. (j - 1) \in SUBSET (1 .. n) /\ j \in 0 .. n
      BY <1>1, SMTT(30)
    <2>2. SumOf(ab, 1 .. m + j) = ab[m + j] + SumOf(ab, 1 .. m + (j - 1))
      <3>1. SumOf(ab, 1 .. m + j) = ab[m + j] + SumOf(ab, (1 .. m + j) \ {m + j})
        BY <1>7, <2>1, Zenon DEF SumRules
      <3>2. QED
        BY <2>1, <3>1, Zenon
    <2>3. SumOf(b, 1 .. j) = b[j] + SumOf(b, 1 .. (j - 1)) /\ SumOf(b, 1 .. (j - 1)) \in Int
      <3>1. SumOf(b, 1 .. j) = b[j] + SumOf(b, (1 .. j) \ {j})
        BY <1>8, <2>1, Zenon DEF SumRules
      <3>2. SumOf(b, 1 .. (j - 1)) \in Int
        BY <1>8, <2>1, Zenon DEF SumRules
      <3>3. QED
        BY <2>1, <3>1, <3>2, Zenon
    <2>4. SumOf(ab, 1 .. m + (j - 1)) = SumOf(a, 1 .. m) + SumOf(b, 1 .. (j - 1))
      BY <1>10
    <2>5. ab[m + j] = b[j] /\ b[j] \in Int
      BY <1>4, <1>6
    <2>6. SumOf(ab, 1 .. m + j) = SumOf(a, 1 .. m) + SumOf(b, 1 .. j)
      BY <1>3, <2>2, <2>3, <2>4, <2>5
    <2>7. QED
      BY <2>1, <2>6
  <1> HIDE DEF T
  <1>11. T = 0 .. n
    BY <1>1, <1>9, <1>10, IndexInduction
  <1>12. n \in T
    BY <1>1, <1>11
  <1>13. SumOf(ab, 1 .. m + n) = SumOf(a, 1 .. m) + SumOf(b, 1 .. n)
    BY <1>12 DEF T
  <1>14. QED
    BY <1>2, <1>3, <1>4, <1>5, <1>13 DEF qr

LEMMA UnderWayAppend ==
  ASSUME NEW q \in Seq(OrderTypes), NEW x \in OrderTypes, NEW k
  PROVE  /\ Append(q, x) \in Seq(OrderTypes)
         /\ UnderWay(Append(q, x), k) = UnderWay(q, k) + (IF x.sku = k THEN x.quantity ELSE 0)
  <1> DEFINE one == <<x>>
  <1>1. one \in Seq(OrderTypes) /\ Len(one) = 1 /\ one[1] = x
    OBVIOUS
  <1>2. Append(q, x) = q \o one
    BY AppendIsConcat
  <1> HIDE DEF one
  <1>3. /\ UnderWay(one, k) = SumOf(Amount(one, k), 1 .. 1)
        /\ \A i \in 1 .. 1 : Amount(one, k)[i] \in Int
        /\ IsFiniteSet(1 .. 1)
    <2>1. /\ UnderWay(one, k) = SumOf(Amount(one, k), 1 .. Len(one))
          /\ \A i \in 1 .. Len(one) : Amount(one, k)[i] \in Nat
          /\ IsFiniteSet(1 .. Len(one))
      BY <1>1, UnderWayIsSum
    <2> DEFINE a == Amount(one, k)
    <2> HIDE DEF a
    <2>2. QED
      BY <1>1, <2>1 DEF a
  <1>4. Amount(one, k)[1] = IF x.sku = k THEN x.quantity ELSE 0
    BY <1>1 DEF Amount
  <1> DEFINE a == Amount(one, k)
  <1> HIDE DEF a
  <1>5. SumRules(a, 1 .. 1)
    BY <1>3, SumFacts DEF a
  <1>6. SumOf(a, 1 .. 1) = a[1]
    <2>1. 1 .. 1 \in SUBSET (1 .. 1) /\ 1 \in 1 .. 1 /\ (1 .. 1) \ {1} = {}
      OBVIOUS
    <2>2. SumOf(a, 1 .. 1) = a[1] + SumOf(a, (1 .. 1) \ {1})
      BY <1>5, <2>1, ZenonT(60) DEF SumRules
    <2>3. SumOf(a, (1 .. 1) \ {1}) = 0
      BY <1>5, <2>1, Zenon DEF SumRules
    <2>4. a[1] \in Int
      BY <1>3 DEF a
    <2>5. QED
      BY <2>2, <2>3, <2>4
  <1>7. UnderWay(one, k) = IF x.sku = k THEN x.quantity ELSE 0
    BY <1>3, <1>4, <1>6 DEF a
  <1>8. Append(q, x) \in Seq(OrderTypes)
    BY AppendProperties
  <1>9. UnderWay(q \o one, k) = UnderWay(q, k) + UnderWay(one, k)
    BY <1>1, UnderWayConcat
  <1>10. QED
    BY <1>2, <1>7, <1>8, <1>9

-----------------------------------------------------------------------------
(* What the morning leaves in a queue.                                     *)

\* The queue is sifted one element at a time.
Sifts(p, Q, q, day) ==
  /\ p \in [0 .. Len(q) -> Seq(Q)]
  /\ p[0] = <<>>
  /\ \A i \in 1 .. Len(q) :
       p[i] = IF q[i].due > day THEN Append(p[i - 1], q[i]) ELSE p[i - 1]
  /\ NotDue(q, day) = p[Len(q)]

LEMMA NotDuePath ==
  ASSUME NEW Q, NEW q \in Seq(Q), NEW day
  PROVE  \E p : Sifts(p, Q, q, day)
  <1> DEFINE n == Len(q)
             A == Seq(Q)
             Step(a, x) == IF x.due > day THEN Append(a, x) ELSE a
             G == [y \in (1 .. n) \X A |-> Step(y[2], q[y[1]])]
             Body(h) == [s \in SUBSET (1 .. n) |->
                           IF s = {} THEN <<>> ELSE Step(h[s \ {Max(s)}], q[Max(s)])]
             it == CHOOSE h : h = Body(h)
  <1>1. n \in Nat /\ DOMAIN q = 1 .. n /\ <<>> \in A
    OBVIOUS
  <1>2. ASSUME NEW i \in 1 .. n
        PROVE  q[i] \in Q
    BY <1>1, ElementOfSeq
  <1>3. ASSUME NEW i \in 1 .. n, NEW a \in A
        PROVE  Step(a, q[i]) \in A
    BY <1>2, AppendProperties
  <1>4. G \in [(1 .. n) \X A -> A]
    <2> HIDE DEF A
    <2>1. QED
      BY <1>3
  <1> HIDE DEF A
  <1>5. PICK h : FoldsTo(h, n, A, <<>>, G)
    BY <1>1, <1>4, FoldExists
  <1>6. h = Body(h)
    <2>1. ASSUME NEW s \in SUBSET (1 .. n), s # {}
          PROVE  h[s] = Step(h[s \ {Max(s)}], q[Max(s)])
      <3>1. Max(s) \in 1 .. n
        BY <1>1, <2>1, MaxOf
      <3>2. h[s \ {Max(s)}] \in A /\ h[s] = G[<<Max(s), h[s \ {Max(s)}]>>]
        BY <1>5, <2>1 DEF FoldsTo
      <3> HIDE DEF Step
      <3>3. QED
        BY <3>1, <3>2
    <2>2. h \in [SUBSET (1 .. n) -> A] /\ h[{}] = <<>>
      BY <1>5 DEF FoldsTo
    <2> HIDE DEF Step
    <2>3. QED
      BY <2>1, <2>2
  <1>7. it = Body(it)
    BY <1>6
  <1>8. NotDue(q, day) = it[1 .. n]
    BY <1>1 DEF NotDue, FoldLeft, MapThenFoldSet
  <1> HIDE DEF it, Step
  <1> DEFINE p == [i \in 0 .. n |-> it[1 .. i]]
  <1>9. p[0] = <<>>
    BY <1>1, <1>7
  <1>10. ASSUME NEW i \in 1 .. n
         PROVE  p[i] = Step(p[i - 1], q[i])
    <2>1. 1 .. i \in SUBSET (1 .. n) /\ i \in Nat \ {0} /\ i \in 0 .. n /\ i - 1 \in 0 .. n
      OBVIOUS
    <2>2. Max(1 .. i) = i /\ (1 .. i) \ {i} = 1 .. (i - 1) /\ 1 .. i # {}
      BY <2>1, MaxOfPrefix
    <2>3. QED
      BY <1>7, <2>1, <2>2
  <1>11. p = [i \in 0 .. n |-> p[i]] /\ n \in 0 .. n /\ NotDue(q, day) = p[n]
    BY <1>1, <1>8
  <1> HIDE DEF p
  <1>12. p \in [0 .. n -> A]
    <2>1. \A i \in 1 .. n : p[i - 1] \in A => p[i] \in A
      BY <1>3, <1>10
    <2>2. QED
      BY <1>1, <1>9, <1>11, <2>1, PrefixesIn
  <1>13. \A i \in 1 .. n : p[i] = IF q[i].due > day THEN Append(p[i - 1], q[i]) ELSE p[i - 1]
    BY <1>10 DEF Step
  <1>14. Sifts(p, Q, q, day)
    BY <1>9, <1>11, <1>12, <1>13, Zenon DEF A, Sifts
  <1>15. QED
    BY <1>14

\* Nothing stays in the queue that is due.
LEMMA NotDueFacts ==
  ASSUME NEW Q, NEW q \in Seq(Q), NEW day
  PROVE  /\ NotDue(q, day) \in Seq(Q)
         /\ \A i \in DOMAIN NotDue(q, day) : NotDue(q, day)[i].due > day
  <1> DEFINE n == Len(q)
             Later(s) == \A i \in DOMAIN s : s[i].due > day
  <1>1. n \in Nat
    BY LenProperties
  <1>2. PICK p : Sifts(p, Q, q, day)
    BY NotDuePath
  <1>3. /\ p \in [0 .. n -> Seq(Q)] /\ p[0] = <<>>
        /\ \A i \in 1 .. n :
             p[i] = IF q[i].due > day THEN Append(p[i - 1], q[i]) ELSE p[i - 1]
        /\ NotDue(q, day) = p[n]
    BY <1>2 DEF Sifts
  <1> DEFINE T == {i \in 0 .. n : Later(p[i])}
  <1>4. T \in SUBSET (0 .. n) /\ 0 \in T
    <2>1. Later(<<>>) /\ 0 \in 0 .. n
      BY <1>1
    <2> HIDE DEF Later
    <2>2. QED
      BY <1>3, <2>1
  <1>5. ASSUME NEW i \in 1 .. n, i - 1 \in T
        PROVE  i \in T
    <2> DEFINE a == p[i - 1]
    <2>1. i \in 0 .. n /\ i - 1 \in 0 .. n /\ q[i] \in Q /\ Later(a)
      BY <1>1, <1>5, ElementOfSeq
    <2>2. a \in Seq(Q) /\ p[i] = IF q[i].due > day THEN Append(a, q[i]) ELSE a
      BY <1>3, <2>1
    <2> HIDE DEF a
    <2>3. ASSUME q[i].due > day
          PROVE  Later(Append(a, q[i]))
      <3>1. /\ DOMAIN a = 1 .. Len(a) /\ Len(a) \in Nat
            /\ DOMAIN Append(a, q[i]) = 1 .. Len(a) + 1
            /\ Append(a, q[i])[Len(a) + 1] = q[i]
            /\ \A j \in 1 .. Len(a) : Append(a, q[i])[j] = a[j]
        BY <2>1, <2>2, AppendProperties, LenProperties
      <3>2. ASSUME NEW j \in 1 .. Len(a) + 1
            PROVE  Append(a, q[i])[j].due > day
        <4>1. j \in 1 .. Len(a) \/ j = Len(a) + 1
          BY <3>1
        <4>2. QED
          BY <2>1, <2>3, <3>1, <4>1
      <3>3. QED
        BY <3>1, <3>2
    <2> HIDE DEF Later
    <2>4. QED
      BY <2>1, <2>2, <2>3
  <1> HIDE DEF T, Later
  <1>6. T = 0 .. n
    BY <1>1, <1>4, <1>5, IndexInduction
  <1>7. n \in T /\ n \in 0 .. n
    BY <1>1, <1>6
  <1>8. p[n] \in Seq(Q)
    BY <1>3, <1>7, Zenon
  <1>9. Later(p[n])
    BY <1>7 DEF T
  <1>10. QED
    BY <1>3, <1>8, <1>9 DEF Later

\* Units of a product that are due by a day.
DueUnits(q, k, day) ==
  SumOver([i \in DOMAIN q |-> q[i].quantity],
          {i \in DOMAIN q : q[i].sku = k /\ q[i].due <= day})

\* What is due and what stays are the whole queue.
LEMMA NotDueUnits ==
  ASSUME NEW q \in Seq(OrderTypes), NEW k, NEW day \in Int
  PROVE  /\ UnderWay(q, k) = UnderWay(NotDue(q, day), k) + DueUnits(q, k, day)
         /\ DueUnits(q, k, day) \in Nat
  <1> DEFINE n == Len(q)
             f == [i \in DOMAIN q |-> q[i].quantity]
             C == {i \in DOMAIN q : q[i].sku = k /\ q[i].due <= day}
             a == Amount(q, k)
             gone == [i \in 1 .. n |-> IF i \in C THEN f[i] ELSE 0]
             kept == [i \in 1 .. n |-> IF q[i].due > day /\ q[i].sku = k THEN q[i].quantity
                                                                        ELSE 0]
  <1>1. n \in Nat /\ DOMAIN q = 1 .. n
    BY LenProperties
  <1>2. ASSUME NEW i \in 1 .. n
        PROVE  q[i] \in OrderTypes /\ q[i].quantity \in Nat /\ q[i].due \in Int
    <2>1. q[i] \in OrderTypes
      BY ElementOfSeq
    <2>2. QED
      BY <2>1 DEF OrderTypes
  <1>3. /\ UnderWay(q, k) = SumOf(a, 1 .. n)
        /\ IsFiniteSet(1 .. n)
    BY UnderWayIsSum
  <1>4. ASSUME NEW i \in 1 .. n
        PROVE  /\ kept[i] \in Int /\ gone[i] \in Nat /\ a[i] = kept[i] + gone[i]
               /\ kept[i] = IF q[i].due > day /\ q[i].sku = k THEN q[i].quantity ELSE 0
    BY <1>1, <1>2 DEF Amount
  <1>5. DueUnits(q, k, day) = SumOf(gone, 1 .. n)
    <2>1. DueUnits(q, k, day) = SumOf(f, C)
      BY DEF DueUnits, SumOver, SumOf
    <2>2. C \in SUBSET (1 .. n) /\ \A i \in C : f[i] \in Int
      BY <1>1, <1>2
    <2> HIDE DEF f, C
    <2>3. SumOf(f, C) = SumOf(gone, 1 .. n)
      BY <1>3, <2>2, SumWhere
    <2>4. QED
      BY <2>1, <2>3
  <1> HIDE DEF a, gone, kept, f, C
  <1>6. SumOf(a, 1 .. n) = SumOf(kept, 1 .. n) + SumOf(gone, 1 .. n)
    BY <1>3, <1>4, SumPlus, SMTT(30)
  <1>7. SumOf(gone, 1 .. n) \in Nat
    BY <1>3, <1>4, SumNatural
  <1>8. SumRules(kept, 1 .. n)
    BY <1>3, <1>4, SumFacts
  <1>9. PICK p : Sifts(p, OrderTypes, q, day)
    BY NotDuePath
  <1>10. /\ p \in [0 .. n -> Seq(OrderTypes)] /\ p[0] = <<>>
         /\ \A i \in 1 .. n :
              p[i] = IF q[i].due > day THEN Append(p[i - 1], q[i]) ELSE p[i - 1]
         /\ NotDue(q, day) = p[n]
    BY <1>9 DEF Sifts
  <1> DEFINE T == {i \in 0 .. n : UnderWay(p[i], k) = SumOf(kept, 1 .. i)}
  <1> HIDE DEF n
  <1>11. T \in SUBSET (0 .. n) /\ 0 \in T
    <2>1. 1 .. 0 = {} /\ 0 \in 0 .. n
      BY <1>1
    <2>2. UnderWay(p[0], k) = 0
      BY <1>10, UnderWayEmpty
    <2>3. SumOf(kept, 1 .. 0) = 0
      BY <1>8, <2>1 DEF SumRules
    <2>4. QED
      BY <2>1, <2>2, <2>3
  <1>12. ASSUME NEW i \in 1 .. n, i - 1 \in T
         PROVE  i \in T
    <2>1. i \in 0 .. n /\ i - 1 \in 0 .. n
      BY <1>1
    <2>2. p[i - 1] \in Seq(OrderTypes) /\ q[i] \in OrderTypes
      BY <1>2, <1>10, <2>1
    <2>3. /\ 1 .. i \in SUBSET (1 .. n) /\ 1 .. (i - 1) \in SUBSET (1 .. n)
          /\ i \in 1 .. i /\ (1 .. i) \ {i} = 1 .. (i - 1)
      BY <1>1
    <2>4. SumOf(kept, 1 .. i) = kept[i] + SumOf(kept, 1 .. (i - 1))
      <3>1. SumOf(kept, 1 .. i) = kept[i] + SumOf(kept, (1 .. i) \ {i})
        BY <1>8, <2>3, Zenon DEF SumRules
      <3>2. QED
        BY <2>3, <3>1, Zenon
    <2>5. SumOf(kept, 1 .. (i - 1)) \in Int
      BY <1>8, <2>3, Zenon DEF SumRules
    <2>6. UnderWay(p[i - 1], k) = SumOf(kept, 1 .. (i - 1))
      BY <1>12
    <2>7. UnderWay(p[i], k) = UnderWay(p[i - 1], k) + kept[i]
      <3>1. CASE q[i].due > day
        <4>1. p[i] = Append(p[i - 1], q[i])
          BY <1>10, <3>1
        <4>2. UnderWay(p[i], k)
                = UnderWay(p[i - 1], k) + (IF q[i].sku = k THEN q[i].quantity ELSE 0)
          BY <2>2, <4>1, UnderWayAppend
        <4>3. kept[i] = IF q[i].sku = k THEN q[i].quantity ELSE 0
          BY <1>4, <3>1
        <4>4. QED
          BY <4>2, <4>3
      <3>2. CASE ~(q[i].due > day)
        <4>1. p[i] = p[i - 1] /\ kept[i] = 0
          BY <1>4, <1>10, <3>2
        <4>2. QED
          BY <2>5, <2>6, <4>1
      <3>3. QED
        BY <3>1, <3>2
    <2>8. UnderWay(p[i], k) = SumOf(kept, 1 .. i)
      <3>1. kept[i] \in Int
        BY <1>4
      <3>2. QED
        BY <2>4, <2>5, <2>6, <2>7, <3>1
    <2>9. QED
      BY <2>1, <2>8
  <1> HIDE DEF T
  <1>13. T = 0 .. n
    BY <1>1, <1>11, <1>12, IndexInduction
  <1>14. n \in T
    BY <1>1, <1>13
  <1>15. UnderWay(NotDue(q, day), k) = SumOf(kept, 1 .. n)
    BY <1>10, <1>14 DEF T
  <1>16. QED
    BY <1>3, <1>5, <1>6, <1>7, <1>15 DEF n

-----------------------------------------------------------------------------
(* The lines of an order.                                                  *)

LineFor(items, due, k) == [sku |-> k, quantity |-> items[k], due |-> due[k]]
Lines(items, due) ==
  SetToSeq({[sku |-> k, quantity |-> items[k], due |-> due[k]] : k \in DOMAIN items})

\* Each product that is ordered has one line.
OneEach(g, n, items, due) ==
  /\ n \in Nat
  /\ g = [i \in 1 .. n |-> g[i]]
  /\ \A i \in 1 .. n : \E k \in DOMAIN items : g[i] = LineFor(items, due, k)
  /\ \A k \in DOMAIN items : \E i \in 1 .. n :
       /\ g[i] = LineFor(items, due, k)
       /\ \A j \in 1 .. n : j # i => g[j].sku # k

LEMMA LinesOnce ==
  ASSUME NEW items, NEW due, DOMAIN items \in SUBSET Skus
  PROVE  \E n : OneEach(Lines(items, due), n, items, due)
  <1> DEFINE D == DOMAIN items
             L == {LineFor(items, due, k) : k \in D}
             f == [k \in D |-> LineFor(items, due, k)]
             n == Cardinality(L)
             g == Lines(items, due)
  <1>1. IsFiniteSet(D)
    BY VendingAssumption, FS_Subset
  <1>2. f \in Surjection(D, L)
    BY DEF Surjection
  <1>3. IsFiniteSet(L)
    <2> HIDE DEF D, L, f
    <2>1. QED
      BY <1>1, <1>2, FS_Surjection
  <1>4. n \in Nat /\ ExistsBijection(1 .. n, L)
    <2> HIDE DEF L
    <2>1. QED
      BY <1>3, FS_CardinalityType
  <1>5. g \in [1 .. n -> L] /\ IsInjective(g)
    <2>1. PICK b : b \in Bijection(1 .. n, L)
      BY <1>4 DEF ExistsBijection
    <2>2. b \in [1 .. n -> L] /\ IsInjective(b)
      BY <2>1 DEF Bijection, Injection
    <2>3. g = CHOOSE h \in [1 .. n -> L] : IsInjective(h)
      BY DEF Lines, SetToSeq, LineFor
    <2> HIDE DEF L, n, g
    <2>4. QED
      BY <2>2, <2>3
  <1>6. \A t \in L : \E i \in 1 .. n : g[i] = t
    <2> HIDE DEF L, g
    <2>1. g \in Injection(1 .. n, L)
      BY <1>5 DEF Injection
    <2>2. Cardinality(1 .. n) = Cardinality(L)
      BY <1>4, FS_Interval
    <2>3. g \in Surjection(1 .. n, L)
      BY <1>3, <2>1, <2>2, FS_Injection
    <2>4. QED
      BY <2>3 DEF Surjection
  <1> HIDE DEF g, n
  <1>7. ASSUME NEW k \in D
        PROVE  \E i \in 1 .. n : g[i] = LineFor(items, due, k)
                                /\ \A j \in 1 .. n : j # i => g[j].sku # k
    <2>1. PICK i \in 1 .. n : g[i] = LineFor(items, due, k)
      BY <1>6
    <2>2. ASSUME NEW j \in 1 .. n, g[j].sku = k
          PROVE  j = i
      <3>1. PICK m \in D : g[j] = LineFor(items, due, m)
        BY <1>5
      <3>2. m = k
        BY <2>2, <3>1 DEF LineFor
      <3>3. g[j] = g[i]
        BY <2>1, <3>1, <3>2
      <3>4. QED
        BY <1>5, <3>3 DEF IsInjective
    <2>3. QED
      BY <2>1, <2>2
  <1>8. g = [i \in 1 .. n |-> g[i]]
    BY <1>5
  <1>9. \A i \in 1 .. n : \E k \in D : g[i] = LineFor(items, due, k)
    BY <1>5
  <1>10. OneEach(g, n, items, due)
    BY <1>4, <1>7, <1>8, <1>9 DEF OneEach
  <1>11. QED
    BY <1>10 DEF g

\* Lines that are due as they should be, with the units of a product.
Ordered(q, D, items, due, k) ==
  /\ q \in Seq(OrderTypes)
  /\ UnderWay(q, k) = IF k \in D THEN items[k] ELSE 0
  /\ \A i \in DOMAIN q : \E d \in D : q[i].due = due[d]

LEMMA LinesUnits ==
  ASSUME NEW D \in SUBSET Skus, NEW items \in [D -> Nat], NEW due \in [D -> Int], NEW k
  PROVE  Ordered(Lines(items, due), D, items, due, k)
  <1> DEFINE g == Lines(items, due)
             a == Amount(g, k)
  <1>1. PICK n : OneEach(g, n, items, due)
    BY LinesOnce
  <1> HIDE DEF g
  <1>2. /\ n \in Nat /\ g = [i \in 1 .. n |-> g[i]]
        /\ \A i \in 1 .. n : \E d \in D : g[i] = LineFor(items, due, d)
        /\ \A d \in D : \E i \in 1 .. n :
             /\ g[i] = LineFor(items, due, d)
             /\ \A j \in 1 .. n : j # i => g[j].sku # d
    BY <1>1 DEF OneEach
  <1>3. ASSUME NEW i \in 1 .. n
        PROVE  g[i] \in OrderTypes /\ g[i].sku \in D /\ \E d \in D : g[i].due = due[d]
    <2>1. PICK d \in D : g[i] = LineFor(items, due, d)
      BY <1>2
    <2>2. QED
      BY <2>1 DEF LineFor, OrderTypes
  <1>4. g \in Seq(OrderTypes) /\ Len(g) = n /\ DOMAIN g = 1 .. n
    <2>1. g \in [1 .. n -> OrderTypes]
      BY <1>2, <1>3
    <2>2. QED
      BY <1>2, <2>1, SeqDef, LenProperties
  <1>5. /\ UnderWay(g, k) = SumOf(a, 1 .. n) /\ IsFiniteSet(1 .. n)
        /\ \A i \in 1 .. n : a[i] \in Int
    BY <1>4, UnderWayIsSum
  <1>6. \A i \in 1 .. n : a[i] = IF g[i].sku = k THEN g[i].quantity ELSE 0
    BY <1>4 DEF Amount
  <1> HIDE DEF a
  <1>7. UnderWay(g, k) = IF k \in D THEN items[k] ELSE 0
    <2>1. CASE k \in D
      <3>1. PICK i \in 1 .. n : /\ g[i] = LineFor(items, due, k)
                               /\ \A j \in 1 .. n : j # i => g[j].sku # k
        BY <1>2, <2>1
      <3>2. SumRules(a, 1 .. n)
        BY <1>5, SumFacts
      <3>3. SumOf(a, 1 .. n) = a[i] + SumOf(a, (1 .. n) \ {i})
        <4>1. 1 .. n \in SUBSET (1 .. n)
          OBVIOUS
        <4>2. QED
          BY <3>2, <4>1, Zenon DEF SumRules
      <3>4. SumOf(a, (1 .. n) \ {i}) = 0
        <4>1. IsFiniteSet((1 .. n) \ {i})
          BY <1>5, FS_RemoveElement
        <4>2. \A j \in (1 .. n) \ {i} : a[j] = 0
          BY <1>6, <3>1
        <4>3. QED
          BY <4>1, <4>2, SumZero
      <3>5. a[i] = items[k] /\ items[k] \in Nat
        BY <1>6, <2>1, <3>1 DEF LineFor
      <3>6. QED
        BY <1>5, <2>1, <3>3, <3>4, <3>5
    <2>2. CASE k \notin D
      <3>1. \A j \in 1 .. n : a[j] = 0
        BY <1>3, <1>6, <2>2
      <3>2. SumOf(a, 1 .. n) = 0
        BY <1>5, <3>1, SumZero
      <3>3. QED
        BY <1>5, <2>2, <3>2
    <2>3. QED
      BY <2>1, <2>2
  <1>8. QED
    BY <1>3, <1>4, <1>7 DEF g, Ordered

-----------------------------------------------------------------------------
(* What is in the slots.                                                   *)

\* The units of a product in a slot, and in all of them.
Holds(slot, k) == IF slot.sku = k THEN slot.quantity ELSE 0
Stock(slots, k) == [i \in Slots |-> Holds(slots[i], k)]

LEMMA StockIsSum ==
  ASSUME NEW s, s.slots \in [Slots -> SlotTypes], NEW k
  PROVE  /\ Stocked(s, k) = SumOf(Stock(s.slots, k), Slots)
         /\ Stocked(s, k) \in Int
         /\ \A i \in Slots : Stock(s.slots, k)[i] \in Int
  <1> DEFINE f == [i \in Slots |-> s.slots[i].quantity]
             C == InSlots(s, k)
             a == [i \in Slots |-> IF i \in C THEN f[i] ELSE 0]
  <1>1. \A i \in Slots : s.slots[i].quantity \in Nat
    BY DEF SlotTypes
  <1>2. C \in SUBSET Slots /\ \A i \in C : f[i] \in Int
    BY <1>1 DEF InSlots
  <1>3. a = Stock(s.slots, k)
    BY DEF Stock, Holds, InSlots
  <1>4. \A i \in Slots : a[i] \in Int
    BY <1>1
  <1>5. Stocked(s, k) = SumOf(f, C)
    BY DEF Stocked, SumOver, SumOf
  <1> HIDE DEF f, C
  <1>6. SumOf(f, C) = SumOf(a, Slots)
    BY <1>2, VendingAssumption, SumWhere, ZenonT(60)
  <1> HIDE DEF a
  <1>7. SumRules(a, Slots)
    BY <1>4, VendingAssumption, SumFacts
  <1>8. SumOf(a, Slots) \in Int
    BY <1>7 DEF SumRules
  <1>9. QED
    BY <1>3, <1>4, <1>5, <1>6, <1>8

\* One slot changes.
LEMMA SlotChanged ==
  ASSUME NEW s, s.slots \in [Slots -> SlotTypes], NEW t, NEW i \in Slots, NEW new \in SlotTypes,
         t.slots = [s.slots EXCEPT ![i] = new], NEW k
  PROVE  Stocked(t, k) = Stocked(s, k) - Holds(s.slots[i], k) + Holds(new, k)
  <1> DEFINE a == Stock(s.slots, k)
             b == Stock(t.slots, k)
             rest == Slots \ {i}
  <1>1. t.slots \in [Slots -> SlotTypes]
    OBVIOUS
  <1>2. /\ Stocked(s, k) = SumOf(a, Slots) /\ \A j \in Slots : a[j] \in Int
        /\ Stocked(t, k) = SumOf(b, Slots) /\ \A j \in Slots : b[j] \in Int
    BY <1>1, StockIsSum
  <1>3. /\ a[i] = Holds(s.slots[i], k) /\ b[i] = Holds(new, k)
        /\ \A j \in rest : a[j] = b[j]
    BY DEF Stock
  <1> HIDE DEF a, b
  <1>4. SumRules(a, Slots) /\ SumRules(b, Slots)
    BY <1>2, VendingAssumption, SumFacts
  <1>5. Slots \in SUBSET Slots /\ rest \in SUBSET Slots
    OBVIOUS
  <1>6. SumOf(a, Slots) = a[i] + SumOf(a, rest) /\ SumOf(a, rest) \in Int
    BY <1>4, <1>5, Zenon DEF SumRules
  <1>7. SumOf(b, Slots) = b[i] + SumOf(b, rest)
    BY <1>4, <1>5, Zenon DEF SumRules
  <1>8. SumOf(a, rest) = SumOf(b, rest)
    <2>1. IsFiniteSet(rest)
      BY VendingAssumption, FS_RemoveElement
    <2>2. \A j \in rest : a[j] \in Int /\ a[j] = b[j]
      BY <1>2, <1>3
    <2>3. QED
      BY <2>1, <2>2, SumSame
  <1>9. a[i] \in Int /\ b[i] \in Int
    BY <1>2
  <1>10. QED
    BY <1>2, <1>3, <1>6, <1>7, <1>8, <1>9

\* No slot sells more than it holds.
LEMMA SalesTyped ==
  ASSUME NEW s, s.slots \in [Slots -> SlotTypes], NEW demand \in [Skus -> Nat]
  PROVE  /\ Sales(s, demand) = [i \in Slots |-> Sales(s, demand)[i]]
         /\ \A i \in Slots : /\ Sales(s, demand)[i] \in Nat
                             /\ Sales(s, demand)[i] <= s.slots[i].quantity
                             /\ s.slots[i].quantity \in Nat
  <1> DEFINE q == [j \in Slots |-> s.slots[j].quantity]
             before(i, k) == SumOver(q, {j \in InSlots(s, k) : j < i})
  <1>1. \A i \in Slots : q[i] \in Int
    BY DEF SlotTypes
  <1>2. ASSUME NEW i, NEW k
        PROVE  before(i, k) \in Int
    <2> DEFINE C == {j \in InSlots(s, k) : j < i}
    <2>1. before(i, k) = SumOf(q, C) /\ C \in SUBSET Slots
      BY DEF SumOver, SumOf, InSlots
    <2> HIDE DEF q, C
    <2>2. SumRules(q, Slots)
      BY <1>1, VendingAssumption, SumFacts
    <2>3. SumOf(q, C) \in Int
      BY <2>1, <2>2 DEF SumRules
    <2>4. QED
      BY <2>1, <2>3
  <1>3. ASSUME NEW i \in Slots
        PROVE  LET k == s.slots[i].sku
               IN  Sales(s, demand)[i] =
                     IF k = NoSku THEN 0
                     ELSE IF demand[k] <= before(i, k) THEN 0
                          ELSE Least(demand[k] - before(i, k), s.slots[i].quantity)
    BY DEF Sales
  <1> HIDE DEF before
  <1>4. ASSUME NEW i \in Slots
        PROVE  /\ Sales(s, demand)[i] \in Nat
               /\ Sales(s, demand)[i] <= s.slots[i].quantity
               /\ s.slots[i].quantity \in Nat
    <2> DEFINE k == s.slots[i].sku
    <2>1. s.slots[i].quantity \in Nat /\ k \in Skus \cup {NoSku} /\ before(i, k) \in Int
      BY <1>2 DEF SlotTypes
    <2>2. CASE k = NoSku
      BY <1>3, <2>1, <2>2
    <2>3. CASE k # NoSku
      <3>1. demand[k] \in Nat
        BY <2>1, <2>3
      <3>2. Sales(s, demand)[i] = IF demand[k] <= before(i, k) THEN 0
                                  ELSE Least(demand[k] - before(i, k), s.slots[i].quantity)
        BY <1>3, <2>3
      <3> HIDE DEF k
      <3>3. QED
        BY <2>1, <3>1, <3>2 DEF Least
    <2>4. QED
      BY <2>2, <2>3
  <1>5. Sales(s, demand) = [i \in Slots |-> Sales(s, demand)[i]]
    BY DEF Sales
  <1>6. QED
    BY <1>4, <1>5

\* What a day sells is gone from the slots.
LEMMA SoldOut ==
  ASSUME NEW s, s.slots \in [Slots -> SlotTypes], NEW sales,
         \A i \in Slots : sales[i] \in Nat /\ sales[i] <= s.slots[i].quantity,
         NEW t, t.slots = [i \in Slots |-> SoldFrom(s.slots[i], sales[i])], NEW k \in Skus
  PROVE  /\ t.slots \in [Slots -> SlotTypes]
         /\ SumOver(sales, InSlots(s, k)) \in Nat
         /\ Stocked(s, k) = Stocked(t, k) + SumOver(sales, InSlots(s, k))
  <1> DEFINE C == InSlots(s, k)
             a == Stock(s.slots, k)
             b == Stock(t.slots, k)
             sold == [i \in Slots |-> IF i \in C THEN sales[i] ELSE 0]
  <1>1. ASSUME NEW i \in Slots
        PROVE  /\ SoldFrom(s.slots[i], sales[i]) \in SlotTypes
               /\ Holds(s.slots[i], k) = Holds(t.slots[i], k)
                                          + (IF i \in C THEN sales[i] ELSE 0)
    <2> DEFINE slot == s.slots[i]
               n == sales[i]
    <2>1. slot \in SlotTypes /\ n \in Nat /\ n <= slot.quantity /\ slot.quantity \in Nat
      BY DEF SlotTypes
    <2>2. t.slots[i] = SoldFrom(slot, n) /\ (i \in C <=> slot.sku = k)
      BY DEF InSlots
    <2> HIDE DEF slot, n
    <2>3. CASE n > 0 /\ slot.quantity = n
      <3>1. SoldFrom(slot, n) = EmptySlot /\ EmptySlot \in SlotTypes
        BY <2>3 DEF SoldFrom, EmptySlot, SlotTypes
      <3>2. Holds(EmptySlot, k) = 0
        BY VendingAssumption DEF EmptySlot, Holds
      <3>3. Holds(slot, k) = IF slot.sku = k THEN n ELSE 0
        BY <2>3 DEF Holds
      <3>4. QED
        BY <2>1, <2>2, <3>1, <3>2, <3>3 DEF slot, n
    <2>4. CASE ~(n > 0 /\ slot.quantity = n)
      <3> DEFINE new == [slot EXCEPT !.quantity = @ - n]
      <3>1. SoldFrom(slot, n) = new
        BY <2>4 DEF SoldFrom
      <3>2. new \in SlotTypes /\ new.sku = slot.sku /\ new.quantity = slot.quantity - n
        BY <2>1 DEF SlotTypes
      <3> HIDE DEF new
      <3>3. Holds(slot, k) = Holds(new, k) + (IF slot.sku = k THEN n ELSE 0)
        BY <2>1, <3>2 DEF Holds
      <3>4. QED
        BY <2>2, <3>1, <3>2, <3>3 DEF slot, n
    <2>5. QED
      BY <2>3, <2>4
  <1>2. t.slots \in [Slots -> SlotTypes]
    BY <1>1
  <1>3. /\ Stocked(s, k) = SumOf(a, Slots) /\ \A i \in Slots : a[i] \in Int
        /\ Stocked(t, k) = SumOf(b, Slots) /\ \A i \in Slots : b[i] \in Int
    BY <1>2, StockIsSum
  <1>4. \A i \in Slots : sold[i] \in Nat /\ sold[i] = IF i \in C THEN sales[i] ELSE 0
    OBVIOUS
  <1>5. SumOver(sales, C) = SumOf(sold, Slots)
    <2>1. C \in SUBSET Slots /\ \A i \in C : sales[i] \in Int
      BY DEF InSlots
    <2>2. SumOver(sales, C) = SumOf(sales, C)
      BY DEF SumOver, SumOf
    <2> HIDE DEF C
    <2>3. QED
      BY <2>1, <2>2, VendingAssumption, SumWhere
  <1> HIDE DEF C
  <1>6. ASSUME NEW i \in Slots
        PROVE  a[i] = b[i] + sold[i]
    <2>1. a[i] = Holds(s.slots[i], k) /\ b[i] = Holds(t.slots[i], k)
      BY DEF Stock
    <2> HIDE DEF a, b, sold
    <2>2. QED
      BY <1>1, <1>4, <2>1, Zenon
  <1> HIDE DEF a, b, sold
  <1>7. SumOf(sold, Slots) \in Nat
    BY <1>4, VendingAssumption, SumNatural
  <1>8. SumOf(a, Slots) = SumOf(b, Slots) + SumOf(sold, Slots)
    <2>1. \A i \in Slots : b[i] \in Int /\ sold[i] \in Int /\ a[i] = b[i] + sold[i]
      BY <1>3, <1>4, <1>6
    <2>2. IsFiniteSet(Slots)
      BY VendingAssumption
    <2>3. QED
      BY <2>1, <2>2, SumPlus
  <1>9. QED
    BY <1>2, <1>3, <1>5, <1>7, <1>8 DEF C

-----------------------------------------------------------------------------
(* The books of a simulator state.                                         *)

\* What there is of a product; what there is in money, fees paid counted in.
Held(s, k) == UnderWay(s.orders, k) + s.storage[k] + Stocked(s, k) + s.sold[k]
Worth(s) == s.cash + s.machineCash + DailyFee * s.day - s.revenue

OnTime(s) ==
  /\ \A i \in DOMAIN s.orders : s.orders[i].due > s.day
  /\ \A i \in DOMAIN s.scheduled : s.scheduled[i].due > s.day

\* The capacity in a slot is that of its product, which is why a restock may go by it.
InOrder(slot, i) ==
  IF slot.sku = NoSku THEN slot = EmptySlot
  ELSE /\ i \in Fits[slot.sku]
       /\ slot.capacity = Capacity[slot.sku]
       /\ slot.quantity <= Capacity[slot.sku]
       /\ slot.price > 0
Proper(s) == \A i \in Slots : InOrder(s.slots[i], i)

\* The fields the books are kept in.
SameBooks(s, t) ==
  /\ t.day = s.day /\ t.cash = s.cash /\ t.machineCash = s.machineCash
  /\ t.storage = s.storage /\ t.slots = s.slots /\ t.orders = s.orders
  /\ t.scheduled = s.scheduled /\ t.sold = s.sold /\ t.revenue = s.revenue

LEMMA SameBooksKeep ==
  ASSUME NEW s, NEW t, SameBooks(s, t)
  PROVE  /\ \A k : Held(t, k) = Held(s, k)
         /\ Worth(t) = Worth(s)
         /\ OnTime(s) <=> OnTime(t)
         /\ Proper(s) <=> Proper(t)
  <1>1. \A k : Stocked(t, k) = Stocked(s, k)
    BY DEF SameBooks, Stocked, InSlots
  <1>2. QED
    BY <1>1 DEF SameBooks, Held, Worth, OnTime, Proper

LEMMA NegativeCountedKeeps ==
  ASSUME NEW s \in SimTypes
  PROVE  NegativeCounted(s) \in SimTypes /\ SameBooks(s, NegativeCounted(s))
  <1> DEFINE days == IF s.cash < 0 THEN s.negativeDays + 1 ELSE 0
             t == [s EXCEPT !.negativeDays = days, !.bankrupt = @ \/ days >= GraceDays]
  <1>1. days \in Nat
    BY SMTT(30) DEF SimTypes
  <1>2. NegativeCounted(s) = t
    BY DEF NegativeCounted
  <1> HIDE DEF days
  <1>3. t \in SimTypes
    BY <1>1 DEF SimTypes
  <1>4. SameBooks(s, t)
    BY DEF SimTypes, SameBooks
  <1>5. QED
    BY <1>2, <1>3, <1>4

\* Replies and a summary go into the inbox.
LEMMA InboxTyped ==
  ASSUME NEW inbox \in Seq({"reply", "summary"}), NEW n \in Int
  PROVE  inbox \o [i \in 1 .. n |-> "reply"] \o <<"summary">> \in Seq({"reply", "summary"})
  <1> DEFINE R == {"reply", "summary"}
             replies == [i \in 1 .. n |-> "reply"]
             last == <<"summary">>
  <1>1. replies \in Seq(R)
    <2>1. CASE n \in Nat
      BY <2>1, SeqDef
    <2>2. CASE n \notin Nat
      <3>1. 1 .. n = 1 .. 0 /\ 0 \in Nat
        BY <2>2
      <3>2. replies \in [1 .. 0 -> R]
        BY <3>1
      <3> HIDE DEF replies
      <3>3. QED
        BY <3>1, <3>2, SeqDef
    <2>3. QED
      BY <2>1, <2>2
  <1>2. last \in Seq(R)
    OBVIOUS
  <1> HIDE DEF R, replies, last
  <1>3. inbox \in Seq(R)
    BY DEF R
  <1>4. inbox \o replies \in Seq(R)
    BY <1>1, <1>3, ConcatProperties
  <1>5. inbox \o replies \o last \in Seq(R)
    BY <1>2, <1>4, ConcatProperties
  <1>6. QED
    BY <1>5 DEF R, replies, last

-----------------------------------------------------------------------------
(* The morning, and the passing of time.                                   *)

\* Overnight nothing is lost but the fee, and nothing that is due is left waiting.
LEMMA MorningKeeps ==
  ASSUME NEW s \in SimTypes, NEW demand \in [Skus -> Nat]
  PROVE  LET t == Morning(s, demand)
         IN  /\ t \in SimTypes
             /\ \A k \in Skus : Held(t, k) = Held(s, k)
             /\ Worth(t) = Worth(s) - DailyFee
             /\ OnTime(t)
             /\ Proper(s) => Proper(t)
  <1> DEFINE due == Len(s.scheduled) - Len(NotDue(s.scheduled, s.day))
             sales == Sales(s, demand)
             prices == [i \in Slots |-> sales[i] * s.slots[i].price]
             takings == SumOver(prices, Slots)
             inbox == s.inbox \o [i \in 1 .. due |-> "reply"] \o <<"summary">>
             scheduled == NotDue(s.scheduled, s.day)
             orders == NotDue(s.orders, s.day)
             storage == [k \in Skus |-> s.storage[k] + Arrived(s, k)]
             slots == [i \in Slots |-> SoldFrom(s.slots[i], sales[i])]
             sold == [k \in Skus |-> s.sold[k] + SumOver(sales, InSlots(s, k))]
             m == [s EXCEPT !.inbox = inbox, !.scheduled = scheduled, !.orders = orders,
                            !.storage = storage, !.slots = slots, !.sold = sold,
                            !.machineCash = @ + takings, !.revenue = @ + takings,
                            !.cash = @ - DailyFee]
  <1>1. Morning(s, demand) = NegativeCounted(m)
    BY DEF Morning
  <1>2. /\ s.day \in Int /\ s.cash \in Int /\ s.machineCash \in Nat /\ s.revenue \in Nat
        /\ s.storage \in [Skus -> Nat] /\ s.slots \in [Slots -> SlotTypes]
        /\ s.orders \in Seq(OrderTypes) /\ s.inbox \in Seq({"reply", "summary"})
        /\ s.scheduled \in Seq([due : Int]) /\ s.sold \in [Skus -> Nat]
        /\ DailyFee \in Nat
    <2>1. DailyFee \in Nat
      BY VendingAssumption
    <2>2. s.day \in Int
      BY VendingAssumption DEF SimTypes
    <2>3. QED
      BY <2>1, <2>2 DEF SimTypes
  <1>3. /\ sales = [i \in Slots |-> sales[i]]
        /\ \A i \in Slots : /\ sales[i] \in Nat /\ sales[i] <= s.slots[i].quantity
                            /\ s.slots[i].quantity \in Nat
    BY <1>2, SalesTyped
  <1> HIDE DEF sales
  <1>4. takings \in Nat
    <2>1. takings = SumOf(prices, Slots)
      BY DEF SumOver, SumOf
    <2>2. \A i \in Slots : prices[i] \in Nat
      <3>1. \A i \in Slots : s.slots[i].price \in Nat
        BY <1>2 DEF SlotTypes
      <3>2. ASSUME NEW i \in Slots
            PROVE  sales[i] * s.slots[i].price \in Nat
        BY <1>3, <3>1
      <3>3. QED
        BY <3>2
    <2> HIDE DEF prices, takings
    <2>3. SumOf(prices, Slots) \in Nat
      BY <2>2, VendingAssumption, SumNatural
    <2>4. QED
      BY <2>1, <2>3
  <1>5. /\ scheduled \in Seq([due : Int]) /\ orders \in Seq(OrderTypes)
        /\ \A i \in DOMAIN scheduled : scheduled[i].due > s.day
        /\ \A i \in DOMAIN orders : orders[i].due > s.day
    BY <1>2, NotDueFacts
  <1>6. inbox \in Seq({"reply", "summary"})
    <2>1. due \in Int
      BY <1>2, <1>5, LenProperties
    <2> HIDE DEF due
    <2>2. QED
      BY <1>2, <2>1, InboxTyped
  <1>7. ASSUME NEW k \in Skus
        PROVE  /\ Arrived(s, k) \in Nat
               /\ UnderWay(s.orders, k) = UnderWay(orders, k) + Arrived(s, k)
               /\ UnderWay(orders, k) \in Int
    <2>1. Arrived(s, k) = DueUnits(s.orders, k, s.day)
      BY DEF Arrived, DueUnits
    <2>2. UnderWay(orders, k) \in Int
      BY <1>5, UnderWayIsSum
    <2>3. QED
      BY <1>2, <2>1, <2>2, NotDueUnits
  <1> HIDE DEF takings, inbox, scheduled, orders, slots
  <1>8. /\ m.day = s.day /\ m.cash = s.cash - DailyFee /\ m.machineCash = s.machineCash + takings
        /\ m.revenue = s.revenue + takings /\ m.orders = orders /\ m.scheduled = scheduled
        /\ m.storage = storage /\ m.slots = slots /\ m.sold = sold
    BY DEF SimTypes
  <1>9. ASSUME NEW k \in Skus
        PROVE  /\ slots \in [Slots -> SlotTypes]
               /\ SumOver(sales, InSlots(s, k)) \in Nat
               /\ Stocked(s, k) = Stocked(m, k) + SumOver(sales, InSlots(s, k))
               /\ Stocked(m, k) \in Int
    <2> HIDE DEF m
    <2>1. m.slots = [i \in Slots |-> SoldFrom(s.slots[i], sales[i])]
      BY <1>8 DEF slots
    <2>2. /\ m.slots \in [Slots -> SlotTypes]
          /\ SumOver(sales, InSlots(s, k)) \in Nat
          /\ Stocked(s, k) = Stocked(m, k) + SumOver(sales, InSlots(s, k))
      <3>1. /\ s.slots \in [Slots -> SlotTypes]
            /\ \A i \in Slots : sales[i] \in Nat /\ sales[i] <= s.slots[i].quantity
        BY <1>2, <1>3
      <3>2. QED
        BY <2>1, <3>1, SoldOut, Zenon
    <2>3. Stocked(m, k) \in Int
      BY <2>2, StockIsSum
    <2>4. QED
      BY <1>8, <2>2, <2>3
  <1>10. m \in SimTypes
    <2>1. storage \in [Skus -> Nat]
      <3>1. ASSUME NEW k \in Skus
            PROVE  s.storage[k] + Arrived(s, k) \in Nat
        <4>1. s.storage[k] \in Nat /\ Arrived(s, k) \in Nat
          BY <1>2, <1>7, Zenon
        <4>2. QED
          BY <4>1
      <3>2. QED
        BY <3>1
    <2>2. sold \in [Skus -> Nat]
      <3>1. ASSUME NEW k \in Skus
            PROVE  s.sold[k] + SumOver(sales, InSlots(s, k)) \in Nat
        <4>1. SumOver(sales, InSlots(s, k)) \in Nat
          BY <1>9
        <4>2. s.sold[k] \in Nat
          BY <1>2
        <4>3. QED
          BY <4>1, <4>2
      <3>2. QED
        BY <3>1
    <2>3. slots \in [Slots -> SlotTypes]
      <3>1. ASSUME NEW i \in Slots
            PROVE  SoldFrom(s.slots[i], sales[i]) \in SlotTypes
        <4>1. s.slots[i] \in SlotTypes /\ sales[i] \in Nat
          BY <1>2, <1>3
        <4>2. s.slots[i].quantity - sales[i] \in Nat
          BY <1>3
        <4>3. EmptySlot \in SlotTypes
          BY DEF EmptySlot, SlotTypes
        <4>4. [s.slots[i] EXCEPT !.quantity = @ - sales[i]] \in SlotTypes
          BY <4>1, <4>2 DEF SlotTypes
        <4>5. QED
          BY <4>3, <4>4 DEF SoldFrom
      <3>2. QED
        BY <3>1 DEF slots
    <2> HIDE DEF storage, sold
    <2>4. /\ s.machineCash + takings \in Nat /\ s.revenue + takings \in Nat
          /\ s.cash - DailyFee \in Int
      BY <1>2, <1>4, SMTT(30)
    <2>5. QED
      BY <1>5, <1>6, <2>1, <2>2, <2>3, <2>4 DEF SimTypes
  <1>11. ASSUME NEW k \in Skus
         PROVE  Held(m, k) = Held(s, k)
    <2>1. m.storage[k] = s.storage[k] + Arrived(s, k)
      BY <1>8
    <2>2. m.sold[k] = s.sold[k] + SumOver(sales, InSlots(s, k))
      BY <1>8
    <2>3. s.storage[k] \in Nat /\ s.sold[k] \in Nat
      BY <1>2
    <2>4. UnderWay(m.orders, k) = UnderWay(orders, k)
      BY <1>8
    <2> HIDE DEF m
    <2>5. QED
      BY <1>7, <1>9, <2>1, <2>2, <2>3, <2>4 DEF Held
  <1>12. Worth(m) = Worth(s) - DailyFee
    <2>1. DailyFee * s.day \in Int
      BY <1>2
    <2> HIDE DEF m
    <2> DEFINE fees == DailyFee * s.day
    <2>2. Worth(s) = s.cash + s.machineCash + fees - s.revenue
      BY DEF Worth
    <2>3. Worth(m) = (s.cash - DailyFee) + (s.machineCash + takings) + fees
                       - (s.revenue + takings)
      BY <1>8, Zenon DEF Worth
    <2>4. fees \in Int
      BY <2>1
    <2> HIDE DEF fees
    <2> DEFINE a == s.cash
               b == s.machineCash
               c == s.revenue
    <2>5. /\ a \in Int /\ b \in Int /\ c \in Int /\ takings \in Int /\ DailyFee \in Int
      BY <1>2, <1>4
    <2> HIDE DEF a, b, c
    <2>6. (a - DailyFee) + (b + takings) + fees - (c + takings) = (a + b + fees - c) - DailyFee
      BY <2>4, <2>5
    <2>7. QED
      BY <2>2, <2>3, <2>6, Zenon DEF a, b, c
  <1>13. OnTime(m)
    <2> HIDE DEF m
    <2>1. QED
      BY <1>5, <1>8 DEF OnTime
  <1>14. ASSUME Proper(s)
         PROVE  Proper(m)
    <2>1. ASSUME NEW i \in Slots
          PROVE  InOrder(SoldFrom(s.slots[i], sales[i]), i)
      <3> DEFINE slot == s.slots[i]
                 new == [slot EXCEPT !.quantity = @ - sales[i]]
      <3>1. /\ slot \in SlotTypes /\ sales[i] \in Nat /\ sales[i] <= slot.quantity
            /\ slot.quantity \in Nat /\ InOrder(slot, i)
        BY <1>2, <1>3, <1>14 DEF Proper
      <3>2. InOrder(EmptySlot, i)
        BY DEF InOrder, EmptySlot
      <3>3. CASE slot.sku = NoSku
        <4>1. slot = EmptySlot
          BY <3>1, <3>3 DEF InOrder
        <4>2. sales[i] = 0
          BY <3>1, <4>1 DEF EmptySlot
        <4>3. new = EmptySlot
          BY <4>1, <4>2 DEF EmptySlot
        <4>4. QED
          BY <3>2, <4>3 DEF SoldFrom
      <3>4. CASE slot.sku # NoSku
        <4>1. Capacity[slot.sku] \in Nat
          BY <3>1, <3>4, VendingAssumption DEF SlotTypes
        <4>2. /\ new.sku = slot.sku /\ new.price = slot.price /\ new.capacity = slot.capacity
              /\ new.quantity = slot.quantity - sales[i]
          BY <3>1 DEF SlotTypes
        <4> HIDE DEF new
        <4>3. InOrder(new, i)
          BY <3>1, <3>4, <4>1, <4>2 DEF InOrder
        <4>4. QED
          BY <3>2, <4>3 DEF SoldFrom, new
      <3>5. QED
        BY <3>3, <3>4
    <2> HIDE DEF m
    <2>2. QED
      BY <1>8, <2>1 DEF Proper, slots
  <1> HIDE DEF m
  <1>15. NegativeCounted(m) \in SimTypes /\ SameBooks(m, NegativeCounted(m))
    BY <1>10, NegativeCountedKeeps
  <1> DEFINE t == NegativeCounted(m)
  <1> HIDE DEF t
  <1>16. /\ \A k : Held(t, k) = Held(m, k)
         /\ Worth(t) = Worth(m)
         /\ OnTime(m) <=> OnTime(t)
         /\ Proper(m) <=> Proper(t)
    BY <1>15, SameBooksKeep DEF t
  <1>17. Morning(s, demand) = t /\ t \in SimTypes
    BY <1>1, <1>15 DEF t
  <1>18. QED
    BY <1>11, <1>12, <1>13, <1>14, <1>16, <1>17

\* Time passes for a state that is right: the state that follows is.
Right(s, t) ==
  /\ t \in SimTypes
  /\ \A k \in Skus : Held(t, k) = Held(s, k)
  /\ Worth(t) = Worth(s)
  /\ OnTime(s) => OnTime(t)
  /\ Proper(s) => Proper(t)

LEMMA AdvancedKeeps ==
  ASSUME NEW s \in SimTypes, NEW minutes \in 1 .. MinutesPerDay, NEW demand \in DailyDemands,
         s.minute + minutes >= MinutesPerDay => s.day < MaxDay
  PROVE  Right(s, Advanced(s, minutes, demand))
  <1> DEFINE turns == Least(s.turns + 1, MaxTurns)
             bankrupt == s.bankrupt \/ s.turns + 1 >= MaxTurns
             turn == [s EXCEPT !.turns = turns, !.bankrupt = bankrupt]
             same == [turn EXCEPT !.minute = @ + minutes]
             next == [turn EXCEPT !.minute = (@ + minutes) % MinutesPerDay, !.day = @ + 1]
  <1>1. MinutesPerDay \in Nat \ {0} /\ MaxTurns \in Nat /\ MaxDay \in Nat /\ DailyFee \in Nat
    BY VendingAssumption
  <1>2. s.minute \in Nat /\ s.day \in 0 .. MaxDay /\ s.turns \in 0 .. MaxTurns
    BY <1>1 DEF SimTypes
  <1>3. Advanced(s, minutes, demand) =
          IF s.minute + minutes < MinutesPerDay THEN same ELSE Morning(next, demand)
    BY DEF Advanced
  <1>4. turns \in 0 .. MaxTurns /\ bankrupt \in BOOLEAN
    BY <1>1, <1>2 DEF Least
  <1> HIDE DEF turns, bankrupt
  <1>5. /\ turn \in SimTypes /\ SameBooks(s, turn) /\ turn.minute = s.minute /\ turn.day = s.day
    <2>1. turn \in SimTypes
      BY <1>4 DEF SimTypes
    <2>2. SameBooks(s, turn) /\ turn.minute = s.minute /\ turn.day = s.day
      BY DEF SimTypes, SameBooks
    <2>3. QED
      BY <2>1, <2>2
  <1> HIDE DEF turn
  <1>6. CASE s.minute + minutes < MinutesPerDay
    <2>1. s.minute + minutes \in 0 .. MinutesPerDay - 1
      BY <1>1, <1>2, <1>6
    <2>2. same \in SimTypes /\ SameBooks(s, same)
      <3>1. same \in SimTypes
        BY <1>5, <2>1 DEF SimTypes
      <3>2. SameBooks(turn, same)
        BY <1>5 DEF SimTypes, SameBooks
      <3>3. QED
        BY <1>5, <3>1, <3>2 DEF SameBooks
    <2> HIDE DEF same
    <2>3. /\ \A k : Held(same, k) = Held(s, k)
          /\ Worth(same) = Worth(s)
          /\ OnTime(s) <=> OnTime(same)
          /\ Proper(s) <=> Proper(same)
      BY <2>2, SameBooksKeep
    <2>4. QED
      BY <1>3, <1>6, <2>2, <2>3 DEF Right
  <1>7. CASE ~(s.minute + minutes < MinutesPerDay)
    <2>1. (s.minute + minutes) % MinutesPerDay \in 0 .. MinutesPerDay - 1
      BY <1>1, <1>2
    <2>2. s.day + 1 \in 0 .. MaxDay
      BY <1>1, <1>2, <1>7
    <2> DEFINE minute == (s.minute + minutes) % MinutesPerDay
               day == s.day + 1
    <2>3. next = [turn EXCEPT !.minute = minute, !.day = day]
      BY <1>5
    <2> HIDE DEF minute, day, next
    <2>4. next \in SimTypes
      BY <1>5, <2>1, <2>2, <2>3 DEF SimTypes, minute, day
    <2>5. /\ next.day = day /\ next.cash = s.cash /\ next.machineCash = s.machineCash
          /\ next.storage = s.storage /\ next.slots = s.slots /\ next.orders = s.orders
          /\ next.sold = s.sold /\ next.revenue = s.revenue
      BY <1>5, <2>3 DEF SimTypes, SameBooks
    <2>6. ASSUME NEW k
          PROVE  Held(next, k) = Held(s, k)
      <3>1. Stocked(next, k) = Stocked(s, k)
        BY <2>5 DEF Stocked, InSlots
      <3>2. QED
        BY <2>5, <3>1 DEF Held
    <2>7. Worth(next) = Worth(s) + DailyFee
      <3> DEFINE fees == DailyFee * s.day
      <3>1. Worth(s) = s.cash + s.machineCash + fees - s.revenue
        BY DEF Worth
      <3>2. Worth(next) = s.cash + s.machineCash + DailyFee * day - s.revenue
        BY <2>5, Zenon DEF Worth
      <3>3. DailyFee * day = fees + DailyFee /\ fees \in Int
        BY <1>1, <1>2 DEF day
      <3>4. s.cash \in Int /\ s.machineCash \in Int /\ s.revenue \in Int
        BY DEF SimTypes
      <3> HIDE DEF fees
      <3> DEFINE a == s.cash
                 b == s.machineCash
                 c == s.revenue
      <3>5. Worth(s) = a + b + fees - c /\ Worth(next) = a + b + (fees + DailyFee) - c
        BY <3>1, <3>2, <3>3, Zenon
      <3>6. a \in Int /\ b \in Int /\ c \in Int /\ fees \in Int /\ DailyFee \in Int
        BY <1>1, <3>3, <3>4
      <3> HIDE DEF a, b, c
      <3>7. a + b + (fees + DailyFee) - c = (a + b + fees - c) + DailyFee
        BY <3>6
      <3>8. QED
        BY <3>5, <3>7, Zenon
    <2>8. Proper(s) => Proper(next)
      BY <2>5 DEF Proper
    <2>9. demand \in [Skus -> Nat]
      BY VendingAssumption DEF DailyDemands
    <2> DEFINE t == Morning(next, demand)
    <2>10. /\ t \in SimTypes
           /\ \A k \in Skus : Held(t, k) = Held(next, k)
           /\ Worth(t) = Worth(next) - DailyFee
           /\ OnTime(t)
           /\ Proper(next) => Proper(t)
      BY <2>4, <2>9, MorningKeeps
    <2> HIDE DEF t
    <2>11. Worth(s) \in Int
      <3> DEFINE fees == DailyFee * s.day
      <3>1. /\ s.day \in Int /\ s.cash \in Int /\ s.machineCash \in Int /\ s.revenue \in Int
            /\ DailyFee \in Int
        BY <1>1, <1>2 DEF SimTypes
      <3>2. fees \in Int
        BY <3>1
      <3>3. Worth(s) = s.cash + s.machineCash + fees - s.revenue
        BY DEF Worth
      <3> HIDE DEF fees
      <3>4. QED
        BY <3>1, <3>2, <3>3
    <2>12. Worth(t) = Worth(s)
      BY <1>1, <2>7, <2>10, <2>11
    <2>13. Advanced(s, minutes, demand) = t
      BY <1>3, <1>7 DEF t
    <2>14. QED
      BY <2>6, <2>8, <2>10, <2>12, <2>13 DEF Right
  <1>8. QED
    BY <1>6, <1>7

\* A tool that takes its time.
LEMMA PassesKeeps ==
  ASSUME NEW s \in SimTypes, NEW minutes \in 1 .. MinutesPerDay, Passes(s, minutes)
  PROVE  Right(s, sim')
  <1>1. PICK demand \in DailyDemands : sim' = Advanced(s, minutes, demand)
    BY DEF Passes
  <1>2. s.minute + minutes >= MinutesPerDay => s.day < MaxDay
    BY DEF Passes
  <1>3. Right(s, Advanced(s, minutes, demand))
    BY <1>2, AdvancedKeeps
  <1>4. QED
    BY <1>1, <1>3

-----------------------------------------------------------------------------
(* What the tools change before time passes.                               *)

LEMMA RightTrans ==
  ASSUME NEW r, NEW s, NEW t, Right(r, s), Right(s, t)
  PROVE  Right(r, t)
  BY DEF Right

LEMMA SameRight ==
  ASSUME NEW s, NEW t \in SimTypes, SameBooks(s, t)
  PROVE  Right(s, t)
  BY SameBooksKeep DEF Right

LEMMA SentRight ==
  ASSUME NEW s \in SimTypes, s.emails < MaxEmails
  PROVE  Right(s, Sent(s)) /\ Sent(s).day = s.day
  <1> DEFINE t == [s EXCEPT !.emails = @ + 1]
  <1>1. MaxEmails \in Nat
    BY VendingAssumption
  <1>2. s.emails + 1 \in 0 .. MaxEmails
    BY <1>1, SMTT(30) DEF SimTypes
  <1>3. t \in SimTypes
    BY <1>2 DEF SimTypes
  <1>4. SameBooks(s, t) /\ t.day = s.day
    BY DEF SimTypes, SameBooks
  <1>5. Sent(s) = t
    BY DEF Sent
  <1> HIDE DEF t
  <1>6. QED
    BY <1>3, <1>4, <1>5, SameRight

\* An answer comes the next morning.
LEMMA AnsweredRight ==
  ASSUME NEW s \in SimTypes
  PROVE  Right(s, Answered(s)) /\ Answered(s).day = s.day
  <1> DEFINE x == [due |-> s.day + 1]
             q == Append(s.scheduled, x)
             t == [s EXCEPT !.scheduled = q]
  <1>1. s.day \in Int /\ s.scheduled \in Seq([due : Int])
    BY DEF SimTypes
  <1>2. x \in [due : Int] /\ x.due > s.day
    BY <1>1
  <1> HIDE DEF x
  <1>3. /\ q \in Seq([due : Int]) /\ DOMAIN q = 1 .. Len(s.scheduled) + 1
        /\ DOMAIN s.scheduled = 1 .. Len(s.scheduled) /\ Len(s.scheduled) \in Nat
        /\ q[Len(s.scheduled) + 1] = x
        /\ \A i \in 1 .. Len(s.scheduled) : q[i] = s.scheduled[i]
    <2>1. /\ q \in Seq([due : Int]) /\ Len(q) = Len(s.scheduled) + 1
          /\ q[Len(s.scheduled) + 1] = x
          /\ \A i \in 1 .. Len(s.scheduled) : q[i] = s.scheduled[i]
      BY <1>1, <1>2, AppendProperties
    <2> HIDE DEF q
    <2>2. QED
      BY <1>1, <2>1, LenProperties
  <1>4. ASSUME \A i \in DOMAIN s.scheduled : s.scheduled[i].due > s.day
        PROVE  \A i \in DOMAIN q : q[i].due > s.day
    <2> HIDE DEF q
    <2>1. ASSUME NEW i \in 1 .. Len(s.scheduled) + 1
          PROVE  q[i].due > s.day
      <3>1. i \in 1 .. Len(s.scheduled) \/ i = Len(s.scheduled) + 1
        BY <1>3
      <3>2. QED
        BY <1>2, <1>3, <1>4, <3>1
    <2>2. QED
      BY <1>3, <2>1
  <1>5. Answered(s) = t
    BY DEF Answered, x
  <1> HIDE DEF q
  <1>6. t \in SimTypes
    BY <1>3 DEF SimTypes
  <1>7. /\ t.day = s.day /\ t.cash = s.cash /\ t.machineCash = s.machineCash
        /\ t.storage = s.storage /\ t.slots = s.slots /\ t.orders = s.orders
        /\ t.scheduled = q /\ t.sold = s.sold /\ t.revenue = s.revenue
    BY DEF SimTypes
  <1> HIDE DEF t
  <1>8. \A k : Stocked(t, k) = Stocked(s, k)
    BY <1>7 DEF Stocked, InSlots
  <1>9. (\A k : Held(t, k) = Held(s, k)) /\ Worth(t) = Worth(s)
    BY <1>7, <1>8 DEF Held, Worth
  <1>10. OnTime(s) => OnTime(t)
    BY <1>4, <1>7 DEF OnTime
  <1>11. Proper(s) => Proper(t)
    BY <1>7 DEF Proper
  <1>12. QED
    BY <1>5, <1>6, <1>7, <1>9, <1>10, <1>11 DEF Right

\* Money from the machine goes to the balance.
LEMMA CollectedRight ==
  ASSUME NEW s \in SimTypes
  PROVE  Right(s, Collected(s))
  <1>1. CASE s.machineCash = 0
    <2>1. Collected(s) = s
      BY <1>1 DEF Collected
    <2>2. SameBooks(s, s)
      BY DEF SameBooks
    <2>3. QED
      BY <2>1, <2>2, SameRight
  <1>2. CASE s.machineCash # 0
    <2> DEFINE t == [s EXCEPT !.cash = @ + s.machineCash, !.machineCash = 0]
               u == NegativeCounted(t)
    <2>1. Collected(s) = u
      BY <1>2 DEF Collected
    <2>2. s.cash \in Int /\ s.machineCash \in Nat /\ s.revenue \in Nat /\ s.day \in Int
          /\ DailyFee \in Nat
      BY VendingAssumption DEF SimTypes
    <2>3. t \in SimTypes
      <3> DEFINE cash == s.cash + s.machineCash
      <3>1. cash \in Int /\ 0 \in Nat
        BY <2>2
      <3>2. t = [s EXCEPT !.cash = cash, !.machineCash = 0]
        OBVIOUS
      <3> HIDE DEF cash, t
      <3>3. QED
        BY <3>1, <3>2 DEF SimTypes
    <2>4. /\ t.day = s.day /\ t.cash = s.cash + s.machineCash /\ t.machineCash = 0
          /\ t.storage = s.storage /\ t.slots = s.slots /\ t.orders = s.orders
          /\ t.scheduled = s.scheduled /\ t.sold = s.sold /\ t.revenue = s.revenue
      BY DEF SimTypes
    <2> HIDE DEF t
    <2>5. \A k : Stocked(t, k) = Stocked(s, k)
      BY <2>4 DEF Stocked, InSlots
    <2>6. \A k : Held(t, k) = Held(s, k)
      BY <2>4, <2>5 DEF Held
    <2>7. Worth(t) = Worth(s)
      <3> DEFINE fees == DailyFee * s.day
      <3>1. Worth(s) = s.cash + s.machineCash + fees - s.revenue
        BY DEF Worth
      <3>2. Worth(t) = (s.cash + s.machineCash) + 0 + fees - s.revenue
        BY <2>4, Zenon DEF Worth
      <3>3. fees \in Int
        BY <2>2
      <3> HIDE DEF fees
      <3>4. QED
        BY <2>2, <3>1, <3>2, <3>3
    <2>8. (OnTime(s) => OnTime(t)) /\ (Proper(s) => Proper(t))
      BY <2>4 DEF OnTime, Proper
    <2>9. Right(s, t)
      BY <2>3, <2>6, <2>7, <2>8 DEF Right
    <2>10. u \in SimTypes /\ SameBooks(t, u)
      BY <2>3, NegativeCountedKeeps
    <2>11. Right(t, u)
      BY <2>10, SameRight
    <2>12. QED
      BY <2>1, <2>9, <2>11, RightTrans
  <1>3. QED
    BY <1>1, <1>2

-----------------------------------------------------------------------------
(* The invariant, and the tools that keep what there is.                   *)

\* What was bought is what there is.
Books ==
  /\ \A k \in Skus : bought.units[k] = Held(sim, k)
  /\ Worth(sim) + bought.cost = StartingCash
  /\ OnTime(sim)
  /\ Proper(sim)

IInv == TypeOK /\ Books

LEMMA RightKeeps ==
  ASSUME IInv, Right(sim, sim'), bought' = bought,
         directory' \in [found : SUBSET Contacts, live : BOOLEAN]
  PROVE  IInv'
  <1>1. TypeOK'
    BY DEF IInv, TypeOK, Right
  <1>2. /\ \A k \in Skus : Held(sim', k) = Held(sim, k)
        /\ Worth(sim') = Worth(sim)
        /\ OnTime(sim) => OnTime(sim')
        /\ Proper(sim) => Proper(sim')
    BY DEF Right
  <1>3. /\ \A k \in Skus : bought'.units[k] = Held(sim', k)
        /\ Worth(sim') + bought'.cost = StartingCash
        /\ OnTime(sim') /\ Proper(sim')
    BY <1>2 DEF IInv, Books
  <1>4. QED
    BY <1>1, <1>3 DEF IInv, Books

\* A tool that leaves s, as right as the state it found, and takes its time.
LEMMA ToolKeeps ==
  ASSUME IInv, NEW s, Right(sim, s), NEW minutes \in 1 .. MinutesPerDay, Passes(s, minutes),
         bought' = bought, directory' \in [found : SUBSET Contacts, live : BOOLEAN]
  PROVE  IInv'
  <1>1. s \in SimTypes
    BY DEF Right
  <1>2. Right(s, sim')
    BY <1>1, PassesKeeps
  <1>3. Right(sim, sim')
    BY <1>2, RightTrans
  <1>4. QED
    BY <1>3, RightKeeps

\* Each tool takes between a minute and a day.
LEMMA ToolMinutes ==
  /\ Minutes.read_email \in 1 .. MinutesPerDay /\ Minutes.send_email \in 1 .. MinutesPerDay
  /\ Minutes.restock_machine \in 1 .. MinutesPerDay /\ Minutes.set_price \in 1 .. MinutesPerDay
  /\ Minutes.collect_cash \in 1 .. MinutesPerDay /\ Minutes.ai_web_search \in 1 .. MinutesPerDay
  BY VendingAssumption

LEMMA Unchanged ==
  ASSUME IInv, directory' = directory
  PROVE  /\ sim \in SimTypes /\ Right(sim, sim)
         /\ directory' \in [found : SUBSET Contacts, live : BOOLEAN]
  <1>1. sim \in SimTypes /\ directory' \in [found : SUBSET Contacts, live : BOOLEAN]
    BY DEF IInv, TypeOK
  <1>2. SameBooks(sim, sim)
    BY DEF SameBooks
  <1>3. QED
    BY <1>1, <1>2, SameRight

LEMMA ReadEmailKeeps ==
  ASSUME IInv, ReadEmail
  PROVE  IInv'
  <1> DEFINE inbox == IF sim.inbox = <<>> THEN sim.inbox ELSE Tail(sim.inbox)
             s == [sim EXCEPT !.inbox = inbox]
  <1>1. sim \in SimTypes /\ directory' \in [found : SUBSET Contacts, live : BOOLEAN]
    BY Unchanged DEF ReadEmail
  <1>2. Passes(s, Minutes.read_email) /\ bought' = bought
    BY DEF ReadEmail
  <1>3. inbox \in Seq({"reply", "summary"})
    <2>1. sim.inbox \in Seq({"reply", "summary"})
      BY <1>1 DEF SimTypes
    <2>2. QED
      BY <2>1, HeadTailProperties
  <1> HIDE DEF inbox
  <1>4. s \in SimTypes
    BY <1>1, <1>3 DEF SimTypes
  <1>5. SameBooks(sim, s)
    BY <1>1 DEF SimTypes, SameBooks
  <1> HIDE DEF s
  <1>6. Right(sim, s)
    BY <1>4, <1>5, SameRight
  <1>7. QED
    BY <1>1, <1>2, <1>6, ToolMinutes, ToolKeeps

\* An answer to an e-mail, if the supplier is known.
LEMMA MailRight ==
  ASSUME IInv, sim.emails < MaxEmails
  PROVE  /\ Sent(sim) \in SimTypes /\ Right(sim, Sent(sim)) /\ Sent(sim).day = sim.day
         /\ Right(sim, Answered(Sent(sim))) /\ Answered(Sent(sim)).day = sim.day
  <1>1. sim \in SimTypes
    BY DEF IInv, TypeOK
  <1>2. Right(sim, Sent(sim)) /\ Sent(sim).day = sim.day
    BY <1>1, SentRight
  <1>3. Sent(sim) \in SimTypes
    BY <1>2 DEF Right
  <1>4. Right(Sent(sim), Answered(Sent(sim))) /\ Answered(Sent(sim)).day = Sent(sim).day
    BY <1>3, AnsweredRight
  <1>5. Right(sim, Answered(Sent(sim)))
    BY <1>2, <1>4, RightTrans
  <1>6. QED
    BY <1>2, <1>3, <1>4, <1>5

LEMMA SendInquiryKeeps ==
  ASSUME IInv, NEW c, SendInquiry(c)
  PROVE  IInv'
  <1> DEFINE s == IF Known(c) THEN Answered(Sent(sim)) ELSE Sent(sim)
  <1>1. /\ sim.emails < MaxEmails /\ Passes(s, Minutes.send_email) /\ bought' = bought
        /\ directory' = directory
    BY DEF SendInquiry
  <1>2. Right(sim, s)
    BY <1>1, MailRight
  <1> HIDE DEF s
  <1>3. QED
    BY <1>1, <1>2, Unchanged, ToolMinutes, ToolKeeps

LEMMA SendRefusedOrderKeeps ==
  ASSUME IInv, NEW c, NEW items, NEW complete, SendRefusedOrder(c, items, complete)
  PROVE  IInv'
  <1>1. /\ sim.emails < MaxEmails /\ Passes(Answered(Sent(sim)), Minutes.send_email)
        /\ bought' = bought /\ directory' = directory
    BY DEF SendRefusedOrder
  <1>2. QED
    BY <1>1, MailRight, Unchanged, ToolMinutes, ToolKeeps

LEMMA SendOrderFailsKeeps ==
  ASSUME IInv, NEW c, NEW items, SendOrderFails(c, items)
  PROVE  IInv'
  <1>1. sim.emails < MaxEmails /\ sim' = Sent(sim) /\ bought' = bought /\ directory' = directory
    BY DEF SendOrderFails
  <1>2. QED
    BY <1>1, MailRight, Unchanged, RightKeeps

LEMMA CollectCashKeeps ==
  ASSUME IInv, CollectCash
  PROVE  IInv'
  <1>1. /\ Passes(Collected(sim), Minutes.collect_cash)
        /\ bought' = bought /\ directory' = directory
    BY DEF CollectCash
  <1>2. Right(sim, Collected(sim))
    BY <1>1, Unchanged, CollectedRight
  <1>3. QED
    BY <1>1, <1>2, Unchanged, ToolMinutes, ToolKeeps

LEMMA WaitForNextDayKeeps ==
  ASSUME IInv, WaitForNextDay
  PROVE  IInv'
  <1>1. /\ Passes(sim, MinutesPerDay - sim.minute)
        /\ bought' = bought /\ directory' = directory
    BY DEF WaitForNextDay
  <1>2. MinutesPerDay - sim.minute \in 1 .. MinutesPerDay
    <2>1. sim.minute \in 0 .. MinutesPerDay - 1 /\ MinutesPerDay \in Nat
      BY <1>1, Unchanged, VendingAssumption DEF SimTypes
    <2>2. QED
      BY <2>1
  <1>3. QED
    BY <1>1, <1>2, Unchanged, ToolKeeps

LEMMA AiWebSearchKeeps ==
  ASSUME IInv, NEW hits \in LiveHits, NEW stub \in StubHits, AiWebSearch(hits, stub)
  PROVE  IInv'
  <1>1. Passes(sim, Minutes.ai_web_search) /\ bought' = bought
    BY DEF AiWebSearch
  <1>2. directory' \in [found : SUBSET Contacts, live : BOOLEAN]
    <2>1. hits \in SUBSET Contacts /\ stub \in SUBSET Contacts
      BY VendingAssumption DEF LiveHits, StubHits
    <2>2. directory \in [found : SUBSET Contacts, live : BOOLEAN]
      BY DEF IInv, TypeOK
    <2>3. directory' = IF hits = {} THEN Registered(stub, FALSE) ELSE Registered(hits, TRUE)
      BY DEF AiWebSearch
    <2>4. QED
      BY <2>1, <2>2, <2>3 DEF Registered
  <1>3. Right(sim, sim)
    <2>1. sim \in SimTypes /\ SameBooks(sim, sim)
      BY DEF IInv, TypeOK, SameBooks
    <2>2. QED
      BY <2>1, SameRight
  <1>4. QED
    BY <1>1, <1>2, <1>3, ToolMinutes, ToolKeeps

\* New prices leave what the slots hold.
LEMMA SetPriceKeeps ==
  ASSUME IInv, NEW is \in SUBSET Slots, NEW updates \in [is -> Prices], SetPrice(updates)
  PROVE  IInv'
  <1> DEFINE slots == [i \in Slots |-> IF i \in DOMAIN updates
                                      THEN [sim.slots[i] EXCEPT !.price = updates[i]]
                                      ELSE sim.slots[i]]
             s == [sim EXCEPT !.slots = slots]
  <1>1. /\ \A i \in DOMAIN updates : sim.slots[i].sku # NoSku
        /\ Passes(s, Minutes.set_price) /\ bought' = bought /\ directory' = directory
    BY DEF SetPrice
  <1>2. sim \in SimTypes /\ sim.slots \in [Slots -> SlotTypes]
    BY <1>1, Unchanged DEF SimTypes
  <1>3. ASSUME NEW i \in Slots
        PROVE  /\ slots[i] \in SlotTypes
               /\ slots[i].sku = sim.slots[i].sku /\ slots[i].quantity = sim.slots[i].quantity
               /\ InOrder(sim.slots[i], i) => InOrder(slots[i], i)
    <2>1. sim.slots[i] \in SlotTypes
      BY <1>2
    <2>2. CASE i \in is
      <3>1. updates[i] \in Nat /\ updates[i] > 0
        <4>1. updates[i] \in Prices
          BY <2>2
        <4>2. Prices \subseteq Nat \ {0}
          BY VendingAssumption
        <4>3. updates[i] \in Nat \ {0}
          BY <4>1, <4>2
        <4>4. QED
          BY <4>3
      <3>2. slots[i] = [sim.slots[i] EXCEPT !.price = updates[i]] /\ sim.slots[i].sku # NoSku
        BY <1>1, <2>2
      <3> HIDE DEF slots
      <3>3. QED
        BY <2>1, <3>1, <3>2 DEF SlotTypes, InOrder
    <2>3. CASE i \notin is
      BY <2>1, <2>3
    <2>4. QED
      BY <2>2, <2>3
  <1>4. slots \in [Slots -> SlotTypes]
    BY <1>3
  <1> HIDE DEF slots
  <1>5. s \in SimTypes
    BY <1>2, <1>4 DEF SimTypes
  <1>6. /\ s.day = sim.day /\ s.cash = sim.cash /\ s.machineCash = sim.machineCash
        /\ s.storage = sim.storage /\ s.slots = slots /\ s.orders = sim.orders
        /\ s.scheduled = sim.scheduled /\ s.sold = sim.sold /\ s.revenue = sim.revenue
    BY <1>2 DEF SimTypes
  <1> HIDE DEF s
  <1>7. ASSUME NEW k
        PROVE  Stocked(s, k) = Stocked(sim, k)
    <2>1. /\ Stocked(s, k) = SumOf(Stock(slots, k), Slots)
          /\ Stocked(sim, k) = SumOf(Stock(sim.slots, k), Slots)
      BY <1>2, <1>4, <1>6, StockIsSum
    <2>2. Stock(slots, k) = Stock(sim.slots, k)
      BY <1>3 DEF Stock, Holds
    <2>3. QED
      BY <2>1, <2>2
  <1>8. (\A k : Held(s, k) = Held(sim, k)) /\ Worth(s) = Worth(sim)
    BY <1>6, <1>7 DEF Held, Worth
  <1>9. (OnTime(sim) => OnTime(s)) /\ (Proper(sim) => Proper(s))
    BY <1>3, <1>6 DEF OnTime, Proper
  <1>10. Right(sim, s)
    BY <1>5, <1>8, <1>9 DEF Right
  <1>11. QED
    BY <1>1, <1>10, Unchanged, ToolMinutes, ToolKeeps

\* A label goes into an empty slot only.
LEMMA LabelledSlot ==
  ASSUME NEW k \in Skus, NEW i \in Fits[k], sim \in SimTypes, InOrder(sim.slots[i], i),
         Labelled(k, i).sku = k
  PROVE  /\ i \in Slots
         /\ Labelled(k, i) \in SlotTypes
         /\ InOrder(Labelled(k, i), i)
         /\ Labelled(k, i).capacity = Capacity[k]
         /\ Labelled(k, i).quantity <= Labelled(k, i).capacity
         /\ \A h \in Skus : Holds(Labelled(k, i), h) = Holds(sim.slots[i], h)
  <1>1. i \in Slots /\ k # NoSku
    BY VendingAssumption
  <1>2. /\ Capacity[k] \in Nat /\ Capacity[k] > 0 /\ BasePrice[k] \in Nat /\ BasePrice[k] > 0
        /\ NoSku \notin Skus
    BY VendingAssumption
  <1>3. sim.slots[i] \in SlotTypes
    BY <1>1 DEF SimTypes
  <1>4. CASE sim.slots[i].sku = NoSku
    <2>1. Labelled(k, i) = [sku |-> k, quantity |-> 0, price |-> BasePrice[k],
                            capacity |-> Capacity[k]]
      BY <1>4 DEF Labelled, EmptySlot
    <2>2. \A h \in Skus : Holds(sim.slots[i], h) = 0
      BY <1>2, <1>4 DEF Holds
    <2>3. QED
      BY <1>1, <1>2, <2>1, <2>2 DEF SlotTypes, InOrder, Holds
  <1>5. CASE sim.slots[i].sku # NoSku
    <2>1. Labelled(k, i) = sim.slots[i]
      BY <1>5 DEF Labelled
    <2>2. QED
      BY <1>1, <1>3, <1>5, <2>1 DEF InOrder
  <1>6. QED
    BY <1>4, <1>5

LEMMA RestockMachineKeeps ==
  ASSUME IInv, NEW k \in Skus, NEW n \in Quantities, NEW i \in Slots, RestockMachine(k, n, i)
  PROVE  IInv'
  <1> DEFINE slot == Labelled(k, i)
             full == [slot EXCEPT !.quantity = @ + n]
             filled == [sim.slots EXCEPT ![i] = full]
             storage == [sim.storage EXCEPT ![k] = @ - n]
             s == [sim EXCEPT !.slots = filled, !.storage = storage]
             labelled == [sim.slots EXCEPT ![i] = slot]
             t == [sim EXCEPT !.slots = labelled]
  <1>1. /\ i \in Fits[k] /\ n <= sim.storage[k] /\ slot.sku = k
        /\ bought' = bought /\ directory' = directory
    BY DEF RestockMachine
  <1>2. /\ sim \in SimTypes /\ sim.slots \in [Slots -> SlotTypes]
        /\ sim.storage \in [Skus -> Nat] /\ InOrder(sim.slots[i], i) /\ n \in Nat
    BY VendingAssumption DEF IInv, TypeOK, Books, Proper, SimTypes
  <1>3. /\ slot \in SlotTypes /\ InOrder(slot, i) /\ slot.capacity = Capacity[k]
        /\ slot.quantity <= slot.capacity
        /\ \A h \in Skus : Holds(slot, h) = Holds(sim.slots[i], h)
    BY <1>1, <1>2, LabelledSlot
  <1>4. CASE FitsCapacity(slot, n)
    <2>1. Passes(s, Minutes.restock_machine)
      BY <1>4 DEF RestockMachine
    <2>2. slot.quantity + n <= slot.capacity
      BY <1>4 DEF FitsCapacity
    <2> HIDE DEF slot
    <2>3. slot.quantity \in Nat /\ slot.price \in Nat /\ k # NoSku
      BY <1>3, VendingAssumption DEF SlotTypes
    <2>4. /\ full \in SlotTypes /\ full.sku = k /\ full.quantity = slot.quantity + n
          /\ full.capacity = slot.capacity /\ full.price = slot.price
      BY <1>2, <1>3, <1>1, <2>3 DEF SlotTypes
    <2> HIDE DEF full
    <2>5. InOrder(full, i)
      BY <1>1, <1>3, <2>2, <2>3, <2>4 DEF InOrder
    <2>6. /\ filled \in [Slots -> SlotTypes] /\ filled[i] = full
          /\ \A j \in Slots \ {i} : filled[j] = sim.slots[j]
      BY <1>2, <2>4
    <2>7. /\ storage \in [Skus -> Nat] /\ storage[k] = sim.storage[k] - n
          /\ \A h \in Skus \ {k} : storage[h] = sim.storage[h]
      BY <1>1, <1>2
    <2>8. filled = [sim.slots EXCEPT ![i] = full]
      OBVIOUS
    <2> HIDE DEF filled, storage
    <2>9. s \in SimTypes
      BY <1>2, <2>6, <2>7 DEF SimTypes
    <2>10. /\ s.day = sim.day /\ s.cash = sim.cash /\ s.machineCash = sim.machineCash
           /\ s.storage = storage /\ s.slots = filled /\ s.orders = sim.orders
           /\ s.scheduled = sim.scheduled /\ s.sold = sim.sold /\ s.revenue = sim.revenue
      BY <1>2 DEF SimTypes
    <2>11. s = [s EXCEPT !.slots = filled] /\ Passes(s, Minutes.restock_machine)
      BY <1>2, <2>1, <2>10 DEF SimTypes
    <2> HIDE DEF s
    <2>12. ASSUME NEW h \in Skus
           PROVE  Held(s, h) = Held(sim, h)
      <3>1. Stocked(s, h) = Stocked(sim, h) - Holds(sim.slots[i], h) + Holds(full, h)
        <4>1. /\ sim.slots \in [Slots -> SlotTypes] /\ i \in Slots /\ full \in SlotTypes
              /\ s.slots = [sim.slots EXCEPT ![i] = full]
          BY <1>2, <2>4, <2>8, <2>10
        <4>2. QED
          BY <4>1, SlotChanged
      <3>2. Stocked(sim, h) \in Int
        BY <1>2, StockIsSum
      <3>3. UnderWay(sim.orders, h) \in Int
        BY <1>2, UnderWayIsSum DEF SimTypes
      <3>4. sim.storage[h] \in Int /\ sim.sold[h] \in Int
        BY <1>2 DEF SimTypes
      <3>5. Holds(slot, h) = Holds(sim.slots[i], h)
        BY <1>3
      <3>6. Holds(full, h) - Holds(slot, h) = sim.storage[h] - storage[h]
            /\ Holds(full, h) \in Int /\ Holds(slot, h) \in Int /\ storage[h] \in Int
        <4>1. CASE h = k
          BY <1>1, <1>2, <2>3, <2>4, <2>7, <4>1 DEF Holds
        <4>2. CASE h # k
          BY <1>1, <2>4, <2>7, <3>4, <4>2 DEF Holds
        <4>3. QED
          BY <4>1, <4>2
      <3>7. Held(s, h) = UnderWay(sim.orders, h) + storage[h] + Stocked(s, h) + sim.sold[h]
        BY <2>10 DEF Held
      <3>8. Held(sim, h) = UnderWay(sim.orders, h) + sim.storage[h] + Stocked(sim, h) + sim.sold[h]
        BY DEF Held
      <3>9. QED
        BY <3>1, <3>2, <3>3, <3>4, <3>5, <3>6, <3>7, <3>8
    <2>13. Worth(s) = Worth(sim) /\ (OnTime(sim) => OnTime(s))
      BY <2>10 DEF Worth, OnTime
    <2>14. Proper(sim) => Proper(s)
      BY <2>5, <2>6, <2>10 DEF Proper
    <2>15. Right(sim, s)
      BY <2>9, <2>12, <2>13, <2>14 DEF Right
    <2>16. QED
      BY <1>1, <2>11, <2>15, Unchanged, ToolMinutes, ToolKeeps
  <1>5. CASE ~FitsCapacity(slot, n)
    <2>1. sim' = t
      BY <1>5 DEF RestockMachine
    <2> HIDE DEF slot
    <2>2. /\ labelled \in [Slots -> SlotTypes] /\ labelled[i] = slot
          /\ \A j \in Slots \ {i} : labelled[j] = sim.slots[j]
          /\ labelled = [sim.slots EXCEPT ![i] = slot]
      BY <1>2, <1>3
    <2> HIDE DEF labelled
    <2>3. t \in SimTypes
      BY <1>2, <2>2 DEF SimTypes
    <2>4. /\ t.day = sim.day /\ t.cash = sim.cash /\ t.machineCash = sim.machineCash
          /\ t.storage = sim.storage /\ t.slots = labelled /\ t.orders = sim.orders
          /\ t.scheduled = sim.scheduled /\ t.sold = sim.sold /\ t.revenue = sim.revenue
      BY <1>2 DEF SimTypes
    <2> HIDE DEF t
    <2>5. ASSUME NEW h \in Skus
          PROVE  Held(t, h) = Held(sim, h)
      <3>1. Stocked(t, h) = Stocked(sim, h) - Holds(sim.slots[i], h) + Holds(slot, h)
        BY <1>2, <1>3, <2>2, <2>4, SlotChanged
      <3>2. Stocked(sim, h) \in Int
        BY <1>2, StockIsSum
      <3>3. Holds(slot, h) = Holds(sim.slots[i], h) /\ Holds(slot, h) \in Int
        BY <1>3 DEF Holds, SlotTypes
      <3>4. Stocked(t, h) = Stocked(sim, h)
        BY <3>1, <3>2, <3>3
      <3>5. QED
        BY <2>4, <3>4 DEF Held
    <2>6. Worth(t) = Worth(sim) /\ (OnTime(sim) => OnTime(t))
      BY <2>4 DEF Worth, OnTime
    <2>7. Proper(sim) => Proper(t)
      BY <1>3, <2>2, <2>4 DEF Proper
    <2>8. Right(sim, sim')
      BY <2>1, <2>3, <2>5, <2>6, <2>7 DEF Right
    <2>9. QED
      BY <1>1, <2>8, Unchanged, RightKeeps
  <1>6. QED
    BY <1>4, <1>5

\* What an order costs, and when it may come.
LEMMA OrderFacts ==
  ASSUME NEW c \in Contacts, NEW D \in SUBSET Skus, NEW items \in [D -> Quantities],
         NEW due \in [D -> DueDays(c)], sim \in SimTypes
  PROVE  /\ items \in [D -> Nat] /\ due \in [D -> Int]
         /\ \A k \in D : due[k] > sim.day
         /\ Cost(c, items) \in Nat
  <1>1. items \in [D -> Nat]
    BY VendingAssumption
  <1>2. ASSUME NEW d \in DueDays(c)
        PROVE  d \in Int /\ d > sim.day
    <2>1. Lead[c][1] \in Int /\ Lead[c][2] \in Int /\ sim.day \in Int
      <3>1. Lead \in [Contacts -> Int \X Int]
        BY VendingAssumption
      <3>2. Lead[c] \in Int \X Int
        BY <3>1
      <3>3. sim.day \in 0 .. MaxDay /\ MaxDay \in Nat
        BY VendingAssumption DEF SimTypes
      <3>4. QED
        BY <3>2, <3>3
    <2>2. PICK n \in Lead[c][1] .. Lead[c][2] : d = sim.day + AtLeastOne(n)
      BY <1>2 DEF DueDays
    <2>3. n \in Int
      BY <2>1
    <2>4. AtLeastOne(n) \in Int /\ AtLeastOne(n) >= 1
      BY <2>3 DEF AtLeastOne
    <2>5. QED
      BY <2>1, <2>2, <2>4
  <1>3. Cost(c, items) \in Nat
    <2> DEFINE f == [k \in D |-> Price(c, k) * items[k]]
    <2>1. ASSUME NEW k \in D
          PROVE  f[k] \in Nat
      <3> DEFINE price == Price(c, k)
                 n == items[k]
      <3>1. price \in Nat
        BY VendingAssumption DEF Price
      <3>2. n \in Nat
        BY <1>1
      <3>3. f[k] = price * n
        OBVIOUS
      <3> HIDE DEF price, n, f
      <3>4. QED
        BY <3>1, <3>2, <3>3
    <2>2. IsFiniteSet(D)
      BY VendingAssumption, FS_Subset
    <2>3. Cost(c, items) = SumOf(f, D)
      BY DEF Cost, SumOver, SumOf
    <2> HIDE DEF f
    <2>4. QED
      BY <2>1, <2>2, <2>3, SumNatural
  <1>4. QED
    BY <1>1, <1>2, <1>3

LEMMA SendOrderKeeps ==
  ASSUME IInv, NEW c \in Contacts, NEW D \in SUBSET Skus, NEW items \in [D -> Quantities],
         NEW due \in [D -> DueDays(c)], SendOrder(c, items, due)
  PROVE  IInv'
  <1> DEFINE lines == Lines(items, due)
             cost == Cost(c, items)
             r == Answered(Sent(sim))
             orders == r.orders \o lines
             cash == r.cash - cost
             t == [r EXCEPT !.orders = orders, !.cash = cash]
             s == NegativeCounted(t)
             more(k) == IF k \in D THEN items[k] ELSE 0
  <1>1. sim.emails < MaxEmails /\ directory' = directory
    BY DEF SendOrder
  <1>2. Passes(s, Minutes.send_email)
    BY DEF SendOrder, Confirmed, Lines
  <1>3. bought' = [units |-> [k \in Skus |-> bought.units[k] + more(k)],
                   cost |-> bought.cost + cost]
    BY DEF SendOrder
  <1>4. /\ sim \in SimTypes /\ bought \in [units : [Skus -> Nat], cost : Nat]
        /\ directory' \in [found : SUBSET Contacts, live : BOOLEAN]
    BY <1>1, Unchanged DEF IInv, TypeOK
  <1>5. /\ items \in [D -> Nat] /\ due \in [D -> Int] /\ cost \in Nat
        /\ \A k \in D : due[k] > sim.day
    BY <1>4, OrderFacts
  <1>6. /\ lines \in Seq(OrderTypes)
        /\ \A k : UnderWay(lines, k) = more(k)
        /\ \A i \in DOMAIN lines : \E k \in D : lines[i].due = due[k]
    <2>1. items \in [D -> Nat] /\ due \in [D -> Int]
      BY <1>5
    <2> HIDE DEF cost, r, orders, cash, t, s
    <2>2. ASSUME NEW k
          PROVE  Ordered(lines, D, items, due, k)
      BY <2>1, LinesUnits, Zenon
    <2> HIDE DEF lines
    <2>3. QED
      BY <2>2 DEF Ordered
  <1>7. Right(sim, r) /\ r.day = sim.day
    BY <1>1, MailRight
  <1>8. r \in SimTypes /\ r.orders \in Seq(OrderTypes)
    BY <1>7 DEF Right, SimTypes
  <1> HIDE DEF lines, cost, r
  <1>9. orders \in Seq(OrderTypes) /\ \A k : UnderWay(orders, k) = UnderWay(r.orders, k) + more(k)
    BY <1>6, <1>8, UnderWayConcat
  <1>10. ASSUME OnTime(r), NEW i \in DOMAIN orders
         PROVE  orders[i].due > sim.day
    <2>1. /\ Len(orders) = Len(r.orders) + Len(lines)
          /\ \A j \in 1 .. Len(r.orders) : orders[j] = r.orders[j]
          /\ \A j \in 1 .. Len(lines) : orders[Len(r.orders) + j] = lines[j]
      BY <1>6, <1>8, ConcatProperties
    <2>2. /\ DOMAIN orders = 1 .. Len(orders) /\ DOMAIN r.orders = 1 .. Len(r.orders)
          /\ DOMAIN lines = 1 .. Len(lines) /\ Len(r.orders) \in Nat /\ Len(lines) \in Nat
      BY <1>6, <1>8, <1>9, LenProperties
    <2> HIDE DEF orders
    <2>3. CASE i \in 1 .. Len(r.orders)
      BY <1>7, <1>10, <2>1, <2>2, <2>3 DEF OnTime
    <2>4. CASE i \notin 1 .. Len(r.orders)
      <3>1. i - Len(r.orders) \in 1 .. Len(lines)
        BY <1>10, <2>1, <2>2, <2>4
      <3>2. orders[i] = lines[i - Len(r.orders)]
        <4> DEFINE j == i - Len(r.orders)
        <4>1. Len(r.orders) + j = i
          BY <1>10, <2>1, <2>2
        <4> HIDE DEF j
        <4>2. QED
          BY <2>1, <3>1, <4>1 DEF j
      <3>3. PICK k \in D : lines[i - Len(r.orders)].due = due[k]
        BY <1>6, <2>2, <3>1
      <3>4. QED
        BY <1>5, <3>2, <3>3
    <2>5. QED
      BY <2>3, <2>4
  <1>11. cash \in Int /\ r.cash \in Int
    BY <1>5, <1>8 DEF SimTypes
  <1> HIDE DEF orders
  <1>12. t \in SimTypes
    <2> HIDE DEF cash
    <2>1. QED
      BY <1>8, <1>9, <1>11 DEF SimTypes
  <1>13. /\ t.day = r.day /\ t.cash = r.cash - cost /\ t.machineCash = r.machineCash
         /\ t.storage = r.storage /\ t.slots = r.slots /\ t.orders = orders
         /\ t.scheduled = r.scheduled /\ t.sold = r.sold /\ t.revenue = r.revenue
    BY <1>8 DEF SimTypes
  <1> HIDE DEF t
  <1>14. \A k : Stocked(t, k) = Stocked(r, k)
    BY <1>13 DEF Stocked, InSlots
  <1>15. ASSUME NEW k \in Skus
         PROVE  Held(t, k) = Held(sim, k) + more(k)
    <2>1. Held(t, k) = UnderWay(orders, k) + r.storage[k] + Stocked(r, k) + r.sold[k]
      BY <1>13, <1>14 DEF Held
    <2>2. Held(r, k) = UnderWay(r.orders, k) + r.storage[k] + Stocked(r, k) + r.sold[k]
      BY DEF Held
    <2>3. r.storage[k] \in Int /\ r.sold[k] \in Int /\ UnderWay(r.orders, k) \in Int
      BY <1>8, UnderWayIsSum DEF SimTypes
    <2>4. Stocked(r, k) \in Int
      BY <1>8, StockIsSum DEF SimTypes
    <2>5. more(k) \in Int
      BY <1>5
    <2>6. Held(r, k) = Held(sim, k)
      BY <1>7 DEF Right
    <2>7. UnderWay(orders, k) = UnderWay(r.orders, k) + more(k)
      BY <1>9
    <2> DEFINE a == UnderWay(r.orders, k)
               b == r.storage[k]
               g == Stocked(r, k)
               d == r.sold[k]
               e == more(k)
    <2>8. Held(t, k) = (a + e) + b + g + d /\ Held(sim, k) = a + b + g + d
      BY <2>1, <2>2, <2>6, <2>7, Zenon
    <2>9. a \in Int /\ b \in Int /\ g \in Int /\ d \in Int /\ e \in Int
      BY <2>3, <2>4, <2>5
    <2> HIDE DEF a, b, g, d, e
    <2>10. (a + e) + b + g + d = (a + b + g + d) + e
      BY <2>9
    <2>11. QED
      BY <2>8, <2>10, Zenon DEF e
  <1>16. Worth(t) = Worth(sim) - cost /\ Worth(sim) \in Int
    <2> DEFINE fees == DailyFee * r.day
    <2>1. Worth(r) = r.cash + r.machineCash + fees - r.revenue
      BY DEF Worth
    <2>2. Worth(t) = (r.cash - cost) + r.machineCash + fees - r.revenue
      BY <1>13, Zenon DEF Worth
    <2>3. fees \in Int /\ r.cash \in Int /\ r.machineCash \in Int /\ r.revenue \in Int
      <3>1. /\ r.day \in Int /\ r.cash \in Int /\ r.machineCash \in Int /\ r.revenue \in Int
            /\ DailyFee \in Int
        BY <1>8, VendingAssumption DEF SimTypes
      <3>2. fees \in Int
        BY <3>1
      <3>3. QED
        BY <3>1, <3>2
    <2>4. Worth(sim) = Worth(r)
      BY <1>7 DEF Right
    <2> HIDE DEF fees
    <2>5. QED
      BY <1>5, <2>1, <2>2, <2>3, <2>4
  <1>17. OnTime(r) => OnTime(t)
    BY <1>7, <1>10, <1>13 DEF OnTime
  <1>18. Proper(r) => Proper(t)
    BY <1>13 DEF Proper
  <1>19. s \in SimTypes /\ SameBooks(t, s)
    BY <1>12, NegativeCountedKeeps
  <1> HIDE DEF s
  <1>20. Right(t, s) /\ Right(s, sim')
    BY <1>2, <1>19, SameRight, PassesKeeps, ToolMinutes
  <1>21. Right(t, sim')
    BY <1>20, RightTrans
  <1>22. TypeOK'
    <2>1. sim' \in SimTypes
      BY <1>21 DEF Right
    <2>2. bought' \in [units : [Skus -> Nat], cost : Nat]
      <3>1. \A k \in Skus : bought.units[k] + more(k) \in Nat
        BY <1>4, <1>5
      <3>2. bought.cost + cost \in Nat
        BY <1>4, <1>5
      <3> HIDE DEF more
      <3>3. QED
        BY <1>3, <3>1, <3>2
    <2>3. QED
      BY <1>4, <2>1, <2>2 DEF TypeOK
  <1>23. ASSUME NEW k \in Skus
         PROVE  bought'.units[k] = Held(sim', k)
    <2>1. Held(sim', k) = Held(t, k)
      BY <1>21 DEF Right
    <2>2. bought'.units[k] = bought.units[k] + more(k)
      BY <1>3
    <2>3. bought.units[k] = Held(sim, k)
      BY DEF IInv, Books
    <2>4. QED
      BY <1>15, <2>1, <2>2, <2>3
  <1>24. Worth(sim') + bought'.cost = StartingCash
    <2>1. Worth(sim') = Worth(t) /\ bought'.cost = bought.cost + cost
      BY <1>3, <1>21 DEF Right
    <2>2. Worth(sim) + bought.cost = StartingCash
      BY DEF IInv, Books
    <2>3. QED
      BY <1>4, <1>5, <1>16, <2>1, <2>2
  <1>25. OnTime(sim') /\ Proper(sim')
    BY <1>7, <1>17, <1>18, <1>21 DEF IInv, Books, Right
  <1>26. QED
    BY <1>22, <1>23, <1>24, <1>25 DEF IInv, Books

-----------------------------------------------------------------------------
(* The theorems.                                                           *)

LEMMA InitBooks ==
  ASSUME Init
  PROVE  IInv
  <1>1. /\ sim.day = 0 /\ sim.minute = 0 /\ sim.turns = 0 /\ sim.cash = StartingCash
        /\ sim.machineCash = 0 /\ sim.storage = [k \in Skus |-> 0]
        /\ sim.slots = [i \in Slots |-> EmptySlot] /\ sim.orders = <<>> /\ sim.inbox = <<>>
        /\ sim.scheduled = <<>> /\ sim.emails = 0 /\ sim.sold = [k \in Skus |-> 0]
        /\ sim.revenue = 0
        /\ bought = [units |-> [k \in Skus |-> 0], cost |-> 0]
    BY DEF Init
  <1>2. EmptySlot \in SlotTypes
    BY DEF EmptySlot, SlotTypes
  <1>3. sim \in SimTypes
    <2>1. /\ 0 \in 0 .. MaxDay /\ 0 \in 0 .. MinutesPerDay - 1 /\ 0 \in 0 .. MaxTurns
          /\ 0 \in 0 .. MaxEmails /\ StartingCash \in Int
      BY VendingAssumption
    <2>2. [i \in Slots |-> EmptySlot] \in [Slots -> SlotTypes]
      BY <1>2
    <2>3. <<>> \in Seq(OrderTypes) /\ <<>> \in Seq({"reply", "summary"}) /\ <<>> \in Seq([due : Int])
      BY EmptySeq
    <2>4. QED
      BY <2>1, <2>2, <2>3 DEF Init, SimTypes
  <1>4. TypeOK
    BY <1>1, <1>3 DEF Init, TypeOK
  <1>5. ASSUME NEW k \in Skus
        PROVE  bought.units[k] = Held(sim, k)
    <2>1. UnderWay(sim.orders, k) = 0
      BY <1>1, UnderWayEmpty
    <2>2. Stocked(sim, k) = 0
      <3>1. Stocked(sim, k) = SumOf(Stock(sim.slots, k), Slots)
        BY <1>3, StockIsSum DEF SimTypes
      <3>2. \A i \in Slots : Stock(sim.slots, k)[i] = 0
        BY <1>1 DEF Stock, Holds, EmptySlot
      <3>3. QED
        BY <3>1, <3>2, VendingAssumption, SumZero
    <2>3. QED
      BY <1>1, <2>1, <2>2 DEF Held
  <1>6. Worth(sim) + bought.cost = StartingCash
    BY <1>1, VendingAssumption DEF Worth
  <1>7. OnTime(sim) /\ Proper(sim)
    BY <1>1 DEF OnTime, Proper, InOrder, EmptySlot
  <1>8. QED
    BY <1>4, <1>5, <1>6, <1>7 DEF IInv, Books

LEMMA StepKeeps ==
  ASSUME IInv, [Next]_vars
  PROVE  IInv'
  <1>1. CASE ReadEmail
    BY <1>1, ReadEmailKeeps
  <1>2. ASSUME NEW c \in Contacts, SendInquiry(c)
        PROVE  IInv'
    BY <1>2, SendInquiryKeeps
  <1>3. ASSUME NEW c \in Contacts, NEW items \in Orders, NEW complete \in BOOLEAN,
               SendRefusedOrder(c, items, complete)
        PROVE  IInv'
    BY <1>3, SendRefusedOrderKeeps
  <1>4. ASSUME NEW c \in Contacts, NEW items \in Orders,
               NEW due \in [DOMAIN items -> DueDays(c)], SendOrder(c, items, due)
        PROVE  IInv'
    <2>1. PICK D \in SUBSET Skus : items \in [D -> Quantities]
      BY DEF Orders
    <2>2. DOMAIN items = D
      BY <2>1
    <2>3. due \in [D -> DueDays(c)]
      BY <2>2
    <2>4. QED
      BY <1>4, <2>1, <2>3, SendOrderKeeps
  <1>5. ASSUME NEW c \in Contacts, NEW items \in Orders, SendOrderFails(c, items)
        PROVE  IInv'
    BY <1>5, SendOrderFailsKeeps
  <1>6. ASSUME NEW k \in Skus, NEW n \in Quantities, NEW i \in Slots, RestockMachine(k, n, i)
        PROVE  IInv'
    BY <1>6, RestockMachineKeeps
  <1>7. ASSUME NEW is \in SUBSET Slots \ {{}}, NEW updates \in [is -> Prices], SetPrice(updates)
        PROVE  IInv'
    BY <1>7, SetPriceKeeps
  <1>8. CASE CollectCash
    BY <1>8, CollectCashKeeps
  <1>9. CASE WaitForNextDay
    BY <1>9, WaitForNextDayKeeps
  <1>10. ASSUME NEW hits \in LiveHits, NEW stub \in StubHits, AiWebSearch(hits, stub)
         PROVE  IInv'
    BY <1>10, AiWebSearchKeeps
  <1>11. CASE UNCHANGED vars
    BY <1>11 DEF vars, IInv, TypeOK, Books
  <1>12. QED
    BY <1>1, <1>2, <1>3, <1>4, <1>5, <1>6, <1>7, <1>8, <1>9, <1>10, <1>11 DEF Next

LEMMA Always == Spec => []IInv
  <1>1. Init => IInv
    BY InitBooks
  <1>2. IInv /\ [Next]_vars => IInv'
    BY StepKeeps
  <1>3. QED
    BY <1>1, <1>2, PTL DEF Spec

\* The simulator's state keeps its types: no stock, no storage and no count of units sold
\* goes below zero, and the clock stays within the day.
THEOREM TypeCorrect == Spec => []TypeOK
  <1>1. IInv => TypeOK
    BY DEF IInv
  <1>2. QED
    BY <1>1, Always, PTL

\* Every unit ordered is under way, in storage, in the machine or sold, and every amount
\* is with the agent, in the machine, with a supplier or paid as a fee, after any calls
\* and nights: process_email, restock, simulate_day and the morning lose nothing.
THEOREM UnitsAndMoneyConserved == Spec => []Conserved
  <1>1. IInv => Conserved
    <2> SUFFICES ASSUME IInv PROVE Conserved
      OBVIOUS
    <2>1. UnitsConserved
      BY DEF IInv, Books, UnitsConserved, Held, UnderWay
    <2>2. MoneyConserved
      <3> DEFINE fees == DailyFee * sim.day
      <3>1. Worth(sim) = sim.cash + sim.machineCash + fees - sim.revenue
        BY DEF Worth
      <3>2. Worth(sim) + bought.cost = StartingCash
        BY DEF IInv, Books
      <3>3. /\ sim.cash \in Int /\ sim.machineCash \in Int /\ sim.revenue \in Int
            /\ bought.cost \in Int /\ sim.day \in Int
        BY DEF IInv, TypeOK, SimTypes
      <3>4. fees \in Int
        BY <3>3, VendingAssumption
      <3>5. MoneyConserved <=> sim.cash + sim.machineCash + bought.cost + fees
                                 = StartingCash + sim.revenue
        BY DEF MoneyConserved
      <3> HIDE DEF fees
      <3>6. QED
        BY <3>1, <3>2, <3>3, <3>4, <3>5
    <2>3. QED
      BY <2>1, <2>2 DEF Conserved
  <1>2. QED
    BY <1>1, Always, PTL

\* After each call no order and no answer due by today still waits: deliveries are drawn
\* at least a day ahead, and the morning takes all that its day brings.
THEOREM NothingWaits == Spec => []NothingOverdue
  <1>1. IInv => NothingOverdue
    BY DEF IInv, Books, OnTime, NothingOverdue
  <1>2. QED
    BY <1>1, Always, PTL

\* No slot holds more than its capacity, or a product of another row, or one without a
\* price, and one without a product is empty, through restocks that fail and slots that
\* sell out and are labelled again.
THEOREM SlotsStayInOrder == Spec => []SlotsInOrder
  <1>1. IInv => SlotsInOrder
    BY DEF IInv, Books, Proper, InOrder, SlotsInOrder
  <1>2. QED
    BY <1>1, Always, PTL

-----------------------------------------------------------------------------
(* The memory of the agent.                                                *)

\* The scratchpad without some entries is built entry by entry.
Thins(p, pad, ids, S) ==
  /\ p \in [0 .. Len(pad) -> Seq(S)] /\ p[0] = <<>>
  /\ \A i \in 1 .. Len(pad) :
       p[i] = IF pad[i].id \in ids THEN p[i - 1] ELSE Append(p[i - 1], pad[i])
  /\ Without(pad, ids) = p[Len(pad)]

LEMMA WithoutPrefixes ==
  ASSUME NEW S, NEW pad \in Seq(S), NEW ids
  PROVE  \E p : Thins(p, pad, ids, S)
  <1> DEFINE n == Len(pad)
             Step(s, kept) == IF pad[Max(s)].id \in ids THEN kept ELSE Append(kept, pad[Max(s)])
             G == [x \in (1 .. n) \X Seq(S) |->
                     IF pad[x[1]].id \in ids THEN x[2] ELSE Append(x[2], pad[x[1]])]
             Body(h) == [s \in SUBSET (1 .. n) |->
                           IF s = {} THEN <<>>
                           ELSE IF pad[Max(s)].id \in ids THEN h[s \ {Max(s)}]
                                ELSE Append(h[s \ {Max(s)}], pad[Max(s)])]
             it == CHOOSE h : h = Body(h)
  <1>1. n \in Nat /\ DOMAIN pad = 1 .. n /\ <<>> \in Seq(S)
    OBVIOUS
  <1>2. ASSUME NEW i \in 1 .. n
        PROVE  pad[i] \in S
    BY <1>1, ElementOfSeq
  <1>3. G \in [(1 .. n) \X Seq(S) -> Seq(S)]
    <2>1. ASSUME NEW x \in (1 .. n) \X Seq(S)
          PROVE  G[x] \in Seq(S)
      <3>1. x[1] \in 1 .. n /\ x[2] \in Seq(S) /\ pad[x[1]] \in S
        BY <1>2
      <3>2. Append(x[2], pad[x[1]]) \in Seq(S)
        BY <3>1, AppendProperties
      <3>3. QED
        BY <3>1, <3>2
    <2>2. QED
      BY <2>1
  <1>4. PICK h : FoldsTo(h, n, Seq(S), <<>>, G)
    BY <1>1, <1>3, FoldExists
  <1>5. h = Body(h)
    <2>1. ASSUME NEW s \in SUBSET (1 .. n), s # {}
          PROVE  h[s] = IF pad[Max(s)].id \in ids THEN h[s \ {Max(s)}]
                        ELSE Append(h[s \ {Max(s)}], pad[Max(s)])
      <3>1. Max(s) \in 1 .. n
        BY <1>1, <2>1, MaxOf
      <3>2. h[s \ {Max(s)}] \in Seq(S)
        BY <1>4 DEF FoldsTo
      <3>3. h[s] = G[<<Max(s), h[s \ {Max(s)}]>>]
        BY <1>4, <2>1 DEF FoldsTo
      <3>4. QED
        BY <3>1, <3>2, <3>3
    <2>2. h \in [SUBSET (1 .. n) -> Seq(S)] /\ h[{}] = <<>>
      BY <1>4 DEF FoldsTo
    <2>3. QED
      BY <2>1, <2>2
  <1>6. it = Body(it)
    BY <1>5
  <1>7. Without(pad, ids) = it[1 .. n]
    BY <1>1 DEF Without, FoldLeft, MapThenFoldSet
  <1> HIDE DEF it
  <1> DEFINE p == [i \in 0 .. n |-> it[1 .. i]]
  <1>8. it[1 .. 0] = <<>>
    BY <1>6
  <1>9. ASSUME NEW i \in 1 .. n
        PROVE  it[1 .. i] = IF pad[i].id \in ids THEN it[1 .. (i - 1)]
                            ELSE Append(it[1 .. (i - 1)], pad[i])
    <2>1. 1 .. i \in SUBSET (1 .. n) /\ i \in Nat \ {0}
      OBVIOUS
    <2>2. Max(1 .. i) = i /\ (1 .. i) \ {i} = 1 .. (i - 1) /\ 1 .. i # {}
      BY <2>1, MaxOfPrefix
    <2>3. QED
      BY <1>6, <2>1, <2>2
  <1>10. ASSUME NEW i \in 0 .. n
         PROVE  it[1 .. i] \in Seq(S)
    <2> DEFINE T == {j \in 0 .. n : it[1 .. j] \in Seq(S)}
    <2>1. T \in SUBSET (0 .. n) /\ 0 \in T
      <3>1. 0 \in 0 .. n /\ it[1 .. 0] \in Seq(S)
        BY <1>1, <1>8
      <3>2. QED
        BY <3>1, Zenon
    <2>2. ASSUME NEW j \in 1 .. n, j - 1 \in T
          PROVE  j \in T
      <3>1. it[1 .. (j - 1)] \in Seq(S) /\ pad[j] \in S
        BY <1>2, <2>2
      <3>2. Append(it[1 .. (j - 1)], pad[j]) \in Seq(S)
        BY <3>1, AppendProperties
      <3>3. it[1 .. j] \in Seq(S)
        BY <1>9, <3>1, <3>2
      <3>4. QED
        BY <3>3
    <2> HIDE DEF T
    <2>3. T = 0 .. n
      BY <1>1, <2>1, <2>2, IndexInduction
    <2>4. QED
      BY <2>3 DEF T
  <1>11. p \in [0 .. n -> Seq(S)] /\ p[0] = <<>> /\ Without(pad, ids) = p[n]
    BY <1>1, <1>7, <1>8, <1>10
  <1>12. ASSUME NEW i \in 1 .. n
         PROVE  p[i] = IF pad[i].id \in ids THEN p[i - 1] ELSE Append(p[i - 1], pad[i])
    <2>1. i \in 0 .. n /\ i - 1 \in 0 .. n
      BY <1>1
    <2>2. QED
      BY <1>9, <2>1
  <1> HIDE DEF p
  <1>13. Thins(p, pad, ids, S)
    BY <1>11, <1>12 DEF Thins
  <1>14. QED
    BY <1>13, Zenon


DistinctIds(s) == \A i, j \in DOMAIN s : s[i].id = s[j].id => i = j

\* Appending an entry with an id of its own.
LEMMA AppendKeeps ==
  ASSUME NEW S, NEW q \in Seq(S), NEW e \in S
  PROVE  /\ Append(q, e) \in Seq(S)
         /\ Range(Append(q, e)) = Range(q) \cup {e}
         /\ DistinctIds(q) /\ (\A k \in DOMAIN q : q[k].id # e.id)
              => DistinctIds(Append(q, e))
  <1> DEFINE r == Append(q, e)
  <1>1. /\ Len(q) \in Nat /\ DOMAIN q = 1 .. Len(q)
        /\ r \in Seq(S) /\ DOMAIN r = 1 .. Len(q) + 1
        /\ r[Len(q) + 1] = e
        /\ \A k \in 1 .. Len(q) : r[k] = q[k]
    BY AppendProperties
  <1> HIDE DEF r
  <1>2. Range(r) = Range(q) \cup {e}
    BY <1>1 DEF Range
  <1>3. ASSUME DistinctIds(q), \A k \in DOMAIN q : q[k].id # e.id,
               NEW a \in DOMAIN r, NEW b \in DOMAIN r, r[a].id = r[b].id
        PROVE  a = b
    <2>1. a \in DOMAIN q \/ a = Len(q) + 1
      BY <1>1
    <2>2. b \in DOMAIN q \/ b = Len(q) + 1
      BY <1>1
    <2>3. \A k \in DOMAIN q : r[k] = q[k]
      BY <1>1
    <2>4. QED
      BY <1>1, <1>3, <2>1, <2>2, <2>3 DEF DistinctIds
  <1>4. QED
    BY <1>1, <1>2, <1>3 DEF DistinctIds, r

\* It has the other entries, and none of them twice.
LEMMA WithoutKeeps ==
  ASSUME NEW S, NEW pad \in Seq(S), NEW ids, DistinctIds(pad)
  PROVE  /\ Without(pad, ids) \in Seq(S)
         /\ Range(Without(pad, ids)) = {e \in Range(pad) : e.id \notin ids}
         /\ DistinctIds(Without(pad, ids))
  <1> DEFINE n == Len(pad)
             Part(i) == {pad[k] : k \in {j \in 1 .. i : pad[j].id \notin ids}}
  <1>1. n \in Nat /\ DOMAIN pad = 1 .. n
    OBVIOUS
  <1>0. PICK p : Thins(p, pad, ids, S)
    BY WithoutPrefixes, Zenon
  <1>2. /\ p \in [0 .. n -> Seq(S)] /\ p[0] = <<>>
        /\ \A i \in 1 .. n :
             p[i] = IF pad[i].id \in ids THEN p[i - 1] ELSE Append(p[i - 1], pad[i])
        /\ Without(pad, ids) = p[n]
    BY <1>0, Zenon DEF Thins
  <1> DEFINE T == {i \in 0 .. n : Range(p[i]) = Part(i) /\ DistinctIds(p[i])}
  <1>3. T \in SUBSET (0 .. n) /\ 0 \in T
    <2>1. DOMAIN p[0] = {}
      BY <1>2
    <2>2. Range(p[0]) = {} /\ DistinctIds(p[0])
      BY <2>1 DEF Range, DistinctIds
    <2>3. Part(0) = {}
      OBVIOUS
    <2>4. 0 \in 0 .. n
      BY <1>1
    <2> HIDE DEF Part
    <2>5. QED
      BY <2>2, <2>3, <2>4, Zenon
  <1>4. ASSUME NEW i \in 1 .. n, i - 1 \in T
        PROVE  i \in T
    <2>1. i \in 0 .. n /\ i - 1 \in 0 .. n /\ 1 .. i = (1 .. (i - 1)) \cup {i}
      BY <1>1
    <2>2. p[i - 1] \in Seq(S) /\ Range(p[i - 1]) = Part(i - 1) /\ DistinctIds(p[i - 1])
      BY <1>2, <1>4, <2>1
    <2>3. pad[i] \in S
      BY <1>1, ElementOfSeq
    <2>4. CASE pad[i].id \in ids
      <3>1. p[i] = p[i - 1]
        BY <1>2, <2>4
      <3>2. Part(i) = Part(i - 1)
        BY <2>1, <2>4
      <3>3. Range(p[i]) = Part(i) /\ DistinctIds(p[i])
        BY <2>2, <3>1, <3>2
      <3>4. QED
        BY <2>1, <3>3
    <2>5. CASE pad[i].id \notin ids
      <3>1. p[i] = Append(p[i - 1], pad[i])
        BY <1>2, <2>5
      <3>2. Part(i) = Part(i - 1) \cup {pad[i]}
        BY <2>1, <2>5
      <3>3. ASSUME NEW k \in DOMAIN p[i - 1]
            PROVE  p[i - 1][k].id # pad[i].id
        <4>1. p[i - 1][k] \in Part(i - 1)
          BY <2>2 DEF Range
        <4>2. PICK j \in 1 .. (i - 1) : p[i - 1][k] = pad[j]
          BY <4>1
        <4>3. j \in DOMAIN pad /\ i \in DOMAIN pad /\ j # i
          BY <1>1
        <4>4. QED
          BY <4>2, <4>3 DEF DistinctIds
      <3> HIDE DEF Part
      <3>4. Range(p[i]) = Part(i) /\ DistinctIds(p[i])
        BY <2>2, <2>3, <3>1, <3>2, <3>3, AppendKeeps, SMTT(30)
      <3>5. QED
        BY <2>1, <3>4
    <2>6. QED
      BY <2>4, <2>5
  <1>5. Range(p[n]) = Part(n) /\ DistinctIds(p[n])
    <2> HIDE DEF T
    <2>1. T = 0 .. n
      BY <1>1, <1>3, <1>4, IndexInduction
    <2>2. n \in T
      BY <1>1, <2>1
    <2>3. QED
      BY <2>2 DEF T
  <1>6. Part(n) = {e \in Range(pad) : e.id \notin ids}
    BY <1>1 DEF Range
  <1>7. QED
    BY <1>1, <1>2, <1>5, <1>6


-----------------------------------------------------------------------------
(***************************************************************************)
(* A memory is sound when it has the type of one, its ids were generated   *)
(* by its counter, each for one entry, and only a summary stands for other *)
(* entries.                                                                *)
(***************************************************************************)
Fresh(m) ==
  /\ DistinctIds(m.pad)
  /\ DistinctIds(m.vec)
  /\ \A e \in Range(m.pad), v \in Range(m.vec) : e.id # v.id
  /\ \A e \in Range(m.pad) \cup Range(m.vec) : e.id < m.nextId

Plain(m) == \A e \in Range(m.pad) : e.kind # "summary" => e.sources = {}

Sound(m) == IsMemory(m) /\ Fresh(m) /\ Plain(m)

Memory(pad, kv, vec, nextId) == [pad |-> pad, kv |-> kv, vec |-> vec, nextId |-> nextId]

IsKv(kv) == \E ks \in SUBSET Keys : kv \in [ks -> Int]

\* The facts a sound memory stands for, one by one.
Parts(pad, kv, vec, n) ==
  /\ pad \in Seq(Entries) /\ vec \in Seq(VecEntries) /\ IsKv(kv) /\ n \in 1 .. MaxId + 1
  /\ DistinctIds(pad) /\ DistinctIds(vec)
  /\ \A e \in Range(pad), v \in Range(vec) : e.id # v.id
  /\ \A e \in Range(pad) \cup Range(vec) : e.id < n
  /\ \A e \in Range(pad) : e.kind # "summary" => e.sources = {}

LEMMA SoundParts ==
  ASSUME NEW pad, NEW kv, NEW vec, NEW n, Parts(pad, kv, vec, n)
  PROVE  Sound(Memory(pad, kv, vec, n))
  BY DEF Parts, IsKv, Sound, IsMemory, Fresh, Plain, Memory

LEMMA SoundSplit ==
  ASSUME NEW m, Sound(m)
  PROVE  m = Memory(m.pad, m.kv, m.vec, m.nextId) /\ Parts(m.pad, m.kv, m.vec, m.nextId)
  BY DEF Parts, IsKv, Sound, IsMemory, Fresh, Plain, Memory

\* The parts of a memory that hold a note.
LEMMA NotesMember ==
  ASSUME NEW m, NEW x
  PROVE  x \in NotesOf(m) <=>
           \/ \E e \in Range(m.pad) : e.kind # "summary" /\ x = e.id
           \/ \E e \in Range(m.pad) : x \in e.sources
           \/ \E v \in Range(m.vec) : v.kind = "entry" /\ x = v.id
  <1>1. x \in {e.id : e \in {f \in Range(m.pad) : f.kind # "summary"}}
          <=> \E e \in Range(m.pad) : e.kind # "summary" /\ x = e.id
    OBVIOUS
  <1>2. x \in UNION {e.sources : e \in Range(m.pad)} <=> \E e \in Range(m.pad) : x \in e.sources
    OBVIOUS
  <1>3. x \in {v.id : v \in {w \in Range(m.vec) : w.kind = "entry"}}
          <=> \E v \in Range(m.vec) : v.kind = "entry" /\ x = v.id
    OBVIOUS
  <1>4. QED
    BY <1>1, <1>2, <1>3 DEF NotesOf

LEMMA EmptySound == Sound(Empty) /\ NotesOf(Empty) = {}
  <1>1. MaxId \in Nat
    BY MemoryAssumption DEF MemoryAssumption
  <1>2. Range(<<>>) = {} /\ DistinctIds(<<>>)
    BY DEF Range, DistinctIds
  <1>3. <<>> \in Seq(Entries) /\ <<>> \in Seq(VecEntries)
    OBVIOUS
  <1>4. IsKv(<<>>)
    <2>1. <<>> \in [{} -> Int] /\ {} \in SUBSET Keys
      OBVIOUS
    <2>2. QED
      BY <2>1 DEF IsKv
  <1>5. Parts(<<>>, <<>>, <<>>, 1)
    BY <1>1, <1>2, <1>3, <1>4 DEF Parts
  <1>6. Empty = Memory(<<>>, <<>>, <<>>, 1)
    BY DEF Empty, Memory
  <1>7. NotesOf(Empty) = {}
    BY <1>2 DEF Empty, NotesOf
  <1>8. QED
    BY <1>5, <1>6, <1>7, SoundParts

\* What the three operations add to a sound memory with an id to spare.
LEMMA NoteSound ==
  ASSUME NEW m, Sound(m), m.nextId <= MaxId, NEW pinned \in BOOLEAN
  PROVE  LET r == Memory(Append(m.pad, Note(m.nextId, pinned)), m.kv, m.vec, m.nextId + 1)
         IN  Sound(r) /\ NotesOf(r) = NotesOf(m) \cup {m.nextId}
  <1> DEFINE e == Note(m.nextId, pinned)
             pad == Append(m.pad, e)
  <1>1. MaxId \in Nat /\ m = Memory(m.pad, m.kv, m.vec, m.nextId)
        /\ Parts(m.pad, m.kv, m.vec, m.nextId)
    BY MemoryAssumption, SoundSplit DEF MemoryAssumption
  <1> DEFINE r == Memory(pad, m.kv, m.vec, m.nextId + 1)
  <1>2. r.pad = pad /\ r.vec = m.vec
    BY DEF Memory
  <1>3. e \in Entries /\ e.id = m.nextId /\ e.kind # "summary" /\ e.sources = {}
    BY <1>1 DEF Note, Entries, Ids, Parts
  <1>4. \A k \in DOMAIN m.pad : m.pad[k].id # e.id
    BY <1>1, <1>3 DEF Range, Parts
  <1> HIDE DEF e
  <1>5. pad \in Seq(Entries) /\ Range(pad) = Range(m.pad) \cup {e} /\ DistinctIds(pad)
    BY <1>1, <1>3, <1>4, AppendKeeps DEF Parts
  <1> HIDE DEF pad
  <1>6. Parts(pad, m.kv, m.vec, m.nextId + 1)
    <2>1. /\ m.nextId \in Int /\ m.nextId + 1 \in 1 .. MaxId + 1
          /\ Range(m.pad) \in SUBSET Entries /\ Range(m.vec) \in SUBSET VecEntries
      BY <1>1, RangeOfSeq DEF Parts
    <2>2. \A x \in Range(m.pad) \cup Range(m.vec) : x.id \in Int /\ x.id < m.nextId
      BY <1>1, <2>1 DEF Parts, Entries, VecEntries, Ids
    <2>3. \A x \in Range(m.pad) \cup Range(m.vec) \cup {e} : x.id < m.nextId + 1
      BY <1>3, <2>1, <2>2
    <2>4. \A x \in Range(m.vec) : x.id # e.id
      BY <1>3, <2>1, <2>2
    <2>5. QED
      BY <1>1, <1>3, <1>5, <2>1, <2>3, <2>4 DEF Parts
  <1> HIDE DEF r
  <1>7. ASSUME NEW x
        PROVE  x \in NotesOf(r) <=> x \in NotesOf(m) \cup {m.nextId}
    BY <1>2, <1>3, <1>5, NotesMember
  <1>8. QED
    BY <1>6, <1>7, SoundParts DEF r, e, pad

LEMMA EmbeddedSound ==
  ASSUME NEW m, Sound(m), m.nextId <= MaxId, NEW sources \in SUBSET Ids,
         NEW kind \in {"entry", "summary"}
  PROVE  LET r == Memory(m.pad, m.kv, Append(m.vec, Embedded(m.nextId, kind, sources)),
                         m.nextId + 1)
         IN  /\ Sound(r)
             /\ NotesOf(r) = NotesOf(m) \cup (IF kind = "entry" THEN {m.nextId} ELSE {})
  <1> DEFINE e == Embedded(m.nextId, kind, sources)
             vec == Append(m.vec, e)
  <1>1. MaxId \in Nat /\ m = Memory(m.pad, m.kv, m.vec, m.nextId)
        /\ Parts(m.pad, m.kv, m.vec, m.nextId)
    BY MemoryAssumption, SoundSplit DEF MemoryAssumption
  <1> DEFINE r == Memory(m.pad, m.kv, vec, m.nextId + 1)
  <1>2. r.pad = m.pad /\ r.vec = vec
    BY DEF Memory
  <1>3. e \in VecEntries /\ e.id = m.nextId /\ e.kind = kind
    BY <1>1 DEF Embedded, VecEntries, Ids, Parts
  <1>4. \A k \in DOMAIN m.vec : m.vec[k].id # e.id
    BY <1>1, <1>3 DEF Range, Parts
  <1> HIDE DEF e
  <1>5. vec \in Seq(VecEntries) /\ Range(vec) = Range(m.vec) \cup {e} /\ DistinctIds(vec)
    BY <1>1, <1>3, <1>4, AppendKeeps DEF Parts
  <1> HIDE DEF vec
  <1>6. Parts(m.pad, m.kv, vec, m.nextId + 1)
    <2>1. /\ m.nextId \in Int /\ m.nextId + 1 \in 1 .. MaxId + 1
          /\ Range(m.pad) \in SUBSET Entries /\ Range(m.vec) \in SUBSET VecEntries
      BY <1>1, RangeOfSeq DEF Parts
    <2>2. \A x \in Range(m.pad) \cup Range(m.vec) : x.id \in Int /\ x.id < m.nextId
      BY <1>1, <2>1 DEF Parts, Entries, VecEntries, Ids
    <2>3. \A x \in Range(m.pad) \cup Range(m.vec) \cup {e} : x.id < m.nextId + 1
      BY <1>3, <2>1, <2>2
    <2>4. \A x \in Range(m.pad) : x.id # e.id
      BY <1>3, <2>1, <2>2
    <2>5. QED
      BY <1>1, <1>3, <1>5, <2>1, <2>3, <2>4 DEF Parts
  <1> HIDE DEF r
  <1>7. ASSUME NEW x
        PROVE  x \in NotesOf(r) <=>
                 x \in NotesOf(m) \cup (IF kind = "entry" THEN {m.nextId} ELSE {})
    BY <1>2, <1>3, <1>5, NotesMember
  <1>8. QED
    BY <1>6, <1>7, SoundParts DEF r, e, vec

\* Marking the vector entries about some notes changes nothing else of them.
LEMMA FlaggedKeeps ==
  ASSUME NEW vec \in Seq(VecEntries), NEW ids
  PROVE  LET w == [i \in DOMAIN vec |-> Flagged(vec[i], ids)]
         IN  /\ w \in Seq(VecEntries)
             /\ DOMAIN w = DOMAIN vec
             /\ \A i \in DOMAIN vec : w[i].id = vec[i].id /\ w[i].kind = vec[i].kind
  <1> DEFINE w == [i \in DOMAIN vec |-> Flagged(vec[i], ids)]
  <1>1. DOMAIN vec = 1 .. Len(vec) /\ Len(vec) \in Nat
    OBVIOUS
  <1>2. ASSUME NEW i \in DOMAIN vec
        PROVE  /\ w[i] \in VecEntries
               /\ w[i].id = vec[i].id /\ w[i].kind = vec[i].kind
    <2>1. vec[i] \in VecEntries
      OBVIOUS
    <2>2. w[i] = Flagged(vec[i], ids)
      OBVIOUS
    <2> HIDE DEF w
    <2>3. QED
      BY <2>1, <2>2 DEF Flagged, VecEntries
  <1>3. w \in [1 .. Len(vec) -> VecEntries]
    BY <1>1, <1>2
  <1>4. w \in Seq(VecEntries)
    <2> HIDE DEF w
    <2>1. QED
      BY <1>1, <1>3, SeqDef
  <1>5. QED
    BY <1>2, <1>4

\* A summary of notes takes their place in the scratchpad and keeps every note.
LEMMA CondensedSound ==
  ASSUME Sound(mem), mem.nextId <= MaxId,
         NEW ids \in SUBSET {e.id : e \in {f \in Range(mem.pad) : f.kind = "note"}}
  PROVE  /\ Sound(Condensed(ids))
         /\ NotesOf(Condensed(ids)) = NotesOf(mem)
         /\ Condensed(ids).nextId = mem.nextId + 1
         /\ ids \in SUBSET Ids
  <1> DEFINE e == Summary(mem.nextId, ids)
             rest == Without(mem.pad, ids)
             pad == Append(rest, e)
             vec == [i \in DOMAIN mem.vec |-> Flagged(mem.vec[i], ids)]
             r == Memory(pad, mem.kv, vec, mem.nextId + 1)
  <1>1. MaxId \in Nat /\ mem = Memory(mem.pad, mem.kv, mem.vec, mem.nextId)
        /\ Parts(mem.pad, mem.kv, mem.vec, mem.nextId)
    BY MemoryAssumption, SoundSplit DEF MemoryAssumption
  <1>2. Condensed(ids) = r
    <2> SUFFICES ASSUME NEW w, w = Condensed(ids)
                 PROVE  w = r
      OBVIOUS
    <2>1. w = [mem EXCEPT !.pad = pad, !.vec = vec, !.nextId = mem.nextId + 1]
      BY DEF Condensed
    <2> HIDE DEF pad, vec
    <2>2. QED
      BY <1>1, <2>1 DEF Memory
  <1>3. /\ Range(mem.pad) \in SUBSET Entries /\ Range(mem.vec) \in SUBSET VecEntries
        /\ mem.nextId \in Int /\ mem.nextId \in 1 .. MaxId
        /\ mem.nextId + 1 \in 1 .. MaxId + 1
    BY <1>1, RangeOfSeq DEF Parts
  <1>4. ids \in SUBSET Ids
    BY <1>3 DEF Entries
  <1>5. e \in Entries /\ e.id = mem.nextId /\ e.kind = "summary" /\ e.sources = ids
    BY <1>3, <1>4 DEF Summary, Entries, Ids
  <1>6. /\ rest \in Seq(Entries)
        /\ Range(rest) = {x \in Range(mem.pad) : x.id \notin ids}
        /\ DistinctIds(rest)
    BY <1>1, WithoutKeeps DEF Parts
  <1> HIDE DEF e, rest
  <1>7. \A x \in Range(mem.pad) \cup Range(mem.vec) : x.id \in Int /\ x.id < mem.nextId
    BY <1>1, <1>3 DEF Parts, Entries, VecEntries, Ids
  <1>8. \A i \in DOMAIN rest : rest[i].id # e.id
    <2>1. \A i \in DOMAIN rest : rest[i] \in Range(mem.pad)
      BY <1>6 DEF Range
    <2>2. QED
      BY <1>3, <1>5, <1>7, <2>1
  <1>9. pad \in Seq(Entries) /\ Range(pad) = Range(rest) \cup {e} /\ DistinctIds(pad)
    BY <1>5, <1>6, <1>8, AppendKeeps
  <1>10. /\ vec \in Seq(VecEntries) /\ DOMAIN vec = DOMAIN mem.vec
         /\ \A i \in DOMAIN vec : vec[i].id = mem.vec[i].id /\ vec[i].kind = mem.vec[i].kind
    BY <1>1, FlaggedKeeps DEF Parts
  <1>11. r.pad = pad /\ r.vec = vec /\ r.nextId = mem.nextId + 1
    BY DEF Memory
  <1> HIDE DEF pad, vec
  <1>12. \A v \in Range(vec) : \E w \in Range(mem.vec) : v.id = w.id /\ v.kind = w.kind
    BY <1>10 DEF Range
  <1>13. \A w \in Range(mem.vec) : \E v \in Range(vec) : v.id = w.id /\ v.kind = w.kind
    BY <1>10 DEF Range
  <1>14. Parts(pad, mem.kv, vec, mem.nextId + 1)
    <2>1. DistinctIds(vec)
      BY <1>1, <1>10 DEF DistinctIds, Parts
    <2>2. \A x \in Range(pad) : x = e \/ (x \in Range(mem.pad) /\ x.id < mem.nextId)
      BY <1>6, <1>7, <1>9
    <2>3. \A v \in Range(vec) : v.id \in Int /\ v.id < mem.nextId
      BY <1>7, <1>12
    <2>4. \A x \in Range(pad), v \in Range(vec) : x.id # v.id
      <3>1. ASSUME NEW x \in Range(pad), NEW v \in Range(vec)
            PROVE  x.id # v.id
        <4>1. CASE x = e
          BY <1>3, <1>5, <2>3, <4>1
        <4>2. CASE x \in Range(mem.pad)
          BY <1>1, <1>12, <4>2 DEF Parts
        <4>3. QED
          BY <2>2, <4>1, <4>2
      <3>2. QED
        BY <3>1
    <2>5. \A x \in Range(pad) \cup Range(vec) : x.id < mem.nextId + 1
      <3>1. \A x \in Range(pad) : x.id < mem.nextId + 1
        BY <1>3, <1>5, <1>7, <2>2
      <3>2. \A x \in Range(vec) : x.id < mem.nextId + 1
        BY <1>3, <2>3
      <3>3. QED
        BY <3>1, <3>2
    <2>6. \A x \in Range(pad) : x.kind # "summary" => x.sources = {}
      BY <1>1, <1>5, <2>2 DEF Parts
    <2>7. QED
      BY <1>1, <1>3, <1>9, <1>10, <2>1, <2>4, <2>5, <2>6 DEF Parts
  <1> HIDE DEF r
  <1>15. ASSUME NEW x \in Range(mem.pad), x.id \in ids
         PROVE  x.kind = "note" /\ x.sources = {}
    <2>1. PICK y \in Range(mem.pad) : y.kind = "note" /\ y.id = x.id
      BY <1>15
    <2>2. PICK i \in DOMAIN mem.pad, j \in DOMAIN mem.pad : x = mem.pad[i] /\ y = mem.pad[j]
      BY DEF Range
    <2>3. i = j
      BY <1>1, <2>1, <2>2 DEF Parts, DistinctIds
    <2>4. QED
      BY <1>1, <2>1, <2>2, <2>3 DEF Parts
  <1>16. \A n \in ids : \E x \in Range(mem.pad) : x.id = n /\ x.kind = "note"
    OBVIOUS
  <1>17. ASSUME NEW n
         PROVE  n \in NotesOf(r) <=> n \in NotesOf(mem)
    <2>1. ASSUME n \in NotesOf(r)
          PROVE  n \in NotesOf(mem)
      <3>1. CASE \E x \in Range(pad) : x.kind # "summary" /\ n = x.id
        BY <1>5, <1>6, <1>9, <3>1, NotesMember
      <3>2. CASE \E x \in Range(pad) : n \in x.sources
        BY <1>5, <1>6, <1>9, <1>16, <3>2, NotesMember
      <3>3. CASE \E v \in Range(vec) : v.kind = "entry" /\ n = v.id
        BY <1>12, <3>3, NotesMember
      <3>4. QED
        BY <1>11, <2>1, <3>1, <3>2, <3>3, NotesMember
    <2>2. ASSUME n \in NotesOf(mem)
          PROVE  n \in NotesOf(r)
      <3>1. CASE \E x \in Range(mem.pad) : x.kind # "summary" /\ n = x.id
        BY <1>5, <1>6, <1>9, <1>11, <3>1, NotesMember
      <3>2. CASE \E x \in Range(mem.pad) : n \in x.sources
        BY <1>6, <1>9, <1>11, <1>15, <3>2, NotesMember
      <3>3. CASE \E v \in Range(mem.vec) : v.kind = "entry" /\ n = v.id
        BY <1>11, <1>13, <3>3, NotesMember
      <3>4. QED
        BY <2>2, <3>1, <3>2, <3>3, NotesMember
    <2>3. QED
      BY <2>1, <2>2
  <1>18. Sound(r)
    BY <1>14, SoundParts DEF r
  <1>19. NotesOf(r) = NotesOf(mem)
    BY <1>17 DEF NotesOf
  <1>20. QED
    BY <1>2, <1>4, <1>11, <1>18, <1>19

LEMMA KvSound ==
  ASSUME NEW m, Sound(m), NEW kv, IsKv(kv)
  PROVE  LET r == Memory(m.pad, kv, m.vec, m.nextId)
         IN  Sound(r) /\ NotesOf(r) = NotesOf(m)
  <1> DEFINE r == Memory(m.pad, kv, m.vec, m.nextId)
  <1>1. Parts(m.pad, kv, m.vec, m.nextId)
    BY SoundSplit DEF Parts
  <1>2. r.pad = m.pad /\ r.vec = m.vec
    BY DEF Memory
  <1> HIDE DEF r
  <1>3. NotesOf(r) = NotesOf(m)
    BY <1>2 DEF NotesOf
  <1>4. QED
    BY <1>1, <1>3, SoundParts DEF r

\* Dropping what has expired.
LEMMA CleanedIsKv ==
  ASSUME NEW kv, IsKv(kv)
  PROVE  IsKv(Cleaned(kv)) /\ DOMAIN Cleaned(kv) \in SUBSET Keys
         /\ \A k \in DOMAIN Cleaned(kv) : Cleaned(kv)[k] \in Int
  <1>1. PICK ks \in SUBSET Keys : kv \in [ks -> Int]
    BY DEF IsKv
  <1> DEFINE kept == {k \in DOMAIN kv : clock <= kv[k]}
  <1>2. Cleaned(kv) = [k \in kept |-> kv[k]]
    BY DEF Cleaned, Restrict
  <1>3. kept \in SUBSET Keys /\ \A k \in kept : kv[k] \in Int
    BY <1>1
  <1> HIDE DEF kept
  <1>4. Cleaned(kv) \in [kept -> Int]
    BY <1>2, <1>3
  <1>5. QED
    BY <1>3, <1>4 DEF IsKv

-----------------------------------------------------------------------------
(***************************************************************************)
(* The inductive invariant: both memories are sound, a running process     *)
(* that is not starting has a checkpoint, and the checkpoint is the memory *)
(* at rest.  ResumeExact is inductive by itself; IdsUnique is not: that    *)
(* the entries a summary replaces are those it names needs the ids to be   *)
(* those of the counter, in the scratchpad and the vector store together.  *)
(***************************************************************************)
MemoryInv ==
  /\ Sound(mem)
  /\ file # NoFile => Sound(file)
  /\ pc \in {"down", "starting", "saving", "idle"}
  /\ dirty \in BOOLEAN
  /\ dirty => pc \in {"saving", "idle"}
  /\ pc \in {"saving", "idle"} => file # NoFile
  /\ clock \in 0 .. MaxDays
  /\ ResumeExact

\* What a step of the process does to the notes, seen from outside.
Saved == IF file = NoFile THEN {} ELSE NotesOf(file)
Up == pc # "down"
KeeperStep == Keeper!Next \/ UNCHANGED <<NotesOf(mem), Saved, Up>>

LEMMA MemoryInitInv == MemoryInit => MemoryInv /\ Keeper!Init
  <1> SUFFICES ASSUME MemoryInit PROVE MemoryInv /\ Keeper!Init
    OBVIOUS
  <1>1. Sound(mem) /\ NotesOf(mem) = {}
    BY EmptySound DEF MemoryInit
  <1>2. 0 \in 0 .. MaxDays
    BY MemoryAssumption DEF MemoryAssumption
  <1>3. QED
    BY <1>1, <1>2 DEF MemoryInit, MemoryInv, ResumeExact, Keeper!Init

LEMMA MemoryIsFile ==
  ASSUME NEW m, Sound(m)
  PROVE  m # NoFile
  <1>1. m = Memory(m.pad, m.kv, m.vec, m.nextId)
    BY SoundSplit
  <1>2. "pad" \in DOMAIN m
    BY <1>1 DEF Memory
  <1>3. "pad" \notin DOMAIN NoFile
    BY DEF NoFile
  <1>4. QED
    BY <1>2, <1>3

LEMMA StartStep ==
  ASSUME MemoryInv, NEW resume \in BOOLEAN, Start(resume)
  PROVE  MemoryInv' /\ KeeperStep
  <1>1. CASE resume /\ file # NoFile
    <2>1. mem' = file /\ pc' = "starting" /\ pc = "down" /\ ~dirty
          /\ file' = file /\ dirty' = dirty /\ clock' = clock
      BY <1>1 DEF Start, MemoryInv, LoadCheckpoint
    <2>2. MemoryInv'
      BY <1>1, <2>1 DEF MemoryInv, ResumeExact
    <2>3. Keeper!Start(TRUE)
      BY <1>1, <2>1 DEF Keeper!Start
    <2>4. QED
      BY <2>2, <2>3 DEF KeeperStep, Keeper!Next
  <1>2. CASE ~(resume /\ file # NoFile)
    <2>1. mem' = Empty /\ pc' = "starting" /\ pc = "down" /\ ~dirty
          /\ file' = file /\ dirty' = dirty /\ clock' = clock
      BY <1>2 DEF Start, MemoryInv
    <2>2. Sound(mem') /\ NotesOf(mem') = {}
      BY <2>1, EmptySound
    <2>3. MemoryInv'
      BY <2>1, <2>2 DEF MemoryInv, ResumeExact
    <2>4. Keeper!Start(FALSE)
      BY <2>1, <2>2 DEF Keeper!Start
    <2>5. QED
      BY <2>3, <2>4 DEF KeeperStep, Keeper!Next
  <1>3. QED
    BY <1>1, <1>2

LEMMA PersistStep ==
  ASSUME MemoryInv, Persist
  PROVE  MemoryInv' /\ KeeperStep
  <1>1. /\ file' = mem /\ mem' = mem /\ clock' = clock
        /\ pc' = "idle" /\ dirty' = FALSE /\ pc # "down"
    BY DEF Persist
  <1>2. file' # NoFile
    BY <1>1, MemoryIsFile DEF MemoryInv
  <1>3. MemoryInv'
    BY <1>1, <1>2 DEF MemoryInv, ResumeExact, Cleaned
  <1>4. Keeper!Save
    BY <1>1, <1>2 DEF Keeper!Save
  <1>5. QED
    BY <1>3, <1>4 DEF KeeperStep, Keeper!Next

LEMMA PersistFailsStep ==
  ASSUME MemoryInv, PersistFails
  PROVE  MemoryInv' /\ KeeperStep
  <1>1. CASE pc = "starting"
    <2>1. mem' = Empty /\ pc' = "down" /\ dirty' = FALSE /\ file' = file /\ clock' = clock
      BY <1>1 DEF PersistFails
    <2>2. Sound(mem') /\ NotesOf(mem') = {}
      BY <2>1, EmptySound
    <2>3. MemoryInv'
      BY <2>1, <2>2 DEF MemoryInv, ResumeExact
    <2>4. Keeper!Stop
      BY <1>1, <2>1, <2>2 DEF Keeper!Stop
    <2>5. QED
      BY <2>3, <2>4 DEF KeeperStep, Keeper!Next
  <1>2. CASE pc = "saving"
    <2>1. mem' = mem /\ pc' = "idle" /\ dirty' = TRUE /\ file' = file /\ clock' = clock
      BY <1>2 DEF PersistFails
    <2>2. MemoryInv'
      BY <1>2, <2>1 DEF MemoryInv, ResumeExact
    <2>3. QED
      BY <1>2, <2>1, <2>2 DEF KeeperStep, Saved, Up
  <1>3. QED
    BY <1>1, <1>2 DEF PersistFails

\* An operation changes the memory of a process at rest, and is about to save it.
LEMMA SavingStep ==
  ASSUME MemoryInv, pc = "idle", MaybePersist, Sound(mem'),
         \/ \E n \in Ids : NotesOf(mem') = NotesOf(mem) \cup {n}
         \/ NotesOf(mem') = NotesOf(mem)
  PROVE  MemoryInv' /\ KeeperStep
  <1>1. pc' = "saving" /\ file' = file /\ dirty' = dirty /\ clock' = clock
    BY DEF MaybePersist
  <1>2. MemoryInv'
    BY <1>1 DEF MemoryInv, ResumeExact
  <1>3. ASSUME NEW n \in Ids, NotesOf(mem') = NotesOf(mem) \cup {n}
        PROVE  MemoryInv' /\ KeeperStep
    <2>1. Keeper!Take(n)
      BY <1>1, <1>3 DEF Keeper!Take
    <2>2. QED
      BY <1>2, <2>1 DEF KeeperStep, Keeper!Next
  <1>4. CASE NotesOf(mem') = NotesOf(mem)
    BY <1>1, <1>2, <1>4 DEF KeeperStep, Saved, Up
  <1>5. QED
    BY <1>3, <1>4

LEMMA AppendStep ==
  ASSUME MemoryInv, NEW pinned \in BOOLEAN, ScratchpadAppend(pinned)
  PROVE  MemoryInv' /\ KeeperStep
  <1>1. mem = Memory(mem.pad, mem.kv, mem.vec, mem.nextId) /\ mem.nextId \in Ids
    BY SoundSplit, MemoryAssumption DEF MemoryInv, ScratchpadAppend, Parts, Ids, MemoryAssumption
  <1>2. mem' = Memory(Append(mem.pad, Note(mem.nextId, pinned)), mem.kv, mem.vec, mem.nextId + 1)
    BY <1>1 DEF ScratchpadAppend, Memory
  <1>3. Sound(mem') /\ NotesOf(mem') = NotesOf(mem) \cup {mem.nextId}
    BY <1>2, NoteSound DEF MemoryInv, ScratchpadAppend
  <1>4. QED
    BY <1>1, <1>3, SavingStep DEF ScratchpadAppend

LEMMA VectorStep ==
  ASSUME MemoryInv, NEW sources \in SUBSET {e.id : e \in Range(mem.pad)}, VectorStore(sources)
  PROVE  MemoryInv' /\ KeeperStep
  <1>1. mem = Memory(mem.pad, mem.kv, mem.vec, mem.nextId) /\ mem.nextId \in Ids
    BY SoundSplit, MemoryAssumption DEF MemoryInv, VectorStore, Parts, Ids, MemoryAssumption
  <1>2. mem' = Memory(mem.pad, mem.kv, Append(mem.vec, Embedded(mem.nextId, "entry", sources)),
                      mem.nextId + 1)
    BY <1>1 DEF VectorStore, Memory
  <1>3. sources \in SUBSET Ids
    <2>1. Range(mem.pad) \in SUBSET Entries
      BY SoundSplit, RangeOfSeq DEF MemoryInv, Parts
    <2>2. QED
      BY <2>1 DEF Entries
  <1>4. Sound(mem') /\ NotesOf(mem') = NotesOf(mem) \cup {mem.nextId}
    <2>1. Sound(mem) /\ mem.nextId <= MaxId /\ "entry" \in {"entry", "summary"}
      BY DEF MemoryInv, VectorStore
    <2> DEFINE r == Memory(mem.pad, mem.kv, Append(mem.vec, Embedded(mem.nextId, "entry", sources)),
                           mem.nextId + 1)
    <2>2. Sound(r) /\ NotesOf(r) = NotesOf(mem) \cup (IF "entry" = "entry" THEN {mem.nextId} ELSE {})
      BY <1>3, <2>1, EmbeddedSound, Zenon
    <2>3. QED
      BY <1>2, <2>2
  <1>5. QED
    BY <1>1, <1>4, SavingStep DEF VectorStore

LEMMA SummariseStep ==
  ASSUME MemoryInv, NEW n \in TopNs, NEW embeds \in BOOLEAN, Summarise(n, embeds)
  PROVE  MemoryInv' /\ KeeperStep
  <1> DEFINE ids == Oldest(n)
             m == Condensed(ids)
  <1>1. ids \in SUBSET {e.id : e \in {f \in Range(mem.pad) : f.kind = "note"}}
    BY DEF Oldest, Range
  <1>2. /\ Sound(mem) /\ mem.nextId \in 1 .. MaxId + 1 /\ MaxId \in Nat
        /\ mem.nextId <= MaxId /\ mem.nextId + 1 <= MaxId
    BY SoundSplit, MemoryAssumption DEF MemoryInv, Summarise, Parts, MemoryAssumption
  <1> HIDE DEF ids
  <1>3. /\ Sound(m) /\ NotesOf(m) = NotesOf(mem) /\ m.nextId = mem.nextId + 1
        /\ ids \in SUBSET Ids
    BY <1>1, <1>2, CondensedSound
  <1>4. CASE embeds
    <2>1. mem' = [m EXCEPT !.vec = Append(@, Embedded(m.nextId, "summary", ids)),
                           !.nextId = @ + 1]
          /\ MaybePersist /\ pc = "idle"
      BY <1>4 DEF Summarise, ids
    <2> HIDE DEF m
    <2>2. m = Memory(m.pad, m.kv, m.vec, m.nextId)
      BY <1>3, SoundSplit
    <2>3. mem' = Memory(m.pad, m.kv, Append(m.vec, Embedded(m.nextId, "summary", ids)),
                        m.nextId + 1)
      BY <2>1, <2>2 DEF Memory
    <2>4. Sound(mem') /\ NotesOf(mem') = NotesOf(mem)
      BY <1>2, <1>3, <2>3, EmbeddedSound
    <2>5. QED
      BY <2>1, <2>4, SavingStep
  <1>5. CASE ~embeds
    <2>1. mem' = m /\ dirty' = TRUE /\ file' = file /\ pc' = pc /\ clock' = clock /\ pc = "idle"
      BY <1>5 DEF Summarise, ids
    <2> HIDE DEF m
    <2>2. MemoryInv'
      BY <1>3, <2>1 DEF MemoryInv, ResumeExact
    <2>3. QED
      BY <1>3, <2>1, <2>2 DEF KeeperStep, Saved, Up
  <1>6. QED
    BY <1>4, <1>5

LEMMA KvSetStep ==
  ASSUME MemoryInv, NEW k \in Keys, NEW ttl \in TtlDays, KvSet(k, ttl)
  PROVE  MemoryInv' /\ KeeperStep
  <1> DEFINE kept == Cleaned(mem.kv)
             kv == [j \in DOMAIN kept \cup {k} |-> IF j = k THEN clock + ttl ELSE mem.kv[j]]
  <1>1. mem = Memory(mem.pad, mem.kv, mem.vec, mem.nextId) /\ IsKv(mem.kv)
    BY SoundSplit DEF MemoryInv, Parts
  <1>2. DOMAIN kept \in SUBSET Keys /\ \A j \in DOMAIN kept : mem.kv[j] \in Int
    <2>1. DOMAIN kept \in SUBSET Keys /\ \A j \in DOMAIN kept : kept[j] \in Int
      BY <1>1, CleanedIsKv
    <2>2. \A j \in DOMAIN kept : kept[j] = mem.kv[j]
      BY DEF Cleaned, Restrict
    <2>3. QED
      BY <2>1, <2>2
  <1>3. clock + ttl \in Int
    BY MemoryAssumption DEF MemoryInv, MemoryAssumption
  <1>4. mem' = [mem EXCEPT !.kv = kv] /\ MaybePersist /\ pc = "idle"
    BY DEF KvSet
  <1> HIDE DEF kept
  <1>5. IsKv(kv)
    <2>1. kv \in [DOMAIN kept \cup {k} -> Int] /\ DOMAIN kept \cup {k} \in SUBSET Keys
      BY <1>2, <1>3
    <2>2. QED
      BY <2>1 DEF IsKv
  <1> HIDE DEF kv
  <1>6. mem' = Memory(mem.pad, kv, mem.vec, mem.nextId)
    BY <1>1, <1>4 DEF Memory
  <1>7. Sound(mem') /\ NotesOf(mem') = NotesOf(mem)
    BY <1>5, <1>6, KvSound DEF MemoryInv
  <1>8. QED
    BY <1>4, <1>7, SavingStep

LEMMA KvReadStep ==
  ASSUME MemoryInv, KvRead
  PROVE  MemoryInv' /\ KeeperStep
  <1> DEFINE kv == Cleaned(mem.kv)
  <1>1. mem = Memory(mem.pad, mem.kv, mem.vec, mem.nextId) /\ IsKv(mem.kv)
    BY SoundSplit DEF MemoryInv, Parts
  <1>2. IsKv(kv)
    BY <1>1, CleanedIsKv
  <1>3. Cleaned(kv) = kv
    BY DEF Cleaned, Restrict
  <1>4. mem' = [mem EXCEPT !.kv = kv]
        /\ file' = file /\ pc' = pc /\ dirty' = dirty /\ clock' = clock
    BY DEF KvRead
  <1>5. Cleaned(file.kv)' = Cleaned(file.kv) /\ Cleaned(mem.kv)' = Cleaned(mem'.kv)
    BY <1>4 DEF Cleaned
  <1> HIDE DEF kv
  <1>6. mem' = Memory(mem.pad, kv, mem.vec, mem.nextId)
    BY <1>1, <1>4 DEF Memory
  <1>7. Sound(mem') /\ NotesOf(mem') = NotesOf(mem) /\ mem'.kv = kv
    BY <1>2, <1>6, KvSound DEF MemoryInv, Memory
  <1>8. ResumeExact'
    <2>1. [mem' EXCEPT !.kv = {}] = [mem EXCEPT !.kv = {}]
      BY <1>1, <1>6 DEF Memory
    <2>2. QED
      BY <1>3, <1>4, <1>5, <1>7, <2>1 DEF MemoryInv, ResumeExact, kv
  <1>9. MemoryInv'
    BY <1>4, <1>7, <1>8 DEF MemoryInv
  <1>10. QED
    BY <1>4, <1>7, <1>9 DEF KeeperStep, Saved, Up

LEMMA StopStep ==
  ASSUME MemoryInv, Stop
  PROVE  MemoryInv' /\ KeeperStep
  <1>1. mem' = Empty /\ pc' = "down" /\ dirty' = FALSE /\ file' = file /\ clock' = clock
        /\ pc # "down"
    BY DEF Stop
  <1>2. Sound(mem') /\ NotesOf(mem') = {}
    BY <1>1, EmptySound
  <1>3. MemoryInv'
    BY <1>1, <1>2 DEF MemoryInv, ResumeExact
  <1>4. Keeper!Stop
    BY <1>1, <1>2 DEF Keeper!Stop
  <1>5. QED
    BY <1>3, <1>4 DEF KeeperStep, Keeper!Next

\* What has expired today has expired tomorrow.
LEMMA TickStep ==
  ASSUME MemoryInv, Tick
  PROVE  MemoryInv' /\ KeeperStep
  <1>1. /\ clock' = clock + 1 /\ clock' \in 0 .. MaxDays /\ clock \in Int
        /\ mem' = mem /\ file' = file /\ pc' = pc /\ dirty' = dirty
    BY MemoryAssumption DEF Tick, MemoryInv, MemoryAssumption
  <1>2. ASSUME NEW m, Sound(m)
        PROVE  Restrict(m.kv, {k \in DOMAIN m.kv : clock' <= m.kv[k]})
                 = Restrict(Cleaned(m.kv), {k \in DOMAIN Cleaned(m.kv) : clock' <= Cleaned(m.kv)[k]})
    <2>1. PICK ks \in SUBSET Keys : m.kv \in [ks -> Int]
      BY <1>2, SoundSplit DEF Parts, IsKv
    <2> DEFINE kv == m.kv
               now == {k \in DOMAIN kv : clock <= kv[k]}
               next == {k \in DOMAIN kv : clock' <= kv[k]}
    <2>2. next \in SUBSET now
      BY <1>1, <2>1
    <2>3. Cleaned(kv) = [k \in now |-> kv[k]]
      BY DEF Cleaned, Restrict
    <2>4. {k \in DOMAIN Cleaned(kv) : clock' <= Cleaned(kv)[k]} = next
      BY <2>2, <2>3
    <2>5. Restrict(Cleaned(kv), next) = Restrict(kv, next)
      BY <2>2, <2>3 DEF Restrict
    <2>6. QED
      BY <2>4, <2>5
  <1>3. ResumeExact'
    <2>1. CASE pc = "idle" /\ ~dirty
      <3>1. file # NoFile /\ Sound(file) /\ Sound(mem)
        BY <2>1 DEF MemoryInv
      <3>2. Cleaned(file.kv)' = Cleaned(mem.kv)'
        <4>1. Cleaned(file.kv)' = Restrict(file.kv, {k \in DOMAIN file.kv : clock' <= file.kv[k]})
          BY <1>1 DEF Cleaned
        <4>2. Cleaned(mem.kv)' = Restrict(mem.kv, {k \in DOMAIN mem.kv : clock' <= mem.kv[k]})
          BY <1>1 DEF Cleaned
        <4>3. Cleaned(file.kv) = Cleaned(mem.kv)
          BY <2>1 DEF MemoryInv, ResumeExact
        <4>4. QED
          BY <1>2, <3>1, <4>1, <4>2, <4>3
      <3>3. QED
        BY <1>1, <2>1, <3>2 DEF MemoryInv, ResumeExact
    <2>2. CASE ~(pc = "idle" /\ ~dirty)
      BY <1>1, <2>2 DEF ResumeExact
    <2>3. QED
      BY <2>1, <2>2
  <1>4. MemoryInv'
    BY <1>1, <1>3 DEF MemoryInv
  <1>5. QED
    BY <1>1, <1>4 DEF KeeperStep, Saved, Up

LEMMA MemoryNextInv == MemoryInv /\ [MemoryNext]_memoryVars => MemoryInv' /\ KeeperStep
  <1> SUFFICES ASSUME MemoryInv, [MemoryNext]_memoryVars PROVE MemoryInv' /\ KeeperStep
    OBVIOUS
  <1>1. ASSUME NEW resume \in BOOLEAN, Start(resume) PROVE MemoryInv' /\ KeeperStep
    BY <1>1, StartStep
  <1>2. CASE Persist
    BY <1>2, PersistStep
  <1>3. CASE PersistFails
    BY <1>3, PersistFailsStep
  <1>4. ASSUME NEW pinned \in BOOLEAN, ScratchpadAppend(pinned) PROVE MemoryInv' /\ KeeperStep
    BY <1>4, AppendStep
  <1>5. ASSUME NEW n \in TopNs, NEW cached \in CacheAnswers, NEW provided \in ProviderAnswers,
               Summarise(n, Embeds(cached, provided))
        PROVE  MemoryInv' /\ KeeperStep
    <2>1. Embeds(cached, provided) \in BOOLEAN
      BY DEF Embeds
    <2>2. QED
      BY <1>5, <2>1, SummariseStep
  <1>6. ASSUME NEW sources \in SUBSET {e.id : e \in Range(mem.pad)}, VectorStore(sources)
        PROVE  MemoryInv' /\ KeeperStep
    BY <1>6, VectorStep
  <1>7. ASSUME NEW k \in Keys, NEW ttl \in TtlDays, KvSet(k, ttl) PROVE MemoryInv' /\ KeeperStep
    BY <1>7, KvSetStep
  <1>8. CASE KvRead
    BY <1>8, KvReadStep
  <1>9. CASE Stop
    BY <1>9, StopStep
  <1>10. CASE Tick
    BY <1>10, TickStep
  <1>11. CASE UNCHANGED memoryVars
    <2>1. mem' = mem /\ file' = file /\ pc' = pc /\ dirty' = dirty /\ clock' = clock
      BY <1>11 DEF memoryVars
    <2>2. MemoryInv'
      BY <2>1 DEF MemoryInv, ResumeExact, Cleaned
    <2>3. QED
      BY <2>1, <2>2 DEF KeeperStep, Saved, Up
  <1>12. QED
    BY <1>1, <1>2, <1>3, <1>4, <1>5, <1>6, <1>7, <1>8, <1>9, <1>10, <1>11 DEF MemoryNext

LEMMA MemoryInvariant == MemorySpec => []MemoryInv
  <1>1. MemoryInit => MemoryInv
    BY MemoryInitInv
  <1>2. MemoryInv /\ [MemoryNext]_memoryVars => MemoryInv'
    BY MemoryNextInv
  <1>3. QED
    BY <1>1, <1>2, PTL DEF MemorySpec

-----------------------------------------------------------------------------
\* A memory and its checkpoint have the shape of a MemoryStore, and a running
\* process that is not starting has a checkpoint.
THEOREM MemoryTypeCorrect == MemorySpec => []MemoryTypes
  <1>1. MemoryInv => MemoryTypes
    BY DEF MemoryInv, MemoryTypes, Sound
  <1>2. QED
    BY <1>1, MemoryInvariant, PTL

\* An id never names two entries, of the scratchpad or of the vector store, whatever
\* the number of crashes and resumes: the counter is part of the checkpoint.
THEOREM IdsNeverReused == MemorySpec => []IdsUnique
  <1>1. ASSUME NEW m, Sound(m)
        PROVE  /\ IsInjective(AllIds(m))
               /\ \A i \in DOMAIN AllIds(m) : AllIds(m)[i] < m.nextId
    <2> DEFINE p == [i \in DOMAIN m.pad |-> m.pad[i].id]
               v == [i \in DOMAIN m.vec |-> m.vec[i].id]
               all == p \o v
    <2>1. Parts(m.pad, m.kv, m.vec, m.nextId)
      BY <1>1, SoundSplit
    <2>2. /\ DOMAIN m.pad = 1 .. Len(m.pad) /\ Len(m.pad) \in Nat
          /\ DOMAIN m.vec = 1 .. Len(m.vec) /\ Len(m.vec) \in Nat
      BY <2>1 DEF Parts
    <2>3. \A x \in Range(m.pad) \cup Range(m.vec) : x.id \in Int
      <3>1. Range(m.pad) \in SUBSET Entries /\ Range(m.vec) \in SUBSET VecEntries
        BY <2>1, RangeOfSeq DEF Parts
      <3>2. QED
        BY <3>1 DEF Entries, VecEntries, Ids
    <2>4. p \in [1 .. Len(m.pad) -> Int] /\ v \in [1 .. Len(m.vec) -> Int]
      BY <2>2, <2>3 DEF Range
    <2>5. /\ p \in Seq(Int) /\ v \in Seq(Int)
          /\ Len(p) = Len(m.pad) /\ Len(v) = Len(m.vec)
      BY <2>2, <2>4, SeqDef, LenProperties
    <2>6. \A i, j \in 1 .. Len(p) : p[i] = p[j] => i = j
      BY <2>1, <2>2, <2>5 DEF Parts, DistinctIds
    <2>7. \A i, j \in 1 .. Len(v) : v[i] = v[j] => i = j
      BY <2>1, <2>2, <2>5 DEF Parts, DistinctIds
    <2>8. \A i \in 1 .. Len(p), j \in 1 .. Len(v) : p[i] # v[j]
      BY <2>1, <2>2, <2>5 DEF Parts, Range
    <2>9. /\ \A i \in 1 .. Len(p) : p[i] < m.nextId
          /\ \A i \in 1 .. Len(v) : v[i] < m.nextId
      BY <2>1, <2>2, <2>5 DEF Parts, Range
    <2> HIDE DEF p, v
    <2>10. /\ DOMAIN all = 1 .. Len(p) + Len(v) /\ Len(p) \in Nat /\ Len(v) \in Nat
           /\ \A i \in 1 .. Len(p) + Len(v) :
                all[i] = IF i <= Len(p) THEN p[i] ELSE v[i - Len(p)]
      <3>1. Len(p) \in Nat /\ Len(v) \in Nat
        BY <2>2, <2>5
      <3>2. /\ all \in Seq(Int) /\ Len(all) = Len(p) + Len(v)
            /\ \A i \in 1 .. Len(p) + Len(v) :
                 all[i] = IF i <= Len(p) THEN p[i] ELSE v[i - Len(p)]
        BY <2>5, ConcatProperties
      <3> HIDE DEF all
      <3>3. QED
        BY <3>1, <3>2, LenProperties
    <2> HIDE DEF all
    <2>11. ASSUME NEW i \in DOMAIN all
           PROVE  all[i] < m.nextId
      BY <2>9, <2>10
    <2>12. ASSUME NEW i \in DOMAIN all, NEW j \in DOMAIN all, all[i] = all[j]
           PROVE  i = j
      <3>1. CASE i <= Len(p) /\ j <= Len(p)
        BY <2>6, <2>10, <2>12, <3>1
      <3>2. CASE i <= Len(p) /\ j > Len(p)
        <4>1. j - Len(p) \in 1 .. Len(v) /\ i \in 1 .. Len(p)
          BY <2>10, <3>2
        <4>2. all[i] = p[i] /\ all[j] = v[j - Len(p)]
          BY <2>10, <3>2
        <4>3. QED
          BY <2>8, <2>12, <4>1, <4>2
      <3>3. CASE i > Len(p) /\ j <= Len(p)
        <4>1. i - Len(p) \in 1 .. Len(v) /\ j \in 1 .. Len(p)
          BY <2>10, <3>3
        <4>2. all[j] = p[j] /\ all[i] = v[i - Len(p)]
          BY <2>10, <3>3
        <4>3. QED
          BY <2>8, <2>12, <4>1, <4>2
      <3>4. CASE i > Len(p) /\ j > Len(p)
        <4>1. i - Len(p) \in 1 .. Len(v) /\ j - Len(p) \in 1 .. Len(v)
          BY <2>10, <3>4
        <4>2. all[i] = v[i - Len(p)] /\ all[j] = v[j - Len(p)]
          BY <2>10, <3>4
        <4>3. i - Len(p) = j - Len(p)
          BY <2>7, <2>12, <4>1, <4>2
        <4>4. QED
          BY <2>10, <4>3
      <3>5. (i <= Len(p) \/ i > Len(p)) /\ (j <= Len(p) \/ j > Len(p))
        BY <2>10
      <3>6. QED
        BY <3>1, <3>2, <3>3, <3>4, <3>5
    <2>13. AllIds(m) = all
      BY DEF AllIds, all, p, v
    <2>14. QED
      BY <2>11, <2>12, <2>13 DEF IsInjective
  <1>2. MemoryInv => IdsUnique
    BY <1>1 DEF MemoryInv, IdsUnique
  <1>3. QED
    BY <1>2, MemoryInvariant, PTL

\* Between two operations, unless one of them failed half done, a resume finds the exact
\* memory in the checkpoint, up to values that have expired.
THEOREM ResumeIsExact == MemorySpec => []ResumeExact
  <1>1. MemoryInv => ResumeExact
    BY DEF MemoryInv
  <1>2. QED
    BY <1>1, MemoryInvariant, PTL

\* The memory implements the keeper of notes: an operation takes at most one note, no
\* summary loses one, the replacement of the checkpoint saves them all, and only the end
\* of the process loses what it has not saved.
THEOREM NotesKept == MemorySpec => KeepsNotes
  <1>1. MemoryInit => Keeper!Init
    BY MemoryInitInv
  <1>2. MemoryInv /\ [MemoryNext]_memoryVars => [Keeper!Next]_<<NotesOf(mem), Saved, Up>>
    BY MemoryNextInv DEF KeeperStep
  <1>3. QED
    BY <1>1, <1>2, MemoryInvariant, PTL DEF MemorySpec, KeepsNotes, Keeper!Spec, Saved, Up
=============================================================================
