-------------------------- MODULE IterativeProofs ---------------------------
(***************************************************************************)
(* Theorems about IterativeAgent: what the conversation keeps however it   *)
(* is cut, and how far the loop can run past its time limit.  The two      *)
(* invariants are independent: the conversation is followed whatever the   *)
(* clocks show, and the clocks whatever is done to the conversation.       *)
(***************************************************************************)
EXTENDS IterativeAgent, DataLemmas

-----------------------------------------------------------------------------
(* What At gathers.                                                        *)

\* The messages are gathered one position at a time.
Gathers(p, msgs, K) ==
  /\ p \in [0 .. Len(msgs) -> Seq(MessageTypes)]
  /\ p[0] = <<>>
  /\ \A i \in 1 .. Len(msgs) : p[i] = IF i \in K THEN Append(p[i - 1], msgs[i]) ELSE p[i - 1]
  /\ At(msgs, K) = p[Len(msgs)]

\* At gathers along the positions.
LEMMA AtPath ==
  ASSUME NEW msgs \in Seq(MessageTypes), NEW K
  PROVE  \E p : Gathers(p, msgs, K)
  <1> DEFINE n == Len(msgs)
             A == Seq(MessageTypes)
             D == [i \in DOMAIN msgs |-> i]
             Step(a, i) == IF i \in K THEN Append(a, msgs[i]) ELSE a
             G == [y \in (1 .. n) \X A |-> Step(y[2], D[y[1]])]
             Body(h) == [s \in SUBSET (1 .. n) |->
                           IF s = {} THEN <<>> ELSE Step(h[s \ {Max(s)}], D[Max(s)])]
             it == CHOOSE h : h = Body(h)
  <1>1. n \in Nat /\ DOMAIN msgs = 1 .. n /\ <<>> \in A
    OBVIOUS
  <1>2. ASSUME NEW i \in 1 .. n
        PROVE  D[i] = i /\ msgs[i] \in MessageTypes
    BY <1>1, ElementOfSeq
  <1>3. ASSUME NEW i \in 1 .. n, NEW a \in A
        PROVE  Step(a, D[i]) \in A
    BY <1>2, AppendProperties
  <1>4. G \in [(1 .. n) \X A -> A]
    <2> HIDE DEF A, D
    <2>1. QED
      BY <1>3
  <1> HIDE DEF A
  <1>5. PICK h : FoldsTo(h, n, A, <<>>, G)
    BY <1>1, <1>4, FoldExists
  <1>6. h = Body(h)
    <2>1. ASSUME NEW s \in SUBSET (1 .. n), s # {}
          PROVE  h[s] = Step(h[s \ {Max(s)}], D[Max(s)])
      <3>1. Max(s) \in 1 .. n
        BY <1>1, <2>1, MaxOf
      <3>2. h[s \ {Max(s)}] \in A /\ h[s] = G[<<Max(s), h[s \ {Max(s)}]>>]
        BY <1>5, <2>1 DEF FoldsTo
      <3> HIDE DEF Step, D
      <3>3. QED
        BY <3>1, <3>2
    <2>2. h \in [SUBSET (1 .. n) -> A] /\ h[{}] = <<>>
      BY <1>5 DEF FoldsTo
    <2> HIDE DEF Step, D
    <2>3. QED
      BY <2>1, <2>2
  <1>7. it = Body(it)
    BY <1>6
  <1>8. At(msgs, K) = it[1 .. n]
    <2>1. DOMAIN D = 1 .. n
      BY <1>1
    <2>2. At(msgs, K) = it[DOMAIN D]
      BY <2>1 DEF At, FoldLeftDomain, FoldLeft, MapThenFoldSet
    <2>3. QED
      BY <2>1, <2>2
  <1> HIDE DEF it, Step
  <1> DEFINE p == [i \in 0 .. n |-> it[1 .. i]]
  <1>9. p[0] = <<>>
    BY <1>1, <1>7
  <1>10. ASSUME NEW i \in 1 .. n
         PROVE  p[i] = Step(p[i - 1], i)
    <2>1. 1 .. i \in SUBSET (1 .. n) /\ i \in Nat \ {0} /\ i \in 0 .. n /\ i - 1 \in 0 .. n
      OBVIOUS
    <2>2. Max(1 .. i) = i /\ (1 .. i) \ {i} = 1 .. (i - 1) /\ 1 .. i # {} /\ D[i] = i
      BY <1>2, <2>1, MaxOfPrefix
    <2>3. it[1 .. i] = Step(it[(1 .. i) \ {Max(1 .. i)}], D[Max(1 .. i)])
      <3> HIDE DEF D
      <3>1. Body(it)[1 .. i] = Step(it[(1 .. i) \ {Max(1 .. i)}], D[Max(1 .. i)])
        BY <2>1, <2>2
      <3>2. QED
        BY <1>7, <3>1, Zenon
    <2>4. p[i] = it[1 .. i] /\ p[i - 1] = it[1 .. (i - 1)]
      BY <2>1
    <2>5. it[1 .. i] = Step(it[1 .. (i - 1)], i)
      BY <2>2, <2>3, Zenon
    <2>6. QED
      BY <2>4, <2>5, Zenon
  <1>11. p = [i \in 0 .. n |-> p[i]] /\ n \in 0 .. n /\ At(msgs, K) = p[n]
    BY <1>1, <1>8
  <1> HIDE DEF p
  <1>12. p \in [0 .. n -> A]
    <2>1. ASSUME NEW i \in 1 .. n, p[i - 1] \in A
          PROVE  p[i] \in A
      <3>1. Step(p[i - 1], D[i]) \in A
        BY <1>3, <2>1, Zenon
      <3>2. D[i] = i /\ p[i] = Step(p[i - 1], i)
        BY <1>2, <1>10, Zenon
      <3>3. QED
        BY <3>1, <3>2, Zenon
    <2>2. QED
      BY <1>1, <1>9, <1>11, <2>1, PrefixesIn, SMTT(30)
  <1>13. \A i \in 1 .. n : p[i] = IF i \in K THEN Append(p[i - 1], msgs[i]) ELSE p[i - 1]
    BY <1>10 DEF Step
  <1>14. Gathers(p, msgs, K)
    BY <1>9, <1>11, <1>12, <1>13, Zenon DEF A, Gathers
  <1>15. QED
    BY <1>14

\* pos says which message each of q is, in their order.
InOrder(pos, q, msgs, K) ==
  /\ pos \in [1 .. Len(q) -> K]
  /\ \A i \in 1 .. Len(q) : q[i] = msgs[pos[i]]
  /\ \A k \in K : \E i \in 1 .. Len(q) : pos[i] = k
  /\ \A i, j \in 1 .. Len(q) : i < j => pos[i] < pos[j]

\* q is the messages of msgs at the positions in K, in their order.
Picks(q, msgs, K) == q \in Seq(MessageTypes) /\ \E pos : InOrder(pos, q, msgs, K)

\* What At gathers is a selection in order.
LEMMA AtPicks ==
  ASSUME NEW msgs \in Seq(MessageTypes), NEW K \in SUBSET (1 .. Len(msgs))
  PROVE  Picks(At(msgs, K), msgs, K)
  <1> DEFINE n == Len(msgs)
  <1>1. n \in Nat /\ K \in SUBSET (1 .. n)
    BY LenProperties
  <1>2. PICK p : Gathers(p, msgs, K)
    BY AtPath
  <1>3. /\ p \in [0 .. n -> Seq(MessageTypes)] /\ p[0] = <<>>
        /\ \A i \in 1 .. n : p[i] = IF i \in K THEN Append(p[i - 1], msgs[i]) ELSE p[i - 1]
        /\ At(msgs, K) = p[n]
    BY <1>2 DEF Gathers
  <1> DEFINE U == {i \in 0 .. n : Picks(p[i], msgs, {k \in K : k <= i})}
  <1>4. 0 \in U
    <2> DEFINE pos == [i \in 1 .. 0 |-> i]
    <2>1. {k \in K : k <= 0} = {} /\ Len(<<>>) = 0 /\ 1 .. 0 = {} /\ <<>> \in Seq(MessageTypes)
      <3>1. \A k \in K : ~(k <= 0)
        BY <1>1
      <3>2. <<>> \in Seq(MessageTypes) /\ Len(<<>>) = 0 /\ 1 .. 0 = {}
        BY EmptySeq
      <3>3. QED
        BY <3>1, <3>2
    <2>2. pos \in [1 .. 0 -> {}]
      BY <2>1
    <2> HIDE DEF pos
    <2>3. InOrder(pos, <<>>, msgs, {})
      BY <2>1, <2>2 DEF InOrder
    <2>4. Picks(<<>>, msgs, {})
      BY <2>1, <2>3 DEF Picks
    <2>5. Picks(p[0], msgs, {k \in K : k <= 0}) /\ 0 \in 0 .. n
      <3>1. Picks(p[0], msgs, {k \in K : k <= 0})
        BY <1>3, <2>1, <2>4, Zenon
      <3>2. QED
        BY <1>1, <3>1
    <2>6. QED
      BY <2>5
  <1>5. ASSUME NEW i \in 1 .. n, i - 1 \in U
        PROVE  i \in U
    <2> DEFINE a == p[i - 1]
               L == {k \in K : k <= i - 1}
    <2>1. i \in 0 .. n /\ i - 1 \in 0 .. n /\ msgs[i] \in MessageTypes
      BY <1>1, ElementOfSeq
    <2>2. a \in Seq(MessageTypes) /\ p[i] = IF i \in K THEN Append(a, msgs[i]) ELSE a
      BY <1>3, <2>1
    <2> HIDE DEF n
    <2>3. PICK pos : InOrder(pos, a, msgs, L)
      BY <1>5 DEF Picks
    <2> HIDE DEF a
    <2>4. /\ pos \in [1 .. Len(a) -> L] /\ Len(a) \in Nat
          /\ \A j \in 1 .. Len(a) : a[j] = msgs[pos[j]]
          /\ \A k \in L : \E j \in 1 .. Len(a) : pos[j] = k
          /\ \A j, m \in 1 .. Len(a) : j < m => pos[j] < pos[m]
      BY <2>2, <2>3, LenProperties DEF InOrder
    <2>5. CASE i \in K
      <3> DEFINE b == Append(a, msgs[i])
                 new == [j \in 1 .. Len(a) + 1 |-> IF j = Len(a) + 1 THEN i ELSE pos[j]]
      <3>1. /\ b \in Seq(MessageTypes) /\ Len(b) = Len(a) + 1 /\ b[Len(a) + 1] = msgs[i]
            /\ \A j \in 1 .. Len(a) : b[j] = a[j]
        BY <2>1, <2>2, AppendProperties
      <3>2. {k \in K : k <= i} = L \cup {i}
        <4>1. \A k \in K : k <= i <=> k <= i - 1 \/ k = i
          OBVIOUS
        <4>2. QED
          BY <2>5, <4>1
      <3>3. ASSUME NEW j \in 1 .. Len(a) + 1
            PROVE  j \in 1 .. Len(a) \/ j = Len(a) + 1
        BY <2>4
      <3>4. /\ \A j \in 1 .. Len(a) : new[j] = pos[j] /\ pos[j] \in L
            /\ new[Len(a) + 1] = i /\ new = [j \in 1 .. Len(a) + 1 |-> new[j]]
        BY <2>4
      <3> HIDE DEF new, b
      <3>5. new \in [1 .. Len(a) + 1 -> L \cup {i}]
        BY <3>3, <3>4
      <3>6. \A j \in 1 .. Len(a) + 1 : b[j] = msgs[new[j]]
        BY <2>4, <3>1, <3>3, <3>4
      <3>7. \A k \in L \cup {i} : \E j \in 1 .. Len(a) + 1 : new[j] = k
        <4>1. \A j \in 1 .. Len(a) : j \in 1 .. Len(a) + 1
          BY <2>4
        <4>2. Len(a) + 1 \in 1 .. Len(a) + 1
          BY <2>4
        <4>3. QED
          BY <2>4, <3>4, <4>1, <4>2
      <3>8. ASSUME NEW j \in 1 .. Len(a) + 1, NEW m \in 1 .. Len(a) + 1, j < m
            PROVE  new[j] < new[m]
        <4>1. j \in 1 .. Len(a)
          BY <2>4, <3>8
        <4>2. pos[j] <= i - 1 /\ pos[j] \in Int
          <5>1. pos[j] \in L
            BY <3>4, <4>1
          <5>2. \A k \in L : k <= i - 1 /\ k \in Int
            BY <1>1
          <5> HIDE DEF L
          <5>3. QED
            BY <5>1, <5>2
        <4>3. CASE m = Len(a) + 1
          <5>1. new[j] = pos[j] /\ new[m] = i /\ i \in Int
            BY <1>1, <3>4, <4>1, <4>3, SMTT(30)
          <5>2. QED
            BY <4>2, <5>1
        <4>4. CASE m \in 1 .. Len(a)
          BY <2>4, <3>4, <3>8, <4>1, <4>4
        <4>5. QED
          BY <3>3, <4>3, <4>4
      <3>9. InOrder(new, b, msgs, L \cup {i})
        BY <3>1, <3>5, <3>6, <3>7, <3>8 DEF InOrder
      <3>10. Picks(b, msgs, {k \in K : k <= i})
        BY <3>1, <3>2, <3>9 DEF Picks
      <3>11. QED
        BY <2>1, <2>2, <2>5, <3>10 DEF b
    <2>6. CASE i \notin K
      <3>1. {k \in K : k <= i} = L
        <4>1. \A k \in K : k <= i <=> k <= i - 1
          BY <2>6
        <4>2. QED
          BY <4>1
      <3>2. p[i] = a /\ Picks(a, msgs, L)
        BY <1>5, <2>2, <2>6 DEF a
      <3>3. QED
        BY <2>1, <3>1, <3>2
    <2>7. QED
      BY <2>5, <2>6
  <1>6. U \in SUBSET (0 .. n)
    OBVIOUS
  <1> HIDE DEF U
  <1>7. n \in U
    <2>1. U = 0 .. n
      BY <1>1, <1>4, <1>5, <1>6, IndexInduction
    <2>2. QED
      BY <1>1, <2>1
  <1>8. Picks(p[n], msgs, {k \in K : k <= n})
    BY <1>7 DEF U
  <1>9. {k \in K : k <= n} = K
    <2>1. \A k \in K : k <= n
      BY <1>1
    <2>2. QED
      BY <2>1
  <1>10. QED
    BY <1>3, <1>8, <1>9

-----------------------------------------------------------------------------
(* Selections of messages, in any order.                                   *)

\* pos says which message each of q is; each message at a position in K is there once.
Drawing(pos, q, msgs, K) ==
  /\ pos \in [1 .. Len(q) -> K]
  /\ \A i \in 1 .. Len(q) : q[i] = msgs[pos[i]]
  /\ \A k \in K : \E i \in 1 .. Len(q) : pos[i] = k
  /\ \A i, j \in 1 .. Len(q) : i # j => pos[i] # pos[j]

Draws(q, msgs, K) == q \in Seq(MessageTypes) /\ \E pos : Drawing(pos, q, msgs, K)

\* A selection in order is a selection.
LEMMA PicksDraws ==
  ASSUME NEW msgs \in Seq(MessageTypes), NEW K \in SUBSET (1 .. Len(msgs)), NEW q,
         Picks(q, msgs, K)
  PROVE  Draws(q, msgs, K)
  <1>1. q \in Seq(MessageTypes) /\ Len(q) \in Nat
    BY LenProperties DEF Picks
  <1>2. PICK pos : InOrder(pos, q, msgs, K)
    BY DEF Picks
  <1>3. \A i, j \in 1 .. Len(q) : i # j => pos[i] # pos[j]
    <2>1. ASSUME NEW i \in 1 .. Len(q), NEW j \in 1 .. Len(q), i # j
          PROVE  pos[i] # pos[j]
      <3>1. pos[i] \in Int /\ pos[j] \in Int
        <4>1. pos[i] \in K /\ pos[j] \in K
          BY <1>2 DEF InOrder
        <4>2. K \in SUBSET Int
          OBVIOUS
        <4>3. QED
          BY <4>1, <4>2
      <3>2. (i < j => pos[i] < pos[j]) /\ (j < i => pos[j] < pos[i])
        BY <1>2 DEF InOrder
      <3>3. i < j \/ j < i
        BY <1>1, <2>1
      <3>4. QED
        BY <3>1, <3>2, <3>3
    <2>2. QED
      BY <2>1
  <1>4. Drawing(pos, q, msgs, K)
    BY <1>2, <1>3 DEF InOrder, Drawing
  <1>5. QED
    BY <1>1, <1>4 DEF Draws

\* Two selections that share no position, one after the other.
LEMMA DrawsConcat ==
  ASSUME NEW msgs, NEW K, NEW L, K \cap L = {}, NEW q, NEW r, Draws(q, msgs, K), Draws(r, msgs, L)
  PROVE  Draws(q \o r, msgs, K \cup L)
  <1> DEFINE m == Len(q)
             n == Len(r)
             s == q \o r
  <1>1. q \in Seq(MessageTypes) /\ r \in Seq(MessageTypes)
    BY DEF Draws
  <1>2. PICK a : Drawing(a, q, msgs, K)
    BY DEF Draws
  <1>3. PICK b : Drawing(b, r, msgs, L)
    BY DEF Draws
  <1>4. /\ s \in Seq(MessageTypes) /\ Len(s) = m + n /\ m \in Nat /\ n \in Nat
        /\ \A i \in 1 .. m : s[i] = q[i]
        /\ \A j \in 1 .. n : s[m + j] = r[j]
    BY <1>1, ConcatProperties, LenProperties
  <1>5. /\ a \in [1 .. m -> K] /\ b \in [1 .. n -> L]
        /\ \A i \in 1 .. m : q[i] = msgs[a[i]]
        /\ \A j \in 1 .. n : r[j] = msgs[b[j]]
        /\ \A k \in K : \E i \in 1 .. m : a[i] = k
        /\ \A k \in L : \E j \in 1 .. n : b[j] = k
        /\ \A i, j \in 1 .. m : i # j => a[i] # a[j]
        /\ \A i, j \in 1 .. n : i # j => b[i] # b[j]
    BY <1>2, <1>3 DEF Drawing
  <1> DEFINE pos == [i \in 1 .. m + n |-> IF i <= m THEN a[i] ELSE b[i - m]]
  <1> HIDE DEF s, m, n
  <1>6. ASSUME NEW i \in 1 .. m + n
        PROVE  \/ i \in 1 .. m /\ pos[i] = a[i] /\ s[i] = q[i]
               \/ i - m \in 1 .. n /\ ~(i <= m) /\ pos[i] = b[i - m] /\ s[i] = r[i - m]
    <2>1. CASE i <= m
      BY <1>4, <2>1
    <2>2. CASE ~(i <= m)
      <3>1. i - m \in 1 .. n /\ m + (i - m) = i
        BY <1>4, <2>2
      <3>2. s[m + (i - m)] = r[i - m]
        BY <1>4, <3>1
      <3>3. QED
        BY <2>2, <3>1, <3>2
    <2>3. QED
      BY <2>1, <2>2
  <1>7. /\ \A i \in 1 .. m : i \in 1 .. m + n /\ pos[i] = a[i]
        /\ \A j \in 1 .. n : m + j \in 1 .. m + n /\ pos[m + j] = b[j]
    BY <1>4
  <1>8. pos = [i \in 1 .. m + n |-> pos[i]]
    OBVIOUS
  <1> HIDE DEF pos
  <1>9. pos \in [1 .. m + n -> K \cup L]
    <2>1. \A i \in 1 .. m + n : pos[i] \in K \cup L
      BY <1>5, <1>6
    <2>2. QED
      BY <1>8, <2>1
  <1>10. \A i \in 1 .. m + n : s[i] = msgs[pos[i]]
    BY <1>5, <1>6
  <1>11. \A k \in K \cup L : \E i \in 1 .. m + n : pos[i] = k
    BY <1>5, <1>7
  <1>12. ASSUME NEW i \in 1 .. m + n, NEW j \in 1 .. m + n, i # j
         PROVE  pos[i] # pos[j]
    <2>1. CASE i \in 1 .. m /\ pos[i] = a[i] /\ j \in 1 .. m /\ pos[j] = a[j]
      BY <1>5, <1>12, <2>1
    <2>2. CASE i - m \in 1 .. n /\ pos[i] = b[i - m] /\ j - m \in 1 .. n /\ pos[j] = b[j - m]
      <3>1. i - m # j - m
        BY <1>4, <1>12
      <3>2. QED
        BY <1>5, <2>2, <3>1
    <2>3. CASE i \in 1 .. m /\ pos[i] = a[i] /\ j - m \in 1 .. n /\ pos[j] = b[j - m]
      BY <1>5, <2>3
    <2>4. CASE i - m \in 1 .. n /\ pos[i] = b[i - m] /\ j \in 1 .. m /\ pos[j] = a[j]
      BY <1>5, <2>4
    <2>5. QED
      BY <1>6, <2>1, <2>2, <2>3, <2>4
  <1>13. Drawing(pos, s, msgs, K \cup L)
    BY <1>4, <1>9, <1>10, <1>11, <1>12 DEF Drawing
  <1>14. QED
    BY <1>4, <1>13 DEF Draws, s

\* A selection has as many messages as it has positions.
LEMMA DrawsLength ==
  ASSUME NEW msgs \in Seq(MessageTypes), NEW K \in SUBSET (1 .. Len(msgs)), NEW q,
         Draws(q, msgs, K)
  PROVE  Len(q) = Cardinality(K) /\ Len(q) <= Len(msgs)
  <1> DEFINE n == Len(q)
  <1>1. n \in Nat /\ Len(msgs) \in Nat
    BY LenProperties DEF Draws
  <1>2. PICK pos : Drawing(pos, q, msgs, K)
    BY DEF Draws
  <1>3. pos \in Bijection(1 .. n, K)
    BY <1>2 DEF Drawing, Bijection, Injection, Surjection, IsInjective
  <1>4. ExistsBijection(1 .. n, K)
    BY <1>3 DEF ExistsBijection
  <1> HIDE DEF n
  <1>5. IsFiniteSet(K) /\ Cardinality(K) <= Len(msgs)
    <2>1. IsFiniteSet(1 .. Len(msgs)) /\ Cardinality(1 .. Len(msgs)) = Len(msgs)
      <3>1. 1 \in Int /\ Len(msgs) \in Int /\ Len(msgs) >= 0
        BY <1>1
      <3>2. Cardinality(1 .. Len(msgs)) = IF 1 > Len(msgs) THEN 0 ELSE Len(msgs) - 1 + 1
        BY <3>1, FS_Interval, Zenon
      <3>3. IsFiniteSet(1 .. Len(msgs))
        BY <3>1, FS_Interval, Zenon
      <3>4. QED
        BY <3>1, <3>2, <3>3
    <2>2. QED
      BY <2>1, FS_Subset, ZenonT(60)
  <1>6. Cardinality(K) = n
    BY <1>1, <1>4, <1>5, FS_CountingElements
  <1>7. QED
    BY <1>5, <1>6 DEF n

\* What each message of a conversation has, each selection has.
LEMMA DrawsEach ==
  ASSUME NEW msgs \in Seq(MessageTypes), NEW K \in SUBSET (1 .. Len(msgs)), NEW q,
         Draws(q, msgs, K)
  PROVE  /\ q \in Seq(MessageTypes)
         /\ \A i \in 1 .. Len(q) : \E k \in K : q[i] = msgs[k]
         /\ AnsweredOnce(msgs) => AnsweredOnce(q)
         /\ CalledOnce(msgs) => CalledOnce(q)
  <1>1. PICK pos : Drawing(pos, q, msgs, K)
    BY DEF Draws
  <1>2. /\ \A i \in 1 .. Len(q) : q[i] = msgs[pos[i]] /\ pos[i] \in K
        /\ \A i, j \in 1 .. Len(q) : i # j => pos[i] # pos[j]
    BY <1>1 DEF Drawing
  <1>3. \A i \in 1 .. Len(q) : pos[i] \in 1 .. Len(msgs)
    BY <1>2
  <1>4. AnsweredOnce(msgs) => AnsweredOnce(q)
    <2>1. ASSUME AnsweredOnce(msgs), NEW i \in Positions(q, "tool"), NEW k \in Positions(q, "tool"),
                 q[i].answers = q[k].answers
          PROVE  i = k
      <3>1. i \in 1 .. Len(q) /\ k \in 1 .. Len(q) /\ q[i] = msgs[pos[i]] /\ q[k] = msgs[pos[k]]
        BY <1>2 DEF Positions
      <3>2. pos[i] \in Positions(msgs, "tool") /\ pos[k] \in Positions(msgs, "tool")
        BY <1>3, <3>1 DEF Positions
      <3>3. pos[i] = pos[k]
        BY <2>1, <3>1, <3>2 DEF AnsweredOnce
      <3>4. QED
        BY <1>2, <3>1, <3>3
    <2>2. QED
      BY <2>1 DEF AnsweredOnce
  <1>5. CalledOnce(msgs) => CalledOnce(q)
    <2>1. ASSUME CalledOnce(msgs), NEW i \in 1 .. Len(q), NEW k \in 1 .. Len(q), i # k
          PROVE  CallIds(q[i]) \cap CallIds(q[k]) = {}
      <3>1. CallIds(msgs[pos[i]]) \cap CallIds(msgs[pos[k]]) = {}
        BY <1>2, <1>3, <2>1, ZenonT(60) DEF CalledOnce
      <3>2. q[i] = msgs[pos[i]] /\ q[k] = msgs[pos[k]]
        BY <1>2
      <3>3. QED
        BY <3>1, <3>2
    <2>2. QED
      BY <2>1 DEF CalledOnce
  <1>6. QED
    BY <1>2, <1>4, <1>5 DEF Draws

-----------------------------------------------------------------------------
(* The last positions, and the first.                                      *)

\* The last m positions: m at most, with all positions that come after one of them.
LEMMA LastOfProperties ==
  ASSUME NEW n \in Nat, NEW P \in SUBSET (1 .. n), NEW m \in Nat
  PROVE  /\ LastOf(P, m) \in SUBSET P
         /\ \A i \in LastOf(P, m) : \A j \in P : i < j => j \in LastOf(P, m)
         /\ Cardinality(LastOf(P, m)) <= m
         /\ m = 1 => \A i, j \in LastOf(P, m) : i = j
  <1> DEFINE After(i) == {j \in P : j > i}
             L == LastOf(P, m)
  <1>1. ASSUME NEW i \in P
        PROVE  /\ After(i) \in SUBSET (1 .. n) /\ IsFiniteSet(After(i))
               /\ Cardinality(After(i)) \in Nat
    BY FinitePositions
  <1>2. L \in SUBSET P /\ \A i \in P : i \in L <=> Cardinality(After(i)) < m
    BY DEF LastOf
  <1>0. L \in SUBSET P /\ \A i \in P : i \in Int
    BY <1>2
  <1>3. ASSUME NEW i \in L, NEW j \in P, i < j
        PROVE  j \in L
    <2>1. i \in P /\ i \in Int /\ j \in Int
      <3> HIDE DEF L, After
      <3>1. QED
        BY <1>0
    <2>2. After(j) \in SUBSET After(i)
      <3>1. \A k \in P : k > j => k > i
        <4> HIDE DEF L, After
        <4>1. QED
          BY <1>0, <1>3, <2>1
      <3>2. QED
        BY <3>1
    <2>3. Cardinality(After(j)) <= Cardinality(After(i))
      BY <1>1, <2>1, <2>2, FS_Subset
    <2> HIDE DEF After
    <2>4. QED
      BY <1>1, <1>2, <2>1, <2>3
  <1> HIDE DEF L
  <1>4. Cardinality(L) <= m
    <2>1. CASE L = {}
      BY <2>1, FS_EmptySet
    <2>2. CASE L # {}
      <3>1. L \in SUBSET Nat
        BY <1>2
      <3>2. PICK i \in L : \A j \in L : i <= j
        BY <2>2, <3>1, LeastNatural
      <3>3. L \in SUBSET (After(i) \cup {i})
        BY <1>2, <3>1, <3>2
      <3>4. Cardinality(After(i) \cup {i}) <= Cardinality(After(i)) + 1
            /\ IsFiniteSet(After(i) \cup {i}) /\ Cardinality(After(i) \cup {i}) \in Nat
        <4>1. i \in P
          BY <1>2
        <4>2. IsFiniteSet(After(i)) /\ Cardinality(After(i)) \in Nat
          BY <1>1, <4>1
        <4> HIDE DEF After
        <4>3. /\ IsFiniteSet(After(i) \cup {i})
              /\ Cardinality(After(i) \cup {i})
                   = IF i \in After(i) THEN Cardinality(After(i)) ELSE Cardinality(After(i)) + 1
          BY <4>2, FS_AddElement
        <4>4. QED
          BY <4>2, <4>3
      <3>5. Cardinality(L) <= Cardinality(After(i) \cup {i}) /\ Cardinality(L) \in Nat
        BY <3>3, <3>4, FS_Subset, FS_CardinalityType
      <3>6. Cardinality(After(i)) < m /\ Cardinality(After(i)) \in Nat
        BY <1>1, <1>2
      <3> HIDE DEF After
      <3>7. QED
        BY <3>4, <3>5, <3>6
    <2>3. QED
      BY <2>1, <2>2
  <1>5. ASSUME m = 1, NEW i \in L, NEW j \in L
        PROVE  ~(i < j)
    <2>1. SUFFICES ASSUME i < j PROVE FALSE
      OBVIOUS
    <2>2. i \in P /\ j \in After(i)
      BY <1>2, <2>1
    <2>3. Cardinality(After(i)) = 0
      <3>1. Cardinality(After(i)) < 1 /\ Cardinality(After(i)) \in Nat
        BY <1>1, <1>2, <1>5
      <3> HIDE DEF After
      <3>2. QED
        BY <3>1
    <2>4. After(i) = {}
      <3>1. IsFiniteSet(After(i))
        BY <1>1, <2>2
      <3> HIDE DEF After
      <3>2. QED
        BY <2>3, <3>1, FS_EmptySet
    <2>5. QED
      BY <2>2, <2>4
  <1>6. m = 1 => \A i, j \in L : i = j
    <2>1. ASSUME m = 1, NEW i \in L, NEW j \in L
          PROVE  i = j
      <3>1. i \in Int /\ j \in Int
        BY <1>2
      <3>2. ~(i < j) /\ ~(j < i)
        BY <1>5, <2>1
      <3>3. QED
        BY <3>1, <3>2
    <2>2. QED
      BY <2>1
  <1>7. QED
    BY <1>2, <1>3, <1>4, <1>6 DEF L

\* The last of a single position.
LEMMA LastOfOne ==
  ASSUME NEW i \in Int
  PROVE  LastOf({i}, 1) = {i}
  <1>1. {j \in {i} : j > i} = {}
    OBVIOUS
  <1>2. Cardinality({j \in {i} : j > i}) = 0
    BY <1>1, FS_EmptySet
  <1>3. QED
    BY <1>2 DEF LastOf

\* Among some positions, one is the first.
LEMMA FirstProperties ==
  ASSUME NEW P \in SUBSET Nat
  PROVE  \/ P = {} /\ First(P) = {}
         \/ \E i \in P : First(P) = {i} /\ \A j \in P : i <= j
  <1>1. CASE P = {}
    BY <1>1 DEF First
  <1>2. CASE P # {}
    <2>1. PICK i \in P : \A j \in P : i <= j
      BY <1>2, LeastNatural
    <2>2. \A k \in P : (\A j \in P : k <= j) <=> k = i
      BY <2>1
    <2>3. First(P) = {i}
      BY <2>2 DEF First
    <2>4. QED
      BY <2>1, <2>3
  <1>3. QED
    BY <1>1, <1>2

\* A handoff among some calls, or 0 when there is none.
LEMMA SelectInSeqProperties ==
  ASSUME NEW calls \in Seq(CallTypes)
  PROVE  LET first == SelectInSeq(calls, LAMBDA call : call.handoff)
         IN  \/ first = 0 /\ Handoffs(calls) = {}
             \/ first \in Handoffs(calls)
  <1> DEFINE I == {i \in 1 .. Len(calls) : calls[i].handoff}
  <1>1. SelectInSeq(calls, LAMBDA call : call.handoff) = IF I # {} THEN Min(I) ELSE 0
    BY DEF SelectInSeq
  <1>2. I = Handoffs(calls) /\ I \in SUBSET Nat
    BY DEF Handoffs
  <1> HIDE DEF I
  <1>3. I # {} => Min(I) \in I
    <2>1. ASSUME I # {}
          PROVE  \E x \in I : \A y \in I : x =< y
      BY <1>2, <2>1, LeastNatural
    <2>2. QED
      BY <2>1 DEF Min
  <1>4. QED
    BY <1>1, <1>2, <1>3

-----------------------------------------------------------------------------
(* Selections that keep the results after their calls.                     *)

Closed(msgs, K) ==
  \A i \in K :
    msgs[i].role = "tool" =>
      \E j \in K :
        /\ j < i /\ msgs[j].role = "assistant" /\ msgs[i].answers \in CallIds(msgs[j])
        /\ \A k \in K : j < k /\ k < i => msgs[k].role = "tool"

\* Results still follow their calls in a selection that is closed in this sense.
LEMMA PicksFollow ==
  ASSUME NEW msgs \in Seq(MessageTypes), NEW K \in SUBSET (1 .. Len(msgs)), NEW q,
         Picks(q, msgs, K), Closed(msgs, K)
  PROVE  ResultsFollow(q)
  <1>0. q \in Seq(MessageTypes) /\ Len(q) \in Nat
    BY LenProperties DEF Picks
  <1>1. PICK pos : InOrder(pos, q, msgs, K)
    BY DEF Picks
  <1>2. /\ \A i \in 1 .. Len(q) : q[i] = msgs[pos[i]] /\ pos[i] \in K
        /\ \A k \in K : \E i \in 1 .. Len(q) : pos[i] = k
        /\ \A i, j \in 1 .. Len(q) : i < j => pos[i] < pos[j]
    BY <1>1 DEF InOrder
  <1>3. \A k \in K : k \in Int
    OBVIOUS
  <1>4. ASSUME NEW i \in Positions(q, "tool")
        PROVE  \E a \in Positions(q, "assistant") :
                 /\ a < i /\ q[i].answers \in CallIds(q[a])
                 /\ \A k \in 1 .. Len(q) : a < k /\ k < i => q[k].role = "tool"
    <2>1. i \in 1 .. Len(q) /\ msgs[pos[i]].role = "tool" /\ pos[i] \in K /\ i \in Int
      BY <1>2 DEF Positions
    <2>2. PICK j \in K :
            /\ j < pos[i] /\ msgs[j].role = "assistant"
            /\ msgs[pos[i]].answers \in CallIds(msgs[j])
            /\ \A k \in K : j < k /\ k < pos[i] => msgs[k].role = "tool"
      BY <2>1 DEF Closed
    <2>3. PICK a \in 1 .. Len(q) : pos[a] = j
      BY <1>2
    <2>4. a < i
      <3>1. pos[a] \in Int /\ pos[i] \in Int /\ pos[a] < pos[i] /\ a \in Int
        <4>1. Len(q) \in Nat
          BY <1>0
        <4>2. a \in Int /\ pos[i] \in Int /\ j \in Int
          <5>1. a \in Int
            BY <2>3, <4>1
          <5>2. pos[i] \in Int
            BY <1>3, <2>1
          <5>3. j \in Int
            BY <1>3, <2>2
          <5>4. QED
            BY <5>1, <5>2, <5>3
        <4>3. QED
          BY <2>2, <2>3, <4>2
      <3>2. i < a => pos[i] < pos[a]
        BY <1>2, <2>1
      <3>3. QED
        BY <2>1, <3>1, <3>2
    <2>5. a \in Positions(q, "assistant") /\ q[i].answers \in CallIds(q[a])
      <3>1. q[a] = msgs[j] /\ q[i] = msgs[pos[i]]
        BY <1>2, <2>1, <2>3
      <3>2. QED
        BY <2>2, <3>1 DEF Positions
    <2>6. ASSUME NEW k \in 1 .. Len(q), a < k, k < i
          PROVE  q[k].role = "tool"
      <3>1. pos[a] < pos[k] /\ pos[k] < pos[i]
        BY <1>2, <2>1, <2>6
      <3>2. msgs[pos[k]].role = "tool"
        BY <1>2, <2>2, <2>3, <3>1
      <3>3. QED
        BY <1>2, <3>2
    <2>7. QED
      BY <2>4, <2>5, <2>6
  <1>5. QED
    BY <1>4 DEF ResultsFollow

\* Results still follow their calls when a conversation continues one.
LEMMA FollowsConcat ==
  ASSUME NEW q \in Seq(MessageTypes), NEW r \in Seq(MessageTypes),
         ResultsFollow(q), ResultsFollow(r)
  PROVE  ResultsFollow(q \o r)
  <1> DEFINE s == q \o r
             m == Len(q)
             n == Len(r)
  <1>1. /\ s \in Seq(MessageTypes) /\ Len(s) = m + n /\ m \in Nat /\ n \in Nat
        /\ \A i \in 1 .. m : s[i] = q[i]
        /\ \A j \in 1 .. n : s[m + j] = r[j]
    BY ConcatProperties, LenProperties
  <1>2. /\ \A i \in 1 .. m : q[i].role = "tool" =>
             \E j \in 1 .. m : /\ q[j].role = "assistant"
                               /\ j < i /\ q[i].answers \in CallIds(q[j])
                               /\ \A k \in 1 .. m : j < k /\ k < i => q[k].role = "tool"
        /\ \A i \in 1 .. n : r[i].role = "tool" =>
             \E j \in 1 .. n : /\ r[j].role = "assistant"
                               /\ j < i /\ r[i].answers \in CallIds(r[j])
                               /\ \A k \in 1 .. n : j < k /\ k < i => r[k].role = "tool"
    BY DEF ResultsFollow, Positions
  <1> HIDE DEF s, m, n
  <1>3. ASSUME NEW i \in 1 .. m + n, s[i].role = "tool"
        PROVE  \E j \in 1 .. m + n :
                 /\ s[j].role = "assistant" /\ j < i /\ s[i].answers \in CallIds(s[j])
                 /\ \A k \in 1 .. m + n : j < k /\ k < i => s[k].role = "tool"
    <2>1. CASE i \in 1 .. m
      <3>1. s[i] = q[i]
        BY <1>1, <2>1
      <3>2. PICK j \in 1 .. m : /\ q[j].role = "assistant"
                                /\ j < i /\ q[i].answers \in CallIds(q[j])
                                /\ \A k \in 1 .. m : j < k /\ k < i => q[k].role = "tool"
        BY <1>2, <1>3, <2>1, <3>1
      <3>3. s[j] = q[j] /\ j \in 1 .. m + n
        BY <1>1
      <3>4. ASSUME NEW k \in 1 .. m + n, j < k, k < i
            PROVE  s[k].role = "tool"
        <4>1. k \in 1 .. m
          BY <1>1, <2>1, <3>4
        <4>2. QED
          BY <1>1, <3>2, <3>4, <4>1
      <3>5. QED
        BY <3>1, <3>2, <3>3, <3>4
    <2>2. CASE i \notin 1 .. m
      <3> DEFINE b == i - m
      <3>1. b \in 1 .. n /\ m + b = i
        BY <1>1, <2>2
      <3>2. s[i] = r[b]
        BY <1>1, <3>1
      <3>3. PICK j \in 1 .. n : /\ r[j].role = "assistant"
                                /\ j < b /\ r[b].answers \in CallIds(r[j])
                                /\ \A k \in 1 .. n : j < k /\ k < b => r[k].role = "tool"
        BY <1>2, <1>3, <3>1, <3>2
      <3>4. s[m + j] = r[j] /\ m + j \in 1 .. m + n /\ m + j < i
        BY <1>1, <3>1, <3>3, SMTT(30)
      <3>5. ASSUME NEW k \in 1 .. m + n, m + j < k, k < i
            PROVE  s[k].role = "tool"
        <4>1. k - m \in 1 .. n /\ m + (k - m) = k /\ j < k - m /\ k - m < b
          BY <1>1, <3>1, <3>5
        <4>2. s[m + (k - m)] = r[k - m] /\ r[k - m].role = "tool"
          BY <1>1, <3>3, <4>1
        <4>3. QED
          BY <4>1, <4>2
      <3> HIDE DEF b
      <3>6. s[m + j].role = "assistant" /\ s[i].answers \in CallIds(s[m + j])
        BY <3>2, <3>3, <3>4
      <3>7. QED
        BY <3>4, <3>5, <3>6
    <2>3. QED
      BY <2>1, <2>2
  <1>4. ResultsFollow(s)
    BY <1>1, <1>3 DEF ResultsFollow, Positions
  <1>5. QED
    BY <1>4 DEF s

\* Messages without results follow their calls.
LEMMA NoResults ==
  ASSUME NEW q, \A i \in 1 .. Len(q) : q[i].role # "tool"
  PROVE  ResultsFollow(q)
  BY DEF ResultsFollow, Positions

-----------------------------------------------------------------------------
(* What a conversation opens with.                                         *)

\* What a selection starts with.
LEMMA PicksHead ==
  ASSUME NEW msgs \in Seq(MessageTypes), NEW K \in SUBSET (1 .. Len(msgs)), NEW q,
         Picks(q, msgs, K), 1 \in K
  PROVE  q # <<>> /\ q[1] = msgs[1]
  <1>1. PICK pos : InOrder(pos, q, msgs, K)
    BY DEF Picks
  <1>2. q \in Seq(MessageTypes) /\ Len(q) \in Nat
    BY LenProperties DEF Picks
  <1>3. PICK a \in 1 .. Len(q) : pos[a] = 1
    BY <1>1 DEF InOrder
  <1>4. 1 \in 1 .. Len(q) /\ a \in Int /\ 1 <= a
    BY <1>2
  <1>5. pos[1] \in Int /\ 1 <= pos[1]
    <2>1. pos[1] \in K
      BY <1>1, <1>4 DEF InOrder
    <2>2. \A k \in K : k \in Int /\ 1 <= k
      OBVIOUS
    <2>3. QED
      BY <2>1, <2>2
  <1>6. ~(1 < a)
    <2>1. 1 < a => pos[1] < pos[a]
      BY <1>1, <1>4 DEF InOrder
    <2>2. QED
      BY <1>3, <1>5, <2>1
  <1>7. a = 1
    BY <1>4, <1>6
  <1>8. q[1] = msgs[1]
    BY <1>1, <1>3, <1>4, <1>7 DEF InOrder
  <1>9. q # <<>>
    BY <1>4, EmptySeq
  <1>10. QED
    BY <1>8, <1>9

\* The first user message of msgs is x.
Task(msgs, x) ==
  \E i \in 1 .. Len(msgs) :
    /\ msgs[i] = x /\ x.role = "user"
    /\ \A j \in 1 .. Len(msgs) : j < i => msgs[j].role # "user"

\* A conversation with a user message has a task.
LEMMA TaskExists ==
  ASSUME NEW msgs \in Seq(MessageTypes), Positions(msgs, "user") # {}
  PROVE  \E x : Task(msgs, x)
  <1>1. Positions(msgs, "user") \in SUBSET Nat
    BY DEF Positions
  <1>2. PICK i \in Positions(msgs, "user") : \A j \in Positions(msgs, "user") : i <= j
    BY <1>1, LeastNatural
  <1>3. Task(msgs, msgs[i])
    <2>1. \A j \in 1 .. Len(msgs) : j < i => msgs[j].role # "user"
      BY <1>1, <1>2 DEF Positions
    <2>2. QED
      BY <1>2, <2>1 DEF Task, Positions
  <1>4. QED
    BY <1>3

\* Where the first user message is.
LEMMA TaskFirst ==
  ASSUME NEW msgs \in Seq(MessageTypes), NEW x, Task(msgs, x)
  PROVE  \E i \in 1 .. Len(msgs) :
           /\ First(Positions(msgs, "user")) = {i}
           /\ msgs[i] = x /\ x.role = "user"
           /\ \A j \in 1 .. Len(msgs) : j < i => msgs[j].role # "user"
  <1>1. PICK i \in 1 .. Len(msgs) :
          /\ msgs[i] = x /\ x.role = "user"
          /\ \A j \in 1 .. Len(msgs) : j < i => msgs[j].role # "user"
    BY DEF Task
  <1>2. /\ Positions(msgs, "user") \in SUBSET Nat /\ i \in Positions(msgs, "user")
        /\ \A j \in Positions(msgs, "user") : ~(j < i)
    BY <1>1 DEF Positions
  <1>3. First(Positions(msgs, "user")) = {i}
    <2>1. PICK k \in Positions(msgs, "user") :
            /\ First(Positions(msgs, "user")) = {k}
            /\ \A j \in Positions(msgs, "user") : k <= j
      BY <1>2, FirstProperties
    <2>2. k <= i /\ ~(k < i) /\ k \in Nat /\ i \in Nat
      BY <1>2, <2>1
    <2>3. k = i
      BY <2>2
    <2>4. QED
      BY <2>1, <2>3
  <1>4. QED
    BY <1>1, <1>3

\* The message at the first user position is the task.
LEMMA TaskAt ==
  ASSUME NEW msgs \in Seq(MessageTypes), NEW x, Task(msgs, x)
  PROVE  At(msgs, First(Positions(msgs, "user"))) = <<x>>
  <1>1. PICK i \in 1 .. Len(msgs) : First(Positions(msgs, "user")) = {i} /\ msgs[i] = x
    BY TaskFirst
  <1> DEFINE q == At(msgs, {i})
  <1>2. Draws(q, msgs, {i})
    BY AtPicks, PicksDraws
  <1>3. q \in Seq(MessageTypes) /\ Len(q) = 1
    <2>1. Len(q) = Cardinality({i})
      BY <1>2, DrawsLength
    <2> HIDE DEF q
    <2>2. QED
      BY <1>2, <2>1, FS_Singleton DEF Draws
  <1> HIDE DEF q
  <1>4. PICK pos : Drawing(pos, q, msgs, {i})
    BY <1>2 DEF Draws
  <1>5. q[1] = x
    BY <1>1, <1>3, <1>4 DEF Drawing
  <1>6. q = <<x>>
    BY <1>3, <1>5
  <1>7. QED
    BY <1>1, <1>6 DEF q

\* A selection with the first user message has the same task.
LEMMA TaskPicked ==
  ASSUME NEW msgs \in Seq(MessageTypes), NEW K \in SUBSET (1 .. Len(msgs)), NEW q,
         Picks(q, msgs, K), NEW i \in K, msgs[i].role = "user",
         \A j \in 1 .. Len(msgs) : j < i => msgs[j].role # "user"
  PROVE  Task(q, msgs[i])
  <1>1. PICK pos : InOrder(pos, q, msgs, K)
    BY DEF Picks
  <1>2. q \in Seq(MessageTypes) /\ Len(q) \in Nat
    BY LenProperties DEF Picks
  <1>3. PICK a \in 1 .. Len(q) : pos[a] = i
    BY <1>1 DEF InOrder
  <1>4. \A b \in 1 .. Len(q) : b < a => q[b].role # "user"
    <2>1. ASSUME NEW b \in 1 .. Len(q), b < a
          PROVE  q[b].role # "user"
      <3>1. pos[b] < pos[a] /\ pos[b] \in K /\ q[b] = msgs[pos[b]]
        BY <1>1, <1>3, <2>1 DEF InOrder
      <3>2. QED
        BY <1>3, <3>1
    <2>2. QED
      BY <2>1
  <1>5. q[a] = msgs[i]
    BY <1>1, <1>3 DEF InOrder
  <1>6. QED
    BY <1>3, <1>4, <1>5 DEF Task

\* The task of two parts: that of the first, or of the second if the first has no user message.
LEMMA TaskConcat ==
  ASSUME NEW q \in Seq(MessageTypes), NEW r \in Seq(MessageTypes), NEW x,
         \/ Task(q, x)
         \/ Task(r, x) /\ \A i \in 1 .. Len(q) : q[i].role # "user"
  PROVE  Task(q \o r, x)
  <1> DEFINE s == q \o r
             m == Len(q)
             n == Len(r)
  <1>1. /\ Len(s) = m + n /\ m \in Nat /\ n \in Nat
        /\ \A i \in 1 .. m : s[i] = q[i]
        /\ \A j \in 1 .. n : s[m + j] = r[j]
    BY ConcatProperties, LenProperties
  <1>2. CASE Task(q, x)
    <2>1. PICK i \in 1 .. m : /\ q[i] = x /\ x.role = "user"
                              /\ \A j \in 1 .. m : j < i => q[j].role # "user"
      BY <1>2 DEF Task
    <2> HIDE DEF s, m, n
    <2>2. i \in 1 .. m + n /\ s[i] = x
      BY <1>1, <2>1
    <2>3. ASSUME NEW j \in 1 .. m + n, j < i
          PROVE  s[j].role # "user"
      <3>1. j \in 1 .. m
        BY <1>1, <2>3
      <3>2. QED
        BY <1>1, <2>1, <2>3, <3>1
    <2>4. Task(s, x)
      BY <1>1, <2>1, <2>2, <2>3 DEF Task
    <2>5. QED
      BY <2>4 DEF s
  <1>3. CASE Task(r, x) /\ \A i \in 1 .. m : q[i].role # "user"
    <2>1. PICK i \in 1 .. n : /\ r[i] = x /\ x.role = "user"
                              /\ \A j \in 1 .. n : j < i => r[j].role # "user"
      BY <1>3 DEF Task
    <2> HIDE DEF s, m, n
    <2>2. m + i \in 1 .. m + n /\ s[m + i] = x
      BY <1>1, <2>1, SMTT(30)
    <2>3. ASSUME NEW j \in 1 .. m + n, j < m + i
          PROVE  s[j].role # "user"
      <3>1. CASE j \in 1 .. m
        BY <1>1, <1>3, <3>1
      <3>2. CASE j \notin 1 .. m
        <4>1. j - m \in 1 .. n /\ m + (j - m) = j /\ j - m < i
          BY <1>1, <2>3, <3>2
        <4>2. s[m + (j - m)] = r[j - m] /\ r[j - m].role # "user"
          BY <1>1, <2>1, <4>1
        <4>3. QED
          BY <4>1, <4>2
      <3>3. QED
        BY <3>1, <3>2
    <2>4. Task(s, x)
      BY <1>1, <2>1, <2>2, <2>3 DEF Task
    <2>5. QED
      BY <2>4 DEF s
  <1>4. QED
    BY <1>2, <1>3

-----------------------------------------------------------------------------
(* What both ways of shortening a conversation keep.                       *)

\* q is msgs shortened: no message is new or there twice, the head and the task stay,
\* and results still follow their calls.
Shortens(q, msgs) ==
  /\ q \in Seq(MessageTypes) /\ Len(q) <= Len(msgs)
  /\ q # <<>> /\ q[1] = msgs[1]
  /\ \A i \in 1 .. Len(q) : \E k \in 1 .. Len(msgs) : q[i] = msgs[k]
  /\ AnsweredOnce(msgs) => AnsweredOnce(q)
  /\ CalledOnce(msgs) => CalledOnce(q)
  /\ CalledOnce(msgs) /\ ResultsFollow(msgs) => ResultsFollow(q)
  /\ \A x : Task(msgs, x) => Task(q, x)

\* The caller of a result, when calls are there once.
LEMMA OneCaller ==
  ASSUME NEW msgs \in Seq(MessageTypes), CalledOnce(msgs),
         NEW j \in 1 .. Len(msgs), NEW k \in 1 .. Len(msgs), NEW id,
         id \in CallIds(msgs[j]), id \in CallIds(msgs[k])
  PROVE  j = k
  BY DEF CalledOnce

\* _prune_history keeps the head, the task and the pairing of results, and the window.
LEMMA PruneHistoryShortens ==
  ASSUME NEW msgs \in Seq(MessageTypes), msgs # <<>>, msgs[1].role = "system"
  PROVE  /\ Shortens(PruneHistory(msgs), msgs)
         /\ Window # 0 => Len(PruneHistory(msgs)) <= Window + 2
  <1> DEFINE n == Len(msgs)
             sys == First(Positions(msgs, "system"))
             usr == First(Positions(msgs, "user"))
             prefix == sys \cup usr
             rest == (1 .. n) \ prefix
             tail == LastOf(rest, Window)
             kept == {i \in tail : msgs[i].role = "tool" => FollowsAssistant(msgs, tail, i)}
  <1>1. n \in Nat /\ 1 \in 1 .. n /\ Window \in Nat
    BY ConversationAssumption, EmptySeq DEF ConversationAssumption
  <1>2. Positions(msgs, "system") \in SUBSET Nat /\ Positions(msgs, "user") \in SUBSET Nat
    BY DEF Positions
  <1>3. sys = {1}
    <2>1. 1 \in Positions(msgs, "system") /\ \A j \in Positions(msgs, "system") : 1 <= j
      BY <1>1 DEF Positions
    <2>2. PICK i \in Positions(msgs, "system") :
            sys = {i} /\ \A j \in Positions(msgs, "system") : i <= j
      BY <1>2, <2>1, FirstProperties
    <2>3. i <= 1 /\ 1 <= i /\ i \in Nat
      BY <1>2, <2>1, <2>2
    <2>4. i = 1
      BY <2>3
    <2>5. QED
      BY <2>2, <2>4
  <1>4. /\ usr \in SUBSET (1 .. n)
        /\ \A i \in usr : msgs[i].role = "user"
        /\ usr = {} \/ \E i \in 1 .. n : usr = {i}
    <2>1. usr \in SUBSET Positions(msgs, "user")
      BY DEF First
    <2>2. usr = {} \/ \E i \in Positions(msgs, "user") : usr = {i}
      BY <1>2, FirstProperties
    <2>3. QED
      BY <2>1, <2>2 DEF Positions
  <1>5. /\ prefix \in SUBSET (1 .. n) /\ 1 \in prefix
        /\ \A i \in prefix : msgs[i].role # "tool" /\ msgs[i].role # "assistant"
    BY <1>1, <1>3, <1>4
  <1> HIDE DEF sys, usr, n
  <1>6. /\ rest \in SUBSET (1 .. n) /\ tail \in SUBSET rest /\ kept \in SUBSET tail
        /\ \A i \in tail : \A j \in rest : i < j => j \in tail
        /\ Cardinality(tail) <= Window
    <2> HIDE DEF prefix
    <2>1. rest \in SUBSET (1 .. n)
      OBVIOUS
    <2>2. kept \in SUBSET tail
      OBVIOUS
    <2> HIDE DEF rest, kept
    <2>3. QED
      BY <1>1, <2>1, <2>2, LastOfProperties
  <1>7. \A i \in 1 .. n : msgs[i].role \in {"tool", "assistant"} => i \in rest
    BY <1>5
  <1>8. \A i \in kept : msgs[i].role = "tool" => FollowsAssistant(msgs, tail, i)
    OBVIOUS
  <1>9. \A i \in tail : msgs[i].role # "tool" => i \in kept
    OBVIOUS
  <1>10. prefix \cap kept = {} /\ kept \in SUBSET (1 .. n)
    BY <1>6
  <1> HIDE DEF prefix, rest, tail, kept
  <1> DEFINE q == At(msgs, prefix)
             r == At(msgs, kept)
  <1>11. Picks(q, msgs, prefix) /\ Picks(r, msgs, kept)
    BY <1>5, <1>10, AtPicks DEF n
  <1> HIDE DEF q, r
  <1>12. q \in Seq(MessageTypes) /\ r \in Seq(MessageTypes)
    BY <1>11 DEF Picks
  <1>13. Draws(q \o r, msgs, prefix \cup kept) /\ prefix \cup kept \in SUBSET (1 .. n)
    <2>1. Draws(q, msgs, prefix) /\ Draws(r, msgs, kept)
      BY <1>5, <1>10, <1>11, PicksDraws DEF n
    <2>2. QED
      BY <1>5, <1>10, <2>1, DrawsConcat
  <1>14. /\ q \o r \in Seq(MessageTypes) /\ Len(q \o r) <= n
         /\ Len(q \o r) = Cardinality(prefix \cup kept)
         /\ \A i \in 1 .. Len(q \o r) : \E k \in 1 .. n : (q \o r)[i] = msgs[k]
         /\ AnsweredOnce(msgs) => AnsweredOnce(q \o r)
         /\ CalledOnce(msgs) => CalledOnce(q \o r)
    <2> DEFINE s == q \o r
               K == prefix \cup kept
    <2>1. Draws(s, msgs, K) /\ K \in SUBSET (1 .. Len(msgs))
      BY <1>13 DEF n
    <2> HIDE DEF s, K
    <2>2. Len(s) = Cardinality(K) /\ Len(s) <= Len(msgs)
      BY <2>1, DrawsLength
    <2>3. /\ s \in Seq(MessageTypes)
          /\ \A i \in 1 .. Len(s) : \E k \in K : s[i] = msgs[k]
          /\ AnsweredOnce(msgs) => AnsweredOnce(s)
          /\ CalledOnce(msgs) => CalledOnce(s)
      BY <2>1, DrawsEach
    <2>4. \A i \in 1 .. Len(s) : \E k \in 1 .. Len(msgs) : s[i] = msgs[k]
      BY <2>1, <2>3
    <2>5. QED
      BY <2>2, <2>3, <2>4 DEF s, K, n
  <1>15. q \o r # <<>> /\ (q \o r)[1] = msgs[1]
    <2>1. q # <<>> /\ q[1] = msgs[1]
      BY <1>5, <1>11, PicksHead DEF n
    <2>2. Len(q) \in Nat \ {0} /\ Len(r) \in Nat
      BY <1>12, <2>1, EmptySeq, LenProperties
    <2>3. /\ Len(q \o r) = Len(q) + Len(r)
          /\ \A i \in 1 .. Len(q) : (q \o r)[i] = q[i]
      BY <1>12, ConcatProperties
    <2>4. 1 \in 1 .. Len(q) /\ Len(q \o r) # 0
      BY <2>2, <2>3
    <2>5. q \o r # <<>>
      BY <2>4, EmptySeq
    <2>6. QED
      BY <2>1, <2>3, <2>4, <2>5
  <1>16. ASSUME CalledOnce(msgs), ResultsFollow(msgs)
         PROVE  ResultsFollow(q \o r)
    <2>1. Closed(msgs, prefix)
      BY <1>5 DEF Closed
    <2>2. ASSUME NEW i \in kept, msgs[i].role = "tool"
          PROVE  \E j \in kept :
                   /\ j < i /\ msgs[j].role = "assistant"
                   /\ msgs[i].answers \in CallIds(msgs[j])
                   /\ \A k \in kept : j < k /\ k < i => msgs[k].role = "tool"
      <3>1. PICK j \in tail :
              /\ j < i /\ msgs[j].role = "assistant"
              /\ \A k \in tail : j < k /\ k < i => msgs[k].role = "tool"
        BY <1>8, <2>2 DEF FollowsAssistant
      <3>2. i \in Positions(msgs, "tool")
        BY <1>10, <2>2 DEF Positions, n
      <3>3. PICK c \in Positions(msgs, "assistant") :
              /\ c < i /\ msgs[i].answers \in CallIds(msgs[c])
              /\ \A k \in 1 .. Len(msgs) : c < k /\ k < i => msgs[k].role = "tool"
        BY <1>16, <3>2 DEF ResultsFollow
      <3>4. c \in 1 .. n /\ msgs[c].role = "assistant" /\ j \in 1 .. n /\ i \in 1 .. n
        <4>1. c \in 1 .. n /\ msgs[c].role = "assistant"
          BY <3>3 DEF Positions, n
        <4>2. j \in 1 .. n
          BY <1>6, <3>1
        <4>3. QED
          BY <1>10, <2>2, <4>1, <4>2
      <3>5. ~(c < j)
        BY <3>1, <3>3, <3>4 DEF n
      <3>6. ~(j < c)
        <4>1. ASSUME j < c PROVE FALSE
          <5>1. c \in tail
            BY <1>6, <1>7, <3>1, <3>4, <4>1
          <5>2. msgs[c].role = "tool"
            BY <3>1, <3>3, <4>1, <5>1
          <5>3. QED
            BY <3>4, <5>2
        <4>2. QED
          BY <4>1
      <3>7. j = c
        BY <1>1, <3>4, <3>5, <3>6
      <3>8. j \in kept
        BY <1>9, <3>1
      <3>9. \A k \in kept : j < k /\ k < i => msgs[k].role = "tool"
        BY <1>6, <3>1
      <3>10. QED
        BY <3>1, <3>3, <3>7, <3>8, <3>9
    <2>3. Closed(msgs, kept)
      BY <2>2 DEF Closed
    <2>4. ResultsFollow(q) /\ ResultsFollow(r)
      BY <1>5, <1>10, <1>11, <2>1, <2>3, PicksFollow DEF n
    <2>5. QED
      BY <1>12, <2>4, FollowsConcat
  <1>17. ASSUME NEW x, Task(msgs, x)
         PROVE  Task(q \o r, x)
    <2>1. PICK i \in 1 .. Len(msgs) :
            /\ usr = {i} /\ msgs[i] = x /\ x.role = "user"
            /\ \A j \in 1 .. Len(msgs) : j < i => msgs[j].role # "user"
      BY <1>17, TaskFirst DEF usr
    <2>2. i \in prefix
      BY <2>1 DEF prefix
    <2>3. Task(q, x)
      BY <1>5, <1>11, <2>1, <2>2, TaskPicked DEF n
    <2>4. QED
      BY <1>12, <2>3, TaskConcat
  <1>18. Cardinality(prefix \cup kept) <= Window + 2
    <2>1. IsFiniteSet(prefix) /\ Cardinality(prefix) \in Nat /\ Cardinality(prefix) <= 2
      <3>1. CASE usr = {}
        <4>1. prefix = {1}
          BY <1>3, <3>1 DEF prefix
        <4>2. IsFiniteSet({1, 1}) /\ Cardinality({1, 1}) \in Nat /\ Cardinality({1, 1}) <= 2
          BY PairSize
        <4>3. {1, 1} = {1}
          OBVIOUS
        <4>4. QED
          BY <4>1, <4>2, <4>3, Zenon
      <3>2. CASE \E i \in 1 .. n : usr = {i}
        <4>1. PICK i \in 1 .. n : prefix = {1, i}
          BY <1>3, <3>2 DEF prefix
        <4>3. IsFiniteSet({1, i}) /\ Cardinality({1, i}) \in Nat /\ Cardinality({1, i}) <= 2
          BY PairSize
        <4>4. QED
          BY <4>1, <4>3
      <3>3. QED
        BY <1>4, <3>1, <3>2
    <2>2. IsFiniteSet(kept) /\ Cardinality(kept) \in Nat /\ Cardinality(kept) <= Window
      <3>1. IsFiniteSet(tail) /\ Cardinality(tail) \in Nat
        BY <1>1, <1>6, FinitePositions
      <3>2. Cardinality(kept) <= Cardinality(tail) /\ IsFiniteSet(kept)
        BY <1>6, <3>1, FS_Subset
      <3>3. Cardinality(kept) \in Nat
        BY <3>2, FS_CardinalityType
      <3>4. QED
        BY <1>1, <1>6, <3>1, <3>2, <3>3
    <2>3. /\ Cardinality(prefix \cup kept)
               = Cardinality(prefix) + Cardinality(kept) - Cardinality(prefix \cap kept)
          /\ Cardinality(prefix \cap kept) = 0
      BY <1>10, <2>1, <2>2, FS_Union, FS_EmptySet
    <2>4. QED
      BY <1>1, <2>1, <2>2, <2>3
  <1>19. Window # 0 => PruneHistory(msgs) = q \o r
    BY DEF PruneHistory, q, r, kept, tail, rest, prefix, sys, usr, n
  <1>20. CASE Window # 0
    <2>1. Shortens(q \o r, msgs)
      BY <1>14, <1>15, <1>16, <1>17, Zenon DEF Shortens, n
    <2>2. QED
      BY <1>14, <1>18, <1>19, <1>20, <2>1
  <1>21. CASE Window = 0
    <2>1. PruneHistory(msgs) = msgs
      BY <1>21 DEF PruneHistory
    <2>2. Shortens(msgs, msgs)
      BY <1>1 DEF Shortens, n
    <2>3. QED
      BY <1>21, <2>1, <2>2
  <1>22. QED
    BY <1>20, <1>21

\* The two ends of a salvaged pair.
SalvagedPair(s, i, J, msgs, core) ==
  /\ s = {i} \cup J
  /\ i \in core /\ msgs[i].role = "tool"
  /\ J \in SUBSET Parents(msgs, {j \in core : j < i}, i)
  /\ Parents(msgs, {j \in core : j < i}, i) # {}
  /\ \A j, k \in J : j = k
  /\ \A j : Parents(msgs, {k \in core : k < i}, i) = {j} => J = {j}

\* prune_messages salvages no result, or one with the nearest message that made its call.
LEMMA SalvageProperties ==
  ASSUME NEW msgs \in Seq(MessageTypes), NEW core \in SUBSET (1 .. Len(msgs))
  PROVE  Salvage(msgs, core) = {} \/ \E i, J : SalvagedPair(Salvage(msgs, core), i, J, msgs, core)
  <1> DEFINE Before(i) == {j \in core : j < i}
             answered == {i \in core : msgs[i].role = "tool" /\ Parents(msgs, Before(i), i) # {}}
             A == LastOf(answered, 1)
             J(i) == LastOf(Parents(msgs, Before(i), i), 1)
  <1>1. Len(msgs) \in Nat /\ 1 \in Nat
    BY LenProperties
  <1>2. A \in SUBSET answered /\ \A i, j \in A : i = j
    <2>1. answered \in SUBSET (1 .. Len(msgs))
      OBVIOUS
    <2> HIDE DEF answered
    <2>2. QED
      BY <1>1, <2>1, LastOfProperties
  <1>3. ASSUME NEW i \in core
        PROVE  J(i) \in SUBSET Parents(msgs, Before(i), i) /\ \A j, k \in J(i) : j = k
    <2>1. Parents(msgs, Before(i), i) \in SUBSET (1 .. Len(msgs))
      BY DEF Parents
    <2> HIDE DEF Before
    <2>2. QED
      BY <1>1, <2>1, LastOfProperties
  <1>4. ASSUME NEW i \in core, NEW j, Parents(msgs, Before(i), i) = {j}
        PROVE  J(i) = {j}
    <2>1. j \in Int
      <3>1. j \in 1 .. Len(msgs)
        BY <1>4 DEF Parents
      <3>2. QED
        BY <1>1, <3>1
    <2> HIDE DEF Before
    <2>2. QED
      BY <1>4, <2>1, LastOfOne
  <1>5. Salvage(msgs, core) = UNION {{i} \cup J(i) : i \in A}
    BY DEF Salvage
  <1>6. \A i \in answered : i \in core /\ msgs[i].role = "tool"
                            /\ Parents(msgs, Before(i), i) # {}
    OBVIOUS
  <1> HIDE DEF A, J, answered
  <1>7. CASE A = {}
    BY <1>5, <1>7
  <1>8. CASE A # {}
    <2>1. PICK i \in A : A = {i}
      BY <1>2, <1>8
    <2>2. Salvage(msgs, core) = {i} \cup J(i)
      BY <1>5, <2>1
    <2>3. /\ i \in core /\ msgs[i].role = "tool" /\ Parents(msgs, Before(i), i) # {}
          /\ J(i) \in SUBSET Parents(msgs, Before(i), i) /\ \A j, k \in J(i) : j = k
          /\ \A j : Parents(msgs, Before(i), i) = {j} => J(i) = {j}
      BY <1>2, <1>3, <1>4, <1>6
    <2>4. SalvagedPair(Salvage(msgs, core), i, J(i), msgs, core)
      BY <2>2, <2>3, Zenon DEF SalvagedPair, Before
    <2>5. QED
      BY <2>4
  <1>9. QED
    BY <1>7, <1>8

\* The positions prune_messages keeps, in the order it puts them.
Parts(msgs, sys, usr, salvaged, kept) ==
  /\ sys = Positions(msgs, "system")
  /\ usr = First(Positions(msgs, "user"))
  /\ \E core, tail :
       /\ core = {i \in (1 .. Len(msgs)) \ (sys \cup usr) : msgs[i].text # "hint"}
       /\ tail = LastOf(core, IF KeepLast = 0 THEN 1 ELSE KeepLast)
       /\ kept = {i \in tail : msgs[i].role = "tool" => Parents(msgs, tail, i) # {}}
       /\ salvaged = IF \E i \in kept : msgs[i].role = "tool" THEN {} ELSE Salvage(msgs, core)

\* The parts prune_messages puts together.
LEMMA PruneMessagesParts ==
  ASSUME NEW msgs
  PROVE  \E sys, usr, salvaged, kept :
           /\ Parts(msgs, sys, usr, salvaged, kept)
           /\ PruneMessages(msgs)
                = At(msgs, sys) \o At(msgs, usr) \o At(msgs, salvaged) \o At(msgs, kept)
  <1> DEFINE systems == Positions(msgs, "system")
             first == First(Positions(msgs, "user"))
             core == {i \in (1 .. Len(msgs)) \ (systems \cup first) : msgs[i].text # "hint"}
             tail == LastOf(core, IF KeepLast = 0 THEN 1 ELSE KeepLast)
             kept == {i \in tail : msgs[i].role = "tool" => Parents(msgs, tail, i) # {}}
             salvaged == IF \E i \in kept : msgs[i].role = "tool" THEN {}
                         ELSE Salvage(msgs, core)
  <1>1. Parts(msgs, systems, first, salvaged, kept)
    BY Zenon DEF Parts
  <1>2. PruneMessages(msgs)
          = At(msgs, systems) \o At(msgs, first) \o At(msgs, salvaged) \o At(msgs, kept)
    BY DEF PruneMessages
  <1>3. QED
    BY <1>1, <1>2, Zenon

\* The parts share no position, keep results after their calls, and are bounded.
LEMMA PartsProperties ==
  ASSUME NEW msgs \in Seq(MessageTypes), NEW sys, NEW usr, NEW salvaged, NEW kept,
         Parts(msgs, sys, usr, salvaged, kept)
  PROVE  /\ {sys, usr, salvaged, kept} \subseteq SUBSET (1 .. Len(msgs))
         /\ sys \cap usr = {} /\ (sys \cup usr) \cap salvaged = {}
         /\ (sys \cup usr \cup salvaged) \cap kept = {}
         /\ CalledOnce(msgs) /\ ResultsFollow(msgs) =>
              Closed(msgs, salvaged) /\ Closed(msgs, kept)
         /\ usr = {} \/ \E i : usr = {i}
         /\ salvaged = {} \/ \E i, j : salvaged \in SUBSET {i, j}
         /\ Cardinality(kept) <= IF KeepLast = 0 THEN 1 ELSE KeepLast
  <1> DEFINE n == Len(msgs)
             last == IF KeepLast = 0 THEN 1 ELSE KeepLast
  <1>1. n \in Nat /\ last \in Nat
    BY ConversationAssumption, LenProperties DEF ConversationAssumption
  <1>2. /\ sys = Positions(msgs, "system") /\ usr = First(Positions(msgs, "user"))
    BY DEF Parts
  <1>3. PICK core, tail :
          /\ core = {i \in (1 .. n) \ (sys \cup usr) : msgs[i].text # "hint"}
          /\ tail = LastOf(core, last)
          /\ kept = {i \in tail : msgs[i].role = "tool" => Parents(msgs, tail, i) # {}}
          /\ salvaged = IF \E i \in kept : msgs[i].role = "tool" THEN {} ELSE Salvage(msgs, core)
    BY DEF Parts
  <1> HIDE DEF n, last
  <1>4. /\ sys \in SUBSET (1 .. n) /\ \A i \in sys : msgs[i].role = "system"
        /\ usr \in SUBSET (1 .. n) /\ \A i \in usr : msgs[i].role = "user"
        /\ usr = {} \/ \E i : usr = {i}
    <2>1. Positions(msgs, "user") \in SUBSET Nat
      BY DEF Positions
    <2>2. usr = {} \/ \E i \in Positions(msgs, "user") : usr = {i}
      BY <1>2, <2>1, FirstProperties
    <2>3. usr \in SUBSET Positions(msgs, "user")
      BY <1>2 DEF First
    <2>4. QED
      BY <1>2, <2>2, <2>3 DEF Positions, n
  <1>5. core \in SUBSET (1 .. n) /\ core \cap (sys \cup usr) = {}
    BY <1>3
  <1>6. /\ tail \in SUBSET core /\ kept \in SUBSET tail
        /\ \A i \in tail : \A j \in core : i < j => j \in tail
        /\ Cardinality(tail) <= last
    <2>1. kept \in SUBSET tail
      BY <1>3
    <2>2. /\ LastOf(core, last) \in SUBSET core
          /\ \A i \in LastOf(core, last) : \A j \in core : i < j => j \in LastOf(core, last)
          /\ Cardinality(LastOf(core, last)) <= last
      BY <1>1, <1>5, LastOfProperties
    <2>3. tail = LastOf(core, last)
      BY <1>3
    <2>4. QED
      BY <2>1, <2>2, <2>3
  <1>7. /\ \A i \in kept : msgs[i].role = "tool" => Parents(msgs, tail, i) # {}
        /\ \A i \in tail : msgs[i].role # "tool" \/ Parents(msgs, tail, i) # {} => i \in kept
        /\ salvaged = {} \/ (salvaged = Salvage(msgs, core) /\ \A i \in kept : msgs[i].role # "tool")
    <2>1. kept = {i \in tail : msgs[i].role = "tool" => Parents(msgs, tail, i) # {}}
      BY <1>3
    <2>2. salvaged = IF \E i \in kept : msgs[i].role = "tool" THEN {} ELSE Salvage(msgs, core)
      BY <1>3
    <2>3. /\ \A i \in kept : msgs[i].role = "tool" => Parents(msgs, tail, i) # {}
          /\ \A i \in tail : msgs[i].role # "tool" \/ Parents(msgs, tail, i) # {} => i \in kept
      BY <2>1
    <2>4. salvaged = {} \/ (salvaged = Salvage(msgs, core) /\ \A i \in kept : msgs[i].role # "tool")
      BY <2>2
    <2>5. QED
      BY <2>3, <2>4
  <1>8. Cardinality(kept) <= last
    <2>1. IsFiniteSet(tail) /\ Cardinality(tail) \in Nat
      BY <1>1, <1>5, <1>6, FinitePositions
    <2>2. Cardinality(kept) <= Cardinality(tail) /\ IsFiniteSet(kept)
      BY <1>6, <2>1, FS_Subset
    <2>3. Cardinality(kept) \in Nat
      BY <2>2, FS_CardinalityType
    <2>4. QED
      BY <1>1, <1>6, <2>1, <2>2, <2>3
  \* The caller a selection finds is the one the result follows.
  <1>9. ASSUME CalledOnce(msgs), ResultsFollow(msgs), NEW K \in SUBSET (1 .. n),
               NEW i \in 1 .. n, msgs[i].role = "tool", NEW j \in Parents(msgs, K, i)
        PROVE  /\ j \in K /\ j < i /\ msgs[j].role = "assistant"
               /\ msgs[i].answers \in CallIds(msgs[j])
               /\ \A k \in 1 .. n : j < k /\ k < i => msgs[k].role = "tool"
    <2>1. i \in Positions(msgs, "tool")
      BY <1>9 DEF Positions, n
    <2>2. PICK c \in Positions(msgs, "assistant") :
            /\ c < i /\ msgs[i].answers \in CallIds(msgs[c])
            /\ \A k \in 1 .. Len(msgs) : c < k /\ k < i => msgs[k].role = "tool"
      BY <1>9, <2>1 DEF ResultsFollow
    <2>3. /\ j \in K /\ j \in 1 .. n /\ msgs[j].role = "assistant"
          /\ msgs[i].answers \in CallIds(msgs[j]) /\ c \in 1 .. n
      BY <1>9, <2>2 DEF Parents, Positions, n
    <2>4. j = c
      BY <1>9, <2>2, <2>3, OneCaller DEF n
    <2>5. QED
      BY <2>2, <2>3, <2>4 DEF n
  <1>10. ASSUME CalledOnce(msgs), ResultsFollow(msgs)
         PROVE  Closed(msgs, kept)
    <2>1. ASSUME NEW i \in kept, msgs[i].role = "tool"
          PROVE  \E j \in kept :
                   /\ j < i /\ msgs[j].role = "assistant"
                   /\ msgs[i].answers \in CallIds(msgs[j])
                   /\ \A k \in kept : j < k /\ k < i => msgs[k].role = "tool"
      <3>1. PICK j \in Parents(msgs, tail, i) : TRUE
        BY <1>7, <2>1
      <3>2. tail \in SUBSET (1 .. n) /\ i \in 1 .. n
        BY <1>5, <1>6
      <3>3. /\ j \in tail /\ j < i /\ msgs[j].role = "assistant"
            /\ msgs[i].answers \in CallIds(msgs[j])
            /\ \A k \in 1 .. n : j < k /\ k < i => msgs[k].role = "tool"
        BY <1>9, <1>10, <2>1, <3>1, <3>2
      <3>4. j \in kept /\ \A k \in kept : k \in 1 .. n
        BY <1>6, <1>7, <3>2, <3>3
      <3>5. QED
        BY <3>3, <3>4
    <2>2. QED
      BY <2>1 DEF Closed
  <1>11. CASE salvaged = {}
    <2>1. Closed(msgs, salvaged)
      BY <1>11 DEF Closed
    <2>2. QED
      BY <1>4, <1>5, <1>6, <1>8, <1>10, <1>11, <2>1 DEF n, last
  <1>12. CASE salvaged = Salvage(msgs, core) /\ salvaged # {} /\ \A i \in kept : msgs[i].role # "tool"
    <2>1. PICK i, J : SalvagedPair(salvaged, i, J, msgs, core)
      BY <1>5, <1>12, SalvageProperties DEF n
    <2> DEFINE before == {j \in core : j < i}
    <2>2. /\ salvaged = {i} \cup J
          /\ i \in core /\ msgs[i].role = "tool" /\ i \in 1 .. n
          /\ J \in SUBSET Parents(msgs, before, i) /\ Parents(msgs, before, i) # {}
          /\ \A j, k \in J : j = k
          /\ \A j : Parents(msgs, before, i) = {j} => J = {j}
      BY <1>5, <2>1 DEF SalvagedPair
    <2>3. /\ before \in SUBSET core /\ before \in SUBSET (1 .. n)
          /\ \A j \in before : j < i
      BY <1>5
    <2> HIDE DEF before
    <2>4. \A j \in J : j \in before /\ msgs[j].role = "assistant"
                       /\ msgs[i].answers \in CallIds(msgs[j])
      BY <2>2 DEF Parents
    <2>5. salvaged \in SUBSET core
      BY <2>2, <2>3, <2>4
    <2>6. salvaged \cap kept = {}
      <3>1. i \notin kept
        BY <1>12, <2>2
      <3>2. ASSUME NEW j \in J, j \in kept
            PROVE  FALSE
        <4>1. j \in tail /\ i \in tail
          BY <1>6, <2>2, <2>3, <2>4, <3>2
        <4>2. j \in Parents(msgs, tail, i)
          BY <2>4, <4>1 DEF Parents
        <4>3. QED
          BY <1>7, <3>1, <4>1, <4>2
      <3>3. QED
        BY <2>2, <3>1, <3>2
    <2>7. \E j, k : salvaged \in SUBSET {j, k}
      <3>1. CASE J = {}
        <4>1. salvaged \in SUBSET {i, i}
          BY <2>2, <3>1
        <4>2. QED
          BY <4>1
      <3>2. CASE J # {}
        <4>0. \A j, k \in J : j = k
          BY <2>2
        <4>1. PICK j : J = {j}
          BY <3>2, <4>0, SMTT(30)
        <4>2. salvaged \in SUBSET {i, j}
          BY <2>2, <4>1
        <4>3. QED
          BY <4>2
      <3>3. QED
        BY <3>1, <3>2
    <2>8. ASSUME CalledOnce(msgs), ResultsFollow(msgs)
          PROVE  Closed(msgs, salvaged)
      <3>1. PICK j : j \in Parents(msgs, before, i)
        BY <2>2
      <3>2. /\ j \in before /\ j < i /\ msgs[j].role = "assistant"
            /\ msgs[i].answers \in CallIds(msgs[j])
            /\ \A k \in 1 .. n : j < k /\ k < i => msgs[k].role = "tool"
        BY <1>9, <2>2, <2>3, <2>8, <3>1
      <3>3. Parents(msgs, before, i) = {j}
        <4>1. \A k \in Parents(msgs, before, i) :
                k \in 1 .. n /\ msgs[i].answers \in CallIds(msgs[k])
          BY <2>3 DEF Parents
        <4>2. \A k \in Parents(msgs, before, i) : k = j
          BY <2>3, <2>8, <3>2, <4>1, OneCaller DEF n
        <4>3. QED
          BY <3>1, <4>2
      <3>4. salvaged = {i, j}
        BY <2>2, <3>3
      <3>5. \A k \in salvaged : k \in 1 .. n
        BY <2>2, <2>3, <3>2, <3>4
      <3>6. msgs[j].role # "tool"
        BY <3>2
      <3>7. QED
        BY <3>2, <3>4, <3>5, <3>6 DEF Closed
    <2>9. salvaged \in SUBSET (1 .. n) /\ (sys \cup usr) \cap salvaged = {}
      BY <1>5, <2>5
    <2>10. (sys \cup usr \cup salvaged) \cap kept = {} /\ kept \in SUBSET (1 .. n)
      BY <1>5, <1>6, <2>6
    <2>11. sys \cap usr = {}
      BY <1>4
    <2>12. QED
      BY <1>4, <1>8, <1>10, <2>7, <2>8, <2>9, <2>10, <2>11 DEF n, last
  <1>13. QED
    BY <1>7, <1>11, <1>12

\* A tail of one message at least.
LEMMA KeptTail ==
  LET last == IF KeepLast = 0 THEN 1 ELSE KeepLast
  IN  last = Max({KeepLast, 1}) /\ last \in Nat
  <1> DEFINE last == IF KeepLast = 0 THEN 1 ELSE KeepLast
  <1>1. last \in {KeepLast, 1} /\ \A k \in {KeepLast, 1} : last >= k
    BY ConversationAssumption DEF ConversationAssumption
  <1>2. Max({KeepLast, 1}) \in {KeepLast, 1} /\ \A k \in {KeepLast, 1} : Max({KeepLast, 1}) >= k
    BY <1>1 DEF Max
  <1>3. QED
    BY <1>1, <1>2, ConversationAssumption DEF ConversationAssumption

\* The messages of the parts, one part after another.
LEMMA PartsDrawn ==
  ASSUME NEW msgs \in Seq(MessageTypes), NEW sys, NEW usr, NEW salvaged, NEW kept,
         Parts(msgs, sys, usr, salvaged, kept)
  PROVE  LET q == At(msgs, sys) \o At(msgs, usr) \o At(msgs, salvaged) \o At(msgs, kept)
         IN  /\ Draws(q, msgs, sys \cup usr \cup salvaged \cup kept)
             /\ sys \cup usr \cup salvaged \cup kept \in SUBSET (1 .. Len(msgs))
             /\ CalledOnce(msgs) /\ ResultsFollow(msgs) => ResultsFollow(q)
             /\ Len(q) <= Cardinality(sys) + 1 + Max({KeepLast, 1}) + 2
  <1> DEFINE a == At(msgs, sys)
             b == At(msgs, usr)
             c == At(msgs, salvaged)
             d == At(msgs, kept)
             last == IF KeepLast = 0 THEN 1 ELSE KeepLast
  <1>1. /\ sys \in SUBSET (1 .. Len(msgs)) /\ usr \in SUBSET (1 .. Len(msgs))
        /\ salvaged \in SUBSET (1 .. Len(msgs)) /\ kept \in SUBSET (1 .. Len(msgs))
        /\ sys \cap usr = {} /\ (sys \cup usr) \cap salvaged = {}
        /\ (sys \cup usr \cup salvaged) \cap kept = {}
    BY PartsProperties
  <1>2. /\ usr = {} \/ \E i : usr = {i}
        /\ salvaged = {} \/ \E i, j : salvaged \in SUBSET {i, j}
        /\ Cardinality(kept) <= last
    BY PartsProperties
  <1>3. sys = Positions(msgs, "system") /\ usr = First(Positions(msgs, "user"))
    BY DEF Parts
  <1>4. /\ Picks(a, msgs, sys) /\ Picks(b, msgs, usr) /\ Picks(c, msgs, salvaged)
        /\ Picks(d, msgs, kept)
    BY <1>1, AtPicks
  <1> HIDE DEF a, b, c, d, last
  <1>5. /\ Draws(a, msgs, sys) /\ Draws(b, msgs, usr) /\ Draws(c, msgs, salvaged)
        /\ Draws(d, msgs, kept)
    BY <1>1, <1>4, PicksDraws
  <1>6. /\ a \in Seq(MessageTypes) /\ b \in Seq(MessageTypes) /\ c \in Seq(MessageTypes)
        /\ d \in Seq(MessageTypes)
    BY <1>5 DEF Draws
  <1>7. Draws(a \o b, msgs, sys \cup usr)
    BY <1>1, <1>5, DrawsConcat
  <1>8. Draws(a \o b \o c, msgs, sys \cup usr \cup salvaged)
    BY <1>1, <1>5, <1>7, DrawsConcat
  <1>9. Draws(a \o b \o c \o d, msgs, sys \cup usr \cup salvaged \cup kept)
    BY <1>1, <1>5, <1>8, DrawsConcat
  <1>10. ASSUME CalledOnce(msgs), ResultsFollow(msgs)
         PROVE  ResultsFollow(a \o b \o c \o d)
    <2>1. /\ \A i \in sys : msgs[i].role = "system"
          /\ \A i \in usr : msgs[i].role = "user"
      BY <1>3 DEF First, Positions
    <2>2. Closed(msgs, sys) /\ Closed(msgs, usr)
      BY <2>1 DEF Closed
    <2>3. Closed(msgs, salvaged) /\ Closed(msgs, kept)
      BY <1>10, PartsProperties
    <2>4. /\ ResultsFollow(a) /\ ResultsFollow(b) /\ ResultsFollow(c) /\ ResultsFollow(d)
      BY <1>1, <1>4, <2>2, <2>3, PicksFollow
    <2>5. ResultsFollow(a \o b) /\ a \o b \in Seq(MessageTypes)
      BY <1>6, <2>4, FollowsConcat, ConcatProperties
    <2>6. ResultsFollow(a \o b \o c) /\ a \o b \o c \in Seq(MessageTypes)
      BY <1>6, <2>4, <2>5, FollowsConcat, ConcatProperties
    <2>7. QED
      BY <1>6, <2>4, <2>6, FollowsConcat
  <1>11. Len(a \o b \o c \o d) <= Cardinality(sys) + 1 + Max({KeepLast, 1}) + 2
    <2>1. /\ Len(a) = Cardinality(sys) /\ Len(b) = Cardinality(usr)
          /\ Len(c) = Cardinality(salvaged) /\ Len(d) = Cardinality(kept)
      BY <1>1, <1>5, DrawsLength
    <2>2. Len(b) <= 1
      <3>1. Cardinality(usr) \in {0, 1}
        BY <1>2, FS_EmptySet, FS_Singleton
      <3>2. QED
        BY <2>1, <3>1
    <2>3. Len(c) <= 2
      <3>1. CASE salvaged = {}
        BY <2>1, <3>1, FS_EmptySet
      <3>2. CASE \E i, j : salvaged \in SUBSET {i, j}
        <4>1. PICK i, j : salvaged \in SUBSET {i, j}
          BY <3>2
        <4>2. IsFiniteSet({i, j}) /\ Cardinality({i, j}) <= 2 /\ Cardinality({i, j}) \in Nat
          BY PairSize
        <4>3. Cardinality(salvaged) <= Cardinality({i, j})
          BY <4>1, <4>2, FS_Subset
        <4>4. Len(c) \in Nat
          BY <1>6, LenProperties
        <4>5. QED
          BY <2>1, <4>2, <4>3, <4>4
      <3>3. QED
        BY <1>2, <3>1, <3>2
    <2>4. last = Max({KeepLast, 1}) /\ last \in Nat /\ Len(d) <= last
      BY <1>2, <2>1, KeptTail DEF last
    <2>5. Len(a \o b \o c \o d) = Len(a) + Len(b) + Len(c) + Len(d)
          /\ Len(a) \in Nat /\ Len(b) \in Nat /\ Len(c) \in Nat /\ Len(d) \in Nat
      <3>1. /\ Len(a) \in Nat /\ Len(b) \in Nat /\ Len(c) \in Nat /\ Len(d) \in Nat
        BY <1>6, LenProperties
      <3>2. Len(a \o b) = Len(a) + Len(b) /\ a \o b \in Seq(MessageTypes)
        BY <1>6, ConcatProperties, Zenon
      <3>3. Len(a \o b \o c) = Len(a \o b) + Len(c) /\ a \o b \o c \in Seq(MessageTypes)
        BY <1>6, <3>2, ConcatProperties, Zenon
      <3>4. Len(a \o b \o c \o d) = Len(a \o b \o c) + Len(d)
        BY <1>6, <3>3, ConcatProperties, Zenon
      <3> DEFINE i == Len(a)
                 j == Len(b)
                 k == Len(c)
                 l == Len(d)
      <3>5. Len(a \o b \o c \o d) = i + j + k + l
        BY <3>2, <3>3, <3>4, Zenon
      <3>6. QED
        BY <3>1, <3>5
    <2>6. QED
      BY <2>1, <2>2, <2>3, <2>4, <2>5, SMTT(30)
  <1>12. QED
    BY <1>1, <1>9, <1>10, <1>11 DEF a, b, c, d

\* prune_messages keeps the head, the task and the pairing of results, within its bound.
LEMMA PruneMessagesShortens ==
  ASSUME NEW msgs \in Seq(MessageTypes), msgs # <<>>, msgs[1].role = "system"
  PROVE  LET q == PruneMessages(msgs)
         IN  /\ Shortens(q, msgs)
             /\ Len(q) <= Cardinality(Positions(q, "system")) + 1 + Max({KeepLast, 1}) + 2
  <1>1. PICK sys, usr, salvaged, kept :
          /\ Parts(msgs, sys, usr, salvaged, kept)
          /\ PruneMessages(msgs)
               = At(msgs, sys) \o At(msgs, usr) \o At(msgs, salvaged) \o At(msgs, kept)
    BY PruneMessagesParts, Zenon
  <1> DEFINE n == Len(msgs)
             K == sys \cup usr \cup salvaged \cup kept
             a == At(msgs, sys)
             b == At(msgs, usr)
             c == At(msgs, salvaged)
             d == At(msgs, kept)
             q == a \o b \o c \o d
  <1>2. /\ Draws(q, msgs, K) /\ K \in SUBSET (1 .. n)
        /\ CalledOnce(msgs) /\ ResultsFollow(msgs) => ResultsFollow(q)
        /\ Len(q) <= Cardinality(sys) + 1 + Max({KeepLast, 1}) + 2
    BY <1>1, PartsDrawn
  <1>3. /\ sys \in SUBSET (1 .. Len(msgs)) /\ usr \in SUBSET (1 .. Len(msgs))
        /\ salvaged \in SUBSET (1 .. Len(msgs)) /\ kept \in SUBSET (1 .. Len(msgs))
    BY <1>1, PartsProperties
  <1>4. sys = Positions(msgs, "system") /\ usr = First(Positions(msgs, "user"))
    BY <1>1 DEF Parts
  <1>5. /\ Picks(a, msgs, sys) /\ Picks(b, msgs, usr) /\ Picks(c, msgs, salvaged)
        /\ Picks(d, msgs, kept)
    BY <1>3, AtPicks
  <1>6. /\ Len(msgs) \in Nat /\ 1 \in sys
    <2>1. Len(msgs) \in Nat /\ 1 \in 1 .. Len(msgs)
      BY EmptySeq
    <2>2. QED
      BY <1>4, <2>1 DEF Positions
  <1>7. PruneMessages(msgs) = q
    BY <1>1
  <1> HIDE DEF a, b, c, d, K
  <1>8. /\ a \in Seq(MessageTypes) /\ b \in Seq(MessageTypes) /\ c \in Seq(MessageTypes)
        /\ d \in Seq(MessageTypes)
    BY <1>5 DEF Picks
  <1> DEFINE r == b \o c \o d
  <1>9. q = a \o r /\ r \in Seq(MessageTypes) /\ q \in Seq(MessageTypes)
        /\ Len(q) = Len(a) + Len(r) /\ Len(a) \in Nat /\ Len(r) \in Nat
        /\ \A i \in 1 .. Len(a) : q[i] = a[i]
    <2>1. b \o c \in Seq(MessageTypes) /\ r \in Seq(MessageTypes)
      BY <1>8, ConcatProperties
    <2>2. q = a \o r
      <3>1. Regroups(a, b, c) /\ Regroups(a, b \o c, d)
        BY <1>8, <2>1, JoinRegroups, Zenon
      <3>2. QED
        BY <3>1, Zenon DEF Regroups
    <2> HIDE DEF r
    <2>3. q \in Seq(MessageTypes)
      BY <1>8, <2>1, <2>2, ConcatProperties, Zenon
    <2>4. Len(a) \in Nat /\ Len(r) \in Nat
      BY <1>8, <2>1, LenProperties, Zenon
    <2> DEFINE s == a \o r
    <2>5. /\ Len(s) = Len(a) + Len(r)
          /\ \A i \in 1 .. Len(a) + Len(r) : s[i] = IF i <= Len(a) THEN a[i] ELSE r[i - Len(a)]
      BY <1>8, <2>1, ConcatProperties
    <2> HIDE DEF s
    <2>6. \A i \in 1 .. Len(a) : s[i] = a[i]
      BY <2>4, <2>5
    <2>7. q = s
      BY <2>2 DEF s
    <2> HIDE DEF q
    <2>8. QED
      BY <2>1, <2>2, <2>3, <2>4, <2>5, <2>6, <2>7
  <1> HIDE DEF q, r
  <1>10. a # <<>> /\ a[1] = msgs[1]
    BY <1>3, <1>5, <1>6, PicksHead
  <1>11. q # <<>> /\ q[1] = msgs[1]
    <2>1. 1 \in 1 .. Len(a) /\ Len(q) # 0
      BY <1>8, <1>9, <1>10, EmptySeq
    <2>2. QED
      BY <1>9, <1>10, <2>1, EmptySeq
  <1>12. /\ Len(q) = Cardinality(K) /\ Len(q) <= Len(msgs)
         /\ \A i \in 1 .. Len(q) : \E k \in 1 .. Len(msgs) : q[i] = msgs[k]
         /\ AnsweredOnce(msgs) => AnsweredOnce(q)
         /\ CalledOnce(msgs) => CalledOnce(q)
    <2>1. Len(q) = Cardinality(K) /\ Len(q) <= Len(msgs)
      BY <1>2, DrawsLength
    <2>2. /\ \A i \in 1 .. Len(q) : \E k \in K : q[i] = msgs[k]
          /\ AnsweredOnce(msgs) => AnsweredOnce(q)
          /\ CalledOnce(msgs) => CalledOnce(q)
      BY <1>2, DrawsEach
    <2>3. QED
      BY <1>2, <2>1, <2>2
  <1>13. \A i \in 1 .. Len(a) : a[i].role = "system"
    <2>1. Draws(a, msgs, sys)
      BY <1>3, <1>5, PicksDraws
    <2>2. PICK pos : Drawing(pos, a, msgs, sys)
      BY <2>1 DEF Draws
    <2>3. \A i \in 1 .. Len(a) : a[i] = msgs[pos[i]] /\ pos[i] \in sys
      BY <2>2 DEF Drawing
    <2>4. QED
      BY <1>4, <2>3 DEF Positions
  <1>14. ASSUME NEW x, Task(msgs, x)
         PROVE  Task(q, x)
    <2>1. PICK i \in 1 .. Len(msgs) :
            /\ usr = {i} /\ msgs[i] = x /\ x.role = "user"
            /\ \A j \in 1 .. Len(msgs) : j < i => msgs[j].role # "user"
      BY <1>4, <1>14, TaskFirst
    <2>2. Task(b, x)
      BY <1>3, <1>5, <2>1, TaskPicked
    <2>3. Task(b \o c, x) /\ b \o c \in Seq(MessageTypes)
      BY <1>8, <2>2, TaskConcat, ConcatProperties
    <2>4. Task(r, x)
      BY <1>8, <2>3, TaskConcat DEF r
    <2>5. \A j \in 1 .. Len(a) : a[j].role # "user"
      BY <1>13
    <2>6. QED
      BY <1>8, <1>9, <2>4, <2>5, TaskConcat
  <1>15. Cardinality(sys) <= Cardinality(Positions(q, "system"))
         /\ Cardinality(sys) \in Nat /\ Cardinality(Positions(q, "system")) \in Nat
    <2>1. Len(a) = Cardinality(sys)
      BY <1>3, <1>5, PicksDraws, DrawsLength
    <2>2. 1 .. Len(a) \in SUBSET Positions(q, "system")
      BY <1>9, <1>13 DEF Positions
    <2>3. Positions(q, "system") \in SUBSET (1 .. Len(q)) /\ Len(q) \in Nat
      BY <1>9, LenProperties DEF Positions
    <2>4. IsFiniteSet(Positions(q, "system")) /\ Cardinality(Positions(q, "system")) \in Nat
      BY <2>3, FinitePositions
    <2>5. Cardinality(1 .. Len(a)) <= Cardinality(Positions(q, "system"))
      BY <2>2, <2>4, FS_Subset
    <2>6. Cardinality(1 .. Len(a)) = Len(a)
      <3>1. Cardinality(1 .. Len(a)) = IF 1 > Len(a) THEN 0 ELSE Len(a) - 1 + 1
        <4>1. 1 \in Int /\ Len(a) \in Int
          BY <1>9
        <4>2. QED
          BY <4>1, FS_Interval
      <3>2. QED
        BY <1>9, <3>1
    <2>7. QED
      BY <1>9, <2>1, <2>4, <2>5, <2>6
  <1>16. Shortens(q, msgs)
    BY <1>2, <1>9, <1>11, <1>12, <1>14, Zenon DEF Shortens
  <1>17. Len(q) <= Cardinality(Positions(q, "system")) + 1 + Max({KeepLast, 1}) + 2
    <2>1. Max({KeepLast, 1}) \in Nat
      BY KeptTail
    <2>2. QED
      BY <1>2, <1>9, <1>15, <2>1, SMTT(30)
  <1>18. QED
    BY <1>7, <1>16, <1>17, Zenon

-----------------------------------------------------------------------------
(* Conversations an agent can have.                                        *)

\* The calls are those of steps up to n and none is in gone; so are the calls answered.
Numbered(msgs, n, gone) ==
  \A i \in 1 .. Len(msgs) :
    /\ \A id \in CallIds(msgs[i]) : id[1] \in 0 .. n /\ id \notin gone
    /\ msgs[i].role = "tool" => msgs[i].answers[1] \in 0 .. n

\* What the loop keeps of the conversation, between any two messages it adds.
Sound(msgs, n, gone) ==
  /\ msgs \in Seq(MessageTypes) /\ msgs # <<>> /\ msgs[1] = System
  /\ CalledOnce(msgs) /\ AnsweredOnce(msgs)
  /\ Numbered(msgs, n, gone)
  /\ Prescan => ResultsFollow(msgs)

\* What shortens a conversation keeps it sound.
LEMMA SoundShorter ==
  ASSUME NEW msgs, NEW n, NEW gone, Sound(msgs, n, gone), NEW q, Shortens(q, msgs)
  PROVE  Sound(q, n, gone)
  <1>1. /\ q \in Seq(MessageTypes) /\ q # <<>> /\ q[1] = System
        /\ CalledOnce(q) /\ AnsweredOnce(q)
        /\ Prescan => ResultsFollow(q)
    BY DEF Sound, Shortens
  <1>2. \A i \in 1 .. Len(q) : \E k \in 1 .. Len(msgs) : q[i] = msgs[k]
    BY DEF Shortens
  <1>3. Numbered(msgs, n, gone)
    BY DEF Sound
  <1>4. ASSUME NEW i \in 1 .. Len(q)
        PROVE  /\ \A id \in CallIds(q[i]) : id[1] \in 0 .. n /\ id \notin gone
               /\ q[i].role = "tool" => q[i].answers[1] \in 0 .. n
    <2>1. PICK k \in 1 .. Len(msgs) : q[i] = msgs[k]
      BY <1>2
    <2>2. QED
      BY <1>3, <2>1 DEF Numbered
  <1>5. Numbered(q, n, gone)
    BY <1>4 DEF Numbered
  <1>6. QED
    BY <1>1, <1>5 DEF Sound

\* A conversation stays sound in the next step.
LEMMA SoundLater ==
  ASSUME NEW msgs, NEW n \in Int, NEW m \in Int, n <= m, NEW gone, Sound(msgs, n, gone)
  PROVE  Sound(msgs, m, gone)
  <1>1. 0 .. n \in SUBSET (0 .. m)
    OBVIOUS
  <1>2. Numbered(msgs, m, gone)
    BY <1>1 DEF Sound, Numbered
  <1>3. QED
    BY <1>2 DEF Sound

\* One more message, whatever it is.
LEMMA OneMore ==
  ASSUME NEW msgs \in Seq(MessageTypes), msgs # <<>>, msgs[1] = System, NEW m \in MessageTypes
  PROVE  /\ Append(msgs, m) \in Seq(MessageTypes) /\ Append(msgs, m) # <<>>
         /\ Append(msgs, m)[1] = System
         /\ Len(Append(msgs, m)) = Len(msgs) + 1 /\ Len(msgs) \in Nat
         /\ Append(msgs, m)[Len(msgs) + 1] = m
         /\ \A i \in 1 .. Len(msgs) : Append(msgs, m)[i] = msgs[i]
         /\ \A i \in 1 .. Len(msgs) + 1 : i \in 1 .. Len(msgs) \/ i = Len(msgs) + 1
         /\ \A x : Task(msgs, x) => Task(Append(msgs, m), x)
  <1>1. /\ Append(msgs, m) \in Seq(MessageTypes)
        /\ Len(Append(msgs, m)) = Len(msgs) + 1 /\ Len(msgs) \in Nat
        /\ Append(msgs, m)[Len(msgs) + 1] = m
        /\ \A i \in 1 .. Len(msgs) : Append(msgs, m)[i] = msgs[i]
        /\ \A i \in 1 .. Len(msgs) + 1 : i \in 1 .. Len(msgs) \/ i = Len(msgs) + 1
    BY AppendProperties, LenProperties
  <1>2. 1 \in 1 .. Len(msgs)
    BY EmptySeq
  <1>3. Append(msgs, m)[1] = System
    BY <1>1, <1>2
  <1>4. Append(msgs, m) # <<>>
    BY <1>1, EmptySeq
  <1>5. ASSUME NEW x, Task(msgs, x)
        PROVE  Task(Append(msgs, m), x)
    <2>1. PICK i \in 1 .. Len(msgs) : /\ msgs[i] = x /\ x.role = "user"
                                      /\ \A j \in 1 .. Len(msgs) : j < i => msgs[j].role # "user"
      BY <1>5 DEF Task
    <2>2. i \in 1 .. Len(Append(msgs, m)) /\ Append(msgs, m)[i] = x
      BY <1>1, <2>1
    <2>3. ASSUME NEW j \in 1 .. Len(Append(msgs, m)), j < i
          PROVE  Append(msgs, m)[j].role # "user"
      <3>1. j \in 1 .. Len(msgs)
        BY <1>1, <2>3
      <3>2. QED
        BY <1>1, <2>1, <2>3, <3>1
    <2>4. QED
      BY <2>1, <2>2, <2>3 DEF Task
  <1>6. QED
    BY <1>1, <1>3, <1>4, <1>5

\* A message that is no result, with calls of this step only.
LEMMA SoundCaller ==
  ASSUME NEW msgs, NEW n \in Nat, NEW gone, Sound(msgs, n - 1, gone),
         NEW m \in MessageTypes, m.role # "tool", NEW more,
         \A id \in more : id \in gone \/ id[1] = n,
         \A id \in CallIds(m) : id[1] = n /\ id \notin more
  PROVE  Sound(Append(msgs, m), n, more)
  <1> DEFINE q == Append(msgs, m)
             l == Len(msgs)
  <1>1. /\ msgs \in Seq(MessageTypes) /\ msgs # <<>> /\ msgs[1] = System
        /\ CalledOnce(msgs) /\ AnsweredOnce(msgs) /\ Numbered(msgs, n - 1, gone)
        /\ Prescan => ResultsFollow(msgs)
    BY DEF Sound
  <1>2. /\ q \in Seq(MessageTypes) /\ q # <<>> /\ q[1] = System
        /\ Len(q) = l + 1 /\ l \in Nat /\ q[l + 1] = m
        /\ \A i \in 1 .. l : q[i] = msgs[i]
        /\ \A i \in 1 .. l + 1 : i \in 1 .. l \/ i = l + 1
    BY <1>1, OneMore
  <1> HIDE DEF q, l
  <1>3. \A i \in 1 .. l : \A id \in CallIds(msgs[i]) :
           id[1] \in 0 .. n /\ id[1] # n /\ id \notin gone /\ id \notin more
    <2>1. \A i \in 1 .. l : \A id \in CallIds(msgs[i]) : id[1] \in 0 .. n - 1 /\ id \notin gone
      BY <1>1 DEF Numbered, l
    <2>2. QED
      BY <2>1
  <1>4. \A i \in 1 .. l : msgs[i].role = "tool" => msgs[i].answers[1] \in 0 .. n
    <2>1. \A i \in 1 .. l : msgs[i].role = "tool" => msgs[i].answers[1] \in 0 .. n - 1
      BY <1>1 DEF Numbered, l
    <2>2. QED
      BY <2>1
  <1>5. Numbered(q, n, more)
    <2>1. \A id \in CallIds(m) : id[1] \in 0 .. n /\ id \notin more
      OBVIOUS
    <2>2. ASSUME NEW i \in 1 .. l + 1
          PROVE  /\ \A id \in CallIds(q[i]) : id[1] \in 0 .. n /\ id \notin more
                 /\ q[i].role = "tool" => q[i].answers[1] \in 0 .. n
      <3>1. CASE i \in 1 .. l
        <4>1. q[i] = msgs[i]
          BY <1>2, <3>1
        <4>2. QED
          BY <1>3, <1>4, <3>1, <4>1
      <3>2. CASE i = l + 1
        BY <1>2, <2>1, <3>2
      <3>3. QED
        BY <1>2, <3>1, <3>2
    <2>3. QED
      BY <1>2, <2>2 DEF Numbered
  <1>6. CalledOnce(q)
    <2>1. ASSUME NEW i \in 1 .. l, NEW k \in 1 .. l, i # k
          PROVE  CallIds(q[i]) \cap CallIds(q[k]) = {}
      BY <1>1, <1>2, <2>1 DEF CalledOnce, l
    <2>2. ASSUME NEW i \in 1 .. l
          PROVE  CallIds(q[i]) \cap CallIds(m) = {}
      BY <1>2, <1>3
    <2>3. ASSUME NEW i \in 1 .. l + 1, NEW k \in 1 .. l + 1, i # k
          PROVE  CallIds(q[i]) \cap CallIds(q[k]) = {}
      <3> HIDE DEF CallIds
      <3>1. \/ i \in 1 .. l /\ k \in 1 .. l
            \/ i = l + 1 /\ k \in 1 .. l
            \/ i \in 1 .. l /\ k = l + 1
        BY <1>2, <2>3
      <3>2. QED
        BY <1>2, <2>1, <2>2, <2>3, <3>1
    <2>4. QED
      BY <1>2, <2>3 DEF CalledOnce
  <1>7. AnsweredOnce(q)
    <2>1. Positions(q, "tool") = Positions(msgs, "tool")
      <3>1. \A i \in 1 .. l + 1 : q[i].role = "tool" <=> i \in 1 .. l /\ msgs[i].role = "tool"
        BY <1>2
      <3>2. \A i \in 1 .. l : i \in 1 .. l + 1
        BY <1>2
      <3>3. QED
        BY <1>2, <3>1, <3>2 DEF Positions, l
    <2>2. \A i \in Positions(msgs, "tool") : q[i] = msgs[i]
      BY <1>2 DEF Positions, l
    <2>3. QED
      BY <1>1, <2>1, <2>2 DEF AnsweredOnce
  <1>8. ASSUME Prescan PROVE ResultsFollow(q)
    <2>1. <<m>> \in Seq(MessageTypes) /\ ResultsFollow(<<m>>)
      <3>1. \A i \in 1 .. Len(<<m>>) : <<m>>[i].role # "tool"
        OBVIOUS
      <3>2. QED
        BY <3>1, NoResults
    <2>2. q = msgs \o <<m>>
      BY <1>1 DEF q
    <2>3. QED
      BY <1>1, <1>8, <2>1, <2>2, FollowsConcat
  <1>9. QED
    BY <1>2, <1>5, <1>6, <1>7, <1>8 DEF Sound, q

\* A message that is no result and has no calls.
LEMMA SoundPlain ==
  ASSUME NEW msgs, NEW n \in Int, NEW gone, Sound(msgs, n, gone),
         NEW m \in MessageTypes, m.role # "tool", m.calls = <<>>
  PROVE  Sound(Append(msgs, m), n, gone)
  <1> DEFINE q == Append(msgs, m)
             l == Len(msgs)
  <1>1. /\ msgs \in Seq(MessageTypes) /\ msgs # <<>> /\ msgs[1] = System
        /\ CalledOnce(msgs) /\ AnsweredOnce(msgs) /\ Numbered(msgs, n, gone)
        /\ Prescan => ResultsFollow(msgs)
    BY DEF Sound
  <1>2. /\ q \in Seq(MessageTypes) /\ q # <<>> /\ q[1] = System
        /\ Len(q) = l + 1 /\ l \in Nat /\ q[l + 1] = m
        /\ \A i \in 1 .. l : q[i] = msgs[i]
        /\ \A i \in 1 .. l + 1 : i \in 1 .. l \/ i = l + 1
    BY <1>1, OneMore
  <1>3. CallIds(m) = {}
    BY DEF CallIds
  <1> HIDE DEF q, l
  <1>4. Numbered(q, n, gone)
    <2>1. ASSUME NEW i \in 1 .. l + 1
          PROVE  /\ \A id \in CallIds(q[i]) : id[1] \in 0 .. n /\ id \notin gone
                 /\ q[i].role = "tool" => q[i].answers[1] \in 0 .. n
      <3>1. CASE i \in 1 .. l
        <4>1. q[i] = msgs[i]
          BY <1>2, <3>1
        <4>2. QED
          BY <1>1, <3>1, <4>1 DEF Numbered, l
      <3>2. CASE i = l + 1
        BY <1>2, <1>3, <3>2
      <3>3. QED
        BY <1>2, <3>1, <3>2
    <2>2. QED
      BY <1>2, <2>1 DEF Numbered
  <1>5. CalledOnce(q)
    <2>1. ASSUME NEW i \in 1 .. l, NEW k \in 1 .. l, i # k
          PROVE  CallIds(q[i]) \cap CallIds(q[k]) = {}
      BY <1>1, <1>2, <2>1 DEF CalledOnce, l
    <2>2. ASSUME NEW i \in 1 .. l + 1, NEW k \in 1 .. l + 1, i # k
          PROVE  CallIds(q[i]) \cap CallIds(q[k]) = {}
      <3> HIDE DEF CallIds
      <3>1. \/ i \in 1 .. l /\ k \in 1 .. l
            \/ i = l + 1
            \/ k = l + 1
        BY <1>2, <2>2
      <3>2. QED
        BY <1>2, <1>3, <2>1, <2>2, <3>1
    <2>3. QED
      BY <1>2, <2>2 DEF CalledOnce
  <1>6. AnsweredOnce(q)
    <2>1. Positions(q, "tool") = Positions(msgs, "tool")
      <3>1. \A i \in 1 .. l + 1 : q[i].role = "tool" <=> i \in 1 .. l /\ msgs[i].role = "tool"
        BY <1>2
      <3>2. \A i \in 1 .. l : i \in 1 .. l + 1
        BY <1>2
      <3>3. QED
        BY <1>2, <3>1, <3>2 DEF Positions, l
    <2>2. \A i \in Positions(msgs, "tool") : q[i] = msgs[i]
      BY <1>2 DEF Positions, l
    <2>3. QED
      BY <1>1, <2>1, <2>2 DEF AnsweredOnce
  <1>7. ASSUME Prescan PROVE ResultsFollow(q)
    <2>1. <<m>> \in Seq(MessageTypes) /\ ResultsFollow(<<m>>)
      <3>1. \A i \in 1 .. Len(<<m>>) : <<m>>[i].role # "tool"
        OBVIOUS
      <3>2. QED
        BY <3>1, NoResults
    <2>2. q = msgs \o <<m>>
      BY <1>1 DEF q
    <2>3. QED
      BY <1>1, <1>7, <2>1, <2>2, FollowsConcat
  <1>8. QED
    BY <1>2, <1>4, <1>5, <1>6, <1>7 DEF Sound, q

\* A result, of a call that has none yet.
LEMMA SoundResult ==
  ASSUME NEW msgs, NEW n \in Int, NEW gone, Sound(msgs, n, gone),
         NEW id \in Ids, id[1] \in 0 .. n,
         \A i \in Positions(msgs, "tool") : msgs[i].answers # id,
         Prescan => \E j \in Positions(msgs, "assistant") :
                      /\ id \in CallIds(msgs[j])
                      /\ \A k \in 1 .. Len(msgs) : j < k => msgs[k].role = "tool"
  PROVE  Sound(Append(msgs, ToolResult(id)), n, gone)
  <1> DEFINE m == ToolResult(id)
             q == Append(msgs, m)
             l == Len(msgs)
  <1>1. /\ msgs \in Seq(MessageTypes) /\ msgs # <<>> /\ msgs[1] = System
        /\ CalledOnce(msgs) /\ AnsweredOnce(msgs) /\ Numbered(msgs, n, gone)
        /\ Prescan => ResultsFollow(msgs)
    BY DEF Sound
  <1>2. m \in MessageTypes /\ m.role = "tool" /\ m.answers = id /\ m.calls = <<>>
    BY EmptySeq DEF ToolResult, MessageTypes, Roles, Texts
  <1>3. /\ q \in Seq(MessageTypes) /\ q # <<>> /\ q[1] = System
        /\ Len(q) = l + 1 /\ l \in Nat /\ q[l + 1] = m
        /\ \A i \in 1 .. l : q[i] = msgs[i]
        /\ \A i \in 1 .. l + 1 : i \in 1 .. l \/ i = l + 1
        /\ \A i \in 1 .. l : i \in 1 .. l + 1
    <2>1. \A i \in 1 .. l : i \in 1 .. l + 1
      BY <1>1, LenProperties
    <2> HIDE DEF m
    <2>2. QED
      BY <1>1, <1>2, <2>1, OneMore
  <1>4. CallIds(m) = {}
    BY <1>2 DEF CallIds
  <1> HIDE DEF q, l, m
  <1>5. Numbered(q, n, gone)
    <2>1. ASSUME NEW i \in 1 .. l + 1
          PROVE  /\ \A c \in CallIds(q[i]) : c[1] \in 0 .. n /\ c \notin gone
                 /\ q[i].role = "tool" => q[i].answers[1] \in 0 .. n
      <3>1. CASE i \in 1 .. l
        <4>1. q[i] = msgs[i]
          BY <1>3, <3>1
        <4>2. QED
          BY <1>1, <3>1, <4>1 DEF Numbered, l
      <3>2. CASE i = l + 1
        BY <1>2, <1>3, <1>4, <3>2
      <3>3. QED
        BY <1>3, <3>1, <3>2
    <2>2. QED
      BY <1>3, <2>1 DEF Numbered
  <1>6. CalledOnce(q)
    <2>1. ASSUME NEW i \in 1 .. l, NEW k \in 1 .. l, i # k
          PROVE  CallIds(q[i]) \cap CallIds(q[k]) = {}
      BY <1>1, <1>3, <2>1 DEF CalledOnce, l
    <2>2. ASSUME NEW i \in 1 .. l + 1, NEW k \in 1 .. l + 1, i # k
          PROVE  CallIds(q[i]) \cap CallIds(q[k]) = {}
      <3> HIDE DEF CallIds
      <3>1. \/ i \in 1 .. l /\ k \in 1 .. l
            \/ i = l + 1
            \/ k = l + 1
        BY <1>3, <2>2
      <3>2. QED
        BY <1>3, <1>4, <2>1, <2>2, <3>1
    <2>3. QED
      BY <1>3, <2>2 DEF CalledOnce
  <1>7. \A i \in Positions(q, "tool") : i = l + 1 \/ (i \in Positions(msgs, "tool") /\ q[i] = msgs[i])
    BY <1>3 DEF Positions, l
  <1>8. AnsweredOnce(q)
    <2>1. ASSUME NEW i \in Positions(q, "tool"), NEW k \in Positions(q, "tool"),
                 q[i].answers = q[k].answers
          PROVE  i = k
      <3>1. CASE i \in Positions(msgs, "tool") /\ q[i] = msgs[i]
        <4>1. CASE k \in Positions(msgs, "tool") /\ q[k] = msgs[k]
          BY <1>1, <2>1, <3>1, <4>1 DEF AnsweredOnce
        <4>2. CASE k = l + 1
          BY <1>2, <1>3, <2>1, <3>1, <4>2
        <4>3. QED
          BY <1>7, <4>1, <4>2
      <3>2. CASE i = l + 1
        <4>1. CASE k \in Positions(msgs, "tool") /\ q[k] = msgs[k]
          BY <1>2, <1>3, <2>1, <3>2, <4>1
        <4>2. CASE k = l + 1
          BY <3>2, <4>2
        <4>3. QED
          BY <1>7, <4>1, <4>2
      <3>3. QED
        BY <1>7, <3>1, <3>2
    <2>2. QED
      BY <2>1 DEF AnsweredOnce
  <1>9. ASSUME Prescan PROVE ResultsFollow(q)
    <2>1. ASSUME NEW i \in Positions(q, "tool")
          PROVE  \E j \in Positions(q, "assistant") :
                   /\ j < i /\ q[i].answers \in CallIds(q[j])
                   /\ \A k \in 1 .. Len(q) : j < k /\ k < i => q[k].role = "tool"
      <3>1. CASE i \in Positions(msgs, "tool") /\ q[i] = msgs[i]
        <4>1. PICK j \in Positions(msgs, "assistant") :
                /\ j < i /\ msgs[i].answers \in CallIds(msgs[j])
                /\ \A k \in 1 .. Len(msgs) : j < k /\ k < i => msgs[k].role = "tool"
          BY <1>1, <1>9, <3>1 DEF ResultsFollow
        <4>2. j \in 1 .. l /\ q[j] = msgs[j] /\ j \in Positions(q, "assistant") /\ i \in 1 .. l
          BY <1>3, <3>1, <4>1 DEF Positions, l
        <4>3. ASSUME NEW k \in 1 .. l + 1, j < k, k < i
              PROVE  q[k].role = "tool"
          <5>1. k \in 1 .. l
            BY <1>3, <4>2, <4>3
          <5>2. q[k] = msgs[k]
            BY <1>3, <5>1
          <5>3. QED
            BY <4>1, <4>3, <5>1, <5>2 DEF l
        <4>4. QED
          BY <1>3, <3>1, <4>1, <4>2, <4>3
      <3>2. CASE i = l + 1
        <4>1. PICK j \in Positions(msgs, "assistant") :
                /\ id \in CallIds(msgs[j])
                /\ \A k \in 1 .. Len(msgs) : j < k => msgs[k].role = "tool"
          BY <1>9
        <4>2. j \in 1 .. l /\ q[j] = msgs[j] /\ j \in Positions(q, "assistant") /\ j < i
          BY <1>3, <3>2, <4>1 DEF Positions, l
        <4>3. ASSUME NEW k \in 1 .. l + 1, j < k, k < i
              PROVE  q[k].role = "tool"
          <5>1. k \in 1 .. l
            BY <1>3, <3>2, <4>3
          <5>2. q[k] = msgs[k]
            BY <1>3, <5>1
          <5>3. QED
            BY <4>1, <4>3, <5>1, <5>2 DEF l
        <4>4. q[i].answers = id
          BY <1>2, <1>3, <3>2
        <4>5. QED
          BY <1>3, <4>1, <4>2, <4>3, <4>4
      <3>3. QED
        BY <1>7, <3>1, <3>2
    <2>2. QED
      BY <2>1 DEF ResultsFollow
  <1>10. QED
    BY <1>3, <1>5, <1>6, <1>8, <1>9 DEF Sound, q, m

\* The messages the loop writes itself.
LEMMA PlainMessages ==
  /\ System \in MessageTypes /\ System.role = "system" /\ System.calls = <<>>
  /\ \A text \in Texts :
       /\ User(text) \in MessageTypes /\ User(text).role = "user" /\ User(text).calls = <<>>
       /\ \A calls \in Seq(CallTypes) :
            /\ Assistant(text, calls) \in MessageTypes
            /\ Assistant(text, calls).role = "assistant"
            /\ Assistant(text, calls).calls = calls
  <1>1. <<>> \in Seq(CallTypes)
    BY EmptySeq
  <1>2. QED
    BY <1>1 DEF System, User, Assistant, MessageTypes, Roles, Texts

\* The conversation after an overflow.
LEMMA SoundOverflowed ==
  ASSUME NEW msgs, NEW n \in Int, NEW gone, Sound(msgs, n, gone)
  PROVE  /\ Sound(Overflowed(msgs), n, gone)
         /\ \A x : Task(msgs, x) => Task(Overflowed(msgs), x)
  <1> DEFINE q == Append(msgs, User("hint"))
  <1>1. User("hint") \in MessageTypes /\ User("hint").role # "tool" /\ User("hint").calls = <<>>
    BY PlainMessages DEF Texts
  <1>2. Sound(q, n, gone)
    BY <1>1, SoundPlain
  <1>3. msgs \in Seq(MessageTypes) /\ msgs # <<>> /\ msgs[1] = System
    BY DEF Sound
  <1>4. \A x : Task(msgs, x) => Task(q, x)
    BY <1>1, <1>3, OneMore
  <1> HIDE DEF q
  <1>5. q \in Seq(MessageTypes) /\ q # <<>> /\ q[1].role = "system"
    BY <1>2, PlainMessages DEF Sound
  <1>6. Shortens(PruneMessages(q), q)
    BY <1>5, PruneMessagesShortens
  <1>7. Sound(PruneMessages(q), n, gone)
    BY <1>2, <1>6, SoundShorter
  <1>8. \A x : Task(q, x) => Task(PruneMessages(q), x)
    BY <1>6 DEF Shortens
  <1>9. Overflowed(msgs) = PruneMessages(q)
    BY DEF Overflowed, q
  <1>10. QED
    BY <1>4, <1>7, <1>8, <1>9

\* What _prune_history and prune_messages leave of a conversation at the top of the loop.
LEMMA SoundShortened ==
  ASSUME NEW msgs, NEW n, NEW gone, Sound(msgs, n, gone)
  PROVE  LET q == Shortened(msgs)
         IN  /\ Sound(q, n, gone)
             /\ \A x : Task(msgs, x) => Task(q, x)
             /\ Len(q) <= Len(msgs)
             /\ Window # 0 => Len(q) <= Window + 2
             /\ PruneAfter # NoLimit =>
                  \/ Len(q) <= PruneAfter
                  \/ Len(q) <= Cardinality(Positions(q, "system")) + 1 + Max({KeepLast, 1}) + 2
  <1> DEFINE recent == PruneHistory(msgs)
             q == PruneMessages(recent)
  <1>1. msgs \in Seq(MessageTypes) /\ msgs # <<>> /\ msgs[1].role = "system"
    BY PlainMessages DEF Sound
  <1>2. Shortens(recent, msgs) /\ (Window # 0 => Len(recent) <= Window + 2)
    BY <1>1, PruneHistoryShortens
  <1> HIDE DEF recent
  <1>3. Sound(recent, n, gone)
    BY <1>2, SoundShorter
  <1>4. /\ recent \in Seq(MessageTypes) /\ recent # <<>> /\ recent[1].role = "system"
        /\ Len(recent) <= Len(msgs)
        /\ \A x : Task(msgs, x) => Task(recent, x)
    BY <1>1, <1>2 DEF Shortens
  <1>5. /\ Shortens(q, recent)
        /\ Len(q) <= Cardinality(Positions(q, "system")) + 1 + Max({KeepLast, 1}) + 2
    BY <1>4, PruneMessagesShortens
  <1> HIDE DEF q
  <1>6. Sound(q, n, gone)
    BY <1>3, <1>5, SoundShorter
  <1>7. /\ q \in Seq(MessageTypes) /\ Len(q) <= Len(recent)
        /\ \A x : Task(recent, x) => Task(q, x)
    BY <1>5 DEF Shortens
  <1>8. Len(q) \in Nat /\ Len(recent) \in Nat /\ Len(msgs) \in Nat /\ Window \in Nat
    BY <1>1, <1>4, <1>7, LenProperties, ConversationAssumption DEF ConversationAssumption
  <1>9. CASE PruneAfter # NoLimit /\ Len(recent) > PruneAfter
    <2>1. Shortened(msgs) = q
      BY <1>9 DEF Shortened, q, recent
    <2>2. Len(q) <= Len(msgs) /\ (Window # 0 => Len(q) <= Window + 2)
      BY <1>2, <1>4, <1>7, <1>8
    <2>3. QED
      BY <1>4, <1>5, <1>6, <1>7, <2>1, <2>2
  <1>10. CASE ~(PruneAfter # NoLimit /\ Len(recent) > PruneAfter)
    <2>1. Shortened(msgs) = recent
      BY <1>10 DEF Shortened, recent
    <2>2. PruneAfter # NoLimit => Len(recent) <= PruneAfter
      <3>1. PruneAfter # NoLimit => PruneAfter \in Nat
        BY AgentAssumption DEF AgentAssumption
      <3>2. QED
        BY <1>8, <1>10, <3>1
    <2>3. QED
      BY <1>2, <1>3, <1>4, <2>1, <2>2
  <1>11. QED
    BY <1>9, <1>10

-----------------------------------------------------------------------------
(* What the tools add.                                                     *)

\* The last message makes the calls of step n, which have no results yet.
Awaiting(msgs, n) ==
  LET calls == Last(msgs).calls
  IN  /\ Last(msgs).role = "assistant"
      /\ \A i \in 1 .. Len(calls) : calls[i].id[1] = n
      /\ \A i, j \in 1 .. Len(calls) : calls[i].id = calls[j].id => i = j
      /\ Prescan /\ Handoffs(calls) # {} => Len(calls) = 1
      /\ \A i \in Positions(msgs, "tool") : msgs[i].answers[1] # n

\* q is msgs with the results of its first i calls.
Answered(q, msgs, n, gone, i) ==
  /\ Sound(q, n, gone)
  /\ Len(msgs) <= Len(q) /\ \A k \in 1 .. Len(msgs) : q[k] = msgs[k]
  /\ \A k \in Positions(q, "tool") :
       \/ q[k].answers[1] # n
       \/ \E c \in 1 .. i : q[k].answers = Last(msgs).calls[c].id
  /\ Prescan /\ (Handoffs(Last(msgs).calls) = {} \/ i = 0) =>
       \A k \in 1 .. Len(q) : Len(msgs) < k => q[k].role = "tool"
  /\ \A x : Task(msgs, x) => Task(q, x)

\* The results of the first i calls are added one call at a time.
LEMMA AnswersAdded ==
  ASSUME NEW msgs \in Seq(MessageTypes), msgs # <<>>, NEW n \in Nat, NEW gone,
         Awaiting(msgs, n), NEW i \in 1 .. Len(Last(msgs).calls), NEW q,
         Answered(q, msgs, n, gone, i - 1)
  PROVE  Answered(q \o Results(Last(msgs).calls[i]), msgs, n, gone, i)
  <1> DEFINE l == Len(msgs)
             calls == Last(msgs).calls
             call == calls[i]
             m == ToolResult(call.id)
             q1 == Append(q, m)
             a == Assistant("report", <<>>)
             b == User("handed back")
             q2 == Append(q1, a)
             q3 == Append(q2, b)
             r == q \o Results(call)
  <1>1. /\ l \in Nat /\ l \in 1 .. l /\ msgs[l] \in MessageTypes /\ Last(msgs) = msgs[l]
    BY EmptySeq, ElementOfSeq DEF Last
  <1>2. /\ calls \in Seq(CallTypes) /\ Len(calls) \in Nat /\ i \in Nat /\ i # 0
        /\ \A c \in 1 .. Len(calls) : calls[c] \in CallTypes
    <2>1. calls \in Seq(CallTypes)
      BY <1>1 DEF MessageTypes
    <2> HIDE DEF calls
    <2>2. Len(calls) \in Nat /\ \A c \in 1 .. Len(calls) : calls[c] \in CallTypes
      BY <2>1, LenProperties, ElementOfSeq
    <2>3. i \in 1 .. Len(calls)
      BY DEF calls
    <2>4. QED
      BY <2>1, <2>2, <2>3
  <1>3. /\ msgs[l].role = "assistant"
        /\ \A c \in 1 .. Len(calls) : calls[c].id[1] = n
        /\ \A c, d \in 1 .. Len(calls) : calls[c].id = calls[d].id => c = d
        /\ Prescan /\ Handoffs(calls) # {} => Len(calls) = 1
    BY <1>1 DEF Awaiting
  <1>4. /\ Sound(q, n, gone)
        /\ l <= Len(q) /\ \A k \in 1 .. l : q[k] = msgs[k]
        /\ \A k \in Positions(q, "tool") :
             \/ q[k].answers[1] # n
             \/ \E c \in 1 .. i - 1 : q[k].answers = calls[c].id
        /\ Prescan /\ (Handoffs(calls) = {} \/ i - 1 = 0) =>
             \A k \in 1 .. Len(q) : l < k => q[k].role = "tool"
        /\ \A x : Task(msgs, x) => Task(q, x)
    BY DEF Answered
  <1>5. i \in 1 .. Len(calls) /\ \A c \in 1 .. i - 1 : c \in 1 .. Len(calls) /\ c # i
    <2>1. i \in 1 .. Len(calls)
      OBVIOUS
    <2> HIDE DEF calls
    <2>2. QED
      BY <1>2, <2>1
  <1>6. msgs[l].calls = calls
    BY <1>1
  <1> HIDE DEF l, calls
  <1>7. call.id \in Ids /\ call.id[1] = n /\ call.handoff \in BOOLEAN
    BY <1>2, <1>3, <1>5 DEF CallTypes
  <1>8. \A k \in Positions(q, "tool") : q[k].answers # call.id
    <2>1. ASSUME NEW k \in Positions(q, "tool"), q[k].answers = call.id
          PROVE  FALSE
      <3>1. PICK c \in 1 .. i - 1 : q[k].answers = calls[c].id
        BY <1>4, <1>7, <2>1
      <3>2. c = i
        BY <1>3, <1>5, <2>1, <3>1
      <3>3. QED
        BY <1>5, <3>1, <3>2
    <2>2. QED
      BY <2>1
  <1>9. q \in Seq(MessageTypes) /\ q # <<>> /\ q[1] = System /\ Len(q) \in Nat
    BY <1>4, LenProperties DEF Sound
  <1>10. ASSUME Prescan
         PROVE  \E j \in Positions(q, "assistant") :
                  /\ call.id \in CallIds(q[j])
                  /\ \A k \in 1 .. Len(q) : j < k => q[k].role = "tool"
    <2>1. q[l] = msgs[l] /\ l \in 1 .. Len(q)
      BY <1>1, <1>4, <1>9
    <2>2. l \in Positions(q, "assistant") /\ call.id \in CallIds(q[l])
      BY <1>3, <1>5, <1>6, <2>1 DEF Positions, CallIds
    <2>3. Handoffs(calls) = {} \/ i - 1 = 0
      BY <1>2, <1>3, <1>5, <1>10
    <2>4. QED
      BY <1>4, <1>10, <2>2, <2>3
  <1> HIDE DEF call
  <1>11. Sound(q1, n, gone)
    <2>1. call.id[1] \in 0 .. n
      BY <1>7
    <2>2. QED
      BY <1>4, <1>7, <1>8, <1>10, <2>1, SoundResult
  <1>12. /\ m \in MessageTypes /\ m.role = "tool" /\ m.answers = call.id
         /\ a \in MessageTypes /\ a.role = "assistant" /\ a.calls = <<>>
         /\ b \in MessageTypes /\ b.role = "user" /\ b.calls = <<>>
    <2>1. m \in MessageTypes /\ m.role = "tool" /\ m.answers = call.id
      BY <1>7, EmptySeq DEF ToolResult, MessageTypes, Roles, Texts
    <2>2. "report" \in Texts /\ "handed back" \in Texts /\ <<>> \in Seq(CallTypes)
      BY EmptySeq DEF Texts
    <2>3. QED
      BY <2>1, <2>2, PlainMessages
  <1> HIDE DEF m, a, b
  <1>13. /\ q1 \in Seq(MessageTypes) /\ q1 # <<>> /\ q1[1] = System
         /\ Len(q1) = Len(q) + 1 /\ q1[Len(q) + 1] = m
         /\ \A k \in 1 .. Len(q) : q1[k] = q[k]
         /\ \A k \in 1 .. Len(q) + 1 : k \in 1 .. Len(q) \/ k = Len(q) + 1
         /\ \A x : Task(q, x) => Task(q1, x)
    BY <1>9, <1>12, OneMore
  <1> HIDE DEF q1
  <1>14. Answered(q1, msgs, n, gone, i) /\ (Prescan /\ Handoffs(calls) = {} =>
            \A k \in 1 .. Len(q1) : l < k => q1[k].role = "tool")
    <2>1. l <= Len(q1) /\ \A k \in 1 .. l : q1[k] = msgs[k]
      BY <1>1, <1>4, <1>9, <1>13, SMTT(30)
    <2>2. ASSUME NEW k \in Positions(q1, "tool")
          PROVE  \/ q1[k].answers[1] # n
                 \/ \E c \in 1 .. i : q1[k].answers = calls[c].id
      <3>1. CASE k = Len(q) + 1
        <4>1. q1[k].answers = calls[i].id /\ i \in 1 .. i
          BY <1>2, <1>12, <1>13, <3>1 DEF call
        <4>2. QED
          BY <4>1
      <3>2. CASE k \in 1 .. Len(q)
        <4>1. q1[k] = q[k] /\ k \in Positions(q, "tool")
          BY <1>13, <2>2, <3>2 DEF Positions
        <4>2. \A c \in 1 .. i - 1 : c \in 1 .. i
          BY <1>2
        <4>3. QED
          BY <1>4, <4>1, <4>2
      <3>3. QED
        BY <1>13, <2>2, <3>1, <3>2 DEF Positions
    <2>3. ASSUME Prescan, Handoffs(calls) = {}, NEW k \in 1 .. Len(q1), l < k
          PROVE  q1[k].role = "tool"
      <3>1. CASE k = Len(q) + 1
        BY <1>12, <1>13, <3>1
      <3>2. CASE k \in 1 .. Len(q)
        BY <1>4, <1>13, <2>3, <3>2
      <3>3. QED
        BY <1>13, <2>3, <3>1, <3>2
    <2>4. \A x : Task(msgs, x) => Task(q1, x)
      BY <1>4, <1>13
    <2>5. QED
      BY <1>2, <1>11, <2>1, <2>2, <2>3, <2>4 DEF Answered, l, calls
  <1>15. CASE ~call.handoff
    <2>1. Results(call) = <<m>>
      BY <1>15 DEF Results, m, ToolResult
    <2>2. r = q1
      BY <1>9, <2>1 DEF q1
    <2>3. QED
      BY <1>14, <2>2 DEF call, calls
  <1>16. CASE call.handoff
    <2>1. Results(call) = <<m>> \o <<a, b>>
      BY <1>16 DEF Results, m, a, b
    <2>2. r = q3
      <3>1. <<m>> \in Seq(MessageTypes) /\ <<a, b>> \in Seq(MessageTypes)
        BY <1>12
      <3>2. q \o (<<m>> \o <<a, b>>) = (q \o <<m>>) \o <<a, b>>
        <4>1. Regroups(q, <<m>>, <<a, b>>)
          BY <1>9, <3>1, JoinRegroups, Zenon
        <4>2. QED
          BY <4>1, Zenon DEF Regroups
      <3>3. q \o <<m>> = q1
        BY <1>9, <1>12 DEF q1
      <3>4. q1 \o <<a, b>> = q3
        BY <1>12, <1>13, SMTT(30)
      <3>5. QED
        BY <2>1, <3>2, <3>3, <3>4
    <2>3. /\ Sound(q2, n, gone) /\ q2 \in Seq(MessageTypes) /\ q2 # <<>> /\ q2[1] = System
          /\ Len(q2) = Len(q1) + 1 /\ q2[Len(q1) + 1] = a /\ Len(q1) \in Nat
          /\ \A k \in 1 .. Len(q1) : q2[k] = q1[k]
          /\ \A k \in 1 .. Len(q1) + 1 : k \in 1 .. Len(q1) \/ k = Len(q1) + 1
          /\ \A x : Task(q1, x) => Task(q2, x)
      <3>1. Sound(q2, n, gone)
        BY <1>11, <1>12, SoundPlain
      <3>2. QED
        BY <1>12, <1>13, <3>1, OneMore
    <2> HIDE DEF q2
    <2>4. /\ Sound(q3, n, gone) /\ q3 \in Seq(MessageTypes)
          /\ Len(q3) = Len(q2) + 1 /\ q3[Len(q2) + 1] = b
          /\ \A k \in 1 .. Len(q2) : q3[k] = q2[k]
          /\ \A k \in 1 .. Len(q2) + 1 : k \in 1 .. Len(q2) \/ k = Len(q2) + 1
          /\ \A x : Task(q2, x) => Task(q3, x)
      <3>1. Sound(q3, n, gone)
        BY <1>12, <2>3, SoundPlain
      <3>2. QED
        BY <1>12, <2>3, <3>1, OneMore
    <2> HIDE DEF q3
    <2>5. /\ l <= Len(q1) /\ \A k \in 1 .. l : q1[k] = msgs[k]
          /\ \A k \in Positions(q1, "tool") :
               \/ q1[k].answers[1] # n
               \/ \E c \in 1 .. i : q1[k].answers = calls[c].id
          /\ \A x : Task(msgs, x) => Task(q1, x)
      BY <1>14 DEF Answered, l, calls
    <2>6. l <= Len(q3) /\ \A k \in 1 .. l : q3[k] = msgs[k]
      BY <1>1, <2>3, <2>4, <2>5, SMTT(30)
    <2>7. \A k \in Positions(q3, "tool") : k \in Positions(q1, "tool") /\ q3[k] = q1[k]
      BY <1>12, <2>3, <2>4 DEF Positions
    <2>8. Handoffs(calls) # {} /\ i # 0
      BY <1>2, <1>5, <1>16 DEF Handoffs, call
    <2>9. \A x : Task(msgs, x) => Task(q3, x)
      BY <2>3, <2>4, <2>5
    <2>10. \A k \in Positions(q3, "tool") :
             \/ q3[k].answers[1] # n
             \/ \E c \in 1 .. i : q3[k].answers = calls[c].id
      BY <2>5, <2>7
    <2>11. Answered(q3, msgs, n, gone, i)
      BY <2>4, <2>6, <2>8, <2>9, <2>10 DEF Answered, l, calls
    <2>12. QED
      BY <2>2, <2>11 DEF call, calls
  <1>17. QED
    BY <1>7, <1>15, <1>16

\* The conversation once the tools have ended.
LEMMA SoundResults ==
  ASSUME NEW msgs, NEW n \in Nat, NEW gone, Sound(msgs, n, gone), Awaiting(msgs, n)
  PROVE  LET calls == Last(msgs).calls
             q == msgs \o FlattenSeq([i \in 1 .. Len(calls) |-> Results(calls[i])])
         IN  Sound(q, n, gone) /\ \A x : Task(msgs, x) => Task(q, x)
  <1> DEFINE calls == Last(msgs).calls
             N == Len(calls)
             seqs == [i \in 1 .. N |-> Results(calls[i])]
  <1>1. msgs \in Seq(MessageTypes) /\ msgs # <<>>
    BY DEF Sound
  <1>2. N \in Nat /\ \A i \in 1 .. N : calls[i] \in CallTypes
    <2>1. Last(msgs) \in MessageTypes
      BY <1>1, EmptySeq, ElementOfSeq DEF Last
    <2>2. calls \in Seq(CallTypes)
      BY <2>1 DEF MessageTypes
    <2> HIDE DEF calls
    <2>3. QED
      BY <2>2, LenProperties, ElementOfSeq
  <1> HIDE DEF calls, N
  <1>3. \A i \in 1 .. N : Results(calls[i]) \in Seq(MessageTypes)
    <2>1. ASSUME NEW c \in CallTypes
          PROVE  Results(c) \in Seq(MessageTypes)
      <3>1. ToolResult(c.id) \in MessageTypes
        BY EmptySeq DEF ToolResult, MessageTypes, Roles, Texts, CallTypes
      <3>2. "report" \in Texts /\ "handed back" \in Texts /\ <<>> \in Seq(CallTypes)
        BY EmptySeq DEF Texts
      <3>3. Assistant("report", <<>>) \in MessageTypes /\ User("handed back") \in MessageTypes
        BY <3>2, PlainMessages
      <3> DEFINE t == ToolResult(c.id)
                 a == Assistant("report", <<>>)
                 b == User("handed back")
      <3>4. t \in MessageTypes /\ a \in MessageTypes /\ b \in MessageTypes
        BY <3>1, <3>3
      <3>5. Results(c) = <<t>> \o IF c.handoff THEN <<a, b>> ELSE <<>>
        BY DEF Results
      <3> HIDE DEF t, a, b
      <3>6. /\ <<t>> \in Seq(MessageTypes) /\ <<a, b>> \in Seq(MessageTypes)
            /\ <<>> \in Seq(MessageTypes)
        BY <3>4
      <3>7. \A y \in Seq(MessageTypes) : <<t>> \o y \in Seq(MessageTypes)
        BY <3>6, ConcatProperties
      <3>8. QED
        BY <3>5, <3>6, <3>7
    <2>2. QED
      BY <1>2, <2>1
  <1>4. seqs \in Seq(Seq(MessageTypes)) /\ Len(seqs) = N
        /\ \A i \in 1 .. N : seqs[i] = Results(calls[i])
    BY <1>2, <1>3
  <1> HIDE DEF seqs
  <1>5. PICK p : Joins(p, seqs, MessageTypes)
    BY <1>4, FlattenPath
  <1>6. /\ p \in [0 .. N -> Seq(MessageTypes)] /\ p[0] = <<>>
        /\ \A i \in 1 .. N : p[i] = p[i - 1] \o Results(calls[i])
        /\ FlattenSeq(seqs) = p[N]
    BY <1>4, <1>5 DEF Joins
  <1> DEFINE T == {i \in 0 .. N : Answered(msgs \o p[i], msgs, n, gone, i)}
  <1>7. 0 \in T
    <2>1. msgs \o p[0] = msgs
      BY <1>1, <1>6, ConcatEmptySeq
    <2>2. Answered(msgs, msgs, n, gone, 0)
      <3>1. Len(msgs) \in Nat
        BY <1>1, LenProperties
      <3>2. \A k \in Positions(msgs, "tool") : msgs[k].answers[1] # n
        BY DEF Awaiting
      <3>3. \A k \in 1 .. Len(msgs) : ~(Len(msgs) < k)
        BY <3>1
      <3>4. QED
        BY <3>1, <3>2, <3>3 DEF Answered
    <2>3. 0 \in 0 .. N /\ Answered(msgs \o p[0], msgs, n, gone, 0)
      BY <1>2, <2>1, <2>2
    <2>4. QED
      BY <2>3
  <1>8. ASSUME NEW i \in 1 .. N, i - 1 \in T
        PROVE  i \in T
    <2>1. i - 1 \in 0 .. N /\ i \in 0 .. N
      BY <1>2
    <2>2. Answered((msgs \o p[i - 1]) \o Results(calls[i]), msgs, n, gone, i)
      <3>1. Answered(msgs \o p[i - 1], msgs, n, gone, i - 1)
        BY <1>8
      <3>2. i \in 1 .. Len(Last(msgs).calls)
        BY DEF N, calls
      <3>3. QED
        BY <1>1, <3>1, <3>2, AnswersAdded DEF calls
    <2>3. p[i - 1] \in Seq(MessageTypes)
      BY <1>6, <2>1
    <2>4. Results(calls[i]) \in Seq(MessageTypes)
      BY <1>3
    <2>5. (msgs \o p[i - 1]) \o Results(calls[i]) = msgs \o (p[i - 1] \o Results(calls[i]))
      <3>1. Regroups(msgs, p[i - 1], Results(calls[i]))
        BY <1>1, <2>3, <2>4, JoinRegroups, Zenon
      <3>2. QED
        BY <3>1, Zenon DEF Regroups
    <2>6. (msgs \o p[i - 1]) \o Results(calls[i]) = msgs \o p[i]
      BY <1>6, <2>5
    <2>7. Answered(msgs \o p[i], msgs, n, gone, i)
      BY <2>2, <2>6
    <2>8. QED
      BY <2>1, <2>7
  <1>9. T \in SUBSET (0 .. N)
    OBVIOUS
  <1> HIDE DEF T
  <1>10. N \in T
    <2>1. T = 0 .. N
      BY <1>2, <1>7, <1>8, <1>9, IndexInduction
    <2>2. QED
      BY <1>2, <2>1
  <1>11. Answered(msgs \o FlattenSeq(seqs), msgs, n, gone, N)
    BY <1>6, <1>10 DEF T
  <1>12. QED
    BY <1>11 DEF Answered, seqs, calls, N

-----------------------------------------------------------------------------
(* The conversation along the loop.                                        *)

\* The calls of an output, and those the pre-scan lets run.
LEMMA CallsProperties ==
  ASSUME NEW out \in Outputs, NEW calls, calls = CallsOf(out), step \in Nat
  PROVE  /\ out.text \in Texts /\ calls \in Seq(CallTypes)
         /\ \A i \in 1 .. Len(calls) : calls[i].id[1] = step
         /\ \A i, j \in 1 .. Len(calls) : calls[i].id = calls[j].id => i = j
  <1>1. out.text \in Texts /\ out.calls \in Seq({"tool", "handoff"})
    BY AgentAssumption DEF AgentAssumption
  <1> DEFINE n == Len(out.calls)
             made == [i \in 1 .. n |-> [id |-> <<step, i>>, handoff |-> out.calls[i] = "handoff"]]
  <1>2. n \in Nat
    BY <1>1, LenProperties
  <1>3. calls = made
    BY DEF CallsOf
  <1> HIDE DEF n
  <1>4. \A i \in 1 .. n : made[i] \in CallTypes /\ made[i].id = <<step, i>>
    BY <1>2 DEF CallTypes, Ids
  <1>5. made \in Seq(CallTypes) /\ Len(made) = n
    <2>1. made = [i \in 1 .. n |-> made[i]]
      OBVIOUS
    <2> HIDE DEF made
    <2>2. made \in [1 .. n -> CallTypes]
      BY <1>4, <2>1
    <2>3. QED
      BY <1>2, <2>2
  <1> HIDE DEF made
  <1>6. QED
    BY <1>1, <1>3, <1>4, <1>5

\* The pre-scan leaves calls of the output, and a handoff alone.
LEMMA SelectedProperties ==
  ASSUME NEW n, NEW calls \in Seq(CallTypes),
         \A i \in 1 .. Len(calls) : calls[i].id[1] = n,
         \A i, j \in 1 .. Len(calls) : calls[i].id = calls[j].id => i = j
  PROVE  LET run == Selected(calls)
         IN  /\ run \in Seq(CallTypes)
             /\ \A i \in 1 .. Len(run) : run[i].id[1] = n
             /\ \A i, j \in 1 .. Len(run) : run[i].id = run[j].id => i = j
             /\ Prescan /\ Handoffs(run) # {} => Len(run) = 1
  <1> DEFINE first == SelectInSeq(calls, LAMBDA call : call.handoff)
             one == <<calls[first]>>
  <1>1. \/ first = 0 /\ Handoffs(calls) = {}
        \/ first \in Handoffs(calls)
    BY SelectInSeqProperties
  <1>2. Selected(calls) = IF Prescan /\ first # 0 THEN one ELSE calls
    BY DEF Selected
  <1> HIDE DEF first
  <1>3. CASE Prescan /\ first # 0
    <2>1. first \in 1 .. Len(calls) /\ calls[first] \in CallTypes
      BY <1>1, <1>3, ElementOfSeq DEF Handoffs
    <2>2. one \in Seq(CallTypes) /\ Len(one) = 1 /\ one[1] = calls[first]
      BY <2>1
    <2> HIDE DEF one
    <2>3. \A i \in 1 .. Len(one) : i = 1
      BY <2>2
    <2>4. QED
      BY <1>2, <1>3, <2>1, <2>2, <2>3
  <1>4. CASE ~(Prescan /\ first # 0)
    <2>1. Selected(calls) = calls
      BY <1>2, <1>4
    <2>2. Prescan => Handoffs(calls) = {}
      <3>1. 0 \notin Handoffs(calls)
        BY DEF Handoffs
      <3>2. QED
        BY <1>1, <1>4, <3>1
    <2>3. QED
      BY <2>1, <2>2
  <1>5. QED
    BY <1>3, <1>4

\* The inductive invariant.  A call of the model can only be given a call number of its
\* own step, so before it answers every number there is belongs to an earlier step.
ConversationInv ==
  /\ pc \in {"top", "generate", "tools", "done", "raised"}
  /\ step \in Nat /\ skipped \in SUBSET Ids
  /\ \A id \in skipped : id[1] \in 0 .. step
  /\ Sound(messages, step, skipped)
  /\ pc = "generate" =>
       /\ Sound(messages, step - 1, skipped)
       /\ \A id \in skipped : id[1] \in 0 .. step - 1
  /\ pc = "tools" => Awaiting(messages, step)

TaskStays == \A x : Task(messages, x) => Task(messages', x)

\* A conversation the agent is started with is sound.
LEMMA InitConversation ==
  ASSUME Init
  PROVE  ConversationInv
  <1>1. PICK history \in Histories :
          messages = IF Positions(history, "system") = {} THEN <<System>> \o history ELSE history
    BY DEF Init
  <1>2. /\ history \in Seq(MessageTypes)
        /\ Positions(history, "system") # {} => history[1] = System
        /\ ResultsFollow(history) /\ AnsweredOnce(history) /\ CalledOnce(history)
        /\ \A i \in 1 .. Len(history) :
             /\ \A id \in CallIds(history[i]) : id[1] = 0
             /\ history[i].role = "tool" => history[i].answers[1] = 0
    BY HistoriesAssumption DEF HistoriesAssumption
  <1>3. Sound(messages, 0, {})
    <2>1. CASE Positions(history, "system") # {}
      <3>1. messages = history /\ messages # <<>>
        <4>1. history # <<>>
          <5>1. PICK i \in 1 .. Len(history) : TRUE
            BY <2>1 DEF Positions
          <5>2. QED
            BY <1>2, <5>1, EmptySeq
        <4>2. QED
          BY <1>1, <2>1, <4>1
      <3>2. Numbered(history, 0, {})
        BY <1>2 DEF Numbered
      <3>3. QED
        BY <1>2, <2>1, <3>1, <3>2 DEF Sound
    <2>2. CASE Positions(history, "system") = {}
      <3> DEFINE q == <<System>> \o history
                 l == Len(history)
      <3>1. <<System>> \in Seq(MessageTypes) /\ Len(<<System>>) = 1 /\ <<System>>[1] = System
        BY PlainMessages
      <3>2. /\ q \in Seq(MessageTypes) /\ Len(q) = 1 + l /\ q[1] = System /\ l \in Nat
            /\ \A i \in 1 .. l : q[1 + i] = history[i]
        BY <1>2, <3>1, ConcatProperties, LenProperties
      <3>3. messages = q
        BY <1>1, <2>2
      <3>4. ResultsFollow(q)
        <4>1. \A i \in 1 .. Len(<<System>>) : <<System>>[i].role # "tool"
          BY <3>1, PlainMessages
        <4>2. ResultsFollow(<<System>>)
          BY <4>1, NoResults
        <4>3. QED
          BY <1>2, <3>1, <4>2, FollowsConcat
      <3> HIDE DEF q, l
      <3>5. \A i \in 1 .. 1 + l : i = 1 \/ (i - 1 \in 1 .. l /\ q[i] = history[i - 1])
        <4>1. ASSUME NEW i \in 1 .. 1 + l, i # 1
              PROVE  i - 1 \in 1 .. l /\ q[i] = history[i - 1]
          <5>1. i - 1 \in 1 .. l /\ 1 + (i - 1) = i
            BY <3>2, <4>1
          <5>2. q[1 + (i - 1)] = history[i - 1]
            BY <3>2, <5>1
          <5>3. QED
            BY <5>1, <5>2
        <4>2. QED
          BY <4>1
      <3>6. CallIds(System) = {} /\ System.role # "tool"
        BY PlainMessages DEF CallIds
      <3>7. Numbered(q, 0, {})
        <4>1. ASSUME NEW i \in 1 .. 1 + l
              PROVE  /\ \A id \in CallIds(q[i]) : id[1] \in 0 .. 0 /\ id \notin {}
                     /\ q[i].role = "tool" => q[i].answers[1] \in 0 .. 0
          <5>1. CASE i = 1
            BY <3>2, <3>6, <5>1
          <5>2. CASE i - 1 \in 1 .. l /\ q[i] = history[i - 1]
            BY <1>2, <5>2 DEF l
          <5>3. QED
            BY <3>5, <5>1, <5>2
        <4>2. QED
          BY <3>2, <4>1 DEF Numbered
      <3>8. CalledOnce(q)
        <4>1. ASSUME NEW i \in 1 .. 1 + l, NEW k \in 1 .. 1 + l, i # k
              PROVE  CallIds(q[i]) \cap CallIds(q[k]) = {}
          <5> HIDE DEF CallIds
          <5>1. CASE i = 1 \/ k = 1
            BY <3>2, <3>6, <5>1
          <5>2. CASE i # 1 /\ k # 1
            <6>1. i - 1 \in 1 .. l /\ q[i] = history[i - 1]
              BY <3>5, <5>2
            <6>2. k - 1 \in 1 .. l /\ q[k] = history[k - 1]
              BY <3>5, <5>2
            <6>3. i - 1 # k - 1
              BY <3>2, <4>1
            <6>4. QED
              BY <1>2, <6>1, <6>2, <6>3 DEF CalledOnce, l
          <5>3. QED
            BY <5>1, <5>2
        <4>2. QED
          BY <3>2, <4>1 DEF CalledOnce
      <3>9. AnsweredOnce(q)
        <4>1. ASSUME NEW i \in Positions(q, "tool"), NEW k \in Positions(q, "tool"),
                     q[i].answers = q[k].answers
              PROVE  i = k
          <5>1. /\ i \in 1 .. 1 + l /\ q[i].role = "tool"
                /\ k \in 1 .. 1 + l /\ q[k].role = "tool"
            BY <3>2 DEF Positions
          <5>2. i # 1 /\ k # 1
            BY <3>2, <3>6, <5>1
          <5>3. /\ i - 1 \in Positions(history, "tool") /\ q[i] = history[i - 1]
                /\ k - 1 \in Positions(history, "tool") /\ q[k] = history[k - 1]
            BY <3>5, <5>1, <5>2 DEF Positions, l
          <5>4. i - 1 = k - 1
            BY <1>2, <4>1, <5>3 DEF AnsweredOnce
          <5>5. QED
            BY <3>2, <5>1, <5>4
        <4>2. QED
          BY <4>1 DEF AnsweredOnce
      <3>10. q # <<>>
        BY <3>2, EmptySeq
      <3>11. QED
        BY <3>2, <3>3, <3>4, <3>7, <3>8, <3>9, <3>10 DEF Sound
    <2>3. QED
      BY <2>1, <2>2
  <1>4. QED
    BY <1>3 DEF Init, ConversationInv

\* Each step keeps the invariant, and the task.
LEMMA NextConversation ==
  ASSUME ConversationInv, [Next]_vars
  PROVE  ConversationInv' /\ TaskStays
  <1> USE DEF ConversationInv
  <1>1. /\ messages \in Seq(MessageTypes) /\ messages # <<>> /\ messages[1] = System
        /\ Sound(messages, step, skipped) /\ step \in Nat /\ skipped \in SUBSET Ids
        /\ \A id \in skipped : id[1] \in 0 .. step
    BY DEF Sound
  \* A step that leaves the conversation alone, or only adds a message of the loop's own.
  <1>2. ASSUME UNCHANGED <<step, skipped>>, pc' \in {"top", "done", "raised"},
               \/ UNCHANGED messages
               \/ \E text \in Texts : messages' = Append(messages, User(text))
        PROVE  ConversationInv' /\ TaskStays
    <2>1. Sound(messages', step, skipped) /\ TaskStays
      <3>1. CASE UNCHANGED messages
        BY <1>1, <3>1 DEF TaskStays
      <3>2. CASE \E text \in Texts : messages' = Append(messages, User(text))
        <4>1. PICK text \in Texts : messages' = Append(messages, User(text))
          BY <3>2
        <4>2. User(text) \in MessageTypes /\ User(text).role # "tool" /\ User(text).calls = <<>>
          BY PlainMessages
        <4>3. Sound(messages', step, skipped)
          BY <1>1, <4>1, <4>2, SoundPlain
        <4>4. TaskStays
          BY <1>1, <4>1, <4>2, OneMore DEF TaskStays
        <4>5. QED
          BY <4>3, <4>4
      <3>3. QED
        BY <1>2, <3>1, <3>2
    <2>2. QED
      BY <1>1, <1>2, <2>1
  <1>3. {"info", "limit", "hint", "continue", "timeout"} \subseteq Texts
    BY DEF Texts
  <1>4. CASE BeginStep
    <2>1. pc = "top" /\ step' = step + 1 /\ skipped' = skipped
      BY <1>4 DEF BeginStep
    <2>2. Sound(messages, step', skipped)
      BY <1>1, <2>1, SoundLater
    <2>3. \A id \in skipped : id[1] \in 0 .. step'
      BY <1>1, <2>1
    <2>4. CASE Stop /\ pc' = "done"
      <3>1. UNCHANGED messages \/ messages' = Append(messages, User("limit"))
        BY <2>4 DEF Stop
      <3>2. Sound(messages', step', skipped) /\ TaskStays
        <4>1. CASE UNCHANGED messages
          BY <2>2, <4>1 DEF TaskStays
        <4>2. CASE messages' = Append(messages, User("limit"))
          <5>1. /\ User("limit") \in MessageTypes /\ User("limit").role # "tool"
                /\ User("limit").calls = <<>>
            BY <1>3, PlainMessages
          <5>2. Sound(messages', step', skipped)
            BY <1>1, <2>1, <2>2, <4>2, <5>1, SoundPlain
          <5>3. TaskStays
            BY <1>1, <4>2, <5>1, OneMore DEF TaskStays
          <5>4. QED
            BY <5>2, <5>3
        <4>3. QED
          BY <3>1, <4>1, <4>2
      <3>3. QED
        BY <1>1, <2>1, <2>3, <2>4, <3>2
    <2>5. CASE messages' = Shortened(WithProgress(messages)) /\ pc' = "generate"
      <3> DEFINE q == WithProgress(messages)
      <3>1. Sound(q, step, skipped) /\ \A x : Task(messages, x) => Task(q, x)
        <4>1. /\ User("info") \in MessageTypes /\ User("info").role # "tool"
              /\ User("info").calls = <<>>
          BY <1>3, PlainMessages
        <4>2. q \in {messages, Append(messages, User("info"))}
          BY DEF WithProgress
        <4>3. Sound(Append(messages, User("info")), step, skipped)
          BY <1>1, <4>1, SoundPlain
        <4>4. \A x : Task(messages, x) => Task(Append(messages, User("info")), x)
          BY <1>1, <4>1, OneMore
        <4> HIDE DEF q
        <4>5. QED
          BY <1>1, <4>2, <4>3, <4>4
      <3> HIDE DEF q
      <3>2. Sound(Shortened(q), step, skipped) /\ \A x : Task(q, x) => Task(Shortened(q), x)
        BY <3>1, SoundShortened
      <3>3. messages' = Shortened(q)
        BY <2>5 DEF q
      <3>4. TaskStays
        BY <3>1, <3>2, <3>3 DEF TaskStays
      <3>5. Sound(messages', step' - 1, skipped) /\ step' - 1 = step
        BY <1>1, <2>1, <3>2, <3>3
      <3>6. Sound(messages', step', skipped)
        BY <1>1, <2>1, <3>2, <3>3, SoundLater
      <3>7. QED
        BY <1>1, <2>1, <2>3, <2>5, <3>4, <3>5, <3>6
    <2>6. QED
      BY <1>4, <2>4, <2>5 DEF BeginStep
  <1>5. ASSUME NEW d \in Durations, AttemptFails(d) \/ AttemptRaises(d)
        PROVE  ConversationInv' /\ TaskStays
    <2>1. /\ UNCHANGED <<messages, step, skipped>>
          /\ pc' = "raised" \/ (pc = "generate" /\ pc' = pc)
      BY <1>5 DEF AttemptFails, AttemptRaises
    <2>2. QED
      BY <1>1, <2>1 DEF TaskStays
  <1>6. ASSUME NEW d \in Durations, Overflow(d)
        PROVE  ConversationInv' /\ TaskStays
    <2>1. /\ messages' = Overflowed(messages) /\ pc' = "top" /\ UNCHANGED <<step, skipped>>
      BY <1>6 DEF Overflow
    <2>2. /\ Sound(Overflowed(messages), step, skipped)
          /\ \A x : Task(messages, x) => Task(Overflowed(messages), x)
      <3>1. step \in Int /\ Sound(messages, step, skipped)
        BY <1>1
      <3> HIDE DEF ConversationInv
      <3>2. QED
        BY <3>1, SoundOverflowed, Zenon
    <2>3. QED
      BY <1>1, <2>1, <2>2 DEF TaskStays
  <1>7. ASSUME NEW d \in Durations, NEW out \in Outputs, Generate(d, out)
        PROVE  ConversationInv' /\ TaskStays
    <2> DEFINE calls == CallsOf(out)
               run == Selected(calls)
    <2>1. /\ out.text \in Texts /\ calls \in Seq(CallTypes)
          /\ \A i \in 1 .. Len(calls) : calls[i].id[1] = step
          /\ \A i, j \in 1 .. Len(calls) : calls[i].id = calls[j].id => i = j
      BY <1>1, CallsProperties
    <2> HIDE DEF calls
    <2>2. /\ run \in Seq(CallTypes)
          /\ \A i \in 1 .. Len(run) : run[i].id[1] = step
          /\ \A i, j \in 1 .. Len(run) : run[i].id = run[j].id => i = j
          /\ Prescan /\ Handoffs(run) # {} => Len(run) = 1
      BY <2>1, SelectedProperties
    <2> HIDE DEF run
    <2>3. /\ Sound(messages, step - 1, skipped) /\ step' = step
          /\ \A id \in skipped : id[1] \in 0 .. step - 1
      BY <1>7 DEF Generate
    <2>4. CASE /\ messages' = Overflowed(Append(messages, Assistant(out.text, calls)))
               /\ pc' = "top" /\ skipped' = skipped
      <3> DEFINE m == Assistant(out.text, calls)
                 q == Append(messages, m)
      <3>1. m \in MessageTypes /\ m.role = "assistant" /\ m.calls = calls
        BY <2>1, PlainMessages
      <3> HIDE DEF m
      <3>2. \A id \in CallIds(m) : id[1] = step /\ id \notin skipped
        <4>1. \A id \in skipped : id[1] # step
          BY <1>1, <2>3
        <4>2. \A id \in CallIds(m) : id[1] = step
          BY <2>1, <3>1 DEF CallIds
        <4>3. QED
          BY <4>1, <4>2
      <3>3. Sound(q, step, skipped)
        BY <1>1, <2>3, <3>1, <3>2, SoundCaller
      <3>4. \A x : Task(messages, x) => Task(q, x)
        BY <1>1, <3>1, OneMore
      <3>5. messages' = Overflowed(q)
        BY <2>4 DEF m
      <3> HIDE DEF q
      <3>6. /\ Sound(Overflowed(q), step, skipped)
            /\ \A x : Task(q, x) => Task(Overflowed(q), x)
        BY <1>1, <3>3, SoundOverflowed
      <3>7. TaskStays
        BY <3>4, <3>5, <3>6 DEF TaskStays
      <3>8. QED
        BY <1>1, <2>3, <2>4, <3>5, <3>6, <3>7
    <2>5. CASE /\ messages' = Append(messages, Assistant(out.text, run))
               /\ skipped' = skipped \cup ({calls[i].id : i \in 1 .. Len(calls)}
                                             \ {run[i].id : i \in 1 .. Len(run)})
               /\ pc' = "tools"
      <3> DEFINE m == Assistant(out.text, run)
                 q == Append(messages, m)
                 made == {calls[i].id : i \in 1 .. Len(calls)}
                 l == Len(messages)
      <3>1. m \in MessageTypes /\ m.role = "assistant" /\ m.calls = run
        BY <2>1, <2>2, PlainMessages
      <3>2. CallIds(m) = {run[i].id : i \in 1 .. Len(run)}
        BY <3>1 DEF CallIds
      <3>3. \A id \in CallIds(m) : id[1] = step
        BY <2>2, <3>1 DEF CallIds
      <3>4. \A id \in made : id[1] = step /\ id \in Ids
        <4>1. \A i \in 1 .. Len(calls) : calls[i] \in CallTypes
          BY <2>1, ElementOfSeq
        <4>2. QED
          BY <2>1, <4>1 DEF CallTypes
      <3>5. skipped' = skipped \cup (made \ CallIds(m))
        BY <2>5, <3>2
      <3> HIDE DEF m, made
      <3>6. /\ \A id \in skipped' : id \in skipped \/ id[1] = step
            /\ \A id \in CallIds(m) : id[1] = step /\ id \notin skipped'
            /\ \A id \in skipped' : id[1] \in 0 .. step
            /\ skipped' \in SUBSET Ids
        <4>1. \A id \in skipped : id[1] # step
          BY <1>1, <2>3
        <4>2. step \in 0 .. step
          BY <1>1
        <4>3. QED
          BY <1>1, <3>3, <3>4, <3>5, <4>1, <4>2
      <3>7. Sound(q, step, skipped')
        BY <1>1, <2>3, <3>1, <3>6, SoundCaller
      <3>8. /\ \A x : Task(messages, x) => Task(q, x)
            /\ Len(q) = l + 1 /\ l \in Nat /\ q[l + 1] = m
            /\ \A i \in 1 .. l : q[i] = messages[i]
            /\ \A i \in 1 .. l + 1 : i \in 1 .. l \/ i = l + 1
        BY <1>1, <3>1, OneMore
      <3>9. messages' = q
        BY <2>5 DEF m
      <3> HIDE DEF q, l
      <3>10. Awaiting(q, step)
        <4>1. Last(q) = m
          BY <3>8 DEF Last
        <4>2. \A i \in Positions(q, "tool") : q[i].answers[1] # step
          <5>1. \A i \in Positions(messages, "tool") : messages[i].answers[1] # step
            <6>1. Numbered(messages, step - 1, skipped)
              BY <2>3 DEF Sound
            <6>2. \A i \in Positions(messages, "tool") : messages[i].answers[1] \in 0 .. step - 1
              BY <6>1 DEF Numbered, Positions
            <6>3. QED
              BY <1>1, <6>2
          <5>2. \A i \in Positions(q, "tool") : i \in Positions(messages, "tool") /\ q[i] = messages[i]
            BY <3>1, <3>8 DEF Positions, l
          <5>3. QED
            BY <5>1, <5>2
        <4>3. QED
          BY <2>2, <3>1, <4>1, <4>2 DEF Awaiting
      <3>11. TaskStays
        BY <3>8, <3>9 DEF TaskStays
      <3>12. QED
        BY <1>1, <2>3, <2>5, <3>6, <3>7, <3>9, <3>10, <3>11
    <2>6. CASE /\ messages' = Nudged(Append(messages, Assistant(out.text, <<>>)))
               /\ pc' \in {"top", "done"} /\ skipped' = skipped
      <3> DEFINE m == Assistant(out.text, <<>>)
                 q == Append(messages, m)
                 r == Append(q, User("continue"))
      <3>1. m \in MessageTypes /\ m.role = "assistant" /\ m.calls = <<>>
        <4>1. <<>> \in Seq(CallTypes)
          BY EmptySeq
        <4>2. QED
          BY <2>1, <4>1, PlainMessages
      <3>2. /\ User("continue") \in MessageTypes /\ User("continue").role # "tool"
            /\ User("continue").calls = <<>>
        BY <1>3, PlainMessages
      <3> HIDE DEF m
      <3>3. Sound(q, step, skipped) /\ \A x : Task(messages, x) => Task(q, x)
        <4>1. Sound(q, step, skipped)
          BY <1>1, <3>1, SoundPlain
        <4>2. QED
          BY <1>1, <3>1, <4>1, OneMore
      <3> HIDE DEF q
      <3>4. Sound(r, step, skipped) /\ \A x : Task(q, x) => Task(r, x)
        <4>1. Sound(r, step, skipped)
          BY <1>1, <3>2, <3>3, SoundPlain
        <4>2. q \in Seq(MessageTypes) /\ q # <<>> /\ q[1] = System
          BY <3>3 DEF Sound
        <4>3. QED
          BY <3>2, <4>1, <4>2, OneMore
      <3>5. messages' \in {q, r}
        BY <2>6 DEF Nudged, q, m
      <3> HIDE DEF r
      <3>6. Sound(messages', step, skipped) /\ TaskStays
        BY <3>3, <3>4, <3>5 DEF TaskStays
      <3>7. QED
        BY <1>1, <2>3, <2>6, <3>6
    <2>7. QED
      <3>1. \/ /\ messages' = Overflowed(Append(messages, Assistant(out.text, calls)))
               /\ pc' = "top" /\ skipped' = skipped
            \/ /\ messages' = Append(messages, Assistant(out.text, run))
               /\ skipped' = skipped \cup ({calls[i].id : i \in 1 .. Len(calls)}
                                             \ {run[i].id : i \in 1 .. Len(run)})
               /\ pc' = "tools"
            \/ /\ messages' = Nudged(Append(messages, Assistant(out.text, <<>>)))
               /\ pc' \in {"top", "done"} /\ skipped' = skipped
        BY <1>7 DEF Generate, calls, run
      <3>2. QED
        BY <2>4, <2>5, <2>6, <3>1
  <1>8. ASSUME NEW d \in Durations, ToolsEnd(d)
        PROVE  ConversationInv' /\ TaskStays
    <2> DEFINE calls == Last(messages).calls
               q == messages \o FlattenSeq([i \in 1 .. Len(calls) |-> Results(calls[i])])
    <2>1. /\ pc = "tools" /\ messages' = q /\ pc' \in {"top", "done"}
          /\ UNCHANGED <<step, skipped>>
      BY <1>8 DEF ToolsEnd
    <2>2. Sound(q, step, skipped) /\ \A x : Task(messages, x) => Task(q, x)
      BY <1>1, <2>1, SoundResults
    <2> HIDE DEF q
    <2>3. QED
      BY <1>1, <2>1, <2>2 DEF TaskStays
  <1>9. CASE ToolsTimeOut
    <2>1. /\ messages' = Append(messages, User("timeout")) /\ pc' = "done"
          /\ UNCHANGED <<step, skipped>>
      BY <1>9 DEF ToolsTimeOut
    <2>2. QED
      BY <1>2, <1>3, <2>1
  <1>10. CASE Interrupt
    <2>1. pc' = "raised" /\ UNCHANGED <<messages, step, skipped>>
      BY <1>10 DEF Interrupt
    <2>2. QED
      BY <1>2, <2>1
  <1>11. CASE UNCHANGED vars
    <2>1. UNCHANGED <<pc, messages, step, skipped>>
      BY <1>11 DEF vars
    <2>2. QED
      BY <2>1 DEF TaskStays
  <1>12. QED
    BY <1>4, <1>5, <1>6, <1>7, <1>8, <1>9, <1>10, <1>11 DEF Next, Loop

-----------------------------------------------------------------------------
(* The bound on what the model is given.                                   *)

\* At the start nothing has been given to the model.
LEMMA InitBounded == Init => HistoryBounded
  BY DEF Init, HistoryBounded

\* The call of the model is reached only past the cuts and past message_limit.
LEMMA NextBounded ==
  ASSUME ConversationInv, HistoryBounded, [Next]_vars
  PROVE  HistoryBounded'
  <1>1. CASE pc' # "generate"
    BY <1>1 DEF HistoryBounded
  <1>2. CASE pc = "generate" /\ UNCHANGED messages
    BY <1>2 DEF HistoryBounded
  <1>3. CASE BeginStep /\ pc' = "generate"
    <2> DEFINE m == WithProgress(messages)
               q == Shortened(m)
    <2>1. ~OutOfMessages /\ messages' = q
      BY <1>3 DEF BeginStep
    <2>2. /\ messages \in Seq(MessageTypes) /\ messages # <<>> /\ messages[1] = System
          /\ step \in Int /\ Sound(messages, step, skipped)
      BY DEF ConversationInv, Sound
    <2>3. /\ User("info") \in MessageTypes /\ User("info").role # "tool"
          /\ User("info").calls = <<>>
      BY PlainMessages DEF Texts
    <2>4. Sound(m, step, skipped) /\ Len(m) <= Len(messages) + 1
      <3>1. m \in {messages, Append(messages, User("info"))}
        BY DEF WithProgress
      <3>2. Sound(Append(messages, User("info")), step, skipped)
        BY <2>2, <2>3, SoundPlain
      <3>3. Len(Append(messages, User("info"))) = Len(messages) + 1 /\ Len(messages) \in Nat
        BY <2>2, <2>3
      <3>4. CASE m = messages
        BY <2>2, <3>3, <3>4
      <3>5. CASE m = Append(messages, User("info"))
        <4>1. Len(m) = Len(messages) + 1 /\ Len(messages) \in Nat
          BY <3>3, <3>5
        <4>2. Sound(m, step, skipped)
          BY <3>2, <3>5
        <4> HIDE DEF m
        <4>3. QED
          BY <4>1, <4>2
      <3>6. QED
        BY <3>1, <3>4, <3>5
    <2> HIDE DEF m
    <2>5. /\ Sound(q, step, skipped)
          /\ Len(q) <= Len(m)
          /\ Window # 0 => Len(q) <= Window + 2
          /\ PruneAfter # NoLimit =>
               \/ Len(q) <= PruneAfter
               \/ Len(q) <= Cardinality(Positions(q, "system")) + 1 + Max({KeepLast, 1}) + 2
      BY <2>4, SoundShortened
    <2> HIDE DEF q
    <2>6. q \in Seq(MessageTypes) /\ m \in Seq(MessageTypes)
      BY <2>4, <2>5 DEF Sound
    <2>7. Len(q) \in Nat /\ Len(m) \in Nat /\ Len(messages) \in Nat
      BY <2>2, <2>6
    <2>8. MessageLimit # NoLimit => Len(q) <= MessageLimit
      <3>1. ASSUME MessageLimit # NoLimit PROVE Len(messages) < MessageLimit /\ MessageLimit \in Nat
        <4>1. MessageLimit \in Nat
          BY <3>1, AgentAssumption DEF AgentAssumption
        <4>2. QED
          BY <2>1, <2>7, <3>1, <4>1 DEF OutOfMessages
      <3>2. QED
        BY <2>4, <2>5, <2>7, <3>1
    <2>9. ASSUME PruneAfter # NoLimit
          PROVE  Len(q) <= Max({PruneAfter,
                   Cardinality(Positions(q, "system")) + 1 + Max({KeepLast, 1}) + 2})
      <3> DEFINE systems == Cardinality(Positions(q, "system"))
                 left == systems + 1 + Max({KeepLast, 1}) + 2
      <3>1. systems \in Nat
        <4>1. Positions(q, "system") \in SUBSET (1 .. Len(q))
          BY DEF Positions
        <4>2. QED
          BY <2>7, <4>1, FinitePositions
      <3>2. KeepLast \in Nat /\ PruneAfter \in Nat
        BY <2>9, AgentAssumption, ConversationAssumption
        DEF AgentAssumption, ConversationAssumption
      <3>3. Max({KeepLast, 1}) \in Nat
        BY <3>2, LargerOf
      <3>4. left \in Nat /\ (Len(q) <= PruneAfter \/ Len(q) <= left)
        BY <2>5, <2>9, <3>1, <3>3
      <3> HIDE DEF left
      <3>5. Max({PruneAfter, left}) \in Nat /\ PruneAfter <= Max({PruneAfter, left})
            /\ left <= Max({PruneAfter, left})
        BY <3>2, <3>4, LargerOf
      <3>6. Len(q) <= Max({PruneAfter, left})
        BY <2>7, <3>2, <3>4, <3>5
      <3>7. QED
        BY <3>6 DEF left
    <2>10. QED
      BY <2>1, <2>5, <2>8, <2>9 DEF HistoryBounded
  <1>4. ASSUME NEW d \in Durations, AttemptFails(d)
        PROVE  pc = "generate" /\ UNCHANGED messages
    BY <1>4 DEF AttemptFails
  <1>5. ASSUME NEW d \in Durations,
               \/ AttemptRaises(d) \/ Overflow(d) \/ ToolsEnd(d)
               \/ \E out \in Outputs : Generate(d, out)
        PROVE  pc' # "generate"
    BY <1>5 DEF AttemptRaises, Overflow, ToolsEnd, Generate
  <1>6. CASE ToolsTimeOut \/ Interrupt
    BY <1>1, <1>6 DEF ToolsTimeOut, Interrupt
  <1>7. CASE UNCHANGED vars
    <2>1. UNCHANGED <<pc, messages>>
      BY <1>7 DEF vars
    <2>2. QED
      BY <1>1, <1>2, <2>1
  <1>8. CASE BeginStep
    BY <1>1, <1>3, <1>8
  <1>9. QED
    BY <1>1, <1>2, <1>4, <1>5, <1>6, <1>7, <1>8 DEF Next, Loop

-----------------------------------------------------------------------------
(* The theorems about the conversation.                                    *)

\* The invariant of the conversation holds throughout.
LEMMA ConversationKept == Spec => []ConversationInv
  BY InitConversation, NextConversation, PTL DEF Spec

\* However the history was cut, a tool result in it comes right after the assistant message
\* that made the call, and is there once: for every window, threshold and history the agent
\* may be started with, with the pre-scan on.  Without it a handoff may run together with
\* other calls, and the messages it brings come between a call and its result.
THEOREM ResultsStayAfterCalls ==
  ASSUME Prescan PROVE Spec => []ResultsFollowCalls
  <1>1. ConversationInv => ResultsFollowCalls
    BY DEF ConversationInv, Sound, ResultsFollowCalls
  <1>2. QED
    BY ConversationKept, <1>1, PTL

\* A handoff never runs together with another call, and no call is both run and reported as
\* skipped, whatever the model asks for and whenever the history is cut.
THEOREM HandoffsAlone == Spec => []HandoffRunsAlone
  <1>1. ASSUME ConversationInv PROVE HandoffRunsAlone
    <2>1. Sound(messages, step, skipped) /\ (pc = "tools" => Awaiting(messages, step))
      BY <1>1 DEF ConversationInv
    <2>2. Prescan /\ pc = "tools" =>
            LET calls == Last(messages).calls IN Handoffs(calls) # {} => Len(calls) = 1
      BY <2>1 DEF Awaiting
    <2>3. \A j \in Positions(messages, "assistant") : CallIds(messages[j]) \cap skipped = {}
      <3>1. Numbered(messages, step, skipped)
        BY <2>1 DEF Sound
      <3>2. \A j \in 1 .. Len(messages) : \A id \in CallIds(messages[j]) : id \notin skipped
        BY <3>1 DEF Numbered
      <3>3. QED
        BY <3>2 DEF Positions
    <2>4. QED
      BY <2>2, <2>3 DEF HandoffRunsAlone
  <1>2. QED
    BY ConversationKept, <1>1, PTL

\* What the model is given is bounded, by the window, by what a prune leaves and by
\* message_limit, for every value of these.
THEOREM HistoryStaysBounded == Spec => []HistoryBounded
  BY ConversationKept, InitBounded, NextBounded, PTL DEF Spec

\* Whatever is pruned, the system prompt stays at the head, and the first user message, the
\* task, is never lost nor replaced by a later one.
THEOREM TaskNeverLost == Spec => TaskKept
  <1> DEFINE Kept ==
        /\ messages'[1] = System
        /\ Positions(messages, "user") # {} =>
             At(messages', First(Positions(messages', "user")))
               = At(messages, First(Positions(messages, "user")))
  <1>1. ASSUME ConversationInv, [Next]_vars PROVE [Kept]_vars
    <2>1. ConversationInv' /\ TaskStays
      BY <1>1, NextConversation
    <2>2. messages \in Seq(MessageTypes)
      BY <1>1 DEF ConversationInv, Sound
    <2>3. messages' \in Seq(MessageTypes) /\ messages'[1] = System
      BY <2>1 DEF ConversationInv, Sound
    <2>4. ASSUME Positions(messages, "user") # {}
          PROVE  At(messages', First(Positions(messages', "user")))
                   = At(messages, First(Positions(messages, "user")))
      <3>1. PICK x : Task(messages, x)
        BY <2>2, <2>4, TaskExists
      <3>2. Task(messages', x)
        BY <2>1, <3>1 DEF TaskStays
      <3>3. At(messages, First(Positions(messages, "user"))) = <<x>>
        BY <2>2, <3>1, TaskAt
      <3>4. At(messages', First(Positions(messages', "user"))) = <<x>>
        BY <2>3, <3>2, TaskAt
      <3>5. QED
        BY <3>3, <3>4
    <2>5. QED
      BY <2>3, <2>4
  <1>2. QED
    BY ConversationKept, <1>1, PTL DEF Spec, TaskKept

-----------------------------------------------------------------------------
(* The clocks.                                                             *)

\* The time one more attempt can add: the whole limit, and a backoff.
Unit == TimeLimit + MaxBackoff

\* The longest time on the agent's clock, less the second the tools are given.
Longest == TimeLimit + (MaxAttempts - 1) * Unit

\* Typing of the clocks.
Clocks ==
  /\ now \in Nat /\ retry \in Nat /\ waited \in Nat
  /\ attempts \in 0 .. MaxAttempts - 1 /\ delay \in 0 .. MaxBackoff
  /\ timeout \in Nat \cup {NoLimit}

\* The inductive invariant.  The backoff that is counted is time that passed;
\* the k-th failed attempt leaves room for the next one within k more units;
\* and the tools have room within the bound.
BudgetInv ==
  /\ Clocks
  /\ retry <= now
  /\ pc = "generate" => retry + waited <= now
  /\ TimeLimit # NoLimit =>
       /\ pc = "generate" => /\ timeout \in 0 .. TimeLimit
                             /\ Elapsed + timeout <= TimeLimit + attempts * Unit
       /\ pc = "tools" => timeout \in Nat /\ Elapsed + timeout <= Longest + 1
       /\ Elapsed <= Longest + 1

\* What the clocks need of the constants.
LEMMA ClockConstants ==
  /\ TimeLimit \in Nat \cup {NoLimit} /\ NoLimit \notin Int
  /\ MaxAttempts \in Nat \ {0}
  /\ InitialBackoff \in Nat /\ MaxBackoff \in Nat /\ InitialBackoff <= MaxBackoff
  /\ Durations \subseteq Nat
  /\ ProductiveTime \in BOOLEAN
BY AgentAssumption DEF AgentAssumption

\* Multiplication is monotonic, and distributes over a successor.
LEMMA Scale ==
  ASSUME NEW a \in Nat, NEW n \in Nat, NEW s \in Nat, a <= n
  PROVE  /\ a * s \in Nat
         /\ a * s <= n * s
         /\ (a + 1) * s = a * s + s
<1>1. a * s \in Nat /\ (a + 1) * s = a * s + s
  BY SMT
<1>2. PICK k \in Nat : n = a + k
  <2>1. n - a \in Nat /\ n = a + (n - a)
    BY SMT
  <2> QED BY <2>1
<1>3. n * s = a * s + k * s /\ k * s \in Nat
  BY <1>2, SMT
<1>4. QED
  BY <1>1, <1>3, SMT

\* A remaining time clamped to a second overruns the limit by a second at most.
LEMMA Clamp ==
  ASSUME NEW t \in Nat, NEW l \in Nat, NEW e \in Int, t <= l, e <= l,
         NEW rest, rest = IF t - e > 0 THEN t - e ELSE 1
  PROVE  rest \in Nat /\ e + rest <= l + 1
BY SMT

\* Crediting more backoff never puts the agent's clock forward.
LEMMA Deduct ==
  ASSUME NEW n \in Nat, NEW r \in Nat, NEW more \in Nat, NEW d \in Nat, r <= more,
         NEW productive \in BOOLEAN
  PROVE  /\ (n + d) - (IF productive THEN more ELSE 0) \in Int
         /\ (n + d) - (IF productive THEN more ELSE 0)
              <= (n - (IF productive THEN r ELSE 0)) + d
BY SMT

\* With a time limit, the bound is made of natural numbers.
LEMMA Bounds ==
  ASSUME TimeLimit # NoLimit
  PROVE  /\ TimeLimit \in Nat /\ Unit \in Nat
         /\ Longest \in Nat /\ TimeLimit <= Longest
         /\ Longest + 1 = MaxAttempts * TimeLimit + (MaxAttempts - 1) * MaxBackoff + 1
         /\ \A a \in 0 .. MaxAttempts - 1 :
              /\ a * Unit \in Nat
              /\ TimeLimit + a * Unit <= Longest
              /\ (a + 1) * Unit = a * Unit + Unit
<1>1. TimeLimit \in Nat /\ MaxBackoff \in Nat /\ Unit \in Nat /\ MaxAttempts - 1 \in Nat
  BY ClockConstants DEF Unit
<1>2. (MaxAttempts - 1) * Unit \in Nat
  BY <1>1, Scale
<1>3. \A a \in 0 .. MaxAttempts - 1 :
        /\ a * Unit \in Nat
        /\ a * Unit <= (MaxAttempts - 1) * Unit
        /\ (a + 1) * Unit = a * Unit + Unit
  BY <1>1, Scale
<1>4. Longest + 1 = MaxAttempts * TimeLimit + (MaxAttempts - 1) * MaxBackoff + 1
  <2>1. \A m, t, b \in Nat : t + m * (t + b) + 1 = (m + 1) * t + m * b + 1
    BY SMT
  <2>2. (MaxAttempts - 1) + 1 = MaxAttempts
    BY ClockConstants
  <2> QED
    BY <1>1, <2>1, <2>2 DEF Longest, Unit
<1>5. QED
  BY <1>1, <1>2, <1>3, <1>4 DEF Longest

\* Outside the two awaits, the invariant asks only for the clock.
LEMMA AwaitsNothing ==
  ASSUME Clocks', retry' <= now', pc' \notin {"generate", "tools"},
         TimeLimit # NoLimit => Elapsed' <= Longest + 1
  PROVE  BudgetInv'
BY DEF BudgetInv, Longest, Unit

LEMMA InitBudget == Init => BudgetInv
<1> SUFFICES ASSUME Init PROVE BudgetInv
  OBVIOUS
<1>1. Clocks
  BY ClockConstants DEF Init, Clocks
<1>2. ASSUME TimeLimit # NoLimit PROVE Elapsed <= Longest + 1
  BY <1>2, Bounds DEF Init, Elapsed
<1>3. QED
  BY <1>1, <1>2 DEF Init, BudgetInv

\* Each step keeps the invariant: one step of the proof per action.
LEMMA NextBudget == BudgetInv /\ [Next]_vars => BudgetInv'
<1> SUFFICES ASSUME BudgetInv, [Next]_vars PROVE BudgetInv'
  OBVIOUS
<1> USE ClockConstants DEF BudgetInv, Clocks, clocks, Lasts
<1>0. Elapsed \in Nat
  BY DEF Elapsed
<1>1. CASE BeginStep
  <2>1. CASE UNCHANGED clocks /\ pc' = "done"
    BY <2>1 DEF Elapsed
  <2>2. CASE /\ ~OutOfTime /\ pc' = "generate" /\ timeout' = Remaining
             /\ attempts' = 0 /\ waited' = 0 /\ delay' = InitialBackoff
             /\ UNCHANGED <<now, retry>>
    <3>1. Clocks' /\ retry' <= now' /\ retry' + waited' <= now'
      BY <2>2 DEF Remaining, Elapsed
    <3>2. ASSUME TimeLimit # NoLimit
          PROVE  /\ timeout' \in 0 .. TimeLimit
                 /\ Elapsed' + timeout' <= TimeLimit + attempts' * Unit
                 /\ Elapsed' <= Longest + 1
      <4>1. Elapsed \in Nat /\ Elapsed' = Elapsed /\ Elapsed < TimeLimit
        <5>1. Elapsed' = Elapsed
          BY <2>2 DEF Elapsed
        <5>2. ~(Elapsed >= TimeLimit) /\ TimeLimit \in Nat
          BY <2>2, <3>2, Bounds DEF OutOfTime
        <5> QED
          BY <1>0, <5>1, <5>2
      <4>2. timeout' = TimeLimit - Elapsed
        BY <2>2, <3>2, <4>1, Bounds DEF Remaining
      <4>3. attempts' * Unit = 0
        BY <2>2, <3>2, Bounds
      <4> QED
        BY <3>2, <4>1, <4>2, <4>3, Bounds
    <3> QED
      BY <2>2, <3>1, <3>2
  <2> QED
    BY <1>1, <2>1, <2>2 DEF BeginStep
<1>2. ASSUME NEW d \in Durations, AttemptFails(d) PROVE BudgetInv'
  <2>1. CASE /\ attempts + 1 < MaxAttempts
             /\ now' = now + d + delay /\ waited' = waited + delay
             /\ delay' = IF 2 * delay <= MaxBackoff THEN 2 * delay ELSE MaxBackoff
             /\ attempts' = attempts + 1
             /\ UNCHANGED <<pc, retry, timeout>>
    <3>1. Clocks' /\ retry' <= now' /\ retry' + waited' <= now' /\ pc' = "generate"
      BY <1>2, <2>1 DEF AttemptFails
    <3>2. ASSUME TimeLimit # NoLimit
          PROVE  /\ timeout' \in 0 .. TimeLimit
                 /\ Elapsed' + timeout' <= TimeLimit + attempts' * Unit
                 /\ Elapsed' <= Longest + 1
      <4>1. Elapsed \in Int /\ Elapsed' = Elapsed + d + delay
        BY <2>1 DEF Elapsed
      <4>2. timeout' = timeout /\ timeout \in 0 .. TimeLimit /\ d <= timeout
        BY <1>2, <2>1, <3>2, Bounds DEF AttemptFails
      <4>3. Elapsed + timeout <= TimeLimit + attempts * Unit
        BY <1>2, <3>2 DEF AttemptFails
      <4>4. attempts' * Unit = attempts * Unit + TimeLimit + MaxBackoff /\ attempts * Unit \in Nat
        BY <2>1, <3>2, Bounds DEF Unit
      <4>5. Elapsed' + timeout' <= TimeLimit + attempts' * Unit
        BY <4>1, <4>2, <4>3, <4>4, <3>2, Bounds
      <4>6. TimeLimit + attempts' * Unit <= Longest
        BY <3>1, <3>2, Bounds
      <4>7. attempts' * Unit \in Nat /\ Elapsed' \in Int
        BY <3>1, <3>2, <4>1, Bounds
      <4> QED
        BY <3>2, <4>2, <4>5, <4>6, <4>7, Bounds
    <3> QED
      BY <3>1, <3>2
  <2>2. CASE /\ now' = now + d /\ pc' = "raised"
             /\ UNCHANGED <<retry, waited, delay, attempts, timeout>>
    <3>1. ASSUME TimeLimit # NoLimit PROVE Elapsed' <= Longest + 1
      <4>1. Elapsed \in Int /\ Elapsed' = Elapsed + d
        BY <2>2 DEF Elapsed
      <4>2. Elapsed + timeout <= TimeLimit + attempts * Unit /\ d <= timeout /\ timeout \in Nat
        BY <1>2, <3>1, Bounds DEF AttemptFails
      <4> QED
        BY <3>1, <4>1, <4>2, Bounds
    <3>2. Clocks' /\ retry' <= now' /\ pc' \notin {"generate", "tools"}
      BY <1>2, <2>2
    <3> QED
      BY <3>1, <3>2, AwaitsNothing
  <2> QED
    BY <1>2, <2>1, <2>2 DEF AttemptFails
\* What an attempt that ends the call of the model does to the agent's clock.
<1>3. ASSUME NEW d \in Durations, pc = "generate", Lasts(d), now' = now + d,
             retry' \in {retry, retry + waited}
      PROVE  /\ now' \in Nat /\ retry' \in Nat /\ retry' <= now'
             /\ TimeLimit # NoLimit => Elapsed' \in Int /\ Elapsed' <= Longest
  <2>1. now' \in Nat /\ retry' \in Nat /\ retry' <= now'
       /\ Elapsed' \in Int /\ Elapsed' <= Elapsed + d
    <3>1. now' \in Nat /\ retry' \in Nat /\ retry <= retry' /\ retry' <= now'
      BY <1>3
    <3>2. Elapsed' \in Int /\ Elapsed' <= Elapsed + d
      BY <1>3, <3>1, Deduct DEF Elapsed
    <3> QED
      BY <3>1, <3>2
  <2>2. ASSUME TimeLimit # NoLimit PROVE Elapsed' \in Int /\ Elapsed' <= Longest
    <3>1. Elapsed + timeout <= TimeLimit + attempts * Unit /\ d <= timeout /\ timeout \in Nat
      BY <1>3, <2>2, Bounds
    <3>2. attempts * Unit \in Nat /\ TimeLimit + attempts * Unit <= Longest
      BY <2>2, Bounds
    <3>3. TimeLimit \in Nat /\ Longest \in Nat
      BY <2>2, Bounds
    <3> HIDE DEF BudgetInv, Clocks
    <3> QED
      BY <1>0, <1>3, <2>1, <3>1, <3>2, <3>3
  <2> QED
    BY <2>1, <2>2
<1>4. ASSUME NEW d \in Durations, AttemptRaises(d) \/ Overflow(d) PROVE BudgetInv'
  <2>1. /\ pc = "generate" /\ Lasts(d) /\ now' = now + d /\ pc' \in {"raised", "top"}
        /\ UNCHANGED <<retry, waited, attempts, delay, timeout>>
    BY <1>4 DEF AttemptRaises, Overflow
  <2>2. /\ now' \in Nat /\ retry' \in Nat /\ retry' <= now'
        /\ TimeLimit # NoLimit => Elapsed' \in Int /\ Elapsed' <= Longest
    BY <1>3, <2>1
  <2>3. Clocks' /\ pc' \notin {"generate", "tools"}
    BY <2>1, <2>2
  <2>4. TimeLimit # NoLimit => Elapsed' <= Longest + 1
    BY <2>2, Bounds
  <2> QED
    BY <2>2, <2>3, <2>4, AwaitsNothing
<1>5. ASSUME NEW d \in Durations, NEW out \in Outputs, Generate(d, out) PROVE BudgetInv'
  <2>1. /\ pc = "generate" /\ Lasts(d) /\ now' = now + d /\ retry' = retry + waited
        /\ UNCHANGED <<waited, attempts, delay>>
        /\ \/ pc' \in {"top", "done"} /\ UNCHANGED timeout
           \/ pc' = "tools" /\ timeout' = Remaining'
    BY <1>5 DEF Generate
  <2>2. /\ now' \in Nat /\ retry' \in Nat /\ retry' <= now'
        /\ TimeLimit # NoLimit => Elapsed' \in Int /\ Elapsed' <= Longest
    BY <1>3, <2>1
  <2>3. CASE pc' \in {"top", "done"} /\ UNCHANGED timeout
    <3>1. Clocks' /\ pc' \notin {"generate", "tools"}
      BY <2>1, <2>2, <2>3
    <3>2. TimeLimit # NoLimit => Elapsed' <= Longest + 1
      BY <2>2, Bounds
    <3> QED
      BY <2>2, <3>1, <3>2, AwaitsNothing
  <2>4. CASE pc' = "tools" /\ timeout' = Remaining'
    <3>1. CASE TimeLimit = NoLimit
      BY <2>1, <2>2, <2>4, <3>1 DEF Remaining
    <3>2. CASE TimeLimit # NoLimit
      <4>1. /\ timeout' = IF TimeLimit - Elapsed' > 0 THEN TimeLimit - Elapsed' ELSE 1
            /\ Elapsed' \in Int /\ Elapsed' <= Longest
        BY <2>2, <2>4, <3>2 DEF Remaining
      <4>2. timeout' \in Nat /\ Elapsed' + timeout' <= Longest + 1
        BY <3>2, <4>1, Bounds, Clamp
      <4>3. Elapsed' <= Longest + 1
        BY <3>2, <4>1, Bounds
      <4>4. Clocks'
        BY <2>1, <2>2, <4>2
      <4> QED
        BY <2>2, <2>4, <4>2, <4>3, <4>4 DEF Longest, Unit
    <3> QED
      BY <3>1, <3>2
  <2> QED
    BY <2>1, <2>3, <2>4
\* The tools end within the time they are given.
<1>6. ASSUME NEW d \in Nat, pc = "tools", timeout = NoLimit \/ d <= timeout,
             now' = now + d, pc' \in {"top", "done"},
             UNCHANGED <<retry, waited, attempts, delay, timeout>>
      PROVE  BudgetInv'
  <2>1. ASSUME TimeLimit # NoLimit PROVE Elapsed' <= Longest + 1
    <3>1. Elapsed \in Int /\ Elapsed' = Elapsed + d
      BY <1>6 DEF Elapsed
    <3>2. Elapsed + timeout <= Longest + 1 /\ timeout \in Nat /\ d <= timeout
      BY <1>6, <2>1
    <3> QED
      BY <2>1, <3>1, <3>2, Bounds
  <2>2. Clocks' /\ retry' <= now' /\ pc' \notin {"generate", "tools"}
    BY <1>6
  <2> QED
    BY <2>1, <2>2, AwaitsNothing
<1>7. ASSUME NEW d \in Durations, ToolsEnd(d) PROVE BudgetInv'
  <2>1. /\ d \in Nat /\ pc = "tools" /\ (timeout = NoLimit \/ d <= timeout)
        /\ now' = now + d /\ pc' \in {"top", "done"}
        /\ UNCHANGED <<retry, waited, attempts, delay, timeout>>
    BY <1>7 DEF ToolsEnd
  <2> QED
    BY <1>6, <2>1
<1>8. CASE ToolsTimeOut
  <2>1. /\ timeout \in Nat /\ pc = "tools" /\ timeout <= timeout
        /\ now' = now + timeout /\ pc' \in {"top", "done"}
        /\ UNCHANGED <<retry, waited, attempts, delay, timeout>>
    BY <1>8 DEF ToolsTimeOut
  <2> QED
    BY <1>6, <2>1
<1>9. CASE Interrupt
  BY <1>9 DEF Interrupt, Elapsed
<1>10. CASE UNCHANGED vars
  BY <1>10 DEF vars, Elapsed
<1> QED
  BY <1>1, <1>2, <1>4, <1>5, <1>7, <1>8, <1>9, <1>10 DEF Next, Loop

\* With a time limit, the agent's own clock never shows more than MaxAttempts
\* times the limit, the backoffs between the attempts and one second, however
\* the model and the tools behave: the bound on what "to avoid overruns" buys.
THEOREM Overrun == Spec => []OverrunBounded
<1>1. BudgetInv => OverrunBounded
  BY Bounds DEF BudgetInv, OverrunBounded
<1>2. QED
  BY InitBudget, NextBudget, <1>1, PTL DEF Spec

\* The state is typed: the conversation of messages, the clocks of natural numbers.
THEOREM TypeCorrect == Spec => []TypeOK
<1>1. ConversationInv /\ BudgetInv => TypeOK
  BY DEF ConversationInv, Sound, BudgetInv, Clocks, TypeOK
<1>2. QED
  BY ConversationKept, InitBudget, NextBudget, <1>1, PTL DEF Spec
=============================================================================
