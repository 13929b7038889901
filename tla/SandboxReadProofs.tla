-------------------------- MODULE SandboxReadProofs --------------------------
(***************************************************************************)
(* Theorems about a read in sandbox mode, for any texts, any size of a     *)
(* chunk, any lines asked for, and any number of changes and failures.     *)
(***************************************************************************)
EXTENDS SandboxRead, DataLemmas

-----------------------------------------------------------------------------
(* Texts.                                                                  *)

\* s is lines without the blank lines at the end.
Strips(s, lines) ==
  /\ Len(s) <= Len(lines)
  /\ \A i \in 1 .. Len(s) : s[i] = lines[i]
  /\ s # <<>> => s[Len(s)] # Blank
  /\ \A i \in Len(s) + 1 .. Len(lines) : lines[i] = Blank

LEMMA StrippedIs ==
  ASSUME NEW S, NEW lines \in Seq(S)
  PROVE  Stripped(lines) \in Seq(S) /\ Strips(Stripped(lines), lines)
  <1> DEFINE n == Len(lines)
             T == {i \in 1 .. n : lines[i] # Blank}
             last == IF T # {} THEN Max(T) ELSE 0
             s == SubSeq(lines, 1, last)
  <1>1. n \in Nat
    BY LenProperties
  <1>2. Stripped(lines) = s
    BY DEF Stripped, SelectLastInSeq
  <1>3. /\ last \in 0 .. n
        /\ last # 0 => lines[last] # Blank
        /\ \A i \in last + 1 .. n : lines[i] = Blank
    <2>1. CASE T = {}
      BY <1>1, <2>1
    <2>2. CASE T # {}
      <3>1. Max(T) \in T /\ \A m \in T : Max(T) >= m
        BY <1>1, <2>2, MaxOf
      <3>2. last = Max(T) /\ last \in 1 .. n
        BY <2>2, <3>1
      <3>3. ASSUME NEW i \in last + 1 .. n, lines[i] # Blank
            PROVE  FALSE
        <4>1. i \in 1 .. n /\ i > last
          BY <1>1, <3>2
        <4>2. i \in T
          BY <3>3, <4>1
        <4>3. last >= i
          BY <3>1, <3>2, <4>2
        <4>4. QED
          BY <1>1, <3>2, <4>1, <4>3
      <3>4. QED
        BY <3>1, <3>2, <3>3, SMTT(30)
    <2>3. QED
      BY <2>1, <2>2
  <1> HIDE DEF last
  <1>4. last \in Int /\ \A i \in 1 .. last : lines[i] \in S
    BY <1>1, <1>3, ElementOfSeq
  <1>5. /\ s \in Seq(S)
        /\ Len(s) = IF 1 <= last THEN last - 1 + 1 ELSE 0
        /\ \A i \in 1 .. last - 1 + 1 : s[i] = lines[1 + i - 1]
    BY <1>4, SubSeqProperties
  <1> HIDE DEF s
  <1>6. Len(s) = last /\ \A i \in 1 .. last : s[i] = lines[i]
    BY <1>3, <1>5
  <1>7. s # <<>> => last # 0
    BY <1>5, <1>6, EmptySeq
  <1>8. Strips(s, lines)
    BY <1>1, <1>3, <1>6, <1>7 DEF Strips
  <1>9. QED
    BY <1>2, <1>5, <1>8

LEMMA StrippedNothing == Stripped(<<>>) = <<>>
  <1> DEFINE s == Stripped(<<>>)
  <1>1. <<>> \in Seq({}) /\ Len(<<>>) = 0 /\ s \in Seq({}) /\ Strips(s, <<>>)
    BY EmptySeq, StrippedIs
  <1> HIDE DEF s
  <1>2. Len(s) = 0
    BY <1>1, LenProperties DEF Strips
  <1>3. QED
    BY <1>1, <1>2, EmptySeq DEF s

\* A text is stripped in one way.
LEMMA StripsUnique ==
  ASSUME NEW S, NEW s \in Seq(S), NEW t \in Seq(S), NEW lines \in Seq(S),
         Strips(s, lines), Strips(t, lines)
  PROVE  s = t
  <1>1. Len(s) \in Nat /\ Len(t) \in Nat /\ Len(lines) \in Nat
    BY LenProperties
  <1>2. ASSUME NEW u \in Seq(S), NEW v \in Seq(S), Strips(u, lines), Strips(v, lines),
               Len(u) \in Nat, Len(v) \in Nat
        PROVE  ~(Len(u) < Len(v))
    <2> SUFFICES ASSUME Len(u) < Len(v) PROVE FALSE
      OBVIOUS
    <2>1. v # <<>> /\ Len(v) \in 1 .. Len(v)
      BY <1>2, EmptySeq
    <2>2. Len(v) \in Len(u) + 1 .. Len(lines)
      BY <1>1, <1>2 DEF Strips
    <2>3. lines[Len(v)] = Blank
      BY <1>2, <2>2 DEF Strips
    <2>4. v[Len(v)] = lines[Len(v)] /\ v[Len(v)] # Blank
      BY <1>2, <2>1 DEF Strips
    <2>5. QED
      BY <2>3, <2>4
  <1>3. ~(Len(s) < Len(t)) /\ ~(Len(t) < Len(s))
    BY <1>1, <1>2
  <1>4. Len(s) = Len(t)
    BY <1>1, <1>3
  <1>5. \A i \in 1 .. Len(s) : s[i] = t[i]
    BY <1>4 DEF Strips
  <1>6. QED
    BY <1>4, <1>5, SeqEqual

\* Blank lines at the end make no difference.
LEMMA StrippedPrefix ==
  ASSUME NEW S, NEW u \in Seq(S), NEW t \in Seq(S), Len(u) <= Len(t),
         \A i \in 1 .. Len(u) : u[i] = t[i],
         \A i \in Len(u) + 1 .. Len(t) : t[i] = Blank
  PROVE  Stripped(u) = Stripped(t)
  <1> DEFINE s == Stripped(u)
  <1>1. Len(u) \in Nat /\ Len(t) \in Nat
    BY LenProperties
  <1>2. s \in Seq(S) /\ Strips(s, u) /\ Stripped(t) \in Seq(S) /\ Strips(Stripped(t), t)
    BY StrippedIs
  <1> HIDE DEF s
  <1>3. Len(s) \in Nat
    BY <1>2, LenProperties
  <1>4. Strips(s, t)
    <2>1. Len(s) <= Len(t) /\ \A i \in 1 .. Len(s) : s[i] = t[i]
      BY <1>1, <1>2, <1>3 DEF Strips
    <2>2. ASSUME NEW i \in Len(s) + 1 .. Len(t)
          PROVE  t[i] = Blank
      <3>1. CASE i <= Len(u)
        <4>1. i \in Len(s) + 1 .. Len(u) /\ i \in 1 .. Len(u)
          BY <1>1, <1>3, <3>1
        <4>2. QED
          BY <1>2, <4>1 DEF Strips
      <3>2. CASE ~(i <= Len(u))
        BY <1>1, <1>3, <3>2
      <3>3. QED
        BY <3>1, <3>2
    <2>3. QED
      BY <1>2, <2>1, <2>2 DEF Strips
  <1>5. s = Stripped(t)
    BY <1>2, <1>4, StripsUnique
  <1>6. QED
    BY <1>5 DEF s

\* The lines of a part are those of the text, from the first one on.
Window(w, text, first, n) ==
  /\ \A i \in 1 .. Len(w) : first + i - 1 <= Len(text) /\ w[i] = text[first + i - 1]
  /\ n # 0 => Len(w) <= n
  /\ (n = 0 \/ Len(w) < n) => first + Len(w) > Len(text)

LEMMA PartIs ==
  ASSUME NEW S, NEW text \in Seq(S), NEW first \in Nat \ {0}, NEW n \in Nat
  PROVE  Part(text, first, n) \in Seq(S) /\ Window(Part(text, first, n), text, first, n)
  <1> DEFINE size == Len(text)
             last == IF n = 0 THEN size ELSE Least(first + n - 1, size)
             w == SubSeq(text, first, last)
  <1>1. size \in Nat
    BY LenProperties
  <1>2. Part(text, first, n) = w
    BY DEF Part
  <1>3. /\ last \in Int /\ last <= size
        /\ n # 0 => last - first + 1 <= n
        /\ n = 0 \/ last - first + 1 < n => last = size
    BY <1>1 DEF Least
  <1> HIDE DEF last
  <1>4. \A i \in first .. last : text[i] \in S
    BY <1>1, <1>3, ElementOfSeq
  <1>5. /\ w \in Seq(S)
        /\ Len(w) = IF first <= last THEN last - first + 1 ELSE 0
        /\ \A i \in 1 .. last - first + 1 : w[i] = text[first + i - 1]
    BY <1>3, <1>4, SubSeqProperties, SMTT(30)
  <1> HIDE DEF w, size
  <1>6. \A i \in 1 .. Len(w) : first + i - 1 <= size /\ w[i] = text[first + i - 1]
    BY <1>1, <1>3, <1>5, SMTT(30)
  <1>7. (n # 0 => Len(w) <= n) /\ (n = 0 \/ Len(w) < n => first + Len(w) > size)
    BY <1>1, <1>3, <1>5
  <1>8. QED
    BY <1>2, <1>5, <1>6, <1>7 DEF Window, size

\* str.splitlines gives lines, and changes nothing where no line is broken.
LEMMA SplitLinesIs ==
  ASSUME NEW lines \in Seq(Lines)
  PROVE  /\ SplitLines(lines) \in Seq(Lines)
         /\ ~Has(lines, Broken) => SplitLines(lines) = lines
  <1> DEFINE n == Len(lines)
             piece(i) == IF lines[i] \in Broken THEN <<lines[i], Rest>> ELSE <<lines[i]>>
             seqs == [i \in 1 .. n |-> piece(i)]
  <1>1. n \in Nat /\ DOMAIN lines = 1 .. n
    BY LenProperties
  <1>2. SplitLines(lines) = FlattenSeq(seqs)
    BY <1>1 DEF SplitLines
  <1>3. ASSUME NEW i \in 1 .. n
        PROVE  piece(i) \in Seq(Lines)
    <2>1. lines[i] \in Lines /\ Rest \in Lines
      BY ElementOfSeq, ReadAssumption
    <2>2. QED
      BY <2>1
  <1>4. seqs \in Seq(Seq(Lines)) /\ Len(seqs) = n
    <2> HIDE DEF piece
    <2>1. \A i \in 1 .. n : piece(i) \in Seq(Lines)
      BY <1>3
    <2>2. QED
      BY <1>1, <2>1
  <1> HIDE DEF seqs
  <1>5. PICK p : Joins(p, seqs, Lines)
    BY <1>4, FlattenPath
  <1>6. /\ p \in [0 .. n -> Seq(Lines)]
        /\ p[0] = <<>>
        /\ \A i \in 1 .. n : p[i] = p[i - 1] \o seqs[i]
        /\ FlattenSeq(seqs) = p[n]
    BY <1>4, <1>5 DEF Joins
  <1>7. p[n] \in Seq(Lines)
    BY <1>1, <1>6
  <1>8. ASSUME ~Has(lines, Broken)
        PROVE  p[n] = lines
    <2> DEFINE T == {i \in 0 .. n : Len(p[i]) = i /\ \A j \in 1 .. i : p[i][j] = lines[j]}
    <2>1. T \in SUBSET (0 .. n) /\ 0 \in T
      <3>1. Len(p[0]) = 0
        BY <1>6
      <3>2. QED
        BY <1>1, <3>1
    <2>2. ASSUME NEW i \in 1 .. n, i - 1 \in T
          PROVE  i \in T
      <3>1. seqs[i] = <<lines[i]>>
        <4>1. lines[i] \notin Broken
          BY <1>1, <1>8 DEF Has, ToSet
        <4>2. QED
          BY <1>1, <4>1 DEF seqs
      <3>2. p[i - 1] \in Seq(Lines) /\ lines[i] \in Lines /\ i \in 0 .. n
        BY <1>1, <1>6, ElementOfSeq
      <3>3. p[i] = p[i - 1] \o <<lines[i]>>
        BY <1>6, <3>1
      <3>4. Len(p[i - 1]) = i - 1 /\ \A j \in 1 .. i - 1 : p[i - 1][j] = lines[j]
        BY <2>2
      <3> DEFINE q == p[i - 1]
                 one == <<lines[i]>>
      <3>5. one \in Seq(Lines) /\ Len(one) = 1 /\ one[1] = lines[i]
        BY <3>2
      <3> HIDE DEF q, one
      <3>6. /\ Len(q \o one) = Len(q) + Len(one)
            /\ \A j \in 1 .. Len(q) + Len(one) :
                 (q \o one)[j] = IF j <= Len(q) THEN q[j] ELSE one[j - Len(q)]
        BY <3>2, <3>5, ConcatProperties, ZenonT(60) DEF q
      <3>7. Len(p[i]) = i
        BY <1>1, <3>3, <3>4, <3>5, <3>6 DEF q, one
      <3>8. ASSUME NEW j \in 1 .. i
            PROVE  p[i][j] = lines[j]
        <4>1. Len(q) = i - 1 /\ Len(q) + Len(one) = i /\ p[i] = q \o one
          BY <1>1, <3>3, <3>4, <3>5 DEF q, one
        <4>2. CASE j <= i - 1
          <5>1. (q \o one)[j] = q[j]
            BY <3>6, <4>1, <4>2
          <5>2. QED
            BY <3>4, <4>1, <4>2, <5>1 DEF q
        <4>3. CASE ~(j <= i - 1)
          <5>1. j = i /\ j - Len(q) = 1
            BY <4>1, <4>3
          <5>2. QED
            BY <3>5, <3>6, <4>1, <4>3, <5>1
        <4>4. QED
          BY <4>2, <4>3
      <3>9. QED
        BY <3>2, <3>7, <3>8
    <2> HIDE DEF T
    <2>3. n \in T
      <3>1. T = 0 .. n
        BY <1>1, <2>1, <2>2, IndexInduction
      <3>2. QED
        BY <1>1, <3>1
    <2>4. Len(p[n]) = n /\ \A j \in 1 .. n : p[n][j] = lines[j]
      BY <2>3 DEF T
    <2>5. QED
      BY <1>7, <2>4, SeqEqual
  <1>9. QED
    BY <1>2, <1>6, <1>7, <1>8

-----------------------------------------------------------------------------
(* How a read goes on.                                                     *)

Counters == {"idle", "measure", "chunk", "sed again", "editor again", "sed", "editor", "done"}
Sources == {"nowhere", "sandbox", "store", "error"}
Reads == [pc : Counters, start : Nat \ {0}, limit : Nat, out : Seq(Lines), from : Sources]

Typed ==
  /\ file \in Contents /\ store \in Contents /\ seen \in SUBSET Contents
  /\ read \in Reads
  /\ faults \in Nat /\ repeated \in BOOLEAN
  /\ read.pc = "idle" => seen = {}
  /\ read.pc # "idle" => file \in seen
  /\ read.pc = "done" <=> read.from # "nowhere"
  /\ read.pc \in {"idle", "measure"} => read.out = <<>>
  /\ read.pc = "chunk" /\ read.limit # 0 => Len(read.out) < read.limit

\* The read is at pc with these lines, and still reads what was asked for.
Onward(pc, from, out) ==
  /\ read' \in Reads
  /\ read'.start = read.start /\ read'.limit = read.limit
  /\ read'.pc = pc /\ read'.from = from /\ read'.out = out

LEMMA GoOnIs ==
  ASSUME read \in Reads, NEW pc \in Counters, GoOn(pc)
  PROVE  Onward(pc, read.from, read.out)
  BY DEF GoOn, Onward, Reads

LEMMA AnswerIs ==
  ASSUME read \in Reads, NEW from \in Sources, NEW lines \in Seq(Lines), Answer(from, lines)
  PROVE  Onward("done", from, Stripped(lines))
  <1>1. Stripped(lines) \in Seq(Lines)
    BY StrippedIs
  <1>2. QED
    BY <1>1 DEF Answer, Onward, Reads, Counters

\* A prefix of the lines, all of them where no more than the limit are there.
LEMMA CutIs ==
  ASSUME read \in Reads, NEW lines \in Seq(Lines)
  PROVE  /\ Cut(lines) \in Seq(Lines)
         /\ Len(Cut(lines)) <= Len(lines)
         /\ \A i \in 1 .. Len(Cut(lines)) : Cut(lines)[i] = lines[i]
         /\ read.limit = 0 \/ Len(lines) <= read.limit => Cut(lines) = lines
  <1> DEFINE limit == read.limit
             w == Part(lines, 1, limit)
  <1>1. limit \in Nat /\ Len(lines) \in Nat
    BY LenProperties DEF Reads
  <1>2. CASE limit = 0
    BY <1>1, <1>2 DEF Cut
  <1>3. CASE limit # 0
    <2>1. Cut(lines) = w
      BY <1>3 DEF Cut
    <2>2. w \in Seq(Lines) /\ Window(w, lines, 1, limit)
      <3>1. 1 \in Nat \ {0}
        OBVIOUS
      <3> HIDE DEF limit
      <3>2. QED
        BY <1>1, <3>1, PartIs, Zenon
    <2> HIDE DEF w, limit
    <2>3. Len(w) \in Nat
      BY <2>2, LenProperties
    <2>4. \A i \in 1 .. Len(w) : 1 + i - 1 = i /\ i <= Len(lines) /\ w[i] = lines[i]
      BY <2>2, <2>3 DEF Window
    <2>5. Len(w) <= Len(lines)
      <3>1. Len(w) = 0 \/ Len(w) \in 1 .. Len(w)
        BY <2>3
      <3>2. QED
        BY <1>1, <2>3, <2>4, <3>1
    <2>6. Len(lines) <= limit => w = lines
      <3>1. ASSUME Len(lines) <= limit
            PROVE  Len(w) = Len(lines)
        BY <1>1, <1>3, <2>2, <2>3, <2>5, <3>1 DEF Window
      <3>2. QED
        BY <2>2, <2>4, <3>1, SeqEqual
    <2>7. QED
      BY <1>3, <2>1, <2>2, <2>4, <2>5, <2>6 DEF limit
  <1>4. QED
    BY <1>2, <1>3

LEMMA GatheredIs ==
  ASSUME read \in Reads, NEW lines \in Seq(Lines), Gathered(lines)
  PROVE  IF Stripped(lines) = <<>> THEN Onward("sed", read.from, lines)
                                   ELSE Onward("done", "sandbox", Stripped(Cut(lines)))
  <1>1. CASE Stripped(lines) = <<>>
    <2>1. read' = [read EXCEPT !.pc = "sed", !.out = lines]
      BY <1>1 DEF Gathered
    <2>2. Onward("sed", read.from, lines)
      BY <2>1 DEF Onward, Reads, Counters
    <2>3. QED
      BY <1>1, <2>2
  <1>2. CASE Stripped(lines) # <<>>
    <2>1. Answer("sandbox", Cut(lines)) /\ Cut(lines) \in Seq(Lines)
      BY <1>2, CutIs DEF Gathered
    <2>2. QED
      BY <1>2, <2>1, AnswerIs DEF Sources
  <1>3. QED
    BY <1>1, <1>2

LEMMA StoreIs ==
  ASSUME Typed, AnswerFromStore
  PROVE  \E from \in {"store", "error"}, out \in Seq(Lines) : Onward("done", from, out)
  <1>1. read \in Reads /\ read.start \in Nat \ {0} /\ read.limit \in Nat
    BY DEF Typed, Reads
  <1>2. ASSUME NEW from \in {"store", "error"}, NEW lines \in Seq(Lines), Answer(from, lines)
        PROVE  \E f \in {"store", "error"}, out \in Seq(Lines) : Onward("done", f, out)
    <2>1. Onward("done", from, Stripped(lines)) /\ Stripped(lines) \in Seq(Lines)
      BY <1>1, <1>2, AnswerIs, StrippedIs DEF Sources
    <2>2. QED
      BY <2>1
  <1>3. <<>> \in Seq(Lines)
    BY EmptySeq
  <1>4. CASE store = NoFile
    BY <1>2, <1>3, <1>4 DEF AnswerFromStore
  <1>5. CASE store # NoFile
    <2>1. store \in Seq(Lines)
      BY <1>5, ReadAssumption DEF Typed, Contents
    <2>2. SplitLines(store) \in Seq(Lines)
      BY <2>1, SplitLinesIs
    <2>3. Part(SplitLines(store), read.start, read.limit) \in Seq(Lines)
      BY <1>1, <2>2, PartIs
    <2>4. \/ Answer("store", <<>>) \/ Answer("error", <<>>)
          \/ Answer("store", Part(SplitLines(store), read.start, read.limit))
      BY <1>5 DEF AnswerFromStore
    <2>5. QED
      BY <1>2, <1>3, <2>3, <2>4
  <1>6. QED
    BY <1>4, <1>5

LEMMA ViewedIs ==
  ASSUME Typed, NEW lines \in Seq(Lines), Viewed(lines)
  PROVE  LET cut == Cut(SplitLines(lines))
             all == read.out \o cut
         IN /\ cut \in Seq(Lines) /\ all \in Seq(Lines)
            /\ IF read.pc \in {"sed again", "editor again"}
               THEN IF Stripped(all) = <<>> THEN Onward("sed", read.from, all)
                                            ELSE Onward("done", "sandbox", Stripped(Cut(all)))
               ELSE Onward("done", "sandbox", Stripped(cut))
  <1> DEFINE cut == Cut(SplitLines(lines))
             all == read.out \o cut
  <1>1. read \in Reads /\ read.out \in Seq(Lines)
    BY DEF Typed, Reads
  <1>2. cut \in Seq(Lines)
    BY <1>1, SplitLinesIs, CutIs
  <1>3. all \in Seq(Lines)
    <2> HIDE DEF cut
    <2>1. QED
      BY <1>1, <1>2, ConcatProperties
  <1>4. CASE read.pc \in {"sed again", "editor again"}
    <2>1. Gathered(all)
      BY <1>4 DEF Viewed
    <2> HIDE DEF all, cut
    <2>2. QED
      BY <1>1, <1>2, <1>3, <1>4, <2>1, GatheredIs DEF all, cut
  <1>5. CASE read.pc \notin {"sed again", "editor again"}
    <2>1. Answer("sandbox", cut)
      BY <1>5 DEF Viewed
    <2> HIDE DEF cut
    <2>2. Onward("done", "sandbox", Stripped(cut))
      BY <1>1, <1>2, <2>1, AnswerIs DEF Sources
    <2>3. QED
      BY <1>2, <1>3, <1>5, <2>2 DEF cut
  <1>6. QED
    BY <1>4, <1>5

\* A chunk is asked for from the next line on, and never past the limit.
LEMMA ChunkIs ==
  ASSUME Typed, read.pc = "chunk"
  PROVE  /\ NextLine \in Nat \ {0} /\ NextLine = read.start + Len(read.out)
         /\ Wanted \in 1 .. ChunkLines
         /\ read.limit # 0 => Len(read.out) + Wanted <= read.limit
         /\ Wanted = ChunkLines \/ (read.limit # 0 /\ Len(read.out) + Wanted = read.limit)
         /\ Printed(NextLine, Wanted) \in Seq(Lines)
  <1>1. /\ read.out \in Seq(Lines) /\ read.start \in Nat \ {0} /\ read.limit \in Nat
        /\ Len(read.out) \in Nat /\ ChunkLines \in Nat \ {0}
    BY LenProperties, ReadAssumption DEF Typed, Reads
  <1>2. NextLine \in Nat \ {0} /\ NextLine = read.start + Len(read.out)
    BY <1>1 DEF NextLine
  <1>3. /\ Wanted \in 1 .. ChunkLines
        /\ read.limit # 0 => Len(read.out) + Wanted <= read.limit
        /\ Wanted = ChunkLines \/ (read.limit # 0 /\ Len(read.out) + Wanted = read.limit)
    BY <1>1, SMTT(30) DEF Wanted, Least, Typed
  <1>4. Printed(NextLine, Wanted) \in Seq(Lines)
    <2>1. CASE file = NoFile
      BY <2>1 DEF Printed
    <2>2. CASE file # NoFile
      <3>1. file \in Seq(Lines) /\ Wanted \in Nat
        BY <1>1, <1>3, <2>2, ReadAssumption DEF Typed, Contents
      <3>2. QED
        BY <1>2, <2>2, <3>1, PartIs DEF Printed
    <2>3. QED
      BY <2>1, <2>2
  <1>5. QED
    BY <1>2, <1>3, <1>4

ChunkLinesRead == SplitLines(Stripped(Printed(NextLine, Wanted)))

LEMMA ReadChunkIs ==
  ASSUME Typed, ReadChunk
  PROVE  LET out == read.out \o ChunkLinesRead
         IN /\ ChunkLinesRead \in Seq(Lines) /\ out \in Seq(Lines)
            /\ Len(out) = Len(read.out) + Len(ChunkLinesRead)
            /\ IF LastChunk(ChunkLinesRead) \/ (read.limit # 0 /\ Len(out) >= read.limit)
               THEN IF Stripped(out) = <<>> THEN Onward("sed", read.from, out)
                                            ELSE Onward("done", "sandbox", Stripped(Cut(out)))
               ELSE Onward("chunk", read.from, out)
  <1> DEFINE lines == ChunkLinesRead
             out == read.out \o lines
             last == LastChunk(lines) \/ (read.limit # 0 /\ Len(out) >= read.limit)
  <1>1. read \in Reads /\ read.out \in Seq(Lines) /\ read.pc = "chunk"
    BY DEF Typed, Reads, ReadChunk
  <1>2. lines \in Seq(Lines)
    BY <1>1, ChunkIs, StrippedIs, SplitLinesIs DEF ChunkLinesRead
  <1>3. /\ last => Gathered(out)
        /\ ~last => read' = [read EXCEPT !.out = out]
    BY DEF ReadChunk, ChunkLinesRead
  <1> HIDE DEF lines
  <1>4. out \in Seq(Lines) /\ Len(out) = Len(read.out) + Len(lines)
    BY <1>1, <1>2, ConcatProperties
  <1> HIDE DEF out, last
  <1>5. CASE last
    <2>1. Gathered(out)
      BY <1>3, <1>5
    <2>2. IF Stripped(out) = <<>> THEN Onward("sed", read.from, out)
                                  ELSE Onward("done", "sandbox", Stripped(Cut(out)))
      BY <1>1, <1>4, <2>1, GatheredIs
    <2>3. QED
      BY <1>2, <1>4, <1>5, <2>2 DEF last, out, lines
  <1>6. CASE ~last
    <2>1. Onward("chunk", read.from, out)
      BY <1>1, <1>3, <1>4, <1>6 DEF Onward, Reads
    <2>2. QED
      BY <1>2, <1>4, <1>6, <2>1 DEF last, out, lines
  <1>7. QED
    BY <1>5, <1>6

-----------------------------------------------------------------------------
(* Types.                                                                  *)

LEMMA InitTyped == Init => Typed
  <1> SUFFICES ASSUME Init PROVE Typed
    OBVIOUS
  <1>1. <<>> \in Seq(Lines) /\ 1 \in Nat \ {0} /\ 0 \in Nat
    BY EmptySeq
  <1>2. /\ read \in Reads
        /\ read.pc = "idle" /\ read.from = "nowhere" /\ read.out = <<>>
    BY <1>1 DEF Init, Reads, Counters, Sources
  <1>3. QED
    BY <1>2 DEF Init, Typed

\* What a step of the read leaves alone.
Around == UNCHANGED <<file, store, seen>> /\ faults' \in Nat /\ repeated' \in BOOLEAN

LEMMA AroundFault ==
  ASSUME Typed, Fault \/ UNCHANGED faults, UNCHANGED <<file, store, seen>>,
         UNCHANGED repeated \/ repeated' = (read.out # <<>>)
  PROVE  Around
  <1>1. faults' \in Nat
    BY DEF Typed, Fault
  <1>2. repeated' \in BOOLEAN
    BY DEF Typed
  <1>3. QED
    BY <1>1, <1>2 DEF Around

LEMMA OnwardTyped ==
  ASSUME Typed, Around, read.pc # "idle", NEW pc \in Counters \ {"idle", "measure"}, NEW from, NEW out,
         Onward(pc, from, out),
         pc = "done" <=> from # "nowhere",
         pc = "chunk" /\ read.limit # 0 => Len(out) < read.limit
  PROVE  Typed'
  BY DEF Typed, Around, Onward, Contents

LEMMA ViewedTyped ==
  ASSUME Typed, Around, NEW lines \in Seq(Lines), Viewed(lines),
         read.pc \in {"sed", "sed again", "editor", "editor again"}
  PROVE  Typed'
  <1> DEFINE cut == Cut(SplitLines(lines))
             all == read.out \o cut
  <1>1. read.from = "nowhere" /\ read.pc # "idle"
    BY DEF Typed
  <1>2. IF read.pc \in {"sed again", "editor again"}
        THEN IF Stripped(all) = <<>> THEN Onward("sed", read.from, all)
                                     ELSE Onward("done", "sandbox", Stripped(Cut(all)))
        ELSE Onward("done", "sandbox", Stripped(cut))
    BY ViewedIs
  <1> HIDE DEF all, cut
  <1>3. \/ Onward("sed", read.from, all)
        \/ Onward("done", "sandbox", Stripped(Cut(all)))
        \/ Onward("done", "sandbox", Stripped(cut))
    BY <1>2
  <1>4. "sed" \in Counters \ {"idle", "measure"} /\ "done" \in Counters \ {"idle", "measure"}
    BY DEF Counters
  <1>5. QED
    BY <1>1, <1>3, <1>4, OnwardTyped

LEMMA TypedKept == Typed /\ [Next]_vars => Typed'
  <1> SUFFICES ASSUME Typed, [Next]_vars PROVE Typed'
    OBVIOUS
  <1>1. /\ read \in Reads /\ read.out \in Seq(Lines) /\ faults \in Nat /\ repeated \in BOOLEAN
        /\ read.pc # "done" => read.from = "nowhere"
    BY DEF Typed, Reads
  <1> USE DEF Counters
  <1>2. ASSUME NEW offset \in Offsets, NEW limit \in Limits, Begin(offset, limit)
        PROVE  Typed'
    <2>1. offset + 1 \in Nat \ {0} /\ limit \in Nat
      BY ReadAssumption
    <2>2. read' \in Reads /\ read'.pc = "measure" /\ read'.out = read.out /\ read'.from = read.from
      BY <1>1, <1>2, <2>1 DEF Begin, Reads
    <2>3. read.out = <<>> /\ read.from = "nowhere" /\ file \in Contents
      BY <1>2 DEF Typed, Begin
    <2>4. QED
      BY <1>2, <2>2, <2>3 DEF Typed, Begin, Contents
  <1>3. CASE Measure
    <2>1. Around /\ read.pc = "measure" /\ read.from = "nowhere"
      BY <1>1, <1>3 DEF Measure, Around
    <2>2. CASE Answer("error", <<>>)
      <3>1. Onward("done", "error", Stripped(<<>>))
        BY <1>1, <2>2, EmptySeq, AnswerIs DEF Sources
      <3>2. QED
        BY <2>1, <3>1, OnwardTyped
    <2>3. CASE GoOn("chunk")
      <3>1. Onward("chunk", read.from, read.out)
        BY <1>1, <2>3, GoOnIs
      <3>2. read.out = <<>> /\ Len(read.out) = 0 /\ read.limit \in Nat
        BY <1>1, <2>1, EmptySeq DEF Typed, Reads
      <3>3. read.limit # 0 => Len(read.out) < read.limit
        BY <3>2
      <3>4. QED
        BY <2>1, <3>1, <3>3, OnwardTyped
    <2>4. QED
      BY <1>3, <2>2, <2>3 DEF Measure
  <1>4. CASE MeasureFails
    <2>1. Around /\ read.pc = "measure" /\ read.from = "nowhere"
      BY <1>1, <1>4, AroundFault DEF MeasureFails
    <2>2. Onward("chunk", read.from, read.out)
      BY <1>1, <1>4, GoOnIs DEF MeasureFails
    <2>3. read.out = <<>> /\ Len(read.out) = 0 /\ read.limit \in Nat
      BY <1>1, <2>1, EmptySeq DEF Typed, Reads
    <2>4. read.limit # 0 => Len(read.out) < read.limit
      BY <2>3
    <2>5. QED
      BY <2>1, <2>2, <2>4, OnwardTyped
  <1>5. CASE ReadChunk
    <2> DEFINE out == read.out \o ChunkLinesRead
    <2>1. Around /\ read.pc = "chunk" /\ read.from = "nowhere"
      BY <1>1, <1>5 DEF ReadChunk, Around
    <2>2. /\ out \in Seq(Lines)
          /\ IF LastChunk(ChunkLinesRead) \/ (read.limit # 0 /\ Len(out) >= read.limit)
             THEN IF Stripped(out) = <<>> THEN Onward("sed", read.from, out)
                                          ELSE Onward("done", "sandbox", Stripped(Cut(out)))
             ELSE Onward("chunk", read.from, out)
      BY <1>5, ReadChunkIs
    <2> HIDE DEF out
    <2>3. Len(out) \in Nat /\ read.limit \in Nat
      BY <1>1, <2>2, LenProperties DEF Reads
    <2>4. \/ Onward("sed", read.from, out)
          \/ Onward("done", "sandbox", Stripped(Cut(out)))
          \/ Onward("chunk", read.from, out) /\ ~(read.limit # 0 /\ Len(out) >= read.limit)
      BY <2>2
    <2>5. CASE Onward("sed", read.from, out)
      BY <2>1, <2>5, OnwardTyped
    <2>6. CASE Onward("done", "sandbox", Stripped(Cut(out)))
      BY <2>1, <2>6, OnwardTyped
    <2>7. CASE Onward("chunk", read.from, out) /\ ~(read.limit # 0 /\ Len(out) >= read.limit)
      <3>1. read.limit # 0 => Len(out) < read.limit
        BY <2>3, <2>7
      <3>2. QED
        BY <2>1, <2>7, <3>1, OnwardTyped
    <2>8. QED
      BY <2>4, <2>5, <2>6, <2>7
  <1>6. CASE ReadChunkFails
    <2>1. Around /\ read.pc = "chunk" /\ read.from = "nowhere"
      BY <1>1, <1>6, AroundFault DEF ReadChunkFails
    <2>2. Onward("sed again", read.from, read.out)
      BY <1>1, <1>6, GoOnIs DEF ReadChunkFails
    <2>3. QED
      BY <2>1, <2>2, OnwardTyped
  <1>7. ASSUME ToEditor, Around, read.pc \in {"sed", "sed again"}
        PROVE  Typed'
    <2>1. Onward("editor again", read.from, read.out) \/ Onward("editor", read.from, read.out)
      BY <1>1, <1>7, GoOnIs DEF ToEditor
    <2>2. QED
      BY <1>1, <1>7, <2>1, OnwardTyped
  <1>8. CASE ViewBySed
    <2>1. Around /\ read.pc \in {"sed", "sed again"}
      BY <1>1, <1>8 DEF ViewBySed, Around
    <2>2. Printed(read.start, read.limit) \in Seq(Lines)
      <3>1. CASE file = NoFile
        BY <3>1, EmptySeq DEF Printed
      <3>2. CASE file # NoFile
        <4>1. file \in Seq(Lines) /\ read.start \in Nat \ {0} /\ read.limit \in Nat
          BY <1>1, <3>2, ReadAssumption DEF Typed, Contents, Reads
        <4>2. QED
          BY <3>2, <4>1, PartIs DEF Printed
      <3>3. QED
        BY <3>1, <3>2
    <2>3. CASE ToEditor
      BY <1>7, <2>1, <2>3
    <2>4. CASE Viewed(Printed(read.start, read.limit))
      BY <2>1, <2>2, <2>4, ViewedTyped
    <2>5. QED
      BY <1>8, <2>3, <2>4 DEF ViewBySed
  <1>9. CASE ViewBySedFails
    <2>1. Around /\ read.pc \in {"sed", "sed again"} /\ ToEditor
      BY <1>1, <1>9, AroundFault DEF ViewBySedFails
    <2>2. QED
      BY <1>7, <2>1
  <1>10. CASE ViewByEditor
    <2>1. Around /\ read.pc \in {"editor", "editor again"} /\ file # NoFile
      BY <1>1, <1>10 DEF ViewByEditor, Around
    <2>2. file \in Seq(Lines) /\ read.start \in Nat \ {0} /\ read.limit \in Nat
      BY <1>1, <2>1, ReadAssumption DEF Typed, Contents, Reads
    <2>3. Part(file, read.start, read.limit) \in Seq(Lines) /\ Viewed(Part(file, read.start, read.limit))
      BY <1>10, <2>2, PartIs DEF ViewByEditor
    <2>4. QED
      BY <2>1, <2>3, ViewedTyped
  <1>11. CASE ViewByEditorFails
    <2>1. Around /\ read.pc \in {"editor", "editor again"} /\ read.from = "nowhere"
      BY <1>1, <1>11, AroundFault DEF ViewByEditorFails
    <2>2. CASE Gathered(read.out)
      <3>1. \/ Onward("sed", read.from, read.out)
            \/ Onward("done", "sandbox", Stripped(Cut(read.out)))
        BY <1>1, <2>2, GatheredIs
      <3>2. QED
        BY <2>1, <3>1, OnwardTyped
    <2>3. CASE AnswerFromStore
      <3>1. PICK from \in {"store", "error"}, out \in Seq(Lines) : Onward("done", from, out)
        BY <2>3, StoreIs
      <3>2. QED
        BY <2>1, <3>1, OnwardTyped
    <2>4. QED
      BY <1>11, <2>2, <2>3 DEF ViewByEditorFails
  <1>12. ASSUME NEW text \in Contents, Replace(text)
         PROVE  Typed'
    BY <1>12 DEF Typed, Replace, Contents
  <1>13. CASE UNCHANGED vars
    BY <1>13 DEF vars, Typed, Contents
  <1>14. QED
    BY <1>2, <1>3, <1>4, <1>5, <1>6, <1>8, <1>9, <1>10, <1>11, <1>12, <1>13 DEF Next

-----------------------------------------------------------------------------
(* Every line keeps the number it had.                                     *)

\* The n-th of the lines is the n-th of one of the texts, counted from the first one asked for.
Places(lines, texts, first) ==
  \A n \in 1 .. Len(lines) : \E v \in texts :
    first + n - 1 <= Len(v) /\ lines[n] = v[first + n - 1]

Texts == seen \ {NoFile}
Plain == \A v \in Texts : ~Has(v, Broken)

Placed ==
  ~repeated /\ Plain =>
    /\ read.pc = "chunk" \/ read.from = "sandbox" => Places(read.out, Texts, read.start)
    /\ read.pc \in {"sed again", "editor again"} => read.out = <<>>

LEMMA PlacesPrefix ==
  ASSUME NEW S, NEW s \in Seq(S), NEW lines \in Seq(S), Len(s) <= Len(lines),
         \A i \in 1 .. Len(s) : s[i] = lines[i],
         NEW texts, NEW first, Places(lines, texts, first)
  PROVE  Places(s, texts, first)
  <1>1. Len(s) \in Nat /\ Len(lines) \in Nat
    BY LenProperties
  <1>2. \A n \in 1 .. Len(s) : n \in 1 .. Len(lines)
    BY <1>1
  <1>3. QED
    BY <1>2 DEF Places

\* So the answer that a list of placed lines gives is placed.
LEMMA PlacesAnswer ==
  ASSUME read \in Reads, NEW lines \in Seq(Lines), NEW texts, NEW first, Places(lines, texts, first)
  PROVE  /\ Places(Cut(lines), texts, first)
         /\ Places(Stripped(lines), texts, first)
         /\ Places(Stripped(Cut(lines)), texts, first)
  <1>1. ASSUME NEW s \in Seq(Lines), Places(s, texts, first)
        PROVE  Places(Stripped(s), texts, first)
    <2>1. Stripped(s) \in Seq(Lines) /\ Strips(Stripped(s), s)
      BY StrippedIs
    <2>2. Len(Stripped(s)) <= Len(s) /\ \A i \in 1 .. Len(Stripped(s)) : Stripped(s)[i] = s[i]
      BY <2>1 DEF Strips
    <2>3. QED
      BY <1>1, <2>1, <2>2, PlacesPrefix
  <1>2. Cut(lines) \in Seq(Lines) /\ Places(Cut(lines), texts, first)
    BY CutIs, PlacesPrefix
  <1>3. QED
    BY <1>1, <1>2

\* A part of a text is placed, and not changed by splitlines where no line is broken.
LEMMA PlacesPart ==
  ASSUME NEW v \in Seq(Lines), NEW first \in Nat \ {0}, NEW n \in Nat, ~Has(v, Broken),
         NEW texts, v \in texts
  PROVE  /\ Part(v, first, n) \in Seq(Lines)
         /\ SplitLines(Part(v, first, n)) = Part(v, first, n)
         /\ Places(Part(v, first, n), texts, first)
  <1> DEFINE w == Part(v, first, n)
  <1>1. w \in Seq(Lines) /\ Window(w, v, first, n)
    BY PartIs
  <1> HIDE DEF w
  <1>2. Len(w) \in Nat /\ Len(v) \in Nat /\ DOMAIN v = 1 .. Len(v) /\ DOMAIN w = 1 .. Len(w)
    BY <1>1, LenProperties
  <1>3. ASSUME NEW i \in 1 .. Len(w)
        PROVE  first + i - 1 \in 1 .. Len(v) /\ w[i] = v[first + i - 1]
    BY <1>1, <1>2, SMTT(30) DEF Window
  <1>4. ~Has(w, Broken)
    BY <1>2, <1>3 DEF Has, ToSet
  <1>5. SplitLines(w) = w
    BY <1>1, <1>4, SplitLinesIs
  <1>6. Places(w, texts, first)
    BY <1>3 DEF Places
  <1>7. QED
    BY <1>1, <1>5, <1>6 DEF w

\* What a chunk reads is the lines of the file from the next line on, the blank ones at
\* the end left out.
LEMMA ChunkReads ==
  ASSUME Typed, read.pc = "chunk", file # NoFile, ~Has(file, Broken)
  PROVE  /\ ChunkLinesRead = Stripped(Part(file, NextLine, Wanted))
         /\ Part(file, NextLine, Wanted) \in Seq(Lines)
         /\ Window(Part(file, NextLine, Wanted), file, NextLine, Wanted)
  <1> DEFINE w == Part(file, NextLine, Wanted)
             s == Stripped(w)
  <1>1. /\ file \in Seq(Lines) /\ NextLine \in Nat \ {0} /\ Wanted \in Nat
        /\ ChunkLines \in Nat
    <2>1. Wanted \in 1 .. ChunkLines /\ NextLine \in Nat \ {0} /\ ChunkLines \in Nat
      BY ChunkIs, ReadAssumption
    <2>2. QED
      BY <2>1, ReadAssumption DEF Typed, Contents
  <1>2. w \in Seq(Lines) /\ Window(w, file, NextLine, Wanted)
    BY <1>1, PartIs
  <1>3. ChunkLinesRead = SplitLines(s)
    BY DEF ChunkLinesRead, Printed
  <1> HIDE DEF w
  <1>4. s \in Seq(Lines) /\ Strips(s, w)
    BY <1>2, StrippedIs
  <1> HIDE DEF s
  <1>5. /\ Len(w) \in Nat /\ Len(s) \in Nat /\ Len(file) \in Nat
        /\ DOMAIN s = 1 .. Len(s) /\ DOMAIN file = 1 .. Len(file)
    BY <1>1, <1>2, <1>4, LenProperties
  <1>6. ASSUME NEW i \in 1 .. Len(s)
        PROVE  s[i] \in ToSet(file)
    <2>1. i \in 1 .. Len(w) /\ s[i] = w[i]
      BY <1>4, <1>5 DEF Strips
    <2>2. NextLine + i - 1 \in 1 .. Len(file) /\ w[i] = file[NextLine + i - 1]
      BY <1>1, <1>2, <1>5, <2>1 DEF Window
    <2>3. QED
      BY <1>5, <2>1, <2>2 DEF ToSet
  <1>7. ~Has(s, Broken)
    BY <1>5, <1>6 DEF Has, ToSet
  <1>8. QED
    BY <1>2, <1>3, <1>4, <1>7, SplitLinesIs DEF s, w

LEMMA PlacesChunk ==
  ASSUME Typed, read.pc = "chunk", Plain, Places(read.out, Texts, read.start)
  PROVE  Places(read.out \o ChunkLinesRead, Texts, read.start)
  <1> DEFINE a == read.out
             b == ChunkLinesRead
             both == a \o b
             first == read.start
  <1>1. a \in Seq(Lines) /\ first \in Nat \ {0} /\ NextLine = first + Len(a) /\ file \in seen
    BY ChunkIs DEF Typed, Reads
  <1>2. b \in Seq(Lines) /\ \A k \in 1 .. Len(b) : \E v \in Texts :
          first + Len(a) + k - 1 <= Len(v) /\ b[k] = v[first + Len(a) + k - 1]
    <2>1. CASE file = NoFile
      <3>1. ChunkLinesRead = SplitLines(Stripped(<<>>))
        BY <2>1 DEF ChunkLinesRead, Printed
      <3>2. ~Has(<<>>, Broken) /\ <<>> \in Seq(Lines) /\ Len(<<>>) = 0
        BY EmptySeq DEF Has, ToSet
      <3>3. b = <<>>
        BY <3>1, <3>2, StrippedNothing, SplitLinesIs
      <3>4. QED
        BY <3>2, <3>3
    <2>2. CASE file # NoFile
      <3> DEFINE w == Part(file, NextLine, Wanted)
      <3>1. file \in Texts /\ ~Has(file, Broken)
        BY <1>1, <2>2 DEF Plain, Texts
      <3>2. b = Stripped(w) /\ w \in Seq(Lines) /\ Window(w, file, NextLine, Wanted)
        BY <2>2, <3>1, ChunkReads
      <3> HIDE DEF b, w
      <3>3. b \in Seq(Lines) /\ Strips(b, w)
        BY <3>2, StrippedIs
      <3>4. Len(b) \in Nat /\ Len(w) \in Nat /\ Len(a) \in Nat
        BY <1>1, <3>2, <3>3, LenProperties
      <3>5. ASSUME NEW k \in 1 .. Len(b)
            PROVE  /\ first + Len(a) + k - 1 <= Len(file)
                   /\ b[k] = file[first + Len(a) + k - 1]
        <4>1. k \in 1 .. Len(w) /\ b[k] = w[k]
          BY <3>3, <3>4 DEF Strips
        <4>2. NextLine + k - 1 <= Len(file) /\ w[k] = file[NextLine + k - 1]
          BY <3>2, <4>1 DEF Window
        <4>3. QED
          BY <1>1, <4>1, <4>2
      <3>6. QED
        BY <3>1, <3>3, <3>5
    <2>3. QED
      BY <2>1, <2>2
  <1> HIDE DEF b
  <1>3. /\ Len(both) = Len(a) + Len(b) /\ Len(a) \in Nat /\ Len(b) \in Nat
        /\ \A i \in 1 .. Len(a) + Len(b) : both[i] = IF i <= Len(a) THEN a[i] ELSE b[i - Len(a)]
    BY <1>1, <1>2, ConcatProperties, LenProperties
  <1>4. \A i \in 1 .. Len(a) : \E v \in Texts : first + i - 1 <= Len(v) /\ a[i] = v[first + i - 1]
    BY DEF Places
  <1> HIDE DEF a, both, first
  <1>5. ASSUME NEW n \in 1 .. Len(both)
        PROVE  \E v \in Texts : first + n - 1 <= Len(v) /\ both[n] = v[first + n - 1]
    <2>1. CASE n <= Len(a)
      BY <1>3, <1>4, <2>1
    <2>2. CASE ~(n <= Len(a))
      <3>1. n - Len(a) \in 1 .. Len(b) /\ both[n] = b[n - Len(a)]
        BY <1>3, <2>2
      <3>2. PICK v \in Texts : /\ first + Len(a) + (n - Len(a)) - 1 <= Len(v)
                               /\ b[n - Len(a)] = v[first + Len(a) + (n - Len(a)) - 1]
        BY <1>2, <3>1
      <3>3. first + Len(a) + (n - Len(a)) - 1 = first + n - 1
        BY <1>1, <1>3
      <3>4. QED
        BY <3>1, <3>2, <3>3
    <2>3. QED
      BY <2>1, <2>2
  <1>6. Places(both, Texts, first)
    BY <1>5 DEF Places
  <1>7. QED
    BY <1>6 DEF both, a, b, first

LEMMA InitPlaced == Init => Placed
  BY DEF Init, Placed

LEMMA OnwardPlaced ==
  ASSUME Around, NEW pc, NEW from, NEW out, Onward(pc, from, out),
         ~repeated' /\ Plain =>
           /\ pc = "chunk" \/ from = "sandbox" => Places(out, Texts, read.start)
           /\ pc \in {"sed again", "editor again"} => out = <<>>
  PROVE  Placed'
  <1>1. Texts' = Texts
    BY DEF Texts, Around
  <1>2. Plain' = Plain
    BY <1>1 DEF Plain
  <1>3. /\ read'.start = read.start
        /\ read'.pc = pc /\ read'.from = from /\ read'.out = out
    BY DEF Onward
  <1>4. Places(read'.out, Texts', read'.start) = Places(out, Texts, read.start)
    BY <1>1, <1>3
  <1>5. QED
    BY <1>1, <1>2, <1>3, <1>4 DEF Placed

\* A view of the file is placed.
LEMMA ViewedPlaced ==
  ASSUME Typed, Placed, Around, UNCHANGED repeated, file # NoFile,
         read.pc \in {"sed", "sed again", "editor", "editor again"},
         Viewed(Part(file, read.start, read.limit))
  PROVE  Placed'
  <1> DEFINE w == Part(file, read.start, read.limit)
             cut == Cut(SplitLines(w))
             all == read.out \o cut
  <1>1. /\ file \in Seq(Lines) /\ file \in Texts /\ read \in Reads
        /\ read.start \in Nat \ {0} /\ read.limit \in Nat /\ read.from = "nowhere"
    BY ReadAssumption DEF Typed, Contents, Reads, Texts
  <1>2. w \in Seq(Lines)
    BY <1>1, PartIs
  <1>3. ASSUME ~repeated, Plain
        PROVE  SplitLines(w) = w /\ Places(w, Texts, read.start)
    <2>1. ~Has(file, Broken)
      BY <1>1, <1>3 DEF Plain
    <2>2. QED
      BY <1>1, <2>1, PlacesPart
  <1>4. /\ cut \in Seq(Lines) /\ all \in Seq(Lines)
        /\ IF read.pc \in {"sed again", "editor again"}
           THEN IF Stripped(all) = <<>> THEN Onward("sed", read.from, all)
                                        ELSE Onward("done", "sandbox", Stripped(Cut(all)))
           ELSE Onward("done", "sandbox", Stripped(cut))
    BY <1>2, ViewedIs
  <1> HIDE DEF w
  <1>5. ASSUME ~repeated, Plain
        PROVE  Places(cut, Texts, read.start) /\ Places(Stripped(cut), Texts, read.start)
    <2>1. Places(cut, Texts, read.start)
      BY <1>1, <1>2, <1>3, <1>5, PlacesAnswer
    <2>2. QED
      BY <1>1, <1>4, <2>1, PlacesAnswer
  <1> HIDE DEF cut, all
  <1>6. ASSUME ~repeated, Plain, read.pc \in {"sed again", "editor again"}
        PROVE  Places(Stripped(Cut(all)), Texts, read.start)
    <2>1. read.out = <<>>
      BY <1>6 DEF Placed
    <2>2. all = cut
      BY <1>4, <2>1, ConcatEmptySeq DEF all
    <2>3. QED
      BY <1>1, <1>4, <1>5, <1>6, <2>2, PlacesAnswer
  <1>7. CASE read.pc \in {"sed again", "editor again"}
    <2>1. CASE Onward("sed", read.from, all)
      BY <1>1, <2>1, OnwardPlaced
    <2>2. CASE Onward("done", "sandbox", Stripped(Cut(all)))
      <3>1. ~repeated' /\ Plain => Places(Stripped(Cut(all)), Texts, read.start)
        BY <1>6, <1>7
      <3>2. QED
        BY <2>2, <3>1, OnwardPlaced
    <2>3. QED
      BY <1>4, <1>7, <2>1, <2>2
  <1>8. CASE read.pc \notin {"sed again", "editor again"}
    <2>1. Onward("done", "sandbox", Stripped(cut))
      BY <1>4, <1>8
    <2>2. ~repeated' /\ Plain => Places(Stripped(cut), Texts, read.start)
      BY <1>5
    <2>3. QED
      BY <2>1, <2>2, OnwardPlaced
  <1>9. QED
    BY <1>7, <1>8

LEMMA PlacedKept == Typed /\ Placed /\ [Next]_vars => Placed'
  <1> SUFFICES ASSUME Typed, Placed, [Next]_vars PROVE Placed'
    OBVIOUS
  <1>1. /\ read \in Reads /\ read.out \in Seq(Lines) /\ faults \in Nat /\ repeated \in BOOLEAN
        /\ read.pc # "done" => read.from = "nowhere"
    BY DEF Typed, Reads
  <1> USE DEF Counters
  <1>2. Places(<<>>, Texts, read.start)
    BY EmptySeq DEF Places
  <1>3. ASSUME NEW offset \in Offsets, NEW limit \in Limits, Begin(offset, limit)
        PROVE  Placed'
    BY <1>1, <1>3 DEF Begin, Placed, Reads
  <1>4. CASE Measure
    <2>1. Around /\ read.pc = "measure" /\ read.from = "nowhere" /\ read.out = <<>>
      BY <1>1, <1>4 DEF Measure, Around, Typed
    <2>2. CASE Answer("error", <<>>)
      <3>1. Onward("done", "error", Stripped(<<>>))
        BY <1>1, <2>2, EmptySeq, AnswerIs DEF Sources
      <3>2. QED
        BY <2>1, <3>1, OnwardPlaced
    <2>3. CASE GoOn("chunk")
      <3>1. Onward("chunk", read.from, read.out)
        BY <1>1, <2>3, GoOnIs
      <3>2. QED
        BY <1>2, <2>1, <3>1, OnwardPlaced
    <2>4. QED
      BY <1>4, <2>2, <2>3 DEF Measure
  <1>5. CASE MeasureFails
    <2>1. Around /\ read.pc = "measure" /\ read.from = "nowhere" /\ read.out = <<>>
      <3>1. Around
        BY <1>5, AroundFault DEF MeasureFails
      <3>2. QED
        BY <1>1, <1>5, <3>1 DEF MeasureFails, Typed
    <2>2. Onward("chunk", read.from, read.out)
      BY <1>1, <1>5, GoOnIs DEF MeasureFails
    <2>3. QED
      BY <1>2, <2>1, <2>2, OnwardPlaced
  <1>6. CASE ReadChunk
    <2> DEFINE out == read.out \o ChunkLinesRead
    <2>1. Around /\ read.pc = "chunk" /\ read.from = "nowhere" /\ UNCHANGED repeated
      BY <1>1, <1>6 DEF ReadChunk, Around
    <2>2. /\ out \in Seq(Lines)
          /\ \/ Onward("sed", read.from, out)
             \/ Onward("done", "sandbox", Stripped(Cut(out)))
             \/ Onward("chunk", read.from, out)
      BY <1>6, ReadChunkIs
    <2>3. ASSUME ~repeated, Plain
          PROVE  Places(out, Texts, read.start)
      <3>1. Places(read.out, Texts, read.start)
        BY <2>1, <2>3 DEF Placed
      <3>2. QED
        BY <2>1, <2>3, <3>1, PlacesChunk
    <2> HIDE DEF out
    <2>4. ASSUME ~repeated, Plain
          PROVE  Places(Stripped(Cut(out)), Texts, read.start)
      BY <1>1, <2>2, <2>3, <2>4, PlacesAnswer
    <2>5. CASE Onward("sed", read.from, out)
      BY <2>1, <2>5, OnwardPlaced
    <2>6. CASE Onward("done", "sandbox", Stripped(Cut(out)))
      <3>1. ~repeated' /\ Plain => Places(Stripped(Cut(out)), Texts, read.start)
        BY <2>1, <2>4
      <3>2. QED
        BY <2>1, <2>6, <3>1, OnwardPlaced
    <2>7. CASE Onward("chunk", read.from, out)
      <3>1. ~repeated' /\ Plain => Places(out, Texts, read.start)
        BY <2>1, <2>3
      <3>2. QED
        BY <2>1, <2>7, <3>1, OnwardPlaced
    <2>8. QED
      BY <2>2, <2>5, <2>6, <2>7
  <1>7. CASE ReadChunkFails
    <2>1. Around
      BY <1>7, AroundFault DEF ReadChunkFails
    <2>2. Onward("sed again", read.from, read.out) /\ read.from = "nowhere"
      BY <1>1, <1>7, GoOnIs DEF ReadChunkFails
    <2>3. ~repeated' => read.out = <<>>
      BY <1>7 DEF ReadChunkFails
    <2>4. QED
      BY <2>1, <2>2, <2>3, OnwardPlaced
  <1>8. ASSUME ToEditor, Around, UNCHANGED repeated, read.pc \in {"sed", "sed again"}
        PROVE  Placed'
    <2>1. /\ read.from = "nowhere"
          /\ \/ read.pc = "sed again" /\ Onward("editor again", read.from, read.out)
             \/ Onward("editor", read.from, read.out)
      BY <1>1, <1>8, GoOnIs DEF ToEditor
    <2>2. CASE read.pc = "sed again" /\ Onward("editor again", read.from, read.out)
      <3>1. ~repeated' /\ Plain => read.out = <<>>
        BY <1>8, <2>2 DEF Placed
      <3>2. QED
        BY <1>8, <2>1, <2>2, <3>1, OnwardPlaced
    <2>3. CASE Onward("editor", read.from, read.out)
      BY <1>8, <2>1, <2>3, OnwardPlaced
    <2>4. QED
      BY <2>1, <2>2, <2>3
  <1>9. CASE ViewBySed
    <2>1. Around /\ read.pc \in {"sed", "sed again"} /\ UNCHANGED repeated
      BY <1>1, <1>9 DEF ViewBySed, Around
    <2>2. CASE ToEditor
      BY <1>8, <2>1, <2>2
    <2>3. CASE Stripped(Printed(read.start, read.limit)) # <<>> /\ Viewed(Printed(read.start, read.limit))
      <3>1. file # NoFile
        BY <2>3, StrippedNothing DEF Printed
      <3>2. Viewed(Part(file, read.start, read.limit))
        BY <2>3, <3>1 DEF Printed
      <3>3. QED
        BY <2>1, <3>1, <3>2, ViewedPlaced
    <2>4. QED
      BY <1>9, <2>2, <2>3 DEF ViewBySed
  <1>10. CASE ViewBySedFails
    <2>1. Around
      BY <1>10, AroundFault DEF ViewBySedFails
    <2>2. read.pc \in {"sed", "sed again"} /\ ToEditor /\ UNCHANGED repeated
      BY <1>10 DEF ViewBySedFails
    <2>3. QED
      BY <1>8, <2>1, <2>2
  <1>11. CASE ViewByEditor
    <2>1. Around /\ read.pc \in {"editor", "editor again"} /\ file # NoFile /\ UNCHANGED repeated
      BY <1>1, <1>11 DEF ViewByEditor, Around
    <2>2. Viewed(Part(file, read.start, read.limit))
      BY <1>11 DEF ViewByEditor
    <2>3. QED
      BY <2>1, <2>2, ViewedPlaced
  <1>12. CASE ViewByEditorFails
    <2>1. Around
      BY <1>12, AroundFault DEF ViewByEditorFails
    <2>2. read.pc \in {"editor", "editor again"} /\ read.from = "nowhere" /\ UNCHANGED repeated
      BY <1>1, <1>12 DEF ViewByEditorFails
    <2>3. CASE read.pc = "editor again" /\ Gathered(read.out)
      <3>1. IF Stripped(read.out) = <<>> THEN Onward("sed", read.from, read.out)
                                         ELSE Onward("done", "sandbox", Stripped(Cut(read.out)))
        BY <1>1, <2>3, GatheredIs
      <3>2. ~repeated /\ Plain => Stripped(read.out) = <<>>
        BY <2>3, StrippedNothing DEF Placed
      <3>3. CASE Stripped(read.out) = <<>>
        BY <2>1, <2>2, <3>1, <3>3, OnwardPlaced
      <3>4. CASE Stripped(read.out) # <<>>
        BY <2>1, <2>2, <3>1, <3>2, <3>4, OnwardPlaced
      <3>5. QED
        BY <3>3, <3>4
    <2>4. CASE AnswerFromStore
      <3>1. PICK from \in {"store", "error"}, out \in Seq(Lines) : Onward("done", from, out)
        BY <2>4, StoreIs
      <3>2. QED
        BY <2>1, <3>1, OnwardPlaced
    <2>5. QED
      BY <1>12, <2>3, <2>4 DEF ViewByEditorFails
  <1>13. ASSUME NEW text \in Contents, Replace(text)
         PROVE  Placed'
    <2>1. Texts \subseteq Texts' /\ read' = read /\ repeated' = repeated
      BY <1>13 DEF Replace, Texts
    <2>2. Plain' => Plain
      BY <2>1 DEF Plain
    <2>3. Places(read.out, Texts, read.start) => Places(read'.out, Texts', read'.start)
      BY <2>1 DEF Places
    <2>4. QED
      BY <2>1, <2>2, <2>3 DEF Placed
  <1>14. CASE UNCHANGED vars
    BY <1>14 DEF vars, Placed, Plain, Texts
  <1>15. QED
    BY <1>3, <1>4, <1>5, <1>6, <1>7, <1>9, <1>10, <1>11, <1>12, <1>13, <1>14 DEF Next

\* A read gives every line the number it had in the file at some moment, as long as no
\* chunk failed behind others and no line is broken (view_chunks).
THEOREM LinesKeepTheirNumbers == Spec => []NumberedRight
  <1>1. Typed /\ Placed => NumberedRight
    <2> SUFFICES ASSUME Typed, Placed, ~repeated, \A v \in seen \ {NoFile} : ~Has(v, Broken),
                        read.from = "sandbox", NEW n \in DOMAIN read.out
                 PROVE  \E v \in seen \ {NoFile} :
                          /\ read.start + n - 1 <= Len(v)
                          /\ read.out[n] = v[read.start + n - 1]
      BY DEF NumberedRight, Numbered
    <2>1. Places(read.out, Texts, read.start)
      BY DEF Placed, Plain, Texts
    <2>2. n \in 1 .. Len(read.out)
      BY LenProperties DEF Typed, Reads
    <2>3. QED
      BY <2>1, <2>2 DEF Places, Texts
  <1>2. QED
    BY <1>1, InitTyped, TypedKept, InitPlaced, PlacedKept, PTL DEF Spec

-----------------------------------------------------------------------------
(* A quiet read is exact.                                                  *)

\* A chunk more is a whole number of chunks again.
LEMMA FullChunk ==
  ASSUME NEW m \in Nat, NEW c \in Nat \ {0}, m % c = 0
  PROVE  (m + c) % c = 0
  <1> DEFINE q == m \div c
             d == (m + c) \div c
             r == (m + c) % c
             e == (q + 1) - d
  <1>1. q \in Int /\ m = c * q + (m % c)
    OBVIOUS
  <1>2. d \in Int /\ r \in Int /\ 0 <= r /\ r < c /\ m + c = c * d + r
    OBVIOUS
  <1> HIDE DEF q, d, r
  <1>3. m = c * q
    BY <1>1
  <1>4. e \in Int /\ r = c * e
    <2>1. e \in Int /\ c * e = (c * q + c) - c * d
      BY <1>1, <1>2
    <2>2. QED
      BY <1>1, <1>2, <1>3, <2>1
  <1> HIDE DEF e
  <1>5. ~(e >= 1)
    <2>1. ASSUME e >= 1 PROVE c * e >= c
      BY <1>4, <2>1
    <2>2. QED
      BY <1>2, <1>4, <2>1
  <1>6. ~(e <= -1)
    <2>1. ASSUME e <= -1 PROVE c * e <= -c
      BY <1>4, <2>1
    <2>2. QED
      BY <1>2, <1>4, <2>1
  <1>7. e = 0
    BY <1>4, <1>5, <1>6
  <1>8. r = 0
    BY <1>4, <1>7
  <1>9. QED
    BY <1>8 DEF r

Undisturbed == faults = 0 /\ seen = {file} /\ file # NoFile

\* What an exact answer can be expected of.
Readable == ~Large(file) /\ Asked # <<>> /\ ~BlankChunkEnd /\ ~Has(file, Broken)

\* The lines are those of the file from the first one asked for on.
FromFile(lines) ==
  \A i \in 1 .. Len(lines) :
    read.start + i - 1 <= Len(file) /\ lines[i] = file[read.start + i - 1]

Exact ==
  Undisturbed =>
    /\ Large(file) => read.pc = "measure" \/ read.from = "error"
    /\ Readable =>
         /\ read.pc \in {"measure", "chunk", "done"}
         /\ read.pc = "chunk" => Len(read.out) % ChunkLines = 0 /\ FromFile(read.out)
         /\ read.pc = "done" => read.from = "sandbox" /\ read.out = Asked

\* What is asked for of a text without broken lines.
LEMMA AskedIs ==
  ASSUME Typed, file # NoFile, ~Has(file, Broken)
  PROVE  LET w == Part(file, read.start, read.limit)
         IN w \in Seq(Lines) /\ Window(w, file, read.start, read.limit) /\ Asked = Stripped(w)
  <1> DEFINE w == Part(file, read.start, read.limit)
  <1>1. /\ file \in Seq(Lines) /\ read \in Reads /\ read.start \in Nat \ {0} /\ read.limit \in Nat
    BY ReadAssumption DEF Typed, Contents, Reads
  <1>2. w \in Seq(Lines) /\ Window(w, file, read.start, read.limit) /\ SplitLines(w) = w
    <2>1. file \in {file}
      OBVIOUS
    <2>2. QED
      BY <1>1, <2>1, PartIs, PlacesPart
  <1>3. Asked = Stripped(Cut(w))
    BY <1>2 DEF Asked
  <1> HIDE DEF w
  <1>4. Len(w) \in Nat
    BY <1>2, LenProperties
  <1>5. read.limit = 0 \/ Len(w) <= read.limit
    BY <1>2 DEF Window
  <1>6. Cut(w) = w
    BY <1>1, <1>2, <1>5, CutIs
  <1>7. QED
    BY <1>2, <1>3, <1>6 DEF w

\* A chunk goes on exactly where the chunks before it end; the last one leaves only blank
\* lines unread.
LEMMA ChunkExact ==
  ASSUME Typed, read.pc = "chunk", file # NoFile, Readable,
         Len(read.out) % ChunkLines = 0, FromFile(read.out)
  PROVE  LET out == read.out \o ChunkLinesRead
         IN IF LastChunk(ChunkLinesRead) \/ (read.limit # 0 /\ Len(out) >= read.limit)
            THEN Stripped(out) = Asked /\ Cut(out) = out
            ELSE Len(out) % ChunkLines = 0 /\ FromFile(out)
  <1> DEFINE m == Len(read.out)
             lines == ChunkLinesRead
             k == Len(lines)
             out == read.out \o lines
             W == Wanted
             start == read.start
             limit == read.limit
             p == Part(file, NextLine, W)
             t == Part(file, start, limit)
             last == LastChunk(lines) \/ (limit # 0 /\ Len(out) >= limit)
  <1>1. /\ read \in Reads /\ read.out \in Seq(Lines) /\ start \in Nat \ {0} /\ limit \in Nat
        /\ file \in Seq(Lines) /\ ChunkLines \in Nat \ {0}
        /\ ~Has(file, Broken) /\ ~BlankChunkEnd
    BY ReadAssumption DEF Typed, Contents, Reads, Readable
  <1>2. /\ NextLine = start + m
        /\ W \in 1 .. ChunkLines
        /\ limit # 0 => m + W <= limit
        /\ W = ChunkLines \/ (limit # 0 /\ m + W = limit)
    BY ChunkIs
  <1>3. lines = Stripped(p) /\ p \in Seq(Lines) /\ Window(p, file, NextLine, W)
    BY <1>1, ChunkReads
  <1>4. t \in Seq(Lines) /\ Window(t, file, start, limit) /\ Asked = Stripped(t)
    BY <1>1, AskedIs
  <1> HIDE DEF lines, p, t
  <1>5. lines \in Seq(Lines) /\ Strips(lines, p)
    BY <1>3, StrippedIs
  <1>6. /\ out \in Seq(Lines)
        /\ Len(out) = m + k
        /\ \A i \in 1 .. m + k : out[i] = IF i <= m THEN read.out[i] ELSE lines[i - m]
    BY <1>1, <1>5, ConcatProperties
  <1>7. m \in Nat /\ k \in Nat /\ Len(p) \in Nat /\ Len(t) \in Nat /\ Len(file) \in Nat /\ W \in Nat
    BY <1>1, <1>2, <1>3, <1>4, <1>5, LenProperties
  <1>8. LastChunk(lines) <=> k < W
    BY DEF LastChunk
  <1> HIDE DEF out, W
  <1>9. /\ \A i \in 1 .. m : start + i - 1 <= Len(file) /\ read.out[i] = file[start + i - 1]
        /\ m % ChunkLines = 0
    BY DEF FromFile
  <1>10. /\ k <= Len(p) /\ Len(p) <= W
         /\ \A j \in 1 .. k : lines[j] = p[j]
         /\ \A j \in k + 1 .. Len(p) : p[j] = Blank
    BY <1>2, <1>3, <1>5, <1>7, SMTT(30) DEF Strips, Window
  <1>11. /\ \A j \in 1 .. Len(p) : start + m + j - 1 <= Len(file) /\ p[j] = file[start + m + j - 1]
         /\ Len(p) < W => start + m + Len(p) > Len(file)
    BY <1>2, <1>3 DEF Window
  <1>12. /\ \A i \in 1 .. Len(t) : start + i - 1 <= Len(file) /\ t[i] = file[start + i - 1]
         /\ limit # 0 => Len(t) <= limit
         /\ limit = 0 \/ Len(t) < limit => start + Len(t) > Len(file)
    BY <1>4 DEF Window
  <1> HIDE DEF m, k, start, limit
  <1>13. ASSUME NEW i \in 1 .. m + k
         PROVE  start + i - 1 <= Len(file) /\ out[i] = file[start + i - 1]
    <2>1. CASE i <= m
      <3>1. i \in 1 .. m /\ out[i] = read.out[i]
        BY <1>6, <1>7, <2>1
      <3>2. QED
        BY <1>9, <3>1
    <2>2. CASE ~(i <= m)
      <3>1. i - m \in 1 .. k /\ i - m \in 1 .. Len(p) /\ start + m + (i - m) - 1 = start + i - 1
        BY <1>1, <1>7, <1>10, <2>2
      <3>2. out[i] = p[i - m]
        BY <1>6, <1>10, <2>2, <3>1
      <3>3. QED
        BY <1>11, <3>1, <3>2
    <2>3. QED
      BY <2>1, <2>2
  <1>14. limit # 0 => m + k <= limit
    BY <1>1, <1>2, <1>7, <1>10
  <1>15. CASE last
    <2>1. k < W \/ (limit # 0 /\ m + k >= limit)
      BY <1>6, <1>8, <1>15
    <2>2. m + k <= Len(t)
      <3>1. CASE limit = 0 \/ Len(t) < limit
        <4>1. m + k = 0 \/ start + (m + k) - 1 <= Len(file)
          <5>1. m + k = 0 \/ m + k \in 1 .. m + k
            BY <1>7
          <5>2. QED
            BY <1>13, <5>1
        <4>2. start + Len(t) > Len(file)
          BY <1>12, <3>1
        <4>3. QED
          BY <1>1, <1>7, <4>1, <4>2
      <3>2. CASE ~(limit = 0 \/ Len(t) < limit)
        BY <1>1, <1>7, <1>14, <3>2
      <3>3. QED
        BY <3>1, <3>2
    <2>3. \A i \in 1 .. m + k : out[i] = t[i]
      <3>1. \A i \in 1 .. m + k : i \in 1 .. Len(t)
        BY <1>7, <2>2
      <3>2. QED
        BY <1>12, <1>13, <3>1
    <2>4. ASSUME NEW i \in m + k + 1 .. Len(t)
          PROVE  t[i] = Blank
      <3> DEFINE j == i - m
      <3>1. /\ j \in Int /\ j >= k + 1 /\ i \in 1 .. Len(t) /\ start + m + j - 1 = start + i - 1
        BY <1>1, <1>7
      <3>2. start + i - 1 <= Len(file) /\ t[i] = file[start + i - 1]
        BY <1>12, <3>1
      <3> HIDE DEF j
      <3>3. CASE j <= Len(p)
        <4>1. j \in k + 1 .. Len(p) /\ j \in 1 .. Len(p)
          BY <1>7, <3>1, <3>3
        <4>2. QED
          BY <1>10, <1>11, <3>1, <3>2, <4>1
      <3>4. CASE ~(j <= Len(p))
        <4>1. Len(p) = W
          <5>1. start + m + Len(p) <= Len(file)
            BY <1>1, <1>7, <3>1, <3>2, <3>4, SMTT(30)
          <5>2. QED
            BY <1>1, <1>7, <1>10, <1>11, <5>1
        <4>2. limit # 0 => i <= limit
          BY <1>1, <1>7, <1>12, <3>1
        <4>3. W = ChunkLines
          BY <1>1, <1>2, <1>7, <3>4, <4>1, <4>2 DEF j
        <4>4. k < W
          BY <1>1, <1>7, <2>1, <4>2
        <4>5. p[W] = Blank /\ start + m + W - 1 <= Len(file) /\ p[W] = file[start + m + W - 1]
          <5>1. W \in k + 1 .. Len(p) /\ W \in 1 .. Len(p)
            BY <1>7, <4>1, <4>4
          <5>2. QED
            BY <1>10, <1>11, <5>1
        <4> DEFINE x == start + m + W - 1
        <4>6. x \in start .. Len(file) /\ x + 1 - start = m + ChunkLines /\ file[x] = Blank
          BY <1>1, <1>7, <4>3, <4>4, <4>5
        <4>7. (m + ChunkLines) % ChunkLines = 0
          BY <1>1, <1>7, <1>9, FullChunk
        <4> HIDE DEF x
        <4>8. (x + 1 - start) % ChunkLines = 0
          BY <4>6, <4>7
        <4>9. BlankChunkEnd
          BY <4>6, <4>8 DEF BlankChunkEnd, start
        <4>10. QED
          BY <1>1, <4>9
      <3>5. QED
        BY <3>3, <3>4
    <2>5. Stripped(out) = Asked
      BY <1>4, <1>6, <2>2, <2>3, <2>4, StrippedPrefix
    <2>6. read.limit = 0 \/ Len(out) <= read.limit
      BY <1>6, <1>14 DEF limit
    <2>7. Cut(out) = out
      BY <1>1, <1>6, <2>6, CutIs
    <2>8. QED
      BY <1>15, <2>5, <2>7 DEF out, lines, limit
  <1>16. CASE ~last
    <2>1. ~(k < W) /\ ~(limit # 0 /\ m + k >= limit)
      BY <1>6, <1>8, <1>16
    <2>2. k = W
      BY <1>7, <1>10, <2>1
    <2>3. W = ChunkLines
      BY <1>1, <1>2, <1>7, <2>1, <2>2
    <2>4. Len(out) % ChunkLines = 0
      <3>1. Len(out) = m + ChunkLines
        BY <1>6, <2>2, <2>3
      <3>2. QED
        BY <1>1, <1>7, <1>9, <3>1, FullChunk
    <2>5. FromFile(out)
      BY <1>6, <1>13 DEF FromFile, start
    <2>6. QED
      BY <1>16, <2>4, <2>5 DEF out, lines, limit
  <1>17. QED
    BY <1>15, <1>16

LEMMA InitExact == Init => Exact
  BY DEF Init, Exact, Undisturbed

\* What was asked for stays the same.
LEMMA SameAsked ==
  ASSUME Around, read'.start = read.start, read'.limit = read.limit
  PROVE  (Readable' <=> Readable) /\ Asked' = Asked
  <1>1. Asked' = Asked
    BY DEF Around, Asked, Cut
  <1>2. BlankChunkEnd' <=> BlankChunkEnd
    BY DEF Around, BlankChunkEnd
  <1>3. QED
    BY <1>1, <1>2 DEF Around, Readable

LEMMA OnwardExact ==
  ASSUME Around, UNCHANGED faults, NEW pc, NEW from, NEW out, Onward(pc, from, out),
         Undisturbed =>
           /\ Large(file) => from = "error"
           /\ Readable =>
                \/ pc = "chunk" /\ Len(out) % ChunkLines = 0 /\ FromFile(out)
                \/ pc = "done" /\ from = "sandbox" /\ out = Asked
  PROVE  Exact'
  <1>1. /\ read'.start = read.start /\ read'.limit = read.limit
        /\ read'.pc = pc /\ read'.from = from /\ read'.out = out
    BY DEF Onward
  <1>2. (Readable' <=> Readable) /\ Asked' = Asked
    BY <1>1, SameAsked
  <1>3. (Undisturbed' <=> Undisturbed) /\ file' = file
    BY DEF Undisturbed, Around
  <1>4. FromFile(out) => FromFile(read.out)'
    BY <1>1, <1>3 DEF FromFile
  <1>5. QED
    BY <1>1, <1>2, <1>3, <1>4 DEF Exact

\* A read that has left the chunks was disturbed, or has nothing exact to answer.
LEMMA AwayExact ==
  ASSUME Typed, Exact, Around, Fault \/ UNCHANGED faults,
         read.pc \notin {"idle", "measure", "chunk", "done"},
         read'.start = read.start, read'.limit = read.limit
  PROVE  Exact'
  <1>1. CASE Fault
    BY <1>1 DEF Typed, Fault, Exact, Undisturbed
  <1>2. CASE UNCHANGED faults
    <2>1. Undisturbed => ~Large(file) /\ ~Readable
      BY DEF Typed, Exact
    <2>2. (Readable' <=> Readable) /\ (Undisturbed' <=> Undisturbed) /\ file' = file
      BY <1>2, SameAsked DEF Undisturbed, Around
    <2>3. QED
      BY <2>1, <2>2 DEF Exact
  <1>3. QED
    BY <1>1, <1>2

LEMMA ExactKept == Typed /\ Exact /\ [Next]_vars => Exact'
  <1> SUFFICES ASSUME Typed, Exact, [Next]_vars PROVE Exact'
    OBVIOUS
  <1>1. /\ read \in Reads /\ read.out \in Seq(Lines) /\ faults \in Nat
        /\ read.pc # "done" => read.from = "nowhere"
    BY DEF Typed, Reads
  <1> USE DEF Counters
  <1>2. ASSUME Fault
        PROVE  Exact'
    BY <1>1, <1>2 DEF Fault, Exact, Undisturbed
  <1>3. ASSUME NEW offset \in Offsets, NEW limit \in Limits, Begin(offset, limit)
        PROVE  Exact'
    <2>1. read'.pc = "measure"
      BY <1>1, <1>3 DEF Begin, Reads
    <2>2. QED
      BY <2>1 DEF Exact
  <1>4. CASE Measure
    <2>1. /\ Around /\ read.pc = "measure" /\ read.from = "nowhere" /\ read.out = <<>>
          /\ UNCHANGED faults
      BY <1>1, <1>4 DEF Measure, Around, Typed
    <2>2. CASE file # NoFile /\ Large(file)
      <3>1. Onward("done", "error", Stripped(<<>>))
        BY <1>1, <1>4, <2>2, EmptySeq, AnswerIs DEF Measure, Sources
      <3>2. ~Readable
        BY <2>2 DEF Readable
      <3>3. QED
        BY <2>1, <3>1, <3>2, OnwardExact
    <2>3. CASE ~(file # NoFile /\ Large(file))
      <3>1. Onward("chunk", read.from, read.out)
        BY <1>1, <1>4, <2>3, GoOnIs DEF Measure
      <3>2. FromFile(read.out) /\ Len(read.out) = 0
        BY <2>1, EmptySeq DEF FromFile
      <3>3. Len(read.out) % ChunkLines = 0
        <4>1. ChunkLines \in Nat \ {0}
          BY ReadAssumption
        <4>2. 0 % ChunkLines = 0
          BY <4>1
        <4>3. QED
          BY <3>2, <4>2
      <3>4. Undisturbed => ~Large(file)
        BY <2>3 DEF Undisturbed
      <3>5. QED
        BY <2>1, <3>1, <3>2, <3>3, <3>4, OnwardExact
    <2>4. QED
      BY <2>2, <2>3
  <1>5. CASE MeasureFails
    BY <1>2, <1>5 DEF MeasureFails
  <1>6. CASE ReadChunk
    <2> DEFINE out == read.out \o ChunkLinesRead
               last == LastChunk(ChunkLinesRead) \/ (read.limit # 0 /\ Len(out) >= read.limit)
    <2>1. Around /\ read.pc = "chunk" /\ read.from = "nowhere" /\ UNCHANGED faults
      BY <1>1, <1>6 DEF ReadChunk, Around, Typed
    <2>2. IF last THEN IF Stripped(out) = <<>> THEN Onward("sed", read.from, out)
                                               ELSE Onward("done", "sandbox", Stripped(Cut(out)))
                  ELSE Onward("chunk", read.from, out)
      BY <1>6, ReadChunkIs
    <2>3. Undisturbed => ~Large(file)
      BY <2>1 DEF Exact
    <2>4. ASSUME Undisturbed, Readable
          PROVE  IF last THEN Stripped(out) = Asked /\ Cut(out) = out
                         ELSE Len(out) % ChunkLines = 0 /\ FromFile(out)
      <3>1. /\ file # NoFile
            /\ Len(read.out) % ChunkLines = 0 /\ FromFile(read.out)
        BY <2>1, <2>4 DEF Exact, Undisturbed
      <3>2. QED
        BY <2>1, <2>4, <3>1, ChunkExact
    <2> HIDE DEF out, last
    <2>5. CASE last
      <3>1. CASE Stripped(out) = <<>>
        <4>1. Onward("sed", read.from, out)
          BY <2>2, <2>5, <3>1
        <4>2. ~(Undisturbed /\ Readable)
          BY <2>4, <2>5, <3>1 DEF Readable
        <4>3. QED
          BY <2>1, <2>3, <4>1, <4>2, OnwardExact
      <3>2. CASE Stripped(out) # <<>>
        <4>1. Onward("done", "sandbox", Stripped(Cut(out)))
          BY <2>2, <2>5, <3>2
        <4>2. Undisturbed /\ Readable => Stripped(Cut(out)) = Asked
          BY <2>4, <2>5
        <4>3. QED
          BY <2>1, <2>3, <4>1, <4>2, OnwardExact
      <3>3. QED
        BY <3>1, <3>2
    <2>6. CASE ~last
      <3>1. Onward("chunk", read.from, out)
        BY <2>2, <2>6
      <3>2. Undisturbed /\ Readable => Len(out) % ChunkLines = 0 /\ FromFile(out)
        BY <2>4, <2>6
      <3>3. QED
        BY <2>1, <2>3, <3>1, <3>2, OnwardExact
    <2>7. QED
      BY <2>5, <2>6
  <1>7. CASE ReadChunkFails
    BY <1>2, <1>7 DEF ReadChunkFails
  <1>8. CASE ViewBySed
    <2>1. Around /\ read.pc \in {"sed", "sed again"} /\ UNCHANGED faults
      BY <1>1, <1>8 DEF ViewBySed, Around, Typed
    <2>2. CASE ToEditor
      <3>1. Onward("editor again", read.from, read.out) \/ Onward("editor", read.from, read.out)
        BY <1>1, <2>2, GoOnIs DEF ToEditor
      <3>2. QED
        BY <2>1, <3>1, AwayExact DEF Onward
    <2>3. CASE Stripped(Printed(read.start, read.limit)) # <<>> /\ Viewed(Printed(read.start, read.limit))
      <3>1. file # NoFile
        BY <2>3, StrippedNothing DEF Printed
      <3>2. /\ file \in Seq(Lines) /\ read.start \in Nat \ {0} /\ read.limit \in Nat
            /\ Viewed(Part(file, read.start, read.limit))
        BY <1>1, <2>3, <3>1, ReadAssumption DEF Typed, Contents, Reads, Printed
      <3>3. Part(file, read.start, read.limit) \in Seq(Lines)
        BY <3>2, PartIs
      <3>4. read'.start = read.start /\ read'.limit = read.limit
        BY <3>2, <3>3, ViewedIs DEF Onward
      <3>5. QED
        BY <2>1, <3>4, AwayExact
    <2>4. QED
      BY <1>8, <2>2, <2>3 DEF ViewBySed
  <1>9. CASE ViewBySedFails
    BY <1>2, <1>9 DEF ViewBySedFails
  <1>10. CASE ViewByEditor
    <2>1. Around /\ read.pc \in {"editor", "editor again"} /\ UNCHANGED faults
      BY <1>1, <1>10 DEF ViewByEditor, Around, Typed
    <2>2. /\ file \in Seq(Lines) /\ read.start \in Nat \ {0} /\ read.limit \in Nat
          /\ Viewed(Part(file, read.start, read.limit))
      BY <1>1, <1>10, ReadAssumption DEF Typed, Contents, Reads, ViewByEditor
    <2>3. Part(file, read.start, read.limit) \in Seq(Lines)
      BY <2>2, PartIs
    <2>4. read'.start = read.start /\ read'.limit = read.limit
      BY <2>2, <2>3, ViewedIs DEF Onward
    <2>5. QED
      BY <2>1, <2>4, AwayExact
  <1>11. CASE ViewByEditorFails
    <2>1. Around
      BY <1>11, AroundFault DEF ViewByEditorFails
    <2>2. read.pc \in {"editor", "editor again"} /\ (Fault \/ UNCHANGED faults)
      BY <1>11 DEF ViewByEditorFails
    <2>3. read'.start = read.start /\ read'.limit = read.limit
      <3>1. CASE Gathered(read.out)
        BY <1>1, <3>1, GatheredIs DEF Onward
      <3>2. CASE AnswerFromStore
        BY <3>2, StoreIs DEF Onward
      <3>3. QED
        BY <1>11, <3>1, <3>2 DEF ViewByEditorFails
    <2>4. QED
      BY <2>1, <2>2, <2>3, AwayExact
  <1>12. ASSUME NEW text \in Contents, Replace(text)
         PROVE  Exact'
    <2>1. file \in seen' /\ file' \in seen' /\ file' # file
      BY <1>12 DEF Typed, Replace
    <2>2. ~Undisturbed'
      BY <2>1 DEF Undisturbed
    <2>3. QED
      BY <2>2 DEF Exact
  <1>13. CASE UNCHANGED vars
    BY <1>13 DEF vars, Exact, Undisturbed, Readable, Asked, Cut, BlankChunkEnd, FromFile
  <1>14. QED
    BY <1>3, <1>4, <1>5, <1>6, <1>7, <1>8, <1>9, <1>10, <1>11, <1>12, <1>13 DEF Next

\* A read that nothing came in the way of answers with exactly the lines asked for,
\* wherever its chunks end, and refuses a text above the ceiling (read_sandbox).
THEOREM QuietReadsAreExact == Spec => []QuietReadExact
  <1>1. Typed /\ Exact => QuietReadExact
    BY DEF Typed, Exact, QuietReadExact, Quiet, Undisturbed, Readable
  <1>2. QED
    BY <1>1, InitTyped, TypedKept, InitExact, ExactKept, PTL DEF Spec
=============================================================================
