--------------------------- MODULE SandboxProofs ---------------------------
(***************************************************************************)
(* Theorems about SandboxFiles, for every number of tasks, every workload, *)
(* every policy and every way in which the sandbox goes away, comes back,  *)
(* fails a call or loses its answer.                                       *)
(***************************************************************************)
EXTENDS SandboxFiles, DataLemmas

\* The calls are records of their operation's shape.
LEMMA CallShape ==
  ASSUME NEW c \in Calls
  PROVE  /\ c.op \in {"write", "edit", "delete", "trash", "move"}
         /\ c.op = "write" => c \in WriteCalls
         /\ c.op = "edit" => c \in EditCalls
         /\ c.op = "move" => c \in MoveCalls
         /\ c.path \in Keys
         /\ c # NoCall
  BY DataAssumption DEF AllCalls, WriteCalls, EditCalls, DeleteCalls, TrashCalls,
     MoveCalls, Keys

\* An edit of a text that contains old_string yields a text.
LEMMA ReplaceType ==
  ASSUME NEW text \in Contents, NEW c \in EditCalls, text[c.old] # 0
  PROVE  Replace(text, c) \in Contents
  <1>1. Replaced(text, c) \in 1 .. text[c.old]
    BY DEF Replaced, Contents, EditCalls
  <1>2. c.old \in Tokens /\ c.new \in Tokens
    BY DEF EditCalls
  <1>3. CASE c.old = c.new
    BY <1>3 DEF Replace
  <1>4. CASE c.old # c.new
    <2>1. text[c.old] - Replaced(text, c) \in Nat /\ text[c.new] + Replaced(text, c) \in Nat
      BY <1>1, <1>2 DEF Contents
    <2>2. QED
      BY <1>2, <1>4, <2>1 DEF Replace, Contents
  <1>5. QED
    BY <1>3, <1>4

-----------------------------------------------------------------------------
\* The inductive invariant: beside the typing and the locks, what a call has
\* checked on its way to the await it is at.

AtLock == Locked \cup {"locking"}
InLine(p) == pc[p] \in AtLock
Brought == {seed[k] : seed \in DiskSeeds, k \in Paths}

\* Past the lock, the policy and the read-only guard have been passed, and what
\* is to be written fits.
LockedChecked(p) ==
  LET c == call[p] IN
  /\ InLine(p) =>
       /\ c.op \in {"write", "edit"} /\ c.path \notin DeniedKeys /\ ~Guarded
       /\ c.op = "write" => /\ c.text \in FittingTexts
                            /\ pc[p] \in {"locking", "swap", "rewrite", "ensure", "unswapped"}
  /\ pc[p] \in {"stage", "swap", "rewrite", "verify", "ensure", "unswapped"} =>
       /\ held[p] \in FittingTexts
       /\ c.op = "write" => held[p] = c.text

\* What a trash or a move carries comes from the disk or, in the store, from its
\* files, and goes to a destination that is not denied, or from a path that is
\* not denied to a key that this path has in the trash.
CarriedChecked(p) ==
  LET c == call[p] IN
  /\ pc[p] \in {"carry", "copy", "paste", "confirm"} =>
       \/ c.op = "move" /\ aim[p] = c.dst /\ aim[p] \notin DeniedKeys
       \/ /\ c.op = "trash" /\ c.path \notin DeniedKeys
          /\ \E ts \in Clock : aim[p] = TrashKey(ts, c.path)
  /\ pc[p] = "paste" => held[p] \in FittingTexts \cup Brought
  /\ pc[p] = "putting" =>
       c.op = "move" /\ c.dst \notin DeniedKeys /\ held[p] \in FittingTexts

Checked == \A p \in Procs : LockedChecked(p) /\ CarriedChecked(p)

\* Once its text is on the disk, nothing takes it away before the write ends.
WrittenStays ==
  \A p \in Procs :
    pc[p] = "ensure" /\ call[p].op = "write" /\ call[p].path \in Unmoved
      => disk[call[p].path] = call[p].text

Inv == TypeOK /\ LocksMatchTasks /\ Checked /\ ByteCeiling

Points == {"idle", "called", "locking", "store", "putting", "carry", "copy", "paste",
           "confirm"} \cup Locked
Results == Outcomes \cup {"SandboxReadOnly", "SandboxUnsupported", "Unavailable", "Error"}

\* The part of TypeOK about the tasks.
TasksOK ==
  /\ pc \in [Procs -> Points]
  /\ call \in [Procs -> Calls \cup {NoCall}]
  /\ \A p \in Procs : call[p] = NoCall <=> pc[p] = "idle"
  /\ held \in [Procs -> Contents \cup {NoFile}]
  /\ \A p \in Procs : pc[p] \in {"stage", "swap", "rewrite", "verify", "ensure", "unswapped",
                                "paste", "putting"} => held[p] # NoFile
  /\ aim \in [Procs -> Keys \cup {NoCall}]
  /\ \A p \in Procs : pc[p] \in {"carry", "copy", "paste", "confirm"} => aim[p] \in Keys
  /\ result \in [Procs -> Results]

\* The part of TypeOK about the sandbox and its preflight.
WorldOK ==
  /\ ready \in {"yes", "no", "unknown"} /\ checked \in 0 .. clock /\ clock \in Clock
  /\ up \in BOOLEAN /\ readOnly \in BOOLEAN /\ mode \in Modes
  /\ flips \in 0 .. MaxFlips /\ faults \in 0 .. MaxFaults

LEMMA TypeParts ==
  TypeOK <=> /\ disk \in [Keys -> Contents \cup {NoFile}]
             /\ files \in [Keys -> Contents \cup {NoFile}]
             /\ queue \in [Keys -> Seq(Procs)]
             /\ TasksOK /\ WorldOK
  BY DEF TypeOK, TasksOK, WorldOK, Points, Results

\* A task in the course of a call has a call of its operation's shape.
LEMMA CallInCourse ==
  ASSUME TypeOK, NEW p \in Procs, pc[p] # "idle"
  PROVE  /\ call[p] \in Calls /\ call[p].path \in Keys /\ call[p] # NoCall
         /\ call[p].op = "write" => call[p] \in WriteCalls
         /\ call[p].op = "edit" => call[p] \in EditCalls
         /\ call[p].op = "move" => call[p] \in MoveCalls
  BY CallShape DEF TypeOK

-----------------------------------------------------------------------------
\* What the ways in which a call moves on or ends do to the tasks' state.

LEMMA ReturnTasks ==
  ASSUME TypeOK, NEW p \in Procs, NEW outcome \in Results, Return(p, outcome)
  PROVE  TasksOK' /\ clock' = clock
  BY TypeParts DEF TasksOK, Return, Points, Locked

LEMMA GotoTasks ==
  ASSUME TypeOK, NEW p \in Procs, pc[p] # "idle",
         NEW point \in Points \ {"idle"}, Goto(p, point),
         held' \in [Procs -> Contents \cup {NoFile}],
         \A q \in Procs \ {p} : held'[q] = held[q],
         point \in {"stage", "swap", "rewrite", "verify", "ensure", "unswapped", "paste", "putting"}
           => held'[p] # NoFile,
         aim' \in [Procs -> Keys \cup {NoCall}],
         \A q \in Procs \ {p} : aim'[q] = aim[q],
         point \in {"carry", "copy", "paste", "confirm"} => aim'[p] \in Keys
  PROVE  TasksOK' /\ clock' = clock
  BY TypeParts DEF TasksOK, Goto

LEMMA PreflightType ==
  ASSUME TypeOK, Preflight, UNCHANGED <<clock, world>>, faults' \in 0 .. MaxFaults
  PROVE  WorldOK'
  BY TypeParts, SandboxAssumption DEF WorldOK, Preflight, cache, world, Clock

\* What a call of the sandbox may come out as leaves the count of its faults
\* below its bound.
LEMMA FaultsType ==
  ASSUME TypeOK, Works \/ Fails
  PROVE  faults' \in 0 .. MaxFaults
  BY SandboxAssumption DEF TypeOK, Works, Fails

LEMMA CallType ==
  ASSUME TypeOK, Works \/ Fails, UNCHANGED <<clock, cache, world>>
  PROVE  WorldOK'
  BY TypeParts, FaultsType DEF WorldOK, cache, world

LEMMA ReleaseType ==
  ASSUME TypeOK, LocksMatchTasks, NEW p \in Procs, InLine(p), Release(p)
  PROVE  queue' \in [Keys -> Seq(Procs)]
  <1> DEFINE waiting == queue[call[p].path]
  <1>1. call[p] \in Calls /\ call[p].path \in Keys
    BY CallInCourse DEF AtLock, InLine, Locked
  <1>2. waiting \in Seq(Procs)
    BY <1>1 DEF TypeOK
  <1>3. waiting # <<>>
    BY <1>2, EmptySeq, LenProperties DEF LocksMatchTasks, AtLock, InLine
  <1>4. Tail(waiting) \in Seq(Procs)
    BY <1>2, <1>3, HeadTailProperties
  <1>5. QED
    BY <1>1, <1>4 DEF TypeOK, Release
-----------------------------------------------------------------------------
\* The locks: what the ways of touching a queue, or none, preserve.

\* Every task in a queue is a task, and is in it at one place only.
LEMMA InOneQueue ==
  ASSUME TypeOK, LocksMatchTasks, NEW k \in Keys, NEW i \in 1 .. Len(queue[k])
  PROVE  queue[k][i] \in Procs /\ InLine(queue[k][i]) /\ call[queue[k][i]].path = k
  BY ElementOfSeq DEF TypeOK, LocksMatchTasks, AtLock, InLine

\* A task moves on, inside its lock or outside of any.
LEMMA LocksStay ==
  ASSUME TypeOK, LocksMatchTasks, UNCHANGED queue, NEW p \in Procs,
         NEW point, pc' = [pc EXCEPT ![p] = point],
         \A q \in Procs \ {p} : call'[q] = call[q],
         \/ /\ InLine(p) /\ point \in Locked /\ call'[p] = call[p]
            /\ Head(queue[call[p].path]) = p
         \/ ~InLine(p) /\ point \notin Locked \cup {"locking"}
  PROVE  LocksMatchTasks'
  <1>1. ASSUME NEW k \in Keys, NEW i \in 1 .. Len(queue[k])
        PROVE  pc'[queue[k][i]] \in AtLock /\ call'[queue[k][i]].path = k
    BY InOneQueue DEF AtLock, InLine, TypeOK
  <1>2. ASSUME NEW q \in Procs, pc'[q] \in AtLock
        PROVE  InLine(q) /\ call'[q] = call[q]
    BY <1>2 DEF AtLock, InLine, TypeOK
  <1>3. ASSUME NEW q \in Procs, pc'[q] \in Locked
        PROVE  Head(queue[call'[q].path]) = q
    <2>1. call'[q] = call[q]
      BY <1>2, <1>3 DEF AtLock
    <2>2. CASE q = p
      BY <1>3, <2>1, <2>2 DEF TypeOK
    <2>3. CASE q # p
      <3>1. pc[q] \in Locked
        BY <1>3, <2>3 DEF TypeOK
      <3>2. QED
        BY <2>1, <3>1 DEF LocksMatchTasks
    <2>4. QED
      BY <2>2, <2>3
  <1>4. ASSUME NEW q \in Procs, pc'[q] \in AtLock
        PROVE  \E i \in 1 .. Len(queue[call'[q].path]) : queue[call'[q].path][i] = q
    <2>1. pc[q] \in AtLock /\ call'[q] = call[q]
      BY <1>2, <1>4 DEF InLine
    <2>2. QED
      BY <2>1 DEF LocksMatchTasks, AtLock
  <1>5. ASSUME NEW k \in Keys, NEW i \in 1 .. Len(queue[k]), NEW j \in 1 .. Len(queue[k]),
               queue[k][i] = queue[k][j]
        PROVE  i = j
    BY <1>5, SMTT(30) DEF LocksMatchTasks
  <1>6. QED
    BY <1>1, <1>3, <1>4, <1>5 DEF LocksMatchTasks, AtLock

LEMMA LocksAfterEnqueue ==
  ASSUME TypeOK, LocksMatchTasks, NEW p \in Procs, pc[p] # "idle", ~InLine(p),
         queue' = [queue EXCEPT ![call[p].path] = Append(@, p)], Goto(p, "locking")
  PROVE  LocksMatchTasks'
  <1> DEFINE k0 == call[p].path
             n == Len(queue[k0])
  <1>1. k0 \in Keys /\ queue[k0] \in Seq(Procs) /\ n \in Nat
    BY CallInCourse, LenProperties DEF TypeOK
  <1>2. pc' = [pc EXCEPT ![p] = "locking"] /\ call' = call
    BY DEF Goto
  <1>3. /\ Len(queue'[k0]) = n + 1 /\ queue'[k0][n + 1] = p
        /\ \A i \in 1 .. n : queue'[k0][i] = queue[k0][i]
        /\ queue'[k0] \in Seq(Procs)
    BY <1>1, AppendProperties DEF TypeOK
  <1>4. \A k \in Keys \ {k0} : queue'[k] = queue[k]
    BY DEF TypeOK
  <1>5. \A k \in Keys : \A i \in 1 .. Len(queue[k]) : queue[k][i] # p
    BY InOneQueue, SMTT(30)
  <1> HIDE DEF k0, n
  <1>6. ASSUME NEW k \in Keys, NEW i \in 1 .. Len(queue'[k])
        PROVE  /\ pc'[queue'[k][i]] \in AtLock
               /\ call'[queue'[k][i]].path = k
               /\ \A j \in 1 .. Len(queue'[k]) : queue'[k][i] = queue'[k][j] => i = j
    <2>1. CASE k # k0
      <3>1. /\ queue'[k] = queue[k] /\ queue[k][i] \in Procs \ {p}
            /\ InLine(queue[k][i]) /\ call[queue[k][i]].path = k
        BY <1>4, <1>5, <2>1, InOneQueue
      <3>2. QED
        BY <1>2, <3>1, SMTT(30) DEF TypeOK, LocksMatchTasks, InLine
    <2>2. CASE k = k0 /\ i = n + 1
      <3>1. pc'[p] \in AtLock /\ call'[p].path = k0
        BY <1>2 DEF TypeOK, k0, AtLock, InLine
      <3>2. \A j \in 1 .. n : queue'[k0][j] # p
        <4>1. \A j \in 1 .. n : queue[k0][j] # p
          BY <1>1, <1>5, Zenon DEF n
        <4>2. QED
          BY <1>3, <4>1, Zenon
      <3>3. queue'[k0][n + 1] = p /\ Len(queue'[k0]) = n + 1
        BY <1>3, Zenon
      <3>4. ASSUME NEW j \in 1 .. n + 1, queue'[k0][j] = p
            PROVE  j = n + 1
        <4>1. j \in 1 .. n \/ j = n + 1
          BY <1>1
        <4>2. QED
          BY <3>2, <3>4, <4>1
      <3>5. QED
        BY <2>2, <3>1, <3>3, <3>4
    <2>3. CASE k = k0 /\ i \in 1 .. n
      <3>0. i \in 1 .. Len(queue[k0])
        BY <2>3 DEF n
      <3>1. /\ queue'[k0][i] = queue[k0][i] /\ queue[k0][i] # p
            /\ queue[k0][i] \in Procs /\ InLine(queue[k0][i])
            /\ call[queue[k0][i]].path = k0
            /\ \A j \in 1 .. n : queue[k0][i] = queue[k0][j] => i = j
        <4>1. queue'[k0][i] = queue[k0][i] /\ queue[k0][i] # p
          <5>1. queue'[k0][i] = queue[k0][i]
            BY <1>3, <2>3, Zenon
          <5>2. queue[k0][i] # p
            BY <1>1, <1>5, <3>0, Zenon
          <5>3. QED
            BY <5>1, <5>2
        <4>2. /\ queue[k0][i] \in Procs /\ InLine(queue[k0][i])
              /\ call[queue[k0][i]].path = k0
          BY <1>1, <3>0, InOneQueue
        <4>3. \A j \in 1 .. n : queue[k0][i] = queue[k0][j] => i = j
          BY <1>1, <3>0 DEF n, LocksMatchTasks
        <4>4. QED
          BY <4>1, <4>2, <4>3
      <3>2. pc'[queue[k0][i]] \in AtLock
        BY <1>2, <3>1, SMTT(30) DEF TypeOK, InLine
      <3>3. /\ pc'[queue'[k0][i]] \in AtLock
            /\ call'[queue'[k0][i]].path = k0
        BY <1>2, <3>1, <3>2
      <3>4. ASSUME NEW j \in 1 .. n + 1, queue'[k0][i] = queue'[k0][j]
            PROVE  i = j
        <4>1. j # n + 1
          BY <1>3, <3>1, <3>4
        <4>2. j \in 1 .. n
          BY <1>1, <4>1
        <4>3. queue'[k0][j] = queue[k0][j]
          BY <1>3, <4>2
        <4>4. QED
          BY <3>1, <3>4, <4>2, <4>3
      <3>5. Len(queue'[k]) = n + 1 /\ k = k0
        BY <1>3, <2>3
      <3>6. QED
        BY <3>3, <3>4, <3>5
    <2>4. k = k0 => i \in 1 .. n \/ i = n + 1
      <3>1. k = k0 => i \in 1 .. n + 1
        BY <1>3
      <3>2. QED
        BY <1>1, <3>1
    <2>5. QED
      BY <2>1, <2>2, <2>3, <2>4, ZenonT(60)
  <1>7. ASSUME NEW q \in Procs, pc'[q] \in AtLock, q # p
        PROVE  /\ InLine(q) /\ pc'[q] = pc[q] /\ call'[q] = call[q]
               /\ call[q].path \in Keys
    BY <1>2, <1>7, CallInCourse DEF TypeOK, AtLock, InLine, Locked
  <1>8. ASSUME NEW q \in Procs, pc'[q] \in AtLock
        PROVE  \E i \in 1 .. Len(queue'[call'[q].path]) : queue'[call'[q].path][i] = q
    <2>1. CASE q = p
      BY <1>1, <1>2, <1>3, <2>1 DEF k0
    <2>2. CASE q # p
      <3>1. PICK i \in 1 .. Len(queue[call[q].path]) : queue[call[q].path][i] = q
        BY <1>7, <1>8, <2>2 DEF LocksMatchTasks, AtLock, InLine
      <3>2. call'[q] = call[q] /\ call[q].path \in Keys
        BY <1>7, <1>8, <2>2
      <3>3. CASE call[q].path = k0
        <4>1. i \in 1 .. n /\ queue[k0][i] = q
          BY <3>1, <3>3 DEF n
        <4>2. i \in 1 .. n + 1 /\ queue'[k0][i] = q
          BY <1>1, <1>3, <4>1
        <4>3. i \in 1 .. Len(queue'[call'[q].path]) /\ queue'[call'[q].path][i] = q
          BY <1>3, <3>2, <3>3, <4>2
        <4>4. QED
          BY <4>3
      <3>4. CASE call[q].path # k0
        <4>1. queue'[call'[q].path] = queue[call[q].path]
          BY <1>4, <3>2, <3>4
        <4>2. QED
          BY <3>1, <4>1
      <3>5. QED
        BY <3>3, <3>4
    <2>3. QED
      BY <2>1, <2>2
  <1>9. ASSUME NEW q \in Procs, pc'[q] \in Locked
        PROVE  Head(queue'[call'[q].path]) = q
    <2>1. q # p
      BY <1>2, <1>9 DEF TypeOK, Locked
    <2>2. InLine(q) /\ pc[q] \in Locked /\ call'[q] = call[q] /\ call[q].path \in Keys
      BY <1>7, <1>9, <2>1 DEF AtLock, InLine
    <2>3. Head(queue[call[q].path]) = q /\ Len(queue[call[q].path]) # 0
      BY <2>2 DEF LocksMatchTasks, AtLock, InLine
    <2>4. CASE call[q].path # k0
      BY <1>4, <2>2, <2>3, <2>4, SMTT(30)
    <2>5. CASE call[q].path = k0
      <3>1. queue[k0] # <<>> /\ queue'[k0] # <<>> /\ 1 \in 1 .. n
        BY <1>1, <1>3, <2>3, <2>5, EmptySeq, SMTT(30) DEF n
      <3>2. Head(queue'[k0]) = queue'[k0][1] /\ Head(queue[k0]) = queue[k0][1]
        BY <1>1, <1>3, <3>1, HeadTailProperties, SMTT(30)
      <3>3. QED
        BY <1>3, <2>2, <2>3, <2>5, <3>1, <3>2
    <2>6. QED
      BY <2>4, <2>5
  <1>10. QED
    BY <1>6, <1>8, <1>9 DEF LocksMatchTasks, AtLock, InLine

\* A task that leaves the queue it is in, as its owner or as a waiter: the others
\* keep their places in the order.
LEMMA LocksAfterLeaving ==
  ASSUME TypeOK, LocksMatchTasks, NEW p \in Procs, InLine(p),
         NEW n \in 1 .. Len(queue[call[p].path]), queue[call[p].path][n] = p,
         NEW rest \in Seq(Procs), Len(rest) = Len(queue[call[p].path]) - 1,
         \A i \in 1 .. Len(rest) :
           rest[i] = IF i < n THEN queue[call[p].path][i] ELSE queue[call[p].path][i + 1],
         queue' = [queue EXCEPT ![call[p].path] = rest],
         NEW point, point \notin AtLock, pc' = [pc EXCEPT ![p] = point],
         \A q \in Procs \ {p} : call'[q] = call[q]
  PROVE  LocksMatchTasks'
  <1> DEFINE k0 == call[p].path
             m == Len(queue[k0])
             old(i) == IF i < n THEN i ELSE i + 1
  <1>1. k0 \in Keys /\ queue[k0] \in Seq(Procs) /\ m \in Nat /\ n \in 1 .. m
    BY CallInCourse, LenProperties, SMTT(30) DEF TypeOK, InLine, AtLock, Locked
  <1>2. queue'[k0] = rest
    BY <1>1 DEF TypeOK
  <1>3. /\ Len(queue'[k0]) = m - 1
        /\ \A i \in 1 .. m - 1 : queue'[k0][i] = queue[k0][old(i)]
    BY <1>2
  <1>4. \A k \in Keys \ {k0} : queue'[k] = queue[k]
    BY DEF TypeOK
  <1>5. \A k \in Keys : \A i \in 1 .. Len(queue[k]) :
          /\ queue[k][i] \in Procs /\ InLine(queue[k][i]) /\ call[queue[k][i]].path = k
          /\ queue[k][i] = p => k = k0 /\ i = n
    BY InOneQueue, SMTT(30) DEF LocksMatchTasks
  <1>6. \A i \in 1 .. m - 1 : old(i) \in 1 .. m /\ old(i) # n
    BY <1>1
  <1>7. \A i, j \in 1 .. m - 1 : old(i) = old(j) => i = j
    BY <1>1
  <1>8. \A i \in 1 .. m : i # n => \E j \in 1 .. m - 1 : old(j) = i
    <2> SUFFICES ASSUME NEW i \in 1 .. m, i # n PROVE \E j \in 1 .. m - 1 : old(j) = i
      OBVIOUS
    <2>1. CASE i < n
      BY <1>1, <2>1
    <2>2. CASE i > n
      <3>1. i - 1 \in 1 .. m - 1 /\ old(i - 1) = i
        BY <1>1, <2>2
      <3>2. QED
        BY <3>1
    <2>3. QED
      BY <1>1, <2>1, <2>2
  <1>9. \A q \in Procs \ {p} : pc'[q] = pc[q]
    BY DEF TypeOK
  <1>10. pc'[p] \notin AtLock
    BY DEF TypeOK
  <1> HIDE DEF k0, m, old
  <1>11. ASSUME NEW k \in Keys, NEW i \in 1 .. Len(queue'[k])
         PROVE  /\ pc'[queue'[k][i]] \in AtLock
                /\ call'[queue'[k][i]].path = k
                /\ \A j \in 1 .. Len(queue'[k]) : queue'[k][i] = queue'[k][j] => i = j
    <2>1. CASE k # k0
      <3>1. /\ queue'[k] = queue[k] /\ queue[k][i] \in Procs \ {p}
            /\ InLine(queue[k][i]) /\ call[queue[k][i]].path = k
        BY <1>4, <1>5, <2>1
      <3>2. QED
        BY <1>9, <3>1, SMTT(30) DEF LocksMatchTasks, InLine
    <2>2. CASE k = k0
      <3>1. /\ queue'[k][i] = queue[k0][old(i)] /\ old(i) \in 1 .. m
            /\ queue[k0][old(i)] \in Procs \ {p}
            /\ InLine(queue[k0][old(i)]) /\ call[queue[k0][old(i)]].path = k0
        BY <1>1, <1>3, <1>5, <1>6, <2>2, SMTT(30) DEF m
      <3>2. ASSUME NEW j \in 1 .. Len(queue'[k]), queue'[k][i] = queue'[k][j]
            PROVE i = j
        <4>1. queue'[k][j] = queue[k0][old(j)] /\ old(j) \in 1 .. m
          BY <1>1, <1>3, <1>6, <2>2
        <4>2. \A u, v \in 1 .. m : queue[k0][u] = queue[k0][v] => u = v
          BY <1>1 DEF LocksMatchTasks, m
        <4>3. old(i) = old(j)
          BY <3>1, <3>2, <4>1, <4>2
        <4>4. i \in 1 .. m - 1 /\ j \in 1 .. m - 1
          <5>1. Len(queue'[k]) = m - 1
            BY <1>3, <2>2
          <5>2. QED
            BY <5>1
        <4>5. QED
          BY <1>7, <4>3, <4>4, Zenon
      <3>3. QED
        BY <1>9, <2>2, <3>1, <3>2, SMTT(30) DEF InLine
    <2>3. QED
      BY <2>1, <2>2
  <1>12. ASSUME NEW q \in Procs, pc'[q] \in AtLock
         PROVE  /\ q # p /\ InLine(q) /\ pc'[q] = pc[q] /\ call'[q] = call[q]
                /\ call[q].path \in Keys
    BY <1>9, <1>10, <1>12, CallInCourse DEF InLine, AtLock, Locked
  <1>13. ASSUME NEW q \in Procs, pc'[q] \in AtLock
         PROVE  \E i \in 1 .. Len(queue'[call'[q].path]) : queue'[call'[q].path][i] = q
    <2>1. PICK i \in 1 .. Len(queue[call[q].path]) : queue[call[q].path][i] = q
      BY <1>12, <1>13 DEF LocksMatchTasks, InLine, AtLock
    <2>2. CASE call[q].path # k0
      BY <1>4, <1>12, <1>13, <2>1, <2>2, SMTT(30)
    <2>3. CASE call[q].path = k0
      <3>1. i \in 1 .. m /\ i # n
        BY <1>12, <1>13, <2>1, <2>3 DEF m, k0
      <3>2. PICK j \in 1 .. m - 1 : old(j) = i
        BY <1>8, <3>1
      <3>3. QED
        BY <1>3, <1>12, <1>13, <2>1, <2>3, <3>2, SMTT(30)
    <2>4. QED
      BY <2>2, <2>3
  <1>14. ASSUME NEW q \in Procs, pc'[q] \in Locked
         PROVE  Head(queue'[call'[q].path]) = q
    <2>1. q # p /\ pc[q] \in Locked /\ call'[q] = call[q] /\ call[q].path \in Keys
      BY <1>12, <1>14 DEF AtLock
    <2>2. Head(queue[call[q].path]) = q
      BY <2>1 DEF LocksMatchTasks
    <2>3. CASE call[q].path # k0
      BY <1>4, <2>1, <2>2, <2>3
    <2>4. CASE call[q].path = k0
      <3>1. queue[k0][1] = q
        BY <1>1, <2>2, <2>4, EmptySeq, HeadTailProperties DEF m
      <3>2. n # 1 /\ 1 \in 1 .. m - 1 /\ old(1) = 1
        BY <1>1, <2>1, <3>1 DEF k0, old
      <3>3. queue'[k0][1] = q
        BY <1>3, <3>1, <3>2
      <3>4. rest # <<>>
        BY <1>1, <1>2, <1>3, <3>2, EmptySeq
      <3>5. Head(rest) = rest[1]
        BY <3>4, HeadTailProperties
      <3>6. QED
        BY <1>2, <2>1, <2>4, <3>3, <3>5
    <2>5. QED
      BY <2>3, <2>4
  <1>15. QED
    BY <1>11, <1>13, <1>14 DEF LocksMatchTasks, AtLock

LEMMA LocksAfterRelease ==
  ASSUME TypeOK, LocksMatchTasks, NEW p \in Procs, InLine(p),
         Head(queue[call[p].path]) = p, Release(p),
         NEW point, point \notin AtLock, pc' = [pc EXCEPT ![p] = point],
         \A q \in Procs \ {p} : call'[q] = call[q]
  PROVE  LocksMatchTasks'
  <1> DEFINE waiting == queue[call[p].path]
             rest == Tail(waiting)
             n == 1
  <1>1. waiting \in Seq(Procs) /\ waiting # <<>>
    BY CallInCourse, EmptySeq DEF TypeOK, InLine, AtLock, Locked, LocksMatchTasks
  <1>2. 1 \in 1 .. Len(waiting) /\ waiting[1] = p /\ Len(waiting) \in Nat
    BY <1>1, EmptySeq, LenProperties, HeadTailProperties
  <1>3. /\ rest \in Seq(Procs) /\ Len(rest) = Len(waiting) - 1
        /\ \A i \in 1 .. Len(rest) : rest[i] = IF i < n THEN waiting[i] ELSE waiting[i + 1]
    BY <1>1, <1>2, HeadTailProperties
  <1>4. queue' = [queue EXCEPT ![call[p].path] = rest]
    BY DEF Release
  <1>5. n \in 1 .. Len(queue[call[p].path]) /\ queue[call[p].path][n] = p
    BY <1>2
  <1> HIDE DEF rest, n
  <1>6. QED
    BY <1>3, <1>4, <1>5, LocksAfterLeaving, ZenonT(60)

\* The task that runs under a lock is the owner of the lock.
LEMMA OwnerAtHead ==
  ASSUME TypeOK, LocksMatchTasks, NEW p \in Procs, Granted(p) \/ pc[p] \in Locked
  PROVE  Head(queue[call[p].path]) = p /\ InLine(p) /\ pc[p] # "idle"
  BY DEF Granted, InLine, AtLock, Locked, LocksMatchTasks

-----------------------------------------------------------------------------
\* Types and locks, for the ways in which a call under the lock goes on.

Keeps == TasksOK /\ queue \in [Keys -> Seq(Procs)] /\ LocksMatchTasks

LEMMA FinishKeeps ==
  ASSUME TypeOK, LocksMatchTasks, NEW p \in Procs, Granted(p) \/ pc[p] \in Locked,
         NEW outcome \in Results, Finish(p, outcome)
  PROVE  Keeps' /\ clock' = clock /\ files' = files
  <1>1. Release(p) /\ Return(p, outcome) /\ files' = files
    BY DEF Finish
  <1>2. /\ pc' = [pc EXCEPT ![p] = "idle"] /\ "idle" \notin AtLock
        /\ \A q \in Procs \ {p} : call'[q] = call[q]
    BY <1>1 DEF Return, AtLock, Locked, TypeOK
  <1>3. LocksMatchTasks'
    BY <1>1, <1>2, OwnerAtHead, LocksAfterRelease
  <1>4. QED
    BY <1>1, <1>3, OwnerAtHead, ReleaseType, ReturnTasks DEF Keeps

LEMMA FallBackKeeps ==
  ASSUME TypeOK, LocksMatchTasks, NEW p \in Procs, Granted(p) \/ pc[p] \in Locked,
         FallBack(p)
  PROVE  Keeps' /\ clock' = clock /\ files' = files
  <1>1. /\ Release(p) /\ Goto(p, "store") /\ UNCHANGED <<files, held, aim>>
        /\ pc' = [pc EXCEPT ![p] = "store"] /\ call' = call
    BY DEF FallBack, Goto
  <1>2. "store" \notin AtLock /\ "store" \in Points \ {"idle"}
    BY DEF AtLock, Locked, Points
  <1>3. LocksMatchTasks'
    BY <1>1, <1>2, OwnerAtHead, LocksAfterRelease
  <1>4. TasksOK' /\ clock' = clock
    BY <1>1, <1>2, OwnerAtHead, GotoTasks DEF TypeOK
  <1>5. QED
    BY <1>1, <1>3, <1>4, OwnerAtHead, ReleaseType DEF Keeps

LEMMA GiveUpKeeps ==
  ASSUME TypeOK, LocksMatchTasks, NEW p \in Procs, Granted(p) \/ pc[p] \in Locked,
         GiveUp(p)
  PROVE  Keeps' /\ clock' = clock /\ files' = files
  BY FallBackKeeps, FinishKeeps DEF GiveUp, Results

LEMMA StepKeeps ==
  ASSUME TypeOK, LocksMatchTasks, NEW p \in Procs, Granted(p) \/ pc[p] \in Locked,
         NEW point \in Locked, Step(p, point),
         held' \in [Procs -> Contents \cup {NoFile}],
         \A q \in Procs \ {p} : held'[q] = held[q],
         point \in {"stage", "swap", "rewrite", "verify", "ensure", "unswapped"}
           => held'[p] # NoFile
  PROVE  Keeps' /\ clock' = clock /\ files' = files
  <1>1. /\ Goto(p, point) /\ UNCHANGED <<files, queue, aim>>
        /\ pc' = [pc EXCEPT ![p] = point] /\ call' = call
    BY DEF Step, Goto
  <1>2. /\ point \in Points \ {"idle"}
        /\ point \notin {"putting", "carry", "copy", "paste", "confirm"}
    BY DEF Points, Locked
  <1>3. LocksMatchTasks'
    BY <1>1, OwnerAtHead, LocksStay
  <1>4. TasksOK' /\ clock' = clock
    BY <1>1, <1>2, OwnerAtHead, GotoTasks DEF TypeOK
  <1>5. QED
    BY <1>1, <1>3, <1>4 DEF Keeps, TypeOK

\* The same, outside of any lock.
LEMMA ReturnKeeps ==
  ASSUME TypeOK, LocksMatchTasks, NEW p \in Procs, ~InLine(p), UNCHANGED queue,
         NEW outcome \in Results, Return(p, outcome)
  PROVE  Keeps' /\ clock' = clock
  <1>1. /\ pc' = [pc EXCEPT ![p] = "idle"] /\ "idle" \notin Locked \cup {"locking"}
        /\ \A q \in Procs \ {p} : call'[q] = call[q]
    BY DEF Return, Locked, TypeOK
  <1>2. LocksMatchTasks'
    BY <1>1, LocksStay
  <1>3. QED
    BY <1>2, ReturnTasks DEF Keeps, TypeOK

LEMMA GotoKeeps ==
  ASSUME TypeOK, LocksMatchTasks, NEW p \in Procs, pc[p] # "idle", ~InLine(p),
         UNCHANGED queue,
         NEW point \in {"store", "putting", "carry", "copy", "paste", "confirm"},
         Goto(p, point),
         held' \in [Procs -> Contents \cup {NoFile}],
         \A q \in Procs \ {p} : held'[q] = held[q],
         point \in {"paste", "putting"} => held'[p] # NoFile,
         aim' \in [Procs -> Keys \cup {NoCall}],
         \A q \in Procs \ {p} : aim'[q] = aim[q],
         point \notin {"store", "putting"} => aim'[p] \in Keys
  PROVE  Keeps' /\ clock' = clock
  <1>1. /\ pc' = [pc EXCEPT ![p] = point] /\ call' = call
        /\ point \notin Locked \cup {"locking"} /\ point \in Points \ {"idle"}
        /\ point \notin {"stage", "swap", "rewrite", "verify", "ensure", "unswapped"}
    BY DEF Goto, Locked, Points
  <1>2. LocksMatchTasks'
    BY <1>1, LocksStay
  <1>3. TasksOK' /\ clock' = clock
    BY <1>1, GotoTasks
  <1>4. QED
    BY <1>2, <1>3 DEF Keeps, TypeOK

\* A call that enters the sandbox goes for the lock of its path, or ends, or is
\* sent on to the store.
LEMMA EnterKeeps ==
  ASSUME TypeOK, LocksMatchTasks, NEW p \in Procs, pc[p] = "called", Enter(p)
  PROVE  Keeps' /\ clock' = clock
  <1>1. pc[p] # "idle" /\ ~InLine(p)
    BY DEF InLine, AtLock, Locked
  <1>2. ASSUME NEW outcome \in Results, Return(p, outcome), UNCHANGED queue
        PROVE  Keeps' /\ clock' = clock
    BY <1>1, <1>2, ReturnKeeps
  <1>3. CASE Goto(p, "store") /\ UNCHANGED <<queue, held, aim>>
    BY <1>1, <1>3, GotoKeeps DEF TypeOK
  <1>4. CASE /\ queue' = [queue EXCEPT ![call[p].path] = Append(@, p)]
             /\ Goto(p, "locking") /\ UNCHANGED <<held, aim>>
    <2>1. call[p].path \in Keys
      BY <1>1, CallInCourse
    <2>2. Append(queue[call[p].path], p) \in Seq(Procs)
      BY <2>1, AppendProperties DEF TypeOK
    <2>3. queue' \in [Keys -> Seq(Procs)]
      BY <1>4, <2>1, <2>2 DEF TypeOK
    <2>4. TasksOK' /\ clock' = clock
      BY <1>1, <1>4, GotoTasks DEF TypeOK, Points
    <2>5. QED
      BY <1>1, <1>4, <2>3, <2>4, LocksAfterEnqueue DEF Keeps
  <1>5. QED
    BY <1>2, <1>3, <1>4 DEF Enter, Results, Outcomes, Refusals

-----------------------------------------------------------------------------
\* The disk, and the store that calls fall back to.

\* Whatever comes of a creation, only the file it is for may get its text.
LEMMA CreateEffect ==
  ASSUME TypeOK, NEW k, NEW text, Creates(k, text) \/ CreateFails(k, text)
  PROVE  /\ Works \/ Fails
         /\ disk' \in {disk, [disk EXCEPT ![k] = text]}
  BY DEF Creates, CreateFails, AnswerLost

\* A view yields the text of the file, or an empty one.
LEMMA ViewType ==
  ASSUME TypeOK, NEW k \in Keys, NEW text, Views(k, text)
  PROVE  /\ Works \/ Fails
         /\ text \in Contents
         /\ text = Empty \/ text = disk[k]
  BY DEF TypeOK, Views, Empty, Contents

LEMMA UpdatedType ==
  ASSUME NEW text \in Contents, NEW c \in EditCalls
  PROVE  Updated(text, c) \in Contents
  BY ReplaceType DEF Updated

\* What the store is asked to do ends the call, and changes at most the files.
LEMMA StoreEffect ==
  ASSUME TypeOK, NEW p \in Procs, StoreCall(p)
  PROVE  /\ \E outcome \in Outcomes : Return(p, outcome)
         /\ UNCHANGED <<disk, queue, cache, faults, world>>
         /\ \/ files' = files
            \/ /\ files' = Store!After(call[p]) /\ Store!Accepted(call[p])
               /\ ~(call[p].op = "edit" /\ call[p].dry) /\ call[p].op # "move"
  BY DEF StoreCall, Store!Apply, Store!Refuse, Store!End, Return, Outcomes, TypeOK

\* An accepted call is not denied, and puts a fitting text where it goes.
LEMMA AcceptedCall ==
  ASSUME TypeOK, NEW p \in Procs, pc[p] # "idle", Store!Accepted(call[p])
  PROVE  LET c == call[p] IN
         /\ (IF c.op = "move" THEN c.dst ELSE c.path) \notin DeniedKeys
         /\ c.op \in {"edit", "trash", "move"} => files[c.path] # NoFile
         /\ c.op = "write" => c.text \in FittingTexts
         /\ c.op = "edit" => /\ files[c.path][c.old] # 0
                            /\ Replace(files[c.path], c) \in FittingTexts
  <1> DEFINE c == call[p]
  <1>1. \A reason \in Refusals \ {"Cancelled"} : ~Store!Refusable(c, reason)
    BY DEF Store!Accepted
  <1>2. ~Store!Refusable(c, "PolicyDenied")
    BY <1>1 DEF Refusals
  <1>3. ~Store!Refusable(c, "FileNotFound")
    BY <1>1 DEF Refusals
  <1>4. ~Store!Refusable(c, "StringNotFound")
    BY <1>1 DEF Refusals
  <1>5. ~Store!Refusable(c, "FileSizeExceeded")
    BY <1>1 DEF Refusals
  <1>6. QED
    BY <1>2, <1>3, <1>4, <1>5 DEF Store!Refusable

\* What the store may come to hold.
LEMMA StoreWrites ==
  ASSUME TypeOK, NEW p \in Procs, StoreCall(p), NEW k \in Keys, files'[k] # files[k]
  PROVE  LET c == call[p] IN
         \/ files'[k] = NoFile
         \/ files'[k] \in FittingTexts /\ k = c.path /\ k \notin DeniedKeys
         \/ /\ files'[k] = files[c.path] /\ c.op = "trash"
            /\ c.path \notin DeniedKeys /\ TrashKey(clock, c.path) = k
  <1> DEFINE c == call[p]
  <1>1. files' = Store!After(c) /\ Store!Accepted(c) /\ pc[p] # "idle" /\ c.op # "move"
    BY StoreEffect DEF StoreCall
  <1>2. c \in Calls /\ c.path \in Keys
    BY <1>1, CallInCourse
  <1>3. CASE c.op = "write"
    BY <1>1, <1>3, AcceptedCall DEF Store!After, TypeOK
  <1>4. CASE c.op = "edit"
    BY <1>1, <1>4, AcceptedCall DEF Store!After, TypeOK
  <1>5. CASE c.op = "delete"
    BY <1>1, <1>5, AcceptedCall DEF Store!After, TypeOK
  <1>6. CASE c.op = "trash"
    <2>1. c.path \notin DeniedKeys
      BY <1>1, <1>6, AcceptedCall
    <2>2. QED
      BY <1>1, <1>6, <2>1 DEF Store!After, TypeOK
  <1>7. QED
    BY <1>1, <1>2, <1>3, <1>4, <1>5, <1>6, CallShape

\* A move in the store reads a text, and later puts it where it may.
LEMMA ReadEffect ==
  ASSUME TypeOK, NEW p \in Procs, StoreRead(p)
  PROVE  /\ pc[p] = "store" /\ Goto(p, "putting")
         /\ held' = [held EXCEPT ![p] = files[call[p].path]]
         /\ call[p].op = "move" /\ call[p].path \in Keys /\ call[p].dst \notin DeniedKeys
         /\ files[call[p].path] # NoFile
         /\ UNCHANGED <<disk, files, queue, aim, cache, faults, world>>
  <1>1. /\ pc[p] = "store" /\ pc[p] # "idle" /\ Goto(p, "putting") /\ Store!Read(p)
        /\ held' = [held EXCEPT ![p] = files[call[p].path]]
        /\ UNCHANGED <<disk, queue, aim, cache, faults, world>>
    BY DEF StoreRead
  <1>2. call[p].op = "move" /\ Store!Accepted(call[p]) /\ files' = files
    BY <1>1 DEF Store!Read
  <1>3. call[p].dst \notin DeniedKeys /\ files[call[p].path] # NoFile
    BY <1>1, <1>2, AcceptedCall
  <1>4. call[p].path \in Keys
    BY <1>1, CallInCourse
  <1>5. QED
    BY <1>1, <1>2, <1>3, <1>4

LEMMA PutEffect ==
  ASSUME NEW p \in Procs, StorePut(p)
  PROVE  /\ pc[p] = "putting" /\ Return(p, "ok")
         /\ files' = [files EXCEPT ![call[p].dst] = held[p], ![call[p].path] = NoFile]
         /\ UNCHANGED <<disk, queue, cache, faults, world>>
  BY DEF StorePut, Store!Put, CarriedInStore

LEMMA StoreType ==
  ASSUME TypeOK, NEW p \in Procs, StoreCall(p)
  PROVE  files' \in [Keys -> Contents \cup {NoFile}]
  <1> DEFINE c == call[p]
  <1>1. CASE files' = files
    BY <1>1 DEF TypeOK
  <1>2. CASE files' = Store!After(c) /\ c.op # "move"
    <2>1. c \in Calls /\ c.path \in Keys
      BY CallInCourse DEF StoreCall
    <2>2. files' = [k \in Keys |-> files'[k]]
      <3>1. CASE c.op \in {"write", "edit", "delete"}
        BY <1>2, <3>1 DEF Store!After, TypeOK
      <3>2. CASE c.op = "trash"
        BY <1>2, <3>2 DEF Store!After, TypeOK
      <3>3. QED
        BY <1>2, <2>1, <3>1, <3>2, CallShape
    <2>3. ASSUME NEW k \in Keys
          PROVE  files'[k] \in Contents \cup {NoFile}
      <3>1. FittingTexts \subseteq Contents
        BY DEF FittingTexts
      <3>2. /\ files[k] \in Contents \cup {NoFile}
            /\ files[c.path] \in Contents \cup {NoFile}
        BY <2>1 DEF TypeOK
      <3>3. QED
        BY <3>1, <3>2, StoreWrites
    <2>4. QED
      BY <2>2, <2>3
  <1>3. QED
    BY <1>1, <1>2, StoreEffect

-----------------------------------------------------------------------------
\* Type correctness and the locks.

LEMMA Together ==
  ASSUME Keeps', WorldOK', disk' \in [Keys -> Contents \cup {NoFile}],
         files' \in [Keys -> Contents \cup {NoFile}]
  PROVE  TypeOK' /\ LocksMatchTasks'
  BY DEF Keeps, TasksOK, WorldOK, TypeOK, Points, Results

\* A step that asks for the preflight and makes no call of the sandbox.
LEMMA AskedWorld ==
  ASSUME TypeOK, Preflight \/ UNCHANGED cache, UNCHANGED <<clock, faults, world>>
  PROVE  WorldOK'
  <1>1. faults' \in 0 .. MaxFaults
    BY DEF TypeOK
  <1>2. CASE Preflight
    BY <1>1, <1>2, PreflightType
  <1>3. CASE UNCHANGED cache
    BY <1>3, TypeParts DEF WorldOK, cache, world
  <1>4. QED
    BY <1>2, <1>3

LEMMA InitTypeLocks == Init => TypeOK /\ LocksMatchTasks
  <1> SUFFICES ASSUME Init PROVE TypeOK /\ LocksMatchTasks
    OBVIOUS
  <1>1. PICK seed \in Seeds : files = Seeded(seed)
    BY DEF Init, Initials
  <1>2. files \in [Keys -> Contents \cup {NoFile}]
    BY <1>1, DataAssumption DEF Seeded, Keys, FittingTexts
  <1>3. PICK found \in DiskSeeds : disk = Seeded(found)
    BY DEF Init
  <1>4. disk \in [Keys -> Contents \cup {NoFile}]
    BY <1>3, SandboxAssumption DEF Seeded, Keys
  <1>5. queue \in [Keys -> Seq(Procs)] /\ \A k \in Keys : Len(queue[k]) = 0
    BY EmptySeq DEF Init
  <1>6. TasksOK
    BY DEF Init, TasksOK, Points, Results, Outcomes
  <1>7. WorldOK
    BY DataAssumption, SandboxAssumption DEF Init, WorldOK, Clock
  <1>8. LocksMatchTasks
    BY <1>5 DEF Init, LocksMatchTasks, Locked
  <1>9. QED
    BY <1>2, <1>4, <1>5, <1>6, <1>7, <1>8, TypeParts

LEMMA NextTypeLocks ==
  TypeOK /\ LocksMatchTasks /\ Checked /\ [Next]_vars => TypeOK' /\ LocksMatchTasks'
  <1> SUFFICES ASSUME TypeOK, LocksMatchTasks, Checked, [Next]_vars
               PROVE  TypeOK' /\ LocksMatchTasks'
    OBVIOUS
  <1> DEFINE Typed(m) == m \in [Keys -> Contents \cup {NoFile}]
             Good == Keeps' /\ WorldOK' /\ Typed(disk') /\ Typed(files')
  <1>1. /\ Typed(disk) /\ Typed(files) /\ held \in [Procs -> Contents \cup {NoFile}]
        /\ aim \in [Procs -> Keys \cup {NoCall}]
    BY DEF TypeOK
  <1>2. Good => TypeOK' /\ LocksMatchTasks'
    BY Together
  <1>3. ASSUME NEW p \in Procs, NEW k, NEW text \in Contents \cup {NoFile},
               Creates(k, text) \/ CreateFails(k, text)
        PROVE  Typed(disk')
    <2>1. disk' \in {disk, [disk EXCEPT ![k] = text]}
      BY <1>3, CreateEffect
    <2>2. QED
      BY <1>1, <2>1
  <1>4. \A p \in Procs : pc[p] \in {"idle", "called", "store", "putting", "carry", "copy",
                                   "paste", "confirm"} => ~InLine(p)
    BY DEF InLine, AtLock, Locked
  <1>5. ASSUME NEW p \in Procs, StoreCall(p) PROVE Good
    <2>1. PICK outcome \in Outcomes : Return(p, outcome)
      BY <1>5, StoreEffect
    <2>2. ~InLine(p) /\ outcome \in Results
      BY <1>4, <1>5 DEF StoreCall, Results
    <2>3. UNCHANGED <<disk, queue, cache, faults, world>>
      BY <1>5, StoreEffect
    <2>4. Keeps' /\ clock' = clock
      BY <2>1, <2>2, <2>3, ReturnKeeps
    <2>5. QED
      BY <1>1, <1>5, <2>3, <2>4, AskedWorld, StoreType
  <1>5a. ASSUME NEW p \in Procs, StoreRead(p) PROVE Good
    <2>1. /\ pc[p] = "store" /\ pc[p] # "idle" /\ Goto(p, "putting")
          /\ UNCHANGED <<disk, files, queue, aim, cache, faults, world>>
      BY <1>5a, ReadEffect
    <2>2. /\ held' \in [Procs -> Contents \cup {NoFile}]
          /\ \A q \in Procs \ {p} : held'[q] = held[q]
          /\ held'[p] # NoFile
      BY <1>1, <1>5a, ReadEffect
    <2>3. Keeps' /\ clock' = clock
      BY <1>1, <1>4, <2>1, <2>2, GotoKeeps
    <2>4. QED
      BY <1>1, <2>1, <2>3, AskedWorld
  <1>5b. ASSUME NEW p \in Procs, StorePut(p) PROVE Good
    <2>1. /\ pc[p] = "putting" /\ pc[p] # "idle" /\ Return(p, "ok")
          /\ UNCHANGED <<disk, queue, cache, faults, world>>
      BY <1>5b, PutEffect
    <2>2. held[p] \in Contents \cup {NoFile}
      BY <1>1
    <2>3. Typed(files')
      BY <1>1, <1>5b, <2>2, PutEffect
    <2>4. Keeps' /\ clock' = clock
      BY <1>4, <2>1, ReturnKeeps DEF Results, Outcomes
    <2>5. QED
      BY <1>1, <2>1, <2>3, <2>4, AskedWorld
  <1>6. ASSUME NEW p \in Procs, WriteStart(p) \/ EditStart(p) PROVE Good
    <2>1. pc[p] = "called" /\ UNCHANGED <<disk, files, faults, world>>
      BY <1>6 DEF WriteStart, EditStart, Runs
    <2>2. CASE Enter(p)
      <3>1. Keeps' /\ clock' = clock /\ Preflight
        BY <2>1, <2>2, EnterKeeps DEF Enter
      <3>2. QED
        BY <1>1, <2>1, <3>1, AskedWorld
    <2>3. ASSUME NEW outcome \in Results, Return(p, outcome), UNCHANGED <<queue, cache>>
          PROVE  Good
      <3>1. Keeps' /\ clock' = clock
        BY <1>4, <2>1, <2>3, ReturnKeeps
      <3>2. QED
        BY <1>1, <2>1, <2>3, <3>1, AskedWorld
    <2>4. QED
      BY <1>6, <2>2, <2>3 DEF WriteStart, EditStart, Results, Outcomes, Refusals
  <1>7. ASSUME NEW p \in Procs, Delete(p) PROVE Good
    <2>1. pc[p] = "called" /\ UNCHANGED <<disk, files, queue, cache, faults, world>>
      BY <1>7 DEF Delete, Runs
    <2>2. PICK outcome \in Results : Return(p, outcome)
      BY <1>7 DEF Delete, Results
    <2>3. Keeps' /\ clock' = clock
      BY <1>4, <2>1, <2>2, ReturnKeeps
    <2>4. QED
      BY <1>1, <2>1, <2>3, AskedWorld
  <1>8. ASSUME NEW p \in Procs, TrashStart(p) PROVE Good
    <2>1. /\ pc[p] = "called" /\ pc[p] # "idle" /\ Preflight /\ call[p].op = "trash"
          /\ UNCHANGED <<disk, files, queue, held, faults, world>>
      BY <1>8 DEF TrashStart, Runs
    <2>2. TrashKey(clock, call[p].path) \in Keys
      BY <2>1, CallInCourse DEF TrashKeys, Keys, TypeOK
    <2>3. PICK point \in {"store", "carry"} :
            /\ Goto(p, point)
            /\ aim' \in {aim, [aim EXCEPT ![p] = TrashKey(clock, call[p].path)]}
            /\ point = "carry" => aim'[p] = TrashKey(clock, call[p].path)
      BY <1>1, <1>8 DEF TrashStart
    <2>4. /\ aim' \in [Procs -> Keys \cup {NoCall}]
          /\ \A q \in Procs \ {p} : aim'[q] = aim[q]
          /\ point # "store" => aim'[p] \in Keys
      BY <1>1, <2>2, <2>3
    <2>5. Keeps' /\ clock' = clock
      BY <1>1, <1>4, <2>1, <2>3, <2>4, GotoKeeps
    <2>6. QED
      BY <1>1, <2>1, <2>5, AskedWorld
  <1>9. ASSUME NEW p \in Procs, MoveStart(p) PROVE Good
    <2>1. /\ pc[p] = "called" /\ pc[p] # "idle" /\ Preflight /\ call[p].op = "move"
          /\ UNCHANGED <<disk, files, queue, faults, world>>
      BY <1>9 DEF MoveStart, Runs
    <2>2. call[p].dst \in Keys
      BY <2>1, CallInCourse DEF MoveCalls, Keys
    <2>3. CASE Return(p, "Unavailable")
      <3>1. Keeps' /\ clock' = clock
        BY <1>4, <2>1, <2>3, ReturnKeeps DEF Results
      <3>2. QED
        BY <1>1, <2>1, <3>1, AskedWorld
    <2>4. CASE Goto(p, "store") /\ UNCHANGED <<held, aim>>
      <3>1. Keeps' /\ clock' = clock
        BY <1>1, <1>4, <2>1, <2>4, GotoKeeps
      <3>2. QED
        BY <1>1, <2>1, <3>1, AskedWorld
    <2>5. CASE aim' = [aim EXCEPT ![p] = call[p].dst] /\ Goto(p, "carry") /\ UNCHANGED held
      <3>1. /\ aim' \in [Procs -> Keys \cup {NoCall}]
            /\ \A q \in Procs \ {p} : aim'[q] = aim[q]
            /\ aim'[p] \in Keys
        BY <1>1, <2>2, <2>5
      <3>2. Keeps' /\ clock' = clock
        BY <1>1, <1>4, <2>1, <2>5, <3>1, GotoKeeps
      <3>3. QED
        BY <1>1, <2>1, <3>2, AskedWorld
    <2>6. QED
      BY <1>9, <2>3, <2>4, <2>5 DEF MoveStart
  <1>10. ASSUME NEW p \in Procs, EditSize(p) PROVE Good
    <2>1. Granted(p) /\ UNCHANGED <<disk, cache, world>> /\ (Works \/ Fails)
      BY <1>10 DEF EditSize
    <2>2. Keeps' /\ clock' = clock /\ files' = files
      <3>1. CASE Finish(p, "FileSizeExceeded")
        BY <2>1, <3>1, FinishKeeps DEF Results, Outcomes, Refusals
      <3>2. CASE Step(p, IF Counts(call[p]) THEN "count" ELSE "view") /\ UNCHANGED held
        BY <1>1, <2>1, <3>2, StepKeeps DEF Locked
      <3>3. QED
        BY <1>10, <3>1, <3>2 DEF EditSize
    <2>3. QED
      BY <1>1, <2>1, <2>2, CallType
  <1>11. ASSUME NEW p \in Procs, EditCount(p) PROVE Good
    <2>1. pc[p] \in Locked /\ UNCHANGED <<disk, cache, world>>
      BY <1>11 DEF EditCount, Locked
    <2>2. Works \/ Fails
      BY <1>11 DEF EditCount, Views
    <2>3. Keeps' /\ clock' = clock /\ files' = files
      <3>1. ASSUME NEW outcome \in Results, Finish(p, outcome)
            PROVE  Keeps' /\ clock' = clock /\ files' = files
        BY <2>1, <3>1, FinishKeeps
      <3>2. CASE Step(p, "view") /\ UNCHANGED held
        BY <1>1, <2>1, <3>2, StepKeeps DEF Locked
      <3>3. QED
        BY <1>11, <3>1, <3>2 DEF EditCount, Results, Outcomes, Refusals
    <2>4. QED
      BY <1>1, <2>1, <2>2, <2>3, CallType
  <1>12. ASSUME NEW p \in Procs, EditView(p) PROVE Good
    <2>1. pc[p] = "view" /\ pc[p] \in Locked /\ UNCHANGED <<disk, cache, world>>
      BY <1>12 DEF EditView, Locked
    <2>2. call[p] \in EditCalls /\ call[p].path \in Keys
      <3>1. call[p].op = "edit"
        BY <2>1 DEF Checked, LockedChecked, InLine, AtLock
      <3>2. QED
        BY <2>1, <3>1, CallInCourse
    <2>3. PICK text : /\ Views(call[p].path, text)
                      /\ \/ Finish(p, "FileSizeExceeded")
                         \/ /\ held' = [held EXCEPT ![p] = Updated(text, call[p])]
                            /\ Step(p, "stage")
      BY <1>12 DEF EditView
    <2>4. Works \/ Fails
      BY <2>2, <2>3, ViewType
    <2>5. Updated(text, call[p]) \in Contents
      BY <2>2, <2>3, ViewType, UpdatedType
    <2>6. Keeps' /\ clock' = clock /\ files' = files
      <3>1. CASE Finish(p, "FileSizeExceeded")
        BY <2>1, <3>1, FinishKeeps DEF Results, Outcomes, Refusals
      <3>2. CASE held' = [held EXCEPT ![p] = Updated(text, call[p])] /\ Step(p, "stage")
        <4>1. /\ held' \in [Procs -> Contents \cup {NoFile}]
              /\ \A q \in Procs \ {p} : held'[q] = held[q]
              /\ held'[p] # NoFile
          BY <1>1, <2>5, <3>2, DataAssumption
        <4>2. QED
          BY <2>1, <3>2, <4>1, StepKeeps DEF Locked
      <3>3. QED
        BY <2>3, <3>1, <3>2
    <2>7. QED
      BY <1>1, <2>1, <2>4, <2>6, CallType
  <1>13. ASSUME NEW p \in Procs, Stage(p) PROVE Good
    <2>1. /\ Granted(p) \/ pc[p] \in Locked
          /\ UNCHANGED <<disk, cache, world>> /\ Works /\ Step(p, "swap")
      BY <1>13 DEF Stage, Locked
    <2>2. /\ held' \in [Procs -> Contents \cup {NoFile}]
          /\ \A q \in Procs \ {p} : held'[q] = held[q]
          /\ held'[p] # NoFile
      <3>1. CASE Granted(p) /\ call[p].op = "write" /\ held' = [held EXCEPT ![p] = call[p].text]
        <4>1. call[p] \in WriteCalls
          BY <3>1, CallInCourse DEF Granted
        <4>2. QED
          BY <1>1, <3>1, <4>1, DataAssumption DEF WriteCalls
      <3>2. CASE pc[p] = "stage" /\ UNCHANGED held
        BY <1>1, <3>2 DEF TypeOK
      <3>3. QED
        BY <1>13, <3>1, <3>2 DEF Stage
    <2>3. Keeps' /\ clock' = clock /\ files' = files
      BY <2>1, <2>2, StepKeeps DEF Locked
    <2>4. QED
      BY <1>1, <2>1, <2>3, CallType
  <1>14. ASSUME NEW p \in Procs, StageFails(p) PROVE Good
    <2>1. /\ Granted(p) \/ pc[p] \in Locked
          /\ UNCHANGED <<disk, cache, world>> /\ Fails /\ GiveUp(p)
      BY <1>14 DEF StageFails, Locked
    <2>2. QED
      BY <1>1, <2>1, GiveUpKeeps, CallType
  <1>15. ASSUME NEW p \in Procs, Swap(p) PROVE Good
    <2>1. pc[p] = "swap" /\ pc[p] \in Locked /\ Preflight /\ UNCHANGED world
      BY <1>15 DEF Swap, Locked
    <2>2. held[p] \in Contents \cup {NoFile} /\ held[p] # NoFile
      BY <1>1, <2>1 DEF TypeOK
    <2>3. ASSUME NEW point \in {"rewrite", "ensure", "unswapped", "verify"}, Step(p, point),
                 UNCHANGED held
          PROVE  Keeps' /\ clock' = clock /\ files' = files
      BY <1>1, <2>1, <2>2, <2>3, StepKeeps DEF Locked
    <2>4. CASE GiveUp(p) /\ UNCHANGED <<disk, faults>>
      BY <1>1, <2>1, <2>4, GiveUpKeeps, AskedWorld
    <2>5. CASE Step(p, "rewrite") /\ UNCHANGED <<disk, faults, held>>
      BY <1>1, <2>1, <2>3, <2>5, AskedWorld
    <2>6. CASE /\ \/ Creates(call[p].path, held[p]) \/ CreateFails(call[p].path, held[p])
                  \/ FailsUnread
               /\ \E point \in {"rewrite", "ensure", "unswapped", "verify"} : Step(p, point)
               /\ UNCHANGED held
      <3>1. Typed(disk') /\ (Works \/ Fails)
        BY <1>1, <1>3, <2>2, <2>6, CreateEffect DEF FailsUnread
      <3>2. Keeps' /\ clock' = clock /\ files' = files
        BY <2>3, <2>6
      <3>3. faults' \in 0 .. MaxFaults
        BY <3>1, FaultsType
      <3>4. QED
        BY <1>1, <2>1, <3>1, <3>2, <3>3, PreflightType
    <2>7. Settled(p) \in {"ensure", "verify"}
      BY DEF Settled
    <2>8. QED
      BY <1>15, <2>4, <2>5, <2>6, <2>7 DEF Swap
  <1>16. ASSUME NEW p \in Procs, Rewrite(p) PROVE Good
    <2>1. /\ pc[p] = "rewrite" /\ pc[p] \in Locked /\ UNCHANGED <<cache, world>>
          /\ Creates(call[p].path, held[p]) \/ CreateFails(call[p].path, held[p])
      BY <1>16 DEF Rewrite, Locked
    <2>2. held[p] \in Contents \cup {NoFile} /\ held[p] # NoFile
      BY <1>1, <2>1 DEF TypeOK
    <2>3. Typed(disk') /\ (Works \/ Fails)
      BY <1>3, <2>1, <2>2, CreateEffect
    <2>4. Keeps' /\ clock' = clock /\ files' = files
      <3>1. CASE GiveUp(p)
        BY <2>1, <3>1, GiveUpKeeps
      <3>2. ASSUME NEW point \in {"ensure", "verify"}, Step(p, point), UNCHANGED held
            PROVE  Keeps' /\ clock' = clock /\ files' = files
        BY <1>1, <2>1, <2>2, <3>2, StepKeeps DEF Locked
      <3>3. QED
        BY <1>16, <3>1, <3>2 DEF Rewrite, Settled
    <2>5. QED
      BY <1>1, <2>1, <2>3, <2>4, CallType
  <1>17. ASSUME NEW p \in Procs, Verify(p) PROVE Good
    <2>1. /\ pc[p] = "verify" /\ pc[p] \in Locked /\ UNCHANGED <<disk, cache, world>>
          /\ Works \/ Fails
      BY <1>17 DEF Verify, Locked
    <2>2. held[p] # NoFile
      BY <2>1 DEF TypeOK
    <2>3. Keeps' /\ clock' = clock /\ files' = files
      <3>1. CASE Finish(p, "ok")
        BY <2>1, <3>1, FinishKeeps DEF Results, Outcomes
      <3>2. CASE Step(p, "ensure") /\ UNCHANGED held
        BY <1>1, <2>1, <2>2, <3>2, StepKeeps DEF Locked
      <3>3. QED
        BY <1>17, <3>1, <3>2 DEF Verify
    <2>4. QED
      BY <1>1, <2>1, <2>3, CallType
  <1>18. ASSUME NEW p \in Procs, Ensure(p) PROVE Good
    <2>1. /\ pc[p] \in Locked /\ UNCHANGED <<cache, world>> /\ Finish(p, "ok")
          /\ Creates(call[p].path, held[p]) \/ CreateFails(call[p].path, held[p])
      BY <1>18 DEF Ensure, Locked
    <2>2. Typed(disk') /\ (Works \/ Fails)
      BY <1>1, <1>3, <2>1, CreateEffect
    <2>3. Keeps' /\ clock' = clock /\ files' = files
      BY <2>1, FinishKeeps DEF Results, Outcomes
    <2>4. QED
      BY <1>1, <2>1, <2>2, <2>3, CallType
  <1>19. ASSUME NEW p \in Procs, NEW point \in {"confirm", "copy", "paste"},
                pc[p] \in {"carry", "copy", "paste"}, Step(p, point),
                UNCHANGED <<cache, world>>, Works \/ Fails, Typed(disk'),
                held' \in [Procs -> Contents \cup {NoFile}],
                \A q \in Procs \ {p} : held'[q] = held[q],
                point = "paste" => held'[p] # NoFile
         PROVE  Good
    <2>1. /\ Goto(p, point) /\ UNCHANGED <<files, queue, aim>>
          /\ pc[p] # "idle" /\ aim[p] \in Keys
      BY <1>19 DEF Step, TypeOK
    <2>2. Keeps' /\ clock' = clock
      BY <1>1, <1>4, <1>19, <2>1, GotoKeeps
    <2>3. QED
      BY <1>1, <1>19, <2>1, <2>2, CallType
  <1>20. ASSUME NEW p \in Procs, Carry(p) PROVE Good
    <2>1. call[p].path \in Keys /\ pc[p] = "carry"
      BY <1>20, CallInCourse DEF Carry
    <2>2. Typed(Moved(call[p].path, aim[p]))
      BY <1>1, <2>1 DEF Moved
    <2>3. Typed(disk') /\ (Works \/ Fails) /\ UNCHANGED <<held, cache, world>>
      BY <1>1, <1>20, <2>2 DEF Carry, FailsUnread
    <2>4. Step(p, "confirm") \/ Step(p, "copy")
      BY <1>20 DEF Carry
    <2>5. QED
      BY <1>1, <1>19, <2>1, <2>3, <2>4
  <1>21. ASSUME NEW p \in Procs, CopyView(p) PROVE Good
    <2>1. /\ pc[p] = "copy" /\ call[p].path \in Keys
          /\ UNCHANGED <<disk, cache, world>> /\ (Works \/ Fails)
      BY <1>21, CallInCourse DEF CopyView
    <2>2. CASE /\ disk[call[p].path] # NoFile /\ Step(p, "paste")
               /\ held' = [held EXCEPT ![p] = disk[call[p].path]]
      <3>1. /\ held' \in [Procs -> Contents \cup {NoFile}]
            /\ \A q \in Procs \ {p} : held'[q] = held[q]
            /\ held'[p] # NoFile
        BY <1>1, <2>1, <2>2
      <3>2. QED
        BY <1>1, <1>19, <2>1, <2>2, <3>1
    <2>3. CASE Step(p, "confirm") /\ UNCHANGED held
      BY <1>1, <1>19, <2>1, <2>3
    <2>4. QED
      BY <1>21, <2>2, <2>3 DEF CopyView
  <1>22. ASSUME NEW p \in Procs, CopyPaste(p) PROVE Good
    <2>1. /\ pc[p] = "paste" /\ UNCHANGED <<held, cache, world>> /\ Step(p, "confirm")
          /\ Creates(aim[p], held[p]) \/ CreateFails(aim[p], held[p])
      BY <1>22 DEF CopyPaste
    <2>2. Typed(disk') /\ (Works \/ Fails)
      BY <1>1, <1>3, <2>1, CreateEffect
    <2>3. QED
      BY <1>1, <1>19, <2>1, <2>2
  <1>23. ASSUME NEW p \in Procs, Confirm(p) PROVE Good
    <2>1. /\ pc[p] = "confirm" /\ pc[p] # "idle" /\ (Works \/ Fails)
          /\ UNCHANGED <<disk, files, queue, cache, world>>
      BY <1>23 DEF Confirm
    <2>2. Keeps' /\ clock' = clock
      <3>1. CASE Return(p, "ok")
        BY <1>4, <2>1, <3>1, ReturnKeeps DEF Results, Outcomes
      <3>2. CASE Goto(p, "store") /\ UNCHANGED <<held, aim>>
        BY <1>1, <1>4, <2>1, <3>2, GotoKeeps
      <3>3. QED
        BY <1>23, <3>1, <3>2 DEF Confirm
    <2>3. QED
      BY <1>1, <2>1, <2>2, CallType
  <1>24. ASSUME NEW p \in Procs, Cancel(p) PROVE Good
    <2>1. /\ pc[p] # "idle" /\ Return(p, "Cancelled") /\ "Cancelled" \in Results
          /\ UNCHANGED <<disk, files, cache, faults, world>>
      BY <1>24 DEF Cancel, Results, Outcomes, Refusals
    <2>2. Keeps' /\ clock' = clock
      <3>1. CASE ~InLine(p)
        BY <1>24, <2>1, <3>1, ReturnKeeps DEF Cancel, InLine, AtLock
      <3>2. CASE InLine(p)
        <4> DEFINE waiting == queue[call[p].path]
        <4>1. call[p].path \in Keys /\ waiting \in Seq(Procs)
          BY <2>1, CallInCourse DEF TypeOK
        <4>2. PICK n \in 1 .. Len(waiting) :
                /\ waiting[n] = p
                /\ queue' = [queue EXCEPT ![call[p].path] = RemoveAt(waiting, n)]
          BY <1>24, <3>2 DEF Cancel, InLine, AtLock
        <4> DEFINE rest == RemoveAt(waiting, n)
        <4>3. /\ rest \in Seq(Procs) /\ Len(rest) = Len(waiting) - 1
              /\ \A i \in 1 .. Len(rest) :
                   rest[i] = IF i < n THEN waiting[i] ELSE waiting[i + 1]
          BY <4>1, RemoveAtProperties
        <4>4. queue' = [queue EXCEPT ![call[p].path] = rest]
          BY <4>2
        <4> HIDE DEF rest
        <4>5. /\ n \in 1 .. Len(queue[call[p].path])
              /\ queue[call[p].path][n] = p
              /\ Len(rest) = Len(queue[call[p].path]) - 1
              /\ \A i \in 1 .. Len(rest) :
                   rest[i] = IF i < n THEN queue[call[p].path][i]
                                      ELSE queue[call[p].path][i + 1]
          BY <4>2, <4>3
        <4>6. /\ pc' = [pc EXCEPT ![p] = "idle"] /\ "idle" \notin AtLock
              /\ \A q \in Procs \ {p} : call'[q] = call[q]
          BY <2>1 DEF Return, AtLock, Locked, TypeOK
        <4>7. LocksMatchTasks'
          BY <3>2, <4>3, <4>4, <4>5, <4>6, LocksAfterLeaving, ZenonT(60)
        <4>8. queue' \in [Keys -> Seq(Procs)]
          BY <4>1, <4>3, <4>4 DEF TypeOK
        <4>9. QED
          BY <2>1, <4>7, <4>8, ReturnTasks DEF Keeps
      <3>3. QED
        BY <3>1, <3>2
    <2>3. QED
      BY <1>1, <2>1, <2>2, AskedWorld
  <1>25. ASSUME NEW p \in Procs, NEW c \in Calls, Issue(p, c) PROVE Good
    <2>1. /\ pc' = [pc EXCEPT ![p] = "called"] /\ call' = [call EXCEPT ![p] = c]
          /\ pc[p] = "idle" /\ c # NoCall
          /\ UNCHANGED <<disk, files, queue, held, aim, clock, cache, faults, world>>
      BY <1>25, CallShape DEF Issue
    <2>2. /\ "called" \notin Locked \cup {"locking"} /\ ~InLine(p)
          /\ \A q \in Procs \ {p} : call'[q] = call[q]
      BY <1>4, <2>1 DEF Locked, TypeOK
    <2>3. LocksMatchTasks'
      BY <2>1, <2>2, LocksStay
    <2>4. TasksOK'
      BY <1>25, <2>1, TypeParts DEF Issue, TasksOK, Points, Locked, Results, Outcomes
    <2>5. QED
      BY <1>1, <2>1, <2>3, <2>4, AskedWorld DEF Keeps, TypeOK
  <1>26. ASSUME disk' = disk, files' = files, queue' = queue, pc' = pc, call' = call,
                held' = held, aim' = aim, result' = result
         PROVE  Keeps' /\ Typed(disk') /\ Typed(files')
    BY <1>1, <1>26, TypeParts DEF Keeps, TasksOK, LocksMatchTasks
  <1>27. ASSUME Probe PROVE Good
    BY <1>26, <1>27, AskedWorld DEF Probe
  <1>28. ASSUME Flip PROVE Good
    <2>1. WorldOK'
      BY <1>28, TypeParts, SandboxAssumption DEF Flip, WorldOK, cache
    <2>2. QED
      BY <1>26, <1>28, <2>1 DEF Flip
  <1>29. ASSUME Tick PROVE Good
    <2>1. WorldOK'
      BY <1>29, TypeParts, DataAssumption DEF Tick, WorldOK, cache, world, Clock
    <2>2. QED
      BY <1>26, <1>29, <2>1 DEF Tick
  <1>30. ASSUME UNCHANGED vars PROVE Good
    BY <1>26, <1>30, AskedWorld DEF vars
  <1>31. Next => Good
    <2> HIDE DEF Good
    <2> QED
      BY <1>5, <1>5a, <1>5b, <1>6, <1>7, <1>8, <1>9, <1>10, <1>11, <1>12, <1>13, <1>14, <1>15, <1>16,
         <1>17, <1>18, <1>20, <1>21, <1>22, <1>23, <1>24, <1>25, <1>27, <1>28, <1>29
      DEF Next, Run
  <1>32. QED
    BY <1>2, <1>30, <1>31

-----------------------------------------------------------------------------
\* Which steps touch the disk and the store, and how.

\* p puts text into file k of the disk, or takes the file away.
Puts(p, k, text) ==
  \/ pc[p] \in {"swap", "rewrite", "ensure", "unswapped"} /\ k = call[p].path /\ text = held[p]
  \/ pc[p] = "carry" /\ k = call[p].path /\ text = NoFile
  \/ pc[p] = "carry" /\ k = aim[p] /\ text = disk[call[p].path]
  \/ pc[p] = "paste" /\ k = aim[p] /\ text = held[p]

LEMMA DiskWrites ==
  ASSUME TypeOK, Next, NEW k \in Keys, disk'[k] # disk[k]
  PROVE  \E p \in Procs : Puts(p, k, disk'[k]) /\ pc'[p] # pc[p]
  <1> DEFINE Goal == \E p \in Procs : Puts(p, k, disk'[k]) /\ pc'[p] # pc[p]
  <1>1. ASSUME NEW p \in Procs, Swap(p) \/ Rewrite(p) \/ Ensure(p) PROVE Goal
    <2>1. pc[p] \in {"swap", "rewrite", "ensure", "unswapped"}
      BY <1>1 DEF Swap, Rewrite, Ensure
    <2>2. disk' \in {disk, [disk EXCEPT ![call[p].path] = held[p]]}
      BY <1>1, CreateEffect DEF Swap, Rewrite, Ensure, FailsUnread
    <2>3. k = call[p].path /\ disk'[k] = held[p]
      BY <2>2 DEF TypeOK
    <2>4. pc'[p] # pc[p]
      BY <1>1 DEF Swap, Rewrite, Ensure, GiveUp, FallBack, Finish, Step, Goto, Return,
         Settled, TypeOK
    <2>5. QED
      BY <2>1, <2>3, <2>4 DEF Puts
  <1>2. ASSUME NEW p \in Procs, Carry(p) PROVE Goal
    <2>1. /\ pc[p] = "carry" /\ disk' \in {disk, Moved(call[p].path, aim[p])}
          /\ Step(p, "confirm") \/ Step(p, "copy")
      BY <1>2 DEF Carry, FailsUnread
    <2>2. disk' = Moved(call[p].path, aim[p])
      BY <2>1
    <2>3. Puts(p, k, disk'[k])
      BY <2>1, <2>2 DEF Puts, Moved, TypeOK
    <2>4. pc'[p] # pc[p]
      BY <2>1 DEF Step, Goto, TypeOK
    <2>5. QED
      BY <2>3, <2>4
  <1>3. ASSUME NEW p \in Procs, CopyPaste(p) PROVE Goal
    <2>1. /\ pc[p] = "paste" /\ Step(p, "confirm")
          /\ disk' \in {disk, [disk EXCEPT ![aim[p]] = held[p]]}
      BY <1>3, CreateEffect DEF CopyPaste
    <2>2. k = aim[p] /\ disk'[k] = held[p] /\ pc'[p] # pc[p]
      BY <2>1 DEF Step, Goto, TypeOK
    <2>3. QED
      BY <2>1, <2>2 DEF Puts
  <1>4. ASSUME NEW p \in Procs,
               \/ StoreCall(p) \/ StoreRead(p) \/ StorePut(p)
               \/ WriteStart(p) \/ EditStart(p) \/ Delete(p)
               \/ TrashStart(p) \/ MoveStart(p) \/ EditSize(p) \/ EditCount(p)
               \/ EditView(p) \/ Stage(p) \/ StageFails(p) \/ Verify(p)
               \/ CopyView(p) \/ Confirm(p) \/ Cancel(p) \/ \E c \in Calls : Issue(p, c)
        PROVE  disk' = disk
    BY <1>4 DEF StoreCall, StoreRead, StorePut, WriteStart, EditStart, Delete, TrashStart,
       MoveStart, EditSize, EditCount, EditView, Stage, StageFails, Verify, CopyView, Confirm, Cancel, Issue
  <1>5. CASE Probe \/ Flip \/ Tick
    BY <1>5 DEF Probe, Flip, Tick
  <1>6. QED
    BY <1>1, <1>2, <1>3, <1>4, <1>5 DEF Next, Run

\* Only the calls that are in the store change its files.
LEMMA FilesWrites ==
  ASSUME Next, files' # files
  PROVE  \E p \in Procs : StoreCall(p) \/ StorePut(p)
  <1>1. ASSUME NEW p \in Procs, Run(p), ~StoreCall(p), ~StorePut(p)
        PROVE  files' = files
    BY <1>1 DEF Run, StoreRead, Store!Read, WriteStart, EditStart, Delete, TrashStart,
       MoveStart, EditSize, EditCount, EditView, Stage, StageFails, Swap, Rewrite, Verify, Ensure, Carry,
       CopyView, CopyPaste, Confirm, GiveUp, FallBack, Finish, Step
  <1>2. ASSUME NEW p \in Procs, Cancel(p) \/ \E c \in Calls : Issue(p, c)
        PROVE  files' = files
    BY <1>2 DEF Cancel, Issue
  <1>3. Probe \/ Flip \/ Tick => files' = files
    BY DEF Probe, Flip, Tick
  <1>4. QED
    BY <1>1, <1>2, <1>3 DEF Next

\* A move that ends in the store puts a fitting text where it may, or nothing.
LEMMA PutWrites ==
  ASSUME TypeOK, Checked, NEW p \in Procs, StorePut(p), NEW k \in Keys, files'[k] # files[k]
  PROVE  files'[k] = NoFile \/ (files'[k] \in FittingTexts /\ k \notin DeniedKeys)
  <1>1. files' = [files EXCEPT ![call[p].dst] = held[p], ![call[p].path] = NoFile]
    BY PutEffect
  <1>2. held[p] \in FittingTexts /\ call[p].dst \notin DeniedKeys
    BY PutEffect DEF Checked, CarriedChecked
  <1>3. QED
    BY <1>1, <1>2 DEF TypeOK

LEMMA NextCeiling == Inv /\ [Next]_vars => ByteCeiling'
  <1> SUFFICES ASSUME Inv, [Next]_vars PROVE ByteCeiling'
    OBVIOUS
  <1> DEFINE Fits(text) == text \in FittingTexts \cup {NoFile}
  <1>1. \A k \in Keys : Fits(files[k]) /\ (Fits(disk[k]) \/ disk[k] \in Brought)
    BY DEF Inv, ByteCeiling, Brought
  <1>2. ASSUME Next, NEW k \in Keys
        PROVE  Fits(files'[k])
    <2>1. CASE files'[k] = files[k]
      BY <1>1, <2>1
    <2>2. CASE files'[k] # files[k]
      <3>1. PICK p \in Procs : StoreCall(p) \/ StorePut(p)
        BY <1>2, <2>2, FilesWrites
      <3>2. CASE StoreCall(p)
        <4>1. call[p].path \in Keys
          BY <3>2, CallInCourse DEF StoreCall, Inv
        <4>2. QED
          BY <1>1, <2>2, <3>2, <4>1, StoreWrites DEF Inv
      <3>3. CASE StorePut(p)
        BY <2>2, <3>3, PutWrites DEF Inv
      <3>4. QED
        BY <3>1, <3>2, <3>3
    <2>3. QED
      BY <2>1, <2>2
  <1>3. ASSUME Next, NEW k \in Keys
        PROVE  Fits(disk'[k]) \/ disk'[k] \in Brought
    <2>1. CASE disk'[k] = disk[k]
      BY <1>1, <2>1
    <2>2. CASE disk'[k] # disk[k]
      <3>1. PICK p \in Procs : Puts(p, k, disk'[k])
        BY <1>3, <2>2, DiskWrites DEF Inv
      <3>2. CASE pc[p] \in {"swap", "rewrite", "ensure", "unswapped"} /\ disk'[k] = held[p]
        BY <3>2 DEF Inv, Checked, LockedChecked
      <3>3. CASE disk'[k] = NoFile
        BY <3>3
      <3>4. CASE pc[p] = "carry" /\ disk'[k] = disk[call[p].path]
        <4>1. call[p].path \in Keys
          BY <3>4, CallInCourse DEF Inv
        <4>2. QED
          BY <1>1, <3>4, <4>1
      <3>5. CASE pc[p] = "paste" /\ disk'[k] = held[p]
        BY <3>5 DEF Inv, Checked, CarriedChecked
      <3>6. QED
        BY <3>1, <3>2, <3>3, <3>4, <3>5 DEF Puts
    <2>3. QED
      BY <2>1, <2>2
  <1>4. CASE Next
    BY <1>2, <1>3, <1>4 DEF ByteCeiling, Brought
  <1>5. CASE UNCHANGED vars
    BY <1>5 DEF vars, Inv, ByteCeiling
  <1>6. QED
    BY <1>4, <1>5

-----------------------------------------------------------------------------
\* What a call has checked stays so until it uses it.

\* Only p moves, and the mode of the run stays.
Others(p) ==
  /\ \A q \in Procs \ {p} : /\ pc'[q] = pc[q] /\ call'[q] = call[q]
                           /\ held'[q] = held[q] /\ aim'[q] = aim[q]
  /\ readOnly' = readOnly /\ mode' = mode

CheckedBy(p) == LockedChecked(p) /\ CarriedChecked(p)

LEMMA CheckedAfter ==
  ASSUME Checked, NEW p \in Procs, Others(p), CheckedBy(p)'
  PROVE  Checked'
  <1> SUFFICES ASSUME NEW q \in Procs, q # p
               PROVE  LockedChecked(q)' /\ CarriedChecked(q)'
    BY DEF Checked, CheckedBy
  <1>1. LockedChecked(q) /\ CarriedChecked(q)
    BY DEF Checked
  <1>2. QED
    BY <1>1 DEF Others, LockedChecked, CarriedChecked, InLine, Guarded

LEMMA CheckedOnReturn ==
  ASSUME TypeOK, Checked, NEW p \in Procs, NEW outcome, Return(p, outcome), UNCHANGED world
  PROVE  Checked'
  <1>1. Others(p) /\ pc'[p] = "idle"
    BY DEF Return, Others, TypeOK, world
  <1>2. CheckedBy(p)'
    BY <1>1 DEF CheckedBy, LockedChecked, CarriedChecked, InLine, AtLock, Locked
  <1>3. QED
    BY <1>1, <1>2, CheckedAfter

\* Elsewhere than at a lock or on the way of a trash, there is nothing to keep.
LEMMA CheckedOnGoto ==
  ASSUME TypeOK, Checked, NEW p \in Procs, Goto(p, "store"),
         UNCHANGED <<held, aim, world>>
  PROVE  Checked'
  <1>1. Others(p) /\ pc'[p] = "store"
    BY DEF Goto, Others, TypeOK, world
  <1>2. CheckedBy(p)'
    BY <1>1 DEF CheckedBy, LockedChecked, CarriedChecked, InLine, AtLock, Locked
  <1>3. QED
    BY <1>1, <1>2, CheckedAfter

LEMMA CheckedOnFinish ==
  ASSUME TypeOK, Checked, NEW p \in Procs,
         GiveUp(p) \/ FallBack(p) \/ \E outcome : Finish(p, outcome), UNCHANGED world
  PROVE  Checked'
  BY CheckedOnReturn, CheckedOnGoto DEF GiveUp, FallBack, Finish

\* Under the lock, from one await to the next.
LEMMA CheckedOnStep ==
  ASSUME TypeOK, Checked, NEW p \in Procs, InLine(p), NEW point \in Locked,
         Step(p, point), UNCHANGED world,
         \A q \in Procs \ {p} : held'[q] = held[q],
         call[p].op = "write" => point \in {"swap", "rewrite", "ensure", "unswapped"},
         point \in {"stage", "swap", "rewrite", "verify", "ensure", "unswapped"} =>
           held'[p] \in FittingTexts /\ (call[p].op = "write" => held'[p] = call[p].text)
  PROVE  Checked'
  <1>1. Others(p) /\ pc'[p] = point /\ call' = call
    BY DEF Step, Goto, Others, TypeOK, world
  <1>2. point \notin {"putting", "carry", "copy", "paste", "confirm"} /\ point \in AtLock
    BY DEF Locked, AtLock
  <1>3. LockedChecked(p)
    BY DEF Checked
  <1>4. LockedChecked(p)'
    BY <1>1, <1>2, <1>3 DEF LockedChecked, InLine, Guarded, Others
  <1>5. CarriedChecked(p)'
    BY <1>1, <1>2 DEF CarriedChecked
  <1>6. QED
    BY <1>1, <1>4, <1>5, CheckedAfter DEF CheckedBy

\* On the way of a trash or a move.
LEMMA CheckedOnCarry ==
  ASSUME TypeOK, Checked, NEW p \in Procs,
         NEW point \in {"carry", "copy", "paste", "confirm"}, Goto(p, point),
         UNCHANGED world,
         \A q \in Procs \ {p} : held'[q] = held[q] /\ aim'[q] = aim[q],
         \/ call[p].op = "move" /\ aim'[p] = call[p].dst /\ aim'[p] \notin DeniedKeys
         \/ /\ call[p].op = "trash" /\ call[p].path \notin DeniedKeys
            /\ \E ts \in Clock : aim'[p] = TrashKey(ts, call[p].path),
         point = "paste" => held'[p] \in FittingTexts \cup Brought
  PROVE  Checked'
  <1>1. Others(p) /\ pc'[p] = point /\ call' = call
    BY DEF Goto, Others, TypeOK, world
  <1>2. LockedChecked(p)'
    BY <1>1 DEF LockedChecked, InLine, AtLock, Locked
  <1>3. CarriedChecked(p)'
    BY <1>1 DEF CarriedChecked
  <1>4. QED
    BY <1>1, <1>2, <1>3, CheckedAfter DEF CheckedBy

LEMMA NextChecked == Inv /\ [Next]_vars => Checked'
  <1> SUFFICES ASSUME TypeOK, LocksMatchTasks, Checked, ByteCeiling, [Next]_vars
               PROVE  Checked'
    BY DEF Inv
  <1>1. ASSUME NEW p \in Procs, NEW outcome, Return(p, outcome), UNCHANGED world
        PROVE  Checked'
    BY <1>1, CheckedOnReturn
  <1>2. ASSUME NEW p \in Procs, Goto(p, "store"), UNCHANGED <<held, aim, world>>
        PROVE  Checked'
    BY <1>2, CheckedOnGoto
  <1>3. ASSUME NEW p \in Procs, StoreCall(p) PROVE Checked'
    BY <1>1, <1>3, StoreEffect
  <1>3a. ASSUME NEW p \in Procs, StoreRead(p) PROVE Checked'
    <2>1. Others(p) /\ pc'[p] = "putting" /\ call' = call
      BY <1>3a, ReadEffect DEF Goto, Others, TypeOK, world
    <2>2. held'[p] = files[call[p].path] /\ held'[p] \in FittingTexts
      BY <1>3a, ReadEffect DEF ByteCeiling, TypeOK
    <2>3. call[p].op = "move" /\ call[p].dst \notin DeniedKeys
      BY <1>3a, ReadEffect
    <2>4. CheckedBy(p)'
      BY <2>1, <2>2, <2>3 DEF CheckedBy, LockedChecked, CarriedChecked, InLine, AtLock, Locked
    <2>5. QED
      BY <2>1, <2>4, CheckedAfter
  <1>3b. ASSUME NEW p \in Procs, StorePut(p) PROVE Checked'
    BY <1>1, <1>3b, PutEffect
  <1>4. ASSUME NEW p \in Procs, WriteStart(p) \/ EditStart(p) PROVE Checked'
    <2>1. /\ pc[p] = "called" /\ UNCHANGED world
          /\ call[p].op \in {"write", "edit"}
      BY <1>4 DEF WriteStart, EditStart, Runs
    <2>2. CASE \E outcome : Return(p, outcome)
      BY <1>1, <2>1, <2>2
    <2>3. CASE Goto(p, "store") /\ UNCHANGED <<held, aim>>
      BY <1>2, <2>1, <2>3
    <2>4. CASE /\ Goto(p, "locking") /\ UNCHANGED <<held, aim>>
               /\ call[p].path \notin DeniedKeys /\ ~Guarded
               /\ call[p].op = "write" => call[p].text \in FittingTexts
      <3>1. Others(p) /\ pc'[p] = "locking" /\ call' = call
        BY <2>1, <2>4 DEF Goto, Others, TypeOK, world
      <3>2. CheckedBy(p)'
        BY <2>1, <2>4, <3>1 DEF CheckedBy, LockedChecked, CarriedChecked, Guarded, Others
      <3>3. QED
        BY <3>1, <3>2, CheckedAfter
    <2>5. CASE Enter(p) /\ ~Guarded /\ (call[p].op = "write" => call[p].text \in FittingTexts)
      BY <2>2, <2>3, <2>4, <2>5 DEF Enter
    <2>6. QED
      BY <1>4, <2>1, <2>2, <2>5 DEF WriteStart, EditStart, Runs
  <1>5. ASSUME NEW p \in Procs, Delete(p) \/ Cancel(p) PROVE Checked'
    BY <1>1, <1>5 DEF Delete, Cancel
  <1>6. ASSUME NEW p \in Procs, TrashStart(p) PROVE Checked'
    <2>1. /\ pc[p] = "called" /\ call[p].op = "trash" /\ UNCHANGED <<held, world>>
      BY <1>6 DEF TrashStart, Runs
    <2>2. CASE Goto(p, "store") /\ UNCHANGED aim
      BY <1>2, <2>1, <2>2
    <2>3. CASE /\ call[p].path \notin DeniedKeys /\ Goto(p, "carry")
               /\ aim' = [aim EXCEPT ![p] = TrashKey(clock, call[p].path)]
      <3>1. clock \in Clock
        BY DEF TypeOK
      <3>2. /\ aim'[p] = TrashKey(clock, call[p].path)
            /\ \A q \in Procs \ {p} : held'[q] = held[q] /\ aim'[q] = aim[q]
        BY <2>1, <2>3 DEF TypeOK
      <3>3. QED
        BY <2>1, <2>3, <3>1, <3>2, CheckedOnCarry
    <2>4. QED
      BY <1>6, <2>2, <2>3 DEF TrashStart
  <1>7. ASSUME NEW p \in Procs, MoveStart(p) PROVE Checked'
    <2>1. pc[p] = "called" /\ call[p].op = "move" /\ UNCHANGED world
      BY <1>7 DEF MoveStart, Runs
    <2>2. CASE Return(p, "Unavailable")
      BY <1>1, <2>1, <2>2
    <2>3. CASE Goto(p, "store") /\ UNCHANGED <<held, aim>>
      BY <1>2, <2>1, <2>3
    <2>4. CASE /\ call[p].dst \notin DeniedKeys /\ UNCHANGED held
               /\ aim' = [aim EXCEPT ![p] = call[p].dst] /\ Goto(p, "carry")
      <3>1. /\ aim'[p] = call[p].dst
            /\ \A q \in Procs \ {p} : held'[q] = held[q] /\ aim'[q] = aim[q]
        BY <2>4 DEF TypeOK
      <3>2. QED
        BY <2>1, <2>4, <3>1, CheckedOnCarry
    <2>5. QED
      BY <1>7, <2>2, <2>3, <2>4 DEF MoveStart
  <1>8. ASSUME NEW p \in Procs, Granted(p) \/ pc[p] \in Locked
        PROVE  InLine(p) /\ LockedChecked(p)
    BY <1>8, OwnerAtHead DEF Checked
  <1>9. ASSUME NEW p \in Procs, EditSize(p) \/ EditCount(p) PROVE Checked'
    <2>1. /\ Granted(p) \/ pc[p] \in Locked
          /\ UNCHANGED world /\ call[p].op # "write"
      BY <1>9, <1>8 DEF EditSize, EditCount, Locked, LockedChecked
    <2>2. CASE \E outcome : Finish(p, outcome)
      BY <2>1, <2>2, CheckedOnFinish
    <2>3. ASSUME NEW point \in {"count", "view"}, Step(p, point), UNCHANGED held
          PROVE  Checked'
      BY <1>8, <2>1, <2>3, CheckedOnStep DEF Locked
    <2>4. QED
      BY <1>9, <2>2, <2>3 DEF EditSize, EditCount
  <1>10. ASSUME NEW p \in Procs, EditView(p) PROVE Checked'
    <2>1. pc[p] = "view" /\ pc[p] \in Locked /\ UNCHANGED world
      BY <1>10 DEF EditView, Locked
    <2>2. InLine(p) /\ call[p].op # "write"
      BY <1>8, <2>1 DEF LockedChecked
    <2>3. CASE Finish(p, "FileSizeExceeded")
      BY <2>1, <2>3, CheckedOnFinish
    <2>4. ASSUME NEW updated \in FittingTexts, Step(p, "stage"),
                 held' = [held EXCEPT ![p] = updated]
          PROVE  Checked'
      <3>1. held'[p] = updated /\ \A q \in Procs \ {p} : held'[q] = held[q]
        BY <2>4 DEF TypeOK
      <3>2. QED
        BY <2>1, <2>2, <2>4, <3>1, CheckedOnStep DEF Locked
    <2>5. QED
      BY <1>10, <2>3, <2>4 DEF EditView
  <1>11. ASSUME NEW p \in Procs, Stage(p) PROVE Checked'
    <2>1. /\ Granted(p) \/ pc[p] \in Locked
          /\ UNCHANGED world /\ Step(p, "swap")
      BY <1>11 DEF Stage, Locked
    <2>2. InLine(p) /\ LockedChecked(p)
      BY <1>8, <2>1
    <2>3. /\ held'[p] \in FittingTexts /\ (call[p].op = "write" => held'[p] = call[p].text)
          /\ \A q \in Procs \ {p} : held'[q] = held[q]
      <3>1. CASE Granted(p) /\ call[p].op = "write" /\ held' = [held EXCEPT ![p] = call[p].text]
        BY <2>2, <3>1 DEF LockedChecked, TypeOK
      <3>2. CASE pc[p] = "stage" /\ UNCHANGED held
        BY <2>2, <3>2 DEF LockedChecked
      <3>3. QED
        BY <1>11, <3>1, <3>2 DEF Stage
    <2>4. QED
      BY <2>1, <2>2, <2>3, CheckedOnStep DEF Locked
  <1>12. ASSUME NEW p \in Procs, StageFails(p) PROVE Checked'
    BY <1>12, CheckedOnFinish DEF StageFails
  <1>13. ASSUME NEW p \in Procs, Swap(p) \/ Rewrite(p) \/ Verify(p) \/ Ensure(p)
         PROVE  Checked'
    <2>1. /\ pc[p] \in {"swap", "rewrite", "verify", "ensure", "unswapped"} /\ pc[p] \in Locked
          /\ UNCHANGED world
      BY <1>13 DEF Swap, Rewrite, Verify, Ensure, Locked
    <2>2. InLine(p) /\ LockedChecked(p)
      BY <1>8, <2>1
    <2>3. CASE GiveUp(p) \/ \E outcome : Finish(p, outcome)
      BY <2>1, <2>3, CheckedOnFinish
    <2>4. ASSUME NEW point \in {"rewrite", "verify", "ensure", "unswapped"}, Step(p, point),
                 UNCHANGED held,
                 call[p].op = "write" => point # "verify"
          PROVE  Checked'
      BY <2>1, <2>2, <2>4, CheckedOnStep DEF Locked, LockedChecked
    <2>5. QED
      BY <1>13, <2>2, <2>3, <2>4
      DEF Swap, FailsUnread, Rewrite, Verify, Ensure, Settled, LockedChecked
  <1>14. ASSUME NEW p \in Procs, Carry(p) \/ CopyView(p) \/ CopyPaste(p) PROVE Checked'
    <2>1. /\ pc[p] \in {"carry", "copy", "paste"} /\ CarriedChecked(p) /\ UNCHANGED world
          /\ call[p].path \in Keys
      BY <1>14, CallInCourse DEF Carry, CopyView, CopyPaste, Checked
    <2>2. PICK point \in {"copy", "paste", "confirm"} : Step(p, point)
      BY <1>14 DEF Carry, CopyView, CopyPaste
    <2>3. /\ \A q \in Procs \ {p} : held'[q] = held[q]
          /\ point = "paste" => held'[p] \in FittingTexts \cup Brought
      <3>1. CASE UNCHANGED held /\ (Step(p, "copy") \/ Step(p, "confirm"))
        BY <2>2, <3>1 DEF Step, Goto, TypeOK
      <3>2. CASE /\ held' = [held EXCEPT ![p] = disk[call[p].path]]
                 /\ disk[call[p].path] # NoFile
        BY <2>1, <3>2 DEF ByteCeiling, Brought, TypeOK
      <3>3. QED
        BY <1>14, <3>1, <3>2 DEF Carry, CopyView, CopyPaste
    <2>4. Goto(p, point) /\ UNCHANGED aim
      BY <2>2 DEF Step
    <2>5. QED
      BY <2>1, <2>3, <2>4, CheckedOnCarry DEF CarriedChecked
  <1>15. ASSUME NEW p \in Procs, Confirm(p) PROVE Checked'
    BY <1>1, <1>2, <1>15 DEF Confirm
  <1>16. ASSUME NEW p \in Procs, NEW c \in Calls, Issue(p, c) PROVE Checked'
    <2>1. Others(p) /\ pc'[p] = "called"
      BY <1>16 DEF Issue, Others, TypeOK, world
    <2>2. CheckedBy(p)'
      BY <2>1 DEF CheckedBy, LockedChecked, CarriedChecked, InLine, AtLock, Locked
    <2>3. QED
      BY <2>1, <2>2, CheckedAfter
  <1>17. CASE Probe \/ Flip \/ Tick \/ UNCHANGED vars
    <2>1. /\ pc' = pc /\ call' = call /\ held' = held /\ aim' = aim
          /\ readOnly' = readOnly /\ mode' = mode
      BY <1>17 DEF Probe, Flip, Tick, vars, world
    <2>2. QED
      BY <2>1 DEF Checked, LockedChecked, CarriedChecked, InLine, Guarded
  <1>18. QED
    BY <1>3, <1>3a, <1>3b, <1>4, <1>5, <1>6, <1>7, <1>9, <1>10, <1>11, <1>12, <1>13, <1>14,
       <1>15, <1>16, <1>17
    DEF Next, Run

LEMMA InitInv == Init => Inv
  <1> SUFFICES ASSUME Init PROVE Inv
    OBVIOUS
  <1>1. TypeOK /\ LocksMatchTasks
    BY InitTypeLocks
  <1>2. Checked
    BY DEF Init, Checked, LockedChecked, CarriedChecked, InLine, AtLock, Locked
  <1>3. PICK seed \in Seeds : files = Seeded(seed)
    BY DEF Init, Initials
  <1>4. PICK found \in DiskSeeds : disk = Seeded(found)
    BY DEF Init
  <1>5. ASSUME NEW k \in Keys
        PROVE  /\ files[k] \in FittingTexts \cup {NoFile}
               /\ disk[k] \in FittingTexts \cup {NoFile} \cup Brought
    BY <1>3, <1>4, DataAssumption DEF Seeded, Brought
  <1>6. ByteCeiling
    BY <1>5 DEF ByteCeiling, Brought
  <1>7. QED
    BY <1>1, <1>2, <1>6 DEF Inv

LEMMA NextInv == Inv /\ [Next]_vars => Inv'
  BY NextTypeLocks, NextChecked, NextCeiling DEF Inv

LEMMA SandboxInductive == Spec => []Inv
  BY InitInv, NextInv, PTL DEF Spec

\* Every variable keeps its type in every reachable state, and a call under a
\* lock or on its way to the trash has what its next step uses.
THEOREM TypeCorrect == Spec => []TypeOK
  <1>1. Inv => TypeOK
    BY DEF Inv
  <1>2. QED
    BY <1>1, SandboxInductive, PTL

\* No lock is leaked and no waiter lost, wherever a call fails, times out in
\* the sandbox and goes on in the store, or is cancelled; and a task that runs
\* under a lock is its only owner.
THEOREM LocksNeverLeak == Spec => []LocksMatchTasks
  <1>1. Inv => LocksMatchTasks
    BY DEF Inv
  <1>2. QED
    BY <1>1, SandboxInductive, PTL

\* Nothing above the byte ceiling gets into the store or onto the disk,
\* whatever was viewed, lost or copied on the way.
THEOREM CeilingHolds == Spec => []ByteCeiling
  <1>1. Inv => ByteCeiling
    BY DEF Inv
  <1>2. QED
    BY <1>1, SandboxInductive, PTL

\* No step gives a denied key a text, in the sandbox or in the store, although
\* the policy is checked awaits before the write and a denial falls back: but
\* the trash of an allowed path, which takes that path's text along.
THEOREM DeniedStaysUnwritten == Spec => DeniedNeverWritten
  <1> DEFINE OnDisk(k) == \E p \in Procs :
                            /\ Trashes(p) /\ pc[p] \in {"carry", "paste"} /\ aim[p] = k
                            /\ disk'[k] = IF pc[p] = "carry" THEN disk[call[p].path] ELSE held[p]
             InStore(k) == \E p \in Procs :
                            /\ Trashes(p) /\ pc[p] = "store" /\ TrashKey(clock, call[p].path) = k
                            /\ files'[k] = files[call[p].path]
             Safe == \A k \in DeniedKeys :
                       /\ disk'[k] \notin {disk[k], NoFile} =>
                            \E p \in Procs :
                              /\ Trashes(p) /\ pc[p] \in {"carry", "paste"} /\ aim[p] = k
                              /\ disk'[k] = IF pc[p] = "carry" THEN disk[call[p].path] ELSE held[p]
                       /\ files'[k] \notin {files[k], NoFile} =>
                            \E p \in Procs :
                              /\ Trashes(p) /\ pc[p] = "store" /\ TrashKey(clock, call[p].path) = k
                              /\ files'[k] = files[call[p].path]
  <1>1. Inv /\ [Next]_vars => [Safe]_vars
    <2> SUFFICES ASSUME Inv, Next, NEW k \in DeniedKeys
                 PROVE  /\ disk'[k] \notin {disk[k], NoFile} => OnDisk(k)
                        /\ files'[k] \notin {files[k], NoFile} => InStore(k)
      OBVIOUS
    <2>1. TypeOK /\ Checked /\ k \in Keys
      BY DEF Inv, DeniedKeys
    <2>2. ASSUME disk'[k] \notin {disk[k], NoFile}
          PROVE  OnDisk(k)
      <3>1. PICK p \in Procs : Puts(p, k, disk'[k]) /\ pc'[p] # pc[p]
        BY <2>1, <2>2, DiskWrites
      <3>2. LockedChecked(p) /\ CarriedChecked(p)
        BY <2>1 DEF Checked
      <3>3. ~(pc[p] \in {"swap", "rewrite", "ensure", "unswapped"} /\ k = call[p].path)
        BY <3>2 DEF LockedChecked, InLine, AtLock, Locked
      <3>4. /\ pc[p] \in {"carry", "paste"} /\ aim[p] = k
            /\ disk'[k] = IF pc[p] = "carry" THEN disk[call[p].path] ELSE held[p]
        BY <2>2, <3>1, <3>3 DEF Puts
      <3>5. call[p].op = "trash" /\ call[p].path \notin DeniedKeys
        BY <3>2, <3>4 DEF CarriedChecked
      <3>6. call[p] # NoCall
        BY <2>1, <3>4 DEF TypeOK
      <3>7. QED
        BY <3>1, <3>4, <3>5, <3>6 DEF Trashes
    <2>3. ASSUME files'[k] \notin {files[k], NoFile}
          PROVE  InStore(k)
      <3>1. PICK p \in Procs : StoreCall(p) \/ StorePut(p)
        BY <2>3, FilesWrites
      <3>2. ~StorePut(p)
        BY <2>1, <2>3, PutWrites
      <3>3. /\ files'[k] = files[call[p].path] /\ call[p].op = "trash"
            /\ call[p].path \notin DeniedKeys /\ TrashKey(clock, call[p].path) = k
        BY <2>1, <2>3, <3>1, <3>2, StoreWrites
      <3>4. pc[p] = "store" /\ pc'[p] = "idle" /\ call[p] # NoCall
        BY <2>1, <3>1, <3>2 DEF StoreCall, TypeOK
      <3>5. QED
        BY <3>3, <3>4 DEF Trashes
    <2>4. QED
      BY <2>2, <2>3
  <1>2. QED
    BY <1>1, SandboxInductive, PTL DEF Spec, DeniedNeverWritten

\* In the read-only mode the disk changes only by the mv or the copy of a trash
\* or a move, however the sandbox fails under the calls that were let in.
THEOREM ReadOnlyMode == Spec => ReadOnlyGuards
  <1> DEFINE Safe == readOnly /\ mode # "skip" /\ disk' # disk =>
                       \E p \in Procs : call[p] # NoCall /\ call[p].op \in {"trash", "move"}
                                          /\ pc[p] \in {"carry", "paste"} /\ pc'[p] # pc[p]
  <1>1. Inv /\ Inv' /\ [Next]_vars => [Safe]_vars
    <2> SUFFICES ASSUME Inv, Inv', Next, Guarded, disk' # disk
                 PROVE  \E p \in Procs : call[p] # NoCall /\ call[p].op \in {"trash", "move"}
                                          /\ pc[p] \in {"carry", "paste"} /\ pc'[p] # pc[p]
      BY DEF Guarded
    <2>1. TypeOK /\ TypeOK' /\ Checked
      BY DEF Inv
    <2>2. PICK k \in Keys : disk'[k] # disk[k]
      BY <2>1 DEF TypeOK
    <2>3. PICK p \in Procs : Puts(p, k, disk'[k]) /\ pc'[p] # pc[p]
      BY <2>1, <2>2, DiskWrites
    <2>4. pc[p] \in {"carry", "paste"}
      BY <2>1, <2>3 DEF Puts, Checked, LockedChecked, InLine, AtLock, Locked
    <2>5. call[p] # NoCall /\ call[p].op \in {"trash", "move"}
      BY <2>1, <2>4 DEF Checked, CarriedChecked, TypeOK
    <2>6. QED
      BY <2>3, <2>4, <2>5
  <1>2. QED
    BY <1>1, SandboxInductive, PTL DEF Spec, ReadOnlyGuards

-----------------------------------------------------------------------------
\* A write that says ok.

LEMMA InitWritten == Init => WrittenStays
  BY DEF Init, WrittenStays

\* How a step of task p moves it: its call ends (well, at five places only), or
\* it goes on, to the last write of its text from three places only.
Ends(p) == \E outcome : /\ Return(p, outcome)
                        /\ outcome = "ok" =>
                             \/ StoreCall(p) \/ StorePut(p)
                             \/ Verify(p) \/ Ensure(p) \/ Confirm(p)
Goes(p) == \E point \in Points \ {"idle", "ensure"} : Goto(p, point)
Settles(p) ==
  /\ Goto(p, "ensure")
  /\ Verify(p) \/ (pc[p] \in {"swap", "rewrite"} /\ Creates(call[p].path, held[p]))

LEMMA RunMoves ==
  ASSUME TypeOK, NEW p \in Procs, Run(p)
  PROVE  Ends(p) \/ Goes(p) \/ Settles(p)
  <1> DEFINE Goal == Ends(p) \/ Goes(p) \/ Settles(p)
  <1>1. StoreCall(p) => Goal
    BY StoreEffect DEF Ends
  <1>1a. StoreRead(p) => Goal
    BY DEF StoreRead, Goes, Settles, Ends, Points
  <1>1b. StorePut(p) => Goal
    BY DEF StorePut, Ends
  <1>2. WriteStart(p) \/ EditStart(p) => Goal
    BY DEF Ends, Goes, Settles, WriteStart, EditStart, Enter, Points
  <1>3. Delete(p) \/ TrashStart(p) \/ MoveStart(p) => Goal
    BY DEF Ends, Goes, Settles, Delete, TrashStart, MoveStart, Points
  <1>4. /\ GiveUp(p) => Goal
        /\ \A outcome : Finish(p, outcome) /\ outcome # "ok" => Goal
    BY DEF Ends, Goes, Settles, GiveUp, FallBack, Finish, Points
  <1>5. \A point \in Points \ {"idle", "ensure"} : Step(p, point) => Goal
    BY DEF Ends, Goes, Settles, Step
  <1>6. EditSize(p) \/ EditCount(p) \/ EditView(p) => Goal
    BY <1>4, <1>5 DEF Ends, Goes, Settles, EditSize, EditCount, EditView, Points, Locked
  <1>7. Stage(p) \/ StageFails(p) => Goal
    BY <1>4, <1>5 DEF Ends, Goes, Settles, Stage, StageFails, Points, Locked
  <1>8. Swap(p) => Goal
    BY <1>4, <1>5 DEF Ends, Goes, Settles, Swap, Points, Locked, Settled, Step
  <1>9. Rewrite(p) => Goal
    BY <1>4, <1>5 DEF Ends, Goes, Settles, Rewrite, Points, Locked, Settled, Step
  <1>10. Verify(p) => Goal
    BY DEF Ends, Goes, Settles, Verify, Step, Finish
  <1>11. Ensure(p) => Goal
    BY DEF Ends, Goes, Settles, Ensure, Finish
  <1>12. Carry(p) \/ CopyView(p) \/ CopyPaste(p) => Goal
    BY <1>5 DEF Ends, Goes, Settles, Carry, CopyView, CopyPaste, Points
  <1>13. Confirm(p) => Goal
    BY DEF Ends, Goes, Settles, Confirm, Points
  <1> HIDE DEF Goal
  <1>14. Goal
    BY <1>1, <1>1a, <1>1b, <1>2, <1>3, <1>6, <1>7, <1>8, <1>9, <1>10, <1>11, <1>12, <1>13
    DEF Run
  <1>15. QED
    BY <1>14 DEF Goal

LEMMA ReachesEnsure ==
  ASSUME TypeOK, Next, NEW q \in Procs, pc'[q] = "ensure"
  PROVE  /\ call'[q] = call[q]
         /\ \/ pc[q] = "ensure"
            \/ Verify(q)
            \/ pc[q] \in {"swap", "rewrite"} /\ Creates(call[q].path, held[q])
  <1>1. ASSUME NEW p \in Procs, NEW outcome, Return(p, outcome)
        PROVE  pc[q] = "ensure" /\ call'[q] = call[q]
    BY <1>1 DEF Return, TypeOK
  <1>2. ASSUME NEW p \in Procs, NEW point, point # "ensure", Goto(p, point)
        PROVE  pc[q] = "ensure" /\ call'[q] = call[q]
    BY <1>2 DEF Goto, TypeOK
  <1>3. ASSUME NEW p \in Procs, p # q, Goto(p, "ensure")
        PROVE  pc[q] = "ensure" /\ call'[q] = call[q]
    BY <1>3 DEF Goto, TypeOK
  <1>4. Goto(q, "ensure") => call'[q] = call[q]
    BY DEF Goto
  <1>5. ASSUME NEW p \in Procs, Run(p)
        PROVE  /\ call'[q] = call[q]
               /\ \/ pc[q] = "ensure"
                  \/ Verify(q)
                  \/ pc[q] \in {"swap", "rewrite"} /\ Creates(call[q].path, held[q])
    <2>1. CASE Settles(p) /\ p = q
      BY <1>4, <2>1 DEF Settles
    <2>2. CASE Settles(p) /\ p # q
      BY <1>3, <2>2 DEF Settles
    <2>3. CASE Ends(p)
      BY <1>1, <2>3 DEF Ends
    <2>4. CASE Goes(p)
      BY <1>2, <2>4 DEF Goes
    <2>5. QED
      BY <1>5, <2>1, <2>2, <2>3, <2>4, RunMoves
  <1>6. ASSUME NEW p \in Procs, Cancel(p) \/ \E c \in Calls : Issue(p, c)
        PROVE  pc[q] = "ensure" /\ call'[q] = call[q]
    BY <1>6 DEF Cancel, Return, Issue, TypeOK
  <1>7. CASE Probe \/ Flip \/ Tick
    BY <1>7 DEF Probe, Flip, Tick
  <1>8. QED
    BY <1>5, <1>6, <1>7 DEF Next

\* Only the owner of a path's lock writes the path of a write that no trash or
\* move touches.
LEMMA NextWritten == Inv /\ WrittenStays /\ [Next]_vars => WrittenStays'
  <1>1. ASSUME Inv, WrittenStays, Next, NEW q \in Procs,
               pc'[q] = "ensure", call'[q].op = "write", call'[q].path \in Unmoved
        PROVE  disk'[call'[q].path] = call'[q].text
    <2>1. TypeOK /\ LocksMatchTasks /\ Checked
      BY <1>1 DEF Inv
    <2>2. call'[q] = call[q]
      BY <1>1, <2>1, ReachesEnsure
    <2> DEFINE k == call[q].path
    <2>3. pc[q] \in {"swap", "rewrite", "verify", "ensure", "unswapped"}
      BY <1>1, <2>1, ReachesEnsure DEF Verify
    <2>4. k \in Keys /\ LockedChecked(q) /\ pc[q] \in Locked /\ InLine(q)
      BY <2>1, <2>3, CallInCourse DEF Checked, Locked, InLine, AtLock
    <2>5. CASE pc[q] \in {"swap", "rewrite"} /\ Creates(k, held[q])
      BY <1>1, <2>1, <2>2, <2>4, <2>5 DEF Creates, LockedChecked, TypeOK
    <2>6. CASE pc[q] = "ensure"
      <3>1. disk[k] = call[q].text
        BY <1>1, <2>2, <2>6 DEF WrittenStays
      <3>2. ASSUME disk'[k] # disk[k] PROVE FALSE
        <4>1. PICK p \in Procs : Puts(p, k, disk'[k]) /\ pc'[p] # pc[p]
          BY <1>1, <2>1, <2>4, <3>2, DiskWrites
        <4>2. CASE pc[p] \in {"swap", "rewrite", "ensure", "unswapped"} /\ k = call[p].path
          <5>1. p = q
            BY <2>1, <2>4, <4>2, OwnerAtHead DEF Locked
          <5>2. QED
            BY <1>1, <2>6, <4>1, <5>1
        <4>3. CASE pc[p] \in {"carry", "paste"} /\ k \in {call[p].path, aim[p]}
          <5>1. call[p] \in Calls /\ CarriedChecked(p) /\ k \in Unmoved
            BY <1>1, <2>1, <2>2, <4>3, CallInCourse DEF Checked
          <5>2. \/ call[p].op = "move" /\ aim[p] = call[p].dst
                \/ call[p].op = "trash" /\ \E ts \in Clock : aim[p] = TrashKey(ts, call[p].path)
            BY <4>3, <5>1 DEF CarriedChecked
          <5>3. QED
            BY <4>3, <5>1, <5>2 DEF Unmoved
        <4>4. QED
          BY <4>1, <4>2, <4>3 DEF Puts
      <3>3. QED
        BY <2>2, <3>1, <3>2
    <2>7. CASE Verify(q)
      BY <1>1, <2>2, <2>4, <2>7 DEF Verify, LockedChecked
    <2>8. QED
      BY <1>1, <2>1, <2>5, <2>6, <2>7, ReachesEnsure
  <1>2. CASE UNCHANGED vars
    BY <1>2 DEF WrittenStays, vars
  <1>3. QED
    BY <1>1, <1>2 DEF WrittenStays

\* A write that reports ok has left its text in the sandbox or in the store,
\* whichever of its steps failed or lost their answers, however it interleaves,
\* unless its mv failed and did not raise.
THEOREM AckedWritesStay == Spec => AckedWriteKept
  <1> DEFINE Safe == \A p \in Procs : Acknowledges(p) /\ pc[p] # "unswapped" => Left(p)
  <1>1. Inv /\ WrittenStays /\ [Next]_vars => [Safe]_vars
    <2> SUFFICES ASSUME Inv, WrittenStays, Next, NEW p \in Procs, pc[p] # "unswapped",
                        call[p] # NoCall, call[p].op = "write", call[p].path \in Unmoved,
                        result'[p] = "ok", call'[p] = NoCall
                 PROVE  call[p].text \in {disk'[call[p].path], files'[call[p].path]}
      BY DEF Acknowledges, Left
    <2>1. TypeOK /\ Checked /\ LockedChecked(p) /\ CarriedChecked(p)
      BY DEF Inv, Checked
    <2>2. call[p] \in Calls /\ call[p].path \in Keys
      BY <2>1, CallShape DEF TypeOK
    <2>3. CASE Ensure(p)
      <3>1. pc[p] = "ensure" /\ disk' \in {disk, [disk EXCEPT ![call[p].path] = held[p]]}
        BY <2>1, <2>3, CreateEffect DEF Ensure
      <3>2. disk[call[p].path] = call[p].text /\ held[p] = call[p].text
        BY <2>1, <3>1 DEF WrittenStays, LockedChecked
      <3>3. QED
        BY <2>1, <2>2, <3>1, <3>2 DEF TypeOK
    <2>4. CASE StoreCall(p)
      <3>1. Store!Apply(p) \/ Store!Refuse(p)
        BY <2>4 DEF StoreCall
      <3>2. CASE Store!Apply(p)
        BY <2>1, <2>2, <3>2 DEF Store!Apply, Store!After, TypeOK
      <3>3. CASE Store!Refuse(p)
        BY <2>1, <3>3 DEF Store!Refuse, Store!End, Refusals, TypeOK
      <3>4. QED
        BY <3>1, <3>2, <3>3
    <2>5. pc[p] # "idle"
      BY <2>1 DEF TypeOK
    <2>6. ASSUME NEW q \in Procs, Run(q)
          PROVE  StoreCall(p) \/ Ensure(p)
      <3>0. ~Goes(q) /\ ~Settles(q)
        BY DEF Goes, Settles, Goto
      <3>1. PICK outcome : /\ Return(q, outcome)
                           /\ outcome = "ok" =>
                                \/ StoreCall(q) \/ StorePut(q)
                                \/ Verify(q) \/ Ensure(q) \/ Confirm(q)
        BY <2>1, <2>6, <3>0, RunMoves DEF Ends
      <3>2. q = p /\ outcome = "ok"
        BY <2>1, <3>1 DEF Return, TypeOK
      <3>3. ~Verify(p) /\ ~Confirm(p) /\ ~StorePut(p)
        BY <2>1 DEF Verify, Confirm, StorePut, LockedChecked, CarriedChecked, InLine, AtLock,
           Locked
      <3>4. QED
        BY <3>1, <3>2, <3>3
    <2>7. ASSUME NEW q \in Procs, Cancel(q) \/ \E c \in Calls : Issue(q, c)
          PROVE  FALSE
      BY <2>1, <2>5, <2>7, CallShape DEF Cancel, Return, Issue, TypeOK
    <2>8. ~(Probe \/ Flip \/ Tick)
      BY DEF Probe, Flip, Tick
    <2>9. QED
      BY <2>3, <2>4, <2>6, <2>7, <2>8 DEF Next, Run
  <1>2. QED
    BY <1>1, SandboxInductive, InitWritten, NextWritten, PTL DEF Spec, AckedWriteKept
=============================================================================
