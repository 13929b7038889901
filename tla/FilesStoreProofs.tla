-------------------------- MODULE FilesStoreProofs --------------------------
(***************************************************************************)
(* Theorems about FilesStore, for every number of tasks, every set of      *)
(* paths and texts, every policy and every workload.                       *)
(***************************************************************************)
EXTENDS FilesStore, DataLemmas

\* The calls are records of their operation's shape.
LEMMA CallShape ==
  ASSUME NEW c \in Calls
  PROVE  /\ c.op \in {"write", "edit", "delete", "trash", "move"}
         /\ c.op = "write" => c \in WriteCalls
         /\ c.op = "edit" => c \in EditCalls
         /\ c.op = "delete" => c \in DeleteCalls
         /\ c.op = "trash" => c \in TrashCalls
         /\ c.op = "move" => c \in MoveCalls
         /\ c.path \in Keys
         /\ c # NoCall
  BY DataAssumption DEF AllCalls, WriteCalls, EditCalls, DeleteCalls, TrashCalls,
     MoveCalls, Keys

\* An edit of a text that contains old_string yields a text.
LEMMA ReplaceType ==
  ASSUME NEW text \in Contents, NEW c \in EditCalls, text[c.old] # 0
  PROVE  Replace(text, c) \in Contents
  <1>1. Replaced(text, c) \in 1 .. text[c.old]
    BY DEF Replaced, Contents, EditCalls
  <1>2. c.old \in Tokens /\ c.new \in Tokens
    BY DEF EditCalls
  <1>3. CASE c.old = c.new
    BY <1>3 DEF Replace
  <1>4. CASE c.old # c.new
    <2>1. text[c.old] - Replaced(text, c) \in Nat /\ text[c.new] + Replaced(text, c) \in Nat
      BY <1>1, <1>2 DEF Contents
    <2>2. QED
      BY <1>2, <1>4, <2>1 DEF Replace, Contents
  <1>5. QED
    BY <1>3, <1>4

-----------------------------------------------------------------------------
\* Type correctness.

LEMMA ReturnType ==
  ASSUME TypeOK, NEW p \in Procs, NEW outcome \in Outcomes, Return(p, outcome)
  PROVE  /\ pc' \in [Procs -> {"idle", "called", "locking"}]
         /\ call' \in [Procs -> Calls \cup {NoCall}]
         /\ \A q \in Procs : call'[q] = NoCall <=> pc'[q] = "idle"
         /\ seen' \in [Procs -> Contents \cup {NoFile}]
         /\ result' \in [Procs -> Outcomes]
         /\ clock' \in Clock
  BY DEF TypeOK, Return

\* A task that goes for a lock is in the course of a call.
LEMMA EnqueueType ==
  ASSUME TypeOK, NEW p \in Procs, pc[p] = "called", Enqueue(p)
  PROVE  /\ queue' \in [Keys -> Seq(Procs)]
         /\ pc' \in [Procs -> {"idle", "called", "locking"}]
         /\ call' \in [Procs -> Calls \cup {NoCall}]
         /\ \A q \in Procs : call'[q] = NoCall <=> pc'[q] = "idle"
         /\ result' \in [Procs -> Outcomes]
         /\ clock' \in Clock
  <1>1. call[p] \in Calls /\ call[p].path \in Keys
    BY CallShape DEF TypeOK
  <1>2. Append(queue[call[p].path], p) \in Seq(Procs)
    BY <1>1, AppendProperties DEF TypeOK
  <1>3. QED
    BY <1>1, <1>2 DEF TypeOK, Enqueue

\* The owner of a lock is in its queue, so the queue is not empty.
LEMMA ReleaseType ==
  ASSUME TypeOK, LocksMatchTasks, NEW p \in Procs, Holds(p), Release(p)
  PROVE  queue' \in [Keys -> Seq(Procs)]
  <1>1. call[p] \in Calls /\ call[p].path \in Keys
    BY CallShape DEF TypeOK, Holds
  <1>2. queue[call[p].path] \in Seq(Procs) /\ queue[call[p].path] # <<>>
    BY <1>1 DEF TypeOK, LocksMatchTasks, Holds
  <1>3. Tail(queue[call[p].path]) \in Seq(Procs)
    BY <1>2, HeadTailProperties
  <1>4. QED
    BY <1>1, <1>3 DEF TypeOK, Release

LEMMA InitType == Init => TypeOK
  <1> SUFFICES ASSUME Init PROVE TypeOK
    OBVIOUS
  <1>1. PICK seed \in Seeds : files = Seeded(seed)
    BY DEF Init, Initials
  <1>2. files \in [Keys -> Contents \cup {NoFile}]
    BY <1>1, DataAssumption DEF Seeded, Keys, FittingTexts
  <1>3. queue \in [Keys -> Seq(Procs)]
    BY EmptySeq DEF Init
  <1>4. QED
    BY <1>2, <1>3, DataAssumption DEF Init, TypeOK, Outcomes, Clock

LEMMA NextType == TypeOK /\ LocksMatchTasks /\ [Next]_vars => TypeOK'
  <1> SUFFICES ASSUME TypeOK, LocksMatchTasks, [Next]_vars PROVE TypeOK'
    OBVIOUS
  <1>1. ASSUME NEW p \in Procs, WriteStart(p) PROVE TypeOK'
    <2>1. CASE pc[p] = "called" /\ Enqueue(p) /\ UNCHANGED <<files, seen>>
      BY <2>1, EnqueueType DEF TypeOK
    <2>2. ASSUME NEW outcome \in Outcomes, Return(p, outcome), UNCHANGED <<files, queue>>
          PROVE TypeOK'
      BY <2>2, ReturnType DEF TypeOK
    <2>3. QED
      BY <1>1, <2>1, <2>2 DEF WriteStart, Runs, Outcomes, Refusals
  <1>2. ASSUME NEW p \in Procs, WriteFinish(p) PROVE TypeOK'
    <2>1. call[p] \in WriteCalls
      BY <1>2, CallShape DEF TypeOK, WriteFinish, Holds
    <2>2. files' \in [Keys -> Contents \cup {NoFile}]
      BY <1>2, <2>1 DEF TypeOK, WriteFinish, WriteCalls
    <2>3. QED
      BY <1>2, <2>2, ReturnType, ReleaseType DEF TypeOK, WriteFinish, Outcomes
  <1>3. ASSUME NEW p \in Procs, EditStart(p) PROVE TypeOK'
    BY <1>3, EnqueueType DEF TypeOK, EditStart, Runs
  <1>4. ASSUME NEW p \in Procs, EditFinish(p) PROVE TypeOK'
    <2> DEFINE c == call[p]
               text == files[c.path]
               failure == EditFailure(c, text)
    <2>1. c \in EditCalls /\ c.path \in Keys
      BY <1>4, CallShape DEF TypeOK, EditFinish, Holds
    <2>2. failure \in Outcomes
      BY DEF EditFailure, Outcomes, Refusals
    <2>3. CASE UNCHANGED files
      BY <1>4, <2>2, <2>3, ReturnType, ReleaseType DEF TypeOK, EditFinish, Outcomes
    <2>4. CASE /\ failure = "none" /\ Return(p, "ok")
               /\ files' = [files EXCEPT ![c.path] = Replace(text, c)]
      <3>1. text \in Contents /\ text[c.old] # 0
        BY <2>1, <2>4 DEF EditFailure, TypeOK
      <3>2. files' \in [Keys -> Contents \cup {NoFile}]
        BY <2>1, <2>4, <3>1, ReplaceType DEF TypeOK
      <3>3. Release(p) /\ Holds(p)
        BY <1>4 DEF EditFinish
      <3>4. QED
        BY <2>4, <3>2, <3>3, ReturnType, ReleaseType DEF TypeOK, Outcomes
    <2>5. QED
      BY <1>4, <2>3, <2>4 DEF EditFinish
  <1>5. ASSUME NEW p \in Procs, Delete(p) PROVE TypeOK'
    <2>1. files' \in [Keys -> Contents \cup {NoFile}]
      BY <1>5 DEF TypeOK, Delete
    <2>2. QED
      BY <1>5, <2>1, ReturnType DEF TypeOK, Delete, Outcomes, Refusals
  <1>6. ASSUME NEW p \in Procs, Trash(p) PROVE TypeOK'
    <2>1. call[p] \in Calls /\ call[p].path \in Keys
      BY <1>6, CallShape DEF TypeOK, Trash, Runs
    <2>2. files' \in [Keys -> Contents \cup {NoFile}]
      BY <1>6, <2>1, ZenonT(60) DEF TypeOK, Trash
    <2>3. QED
      BY <1>6, <2>2, ReturnType DEF TypeOK, Trash, Outcomes, Refusals
  <1>7. ASSUME NEW p \in Procs, MoveStart(p) PROVE TypeOK'
    <2>1. call[p] \in Calls /\ call[p].path \in Keys
      BY <1>7, CallShape DEF TypeOK, MoveStart, Runs
    <2>2. CASE pc[p] = "called" /\ Enqueue(p) /\ UNCHANGED files
               /\ seen' = [seen EXCEPT ![p] = files[call[p].path]]
      <3>1. seen' \in [Procs -> Contents \cup {NoFile}]
        BY <2>1, <2>2 DEF TypeOK
      <3>2. QED
        BY <2>2, <3>1, EnqueueType DEF TypeOK
    <2>3. ASSUME NEW outcome \in Outcomes, Return(p, outcome), UNCHANGED <<files, queue>>
          PROVE TypeOK'
      BY <2>3, ReturnType DEF TypeOK
    <2>4. QED
      BY <1>7, <2>2, <2>3 DEF MoveStart, Runs, Outcomes, Refusals
  <1>8. ASSUME NEW p \in Procs, MoveFinish(p) PROVE TypeOK'
    <2>1. files' \in [Keys -> Contents \cup {NoFile}]
      BY <1>8 DEF TypeOK, MoveFinish
    <2>2. QED
      BY <1>8, <2>1, ReturnType, ReleaseType DEF TypeOK, MoveFinish, Outcomes
  <1>9. ASSUME NEW p \in Procs, Cancel(p) PROVE TypeOK'
    <2>1. CASE UNCHANGED queue
      BY <1>9, <2>1, ReturnType DEF TypeOK, Cancel, Outcomes, Refusals
    <2>2. CASE pc[p] = "locking"
      <3>1. call[p] \in Calls /\ call[p].path \in Keys
        BY <2>2, CallShape DEF TypeOK
      <3>2. PICK i \in 1 .. Len(queue[call[p].path]) :
              queue' = [queue EXCEPT ![call[p].path] = RemoveAt(@, i)]
        BY <1>9, <2>2 DEF Cancel
      <3>3. RemoveAt(queue[call[p].path], i) \in Seq(Procs)
        BY <3>1, RemoveAtProperties DEF TypeOK
      <3>4. queue' \in [Keys -> Seq(Procs)]
        BY <3>1, <3>2, <3>3 DEF TypeOK
      <3>5. QED
        BY <1>9, <3>4, ReturnType DEF TypeOK, Cancel, Outcomes, Refusals
    <2>3. QED
      BY <1>9, <2>1, <2>2 DEF Cancel
  <1>10. ASSUME NEW p \in Procs, NEW c \in Calls, Issue(p, c) PROVE TypeOK'
    BY <1>10, CallShape DEF TypeOK, Issue, Outcomes
  <1>11. CASE Tick
    BY <1>11, DataAssumption DEF TypeOK, Tick, Clock
  <1>12. CASE UNCHANGED vars
    BY <1>12 DEF TypeOK, vars
  <1>13. QED
    BY <1>1, <1>2, <1>3, <1>4, <1>5, <1>6, <1>7, <1>8, <1>9, <1>10, <1>11, <1>12
    DEF Next, Run

-----------------------------------------------------------------------------
\* The locks: what the three ways of touching a queue preserve.

LEMMA LocksAfterEnqueue ==
  ASSUME TypeOK, LocksMatchTasks, NEW p \in Procs, pc[p] = "called", Enqueue(p)
  PROVE  LocksMatchTasks'
  <1> DEFINE k0 == call[p].path
             n == Len(queue[k0])
  <1>1. k0 \in Keys /\ queue[k0] \in Seq(Procs) /\ n \in Nat
    BY CallShape, LenProperties DEF TypeOK
  <1>2. /\ queue' = [queue EXCEPT ![k0] = Append(queue[k0], p)]
        /\ pc' = [pc EXCEPT ![p] = "locking"] /\ call' = call
    BY DEF Enqueue
  <1>3. /\ Len(queue'[k0]) = n + 1 /\ queue'[k0][n + 1] = p
        /\ \A i \in 1 .. n : queue'[k0][i] = queue[k0][i]
    BY <1>1, <1>2, AppendProperties DEF TypeOK
  <1>4. \A k \in Keys \ {k0} : queue'[k] = queue[k]
    BY <1>2 DEF TypeOK
  <1>5. \A k \in Keys : \A i \in 1 .. Len(queue[k]) : queue[k][i] # p /\ queue[k][i] \in Procs
    BY ElementOfSeq DEF TypeOK, LocksMatchTasks
  <1> HIDE DEF k0, n
  <1>6. ASSUME NEW k \in Keys, NEW i \in 1 .. Len(queue'[k])
        PROVE  /\ pc'[queue'[k][i]] = "locking"
               /\ call'[queue'[k][i]].path = k
               /\ \A j \in 1 .. Len(queue'[k]) : queue'[k][i] = queue'[k][j] => i = j
    <2>1. CASE k # k0
      BY <1>2, <1>4, <1>5, <2>1 DEF TypeOK, LocksMatchTasks
    <2>2. CASE k = k0 /\ i = n + 1
      <3>1. pc'[p] = "locking" /\ call'[p].path = k0
        BY <1>2 DEF TypeOK, k0
      <3>2. \A j \in 1 .. n : queue'[k0][j] # p
        BY <1>1, <1>3, <1>5 DEF n
      <3>3. QED
        BY <1>1, <1>3, <2>2, <3>1, <3>2, SMTT(30)
    <2>3. CASE k = k0 /\ i \in 1 .. n
      <3>1. queue'[k0][i] = queue[k0][i] /\ queue[k0][i] # p /\ queue[k0][i] \in Procs
        BY <1>1, <1>3, <1>5, <2>3 DEF n
      <3>2. /\ pc[queue[k0][i]] = "locking" /\ call[queue[k0][i]].path = k0
            /\ \A j \in 1 .. n : queue[k0][i] = queue[k0][j] => i = j
        BY <1>1, <2>3 DEF LocksMatchTasks, n
      <3>3. pc'[queue[k0][i]] = "locking"
        BY <1>2, <3>1, <3>2 DEF TypeOK
      <3>4. QED
        BY <1>1, <1>2, <1>3, <2>3, <3>1, <3>2, <3>3, SMTT(30)
    <2>4. QED
      BY <1>1, <1>3, <2>1, <2>2, <2>3
  <1>7. ASSUME NEW q \in Procs, pc'[q] = "locking"
        PROVE  \E i \in 1 .. Len(queue'[call'[q].path]) : queue'[call'[q].path][i] = q
    <2>1. CASE q = p
      BY <1>1, <1>2, <1>3, <2>1 DEF k0
    <2>2. CASE q # p
      <3>1. pc[q] = "locking" /\ call[q] \in Calls /\ call[q].path \in Keys
        BY <1>2, <1>7, <2>2, CallShape DEF TypeOK
      <3>2. PICK i \in 1 .. Len(queue[call[q].path]) : queue[call[q].path][i] = q
        BY <3>1 DEF LocksMatchTasks
      <3>3. QED
        BY <1>1, <1>2, <1>3, <1>4, <3>1, <3>2, SMTT(30) DEF n
    <2>3. QED
      BY <2>1, <2>2
  <1>8. QED
    BY <1>6, <1>7 DEF LocksMatchTasks

\* A task that leaves the queue it is in, as its owner or as a waiter, ends its
\* call: the others keep their places in the order.
LEMMA LocksAfterLeaving ==
  ASSUME TypeOK, LocksMatchTasks, NEW p \in Procs, pc[p] = "locking",
         NEW n \in 1 .. Len(queue[call[p].path]), queue[call[p].path][n] = p,
         NEW rest, Len(rest) = Len(queue[call[p].path]) - 1,
         \A i \in 1 .. Len(rest) :
           rest[i] = IF i < n THEN queue[call[p].path][i] ELSE queue[call[p].path][i + 1],
         queue' = [queue EXCEPT ![call[p].path] = rest],
         NEW outcome, Return(p, outcome)
  PROVE  LocksMatchTasks'
  <1> DEFINE k0 == call[p].path
             m == Len(queue[k0])
             old(i) == IF i < n THEN i ELSE i + 1
  <1>1. k0 \in Keys /\ m \in Nat /\ n \in 1 .. m
    BY CallShape, LenProperties DEF TypeOK
  <1>2. /\ queue'[k0] = rest
        /\ pc' = [pc EXCEPT ![p] = "idle"] /\ call' = [call EXCEPT ![p] = NoCall]
    BY <1>1 DEF TypeOK, Return
  <1>3. /\ Len(queue'[k0]) = m - 1
        /\ \A i \in 1 .. m - 1 : queue'[k0][i] = queue[k0][old(i)]
    BY <1>2
  <1>4. \A k \in Keys \ {k0} : queue'[k] = queue[k]
    BY DEF TypeOK
  <1>5. \A k \in Keys : \A i \in 1 .. Len(queue[k]) :
          /\ queue[k][i] \in Procs
          /\ queue[k][i] = p => k = k0 /\ i = n
    BY ElementOfSeq DEF TypeOK, LocksMatchTasks
  <1>6. \A i \in 1 .. m - 1 : old(i) \in 1 .. m /\ old(i) # n
    BY <1>1, SMTT(30)
  <1>7. \A i, j \in 1 .. m - 1 : old(i) = old(j) => i = j
    BY <1>1
  <1>8. \A i \in 1 .. m : i # n => \E j \in 1 .. m - 1 : old(j) = i
    <2> SUFFICES ASSUME NEW i \in 1 .. m, i # n PROVE \E j \in 1 .. m - 1 : old(j) = i
      OBVIOUS
    <2>1. CASE i < n
      BY <1>1, <2>1
    <2>2. CASE i > n
      <3>1. i - 1 \in 1 .. m - 1 /\ old(i - 1) = i
        BY <1>1, <2>2
      <3>2. QED
        BY <3>1
    <2>3. QED
      BY <1>1, <2>1, <2>2
  <1> HIDE DEF k0, m, old
  <1>9. ASSUME NEW k \in Keys, NEW i \in 1 .. Len(queue'[k])
        PROVE  /\ pc'[queue'[k][i]] = "locking"
               /\ call'[queue'[k][i]].path = k
               /\ \A j \in 1 .. Len(queue'[k]) : queue'[k][i] = queue'[k][j] => i = j
    <2>1. CASE k # k0
      <3>1. queue'[k] = queue[k] /\ queue[k][i] \in Procs \ {p}
        BY <1>4, <1>5, <2>1
      <3>2. QED
        BY <1>2, <3>1 DEF TypeOK, LocksMatchTasks
    <2>2. CASE k = k0
      <3>1. /\ queue'[k][i] = queue[k0][old(i)] /\ old(i) \in 1 .. m
            /\ queue[k0][old(i)] \in Procs \ {p}
        BY <1>1, <1>3, <1>5, <1>6, <2>2 DEF m
      <3>2. pc[queue[k0][old(i)]] = "locking" /\ call[queue[k0][old(i)]].path = k0
        BY <1>1, <3>1, SMTT(30) DEF LocksMatchTasks, m
      <3>3. ASSUME NEW j \in 1 .. Len(queue'[k]), queue'[k][i] = queue'[k][j]
            PROVE i = j
        <4>1. queue'[k][j] = queue[k0][old(j)] /\ old(j) \in 1 .. m
          BY <1>1, <1>3, <1>6, <2>2
        <4>2. \A u, v \in 1 .. m : queue[k0][u] = queue[k0][v] => u = v
          BY <1>1 DEF LocksMatchTasks, m
        <4>3. old(i) = old(j)
          BY <3>1, <3>3, <4>1, <4>2
        <4>4. i \in 1 .. m - 1 /\ j \in 1 .. m - 1
          <5>1. Len(queue'[k]) = m - 1
            BY <1>3, <2>2
          <5>2. QED
            BY <5>1
        <4>5. QED
          BY <1>7, <4>3, <4>4, Zenon
      <3>4. QED
        BY <1>2, <2>2, <3>1, <3>2, <3>3 DEF TypeOK
    <2>3. QED
      BY <2>1, <2>2
  <1>10. ASSUME NEW q \in Procs, pc'[q] = "locking"
         PROVE  \E i \in 1 .. Len(queue'[call'[q].path]) : queue'[call'[q].path][i] = q
    <2>1. /\ q # p /\ call'[q] = call[q] /\ pc[q] = "locking"
          /\ call[q] \in Calls /\ call[q].path \in Keys
      BY <1>2, <1>10, CallShape DEF TypeOK
    <2>2. PICK i \in 1 .. Len(queue[call[q].path]) : queue[call[q].path][i] = q
      BY <2>1 DEF LocksMatchTasks
    <2>3. CASE call[q].path # k0
      BY <1>4, <2>1, <2>2, <2>3
    <2>4. CASE call[q].path = k0
      <3>1. i \in 1 .. m /\ i # n
        BY <2>1, <2>2, <2>4 DEF m, k0
      <3>2. PICK j \in 1 .. m - 1 : old(j) = i
        BY <1>8, <3>1
      <3>3. QED
        BY <1>3, <2>1, <2>2, <2>4, <3>2
    <2>5. QED
      BY <2>3, <2>4
  <1>11. QED
    BY <1>9, <1>10 DEF LocksMatchTasks

LEMMA LocksAfterRelease ==
  ASSUME TypeOK, LocksMatchTasks, NEW p \in Procs, Holds(p), Release(p),
         NEW outcome, Return(p, outcome)
  PROVE  LocksMatchTasks'
  <1> DEFINE waiting == queue[call[p].path]
  <1>1. pc[p] = "locking" /\ waiting \in Seq(Procs) /\ waiting # <<>>
    BY CallShape DEF TypeOK, Holds, LocksMatchTasks
  <1>2. 1 \in 1 .. Len(waiting) /\ waiting[1] = p /\ Len(waiting) \in Nat
    BY <1>1, EmptySeq, LenProperties, HeadTailProperties DEF Holds
  <1>3. /\ Len(Tail(waiting)) = Len(waiting) - 1
        /\ \A i \in 1 .. Len(Tail(waiting)) :
             Tail(waiting)[i] = IF i < 1 THEN waiting[i] ELSE waiting[i + 1]
    BY <1>1, <1>2, HeadTailProperties
  <1> DEFINE rest == Tail(waiting)
             n == 1
  <1>4. pc[p] = "locking" /\ queue' = [queue EXCEPT ![call[p].path] = rest]
    BY <1>1 DEF Release
  <1>5. /\ n \in 1 .. Len(queue[call[p].path])
        /\ queue[call[p].path][n] = p
        /\ Len(rest) = Len(queue[call[p].path]) - 1
        /\ \A i \in 1 .. Len(rest) :
             rest[i] = IF i < n THEN queue[call[p].path][i]
                                ELSE queue[call[p].path][i + 1]
    BY <1>2, <1>3
  <1> HIDE DEF rest, n, waiting
  <1>6. QED
    BY <1>4, <1>5, LocksAfterLeaving, ZenonT(60)

\* A call that ends without ever reaching a lock touches no queue.
LEMMA LocksAfterReturn ==
  ASSUME TypeOK, LocksMatchTasks, NEW p \in Procs, pc[p] = "called",
         UNCHANGED queue, NEW outcome, Return(p, outcome)
  PROVE  LocksMatchTasks'
  <1>1. \A k \in Keys : \A i \in 1 .. Len(queue[k]) : queue[k][i] \in Procs \ {p}
    BY ElementOfSeq DEF TypeOK, LocksMatchTasks
  <1>2. pc' = [pc EXCEPT ![p] = "idle"] /\ call' = [call EXCEPT ![p] = NoCall]
    BY DEF Return
  <1>3. QED
    BY <1>1, <1>2, SMTT(30) DEF TypeOK, LocksMatchTasks

LEMMA InitLocks == Init => LocksMatchTasks
  BY EmptySeq DEF Init, LocksMatchTasks

LEMMA NextLocks == TypeOK /\ LocksMatchTasks /\ [Next]_vars => LocksMatchTasks'
  <1> SUFFICES ASSUME TypeOK, LocksMatchTasks, [Next]_vars PROVE LocksMatchTasks'
    OBVIOUS
  <1>1. ASSUME NEW p \in Procs, WriteStart(p) PROVE LocksMatchTasks'
    BY <1>1, LocksAfterEnqueue, LocksAfterReturn DEF WriteStart, Runs
  <1>2. ASSUME NEW p \in Procs, WriteFinish(p) PROVE LocksMatchTasks'
    BY <1>2, LocksAfterRelease DEF WriteFinish
  <1>3. ASSUME NEW p \in Procs, EditStart(p) PROVE LocksMatchTasks'
    BY <1>3, LocksAfterEnqueue DEF EditStart, Runs
  <1>4. ASSUME NEW p \in Procs, EditFinish(p) PROVE LocksMatchTasks'
    <2>1. Holds(p) /\ Release(p) /\ \E outcome : Return(p, outcome)
      BY <1>4 DEF EditFinish
    <2>2. QED
      BY <2>1, LocksAfterRelease
  <1>5. ASSUME NEW p \in Procs, Delete(p) PROVE LocksMatchTasks'
    BY <1>5, LocksAfterReturn DEF Delete, Runs
  <1>6. ASSUME NEW p \in Procs, Trash(p) PROVE LocksMatchTasks'
    BY <1>6, LocksAfterReturn DEF Trash, Runs
  <1>7. ASSUME NEW p \in Procs, MoveStart(p) PROVE LocksMatchTasks'
    BY <1>7, LocksAfterEnqueue, LocksAfterReturn DEF MoveStart, Runs
  <1>8. ASSUME NEW p \in Procs, MoveFinish(p) PROVE LocksMatchTasks'
    BY <1>8, LocksAfterRelease DEF MoveFinish
  <1>9. ASSUME NEW p \in Procs, Cancel(p) PROVE LocksMatchTasks'
    <2>1. CASE pc[p] = "called" /\ UNCHANGED queue
      BY <1>9, <2>1, LocksAfterReturn DEF Cancel
    <2>2. CASE pc[p] = "locking"
      <3> DEFINE waiting == queue[call[p].path]
      <3>1. waiting \in Seq(Procs)
        BY <2>2, CallShape DEF TypeOK
      <3>2. PICK n \in 1 .. Len(waiting) :
              /\ waiting[n] = p
              /\ queue' = [queue EXCEPT ![call[p].path] = RemoveAt(waiting, n)]
        BY <1>9, <2>2 DEF Cancel
      <3> DEFINE rest == RemoveAt(waiting, n)
      <3>3. /\ Len(rest) = Len(waiting) - 1
            /\ \A i \in 1 .. Len(rest) :
                 rest[i] = IF i < n THEN waiting[i] ELSE waiting[i + 1]
        BY <3>1, RemoveAtProperties
      <3>4. Return(p, "Cancelled")
        BY <1>9 DEF Cancel
      <3>5. queue' = [queue EXCEPT ![call[p].path] = rest]
        BY <3>2
      <3> HIDE DEF rest
      <3>6. /\ n \in 1 .. Len(queue[call[p].path])
            /\ queue[call[p].path][n] = p
            /\ Len(rest) = Len(queue[call[p].path]) - 1
            /\ \A i \in 1 .. Len(rest) :
                 rest[i] = IF i < n THEN queue[call[p].path][i]
                                    ELSE queue[call[p].path][i + 1]
        BY <3>2, <3>3
      <3>7. QED
        BY <2>2, <3>4, <3>5, <3>6, LocksAfterLeaving, ZenonT(60)
    <2>3. QED
      BY <1>9, <2>1, <2>2 DEF Cancel
  <1>10. ASSUME NEW p \in Procs, NEW c \in Calls, Issue(p, c) PROVE LocksMatchTasks'
    <2>1. \A k \in Keys : \A i \in 1 .. Len(queue[k]) : queue[k][i] \in Procs \ {p}
      BY <1>10, ElementOfSeq DEF TypeOK, LocksMatchTasks, Issue
    <2>2. /\ pc' = [pc EXCEPT ![p] = "called"] /\ call' = [call EXCEPT ![p] = c]
          /\ UNCHANGED queue
      BY <1>10 DEF Issue
    <2>3. QED
      BY <2>1, <2>2, SMTT(30) DEF TypeOK, LocksMatchTasks
  <1>11. CASE Tick
    BY <1>11 DEF LocksMatchTasks, Tick
  <1>12. CASE UNCHANGED vars
    BY <1>12 DEF LocksMatchTasks, vars
  <1>13. QED
    BY <1>1, <1>2, <1>3, <1>4, <1>5, <1>6, <1>7, <1>8, <1>9, <1>10, <1>11, <1>12
    DEF Next, Run

\* Types and locks hold together: a queue keeps its type because its owner is
\* in it, and tasks keep their places because queues hold tasks.
THEOREM Locking == Spec => [](TypeOK /\ LocksMatchTasks)
  <1>1. Init => TypeOK /\ LocksMatchTasks
    BY InitType, InitLocks
  <1>2. TypeOK /\ LocksMatchTasks /\ [Next]_vars => (TypeOK /\ LocksMatchTasks)'
    BY NextType, NextLocks
  <1>3. QED
    BY <1>1, <1>2, PTL DEF Spec

\* Every variable keeps its type in every reachable state.
THEOREM TypeCorrect == Spec => []TypeOK
  BY Locking, PTL

\* No lock is leaked and no waiter lost, whatever the workload and wherever
\* calls fail or are cancelled.
THEOREM LocksNeverLeak == Spec => []LocksMatchTasks
  BY Locking, PTL

-----------------------------------------------------------------------------
\* The byte ceiling and the path policy.

\* What a call has checked before its lock is still so once it holds it.
Checked ==
  \A p \in Procs : pc[p] = "locking" =>
    /\ call[p].op = "write" => call[p].text \in FittingTexts /\ call[p].path \notin DeniedKeys
    /\ call[p].op = "move" => call[p].dst \notin DeniedKeys /\ seen[p] # NoFile

LEMMA NextChecked == TypeOK /\ Checked /\ [Next]_vars => Checked'
  <1> SUFFICES ASSUME TypeOK, Checked, [Next]_vars,
                      NEW q \in Procs, pc'[q] = "locking"
               PROVE  /\ call'[q].op = "write" =>
                           call'[q].text \in FittingTexts /\ call'[q].path \notin DeniedKeys
                      /\ call'[q].op = "move" => call'[q].dst \notin DeniedKeys /\ seen'[q] # NoFile
    BY DEF Checked
  <1>1. CASE pc[q] = "locking" /\ call'[q] = call[q] /\ seen'[q] = seen[q]
    BY <1>1 DEF Checked
  <1>2. ASSUME NEW p \in Procs, NEW outcome, Return(p, outcome)
        PROVE  pc[q] = "locking" /\ call'[q] = call[q] /\ seen'[q] = seen[q]
    BY <1>2 DEF TypeOK, Return
  <1>3. ASSUME NEW p \in Procs, WriteStart(p)
        PROVE  \/ pc[q] = "locking" /\ call'[q] = call[q] /\ seen'[q] = seen[q]
               \/ /\ call'[q].op = "write"
                  /\ call'[q].text \in FittingTexts /\ call'[q].path \notin DeniedKeys
    BY <1>2, <1>3 DEF WriteStart, Runs, Enqueue, TypeOK
  <1>4. ASSUME NEW p \in Procs, EditStart(p)
        PROVE  \/ pc[q] = "locking" /\ call'[q] = call[q] /\ seen'[q] = seen[q]
               \/ call'[q].op = "edit"
    BY <1>4 DEF EditStart, Runs, Enqueue, TypeOK
  <1>5. ASSUME NEW p \in Procs, MoveStart(p)
        PROVE  \/ pc[q] = "locking" /\ call'[q] = call[q] /\ seen'[q] = seen[q]
               \/ call'[q].op = "move" /\ call'[q].dst \notin DeniedKeys /\ seen'[q] # NoFile
    BY <1>2, <1>5 DEF MoveStart, Runs, Enqueue, TypeOK
  <1>6. ASSUME NEW p \in Procs, EditFinish(p)
        PROVE  \E outcome : Return(p, outcome)
    BY <1>6 DEF EditFinish
  <1>7. ASSUME NEW p \in Procs, WriteFinish(p) \/ MoveFinish(p) \/ Delete(p)
                                 \/ Trash(p) \/ Cancel(p)
        PROVE  \E outcome : Return(p, outcome)
    BY <1>7 DEF WriteFinish, MoveFinish, Delete, Trash, Cancel
  <1>8. ASSUME NEW p \in Procs, NEW c \in Calls, Issue(p, c)
        PROVE  pc[q] = "locking" /\ call'[q] = call[q] /\ seen'[q] = seen[q]
    BY <1>8 DEF Issue, TypeOK
  <1>9. CASE Tick \/ UNCHANGED vars
    BY <1>1, <1>9 DEF Tick, vars
  <1>10. CASE \E p \in Procs : \E outcome : Return(p, outcome)
    BY <1>1, <1>2, <1>10
  <1>11. CASE \E p \in Procs : WriteStart(p) \/ EditStart(p) \/ MoveStart(p)
    BY <1>1, <1>3, <1>4, <1>5, <1>11
  <1>12. CASE \E p \in Procs, c \in Calls : Issue(p, c)
    BY <1>1, <1>8, <1>12
  <1>13. QED
    BY <1>6, <1>7, <1>9, <1>10, <1>11, <1>12 DEF Next, Run

LEMMA InitCeiling == Init => Checked /\ ByteCeiling
  <1> SUFFICES ASSUME Init PROVE Checked /\ ByteCeiling
    OBVIOUS
  <1>1. PICK seed \in Seeds : files = Seeded(seed)
    BY DEF Init, Initials
  <1>2. QED
    BY <1>1, DataAssumption DEF Init, Checked, ByteCeiling, Seeded

LEMMA NextCeiling ==
  TypeOK /\ Checked /\ ByteCeiling /\ [Next]_vars => ByteCeiling'
  <1> SUFFICES ASSUME TypeOK, Checked, ByteCeiling, [Next]_vars PROVE ByteCeiling'
    OBVIOUS
  <1> DEFINE Fits(text) == text \in FittingTexts \cup {NoFile}
  <1>1. ASSUME NEW p \in Procs, NEW outcome, Return(p, outcome)
        PROVE  \A q \in Procs : Fits(seen'[q])
    BY <1>1 DEF TypeOK, ByteCeiling, Return
  <1>2. CASE UNCHANGED <<files, seen>>
    BY <1>2 DEF ByteCeiling
  <1>3. ASSUME NEW p \in Procs, NEW outcome, Return(p, outcome), UNCHANGED files
        PROVE  ByteCeiling'
    BY <1>1, <1>3 DEF ByteCeiling
  <1>4. ASSUME NEW p \in Procs, WriteStart(p) \/ EditStart(p) PROVE ByteCeiling'
    BY <1>2, <1>3, <1>4 DEF WriteStart, EditStart
  <1>5. ASSUME NEW p \in Procs, WriteFinish(p) PROVE ByteCeiling'
    <2>1. \A k \in Keys : Fits(files'[k])
      BY <1>5 DEF WriteFinish, Holds, Checked, ByteCeiling, TypeOK
    <2>2. QED
      BY <1>1, <1>5, <2>1 DEF ByteCeiling, WriteFinish
  <1>6. ASSUME NEW p \in Procs, EditFinish(p) PROVE ByteCeiling'
    <2> DEFINE c == call[p]
               text == files[c.path]
    <2>1. CASE UNCHANGED files
      BY <1>3, <1>6, <2>1 DEF EditFinish
    <2>2. CASE /\ EditFailure(c, text) = "none" /\ Return(p, "ok")
               /\ files' = [files EXCEPT ![c.path] = Replace(text, c)]
      <3>1. Replace(text, c) \in FittingTexts
        BY <2>2 DEF EditFailure
      <3>2. \A k \in Keys : Fits(files'[k])
        BY <2>2, <3>1 DEF ByteCeiling, TypeOK
      <3>3. QED
        BY <1>1, <2>2, <3>2 DEF ByteCeiling
    <2>3. QED
      BY <1>6, <2>1, <2>2 DEF EditFinish
  <1>7. ASSUME NEW p \in Procs, Delete(p) PROVE ByteCeiling'
    <2>1. \A k \in Keys : Fits(files'[k])
      BY <1>7 DEF Delete, ByteCeiling, TypeOK
    <2>2. QED
      BY <1>1, <1>7, <2>1 DEF ByteCeiling, Delete
  <1>8. ASSUME NEW p \in Procs, Trash(p) PROVE ByteCeiling'
    <2>1. call[p].path \in Keys
      BY <1>8, CallShape DEF Trash, Runs, TypeOK
    <2>2. \A k \in Keys : Fits(files'[k])
      BY <1>8, <2>1 DEF Trash, ByteCeiling, TypeOK
    <2>3. QED
      BY <1>1, <1>8, <2>2 DEF ByteCeiling, Trash
  <1>9. ASSUME NEW p \in Procs, MoveStart(p) PROVE ByteCeiling'
    <2>1. call[p].path \in Keys
      BY <1>9, CallShape DEF MoveStart, Runs, TypeOK
    <2>2. CASE seen' = [seen EXCEPT ![p] = files[call[p].path]] /\ UNCHANGED files
      BY <2>1, <2>2 DEF ByteCeiling, TypeOK
    <2>3. QED
      BY <1>3, <1>9, <2>2 DEF MoveStart
  <1>10. ASSUME NEW p \in Procs, MoveFinish(p) PROVE ByteCeiling'
    <2>1. \A k \in Keys : Fits(files'[k])
      BY <1>10 DEF MoveFinish, ByteCeiling, TypeOK
    <2>2. QED
      BY <1>1, <1>10, <2>1 DEF ByteCeiling, MoveFinish
  <1>11. ASSUME NEW p \in Procs, Cancel(p) PROVE ByteCeiling'
    BY <1>3, <1>11 DEF Cancel
  <1>12. QED
    BY <1>2, <1>4, <1>5, <1>6, <1>7, <1>8, <1>9, <1>10, <1>11
    DEF Next, Run, Issue, Tick, vars

\* No sequence of writes, edits, moves and trashes, however it interleaves,
\* leaves a file above the byte ceiling in the store.
THEOREM CeilingHolds == Spec => []ByteCeiling
  <1>1. Init => Checked /\ ByteCeiling
    BY InitCeiling
  <1>2. TypeOK /\ Checked /\ ByteCeiling /\ [Next]_vars => (Checked /\ ByteCeiling)'
    BY NextChecked, NextCeiling
  <1>3. QED
    BY <1>1, <1>2, TypeCorrect, PTL DEF Spec

\* However calls interleave, and although a move and a write check the policy
\* before they wait for a lock, no step gives a denied key a text it did not
\* have, in the trash or elsewhere, but the trash of an allowed path, which
\* takes that path's text along.
THEOREM DeniedStaysUnwritten == Spec => DeniedNeverWritten
  <1> DEFINE Kept(k) == files'[k] \in {files[k], NoFile}
             Trashed(k) == \E p \in Procs :
                             /\ Runs(p, "trash") /\ call[p].path \notin DeniedKeys
                             /\ TrashKey(clock, call[p].path) = k
                             /\ files'[k] = files[call[p].path] /\ files'[call[p].path] = NoFile
             Safe == \A k \in DeniedKeys :
                       \/ files'[k] \in {files[k], NoFile}
                       \/ \E p \in Procs :
                            /\ Runs(p, "trash") /\ call[p].path \notin DeniedKeys
                            /\ TrashKey(clock, call[p].path) = k
                            /\ files'[k] = files[call[p].path] /\ files'[call[p].path] = NoFile
  <1>1. TypeOK /\ Checked /\ [Next]_vars => [Safe]_vars
    <2> SUFFICES ASSUME TypeOK, Checked, Next, NEW k \in DeniedKeys
                 PROVE  Kept(k) \/ Trashed(k)
      OBVIOUS
    <2>1. k \in Keys
      BY DEF DeniedKeys
    <2>2. ASSUME NEW p \in Procs, WriteFinish(p) PROVE Kept(k)
      BY <2>1, <2>2 DEF WriteFinish, Holds, Checked, TypeOK
    <2>3. ASSUME NEW p \in Procs, EditFinish(p) PROVE Kept(k)
      <3>1. CASE UNCHANGED files
        BY <3>1
      <3>2. CASE /\ EditFailure(call[p], files[call[p].path]) = "none"
                 /\ files' = [files EXCEPT ![call[p].path] =
                                Replace(files[call[p].path], call[p])]
        <4>1. call[p].path \notin DeniedKeys
          BY <3>2 DEF EditFailure
        <4>2. QED
          BY <2>1, <3>2, <4>1 DEF TypeOK
      <3>3. QED
        BY <2>3, <3>1, <3>2 DEF EditFinish
    <2>4. ASSUME NEW p \in Procs, Delete(p) PROVE Kept(k)
      BY <2>1, <2>4 DEF Delete, TypeOK
    <2>5. ASSUME NEW p \in Procs, Trash(p) PROVE Kept(k) \/ Trashed(k)
      <3> DEFINE path == call[p].path
                 copy == TrashKey(clock, path)
      <3>1. CASE UNCHANGED files
        BY <3>1
      <3>2. CASE /\ path \notin DeniedKeys
                 /\ files' = [files EXCEPT ![copy] = files[path], ![path] = NoFile]
        <4>1. path \in Keys /\ path # k
          BY <2>5, <3>2, CallShape DEF Trash, Runs, TypeOK
        <4>2. files'[path] = NoFile
          BY <3>2, <4>1 DEF TypeOK
        <4> HIDE DEF copy, path
        <4>3. CASE copy = k
          <5>1. files'[k] = files[path]
            BY <2>1, <3>2, <4>1, <4>3 DEF TypeOK
          <5>2. QED
            BY <2>5, <3>2, <4>2, <4>3, <5>1 DEF Trash, copy, path
        <4>4. CASE copy # k
          BY <2>1, <3>2, <4>1, <4>4 DEF TypeOK
        <4>5. QED
          BY <4>3, <4>4
      <3>3. QED
        BY <2>5, <3>1, <3>2 DEF Trash
    <2>6. ASSUME NEW p \in Procs, MoveFinish(p) PROVE Kept(k)
      BY <2>1, <2>6 DEF MoveFinish, Holds, Checked, TypeOK
    <2>7. ASSUME NEW p \in Procs,
                 \/ WriteStart(p) \/ EditStart(p) \/ MoveStart(p) \/ Cancel(p)
                 \/ \E c \in Calls : Issue(p, c)
          PROVE  UNCHANGED files
      BY <2>7 DEF WriteStart, EditStart, MoveStart, Cancel, Issue
    <2>8. CASE Tick
      BY <2>8 DEF Tick
    <2>9. QED
      BY <2>2, <2>3, <2>4, <2>5, <2>6, <2>7, <2>8 DEF Next, Run
  <1>2. Spec => []Checked
    BY InitCeiling, NextChecked, TypeCorrect, PTL DEF Spec
  <1>3. QED
    BY <1>1, <1>2, TypeCorrect, PTL DEF Spec, DeniedNeverWritten

\* However calls interleave, a copy in the trash changes only in a step that
\* ends a call well: a trash within its second whose path has that key, or a
\* call that names the copy.  A denied, failed or cancelled call, and a call on
\* any other name, leaves it.
THEOREM TrashCopiesSafe == Spec => TrashCopiesKept
  <1> DEFINE Lost(k) == \E p \in Procs :
                          /\ call[p] # NoCall /\ call'[p] = NoCall /\ result'[p] = "ok"
                          /\ \/ call[p].path = k
                             \/ call[p].op = "move" /\ call[p].dst = k
                             \/ call[p].op = "trash" /\ TrashKey(clock, call[p].path) = k
  <1>1. TypeOK /\ [Next]_vars
        => [\A k \in TrashKeys : files[k] # NoFile /\ files'[k] # files[k] => Lost(k)]_vars
    <2> SUFFICES ASSUME TypeOK, Next,
                        NEW k \in TrashKeys, files'[k] # files[k]
                 PROVE  Lost(k)
      OBVIOUS
    <2>1. k \in Keys
      BY DEF Keys
    <2>2. ASSUME NEW p \in Procs, pc[p] # "idle", Return(p, "ok"),
                 \/ call[p].path = k
                 \/ call[p].op = "move" /\ call[p].dst = k
                 \/ call[p].op = "trash" /\ TrashKey(clock, call[p].path) = k
          PROVE  Lost(k)
      BY <2>2 DEF Return, TypeOK
    <2> HIDE DEF Lost
    <2>3. ASSUME NEW p \in Procs, WriteFinish(p) PROVE Lost(k)
      <3>1. call[p].path = k
        BY <2>1, <2>3 DEF WriteFinish, TypeOK
      <3>2. QED
        BY <2>2, <2>3, <3>1 DEF WriteFinish, Holds
    <2>4. ASSUME NEW p \in Procs, EditFinish(p) PROVE Lost(k)
      <3>1. /\ Return(p, "ok")
            /\ files' = [files EXCEPT ![call[p].path] = Replace(files[call[p].path], call[p])]
        BY <2>4 DEF EditFinish
      <3>2. call[p].path = k
        BY <2>1, <3>1 DEF TypeOK
      <3>3. QED
        BY <2>2, <2>4, <3>1, <3>2 DEF EditFinish, Holds
    <2>5. ASSUME NEW p \in Procs, Delete(p) PROVE Lost(k)
      <3>1. Return(p, "ok") /\ files' = [files EXCEPT ![call[p].path] = NoFile]
        BY <2>5 DEF Delete
      <3>2. call[p].path = k
        BY <2>1, <3>1 DEF TypeOK
      <3>3. QED
        BY <2>2, <2>5, <3>1, <3>2 DEF Delete, Runs
    <2>6. ASSUME NEW p \in Procs, Trash(p) PROVE Lost(k)
      <3> DEFINE copy == TrashKey(clock, call[p].path)
      <3>1. /\ Return(p, "ok")
            /\ files' = [files EXCEPT ![copy] = files[call[p].path], ![call[p].path] = NoFile]
        BY <2>6 DEF Trash
      <3> HIDE DEF copy
      <3>2. call[p].path = k \/ copy = k
        BY <2>1, <3>1 DEF TypeOK
      <3>3. QED
        BY <2>2, <2>6, <3>1, <3>2 DEF Trash, Runs, copy
    <2>7. ASSUME NEW p \in Procs, MoveFinish(p) PROVE Lost(k)
      <3>1. call[p].dst = k \/ call[p].path = k
        BY <2>1, <2>7 DEF MoveFinish, TypeOK
      <3>2. QED
        BY <2>2, <2>7, <3>1 DEF MoveFinish, Holds
    <2>8. ASSUME NEW p \in Procs,
                 \/ WriteStart(p) \/ EditStart(p) \/ MoveStart(p) \/ Cancel(p)
                 \/ \E c \in Calls : Issue(p, c)
          PROVE  FALSE
      BY <2>8 DEF WriteStart, EditStart, MoveStart, Cancel, Issue
    <2>9. CASE Tick
      BY <2>9 DEF Tick
    <2>10. QED
      BY <2>3, <2>4, <2>5, <2>6, <2>7, <2>8, <2>9 DEF Next, Run
  <1>2. QED
    BY <1>1, TypeCorrect, PTL DEF Spec, TrashCopiesKept

-----------------------------------------------------------------------------
\* FilesStore implements AtomicFiles: starts and waits are stutters, and each
\* call but a move takes effect in the step in which it ends.

LEMMA EndRefines ==
  ASSUME TypeOK, NEW p \in Procs, pc[p] # "idle", NEW outcome, Return(p, outcome)
  PROVE  Atomic!End(p, outcome) /\ call[p] \in Calls
  BY DEF TypeOK, Return, Atomic!End

\* Only a move that waits for the lock carries a text.
OnlyMovesCarry ==
  \A p \in Procs : seen[p] # NoFile => pc[p] = "locking" /\ call[p].op = "move"

LEMMA InitCarry == Init => OnlyMovesCarry
  BY DEF Init, OnlyMovesCarry

LEMMA NextCarry == TypeOK /\ OnlyMovesCarry /\ [Next]_vars => OnlyMovesCarry'
  <1> SUFFICES ASSUME TypeOK, OnlyMovesCarry, [Next]_vars,
                      NEW q \in Procs, seen'[q] # NoFile
               PROVE  pc'[q] = "locking" /\ call'[q].op = "move"
    BY DEF OnlyMovesCarry
  <1>1. CASE UNCHANGED <<pc, call, seen>>
    BY <1>1 DEF OnlyMovesCarry
  <1>2. ASSUME NEW p \in Procs, NEW outcome, Return(p, outcome)
        PROVE  pc'[q] = "locking" /\ call'[q].op = "move"
    BY <1>2 DEF TypeOK, Return, OnlyMovesCarry
  <1>3. ASSUME NEW p \in Procs, Enqueue(p), UNCHANGED seen
        PROVE  pc'[q] = "locking" /\ call'[q].op = "move"
    BY <1>3 DEF TypeOK, Enqueue, OnlyMovesCarry
  <1>4. ASSUME NEW p \in Procs, NEW c \in Calls, Issue(p, c)
        PROVE  pc'[q] = "locking" /\ call'[q].op = "move"
    BY <1>4 DEF TypeOK, Issue, OnlyMovesCarry
  <1>5. ASSUME NEW p \in Procs, MoveStart(p)
        PROVE  pc'[q] = "locking" /\ call'[q].op = "move"
    <2>1. CASE seen' = [seen EXCEPT ![p] = files[call[p].path]] /\ Enqueue(p)
      BY <1>5, <2>1 DEF MoveStart, Runs, Enqueue, TypeOK, OnlyMovesCarry
    <2>2. QED
      BY <1>2, <1>5, <2>1 DEF MoveStart
  <1>6. ASSUME NEW p \in Procs, Run(p)
        PROVE  pc'[q] = "locking" /\ call'[q].op = "move"
    <2>1. CASE WriteStart(p) \/ EditStart(p)
      BY <1>2, <1>3, <2>1 DEF WriteStart, EditStart
    <2>2. CASE WriteFinish(p) \/ EditFinish(p) \/ MoveFinish(p)
      BY <1>2, <2>2 DEF WriteFinish, EditFinish, MoveFinish
    <2>3. CASE Delete(p) \/ Trash(p)
      BY <1>2, <2>3 DEF Delete, Trash
    <2>4. QED
      BY <1>5, <1>6, <2>1, <2>2, <2>3 DEF Run
  <1>7. CASE Tick \/ UNCHANGED vars
    BY <1>1, <1>7 DEF Tick, vars
  <1>8. QED
    BY <1>2, <1>4, <1>6, <1>7 DEF Next, Cancel

LEMMA RefusalRefines ==
  ASSUME TypeOK, NEW p \in Procs, pc[p] # "idle", NEW reason \in Refusals,
         Return(p, reason), UNCHANGED files, Atomic!Refusable(call[p], reason),
         seen[p] # NoFile => reason = "Cancelled"
  PROVE  Atomic!Next
  BY EndRefines, CallShape DEF Atomic!Next, Atomic!Refuse

LEMMA EffectRefines ==
  ASSUME TypeOK, NEW p \in Procs, pc[p] # "idle", Return(p, "ok"),
         Atomic!Accepted(call[p]), ~(call[p].op = "edit" /\ call[p].dry), call[p].op # "move",
         files' = Atomic!After(call[p])
  PROVE  Atomic!Next
  BY EndRefines, CallShape DEF Atomic!Next, Atomic!Apply

\* When none of the reasons a call may be refused for is true, it is accepted.
LEMMA AcceptedUnlessRefusable ==
  ASSUME NEW c, c.op \in {"write", "edit", "delete", "trash", "move"},
         c.op \in {"edit", "trash", "move"} => files[c.path] # NoFile,
         (IF c.op = "move" THEN c.dst ELSE c.path) \notin DeniedKeys,
         c.op = "write" => c.text \in FittingTexts,
         c.op = "edit" =>
           /\ files[c.path][c.old] # 0
           /\ c.expected # NoCount => c.expected = Replaced(files[c.path], c)
           /\ Replace(files[c.path], c) \in FittingTexts
  PROVE  Atomic!Accepted(c)
  <1> SUFFICES ASSUME NEW reason \in Refusals \ {"Cancelled"}
               PROVE  ~Atomic!Refusable(c, reason)
    BY DEF Atomic!Accepted
  <1>1. CASE reason = "FileNotFound"
    BY <1>1 DEF Atomic!Refusable
  <1>2. CASE reason = "StringNotFound"
    BY <1>2 DEF Atomic!Refusable
  <1>3. CASE reason = "PolicyDenied"
    BY <1>3 DEF Atomic!Refusable
  <1>4. CASE reason = "ExpectedCountMismatch"
    BY <1>4 DEF Atomic!Refusable
  <1>5. CASE reason = "FileSizeExceeded"
    BY <1>5 DEF Atomic!Refusable
  <1>6. QED
    BY <1>1, <1>2, <1>3, <1>4, <1>5 DEF Refusals

\* An edit fails for a reason that is true of the text it looked at.
LEMMA FailureTrue ==
  ASSUME NEW c, c.op = "edit", EditFailure(c, files[c.path]) # "none"
  PROVE  /\ EditFailure(c, files[c.path]) \in Refusals \ {"Cancelled"}
         /\ Atomic!Refusable(c, EditFailure(c, files[c.path]))
  <1> DEFINE text == files[c.path]
             f == EditFailure(c, text)
  <1>1. CASE text = NoFile
    <2>1. f = "FileNotFound"
      BY <1>1 DEF EditFailure
    <2>2. Atomic!Refusable(c, "FileNotFound")
      BY <1>1 DEF Atomic!Refusable
    <2>3. QED
      BY <2>1, <2>2 DEF Refusals
  <1>2. CASE text # NoFile /\ text[c.old] = 0
    <2>1. f = "StringNotFound"
      BY <1>2 DEF EditFailure
    <2>2. Atomic!Refusable(c, "StringNotFound")
      BY <1>2 DEF Atomic!Refusable
    <2>3. QED
      BY <2>1, <2>2 DEF Refusals
  <1>3. CASE text # NoFile /\ text[c.old] # 0 /\ c.path \in DeniedKeys
    <2>1. f = "PolicyDenied"
      BY <1>3 DEF EditFailure
    <2>2. Atomic!Refusable(c, "PolicyDenied")
      BY <1>3 DEF Atomic!Refusable
    <2>3. QED
      BY <2>1, <2>2 DEF Refusals
  <1>4. CASE /\ text # NoFile /\ text[c.old] # 0 /\ c.path \notin DeniedKeys
             /\ c.expected # NoCount /\ c.expected # Replaced(text, c)
    <2>1. f = "ExpectedCountMismatch"
      BY <1>4 DEF EditFailure
    <2>2. Atomic!Refusable(c, "ExpectedCountMismatch")
      BY <1>4 DEF Atomic!Refusable
    <2>3. QED
      BY <2>1, <2>2 DEF Refusals
  <1>5. CASE /\ text # NoFile /\ text[c.old] # 0 /\ c.path \notin DeniedKeys
             /\ ~(c.expected # NoCount /\ c.expected # Replaced(text, c))
    <2>1. f = "FileSizeExceeded" /\ Replace(text, c) \notin FittingTexts
      BY <1>5 DEF EditFailure
    <2>2. Atomic!Refusable(c, "FileSizeExceeded")
      BY <1>5, <2>1 DEF Atomic!Refusable
    <2>3. QED
      BY <2>1, <2>2 DEF Refusals
  <1>6. QED
    BY <1>1, <1>2, <1>3, <1>4, <1>5

LEMMA EditRefines ==
  ASSUME TypeOK, OnlyMovesCarry, NEW p \in Procs, EditFinish(p)
  PROVE  Atomic!Next
  <1> DEFINE c == call[p]
             text == files[c.path]
             failure == EditFailure(c, text)
  <1>1. pc[p] # "idle" /\ c.op = "edit" /\ c \in Calls /\ seen[p] = NoFile
    BY DEF EditFinish, Holds, TypeOK, OnlyMovesCarry
  <1>2. CASE failure # "none"
    <2>1. Return(p, failure) /\ UNCHANGED files
      BY <1>2, SMTT(30) DEF EditFinish
    <2>2. failure \in Refusals /\ Atomic!Refusable(call[p], failure)
      BY <1>1, <1>2, FailureTrue
    <2> HIDE DEF failure
    <2>3. QED
      BY <1>1, <2>1, <2>2, RefusalRefines
  <1>3. CASE failure = "none"
    <2>1. Atomic!Accepted(c)
      BY <1>1, <1>3, AcceptedUnlessRefusable DEF EditFailure
    <2>2. CASE c.dry
      <3>1. Return(p, "dry_run") /\ UNCHANGED files
        BY <1>3, <2>2 DEF EditFinish
      <3>2. Atomic!Apply(p)
        BY <1>1, <2>1, <2>2, <3>1, EndRefines, CallShape DEF Atomic!Apply
      <3>3. QED
        BY <3>2 DEF Atomic!Next
    <2>3. CASE ~c.dry
      <3>1. Return(p, "ok") /\ files' = [files EXCEPT ![c.path] = Replace(text, c)]
        BY <1>3, <2>3 DEF EditFinish
      <3>2. files' = Atomic!After(c)
        BY <1>1, <3>1 DEF Atomic!After
      <3>3. QED
        BY <1>1, <2>1, <2>3, <3>1, <3>2, EffectRefines
    <2>4. QED
      BY <2>2, <2>3
  <1>4. QED
    BY <1>2, <1>3

LEMMA StepRefines ==
  ASSUME TypeOK, Checked, OnlyMovesCarry, [Next]_vars
  PROVE  [Atomic!Next]_(Atomic!vars)
  <1> DEFINE Stutters == UNCHANGED <<files, call, seen, result, clock>>
  <1>1. CASE Stutters
    BY <1>1 DEF Atomic!vars
  <1>2. ASSUME NEW p \in Procs, WriteStart(p)
        PROVE  Atomic!Next \/ Stutters
    <2>1. CASE Enqueue(p) /\ UNCHANGED <<files, seen>>
      BY <2>1 DEF Enqueue
    <2>2. ASSUME NEW reason \in Refusals, Return(p, reason), UNCHANGED files,
                 Atomic!Refusable(call[p], reason)
          PROVE  Atomic!Next
      BY <1>2, <2>2, RefusalRefines DEF WriteStart, Runs, OnlyMovesCarry
    <2>3. QED
      BY <1>2, <2>1, <2>2 DEF WriteStart, Runs, Refusals, Atomic!Refusable
  <1>3. ASSUME NEW p \in Procs, WriteFinish(p)
        PROVE  Atomic!Next
    <2>1. Atomic!Accepted(call[p])
      BY <1>3, AcceptedUnlessRefusable DEF WriteFinish, Holds, Checked
    <2>2. files' = Atomic!After(call[p])
      BY <1>3 DEF WriteFinish, Atomic!After
    <2>3. QED
      BY <1>3, <2>1, <2>2, EffectRefines DEF WriteFinish, Holds
  <1>4. ASSUME NEW p \in Procs, EditStart(p)
        PROVE  Stutters
    BY <1>4 DEF EditStart, Enqueue
  <1>5. ASSUME NEW p \in Procs, Delete(p)
        PROVE  Atomic!Next
    <2>1. CASE call[p].path \in DeniedKeys
      BY <1>5, <2>1, RefusalRefines DEF Delete, Runs, Refusals, Atomic!Refusable, OnlyMovesCarry
    <2>2. CASE call[p].path \notin DeniedKeys
      <3>1. Atomic!Accepted(call[p])
        BY <1>5, <2>2, AcceptedUnlessRefusable DEF Delete, Runs
      <3>2. files' = Atomic!After(call[p])
        BY <1>5, <2>2 DEF Delete, Runs, Atomic!After
      <3>3. QED
        BY <1>5, <2>2, <3>1, <3>2, EffectRefines DEF Delete, Runs
    <2>3. QED
      BY <2>1, <2>2
  <1>6. ASSUME NEW p \in Procs, Trash(p)
        PROVE  Atomic!Next
    <2>1. CASE call[p].path \in DeniedKeys
      BY <1>6, <2>1, RefusalRefines DEF Trash, Runs, Refusals, Atomic!Refusable, OnlyMovesCarry
    <2>2. CASE call[p].path \notin DeniedKeys /\ files[call[p].path] = NoFile
      BY <1>6, <2>2, RefusalRefines DEF Trash, Runs, Refusals, Atomic!Refusable, OnlyMovesCarry
    <2>3. CASE call[p].path \notin DeniedKeys /\ files[call[p].path] # NoFile
      <3>1. Atomic!Accepted(call[p])
        BY <1>6, <2>3, AcceptedUnlessRefusable DEF Trash, Runs
      <3>2. files' = Atomic!After(call[p])
        BY <1>6, <2>3 DEF Trash, Runs, Atomic!After
      <3>3. QED
        BY <1>6, <2>3, <3>1, <3>2, EffectRefines DEF Trash, Runs
    <2>4. QED
      BY <2>1, <2>2, <2>3
  <1>7. ASSUME NEW p \in Procs, Cancel(p)
        PROVE  Atomic!Next
    BY <1>7, RefusalRefines DEF Cancel, Refusals, Atomic!Refusable
  <1>8. ASSUME NEW p \in Procs, NEW c \in Calls, Issue(p, c)
        PROVE  Atomic!Next
    BY <1>8 DEF Issue, TypeOK, Atomic!Next, Atomic!Issue
  <1>9. CASE Tick
    BY <1>9 DEF Tick, Atomic!Next, Atomic!Tick
  <1>10. ASSUME NEW p \in Procs, MoveStart(p)
         PROVE  Atomic!Next
    <2>1. pc[p] # "idle" /\ call[p].op = "move" /\ call[p] # NoCall /\ seen[p] = NoFile
      BY <1>10 DEF MoveStart, Runs, TypeOK, OnlyMovesCarry
    <2>2. CASE files[call[p].path] = NoFile
      BY <1>10, <2>1, <2>2, RefusalRefines DEF MoveStart, Refusals, Atomic!Refusable
    <2>3. CASE files[call[p].path] # NoFile /\ call[p].dst \in DeniedKeys
      BY <1>10, <2>1, <2>3, RefusalRefines DEF MoveStart, Refusals, Atomic!Refusable
    <2>4. CASE files[call[p].path] # NoFile /\ call[p].dst \notin DeniedKeys
      <3>1. Atomic!Accepted(call[p])
        BY <2>1, <2>4, AcceptedUnlessRefusable
      <3>2. Atomic!Read(p)
        BY <1>10, <2>1, <2>4, <3>1 DEF MoveStart, Enqueue, Atomic!Read
      <3>3. QED
        BY <3>2 DEF Atomic!Next
    <2>5. QED
      BY <2>2, <2>3, <2>4
  <1>11. ASSUME NEW p \in Procs, MoveFinish(p)
         PROVE  Atomic!Next
    <2>1. pc[p] # "idle" /\ seen[p] # NoFile
      BY <1>11 DEF MoveFinish, Holds, Checked
    <2>2. Atomic!Put(p)
      BY <1>11, <2>1, EndRefines, CallShape DEF MoveFinish, Atomic!Put
    <2>3. QED
      BY <2>2 DEF Atomic!Next
  <1>12. CASE UNCHANGED vars
    BY <1>1, <1>12 DEF vars
  <1>13. CASE Next
    <2>1. ASSUME NEW p \in Procs, Run(p)
          PROVE  Atomic!Next \/ Stutters
      BY <1>2, <1>3, <1>4, <1>5, <1>6, <1>10, <1>11, <2>1, EditRefines DEF Run
    <2>2. QED
      BY <1>1, <1>7, <1>8, <1>9, <1>13, <2>1 DEF Next
  <1>14. QED
    BY <1>12, <1>13

\* Every workload implements the atomic specification: whatever the
\* interleaving, a write, edit, delete or trash does in one step what its
\* description says to the files of that step, so two concurrent edits of a
\* file both persist; a move does so in two, and between its reading and its
\* writing it forgets nothing and is refused nothing.
THEOREM AtomicRefinement == Spec => AtomicSpec
  <1>1. Init => Atomic!Init
    BY DEF Init, Atomic!Init
  <1>2. TypeOK /\ Checked /\ OnlyMovesCarry /\ [Next]_vars => [Atomic!Next]_(Atomic!vars)
    BY StepRefines
  <1>3. Spec => []Checked
    BY InitCeiling, NextChecked, TypeCorrect, PTL DEF Spec
  <1>4. Spec => []OnlyMovesCarry
    BY InitCarry, NextCarry, TypeCorrect, PTL DEF Spec
  <1>5. QED
    BY <1>1, <1>2, <1>3, <1>4, TypeCorrect, PTL DEF Spec, AtomicSpec, Atomic!Spec
=============================================================================
