----------------------------- MODULE FilesStore -----------------------------
(***************************************************************************)
(* The store-backed file operations (files_ops_store.py) run by concurrent *)
(* asyncio tasks over one Files mapping, with the per-path anyio locks of  *)
(* tools_files.py.  A task runs undisturbed from one await to the next;    *)
(* the only await in these operations that suspends is the acquisition of  *)
(* a lock, so an operation is a Start step up to it and a Finish step      *)
(* after it, and an operation that takes no lock is a single step.         *)
(***************************************************************************)
EXTENDS FileContents, Sequences, SequencesExt

VARIABLES
  files,   \* Files.files
  queue,   \* queue[k]: the lock of key k, its owner at the head, then the
           \* tasks waiting for it in the order they came
  pc,      \* where each task is: idle, called, or at a lock
  call,    \* the call each task is executing
  seen,    \* the text a move read before it went for the lock
  result,  \* how each task's last call ended
  clock    \* time.time(), in whole seconds
vars == <<files, queue, pc, call, seen, result, clock>>

Init ==
  /\ files \in Initials
  /\ queue = [k \in Keys |-> <<>>]
  /\ pc = [p \in Procs |-> "idle"]
  /\ call = [p \in Procs |-> NoCall]
  /\ seen = [p \in Procs |-> NoFile]
  /\ result = [p \in Procs |-> "none"]
  /\ clock = 0

-----------------------------------------------------------------------------
\* Steps of anyio.Lock, and how a call ends.

Enqueue(p) ==
  /\ queue' = [queue EXCEPT ![call[p].path] = Append(@, p)]
  /\ pc' = [pc EXCEPT ![p] = "locking"]
  /\ UNCHANGED <<call, result, clock>>

\* p has been handed the lock of the path it works on and runs again.
Holds(p) == pc[p] = "locking" /\ Head(queue[call[p].path]) = p

Release(p) == queue' = [queue EXCEPT ![call[p].path] = Tail(@)]

Return(p, outcome) ==
  /\ pc' = [pc EXCEPT ![p] = "idle"]
  /\ call' = [call EXCEPT ![p] = NoCall]
  /\ seen' = [seen EXCEPT ![p] = NoFile]
  /\ result' = [result EXCEPT ![p] = outcome]
  /\ UNCHANGED clock

\* The model emitted tool call c and its task is scheduled.
Issue(p, c) ==
  /\ pc[p] = "idle"
  /\ pc' = [pc EXCEPT ![p] = "called"]
  /\ call' = [call EXCEPT ![p] = c]
  /\ result' = [result EXCEPT ![p] = "none"]
  /\ UNCHANGED <<files, queue, seen, clock>>

Runs(p, op) == pc[p] = "called" /\ call[p].op = op

-----------------------------------------------------------------------------
\* write_store

WriteStart(p) ==
  /\ Runs(p, "write")
  /\ LET c == call[p] IN
       \/ /\ c.text \notin FittingTexts
          /\ Return(p, "FileSizeExceeded") /\ UNCHANGED <<files, queue>>
       \/ /\ c.text \in FittingTexts /\ c.path \in DeniedKeys
          /\ Return(p, "PolicyDenied") /\ UNCHANGED <<files, queue>>
       \/ /\ c.text \in FittingTexts /\ c.path \notin DeniedKeys
          /\ Enqueue(p) /\ UNCHANGED <<files, seen>>

WriteFinish(p) ==
  /\ Holds(p) /\ call[p].op = "write"
  /\ files' = [files EXCEPT ![call[p].path] = call[p].text]
  /\ Release(p) /\ Return(p, "ok")

\* edit_store takes the lock before any check, and drops it before it writes;
\* nothing suspends between the read and the write.
EditStart(p) ==
  /\ Runs(p, "edit")
  /\ Enqueue(p) /\ UNCHANGED <<files, seen>>

\* Mutant: the size check looks at the text before the edit.
EditFailureOldSize(c, text) ==
  CASE text = NoFile -> "FileNotFound"
    [] text # NoFile /\ text[c.old] = 0 -> "StringNotFound"
    [] OTHER ->
       IF c.path \in DeniedKeys THEN "PolicyDenied"
       ELSE IF text \notin FittingTexts THEN "FileSizeExceeded"
       ELSE "none"

\* Mutant: the policy is not checked.
EditFailureNoPolicy(c, text) ==
  CASE text = NoFile -> "FileNotFound"
    [] text # NoFile /\ text[c.old] = 0 -> "StringNotFound"
    [] OTHER -> IF Replace(text, c) \notin FittingTexts THEN "FileSizeExceeded" ELSE "none"

\* Mutant: an absent old_string is not refused.
EditFailureNoSearch(c, text) ==
  CASE text = NoFile -> "FileNotFound"
    [] c.path \in DeniedKeys -> "PolicyDenied"
    [] OTHER -> "none"

EditFailure(c, text) ==
  CASE text = NoFile -> "FileNotFound"
    [] text # NoFile /\ text[c.old] = 0 -> "StringNotFound"
    [] OTHER ->
       IF c.path \in DeniedKeys THEN "PolicyDenied"
       ELSE IF c.expected # NoCount /\ c.expected # Replaced(text, c)
            THEN "ExpectedCountMismatch"
       ELSE IF Replace(text, c) \notin FittingTexts THEN "FileSizeExceeded"
       ELSE "none"

\* Mutant: an edit that fails keeps the lock.
EditFinishLeaksLock(p) ==
  /\ Holds(p) /\ call[p].op = "edit"
  /\ LET c == call[p]
         failure == EditFailure(c, files[c.path])
     IN  \/ /\ failure # "none"
            /\ Return(p, failure) /\ UNCHANGED <<files, queue>>
         \/ /\ failure = "none"
            /\ files' = [files EXCEPT ![c.path] = Replace(@, c)]
            /\ Release(p) /\ Return(p, "ok")

\* Mutant: a dry run writes.
EditFinishDryRunWrites(p) ==
  /\ Holds(p) /\ call[p].op = "edit"
  /\ LET c == call[p]
         failure == EditFailure(c, files[c.path])
     IN  \/ /\ failure # "none"
            /\ Return(p, failure) /\ UNCHANGED files
         \/ /\ failure = "none"
            /\ files' = [files EXCEPT ![c.path] = Replace(@, c)]
            /\ Return(p, IF c.dry THEN "dry_run" ELSE "ok")
  /\ Release(p)

EditFinish(p) ==
  /\ Holds(p) /\ call[p].op = "edit"
  /\ LET c == call[p]
         text == files[c.path]
         failure == EditFailure(c, text)
     IN  \/ /\ failure # "none"
            /\ Return(p, failure) /\ UNCHANGED files
         \/ /\ failure = "none" /\ c.dry
            /\ Return(p, "dry_run") /\ UNCHANGED files
         \/ /\ failure = "none" /\ ~c.dry
            /\ files' = [files EXCEPT ![c.path] = Replace(text, c)]
            /\ Return(p, "ok")
  /\ Release(p)

\* delete_store: no lock, and a missing file is not an error.
Delete(p) ==
  /\ Runs(p, "delete")
  /\ \/ /\ call[p].path \in DeniedKeys
        /\ Return(p, "PolicyDenied") /\ UNCHANGED files
     \/ /\ call[p].path \notin DeniedKeys
        /\ files' = [files EXCEPT ![call[p].path] = NoFile]
        /\ Return(p, "ok")
  /\ UNCHANGED queue

\* Mutant: the second is left out of the key.
TrashIntoOneKey(p) ==
  /\ Runs(p, "trash")
  /\ LET path == call[p].path IN
       \/ /\ path \in DeniedKeys
          /\ Return(p, "PolicyDenied") /\ UNCHANGED files
       \/ /\ path \notin DeniedKeys /\ files[path] = NoFile
          /\ Return(p, "FileNotFound") /\ UNCHANGED files
       \/ /\ path \notin DeniedKeys /\ files[path] # NoFile
          /\ files' = [files EXCEPT ![TrashKey(0, path)] = files[path], ![path] = NoFile]
          /\ Return(p, "ok")
  /\ UNCHANGED queue

\* trash_store: re-keys the file under the current second; no lock.
Trash(p) ==
  /\ Runs(p, "trash")
  /\ LET path == call[p].path IN
       \/ /\ path \in DeniedKeys
          /\ Return(p, "PolicyDenied") /\ UNCHANGED files
       \/ /\ path \notin DeniedKeys /\ files[path] = NoFile
          /\ Return(p, "FileNotFound") /\ UNCHANGED files
       \/ /\ path \notin DeniedKeys /\ files[path] # NoFile
          /\ files' = [files EXCEPT ![TrashKey(clock, path)] = files[path],
                                    ![path] = NoFile]
          /\ Return(p, "ok")
  /\ UNCHANGED queue

\* move_store: reads the source, and only then goes for the source's lock.
MoveStart(p) ==
  /\ Runs(p, "move")
  /\ LET c == call[p] IN
       \/ /\ files[c.path] = NoFile
          /\ Return(p, "FileNotFound") /\ UNCHANGED <<files, queue>>
       \/ /\ files[c.path] # NoFile /\ c.dst \in DeniedKeys
          /\ Return(p, "PolicyDenied") /\ UNCHANGED <<files, queue>>
       \/ /\ files[c.path] # NoFile /\ c.dst \notin DeniedKeys
          /\ seen' = [seen EXCEPT ![p] = files[c.path]]
          /\ Enqueue(p) /\ UNCHANGED files

MoveFinish(p) ==
  /\ Holds(p) /\ call[p].op = "move"
  /\ files' = [files EXCEPT ![call[p].dst] = seen[p], ![call[p].path] = NoFile]
  /\ Release(p) /\ Return(p, "ok")

\* Mutant: a cancelled task stays in the queue of the lock.
CancelKeepsPlace(p) ==
  /\ pc[p] \in {"called", "locking"}
  /\ Return(p, "Cancelled")
  /\ UNCHANGED <<files, queue>>

\* A timeout of the executor cancels the task, before it runs or at the lock;
\* a cancelled waiter leaves the queue, a cancelled owner hands the lock on.
Cancel(p) ==
  /\ \/ pc[p] = "called" /\ UNCHANGED queue
     \/ /\ pc[p] = "locking"
        /\ \E i \in 1 .. Len(queue[call[p].path]) :
             /\ queue[call[p].path][i] = p
             /\ queue' = [queue EXCEPT ![call[p].path] = RemoveAt(@, i)]
  /\ Return(p, "Cancelled")
  /\ UNCHANGED files

Tick ==
  /\ clock < MaxClock
  /\ clock' = clock + 1
  /\ UNCHANGED <<files, queue, pc, call, seen, result>>

-----------------------------------------------------------------------------
Run(p) ==
  \/ WriteStart(p) \/ WriteFinish(p)
  \/ EditStart(p) \/ EditFinish(p)
  \/ Delete(p) \/ Trash(p)
  \/ MoveStart(p) \/ MoveFinish(p)

Next ==
  \/ \E p \in Procs : Run(p) \/ Cancel(p) \/ \E c \in Calls : Issue(p, c)
  \/ Tick

Spec == Init /\ [][Next]_vars

\* The event loop runs every task that is ready.
Fairness == \A p \in Procs : WF_vars(Run(p))
FairSpec == Spec /\ Fairness

-----------------------------------------------------------------------------
\* Properties.

\* The typing of the state; a task has a call in progress unless it is idle.
TypeOK ==
  /\ files \in [Keys -> Contents \cup {NoFile}]
  /\ queue \in [Keys -> Seq(Procs)]
  /\ pc \in [Procs -> {"idle", "called", "locking"}]
  /\ call \in [Procs -> Calls \cup {NoCall}]
  /\ \A p \in Procs : call[p] = NoCall <=> pc[p] = "idle"
  /\ seen \in [Procs -> Contents \cup {NoFile}]
  /\ result \in [Procs -> Outcomes]
  /\ clock \in Clock

\* No lock is leaked and no waiter is lost: whatever ended the calls before
\* (success, an exception, a cancellation), the tasks in the queue of a path's
\* lock are exactly the tasks whose call on that path is at the lock, each once.
LocksMatchTasks ==
  /\ \A k \in Keys : \A i \in 1 .. Len(queue[k]) :
       /\ pc[queue[k][i]] = "locking"
       /\ call[queue[k][i]].path = k
       /\ \A j \in 1 .. Len(queue[k]) : queue[k][i] = queue[k][j] => i = j
  /\ \A p \in Procs : pc[p] = "locking" =>
       \E i \in 1 .. Len(queue[call[p].path]) : queue[call[p].path][i] = p

\* The byte ceiling holds of every file in the store, however many edits,
\* moves and trashes produced it, and of every text a move carries.
ByteCeiling ==
  /\ \A k \in Keys : files[k] \in FittingTexts \cup {NoFile}
  /\ \A p \in Procs : seen[p] \in FittingTexts \cup {NoFile}

\* The path policy is checked at one point of a call and acted on at another;
\* still no step gives a denied key a text it did not have, but the trash of an
\* allowed path, which is not asked about the key it moves the text to.
DeniedNeverWritten ==
  [][\A k \in DeniedKeys :
       \/ files'[k] \in {files[k], NoFile}
       \/ \E p \in Procs :
            /\ Runs(p, "trash") /\ call[p].path \notin DeniedKeys
            /\ TrashKey(clock, call[p].path) = k
            /\ files'[k] = files[call[p].path] /\ files'[call[p].path] = NoFile]_vars

\* What the allow and deny lists say: a denied key never gains a text.  False:
\* a trash does not ask the policy about the key in the trash.
PolicyHolds == [][\A k \in DeniedKeys : files'[k] \in {files[k], NoFile}]_vars

\* Every call that is issued ends: no lock order can make tasks wait forever.
CallsEnd == \A p \in Procs : pc[p] # "idle" ~> pc[p] = "idle"

\* A move carries its source as it is when the move takes effect: what other
\* tasks wrote to the source meanwhile is neither lost nor brought back.
MoveIsAtomic ==
  [][\A p \in Procs :
       MoveFinish(p) /\ call[p].dst # call[p].path
         => files'[call[p].dst] = files[call[p].path]]_vars

\* A copy in the trash is lost only to another trash within the second that
\* names it, of its path or of one that differs in leading slashes, or to a
\* call that names the copy itself and ends well.
TrashCopiesKept ==
  [][\A k \in TrashKeys : files[k] # NoFile /\ files'[k] # files[k] =>
       \E p \in Procs :
         /\ call[p] # NoCall /\ call'[p] = NoCall /\ result'[p] = "ok"
         /\ \/ call[p].path = k
            \/ call[p].op = "move" /\ call[p].dst = k
            \/ call[p].op = "trash" /\ TrashKey(clock, call[p].path) = k]_vars

\* The operations implement the specification in which a call is one step, and
\* a move two: edits drop their lock before they write, deletes and trashes
\* take none, and still nothing comes between what they read and what they do.
Atomic == INSTANCE AtomicFiles
AtomicSpec == Atomic!Spec
=============================================================================
