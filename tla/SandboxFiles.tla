---------------------------- MODULE SandboxFiles ----------------------------
(***************************************************************************)
(* The file operations in sandbox mode (fs_access.py over fs_adapter.py):  *)
(* each is a script of calls of the sandbox's editor and shell, with other *)
(* tasks running at every await, and what the sandbox will not do is done  *)
(* on the in-memory Files mapping instead.  The preflight that decides     *)
(* whether to try the sandbox at all is cached (fs.py).                    *)
(*                                                                         *)
(* The store-backed operation a call falls back to is a step of the atomic *)
(* specification AtomicFiles, which FilesStore implements, or for a move   *)
(* the two steps it has there.  Callers' names are relative to the root,   *)
(* normalised and no symbolic links, so that the sandbox, the store and    *)
(* the policy see the same names and the guards for these always pass.     *)
(***************************************************************************)
EXTENDS FileContents, Sequences, SequencesExt

CONSTANTS
  Modes,      \* the values of INSPECT_SANDBOX_PREFLIGHT looked at
  TTL,        \* INSPECT_SANDBOX_PREFLIGHT_TTL_SEC
  DiskSeeds,  \* what the sandbox may hold at the start
  MaxFlips,   \* bound on how often the sandbox goes away or comes back
  MaxFaults   \* bound on calls of a running sandbox that fail

ASSUME SandboxAssumption ==
  /\ Modes \subseteq {"auto", "skip", "force"}
  /\ TTL \in Nat /\ MaxFlips \in Nat /\ MaxFaults \in Nat
  /\ DiskSeeds \subseteq [Paths -> Contents \cup {NoFile}]
  /\ \A path \in Paths : Stripped(path) = path

VARIABLES
  disk,      \* the files of the sandbox
  files,     \* Files.files, the store
  queue,     \* the locks of the paths, as in FilesStore
  pc,        \* the await each task is at
  call,      \* the call each task is executing
  held,      \* the text a task is about to put on the disk, or a move in the
             \* store has read there
  aim,       \* where a trash or a move is taking its file
  result,    \* how each task's last call ended
  clock,     \* time.time() and time.monotonic()
  up,        \* whether the sandbox answers
  ready,     \* _SANDBOX_READY, or "unknown" for None
  checked,   \* _SANDBOX_TS
  flips, faults,
  mode, readOnly   \* the environment of the run
cache == <<ready, checked>>
world == <<up, flips, mode, readOnly>>
vars == <<disk, files, queue, pc, call, held, aim, result, clock, cache, faults, world>>

\* What the moves carry that have read their source in the store.
CarriedInStore == [p \in Procs |-> IF pc[p] = "putting" THEN held[p] ELSE NoFile]

Store == INSTANCE AtomicFiles WITH seen <- CarriedInStore

Init ==
  /\ disk \in {Seeded(seed) : seed \in DiskSeeds}
  /\ files \in Initials
  /\ queue = [k \in Keys |-> <<>>]
  /\ pc = [p \in Procs |-> "idle"]
  /\ call = [p \in Procs |-> NoCall]
  /\ held = [p \in Procs |-> NoFile]
  /\ aim = [p \in Procs |-> NoCall]
  /\ result = [p \in Procs |-> "none"]
  /\ clock = 0 /\ flips = 0 /\ faults = 0
  /\ up \in BOOLEAN /\ ready = "unknown" /\ checked = 0
  /\ mode \in Modes /\ readOnly \in BOOLEAN

-----------------------------------------------------------------------------
\* ensure_sandbox_ready.  One cache serves the editor and the shell, and a
\* failed check is cached before it is raised.

Cached == ready # "unknown" /\ clock - checked < TTL
Ready == CASE mode = "skip" -> FALSE
           [] mode # "skip" /\ Cached -> ready = "yes"
           [] OTHER -> up
Raises == mode = "force" /\ ~Cached /\ ~up

Preflight ==
  IF mode = "skip" \/ Cached
  THEN UNCHANGED cache
  ELSE ready' = (IF up THEN "yes" ELSE "no") /\ checked' = clock

-----------------------------------------------------------------------------
\* How a call of the sandbox comes out: it works, it fails without effect, or
\* it has its effect and the answer does not come within the tool's timeout.

Works == up /\ UNCHANGED faults
Fails == IF up THEN faults < MaxFaults /\ faults' = faults + 1 ELSE UNCHANGED faults
AnswerLost == up /\ Fails

Empty == [t \in Tokens |-> 0]

\* What view yields: a missing file and an error are an empty text to edit.
Views(k, text) ==
  \/ Works /\ text = IF disk[k] = NoFile THEN Empty ELSE disk[k]
  \/ Fails /\ text = Empty

\* text_editor('create'), which may take effect without saying so.
Creates(k, text) == Works /\ disk' = [disk EXCEPT ![k] = text]
CreateFails(k, text) ==
  \/ Fails /\ UNCHANGED disk
  \/ AnswerLost /\ disk' = [disk EXCEPT ![k] = text]

\* mv of the shell: a missing source is an error on its stderr only.
Moved(src, dst) ==
  IF disk[src] = NoFile THEN disk ELSE [disk EXCEPT ![src] = NoFile, ![dst] = disk[src]]

\* An mv that moves nothing to its destination (a directory is there, it is not
\* allowed, the shell is busy) and does not raise: nobody reads what it said.
FailsUnread == up /\ Fails /\ UNCHANGED disk

-----------------------------------------------------------------------------
\* How a call moves on, and how it ends.

Goto(p, point) == pc' = [pc EXCEPT ![p] = point] /\ UNCHANGED <<call, result, clock>>

Return(p, outcome) ==
  /\ pc' = [pc EXCEPT ![p] = "idle"]
  /\ call' = [call EXCEPT ![p] = NoCall]
  /\ held' = [held EXCEPT ![p] = NoFile]
  /\ aim' = [aim EXCEPT ![p] = NoCall]
  /\ result' = [result EXCEPT ![p] = outcome]
  /\ UNCHANGED clock

Locked == {"size", "count", "view", "stage", "swap", "rewrite", "verify", "ensure",
           "unswapped"}

Release(p) == queue' = [queue EXCEPT ![call[p].path] = Tail(@)]

Finish(p, outcome) == Release(p) /\ Return(p, outcome) /\ UNCHANGED files

\* Mutant: the lock is kept while the call goes on in the store.
FallBackHoldsLock(p) == Goto(p, "store") /\ UNCHANGED <<files, queue, held, aim>>

FallBack(p) == Release(p) /\ Goto(p, "store") /\ UNCHANGED <<files, held, aim>>

Step(p, point) == Goto(p, point) /\ UNCHANGED <<files, queue, aim>>

\* The model emitted tool call c and its task is scheduled.
Issue(p, c) ==
  /\ pc[p] = "idle"
  /\ pc' = [pc EXCEPT ![p] = "called"]
  /\ call' = [call EXCEPT ![p] = c]
  /\ result' = [result EXCEPT ![p] = "none"]
  /\ UNCHANGED <<disk, files, queue, held, aim, clock, cache, faults, world>>

Runs(p, op) == pc[p] = "called" /\ call[p].op = op

\* The store-backed operation, on the files as they are then.
StoreCall(p) ==
  /\ pc[p] = "store"
  /\ pc' = [pc EXCEPT ![p] = "idle"]
  /\ held' = [held EXCEPT ![p] = NoFile]
  /\ aim' = [aim EXCEPT ![p] = NoCall]
  /\ Store!Apply(p) \/ Store!Refuse(p)
  /\ UNCHANGED <<disk, queue, cache, faults, world>>

\* A move in the store reads its source, and puts it once it has the lock.
StoreRead(p) ==
  /\ pc[p] = "store"
  /\ held' = [held EXCEPT ![p] = files[call[p].path]]
  /\ Goto(p, "putting")
  /\ Store!Read(p)
  /\ UNCHANGED <<disk, queue, aim, cache, faults, world>>

StorePut(p) ==
  /\ pc[p] = "putting"
  /\ Return(p, "ok")
  /\ Store!Put(p)
  /\ UNCHANGED <<disk, queue, cache, faults, world>>

-----------------------------------------------------------------------------
\* _write_sandbox and _edit_sandbox, up to the lock of the path.

\* Mutant: the policy is left to the store.
EnterUnchecked(p) ==
  /\ Preflight
  /\ \/ Raises /\ Return(p, "Unavailable") /\ UNCHANGED queue
     \/ /\ ~Raises /\ ~Ready
        /\ Goto(p, "store") /\ UNCHANGED <<queue, held, aim>>
     \/ /\ Ready
        /\ queue' = [queue EXCEPT ![call[p].path] = Append(@, p)]
        /\ Goto(p, "locking") /\ UNCHANGED <<held, aim>>

Enter(p) ==
  /\ Preflight
  /\ \/ Raises /\ Return(p, "Unavailable") /\ UNCHANGED queue
     \/ /\ ~Raises /\ ~Ready
        /\ Goto(p, "store") /\ UNCHANGED <<queue, held, aim>>
     \/ /\ Ready /\ call[p].path \in DeniedKeys
        /\ Return(p, "PolicyDenied") /\ UNCHANGED queue
     \/ /\ Ready /\ call[p].path \notin DeniedKeys
        /\ queue' = [queue EXCEPT ![call[p].path] = Append(@, p)]
        /\ Goto(p, "locking") /\ UNCHANGED <<held, aim>>

Guarded == readOnly /\ mode # "skip"

\* Mutant: no read-only guard.
WriteStartUnguarded(p) ==
  /\ Runs(p, "write")
  /\ \/ /\ call[p].text \notin FittingTexts
        /\ Return(p, "FileSizeExceeded") /\ UNCHANGED <<queue, cache>>
     \/ call[p].text \in FittingTexts /\ Enter(p)
  /\ UNCHANGED <<disk, files, faults, world>>

WriteStart(p) ==
  /\ Runs(p, "write")
  /\ \/ Guarded /\ Return(p, "SandboxReadOnly") /\ UNCHANGED <<queue, cache>>
     \/ /\ ~Guarded /\ call[p].text \notin FittingTexts
        /\ Return(p, "FileSizeExceeded") /\ UNCHANGED <<queue, cache>>
     \/ ~Guarded /\ call[p].text \in FittingTexts /\ Enter(p)
  /\ UNCHANGED <<disk, files, faults, world>>

EditStart(p) ==
  /\ Runs(p, "edit")
  /\ \/ Guarded /\ Return(p, "SandboxReadOnly") /\ UNCHANGED <<queue, cache>>
     \/ ~Guarded /\ Enter(p)
  /\ UNCHANGED <<disk, files, faults, world>>

-----------------------------------------------------------------------------
\* _edit_sandbox, under the lock.

Granted(p) == pc[p] = "locking" /\ Head(queue[call[p].path]) = p

Counts(c) == c.expected # NoCount \/ c.dry

\* wc_bytes; an unknown size passes.
EditSize(p) ==
  /\ Granted(p) /\ call[p].op = "edit"
  /\ LET c == call[p] IN
       \/ /\ Works /\ disk[c.path] \notin FittingTexts \cup {NoFile}
          /\ Finish(p, "FileSizeExceeded")
       \/ /\ Fails \/ (Works /\ disk[c.path] \in FittingTexts \cup {NoFile})
          /\ Step(p, IF Counts(c) THEN "count" ELSE "view") /\ UNCHANGED held
  /\ UNCHANGED <<disk, cache, world>>

EditCount(p) ==
  /\ pc[p] = "count"
  /\ \E text \in {disk[call[p].path], Empty} :
       /\ Views(call[p].path, text)
       /\ LET c == call[p]
              replaces == Replaced(text, c)
              mismatch == c.expected # NoCount /\ c.expected # replaces
          IN  \/ text[c.old] = 0 /\ Finish(p, "StringNotFound")
              \/ text[c.old] # 0 /\ mismatch /\ Finish(p, "ExpectedCountMismatch")
              \/ text[c.old] # 0 /\ ~mismatch /\ c.dry /\ Finish(p, "dry_run")
              \/ /\ text[c.old] # 0 /\ ~mismatch /\ ~c.dry
                 /\ Step(p, "view") /\ UNCHANGED held
  /\ UNCHANGED <<disk, cache, world>>

\* Replacing nothing is not an error here.
Updated(text, c) == IF text[c.old] = 0 THEN text ELSE Replace(text, c)

\* Mutant: the ceiling is not applied to the edited text.
EditViewUnbounded(p) ==
  /\ pc[p] = "view"
  /\ \E text \in {disk[call[p].path], Empty} :
       /\ Views(call[p].path, text)
       /\ held' = [held EXCEPT ![p] = Updated(text, call[p])]
       /\ Step(p, "stage")
  /\ UNCHANGED <<disk, cache, world>>

\* The text that is edited is viewed again, whatever was counted.
EditView(p) ==
  /\ pc[p] = "view"
  /\ \E text \in {disk[call[p].path], Empty} :
       /\ Views(call[p].path, text)
       /\ LET updated == Updated(text, call[p])
          IN  \/ updated \notin FittingTexts /\ Finish(p, "FileSizeExceeded")
              \/ /\ updated \in FittingTexts
                 /\ held' = [held EXCEPT ![p] = updated]
                 /\ Step(p, "stage")
  /\ UNCHANGED <<disk, cache, world>>

-----------------------------------------------------------------------------
\* The write under the lock, of a write and of an edit.

\* An error ends an edit unless it is a timeout; a write goes to the store.
GiveUp(p) ==
  \/ FallBack(p)
  \/ call[p].op = "edit" /\ Finish(p, "Error")

\* Mutant: a write does not take its text along.
StageForgetsText(p) ==
  /\ (Granted(p) /\ call[p].op = "write") \/ pc[p] = "stage"
  /\ Works /\ Step(p, "swap")
  /\ UNCHANGED <<disk, held, cache, world>>

\* create of the temporary file.
Stage(p) ==
  /\ \/ Granted(p) /\ call[p].op = "write" /\ held' = [held EXCEPT ![p] = call[p].text]
     \/ pc[p] = "stage" /\ UNCHANGED held
  /\ Works /\ Step(p, "swap")
  /\ UNCHANGED <<disk, cache, world>>

StageFails(p) ==
  /\ (Granted(p) /\ call[p].op = "write") \/ pc[p] = "stage"
  /\ Fails /\ GiveUp(p)
  /\ UNCHANGED <<disk, cache, world>>

Settled(p) == IF call[p].op = "write" THEN "ensure" ELSE "verify"

\* mv of the temporary file to the path, if the shell is there.  What it says
\* is not read: after an mv that failed the call goes on as if it had not, at
\* a point of its own here for the properties to tell.
Swap(p) ==
  /\ pc[p] = "swap"
  /\ Preflight
  /\ \/ Raises /\ GiveUp(p) /\ UNCHANGED <<disk, faults>>
     \/ /\ ~Raises /\ ~Ready
        /\ Step(p, "rewrite") /\ UNCHANGED <<disk, faults, held>>
     \/ /\ Ready /\ Creates(call[p].path, held[p])
        /\ Step(p, Settled(p)) /\ UNCHANGED held
     \/ /\ Ready /\ FailsUnread
        /\ Step(p, IF call[p].op = "write" THEN "unswapped" ELSE "verify") /\ UNCHANGED held
     \/ /\ Ready /\ CreateFails(call[p].path, held[p])
        /\ Step(p, "rewrite") /\ UNCHANGED held
  /\ UNCHANGED world

\* Mutant: an error of the direct write is taken for a success.
RewriteSwallowsErrors(p) ==
  /\ pc[p] = "rewrite"
  /\ Creates(call[p].path, held[p]) \/ CreateFails(call[p].path, held[p])
  /\ Step(p, Settled(p)) /\ UNCHANGED <<held, cache, world>>

\* The direct write instead of mv.
Rewrite(p) ==
  /\ pc[p] = "rewrite"
  /\ \/ /\ Creates(call[p].path, held[p])
        /\ Step(p, Settled(p)) /\ UNCHANGED held
     \/ CreateFails(call[p].path, held[p]) /\ GiveUp(p)
  /\ UNCHANGED <<cache, world>>

\* An edit looks whether its text is there.
Verify(p) ==
  /\ pc[p] = "verify"
  /\ \/ Works /\ disk[call[p].path] = held[p] /\ Finish(p, "ok")
     \/ /\ Fails \/ (Works /\ disk[call[p].path] # held[p])
        /\ Step(p, "ensure") /\ UNCHANGED held
  /\ UNCHANGED <<disk, cache, world>>

\* A write always writes once more, an edit if it did not find its text; what
\* comes of it is ignored.
Ensure(p) ==
  /\ pc[p] \in {"ensure", "unswapped"}
  /\ Creates(call[p].path, held[p]) \/ CreateFails(call[p].path, held[p])
  /\ Finish(p, "ok")
  /\ UNCHANGED <<cache, world>>

-----------------------------------------------------------------------------
\* delete, trash and move: no lock, and for the last two no read-only guard.

Delete(p) ==
  /\ Runs(p, "delete")
  /\ Return(p, IF readOnly THEN "SandboxReadOnly" ELSE "SandboxUnsupported")
  /\ UNCHANGED <<disk, files, queue, cache, faults, world>>

\* Whatever goes wrong, a denial included, sends a trash to the store.
TrashStart(p) ==
  /\ Runs(p, "trash")
  /\ Preflight
  /\ IF Ready /\ call[p].path \notin DeniedKeys
     THEN /\ aim' = [aim EXCEPT ![p] = TrashKey(clock, call[p].path)]
          /\ Goto(p, "carry")
     ELSE Goto(p, "store") /\ UNCHANGED aim
  /\ UNCHANGED <<disk, files, queue, held, faults, world>>

\* A move is refused only when the preflight itself raises.
MoveStart(p) ==
  /\ Runs(p, "move")
  /\ Preflight
  /\ \/ Raises /\ Return(p, "Unavailable")
     \/ /\ ~Raises /\ ~(Ready /\ call[p].dst \notin DeniedKeys)
        /\ Goto(p, "store") /\ UNCHANGED <<held, aim>>
     \/ /\ Ready /\ call[p].dst \notin DeniedKeys
        /\ aim' = [aim EXCEPT ![p] = call[p].dst]
        /\ Goto(p, "carry") /\ UNCHANGED held
  /\ UNCHANGED <<disk, files, queue, faults, world>>

\* mv, or else a copy that leaves the source where it is.
Carry(p) ==
  /\ pc[p] = "carry"
  /\ \/ Works /\ disk' = Moved(call[p].path, aim[p]) /\ Step(p, "confirm")
     \/ FailsUnread /\ Step(p, "confirm")
     \/ Fails /\ disk' \in {disk, IF up THEN Moved(call[p].path, aim[p]) ELSE disk}
              /\ Step(p, "copy")
  /\ UNCHANGED <<held, cache, world>>

CopyView(p) ==
  /\ pc[p] = "copy"
  /\ \/ /\ Works /\ disk[call[p].path] # NoFile
        /\ held' = [held EXCEPT ![p] = disk[call[p].path]]
        /\ Step(p, "paste")
     \/ /\ Fails \/ (Works /\ disk[call[p].path] = NoFile)
        /\ Step(p, "confirm") /\ UNCHANGED held
  /\ UNCHANGED <<disk, cache, world>>

CopyPaste(p) ==
  /\ pc[p] = "paste"
  /\ Creates(aim[p], held[p]) \/ CreateFails(aim[p], held[p])
  /\ Step(p, "confirm")
  /\ UNCHANGED <<held, cache, world>>

\* A destination that exists is a success, whoever put it there.
Confirm(p) ==
  /\ pc[p] = "confirm"
  /\ \/ Works /\ disk[aim[p]] # NoFile /\ Return(p, "ok")
     \/ /\ Fails \/ (Works /\ disk[aim[p]] = NoFile)
        /\ Goto(p, "store") /\ UNCHANGED <<held, aim>>
  /\ UNCHANGED <<disk, files, queue, cache, world>>

-----------------------------------------------------------------------------
\* The rest of the world.

\* The executor's timeout cancels the task at whatever await it is.
Cancel(p) ==
  /\ pc[p] # "idle"
  /\ IF pc[p] \in Locked \cup {"locking"}
     THEN \E i \in 1 .. Len(queue[call[p].path]) :
            /\ queue[call[p].path][i] = p
            /\ queue' = [queue EXCEPT ![call[p].path] = RemoveAt(@, i)]
     ELSE UNCHANGED queue
  /\ Return(p, "Cancelled")
  /\ UNCHANGED <<disk, files, cache, faults, world>>

\* A read, ls or mkdir of another task asks for the preflight too.
Probe ==
  /\ Preflight
  /\ UNCHANGED <<disk, files, queue, pc, call, held, aim, result, clock, faults, world>>

\* The sandbox goes away, or comes back.
Flip ==
  /\ flips < MaxFlips
  /\ flips' = flips + 1 /\ up' = ~up
  /\ UNCHANGED <<disk, files, queue, pc, call, held, aim, result, clock, cache, faults,
                 mode, readOnly>>

Tick ==
  /\ clock < MaxClock
  /\ clock' = clock + 1
  /\ UNCHANGED <<disk, files, queue, pc, call, held, aim, result, cache, faults, world>>

Run(p) ==
  \/ StoreCall(p) \/ StoreRead(p) \/ StorePut(p)
  \/ WriteStart(p) \/ EditStart(p) \/ Delete(p) \/ TrashStart(p) \/ MoveStart(p)
  \/ EditSize(p) \/ EditCount(p) \/ EditView(p)
  \/ Stage(p) \/ StageFails(p) \/ Swap(p) \/ Rewrite(p) \/ Verify(p) \/ Ensure(p)
  \/ Carry(p) \/ CopyView(p) \/ CopyPaste(p) \/ Confirm(p)

Next ==
  \/ \E p \in Procs : Run(p) \/ Cancel(p) \/ \E c \in Calls : Issue(p, c)
  \/ Probe \/ Flip \/ Tick

Spec == Init /\ [][Next]_vars

-----------------------------------------------------------------------------
\* Properties.

\* The typing of the state; a task has a destination only on its way there.
TypeOK ==
  /\ disk \in [Keys -> Contents \cup {NoFile}]
  /\ files \in [Keys -> Contents \cup {NoFile}]
  /\ queue \in [Keys -> Seq(Procs)]
  /\ pc \in [Procs -> {"idle", "called", "locking", "store", "putting", "carry", "copy",
                       "paste", "confirm"} \cup Locked]
  /\ call \in [Procs -> Calls \cup {NoCall}]
  /\ \A p \in Procs : call[p] = NoCall <=> pc[p] = "idle"
  /\ held \in [Procs -> Contents \cup {NoFile}]
  /\ \A p \in Procs : pc[p] \in {"stage", "swap", "rewrite", "verify", "ensure", "unswapped",
                                "paste", "putting"} => held[p] # NoFile
  /\ aim \in [Procs -> Keys \cup {NoCall}]
  /\ \A p \in Procs : pc[p] \in {"carry", "copy", "paste", "confirm"} => aim[p] \in Keys
  /\ result \in [Procs -> Outcomes \cup {"SandboxReadOnly", "SandboxUnsupported",
                                         "Unavailable", "Error"}]
  /\ ready \in {"yes", "no", "unknown"} /\ checked \in 0 .. clock /\ clock \in Clock
  /\ up \in BOOLEAN /\ readOnly \in BOOLEAN /\ mode \in Modes
  /\ flips \in 0 .. MaxFlips /\ faults \in 0 .. MaxFaults

\* However a call leaves the sandbox (a refusal, an error, a timeout that goes
\* on in the store, a cancellation), the lock of its path goes with it.
LocksMatchTasks ==
  /\ \A k \in Keys : \A i \in 1 .. Len(queue[k]) :
       /\ pc[queue[k][i]] \in Locked \cup {"locking"}
       /\ call[queue[k][i]].path = k
       /\ \A j \in 1 .. Len(queue[k]) : queue[k][i] = queue[k][j] => i = j
  /\ \A p \in Procs :
       /\ pc[p] \in Locked \cup {"locking"} => \E i \in 1 .. Len(queue[call[p].path]) :
                                                  queue[call[p].path][i] = p
       /\ pc[p] \in Locked => Head(queue[call[p].path]) = p

\* Nothing above the byte ceiling is in the store, nor on the disk but what the
\* sandbox came with, whatever was viewed, lost or copied on the way.
ByteCeiling ==
  LET brought == {seed[k] : seed \in DiskSeeds, k \in Paths}
  IN  \A k \in Keys : /\ files[k] \in FittingTexts \cup {NoFile}
                      /\ disk[k] \in FittingTexts \cup {NoFile} \cup brought

\* Task p takes a step of the trash of an allowed path.
Trashes(p) ==
  /\ call[p] # NoCall /\ call[p].op = "trash" /\ call[p].path \notin DeniedKeys
  /\ pc'[p] # pc[p]

\* A denied key gains no text, in the sandbox or in the store, although a denial
\* met in the sandbox sends a trash or a move on to the store: but by the trash
\* of an allowed path, which asks the policy about no key in the trash.
DeniedNeverWritten ==
  [][\A k \in DeniedKeys :
       /\ disk'[k] \notin {disk[k], NoFile} =>
            \E p \in Procs :
              /\ Trashes(p) /\ pc[p] \in {"carry", "paste"} /\ aim[p] = k
              /\ disk'[k] = IF pc[p] = "carry" THEN disk[call[p].path] ELSE held[p]
       /\ files'[k] \notin {files[k], NoFile} =>
            \E p \in Procs :
              /\ Trashes(p) /\ pc[p] = "store" /\ TrashKey(clock, call[p].path) = k
              /\ files'[k] = files[call[p].path]]_vars

\* The paths that no trash or move of the instance touches: these take no lock.
Unmoved == {k \in Paths : \A c \in Calls :
              /\ c.op = "trash" => c.path # k /\ \A ts \in Clock : TrashKey(ts, c.path) # k
              /\ c.op = "move" => k \notin {c.path, c.dst}}

\* Task p's write of such a path ends with success.
Acknowledges(p) ==
  /\ call[p] # NoCall /\ call[p].op = "write" /\ call[p].path \in Unmoved
  /\ result'[p] = "ok" /\ call'[p] = NoCall

Left(p) == call[p].text \in {disk'[call[p].path], files'[call[p].path]}

\* A write that reports success has left its text in the sandbox or in the
\* store, whichever of its steps failed or lost their answers: but for an mv
\* that fails without raising, after which the last write's failure counts
\* for nothing either.
AckedWriteKept == [][\A p \in Procs : Acknowledges(p) /\ pc[p] # "unswapped" => Left(p)]_vars

\* What "Ensure content is present" (fs_access.py:667) is there for: whatever
\* failed before, a write that reports success has left its text.  False.
ContentPresent == [][\A p \in Procs : Acknowledges(p) => Left(p)]_vars

\* In the read-only mode only trashes and moves change the disk.
ReadOnlyGuards ==
  [][readOnly /\ mode # "skip" /\ disk' # disk =>
       \E p \in Procs : call[p] # NoCall /\ call[p].op \in {"trash", "move"}
                          /\ pc[p] \in {"carry", "paste"} /\ pc'[p] # pc[p]]_vars

\* Where the sandbox is mandatory, nothing is done in the store instead while
\* the sandbox is away.
ForceNeverFallsBack == [][mode = "force" /\ ~up => files' = files]_vars

\* An edit that was told how many replacements to expect writes a text that
\* its path has with that many replacements made.
ExpectedCountHonored ==
  [][\A p \in Procs :
       pc[p] = "view" /\ pc'[p] = "stage" /\ call[p].expected # NoCount =>
         LET c == call[p]
             text == disk[c.path]
         IN  /\ text # NoFile /\ text[c.old] # 0
             /\ Replaced(text, c) = c.expected /\ held'[p] = Replace(text, c)]_vars
=============================================================================
