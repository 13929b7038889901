# TLA+ verification of inspect_agents

`src/inspect_agents` builds LLM agents on top of the `inspect_ai` framework: an agent loop with
budgets, a conversation that is pruned, tools over a virtual file system, policies that approve or
reject tool calls, a runner with limits; `examples/vending_bench` is a simulated business its agents are
measured on. This directory holds TLA+ models of the parts of it whose correctness depends on
the order of events, the TLC instances that check them, and theorems about them that TLAPS checks.

Contents: [inventory](#inventory) · [modules](#modules-and-the-code) · [runs](#runs) ·
[what the counterexamples show](#what-the-counterexamples-show) · [bounds](#bounds) ·
[fairness](#fairness) · [proofs](#proofs) · [limits](#not-modelled-and-only-model-checked) ·
[plan](#plan)

## Inventory

Everything runs in one asyncio event loop per sample. A task runs undisturbed from one `await` that
suspends to the next; that is the grain of atomicity of every module here. The mutable state is the
`Store` of the sample (files, todos, the active input filter), a few module globals (file locks, the
preflight cache), the messages of each agent, and files on disk.

| Component | State | Operations | Hard part | What makes it correct |
|---|---|---|---|---|
| Store-backed files (`files_ops_store.py`, `state.py`, `tools_files.py`) | `Files.files`, `_FILE_LOCKS` | write, edit, delete, trash, move, and reads | concurrent calls, locks across awaits, cancellation by the executor's timeout | each call takes effect at one point or is refused for a true reason; no lock leaks; size ceiling; path policy |
| Sandbox files (`fs_access.py`, `fs_adapter.py`, `fs.py`) | the disk of the sandbox, the preflight cache | the same calls as scripts of editor and shell calls | a script fails in the middle or loses an answer; fallback to the store; operations without lock | an acknowledged write is kept; read-only and force mode are honoured; policy and ceiling on both sides |
| Iterative agent (`iterative.py`, `iterative_runtime.py`, `_model_retry.py`) | `state.messages`, step, clocks | the loop: budgets, pruning, call of the model with retries, tools | time budget against retries and timeouts, overflow, termination | bounded history, bounded overrun, termination, a handoff runs alone |
| Conversation pruning (`_conversation.py`) | none (pure) | `prune_messages`, `_prune_history` | two prunings, each with its own notion of an orphan, applied in turn | results follow their calls; the task is kept |
| Approvals (`approval/`) | none of their own; they read the transcript and the environment | policies, presets, chains, interrupt configuration | the order of policies under "first that does not escalate decides"; nested delegations | exclusivity of handoffs, one call per turn, gates on sensitive tools |
| Quarantine filters (`filters.py`) | the mode in the Store | choice and application of a filter at a handoff | the mode recorded for one handoff is read by later ones | a handoff nested in another is filtered as that one was |
| Replay of side effects (`migration.py`) | files and todos | the calls beside a `submit` are executed again, then a fallback writes what seems missing | a second execution, a denial in the middle, a fallback around the tools | what a submit lets land; a replay of calls that were done changes nothing; a denial is not worked around |
| Transcript log (`logging.py`) | JSONL file with a hash chain | append, continue a chain, verify | crash in the middle of a line, two writers | a log of calls that did not meet verifies, an altered one does not |
| Todos (`state.py`, `tools.py`) | `Todos.todos` | write, update status | allowed transitions, executed twice by a replay | the status is not moved on by a replay |
| Runner (`run.py`) | the environment, the timer task | applies a profile, activates approvals, starts a timer before the limits | timer against the end of the run | the result reaches the caller; the warning comes in time and once |
| Construction and configuration (`agents.py`, `tool_presets.py`, `profiles.py`, `model.py`, `config.py`, `agent_config.py`, `iterative_config.py`, `settings.py`) | the environment of the process | build agents with the tools the toggles allow; resolve a model | one run's profile is the environment of the next build | what an agent may be built with |
| Vending simulator (`examples/vending_bench`: `env.py`, `state.py`, `supplier.py`, `demand.py`, `tools.py`, `integrations.py`) | `SimulatorState`, the contacts of searches | the tools of the agent, each with the time that passes in it; the morning | a tool that runs into the next day; a tool that fails half way | units and money are conserved; nothing is overdue |
| Vending memory (`memory.py`, `run.py`, `runtime.py` of the same) | `MemoryStore`, its checkpoint on disk | notes, summaries, key-value pairs, vectors, save, resume | crash, a disk that refuses, an embedding that fails half way | no note is lost; ids stay unique; a resume gives the exact memory |
| Telemetry (`telemetry.py`, `observability.py`, `files_instrumentation.py`) | counters | log lines | nothing depends on them | - |

How they interact: an agent loop calls `execute_tools` of `inspect_ai`, which asks the approval chain
about every call and then runs the tool; the file tools go through the facade, which picks the
sandbox or the store; a handoff runs another agent's loop inside the call, with filters on what it
sees; all agents of a sample share the Store. The deep agent replays the calls of its last message on
that Store. Runs in one process share its environment, which a profile writes and a build reads. The
vending agent's tools share one simulator state, each as a step of its own, and one memory. `hazards` in PROJECT.json lists, line by line, what can
go wrong there that a test would hardly reach, with the property that covers it.

## Modules and the code

| Module | Stands for |
|---|---|
| `FileContents` | the data of the file operations: texts, sizes, replacement, path policy, the calls |
| `AtomicFiles` | the abstract specification: a call takes effect in one step, a move in two, or is refused for a reason that is true at that step |
| `FilesStore` | the store-backed operations with their locks; refines `AtomicFiles` |
| `FilesStoreProofs` | its theorems |
| `SandboxFiles` | the operations in sandbox mode; falls back to the steps of `AtomicFiles` |
| `SandboxProofs` | its theorems |
| `SandboxRead` | a read in sandbox mode: chunks, views, the store in the end |
| `SandboxReadProofs` | its theorems |
| `Conversation` | messages, `_prune_history`, `prune_messages` |
| `IterativeAgent` | the loop of `execute()` with `generate_with_retry_time`; uses `Conversation` |
| `IterativeProofs` | theorems of both |
| `Approvals` | the policies, the presets and chains, under the engine and the nesting of delegations |
| `Quarantine` | the mode a handoff is filtered by, what it records, what crosses |
| `DeepAgent` | the deep agent's turns, sub-agents, replay and fallback; uses `Quarantine` |
| `DeepAgentProofs` | theorems of both |
| `TranscriptLog` | the hash-chained log: appends, crashes, alterations, verification |
| `ModelResolution` | the ladder of `resolve_model_explain` |
| `Runner` | environment, builds, runs and timers of one process; uses `ModelResolution` |
| `RunProofs` | theorems of `Approvals`, `Runner` and `TranscriptLog` |
| `Vending` | the vending simulator |
| `NoteKeeper` | the abstract specification of a checkpointed memory |
| `VendingMemory` | the agent's memory and its checkpoint; refines `NoteKeeper` |
| `VendingProofs` | theorems of `Vending` and `VendingMemory` |
| `DataLemmas` | what the proofs need of sequences, folds along a sequence and sums over a finite set |
| `MC*` | the constants of the TLC instances |

**FilesStore.** `files` is the dictionary of `Files`, `queue[k]` the anyio lock of path `k` with its
owner at the head. A text is abstracted to how often each token occurs in it, which is what
`old in text`, `count`, `replace` and the byte length tell apart. `TrashKey` strips leading slashes as
`trash_store` does (`Stripped`), and `Paths` may include keys of the trash, since a caller names a file by any
string: a copy can be written, edited, deleted and moved onto. The only suspending await of these
operations is the acquisition of a lock, so each has a `Start` step (up to it) and a `Finish` step
(after it); delete and trash take no lock and are one step. `Cancel` is the executor's timeout.

**SandboxFiles.** `disk` is the file system of the sandbox. Every call of the editor or the shell is a
step which works, fails, or has its effect while the answer is lost (`Works`, `Fails`, `AnswerLost`);
`up` says whether the sandbox answers at all, `ready` and `checked` are the preflight cache. Write and
edit share the steps from the temporary file on (`Stage`, `Swap`, `Rewrite`, then `Ensure` for a write,
`Verify` and perhaps `Ensure` for an edit); trash and move share `Carry`, `CopyView`, `CopyPaste`,
`Confirm`. `StoreCall`, `StoreRead` and `StorePut`, what a call falls back to, are the steps of
`AtomicFiles`, which `FilesStore` is shown to implement: a step may come at any moment at which the lock of the
store would let it, and at others too. The temporary file itself is not in `disk`. `Probe` is a read, ls or mkdir of another task: it changes
nothing but the preflight cache; what a read answers is in `SandboxRead`. Nobody reads what `mv` says, so an `mv`
that fails without raising is taken for one that worked (`FailsUnread`, in `Swap` and `Carry`); a write goes on
from there at a point of its own, `unswapped`, which the properties tell apart and the code does not.

**SandboxRead.** A text is a sequence of lines; every call of the shell or the editor is a step, and other
tasks replace the file between two of them. `read.out` holds the lines of the chunks so far, from which
`NextLine` and `Wanted`, the code's `current_line` and `lines_to_read`, follow. Blank lines at the end of
an answer are left out of it.

**Conversation, IterativeAgent.** A message is its role, the calls of an assistant message, the call a
result answers, and a text reduced to what the code recognises in it (the overflow hint, a stop
keyword). One action is all that happens between two awaits: `BeginStep` up to the call of the model,
one action per way an attempt of that call can end, `ToolsEnd` or `ToolsTimeOut` for the tools. Time
passes during attempts, backoff and tools only.

**Approvals.** A chain is a sequence of policies, and each policy is a function of the message found
by `_last_assistant_with_calls`, the environment's kill switch and the call. `agents` is the stack of
agents: a handoff that is applied pushes the sub-agent, whose messages the policies then find before
those of the caller. The late binding of the closure in `approval_from_interrupt_config` is modelled
as the code has it: every policy looks at the last entry.

**DeepAgent, Quarantine.** `Answer`, `ExecuteCall`, `NextTurn`, `Return` are the library's agent, which
may execute the calls beside a submit or skip them; `ReplayCall`, `ReplayRaises`, `Replayed`,
`Fallback` are `_apply_side_effect_calls`. `Effect` is what a tool does to the two stores: the policy and
the limit are the tool's. The fallback works around them: it looks at the default store and writes there
whatever instance a call names (`Home`), asks neither policy nor approver, writes a text it cannot
measure (`Unencodable`; that the store takes such a text is assumed), and writes the valid rest of a list the tool refused (`spoilt`). `verdicts`
holds what the approver answered to each call of the message, in the first pass and in the replay. A
rejection is a tool message (`approval/registry.py:186-193` writes such an error record), and `execute_tools` goes on;
`ReplayRaises(TRUE)` is a denial that is raised, the one `_apply_side_effect_calls` looks for. `stack` holds the sub-agents at work:
a handoff is filtered by `HandoffMode` and leaves `RecordedMode` in the store, and `SubReturn` takes
nothing back.

**TranscriptLog.** A hash is the sequence of what was hashed, so equal hashes come from equal chains.
A line reaches the file in two parts because a buffer is flushed where it is full. Every call writes
all the events of its sample again, which is what the code does. An event json cannot write is hashed as `{}`
(`Nothing`) and leaves a minimal record (`Bare`); `Alter` puts any of `Forgeries` in the place of an event, these two
included.

**Runner, ModelResolution.** `env` holds what a profile writes: toggles, which it overwrites, and the
guards of host isolation, which it sets where nothing is set. `Suspend` is the first time a run gives
up the event loop; the timer's task begins then, and a timer cancelled before has nothing to catch the
cancellation (`Cancelled`). A model is a provider and a tag.

**Vending.** A tool is one action: it changes `sim`, then `Passes` lets its minutes go by, and if the day
is over `Morning` does what `_process_morning_flow` does, in its order. Amounts are whole numbers,
demand is any number up to a bound, an e-mail is what the supplier reads in it. `bought` is a history
variable.

**VendingMemory.** An operation that saves is two steps, before and at the replacement of the
checkpoint by the temporary file (`Persist`): a crash or a full disk comes in between. `Summarise` with
an embedding that fails is the one operation that returns with the memory changed and not saved
(`dirty`). `NotesOf` reads the notes of `NoteKeeper` out of a memory: those in the scratchpad, those a
summary there stands for, and the texts of the vector store.

## Runs

| Run | Shows |
|---|---|
| `store` | two tasks, every operation, cancellations, two seconds, a path with a leading slash, callers that name a copy in the trash: types, `LocksMatchTasks`, `ByteCeiling`; only the trash of an allowed path gives a denied key a text (`DeniedNeverWritten`); a copy in the trash is lost only to a call that names it or to a trash in its second that shares its key (`TrashCopiesKept`); the operations implement `AtomicFiles` (`AtomicSpec`: edits drop the lock before they write, deletes and trashes take none, a move reads before it waits); every call ends (`CallsEnd`) |
| `sandbox` | two tasks in sandbox mode, one change of the sandbox's availability, one failing call, denied trashes and moves that go on in the store: locks, ceiling, `DeniedNeverWritten` on both sides, `AckedWriteKept` (but after an `mv` that failed without raising), `ReadOnlyGuards` |
| `sandbox_read` | a read in chunks while the file is replaced and calls fail: an undisturbed read is exact wherever its chunks end (`QuietReadExact`), every line of a disturbed one has the number it had in the file (`NumberedRight`) |
| `iterative` | four steps, both prunings, overflows, several calls to a message, the pre-scan, under a time budget with retries, backoff and timeouts: `ResultsFollowCalls`, `HistoryBounded`, `HandoffRunsAlone`, `TaskKept`; `OverrunBounded` says by how much the budget can be overrun; `Terminates` |
| `approvals` | every chain of the presets and some a caller may build, every message of up to three calls, nested delegations: `FirstHandoffRunsAlone`, `OneCallPerTurn` |
| `approvals_gates` | *violated*: `SensitiveGated` |
| `vending` | every tool over four days, restocks and orders that fail, any demand: units and money are `Conserved`, orders and answers come in the morning of their day (`NothingOverdue`), `SlotsInOrder` |
| `vending_memory` | crashes, resumes, a disk that refuses, an embedding that fails: `KeepsNotes` (refinement of `NoteKeeper`), `IdsUnique`, `ResumeExact` |
| `deep_agent` | two turns of any two calls, sub-agents two deep, approvals given and refused, a file of an instance, a text that does not encode, a list with a wrong item: the writes that nothing forbids land (`SubmittedWritesLand`), `ReplayHarmless`, `CascadeFollowsParent` |
| `deep_agent_denied` | *violated*: `DenialsHold` |
| `transcript_log` | two writers, crashes, events that json cannot write, an alteration: `HonestVerifies` (no crash, overlap or such event), `AlterationShows` (every change but that of a minimal record's event to `{}`) |
| `runner` | two runs with profiles, toggles, model requests and time limits: `Delivered`, `WarnedInTime`, `BuiltAsAllowed` |

The type invariants of `Vending`, `VendingMemory` (`MemoryTypes`) and `SandboxRead` hold on these instances
too; they are not listed in the runs, and the first two are proved. `IterativeHistory.cfg` is a longer instance of `iterative` without the time.

Each property of a passing run has a mutant in PROJECT.json: a definition of the model changed as a
plausible bug would change the code, with which TLC must find the property violated. The mutated
forms stand right before the definitions they replace and are used nowhere else.

## What the counterexamples show

`approvals_gates` and `deep_agent_denied` are listed runs. The other configurations below are kept beside them and run by hand
(`tlc -config <file> <MC module>`); each stops at a violation of its one property. Where the file named is one of
a passing run, its properties are to be replaced by the one in question.

- `SensitiveGated` (run `approvals_gates`): in the `dev` and `prod` presets the exclusivity policy comes
  first and approves every message without a handoff, so the gates behind it are never asked.
- `DenialsHold` (run `deep_agent_denied`): a submit with a write beside it; the approver rejects the write in the
  replay. `execute_tools` answers a rejection with a tool message and raises nothing, so the replay counts as done, and the
  fallback writes the file. `docs/design/open-questions.md:406`: "add tests simulating approval denials to
  ensure no Store mutation occurs". The test there is stubs an exception, the one form of a denial that skips the fallback.
- `PolicyHolds` (`FilesStorePolicy.cfg`): `trash_store` asks the policy about the path and not about the key it moves
  the text to, so with an allow list that names the path alone a key outside it is written. The sandbox does the same on disk.
- `ContentPresent` (`SandboxFilesWrite.cfg`): `bash` does not raise when `mv` fails, and the write at "Ensure content is
  present" (`fs_access.py:667`) ignores its own failure. After both a write reports success and its text is in neither place.
- `PerToolConfig` (`ApprovalsInterrupts.cfg`): each approver made from an interrupt configuration decides
  by its last entry.
- `MoveIsAtomic` (`FilesStoreMove.cfg`): `move_store` reads the source and then waits for its lock. An
  edit that finishes meanwhile is lost both at the source and at the destination. `AtomicSpec` says that nothing
  worse can happen: a move puts the text its source had at one moment of the call, and takes the source away.
- `ForceNeverFallsBack` (`SandboxFilesForce.cfg`): with `INSPECT_SANDBOX_PREFLIGHT=force` a failed check
  raises, but is cached first; until the time to live is over the cached "not ready" is returned and
  calls are done in the store, which `force` is documented to rule out.
- `ExpectedCountHonored` (`SandboxFilesEdit.cfg`): `_edit_sandbox` counts in one view of the file and
  edits another. When a trash moves the file away in between, the second view is an error, which
  counts as an empty text; the edit creates an empty file and reports success.
- `ReadComplete` (`SandboxReadEdges.cfg`): a chunk that ends with blank lines loses them to `rstrip`, has
  fewer lines than asked for then, and is taken for the last one (`fs_adapter.py:122`: "If we got fewer
  lines than requested, we've reached EOF"): the read reports success without the rest of the file.
- `NumberedDespiteFailure` (`SandboxReadRepeat.cfg`): when a chunk fails, `view_chunks` reads everything again
  from the first line (`fs_adapter.py:129`) behind the chunks it has yielded already: lines come twice.
- `PairingHonored` (`IterativePairing.cfg`): a pruning can leave the model an assistant message with calls
  that have no result.
- `ReplayIdempotent` (`DeepAgent.cfg`): calls that were executed do more when they are replayed: an
  edit finds its old string again in its new one, the fallback writes a text that a later edit has
  replaced, a status that could not be set in the first pass is set in the second, a write the tool refused or made in an
  instance is made in the default store. `docs/design/open-questions.md:433`: "Idempotency is addressed; fallbacks are
  skipped when side effects are already applied." `ReplayHarmless` says for which calls that is so.
- `NestedInherits` (`DeepAgent.cfg`): the mode in the store is that of the last handoff that was
  filtered by default, a sibling perhaps, and an explicit filter records none; so a nested handoff may
  get another mode than the one it is nested in, against
  `docs/design/deepagents_implementation_prompts.md:90`. `CascadeFollowsParent` says when it does inherit.
- `AnyAlterationShows` (`TranscriptLog.cfg`): the minimal record of an event json could not write carries the hash of
  `{}`; when its event is replaced by `{}` the record verifies, while it did not before.
- `ResultDelivered` (`RunnerResult.cfg`): if a run with a time limit ends without suspending once, its
  timer's task is cancelled before it begins, the `await` of it raises `CancelledError`, and the caller
  loses the result. `run.py:23`: "By default this returns only the agent state".
- `GraceHonored` (`VendingGrace.cfg`, with three days of grace): `_update_negative_balance_days` is called at
  every change of the balance, so a collection in the middle of the day counts another negative day.
  `tests/unit/vending_bench/test_env.py:251`: "Bankruptcy should only trigger after 10 consecutive
  negative days."

More differences were met while modelling and have no run:

- The guard of `stop_on_keywords` looks at the last message, which after an answer without calls is the
  "Please continue." just appended: it fires on the last step of a run with a message cap, or after a
  handoff, only.
- The timeout of a call of the model is computed once and given to each of its attempts, so "avoid
  overruns" holds only up to `OverrunBounded`.
- A move of a path onto itself deletes the file in the store and reports success (`files_ops_store.py:636`);
  in the sandbox `mv` refuses it and the file stays.
- Trash and move have no read-only guard (`ReadOnlyGuards` excludes exactly these).
- Around a submit the fallback also makes writes the path policy denied, writes to the default store what was written to an
  instance, writes a text that does not encode without the test of the size (`migration.py:186`), and writes the valid
  rest of a list of todos that the tool refused (`migration.py:144`, `:194`).
- Two paths that differ in leading slashes only share their keys in the trash (`files_ops_store.py:545`), and nothing keeps a call
  from writing, deleting or moving onto a copy there.
- A profile writes its toggles over what the caller has set, against the docstring at
  `profiles.py:55`; the sandbox variables, set only where nothing is set, stay those of the first profile.
- An unknown provider without a model becomes the default provider (`Ladder`).
- After a search has found a live supplier, the built-in ones no search returned are no longer answered
  for (`Known`; `supplier.py:225`), and orders to them vanish in the outbox.
- The conditions of termination of the simulator are recorded and stop nothing (`env.py:168`).
- `kv_set` strips its key and `kv_get` does not (`memory.py:813`), so a key with blanks is not found again.

## Bounds

- Store and sandbox: two tasks are enough for every conflict here, since a path has one lock and the
  operations without a lock interfere in pairs; the proofs drop the bound. The paths: one that is edited, trashed
  and moved, one denied, the copy of the first in the trash as a name callers use, and in the store the first with a
  slash before it, in the sandbox one that no trash or move touches. One key of the trash is denied. Texts of two tokens with sizes 1
  and 2 under a ceiling of 3, so that replacing one occurrence fits and two do not; in the sandbox one
  file is above the ceiling from the start. `MaxClock` 1 gives two seconds, which is what trash keys
  tell apart; the sandbox run has two seconds (a cached answer is used, and expires) and one change of
  availability and one failure, which reaches every error path at least once. How a call ended changes nothing of what follows, so states that
  differ in that only are one (`ApartFromResults`). The moves there take a copy out of the trash, or aim at the denied
  path, which sends them on to the store; all others are in the theorems. That run is done for
  the modes skip and force: auto differs from force in not raising on the first failed check.
- Sandbox read: chunks of two lines and texts of two to six, so that texts and limits end inside, at and
  behind a chunk; two other contents during a read, in any order and any number of times; three failing
  calls, which is all it takes to reach the store.
- Iterative agent: four steps with a window of four messages make the window cut exchanges in the
  middle, exceed the threshold of five and overflow at every point; three attempts with backoff 1 and
  2 under a limit of three seconds exceed the limit in each of the possible ways.
- Vending: three slots, two products of two sizes, one of which needs two slots; three suppliers, one of
  them built in, one without a price and a minimum, one with its lead time the wrong way round; four days
  of two ticks and two e-mails, so that every tool runs into a morning, a delivery is under way over
  one, and three negative days are reached. Capacities 1 and 2 with quantities 1 and 2 make restocks
  exceed them and sales empty slots.
- Vending memory: five ids are two notes and two summaries of which one fails to be embedded, or a note, a
  text and a summary with its vector; one key and two days let a value expire between two operations. Any number of crashes.
- Deep agent: two calls beside a submit conflict in every possible way, one turn before them is
  enough to prepare the stores; depth two has a parent, a sibling and a nested handoff. A file has its namesake in
  one instance; of texts one is too large and one does not encode; one list has a wrong item, one is empty. A sub-agent makes one
  call, the write of `f` or a handoff, which is enough to change what the supervisor's calls find.
- Transcript log: three calls of two writers with two events fork the chain, overlap, crash in the
  middle of a line and append behind the damage; one flush per call cuts a buffer at every point. An event is changed to
  another one or to `{}`.
- Runner: two runs, so that one's profile meets the other's build; a limit of two seconds leaves the
  warning one before it. The model environments are all combinations of a mapping, a model, a provider
  and a key.
- Approvals: three calls to a message, two levels of delegation and a bounded number of turns; every
  subset of sensitive, ordinary and handoff calls occurs.

## Fairness

- `FilesStore!FairSpec`: weak fairness of every task's own steps. The event loop runs each task that
  is ready, anyio's lock is handed over in the order of arrival, and nothing in an operation waits
  for anything but the lock. Cancellation and new calls are not fair.
- `IterativeAgent!FairSpec`: weak fairness of the loop as a whole. Attempts and tools end or time out;
  *which* way they end is left open. `Terminates` assumes a step limit; without any limit the code
  may run for ever.
- No other module states fairness, and none of their properties needs it: what they say holds at every
  moment, also when everything stops there.

## Proofs

All theorems are for every value of the constants that satisfies the named assumptions
(`DataAssumption`, `SandboxAssumption`, `ReadAssumption`, `AgentAssumption`, `HistoriesAssumption`,
`ConversationAssumption`, `ApprovalsAssumption`, `ModelAssumption`, `RunnerAssumption`, `LogAssumption`,
`QuarantineAssumption`, `DeepAssumption`, `VendingAssumption`, `MemoryAssumption`), which TLC also evaluates on the
instances. They type the constants (what a text, a call or a message may be), say that the names the
code keeps apart are different, and, in `HistoriesAssumption`, what conversation an agent is started
with. Every safety property of a passing run is a theorem.

| Theorem | Argument |
|---|---|
| `FilesStoreProofs!TypeCorrect`, `LocksNeverLeak` | type correctness and `LocksMatchTasks` are inductive together: a step of a task at the head of a queue needs to know that it is there once, a cancellation that it is there at all |
| `FilesStoreProofs!CeilingHolds` | needs in addition that the text a move carries (`seen`) is within the ceiling, and that a write which has passed its check still fits when it gets the lock |
| `FilesStoreProofs!DeniedStaysUnwritten` | an action property, of every key: from the invariant that a task waiting for a lock with a write or a move has passed the policy check. The trash of an allowed path is excepted, with the text and the key it moves |
| `FilesStoreProofs!TrashCopiesSafe` | an action property: a step that changes a copy ends a call with success, and the call names the copy as its path or its destination, or is a trash whose key in that second is the copy's |
| `FilesStoreProofs!AtomicRefinement` | every step is a step of `AtomicFiles` or a stutter: a `Start` that takes a lock stutters, except that of a move, which reads; a `Finish` applies or refuses. Needs `OnlyMovesCarry`: what a task has in its hands at a lock was read by a move, and only a move reads |
| `SandboxProofs!TypeCorrect`, `LocksNeverLeak`, `CeilingHolds` | one invariant: types, `LocksMatchTasks`, the ceiling and `Checked`. The lock is kept over several calls of the sandbox, so what was checked before the first of them (policy, read-only mode, size) has to be carried along at every later point, and what a trash or move carries in its hands has to come from the disk, or in the store from the store |
| `SandboxProofs!DeniedStaysUnwritten`, `ReadOnlyMode` | action properties from that invariant: a step that changes the disk is one of a task past its checks, or of a trash or move |
| `SandboxProofs!AckedWritesStay` | an action property; needs `WrittenStays`: between the step that puts a written text on the disk and the last check of the write, nothing takes it away, because other writers of the path wait for the lock and no trash or move names it. After an `mv` that failed without raising nothing need have put it there: the excepted case |
| `SandboxReadProofs!LinesKeepTheirNumbers` | `Placed`: the n-th line of the chunks so far is the n-th line of one of the texts there were, counted from the line asked for; if a chunk failed nothing was read before it |
| `SandboxReadProofs!QuietReadsAreExact` | `Exact`: while nothing comes in the way the chunks are a whole number of full ones, and the lines of the file. `ChunkExact` is the core: a chunk shorter than asked for leaves only blank lines unread, unless it ends with a blank line where a full chunk would end |
| `IterativeProofs!TypeCorrect`, `ResultsStayAfterCalls`, `HandoffsAlone` | `ConversationInv`: every result comes right after the message with its call and once, every call number in the history belongs to a step so far, before the model answers to an earlier one, and the last message awaits its tools. Each pruning and each cut is shown to keep it; results that lost their call go with it. `ResultsStayAfterCalls` assumes the pre-scan: without it the messages of a handoff come between a call and its result |
| `IterativeProofs!HistoryStaysBounded` | from the bound each of the two prunings leaves, and the room the loop makes before it calls the model |
| `IterativeProofs!TaskNeverLost` | an action property: what a pruning keeps begins with the system prompt and contains the first user message as the first |
| `IterativeProofs!Overrun` | `BudgetInv`: the backoff counted against the budget is time that passed; the k-th failed attempt leaves room for the next one; the tools' timeout ends within the bound |
| `RunProofs!TypeCorrect` | a recorded decision is never `escalate` (lemma `NeverEscalates`): the engine takes the first policy for the function that does not escalate, and rejects a call that none decides |
| `RunProofs!Exclusivity`, `Serial` | every decision recorded in a frame is the chain's decision about that frame's calls; the policy at the head of the chain decides, whatever follows it |
| `RunProofs!ResultsDelivered`, `WarnsInTime`, `BuildsAllowed` | `Kept`, what the phase of a run and the state of its timer are to each other (a run that has suspended has a timer that catches its cancellation; a timer sleeps only while its run goes on), and `TurnedOff`, what the environment is while the last profile stands |
| `RunProofs!HonestLogsVerify` | `InOrder`: without damage (a crash, an overlap of calls, an event json cannot write) one call is at work, and the file with what that call has still to write verifies. `VerifiesGood` replaces the fold of `Verify` by a condition on neighbouring lines |
| `RunProofs!AlterationsShow` | `Traced`: the file holds parts of honest records until one is changed; the changed line still parses, so nothing is ever appended to it, and it stays `Forged`: its hash is not that of its event. That of a minimal record is the hash of `{}`, the one excepted change |
| `DeepAgentProofs!TypeCorrect` | that no file with a size is above the limit is part of the types; of the texts the fallback writes one either passed its test or does not encode |
| `DeepAgentProofs!CascadesFollow` | `Nesting`: every sub-agent but the innermost has handed off, and the mode in the store is the innermost one's until it hands off |
| `DeepAgentProofs!WritesLand` | what the fallback applies, by induction over its fold: a write that no other call of the message touches is pending until it is applied, or there already. That it lands is said of writes nobody rejected and the policy permits, in the default store, of a text the tool takes |
| `DeepAgentProofs!ReplayDoesNoHarm` | `Harmless`: a call that was executed and does nothing the second time stays so while other calls of that kind are executed (`StillOnceDone`, `StillApart`), so the replay changes nothing, and the fallback changes nothing either: what it finds pending of such `Plain` calls it refuses as the tool did |
| `VendingProofs!TypeCorrect`, `UnitsAndMoneyConserved`, `NothingWaits`, `SlotsStayInOrder` | `Books`: for each product the units bought are those under way, in storage, in slots and sold; the worth of everything and what was spent is the starting cash; orders are on time; slots are proper. The sums over orders, slots and days are compared before and after each tool, and each part of the morning |
| `VendingProofs!MemoryTypeCorrect`, `IdsNeverReused`, `ResumeIsExact` | `MemoryInv`: memory and checkpoint are each sound, the ids of the scratchpad and of the vector store are below the counter and apart; a process at rest has a checkpoint equal to its memory up to what has expired |
| `VendingProofs!NotesKept` | refinement: every step of `VendingMemory` is a step of `NoteKeeper` or a stutter under `NotesOf` |

The lemmas they rest on are stated once each. Those about data are in `DataLemmas`. The library's induction
theorems cannot be used here, so an induction goes through the least element of a set of naturals that would be
a counterexample (`LeastNatural`, `IndexInduction`, `SetInduction`). From it come the existence of the recursive
function that a fold along a sequence or a sum over a finite set is chosen as (`FoldExists`, `SumsExist`), and
with it the *path* of each fold: the sequence of its intermediate values, one for every index
(`FlattenPath`, and `AppliedPath`, `VerifyPath`, `ChainedPath` where they are needed).

## Not modelled, and only model-checked

- Liveness (`CallsEnd`, `Terminates`) is checked by TLC only: it is out of the provers' reach.
- `ResultsFollowCalls` is proved with the pre-scan, the instance has it on. `PairingHonored` shows what happens
  without it.
- That `StoreCall`, `StoreRead` and `StorePut` are all a call does in the store rests on `AtomicRefinement`, which is
  about a store that nothing but its own operations changes; the two theorems are not composed into one.
- `TypeOK` of `SandboxRead` is checked by hand; the proofs about reads use a type invariant of their own.
- `NotesOf` forgets the texts themselves, so a summary counts as keeping the notes it names.
- The violated properties are shown by one instance each, which is all a counterexample needs.
- Not modelled: see `components` in PROJECT.json. Log lines and typed results carry no control.
  Root confinement and the symlink test of the sandbox are guards on names; the instance has only
  names that pass them. `files_ops_sandbox.py` is
  an older copy of the operations in `fs_access.py` of which only `ls` is called. The redaction of
  approvals and of the log, the truncation of texts, the parsing of configuration files and of
  environment variables are pure and tested well. Of the vending example the ranking of searches, the
  reports, prompts and metrics are left out. `tools/mirror_sync.py` and `env_templates/configure.py` are
  sequential scripts without state of their own.
- External and modelled from their use: the locks of anyio, `execute_tools`, the approval engine and
  the handoffs of `inspect_ai`, its editor and shell tools, its ReAct agent and its limits; the search,
  the language model and the embeddings of the vending example, which may answer anything or fail.

## Plan

Done: every component the inventory calls hard has its module, its runs and its abstract specification
where there is one to state, and every safety property of the runs has its theorem. What is left:

1. `WrittenStays` for a path that a move names: which of the two tasks then holds the text.
2. An abstract specification of `IterativeAgent`'s budget, of which `OverrunBounded` is a consequence.
