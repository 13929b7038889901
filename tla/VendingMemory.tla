----------------------------- MODULE VendingMemory -----------------------------
(***************************************************************************)
(* The memory of the VendingBench agent (examples/vending_bench/memory.py) *)
(* with its checkpoint file, over crashes and restarts of the process.     *)
(* The tools are synchronous: each is one step up to the replacement of    *)
(* the checkpoint by the temporary file, which is a step of its own, so    *)
(* that the process can die, or the disk refuse, in between.  Contents,    *)
(* tags and vectors are left out; an id stands for the entry it names.     *)
(***************************************************************************)
EXTENDS Integers, FiniteSets, Sequences, SequencesExt

CONSTANTS Keys,        \* keys of the key-value store
          TtlDays,     \* times to live a caller gives
          TopNs,       \* how many notes a caller summarises at a time
          MaxId,       \* bound on the ids generated
          MaxDays      \* bound on the clock, in days

ASSUME MemoryAssumption ==
  /\ TtlDays \subseteq Int
  /\ TopNs \subseteq Nat \ {0}
  /\ MaxId \in Nat
  /\ MaxDays \in Nat

VARIABLES mem,     \* the MemoryStore of the process
          file,    \* the checkpoint of the run id, or NoFile
          pc,      \* "down", "starting" or "saving" (before the replacement), "idle"
          dirty,   \* an operation failed after it had changed the memory
          clock    \* days

memoryVars == <<mem, file, pc, dirty, clock>>

Ids == 1 .. MaxId
Note(id, pinned) ==
  [id |-> id, kind |-> IF pinned THEN "pinned" ELSE "note", sources |-> {}]
Summary(id, sources) == [id |-> id, kind |-> "summary", sources |-> sources]
Embedded(id, kind, sources) ==
  [id |-> id, kind |-> kind, sources |-> sources, summarised |-> kind = "summary"]

Empty == [pad |-> <<>>, kv |-> <<>>, vec |-> <<>>, nextId |-> 1]
NoFile == [none |-> TRUE]

MemoryInit ==
  /\ mem = Empty
  /\ file = NoFile
  /\ pc = "down"
  /\ dirty = FALSE
  /\ clock = 0

--------------------------------------------------------------------------------
\* The store a process with checkpoints starts with; the checkpoint is then written.
LoadWithoutCounter == [file EXCEPT !.nextId = 1]
LoadCheckpoint == file

Start(resume) ==
  /\ pc = "down"
  /\ mem' = IF resume /\ file # NoFile THEN LoadCheckpoint ELSE Empty
  /\ pc' = "starting"
  /\ UNCHANGED <<file, dirty, clock>>

\* What every operation that saves does last: the temporary file is written ...
MaybePersist == pc' = "saving" /\ UNCHANGED <<file, dirty, clock>>

\* ... and replaces the checkpoint, at which the operation is acknowledged.
Persist ==
  /\ pc \in {"starting", "saving"}
  /\ file' = mem
  /\ pc' = "idle"
  /\ dirty' = FALSE
  /\ UNCHANGED <<mem, clock>>

\* The disk refuses the temporary file: a start fails, a tool reports an error.
PersistFails ==
  /\ pc \in {"starting", "saving"}
  /\ pc' = IF pc = "starting" THEN "down" ELSE "idle"
  /\ mem' = IF pc = "starting" THEN Empty ELSE mem
  /\ dirty' = (pc = "saving")
  /\ UNCHANGED <<file, clock>>

--------------------------------------------------------------------------------
\* scratchpad_append; metadata a caller gives may pin a note (never summarised).
ScratchpadAppend(pinned) ==
  /\ pc = "idle"
  /\ mem.nextId <= MaxId
  /\ mem' = [mem EXCEPT !.pad = Append(@, Note(mem.nextId, pinned)),
                        !.nextId = @ + 1]
  /\ MaybePersist

\* The ids of the n oldest notes that are neither pinned nor a summary.
Oldest(n) ==
  LET eligible == {i \in DOMAIN mem.pad : mem.pad[i].kind = "note"}
  IN  {mem.pad[i].id : i \in {j \in eligible : Cardinality({k \in eligible : k <= j}) <= n}}

Flagged(v, ids) ==
  IF v.sources \cap ids # {} THEN [v EXCEPT !.summarised = TRUE] ELSE v

CondensedTooMuch(ids) ==
  [mem EXCEPT
    !.pad = Append(SelectSeq(@, LAMBDA e : e.kind # "note"), Summary(mem.nextId, ids)),
    !.vec = [i \in DOMAIN @ |-> Flagged(@[i], ids)],
    !.nextId = @ + 1]

Without(pad, ids) ==
  FoldLeft(LAMBDA kept, e : IF e.id \in ids THEN kept ELSE Append(kept, e), <<>>, pad)

\* The scratchpad with the entries `ids' replaced by their summary, and the vector
\* entries about them marked.
Condensed(ids) ==
  [mem EXCEPT
    !.pad = Append(Without(@, ids), Summary(mem.nextId, ids)),
    !.vec = [i \in DOMAIN @ |-> Flagged(@[i], ids)],
    !.nextId = @ + 1]

\* What the cache of embeddings has of a text (it may be off, or its database locked), and
\* what the provider answers.
CacheAnswers == {"vector", "nothing", "error"}
ProviderAnswers == {"vector", "error"}

\* embed_text: the provider is asked for what the cache has not.
Embeds(cached, provided) ==
  \/ cached = "vector"
  \/ cached = "nothing" /\ provided = "vector"

\* scratchpad_summarise.  The scratchpad is replaced before the summary is embedded;
\* if the provider fails then, the tool fails without saving or undoing anything.
Summarise(n, embeds) ==
  LET ids == Oldest(n)
      condensed == Condensed(ids)
  IN  /\ pc = "idle"
      /\ mem.nextId < MaxId
      /\ ids # {}
      /\ \/ /\ embeds
            /\ mem' = [condensed EXCEPT
                         !.vec = Append(@, Embedded(condensed.nextId, "summary", ids)),
                         !.nextId = @ + 1]
            /\ MaybePersist
         \/ /\ ~embeds
            /\ mem' = condensed
            /\ dirty' = TRUE
            /\ UNCHANGED <<file, pc, clock>>

\* vector_store: the text is embedded before anything changes, so that a failure of
\* the provider has no effect.  A caller may name the notes the text is about.
VectorStore(sources) ==
  /\ pc = "idle"
  /\ mem.nextId <= MaxId
  /\ mem' = [mem EXCEPT !.vec = Append(@, Embedded(mem.nextId, "entry", sources)),
                        !.nextId = @ + 1]
  /\ MaybePersist

\* The values that have not expired.
Cleaned(kv) == Restrict(kv, {k \in DOMAIN kv : clock <= kv[k]})

KvSetUnsaved(k, ttl) ==
  /\ pc = "idle"
  /\ mem' = [mem EXCEPT !.kv = [j \in DOMAIN @ \cup {k} |-> IF j = k THEN clock + ttl ELSE @[j]]]
  /\ UNCHANGED <<file, pc, dirty, clock>>

KvSet(k, ttl) ==
  /\ pc = "idle"
  /\ mem' = [mem EXCEPT !.kv = [j \in DOMAIN Cleaned(@) \cup {k} |->
                                  IF j = k THEN clock + ttl ELSE @[j]]]
  /\ MaybePersist

\* kv_get and kv_list drop what has expired, and do not save.
KvRead ==
  /\ pc = "idle"
  /\ mem' = [mem EXCEPT !.kv = Cleaned(@)]
  /\ UNCHANGED <<file, pc, dirty, clock>>

\* The process ends, or dies in the middle of an operation.
Stop ==
  /\ pc # "down"
  /\ mem' = Empty
  /\ pc' = "down"
  /\ dirty' = FALSE
  /\ UNCHANGED <<file, clock>>

Tick ==
  /\ clock < MaxDays
  /\ clock' = clock + 1
  /\ UNCHANGED <<mem, file, pc, dirty>>

MemoryNext ==
  \/ \E resume \in BOOLEAN : Start(resume)
  \/ Persist
  \/ PersistFails
  \/ \E pinned \in BOOLEAN : ScratchpadAppend(pinned)
  \/ \E n \in TopNs, cached \in CacheAnswers, provided \in ProviderAnswers :
       Summarise(n, Embeds(cached, provided))
  \/ \E sources \in SUBSET {e.id : e \in Range(mem.pad)} : VectorStore(sources)
  \/ \E k \in Keys, ttl \in TtlDays : KvSet(k, ttl)
  \/ KvRead
  \/ Stop
  \/ Tick

MemorySpec == MemoryInit /\ [][MemoryNext]_memoryVars

--------------------------------------------------------------------------------
Entries == [id : Ids, kind : {"note", "pinned", "summary"}, sources : SUBSET Ids]
VecEntries == [id : Ids, kind : {"entry", "summary"}, sources : SUBSET Ids,
               summarised : BOOLEAN]
IsMemory(m) ==
  /\ m = [pad |-> m.pad, kv |-> m.kv, vec |-> m.vec, nextId |-> m.nextId]
  /\ m.pad \in Seq(Entries)
  /\ \E ks \in SUBSET Keys : m.kv \in [ks -> Int]
  /\ m.vec \in Seq(VecEntries)
  /\ m.nextId \in 1 .. MaxId + 1

\* The memory and the checkpoint have the shape of a MemoryStore; a failed operation
\* leaves its mark in a running process only, which otherwise has a checkpoint.
MemoryTypes ==
  /\ IsMemory(mem)
  /\ file = NoFile \/ IsMemory(file)
  /\ pc \in {"down", "starting", "saving", "idle"}
  /\ dirty \in BOOLEAN
  /\ dirty => pc \in {"saving", "idle"}
  /\ pc \in {"saving", "idle"} => file # NoFile
  /\ clock \in 0 .. MaxDays

\* The notes a memory stands for: those in the scratchpad, those a summary in the
\* scratchpad replaced, and the texts of the vector store.
NotesOf(m) ==
  {e.id : e \in {f \in Range(m.pad) : f.kind # "summary"}}
    \cup (UNION {e.sources : e \in Range(m.pad)})
    \cup {v.id : v \in {w \in Range(m.vec) : w.kind = "entry"}}

Keeper == INSTANCE NoteKeeper WITH
  Notes <- Ids,
  live <- NotesOf(mem),
  saved <- IF file = NoFile THEN {} ELSE NotesOf(file),
  up <- pc # "down"

\* No summary loses a note, whatever fails in the middle of it, and a process that
\* resumes after a crash has every note of an acknowledged operation.
KeepsNotes == Keeper!Spec

AllIds(m) == [i \in DOMAIN m.pad |-> m.pad[i].id] \o [i \in DOMAIN m.vec |-> m.vec[i].id]

\* Ids name one entry, in the memory and in the checkpoint, also for ids generated
\* after a resume: summarising removes entries by id.
IdsUnique ==
  \A m \in {mem} \cup ({file} \ {NoFile}) :
    /\ IsInjective(AllIds(m))
    /\ \A i \in DOMAIN AllIds(m) : AllIds(m)[i] < m.nextId

\* Between operations, unless one of them failed half done, resuming the run gives the
\* exact memory (README: "resume the exact memory state"), up to values that have
\* expired: reads drop them from the memory and not from the checkpoint.
ResumeExact ==
  pc = "idle" /\ ~dirty =>
    /\ [file EXCEPT !.kv = {}] = [mem EXCEPT !.kv = {}]
    /\ Cleaned(file.kv) = Cleaned(mem.kv)
================================================================================
