----------------------------- MODULE SandboxRead -----------------------------
(***************************************************************************)
(* A read of a file in sandbox mode (fs_access.py, fs_adapter.py): the     *)
(* file is measured, then read in chunks, each by a call of the shell,     *)
(* while other tasks replace it.  A call may fail: the read then begins    *)
(* again with one call for all of it, first in the shell and then in the   *)
(* editor, and is answered from the store in the end.                      *)
(*                                                                         *)
(* A text is a sequence of lines.  Blank lines at the end of an answer are *)
(* left out of it.                                                         *)
(***************************************************************************)
EXTENDS Naturals, Sequences, SequencesExt, FiniteSets

CONSTANTS
  Lines,       \* what a line may be
  Versions,    \* what other tasks write
  Blank,       \* the empty line
  Broken,      \* lines that str.splitlines cuts in two and sed does not (a form feed)
  Rest,        \* the second half of such a line
  NoFile,
  Offsets, Limits,  \* arguments of a read, 0 for no limit
  ChunkLines,  \* INSPECT_AGENTS_FS_CHUNK_LINES
  Ceiling,     \* INSPECT_AGENTS_FS_MAX_BYTES, in lines
  MaxChanges,  \* bound: contents a file changes to during a read
  MaxFaults    \* bound: calls of the sandbox that fail

ASSUME ReadAssumption ==
  /\ Versions \subseteq Seq(Lines) /\ NoFile \notin Versions
  /\ {Blank, Rest} \cup Broken \subseteq Lines /\ Blank \notin Broken
  /\ Offsets \subseteq Nat /\ Limits \subseteq Nat
  /\ ChunkLines \in Nat \ {0}
  /\ {Ceiling, MaxChanges, MaxFaults} \subseteq Nat

VARIABLES
  file,      \* the text in the sandbox
  store,     \* the text of the same path in the Files store
  read,      \* the read
  seen,      \* history: the contents of the file since the read began
  faults,    \* calls that failed
  repeated   \* history: a chunk failed after others were read

vars == <<file, store, read, seen, faults, repeated>>

Contents == Versions \cup {NoFile}

Init ==
  /\ file \in Contents
  /\ store \in Contents
  /\ read = [pc |-> "idle", start |-> 1, limit |-> 0, out |-> <<>>, from |-> "nowhere"]
  /\ seen = {}
  /\ faults = 0
  /\ repeated = FALSE

-----------------------------------------------------------------------------
(* Texts.                                                                  *)

Least(a, b) == IF a < b THEN a ELSE b
Large(text) == Len(text) > Ceiling

\* n lines from the given one on, all of them if n is 0.
Part(text, first, n) ==
  SubSeq(text, first, IF n = 0 THEN Len(text) ELSE Least(first + n - 1, Len(text)))

\* What sed prints: of a missing file, nothing.
Printed(first, n) == IF file = NoFile THEN <<>> ELSE Part(file, first, n)

\* rstrip of the newlines.
Stripped(lines) == SubSeq(lines, 1, SelectLastInSeq(lines, LAMBDA line : line # Blank))

\* str.splitlines
SplitLines(lines) ==
  FlattenSeq([i \in DOMAIN lines |->
                IF lines[i] \in Broken THEN <<lines[i], Rest>> ELSE <<lines[i]>>])

Cut(lines) == IF read.limit = 0 THEN lines ELSE Part(lines, 1, read.limit)

-----------------------------------------------------------------------------
(* The ways a read goes on.                                                *)

GoOn(pc) == read' = [read EXCEPT !.pc = pc]

Answer(from, lines) ==
  read' = [read EXCEPT !.pc = "done", !.from = from, !.out = Stripped(lines)]

\* The chunks are joined; without any text in them the read begins again.
Gathered(lines) ==
  IF Stripped(lines) = <<>> THEN read' = [read EXCEPT !.pc = "sed", !.out = lines]
  ELSE Answer("sandbox", Cut(lines))

\* read_store, which does not suspend.  No limit is a limit of no lines here.
AnswerFromStore ==
  IF store = NoFile THEN Answer("error", <<>>)
  ELSE IF Stripped(store) = <<>> THEN Answer("store", <<>>)
  ELSE IF Large(store) \/ read.start > Len(SplitLines(store)) THEN Answer("error", <<>>)
  ELSE Answer("store", IF read.limit = 0 THEN <<>>
                       ELSE Part(SplitLines(store), read.start, read.limit))

\* A view inside view_chunks adds all of the lines to the chunks there are.
Viewed(lines) ==
  IF read.pc \in {"sed again", "editor again"}
  THEN Gathered(read.out \o Cut(SplitLines(lines)))
  ELSE Answer("sandbox", Cut(SplitLines(lines)))

Fault ==
  /\ faults < MaxFaults
  /\ faults' = faults + 1

-----------------------------------------------------------------------------
(* The calls of a read.                                                    *)

Begin(offset, limit) ==
  /\ read.pc = "idle"
  /\ read' = [read EXCEPT !.pc = "measure", !.start = offset + 1, !.limit = limit]
  /\ seen' = {file}
  /\ UNCHANGED <<file, store, faults, repeated>>

\* wc_bytes: of a missing file there is no answer.
Measure ==
  /\ read.pc = "measure"
  /\ IF file # NoFile /\ Large(file) THEN Answer("error", <<>>) ELSE GoOn("chunk")
  /\ UNCHANGED <<file, store, seen, faults, repeated>>

MeasureFails ==
  /\ read.pc = "measure"
  /\ Fault
  /\ GoOn("chunk")
  /\ UNCHANGED <<file, store, seen, repeated>>

\* The line after the next one.
NextLineSkipping == read.start + Len(read.out) + 1

\* current_line, lines_to_read
NextLine == read.start + Len(read.out)
Wanted ==
  IF read.limit = 0 THEN ChunkLines ELSE Least(ChunkLines, read.limit - Len(read.out))

\* A full chunk is taken for the last one.
LastChunkEarly(lines) == Len(lines) <= Wanted

\* A chunk with fewer lines than asked for is taken for the last one.
LastChunk(lines) == Len(lines) < Wanted

\* One round of view_chunks.
ReadChunk ==
  LET lines == SplitLines(Stripped(Printed(NextLine, Wanted)))
      out == read.out \o lines
  IN /\ read.pc = "chunk"
     /\ IF LastChunk(lines) \/ (read.limit # 0 /\ Len(out) >= read.limit)
        THEN Gathered(out)
        ELSE read' = [read EXCEPT !.out = out]
     /\ UNCHANGED <<file, store, seen, faults, repeated>>

ReadChunkFails ==
  /\ read.pc = "chunk"
  /\ Fault
  /\ GoOn("sed again")
  /\ repeated' = (read.out # <<>>)
  /\ UNCHANGED <<file, store, seen>>

\* view: the shell first, the editor if the shell fails or prints nothing.
ToEditor == GoOn(IF read.pc = "sed again" THEN "editor again" ELSE "editor")

ViewBySed ==
  LET lines == Printed(read.start, read.limit)
  IN /\ read.pc \in {"sed", "sed again"}
     /\ IF Stripped(lines) = <<>> THEN ToEditor ELSE Viewed(lines)
     /\ UNCHANGED <<file, store, seen, faults, repeated>>

ViewBySedFails ==
  /\ read.pc \in {"sed", "sed again"}
  /\ Fault
  /\ ToEditor
  /\ UNCHANGED <<file, store, seen, repeated>>

ViewByEditor ==
  /\ read.pc \in {"editor", "editor again"}
  /\ file # NoFile
  /\ Viewed(Part(file, read.start, read.limit))
  /\ UNCHANGED <<file, store, seen, faults, repeated>>

\* The lines asked for, of which the editor may refuse any that the file does not have.
InRange ==
  /\ file # NoFile
  /\ read.start <= Len(file)
  /\ read.start + read.limit <= Len(file) + 1

\* view_chunks then ends with the chunks it has, and the read goes to the store.
ViewByEditorFails ==
  /\ read.pc \in {"editor", "editor again"}
  /\ IF InRange THEN Fault ELSE UNCHANGED faults
  /\ IF read.pc = "editor again" THEN Gathered(read.out) ELSE AnswerFromStore
  /\ UNCHANGED <<file, store, seen, repeated>>

\* Another task replaces the file by one call of the shell, or moves it away.
Replace(text) ==
  /\ read.pc \notin {"idle", "done"}
  /\ text # file
  /\ Cardinality(seen \cup {text}) <= MaxChanges + 1
  /\ file' = text
  /\ seen' = seen \cup {text}
  /\ UNCHANGED <<store, read, faults, repeated>>

Next ==
  \/ \E offset \in Offsets, limit \in Limits : Begin(offset, limit)
  \/ Measure \/ MeasureFails
  \/ ReadChunk \/ ReadChunkFails
  \/ ViewBySed \/ ViewBySedFails
  \/ ViewByEditor \/ ViewByEditorFails
  \/ \E text \in Contents : Replace(text)

Spec == Init /\ [][Next]_vars

-----------------------------------------------------------------------------
(* Properties.                                                             *)

Pieces == UNION {ToSet(SplitLines(v)) : v \in Versions}

\* An answer is made of lines of texts there were, and comes from somewhere.
TypeOK ==
  /\ file \in Contents /\ store \in Contents
  /\ read.pc \in {"idle", "measure", "chunk", "sed again", "editor again",
                  "sed", "editor", "done"}
  /\ ToSet(read.out) \subseteq Pieces
  /\ read.from \in {"nowhere", "sandbox", "store", "error"}
  /\ read.pc = "done" <=> read.from # "nowhere"
  /\ seen \subseteq Contents /\ Cardinality(seen) <= MaxChanges + 1
  /\ faults \in 0 .. MaxFaults
  /\ repeated \in BOOLEAN

\* A read that no failure and no change of the file came in the way of.
Quiet == read.pc = "done" /\ faults = 0 /\ seen = {file} /\ file # NoFile

Has(text, lines) == ToSet(text) \cap lines # {}

\* The lines asked for.
Asked == Stripped(Cut(SplitLines(Part(file, read.start, read.limit))))

BlankChunkEnd ==
  \E i \in read.start .. Len(file) :
    (i + 1 - read.start) % ChunkLines = 0 /\ file[i] = Blank

\* A quiet read answers with exactly the lines asked for, wherever the chunks, the limit
\* and the text end: as long as no chunk ends with a blank line and no line is broken.
\* One of a text above the ceiling is refused.
QuietReadExact ==
  Quiet =>
    /\ Large(file) => read.from = "error"
    /\ ~Large(file) /\ Asked # <<>> /\ ~BlankChunkEnd /\ ~Has(file, Broken) =>
         read.from = "sandbox" /\ read.out = Asked

\* The same of any text: "If we got fewer lines than requested, we've reached EOF"
\* (fs_adapter.py).
ReadComplete ==
  Quiet /\ ~Large(file) /\ Asked # <<>> => read.from = "sandbox" /\ read.out = Asked

\* The n-th line of an answer was the n-th line of the file at some moment of the read.
Numbered ==
  read.from = "sandbox" =>
    \A n \in DOMAIN read.out : \E v \in seen \ {NoFile} :
      /\ read.start + n - 1 <= Len(v)
      /\ read.out[n] = v[read.start + n - 1]

\* A read may mix what the file held before and after a change, but it gives every line
\* the number it had: as long as no chunk failed behind others and no line is broken.
NumberedRight ==
  ~repeated /\ (\A v \in seen \ {NoFile} : ~Has(v, Broken)) => Numbered

\* The same when a chunk failed: "Fallback: use view method and split into chunks"
\* (fs_adapter.py) gives the lines, not those that were read before once more.
NumberedDespiteFailure ==
  (\A v \in seen \ {NoFile} : ~Has(v, Broken)) => Numbered
=============================================================================
