---------------------------- MODULE TranscriptLog ----------------------------
(***************************************************************************)
(* The transcript with a hash chain (logging.py).  Each call appends every *)
(* event of its sample to one file, chained to the last record there is;   *)
(* processes share the file, write through a buffer and may crash.         *)
(*                                                                         *)
(* A hash is the sequence of what was hashed, so that equal hashes come    *)
(* from equal chains.  A line reaches the file in two parts, the second    *)
(* one with its end: a buffer is flushed where it is full, not where a     *)
(* line ends.                                                              *)
(***************************************************************************)
EXTENDS Naturals, Sequences, SequencesExt, FiniteSets

CONSTANTS
  Writers,     \* processes that log
  Events,      \* what an event looks like in a record
  Opaque,      \* the events json cannot write
  Bare,        \* the minimal record written instead, {"type": ...}
  Nothing,     \* {}, which is hashed for it
  Forgeries,   \* what may be put in the place of an event
  MaxEvents,   \* bound: events of a sample
  MaxCalls,    \* bound: calls of write_transcript_secure
  MaxFlushes   \* bound: flushes of a call before its file is closed

ASSUME LogAssumption ==
  /\ Opaque \subseteq Events
  /\ Forgeries \subseteq Events \cup {Bare, Nothing}
  /\ {MaxEvents, MaxCalls, MaxFlushes} \subseteq Nat

VARIABLES
  file,     \* the parts of lines in the file
  events,   \* transcript().events of each writer
  buffer,   \* the parts a writer has not flushed
  writing,  \* the writers inside a call
  appends,  \* calls so far
  flushes,  \* flushes of the call of a writer
  damaged,  \* a crash, an overlap or an opaque event came in the way
  change    \* the event that was changed in the file and what it was changed to

logVars == <<file, events, buffer, writing, appends, flushes, damaged, change>>

Zeros == <<>>
Hash(prev, canon) == Append(prev, canon)

Record(prev, canon, event) == [prev |-> prev, hash |-> Hash(prev, canon), event |-> event]
Part(record, end) == [record |-> record, end |-> end]

\* Records of a call: each is chained to the one before, whatever was hashed for it.
\* An event that cannot be written is hashed as {} and leaves a minimal record.
Chained(prev, evs) ==
  FoldLeft(LAMBDA recs, e :
             LET last == IF recs = <<>> THEN prev ELSE Last(recs).hash
             IN Append(recs, IF e \in Opaque THEN Record(last, Nothing, Bare)
                                             ELSE Record(last, e, e)),
           <<>>, evs)

\* The two parts of each line.
Parts(recs) ==
  [k \in 1 .. 2 * Len(recs) |-> Part(recs[(k + 1) \div 2], k % 2 = 0)]

\* A part goes on with the last line, unless that has its end.
AppendPart(lines, part) ==
  IF lines = <<>> \/ Last(Last(lines)).end
  THEN Append(lines, <<part>>)
  ELSE [lines EXCEPT ![Len(lines)] = Append(@, part)]
AppendParts(lines, parts) == FoldLeft(AppendPart, lines, parts)

\* A line can be parsed when its parts are those of one record.
Parses(line) ==
  Len(line) = 2 /\ line[1].record = line[2].record /\ ~line[1].end /\ line[2].end

\* Without the file's last record the chain starts at the zeros.
LastHashIgnored(lines) == Zeros

\* _read_last_hash: a last line that is not a record starts the chain again.
LastHash(lines) ==
  IF lines # <<>> /\ Parses(Last(lines)) THEN Last(lines)[1].record.hash ELSE Zeros

\* Only the links between the records are compared.
VerifiedLinks(acc, line) ==
  IF Parses(line) /\ line[1].record.prev = acc.prev
  THEN [ok |-> acc.ok, prev |-> line[1].record.hash]
  ELSE [ok |-> FALSE, prev |-> acc.prev]

\* verify_transcript, line by line: the link, and the hash made again from the event.
Verified(acc, line) ==
  IF /\ Parses(line)
     /\ line[1].record.prev = acc.prev
     /\ line[1].record.hash = Hash(acc.prev, line[1].record.event)
  THEN [ok |-> acc.ok, prev |-> line[1].record.hash]
  ELSE [ok |-> FALSE, prev |-> acc.prev]

Verify(lines) == FoldLeft(Verified, [ok |-> TRUE, prev |-> Zeros], lines).ok

LogInit ==
  /\ file = <<>>
  /\ events = [w \in Writers |-> <<>>]
  /\ buffer = [w \in Writers |-> <<>>]
  /\ writing = {}
  /\ appends = 0
  /\ flushes = [w \in Writers |-> 0]
  /\ damaged = FALSE
  /\ change = <<>>

\* The sample of a writer goes on.
Emit(w, e) ==
  /\ w \notin writing
  /\ Len(events[w]) < MaxEvents
  /\ events' = [events EXCEPT ![w] = Append(@, e)]
  /\ UNCHANGED <<file, buffer, writing, appends, flushes, damaged, change>>

\* The last hash is read before the file is opened; all events of the sample follow,
\* those an earlier call has written too.
Begin(w) ==
  /\ w \notin writing
  /\ appends < MaxCalls
  /\ appends' = appends + 1
  /\ writing' = writing \cup {w}
  /\ buffer' = [buffer EXCEPT ![w] = Parts(Chained(LastHash(file), events[w]))]
  /\ flushes' = [flushes EXCEPT ![w] = 0]
  /\ damaged' = (damaged \/ writing # {} \/ ToSet(events[w]) \cap Opaque # {})
  /\ UNCHANGED <<file, events, change>>

\* A full buffer is flushed.
Flush(w, n) ==
  /\ w \in writing
  /\ flushes[w] < MaxFlushes
  /\ flushes' = [flushes EXCEPT ![w] = @ + 1]
  /\ file' = AppendParts(file, SubSeq(buffer[w], 1, n))
  /\ buffer' = [buffer EXCEPT ![w] = SubSeq(@, n + 1, Len(@))]
  /\ UNCHANGED <<events, writing, appends, damaged, change>>

\* The file is closed, which flushes the rest.
Close(w) ==
  /\ w \in writing
  /\ file' = AppendParts(file, buffer[w])
  /\ buffer' = [buffer EXCEPT ![w] = <<>>]
  /\ writing' = writing \ {w}
  /\ UNCHANGED <<events, appends, flushes, damaged, change>>

\* The process of a writer dies, and its sample with it.
Crash(w) ==
  /\ w \in writing
  /\ buffer' = [buffer EXCEPT ![w] = <<>>]
  /\ events' = [events EXCEPT ![w] = <<>>]
  /\ writing' = writing \ {w}
  /\ damaged' = TRUE
  /\ UNCHANGED <<file, appends, flushes, change>>

\* Someone changes the event of a record, once.
Alter(i, e) ==
  /\ change = <<>>
  /\ Parses(file[i]) /\ file[i][1].record.event # e
  /\ file' = [file EXCEPT ![i] = << [@[1] EXCEPT !.record.event = e],
                                   [@[2] EXCEPT !.record.event = e] >>]
  /\ change' = <<file[i][1].record.event, e>>
  /\ UNCHANGED <<events, buffer, writing, appends, flushes, damaged>>

LogNext ==
  \/ \E w \in Writers :
       \/ \E e \in Events : Emit(w, e)
       \/ Begin(w) \/ Close(w) \/ Crash(w)
       \/ \E n \in DOMAIN buffer[w] : Flush(w, n)
  \/ \E i \in DOMAIN file, e \in Forgeries : Alter(i, e)

LogSpec == LogInit /\ [][LogNext]_logVars

-----------------------------------------------------------------------------
(* Properties.                                                             *)

\* A log of calls that did not meet verifies, and goes on verifying when more calls
\* append to it: as long as no call crashed and every event could be written.
HonestVerifies == ~damaged /\ change = <<>> /\ writing = {} => Verify(file)

\* "tamper-evident": a record that was changed is found, whatever was appended behind
\* it, and whatever crashed.  But for one change: the event of a minimal record emptied.
AlterationShows == change \notin { <<>>, <<Bare, Nothing>> } => ~Verify(file)

\* As above, of any change.  {} is what was hashed for a minimal record.
AnyAlterationShows == change # <<>> => ~Verify(file)
=============================================================================
