---------------------------- MODULE AtomicFiles -----------------------------
(***************************************************************************)
(* What the file tools promise their callers: each call takes effect in    *)
(* one indivisible step between its start and its end, on the files as     *)
(* they are at that step, or is refused for a reason that is true at that  *)
(* step and changes nothing.  A move alone takes two steps: it reads its   *)
(* source, or is refused then, and later puts the text it read, whatever   *)
(* became of the source meanwhile.                                         *)
(***************************************************************************)
EXTENDS Integers

CONSTANTS
  Procs, Calls, Refusals, NoCall, NoFile, NoCount, MaxClock,
  Initials,        \* the files there may be at the start
  FittingTexts,    \* the texts within the byte ceiling
  DeniedKeys,      \* the keys the path policy denies
  TrashKey(_, _),  \* where a path goes when it is trashed at a given second
  Replace(_, _),   \* the text an edit makes of a text
  Replaced(_, _)   \* how many occurrences it replaces

VARIABLES
  files,   \* the mapping from keys to texts
  call,    \* call[p]: the call task p is executing, or NoCall
  seen,    \* seen[p]: the text a move of p has read, or NoFile
  result,  \* result[p]: how p's last call ended
  clock
vars == <<files, call, seen, result, clock>>

Init ==
  /\ files \in Initials
  /\ call = [p \in Procs |-> NoCall]
  /\ seen = [p \in Procs |-> NoFile]
  /\ result = [p \in Procs |-> "none"]
  /\ clock = 0

Issue(p, c) ==
  /\ call[p] = NoCall
  /\ call' = [call EXCEPT ![p] = c]
  /\ result' = [result EXCEPT ![p] = "none"]
  /\ UNCHANGED <<files, seen, clock>>

End(p, outcome) ==
  /\ call[p] # NoCall
  /\ call' = [call EXCEPT ![p] = NoCall]
  /\ seen' = [seen EXCEPT ![p] = NoFile]
  /\ result' = [result EXCEPT ![p] = outcome]
  /\ UNCHANGED clock

\* Why a call may be refused, given the files at that moment.
Refusable(c, reason) ==
  CASE reason = "FileNotFound" ->
         c.op \in {"edit", "trash", "move"} /\ files[c.path] = NoFile
    [] reason = "StringNotFound" ->
         c.op = "edit" /\ files[c.path] # NoFile /\ files[c.path][c.old] = 0
    [] reason = "PolicyDenied" ->
         (IF c.op = "move" THEN c.dst ELSE c.path) \in DeniedKeys
    [] reason = "ExpectedCountMismatch" ->
         /\ c.op = "edit" /\ files[c.path] # NoFile
         /\ c.expected # NoCount /\ c.expected # Replaced(files[c.path], c)
    [] reason = "FileSizeExceeded" ->
         \/ c.op = "write" /\ c.text \notin FittingTexts
         \/ /\ c.op = "edit" /\ files[c.path] # NoFile
            /\ Replace(files[c.path], c) \notin FittingTexts
    [] OTHER -> TRUE

\* A move that has read its source can only time out.
Refuse(p) ==
  \E reason \in Refusals :
    /\ call[p] # NoCall /\ Refusable(call[p], reason)
    /\ seen[p] # NoFile => reason = "Cancelled"
    /\ End(p, reason)
    /\ UNCHANGED files

\* A call that ends "ok" could not have been refused, timeouts apart.
Accepted(c) == \A reason \in Refusals \ {"Cancelled"} : ~Refusable(c, reason)

After(c) ==
  CASE c.op = "write"  -> [files EXCEPT ![c.path] = c.text]
    [] c.op = "edit"   -> [files EXCEPT ![c.path] = Replace(files[c.path], c)]
    [] c.op = "delete" -> [files EXCEPT ![c.path] = NoFile]
    [] c.op = "trash"  -> [files EXCEPT ![TrashKey(clock, c.path)] = files[c.path],
                                        ![c.path] = NoFile]

Apply(p) ==
  /\ call[p] # NoCall /\ call[p].op # "move" /\ Accepted(call[p])
  /\ IF call[p].op = "edit" /\ call[p].dry
     THEN End(p, "dry_run") /\ UNCHANGED files
     ELSE End(p, "ok") /\ files' = After(call[p])

Read(p) ==
  /\ call[p] # NoCall /\ call[p].op = "move" /\ Accepted(call[p])
  /\ seen[p] = NoFile
  /\ seen' = [seen EXCEPT ![p] = files[call[p].path]]
  /\ UNCHANGED <<files, call, result, clock>>

Put(p) ==
  /\ call[p] # NoCall /\ seen[p] # NoFile
  /\ End(p, "ok")
  /\ files' = [files EXCEPT ![call[p].dst] = seen[p], ![call[p].path] = NoFile]

Tick ==
  /\ clock < MaxClock
  /\ clock' = clock + 1
  /\ UNCHANGED <<files, call, seen, result>>

Next ==
  \/ \E p \in Procs :
       Refuse(p) \/ Apply(p) \/ Read(p) \/ Put(p) \/ \E c \in Calls : Issue(p, c)
  \/ Tick

Spec == Init /\ [][Next]_vars
=============================================================================
