-------------------------- MODULE MCSandboxFiles ---------------------------
(***************************************************************************)
(* Small instances of SandboxFiles for TLC.                                *)
(***************************************************************************)
EXTENDS SandboxFiles

CONSTANTS a, b, d, x, y

\* A text with n occurrences of x and m of y.
Text(n, m) == [t \in Tokens |-> IF t = x THEN n ELSE m]

MCBytes == [t \in Tokens |-> IF t = x THEN 1 ELSE 2]

Edit(path, old, new, all, expected, dry) ==
  [op |-> "edit", path |-> path, old |-> old, new |-> new,
   all |-> all, expected |-> expected, dry |-> dry]
Write(path, text) == [op |-> "write", path |-> path, text |-> text]
Move(src, dst) == [op |-> "move", path |-> src, dst |-> dst]
Trash(path) == [op |-> "trash", path |-> path]

\* The copy of a that a trash at time 0 makes is a name that callers use too.
MCStripped(path) == path
Copy == TrashKey(0, a)
MCPaths == {a, b, d, Copy}

\* MaxBytes is 3: replacing both x of Text(2, 0) by y exceeds it, and the text
\* that path b comes with does already.
MCDenyRules == {{d}, {TrashKey(1, a)}}
MCDisk == {[p \in Paths |-> CASE p = a -> Text(2, 0)
                              [] p = d -> Text(1, 0)
                              [] p = b -> Text(1, 2)
                              [] OTHER -> NoFile]}

\* A path has another text in the store, from a call that fell back.
MCStore == {[p \in Paths |-> IF p = a THEN Text(1, 1) ELSE NoFile]}

MCCalls ==
  { Write(b, Text(2, 0)), Write(d, Text(0, 1)), Edit(b, x, y, FALSE, 1, FALSE),
    Edit(a, x, y, TRUE, 1, TRUE), Trash(a), Trash(d), Move(Copy, a), Move(a, d),
    [op |-> "delete", path |-> a] }

\* A counted edit beside a trash of the same path.
CountedCalls == { Edit(a, x, y, FALSE, 1, FALSE), Trash(a) }

\* A write.
ForceCalls == { Write(b, Text(0, 1)) }

\* How its last call ended changes nothing of what a task can do: states that
\* differ in this only are one.
ApartFromResults ==
  <<disk, files, queue, pc, call, held, aim, clock, cache, faults, world>>

\* No property of the run with this tells the tasks apart.
Symmetry == Permutations(Procs)
=============================================================================
