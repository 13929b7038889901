--------------------------- MODULE MCFilesStore ----------------------------
(***************************************************************************)
(* Small instances of FilesStore for TLC.                                  *)
(***************************************************************************)
EXTENDS FilesStore

CONSTANTS a, d, e, x, y

\* A text with n occurrences of x and m of y.
Text(n, m) == [t \in Tokens |-> IF t = x THEN n ELSE m]

MCBytes == [t \in Tokens |-> IF t = x THEN 1 ELSE 2]

Edit(path, old, new, all, expected, dry) ==
  [op |-> "edit", path |-> path, old |-> old, new |-> new,
   all |-> all, expected |-> expected, dry |-> dry]
Write(path, text) == [op |-> "write", path |-> path, text |-> text]
Move(src, dst) == [op |-> "move", path |-> src, dst |-> dst]
TrashOf(path) == [op |-> "trash", path |-> path]
DeleteOf(path) == [op |-> "delete", path |-> path]

\* e is the name of a with a slash before it, and the copy of a that a trash at
\* time 0 makes is a name that callers use as well.
MCStripped(path) == IF path = e THEN a ELSE path
Copy == TrashKey(0, a)
MCPaths == {a, d, e, Copy}

\* MaxBytes is 3: replacing both x of Text(2, 0) by y exceeds it.
\* Path d is denied, and an earlier agent may have left a file there; of the
\* keys in the trash, the one that a has at time 1 is denied.
MCDenyRules == {{d}, {TrashKey(1, a)}}
MCSeeds == {[p \in Paths |-> CASE p = a -> Text(2, 0)
                               [] p = d -> Text(1, 0)
                               [] OTHER -> NoFile]}

StoreCalls ==
  { Write(a, Text(0, 2)), Write(d, Text(0, 1)), Write(Copy, Text(0, 1)),
    Edit(a, x, y, TRUE, NoCount, FALSE), Edit(a, x, y, FALSE, 1, FALSE),
    Edit(a, x, y, FALSE, 1, TRUE), Edit(d, x, y, FALSE, NoCount, FALSE),
    DeleteOf(d), DeleteOf(Copy), TrashOf(d), TrashOf(a), TrashOf(e),
    Move(a, d), Move(a, e), Move(Copy, a) }

\* An allow list that names a and nothing in the trash.
PolicyRules == {{a}}
PolicyCalls == { TrashOf(a) }

MoveCallSet ==
  { Edit(a, x, y, FALSE, NoCount, FALSE), Move(a, e) }
=============================================================================
