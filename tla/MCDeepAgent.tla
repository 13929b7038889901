---------------------------- MODULE MCDeepAgent ----------------------------
(***************************************************************************)
(* A small instance of DeepAgent for TLC.                                  *)
(***************************************************************************)
EXTENDS DeepAgent

CONSTANTS f, d, g, x, y, z, big, bad, plain, scoped, open

\* One agent without a setting, one with an environment variable, one with a
\* filter of its own configuration.
MCExplicit == [a \in Agents |-> IF a = open THEN "off" ELSE NoMode]
MCAgentMode == [a \in Agents |-> IF a = scoped THEN "scoped" ELSE NoMode]

\* g is the file f in the store of an instance.
MCHome == [p \in Paths |-> IF p = g THEN f ELSE p]

Todo(status) == [content |-> "todo", status |-> status]

MCCalls ==
  { [fn |-> "write_file", path |-> f, text |-> t] : t \in {x, big, bad} }
    \cup { [fn |-> "write_file", path |-> p, text |-> x] : p \in {d, g} }
    \cup { [fn |-> "edit_file", path |-> f, becomes |-> x :> z],
           \* the new string holds the old one, which is then found twice
           [fn |-> "edit_file", path |-> f, becomes |-> (x :> y @@ y :> big)],
           [fn |-> "write_todos", items |-> <<Todo("pending")>>, spoilt |-> FALSE],
           \* the right half of a list with an item that is no todo
           [fn |-> "write_todos", items |-> <<Todo("completed")>>, spoilt |-> TRUE],
           [fn |-> "write_todos", items |-> <<>>, spoilt |-> FALSE] }
    \cup { [fn |-> "update_todo_status", index |-> 1, status |-> s, direct |-> FALSE]
             : s \in {"in_progress", "completed"} }
    \cup { [fn |-> "transfer", agent |-> a] : a \in Agents }

\* A sub-agent writes or hands off, but not to scoped.
MCSubCalls ==
  { c \in MCCalls :
                   \/ c.fn = "transfer" /\ c.agent # scoped
                   \/ c.fn = "write_file" /\ c.path = f /\ c.text = x }
=============================================================================
