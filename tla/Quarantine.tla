------------------------------ MODULE Quarantine -----------------------------
(***************************************************************************)
(* What a sub-agent is shown of its parent's conversation (filters.py):    *)
(* the mode of the input filter of a handoff, the mode it leaves in the    *)
(* store of the sample, and the summary a scoped filter appends.           *)
(***************************************************************************)
EXTENDS Naturals, FiniteSets, FiniteSetsExt

CONSTANTS
  Agents,        \* sub-agents that are handed off to
  NoMode,        \* no mode is set
  ExplicitMode,  \* the filter of an agent's own configuration, a mode of Modes
  AgentMode,     \* INSPECT_QUARANTINE_MODE__<agent>
  GlobalMode,    \* INSPECT_QUARANTINE_MODE, strict when it is not set
  Inherit,       \* INSPECT_QUARANTINE_INHERIT
  SummaryTodos,  \* INSPECT_SCOPED_MAX_TODOS
  SummaryFiles,  \* INSPECT_SCOPED_MAX_FILES
  SummaryBytes,  \* INSPECT_SCOPED_MAX_BYTES
  TodoBytes, FileBytes, BareBytes  \* sizes of a todo, a name and the rest in JSON

Modes == {"strict", "scoped", "off"}

ASSUME QuarantineAssumption ==
  /\ NoMode \notin Modes
  /\ ExplicitMode \in [Agents -> Modes \cup {NoMode}]
  /\ AgentMode \in [Agents -> Modes \cup {NoMode}]
  /\ GlobalMode \in Modes
  /\ Inherit \in BOOLEAN
  /\ {SummaryTodos, SummaryFiles, SummaryBytes, TodoBytes, FileBytes, BareBytes} \subseteq Nat

\* The mode default_input_filter finds for an agent, active being the one in the store.
Inherited(active) == IF Inherit /\ active # NoMode THEN active ELSE GlobalMode
DefaultMode(agent, active) ==
  IF AgentMode[agent] # NoMode THEN AgentMode[agent] ELSE Inherited(active)

\* The filter of the configuration wins over the default one.
HandoffMode(agent, active) ==
  IF ExplicitMode[agent] # NoMode THEN ExplicitMode[agent] ELSE DefaultMode(agent, active)

\* Nothing is recorded.
RecordedNowhere(agent, active) == active

\* Only the default filter records what it chose, and nothing takes it back.
RecordedMode(agent, active) ==
  IF ExplicitMode[agent] # NoMode THEN active ELSE DefaultMode(agent, active)

\* An oversized summary loses file names first and todos then.  The count of the
\* files that are not listed is taken before.
LargestFit(n, rest, each) == Max({k \in 0 .. n : k = 0 \/ rest + k * each <= SummaryBytes})
Summary(todos, files) ==
  LET shown == Min({todos, SummaryTodos})
      listed == Min({files, SummaryFiles})
      list == LargestFit(listed, BareBytes + shown * TodoBytes, FileBytes)
  IN [todos |-> LargestFit(shown, BareBytes + list * FileBytes, TodoBytes),
      list |-> list,
      remaining |-> files - listed]

\* What crosses the boundary: the whole conversation, or its last message alone,
\* with the summary when the filter is scoped.
Crossing(mode, todos, files) ==
  [all |-> mode = "off",
   summary |-> IF mode = "scoped" THEN {Summary(todos, files)} ELSE {}]
=============================================================================
