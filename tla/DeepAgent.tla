------------------------------ MODULE DeepAgent ------------------------------
(***************************************************************************)
(* The supervisor create_deep_agent builds (migration.py) around a ReAct   *)
(* agent of the library: turns of tool calls on the two stores of a sample *)
(* (state.py, tools.py), handoffs to sub-agents that work on the same      *)
(* stores and see a filtered conversation (filters.py), and, once the      *)
(* agent has answered, the replay of the calls of its last message and the *)
(* fallback that writes what the replay seems to have left out.            *)
(***************************************************************************)
EXTENDS Quarantine, Integers, Sequences, SequencesExt

CONSTANTS
  Paths,       \* files: a name, in the Files store of one instance
  Home,        \* the file of the same name in the default instance's store
  Denied,      \* the files whose name the policy of the tools denies
  Texts,       \* texts of the files
  Large,       \* the texts above INSPECT_AGENTS_FS_MAX_BYTES
  Unencodable, \* the texts whose size cannot be told: encode("utf-8") raises
  NoFile,      \* the content of a path that is not in the store
  Contents,    \* what a todo says
  Calls,       \* calls the supervisor's model may make
  SubCalls,    \* those of them that the tools of a sub-agent allow
  MaxCalls,    \* bound: calls of a message, beside submit
  MaxTurns,    \* bound: messages with calls in the supervisor's conversation
  MaxDepth,    \* bound: sub-agents inside each other
  MaxWork      \* bound: calls of one sub-agent

Statuses == {"pending", "in_progress", "completed"}
Todos == [content : Contents, status : Statuses]

\* The calls of the tools.  "becomes" maps the texts in which an edit finds its old string
\* to the texts with the new string in its place, which may hold the old string again.
\* The "items" of a list are those that are todos; a list that is "spoilt" has others too.
WriteCalls  == [fn : {"write_file"}, path : Paths, text : Texts]
EditCalls   == [fn : {"edit_file"}, path : Paths,
                becomes : UNION {[found -> Texts] : found \in SUBSET Texts}]
ListCalls   == [fn : {"write_todos"}, items : Seq(Todos), spoilt : BOOLEAN]
StatusCalls == [fn : {"update_todo_status"}, index : Int, status : Statuses, direct : BOOLEAN]
Transfers   == [fn : {"transfer"}, agent : Agents]

ASSUME DeepAssumption ==
  /\ IsFiniteSet(Paths)
  /\ Large \subseteq Texts
  /\ Unencodable \subseteq Texts
  /\ Home \in [Paths -> Paths]
  /\ \A p \in Paths : Home[Home[p]] = Home[p]
  /\ Denied \subseteq Paths
  /\ \A p \in Paths : p \in Denied <=> Home[p] \in Denied
  /\ NoFile \notin Texts
  /\ Calls \subseteq WriteCalls \cup EditCalls \cup ListCalls \cup StatusCalls \cup Transfers
  /\ SubCalls \subseteq Calls
  /\ {MaxCalls, MaxTurns, MaxDepth, MaxWork} \subseteq Nat

VARIABLES
  files,     \* Files.files of every instance
  todos,     \* Todos.todos
  active,    \* ACTIVE_INPUT_FILTER_KEY in the store
  stack,     \* the sub-agents at work, the innermost last
  batch,     \* the calls, beside submit, of the last message that made any
  turns,     \* the supervisor's messages with calls so far
  pos,       \* the next call of the batch
  submit,    \* whether the last answer submits: no, beside the batch or alone
  ran,       \* the calls of the batch the library executed
  phase,     \* answer, execute, replay, fallback, done
  before,    \* the two stores when the library's agent returned
  raised,    \* what the replay raised: nothing, an approval denial or another exception
  verdicts   \* the answers of the approver to each call of the batch

stores == <<files, todos>>
turn == <<batch, turns, submit>>
vars == <<files, todos, active, stack, batch, turns, pos, submit, ran, phase, before, raised,
          verdicts>>

\* The texts a tool writes.
Fits == Texts \ (Large \cup Unencodable)

Store == [files |-> files, todos |-> todos]
Messages == UNION {[1 .. n -> Calls] : n \in 0 .. MaxCalls}

Init ==
  /\ files = [p \in Paths |-> NoFile]
  /\ todos = <<>>
  /\ active = NoMode
  /\ stack = <<>>
  /\ batch = <<>>
  /\ turns = 0
  /\ pos = 1
  /\ submit = "no"
  /\ ran = {}
  /\ phase = "answer"
  /\ before = [files |-> files, todos |-> todos]
  /\ raised = "nothing"
  /\ verdicts = [i \in DOMAIN batch |-> {}]

-----------------------------------------------------------------------------
(* The tools.  An error of a tool is an answer to the model: the stores    *)
(* stay as they are.  An exception may end the run instead; in the replay  *)
(* it is ReplayRaises(FALSE).                                              *)

\* write_file without the limit.
WrittenUnsized(s, c) == [s EXCEPT !.files[c.path] = c.text]

\* write_file refuses a text above the limit, and raises on one it cannot measure.
Written(s, c) ==
  IF c.text \in Fits THEN [s EXCEPT !.files[c.path] = c.text] ELSE s

\* The policy is the tool's own.  It is asked about the name, whatever the instance.
Permitted(c) == c.fn \in {"write_file", "edit_file"} => c.path \notin Denied

\* edit_file refuses a text without the old string; its result is measured as well.
Edited(s, c) ==
  LET text == s.files[c.path]
  IN IF text \in DOMAIN c.becomes /\ c.becomes[text] \in Fits
     THEN [s EXCEPT !.files[c.path] = c.becomes[text]]
     ELSE s

\* write_todos replaces the list, whatever was in it.  One wrong item and it is refused.
Listed(s, c) == IF c.spoilt THEN s ELSE [s EXCEPT !.todos = c.items]

Transitions(direct) ==
  { <<"pending", "in_progress">>, <<"in_progress", "completed">> }
    \cup (IF direct THEN { <<"pending", "completed">> } ELSE {})

\* update_todo_status: an index outside the list and any other transition are errors.
Updated(s, c) ==
  IF c.index \in DOMAIN s.todos
       /\ <<s.todos[c.index].status, c.status>> \in Transitions(c.direct)
  THEN [s EXCEPT !.todos[c.index].status = c.status]
  ELSE s

Effect(s, c) ==
  CASE ~Permitted(c) -> s
    [] Permitted(c) /\ c.fn = "write_file" -> Written(s, c)
    [] Permitted(c) /\ c.fn = "edit_file" -> Edited(s, c)
    [] c.fn = "write_todos" -> Listed(s, c)
    [] c.fn = "update_todo_status" -> Updated(s, c)

Become(s) == files' = s.files /\ todos' = s.todos

\* transfer_to_<agent>: the filter is applied when the call is executed.  "parent" and
\* "first" are kept for the properties.
Handoff(agent) ==
  LET mode == HandoffMode(agent, active)
      present == Cardinality({p \in Paths : Home[p] = p /\ files[p] # NoFile})
      nested == stack # <<>>
      entry == [agent |-> agent, mode |-> mode,
                seen |-> Crossing(mode, Len(todos), present),
                first |-> nested /\ ~Last(stack).handed,
                handed |-> FALSE, work |-> 0]
  IN /\ active' = RecordedMode(agent, active)
     /\ stack' = Append(IF nested THEN [stack EXCEPT ![Len(stack)].handed = TRUE] ELSE stack,
                        entry)
     /\ UNCHANGED stores

\* A call of a tool, which the approver may reject.
Call(c, approved) ==
  CASE ~approved -> UNCHANGED <<stores, active, stack>>
    [] approved /\ c.fn = "transfer" -> Handoff(c.agent)
    [] OTHER -> Become(Effect(Store, c)) /\ UNCHANGED <<active, stack>>

-----------------------------------------------------------------------------
(* The turns of the library's agent.                                       *)

\* The model answers with calls, a submit or both.
Answer(calls, sub) ==
  /\ phase = "answer"
  /\ calls # <<>> => turns < MaxTurns
  /\ IF calls = <<>>
     THEN /\ sub
          /\ submit' = "alone"
          /\ UNCHANGED <<batch, turns, pos, ran, verdicts>>
     ELSE /\ submit' = IF sub THEN "beside" ELSE "no"
          /\ batch' = calls
          /\ turns' = turns + 1
          /\ pos' = 1
          /\ ran' = {}
          /\ verdicts' = [i \in DOMAIN calls |-> {}]
  /\ phase' = "execute"
  /\ UNCHANGED <<stores, active, stack, before, raised>>

Asked(approved) == verdicts' = [verdicts EXCEPT ![pos] = @ \cup {approved}]

\* The library executes the next call of the message.
ExecuteCall(approved) ==
  /\ phase = "execute"
  /\ stack = <<>>
  /\ pos <= Len(batch)
  /\ Call(batch[pos], approved)
  /\ Asked(approved)
  /\ ran' = IF approved THEN ran \cup {pos} ELSE ran
  /\ pos' = pos + 1
  /\ UNCHANGED <<turn, phase, before, raised>>

\* A sub-agent calls a tool, or hands off in its turn.
SubCall(c) ==
  /\ stack # <<>>
  /\ Last(stack).work < MaxWork
  /\ c.fn = "transfer" => Len(stack) < MaxDepth
  /\ IF c.fn = "transfer"
     THEN Handoff(c.agent)
     ELSE /\ Become(Effect(Store, c))
          /\ stack' = [stack EXCEPT ![Len(stack)].work = @ + 1]
          /\ UNCHANGED active
  /\ UNCHANGED <<turn, pos, ran, phase, before, raised, verdicts>>

\* A sub-agent is done.  The mode of its filter stays in the store.
SubReturn ==
  /\ stack # <<>>
  /\ stack' = Front(stack)
  /\ UNCHANGED <<stores, active, turn, pos, ran, phase, before, raised, verdicts>>

NextTurn ==
  /\ phase = "execute"
  /\ stack = <<>>
  /\ pos > Len(batch)
  /\ submit = "no"
  /\ phase' = "answer"
  /\ UNCHANGED <<stores, active, stack, turn, pos, ran, before, raised, verdicts>>

\* The library's agent returns: with the calls executed, or with those beside its
\* submit skipped, the case the replay is there for.  A submit alone counts as the
\* last message with calls, or the library takes it out of the conversation.
Return(taken) ==
  /\ phase = "execute"
  /\ stack = <<>>
  /\ IF submit = "beside" THEN taken /\ (pos > Len(batch) \/ pos = 1)
     ELSE submit = "alone"
  /\ before' = Store
  /\ pos' = 1
  /\ phase' = IF taken /\ batch # <<>> THEN "replay" ELSE "done"
  /\ UNCHANGED <<stores, active, stack, turn, ran, raised, verdicts>>

-----------------------------------------------------------------------------
(* _apply_side_effect_calls.                                               *)

\* execute_tools runs the calls again, and the approver is asked again.
ReplayCall(approved) ==
  /\ phase = "replay"
  /\ stack = <<>>
  /\ pos <= Len(batch)
  /\ Call(batch[pos], approved)
  /\ Asked(approved)
  /\ pos' = pos + 1
  /\ UNCHANGED <<turn, ran, phase, before, raised>>

Replayed ==
  /\ phase = "replay"
  /\ stack = <<>>
  /\ pos > Len(batch)
  /\ phase' = "fallback"
  /\ UNCHANGED <<stores, active, stack, turn, pos, ran, before, raised, verdicts>>

\* execute_tools raises: a denial ends the replay, anything else falls back.
ReplayRaises(denial) ==
  /\ phase = "replay"
  /\ phase' = IF denial THEN "done" ELSE "fallback"
  /\ raised' = IF denial THEN "denial" ELSE "other"
  /\ stack' = <<>>
  /\ UNCHANGED <<stores, active, turn, pos, ran, before, verdicts>>

\* A write of a path that is not in the store.
PendingNew(s, c) ==
  \/ c.fn = "write_file" /\ s.files[Home[c.path]] = NoFile
  \/ c.fn = "write_todos" /\ s.todos = <<>>

\* A write whose effect is not what the default store holds now, whatever the instance
\* the call names.
Pending(s, c) ==
  \/ c.fn = "write_file" /\ s.files[Home[c.path]] # c.text
  \/ c.fn = "write_todos" /\ (c.items = <<>> \/ s.todos # c.items)

\* The fallback without the test of the size.
FallenBackUnsized(s, c) ==
  CASE c.fn = "write_file" -> [s EXCEPT !.files[Home[c.path]] = c.text]
    [] c.fn = "write_todos" -> IF c.items = <<>> THEN s ELSE [s EXCEPT !.todos = c.items]

\* The fallback writes around the tools and their policy, into the default store.  It
\* keeps the limit, but a text it cannot measure it writes; it writes what is right of a
\* list, and leaves the todos alone when that is nothing.
FallenBack(s, c) ==
  CASE c.fn = "write_file" -> IF c.text \in Large \ Unencodable
                              THEN s ELSE [s EXCEPT !.files[Home[c.path]] = c.text]
    [] c.fn = "write_todos" -> IF c.items = <<>> THEN s ELSE [s EXCEPT !.todos = c.items]

\* The pending calls are picked first and applied then, in their order.
Applied(s, calls) ==
  FoldLeft(LAMBDA now, c : IF Pending(s, c) THEN FallenBack(now, c) ELSE now, s, calls)

Fallback ==
  /\ phase = "fallback"
  /\ Become(Applied(Store, batch))
  /\ phase' = "done"
  /\ UNCHANGED <<active, stack, turn, pos, ran, before, raised, verdicts>>

Next ==
  \/ \E calls \in Messages, sub \in BOOLEAN : Answer(calls, sub)
  \/ \E approved \in BOOLEAN : ExecuteCall(approved) \/ ReplayCall(approved)
  \/ \E c \in SubCalls : SubCall(c)
  \/ \E taken \in BOOLEAN : Return(taken)
  \/ \E denial \in BOOLEAN : ReplayRaises(denial)
  \/ SubReturn \/ NextTurn \/ Replayed \/ Fallback

Spec == Init /\ [][Next]_vars

-----------------------------------------------------------------------------
(* Properties.                                                             *)

Storable == (Texts \ Large) \cup Unencodable
Stores == [files : [Paths -> Storable \cup {NoFile}], todos : Seq(Todos)]

\* No text above the limit is in the stores: the fallback measures a text as the tools
\* do, and what it writes without, in the except branch, has no size, as it does not
\* encode.  A mode is one of filters.py; the position stays inside the last message.
TypeOK ==
  /\ Store \in Stores /\ before \in Stores
  /\ active \in Modes \cup {NoMode}
  /\ \A i \in DOMAIN stack : stack[i].agent \in Agents /\ stack[i].mode \in Modes
  /\ batch \in Messages
  /\ turns \in 0 .. MaxTurns
  /\ pos \in 1 .. Len(batch) + 1
  /\ submit \in {"no", "beside", "alone"}
  /\ ran \subseteq DOMAIN batch
  /\ phase \in {"answer", "execute", "replay", "fallback", "done"}
  /\ raised \in {"nothing", "denial", "other"}
  /\ verdicts \in [DOMAIN batch -> SUBSET BOOLEAN]

\* d may change what the call c changes; a sub-agent may change anything.
Touches(c, d) ==
  LET ofFiles == {"write_file", "edit_file"}
  IN \/ c.fn = "transfer" \/ d.fn = "transfer"
     \/ c.fn \in ofFiles /\ d.fn \in ofFiles /\ Home[c.path] = Home[d.path]
     \/ c.fn \notin ofFiles /\ d.fn \notin ofFiles

Alone(i) == \A j \in DOMAIN batch \ {i} : ~Touches(batch[i], batch[j])

\* A write beside a submit lands (migration.py: side effects "are applied even when
\* combined with an immediate submit"): whether the library executed the calls or
\* not, and however the replay went, unless it was denied.  A write that the tool would
\* make and neither the approver nor the policy refuses, in the default store, and that
\* no other call of the message touches, that is.
SubmittedWritesLand ==
  phase = "done" /\ submit = "beside" /\ raised # "denial" =>
    \A i \in DOMAIN batch : Alone(i) /\ FALSE \notin verdicts[i] /\ Permitted(batch[i]) =>
      /\ batch[i].fn = "write_file" /\ batch[i].text \in Fits
           /\ Home[batch[i].path] = batch[i].path
           => files[batch[i].path] = batch[i].text
      /\ batch[i].fn = "write_todos" /\ ~batch[i].spoilt /\ batch[i].items # <<>>
           => todos = batch[i].items

\* "Add tests simulating approval denials to ensure no Store mutation occurs"
\* (docs/design/open-questions.md; the same in docs/backlog, "Side-Effect Helper -
\* Approval-Aware Fallback Policy"): when the approver has rejected every call of the
\* last message as often as it was asked, and no timeout or other exception has ended
\* the replay, the stores stay as the agent left them.
DenialsHold ==
  phase = "done" /\ raised # "other" /\ batch # <<>> /\ (\A i \in DOMAIN batch : verdicts[i] = {FALSE})
    => Store = before

\* The old string of an edit is not found again in what the edit made.
Once(c) ==
  c.fn = "edit_file" => \A t \in DOMAIN c.becomes : c.becomes[t] \notin DOMAIN c.becomes

\* The fallback asks of the call what its tool did: to write the default store, a text
\* that has a size, a list without wrong items or with nothing else.
Plain(c) ==
  /\ c.fn = "write_file" => Home[c.path] = c.path /\ c.text \notin Unencodable
  /\ c.fn = "write_todos" => (c.spoilt => c.items = <<>>)

\* Calls that were executed, touch different things and do nothing the second time
\* are left as they were by the replay and the fallback: a write refused for its size
\* is not made after all, a status is not moved on.  The calls that are not Plain, or
\* that the policy denies, are not so: the fallback makes or repeats their writes.
ReplayHarmless ==
  phase = "done" /\ ran = DOMAIN batch
    /\ (\A i \in DOMAIN batch :
          /\ batch[i].fn # "transfer" /\ Alone(i)
          /\ Once(batch[i]) /\ Permitted(batch[i]) /\ Plain(batch[i]))
    => Store = before

\* As above, of any calls: "Idempotency is addressed; fallbacks are skipped when side
\* effects are already applied" (docs/design/open-questions.md).
ReplayIdempotent ==
  phase = "done" /\ ran = DOMAIN batch
    /\ (\A i \in DOMAIN batch : batch[i].fn # "transfer")
    => Store = before

\* The first handoff of a sub-agent that was filtered by default passes the same
\* filter on to an agent without a setting of its own, whatever the global mode is.
CascadeFollowsParent ==
  Inherit => \A i \in 2 .. Len(stack) :
    LET parent == stack[i - 1].agent
        child == stack[i].agent
    IN stack[i].first /\ ExplicitMode[parent] = NoMode
         /\ ExplicitMode[child] = NoMode /\ AgentMode[child] = NoMode
         => stack[i].mode = stack[i - 1].mode

\* As above, of every nested handoff: docs/design/deepagents_implementation_prompts.md,
\* "nested handoffs inherit the active input filter unless explicitly overridden".
NestedInherits ==
  Inherit => \A i \in 2 .. Len(stack) :
    LET child == stack[i].agent
    IN ExplicitMode[child] = NoMode /\ AgentMode[child] = NoMode
         => stack[i].mode = stack[i - 1].mode
=============================================================================
