---------------------------- MODULE Conversation ----------------------------
(***************************************************************************)
(* The conversation of an agent, and the two ways the iterative agent      *)
(* shortens it: _prune_history of iterative.py, applied on every step, and *)
(* prune_messages of _conversation.py, applied above a threshold and after *)
(* a context overflow.                                                     *)
(*                                                                         *)
(* A message is its role, a text abstracted to what the agent recognises   *)
(* in it, the tool calls of an assistant message and the call a tool       *)
(* message answers.  Truncation of long texts leaves all of these alone.   *)
(***************************************************************************)
EXTENDS Integers, Sequences, SequencesExt

CONSTANTS
  Window,     \* the tail _prune_history keeps: max_messages, or 2 * max_turns;
              \* 0 when max_turns <= 0, which turns it off
  KeepLast    \* prune_keep_last

ASSUME ConversationAssumption == Window \in Nat /\ KeepLast \in Nat

NoAnswer == <<>>

\* A call is numbered by the step it is made in and its place there, 0 in the history the
\* agent is started with.
Ids == Nat \X Nat
Roles == {"system", "user", "assistant", "tool"}

\* What is told apart in a text: the agent's own messages, a stop keyword ("done"), the
\* user's task and later messages, and all else ("said", "result").
Texts == {"prompt", "info", "limit", "hint", "continue", "timeout", "done", "task", "more",
          "handed back", "report", "said", "result"}

CallTypes == [id : Ids, handoff : BOOLEAN]
MessageTypes ==
  [role : Roles, text : Texts, calls : Seq(CallTypes), answers : Ids \cup {NoAnswer}]

System       == [role |-> "system", text |-> "prompt", calls |-> <<>>, answers |-> NoAnswer]
User(text)   == [role |-> "user", text |-> text, calls |-> <<>>, answers |-> NoAnswer]
Assistant(text, calls) ==
                [role |-> "assistant", text |-> text, calls |-> calls, answers |-> NoAnswer]
ToolResult(id) == [role |-> "tool", text |-> "result", calls |-> <<>>, answers |-> id]

CallIds(msg) == {msg.calls[i].id : i \in 1 .. Len(msg.calls)}

\* The messages of msgs at the positions in Kept, in their order.
At(msgs, Kept) ==
  FoldLeftDomain(LAMBDA kept, i : IF i \in Kept THEN Append(kept, msgs[i]) ELSE kept,
                 <<>>, msgs)

Positions(msgs, role) == {i \in 1 .. Len(msgs) : msgs[i].role = role}

\* A tool result comes after the assistant message that made the call, with other
\* results only between the two.
ResultsFollow(msgs) ==
  \A i \in Positions(msgs, "tool") :
    \E j \in Positions(msgs, "assistant") :
      /\ j < i /\ msgs[i].answers \in CallIds(msgs[j])
      /\ \A k \in 1 .. Len(msgs) : j < k /\ k < i => msgs[k].role = "tool"

\* No result is there twice, and no call.
AnsweredOnce(msgs) ==
  \A i, k \in Positions(msgs, "tool") : msgs[i].answers = msgs[k].answers => i = k
CalledOnce(msgs) ==
  \A i, k \in 1 .. Len(msgs) : i # k => CallIds(msgs[i]) \cap CallIds(msgs[k]) = {}

\* The first of a set of positions, as a set.
First(positions) == {i \in positions : \A j \in positions : i <= j}

\* Mutant: one too many.
LastOfOneMore(positions, n) ==
  {i \in positions : Cardinality({j \in positions : j > i}) <= n}

\* The last n of a set of positions.
LastOf(positions, n) ==
  {i \in positions : Cardinality({j \in positions : j > i}) < n}

-----------------------------------------------------------------------------
\* _prune_history

\* A tool result stays if an assistant message and other results are all that
\* the tail has right before it.
FollowsAssistant(msgs, tail, i) ==
  \E j \in tail :
    /\ j < i /\ msgs[j].role = "assistant"
    /\ \A k \in tail : j < k /\ k < i => msgs[k].role = "tool"

\* Mutant: the window is cut without dropping the results it orphans.
PruneHistoryKeepsOrphans(msgs) ==
  LET prefix == First(Positions(msgs, "system")) \cup First(Positions(msgs, "user"))
  IN  At(msgs, prefix \cup LastOf((1 .. Len(msgs)) \ prefix, Window))

\* Mutant: the first user message is not kept apart.
PruneHistoryDropsTask(msgs) ==
  LET prefix == First(Positions(msgs, "system"))
      tail == LastOf((1 .. Len(msgs)) \ prefix, Window)
      kept == {i \in tail : msgs[i].role = "tool" => FollowsAssistant(msgs, tail, i)}
  IN  At(msgs, prefix) \o At(msgs, kept)

PruneHistory(msgs) ==
  LET prefix == First(Positions(msgs, "system")) \cup First(Positions(msgs, "user"))
      tail == LastOf((1 .. Len(msgs)) \ prefix, Window)
      kept == {i \in tail : msgs[i].role = "tool" => FollowsAssistant(msgs, tail, i)}
  IN  IF Window = 0 THEN msgs ELSE At(msgs, prefix) \o At(msgs, kept)

-----------------------------------------------------------------------------
\* prune_messages

\* The positions of the assistant messages, among some positions, that made the
\* call result i answers.
Parents(msgs, among, i) ==
  {j \in among : msgs[j].role = "assistant" /\ msgs[i].answers \in CallIds(msgs[j])}

\* The most recent result that has an assistant message before it, with the
\* nearest such message.
Salvage(msgs, core) ==
  LET Before(i) == {j \in core : j < i}
      answered == {i \in core : msgs[i].role = "tool" /\ Parents(msgs, Before(i), i) # {}}
  IN  UNION {{i} \cup LastOf(Parents(msgs, Before(i), i), 1) : i \in LastOf(answered, 1)}

\* A tail of one message is kept even for KeepLast = 0.  When no result
\* survives, the last pair of a call and its result is put before the tail.
PruneMessages(msgs) ==
  LET systems == Positions(msgs, "system")
      first == First(Positions(msgs, "user"))
      core == {i \in (1 .. Len(msgs)) \ (systems \cup first) : msgs[i].text # "hint"}
      tail == LastOf(core, IF KeepLast = 0 THEN 1 ELSE KeepLast)
      kept == {i \in tail : msgs[i].role = "tool" => Parents(msgs, tail, i) # {}}
      salvaged == IF \E i \in kept : msgs[i].role = "tool" THEN {} ELSE Salvage(msgs, core)
  IN  At(msgs, systems) \o At(msgs, first) \o At(msgs, salvaged) \o At(msgs, kept)

=============================================================================
