--------------------------- MODULE IterativeAgent ---------------------------
(***************************************************************************)
(* The loop of build_iterative_agent (iterative.py), with the retries of   *)
(* generate_with_retry_time around each call of the model.  The loop runs  *)
(* undisturbed between its awaits, so an action is all that happens from   *)
(* one await to the next: up to the call of the model, each attempt of it, *)
(* the execution of the tools.  Time passes during these only.             *)
(***************************************************************************)
EXTENDS Conversation

CONSTANTS
  NoLimit,        \* None, where a limit is optional
  TimeLimit,      \* real_time_limit_sec
  MaxSteps,       \* max_steps
  MessageLimit,   \* message_limit
  TokenLimited,   \* whether a token_limit is set
  PruneAfter,     \* prune_after_messages
  ProgressEvery,  \* progress_every, 0 for never
  CapsMessages,   \* whether per_msg_token_cap is set
  StopKeywords,   \* whether stop_on_keywords is set
  Prescan,        \* INSPECT_EXECUTOR_PRESCAN_HANDOFF
  ProductiveTime, \* INSPECT_PRODUCTIVE_TIME
  MaxAttempts, InitialBackoff, MaxBackoff,  \* the retries, in whole seconds
  Histories,      \* the messages the agent may be started with
  Outputs,        \* what the model may answer
  Durations       \* how long an attempt or the tools may take

ASSUME AgentAssumption ==
  /\ TimeLimit \in Nat \cup {NoLimit} /\ MaxSteps \in Nat \cup {NoLimit}
  /\ NoLimit \notin Int
  /\ MaxAttempts \in Nat \ {0}
  /\ InitialBackoff \in Nat /\ MaxBackoff \in Nat /\ InitialBackoff <= MaxBackoff
  /\ Durations \subseteq Nat
  /\ ProductiveTime \in BOOLEAN /\ Prescan \in BOOLEAN
  /\ {PruneAfter, MessageLimit} \subseteq Nat \cup {NoLimit}
  /\ ProgressEvery \in Nat
  /\ Outputs \subseteq
       [text : Texts, stop : {"stop", "model_length"}, calls : Seq({"tool", "handoff"})]

\* A conversation an agent may be started with: a system message is at its head, and its
\* results follow their calls.
ASSUME HistoriesAssumption ==
  \A history \in Histories :
    /\ history \in Seq(MessageTypes)
    /\ Positions(history, "system") # {} => history[1] = System
    /\ ResultsFollow(history) /\ AnsweredOnce(history) /\ CalledOnce(history)
    /\ \A i \in 1 .. Len(history) :
         /\ \A id \in CallIds(history[i]) : id[1] = 0
         /\ history[i].role = "tool" => history[i].answers[1] = 0

VARIABLES
  messages,  \* state.messages
  pc,        \* top of the loop, generate, tools, or how execute() ended
  step,
  now,       \* clock() - start
  retry,     \* total_retry_time
  waited,    \* the backoff of the current call of the model
  attempts,  \* its attempts so far
  delay,     \* the backoff before its next attempt
  timeout,   \* the limit on the current call of the model or the tools
  skipped    \* the calls the transcript reports as skipped by the pre-scan
vars == <<messages, pc, step, now, retry, waited, attempts, delay, timeout, skipped>>
clocks == <<now, retry, waited, attempts, delay, timeout>>

Running == pc \in {"top", "generate", "tools"}

Init ==
  /\ \E history \in Histories :
       messages = IF Positions(history, "system") = {} THEN <<System>> \o history ELSE history
  /\ pc = "top" /\ step = 0 /\ skipped = {}
  /\ now = 0 /\ retry = 0 /\ waited = 0 /\ attempts = 0 /\ delay = 0 /\ timeout = NoLimit

-----------------------------------------------------------------------------
\* The budgets.

Elapsed == now - (IF ProductiveTime THEN retry ELSE 0)
OutOfTime == TimeLimit # NoLimit /\ Elapsed >= TimeLimit
OutOfSteps == MaxSteps # NoLimit /\ step' > MaxSteps
OutOfMessages == MessageLimit # NoLimit /\ Len(messages) >= MessageLimit

\* Mutant: the time already spent is not subtracted.
FullTimeout == IF TimeLimit = NoLimit THEN NoLimit ELSE TimeLimit + 1

\* _remaining_timeout: never less than a second.
Remaining ==
  IF TimeLimit = NoLimit THEN NoLimit
  ELSE IF TimeLimit - Elapsed > 0 THEN TimeLimit - Elapsed ELSE 1

Lasts(d) == d \in {e \in Durations : timeout = NoLimit \/ e <= timeout}

-----------------------------------------------------------------------------
\* One iteration, up to the call of the model.

WithProgress(msgs) ==
  IF ProgressEvery # 0 /\ step' % ProgressEvery = 0
  THEN Append(msgs, User("info"))
  ELSE msgs

Shortened(msgs) ==
  LET recent == PruneHistory(msgs)
  IN  IF PruneAfter # NoLimit /\ Len(recent) > PruneAfter THEN PruneMessages(recent) ELSE recent

\* The token count of a conversation is not modelled: with a token_limit, any
\* conversation may have reached it.
Stop ==
  \/ (OutOfTime \/ OutOfSteps) /\ UNCHANGED messages
  \/ /\ ~OutOfTime /\ ~OutOfSteps
     /\ OutOfMessages \/ TokenLimited
     /\ messages' = Append(messages, User("limit"))

BeginStep ==
  /\ pc = "top"
  /\ step' = step + 1
  /\ \/ Stop /\ pc' = "done" /\ UNCHANGED clocks
     \/ /\ ~OutOfTime /\ ~OutOfSteps /\ ~OutOfMessages
        /\ messages' = Shortened(WithProgress(messages))
        /\ pc' = "generate"
        /\ timeout' = Remaining /\ attempts' = 0 /\ waited' = 0 /\ delay' = InitialBackoff
        /\ UNCHANGED <<now, retry>>
  /\ UNCHANGED skipped

-----------------------------------------------------------------------------
\* generate_with_retry_time

\* Mutant: the backoff is not capped.
AttemptFailsUncapped(d) ==
  /\ pc = "generate" /\ Lasts(d)
  /\ attempts + 1 < MaxAttempts
  /\ now' = now + d + delay
  /\ waited' = waited + delay /\ delay' = 2 * delay /\ attempts' = attempts + 1
  /\ UNCHANGED <<messages, step, pc, retry, timeout, skipped>>

\* An attempt fails with an error the predicate accepts, and is followed by the
\* backoff unless it was the last.
AttemptFails(d) ==
  /\ pc = "generate" /\ Lasts(d)
  /\ \/ /\ attempts + 1 < MaxAttempts
        /\ now' = now + d + delay
        /\ waited' = waited + delay
        /\ delay' = IF 2 * delay <= MaxBackoff THEN 2 * delay ELSE MaxBackoff
        /\ attempts' = attempts + 1
        /\ UNCHANGED pc
     \/ /\ attempts + 1 = MaxAttempts
        /\ now' = now + d /\ pc' = "raised"
        /\ UNCHANGED <<waited, delay, attempts>>
  /\ UNCHANGED <<messages, step, retry, timeout, skipped>>

\* Any other error ends execute(), except the IndexError below.
AttemptRaises(d) ==
  /\ pc = "generate" /\ Lasts(d)
  /\ now' = now + d /\ pc' = "raised"
  /\ UNCHANGED <<messages, step, retry, waited, attempts, delay, timeout, skipped>>

Overflowed(msgs) == PruneMessages(Append(msgs, User("hint")))

\* Mutant: an iteration that ends in an overflow is not counted.
OverflowUncounted(d) ==
  /\ pc = "generate" /\ Lasts(d)
  /\ now' = now + d
  /\ messages' = Overflowed(messages)
  /\ pc' = "top" /\ step' = step - 1
  /\ UNCHANGED <<retry, waited, attempts, delay, timeout, skipped>>

\* An IndexError stands for an overflow; the backoff before it is not counted.
Overflow(d) ==
  /\ pc = "generate" /\ Lasts(d)
  /\ now' = now + d
  /\ messages' = Overflowed(messages)
  /\ pc' = "top"
  /\ UNCHANGED <<step, retry, waited, attempts, delay, timeout, skipped>>

-----------------------------------------------------------------------------
\* The model answers.

\* The calls of an output, numbered within the step.
CallsOf(out) == [i \in 1 .. Len(out.calls) |->
                   [id |-> <<step, i>>, handoff |-> out.calls[i] = "handoff"]]
Handoffs(calls) == {i \in 1 .. Len(calls) : calls[i].handoff}

\* Mutant: every handoff passes the pre-scan.
SelectedAllHandoffs(calls) ==
  IF Prescan /\ Handoffs(calls) # {} THEN At(calls, Handoffs(calls)) ELSE calls

\* The pre-scan keeps the first handoff and drops all other calls.
Selected(calls) ==
  LET first == SelectInSeq(calls, LAMBDA call : call.handoff)
  IN  IF Prescan /\ first # 0 THEN <<calls[first]>> ELSE calls

SaysDone(msg) == StopKeywords /\ msg.role = "assistant" /\ msg.text = "done"

\* "Please continue.", left out on the last step when messages are capped.
Nudged(msgs) ==
  IF MaxSteps # NoLimit /\ step >= MaxSteps /\ CapsMessages
  THEN msgs
  ELSE Append(msgs, User("continue"))

Generate(d, out) ==
  /\ pc = "generate" /\ Lasts(d)
  /\ now' = now + d
  /\ retry' = retry + waited
  /\ LET calls == CallsOf(out)
         run == Selected(calls)
     IN  \/ /\ out.stop = "model_length"
            /\ messages' = Overflowed(Append(messages, Assistant(out.text, calls)))
            /\ pc' = "top"
            /\ UNCHANGED <<timeout, skipped>>
         \/ /\ out.stop # "model_length" /\ calls # <<>>
            /\ messages' = Append(messages, Assistant(out.text, run))
            /\ skipped' = skipped \cup ({calls[i].id : i \in 1 .. Len(calls)}
                                          \ {run[i].id : i \in 1 .. Len(run)})
            /\ pc' = "tools"
            /\ timeout' = Remaining'
         \/ /\ out.stop # "model_length" /\ calls = <<>>
            /\ messages' = Nudged(Append(messages, Assistant(out.text, <<>>)))
            /\ pc' = IF SaysDone(Last(messages')) THEN "done" ELSE "top"
            /\ UNCHANGED <<timeout, skipped>>
  /\ UNCHANGED <<step, waited, attempts, delay>>

-----------------------------------------------------------------------------
\* execute_tools (inspect_ai): a result for every call of the last message, in
\* order; a handoff also brings the messages of the agent it was made to, the
\* last of them a user message.

Results(call) ==
  <<ToolResult(call.id)>>
    \o IF call.handoff THEN <<Assistant("report", <<>>), User("handed back")>> ELSE <<>>

ToolsEnd(d) ==
  /\ pc = "tools" /\ Lasts(d)
  /\ now' = now + d
  /\ LET calls == Last(messages).calls
     IN  messages' = messages \o FlattenSeq([i \in 1 .. Len(calls) |-> Results(calls[i])])
  /\ pc' = IF SaysDone(Last(messages')) THEN "done" ELSE "top"
  /\ UNCHANGED <<step, retry, waited, attempts, delay, timeout, skipped>>

\* asyncio.timeout ends the tools when the budget is used up.
ToolsTimeOut ==
  /\ pc = "tools" /\ timeout # NoLimit
  /\ now' = now + timeout
  /\ messages' = Append(messages, User("timeout"))
  /\ pc' = "done"
  /\ UNCHANGED <<step, retry, waited, attempts, delay, timeout, skipped>>

\* A limit of the runner, or an error of a tool, ends the agent at an await.
Interrupt ==
  /\ pc \in {"generate", "tools"}
  /\ pc' = "raised"
  /\ UNCHANGED <<messages, step, clocks, skipped>>

-----------------------------------------------------------------------------
Loop ==
  \/ BeginStep
  \/ \E d \in Durations :
       \/ AttemptFails(d) \/ AttemptRaises(d) \/ Overflow(d)
       \/ ToolsEnd(d)
       \/ \E out \in Outputs : Generate(d, out)
  \/ ToolsTimeOut

Next == Loop \/ Interrupt

Spec == Init /\ [][Next]_vars

\* The loop is never suspended for good: attempts and tools end.
FairSpec == Spec /\ WF_vars(Loop)

-----------------------------------------------------------------------------
\* Properties.

\* The typing of the state.
TypeOK ==
  /\ messages \in Seq(MessageTypes) /\ skipped \in SUBSET Ids
  /\ pc \in {"top", "generate", "tools", "done", "raised"}
  /\ step \in Nat /\ now \in Nat /\ retry \in Nat /\ waited \in Nat
  /\ attempts \in 0 .. MaxAttempts - 1 /\ delay \in 0 .. MaxBackoff
  /\ timeout \in Nat \cup {NoLimit}

\* However the history was cut, a tool result in it comes after the assistant
\* message that made the call, with other results only between the two, and no
\* result is there twice: a provider rejects a conversation that breaks this.
ResultsFollowCalls == ResultsFollow(messages) /\ AnsweredOnce(messages)

\* Every call in a conversation the model is given has its result in it.
PairingHonored ==
  pc = "generate" =>
    \A j \in Positions(messages, "assistant") : \A id \in CallIds(messages[j]) :
      \E i \in Positions(messages, "tool") : messages[i].answers = id

\* The system prompt stays at the head, and the first user message, the task,
\* is never lost nor replaced by a later one, whatever is pruned.
TaskKept ==
  [][/\ messages'[1] = System
     /\ Positions(messages, "user") # {} =>
          At(messages', First(Positions(messages', "user")))
            = At(messages, First(Positions(messages, "user")))]_vars

\* What the model is given is bounded: by the window, by the threshold or what a
\* prune leaves (a salvaged pair included), and by message_limit.
HistoryBounded ==
  pc = "generate" =>
    /\ Window # 0 => Len(messages) <= Window + 2
    /\ PruneAfter # NoLimit =>
         Len(messages) <= Max({PruneAfter,
           Cardinality(Positions(messages, "system")) + 1 + Max({KeepLast, 1}) + 2})
    /\ MessageLimit # NoLimit => Len(messages) <= MessageLimit

\* With the pre-scan on, a handoff never runs together with another call, and
\* no call is both run and reported as skipped.
HandoffRunsAlone ==
  /\ Prescan /\ pc = "tools" =>
       LET calls == Last(messages).calls IN Handoffs(calls) # {} => Len(calls) = 1
  /\ \A j \in Positions(messages, "assistant") :
       CallIds(messages[j]) \cap skipped = {}

\* With a time limit, how far the agent can run past it: each attempt of the
\* last call of the model may use the whole remaining time, each backoff but
\* the first adds to it, and the tools are always given a second.
OverrunBounded ==
  TimeLimit # NoLimit =>
    Elapsed <= MaxAttempts * TimeLimit + (MaxAttempts - 1) * MaxBackoff + 1

\* With a step limit, the agent always ends.
Terminates == <>~Running
=============================================================================
