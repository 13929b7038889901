------------------------------ MODULE Approvals ------------------------------
(***************************************************************************)
(* The approval of tool calls: the policies of approval/registry.py,       *)
(* presets.py and interrupts.py, and the engine of inspect_ai that asks    *)
(* them about each call of an assistant message, one call after the other. *)
(* A call of transfer_to_* runs a sub-agent, whose own messages are judged *)
(* by the same policies before the rest of the message is.                 *)
(***************************************************************************)
EXTENDS Integers, SequencesExt

CONSTANTS
  Handoffs,   \* the functions transfer_to_*
  Sensitive,  \* those the gates match, the mutations of the files tool included
  Plain,      \* the other functions
  Turns,      \* the calls a message of the model may have: sequences of functions
  Chains,     \* the chains of policies to look at
  MaxTurns,   \* bound: the messages with calls
  MaxDepth    \* bound: the agents under way at a time

Functions == Handoffs \cup Sensitive \cup Plain

Kinds == {"exclusive", "kill_switch", "approve_all", "reject_all", "dev_gate",
          "prod_gate", "inline"}

\* A chain is a sequence of policies; those of registry.py are for all tools.
ASSUME ApprovalsAssumption ==
  /\ Turns \subseteq Seq(Functions)
  /\ MaxTurns \in Nat /\ MaxDepth \in Nat \ {0}
  /\ \A chain \in Chains :
       /\ chain \in Seq(Range(chain))
       /\ \A k \in 1 .. Len(chain) :
            /\ chain[k].kind \in Kinds
            /\ chain[k].kind \in {"exclusive", "kill_switch"} => chain[k].tools = Functions

VARIABLES
  policies,    \* the active chain
  killSwitch,  \* INSPECT_DISABLE_TOOL_PARALLEL or its alias
  agents,      \* the agents under way: the last message of each, and its calls so far
  turns,
  status       \* running, or terminated by a policy
vars == <<policies, killSwitch, agents, turns, status>>

Decisions == {"approve", "modify", "reject", "terminate", "escalate"}
LetsRun(decision) == decision \in {"approve", "modify"}

-----------------------------------------------------------------------------
\* The policies.  Each judges call i of a message; on tells the kill switch.

First(S) == CHOOSE i \in S : \A j \in S : i <= j
HandoffsOf(calls) == {i \in 1 .. Len(calls) : calls[i] \in Handoffs}
FirstHandoff(calls) == First(HandoffsOf(calls))

\* Mutant: any handoff is approved, not the first alone.
ExclusiveAnyHandoff(calls, i) ==
  IF HandoffsOf(calls) = {} \/ i \in HandoffsOf(calls) THEN "approve" ELSE "reject"

\* handoff_exclusive_policy: a message without a handoff is approved outright.
HandoffExclusive(calls, i) ==
  IF HandoffsOf(calls) = {} \/ i = FirstHandoff(calls) THEN "approve" ELSE "reject"

\* Mutant: two calls still pass for one.
KillSwitchOffByOne(on, calls, i) ==
  IF ~on \/ Len(calls) <= 2 \/ HandoffsOf(calls) # {} THEN "escalate"
  ELSE IF i = 1 THEN "approve" ELSE "reject"

\* parallel_kill_switch_policy: of several calls, and no handoff, the first only.
ParallelKillSwitch(on, calls, i) ==
  IF ~on \/ Len(calls) <= 1 \/ HandoffsOf(calls) # {} THEN "escalate"
  ELSE IF i = 1 THEN "approve" ELSE "reject"

\* dev_gate and prod_gate.
Gate(fn, verdict) == IF fn \in Sensitive THEN verdict ELSE "approve"

\* _approve of approval_from_interrupt_config.
Inline(entry) ==
  IF entry.decision = "modify"
  THEN IF entry.allowEdit THEN "modify" ELSE "reject"
  ELSE IF entry.decision \in {"reject", "terminate"} THEN entry.decision
  ELSE IF entry.decision = "approve" /\ ~entry.allowAccept THEN "reject" ELSE "approve"

Judge(policy, on, calls, i) ==
  CASE policy.kind = "exclusive"   -> HandoffExclusive(calls, i)
    [] policy.kind = "kill_switch" -> ParallelKillSwitch(on, calls, i)
    [] policy.kind = "approve_all" -> "approve"
    [] policy.kind = "reject_all"  -> "reject"
    [] policy.kind = "dev_gate"    -> Gate(calls[i], "escalate")
    [] policy.kind = "prod_gate"   -> Gate(calls[i], "terminate")
    [] policy.kind = "inline"      -> Inline(policy.entry)

-----------------------------------------------------------------------------
\* The chains.

Policy(kind) == [kind |-> kind, tools |-> Functions]

ApprovalChain(rest, exclusivity, kill) ==
  (IF exclusivity THEN <<Policy("exclusive")>> ELSE <<>>)
    \o (IF kill THEN <<Policy("kill_switch")>> ELSE <<>>)
    \o rest

Preset(name) ==
  CASE name = "ci"   -> <<Policy("approve_all")>>
    [] name = "dev"  -> ApprovalChain(<<Policy("dev_gate"), Policy("reject_all")>>, TRUE, TRUE)
    [] name = "prod" -> ApprovalChain(<<Policy("prod_gate")>>, TRUE, TRUE)

\* approval_from_interrupt_config: one policy for each entry.  Each closes over
\* the variables of the loop, so all of them judge by the last entry.
FromInterruptConfig(cfg) ==
  [k \in 1 .. Len(cfg) |->
     [kind |-> "inline", tools |-> cfg[k].tools, entry |-> cfg[Len(cfg)]]]

\* The engine: the first policy for the function that does not escalate decides,
\* and a call none decides is rejected.  Without policies everything is approved.
Decision(chain, on, calls, i) ==
  LET deciders == {k \in 1 .. Len(chain) :
                     calls[i] \in chain[k].tools /\ Judge(chain[k], on, calls, i) # "escalate"}
  IN  IF chain = <<>> THEN "approve"
      ELSE IF deciders = {} THEN "reject" ELSE Judge(chain[First(deciders)], on, calls, i)

-----------------------------------------------------------------------------
\* An agent: the calls of its last message, and the decisions made about them.
Fresh == [calls |-> <<>>, decided |-> <<>>]
Top == agents[Len(agents)]
Handled(agent) == Len(agent.decided) = Len(agent.calls)

Init ==
  /\ policies \in Chains
  /\ killSwitch \in BOOLEAN
  /\ agents = <<Fresh>> /\ turns = 0 /\ status = "running"

Answer(calls) ==
  /\ status = "running" /\ turns < MaxTurns
  /\ Handled(Top)
  /\ agents' = [agents EXCEPT ![Len(agents)] = [calls |-> calls, decided |-> <<>>]]
  /\ turns' = turns + 1
  /\ UNCHANGED <<policies, killSwitch, status>>

\* The next call of the message is judged; approved, it is run.
Apply ==
  /\ status = "running" /\ ~Handled(Top)
  /\ LET i == Len(Top.decided) + 1
         decision == Decision(policies, killSwitch, Top.calls, i)
         judged == [agents EXCEPT ![Len(agents)].decided = Append(@, decision)]
         delegates == Top.calls[i] \in Handoffs /\ decision = "approve"
     IN  /\ delegates => Len(agents) < MaxDepth
         /\ agents' = IF delegates THEN Append(judged, Fresh) ELSE judged
         /\ status' = IF decision = "terminate" THEN "terminated" ELSE status
  /\ UNCHANGED <<policies, killSwitch, turns>>

\* Mutant: the outermost agent returns too.
ReturnAlways ==
  /\ status = "running" /\ Handled(Top)
  /\ agents' = Front(agents)
  /\ UNCHANGED <<policies, killSwitch, turns, status>>

\* A sub-agent is done: the agent that called it goes on with its own message.
Return ==
  /\ status = "running" /\ Handled(Top)
  /\ Len(agents) > 1
  /\ agents' = Front(agents)
  /\ UNCHANGED <<policies, killSwitch, turns, status>>

Next == (\E calls \in Turns : Answer(calls)) \/ Apply \/ Return

Spec == Init /\ [][Next]_vars

-----------------------------------------------------------------------------
\* Properties.

HeadedBy(kind) == policies # <<>> /\ policies[1].kind = kind
RunOf(agent) == {i \in 1 .. Len(agent.decided) : LetsRun(agent.decided[i])}

\* The typing of the state; an agent is always under way, decides no more calls
\* than its message has, and no call is ever left escalated.
TypeOK ==
  /\ Len(agents) \in 1 .. MaxDepth
  /\ \A k \in 1 .. Len(agents) :
       /\ agents[k].calls \in Seq(Functions)
       /\ agents[k].decided \in Seq(Decisions \ {"escalate"})
       /\ Len(agents[k].decided) <= Len(agents[k].calls)
  /\ killSwitch \in BOOLEAN /\ turns \in 0 .. MaxTurns
  /\ status \in {"running", "terminated"}

\* handoff_exclusive_policy at the head of a chain, whatever follows it: of a
\* message with a handoff the first handoff is run and nothing else, at every
\* depth, and an agent that has delegated never has another call run.
FirstHandoffRunsAlone ==
  HeadedBy("exclusive") =>
    \A k \in 1 .. Len(agents) :
      LET agent == agents[k] IN
        HandoffsOf(agent.calls) # {} =>
          /\ RunOf(agent) \subseteq {FirstHandoff(agent.calls)}
          /\ Handled(agent) => RunOf(agent) # {}

\* parallel_kill_switch_policy on at the head of a chain, as approval_chain
\* leaves it without exclusivity: two calls of a message without a handoff are
\* never both run, at any depth, and the first is.
OneCallPerTurn ==
  killSwitch /\ HeadedBy("kill_switch") =>
    \A k \in 1 .. Len(agents) :
      LET agent == agents[k] IN
        HandoffsOf(agent.calls) = {} /\ Len(agent.calls) > 1 =>
          /\ RunOf(agent) \subseteq {1}
          /\ Handled(agent) => RunOf(agent) # {}

\* With dev or prod no sensitive call is run.
SensitiveGated ==
  policies \in {Preset("dev"), Preset("prod")} =>
    \A k \in 1 .. Len(agents) : \A i \in RunOf(agents[k]) :
      agents[k].calls[i] \notin Sensitive

\* A call is decided by the first entry of the configuration for its tool.
ByOwnEntry(cfg) ==
  policies = FromInterruptConfig(cfg) =>
    \A k \in 1 .. Len(agents) : \A i \in 1 .. Len(agents[k].decided) :
      LET own == SelectSeq(cfg, LAMBDA entry : agents[k].calls[i] \in entry.tools)
      IN  own # <<>> => agents[k].decided[i] = Inline(own[1])
=============================================================================
