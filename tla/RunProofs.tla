----------------------------- MODULE RunProofs ------------------------------
(***************************************************************************)
(* Theorems about what surrounds a run of an agent: the approvals that     *)
(* run_agent activates, for every chain of policies, every message and     *)
(* every depth of delegation; the runs of Runner, for any number of them;  *)
(* and the transcript, whose hash chain shows every alteration and         *)
(* verifies what honest calls wrote, for any writers, events, calls and    *)
(* flushes.                                                                *)
(***************************************************************************)
EXTENDS Approvals, Runner, TranscriptLog, DataLemmas

-----------------------------------------------------------------------------
(* The policies of Approvals.                                              *)

\* First is the least element of a set of positions.
LEMMA FirstLeast ==
  ASSUME NEW S, S \subseteq Nat, S # {}
  PROVE  First(S) \in S /\ \A j \in S : First(S) <= j
<1>1. PICK i \in S : \A j \in S : ~ (<<j, i>> \in OpToRel(<, Nat))
  BY NatLessThanWellFounded, WFMin
<1>2. \A j \in S : ~ (j < i)
  BY <1>1 DEF OpToRel
<1>3. \A j \in S : i <= j
  BY <1>2
<1>4. QED
  BY <1>3 DEF First

\* A chain is judged by its head alone when the head does not escalate.
LEMMA HeadDecides ==
  ASSUME NEW chain \in Chains, NEW on \in BOOLEAN, NEW calls \in Seq(Functions), NEW i \in 1 .. Len(calls),
         chain # <<>>, chain[1].tools = Functions, Judge(chain[1], on, calls, i) # "escalate"
  PROVE  Decision(chain, on, calls, i) = Judge(chain[1], on, calls, i)
<1> DEFINE deciders == {k \in 1 .. Len(chain) :
                          calls[i] \in chain[k].tools /\ Judge(chain[k], on, calls, i) # "escalate"}
<1>1. chain \in Seq(Range(chain)) /\ Len(chain) \in Nat /\ Len(chain) >= 1
  BY ApprovalsAssumption, EmptySeq, LenProperties
<1>2. calls[i] \in Functions
  BY ElementOfSeq
<1>3. 1 \in deciders /\ \A k \in deciders : 1 <= k /\ k \in Nat
  BY <1>1, <1>2
<1> HIDE DEF deciders
<1>4. First(deciders) = 1
  BY <1>3, FirstLeast
<1>5. QED
  BY <1>3, <1>4 DEF Decision, deciders

\* What is judged of a message never escalates.
LEMMA NeverEscalates ==
  ASSUME NEW chain \in Chains, NEW on \in BOOLEAN, NEW calls, NEW i
  PROVE  Decision(chain, on, calls, i) \in {"approve", "modify", "reject", "terminate"}
<1> DEFINE deciders == {k \in 1 .. Len(chain) :
                          calls[i] \in chain[k].tools /\ Judge(chain[k], on, calls, i) # "escalate"}
<1>1. deciders \subseteq 1 .. Len(chain) /\ Len(chain) \in Nat
  BY ApprovalsAssumption, LenProperties
<1>2. ASSUME deciders # {} PROVE First(deciders) \in deciders
  <2> HIDE DEF deciders
  <2>1. deciders \subseteq Nat
    BY <1>1
  <2>2. QED
    BY <1>2, <2>1, FirstLeast
<1>3. \A k \in deciders : Judge(chain[k], on, calls, i) \in {"approve", "modify", "reject", "terminate"}
  <2> TAKE k \in deciders
  <2>1. chain[k].kind \in Kinds /\ Judge(chain[k], on, calls, i) # "escalate"
    BY ApprovalsAssumption
  <2>2. QED
    BY <2>1 DEF Judge, Kinds, HandoffExclusive, ParallelKillSwitch, Gate, Inline
<1>4. QED
  BY <1>2, <1>3 DEF Decision

-----------------------------------------------------------------------------
\* The inductive invariant: every decision on record is the one the chain makes
\* of the message, which holds because neither the chain nor the switch changes.
Agents == [calls : Seq(Functions), decided : Seq(Decisions)]

Typed ==
  /\ policies \in Chains /\ killSwitch \in BOOLEAN
  /\ turns \in 0 .. MaxTurns /\ status \in {"running", "terminated"}
  /\ agents \in Seq(Agents)
  /\ Len(agents) \in 1 .. MaxDepth

Judged(chain, on, agent) ==
  /\ Len(agent.decided) <= Len(agent.calls)
  /\ \A i \in 1 .. Len(agent.decided) :
       agent.decided[i] = Decision(chain, on, agent.calls, i)

Inv == Typed /\ \A k \in 1 .. Len(agents) : Judged(policies, killSwitch, agents[k])

LEMMA FreshJudged ==
  ASSUME NEW chain, NEW on, NEW calls \in Seq(Functions)
  PROVE  LET agent == [calls |-> calls, decided |-> <<>>]
         IN  agent \in Agents /\ Judged(chain, on, agent)
<1>1. <<>> \in Seq(Decisions) /\ Len(<<>>) = 0 /\ Len(calls) \in Nat
  BY EmptySeq, LenProperties
<1>2. QED
  BY <1>1 DEF Agents, Judged

\* One more decision, made as the chain makes it.
LEMMA OneMoreJudged ==
  ASSUME NEW chain \in Chains, NEW on \in BOOLEAN, NEW agent \in Agents,
         Judged(chain, on, agent), ~Handled(agent)
  PROVE  LET decision == Decision(chain, on, agent.calls, Len(agent.decided) + 1)
             next == [agent EXCEPT !.decided = Append(@, decision)]
         IN  next \in Agents /\ Judged(chain, on, next)
<1> DEFINE m == Len(agent.decided)
           decision == Decision(chain, on, agent.calls, m + 1)
           next == [agent EXCEPT !.decided = Append(@, decision)]
<1>1. /\ agent.decided \in Seq(Decisions) /\ agent.calls \in Seq(Functions)
      /\ m \in Nat /\ Len(agent.calls) \in Nat /\ m + 1 <= Len(agent.calls)
  BY LenProperties DEF Agents, Judged, Handled
<1>2. decision \in Decisions
  BY NeverEscalates DEF Decisions
<1> HIDE DEF decision
<1>3. /\ next.calls = agent.calls /\ next.decided = Append(agent.decided, decision)
      /\ next \in [calls : Seq(Functions), decided : Seq(Decisions)]
  BY <1>1, <1>2, AppendProperties DEF Agents
<1>4. /\ Len(next.decided) = m + 1
      /\ \A i \in 1 .. m : next.decided[i] = agent.decided[i]
      /\ next.decided[m + 1] = decision
  BY <1>1, <1>2, <1>3, AppendProperties
<1>5. \A i \in 1 .. m + 1 : next.decided[i] = Decision(chain, on, next.calls, i)
  <2> TAKE i \in 1 .. m + 1
  <2>1. CASE i = m + 1
    BY <2>1, <1>3, <1>4 DEF decision
  <2>2. CASE i \in 1 .. m
    BY <2>2, <1>3, <1>4 DEF Judged
  <2>3. QED
    BY <1>1, <2>1, <2>2
<1> HIDE DEF next
<1>6. Judged(chain, on, next) /\ next \in Agents
  BY <1>1, <1>3, <1>4, <1>5 DEF Judged, Agents
<1>7. QED
  BY <1>6 DEF next, decision

LEMMA InitInv == Init => Inv
<1> SUFFICES ASSUME Init PROVE Inv
  OBVIOUS
<1>1. Fresh \in Agents /\ Judged(policies, killSwitch, Fresh)
  BY FreshJudged, EmptySeq DEF Fresh
<1>2. agents = <<Fresh>> /\ agents \in Seq(Agents) /\ Len(agents) = 1 /\ agents[1] = Fresh
  BY <1>1 DEF Init
<1>3. Typed
  BY <1>2, ApprovalsAssumption DEF Typed, Init
<1>4. QED
  BY <1>1, <1>2, <1>3 DEF Inv

LEMMA NextInv == Inv /\ [Next]_vars => Inv'
<1> SUFFICES ASSUME Inv, [Next]_vars PROVE Inv'
  OBVIOUS
<1> DEFINE n == Len(agents)
<1>1. /\ agents \in Seq(Agents) /\ n \in Nat /\ n >= 1 /\ n <= MaxDepth
      /\ \A k \in 1 .. n : agents[k] \in Agents /\ Judged(policies, killSwitch, agents[k])
      /\ policies \in Chains /\ killSwitch \in BOOLEAN
  BY ApprovalsAssumption, LenProperties, ElementOfSeq DEF Inv, Typed
<1>2. ASSUME UNCHANGED <<policies, killSwitch>>, turns' \in 0 .. MaxTurns,
             status' \in {"running", "terminated"},
             agents' \in Seq(Agents), Len(agents') \in 1 .. MaxDepth,
             \A k \in 1 .. Len(agents') : Judged(policies, killSwitch, agents'[k])
      PROVE  Inv'
  BY <1>1, <1>2 DEF Inv, Typed
<1>3. ASSUME NEW calls \in Turns, Answer(calls) PROVE Inv'
  <2> DEFINE next == [calls |-> calls, decided |-> <<>>]
  <2>1. /\ agents' = [agents EXCEPT ![n] = next]
        /\ UNCHANGED <<policies, killSwitch, status>>
        /\ turns' \in 0 .. MaxTurns
    BY <1>3, ApprovalsAssumption DEF Answer, Inv, Typed
  <2>2. next \in Agents /\ Judged(policies, killSwitch, next)
    BY FreshJudged, ApprovalsAssumption
  <2> HIDE DEF next
  <2>3. /\ agents' \in Seq(Agents) /\ Len(agents') = n
        /\ \A k \in 1 .. n : agents'[k] = IF k = n THEN next ELSE agents[k]
    BY <1>1, <2>1, <2>2, ExceptSeq
  <2>4. QED
    BY <1>1, <1>2, <2>1, <2>2, <2>3 DEF Inv, Typed
<1>4. CASE Apply
  <2> DEFINE decision == Decision(policies, killSwitch, Top.calls, Len(Top.decided) + 1)
             next == [Top EXCEPT !.decided = Append(@, decision)]
             judged == [agents EXCEPT ![n] = next]
  <2>1. /\ UNCHANGED <<policies, killSwitch, turns>>
        /\ status' \in {"running", "terminated"}
        /\ ~Handled(Top)
        /\ \/ agents' = judged
           \/ agents' = Append(judged, Fresh) /\ n < MaxDepth
    BY <1>4 DEF Apply, Top, Inv, Typed
  <2>2. Top \in Agents /\ Judged(policies, killSwitch, Top)
    BY <1>1 DEF Top
  <2>3. next \in Agents /\ Judged(policies, killSwitch, next)
    BY <1>1, <2>1, <2>2, OneMoreJudged
  <2>4. Fresh \in Agents /\ Judged(policies, killSwitch, Fresh)
    BY FreshJudged, EmptySeq DEF Fresh
  <2> HIDE DEF next
  <2>5. /\ judged \in Seq(Agents) /\ Len(judged) = n
        /\ \A k \in 1 .. n : judged[k] = IF k = n THEN next ELSE agents[k]
    BY <1>1, <2>3, ExceptSeq
  <2> HIDE DEF judged
  <2>6. CASE agents' = judged
    BY <1>1, <1>2, <2>1, <2>3, <2>5, <2>6 DEF Inv, Typed
  <2>7. CASE agents' = Append(judged, Fresh) /\ n < MaxDepth
    <3>1. /\ agents' \in Seq(Agents) /\ Len(agents') = n + 1
          /\ \A k \in 1 .. n : agents'[k] = judged[k]
          /\ agents'[n + 1] = Fresh
      BY <2>4, <2>5, <2>7, AppendProperties
    <3>2. \A k \in 1 .. n + 1 : Judged(policies, killSwitch, agents'[k])
      BY <1>1, <2>3, <2>4, <2>5, <3>1, SMTT(30)
    <3>3. QED
      BY <1>1, <1>2, <2>1, <2>7, <3>1, <3>2, ApprovalsAssumption DEF Inv, Typed
  <2>8. QED
    BY <2>1, <2>6, <2>7, SMTT(30)
<1>5. CASE Return
  <2>1. UNCHANGED <<policies, killSwitch, turns, status>> /\ n > 1 /\ agents' = Front(agents)
    BY <1>5 DEF Return
  <2>2. /\ agents' \in Seq(Agents) /\ Len(agents') = n - 1
        /\ \A k \in 1 .. n - 1 : agents'[k] = agents[k]
    <3>1. agents' = SubSeq(agents, 1, n - 1)
      BY <2>1 DEF Front
    <3>2. 1 \in Int /\ n - 1 \in Int /\ \A k \in 1 .. n - 1 : agents[k] \in Agents
      BY <1>1
    <3>3. \A k \in 1 .. (n - 1) - 1 + 1 : agents'[k] = agents[1 + k - 1]
      BY <3>1, <3>2, SubSeqProperties
    <3>4. agents' \in Seq(Agents) /\ Len(agents') = n - 1
      BY <1>1, <2>1, <3>1, <3>2, SubSeqProperties
    <3>5. \A k \in 1 .. n - 1 : agents'[k] = agents[k]
      <4> TAKE k \in 1 .. n - 1
      <4>1. k \in 1 .. (n - 1) - 1 + 1 /\ 1 + k - 1 = k
        BY <1>1
      <4>2. QED
        BY <3>3, <4>1
    <3>6. QED
      BY <3>4, <3>5
  <2>3. Len(agents') \in 1 .. MaxDepth
    BY <1>1, <2>1, <2>2, ApprovalsAssumption
  <2>4. \A k \in 1 .. Len(agents') : Judged(policies, killSwitch, agents'[k])
    BY <1>1, <2>2
  <2>5. turns' \in 0 .. MaxTurns /\ status' \in {"running", "terminated"}
    BY <2>1 DEF Inv, Typed
  <2>6. QED
    BY <1>2, <2>1, <2>2, <2>3, <2>4, <2>5
<1>6. CASE UNCHANGED vars
  BY <1>1, <1>2, <1>6 DEF vars, Inv, Typed
<1>7. QED
  BY <1>3, <1>4, <1>5, <1>6 DEF Next

LEMMA AlwaysJudged == Spec => []Inv
<1>1. QED
  BY InitInv, NextInv, PTL DEF Spec

-----------------------------------------------------------------------------
\* The typing of the state: an agent is always under way and no call is left
\* escalated, whatever the chain.
THEOREM TypeCorrect == Spec => []TypeOK
<1>1. ASSUME Inv PROVE TypeOK
  <2>1. ASSUME NEW k \in 1 .. Len(agents)
        PROVE  /\ agents[k].calls \in Seq(Functions)
               /\ agents[k].decided \in Seq(Decisions \ {"escalate"})
               /\ Len(agents[k].decided) <= Len(agents[k].calls)
    <3>1. agents[k] \in Agents /\ Judged(policies, killSwitch, agents[k])
      BY <1>1, <2>1, ElementOfSeq DEF Inv, Typed
    <3>2. \A i \in 1 .. Len(agents[k].decided) : agents[k].decided[i] \in Decisions \ {"escalate"}
      BY <1>1, <3>1, NeverEscalates DEF Judged, Inv, Typed, Decisions
    <3>3. QED
      BY <3>1, <3>2, IsASeq DEF Agents, Judged
  <2>2. QED
    BY <1>1, <2>1 DEF Inv, Typed, TypeOK
<1>2. QED
  BY AlwaysJudged, <1>1, PTL

\* Handoff exclusivity at the head of any chain: of a message with handoffs the
\* first is run and nothing else, at every depth of delegation.
THEOREM Exclusivity == Spec => []FirstHandoffRunsAlone
<1>1. ASSUME Inv PROVE FirstHandoffRunsAlone
  <2> SUFFICES ASSUME HeadedBy("exclusive"), NEW k \in 1 .. Len(agents),
                      HandoffsOf(agents[k].calls) # {}
               PROVE  /\ RunOf(agents[k]) \subseteq {FirstHandoff(agents[k].calls)}
                      /\ Handled(agents[k]) => RunOf(agents[k]) # {}
    BY DEF FirstHandoffRunsAlone
  <2> DEFINE calls == agents[k].calls
             decided == agents[k].decided
  <2>1. /\ policies \in Chains /\ killSwitch \in BOOLEAN
        /\ agents[k] \in Agents /\ Judged(policies, killSwitch, agents[k])
    BY <1>1, ElementOfSeq DEF Inv, Typed
  <2>2. /\ calls \in Seq(Functions) /\ Len(calls) \in Nat /\ Len(decided) \in Nat
        /\ Len(decided) <= Len(calls)
        /\ \A i \in 1 .. Len(decided) : decided[i] = Decision(policies, killSwitch, calls, i)
    BY <2>1, LenProperties DEF Agents, Judged
  <2> HIDE DEF calls, decided
  <2>3. policies # <<>> /\ policies[1].kind = "exclusive" /\ policies[1].tools = Functions
    BY <2>1, ApprovalsAssumption, LenProperties, EmptySeq DEF HeadedBy
  <2>4. ASSUME NEW i \in 1 .. Len(decided)
        PROVE  decided[i] = IF i = FirstHandoff(calls) THEN "approve" ELSE "reject"
    <3>1. Judge(policies[1], killSwitch, calls, i) = HandoffExclusive(calls, i)
      BY <2>3 DEF Judge
    <3>2. HandoffExclusive(calls, i) = IF i = FirstHandoff(calls) THEN "approve" ELSE "reject"
      BY DEF HandoffExclusive, calls
    <3>3. i \in 1 .. Len(calls)
      BY <2>2
    <3>4. QED
      BY <2>1, <2>2, <2>3, <3>1, <3>2, <3>3, HeadDecides
  <2>5. FirstHandoff(calls) \in 1 .. Len(calls)
    <3>1. HandoffsOf(calls) \subseteq 1 .. Len(calls) /\ HandoffsOf(calls) # {}
      BY DEF HandoffsOf, calls
    <3>2. HandoffsOf(calls) \subseteq Nat
      BY <2>2, <3>1
    <3>3. QED
      BY <3>1, <3>2, FirstLeast DEF FirstHandoff
  <2>6. QED
    BY <2>2, <2>4, <2>5 DEF RunOf, LetsRun, Handled, calls, decided
<1>2. QED
  BY AlwaysJudged, <1>1, PTL

\* The kill switch at the head of any chain: of several calls without a handoff
\* the first is run and nothing else, at every depth of delegation.
THEOREM Serial == Spec => []OneCallPerTurn
<1>1. ASSUME Inv PROVE OneCallPerTurn
  <2> SUFFICES ASSUME killSwitch, HeadedBy("kill_switch"), NEW k \in 1 .. Len(agents),
                      HandoffsOf(agents[k].calls) = {}, Len(agents[k].calls) > 1
               PROVE  /\ RunOf(agents[k]) \subseteq {1}
                      /\ Handled(agents[k]) => RunOf(agents[k]) # {}
    BY DEF OneCallPerTurn
  <2> DEFINE calls == agents[k].calls
             decided == agents[k].decided
  <2>1. /\ policies \in Chains /\ killSwitch \in BOOLEAN
        /\ agents[k] \in Agents /\ Judged(policies, killSwitch, agents[k])
    BY <1>1, ElementOfSeq DEF Inv, Typed
  <2>2. /\ calls \in Seq(Functions) /\ Len(calls) \in Nat /\ Len(decided) \in Nat
        /\ Len(decided) <= Len(calls)
        /\ \A i \in 1 .. Len(decided) : decided[i] = Decision(policies, killSwitch, calls, i)
    BY <2>1, LenProperties DEF Agents, Judged
  <2> HIDE DEF calls, decided
  <2>3. policies # <<>> /\ policies[1].kind = "kill_switch" /\ policies[1].tools = Functions
    BY <2>1, ApprovalsAssumption, LenProperties, EmptySeq DEF HeadedBy
  <2>4. ASSUME NEW i \in 1 .. Len(decided)
        PROVE  decided[i] = IF i = 1 THEN "approve" ELSE "reject"
    <3>1. Judge(policies[1], killSwitch, calls, i) = ParallelKillSwitch(killSwitch, calls, i)
      BY <2>3 DEF Judge
    <3>2. ParallelKillSwitch(killSwitch, calls, i) = IF i = 1 THEN "approve" ELSE "reject"
      BY <2>2 DEF ParallelKillSwitch, calls
    <3>3. i \in 1 .. Len(calls)
      BY <2>2
    <3>4. QED
      BY <2>1, <2>2, <2>3, <3>1, <3>2, <3>3, HeadDecides, ZenonT(60)
  <2>5. QED
    BY <2>2, <2>4, SMTT(30) DEF RunOf, LetsRun, Handled, calls, decided
<1>2. QED
  BY AlwaysJudged, <1>1, PTL

-----------------------------------------------------------------------------
(* The runs of Runner.                                                     *)

RunRecords ==
  [phase : {"new", "built", "running", "ended", "returned"}, tools : SUBSET Toggles,
   keyed : BOOLEAN, limit : Limits \cup {NoLimit}, elapsed : Nat,
   timer : {"none", "scheduled", "sleeping", "fired", "cancelled", "thrown"},
   suspended : BOOLEAN, warned : BOOLEAN, error : BOOLEAN,
   outcome : {"none", "state", "pair", "raised", "cancelled"}]

\* What a run and its timer are to each other: a timer that has begun catches its
\* cancellation, and a timer waits only as long as its run goes on.
Kept(x) ==
  /\ x \in RunRecords
  /\ x.phase \in {"new", "built"} => ~x.suspended /\ x.timer = "none"
  /\ x.timer \in {"scheduled", "sleeping"} => x.phase = "running"
  /\ x.timer = "thrown" => x.phase \in {"ended", "returned"}
  /\ x.suspended => x.timer \notin {"scheduled", "thrown"}
  /\ x.warned => x.timer = "fired"
  /\ x.phase = "returned" /\ x.suspended => x.outcome \in {"state", "pair", "raised"}

\* While the profile of the last run stands, nothing it turned off is on.
TurnedOff ==
  /\ env = [v \in Toggles \cup Guards |-> env[v]]
  /\ latest # NoProfile /\ latest.t \in {"T1", "T2"} => Enabled(env) \cap {"exec", "browser"} = {}

RunnerInv == TurnedOff /\ run \in [Runs -> RunRecords] /\ \A r \in Runs : Kept(run[r])

\* A model that comes of the ladder needs no key, has one or was spelled out.
LEMMA ResolvedKeyed ==
  ASSUME NEW request, NEW modelEnv, Resolvable(request, modelEnv)
  PROVE  Keyed(Resolve(request, modelEnv), request, modelEnv)
  <1> DEFINE found == Resolve(request, modelEnv)
  <1>1. /\ \A m : Found(m).ok /\ Found(m).model = m
        /\ \A p, tag : Model(p, tag).provider = p
        /\ ~MissingKey.ok /\ ~MissingTag.ok
    BY DEF Found, Model, MissingKey, MissingTag
  <1>2. Role \notin Remote /\ Ollama \notin Remote /\ Local \cap Remote = {}
    BY ModelAssumption DEF ModelAssumption
  <1>3. ASSUME NEW p, NEW tag, Ladder(p, tag, modelEnv).ok
        PROVE  Ladder(p, tag, modelEnv).model.provider \in Remote =>
                 Ladder(p, tag, modelEnv).model.provider \in modelEnv.keys
    <2>1. CASE p \in Local
      <3>1. Ladder(p, tag, modelEnv) = LocalModel(p, tag, modelEnv)
        BY <1>2, <2>1 DEF Ladder
      <3>2. LocalModel(p, tag, modelEnv).model.provider = p
        <4> DEFINE t == Given(tag, Given(modelEnv.tags[p], LocalTag))
        <4>1. LocalModel(p, tag, modelEnv) = Found(Model(p, t))
          BY DEF LocalModel
        <4> HIDE DEF t
        <4>2. QED
          BY <1>1, <4>1
      <3>3. QED
        BY <1>2, <2>1, <3>1, <3>2
    <2>2. CASE p \in Remote
      <3>1. Ladder(p, tag, modelEnv) = RemoteModel(p, tag, modelEnv)
        BY <1>2, <2>2 DEF Ladder
      <3>2. p \in modelEnv.keys
        BY <1>1, <1>3, <3>1 DEF RemoteModel
      <3>3. RemoteModel(p, tag, modelEnv).model.provider = p
        BY <1>1, <1>3, <3>1, <3>2 DEF RemoteModel
      <3>4. QED
        BY <3>1, <3>2, <3>3
    <2>3. CASE p \notin Local /\ p \notin Remote
      <3>1. Ladder(p, tag, modelEnv) = IF tag # Unset THEN Found(Model(p, tag))
                                       ELSE Found(Model(Ollama, LocalTag))
        BY <2>3 DEF Ladder
      <3>2. Ladder(p, tag, modelEnv).model.provider \in {p, Ollama}
        BY <1>1, <3>1
      <3>3. QED
        BY <1>2, <2>3, <3>2
    <2>4. QED
      BY <2>1, <2>2, <2>3
  <1>4. \/ found = Found(request.model)
        \/ found = Found(Model(Role, Unset))
        \/ found = Found(modelEnv.evalModel)
        \/ \E p, tag : found = Ladder(p, tag, modelEnv)
    <2> DEFINE byRole == request.model = Unset /\ request.role
               mapping == RoleMapping(modelEnv)
               tag == IF byRole /\ mapping # Unset THEN mapping.tag
                      ELSE IF request.model # Unset THEN request.model.tag ELSE Unset
               provider == IF byRole /\ mapping # Unset
                           THEN Given(mapping.provider, request.provider)
                           ELSE request.provider
               asked == Given(provider, Given(modelEnv.provider, Ollama))
    <2>1. found = CASE Prefixed(request.model) -> Found(request.model)
                    [] byRole /\ mapping = Unset -> Found(Model(Role, Unset))
                    [] OTHER -> IF tag = Unset /\ Prefixed(modelEnv.evalModel)
                                THEN Found(modelEnv.evalModel)
                                ELSE Ladder(asked, tag, modelEnv)
      BY DEF Resolve
    <2> HIDE DEF found, byRole, mapping, tag, asked
    <2>2. \/ found = Found(request.model)
          \/ found = Found(Model(Role, Unset))
          \/ found = Found(modelEnv.evalModel)
          \/ found = Ladder(asked, tag, modelEnv)
      BY <2>1
    <2>3. QED
      BY <2>2
  <1>5. found.ok
    BY DEF Resolvable
  <1> HIDE DEF found
  <1>6. CASE found = Found(request.model) \/ found = Found(modelEnv.evalModel)
    <2>1. SpelledOut(found.model, request, modelEnv)
      BY <1>1, <1>6 DEF SpelledOut
    <2>2. QED
      BY <2>1 DEF Keyed, found
  <1>7. CASE found = Found(Model(Role, Unset))
    <2>1. found.model.provider = Role
      BY <1>1, <1>7
    <2>2. QED
      BY <1>2, <2>1 DEF Keyed, found
  <1>8. ASSUME NEW p, NEW tag, found = Ladder(p, tag, modelEnv)
        PROVE  Keyed(Resolve(request, modelEnv), request, modelEnv)
    <2>1. found.model.provider \in Remote => found.model.provider \in modelEnv.keys
      BY <1>3, <1>5, <1>8
    <2>2. QED
      BY <2>1 DEF Keyed, found
  <1>9. QED
    BY <1>4, <1>6, <1>7, <1>8

\* What a run writes into the environment leaves off what its profile turns off.
LEMMA ToggledOff ==
  ASSUME NEW e, e = [v \in Toggles \cup Guards |-> e[v]], NEW t, NEW h
  PROVE  LET made == Hardened(h, Toggled(t, e))
         IN  /\ made = [v \in Toggles \cup Guards |-> made[v]]
             /\ t \in {"T1", "T2"} => Enabled(made) \cap {"exec", "browser"} = {}
  <1> DEFINE toggled == Toggled(t, e)
             made == Hardened(h, toggled)
  <1>1. /\ DOMAIN toggled = Toggles \cup Guards
        /\ t \in {"T1", "T2"} => toggled["exec"] = "0" /\ toggled["browser"] = "0"
    BY DEF Toggled, Toggles, Guards
  <1> HIDE DEF toggled
  <1>2. /\ made = [v \in Toggles \cup Guards |-> made[v]]
        /\ made["exec"] = toggled["exec"] /\ made["browser"] = toggled["browser"]
    BY <1>1 DEF Hardened, Toggles, Guards
  <1> HIDE DEF made
  <1>3. t \in {"T1", "T2"} => Enabled(made) \cap {"exec", "browser"} = {}
    BY <1>1, <1>2 DEF Enabled
  <1>4. QED
    BY <1>2, <1>3 DEF made, toggled

\* At the start no run has begun, and no profile stands.
LEMMA InitRuns == RunnerInit => RunnerInv
  <1> SUFFICES ASSUME RunnerInit PROVE RunnerInv
    OBVIOUS
  <1>1. NewRun \in RunRecords /\ Kept(NewRun)
    BY DEF NewRun, RunRecords, Kept
  <1>2. run = [r \in Runs |-> NewRun]
    BY DEF RunnerInit
  <1>3. TurnedOff
    BY DEF RunnerInit, TurnedOff
  <1>4. QED
    BY <1>1, <1>2, <1>3 DEF RunnerInv

\* One run takes a step.
LEMMA OneRun ==
  ASSUME RunnerInv, TurnedOff', NEW r \in Runs, NEW x, Kept(x), run' = [run EXCEPT ![r] = x]
  PROVE  RunnerInv'
  <1>1. x \in RunRecords
    BY DEF Kept
  <1>2. QED
    BY <1>1 DEF RunnerInv

\* Each step keeps what runs and timers are to each other: one step of the proof per action.
LEMMA NextRuns == RunnerInv /\ [RunnerNext]_runnerVars => RunnerInv'
  <1> SUFFICES ASSUME RunnerInv, [RunnerNext]_runnerVars PROVE RunnerInv'
    OBVIOUS
  <1>1. /\ run \in [Runs -> RunRecords]
        /\ \A r \in Runs : run[r] \in RunRecords /\ Kept(run[r])
        /\ TurnedOff
    BY DEF RunnerInv
  <1>2. ASSUME UNCHANGED <<env, latest>> PROVE TurnedOff'
    BY <1>1, <1>2 DEF TurnedOff, Enabled
  <1>3. ASSUME NEW p \in Profiles \cup {NoProfile}, SetProfile(p) PROVE RunnerInv'
    BY <1>1, <1>2, <1>3 DEF SetProfile, RunnerInv
  <1>4. ASSUME NEW v \in {"exec", "readOnly"}, NEW value \in {"0", "1"}, CallerSets(v, value)
        PROVE  RunnerInv'
    <2>1. /\ env' = [env EXCEPT ![v] = value] /\ UNCHANGED run
          /\ latest' = IF v \in Toggles THEN NoProfile ELSE latest
      BY <1>4 DEF CallerSets
    <2>2. TurnedOff'
      BY <1>1, <2>1 DEF TurnedOff, Enabled, Toggles, Guards
    <2>3. QED
      BY <1>1, <2>1, <2>2 DEF RunnerInv
  <1>5. ASSUME NEW r \in Runs, NEW request \in Requests, NEW modelEnv \in ModelEnvs,
               Build(r, request, modelEnv)
        PROVE  RunnerInv'
    <2> DEFINE x == [run[r] EXCEPT !.phase = "built", !.tools = Enabled(env),
                       !.keyed = Keyed(Resolve(request, modelEnv), request, modelEnv)]
    <2>1. run[r].phase = "new" /\ run' = [run EXCEPT ![r] = x] /\ UNCHANGED <<env, latest>>
      BY <1>5 DEF Build
    <2>2. Keyed(Resolve(request, modelEnv), request, modelEnv) \in BOOLEAN
      BY DEF Keyed
    <2>3. Enabled(env) \in SUBSET Toggles
      BY DEF Enabled
    <2> DEFINE y == [run[r] EXCEPT !.phase = "built", !.tools = Enabled(env)]
    <2>4. x \in RunRecords
      <3>1. y \in RunRecords
        BY <1>1, <2>3, ZenonT(60) DEF RunRecords
      <3>2. x = [y EXCEPT !.keyed = Keyed(Resolve(request, modelEnv), request, modelEnv)]
        OBVIOUS
      <3> HIDE DEF x, y
      <3>3. QED
        BY <2>2, <3>1, <3>2 DEF RunRecords
    <2>5. /\ x.phase = "built" /\ x.timer = run[r].timer /\ x.suspended = run[r].suspended
          /\ x.warned = run[r].warned
      BY <1>1 DEF RunRecords
    <2> HIDE DEF x
    <2>6. Kept(x)
      BY <1>1, <2>1, <2>4, <2>5 DEF Kept
    <2>7. QED
      BY <1>2, <2>1, <2>6, OneRun
  <1>6. ASSUME NEW r \in Runs, NEW limit \in Limits \cup {NoLimit}, Start(r, limit)
        PROVE  RunnerInv'
    <2> DEFINE timer == IF limit = NoLimit THEN "none" ELSE "scheduled"
               x == [run[r] EXCEPT !.phase = "running", !.limit = limit, !.timer = timer]
    <2>1. run[r].phase = "built" /\ run' = [run EXCEPT ![r] = x]
      BY <1>1, <1>6 DEF Start
    <2>2. timer \in {"none", "scheduled"}
      OBVIOUS
    <2>3. TurnedOff'
      <3>1. CASE UNCHANGED <<env, latest>>
        BY <1>2, <3>1
      <3>2. CASE env' = Hardened(profile.h, Toggled(profile.t, env)) /\ latest' = profile
        BY <1>1, <3>2, ToggledOff DEF TurnedOff
      <3>3. QED
        BY <1>6, <3>1, <3>2 DEF Start
    <2> HIDE DEF timer
    <2>4. /\ x.phase = "running" /\ x.suspended = run[r].suspended /\ x.timer = timer
          /\ x.warned = run[r].warned /\ x \in RunRecords
      BY <1>1, <2>2, ZenonT(60) DEF RunRecords
    <2> HIDE DEF x
    <2>5. Kept(x)
      BY <1>1, <2>1, <2>2, <2>4 DEF Kept
    <2>6. QED
      BY <2>1, <2>3, <2>5, OneRun
  <1>7. ASSUME NEW r \in Runs, Suspend(r) PROVE RunnerInv'
    <2> DEFINE x == [run[r] EXCEPT !.suspended = TRUE,
                       !.timer = IF @ = "scheduled" THEN "sleeping" ELSE @]
    <2>1. /\ run[r].phase = "running" /\ run' = [run EXCEPT ![r] = x]
          /\ UNCHANGED <<env, latest>>
      BY <1>1, <1>7 DEF Suspend
    <2>2. /\ x.phase = run[r].phase /\ x.suspended /\ x.warned = run[r].warned
          /\ x.timer = IF run[r].timer = "scheduled" THEN "sleeping" ELSE run[r].timer
          /\ x \in RunRecords
      BY <1>1, ZenonT(60) DEF RunRecords
    <2> HIDE DEF x
    <2>3. Kept(x)
      BY <1>1, <2>1, <2>2 DEF Kept
    <2>4. QED
      BY <1>2, <2>1, <2>3, OneRun
  <1>8. ASSUME NEW r \in Runs, Tick(r) PROVE RunnerInv'
    <2> DEFINE x == [run[r] EXCEPT !.elapsed = @ + 1]
    <2>1. run' = [run EXCEPT ![r] = x] /\ UNCHANGED <<env, latest>>
      BY <1>1, <1>8 DEF Tick
    <2>2. /\ x.phase = run[r].phase /\ x.suspended = run[r].suspended
          /\ x.warned = run[r].warned /\ x.timer = run[r].timer
          /\ x.outcome = run[r].outcome /\ x \in RunRecords
      BY <1>1 DEF RunRecords
    <2> HIDE DEF x
    <2>3. Kept(x)
      BY <1>1, <2>2 DEF Kept
    <2>4. QED
      BY <1>2, <2>1, <2>3, OneRun
  <1>9. ASSUME NEW r \in Runs, Warn(r) PROVE RunnerInv'
    <2> DEFINE x == [run[r] EXCEPT !.timer = "fired", !.warned = TRUE]
    <2>1. /\ run[r].timer = "sleeping" /\ run' = [run EXCEPT ![r] = x]
          /\ UNCHANGED <<env, latest>>
      BY <1>1, <1>9 DEF Warn
    <2>2. /\ x.phase = run[r].phase /\ x.suspended = run[r].suspended
          /\ x.timer = "fired" /\ x.outcome = run[r].outcome /\ x \in RunRecords
      BY <1>1, ZenonT(60) DEF RunRecords
    <2> HIDE DEF x
    <2>3. Kept(x)
      BY <1>1, <2>1, <2>2 DEF Kept
    <2>4. QED
      BY <1>2, <2>1, <2>3, OneRun
  <1>10. ASSUME NEW r \in Runs, NEW error \in BOOLEAN, End(r, error) PROVE RunnerInv'
    <2> DEFINE timer == Cancelled(run[r].timer)
               x == [run[r] EXCEPT !.phase = "ended", !.error = error, !.timer = timer]
    <2>1. /\ run[r].phase = "running" /\ run' = [run EXCEPT ![r] = x]
          /\ UNCHANGED <<env, latest>>
      BY <1>1, <1>10 DEF End
    <2>2. /\ timer \in {"none", "scheduled", "sleeping", "fired", "cancelled", "thrown"}
          /\ timer \notin {"scheduled", "sleeping"}
          /\ timer = "thrown" => run[r].timer \in {"scheduled", "thrown"}
          /\ run[r].timer = "fired" => timer = "fired"
      BY <1>1 DEF RunRecords, Cancelled
    <2> HIDE DEF timer
    <2> DEFINE y == [run[r] EXCEPT !.phase = "ended", !.error = error]
    <2>3. x \in RunRecords
      <3>1. y \in RunRecords
        BY <1>1, ZenonT(60) DEF RunRecords
      <3>2. x = [y EXCEPT !.timer = timer]
        OBVIOUS
      <3> HIDE DEF x, y
      <3>3. QED
        BY <2>2, <3>1, <3>2 DEF RunRecords
    <2>4. /\ x.phase = "ended" /\ x.suspended = run[r].suspended
          /\ x.warned = run[r].warned /\ x.timer = timer
      BY <1>1 DEF RunRecords
    <2> HIDE DEF x
    <2>5. Kept(x)
      BY <1>1, <2>1, <2>2, <2>3, <2>4 DEF Kept
    <2>6. QED
      BY <1>2, <2>1, <2>5, OneRun
  <1>11. ASSUME NEW r \in Runs, NEW raises \in BOOLEAN, NEW returns \in BOOLEAN,
                HandBack(r, raises, returns)
         PROVE  RunnerInv'
    <2> DEFINE outcome == CASE run[r].timer = "thrown" -> "cancelled"
                            [] run[r].timer # "thrown" /\ run[r].error /\ raises -> "raised"
                            [] OTHER -> IF returns /\ run[r].limit # NoLimit THEN "pair"
                                        ELSE "state"
               x == [run[r] EXCEPT !.phase = "returned", !.outcome = outcome]
    <2>1. /\ run[r].phase = "ended" /\ run' = [run EXCEPT ![r] = x]
          /\ UNCHANGED <<env, latest>>
      BY <1>1, <1>11 DEF HandBack
    <2>2. /\ outcome \in {"state", "pair", "raised", "cancelled"}
          /\ run[r].timer # "thrown" => outcome \in {"state", "pair", "raised"}
      OBVIOUS
    <2> HIDE DEF outcome
    <2>3. /\ x.phase = "returned" /\ x.suspended = run[r].suspended
          /\ x.warned = run[r].warned /\ x.timer = run[r].timer
          /\ x.outcome = outcome /\ x \in RunRecords
      BY <1>1, <2>2, ZenonT(60) DEF RunRecords
    <2> HIDE DEF x
    <2>4. Kept(x)
      BY <1>1, <2>1, <2>2, <2>3 DEF Kept
    <2>5. QED
      BY <1>2, <2>1, <2>4, OneRun
  <1>12. CASE UNCHANGED runnerVars
    BY <1>1, <1>2, <1>12 DEF runnerVars, RunnerInv
  <1>13. QED
    BY <1>3, <1>4, <1>5, <1>6, <1>7, <1>8, <1>9, <1>10, <1>11, <1>12 DEF RunnerNext

\* The invariant of the runs holds throughout.
LEMMA RunsKept == RunnerSpec => []RunnerInv
  BY InitRuns, NextRuns, PTL DEF RunnerSpec

\* A step that neither warns of the limit of r nor builds its agent.
Quiet(r) == run'[r].warned = run[r].warned /\ (run'[r].phase = "built" => run[r].phase = "built")

\* A run is warned by its timer and built by its builder, and by nothing else.
LEMMA Changes ==
  ASSUME RunnerInv, [RunnerNext]_runnerVars, NEW r \in Runs
  PROVE  \/ Quiet(r)
         \/ Warn(r) /\ run'[r].phase = run[r].phase
         \/ /\ run'[r].warned = run[r].warned
            /\ \E request \in Requests, modelEnv \in ModelEnvs : Build(r, request, modelEnv)
  <1>1. run \in [Runs -> RunRecords] /\ run[r] \in RunRecords
    BY DEF RunnerInv
  <1>2. ASSUME NEW q \in Runs, NEW x, run' = [run EXCEPT ![q] = x]
        PROVE  IF q = r THEN run'[r] = x ELSE run'[r] = run[r]
    BY <1>1, <1>2
  <1>3. ASSUME run' = run PROVE Quiet(r)
    BY <1>3 DEF Quiet
  <1>4. ASSUME NEW q \in Runs, NEW request \in Requests, NEW modelEnv \in ModelEnvs,
               Build(q, request, modelEnv)
        PROVE  \/ Quiet(r)
               \/ q = r /\ run'[r].warned = run[r].warned
    BY <1>1, <1>4 DEF Build, Quiet, RunRecords
  <1>5. ASSUME NEW q \in Runs, NEW limit, Start(q, limit) PROVE Quiet(r)
    BY <1>1, <1>5 DEF Start, Quiet, RunRecords
  <1>6. ASSUME NEW q \in Runs, Suspend(q) \/ Tick(q) PROVE Quiet(r)
    BY <1>1, <1>6 DEF Suspend, Tick, Quiet, RunRecords
  <1>7. ASSUME NEW q \in Runs, Warn(q)
        PROVE  Quiet(r) \/ (q = r /\ run'[r].phase = run[r].phase)
    BY <1>1, <1>7 DEF Warn, Quiet, RunRecords
  <1>8. ASSUME NEW q \in Runs, NEW error, End(q, error) PROVE Quiet(r)
    BY <1>1, <1>8 DEF End, Quiet, RunRecords
  <1>9. ASSUME NEW q \in Runs, NEW raises, NEW returns, HandBack(q, raises, returns)
        PROVE  Quiet(r)
    BY <1>1, <1>9 DEF HandBack, Quiet, RunRecords
  <1>10. CASE UNCHANGED runnerVars
    BY <1>3, <1>10 DEF runnerVars
  <1>11. ASSUME NEW p, SetProfile(p) PROVE Quiet(r)
    BY <1>3, <1>11 DEF SetProfile
  <1>12. ASSUME NEW v, NEW value, CallerSets(v, value) PROVE Quiet(r)
    BY <1>3, <1>12 DEF CallerSets
  <1>13. QED
    BY <1>4, <1>5, <1>6, <1>7, <1>8, <1>9, <1>10, <1>11, <1>12, Zenon DEF RunnerNext

\* A run that suspended at least once hands its caller a result or its limit error: the
\* cancellation of the timer never takes the result's place.
THEOREM ResultsDelivered == RunnerSpec => []Delivered
  <1>1. RunnerInv => Delivered
    BY DEF RunnerInv, Kept, Delivered
  <1>2. QED
    BY RunsKept, <1>1, PTL

\* A timer warns once, while its run goes on and near the limit, whatever other runs do.
THEOREM WarnsInTime == RunnerSpec => WarnedInTime
  <1> DEFINE Timely == \A r \in Runs : run'[r].warned # run[r].warned =>
                         /\ ~run[r].warned
                         /\ run[r].phase = "running"
                         /\ run[r].elapsed >= Near[run[r].limit]
  <1>1. ASSUME RunnerInv, [RunnerNext]_runnerVars PROVE [Timely]_runnerVars
    <2>1. ASSUME NEW r \in Runs, run'[r].warned # run[r].warned
          PROVE  Warn(r)
      BY <1>1, <2>1, Changes DEF Quiet
    <2>2. ASSUME NEW r \in Runs, Warn(r)
          PROVE  ~run[r].warned /\ run[r].phase = "running" /\ run[r].elapsed >= Near[run[r].limit]
      BY <1>1, <2>2 DEF RunnerInv, Kept, RunRecords, Warn
    <2>3. QED
      BY <2>1, <2>2
  <1>2. QED
    BY RunsKept, <1>1, PTL DEF RunnerSpec, WarnedInTime

\* After a run with a strict profile no agent is built with execution or the browser, until
\* the caller or another run's profile turns them on; and none with a remote model that
\* lacks its key, unless somebody spelled that model out.
THEOREM BuildsAllowed == RunnerSpec => BuiltAsAllowed
  <1> DEFINE Allowed == \A r \in Runs : run[r].phase = "new" /\ run'[r].phase = "built" =>
                          /\ latest # NoProfile /\ latest.t \in {"T1", "T2"} =>
                               run'[r].tools \cap {"exec", "browser"} = {}
                          /\ run'[r].keyed
  <1>1. ASSUME RunnerInv, [RunnerNext]_runnerVars PROVE [Allowed]_runnerVars
    <2>1. ASSUME NEW r \in Runs, run[r].phase = "new", run'[r].phase = "built"
          PROVE  \E request \in Requests, modelEnv \in ModelEnvs : Build(r, request, modelEnv)
      BY <1>1, <2>1, Changes DEF Quiet
    <2>2. ASSUME NEW r \in Runs, NEW request \in Requests, NEW modelEnv \in ModelEnvs,
                 Build(r, request, modelEnv)
          PROVE  run'[r].tools = Enabled(env) /\ run'[r].keyed
      <3>1. run \in [Runs -> RunRecords] /\ run[r] \in RunRecords
        BY <1>1 DEF RunnerInv
      <3>2. /\ run'[r].tools = Enabled(env)
            /\ run'[r].keyed = Keyed(Resolve(request, modelEnv), request, modelEnv)
        BY <2>2, <3>1 DEF Build, RunRecords
      <3>3. Keyed(Resolve(request, modelEnv), request, modelEnv)
        BY <2>2, ResolvedKeyed DEF Build
      <3>4. QED
        BY <3>2, <3>3
    <2>3. latest # NoProfile /\ latest.t \in {"T1", "T2"} =>
            Enabled(env) \cap {"exec", "browser"} = {}
      BY <1>1 DEF RunnerInv, TurnedOff
    <2>4. QED
      BY <2>1, <2>2, <2>3
  <1>2. QED
    BY RunsKept, <1>1, PTL DEF RunnerSpec, BuiltAsAllowed

-----------------------------------------------------------------------------
(* The hash chain of TranscriptLog.                                        *)

Canons == Events \cup {Nothing}
Hashes == Seq(Canons)
Written == [prev : Hashes, hash : Hashes, event : Events \cup {Bare, Nothing}]
AllParts == [record : Written, end : BOOLEAN]

\* The records a call makes: the event is what was hashed, or could not be.
Honest ==
  {Record(h, e, e) : h \in Hashes, e \in Events} \cup {Record(h, Nothing, Bare) : h \in Hashes}
HonestParts == {Part(r, end) : r \in Honest, end \in BOOLEAN}

LEMMA HonestTypes == Honest \in SUBSET Written /\ HonestParts \in SUBSET AllParts
  <1>1. ASSUME NEW h \in Hashes, NEW c \in Canons
        PROVE  Append(h, c) \in Hashes
    BY AppendProperties DEF Hashes
  <1>2. Honest \in SUBSET Written
    <2>1. ASSUME NEW h \in Hashes, NEW e \in Events
          PROVE  Record(h, e, e) \in Written
      <3>1. Append(h, e) \in Hashes
        BY <1>1 DEF Canons
      <3>2. QED
        BY <3>1 DEF Record, Hash, Written
    <2>2. ASSUME NEW h \in Hashes
          PROVE  Record(h, Nothing, Bare) \in Written
      <3>1. Append(h, Nothing) \in Hashes
        BY <1>1 DEF Canons
      <3>2. QED
        BY <3>1 DEF Record, Hash, Written
    <2>3. QED
      BY <2>1, <2>2 DEF Honest
  <1>3. HonestParts \in SUBSET AllParts
    BY <1>2 DEF HonestParts, AllParts, Part
  <1>4. QED
    BY <1>2, <1>3

-----------------------------------------------------------------------------
(* The folds of the log, one step at a time.                               *)

\* Parts are appended one by one.
LEMMA AppendPartsPath ==
  ASSUME NEW Q, NEW lines \in Seq(Seq(Q)), NEW parts \in Seq(Q)
  PROVE  \E p \in [0 .. Len(parts) -> Seq(Seq(Q))] :
           /\ p[0] = lines
           /\ \A i \in 1 .. Len(parts) : p[i] = AppendPart(p[i - 1], parts[i])
           /\ AppendParts(lines, parts) = p[Len(parts)]
  <1> DEFINE n == Len(parts)
             A == Seq(Seq(Q))
             G == [x \in (1 .. n) \X A |-> AppendPart(x[2], parts[x[1]])]
             Body(h) == [s \in SUBSET (1 .. n) |->
                           IF s = {} THEN lines ELSE AppendPart(h[s \ {Max(s)}], parts[Max(s)])]
             it == CHOOSE h : h = Body(h)
  <1>1. n \in Nat /\ DOMAIN parts = 1 .. n /\ lines \in A
    OBVIOUS
  <1>2. ASSUME NEW i \in 1 .. n
        PROVE  parts[i] \in Q
    BY <1>1, ElementOfSeq
  <1>3. ASSUME NEW i \in 1 .. n, NEW a \in A
        PROVE  AppendPart(a, parts[i]) \in A
    <2> DEFINE part == parts[i]
    <2>1. part \in Q
      BY <1>2
    <2> HIDE DEF part
    <2>2. <<part>> \in Seq(Q)
      BY <2>1
    <2>3. Append(a, <<part>>) \in A
      BY <2>2, AppendProperties
    <2>4. ASSUME a # <<>>
          PROVE  [a EXCEPT ![Len(a)] = Append(@, part)] \in A
      <3>1. Len(a) \in Nat /\ DOMAIN a = 1 .. Len(a) /\ Len(a) \in 1 .. Len(a)
        BY <2>4, EmptySeq, LenProperties
      <3>2. a[Len(a)] \in Seq(Q)
        BY <3>1, ElementOfSeq
      <3>3. Append(a[Len(a)], part) \in Seq(Q)
        BY <2>1, <3>2, AppendProperties
      <3>4. QED
        BY <3>1, <3>3, ExceptSeq
    <2>5. QED
      BY <2>3, <2>4 DEF AppendPart, part
  <1>4. G \in [(1 .. n) \X A -> A]
    <2> HIDE DEF A
    <2>1. QED
      BY <1>3
  <1>5. PICK h : FoldsTo(h, n, A, lines, G)
    BY <1>1, <1>4, FoldExists
  <1>6. h = Body(h)
    <2> HIDE DEF A
    <2>1. ASSUME NEW s \in SUBSET (1 .. n), s # {}
          PROVE  h[s] = AppendPart(h[s \ {Max(s)}], parts[Max(s)])
      <3>1. Max(s) \in 1 .. n
        BY <1>1, <2>1, MaxOf
      <3>2. h[s \ {Max(s)}] \in A /\ h[s] = G[<<Max(s), h[s \ {Max(s)}]>>]
        BY <1>5, <2>1 DEF FoldsTo
      <3>3. QED
        BY <3>1, <3>2
    <2>2. h \in [SUBSET (1 .. n) -> A] /\ h[{}] = lines
      BY <1>5 DEF FoldsTo
    <2>3. QED
      BY <2>1, <2>2
  <1>7. it = Body(it)
    BY <1>6
  <1>8. AppendParts(lines, parts) = it[1 .. n]
    BY <1>1 DEF AppendParts, FoldLeft, MapThenFoldSet
  <1> HIDE DEF it, A
  <1> DEFINE p == [i \in 0 .. n |-> it[1 .. i]]
  <1>9. p[0] = lines
    BY <1>1, <1>7
  <1>10. ASSUME NEW i \in 1 .. n
         PROVE  p[i] = AppendPart(p[i - 1], parts[i])
    <2>1. 1 .. i \in SUBSET (1 .. n) /\ i \in Nat \ {0} /\ i \in 0 .. n /\ i - 1 \in 0 .. n
      OBVIOUS
    <2>2. Max(1 .. i) = i /\ (1 .. i) \ {i} = 1 .. (i - 1) /\ 1 .. i # {}
      BY <2>1, MaxOfPrefix
    <2>3. QED
      BY <1>7, <2>1, <2>2
  <1>11. p = [i \in 0 .. n |-> p[i]] /\ n \in 0 .. n /\ AppendParts(lines, parts) = p[n]
    BY <1>1, <1>8
  <1> HIDE DEF p
  <1>12. p \in [0 .. n -> A]
    <2>1. \A i \in 1 .. n : p[i - 1] \in A => p[i] \in A
      BY <1>3, <1>10
    <2>2. QED
      BY <1>1, <1>9, <1>11, <2>1, PrefixesIn
  <1>13. \A i \in 1 .. n : p[i] = AppendPart(p[i - 1], parts[i])
    BY <1>10
  <1>14. QED
    BY <1>9, <1>11, <1>12, <1>13, Zenon DEF A


\* The verification goes line by line.
LEMMA VerifyPath ==
  ASSUME NEW lines \in Seq(Seq(AllParts))
  PROVE  \E p \in [0 .. Len(lines) -> [ok : BOOLEAN, prev : Hashes]] :
           /\ p[0] = [ok |-> TRUE, prev |-> Zeros]
           /\ \A i \in 1 .. Len(lines) : p[i] = Verified(p[i - 1], lines[i])
           /\ Verify(lines) = p[Len(lines)].ok
  <1> DEFINE n == Len(lines)
             A == [ok : BOOLEAN, prev : Hashes]
             base == [ok |-> TRUE, prev |-> Zeros]
             G == [x \in (1 .. n) \X A |-> Verified(x[2], lines[x[1]])]
             Body(h) == [s \in SUBSET (1 .. n) |->
                           IF s = {} THEN base ELSE Verified(h[s \ {Max(s)}], lines[Max(s)])]
             it == CHOOSE h : h = Body(h)
  <1>1. n \in Nat /\ DOMAIN lines = 1 .. n /\ base \in A
    BY DEF Zeros, Hashes
  <1>2. ASSUME NEW i \in 1 .. n
        PROVE  lines[i] \in Seq(AllParts)
    BY <1>1, ElementOfSeq
  <1>3. ASSUME NEW i \in 1 .. n, NEW a \in A
        PROVE  Verified(a, lines[i]) \in A
    <2>1. CASE Parses(lines[i])
      <3>1. lines[i][1] \in AllParts
        <4>1. Len(lines[i]) = 2
          BY <2>1 DEF Parses
        <4>2. QED
          BY <1>2, <4>1, ElementOfSeq
      <3>2. lines[i][1].record.hash \in Hashes
        BY <3>1 DEF AllParts, Written
      <3>3. QED
        BY <3>2 DEF Verified
    <2>2. CASE ~Parses(lines[i])
      BY <2>2 DEF Verified
    <2>3. QED
      BY <2>1, <2>2
  <1>4. G \in [(1 .. n) \X A -> A]
    <2> HIDE DEF A
    <2>1. QED
      BY <1>3
  <1> HIDE DEF A, base
  <1>5. PICK h : FoldsTo(h, n, A, base, G)
    BY <1>1, <1>4, FoldExists
  <1>6. h = Body(h)
    <2>1. ASSUME NEW s \in SUBSET (1 .. n), s # {}
          PROVE  h[s] = Verified(h[s \ {Max(s)}], lines[Max(s)])
      <3>1. Max(s) \in 1 .. n
        BY <1>1, <2>1, MaxOf
      <3>2. h[s \ {Max(s)}] \in A /\ h[s] = G[<<Max(s), h[s \ {Max(s)}]>>]
        BY <1>5, <2>1 DEF FoldsTo
      <3>3. QED
        BY <3>1, <3>2
    <2>2. h \in [SUBSET (1 .. n) -> A] /\ h[{}] = base
      BY <1>5 DEF FoldsTo
    <2>3. QED
      BY <2>1, <2>2
  <1>7. it = Body(it)
    BY <1>6
  <1>8. Verify(lines) = it[1 .. n].ok
    BY <1>1 DEF Verify, FoldLeft, MapThenFoldSet, base
  <1> HIDE DEF it
  <1> DEFINE p == [i \in 0 .. n |-> it[1 .. i]]
  <1>9. p[0] = base
    BY <1>1, <1>7
  <1>10. ASSUME NEW i \in 1 .. n
         PROVE  p[i] = Verified(p[i - 1], lines[i])
    <2>1. 1 .. i \in SUBSET (1 .. n) /\ i \in Nat \ {0} /\ i \in 0 .. n /\ i - 1 \in 0 .. n
      OBVIOUS
    <2>2. Max(1 .. i) = i /\ (1 .. i) \ {i} = 1 .. (i - 1) /\ 1 .. i # {}
      BY <2>1, MaxOfPrefix
    <2>3. QED
      BY <1>7, <2>1, <2>2
  <1>11. p = [i \in 0 .. n |-> p[i]] /\ n \in 0 .. n /\ Verify(lines) = p[n].ok
    BY <1>1, <1>8
  <1> HIDE DEF p
  <1>12. p \in [0 .. n -> A]
    <2>1. \A i \in 1 .. n : p[i - 1] \in A => p[i] \in A
      BY <1>3, <1>10
    <2>2. QED
      BY <1>1, <1>9, <1>11, <2>1, PrefixesIn
  <1>13. \A i \in 1 .. n : p[i] = Verified(p[i - 1], lines[i])
    BY <1>10
  <1>14. QED
    BY <1>9, <1>11, <1>12, <1>13, Zenon DEF A, base

\* The record a call makes of an event, and the hash the next one is chained to.
RecordOf(last, e) == IF e \in Opaque THEN Record(last, Nothing, Bare) ELSE Record(last, e, e)
HashAt(prev, recs) == IF recs = <<>> THEN prev ELSE Last(recs).hash

LEMMA RecordHonest ==
  ASSUME NEW last \in Hashes, NEW e \in Events
  PROVE  RecordOf(last, e) \in Honest
  BY DEF RecordOf, Honest

\* Records are chained one by one.
LEMMA ChainedPath ==
  ASSUME NEW prev \in Hashes, NEW evs \in Seq(Events)
  PROVE  \E p \in [0 .. Len(evs) -> Seq(Honest)] :
           /\ p[0] = <<>>
           /\ \A i \in 1 .. Len(evs) :
                p[i] = Append(p[i - 1], RecordOf(HashAt(prev, p[i - 1]), evs[i]))
           /\ Chained(prev, evs) = p[Len(evs)]
  <1> DEFINE n == Len(evs)
             A == Seq(Honest)
             Step(a, e) == Append(a, RecordOf(HashAt(prev, a), e))
             G == [x \in (1 .. n) \X A |-> Step(x[2], evs[x[1]])]
             Body(h) == [s \in SUBSET (1 .. n) |->
                           IF s = {} THEN <<>> ELSE Step(h[s \ {Max(s)}], evs[Max(s)])]
             it == CHOOSE h : h = Body(h)
  <1>1. n \in Nat /\ DOMAIN evs = 1 .. n /\ <<>> \in A
    OBVIOUS
  <1>2. ASSUME NEW i \in 1 .. n
        PROVE  evs[i] \in Events
    BY <1>1, ElementOfSeq
  <1>3. ASSUME NEW i \in 1 .. n, NEW a \in A
        PROVE  Step(a, evs[i]) \in A
    <2>1. HashAt(prev, a) \in Hashes
      <3>1. CASE a # <<>>
        <4>1. Len(a) \in 1 .. Len(a)
          BY <3>1, EmptySeq, LenProperties
        <4>2. a[Len(a)] \in Written
          BY <4>1, ElementOfSeq, HonestTypes
        <4>3. QED
          BY <3>1, <4>2 DEF HashAt, Last, Written
      <3>2. QED
        BY <3>1 DEF HashAt
    <2>2. RecordOf(HashAt(prev, a), evs[i]) \in Honest
      BY <1>2, <2>1, RecordHonest
    <2>3. QED
      BY <2>2, AppendProperties
  <1>4. G \in [(1 .. n) \X A -> A]
    <2> HIDE DEF A
    <2>1. QED
      BY <1>3
  <1> HIDE DEF A
  <1>5. PICK h : FoldsTo(h, n, A, <<>>, G)
    BY <1>1, <1>4, FoldExists
  <1>6. h = Body(h)
    <2>1. ASSUME NEW s \in SUBSET (1 .. n), s # {}
          PROVE  h[s] = Step(h[s \ {Max(s)}], evs[Max(s)])
      <3>1. Max(s) \in 1 .. n
        BY <1>1, <2>1, MaxOf
      <3>2. h[s \ {Max(s)}] \in A /\ h[s] = G[<<Max(s), h[s \ {Max(s)}]>>]
        BY <1>5, <2>1 DEF FoldsTo
      <3> HIDE DEF Step
      <3>3. QED
        BY <3>1, <3>2
    <2>2. h \in [SUBSET (1 .. n) -> A] /\ h[{}] = <<>>
      BY <1>5 DEF FoldsTo
    <2> HIDE DEF Step
    <2>3. QED
      BY <2>1, <2>2
  <1>7. it = Body(it)
    BY <1>6
  <1>8. Chained(prev, evs) = it[1 .. n]
    BY <1>1 DEF Chained, FoldLeft, MapThenFoldSet, RecordOf, HashAt
  <1> HIDE DEF it, Step
  <1> DEFINE p == [i \in 0 .. n |-> it[1 .. i]]
  <1>9. p[0] = <<>>
    BY <1>1, <1>7
  <1>10. ASSUME NEW i \in 1 .. n
         PROVE  p[i] = Step(p[i - 1], evs[i])
    <2>1. 1 .. i \in SUBSET (1 .. n) /\ i \in Nat \ {0} /\ i \in 0 .. n /\ i - 1 \in 0 .. n
      OBVIOUS
    <2>2. Max(1 .. i) = i /\ (1 .. i) \ {i} = 1 .. (i - 1) /\ 1 .. i # {}
      BY <2>1, MaxOfPrefix
    <2>3. QED
      BY <1>7, <2>1, <2>2
  <1>11. p = [i \in 0 .. n |-> p[i]] /\ n \in 0 .. n /\ Chained(prev, evs) = p[n]
    BY <1>1, <1>8
  <1> HIDE DEF p
  <1>12. p \in [0 .. n -> A]
    <2>1. \A i \in 1 .. n : p[i - 1] \in A => p[i] \in A
      BY <1>3, <1>10
    <2>2. QED
      BY <1>1, <1>9, <1>11, <2>1, PrefixesIn
  <1>13. \A i \in 1 .. n : p[i] = Append(p[i - 1], RecordOf(HashAt(prev, p[i - 1]), evs[i]))
    BY <1>10 DEF Step
  <1>14. QED
    BY <1>9, <1>11, <1>12, <1>13, Zenon DEF A


-----------------------------------------------------------------------------
(* What appending does to the lines there are.                             *)

\* A line that parses is complete: nothing is added to it.
LEMMA AppendPartKeeps ==
  ASSUME NEW Q, NEW lines \in Seq(Seq(Q)), NEW part \in Q, NEW i \in DOMAIN lines,
         Parses(lines[i])
  PROVE  i \in DOMAIN AppendPart(lines, part) /\ AppendPart(lines, part)[i] = lines[i]
  <1>1. Len(lines) \in Nat /\ DOMAIN lines = 1 .. Len(lines) /\ lines # <<>>
    BY EmptySeq, LenProperties
  <1>2. CASE Last(Last(lines)).end
    <2>1. AppendPart(lines, part) = Append(lines, <<part>>)
      BY <1>2 DEF AppendPart
    <2>2. <<part>> \in Seq(Q)
      OBVIOUS
    <2> DEFINE s == Append(lines, <<part>>)
    <2>3. OneLonger(s, lines, <<part>>)
      BY <2>2, AppendOneLonger, Zenon
    <2> HIDE DEF s
    <2>4. i \in DOMAIN s /\ s[i] = lines[i]
      BY <1>1, <2>3 DEF OneLonger
    <2>5. QED
      BY <2>1, <2>4 DEF s
  <1>3. CASE ~Last(Last(lines)).end
    <2> DEFINE m == Len(lines)
               line == Append(lines[m], part)
               s == [lines EXCEPT ![m] = line]
    <2>1. AppendPart(lines, part) = s
      BY <1>1, <1>3, Zenon DEF AppendPart
    <2>2. i # m
      BY <1>3 DEF Parses, Last
    <2> HIDE DEF m, line
    <2>3. DOMAIN s = DOMAIN lines /\ s[i] = lines[i]
      BY <2>2
    <2>4. QED
      BY <2>1, <2>3
  <1>4. QED
    BY <1>2, <1>3

LEMMA AppendPartsKeeps ==
  ASSUME NEW Q, NEW lines \in Seq(Seq(Q)), NEW parts \in Seq(Q)
  PROVE  /\ AppendParts(lines, parts) \in Seq(Seq(Q))
         /\ \A i \in DOMAIN lines :
              Parses(lines[i]) => /\ i \in DOMAIN AppendParts(lines, parts)
                                  /\ AppendParts(lines, parts)[i] = lines[i]
  <1> DEFINE n == Len(parts)
  <1>1. n \in Nat
    BY LenProperties
  <1>2. PICK p \in [0 .. n -> Seq(Seq(Q))] :
          /\ p[0] = lines
          /\ \A k \in 1 .. n : p[k] = AppendPart(p[k - 1], parts[k])
          /\ AppendParts(lines, parts) = p[n]
    BY AppendPartsPath
  <1>3. ASSUME NEW i \in DOMAIN lines, Parses(lines[i])
        PROVE  i \in DOMAIN p[n] /\ p[n][i] = lines[i]
    <2> DEFINE T == {k \in 0 .. n : i \in DOMAIN p[k] /\ p[k][i] = lines[i]}
    <2>1. T \in SUBSET (0 .. n) /\ 0 \in T
      BY <1>1, <1>2
    <2>2. ASSUME NEW k \in 1 .. n, k - 1 \in T
          PROVE  k \in T
      <3>1. k \in 0 .. n /\ k - 1 \in 0 .. n /\ parts[k] \in Q
        BY <1>1, ElementOfSeq
      <3>2. i \in DOMAIN p[k - 1] /\ Parses(p[k - 1][i]) /\ p[k - 1][i] = lines[i]
        BY <1>3, <2>2
      <3>3. p[k] = AppendPart(p[k - 1], parts[k])
        BY <1>2
      <3>4. p[k - 1] \in Seq(Seq(Q))
        BY <1>2, <3>1
      <3>5. QED
        BY <3>1, <3>2, <3>3, <3>4, AppendPartKeeps, SMTT(30)
    <2> HIDE DEF T
    <2>3. T = 0 .. n
      BY <1>1, <2>1, <2>2, IndexInduction
    <2>4. n \in T
      BY <1>1, <2>3
    <2>5. QED
      BY <2>4 DEF T
  <1>4. p[n] \in Seq(Seq(Q))
    BY <1>1, <1>2
  <1>5. QED
    BY <1>2, <1>3, <1>4

PartsPath(p, Q, lines, parts) ==
  /\ p \in [0 .. Len(parts) -> Seq(Seq(Q))]
  /\ p[0] = lines
  /\ \A k \in 1 .. Len(parts) : p[k] = AppendPart(p[k - 1], parts[k])
  /\ AppendParts(lines, parts) = p[Len(parts)]

LEMMA PathOfParts ==
  ASSUME NEW Q, NEW lines \in Seq(Seq(Q)), NEW parts \in Seq(Q)
  PROVE  \E p : PartsPath(p, Q, lines, parts)
  BY AppendPartsPath DEF PartsPath

\* A buffer may be flushed in pieces.
LEMMA AppendInPieces ==
  ASSUME NEW Q, NEW lines \in Seq(Seq(Q)), NEW s \in Seq(Q), NEW t \in Seq(Q)
  PROVE  AppendParts(lines, s \o t) = AppendParts(AppendParts(lines, s), t)
  <1> DEFINE m == Len(s)
             n == Len(t)
             st == s \o t
             some == AppendParts(lines, s)
  <1>1. m \in Nat /\ n \in Nat
    BY LenProperties
  <1>2. /\ st \in Seq(Q) /\ Len(st) = m + n
        /\ \A i \in 1 .. m + n : st[i] = IF i <= m THEN s[i] ELSE t[i - m]
    BY ConcatProperties
  <1> HIDE DEF st
  <1>3. PICK p : PartsPath(p, Q, lines, st)
    BY <1>2, PathOfParts
  <1>4. PICK q : PartsPath(q, Q, lines, s)
    BY PathOfParts
  <1>5. some \in Seq(Seq(Q))
    BY AppendPartsKeeps
  <1> HIDE DEF some
  <1>6. PICK r : PartsPath(r, Q, some, t)
    BY <1>5, PathOfParts
  <1>7. /\ p[0] = lines
        /\ \A k \in 1 .. m + n : p[k] = AppendPart(p[k - 1], st[k])
        /\ AppendParts(lines, st) = p[m + n]
    BY <1>2, <1>3 DEF PartsPath
  <1>8. /\ q[0] = lines
        /\ \A k \in 1 .. m : q[k] = AppendPart(q[k - 1], s[k])
        /\ some = q[m]
    BY <1>4 DEF PartsPath, some
  <1>9. /\ r[0] = some
        /\ \A k \in 1 .. n : r[k] = AppendPart(r[k - 1], t[k])
        /\ AppendParts(some, t) = r[n]
    BY <1>6 DEF PartsPath
  <1> HIDE DEF m, n
  <1>10. p[m] = some
    <2> DEFINE T == {k \in 0 .. m : p[k] = q[k]}
    <2>1. T \in SUBSET (0 .. m) /\ 0 \in T
      BY <1>1, <1>7, <1>8
    <2>2. ASSUME NEW k \in 1 .. m, k - 1 \in T
          PROVE  k \in T
      <3>1. k \in 1 .. m + n /\ k <= m
        BY <1>1
      <3>2. p[k] = AppendPart(p[k - 1], s[k])
        BY <1>2, <1>7, <3>1
      <3>3. QED
        BY <1>8, <2>2, <3>2
    <2> HIDE DEF T
    <2>3. T = 0 .. m
      BY <1>1, <2>1, <2>2, IndexInduction
    <2>4. m \in T
      BY <1>1, <2>3
    <2>5. QED
      BY <1>8, <2>4 DEF T
  <1>11. p[m + n] = r[n]
    <2> DEFINE T == {k \in 0 .. n : p[m + k] = r[k]}
    <2>1. T \in SUBSET (0 .. n) /\ 0 \in T
      BY <1>1, <1>9, <1>10
    <2>2. ASSUME NEW k \in 1 .. n, k - 1 \in T
          PROVE  k \in T
      <3>1. m + k \in 1 .. m + n /\ ~(m + k <= m) /\ (m + k) - m = k /\ (m + k) - 1 = m + (k - 1)
        BY <1>1
      <3>2. st[m + k] = t[k]
        BY <1>2, <3>1
      <3>3. p[m + k] = AppendPart(p[m + (k - 1)], st[m + k])
        BY <1>7, <3>1
      <3>4. p[m + (k - 1)] = r[k - 1]
        BY <2>2
      <3>5. QED
        BY <1>9, <3>2, <3>3, <3>4
    <2> HIDE DEF T
    <2>3. T = 0 .. n
      BY <1>1, <2>1, <2>2, IndexInduction
    <2>4. n \in T
      BY <1>1, <2>3
    <2>5. QED
      BY <2>4 DEF T
  <1>12. QED
    BY <1>7, <1>9, <1>11 DEF st, some

-----------------------------------------------------------------------------
(* What a log that verifies is, without the recursion.                     *)

Linked(lines, i) ==
  /\ Parses(lines[i])
  /\ lines[i][1].record.prev = IF i = 1 THEN Zeros ELSE lines[i - 1][1].record.hash
  /\ lines[i][1].record.hash = Hash(lines[i][1].record.prev, lines[i][1].record.event)

Good(lines) == \A i \in DOMAIN lines : Linked(lines, i)

LEMMA VerifiesGood ==
  ASSUME NEW lines \in Seq(Seq(AllParts))
  PROVE  Verify(lines) <=> Good(lines)
  <1> DEFINE n == Len(lines)
             Upto(i) == \A j \in 1 .. i : Linked(lines, j)
             HashOf(i) == IF i = 0 THEN Zeros ELSE lines[i][1].record.hash
  <1>1. n \in Nat /\ DOMAIN lines = 1 .. n
    BY LenProperties
  <1>2. PICK p \in [0 .. n -> [ok : BOOLEAN, prev : Hashes]] :
          /\ p[0] = [ok |-> TRUE, prev |-> Zeros]
          /\ \A i \in 1 .. n : p[i] = Verified(p[i - 1], lines[i])
          /\ Verify(lines) = p[n].ok
    BY VerifyPath
  <1> DEFINE T == {i \in 0 .. n : /\ p[i].ok <=> Upto(i)
                                  /\ p[i].ok => p[i].prev = HashOf(i)}
  <1>3. T \in SUBSET (0 .. n) /\ 0 \in T
    <2>1. p[0].ok /\ Upto(0) /\ p[0].prev = HashOf(0)
      BY <1>2
    <2> HIDE DEF Upto, HashOf
    <2>2. QED
      BY <1>1, <2>1
  <1>4. ASSUME NEW i \in 1 .. n, i - 1 \in T
        PROVE  i \in T
    <2>1. i \in 0 .. n /\ i - 1 \in 0 .. n /\ i # 0
      BY <1>1
    <2>2. /\ p[i - 1].ok <=> Upto(i - 1)
          /\ p[i - 1].ok => p[i - 1].prev = HashOf(i - 1)
          /\ p[i - 1] \in [ok : BOOLEAN, prev : Hashes]
          /\ p[i] = Verified(p[i - 1], lines[i])
      BY <1>2, <1>4, <2>1
    <2>3. Upto(i) <=> Upto(i - 1) /\ Linked(lines, i)
      <3>1. 1 .. i = (1 .. (i - 1)) \cup {i}
        BY <2>1
      <3>2. QED
        BY <3>1
    <2>4. HashOf(i - 1) = IF i = 1 THEN Zeros ELSE lines[i - 1][1].record.hash
      BY <2>1
    <2>5. HashOf(i) = lines[i][1].record.hash
      BY <2>1
    <2> HIDE DEF Upto, HashOf
    <2>6. CASE p[i - 1].ok
      <3>1. p[i].ok <=> Linked(lines, i)
        BY <2>2, <2>4, <2>6 DEF Verified, Linked
      <3>2. p[i].ok => p[i].prev = HashOf(i)
        BY <2>2, <2>5 DEF Verified
      <3>3. QED
        BY <2>1, <2>2, <2>3, <2>6, <3>1, <3>2
    <2>7. CASE ~p[i - 1].ok
      <3>1. ~p[i].ok
        BY <2>2, <2>7 DEF Verified
      <3>2. QED
        BY <2>1, <2>2, <2>3, <2>7, <3>1
    <2>8. QED
      BY <2>6, <2>7
  <1>5. n \in T
    <2> HIDE DEF T
    <2>1. T = 0 .. n
      BY <1>1, <1>3, <1>4, IndexInduction
    <2>2. QED
      BY <1>1, <2>1
  <1>6. QED
    BY <1>1, <1>2, <1>5 DEF Good


-----------------------------------------------------------------------------
(* What a call adds to a log that verifies.                                *)

LEMMA ChainedRecords ==
  ASSUME NEW prev \in Hashes, NEW evs \in Seq(Events)
  PROVE  LET recs == Chained(prev, evs)
         IN  /\ recs \in Seq(Honest)
             /\ Len(recs) = Len(evs)
             /\ \A i \in 1 .. Len(evs) :
                  recs[i] = RecordOf(IF i = 1 THEN prev ELSE recs[i - 1].hash, evs[i])
  <1> DEFINE n == Len(evs)
             Link(recs, i) ==
               recs[i] = RecordOf(IF i = 1 THEN prev ELSE recs[i - 1].hash, evs[i])
  <1>1. n \in Nat
    BY LenProperties
  <1>2. PICK p \in [0 .. n -> Seq(Honest)] :
          /\ p[0] = <<>>
          /\ \A i \in 1 .. n : p[i] = Append(p[i - 1], RecordOf(HashAt(prev, p[i - 1]), evs[i]))
          /\ Chained(prev, evs) = p[n]
    BY ChainedPath
  <1> DEFINE T == {k \in 0 .. n : Len(p[k]) = k /\ \A i \in 1 .. k : Link(p[k], i)}
  <1>3. T \in SUBSET (0 .. n) /\ 0 \in T
    <2>1. Len(p[0]) = 0
      BY <1>2
    <2> HIDE DEF Link
    <2>2. QED
      BY <1>1, <2>1
  <1>4. ASSUME NEW k \in 1 .. n, k - 1 \in T
        PROVE  k \in T
    <2> DEFINE q == p[k - 1]
               r == RecordOf(HashAt(prev, q), evs[k])
    <2>1. k \in 0 .. n /\ k - 1 \in 0 .. n /\ k \in Nat
      BY <1>1
    <2>2. q \in Seq(Honest) /\ p[k] \in Seq(Honest) /\ Len(q) = k - 1 /\ p[k] = Append(q, r)
      BY <1>2, <1>4, <2>1
    <2>3. \A i \in 1 .. (k - 1) : Link(q, i)
      BY <1>4
    <2> HIDE DEF q, r
    <2>4. /\ Len(p[k]) = k /\ p[k][k] = r
          /\ \A i \in 1 .. (k - 1) : p[k][i] = q[i]
      BY <2>1, <2>2
    <2>5. ASSUME NEW i \in 1 .. k
          PROVE  Link(p[k], i)
      <3>1. CASE i < k
        <4>1. i \in 1 .. (k - 1) /\ (i # 1 => i - 1 \in 1 .. (k - 1))
          BY <2>1, <3>1
        <4>2. p[k][i] = q[i] /\ (i # 1 => p[k][i - 1] = q[i - 1])
          BY <2>4, <4>1
        <4>3. QED
          BY <2>3, <4>1, <4>2
      <3>2. CASE i = k
        <4>1. HashAt(prev, q) = IF k = 1 THEN prev ELSE q[k - 1].hash
          <5>1. (q = <<>>) <=> (k = 1)
            BY <2>1, <2>2, EmptySeq
          <5>2. QED
            BY <2>2, <5>1 DEF HashAt, Last
        <4>2. k # 1 => q[k - 1] = p[k][k - 1]
          BY <2>1, <2>4
        <4>3. QED
          BY <2>4, <3>2, <4>1, <4>2 DEF r
      <3>3. QED
        BY <2>1, <3>1, <3>2
    <2> HIDE DEF Link
    <2>6. QED
      BY <2>1, <2>4, <2>5
  <1>5. n \in T
    <2> HIDE DEF T
    <2>1. T = 0 .. n
      BY <1>1, <1>3, <1>4, IndexInduction
    <2>2. QED
      BY <1>1, <2>1
  <1>6. p[n] \in Seq(Honest)
    <2>1. n \in 0 .. n
      BY <1>1
    <2>2. QED
      BY <2>1, Zenon
  <1>7. Chained(prev, evs) = p[n] /\ Len(p[n]) = n /\ \A i \in 1 .. n : Link(p[n], i)
    <2> HIDE DEF Link
    <2>1. Len(p[n]) = n /\ \A i \in 1 .. n : Link(p[n], i)
      BY <1>5, Zenon
    <2>2. QED
      BY <1>2, <2>1, Zenon
  <1>8. QED
    BY <1>6, <1>7, Zenon

LEMMA PartHonest ==
  ASSUME NEW r \in Honest, NEW end \in BOOLEAN
  PROVE  Part(r, end) \in HonestParts
  BY DEF HonestParts

LEMMA PartsOfRecords ==
  ASSUME NEW recs \in Seq(Honest)
  PROVE  /\ Parts(recs) \in Seq(HonestParts)
         /\ Len(Parts(recs)) = 2 * Len(recs)
         /\ \A k \in 1 .. Len(recs) : /\ Parts(recs)[2 * k - 1] = Part(recs[k], FALSE)
                                      /\ Parts(recs)[2 * k] = Part(recs[k], TRUE)
  <1> DEFINE n == Len(recs)
             f == Parts(recs)
  <1>1. n \in Nat /\ 2 * n \in Nat
    BY LenProperties
  <1>2. ASSUME NEW k \in 1 .. 2 * n
        PROVE  f[k] \in HonestParts
    <2>1. (k + 1) \div 2 \in 1 .. n
      BY <1>1
    <2>2. recs[(k + 1) \div 2] \in Honest
      BY <2>1, ElementOfSeq
    <2>3. f[k] = Part(recs[(k + 1) \div 2], k % 2 = 0)
      BY Zenon DEF Parts
    <2>4. (k % 2 = 0) \in BOOLEAN
      OBVIOUS
    <2>5. QED
      BY <2>2, <2>3, <2>4, PartHonest, Zenon
  <1>3. f \in [1 .. 2 * n -> HonestParts]
    BY <1>2 DEF Parts
  <1>4. f \in Seq(HonestParts) /\ Len(f) = 2 * n
    <2> HIDE DEF f, n
    <2>1. QED
      BY <1>1, <1>3, SeqDef, LenProperties
  <1>5. ASSUME NEW k \in 1 .. n
        PROVE  f[2 * k - 1] = Part(recs[k], FALSE) /\ f[2 * k] = Part(recs[k], TRUE)
    <2>1. 2 * k - 1 \in 1 .. 2 * n /\ 2 * k \in 1 .. 2 * n
      BY <1>1
    <2>2. ((2 * k - 1) + 1) \div 2 = k /\ (2 * k + 1) \div 2 = k
      BY <1>1
    <2>3. (2 * k - 1) % 2 = 1 /\ (2 * k) % 2 = 0
      BY <1>1
    <2>4. f[2 * k - 1] = Part(recs[((2 * k - 1) + 1) \div 2], (2 * k - 1) % 2 = 0)
      BY <2>1, Zenon DEF Parts
    <2>5. f[2 * k] = Part(recs[(2 * k + 1) \div 2], (2 * k) % 2 = 0)
      BY <2>1, Zenon DEF Parts
    <2>6. ((2 * k - 1) % 2 = 0) = FALSE /\ ((2 * k) % 2 = 0) = TRUE
      BY <2>3
    <2>7. QED
      BY <2>2, <2>4, <2>5, <2>6, Zenon
  <1>6. QED
    BY <1>4, <1>5


\* Nothing is under way at the end of the lines.
Whole(lines) == lines = <<>> \/ Last(Last(lines)).end

\* The parts of records make one line of each, behind whole lines.
LineOf(record) == <<Part(record, FALSE), Part(record, TRUE)>>
Grown(r, lines, recs, k) ==
  /\ Len(r) = Len(lines) + k
  /\ \A i \in 1 .. Len(lines) : r[i] = lines[i]
  /\ \A j \in 1 .. k : r[Len(lines) + j] = LineOf(recs[j])

LEMMA LineOfTwo ==
  ASSUME NEW Q, NEW a \in Q, NEW b \in Q
  PROVE  Append(<<a>>, b) = <<a, b>>
  <1> DEFINE v == Append(<<a>>, b)
             w == <<a, b>>
  <1>1. v \in Seq(Q) /\ Len(v) = 2 /\ v[1] = a /\ v[2] = b
    OBVIOUS
  <1>2. w \in Seq(Q) /\ Len(w) = 2 /\ w[1] = a /\ w[2] = b
    OBVIOUS
  <1> HIDE DEF v, w
  <1>3. Len(v) = Len(w) /\ \A i \in 1 .. Len(v) : v[i] = w[i]
    BY <1>1, <1>2
  <1>4. v = w
    BY <1>1, <1>2, <1>3, SeqEqual, Zenon
  <1>5. QED
    BY <1>4 DEF v, w


LEMMA LineGrows ==
  ASSUME NEW lines \in Seq(Seq(AllParts)), NEW recs \in Seq(Honest), Whole(lines),
         NEW k \in 1 .. Len(recs), NEW a \in Seq(Seq(AllParts)), Grown(a, lines, recs, k - 1)
  PROVE  LET b == AppendPart(a, Part(recs[k], FALSE))
         IN  Grown(AppendPart(b, Part(recs[k], TRUE)), lines, recs, k)
  <1> DEFINE n == Len(lines)
             one == Part(recs[k], FALSE)
             two == Part(recs[k], TRUE)
             b == AppendPart(a, one)
             c == AppendPart(b, two)
  <1>1. n \in Nat /\ k \in Nat \ {0} /\ Len(a) \in Nat /\ Len(a) = n + (k - 1)
    BY LenProperties DEF Grown
  <1>2. recs[k] \in Honest
    BY ElementOfSeq
  <1>3. /\ one \in AllParts /\ two \in AllParts
        /\ ~one.end /\ two.end /\ LineOf(recs[k]) = <<one, two>>
    <2>1. one \in HonestParts /\ two \in HonestParts
      BY <1>2, PartHonest
    <2>2. QED
      BY <2>1, HonestTypes DEF Part, LineOf
  <1>4. a = <<>> \/ Last(Last(a)).end
    <2>1. CASE k = 1 /\ n = 0
      BY <1>1, <2>1, EmptySeq
    <2>2. CASE k = 1 /\ n # 0
      <3>1. lines # <<>> /\ Len(a) = n /\ n \in 1 .. n
        BY <1>1, <2>2, EmptySeq
      <3>2. a[n] = lines[n]
        BY <3>1 DEF Grown
      <3>3. QED
        BY <3>1, <3>2 DEF Whole, Last
    <2>3. CASE k # 1
      <3>1. k - 1 \in 1 .. (k - 1)
        BY <1>1, <2>3
      <3>2. a[n + (k - 1)] = LineOf(recs[k - 1])
        BY <3>1 DEF Grown
      <3>3. Last(a) = LineOf(recs[k - 1])
        BY <1>1, <3>2 DEF Last
      <3>4. QED
        BY <3>3 DEF Last, LineOf, Part
    <2>4. QED
      BY <2>1, <2>2, <2>3
  <1> HIDE DEF one, two
  <1>5. b = Append(a, <<one>>)
    BY <1>4 DEF AppendPart
  <1>6. /\ b \in Seq(Seq(AllParts)) /\ Len(b) = n + k /\ b[n + k] = <<one>>
        /\ \A i \in 1 .. n + (k - 1) : b[i] = a[i]
    <2>1. <<one>> \in Seq(AllParts)
      BY <1>3
    <2> HIDE DEF b, n
    <2>2. QED
      BY <1>1, <1>5, <2>1, AppendProperties
  <1> HIDE DEF b
  <1>7. c = [b EXCEPT ![n + k] = <<one, two>>]
    <2>1. b # <<>> /\ Last(b) = <<one>>
      BY <1>1, <1>6 DEF Last
    <2>2. ~Last(Last(b)).end
      BY <1>3, <2>1 DEF Last
    <2>3. c = [b EXCEPT ![Len(b)] = Append(b[Len(b)], two)]
      BY <2>1, <2>2 DEF AppendPart
    <2>4. Append(b[Len(b)], two) = <<one, two>>
      <3>1. b[Len(b)] = <<one>>
        BY <1>6
      <3>2. QED
        BY <1>3, <3>1, LineOfTwo
    <2>5. QED
      BY <1>6, <2>3, <2>4
  <1> HIDE DEF c
  <1>8. /\ Len(c) = n + k /\ c[n + k] = <<one, two>>
        /\ \A i \in 1 .. n + (k - 1) : c[i] = a[i]
    <2>1. n + k \in 1 .. Len(b) /\ <<one, two>> \in Seq(AllParts)
      BY <1>1, <1>3, <1>6
    <2>2. \A i \in 1 .. n + (k - 1) : i \in 1 .. n + k /\ i # n + k
      BY <1>1
    <2>3. QED
      BY <1>6, <1>7, <2>1, <2>2, ExceptSeq
  <1>9. \A i \in 1 .. n : c[i] = lines[i]
    <2>1. \A i \in 1 .. n : i \in 1 .. n + (k - 1)
      BY <1>1
    <2>2. QED
      BY <1>8, <2>1 DEF Grown
  <1>10. ASSUME NEW j \in 1 .. k
         PROVE  c[n + j] = LineOf(recs[j])
    <2>1. CASE j = k
      BY <1>3, <1>8, <2>1
    <2>2. CASE j # k
      <3>1. j \in 1 .. (k - 1) /\ n + j \in 1 .. n + (k - 1)
        BY <1>1, <2>2
      <3>2. QED
        BY <1>8, <3>1 DEF Grown
    <2>3. QED
      BY <2>1, <2>2
  <1>11. Grown(c, lines, recs, k)
    BY <1>8, <1>9, <1>10 DEF Grown
  <1>12. QED
    BY <1>11 DEF b, c, one, two

LEMMA LinesGrow ==
  ASSUME NEW lines \in Seq(Seq(AllParts)), NEW recs \in Seq(Honest), Whole(lines)
  PROVE  Grown(AppendParts(lines, Parts(recs)), lines, recs, Len(recs))
  <1> DEFINE n == Len(recs)
             parts == Parts(recs)
  <1>1. n \in Nat
    BY LenProperties
  <1>2. /\ parts \in Seq(AllParts) /\ Len(parts) = 2 * n
        /\ \A k \in 1 .. n : parts[2 * k - 1] = Part(recs[k], FALSE)
                             /\ parts[2 * k] = Part(recs[k], TRUE)
    <2>1. parts \in Seq(HonestParts)
      BY PartsOfRecords
    <2>2. parts \in Seq(AllParts)
      <3> HIDE DEF parts
      <3>1. QED
        BY <2>1, HonestTypes
    <2>3. QED
      BY <2>2, PartsOfRecords
  <1> HIDE DEF parts
  <1>3. PICK p : PartsPath(p, AllParts, lines, parts)
    BY <1>2, PathOfParts
  <1>4. /\ p \in [0 .. 2 * n -> Seq(Seq(AllParts))]
        /\ p[0] = lines
        /\ \A k \in 1 .. 2 * n : p[k] = AppendPart(p[k - 1], parts[k])
        /\ AppendParts(lines, parts) = p[2 * n]
    BY <1>2, <1>3 DEF PartsPath
  <1> HIDE DEF n
  <1> DEFINE T == {k \in 0 .. n : Grown(p[2 * k], lines, recs, k)}
  <1>5. T \in SUBSET (0 .. n) /\ 0 \in T
    <2>1. 2 * 0 = 0 /\ 0 \in 0 .. n
      BY <1>1
    <2>2. Grown(lines, lines, recs, 0)
      BY LenProperties DEF Grown
    <2>3. QED
      BY <1>4, <2>1, <2>2
  <1>6. ASSUME NEW k \in 1 .. n, k - 1 \in T
        PROVE  k \in T
    <2>1. /\ 2 * k \in 1 .. 2 * n /\ 2 * k - 1 \in 1 .. 2 * n /\ 2 * (k - 1) \in 0 .. 2 * n
          /\ (2 * k) - 1 = 2 * k - 1 /\ (2 * k - 1) - 1 = 2 * (k - 1) /\ k \in 0 .. n
      BY <1>1
    <2>2. Grown(p[2 * (k - 1)], lines, recs, k - 1) /\ p[2 * (k - 1)] \in Seq(Seq(AllParts))
      BY <1>4, <1>6, <2>1
    <2>3. p[2 * k - 1] = AppendPart(p[2 * (k - 1)], Part(recs[k], FALSE))
      BY <1>2, <1>4, <2>1
    <2>4. p[2 * k] = AppendPart(p[2 * k - 1], Part(recs[k], TRUE))
      BY <1>2, <1>4, <2>1
    <2>5. Grown(p[2 * k], lines, recs, k)
      BY <2>2, <2>3, <2>4, LineGrows DEF n
    <2>6. QED
      BY <2>1, <2>5
  <1>7. n \in T
    <2> HIDE DEF T
    <2>1. T = 0 .. n
      BY <1>1, <1>5, <1>6, IndexInduction
    <2>2. QED
      BY <1>1, <2>1
  <1>8. QED
    BY <1>4, <1>7 DEF n, parts

LEMMA LineParses ==
  ASSUME NEW record
  PROVE  Parses(LineOf(record)) /\ LineOf(record)[1].record = record
  BY DEF LineOf, Part, Parses

LEMMA LastHashTyped ==
  ASSUME NEW lines \in Seq(Seq(AllParts))
  PROVE  LastHash(lines) \in Hashes
  <1>1. Zeros \in Hashes
    BY DEF Zeros, Hashes
  <1>2. ASSUME lines # <<>>, Parses(Last(lines))
        PROVE  Last(lines)[1].record.hash \in Hashes
    <2>1. Len(lines) \in 1 .. Len(lines)
      BY <1>2, EmptySeq, LenProperties
    <2>2. Last(lines) \in Seq(AllParts)
      BY <2>1, ElementOfSeq DEF Last
    <2>3. Len(Last(lines)) = 2
      BY <1>2 DEF Parses
    <2> DEFINE line == Last(lines)
    <2> HIDE DEF line
    <2>4. line \in Seq(AllParts) /\ 1 \in 1 .. Len(line)
      BY <2>2, <2>3 DEF line
    <2>5. line[1] \in AllParts
      BY <2>4, ElementOfSeq
    <2>6. QED
      BY <2>5 DEF line, AllParts, Written
  <1>3. QED
    BY <1>1, <1>2 DEF LastHash

\* A call that can write every event goes on with a chain that verifies.
LEMMA StartGood ==
  ASSUME NEW lines \in Seq(Seq(AllParts)), Good(lines),
         NEW evs \in Seq(Events), ToSet(evs) \cap Opaque = {}
  PROVE  Good(AppendParts(lines, Parts(Chained(LastHash(lines), evs))))
  <1> DEFINE n == Len(lines)
             m == Len(evs)
             h == LastHash(lines)
             recs == Chained(h, evs)
             r == AppendParts(lines, Parts(recs))
  <1>1. n \in Nat /\ m \in Nat /\ DOMAIN lines = 1 .. n
    BY LenProperties
  <1>2. h \in Hashes
    BY LastHashTyped
  <1>3. h = IF n = 0 THEN Zeros ELSE lines[n][1].record.hash
    <2>1. CASE n = 0
      BY <2>1, EmptySeq DEF LastHash
    <2>2. CASE n # 0
      <3>1. lines # <<>> /\ Parses(lines[n])
        BY <1>1, <2>2, EmptySeq DEF Good, Linked
      <3>2. QED
        BY <2>2, <3>1 DEF LastHash, Last
    <2>3. QED
      BY <2>1, <2>2
  <1> HIDE DEF h
  <1>4. /\ recs \in Seq(Honest) /\ Len(recs) = m
        /\ \A j \in 1 .. m :
             recs[j] = RecordOf(IF j = 1 THEN h ELSE recs[j - 1].hash, evs[j])
    BY <1>2, ChainedRecords
  <1> HIDE DEF recs
  <1>5. Whole(lines)
    <2>1. CASE lines # <<>>
      <3>1. n \in 1 .. n
        BY <1>1, <2>1, EmptySeq
      <3>2. Parses(Last(lines))
        BY <1>1, <3>1 DEF Good, Linked, Last
      <3>3. QED
        BY <3>2 DEF Whole, Parses, Last
    <2>2. QED
      BY <2>1 DEF Whole
  <1>6. Grown(r, lines, recs, m)
    BY <1>4, <1>5, LinesGrow
  <1>7. DOMAIN r = 1 .. n + m
    <2>1. Parts(recs) \in Seq(HonestParts)
      BY <1>4, PartsOfRecords
    <2>2. Parts(recs) \in Seq(AllParts)
      BY <2>1, HonestTypes
    <2>3. r \in Seq(Seq(AllParts))
      BY <2>2, AppendPartsKeeps
    <2> HIDE DEF r
    <2>4. QED
      BY <1>6, <2>3, LenProperties DEF Grown
  <1> HIDE DEF r
  <1>8. /\ \A i \in 1 .. n : r[i] = lines[i]
        /\ \A j \in 1 .. m : r[n + j] = LineOf(recs[j])
    BY <1>6 DEF Grown
  <1>9. ASSUME NEW j \in 1 .. m
        PROVE  Linked(r, n + j)
    <2> DEFINE last == IF j = 1 THEN h ELSE recs[j - 1].hash
    <2>1. recs[j] = Record(last, evs[j], evs[j])
      <3>1. evs[j] \in ToSet(evs)
        BY <1>1, LenProperties DEF ToSet
      <3>2. recs[j] = RecordOf(last, evs[j])
        BY <1>4
      <3> HIDE DEF last
      <3>3. QED
        BY <3>1, <3>2 DEF RecordOf
    <2>2. last = IF n + j = 1 THEN Zeros ELSE r[(n + j) - 1][1].record.hash
      <3>1. CASE j = 1 /\ n = 0
        BY <1>3, <3>1
      <3>2. CASE j = 1 /\ n # 0
        <4>1. n + j # 1 /\ (n + j) - 1 = n /\ n \in 1 .. n
          BY <1>1, <3>2
        <4>2. QED
          BY <1>3, <1>8, <3>2, <4>1
      <3>3. CASE j # 1
        <4>1. j - 1 \in 1 .. m /\ n + j # 1 /\ (n + j) - 1 = n + (j - 1)
          BY <1>1, <3>3
        <4>2. r[n + (j - 1)] = LineOf(recs[j - 1])
          BY <1>8, <4>1
        <4>3. r[(n + j) - 1][1].record = recs[j - 1]
          BY <4>1, <4>2, LineParses
        <4>4. QED
          BY <3>3, <4>1, <4>3
      <3>4. QED
        BY <3>1, <3>2, <3>3
    <2>3. Parses(r[n + j]) /\ r[n + j][1].record = recs[j]
      BY <1>8, LineParses
    <2> HIDE DEF last
    <2>4. QED
      BY <2>1, <2>2, <2>3 DEF Linked, Record
  <1>10. ASSUME NEW i \in 1 .. n
         PROVE  Linked(r, i)
    <2>1. r[i] = lines[i] /\ (i # 1 => r[i - 1] = lines[i - 1])
      <3>1. i # 1 => i - 1 \in 1 .. n
        BY <1>1
      <3>2. QED
        BY <1>8, <3>1
    <2>2. Linked(lines, i)
      BY <1>1 DEF Good
    <2>3. QED
      BY <2>1, <2>2 DEF Linked
  <1>11. ASSUME NEW i \in 1 .. n + m
         PROVE  Linked(r, i)
    <2>1. CASE i <= n
      BY <1>1, <1>10, <2>1
    <2>2. CASE i > n
      <3>1. i - n \in 1 .. m /\ n + (i - n) = i
        BY <1>1, <2>2
      <3>2. Linked(r, n + (i - n))
        BY <1>9, <3>1
      <3>3. QED
        BY <3>1, <3>2
    <2>3. QED
      BY <1>1, <2>1, <2>2
  <1>12. Good(r)
    BY <1>7, <1>11 DEF Good
  <1>13. QED
    BY <1>12 DEF r, recs, h

-----------------------------------------------------------------------------
(* Invariants of the log.                                                  *)

\* A line that was altered: its hash is not that of its event.
Forged(line) ==
  /\ Parses(line)
  /\ line[1].record.hash # Hash(line[1].record.prev, line[1].record.event)

LogTyped ==
  /\ file \in Seq(Seq(AllParts))
  /\ events \in [Writers -> Seq(Events)]
  /\ buffer \in [Writers -> Seq(HonestParts)]

\* Until someone changes it the file holds what calls wrote; then the forged line is
\* there to stay, whatever is appended.
Shown == change \notin { <<>>, <<Bare, Nothing>> }

Traced ==
  /\ change = <<>> => file \in Seq(Seq(HonestParts))
  /\ Shown => \E i \in DOMAIN file : Forged(file[i])

\* One call at a time, and what it has still to write fits the end of the file.
InOrder ==
  ~damaged /\ change = <<>> =>
    /\ \A v, w \in writing : v = w
    /\ writing = {} => Good(file)
    /\ \A w \in writing : Good(AppendParts(file, buffer[w]))

LogInv == LogTyped /\ Traced /\ writing \in SUBSET Writers /\ InOrder

LEMMA StartBuffer ==
  ASSUME LogTyped, NEW w \in Writers
  PROVE  Parts(Chained(LastHash(file), events[w])) \in Seq(HonestParts)
  <1>1. LastHash(file) \in Hashes /\ events[w] \in Seq(Events)
    BY LastHashTyped DEF LogTyped
  <1> DEFINE recs == Chained(LastHash(file), events[w])
  <1>2. recs \in Seq(Honest)
    BY <1>1, ChainedRecords
  <1> HIDE DEF recs
  <1>3. Parts(recs) \in Seq(HonestParts)
    BY <1>2, PartsOfRecords
  <1>4. QED
    BY <1>3 DEF recs

\* Appending keeps what is said of the file.
LEMMA AppendKeeps ==
  ASSUME LogTyped, Traced, NEW parts \in Seq(HonestParts), file' = AppendParts(file, parts),
         change' = change
  PROVE  file' \in Seq(Seq(AllParts)) /\ Traced'
  <1>1. parts \in Seq(AllParts) /\ file \in Seq(Seq(AllParts))
    BY HonestTypes DEF LogTyped
  <1>2. /\ file' \in Seq(Seq(AllParts))
        /\ \A i \in DOMAIN file : Parses(file[i]) => i \in DOMAIN file' /\ file'[i] = file[i]
    BY <1>1, AppendPartsKeeps
  <1>3. change = <<>> => file' \in Seq(Seq(HonestParts))
    BY AppendPartsKeeps DEF Traced
  <1>4. ASSUME NEW i \in DOMAIN file, Forged(file[i])
        PROVE  i \in DOMAIN file' /\ Forged(file'[i])
    BY <1>2, <1>4 DEF Forged
  <1>5. QED
    BY <1>2, <1>3, <1>4 DEF Traced, Shown

LEMMA AlterForges ==
  ASSUME LogTyped, Traced, NEW i \in DOMAIN file, NEW e \in Events \cup {Bare, Nothing},
         Alter(i, e)
  PROVE  /\ file' \in Seq(Seq(AllParts)) /\ i \in DOMAIN file'
         /\ <<file[i][1].record.event, e>> # <<Bare, Nothing>> => Forged(file'[i])
  <1> DEFINE one == [file[i][1] EXCEPT !.record.event = e]
             two == [file[i][2] EXCEPT !.record.event = e]
  <1>1. /\ file \in Seq(Seq(HonestParts)) /\ file \in Seq(Seq(AllParts)) /\ Parses(file[i])
        /\ file[i][1].record.event # e /\ file' = [file EXCEPT ![i] = <<one, two>>]
    BY DEF LogTyped, Traced, Alter
  <1>2. DOMAIN file = 1 .. Len(file)
    BY <1>1, LenProperties
  <1>3. file[i] \in Seq(HonestParts) /\ 1 \in 1 .. Len(file[i]) /\ 2 \in 1 .. Len(file[i])
    BY <1>1, <1>2, ElementOfSeq DEF Parses
  <1> DEFINE line == file[i]
  <1> HIDE DEF line
  <1>4. line \in Seq(HonestParts) /\ 1 \in 1 .. Len(line) /\ 2 \in 1 .. Len(line)
    BY <1>3 DEF line
  <1>5. line[1] \in HonestParts /\ line[2] \in HonestParts
    BY <1>4, ElementOfSeq
  <1>6. line[1] \in AllParts /\ line[2] \in AllParts
    BY <1>5, HonestTypes
  <1>7. one \in AllParts /\ two \in AllParts
    BY <1>6 DEF line, AllParts, Written
  <1>8. /\ one.record = [line[1].record EXCEPT !.event = e] /\ one.end = line[1].end
        /\ two.record = [line[2].record EXCEPT !.event = e] /\ two.end = line[2].end
    BY <1>6 DEF line, AllParts, Written
  <1>9. /\ one.record.prev = line[1].record.prev /\ one.record.hash = line[1].record.hash
        /\ one.record.event = e
    BY <1>6, <1>8 DEF AllParts, Written
  <1>10. ASSUME <<line[1].record.event, e>> # <<Bare, Nothing>>
         PROVE  line[1].record.hash # Hash(line[1].record.prev, e)
    <2> DEFINE r == line[1].record
    <2>1. r \in Honest /\ r.event # e /\ (r.event = Bare => e # Nothing)
      BY <1>1, <1>5, <1>10 DEF line, HonestParts, Part
    <2> HIDE DEF r
    <2>2. CASE \E h \in Hashes, c \in Events : r = Record(h, c, c)
      <3>1. PICK h \in Hashes, c \in Events : r = Record(h, c, c)
        BY <2>2
      <3>2. r.prev = h /\ r.hash = Append(h, c) /\ c # e
        BY <2>1, <3>1 DEF Record, Hash
      <3>3. h \in Seq(Canons \cup {Bare}) /\ c \in Canons \cup {Bare} /\ e \in Canons \cup {Bare}
        BY DEF Hashes, Canons
      <3>4. Append(h, c) # Append(h, e)
        BY <3>2, <3>3, AppendInjective
      <3>5. QED
        BY <3>2, <3>4 DEF Hash, r
    <2>3. CASE \E h \in Hashes : r = Record(h, Nothing, Bare)
      <3>1. PICK h \in Hashes : r = Record(h, Nothing, Bare)
        BY <2>3
      <3>2. r.prev = h /\ r.hash = Append(h, Nothing) /\ Nothing # e
        BY <2>1, <3>1 DEF Record, Hash
      <3>3. h \in Seq(Canons \cup {Bare}) /\ Nothing \in Canons /\ e \in Canons \cup {Bare}
        BY DEF Hashes, Canons
      <3>4. Append(h, Nothing) # Append(h, e)
        BY <3>2, <3>3, AppendInjective
      <3>5. QED
        BY <3>2, <3>4 DEF Hash, r
    <2>4. QED
      BY <2>1, <2>2, <2>3 DEF Honest
  <1>11. one.record = two.record /\ ~one.end /\ two.end
    BY <1>1, <1>8 DEF Parses, line
  <1> HIDE DEF one, two
  <1>12. <<line[1].record.event, e>> # <<Bare, Nothing>> => Forged(<<one, two>>)
    BY <1>9, <1>10, <1>11 DEF Forged, Parses
  <1>13. <<one, two>> \in Seq(AllParts)
    BY <1>7
  <1>14. file' \in Seq(Seq(AllParts)) /\ DOMAIN file' = DOMAIN file /\ file'[i] = <<one, two>>
    BY <1>1, <1>2, <1>13, ExceptSeq
  <1>15. QED
    BY <1>12, <1>14 DEF line

LEMMA LogInitInv == LogInit => LogInv
  <1> SUFFICES ASSUME LogInit PROVE LogInv
    OBVIOUS
  <1>1. LogTyped
    <2>1. /\ <<>> \in Seq(Seq(AllParts)) /\ <<>> \in Seq(Events)
          /\ <<>> \in Seq(HonestParts)
      BY EmptySeq
    <2>2. QED
      BY <2>1 DEF LogInit, LogTyped
  <1>2. Traced /\ writing \in SUBSET Writers
    BY DEF LogInit, Traced, Shown
  <1>3. InOrder
    BY DEF LogInit, InOrder, Good
  <1>4. QED
    BY <1>1, <1>2, <1>3 DEF LogInv

LEMMA EmitKeeps ==
  ASSUME LogInv, NEW w \in Writers, NEW e \in Events, Emit(w, e)
  PROVE  LogInv'
  <1>1. /\ UNCHANGED file /\ UNCHANGED buffer /\ UNCHANGED writing
        /\ UNCHANGED damaged /\ UNCHANGED change
    BY DEF Emit
  <1>2. events' \in [Writers -> Seq(Events)]
    <2>1. Append(events[w], e) \in Seq(Events)
      BY AppendProperties DEF LogInv, LogTyped
    <2>2. QED
      BY <2>1 DEF Emit, LogInv, LogTyped
  <1>3. QED
    BY <1>1, <1>2 DEF LogInv, LogTyped, Traced, InOrder, Shown

LEMMA StartKeeps ==
  ASSUME LogInv, NEW w \in Writers, Begin(w)
  PROVE  LogInv'
  <1> DEFINE parts == Parts(Chained(LastHash(file), events[w]))
  <1>1. /\ UNCHANGED file /\ UNCHANGED events /\ UNCHANGED change
        /\ writing' = writing \cup {w}
        /\ buffer' = [buffer EXCEPT ![w] = parts]
        /\ damaged' = (damaged \/ writing # {} \/ ToSet(events[w]) \cap Opaque # {})
    BY DEF Begin
  <1>2. parts \in Seq(HonestParts)
    BY StartBuffer DEF LogInv
  <1>3. ASSUME ~damaged', change' = <<>>
        PROVE  writing = {} /\ Good(AppendParts(file, parts))
    <2>1. ~damaged /\ change = <<>> /\ writing = {} /\ ToSet(events[w]) \cap Opaque = {}
      BY <1>1, <1>3
    <2>2. Good(file) /\ file \in Seq(Seq(AllParts)) /\ events[w] \in Seq(Events)
      BY <2>1 DEF LogInv, InOrder, LogTyped
    <2>3. QED
      BY <2>1, <2>2, StartGood
  <1> HIDE DEF parts
  <1>4. LogTyped'
    BY <1>1, <1>2 DEF LogInv, LogTyped
  <1>5. InOrder'
    <2>1. ASSUME ~damaged', change' = <<>>
          PROVE  writing' = {w} /\ buffer'[w] = parts /\ Good(AppendParts(file', parts))
      BY <1>1, <1>3, <2>1 DEF LogInv, LogTyped
    <2>2. QED
      BY <2>1 DEF InOrder
  <1>6. QED
    BY <1>1, <1>4, <1>5 DEF LogInv, Traced, Shown

LEMMA FlushKeeps ==
  ASSUME LogInv, NEW w \in Writers, NEW n \in DOMAIN buffer[w], Flush(w, n)
  PROVE  LogInv'
  <1> DEFINE b == buffer[w]
             s == SubSeq(b, 1, n)
             t == SubSeq(b, n + 1, Len(b))
  <1>1. /\ UNCHANGED events /\ UNCHANGED writing /\ UNCHANGED damaged /\ UNCHANGED change
        /\ w \in writing /\ file' = AppendParts(file, s) /\ buffer' = [buffer EXCEPT ![w] = t]
    BY DEF Flush
  <1>2. b \in Seq(HonestParts) /\ DOMAIN b = 1 .. Len(b) /\ Len(b) \in Nat
    <2>1. b \in Seq(HonestParts)
      BY DEF LogInv, LogTyped
    <2> HIDE DEF b
    <2>2. QED
      BY <2>1, LenProperties
  <1> HIDE DEF b
  <1>3. n \in 1 .. Len(b)
    BY <1>2 DEF b
  <1>4. /\ s \in Seq(HonestParts) /\ t \in Seq(HonestParts) /\ s \o t = b
    <2>1. \A i \in 1 .. Len(b) : b[i] \in HonestParts
      BY <1>2, ElementOfSeq
    <2>2. /\ s \in Seq(HonestParts) /\ Len(s) = n
          /\ \A i \in 1 .. n : s[i] = b[i]
      <3>1. \A i \in 1 .. n : i \in 1 .. Len(b)
        BY <1>2, <1>3
      <3>2. /\ s \in Seq(HonestParts)
            /\ Len(s) = IF 1 <= n THEN n - 1 + 1 ELSE 0
            /\ \A i \in 1 .. n - 1 + 1 : s[i] = b[1 + i - 1]
        BY <1>3, <2>1, <3>1, SubSeqProperties
      <3> HIDE DEF s
      <3>3. QED
        BY <1>3, <3>2
    <2>3. /\ t \in Seq(HonestParts) /\ Len(t) = Len(b) - n
          /\ \A i \in 1 .. Len(b) - n : t[i] = b[n + i]
      <3>1. \A i \in n + 1 .. Len(b) : i \in 1 .. Len(b)
        BY <1>2, <1>3
      <3>2. /\ t \in Seq(HonestParts)
            /\ Len(t) = IF n + 1 <= Len(b) THEN Len(b) - (n + 1) + 1 ELSE 0
            /\ \A i \in 1 .. Len(b) - (n + 1) + 1 : t[i] = b[(n + 1) + i - 1]
        BY <1>2, <1>3, <2>1, <3>1, SubSeqProperties, SMTT(30)
      <3> HIDE DEF t
      <3>3. Len(t) = Len(b) - n
        BY <1>2, <1>3, <3>2
      <3>4. ASSUME NEW i \in 1 .. Len(b) - n
            PROVE  t[i] = b[n + i]
        <4>1. i \in 1 .. Len(b) - (n + 1) + 1 /\ (n + 1) + i - 1 = n + i
          BY <1>2, <1>3
        <4>2. QED
          BY <3>2, <4>1
      <3>5. QED
        BY <3>2, <3>3, <3>4
    <2> HIDE DEF s, t
    <2> DEFINE u == s \o t
    <2>4. /\ u \in Seq(HonestParts) /\ Len(u) = Len(b)
          /\ \A i \in 1 .. Len(b) : u[i] = IF i <= n THEN s[i] ELSE t[i - n]
      <3>1. Len(s) + Len(t) = Len(b)
        BY <1>2, <1>3, <2>2, <2>3
      <3>2. /\ u \in Seq(HonestParts) /\ Len(u) = Len(s) + Len(t)
            /\ \A i \in 1 .. Len(s) + Len(t) :
                 u[i] = IF i <= Len(s) THEN s[i] ELSE t[i - Len(s)]
        BY <2>2, <2>3, ConcatProperties, SMTT(30)
      <3> HIDE DEF u
      <3>3. QED
        BY <2>2, <3>1, <3>2
    <2> HIDE DEF u
    <2>5. ASSUME NEW i \in 1 .. Len(b)
          PROVE  u[i] = b[i]
      <3>1. CASE i <= n
        BY <2>2, <2>4, <3>1
      <3>2. CASE i > n
        <4>1. i - n \in 1 .. Len(b) - n /\ n + (i - n) = i
          BY <1>2, <1>3, <3>2
        <4>2. t[i - n] = b[i]
          BY <2>3, <4>1
        <4>3. QED
          BY <1>2, <1>3, <2>4, <3>2, <4>2
      <3>3. i <= n \/ i > n
        BY <1>2, <1>3
      <3>4. QED
        BY <3>1, <3>2, <3>3
    <2>6. u = b
      BY <1>2, <2>4, <2>5, SeqEqual
    <2>7. QED
      BY <2>2, <2>3, <2>6 DEF u
  <1> HIDE DEF s, t
  <1>5. file' \in Seq(Seq(AllParts)) /\ Traced'
    BY <1>1, <1>4, AppendKeeps DEF LogInv
  <1>6. LogTyped'
    BY <1>1, <1>4, <1>5 DEF LogInv, LogTyped
  <1>7. AppendParts(file', t) = AppendParts(file, b)
    <2>1. s \in Seq(AllParts) /\ t \in Seq(AllParts) /\ file \in Seq(Seq(AllParts))
      BY <1>4, HonestTypes DEF LogInv, LogTyped
    <2>2. AppendParts(file, s \o t) = AppendParts(AppendParts(file, s), t)
      BY <2>1, AppendInPieces
    <2>3. QED
      BY <1>1, <1>4, <2>2
  <1>8. InOrder'
    <2>1. ASSUME ~damaged', change' = <<>>
          PROVE  /\ \A v \in writing' : v = w
                 /\ writing' # {}
                 /\ Good(AppendParts(file', buffer'[w]))
      <3>1. /\ \A v, u \in writing : v = u
            /\ Good(AppendParts(file, b))
        BY <1>1, <2>1 DEF LogInv, InOrder, b
      <3>2. buffer'[w] = t
        BY <1>1 DEF LogInv, LogTyped
      <3>3. QED
        BY <1>1, <1>7, <3>1, <3>2
    <2>2. QED
      BY <2>1 DEF InOrder
  <1>9. QED
    BY <1>1, <1>5, <1>6, <1>8 DEF LogInv

LEMMA CloseKeeps ==
  ASSUME LogInv, NEW w \in Writers, Close(w)
  PROVE  LogInv'
  <1>1. /\ UNCHANGED events /\ UNCHANGED damaged /\ UNCHANGED change /\ w \in writing
        /\ file' = AppendParts(file, buffer[w]) /\ buffer' = [buffer EXCEPT ![w] = <<>>]
        /\ writing' = writing \ {w}
    BY DEF Close
  <1>2. buffer[w] \in Seq(HonestParts) /\ <<>> \in Seq(HonestParts)
    BY DEF LogInv, LogTyped
  <1>3. file' \in Seq(Seq(AllParts)) /\ Traced'
    BY <1>1, <1>2, AppendKeeps DEF LogInv
  <1>4. LogTyped'
    BY <1>1, <1>2, <1>3 DEF LogInv, LogTyped
  <1>5. InOrder'
    <2>1. ASSUME ~damaged', change' = <<>>
          PROVE  writing' = {} /\ Good(file')
      BY <1>1, <2>1 DEF LogInv, InOrder
    <2>2. QED
      BY <2>1 DEF InOrder
  <1>6. QED
    BY <1>1, <1>3, <1>4, <1>5 DEF LogInv

LEMMA CrashKeeps ==
  ASSUME LogInv, NEW w \in Writers, Crash(w)
  PROVE  LogInv'
  <1>1. /\ UNCHANGED file /\ UNCHANGED change /\ damaged'
        /\ events' = [events EXCEPT ![w] = <<>>] /\ buffer' = [buffer EXCEPT ![w] = <<>>]
        /\ writing' = writing \ {w}
    BY DEF Crash
  <1>2. LogTyped'
    BY <1>1 DEF LogInv, LogTyped
  <1>3. QED
    BY <1>1, <1>2 DEF LogInv, Traced, InOrder, Shown

LEMMA AlterKeeps ==
  ASSUME LogInv, NEW i \in DOMAIN file, NEW e \in Events \cup {Bare, Nothing}, Alter(i, e)
  PROVE  LogInv'
  <1>1. /\ UNCHANGED events /\ UNCHANGED buffer /\ UNCHANGED writing
        /\ change' = <<file[i][1].record.event, e>>
    BY DEF Alter
  <1>2. /\ file' \in Seq(Seq(AllParts)) /\ i \in DOMAIN file'
        /\ change' # <<Bare, Nothing>> => Forged(file'[i])
    BY <1>1, AlterForges DEF LogInv
  <1>3. change' # <<>>
    BY <1>1
  <1>4. QED
    BY <1>1, <1>2, <1>3 DEF LogInv, LogTyped, Traced, Shown, InOrder

\* One step for each action.
LEMMA NextKeeps == LogInv /\ [LogNext]_logVars => LogInv'
  <1> SUFFICES ASSUME LogInv, [LogNext]_logVars PROVE LogInv'
    OBVIOUS
  <1>1. ASSUME NEW w \in Writers, NEW e \in Events, Emit(w, e) PROVE LogInv'
    BY <1>1, EmitKeeps
  <1>2. ASSUME NEW w \in Writers, Begin(w) PROVE LogInv'
    BY <1>2, StartKeeps
  <1>3. ASSUME NEW w \in Writers, Close(w) PROVE LogInv'
    BY <1>3, CloseKeeps
  <1>4. ASSUME NEW w \in Writers, Crash(w) PROVE LogInv'
    BY <1>4, CrashKeeps
  <1>5. ASSUME NEW w \in Writers, NEW n \in DOMAIN buffer[w], Flush(w, n) PROVE LogInv'
    BY <1>5, FlushKeeps
  <1>6. ASSUME NEW i \in DOMAIN file, NEW e \in Forgeries, Alter(i, e) PROVE LogInv'
    BY <1>6, AlterKeeps, LogAssumption
  <1>7. CASE UNCHANGED logVars
    BY <1>7 DEF logVars, LogInv, LogTyped, Traced, InOrder, Shown
  <1>8. QED
    BY <1>1, <1>2, <1>3, <1>4, <1>5, <1>6, <1>7 DEF LogNext

LEMMA Invariance == LogSpec => []LogInv
  <1>1. LogInv /\ [LogNext]_logVars => LogInv'
    BY NextKeeps
  <1>2. QED
    BY LogInitInv, <1>1, PTL DEF LogSpec

\* However many events a sample has and wherever the flushes of a call cut its lines, a
\* log that one call at a time wrote verifies (write_transcript_secure,
\* verify_transcript), and every call goes on with the chain of the one before: without
\* a crash, an overlap of calls or an event that json cannot write so far.
THEOREM HonestLogsVerify == LogSpec => []HonestVerifies
  <1>1. LogInv => HonestVerifies
    BY VerifiesGood DEF LogInv, LogTyped, InOrder, HonestVerifies
  <1>2. QED
    BY Invariance, <1>1, PTL

\* A record whose event was changed is never verified again: not after more calls, not
\* after calls that overlap, and not when a crash leaves half a line behind it.  The one
\* change that is not found is that of a minimal record's event to {}, over which its
\* hash was taken.
THEOREM AlterationsShow == LogSpec => []AlterationShows
  <1>1. ASSUME LogInv, Shown
        PROVE  ~Verify(file)
    <2>1. PICK i \in DOMAIN file : Forged(file[i])
      BY <1>1 DEF LogInv, Traced
    <2>2. ~Good(file)
      BY <2>1 DEF Good, Linked, Forged
    <2>3. QED
      BY <1>1, <2>2, VerifiesGood DEF LogInv, LogTyped
  <1>2. LogInv => AlterationShows
    BY <1>1 DEF AlterationShows, Shown
  <1>3. QED
    BY Invariance, <1>2, PTL
=============================================================================
