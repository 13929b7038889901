-------------------------- MODULE MCIterativeAgent --------------------------
(***************************************************************************)
(* Small instances of IterativeAgent for TLC.                              *)
(***************************************************************************)
EXTENDS IterativeAgent

Output(text, stop, calls) == [text |-> text, stop |-> stop, calls |-> calls]

\* An earlier exchange of the caller's history: a message with two calls.
Earlier ==
  << Assistant("said", << [id |-> <<0, 1>>, handoff |-> FALSE],
                          [id |-> <<0, 2>>, handoff |-> FALSE] >>),
     ToolResult(<<0, 1>>), ToolResult(<<0, 2>>) >>

MCHistories ==
  { <<>>, <<User("task")>>,
    <<System, User("task")>> \o Earlier \o <<User("more")>>,
    <<System>> \o Earlier \o <<User("task"), User("more")>> }

MCOutputs ==
  { Output("said", "stop", <<>>),
    Output("said", "stop", <<"tool">>),
    Output("said", "stop", <<"tool", "tool">>),
    Output("said", "stop", <<"tool", "handoff", "handoff">>),
    Output("said", "model_length", <<"tool">>) }

\* Answers whose calls are all executed.
PairedOutputs == { out \in MCOutputs : out.stop = "stop" }

AllOutputs == MCOutputs \cup { Output("done", "stop", <<>>) }
=============================================================================
