----------------------------- MODULE MCApprovals -----------------------------
(***************************************************************************)
(* Small instances of Approvals for TLC.                                   *)
(***************************************************************************)
EXTENDS Approvals

CONSTANTS transfer_a, transfer_b, write_file, read_file

MCHandoffs == {transfer_a, transfer_b}

\* Every message of one to three calls.
MCTurns == UNION {[1 .. n -> Functions] : n \in 1 .. 3}

Entry(tools, decision) ==
  [tools |-> tools, decision |-> decision, allowAccept |-> TRUE, allowEdit |-> TRUE]

\* The example of docs/how-to/approvals.md, cut down to two entries.
TwoEntries == << Entry({write_file}, "reject"), Entry({read_file}, "approve") >>

\* The presets, and the chains a caller builds.
MCChains ==
  { <<>>, Preset("ci"), Preset("dev"), Preset("prod"),
    ApprovalChain(<<>>, TRUE, TRUE),
    ApprovalChain(Preset("ci"), FALSE, TRUE),
    ApprovalChain(<<Policy("dev_gate"), Policy("reject_all")>>, FALSE, TRUE),
    ApprovalChain(FromInterruptConfig(TwoEntries), TRUE, TRUE),
    ApprovalChain(FromInterruptConfig(TwoEntries), FALSE, FALSE) }

GateChains == { Preset("ci"), Preset("dev"), Preset("prod") }
ConfigChains == { FromInterruptConfig(TwoEntries) }

\* The decision of an entry is that of its own tool (approval_from_interrupt_config).
PerToolConfig == ByOwnEntry(TwoEntries)
=============================================================================
