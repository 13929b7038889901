---------------------------- MODULE MCVendingMemory ----------------------------
(***************************************************************************)
(* Two notes condensed by two summaries, or one and an embedded text, over *)
(* any number of crashes and resumes; two days.                            *)
(***************************************************************************)
EXTENDS VendingMemory
MCTtlDays == {0, 1}
MCTopNs == {1, 2}
================================================================================
