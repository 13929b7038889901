-------------------------- MODULE MCTranscriptLog --------------------------
(***************************************************************************)
(* A small instance of TranscriptLog for TLC.                              *)
(***************************************************************************)
EXTENDS TranscriptLog, TLC

CONSTANTS w1, w2

MCWriters == {w1, w2}

\* The writers are alike.
Symmetry == Permutations(MCWriters)
=============================================================================
