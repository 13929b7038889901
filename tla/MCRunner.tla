------------------------------ MODULE MCRunner -------------------------------
(***************************************************************************)
(* A small instance of Runner for TLC.                                     *)
(***************************************************************************)
EXTENDS Runner, TLC

CONSTANTS r1, r2, lmStudio, openai, unknown, gpt

MCNear == [l \in Limits |-> l - 1]
MCProfiles == { [t |-> "T2", h |-> "H2"], [t |-> "T0", h |-> "H0"] }

Request(model, provider, role) == [model |-> model, provider |-> provider, role |-> role]
MCRequests ==
  { Request(Unset, Unset, FALSE), Request(Unset, openai, FALSE), Request(Unset, Unset, TRUE),
    Request(Model(openai, gpt), Unset, FALSE), Request(Model(Unset, gpt), unknown, FALSE) }

\* A role mapped to a bare tag, INSPECT_EVAL_MODEL, DEEPAGENTS_MODEL_PROVIDER, the keys.
MCModelEnvs ==
  { [roleModel |-> rm, roleProvider |-> Unset, evalModel |-> em, provider |-> p,
     keys |-> keys, tags |-> [q \in Local \cup Remote |-> Unset]] :
      rm \in {Unset, Model(Unset, gpt)}, em \in {Unset, Model(openai, gpt)},
      p \in {Unset, openai}, keys \in SUBSET {openai} }

MCRuns == {r1, r2}
Symmetry == Permutations(MCRuns)
=============================================================================
