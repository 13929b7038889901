--------------------------- MODULE ModelResolution ---------------------------
(***************************************************************************)
(* The model an agent is built with (model.py): what the caller asks for,  *)
(* what the role is mapped to, what the environment names, and the ladder  *)
(* of providers below.  A model is a provider and a tag; one without a     *)
(* provider is a tag alone.                                                *)
(***************************************************************************)

CONSTANTS
  Unset,      \* an argument or a variable that is not set, an empty one too
  Local,      \* ollama and lm-studio
  Ollama,     \* the provider that is the default
  Remote,     \* the providers with a key, openai-api/<vendor> among them
  Role,       \* the provider of an indirection, inspect/<role>
  LocalTag    \* the tag of a local provider that names none

ASSUME ModelAssumption ==
  /\ Ollama \in Local
  /\ Local \cap Remote = {}
  /\ {Unset, Role} \cap (Local \cup Remote) = {}

Model(provider, tag) == [provider |-> provider, tag |-> tag]
Prefixed(m) == m # Unset /\ m.provider # Unset

Found(m) == [ok |-> TRUE, model |-> m]
MissingKey == [ok |-> FALSE, model |-> Unset]
MissingTag == [ok |-> FALSE, model |-> Unset]

Given(x, y) == IF x # Unset THEN x ELSE y

\* What INSPECT_ROLE_<ROLE>_MODEL says, its provider being that of the model or
\* INSPECT_ROLE_<ROLE>_PROVIDER.  The latter alone is not a mapping.
RoleMapping(env) ==
  IF env.roleModel = Unset THEN Unset
  ELSE Model(Given(env.roleModel.provider, env.roleProvider), env.roleModel.tag)

\* The tag is the caller's, or that of the environment, or a default.
LocalModel(provider, tag, env) ==
  Found(Model(provider, Given(tag, Given(env.tags[provider], LocalTag))))

\* A remote provider needs its key, and a tag.
RemoteModel(provider, tag, env) ==
  IF provider \notin env.keys THEN MissingKey
  ELSE IF Given(tag, env.tags[provider]) = Unset THEN MissingTag
  ELSE Found(Model(provider, Given(tag, env.tags[provider])))

\* An unknown provider takes the tag it is given, and is replaced by the default
\* without one.
Ladder(provider, tag, env) ==
  CASE provider \in Local -> LocalModel(provider, tag, env)
    [] provider \in Remote -> RemoteModel(provider, tag, env)
    [] OTHER -> IF tag # Unset THEN Found(Model(provider, tag))
                ELSE Found(Model(Ollama, LocalTag))

\* resolve_model_explain: a full model wins, a role that is not mapped stays an indirection,
\* INSPECT_EVAL_MODEL (not "none/none") is next when no model is known, and the
\* provider is the one of the mapping, of the caller, of the environment or the default.
Resolve(args, env) ==
  LET byRole == args.model = Unset /\ args.role
      mapping == RoleMapping(env)
      tag == IF byRole /\ mapping # Unset THEN mapping.tag
             ELSE IF args.model # Unset THEN args.model.tag ELSE Unset
      provider == IF byRole /\ mapping # Unset THEN Given(mapping.provider, args.provider)
                  ELSE args.provider
  IN CASE Prefixed(args.model) -> Found(args.model)
       [] byRole /\ mapping = Unset -> Found(Model(Role, Unset))
       [] OTHER ->
            IF tag = Unset /\ Prefixed(env.evalModel) THEN Found(env.evalModel)
            ELSE Ladder(Given(provider, Given(env.provider, Ollama)), tag, env)

\* resolve_model, which raises when no model comes of it.
Resolvable(args, env) == Resolve(args, env).ok

\* The model is one somebody spelled out with its provider.
SpelledOut(m, args, env) == m \in {args.model, env.evalModel}
=============================================================================
