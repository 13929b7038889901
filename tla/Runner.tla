------------------------------- MODULE Runner --------------------------------
(***************************************************************************)
(* Agents built and run in one process (agents.py, tool_presets.py,        *)
(* run.py, profiles.py): the environment a build reads and the profile of  *)
(* a run writes, the model an agent is built with, the timer that warns    *)
(* before a time limit, and what the caller of a run is handed.  The runs  *)
(* share the environment and an event loop, which another run gets only    *)
(* where one of them suspends.                                             *)
(***************************************************************************)
EXTENDS Naturals, ModelResolution

CONSTANTS
  Runs,       \* calls of run_agent
  Profiles,   \* values of INSPECT_PROFILE: records of t and h
  NoProfile,
  Limits,     \* time limits a run may be given, in seconds
  NoLimit,
  Near,       \* when the timer of a limit fires, INSPECT_LIMIT_NEARING_THRESHOLD
  Requests,   \* arguments of resolve_model
  ModelEnvs   \* variables resolve_model reads

ASSUME RunnerAssumption ==
  /\ NoProfile \notin Profiles
  /\ NoLimit \notin Limits /\ Limits \subseteq Nat
  /\ Near \in [Limits -> Nat] /\ \A l \in Limits : Near[l] < l

VARIABLES
  profile,  \* INSPECT_PROFILE
  env,      \* the variables a profile writes
  latest,   \* the profile of the last run, until the caller sets a toggle
  run       \* the runs

runnerVars == <<profile, env, latest, run>>

Toggles == {"exec", "browser", "search"}
Guards == {"readOnly", "preflight", "sandbox"}

NewRun ==
  [phase |-> "new", tools |-> {}, keyed |-> FALSE,
   limit |-> NoLimit, elapsed |-> 0, timer |-> "none", suspended |-> FALSE,
   warned |-> FALSE, error |-> FALSE, outcome |-> "none"]

RunnerInit ==
  /\ profile = NoProfile
  /\ env = [v \in Toggles \cup Guards |-> Unset]
  /\ latest = NoProfile
  /\ run = [r \in Runs |-> NewRun]

-----------------------------------------------------------------------------
(* The environment.                                                        *)

SetProfile(p) ==
  /\ profile # p
  /\ profile' = p
  /\ UNCHANGED <<env, latest, run>>

\* The caller sets a toggle or a guard by hand.
CallerSets(v, value) ==
  /\ env[v] # value
  /\ env' = [env EXCEPT ![v] = value]
  /\ latest' = IF v \in Toggles THEN NoProfile ELSE latest
  /\ UNCHANGED <<profile, run>>

\* _apply_tooling_env, keeping what is set.
ToggledByDefault(t, e) ==
  LET values == CASE t = "T2" -> [v \in Toggles |-> "0"]
                  [] t = "T1" -> [v \in Toggles |-> IF v = "search" THEN "1" ELSE "0"]
                  [] t = "T0" -> [v \in Toggles |-> IF v = "exec" THEN "1" ELSE e[v]]
  IN [v \in DOMAIN e |-> IF v \in Toggles /\ e[v] = Unset THEN values[v] ELSE e[v]]

\* _apply_tooling_env: the toggles of the profile, over what is set.  The least strict
\* profile leaves the browser and the search alone.
Toggled(t, e) ==
  LET values == CASE t = "T2" -> [v \in Toggles |-> "0"]
                  [] t = "T1" -> [v \in Toggles |-> IF v = "search" THEN "1" ELSE "0"]
                  [] t = "T0" -> [v \in Toggles |-> IF v = "exec" THEN "1" ELSE e[v]]
  IN [v \in DOMAIN e |-> IF v \in Toggles THEN values[v] ELSE e[v]]

Provider(h) == CASE h = "H0" -> "local" [] h = "H1" -> "docker"
                 [] h = "H2" -> "k8s" [] h = "H3" -> "proxmox"

\* resolve_profile_from_env and run_agent: host isolation is hardened, and the sandbox
\* named, where nothing is set.
Hardened(h, e) ==
  LET values == [readOnly |-> IF h = "H0" THEN Unset ELSE "1",
                 preflight |-> IF h = "H0" THEN Unset ELSE "force",
                 sandbox |-> Provider(h)]
  IN [v \in DOMAIN e |-> IF v \in Guards THEN Given(e[v], values[v]) ELSE e[v]]

-----------------------------------------------------------------------------
(* Building.                                                               *)

\* Nobody needs a key, or it is there.  Kept for a property.
Keyed(found, request, modelEnv) ==
  found.ok /\ found.model.provider \in Remote =>
    \/ found.model.provider \in modelEnv.keys
    \/ SpelledOut(found.model, request, modelEnv)

\* The standard tools the toggles enable at that moment; the search has no provider of
\* its own here.
Enabled(e) == {v \in Toggles : e[v] = "1"}

\* An agent is built, with the tools of that moment.  A model that cannot be resolved is an error.
Build(r, request, modelEnv) ==
  /\ run[r].phase = "new"
  /\ Resolvable(request, modelEnv)
  /\ run' = [run EXCEPT ![r] =
       [@ EXCEPT !.phase = "built",
                 !.tools = Enabled(env),
                 !.keyed = Keyed(Resolve(request, modelEnv), request, modelEnv)]]
  /\ UNCHANGED <<profile, env, latest>>

-----------------------------------------------------------------------------
(* run_agent.                                                              *)

\* Up to the call of the library's run: the profile is applied and the timer of the
\* smallest time limit is scheduled as a task.
Start(r, limit) ==
  /\ run[r].phase = "built"
  /\ IF profile = NoProfile THEN UNCHANGED <<env, latest>>
     ELSE /\ env' = Hardened(profile.h, Toggled(profile.t, env))
          /\ latest' = profile
  /\ run' = [run EXCEPT ![r].phase = "running",
                        ![r].limit = limit,
                        ![r].timer = IF limit = NoLimit THEN "none" ELSE "scheduled"]
  /\ UNCHANGED profile

\* The run suspends for the first time: the loop lets the task of the timer begin.
Suspend(r) ==
  /\ run[r].phase = "running"
  /\ ~run[r].suspended
  /\ run' = [run EXCEPT ![r].suspended = TRUE,
                        ![r].timer = IF @ = "scheduled" THEN "sleeping" ELSE @]
  /\ UNCHANGED <<profile, env, latest>>

\* A second of a run that waits.  The library ends a run at its time limit.
Tick(r) ==
  /\ run[r].phase = "running"
  /\ run[r].suspended
  /\ run[r].limit # NoLimit
  /\ run[r].elapsed < run[r].limit
  /\ run' = [run EXCEPT ![r].elapsed = @ + 1]
  /\ UNCHANGED <<profile, env, latest>>

\* The timer has slept for its time, and warns.
Warn(r) ==
  /\ run[r].timer = "sleeping"
  /\ run[r].elapsed >= Near[run[r].limit]
  /\ run' = [run EXCEPT ![r].timer = "fired", ![r].warned = TRUE]
  /\ UNCHANGED <<profile, env, latest>>

\* The timer goes on.
NotCancelled(timer) == timer

\* A timer that does not catch its cancellation.
CancelledUncaught(timer) == IF timer \in {"scheduled", "sleeping"} THEN "thrown" ELSE timer

\* Cancelling the timer: a task that has begun catches it, one that has not is
\* cancelled before its try, and the await of it throws.
Cancelled(timer) ==
  CASE timer = "scheduled" -> "thrown"
    [] timer = "sleeping" -> "cancelled"
    [] OTHER -> timer

\* The library's run is over, with or without a limit error, and the timer is cancelled.
End(r, error) ==
  /\ run[r].phase = "running"
  /\ error => run[r].suspended /\ run[r].limit # NoLimit
  /\ run' = [run EXCEPT ![r].phase = "ended",
                        ![r].error = error,
                        ![r].timer = Cancelled(@)]
  /\ UNCHANGED <<profile, env, latest>>

\* raise_on_limit comes before return_limit_error; without limits there is no pair.
HandBack(r, raises, returns) ==
  /\ run[r].phase = "ended"
  /\ run' = [run EXCEPT
       ![r].phase = "returned",
       ![r].outcome = CASE run[r].timer = "thrown" -> "cancelled"
                        [] run[r].timer # "thrown" /\ run[r].error /\ raises -> "raised"
                        [] OTHER -> IF returns /\ run[r].limit # NoLimit THEN "pair"
                                    ELSE "state"]
  /\ UNCHANGED <<profile, env, latest>>

RunnerNext ==
  \/ \E p \in Profiles \cup {NoProfile} : SetProfile(p)
  \/ \E v \in {"exec", "readOnly"}, value \in {"0", "1"} : CallerSets(v, value)
  \/ \E r \in Runs :
       \/ \E request \in Requests, modelEnv \in ModelEnvs : Build(r, request, modelEnv)
       \/ \E limit \in Limits \cup {NoLimit} : Start(r, limit)
       \/ Suspend(r) \/ Tick(r) \/ Warn(r)
       \/ \E error \in BOOLEAN : End(r, error)
       \/ \E raises, returns \in BOOLEAN : HandBack(r, raises, returns)

RunnerSpec == RunnerInit /\ [][RunnerNext]_runnerVars

-----------------------------------------------------------------------------
(* Properties.                                                             *)

\* The warning comes while its run goes on, near the limit, and once ("no stray logs").
WarnedInTime ==
  [][\A r \in Runs : run'[r].warned # run[r].warned =>
       /\ ~run[r].warned
       /\ run[r].phase = "running"
       /\ run[r].elapsed >= Near[run[r].limit]]_runnerVars

\* A run that suspended at least once hands its caller a result or its limit error.
Delivered ==
  \A r \in Runs : run[r].phase = "returned" /\ run[r].suspended =>
    run[r].outcome \in {"state", "pair", "raised"}

\* As above, of any run: "By default this returns only the agent state" (run.py).
ResultDelivered ==
  \A r \in Runs : run[r].phase = "returned" => run[r].outcome # "cancelled"

\* An agent is built with what is allowed at that moment.  After a run with a profile
\* of T1 or T2, and until the caller sets a toggle or a run has another profile, there
\* is no execution and no browser; and a model of a remote provider that nobody spelled
\* out in full has the key of its provider.
BuiltAsAllowed ==
  [][\A r \in Runs : run[r].phase = "new" /\ run'[r].phase = "built" =>
       /\ latest # NoProfile /\ latest.t \in {"T1", "T2"} =>
            run'[r].tools \cap {"exec", "browser"} = {}
       /\ run'[r].keyed]_runnerVars
=============================================================================
