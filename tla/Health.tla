------------------------------- MODULE Health -------------------------------
(***************************************************************************)
(* The gateway's prober (internal/dataplane/health): sweeps that ask every *)
(* backend of the serving snapshot what it publishes, the registry of what *)
(* was last seen, and the tools a strict server must not serve. A sweep    *)
(* reads the snapshot once and probes its bindings concurrently; snapshots *)
(* are swapped and backends redeployed while it runs.                      *)
(*                                                                         *)
(* A definition is its schema and its prose, what the two digests tell     *)
(* apart. A time stamp is whether the grace window has passed since.       *)
(***************************************************************************)
CONSTANTS
    Targets,     \* (server, tenant) pairs
    Tools,       \* names as the backends publish them
    Definitions, \* records [schema, prose]
    Names,       \* qualified names, as clients see them
    Snapshots,   \* [Targets -> None or [mode, admitted : [Tools -> Definitions or None],
                 \*                      names : [Tools -> Names]]]
    Catalogs,    \* what backends publish: [Tools -> Definitions or None]
    Down,        \* what a backend that does not answer returns to a probe
    Garbled,     \* an answer that will not canonicalize
    None

ASSUME HealthAssumption ==
    /\ \A s \in Snapshots, t \in Targets :
         s[t] # None => /\ s[t].mode \in {"strict", "advisory"}
                        /\ s[t].admitted \in [Tools -> Definitions \cup {None}]
                        /\ s[t].names \in [Tools -> Names]
    /\ Catalogs \subseteq [Tools -> Definitions \cup {None}]
    /\ None \notin Snapshots /\ None \notin Definitions /\ None \notin Names
    /\ {Down, Garbled, None} \cap Catalogs = {}
    /\ Down # Garbled /\ Down # None /\ Garbled # None

VARIABLES
    serving,   \* snapshot.Store.current
    backend,   \* [Targets -> what is deployed there]
    registry,  \* Registry.backends: [Targets -> condition or None]
    view,      \* the snapshot of the sweep that runs, or None
    left,      \* its bindings that have not reported
    answer     \* [Targets -> what ListTools returned to a probe, or None]

vars == <<serving, backend, registry, view, left, answer>>

Broken == {Down, Garbled}
Kinds == {"semantic", "removed", "cosmetic", "added"}
Drifts == [tool : Tools, name : Names \cup {None}, kind : Kinds]
States == {"healthy", "degraded", "unavailable", "drifted"}
Conditions == [state : States, mode : {"strict", "advisory"}, drift : SUBSET Drifts,
               succeeded : {"never", "recently", "long ago"}]

ASSUME ConditionsAssumption == None \notin Conditions

(* Semantic and removed drift make a tool unfit to serve. *)
Blocking(drift) == {d \in drift : d.kind \in {"semantic", "removed"}}

TypeOK ==
    /\ serving \in Snapshots \cup {None} /\ view \in Snapshots \cup {None}
    /\ backend \in [Targets -> Catalogs \cup Broken]
    /\ answer \in [Targets -> Catalogs \cup Broken \cup {None}]
    /\ left \subseteq Targets
    /\ \A t \in Targets :
         /\ answer[t] # None => t \in left
         /\ registry[t] # None =>
              LET r == registry[t]
              IN  /\ r \in Conditions
                  /\ r.state = "healthy" => Blocking(r.drift) = {}
                  /\ r.succeeded = "never" => r.state = "unavailable" /\ r.drift = {}

Init ==
    /\ serving \in Snapshots \cup {None}
    /\ backend \in [Targets -> Catalogs \cup Broken]
    /\ registry = [t \in Targets |-> None]
    /\ view = None /\ left = {}
    /\ answer = [t \in Targets |-> None]

Bound(s) == {t \in Targets : s[t] # None}

-----------------------------------------------------------------------------
(* Drift *)

Admitted(t) == view[t].admitted

(* A drift keeps the qualified name the tool had in the view it was found by. *)
Drift(t, kind, tools) ==
    {[tool |-> x, name |-> view[t].names[x], kind |-> kind] : x \in tools}

(* A tool that was not admitted has no qualified name. *)
Added(t, observed) ==
    {[tool |-> x, name |-> None, kind |-> "added"] :
       x \in {y \in Tools : Admitted(t)[y] = None /\ observed[y] # None}}

Diff_ByFullDigest(t, observed) ==
    LET shared == {x \in Tools : Admitted(t)[x] # None /\ observed[x] # None}
    IN  Drift(t, "removed", {x \in Tools : Admitted(t)[x] # None /\ observed[x] = None})
          \cup Drift(t, "semantic", {x \in shared : observed[x] # Admitted(t)[x]})
          \cup Added(t, observed)

(* What a backend publishes against what the view admitted for that tenant. *)
Diff(t, observed) ==
    LET shared == {x \in Tools : Admitted(t)[x] # None /\ observed[x] # None}
        schema(x) == observed[x].schema # Admitted(t)[x].schema
    IN  Drift(t, "removed", {x \in Tools : Admitted(t)[x] # None /\ observed[x] = None})
          \cup Drift(t, "semantic", {x \in shared : schema(x)})
          \cup Drift(t, "cosmetic", {x \in shared : ~schema(x) /\ observed[x] # Admitted(t)[x]})
          \cup Added(t, observed)

(* The qualified names a binding must not serve; calls are looked up by name *)
(* among those of all bindings.                                              *)
BlockedTools(t) ==
    IF registry[t] = None \/ registry[t].mode # "strict" THEN {}
    ELSE {d.name : d \in Blocking(registry[t].drift)}

Unreachable_AlwaysInGrace(succeeded) ==
    IF succeeded = "long ago" THEN "unavailable" ELSE "degraded"

(* classify: after a probe that failed, and after one that answered *)
Unreachable(succeeded) == IF succeeded = "recently" THEN "degraded" ELSE "unavailable"
Answering(drift) == IF Blocking(drift) = {} THEN "healthy" ELSE "drifted"

-----------------------------------------------------------------------------
(* Sweeps *)

BeginSweep_ForgetsNothing ==
    /\ view = None /\ serving # None
    /\ view' = serving /\ left' = Bound(serving)
    /\ UNCHANGED <<serving, backend, registry, answer>>

(* Registry.Forget drops the conditions of bindings that are not to be kept. *)
Forget(keep) == registry' = [t \in Targets |-> IF t \in keep THEN registry[t] ELSE None]

BeginSweep ==
    /\ view = None /\ serving # None
    /\ view' = serving /\ left' = Bound(serving)
    /\ Forget(Bound(serving))
    /\ UNCHANGED <<serving, backend, answer>>

Ask(t) ==
    /\ t \in left /\ answer[t] = None
    /\ answer' = [answer EXCEPT ![t] = backend[t]]
    /\ UNCHANGED <<serving, backend, registry, view, left>>

Previous(t) ==
    IF registry[t] = None THEN [succeeded |-> "never", drift |-> {}] ELSE registry[t]

Condition(t, state, drift, succeeded) ==
    [state |-> state, mode |-> view[t].mode, drift |-> drift, succeeded |-> succeeded]

Observed_ClearedByErrors(t) ==
    CASE answer[t] = Down ->
           Condition(t, Unreachable(Previous(t).succeeded), {}, Previous(t).succeeded)
      [] answer[t] = Garbled -> Condition(t, "drifted", {}, "recently")
      [] OTHER ->
           LET drift == Diff(t, answer[t])
           IN  Condition(t, Answering(drift), drift, "recently")

(* A backend that is down, or whose catalog cannot be read, has not stopped *)
(* being drifted: what was known of it is kept.                             *)
Observed(t) ==
    CASE answer[t] = Down ->
           Condition(t, Unreachable(Previous(t).succeeded), Previous(t).drift, Previous(t).succeeded)
      [] answer[t] = Garbled -> Condition(t, "drifted", Previous(t).drift, "recently")
      [] OTHER ->
           LET drift == Diff(t, answer[t])
           IN  Condition(t, Answering(drift), drift, "recently")

Report(t) ==
    /\ answer[t] # None
    /\ registry' = [registry EXCEPT ![t] = Observed(t)]
    /\ answer' = [answer EXCEPT ![t] = None]
    /\ left' = left \ {t}
    /\ UNCHANGED <<serving, backend, view>>

EndSweep ==
    /\ view # None /\ left = {}
    /\ view' = None
    /\ UNCHANGED <<serving, backend, registry, left, answer>>

-----------------------------------------------------------------------------
(* What happens around them *)

Activate ==
    /\ serving' \in Snapshots /\ serving' # serving
    /\ UNCHANGED <<backend, registry, view, left, answer>>

Deploy(t) ==
    /\ \E what \in (Catalogs \cup Broken) \ {backend[t]} : backend' = [backend EXCEPT ![t] = what]
    /\ UNCHANGED <<serving, registry, view, left, answer>>

GraceElapses(t) ==
    /\ registry[t] # None /\ registry[t].succeeded = "recently"
    /\ registry' = [registry EXCEPT ![t].succeeded = "long ago"]
    /\ UNCHANGED <<serving, backend, view, left, answer>>

Sweep == BeginSweep \/ EndSweep \/ \E t \in Targets : Ask(t) \/ Report(t)

Next ==
    \/ Sweep \/ Activate
    \/ \E t \in Targets : Deploy(t) \/ GraceElapses(t)

Spec == Init /\ [][Next]_vars

(* The ticker begins sweeps, a probe answers or times out, and time passes. *)
Fairness == WF_vars(Sweep) /\ \A t \in Targets : WF_vars(GraceElapses(t))

FairSpec == Spec /\ Fairness

-----------------------------------------------------------------------------
(* Properties *)

(* "A backend removed from the registry would keep its last condition forever": *)
(* while a sweep runs, whatever is known, and so whatever is blocked, belongs   *)
(* to a binding of the snapshot it sweeps (state.go:158-160).                   *)
OnlySweptTargets ==
    view # None => \A t \in Targets : registry[t] # None => t \in Bound(view)

(* Nothing lifts the block of a strict server's name but a catalog in which the *)
(* tool that now has the name, if one does, has the schema that was admitted, a *)
(* snapshot without the binding or with it advisory: not an outage, not a       *)
(* garbled answer, not a swap, not time (prober.go:253-256).                    *)
BlocksAreLiftedByCatalogs ==
    [][\A t \in Targets : \A n \in BlockedTools(t) \ BlockedTools(t)' :
         \/ registry'[t] = None \/ registry'[t].mode = "advisory"
         \/ /\ answer[t] \in Catalogs
            /\ \A x \in Tools :
                 \/ view[t].names[x] # n \/ Admitted(t)[x] = None
                 \/ answer[t][x] # None /\ answer[t][x].schema = Admitted(t)[x].schema]_vars

(* A tool the backend does not have, or not with the schema that was admitted. *)
Unfit(t, x) ==
    /\ serving[t].admitted[x] # None
    /\ backend[t][x] # None => backend[t][x].schema # serving[t].admitted[x].schema

(* What a settled world looks like to the prober. *)
Right(t) ==
    IF serving = None \/ serving[t] = None THEN registry[t] = None
    ELSE /\ registry[t] # None /\ registry[t].mode = serving[t].mode
         /\ backend[t] = Down => registry[t].state = "unavailable"
         /\ backend[t] = Garbled => registry[t].state = "drifted"
         /\ backend[t] \notin Broken =>
              /\ registry[t].state = IF \E x \in Tools : Unfit(t, x) THEN "drifted" ELSE "healthy"
              /\ BlockedTools(t) = IF serving[t].mode # "strict" THEN {}
                                   ELSE {serving[t].names[x] : x \in {y \in Tools : Unfit(t, y)}}

(* Once a snapshot keeps serving and a backend stays as it is, the prober comes *)
(* to the right conclusion about it and keeps to it, whatever a sweep over an   *)
(* older snapshot was still to report: what is drifted is blocked, under the    *)
(* name it is served by, and what a publish reinstated is served again (ADR     *)
(* 0006).                                                                       *)
SettlesOnTheTruth ==
    \A t \in Targets :
        <>[][UNCHANGED <<serving, backend[t]>>]_vars => <>[]Right(t)
=============================================================================
